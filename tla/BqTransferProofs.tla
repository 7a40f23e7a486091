-------------------------- MODULE BqTransferProofs --------------------------
(***************************************************************************)
(* The safety properties of BqTransfer, for any jobs, sizes and threshold  *)
(* and any number of failed runs.                                          *)
(***************************************************************************)
EXTENDS BqTransfer, FiniteSetTheorems, TLAPS

(***************************************************************************)
(* The inductive invariant.                                                *)
(***************************************************************************)
\* A load of this job and these shards meets the threshold.
Enough(j, shards) ==
    /\ shards \subseteq ShardsOf(j)
    /\ IsCompleted([created |-> Cardinality(shards), expected |-> JobSize[j]])

\* Shard files are the job's own.
FilesAreOfTheJob == \A j \in Jobs : shardFiles[j] \subseteq ShardsOf(j)

\* What this run has listed is still true: shard files and metadata stay, and
\* a job the loop has not come to has been marked only if it was before.
SummaryIsSound ==
    \A j \in Jobs :
        /\ summary[j].created <= Cardinality(shardFiles[j])
        /\ summary[j].expected # 0 => j \in metadata /\ summary[j].expected = JobSize[j]
        /\ pc # "idle" /\ j \in left /\ j \in transferStatus => summary[j].transferred

\* Every load, under way or in the table, has enough of an announced job.  Of
\* this run there is at most the load it waits for.
LoadsAreSound ==
    /\ \A l \in loads :
        /\ l.job \in metadata
        /\ Enough(l.job, l.shards)
        /\ l.run <= faults
        /\ l.run = faults => pc = "wait" /\ l.job = current
    /\ \A l, o \in loads : l.run = faults /\ o.run = faults => l = o

\* The table holds in a day's partition a sufficient load of an announced job
\* of that day.
PartitionsAreSound ==
    \A j \in Jobs :
        LET l == partition[Day[j]]
        IN  l # Nothing => l.job \in JobsOfTheDay(j) /\ Enough(l.job, l.shards)

\* The job in hand has left the loop's list, and is in the table once its load
\* has ended.
CurrentIsSound ==
    /\ pc \in {"wait", "mark", "webhook"} => current \in Jobs /\ current \notin left
    /\ pc = "mark" => partition[Day[current]] # Nothing
    /\ pc = "webhook" => current \in transferStatus

\* Marked jobs are in the table, and only they were announced to the webhook.
MarksAreSound ==
    /\ \A j \in transferStatus : partition[Day[j]] # Nothing
    /\ pinged \subseteq transferStatus

IInv ==
    /\ TypeOK
    /\ FilesAreOfTheJob
    /\ SummaryIsSound
    /\ LoadsAreSound
    /\ PartitionsAreSound
    /\ CurrentIsSound
    /\ MarksAreSound

\* The invariant holds over an empty bucket and an empty table.
LEMMA InitIInv == Init => IInv
<1> SUFFICES ASSUME Init PROVE IInv
  OBVIOUS
<1> USE BqTransferAssumption DEF Init
<1>1. TypeOK
  BY DEF TypeOK
<1>2. SummaryIsSound
  BY FS_EmptySet DEF SummaryIsSound
<1>3. FilesAreOfTheJob /\ LoadsAreSound /\ PartitionsAreSound /\ CurrentIsSound /\ MarksAreSound
  BY DEF FilesAreOfTheJob, LoadsAreSound, PartitionsAreSound, CurrentIsSound, MarksAreSound
<1> QED
  BY <1>1, <1>2, <1>3 DEF IInv

(***************************************************************************)
(* Cardinalities and the threshold.                                        *)
(***************************************************************************)
\* Files of a job are finitely many, and more of them count for more.
LEMMA FilesCount ==
    ASSUME NEW j \in Jobs, NEW B, B \subseteq ShardsOf(j), NEW A, A \subseteq B
    PROVE  Cardinality(A) \in Nat /\ Cardinality(B) \in Nat /\ Cardinality(A) <= Cardinality(B)
<1>1. IsFiniteSet(ShardsOf(j))
  BY FS_Interval, BqTransferAssumption DEF ShardsOf
<1>2. IsFiniteSet(B)
  BY <1>1, FS_Subset
<1> QED
  BY <1>2, FS_Subset, FS_CardinalityType

\* IsCompleted does not turn false when more shards are created.
LEMMA MoreIsCompleted ==
    ASSUME NEW a \in Nat, NEW b \in Nat, a <= b, NEW n \in Nat,
           n > 0, a * ThresholdDen >= ThresholdNum * n
    PROVE  b * ThresholdDen >= ThresholdNum * n
<1>1. ThresholdDen \in Nat /\ ThresholdNum \in Nat
  BY BqTransferAssumption
<1>2. a * ThresholdDen <= b * ThresholdDen
  BY <1>1
<1>3. a * ThresholdDen \in Nat /\ b * ThresholdDen \in Nat /\ ThresholdNum * n \in Nat
  BY <1>1
<1> QED
  BY <1>2, <1>3

\* A job the summary calls complete has enough files now.
LEMMA ListedIsEnough ==
    ASSUME IInv, NEW j \in Jobs, IsCompleted(summary[j])
    PROVE  j \in metadata /\ Enough(j, shardFiles[j])
<1>1. summary[j].created \in Nat /\ summary[j].expected \in Nat
  BY DEF IInv, TypeOK
<1>2. /\ j \in metadata /\ summary[j].expected = JobSize[j] /\ JobSize[j] > 0
      /\ summary[j].created <= Cardinality(shardFiles[j])
  BY <1>1 DEF IInv, SummaryIsSound, IsCompleted
<1>3. shardFiles[j] \subseteq ShardsOf(j) /\ Cardinality(shardFiles[j]) \in Nat
  BY FilesCount DEF IInv, FilesAreOfTheJob
<1>4. Cardinality(shardFiles[j]) * ThresholdDen >= ThresholdNum * JobSize[j]
  BY <1>1, <1>2, <1>3, MoreIsCompleted DEF IsCompleted
<1> QED
  BY <1>2, <1>3, <1>4 DEF Enough, IsCompleted

\* A sufficient load has a shard.
LEMMA EnoughIsSome ==
    ASSUME NEW j \in Jobs, NEW shards, Enough(j, shards)
    PROVE  shards # {}
<1>1. Cardinality({}) = 0
  BY FS_EmptySet
<1>2. JobSize[j] \in Nat /\ ThresholdNum \in Nat /\ ThresholdNum > 0 /\ ThresholdDen \in Nat
  BY BqTransferAssumption
<1>3. SUFFICES ASSUME shards = {} PROVE FALSE
  OBVIOUS
<1>4. JobSize[j] > 0 /\ 0 * ThresholdDen >= ThresholdNum * JobSize[j]
  BY <1>1, <1>3 DEF Enough, IsCompleted
<1>5. ThresholdNum * JobSize[j] > 0
  BY <1>2, <1>4
<1> QED
  BY <1>2, <1>4, <1>5

(***************************************************************************)
(* The steps.                                                              *)
(***************************************************************************)
\* The bucket fills.
LEMMA BucketKeepsIInv ==
    ASSUME IInv, NEW j \in Jobs, Announce(j) \/ \E s \in ShardsOf(j) : Finish(j, s)
    PROVE  IInv'
<1>1. /\ UNCHANGED <<transferStatus, loads, partition, pinged, pc, summary, left, current, faults>>
      /\ metadata \subseteq metadata' /\ metadata' \subseteq Jobs
  BY DEF Announce, Finish, IInv, TypeOK
<1>2. /\ shardFiles' \in [Jobs -> SUBSET Shards]
      /\ \A i \in Jobs : shardFiles[i] \subseteq shardFiles'[i] /\ shardFiles'[i] \subseteq ShardsOf(i)
  BY DEF Announce, Finish, IInv, TypeOK, FilesAreOfTheJob, Shards
<1>3. TypeOK'
  BY <1>1, <1>2 DEF IInv, TypeOK
<1>4. FilesAreOfTheJob'
  BY <1>2 DEF FilesAreOfTheJob
<1>5. SummaryIsSound'
  <2>1. \A i \in Jobs :
          /\ Cardinality(shardFiles[i]) <= Cardinality(shardFiles'[i])
          /\ Cardinality(shardFiles[i]) \in Nat /\ Cardinality(shardFiles'[i]) \in Nat
    BY <1>2, FilesCount
  <2>2. \A i \in Jobs : summary[i].created <= Cardinality(shardFiles'[i])
    BY <2>1 DEF IInv, TypeOK, SummaryIsSound
  <2> QED
    BY <1>1, <2>2 DEF IInv, SummaryIsSound
<1>6. LoadsAreSound' /\ PartitionsAreSound' /\ CurrentIsSound' /\ MarksAreSound'
  BY <1>1 DEF IInv, LoadsAreSound, PartitionsAreSound, JobsOfTheDay, CurrentIsSound,
     MarksAreSound, Enough
<1> QED
  BY <1>3, <1>4, <1>5, <1>6 DEF IInv

\* A run lists the bucket.
LEMMA ListingKeepsIInv ==
    ASSUME IInv, GetBucketSummary
    PROVE  IInv'
<1>1. \A j \in Jobs : Cardinality(shardFiles[j]) \in Nat
  BY FilesCount DEF IInv, FilesAreOfTheJob
<1>2. TypeOK'
  BY <1>1, BqTransferAssumption DEF IInv, TypeOK, GetBucketSummary, bucketVars
<1>3. SummaryIsSound'
  <2>1. ASSUME NEW j \in Jobs
        PROVE  /\ summary'[j].created = Cardinality(shardFiles[j])
               /\ summary'[j].expected = IF j \in metadata THEN JobSize[j] ELSE 0
               /\ summary'[j].transferred <=> j \in transferStatus
    BY <2>1 DEF GetBucketSummary
  <2> QED
    BY <1>1, <2>1 DEF SummaryIsSound, GetBucketSummary, bucketVars
<1>4. /\ FilesAreOfTheJob' /\ LoadsAreSound' /\ PartitionsAreSound' /\ CurrentIsSound'
      /\ MarksAreSound'
  BY DEF IInv, FilesAreOfTheJob, LoadsAreSound, PartitionsAreSound, CurrentIsSound, MarksAreSound,
     JobsOfTheDay, Enough, GetBucketSummary, bucketVars
<1> QED
  BY <1>2, <1>3, <1>4 DEF IInv

\* A run passes a job over, or ends.
LEMMA SkippingKeepsIInv ==
    ASSUME IInv, EndRun \/ \E j \in Jobs : Skip(j)
    PROVE  IInv'
<1>1. UNCHANGED <<metadata, shardFiles, transferStatus, loads, partition, pinged, summary, current,
                  faults>>
  BY DEF EndRun, Skip, bucketVars
<1>2. pc = "choose" /\ pc' \in {"choose", "idle"} /\ left' \subseteq left
  BY DEF EndRun, Skip
<1>3. TypeOK'
  BY <1>1, <1>2 DEF IInv, TypeOK
<1> QED
  BY <1>1, <1>2, <1>3 DEF IInv, FilesAreOfTheJob, SummaryIsSound, LoadsAreSound,
     PartitionsAreSound, JobsOfTheDay, CurrentIsSound, MarksAreSound, Enough

\* A run starts a load.
LEMMA StartLoadKeepsIInv ==
    ASSUME IInv, NEW j \in Jobs, StartLoad(j)
    PROVE  IInv'
<1> DEFINE new == [job |-> j, shards |-> shardFiles[j], run |-> faults]
<1>1. j \in metadata /\ Enough(j, shardFiles[j])
  BY ListedIsEnough DEF StartLoad
<1>2. TypeOK'
  BY DEF IInv, TypeOK, StartLoad, bucketVars, Load
<1>3. LoadsAreSound'
  <2>1. \A l \in loads : l.run # faults
    BY DEF IInv, LoadsAreSound, StartLoad
  <2>2. /\ loads' = loads \union {new} /\ metadata' = metadata /\ faults' = faults
        /\ pc' = "wait" /\ current' = j
    BY DEF StartLoad, bucketVars
  <2>3. faults \in Nat
    BY DEF IInv, TypeOK
  <2> QED
    BY <1>1, <2>1, <2>2, <2>3 DEF IInv, LoadsAreSound, Enough
<1>4. SummaryIsSound'
  BY DEF IInv, SummaryIsSound, StartLoad, bucketVars
<1>5. CurrentIsSound'
  BY DEF IInv, CurrentIsSound, StartLoad, bucketVars
<1>6. FilesAreOfTheJob' /\ PartitionsAreSound' /\ MarksAreSound'
  BY DEF IInv, FilesAreOfTheJob, PartitionsAreSound, JobsOfTheDay, MarksAreSound, Enough,
     StartLoad, bucketVars
<1> QED
  BY <1>2, <1>3, <1>4, <1>5, <1>6 DEF IInv

\* BigQuery ends a load, of this run or of a dead one.
LEMMA EndLoadKeepsIInv ==
    ASSUME IInv, NEW l \in loads, EndLoad(l)
    PROVE  IInv'
<1>1. l \in Load /\ l.job \in Jobs /\ l # Nothing
  BY BqTransferAssumption DEF IInv, TypeOK, Load
<1>2. l.job \in metadata /\ Enough(l.job, l.shards)
  BY DEF IInv, LoadsAreSound
<1>3. TypeOK'
  BY <1>1 DEF IInv, TypeOK, EndLoad, bucketVars
<1>4. LoadsAreSound'
  BY DEF IInv, LoadsAreSound, EndLoad, bucketVars, Enough
<1>5. \A j \in Jobs : partition'[Day[j]] = IF Day[j] = Day[l.job] THEN l ELSE partition[Day[j]]
  BY <1>1 DEF IInv, TypeOK, EndLoad
<1>6. PartitionsAreSound'
  BY <1>1, <1>2, <1>5 DEF IInv, PartitionsAreSound, JobsOfTheDay, Enough, EndLoad, bucketVars
<1>7. CurrentIsSound'
  BY <1>1, <1>5 DEF IInv, CurrentIsSound, LoadsAreSound, EndLoad, bucketVars
<1>8. MarksAreSound'
  BY <1>1, <1>5 DEF IInv, TypeOK, MarksAreSound, EndLoad, bucketVars
<1>9. FilesAreOfTheJob' /\ SummaryIsSound'
  BY DEF IInv, TypeOK, FilesAreOfTheJob, SummaryIsSound, EndLoad, bucketVars
<1> QED
  BY <1>3, <1>4, <1>6, <1>7, <1>8, <1>9 DEF IInv

\* A run marks its job or calls the webhook for it.
LEMMA MarkingKeepsIInv ==
    ASSUME IInv, MarkTransferred \/ PostWebhook
    PROVE  IInv'
<1>1. UNCHANGED <<metadata, shardFiles, loads, partition, summary, left, current, faults>>
  BY DEF MarkTransferred, PostWebhook, bucketVars
<1>2. /\ pc \in {"mark", "webhook"} /\ pc' \in {"choose", "webhook"}
      /\ transferStatus \subseteq transferStatus' /\ transferStatus' \subseteq transferStatus \union {current}
      /\ pc' = "webhook" => current \in transferStatus'
      /\ pinged' \subseteq transferStatus' /\ pinged' \subseteq pinged \union {current}
      /\ transferStatus' # transferStatus => pc = "mark"
  BY DEF MarkTransferred, PostWebhook, IInv, MarksAreSound, CurrentIsSound
<1>3. current \in Jobs /\ current \notin left
  BY <1>2 DEF IInv, CurrentIsSound
<1>4. TypeOK'
  BY <1>1, <1>2, <1>3 DEF IInv, TypeOK
<1>5. SummaryIsSound'
  BY <1>1, <1>2, <1>3 DEF IInv, SummaryIsSound
<1>6. LoadsAreSound'
  BY <1>1, <1>2 DEF IInv, LoadsAreSound, Enough
<1>7. CurrentIsSound'
  BY <1>1, <1>2, <1>3 DEF IInv, CurrentIsSound
<1>8. MarksAreSound'
  BY <1>1, <1>2 DEF IInv, MarksAreSound, CurrentIsSound
<1>9. FilesAreOfTheJob' /\ PartitionsAreSound'
  BY <1>1 DEF IInv, FilesAreOfTheJob, PartitionsAreSound, JobsOfTheDay, Enough
<1> QED
  BY <1>4, <1>5, <1>6, <1>7, <1>8, <1>9 DEF IInv

\* A run fails: its load may go on, its marker or ping may have got through.
LEMMA FailKeepsIInv ==
    ASSUME IInv, Fail
    PROVE  IInv'
<1>1. /\ UNCHANGED <<metadata, shardFiles, partition, summary, left, current>>
      /\ pc' = "idle" /\ loads' \subseteq loads /\ faults' = faults + 1 /\ faults < MaxFaults
  BY DEF Fail, bucketVars
<1>2. /\ transferStatus \subseteq transferStatus'
      /\ transferStatus' # transferStatus =>
             pc = "mark" /\ transferStatus' = transferStatus \union {current}
      /\ pinged' \subseteq transferStatus'
  <2>1. /\ transferStatus \subseteq transferStatus'
        /\ transferStatus' # transferStatus =>
               pc = "mark" /\ transferStatus' = transferStatus \union {current}
    BY DEF Fail
  <2>2. pinged' # pinged => pc = "webhook" /\ pinged' = pinged \union {current}
    BY DEF Fail
  <2> QED
    BY <2>1, <2>2 DEF IInv, MarksAreSound, CurrentIsSound
<1>3. transferStatus' \subseteq Jobs
  BY <1>2 DEF IInv, TypeOK, CurrentIsSound
<1>4. TypeOK'
  BY <1>1, <1>2, <1>3, BqTransferAssumption DEF IInv, TypeOK
<1>5. LoadsAreSound'
  <2>1. \A l \in loads' : l.run \in Nat /\ faults \in Nat
    BY <1>1 DEF IInv, TypeOK, Load
  <2>2. \A l \in loads' :
          l.job \in metadata' /\ Enough(l.job, l.shards) /\ l.run <= faults
    BY <1>1 DEF IInv, LoadsAreSound
  <2>3. \A l \in loads' : l.run <= faults' /\ l.run # faults'
    BY <1>1, <2>1, <2>2
  <2> QED
    BY <2>2, <2>3 DEF LoadsAreSound
<1>6. MarksAreSound'
  BY <1>1, <1>2 DEF IInv, MarksAreSound, CurrentIsSound
<1>7. FilesAreOfTheJob' /\ SummaryIsSound' /\ PartitionsAreSound' /\ CurrentIsSound'
  BY <1>1 DEF IInv, FilesAreOfTheJob, SummaryIsSound, PartitionsAreSound, JobsOfTheDay,
     CurrentIsSound, Enough
<1> QED
  BY <1>4, <1>5, <1>6, <1>7 DEF IInv

\* Every step keeps the invariant.
LEMMA NextIInv == IInv /\ [Next]_vars => IInv'
<1> SUFFICES ASSUME IInv, [Next]_vars PROVE IInv'
  OBVIOUS
<1>1. CASE \E j \in Jobs : Announce(j) \/ \E s \in ShardsOf(j) : Finish(j, s)
  BY <1>1, BucketKeepsIInv
<1>2. CASE Transfer
  BY <1>2, ListingKeepsIInv, SkippingKeepsIInv, StartLoadKeepsIInv, MarkingKeepsIInv DEF Transfer
<1>3. CASE \E l \in loads : EndLoad(l)
  BY <1>3, EndLoadKeepsIInv
<1>4. CASE Fail
  BY <1>4, FailKeepsIInv
<1>5. CASE UNCHANGED vars
  BY <1>5 DEF vars, IInv, TypeOK, FilesAreOfTheJob, SummaryIsSound, LoadsAreSound,
     PartitionsAreSound, JobsOfTheDay, CurrentIsSound, MarksAreSound, Enough
<1> QED
  BY <1>1, <1>2, <1>3, <1>4, <1>5 DEF Next

(***************************************************************************)
(* The theorems.                                                           *)
(***************************************************************************)
\* The inductive invariant is an invariant.
THEOREM InvariantHolds == Spec => []IInv
BY InitIInv, NextIInv, PTL DEF Spec

\* The transfer's variables keep their types.
THEOREM TypesHold == Spec => []TypeOK
<1>1. IInv => TypeOK
  BY DEF IInv
<1> QED
  BY <1>1, InvariantHolds, PTL

\* A job marked as transferred is in its day's partition, unless another announced
\* job of the day has taken its place, with at least the threshold of the shards,
\* whatever failed runs and late loads have done and however many jobs share a day.
THEOREM TransferredJobIsInTableHolds == Spec => []TransferredJobIsInTable
<1>1. IInv => TransferredJobIsInTable
  BY DEF IInv, TypeOK, MarksAreSound, PartitionsAreSound, TransferredJobIsInTable, Enough
<1> QED
  BY <1>1, InvariantHolds, PTL

\* Only announced jobs with shards are loaded, and only transferred ones pinged.
THEOREM OnlyAnnouncedJobsMoveHolds == Spec => []OnlyAnnouncedJobsMove
<1>1. IInv => OnlyAnnouncedJobsMove
  <2> SUFFICES ASSUME IInv PROVE OnlyAnnouncedJobsMove
    OBVIOUS
  <2>1. \A l \in loads : l.job \in Jobs /\ l.job \in metadata /\ Enough(l.job, l.shards)
    BY DEF IInv, TypeOK, LoadsAreSound
  <2>2. \A l \in loads : l.shards # {}
    BY <2>1, EnoughIsSome
  <2> QED
    BY <2>1, <2>2 DEF IInv, MarksAreSound, OnlyAnnouncedJobsMove
<1> QED
  BY <1>1, InvariantHolds, PTL

\* No run loads a job again that an earlier or the same run has marked.
THEOREM MarkedJobIsNotReloadedHolds == Spec => MarkedJobIsNotReloaded
<1>1. IInv /\ [Next]_vars => [\A j \in transferStatus : \A l \in loads' \ loads : l.job # j]_vars
  <2> SUFFICES ASSUME IInv, Next, NEW j \in transferStatus, NEW l \in loads' \ loads
               PROVE  l.job # j
    OBVIOUS
  <2>1. PICK i \in Jobs : StartLoad(i)
    BY DEF Next, Transfer, Announce, Finish, GetBucketSummary, MarkTransferred, PostWebhook, EndRun,
       Skip, EndLoad, Fail
  <2>2. l.job = i
    BY <2>1 DEF StartLoad
  <2>3. i \notin transferStatus
    BY <2>1 DEF StartLoad, IInv, TypeOK, SummaryIsSound
  <2> QED
    BY <2>2, <2>3
<1> QED
  BY <1>1, InvariantHolds, PTL DEF Spec, MarkedJobIsNotReloaded
=============================================================================
