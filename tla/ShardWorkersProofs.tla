------------------------- MODULE ShardWorkersProofs -------------------------
(***************************************************************************)
(* The safety invariants of ShardWorkers, for every number of shards,      *)
(* repositories, workers, deliveries and failures.                         *)
(***************************************************************************)
EXTENDS ShardWorkers, WellFoundedInduction, TLAPS

(***************************************************************************)
(* The inductive invariant.  Beside the properties themselves it says what *)
(* a worker in the middle of a shard may rely on.                          *)
(***************************************************************************)

\* A worker past the metadata check works on an announced job.
IsAnnounced(w) ==
    pc[w] \in {"exists", "scan", "export", "canonical", "ack"} => controller = "done"

\* A worker about to ack has seen, or written, the canonical file.
AckerHasResult(w) ==
    pc[w] = "ack" => canonical[HeldShard(w)] # NoFile

\* A repository in the buffer that is off the todo list has all its exports;
\* the one being exported has those the worker has counted.
BufferIsExported(w) ==
    /\ pc[w] \in {"metadata", "exists", "pull"} => buffer[w] = {}
    /\ pc[w] # "export" => written[w] = 0
    /\ pc[w] = "scan" => buffer[w] \intersect todo[w] = {}
    /\ pc[w] = "export" =>
        /\ todo[w] # {}
        /\ buffer[w] \intersect todo[w] = {Current(w)}
        /\ \A k \in 1 .. written[w] : <<Current(w), ExportKeys[k]>> \in api
    /\ pc[w] \in {"scan", "export", "canonical"} =>
        \A r \in buffer[w] \ todo[w] : Exports(r) \subseteq api

\* The canonical file is written after the raw file and after every export.
RawComesFirst(w) ==
    pc[w] = "canonical" => todo[w] = {} /\ raw[HeldShard(w)] # NoFile

WorkerInv(w) ==
    IsAnnounced(w) /\ AckerHasResult(w) /\ BufferIsExported(w) /\ RawComesFirst(w)

IInv ==
    /\ TypeOK
    /\ \A w \in Workers : WorkerInv(w)
    /\ UnannouncedJobIsUntouched
    /\ AckedShardHasResult
    /\ CompletedShardIsWhole

(***************************************************************************)
(* Facts about the constants and the helpers.                              *)
(***************************************************************************)

\* The repositories of every shard are repositories of the job.
LEMMA ShardReposType == \A s \in Shards : ShardRepos[s] \subseteq Repos /\ ShardRepos[s] \subseteq Nat
BY ShardWorkersAssumption DEF Repos

\* Repositories are numbers.
LEMMA ReposAreNat == Repos \subseteq Nat
BY ShardReposType DEF Repos

\* A minimal element of a set of numbers, under any relation that holds for
\* every smaller number, is its smallest.
LEMMA MinimalIsSmallest ==
    ASSUME NEW T, T \subseteq Nat, NEW R,
           \A q, r \in Nat : q < r => <<q, r>> \in R,
           \E r \in T : \A q \in T : ~ (<<q, r>> \in R)
    PROVE  \E r \in T : \A q \in T : r <= q
<1>1. PICK r \in T : \A q \in T : ~ (<<q, r>> \in R)
  OBVIOUS
<1>2. ASSUME NEW q \in T
      PROVE  r <= q
  <2>1. q \in Nat /\ r \in Nat
    OBVIOUS
  <2>2. ~ (q < r)
    BY <1>1, <2>1
  <2> QED
    BY <2>1, <2>2
<1> QED
  BY <1>2

\* A set of numbers that is not empty has a smallest element, so that Current
\* is one of the repositories on the todo list.
LEMMA CurrentInTodo ==
    ASSUME NEW w \in Workers, todo[w] \subseteq Repos, todo[w] # {}
    PROVE  Current(w) \in todo[w]
<1>1. todo[w] \subseteq Nat
  BY ReposAreNat
<1>2. \E r \in todo[w] : \A q \in todo[w] : ~ (<<q, r>> \in OpToRel(<, Nat))
  BY <1>1, WFMin, NatLessThanWellFounded
<1>3. \A q, r \in Nat : q < r => <<q, r>> \in OpToRel(<, Nat)
  <2> SUFFICES ASSUME NEW q \in Nat, NEW r \in Nat, q < r
               PROVE  <<q, r>> \in {ss \in Nat \X Nat : ss[1] < ss[2]}
    BY Zenon DEF OpToRel
  <2> QED
    OBVIOUS
<1>4. \E r \in todo[w] : \A q \in todo[w] : r <= q
  BY <1>1, <1>2, <1>3, MinimalIsSmallest, Zenon
<1> QED
  BY <1>4 DEF Current

\* The four names of a repository's exports.
LEMMA ExportKeysType ==
    /\ \A k \in 1 .. 4 : ExportKeys[k] \in {"latest", "commit", "rawLatest", "rawCommit"}
    /\ DOMAIN ExportKeys = 1 .. 4
BY DEF ExportKeys

\* No shard file is the mark of a missing file.
LEMMA FileIsNotNoFile == \A f \in SUBSET Repos : f # NoFile
BY ShardWorkersAssumption

\* Current depends on the todo list alone.
LEMMA CurrentUnchanged ==
    ASSUME NEW w \in Workers, todo'[w] = todo[w]
    PROVE  Current(w)' = Current(w)
BY DEF Current

(***************************************************************************)
(* The invariant holds initially and every step keeps it.                  *)
(***************************************************************************)

\* The invariant holds before anything is published.
LEMMA InitIInv == Init => IInv
<1> SUFFICES ASSUME Init
             PROVE  IInv
  OBVIOUS
<1> USE DEF Init
<1>1. TypeOK
  BY ShardWorkersAssumption DEF TypeOK
<1>2. ASSUME NEW w \in Workers
      PROVE  WorkerInv(w)
  BY DEF WorkerInv, IsAnnounced, AckerHasResult, BufferIsExported, RawComesFirst
<1>3. UnannouncedJobIsUntouched /\ AckedShardHasResult /\ CompletedShardIsWhole
  BY DEF UnannouncedJobIsUntouched, AckedShardHasResult, CompletedShardIsWhole
<1> QED
  BY <1>1, <1>2, <1>3 DEF IInv

\* The buckets only grow.
BucketsGrow ==
    /\ api \subseteq api'
    /\ \A s \in Shards : raw[s] # NoFile => raw'[s] # NoFile
    /\ \A s \in Shards : canonical[s] # NoFile => canonical'[s] # NoFile

\* A worker that stands still can rely on what it could rely on before, as the
\* job stays announced and the buckets only grow.
LEMMA StandsStill ==
    ASSUME TypeOK, NEW v \in Workers, WorkerInv(v), BucketsGrow,
           controller = "done" => controller' = "done",
           held'[v] = held[v], pc'[v] = pc[v], todo'[v] = todo[v], buffer'[v] = buffer[v],
           written'[v] = written[v]
    PROVE  WorkerInv(v)'
<1>1. pc[v] # "pull" => HeldShard(v) \in Shards
  BY DEF TypeOK, Delivery, HeldShard
<1>2. Current(v)' = Current(v)
  BY CurrentUnchanged
<1>3. IsAnnounced(v)'
  BY DEF WorkerInv, IsAnnounced
<1>4. AckerHasResult(v)' /\ RawComesFirst(v)'
  BY <1>1 DEF WorkerInv, AckerHasResult, RawComesFirst, HeldShard, BucketsGrow
<1>5. BufferIsExported(v)'
  BY <1>2 DEF WorkerInv, BufferIsExported, BucketsGrow
<1> QED
  BY <1>3, <1>4, <1>5 DEF WorkerInv

\* What the controller and the queue do concerns the queue's state alone: only
\* the types and the deleted messages have to be looked at.
LEMMA QueueStep ==
    ASSUME IInv, TypeOK', AckedShardHasResult',
           UNCHANGED <<held, pc, todo, buffer, written, bucketVars>>,
           controller = "done" => controller' = "done"
    PROVE  IInv'
<1>1. BucketsGrow
  BY DEF BucketsGrow, bucketVars
<1>2. ASSUME NEW w \in Workers
      PROVE  WorkerInv(w)'
  BY <1>1, StandsStill DEF IInv
<1>3. UnannouncedJobIsUntouched' /\ CompletedShardIsWhole'
  BY DEF IInv, UnannouncedJobIsUntouched, CompletedShardIsWhole, bucketVars
<1> QED
  BY <1>2, <1>3 DEF IInv

\* A worker moves on without telling the queue: the others stand still.
LEMMA WorkerStep ==
    ASSUME IInv, NEW w \in Workers, TypeOK', WorkerInv(w)', BucketsGrow,
           UNCHANGED <<controller, message, settling>>,
           \A v \in Workers : v # w =>
               /\ held'[v] = held[v] /\ pc'[v] = pc[v] /\ todo'[v] = todo[v]
               /\ buffer'[v] = buffer[v] /\ written'[v] = written[v],
           UnannouncedJobIsUntouched', CompletedShardIsWhole'
    PROVE  IInv'
<1>1. ASSUME NEW v \in Workers
      PROVE  WorkerInv(v)'
  BY StandsStill DEF IInv
<1>2. AckedShardHasResult'
  BY DEF IInv, AckedShardHasResult, BucketsGrow
<1> QED
  BY <1>1, <1>2 DEF IInv

\* A worker drops what it holds and starts over.
LEMMA ForgottenWorker ==
    ASSUME TypeOK, NEW w \in Workers, Forget(w)
    PROVE  /\ WorkerInv(w)'
           /\ held' \in [Workers -> Delivery \union {NoMessage}]
           /\ pc' \in [Workers -> {"pull", "metadata", "exists", "scan", "export", "canonical", "ack"}]
           /\ \A v \in Workers : pc'[v] # "pull" => held'[v] # NoMessage
           /\ todo' \in [Workers -> SUBSET Repos]
           /\ buffer' \in [Workers -> SUBSET Repos]
           /\ written' \in [Workers -> 0 .. 3]
           /\ \A v \in Workers : v # w =>
               /\ held'[v] = held[v] /\ pc'[v] = pc[v] /\ todo'[v] = todo[v]
               /\ buffer'[v] = buffer[v] /\ written'[v] = written[v]
<1>1. pc'[w] = "pull" /\ buffer'[w] = {} /\ written'[w] = 0
  BY DEF TypeOK, Forget
<1>2. WorkerInv(w)'
  BY <1>1 DEF WorkerInv, IsAnnounced, AckerHasResult, BufferIsExported, RawComesFirst
<1> QED
  BY <1>2 DEF TypeOK, Forget

\* The types of the buckets.
BucketTypes ==
    /\ api \subseteq Repos \X {"latest", "commit", "rawLatest", "rawCommit"}
    /\ raw \in [Shards -> (SUBSET Repos) \union {NoFile}]
    /\ canonical \in [Shards -> (SUBSET Repos) \union {NoFile}]

\* A worker acks or nacks its message.  An ack needs the canonical file.
LEMMA ReleaseStep ==
    ASSUME IInv, NEW w \in Workers, NEW kind \in {"ack", "nack"}, pc[w] # "pull",
           Release(w, kind), BucketsGrow, BucketTypes', faults' \in 0 .. MaxFaults,
           kind = "ack" => canonical[HeldShard(w)] # NoFile,
           UnannouncedJobIsUntouched', CompletedShardIsWhole'
    PROVE  IInv'
<1>1. held[w] \in Delivery
  BY DEF IInv, TypeOK
<1>2. TypeOK /\ Forget(w)
  BY DEF IInv, Release
<1>3. TypeOK'
  BY <1>1, <1>2, ForgottenWorker DEF TypeOK, Release, BucketTypes
<1>4. ASSUME NEW v \in Workers
      PROVE  WorkerInv(v)'
  <2>1. CASE v = w
    BY <1>2, <2>1, ForgottenWorker
  <2>2. CASE v # w
    BY <1>2, <2>2, ForgottenWorker, StandsStill DEF IInv, Release
  <2> QED
    BY <2>1, <2>2
<1>5. AckedShardHasResult'
  <2> SUFFICES ASSUME NEW s \in Shards,
                      \/ message'[s] = "deleted"
                      \/ \E t \in settling' : t.kind = "ack" /\ t.delivery.shard = s
               PROVE  canonical[s] # NoFile
    BY DEF AckedShardHasResult, BucketsGrow
  <2>1. CASE message[s] = "deleted" \/ \E t \in settling : t.kind = "ack" /\ t.delivery.shard = s
    BY <2>1 DEF IInv, AckedShardHasResult
  <2>2. CASE kind = "ack" /\ held[w].shard = s
    BY <2>2 DEF HeldShard
  <2> QED
    BY <2>1, <2>2 DEF Release
<1> QED
  BY <1>3, <1>4, <1>5 DEF IInv

\* A failed call nacks; what it may have left in a bucket is for the caller to
\* account for.
LEMMA FailStep ==
    ASSUME IInv, NEW w \in Workers, pc[w] # "pull", Fail(w), BucketsGrow, BucketTypes',
           UnannouncedJobIsUntouched', CompletedShardIsWhole'
    PROVE  IInv'
<1>1. faults' \in 0 .. MaxFaults
  BY ShardWorkersAssumption DEF IInv, TypeOK, Fail, Fault
<1> QED
  BY <1>1, ReleaseStep DEF Fail

\* With the buckets left alone there is nothing to account for.
LEMMA BucketsUnchanged ==
    ASSUME IInv, UNCHANGED <<controller, bucketVars>>
    PROVE  BucketsGrow /\ BucketTypes' /\ UnannouncedJobIsUntouched' /\ CompletedShardIsWhole'
<1>1. BucketsGrow /\ BucketTypes'
  BY DEF IInv, TypeOK, BucketsGrow, BucketTypes, bucketVars
<1>2. UnannouncedJobIsUntouched' /\ CompletedShardIsWhole'
  BY DEF IInv, UnannouncedJobIsUntouched, CompletedShardIsWhole, bucketVars
<1> QED
  BY <1>1, <1>2

(***************************************************************************)
(* The controller and the queue.                                           *)
(***************************************************************************)

\* The controller's steps, seen from the queue, keep the invariant.
LEMMA ControllerSteps ==
    ASSUME IInv, WriteMetadata \/ ControllerDies \/ \E s \in Shards : PublishShard(s)
    PROVE  IInv'
<1>1. CASE WriteMetadata
  BY <1>1, QueueStep
     DEF IInv, TypeOK, AckedShardHasResult, WriteMetadata, queueVars, workerVars, bucketVars
<1>2. CASE ControllerDies
  BY <1>2, QueueStep, ShardWorkersAssumption
     DEF IInv, TypeOK, AckedShardHasResult, ControllerDies, Fault, queueVars, workerVars, bucketVars
<1>3. CASE \E s \in Shards : PublishShard(s)
  BY <1>3, QueueStep
     DEF IInv, TypeOK, AckedShardHasResult, PublishShard, workerVars, bucketVars
<1> QED
  BY <1>1, <1>2, <1>3

\* A delivery keeps the invariant.
LEMMA DeliverStep ==
    ASSUME IInv, NEW w \in Workers, NEW s \in Shards, Deliver(w, s)
    PROVE  IInv'
<1>1. TypeOK'
  <2>1. receives[s] + 1 \in 0 .. MaxReceives
    BY ShardWorkersAssumption DEF IInv, TypeOK, Deliver
  <2>2. [shard |-> s, receipt |-> receives[s] + 1] \in Delivery
    BY <2>1 DEF Delivery
  <2> QED
    BY <2>1, <2>2 DEF IInv, TypeOK, Deliver, bucketVars
<1>2. AckedShardHasResult'
  BY DEF IInv, TypeOK, AckedShardHasResult, Deliver, bucketVars
<1> QED
  BY <1>1, <1>2, QueueStep DEF Deliver

\* Moving a message to the dead-letter queue keeps the invariant.
LEMMA DeadLetterStep ==
    ASSUME IInv, NEW s \in Shards, DeadLetter(s)
    PROVE  IInv'
<1>1. TypeOK' /\ AckedShardHasResult'
  BY DEF IInv, TypeOK, AckedShardHasResult, DeadLetter, workerVars, bucketVars
<1> QED
  BY <1>1, QueueStep DEF DeadLetter, workerVars

\* A lapsed visibility, or a duplicate delivery, keeps the invariant.
LEMMA ReappearStep ==
    ASSUME IInv, NEW s \in Shards, Reappear(s)
    PROVE  IInv'
<1>1. faults' \in 0 .. MaxFaults
  BY ShardWorkersAssumption DEF IInv, TypeOK, Reappear, Fault
<1>2. TypeOK' /\ AckedShardHasResult'
  BY <1>1 DEF IInv, TypeOK, AckedShardHasResult, Reappear, workerVars, bucketVars
<1> QED
  BY <1>2, QueueStep DEF Reappear, workerVars

\* An ack or a nack that reaches the queue keeps the invariant, in particular
\* that a deleted message has its result.
LEMMA SettleStep ==
    ASSUME IInv, NEW t \in settling, Settle(t)
    PROVE  IInv'
<1>1. t.delivery.shard \in Shards /\ t.kind \in {"ack", "nack"}
  BY DEF IInv, TypeOK, Delivery
<1>2. TypeOK'
  BY <1>1 DEF IInv, TypeOK, Settle, workerVars, bucketVars
<1>3. AckedShardHasResult'
  BY <1>1 DEF IInv, TypeOK, AckedShardHasResult, Settle, bucketVars
<1> QED
  BY <1>2, <1>3, QueueStep DEF Settle, workerVars

(***************************************************************************)
(* The workers.                                                            *)
(***************************************************************************)

\* Pulling a message keeps the invariant.
LEMMA PullStep ==
    ASSUME IInv, NEW w \in Workers, Pull(w)
    PROVE  IInv'
<1>1. TypeOK'
  BY DEF IInv, TypeOK, Pull, queueVars, bucketVars
<1>2. WorkerInv(w)'
  BY DEF IInv, TypeOK, WorkerInv, IsAnnounced, AckerHasResult, BufferIsExported, RawComesFirst, Pull
<1>3. UNCHANGED <<controller, bucketVars>>
  BY DEF Pull
<1> QED
  BY <1>1, <1>2, <1>3, WorkerStep, BucketsUnchanged DEF IInv, TypeOK, Pull, queueVars

\* A worker gets past the metadata check only for an announced job.
LEMMA CheckMetadataStep ==
    ASSUME IInv, NEW w \in Workers, CheckMetadata(w)
    PROVE  IInv'
<1>1. /\ UNCHANGED <<controller, bucketVars>>
      /\ pc[w] = "metadata"
  BY DEF CheckMetadata, Fail, Release
<1>2. CASE /\ controller = "done"
           /\ pc' = [pc EXCEPT ![w] = "exists"]
           /\ UNCHANGED <<controller, queueVars, buffered, held, todo, buffer, written, faults>>
  <2>1. TypeOK'
    BY <1>1, <1>2 DEF IInv, TypeOK, queueVars, bucketVars
  <2>2. WorkerInv(w)'
    BY <1>1, <1>2
       DEF IInv, TypeOK, WorkerInv, IsAnnounced, AckerHasResult, BufferIsExported, RawComesFirst
  <2> QED
    BY <1>1, <1>2, <2>1, <2>2, WorkerStep, BucketsUnchanged DEF IInv, TypeOK, queueVars
<1>3. CASE Release(w, "nack") /\ UNCHANGED faults
  BY <1>1, <1>3, ReleaseStep, BucketsUnchanged DEF IInv, TypeOK
<1>4. CASE Fail(w)
  BY <1>1, <1>4, FailStep, BucketsUnchanged
<1> QED
  BY <1>2, <1>3, <1>4 DEF CheckMetadata

\* A worker goes straight to the ack only when the canonical file exists.
LEMMA CheckResultStep ==
    ASSUME IInv, NEW w \in Workers, CheckResult(w)
    PROVE  IInv'
<1>1. /\ UNCHANGED <<controller, bucketVars>>
      /\ pc[w] = "exists"
      /\ HeldShard(w) \in Shards
  BY DEF IInv, TypeOK, Delivery, CheckResult, Fail, Release, HeldShard
<1>2. CASE /\ canonical[HeldShard(w)] # NoFile
           /\ pc' = [pc EXCEPT ![w] = "ack"]
           /\ UNCHANGED <<controller, queueVars, buffered, held, todo, buffer, written, faults>>
  <2>1. TypeOK'
    BY <1>1, <1>2 DEF IInv, TypeOK, queueVars, bucketVars
  <2>2. WorkerInv(w)'
    BY <1>1, <1>2
       DEF IInv, TypeOK, WorkerInv, IsAnnounced, AckerHasResult, BufferIsExported, RawComesFirst,
           HeldShard, bucketVars
  <2> QED
    BY <1>1, <1>2, <2>1, <2>2, WorkerStep, BucketsUnchanged DEF IInv, TypeOK, queueVars
<1>3. CASE /\ canonical[HeldShard(w)] = NoFile
           /\ pc' = [pc EXCEPT ![w] = "scan"]
           /\ todo' = [todo EXCEPT ![w] = ShardRepos[HeldShard(w)]]
           /\ UNCHANGED <<controller, queueVars, buffered, held, buffer, written, faults>>
  <2>1. TypeOK'
    BY <1>1, <1>3, ShardReposType DEF IInv, TypeOK, queueVars, bucketVars
  <2>2. WorkerInv(w)'
    BY <1>1, <1>3
       DEF IInv, TypeOK, WorkerInv, IsAnnounced, AckerHasResult, BufferIsExported, RawComesFirst
  <2> QED
    BY <1>1, <1>3, <2>1, <2>2, WorkerStep, BucketsUnchanged DEF IInv, TypeOK, queueVars
<1>4. CASE Fail(w)
  BY <1>1, <1>4, FailStep, BucketsUnchanged
<1> QED
  BY <1>2, <1>3, <1>4 DEF CheckResult

\* A scan, whatever its outcome, keeps the invariant.
LEMMA ScanRepoStep ==
    ASSUME IInv, NEW w \in Workers, ScanRepo(w)
    PROVE  IInv'
<1>1. /\ UNCHANGED <<controller, bucketVars>>
      /\ pc[w] = "scan"
      /\ todo[w] # {}
      /\ todo[w] \subseteq Repos
  BY DEF IInv, TypeOK, ScanRepo, Fail, Release
<1>2. Current(w) \in todo[w] /\ Current(w) \in Repos
  BY <1>1, CurrentInTodo
<1>3. CASE /\ buffer' = [buffer EXCEPT ![w] = @ \union {Current(w)}]
           /\ pc' = [pc EXCEPT ![w] = "export"]
           /\ UNCHANGED <<controller, queueVars, buffered, held, todo, written, faults>>
  <2>1. TypeOK'
    BY <1>1, <1>2, <1>3 DEF IInv, TypeOK, queueVars, bucketVars
  <2>2. Current(w)' = Current(w)
    BY <1>3, CurrentUnchanged
  <2>3. BufferIsExported(w)'
    BY <1>1, <1>2, <1>3, <2>2 DEF IInv, TypeOK, WorkerInv, BufferIsExported, bucketVars
  <2>4. WorkerInv(w)'
    BY <1>1, <1>3, <2>3 DEF IInv, TypeOK, WorkerInv, IsAnnounced, AckerHasResult, RawComesFirst
  <2> QED
    BY <1>1, <1>3, <2>1, <2>4, WorkerStep, BucketsUnchanged DEF IInv, TypeOK, queueVars
<1>4. CASE /\ todo' = [todo EXCEPT ![w] = @ \ {Current(w)}]
           /\ UNCHANGED <<controller, queueVars, buffered, held, pc, buffer, written, faults>>
  <2>1. TypeOK'
    BY <1>1, <1>4 DEF IInv, TypeOK, queueVars, bucketVars
  <2>2. WorkerInv(w)'
    BY <1>1, <1>2, <1>4
       DEF IInv, TypeOK, WorkerInv, IsAnnounced, AckerHasResult, BufferIsExported, RawComesFirst,
           bucketVars
  <2> QED
    BY <1>1, <1>4, <2>1, <2>2, WorkerStep, BucketsUnchanged DEF IInv, TypeOK, queueVars
<1>5. CASE Fail(w)
  BY <1>1, <1>5, FailStep, BucketsUnchanged
<1> QED
  BY <1>3, <1>4, <1>5 DEF ScanRepo

\* Each of the four exports brings the buffered repository closer to being
\* whole; the last one makes it so.
LEMMA ExportRepoStep ==
    ASSUME IInv, NEW w \in Workers, ExportRepo(w)
    PROVE  IInv'
<1> DEFINE key == <<Current(w), ExportKeys[written[w] + 1]>>
<1>1. /\ pc[w] = "export"
      /\ controller = "done"
      /\ UNCHANGED <<controller, raw, canonical>>
      /\ api' = api \/ api' = api \union {key}
  BY DEF IInv, WorkerInv, IsAnnounced, ExportRepo, Fail, Release
<1>2. /\ todo[w] # {} /\ todo[w] \subseteq Repos
      /\ buffer[w] \intersect todo[w] = {Current(w)}
      /\ \A k \in 1 .. written[w] : <<Current(w), ExportKeys[k]>> \in api
      /\ \A r \in buffer[w] \ todo[w] : Exports(r) \subseteq api
      /\ written[w] \in 0 .. 3
  BY <1>1 DEF IInv, TypeOK, WorkerInv, BufferIsExported
<1>3. Current(w) \in todo[w] /\ Current(w) \in Repos
  BY <1>2, CurrentInTodo
<1>4. key \in Repos \X {"latest", "commit", "rawLatest", "rawCommit"}
  BY <1>2, <1>3, ExportKeysType
<1>5. BucketsGrow /\ BucketTypes'
  BY <1>1, <1>4 DEF IInv, TypeOK, BucketsGrow, BucketTypes
<1>6. UnannouncedJobIsUntouched' /\ CompletedShardIsWhole'
  BY <1>1 DEF IInv, UnannouncedJobIsUntouched, CompletedShardIsWhole
<1>7. CASE Fail(w)
  BY <1>1, <1>5, <1>6, <1>7, FailStep
<1>8. CASE /\ api' = api \union {key}
           /\ written[w] + 1 < 4
           /\ written' = [written EXCEPT ![w] = @ + 1]
           /\ UNCHANGED <<todo, pc, controller, queueVars, buffered, held, buffer, faults>>
  <2>1. TypeOK'
    BY <1>1, <1>2, <1>5, <1>8 DEF IInv, TypeOK, BucketTypes, queueVars
  <2>2. Current(w)' = Current(w)
    BY <1>8, CurrentUnchanged
  <2>3. \A k \in 1 .. written'[w] : <<Current(w), ExportKeys[k]>> \in api'
    BY <1>2, <1>8 DEF IInv, TypeOK
  <2>4. BufferIsExported(w)'
    BY <1>1, <1>2, <1>8, <2>2, <2>3 DEF BufferIsExported
  <2>5. WorkerInv(w)'
    BY <1>1, <1>8, <2>4 DEF WorkerInv, IsAnnounced, AckerHasResult, RawComesFirst
  <2> QED
    BY <1>1, <1>5, <1>6, <1>8, <2>1, <2>5, WorkerStep DEF IInv, TypeOK, queueVars
<1>9. CASE /\ api' = api \union {key}
           /\ ~ (written[w] + 1 < 4)
           /\ written' = [written EXCEPT ![w] = 0]
           /\ todo' = [todo EXCEPT ![w] = @ \ {Current(w)}]
           /\ pc' = [pc EXCEPT ![w] = "scan"]
           /\ UNCHANGED <<controller, queueVars, buffered, held, buffer, faults>>
  <2>1. TypeOK'
    BY <1>1, <1>2, <1>5, <1>9 DEF IInv, TypeOK, BucketTypes, queueVars
  <2>2. Exports(Current(w)) \subseteq api'
    <3>1. written[w] = 3
      BY <1>2, <1>9
    <3>2. \A k \in 1 .. 4 : <<Current(w), ExportKeys[k]>> \in api'
      BY <1>2, <1>9, <3>1
    <3> QED
      BY <3>2 DEF Exports
  <2>3. \A r \in buffer'[w] \ todo'[w] : Exports(r) \subseteq api'
    BY <1>2, <1>9, <2>2 DEF IInv, TypeOK
  <2>4. /\ pc'[w] = "scan" /\ written'[w] = 0
        /\ buffer'[w] \intersect todo'[w] = {}
    BY <1>2, <1>9 DEF IInv, TypeOK
  <2>5. WorkerInv(w)'
    BY <1>1, <1>9, <2>3, <2>4
       DEF WorkerInv, IsAnnounced, AckerHasResult, BufferIsExported, RawComesFirst
  <2> QED
    BY <1>1, <1>5, <1>6, <1>9, <2>1, <2>5, WorkerStep DEF IInv, TypeOK, queueVars
<1> QED
  BY <1>7, <1>8, <1>9 DEF ExportRepo

\* The raw file is written by a worker that exported all it lists.
LEMMA WriteRawStep ==
    ASSUME IInv, NEW w \in Workers, WriteRaw(w)
    PROVE  IInv'
<1> DEFINE file == [raw EXCEPT ![HeldShard(w)] = buffer[w]]
<1>1. /\ pc[w] = "scan" /\ todo[w] = {}
      /\ controller = "done"
      /\ UNCHANGED <<controller, api, canonical>>
      /\ raw' = raw \/ raw' = file
  BY DEF IInv, WorkerInv, IsAnnounced, WriteRaw, Fail, Release
<1>2. HeldShard(w) \in Shards /\ buffer[w] \in SUBSET Repos /\ buffer[w] # NoFile
  BY <1>1, FileIsNotNoFile DEF IInv, TypeOK, Delivery, HeldShard
<1>3. BucketsGrow /\ BucketTypes'
  BY <1>1, <1>2 DEF IInv, TypeOK, BucketsGrow, BucketTypes
<1>4. UnannouncedJobIsUntouched' /\ CompletedShardIsWhole'
  BY <1>1, <1>3 DEF IInv, UnannouncedJobIsUntouched, CompletedShardIsWhole, BucketsGrow
<1>5. CASE Fail(w)
  BY <1>1, <1>3, <1>4, <1>5, FailStep
<1>6. CASE /\ raw' = file
           /\ pc' = [pc EXCEPT ![w] = "canonical"]
           /\ UNCHANGED <<controller, queueVars, buffered, held, todo, buffer, written, faults>>
  <2>1. TypeOK'
    BY <1>1, <1>3, <1>6 DEF IInv, TypeOK, BucketTypes, queueVars
  <2>2. raw'[HeldShard(w)] # NoFile /\ pc'[w] = "canonical"
    BY <1>2, <1>6 DEF IInv, TypeOK
  <2>3. BufferIsExported(w)'
    BY <1>1, <1>6, <2>2 DEF IInv, WorkerInv, BufferIsExported
  <2>4. WorkerInv(w)'
    BY <1>1, <1>6, <2>2, <2>3 DEF WorkerInv, IsAnnounced, AckerHasResult, RawComesFirst, HeldShard
  <2> QED
    BY <1>1, <1>3, <1>4, <1>6, <2>1, <2>4, WorkerStep DEF IInv, TypeOK, queueVars
<1> QED
  BY <1>5, <1>6 DEF WriteRaw

\* The canonical file is written after the raw one and lists only exported
\* repositories.
LEMMA WriteCanonicalStep ==
    ASSUME IInv, NEW w \in Workers, WriteCanonical(w)
    PROVE  IInv'
<1> DEFINE file == [canonical EXCEPT ![HeldShard(w)] = buffer[w]]
<1>1. /\ pc[w] = "canonical"
      /\ controller = "done"
      /\ UNCHANGED <<controller, api, raw>>
      /\ canonical' = canonical \/ canonical' = file
  BY DEF IInv, WorkerInv, IsAnnounced, WriteCanonical, Fail, Release
<1>2. /\ HeldShard(w) \in Shards /\ buffer[w] \in SUBSET Repos /\ buffer[w] # NoFile
      /\ todo[w] = {} /\ raw[HeldShard(w)] # NoFile
      /\ \A r \in buffer[w] : Exports(r) \subseteq api
  BY <1>1, FileIsNotNoFile
     DEF IInv, TypeOK, Delivery, HeldShard, WorkerInv, BufferIsExported, RawComesFirst
<1>3. BucketsGrow /\ BucketTypes'
  BY <1>1, <1>2 DEF IInv, TypeOK, BucketsGrow, BucketTypes
<1>4. UnannouncedJobIsUntouched' /\ CompletedShardIsWhole'
  BY <1>1, <1>2 DEF IInv, TypeOK, UnannouncedJobIsUntouched, CompletedShardIsWhole
<1>5. CASE Fail(w)
  BY <1>1, <1>3, <1>4, <1>5, FailStep
<1>6. CASE /\ canonical' = file
           /\ pc' = [pc EXCEPT ![w] = "ack"]
           /\ UNCHANGED <<controller, queueVars, buffered, held, todo, buffer, written, faults>>
  <2>1. TypeOK'
    BY <1>1, <1>3, <1>6 DEF IInv, TypeOK, BucketTypes, queueVars
  <2>2. canonical'[HeldShard(w)] # NoFile /\ pc'[w] = "ack"
    BY <1>2, <1>6 DEF IInv, TypeOK
  <2>3. WorkerInv(w)'
    BY <1>1, <1>6, <2>2
       DEF IInv, WorkerInv, IsAnnounced, AckerHasResult, BufferIsExported, RawComesFirst, HeldShard
  <2> QED
    BY <1>1, <1>3, <1>4, <1>6, <2>1, <2>3, WorkerStep DEF IInv, TypeOK, queueVars
<1> QED
  BY <1>5, <1>6 DEF WriteCanonical

\* The ack is handed over by a worker whose shard has its result.
LEMMA AckStep ==
    ASSUME IInv, NEW w \in Workers, Ack(w)
    PROVE  IInv'
<1>1. /\ pc[w] = "ack" /\ Release(w, "ack")
      /\ UNCHANGED <<controller, bucketVars, faults>>
  BY DEF Ack, Release
<1>2. canonical[HeldShard(w)] # NoFile /\ faults' \in 0 .. MaxFaults
  BY <1>1 DEF IInv, TypeOK, WorkerInv, AckerHasResult
<1> QED
  BY <1>1, <1>2, ReleaseStep, BucketsUnchanged

\* A crash forgets what the worker held and loses nothing else.
LEMMA CrashStep ==
    ASSUME IInv, NEW w \in Workers, Crash(w)
    PROVE  IInv'
<1>1. TypeOK /\ Forget(w) /\ UNCHANGED <<controller, bucketVars>>
  BY DEF IInv, Crash
<1>2. faults' \in 0 .. MaxFaults
  BY ShardWorkersAssumption DEF IInv, TypeOK, Crash, Fault
<1>3. BucketsGrow /\ BucketTypes' /\ UnannouncedJobIsUntouched' /\ CompletedShardIsWhole'
  BY <1>1, BucketsUnchanged
<1>4. TypeOK'
  BY <1>1, <1>2, <1>3, ForgottenWorker DEF TypeOK, Crash, BucketTypes
<1>5. ASSUME NEW v \in Workers
      PROVE  WorkerInv(v)'
  <2>1. CASE v = w
    BY <1>1, <2>1, ForgottenWorker
  <2>2. CASE v # w
    BY <1>1, <1>3, <2>2, ForgottenWorker, StandsStill DEF IInv
  <2> QED
    BY <2>1, <2>2
<1>6. AckedShardHasResult'
  BY <1>1 DEF IInv, AckedShardHasResult, Crash, bucketVars
<1> QED
  BY <1>3, <1>4, <1>5, <1>6 DEF IInv

\* Every step of the pipeline keeps the invariant.
LEMMA NextIInv == IInv /\ [Next]_vars => IInv'
<1> SUFFICES ASSUME IInv, [Next]_vars
             PROVE  IInv'
  OBVIOUS
<1>1. CASE WriteMetadata \/ ControllerDies \/ \E s \in Shards : PublishShard(s)
  BY <1>1, ControllerSteps
<1>2. CASE \E s \in Shards : DeadLetter(s) \/ Reappear(s)
  BY <1>2, DeadLetterStep, ReappearStep
<1>3. CASE \E w \in Workers, s \in Shards : Deliver(w, s)
  BY <1>3, DeliverStep
<1>4. CASE \E t \in settling : Settle(t)
  BY <1>4, SettleStep
<1>5. CASE \E w \in Workers : Worker(w) \/ Crash(w)
  BY <1>5, PullStep, CheckMetadataStep, CheckResultStep, ScanRepoStep, ExportRepoStep,
     WriteRawStep, WriteCanonicalStep, AckStep, CrashStep DEF Worker
<1>6. CASE UNCHANGED vars
  <2>1. TypeOK' /\ AckedShardHasResult'
    BY <1>6 DEF IInv, TypeOK, AckedShardHasResult, vars
  <2> QED
    BY <1>6, <2>1, QueueStep DEF vars, bucketVars
<1> QED
  BY <1>1, <1>2, <1>3, <1>4, <1>5, <1>6 DEF Next

(***************************************************************************)
(* The theorems.                                                           *)
(***************************************************************************)

\* The inductive invariant holds throughout.
LEMMA InvariantHolds == Spec => []IInv
BY InitIInv, NextIInv, PTL DEF Spec

\* Every variable keeps its type; in particular no worker past the pull ever
\* works without a message (WorkLoop.Run).
THEOREM TypeCorrect == Spec => []TypeOK
<1>1. IInv => TypeOK
  BY DEF IInv
<1> QED
  BY <1>1, InvariantHolds, PTL

\* No shard is deleted from the queue, and no ack for it is on its way, before
\* its canonical file exists (Ack after Process or resultExists in
\* WorkLoop.Run), whatever crashes, redeliveries and stale receipts occur.
THEOREM NoWorkIsLost == Spec => []AckedShardHasResult
<1>1. IInv => AckedShardHasResult
  BY DEF IInv
<1> QED
  BY <1>1, InvariantHolds, PTL

\* A canonical shard file stands for a shard that is wholly published: its raw
\* file and the four API objects of every repository it lists exist
\* (the order of the writes in processRequest).
THEOREM PublishedShardIsWhole == Spec => []CompletedShardIsWhole
<1>1. IInv => CompletedShardIsWhole
  BY DEF IInv
<1> QED
  BY <1>1, InvariantHolds, PTL

\* A job without a metadata file leaves no trace in any bucket
\* (hasMetadataFile in WorkLoop.Run).
THEOREM SilentJobIsUntouched == Spec => []UnannouncedJobIsUntouched
<1>1. IInv => UnannouncedJobIsUntouched
  BY DEF IInv
<1> QED
  BY <1>1, InvariantHolds, PTL

(***************************************************************************)
(* The pipeline implements BatchJob.  Only three kinds of steps are seen   *)
(* there: a shard is sent, the job is announced, a result appears.         *)
(***************************************************************************)

\* Once the job is announced every shard has been sent, for good.
AnnouncedJobIsSent ==
    controller = "done" => \A s \in Shards : message[s] # "unsent"

\* The messages of an announced job are never unsent again.
LEMMA AnnouncedJobStaysSent ==
    ASSUME IInv, AnnouncedJobIsSent, [Next]_vars
    PROVE  AnnouncedJobIsSent'
<1>1. \A s \in Shards : message'[s] = "unsent" => message[s] = "unsent"
  BY DEF IInv, TypeOK, Delivery, Next, vars, WriteMetadata, ControllerDies, PublishShard, DeadLetter,
         Reappear, Deliver, Settle, Worker, Pull, CheckMetadata, CheckResult, ScanRepo, ExportRepo,
         WriteRaw, WriteCanonical, Ack, Crash, Fail, Release, queueVars
<1>2. controller' = "done" => WriteMetadata \/ controller = "done"
  BY DEF Next, vars, ControllerDies, PublishShard, DeadLetter,
         Reappear, Deliver, Settle, Worker, Pull, CheckMetadata, CheckResult, ScanRepo, ExportRepo,
         WriteRaw, WriteCanonical, Ack, Crash, Fail, Release
<1> QED
  BY <1>1, <1>2 DEF AnnouncedJobIsSent, WriteMetadata

\* A step that changes none of the three things BatchJob tells apart.
LEMMA HiddenStep ==
    ASSUME UNCHANGED controller,
           \A s \in Shards : message'[s] = "unsent" <=> message[s] = "unsent",
           \A s \in Shards : canonical'[s] = NoFile <=> canonical[s] = NoFile
    PROVE  UNCHANGED Job!vars
<1>1. {s \in Shards : message'[s] # "unsent"} = {s \in Shards : message[s] # "unsent"}
  OBVIOUS
<1>2. {s \in Shards : canonical'[s] # NoFile} = {s \in Shards : canonical[s] # NoFile}
  OBVIOUS
<1> QED
  BY <1>1, <1>2 DEF Job!vars

\* The controller's steps are steps of BatchJob.
LEMMA ControllerRefines ==
    ASSUME IInv, WriteMetadata \/ ControllerDies \/ \E s \in Shards : PublishShard(s)
    PROVE  [Job!Next]_Job!vars
<1>1. CASE WriteMetadata
  <2>1. {s \in Shards : message[s] # "unsent"} = Job!Shards
    BY <1>1 DEF WriteMetadata, Shards, Job!Shards
  <2>2. controller # "done" /\ controller' = "done" /\ UNCHANGED <<message, canonical>>
    BY <1>1 DEF WriteMetadata, queueVars, bucketVars
  <2>3. Job!Announce
    BY <2>1, <2>2, ShardWorkersAssumption DEF Job!Announce, Job!NotWritten
  <2> QED
    BY <2>3 DEF Job!Next
<1>2. CASE ControllerDies
  <2>1. /\ controller # "done" /\ controller' # "done"
        /\ UNCHANGED <<message, canonical>>
    BY <1>2 DEF ControllerDies, queueVars, bucketVars
  <2> QED
    BY <2>1 DEF Job!vars
<1>3. ASSUME NEW s \in Shards, PublishShard(s)
      PROVE  [Job!Next]_Job!vars
  <2>1. {q \in Shards : message'[q] # "unsent"} = {q \in Shards : message[q] # "unsent"} \union {s}
    BY <1>3 DEF IInv, TypeOK, PublishShard
  <2>2. controller # "done" /\ UNCHANGED <<controller, canonical>>
    BY <1>3 DEF PublishShard, bucketVars
  <2>3. Job!Send(s)
    BY <2>1, <2>2 DEF Job!Send, Job!NotWritten
  <2> QED
    BY <2>3 DEF Job!Next, Job!Shards, Shards
<1> QED
  BY <1>1, <1>2, <1>3

\* The queue's steps are hidden from BatchJob.
LEMMA QueueRefines ==
    ASSUME IInv,
           \/ \E s \in Shards : DeadLetter(s) \/ Reappear(s)
           \/ \E w \in Workers, s \in Shards : Deliver(w, s)
           \/ \E t \in settling : Settle(t)
    PROVE  UNCHANGED Job!vars
<1>1. UNCHANGED <<controller, canonical>>
  BY DEF DeadLetter, Reappear, Deliver, Settle, bucketVars
<1>2. \A s \in Shards : message'[s] = "unsent" <=> message[s] = "unsent"
  BY DEF IInv, TypeOK, Delivery, DeadLetter, Reappear, Deliver, Settle
<1> QED
  BY <1>1, <1>2, HiddenStep

\* A worker's step is a Finish of its shard or hidden from BatchJob.
LEMMA WorkersRefine ==
    ASSUME IInv, AnnouncedJobIsSent, NEW w \in Workers, Worker(w) \/ Crash(w)
    PROVE  [Job!Next]_Job!vars
<1>1. CASE ~ WriteCanonical(w)
  <2>1. UNCHANGED <<controller, message, canonical>>
    BY <1>1 DEF Worker, Pull, CheckMetadata, CheckResult, ScanRepo, ExportRepo, WriteRaw, Ack,
                Crash, Fail, Release, queueVars, bucketVars
  <2> QED
    BY <2>1, HiddenStep
<1>2. CASE WriteCanonical(w)
  <2>1. /\ controller = "done" /\ HeldShard(w) \in Shards /\ buffer[w] # NoFile
        /\ UNCHANGED <<controller, message>>
        /\ canonical' = canonical \/ canonical' = [canonical EXCEPT ![HeldShard(w)] = buffer[w]]
    BY <1>2, FileIsNotNoFile
       DEF IInv, TypeOK, WorkerInv, IsAnnounced, Delivery, HeldShard, WriteCanonical, Fail, Release,
           queueVars
  <2>2. PICK s \in Shards : s = HeldShard(w)
    BY <2>1
  <2>3. CASE canonical' = canonical
    BY <2>1, <2>3, HiddenStep
  <2>4. CASE canonical' = [canonical EXCEPT ![s] = buffer[w]]
    <3>1. {q \in Shards : canonical'[q] # NoFile} = {q \in Shards : canonical[q] # NoFile} \union {s}
      BY <2>1, <2>4 DEF IInv, TypeOK
    <3>2. Job!Finish(s)
      BY <2>1, <3>1, ShardWorkersAssumption DEF Job!Finish, Job!NotWritten, AnnouncedJobIsSent
    <3> QED
      BY <3>2 DEF Job!Next, Job!Shards, Shards
  <2> QED
    BY <2>1, <2>2, <2>3, <2>4
<1> QED
  BY <1>1, <1>2

\* The pipeline of queue and workers keeps the batch job's contract: results
\* appear only for announced jobs, announced with their true number of shards
\* once every shard is on the queue.
THEOREM PipelineImplementsBatchJob == Spec => ImplementsBatchJob
<1>1. Init => Job!Init
  <2> SUFFICES ASSUME Init
               PROVE  Job!Init
    OBVIOUS
  <2>1. {s \in Shards : message[s] # "unsent"} = {}
    BY DEF Init
  <2>2. {s \in Shards : canonical[s] # NoFile} = {}
    BY DEF Init
  <2> QED
    BY <2>1, <2>2, ShardWorkersAssumption DEF Init, Job!Init, Job!NotWritten
<1>2. IInv /\ AnnouncedJobIsSent /\ [Next]_vars => [Job!Next]_Job!vars
  <2> SUFFICES ASSUME IInv, AnnouncedJobIsSent, [Next]_vars
               PROVE  [Job!Next]_Job!vars
    OBVIOUS
  <2>1. CASE WriteMetadata \/ ControllerDies \/ \E s \in Shards : PublishShard(s)
    BY <2>1, ControllerRefines
  <2>2. CASE \/ \E s \in Shards : DeadLetter(s) \/ Reappear(s)
             \/ \E w \in Workers, s \in Shards : Deliver(w, s)
             \/ \E t \in settling : Settle(t)
    BY <2>2, QueueRefines
  <2>3. CASE \E w \in Workers : Worker(w) \/ Crash(w)
    BY <2>3, WorkersRefine
  <2>4. CASE UNCHANGED vars
    BY <2>4, HiddenStep DEF vars
  <2> QED
    BY <2>1, <2>2, <2>3, <2>4 DEF Next
<1>3. Init => AnnouncedJobIsSent
  BY DEF Init, AnnouncedJobIsSent
<1>4. IInv /\ AnnouncedJobIsSent /\ [Next]_vars => AnnouncedJobIsSent'
  BY AnnouncedJobStaysSent
<1> QED
  BY <1>1, <1>2, <1>3, <1>4, InvariantHolds, PTL DEF Spec, ImplementsBatchJob, Job!Spec

(***************************************************************************)
(* Retries heal.  A claim is a delivery some worker still answers for: it  *)
(* is being processed, waits in the receive buffer, or its ack or nack is  *)
(* on the way.  The queue hands out a shard again only when its claim is   *)
(* settled or lost, unless it overtakes a worker.  So a shard never        *)
(* overtaken has one claim at most, that claim is for the latest delivery, *)
(* and the worker that holds it is alone with the shard's files.           *)
(***************************************************************************)
Claim(place, of, delivery) == [place |-> place, of |-> of, delivery |-> delivery]

HeldClaims == {Claim("held", w, held[w]) : w \in {v \in Workers : held[v] # NoMessage}}

BufferedClaims == {Claim("buffered", w, buffered[w]) : w \in {v \in Workers : buffered[v] # NoMessage}}

SettlingClaims == {Claim("settling", t, t.delivery) : t \in settling}

Claims == HeldClaims \union BufferedClaims \union SettlingClaims

\* The claim on a shard that was never overtaken is for its latest delivery,
\* and the queue keeps the message hidden.
ClaimsAreCurrent ==
    \A c \in Claims :
        LET s == c.delivery.shard
        IN  s \notin overtaken => message[s] = "inflight" /\ c.delivery.receipt = receives[s]

\* A shard that was never overtaken has at most one claim.
ClaimsAreExclusive ==
    \A c, e \in Claims :
        c.delivery.shard = e.delivery.shard /\ c.delivery.shard \notin overtaken => c = e

\* A worker that is alone with its shard found no canonical file, and the raw
\* file is its own when it comes to write the canonical one.
WorkerIsAlone(w) ==
    held[w] # NoMessage /\ HeldShard(w) \notin overtaken =>
        /\ pc[w] \in {"scan", "export", "canonical"} => canonical[HeldShard(w)] = NoFile
        /\ pc[w] = "canonical" => raw[HeldShard(w)] = buffer[w]

HealInv ==
    /\ ClaimsAreCurrent
    /\ ClaimsAreExclusive
    /\ \A w \in Workers : WorkerIsAlone(w)
    /\ RetriesHeal
\* A claim is one of the three kinds.
LEMMA ClaimCases ==
    ASSUME NEW c
    PROVE  c \in Claims <=>
             \/ \E w \in Workers : held[w] # NoMessage /\ c = Claim("held", w, held[w])
             \/ \E w \in Workers : buffered[w] # NoMessage /\ c = Claim("buffered", w, buffered[w])
             \/ \E t \in settling : c = Claim("settling", t, t.delivery)
BY Zenon DEF Claims, HeldClaims, BufferedClaims, SettlingClaims

\* The claims after a step.
LEMMA NextClaimCases ==
    ASSUME NEW c
    PROVE  c \in Claims' <=>
             \/ \E w \in Workers : held'[w] # NoMessage /\ c = Claim("held", w, held'[w])
             \/ \E w \in Workers : buffered'[w] # NoMessage /\ c = Claim("buffered", w, buffered'[w])
             \/ \E t \in settling' : c = Claim("settling", t, t.delivery)
BY Zenon DEF Claims, HeldClaims, BufferedClaims, SettlingClaims

\* What a claim says of itself, and when two are the same.
LEMMA ClaimFields ==
    ASSUME NEW p, NEW o, NEW d
    PROVE  /\ Claim(p, o, d).place = p
           /\ Claim(p, o, d).of = o
           /\ Claim(p, o, d).delivery = d
BY DEF Claim

\* Every claim is on a shard.
LEMMA ClaimShape ==
    ASSUME TypeOK, NEW c \in Claims
    PROVE  c.delivery \in Delivery /\ c.delivery.shard \in Shards
<1>1. c.delivery \in Delivery
  BY ClaimCases, ClaimFields DEF TypeOK
<1> QED
  BY <1>1 DEF Delivery

\* No two workers hold a shard that was never overtaken.
LEMMA OneHolder ==
    ASSUME ClaimsAreExclusive, NEW v \in Workers, NEW w \in Workers,
           held[v] # NoMessage, held[w] # NoMessage,
           HeldShard(v) = HeldShard(w), HeldShard(w) \notin overtaken
    PROVE  v = w
<1>1. Claim("held", v, held[v]) \in Claims /\ Claim("held", w, held[w]) \in Claims
  BY ClaimCases, Zenon
<1>2. /\ Claim("held", v, held[v]).delivery = held[v] /\ Claim("held", v, held[v]).of = v
      /\ Claim("held", w, held[w]).delivery = held[w] /\ Claim("held", w, held[w]).of = w
  BY ClaimFields
<1>3. Claim("held", v, held[v]) = Claim("held", w, held[w])
  BY <1>1, <1>2 DEF ClaimsAreExclusive, HeldShard
<1> QED
  BY <1>2, <1>3

\* The queue still knows what it knew about the shards that are claimed.
ClaimedAsBefore ==
    \A c \in Claims' :
        c.delivery.shard \notin overtaken' =>
            /\ message'[c.delivery.shard] = message[c.delivery.shard]
            /\ receives'[c.delivery.shard] = receives[c.delivery.shard]

\* A step that only drops claims.
LEMMA FewerClaims ==
    ASSUME ClaimsAreCurrent, ClaimsAreExclusive, overtaken \subseteq overtaken',
           Claims' \subseteq Claims, ClaimedAsBefore
    PROVE  ClaimsAreCurrent' /\ ClaimsAreExclusive'
<1>1. ClaimsAreCurrent'
  <2> SUFFICES ASSUME NEW c \in Claims', c.delivery.shard \notin overtaken'
               PROVE  /\ message'[c.delivery.shard] = "inflight"
                      /\ c.delivery.receipt = receives'[c.delivery.shard]
    BY DEF ClaimsAreCurrent
  <2>1. c \in Claims /\ c.delivery.shard \notin overtaken
    OBVIOUS
  <2> QED
    BY <2>1 DEF ClaimsAreCurrent, ClaimedAsBefore
<1>2. ClaimsAreExclusive'
  <2> SUFFICES ASSUME NEW a \in Claims', NEW b \in Claims', a.delivery.shard = b.delivery.shard,
                      a.delivery.shard \notin overtaken'
               PROVE  a = b
    BY DEF ClaimsAreExclusive
  <2>1. a \in Claims /\ b \in Claims /\ a.delivery.shard \notin overtaken
    OBVIOUS
  <2> QED
    BY <2>1 DEF ClaimsAreExclusive
<1> QED
  BY <1>1, <1>2

\* A step that passes one claim on.
LEMMA MovedClaim ==
    ASSUME ClaimsAreCurrent, ClaimsAreExclusive, overtaken \subseteq overtaken',
           NEW c \in Claims, NEW e, c \notin Claims', e.delivery = c.delivery,
           Claims' \subseteq Claims \union {e}, ClaimedAsBefore
    PROVE  ClaimsAreCurrent' /\ ClaimsAreExclusive'
<1>1. ClaimsAreCurrent'
  BY DEF ClaimsAreCurrent, ClaimedAsBefore
<1>2. ASSUME NEW b \in Claims', b # e, b.delivery.shard = e.delivery.shard, b.delivery.shard \notin overtaken
      PROVE  FALSE
  <2>1. b \in Claims /\ b # c
    BY <1>2
  <2> QED
    BY <1>2, <2>1 DEF ClaimsAreExclusive
<1>3. ClaimsAreExclusive'
  <2> SUFFICES ASSUME NEW a \in Claims', NEW b \in Claims', a.delivery.shard = b.delivery.shard,
                      a.delivery.shard \notin overtaken'
               PROVE  a = b
    BY DEF ClaimsAreExclusive
  <2>1. CASE a = e \/ b = e
    BY <1>2, <2>1
  <2>2. CASE a # e /\ b # e
    BY <2>2 DEF ClaimsAreExclusive
  <2> QED
    BY <2>1, <2>2
<1> QED
  BY <1>1, <1>3

\* The claims are made of what workers hold and buffer and of what is settling.
LEMMA SameClaims ==
    ASSUME UNCHANGED <<held, buffered, settling>>
    PROVE  Claims' = Claims
BY DEF Claims, HeldClaims, BufferedClaims, SettlingClaims

(***************************************************************************)
(* The claims along the queue's steps.                                     *)
(***************************************************************************)

\* A shard whose message is not hidden has no claim, if it was never overtaken.
LEMMA UnclaimedUnlessInflight ==
    ASSUME ClaimsAreCurrent, NEW c \in Claims, c.delivery.shard \notin overtaken
    PROVE  message[c.delivery.shard] = "inflight" /\ c.delivery.receipt = receives[c.delivery.shard]
BY DEF ClaimsAreCurrent

\* Sending a message, or giving up on it, touches no claimed shard.
LEMMA VisibleStepKeepsClaims ==
    ASSUME TypeOK, ClaimsAreCurrent, ClaimsAreExclusive, NEW s \in Shards,
           PublishShard(s) \/ DeadLetter(s)
    PROVE  ClaimsAreCurrent' /\ ClaimsAreExclusive'
<1>1. Claims' = Claims /\ overtaken' = overtaken
  BY SameClaims DEF PublishShard, DeadLetter, workerVars
<1>2. ASSUME NEW c \in Claims, c.delivery.shard \notin overtaken
      PROVE  /\ message'[c.delivery.shard] = message[c.delivery.shard]
             /\ receives'[c.delivery.shard] = receives[c.delivery.shard]
  <2>1. message[c.delivery.shard] = "inflight"
    BY <1>2, UnclaimedUnlessInflight
  <2>2. c.delivery.shard # s
    BY <2>1 DEF PublishShard, DeadLetter
  <2> QED
    BY <2>2, <1>2, ClaimShape DEF PublishShard, DeadLetter, TypeOK
<1>3. ClaimedAsBefore
  BY <1>1, <1>2 DEF ClaimedAsBefore
<1> QED
  BY <1>1, <1>3, FewerClaims

\* The queue takes a message back: its shard is unclaimed, or overtaken.
LEMMA ReappearKeepsClaims ==
    ASSUME TypeOK, ClaimsAreCurrent, ClaimsAreExclusive, NEW s \in Shards, Reappear(s)
    PROVE  ClaimsAreCurrent' /\ ClaimsAreExclusive' /\ overtaken \subseteq overtaken'
<1>1. Claims' = Claims /\ overtaken \subseteq overtaken'
  BY SameClaims DEF Reappear, workerVars
<1>2. ASSUME NEW c \in Claims, c.delivery.shard \notin overtaken'
      PROVE  /\ message'[c.delivery.shard] = message[c.delivery.shard]
             /\ receives'[c.delivery.shard] = receives[c.delivery.shard]
  <2>1. c.delivery \in Delivery /\ c.delivery.shard \notin overtaken
    BY <1>1, <1>2, ClaimShape
  <2>2. c.delivery = [shard |-> c.delivery.shard, receipt |-> receives[c.delivery.shard]]
    BY <2>1, UnclaimedUnlessInflight DEF Delivery
  <2>3. Attended(c.delivery.shard)
    BY <1>2, <2>2, ClaimCases, ClaimFields DEF Attended
  <2>4. c.delivery.shard # s
    BY <1>2, <2>3 DEF Reappear
  <2> QED
    BY <2>1, <2>4 DEF Reappear, TypeOK, Delivery
<1>3. ClaimedAsBefore
  BY <1>1, <1>2 DEF ClaimedAsBefore
<1> QED
  BY <1>1, <1>3, FewerClaims

\* A delivery is a new claim on a shard that had none.
LEMMA DeliverKeepsClaims ==
    ASSUME TypeOK, ClaimsAreCurrent, ClaimsAreExclusive, NEW w \in Workers, NEW s \in Shards,
           Deliver(w, s)
    PROVE  ClaimsAreCurrent' /\ ClaimsAreExclusive'
<1> DEFINE d == [shard |-> s, receipt |-> receives[s] + 1]
           e == Claim("buffered", w, d)
<1>1. e.delivery = d /\ d.shard = s /\ d.receipt = receives[s] + 1
  BY ClaimFields
<1>2. message' = [message EXCEPT ![s] = "inflight"] /\ receives' = [receives EXCEPT ![s] = @ + 1]
      /\ message[s] = "visible" /\ overtaken' = overtaken /\ held' = held /\ settling' = settling
      /\ buffered' = [buffered EXCEPT ![w] = d]
  BY DEF Deliver
<1> HIDE DEF d
<1>3. ASSUME NEW c \in Claims', c # e
      PROVE  c \in Claims
  <2>1. CASE \E v \in Workers : held'[v] # NoMessage /\ c = Claim("held", v, held'[v])
    BY <1>2, <2>1, ClaimCases
  <2>2. CASE \E v \in Workers : buffered'[v] # NoMessage /\ c = Claim("buffered", v, buffered'[v])
    <3>1. PICK v \in Workers : buffered'[v] # NoMessage /\ c = Claim("buffered", v, buffered'[v])
      BY <2>2
    <3>2. v # w
      BY <1>2, <1>3, <3>1 DEF TypeOK
    <3>3. buffered'[v] = buffered[v]
      BY <1>2, <3>2 DEF TypeOK
    <3> QED
      BY <3>1, <3>3, ClaimCases, Zenon
  <2>3. CASE \E t \in settling' : c = Claim("settling", t, t.delivery)
    BY <1>2, <2>3, ClaimCases
  <2> QED
    BY <2>1, <2>2, <2>3, NextClaimCases
<1> HIDE DEF e
<1>4. ASSUME NEW c \in Claims, c.delivery.shard \notin overtaken
      PROVE  /\ c.delivery.shard # s
             /\ message'[c.delivery.shard] = message[c.delivery.shard]
             /\ receives'[c.delivery.shard] = receives[c.delivery.shard]
  <2>1. message[c.delivery.shard] = "inflight" /\ c.delivery.shard \in Shards
    BY <1>4, UnclaimedUnlessInflight, ClaimShape
  <2>2. c.delivery.shard # s
    BY <1>2, <2>1
  <2> QED
    BY <1>2, <2>1, <2>2 DEF TypeOK
<1>5. message'[s] = "inflight" /\ receives'[s] = receives[s] + 1
  BY <1>2 DEF TypeOK
<1>6. ClaimsAreCurrent'
  <2> SUFFICES ASSUME NEW c \in Claims', c.delivery.shard \notin overtaken
               PROVE  /\ message'[c.delivery.shard] = "inflight"
                      /\ c.delivery.receipt = receives'[c.delivery.shard]
    BY <1>2 DEF ClaimsAreCurrent
  <2>1. CASE c = e
    BY <1>1, <1>5, <2>1
  <2>2. CASE c # e
    BY <1>3, <1>4, <2>2, UnclaimedUnlessInflight
  <2> QED
    BY <2>1, <2>2
<1>7. ClaimsAreExclusive'
  <2> SUFFICES ASSUME NEW a \in Claims', NEW b \in Claims', a.delivery.shard = b.delivery.shard,
                      a.delivery.shard \notin overtaken
               PROVE  a = b
    BY <1>2 DEF ClaimsAreExclusive
  <2>1. CASE a.delivery.shard = s
    <3>1. a = e
      BY <1>3, <1>4, <2>1
    <3>2. b = e
      BY <1>3, <1>4, <2>1
    <3> QED
      BY <3>1, <3>2
  <2>2. CASE a.delivery.shard # s
    <3>1. a \in Claims /\ b \in Claims
      BY <1>1, <1>3, <2>2
    <3> QED
      BY <3>1 DEF ClaimsAreExclusive
  <2> QED
    BY <2>1, <2>2
<1> QED
  BY <1>6, <1>7

\* An ack or nack that arrives takes the shard's only claim with it.
LEMMA SettleKeepsClaims ==
    ASSUME TypeOK, ClaimsAreCurrent, ClaimsAreExclusive, NEW t \in settling, Settle(t)
    PROVE  ClaimsAreCurrent' /\ ClaimsAreExclusive'
<1> DEFINE e == Claim("settling", t, t.delivery)
<1>1. e \in Claims /\ e.delivery = t.delivery /\ e.place = "settling" /\ e.of = t
  BY ClaimCases, ClaimFields
<1>2. /\ held' = held /\ buffered' = buffered /\ settling' = settling \ {t} /\ overtaken' = overtaken
      /\ receives' = receives
      /\ \A s \in Shards : s # t.delivery.shard => message'[s] = message[s]
  BY DEF Settle, workerVars, TypeOK
<1>3. ASSUME NEW c \in Claims'
      PROVE  c \in Claims /\ c # e
  <2>1. CASE \E v \in Workers : held'[v] # NoMessage /\ c = Claim("held", v, held'[v])
    <3>1. c.place = "held"
      BY <2>1, ClaimFields
    <3> QED
      BY <1>1, <1>2, <2>1, <3>1, ClaimCases
  <2>2. CASE \E v \in Workers : buffered'[v] # NoMessage /\ c = Claim("buffered", v, buffered'[v])
    <3>1. c.place = "buffered"
      BY <2>2, ClaimFields
    <3> QED
      BY <1>1, <1>2, <2>2, <3>1, ClaimCases
  <2>3. CASE \E u \in settling' : c = Claim("settling", u, u.delivery)
    <3>1. PICK u \in settling' : c = Claim("settling", u, u.delivery)
      BY <2>3
    <3>2. c.of = u /\ u # t /\ u \in settling
      BY <1>2, <3>1, ClaimFields
    <3> QED
      BY <1>1, <3>1, <3>2, ClaimCases
  <2> QED
    BY <2>1, <2>2, <2>3, NextClaimCases
<1> HIDE DEF e
<1>4. ASSUME NEW c \in Claims', c.delivery.shard \notin overtaken
      PROVE  message'[c.delivery.shard] = message[c.delivery.shard]
  <2>1. c.delivery.shard # t.delivery.shard
    BY <1>1, <1>3, <1>4 DEF ClaimsAreExclusive
  <2> QED
    BY <1>2, <1>3, <2>1, ClaimShape
<1>5. ClaimedAsBefore
  BY <1>2, <1>4 DEF ClaimedAsBefore
<1> QED
  BY <1>2, <1>3, <1>5, FewerClaims

(***************************************************************************)
(* The claims along the workers' steps.                                    *)
(***************************************************************************)

\* A worker's step leaves the queue's view of every shard alone.
LEMMA QueueUntouched ==
    ASSUME UNCHANGED <<message, receives, overtaken>>
    PROVE  ClaimedAsBefore
BY DEF ClaimedAsBefore

\* Pull moves the claim from the receive buffer to the loop.
LEMMA PullKeepsClaims ==
    ASSUME TypeOK, ClaimsAreCurrent, ClaimsAreExclusive, NEW w \in Workers, Pull(w)
    PROVE  ClaimsAreCurrent' /\ ClaimsAreExclusive'
<1> DEFINE c == Claim("buffered", w, buffered[w])
           e == Claim("held", w, buffered[w])
<1>1. /\ buffered[w] # NoMessage /\ UNCHANGED <<message, receives, overtaken>> /\ settling' = settling
      /\ held' = [held EXCEPT ![w] = buffered[w]] /\ buffered' = [buffered EXCEPT ![w] = NoMessage]
  BY DEF Pull, queueVars
<1>2. c \in Claims /\ e.delivery = c.delivery
  BY <1>1, ClaimCases, ClaimFields
<1>3. ASSUME NEW a \in Claims', a # e
      PROVE  a \in Claims /\ a # c
  <2>0. c.place = "buffered" /\ c.of = w
    BY ClaimFields
  <2>1. CASE \E v \in Workers : held'[v] # NoMessage /\ a = Claim("held", v, held'[v])
    <3>1. PICK v \in Workers : held'[v] # NoMessage /\ a = Claim("held", v, held'[v])
      BY <2>1
    <3>2. v # w
      BY <1>1, <1>3, <3>1 DEF TypeOK
    <3>3. held'[v] = held[v]
      BY <1>1, <3>2 DEF TypeOK
    <3>4. a.place = "held"
      BY <3>1, ClaimFields
    <3> QED
      BY <2>0, <3>1, <3>3, <3>4, ClaimCases, Zenon
  <2>2. CASE \E v \in Workers : buffered'[v] # NoMessage /\ a = Claim("buffered", v, buffered'[v])
    <3>1. PICK v \in Workers : buffered'[v] # NoMessage /\ a = Claim("buffered", v, buffered'[v])
      BY <2>2
    <3>2. v # w
      BY <1>1, <3>1 DEF TypeOK
    <3>3. buffered'[v] = buffered[v]
      BY <1>1, <3>2 DEF TypeOK
    <3>4. a.of = v
      BY <3>1, ClaimFields
    <3> QED
      BY <2>0, <3>1, <3>2, <3>3, <3>4, ClaimCases, Zenon
  <2>3. CASE \E t \in settling' : a = Claim("settling", t, t.delivery)
    <3>1. a.place = "settling"
      BY <2>3, ClaimFields
    <3> QED
      BY <1>1, <2>0, <2>3, <3>1, ClaimCases
  <2> QED
    BY <2>1, <2>2, <2>3, NextClaimCases
<1>4. c # e
  <2>1. c.place = "buffered" /\ e.place = "held"
    BY ClaimFields
  <2> QED
    BY <2>1
<1> HIDE DEF c, e
<1>5. c \notin Claims' /\ Claims' \subseteq Claims \union {e}
  BY <1>3, <1>4
<1> QED
  BY <1>1, <1>2, <1>5, MovedClaim, QueueUntouched

\* Ack and Nack move the claim from the loop to the client library.
LEMMA ReleaseKeepsClaims ==
    ASSUME TypeOK, ClaimsAreCurrent, ClaimsAreExclusive, NEW w \in Workers, NEW kind,
           Release(w, kind), held[w] # NoMessage
    PROVE  ClaimsAreCurrent' /\ ClaimsAreExclusive'
<1> DEFINE t == [worker |-> w, delivery |-> held[w], kind |-> kind]
           c == Claim("held", w, held[w])
           e == Claim("settling", t, t.delivery)
<1>0. t.delivery = held[w]
  OBVIOUS
<1>1. /\ UNCHANGED <<message, receives, overtaken>> /\ settling' = settling \union {t}
      /\ held' = [held EXCEPT ![w] = NoMessage] /\ buffered' = buffered
  BY DEF Release, Forget
<1> HIDE DEF t
<1>2. c \in Claims /\ e.delivery = c.delivery
  BY <1>0, <1>1, ClaimCases, ClaimFields
<1>3. ASSUME NEW a \in Claims', a # e
      PROVE  a \in Claims /\ a # c
  <2>0. c.place = "held" /\ c.of = w
    BY ClaimFields
  <2>1. CASE \E v \in Workers : held'[v] # NoMessage /\ a = Claim("held", v, held'[v])
    <3>1. PICK v \in Workers : held'[v] # NoMessage /\ a = Claim("held", v, held'[v])
      BY <2>1
    <3>2. v # w
      BY <1>1, <3>1 DEF TypeOK
    <3>3. held'[v] = held[v]
      BY <1>1, <3>2 DEF TypeOK
    <3>4. a.of = v
      BY <3>1, ClaimFields
    <3> QED
      BY <2>0, <3>1, <3>2, <3>3, <3>4, ClaimCases, Zenon
  <2>2. CASE \E v \in Workers : buffered'[v] # NoMessage /\ a = Claim("buffered", v, buffered'[v])
    <3>1. a.place = "buffered"
      BY <2>2, ClaimFields
    <3> QED
      BY <1>1, <2>0, <2>2, <3>1, ClaimCases
  <2>3. CASE \E u \in settling' : a = Claim("settling", u, u.delivery)
    <3>1. PICK u \in settling' : a = Claim("settling", u, u.delivery)
      BY <2>3
    <3>2. u \in settling
      BY <1>1, <1>3, <3>1
    <3>3. a.place = "settling"
      BY <3>1, ClaimFields
    <3> QED
      BY <2>0, <3>1, <3>2, <3>3, ClaimCases
  <2> QED
    BY <2>1, <2>2, <2>3, NextClaimCases
<1>4. c # e
  <2>1. c.place = "held" /\ e.place = "settling"
    BY ClaimFields
  <2> QED
    BY <2>1
<1> HIDE DEF c, e
<1>5. c \notin Claims' /\ Claims' \subseteq Claims \union {e}
  BY <1>3, <1>4
<1> QED
  BY <1>1, <1>2, <1>5, MovedClaim, QueueUntouched

\* A crash only loses claims.
LEMMA CrashKeepsClaims ==
    ASSUME TypeOK, ClaimsAreCurrent, ClaimsAreExclusive, NEW w \in Workers, Crash(w)
    PROVE  ClaimsAreCurrent' /\ ClaimsAreExclusive'
<1>1. /\ UNCHANGED <<message, receives, overtaken>> /\ settling' \subseteq settling
      /\ held' = [held EXCEPT ![w] = NoMessage] /\ buffered' = [buffered EXCEPT ![w] = NoMessage]
  BY DEF Crash, Forget
<1>2. \A v \in Workers : held'[v] \in {held[v], NoMessage} /\ buffered'[v] \in {buffered[v], NoMessage}
  BY <1>1 DEF TypeOK
<1>3. Claims' \subseteq Claims
  BY <1>1, <1>2, ClaimCases, NextClaimCases
<1> QED
  BY <1>1, <1>3, FewerClaims, QueueUntouched

(***************************************************************************)
(* The files along the workers' steps.                                     *)
(***************************************************************************)

\* What one step of worker w does to the shard files.
FileStep(w) ==
    \/ UNCHANGED <<raw, canonical>>
    \/ /\ pc[w] = "scan"
       /\ raw' = [raw EXCEPT ![HeldShard(w)] = buffer[w]]
       /\ canonical' = canonical
    \/ /\ pc[w] = "canonical"
       /\ canonical' = [canonical EXCEPT ![HeldShard(w)] = buffer[w]]
       /\ raw' = raw

\* A worker alone with its shard keeps the two files in step.
LEMMA FileStepHeals ==
    ASSUME TypeOK, HealInv, NEW w \in Workers, held[w] # NoMessage, FileStep(w), overtaken' = overtaken
    PROVE  RetriesHeal'
<1> SUFFICES ASSUME NEW s \in Shards, s \notin overtaken, canonical'[s] # NoFile
             PROVE  raw'[s] = canonical'[s]
  BY DEF RetriesHeal
<1>1. HeldShard(w) \in Shards
  BY DEF TypeOK, Delivery, HeldShard
<1>2. CASE s # HeldShard(w) \/ UNCHANGED <<raw, canonical>>
  <2>1. raw'[s] = raw[s] /\ canonical'[s] = canonical[s]
    BY <1>1, <1>2 DEF FileStep, TypeOK
  <2> QED
    BY <2>1 DEF HealInv, RetriesHeal
<1>3. CASE s = HeldShard(w) /\ pc[w] = "scan" /\ canonical' = canonical
  BY <1>3 DEF HealInv, WorkerIsAlone
<1>4. CASE /\ s = HeldShard(w) /\ pc[w] = "canonical" /\ raw' = raw
           /\ canonical' = [canonical EXCEPT ![HeldShard(w)] = buffer[w]]
  <2>1. raw[s] = buffer[w]
    BY <1>4 DEF HealInv, WorkerIsAlone
  <2>2. canonical'[s] = buffer[w]
    BY <1>1, <1>4 DEF TypeOK
  <2> QED
    BY <1>4, <2>1, <2>2
<1> QED
  BY <1>2, <1>3, <1>4 DEF FileStep

\* A step of one worker leaves the others alone with their shards.
LEMMA OthersStayAlone ==
    ASSUME TypeOK, HealInv, NEW w \in Workers, NEW v \in Workers, v # w,
           held[w] # NoMessage, FileStep(w), overtaken' = overtaken,
           held'[v] = held[v], pc'[v] = pc[v], buffer'[v] = buffer[v]
    PROVE  WorkerIsAlone(v)'
<1> SUFFICES ASSUME held[v] # NoMessage, HeldShard(v) \notin overtaken
             PROVE  /\ pc[v] \in {"scan", "export", "canonical"} => canonical'[HeldShard(v)] = NoFile
                    /\ pc[v] = "canonical" => raw'[HeldShard(v)] = buffer[v]
  BY DEF WorkerIsAlone, HeldShard
<1>1. HeldShard(w) \in Shards /\ HeldShard(v) \in Shards
  BY DEF TypeOK, Delivery, HeldShard
<1>2. HeldShard(v) # HeldShard(w)
  BY OneHolder DEF HealInv
<1>3. raw'[HeldShard(v)] = raw[HeldShard(v)] /\ canonical'[HeldShard(v)] = canonical[HeldShard(v)]
  BY <1>1, <1>2 DEF FileStep, TypeOK
<1> QED
  BY <1>3 DEF HealInv, WorkerIsAlone

\* A worker that holds nothing has nothing to be alone with.
LEMMA EmptyHandedIsAlone ==
    ASSUME NEW w \in Workers, held'[w] = NoMessage
    PROVE  WorkerIsAlone(w)'
BY DEF WorkerIsAlone

\* A step of the queue or the controller.
LEMMA QuietStepHeals ==
    ASSUME HealInv, UNCHANGED <<held, pc, buffer, raw, canonical>>, overtaken \subseteq overtaken',
           ClaimsAreCurrent', ClaimsAreExclusive'
    PROVE  HealInv'
<1>1. ASSUME NEW w \in Workers
      PROVE  WorkerIsAlone(w)'
  BY DEF HealInv, WorkerIsAlone, HeldShard
<1>2. RetriesHeal'
  BY DEF HealInv, RetriesHeal
<1> QED
  BY <1>1, <1>2 DEF HealInv

\* A worker gives up its message, whatever its last call did to the files.
LEMMA ReleaseHeals ==
    ASSUME TypeOK, HealInv, NEW w \in Workers, NEW kind, pc[w] # "pull", FileStep(w), Release(w, kind)
    PROVE  HealInv'
<1>1. held[w] # NoMessage /\ overtaken' = overtaken
  BY DEF TypeOK, Release
<1>2. ClaimsAreCurrent' /\ ClaimsAreExclusive'
  BY <1>1, ReleaseKeepsClaims DEF HealInv
<1>3. RetriesHeal'
  BY <1>1, FileStepHeals
<1>4. ASSUME NEW v \in Workers
      PROVE  WorkerIsAlone(v)'
  <2>1. CASE v = w
    <3>1. held'[w] = NoMessage
      BY DEF Release, Forget, TypeOK
    <3> QED
      BY <2>1, <3>1, EmptyHandedIsAlone
  <2>2. CASE v # w
    <3>1. held'[v] = held[v] /\ pc'[v] = pc[v] /\ buffer'[v] = buffer[v]
      BY <2>2 DEF Release, Forget, TypeOK
    <3> QED
      BY <1>1, <2>2, <3>1, OthersStayAlone
  <2> QED
    BY <2>1, <2>2
<1> QED
  BY <1>2, <1>3, <1>4 DEF HealInv

\* A worker goes on with its message.
LEMMA AdvanceHeals ==
    ASSUME TypeOK, HealInv, NEW w \in Workers, pc[w] # "pull", FileStep(w),
           UNCHANGED <<queueVars, buffered, held>>, WorkerIsAlone(w)',
           \A v \in Workers : v # w => pc'[v] = pc[v] /\ buffer'[v] = buffer[v]
    PROVE  HealInv'
<1>1. held[w] # NoMessage /\ UNCHANGED <<message, receives, overtaken, settling, held, buffered>>
  BY DEF TypeOK, queueVars
<1>2. Claims' = Claims
  BY <1>1, SameClaims
<1>3. ClaimsAreCurrent' /\ ClaimsAreExclusive'
  BY <1>1, <1>2, FewerClaims, QueueUntouched DEF HealInv
<1>4. RetriesHeal'
  BY <1>1, FileStepHeals
<1>5. ASSUME NEW v \in Workers, v # w
      PROVE  WorkerIsAlone(v)'
  BY <1>1, <1>5, OthersStayAlone
<1> QED
  BY <1>3, <1>4, <1>5 DEF HealInv

\* Every step of the queue and the controller keeps the invariant.
LEMMA QueueStepHeals ==
    ASSUME TypeOK, HealInv,
           \/ WriteMetadata \/ ControllerDies
           \/ \E s \in Shards : PublishShard(s) \/ DeadLetter(s) \/ Reappear(s)
           \/ \E w \in Workers, s \in Shards : Deliver(w, s)
           \/ \E t \in settling : Settle(t)
    PROVE  HealInv'
<1>0. ClaimsAreCurrent /\ ClaimsAreExclusive
  BY DEF HealInv
<1>1. CASE WriteMetadata \/ ControllerDies
  <2>1. /\ UNCHANGED <<message, receives, overtaken, settling, held, buffered>>
        /\ UNCHANGED <<held, pc, buffer, raw, canonical>>
    BY <1>1 DEF WriteMetadata, ControllerDies, queueVars, workerVars, bucketVars
  <2>2. Claims' = Claims
    BY <2>1, SameClaims
  <2>3. ClaimsAreCurrent' /\ ClaimsAreExclusive'
    BY <1>0, <2>1, <2>2, FewerClaims, QueueUntouched
  <2> QED
    BY <2>1, <2>3, QuietStepHeals
<1>2. ASSUME NEW s \in Shards, PublishShard(s) \/ DeadLetter(s)
      PROVE  HealInv'
  <2>1. UNCHANGED <<held, pc, buffer, raw, canonical>> /\ overtaken' = overtaken
    BY <1>2 DEF PublishShard, DeadLetter, workerVars, bucketVars
  <2> QED
    BY <1>0, <1>2, <2>1, VisibleStepKeepsClaims, QuietStepHeals
<1>3. ASSUME NEW s \in Shards, Reappear(s)
      PROVE  HealInv'
  <2>1. UNCHANGED <<held, pc, buffer, raw, canonical>>
    BY <1>3 DEF Reappear, workerVars, bucketVars
  <2> QED
    BY <1>0, <1>3, <2>1, ReappearKeepsClaims, QuietStepHeals
<1>4. ASSUME NEW w \in Workers, NEW s \in Shards, Deliver(w, s)
      PROVE  HealInv'
  <2>1. UNCHANGED <<held, pc, buffer, raw, canonical>> /\ overtaken' = overtaken
    BY <1>4 DEF Deliver, bucketVars
  <2> QED
    BY <1>0, <1>4, <2>1, DeliverKeepsClaims, QuietStepHeals
<1>5. ASSUME NEW t \in settling, Settle(t)
      PROVE  HealInv'
  <2>1. UNCHANGED <<held, pc, buffer, raw, canonical>> /\ overtaken' = overtaken
    BY <1>5 DEF Settle, workerVars, bucketVars
  <2> QED
    BY <1>0, <1>5, <2>1, SettleKeepsClaims, QuietStepHeals
<1> QED
  BY <1>1, <1>2, <1>3, <1>4, <1>5

\* Every step of a worker that has a message keeps the invariant.
LEMMA WorkerStepHeals ==
    ASSUME TypeOK, HealInv, NEW w \in Workers, Worker(w), ~ Pull(w)
    PROVE  HealInv'
<1>1. CASE CheckMetadata(w)
  <2>1. pc[w] = "metadata" /\ FileStep(w)
    BY <1>1 DEF CheckMetadata, FileStep, bucketVars
  <2>2. CASE \E kind \in {"ack", "nack"} : Release(w, kind)
    BY <2>1, <2>2, ReleaseHeals
  <2>3. CASE pc' = [pc EXCEPT ![w] = "exists"] /\ UNCHANGED <<queueVars, buffered, held, buffer>>
    <3>1. WorkerIsAlone(w)' /\ \A v \in Workers : v # w => pc'[v] = pc[v] /\ buffer'[v] = buffer[v]
      BY <2>3 DEF WorkerIsAlone, TypeOK
    <3> QED
      BY <2>1, <2>3, <3>1, AdvanceHeals
  <2> QED
    BY <1>1, <2>2, <2>3 DEF CheckMetadata, Fail
<1>2. CASE CheckResult(w)
  <2>1. pc[w] = "exists" /\ FileStep(w) /\ canonical' = canonical
    BY <1>2 DEF CheckResult, FileStep, bucketVars
  <2>2. CASE \E kind \in {"ack", "nack"} : Release(w, kind)
    BY <2>1, <2>2, ReleaseHeals
  <2>3. CASE /\ \/ pc' = [pc EXCEPT ![w] = "ack"]
                \/ pc' = [pc EXCEPT ![w] = "scan"] /\ canonical[HeldShard(w)] = NoFile
             /\ UNCHANGED <<queueVars, buffered, held, buffer>>
    <3>1. WorkerIsAlone(w)' /\ \A v \in Workers : v # w => pc'[v] = pc[v] /\ buffer'[v] = buffer[v]
      BY <2>1, <2>3 DEF WorkerIsAlone, TypeOK, HeldShard
    <3> QED
      BY <2>1, <2>3, <3>1, AdvanceHeals
  <2> QED
    BY <1>2, <2>2, <2>3 DEF CheckResult, Fail
<1>3. CASE ScanRepo(w)
  <2>1. pc[w] = "scan" /\ FileStep(w) /\ canonical' = canonical
    BY <1>3 DEF ScanRepo, FileStep, bucketVars
  <2>2. CASE \E kind \in {"ack", "nack"} : Release(w, kind)
    BY <2>1, <2>2, ReleaseHeals
  <2>3. CASE /\ \/ pc' = [pc EXCEPT ![w] = "export"] /\ buffer' = [buffer EXCEPT ![w] = @ \union {Current(w)}]
                \/ UNCHANGED <<pc, buffer>>
             /\ UNCHANGED <<queueVars, buffered, held>>
    <3>1. WorkerIsAlone(w)' /\ \A v \in Workers : v # w => pc'[v] = pc[v] /\ buffer'[v] = buffer[v]
      BY <2>1, <2>3 DEF WorkerIsAlone, TypeOK, HeldShard, HealInv, queueVars
    <3> QED
      BY <2>1, <2>3, <3>1, AdvanceHeals
  <2> QED
    BY <1>3, <2>2, <2>3 DEF ScanRepo, Fail
<1>4. CASE ExportRepo(w)
  <2>1. pc[w] = "export" /\ FileStep(w) /\ canonical' = canonical
    BY <1>4 DEF ExportRepo, FileStep
  <2>2. CASE \E kind \in {"ack", "nack"} : Release(w, kind)
    BY <2>1, <2>2, ReleaseHeals
  <2>3. CASE pc' \in {pc, [pc EXCEPT ![w] = "scan"]} /\ UNCHANGED <<queueVars, buffered, held, buffer>>
    <3>1. WorkerIsAlone(w)' /\ \A v \in Workers : v # w => pc'[v] = pc[v] /\ buffer'[v] = buffer[v]
      BY <2>1, <2>3 DEF WorkerIsAlone, TypeOK, HeldShard, HealInv, queueVars
    <3> QED
      BY <2>1, <2>3, <3>1, AdvanceHeals
  <2> QED
    BY <1>4, <2>2, <2>3 DEF ExportRepo, Fail
<1>5. CASE WriteRaw(w)
  <2>1. pc[w] = "scan" /\ FileStep(w) /\ canonical' = canonical
    BY <1>5 DEF WriteRaw, FileStep
  <2>2. CASE \E kind \in {"ack", "nack"} : Release(w, kind)
    BY <2>1, <2>2, ReleaseHeals
  <2>3. CASE /\ raw' = [raw EXCEPT ![HeldShard(w)] = buffer[w]]
             /\ pc' = [pc EXCEPT ![w] = "canonical"]
             /\ UNCHANGED <<queueVars, buffered, held, buffer>>
    <3>0. held[w] # NoMessage /\ HeldShard(w) \in Shards
      BY <2>1 DEF TypeOK, HeldShard, Delivery
    <3>1. raw'[HeldShard(w)] = buffer[w] /\ HeldShard(w)' = HeldShard(w)
      BY <2>3, <3>0 DEF TypeOK, HeldShard
    <3>2. WorkerIsAlone(w)' /\ \A v \in Workers : v # w => pc'[v] = pc[v] /\ buffer'[v] = buffer[v]
      BY <2>1, <2>3, <3>0, <3>1 DEF WorkerIsAlone, TypeOK, HealInv, queueVars
    <3> QED
      BY <2>1, <2>3, <3>2, AdvanceHeals
  <2> QED
    BY <1>5, <2>2, <2>3 DEF WriteRaw, Fail
<1>6. CASE WriteCanonical(w)
  <2>1. pc[w] = "canonical" /\ FileStep(w)
    BY <1>6 DEF WriteCanonical, FileStep
  <2>2. CASE \E kind \in {"ack", "nack"} : Release(w, kind)
    BY <2>1, <2>2, ReleaseHeals
  <2>3. CASE pc' = [pc EXCEPT ![w] = "ack"] /\ UNCHANGED <<queueVars, buffered, held, buffer>>
    <3>1. WorkerIsAlone(w)' /\ \A v \in Workers : v # w => pc'[v] = pc[v] /\ buffer'[v] = buffer[v]
      BY <2>3 DEF WorkerIsAlone, TypeOK
    <3> QED
      BY <2>1, <2>3, <3>1, AdvanceHeals
  <2> QED
    BY <1>6, <2>2, <2>3 DEF WriteCanonical, Fail
<1>7. CASE Ack(w)
  <2>1. pc[w] = "ack" /\ FileStep(w) /\ Release(w, "ack")
    BY <1>7 DEF Ack, FileStep, bucketVars
  <2> QED
    BY <2>1, ReleaseHeals
<1> QED
  BY <1>1, <1>2, <1>3, <1>4, <1>5, <1>6, <1>7 DEF Worker

\* A worker takes the next message, or dies.
LEMMA PullAndCrashHeal ==
    ASSUME TypeOK, HealInv, NEW w \in Workers, Pull(w) \/ Crash(w)
    PROVE  HealInv'
<1>1. ClaimsAreCurrent' /\ ClaimsAreExclusive'
  BY PullKeepsClaims, CrashKeepsClaims DEF HealInv
<1>2. UNCHANGED <<raw, canonical, overtaken>>
  BY DEF Pull, Crash, queueVars, bucketVars
<1>3. pc'[w] \in {"metadata", "pull"}
      /\ \A v \in Workers : v # w => held'[v] = held[v] /\ pc'[v] = pc[v] /\ buffer'[v] = buffer[v]
  BY DEF Pull, Crash, Forget, TypeOK
<1>4. ASSUME NEW v \in Workers
      PROVE  WorkerIsAlone(v)'
  BY <1>2, <1>3 DEF HealInv, WorkerIsAlone, HeldShard
<1>5. RetriesHeal'
  BY <1>2 DEF HealInv, RetriesHeal
<1> QED
  BY <1>1, <1>4, <1>5 DEF HealInv

\* As long as no delivery is taken back from a worker that is still at it,
\* crashes and failed calls between any two steps of processRequest leave no
\* lasting difference: a canonical shard file comes with the raw file of the
\* same repositories.
THEOREM RetriesDoHeal == Spec => []RetriesHeal
<1>1. Init => HealInv
  <2> SUFFICES ASSUME Init
               PROVE  HealInv
    OBVIOUS
  <2>1. Claims = {}
    BY ClaimCases DEF Init
  <2> QED
    BY <2>1 DEF Init, HealInv, ClaimsAreCurrent, ClaimsAreExclusive, WorkerIsAlone, RetriesHeal
<1>2. IInv /\ HealInv /\ [Next]_vars => HealInv'
  <2> SUFFICES ASSUME TypeOK, HealInv, [Next]_vars
               PROVE  HealInv'
    BY DEF IInv
  <2>1. CASE \/ WriteMetadata \/ ControllerDies
             \/ \E s \in Shards : PublishShard(s) \/ DeadLetter(s) \/ Reappear(s)
             \/ \E w \in Workers, s \in Shards : Deliver(w, s)
             \/ \E t \in settling : Settle(t)
    BY <2>1, QueueStepHeals
  <2>2. CASE \E w \in Workers : Worker(w) \/ Crash(w)
    BY <2>2, WorkerStepHeals, PullAndCrashHeal
  <2>3. CASE UNCHANGED vars
    <3>1. /\ UNCHANGED <<message, receives, overtaken, settling, held, buffered>>
          /\ UNCHANGED <<held, pc, buffer, raw, canonical>>
      BY <2>3 DEF vars
    <3>2. Claims' = Claims
      BY <3>1, SameClaims
    <3>3. ClaimsAreCurrent' /\ ClaimsAreExclusive'
      BY <3>1, <3>2, FewerClaims, QueueUntouched DEF HealInv
    <3> QED
      BY <3>1, <3>3, QuietStepHeals
  <2> QED
    BY <2>1, <2>2, <2>3 DEF Next
<1>3. HealInv => RetriesHeal
  BY DEF HealInv
<1> QED
  BY <1>1, <1>2, <1>3, InvariantHolds, PTL DEF Spec
(***************************************************************************)
(* The pipeline fills the bucket as BqTransfer's environment does.         *)
(***************************************************************************)

\* A step of the batch job, seen in the bucket.
LEMMA JobStepFillsBucket ==
    ASSUME [Job!Next]_Job!vars
    PROVE  [Transfer!Announce(0) \/ \E s \in Shards : Transfer!Finish(0, s)]_(Transfer!bucketVars)
<1> DEFINE files == {s \in Shards : canonical[s] # NoFile}
<1>1. CASE UNCHANGED Job!vars
  <2>1. files' = files /\ (controller' = "done" <=> controller = "done")
    BY <1>1, ShardWorkersAssumption DEF Job!vars
  <2> QED
    BY <2>1 DEF Transfer!bucketVars
<1>2. CASE Job!Announce
  <2>1. files' = files /\ controller # "done" /\ controller' = "done"
    BY <1>2, ShardWorkersAssumption DEF Job!Announce, Job!NotWritten
  <2>2. Transfer!Announce(0)
    BY <2>1 DEF Transfer!Announce
  <2> QED
    BY <2>2
<1>3. ASSUME NEW s \in Job!Shards, Job!Send(s)
      PROVE  UNCHANGED Transfer!bucketVars
  <2>1. files' = files /\ (controller' = "done" <=> controller = "done")
    BY <1>3, ShardWorkersAssumption DEF Job!Send
  <2> QED
    BY <2>1 DEF Transfer!bucketVars
<1>4. ASSUME NEW s \in Job!Shards, Job!Finish(s)
      PROVE  s \in Shards /\ Transfer!Finish(0, s)
  <2>1. files' = files \union {s} /\ controller = "done" /\ controller' = "done" /\ s \in Shards
    BY <1>4, ShardWorkersAssumption DEF Job!Finish, Job!NotWritten, Job!Shards, Shards
  <2> HIDE DEF files
  <2>2. [j \in {0} |-> files'] = [[j \in {0} |-> files] EXCEPT ![0] = @ \union {s}]
    BY <2>1
  <2> QED
    BY <2>1, <2>2 DEF Transfer!Finish, files
<1> QED
  BY <1>1, <1>2, <1>3, <1>4 DEF Job!Next

\* What the BigQuery transfer takes for granted about the bucket is what the
\* controller and the workers do to it, through crashes and redeliveries: the
\* job is announced once, results come afterwards and are never taken away.
THEOREM PipelineFillsBucket == Spec => BucketFillsForTransfer
<1>1. [][Job!Next]_Job!vars => BucketFillsForTransfer
  BY JobStepFillsBucket, PTL DEF BucketFillsForTransfer
<1> QED
  BY <1>1, PipelineImplementsBatchJob, PTL DEF ImplementsBatchJob, Job!Spec
=============================================================================
