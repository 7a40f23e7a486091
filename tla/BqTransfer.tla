----------------------------- MODULE BqTransfer -----------------------------
(***************************************************************************)
(* The BigQuery transfer (cron/internal/bq and cron/data/summary.go), a    *)
(* CronJob that runs one at a time and is restarted when it fails.  It     *)
(* lists the bucket, and for every job that is complete enough and not yet *)
(* transferred it loads the shard files into the partition of the job's    *)
(* day, marks the job with a .transfer_status file and calls the webhook.  *)
(*                                                                         *)
(* The bucket fills meanwhile as BatchJob promises.  A load is a job of    *)
(* BigQuery's own: it reads the files matching shard-* when it starts,     *)
(* replaces the partition when it ends, and goes on if its client dies.    *)
(***************************************************************************)
EXTENDS Integers, FiniteSets

CONSTANTS
    Jobs,               \* batch jobs, by their JobTime
    JobSize,            \* NumShard of each job's metadata
    Day,                \* the UTC day of each job, its partition; a controller
                        \* that is restarted makes another job of the same day
    ThresholdNum,       \* completion-threshold, as a fraction
    ThresholdDen,
    HasWebhook,         \* config webhook-url is not empty
    MaxFaults,          \* bound: failed or killed transfer runs
    Nothing             \* an empty partition, or no job

ShardsOf(j) == 0 .. JobSize[j] - 1
Shards == UNION {ShardsOf(j) : j \in Jobs}

\* A load remembers which run of the transfer started it, by the failures before.
Load == [job : Jobs, shards : SUBSET Shards, run : 0 .. MaxFaults]

ASSUME BqTransferAssumption ==
    /\ JobSize \in [Jobs -> Nat]
    /\ ThresholdNum \in Nat \ {0} /\ ThresholdDen \in Nat \ {0}
    /\ HasWebhook \in BOOLEAN
    /\ MaxFaults \in Nat
    /\ Nothing \notin Jobs /\ Nothing \notin Load

VARIABLES
    metadata,           \* jobs with a .shard_metadata file
    shardFiles,         \* per job: the shard files in the bucket
    transferStatus,     \* jobs with a .transfer_status file
    loads,              \* BigQuery load jobs under way
    partition,          \* per day: what the table holds, a load or Nothing
    pinged,             \* jobs the webhook was called for
    pc,                 \* where the transfer run is
    summary,            \* BucketSummary: what this run listed
    left,               \* jobs of the summary the loop has not come to
    current,            \* the job being transferred
    faults              \* failures so far

vars == <<metadata, shardFiles, transferStatus, loads, partition, pinged, pc, summary,
          left, current, faults>>

bucketVars == <<metadata, shardFiles>>

Init ==
    /\ metadata = {}
    /\ shardFiles = [j \in Jobs |-> {}]
    /\ transferStatus = {}
    /\ loads = {}
    /\ partition = [d \in {Day[j] : j \in Jobs} |-> Nothing]
    /\ pinged = {}
    /\ pc = "idle"
    /\ summary = [j \in Jobs |-> [created |-> 0, expected |-> 0, transferred |-> FALSE]]
    /\ left = {}
    /\ current = Nothing
    /\ faults = 0

(***************************************************************************)
(* The bucket fills: see BatchJob.                                         *)
(***************************************************************************)
Announce(j) ==
    /\ j \notin metadata
    /\ metadata' = metadata \union {j}
    /\ UNCHANGED <<shardFiles, transferStatus, loads, partition, pinged, pc, summary, left,
                   current, faults>>

Finish(j, s) ==
    /\ j \in metadata
    /\ shardFiles' = [shardFiles EXCEPT ![j] = @ \union {s}]
    /\ UNCHANGED <<metadata, transferStatus, loads, partition, pinged, pc, summary, left,
                   current, faults>>

(***************************************************************************)
(* The transfer run.                                                       *)
(***************************************************************************)
\* Mutated: no guard against a missing metadata file or an empty job.
IsCompletedUnguarded(s) ==
    s.created * ThresholdDen >= ThresholdNum * s.expected

\* ShardSummary.IsCompleted.
IsCompleted(s) ==
    /\ s.expected > 0
    /\ s.created * ThresholdDen >= ThresholdNum * s.expected

\* GetBucketSummary: one listing of the bucket, grouped by job.
GetBucketSummary ==
    /\ pc = "idle"
    /\ pc' = "choose"
    /\ summary' = [j \in Jobs |->
                     [created     |-> Cardinality(shardFiles[j]),
                      expected    |-> IF j \in metadata THEN JobSize[j] ELSE 0,
                      transferred |-> j \in transferStatus]]
    /\ left' = Jobs
    /\ UNCHANGED <<bucketVars, transferStatus, loads, partition, pinged, current, faults>>

\* Mutated: an incomplete job ends the loop instead of being passed over.
SkipEndingLoop(j) ==
    /\ pc = "choose"
    /\ j \in left
    /\ summary[j].transferred \/ ~ IsCompleted(summary[j])
    /\ left' = IF summary[j].transferred THEN left \ {j} ELSE {}
    /\ UNCHANGED <<bucketVars, transferStatus, loads, partition, pinged, pc, summary, current, faults>>

\* A job already transferred, or not complete enough, is passed over.
Skip(j) ==
    /\ pc = "choose"
    /\ j \in left
    /\ summary[j].transferred \/ ~ IsCompleted(summary[j])
    /\ left' = left \ {j}
    /\ UNCHANGED <<bucketVars, transferStatus, loads, partition, pinged, pc, summary, current, faults>>

\* Mutated: the marker of an earlier run is ignored.
StartLoadIgnoringStatus(j) ==
    /\ pc = "choose"
    /\ j \in left
    /\ IsCompleted(summary[j])
    /\ left' = left \ {j}
    /\ current' = j
    /\ loads' = loads \union {[job |-> j, shards |-> shardFiles[j], run |-> faults]}
    /\ pc' = "wait"
    /\ UNCHANGED <<bucketVars, transferStatus, partition, pinged, summary, faults>>

\* loader.Run: BigQuery takes a load of the files there are now.
StartLoad(j) ==
    /\ pc = "choose"
    /\ j \in left
    /\ ~ summary[j].transferred
    /\ IsCompleted(summary[j])
    /\ left' = left \ {j}
    /\ current' = j
    /\ loads' = loads \union {[job |-> j, shards |-> shardFiles[j], run |-> faults]}
    /\ pc' = "wait"
    /\ UNCHANGED <<bucketVars, transferStatus, partition, pinged, summary, faults>>

\* BigQuery ends a load: WriteTruncate replaces the partition.  The client
\* that waits for it learns of it; a load whose client is gone ends too.
EndLoad(l) ==
    /\ loads' = loads \ {l}
    /\ partition' = [partition EXCEPT ![Day[l.job]] = l]
    /\ pc' = IF pc = "wait" /\ l.run = faults THEN "mark" ELSE pc
    /\ UNCHANGED <<bucketVars, transferStatus, pinged, summary, left, current, faults>>

\* Mutated: the job is marked before its load has ended.
MarkTransferredEarly ==
    /\ pc \in {"wait", "mark"}
    /\ transferStatus' = transferStatus \union {current}
    /\ pc' = IF HasWebhook THEN "webhook" ELSE "choose"
    /\ UNCHANGED <<bucketVars, loads, partition, pinged, summary, left, current, faults>>

\* Mutated: the marker is written at the top of the loop, before a job is chosen.
MarkTransferredOfNone ==
    /\ pc = "choose" \/ pc = "mark"
    /\ transferStatus' = transferStatus \union {current}
    /\ pc' = IF HasWebhook THEN "webhook" ELSE "choose"
    /\ UNCHANGED <<bucketVars, loads, partition, pinged, summary, left, current, faults>>

\* MarkTransferred.
MarkTransferred ==
    /\ pc = "mark"
    /\ transferStatus' = transferStatus \union {current}
    /\ pc' = IF HasWebhook THEN "webhook" ELSE "choose"
    /\ UNCHANGED <<bucketVars, loads, partition, pinged, summary, left, current, faults>>

\* http.Post to the webhook; any answer will do.
PostWebhook ==
    /\ pc = "webhook"
    /\ pinged' = pinged \union {current}
    /\ pc' = "choose"
    /\ UNCHANGED <<bucketVars, transferStatus, loads, partition, summary, left, current, faults>>

\* The loop is over; the next scheduled run starts from a new listing.
EndRun ==
    /\ pc = "choose"
    /\ left = {}
    /\ pc' = "idle"
    /\ UNCHANGED <<bucketVars, transferStatus, loads, partition, pinged, summary, left, current, faults>>

\* A step fails and main panics, or the pod is killed.  A load under way may
\* end without it; a marker or a ping may have got through.
Fail ==
    /\ pc # "idle"
    /\ faults < MaxFaults
    /\ faults' = faults + 1
    /\ loads' \in {loads, {l \in loads : l.run # faults}}
    /\ transferStatus' \in {transferStatus, transferStatus \union {j \in {current} : pc = "mark"}}
    /\ pinged' \in {pinged, pinged \union {j \in {current} : pc = "webhook"}}
    /\ pc' = "idle"
    /\ UNCHANGED <<bucketVars, partition, summary, left, current>>

Transfer ==
    \/ GetBucketSummary \/ MarkTransferred \/ PostWebhook \/ EndRun
    \/ \E j \in Jobs : Skip(j) \/ StartLoad(j)

Next ==
    \/ \E j \in Jobs : Announce(j) \/ \E s \in ShardsOf(j) : Finish(j, s)
    \/ Transfer
    \/ \E l \in loads : EndLoad(l)
    \/ Fail

(***************************************************************************)
(* The schedule starts a run again and again, a running one goes on unless *)
(* it fails, and BigQuery ends every load it accepted.  Nothing obliges    *)
(* the workers to finish.                                                  *)
(***************************************************************************)
Fairness == WF_vars(Transfer) /\ WF_vars(\E l \in loads : EndLoad(l))

Spec == Init /\ [][Next]_vars /\ Fairness

(***************************************************************************)
(* Correctness.                                                            *)
(***************************************************************************)
TypeOK ==
    /\ metadata \subseteq Jobs
    /\ shardFiles \in [Jobs -> SUBSET Shards]
    /\ transferStatus \subseteq Jobs
    /\ loads \subseteq Load
    /\ partition \in [{Day[j] : j \in Jobs} -> Load \union {Nothing}]
    /\ pinged \subseteq Jobs
    /\ pc \in {"idle", "choose", "wait", "mark", "webhook"}
    /\ summary \in [Jobs -> [created : Nat, expected : Nat, transferred : BOOLEAN]]
    /\ left \subseteq Jobs
    /\ current \in Jobs \union {Nothing}
    /\ faults \in 0 .. MaxFaults

\* The announced jobs that share the partition of job j.
JobsOfTheDay(j) == {i \in metadata : Day[i] = Day[j]}

\* A job marked as transferred is in the table for good: its day's partition
\* holds a load of this very job, or of another announced job of the same day
\* that replaced it, with at least the threshold of that job's shards, whatever
\* retried, killed or late loads do afterwards.
TransferredJobIsInTable ==
    \A j \in transferStatus :
        LET l == partition[Day[j]]
        IN  /\ l # Nothing
            /\ l.job \in JobsOfTheDay(j)
            /\ IsCompleted([created |-> Cardinality(l.shards), expected |-> JobSize[l.job]])

\* The webhook is only called for transferred jobs, and nothing is loaded for a
\* job that was not announced or declares no shards.
OnlyAnnouncedJobsMove ==
    /\ pinged \subseteq transferStatus
    /\ \A l \in loads : l.job \in metadata /\ l.shards # {}

\* Once marked, a job is not loaded again: a later run would replace the
\* partition readers already use.
MarkedJobIsNotReloaded ==
    [][\A j \in transferStatus :
        \A l \in loads' \ loads : l.job # j]_vars

\* A job that reaches the threshold is transferred in the end, in spite of
\* failed runs.
CompleteJobIsTransferred ==
    \A j \in Jobs :
        j \in metadata /\ IsCompleted([created |-> Cardinality(shardFiles[j]), expected |-> JobSize[j]])
            ~> j \in transferStatus
=============================================================================
