---------------------------- MODULE ShardWorkers ----------------------------
(***************************************************************************)
(* One batch job from queue to buckets: the controller seen from outside,  *)
(* the SQS queue with its redrive policy, and the fleet of workers, each   *)
(* running cron/worker.WorkLoop over cron/internal/worker.processRequest.  *)
(*                                                                         *)
(* The queue is a standard one: it delivers in any order and at least      *)
(* once.  A delivery hides the message until it is deleted, released or    *)
(* its visibility lapses, and carries a receipt that a later delivery      *)
(* makes stale.  A worker holds one message and may have one more waiting  *)
(* in its receive buffer.  Ack and Nack hand the message to a background   *)
(* batch of the client library and return before the queue is told.        *)
(***************************************************************************)
EXTENDS Integers, FiniteSets

CONSTANTS
    NumShards,      \* messages of the job
    ShardRepos,     \* the repositories (numbers) of each shard
    Workers,        \* worker pods
    MaxReceives,    \* the redrive policy's maxReceiveCount
    MaxFaults,      \* bound: failures considered in one behaviour
    NoMessage,      \* no delivery
    NoFile          \* no object under this name

Shards == 0 .. NumShards - 1

Repos == UNION {ShardRepos[s] : s \in Shards}

ASSUME ShardWorkersAssumption ==
    /\ NumShards \in Nat
    /\ ShardRepos \in [Shards -> SUBSET Nat]
    /\ MaxReceives \in Nat \ {0}
    /\ MaxFaults \in Nat
    /\ NoMessage \notin [shard : Shards, receipt : Nat]
    /\ \A files \in SUBSET Repos : NoFile # files

VARIABLES
    controller,     \* "publishing", "done" (metadata written) or "dead"
    message,        \* the queue's view of each shard's message
    receives,       \* how often each message was delivered
    settling,       \* acks and nacks on their way to the queue
    overtaken,      \* history: shards taken back from a worker still at them
    buffered,       \* per worker: the delivery in the receive buffer
    held,           \* per worker: the delivery being processed
    pc,             \* per worker: where WorkLoop.Run and processRequest are
    todo,           \* per worker: repositories of the shard still to scan
    buffer,         \* per worker: repositories in buffer2 and rawBuffer
    written,        \* per worker: API objects written for the current repository
    api,            \* API objects in the results bucket
    raw,            \* shard files of the raw bucket, with their repositories
    canonical,      \* shard files of the canonical bucket, with theirs
    faults          \* failures so far

queueVars == <<message, receives, settling, overtaken>>
workerVars == <<buffered, held, pc, todo, buffer, written>>
bucketVars == <<api, raw, canonical>>
vars == <<controller, message, receives, settling, overtaken, buffered, held, pc,
          todo, buffer, written, api, raw, canonical, faults>>

Delivery == [shard : Shards, receipt : Nat]

\* The objects processRequest exports for one repository, in its order.
ExportKeys == <<"latest", "commit", "rawLatest", "rawCommit">>

Exports(r) == {<<r, ExportKeys[k]>> : k \in 1 .. 4}

Init ==
    /\ controller = "publishing"
    /\ message = [s \in Shards |-> "unsent"]
    /\ receives = [s \in Shards |-> 0]
    /\ settling = {}
    /\ overtaken = {}
    /\ buffered = [w \in Workers |-> NoMessage]
    /\ held = [w \in Workers |-> NoMessage]
    /\ pc = [w \in Workers |-> "pull"]
    /\ todo = [w \in Workers |-> {}]
    /\ buffer = [w \in Workers |-> {}]
    /\ written = [w \in Workers |-> 0]
    /\ api = {}
    /\ raw = [s \in Shards |-> NoFile]
    /\ canonical = [s \in Shards |-> NoFile]
    /\ faults = 0

\* A failure happens; the bound on failures is the model's.
Fault ==
    /\ faults < MaxFaults
    /\ faults' = faults + 1

(***************************************************************************)
(* The controller, as Controller.tla lets others see it.                   *)
(***************************************************************************)
PublishShard(s) ==
    /\ controller = "publishing"
    /\ message[s] = "unsent"
    /\ message' = [message EXCEPT ![s] = "visible"]
    /\ UNCHANGED <<controller, receives, settling, overtaken, workerVars, bucketVars, faults>>

\* Mutated: the job is announced while sends are still running.
WriteMetadataEarly ==
    /\ controller = "publishing"
    /\ controller' = "done"
    /\ UNCHANGED <<queueVars, workerVars, bucketVars, faults>>

WriteMetadata ==
    /\ controller = "publishing"
    /\ \A s \in Shards : message[s] # "unsent"
    /\ controller' = "done"
    /\ UNCHANGED <<queueVars, workerVars, bucketVars, faults>>

ControllerDies ==
    /\ controller = "publishing"
    /\ Fault
    /\ controller' = "dead"
    /\ UNCHANGED <<queueVars, workerVars, bucketVars>>

(***************************************************************************)
(* The queue.                                                              *)
(***************************************************************************)
\* The queue delivers a visible message into a worker's receive buffer.
Deliver(w, s) ==
    /\ buffered[w] = NoMessage
    /\ message[s] = "visible"
    /\ receives[s] < MaxReceives
    /\ message' = [message EXCEPT ![s] = "inflight"]
    /\ receives' = [receives EXCEPT ![s] = @ + 1]
    /\ buffered' = [buffered EXCEPT ![w] = [shard |-> s, receipt |-> receives[s] + 1]]
    /\ UNCHANGED <<controller, settling, overtaken, held, pc, todo, buffer, written, bucketVars, faults>>

\* A message whose deliveries are used up moves to the dead-letter queue.
DeadLetter(s) ==
    /\ message[s] = "visible"
    /\ receives[s] = MaxReceives
    /\ message' = [message EXCEPT ![s] = "dead"]
    /\ UNCHANGED <<controller, receives, settling, overtaken, workerVars, bucketVars, faults>>

\* Some worker still answers for the current delivery of s: it holds or
\* buffers it, or its ack or nack is on the way.
Attended(s) ==
    LET d == [shard |-> s, receipt |-> receives[s]]
    IN  \/ \E w \in Workers : held[w] = d \/ buffered[w] = d
        \/ \E t \in settling : t.delivery = d

\* The visibility of a delivery lapses after its worker died, or, as a fault,
\* because a renewal of a worker that is still at it was missed, or because the
\* message waited in a receive buffer, where nothing renews it, for the queue's
\* whole timeout.  A standard queue may even deliver a deleted message again.
Reappear(s) ==
    /\ message[s] \in {"inflight", "deleted"}
    /\ IF Attended(s) \/ message[s] = "deleted" THEN Fault ELSE UNCHANGED faults
    /\ message' = [message EXCEPT ![s] = "visible"]
    /\ overtaken' = IF Attended(s) THEN overtaken \union {s} ELSE overtaken
    /\ UNCHANGED <<controller, receives, settling, workerVars, bucketVars>>

\* The queue takes note of an ack or a nack.  With a stale receipt it may
\* just as well ignore it.
Settle(t) ==
    LET s == t.delivery.shard
        outcome == IF t.kind = "ack" THEN "deleted" ELSE "visible"
    IN  /\ settling' = settling \ {t}
        /\ \/ /\ message[s] \in {"inflight", "visible"}
              /\ message' = [message EXCEPT ![s] = outcome]
           \/ /\ t.delivery.receipt # receives[s] \/ message[s] \in {"deleted", "dead"}
              /\ UNCHANGED message
        /\ UNCHANGED <<controller, receives, overtaken, workerVars, bucketVars, faults>>

(***************************************************************************)
(* A worker.                                                               *)
(***************************************************************************)
HeldShard(w) == held[w].shard

\* The repositories of a shard are scanned in their order in the request.
Current(w) == CHOOSE r \in todo[w] : \A q \in todo[w] : r <= q

Forget(w) ==
    /\ held' = [held EXCEPT ![w] = NoMessage]
    /\ pc' = [pc EXCEPT ![w] = "pull"]
    /\ todo' = [todo EXCEPT ![w] = {}]
    /\ buffer' = [buffer EXCEPT ![w] = {}]
    /\ written' = [written EXCEPT ![w] = 0]

\* Ack or Nack the held message and go back to the top of the loop.
Release(w, kind) ==
    /\ settling' = settling \union {[worker |-> w, delivery |-> held[w], kind |-> kind]}
    /\ Forget(w)
    /\ UNCHANGED <<controller, message, receives, overtaken, buffered>>

\* announceError after a call that failed, whatever the call was.
Fail(w) ==
    /\ Fault
    /\ Release(w, "nack")

\* Mutated: the loop does not stop for a nil message.
PullNil(w) ==
    /\ pc[w] = "pull"
    /\ held' = [held EXCEPT ![w] = buffered[w]]
    /\ buffered' = [buffered EXCEPT ![w] = NoMessage]
    /\ pc' = [pc EXCEPT ![w] = "metadata"]
    /\ UNCHANGED <<controller, queueVars, todo, buffer, written, bucketVars, faults>>

\* SynchronousPull returns the buffered message.
Pull(w) ==
    /\ pc[w] = "pull"
    /\ buffered[w] # NoMessage
    /\ held' = [held EXCEPT ![w] = buffered[w]]
    /\ buffered' = [buffered EXCEPT ![w] = NoMessage]
    /\ pc' = [pc EXCEPT ![w] = "metadata"]
    /\ UNCHANGED <<controller, queueVars, todo, buffer, written, bucketVars, faults>>

\* Mutated: the metadata file is not looked for.
CheckMetadataSkipped(w) ==
    /\ pc[w] = "metadata"
    /\ pc' = [pc EXCEPT ![w] = "exists"]
    /\ UNCHANGED <<controller, queueVars, buffered, held, todo, buffer, written, bucketVars, faults>>

\* Mutated: a message without metadata is kept until the file appears.
CheckMetadataWaiting(w) ==
    /\ pc[w] = "metadata"
    /\ \/ /\ controller = "done"
          /\ pc' = [pc EXCEPT ![w] = "exists"]
          /\ UNCHANGED <<controller, queueVars, buffered, held, todo, buffer, written, faults>>
       \/ Fail(w)
    /\ UNCHANGED bucketVars

\* hasMetadataFile: a job that is not announced (yet) is not worked on.
CheckMetadata(w) ==
    /\ pc[w] = "metadata"
    /\ \/ /\ controller = "done"
          /\ pc' = [pc EXCEPT ![w] = "exists"]
          /\ UNCHANGED <<controller, queueVars, buffered, held, todo, buffer, written, faults>>
       \/ /\ controller # "done"
          /\ Release(w, "nack")
          /\ UNCHANGED faults
       \/ Fail(w)
    /\ UNCHANGED bucketVars

\* Mutated: a shard that has its canonical file is processed again.
CheckResultIgnored(w) ==
    /\ pc[w] = "exists"
    /\ \/ /\ pc' = [pc EXCEPT ![w] = "scan"]
          /\ todo' = [todo EXCEPT ![w] = ShardRepos[HeldShard(w)]]
          /\ UNCHANGED <<controller, queueVars, buffered, held, buffer, written, faults>>
       \/ Fail(w)
    /\ UNCHANGED bucketVars

\* resultExists: a shard with a canonical file is acked without being processed.
CheckResult(w) ==
    /\ pc[w] = "exists"
    /\ \/ /\ canonical[HeldShard(w)] # NoFile
          /\ pc' = [pc EXCEPT ![w] = "ack"]
          /\ UNCHANGED <<controller, queueVars, buffered, held, todo, buffer, written, faults>>
       \/ /\ canonical[HeldShard(w)] = NoFile
          /\ pc' = [pc EXCEPT ![w] = "scan"]
          /\ todo' = [todo EXCEPT ![w] = ShardRepos[HeldShard(w)]]
          /\ UNCHANGED <<controller, queueVars, buffered, held, buffer, written, faults>>
       \/ Fail(w)
    /\ UNCHANGED bucketVars

\* scorecard.Run on the next repository: a result joins both buffers, an
\* invalid or unreachable repository is left out, any other error ends the shard.
ScanRepo(w) ==
    /\ pc[w] = "scan"
    /\ todo[w] # {}
    /\ \/ /\ buffer' = [buffer EXCEPT ![w] = @ \union {Current(w)}]
          /\ pc' = [pc EXCEPT ![w] = "export"]
          /\ UNCHANGED <<controller, queueVars, buffered, held, todo, written, faults>>
       \/ /\ todo' = [todo EXCEPT ![w] = @ \ {Current(w)}]
          /\ UNCHANGED <<controller, queueVars, buffered, held, pc, buffer, written, faults>>
       \/ Fail(w)
    /\ UNCHANGED bucketVars

\* One of the four WriteToBlobStore calls for the repository just scanned.  A
\* write that reports an error may have landed.
ExportRepo(w) ==
    LET key == <<Current(w), ExportKeys[written[w] + 1]>>
    IN  /\ pc[w] = "export"
        /\ \/ /\ api' = api \union {key}
              /\ IF written[w] + 1 < 4
                 THEN /\ written' = [written EXCEPT ![w] = @ + 1]
                      /\ UNCHANGED <<todo, pc>>
                 ELSE /\ written' = [written EXCEPT ![w] = 0]
                      /\ todo' = [todo EXCEPT ![w] = @ \ {Current(w)}]
                      /\ pc' = [pc EXCEPT ![w] = "scan"]
              /\ UNCHANGED <<controller, queueVars, buffered, held, buffer, faults>>
           \/ /\ api' \in {api, api \union {key}}
              /\ Fail(w)
        /\ UNCHANGED <<raw, canonical>>

\* Mutated: the canonical file takes the raw file's place in the order.
WriteRawLast(w) ==
    /\ pc[w] = "scan"
    /\ todo[w] = {}
    /\ canonical' = [canonical EXCEPT ![HeldShard(w)] = buffer[w]]
    /\ pc' = [pc EXCEPT ![w] = "canonical"]
    /\ UNCHANGED <<controller, queueVars, buffered, held, todo, buffer, written, faults, api, raw>>

\* Mutated: the shard is only written when no repository was left out.
WriteRawRequiringAll(w) ==
    /\ pc[w] = "scan"
    /\ todo[w] = {}
    /\ buffer[w] = ShardRepos[HeldShard(w)]
    /\ raw' = [raw EXCEPT ![HeldShard(w)] = buffer[w]]
    /\ pc' = [pc EXCEPT ![w] = "canonical"]
    /\ UNCHANGED <<controller, queueVars, buffered, held, todo, buffer, written, faults, api, canonical>>

\* All repositories are done: the raw shard file.
WriteRaw(w) ==
    LET file == [raw EXCEPT ![HeldShard(w)] = buffer[w]]
    IN  /\ pc[w] = "scan"
        /\ todo[w] = {}
        /\ \/ /\ raw' = file
              /\ pc' = [pc EXCEPT ![w] = "canonical"]
              /\ UNCHANGED <<controller, queueVars, buffered, held, todo, buffer, written, faults>>
           \/ /\ raw' \in {raw, file}
              /\ Fail(w)
        /\ UNCHANGED <<api, canonical>>

\* Mutated: the error of the last write is dropped.
WriteCanonicalUnchecked(w) ==
    /\ pc[w] = "canonical"
    /\ canonical' \in {canonical, [canonical EXCEPT ![HeldShard(w)] = buffer[w]]}
    /\ pc' = [pc EXCEPT ![w] = "ack"]
    /\ UNCHANGED <<controller, queueVars, buffered, held, todo, buffer, written, faults, api, raw>>

\* Mutated: a failed write is cleaned up by removing the file.
WriteCanonicalRemoving(w) ==
    LET file == [canonical EXCEPT ![HeldShard(w)] = buffer[w]]
    IN  /\ pc[w] = "canonical"
        /\ \/ /\ canonical' = file
              /\ pc' = [pc EXCEPT ![w] = "ack"]
              /\ UNCHANGED <<controller, queueVars, buffered, held, todo, buffer, written, faults>>
           \/ /\ canonical' = [canonical EXCEPT ![HeldShard(w)] = NoFile]
              /\ Fail(w)
        /\ UNCHANGED <<api, raw>>

\* The canonical shard file, last: its presence says the shard is complete.
WriteCanonical(w) ==
    LET file == [canonical EXCEPT ![HeldShard(w)] = buffer[w]]
    IN  /\ pc[w] = "canonical"
        /\ \/ /\ canonical' = file
              /\ pc' = [pc EXCEPT ![w] = "ack"]
              /\ UNCHANGED <<controller, queueVars, buffered, held, todo, buffer, written, faults>>
           \/ /\ canonical' \in {canonical, file}
              /\ Fail(w)
        /\ UNCHANGED <<api, raw>>

\* PostProcess and Ack.
Ack(w) ==
    /\ pc[w] = "ack"
    /\ Release(w, "ack")
    /\ UNCHANGED <<bucketVars, faults>>

\* The pod is killed and replaced: what it held, buffered or was about to tell
\* the queue is lost with it.
Crash(w) ==
    /\ Fault
    /\ Forget(w)
    /\ buffered' = [buffered EXCEPT ![w] = NoMessage]
    /\ settling' = {t \in settling : t.worker # w}
    /\ UNCHANGED <<controller, message, receives, overtaken, bucketVars>>

Worker(w) ==
    \/ Pull(w) \/ CheckMetadata(w) \/ CheckResult(w) \/ ScanRepo(w) \/ ExportRepo(w)
    \/ WriteRaw(w) \/ WriteCanonical(w) \/ Ack(w)

Next ==
    \/ WriteMetadata
    \/ ControllerDies
    \/ \E s \in Shards : PublishShard(s) \/ DeadLetter(s) \/ Reappear(s)
    \/ \E w \in Workers, s \in Shards : Deliver(w, s)
    \/ \E t \in settling : Settle(t)
    \/ \E w \in Workers : Worker(w) \/ Crash(w)

(***************************************************************************)
(* The controller goes on until it is done or dies.  Every running worker  *)
(* goes on, and its client library sends what it was given.  The queue     *)
(* delivers visible messages to polling workers, moves used-up ones to the *)
(* dead-letter queue, and lets the visibility of a dead worker's message   *)
(* lapse.  No step of an attended message is forced to fail.               *)
(***************************************************************************)
Lapse(s) ==
    /\ message[s] = "inflight"
    /\ ~ Attended(s)
    /\ Reappear(s)

Fairness ==
    /\ WF_vars(WriteMetadata \/ \E s \in Shards : PublishShard(s))
    /\ \A w \in Workers : WF_vars(Worker(w))
    /\ WF_vars(\E t \in settling : Settle(t))
    /\ WF_vars(\E w \in Workers, s \in Shards : Deliver(w, s))
    /\ \A s \in Shards : WF_vars(DeadLetter(s)) /\ WF_vars(Lapse(s))

Spec == Init /\ [][Next]_vars /\ Fairness

(***************************************************************************)
(* Correctness.                                                            *)
(***************************************************************************)
TypeOK ==
    /\ controller \in {"publishing", "done", "dead"}
    /\ message \in [Shards -> {"unsent", "visible", "inflight", "deleted", "dead"}]
    /\ receives \in [Shards -> 0 .. MaxReceives]
    /\ settling \subseteq [worker : Workers, delivery : Delivery, kind : {"ack", "nack"}]
    /\ overtaken \subseteq Shards
    /\ buffered \in [Workers -> Delivery \union {NoMessage}]
    /\ held \in [Workers -> Delivery \union {NoMessage}]
    /\ pc \in [Workers -> {"pull", "metadata", "exists", "scan", "export", "canonical", "ack"}]
    /\ \A w \in Workers : pc[w] # "pull" => held[w] # NoMessage
    /\ todo \in [Workers -> SUBSET Repos]
    /\ buffer \in [Workers -> SUBSET Repos]
    /\ written \in [Workers -> 0 .. 3]
    /\ api \subseteq Repos \X {"latest", "commit", "rawLatest", "rawCommit"}
    /\ raw \in [Shards -> (SUBSET Repos) \union {NoFile}]
    /\ canonical \in [Shards -> (SUBSET Repos) \union {NoFile}]
    /\ faults \in 0 .. MaxFaults

\* No shard leaves the queue, and no ack is on its way, unless its result is
\* in the canonical bucket: crashes, lost acks, stale receipts and two workers
\* on one shard never lose work.
AckedShardHasResult ==
    \A s \in Shards :
        \/ message[s] = "deleted"
        \/ \E t \in settling : t.kind = "ack" /\ t.delivery.shard = s
        => canonical[s] # NoFile

\* A canonical shard file means the whole shard is published: its raw file
\* exists and every repository it lists has its four API objects.
CompletedShardIsWhole ==
    \A s \in Shards :
        canonical[s] # NoFile =>
            /\ raw[s] # NoFile
            /\ \A r \in canonical[s] : Exports(r) \subseteq api

\* A failure or a crash between any two steps of a shard heals itself, as long as
\* no delivery is taken back from a worker that is still at it: whenever the
\* canonical file exists, the raw file lists the same repositories.
RetriesHeal ==
    \A s \in Shards \ overtaken : canonical[s] # NoFile => raw[s] = canonical[s]

\* No worker leaves any trace in a bucket for a job that has no metadata
\* file: its results would never be transferred.
UnannouncedJobIsUntouched ==
    controller # "done" =>
        /\ api = {}
        /\ \A s \in Shards : raw[s] = NoFile /\ canonical[s] = NoFile

\* Every shard of an announced job ends with a result or in the dead-letter
\* queue, through crashes, lapsed visibility, lost acks and failed scans.
EveryShardSettles ==
    controller = "done" ~>
        \A s \in Shards : canonical[s] # NoFile \/ message[s] = "dead"

\* The queue runs empty, for a job whose controller died as well: its shards
\* cannot circulate for ever.
QueueDrains ==
    <>[](\A s \in Shards : message[s] \in {"unsent", "deleted", "dead"})

(***************************************************************************)
(* What the repository says and the code does not keep.                    *)
(***************************************************************************)
\* A message nacked because the metadata file does not exist yet can be tried
\* later (cron/worker/worker.go): only a shard of a job that met some failure
\* ends in the dead-letter queue.
DeadLetterMeansFailure ==
    \A s \in Shards : message[s] = "dead" => faults > 0

\* A crash between the raw and the canonical write heals itself
\* (scripts/verification/check-bucket-consistency.sh): once the shard is off
\* the queue and no worker is at it, the two files list the same repositories.
RawMatchesCanonical ==
    \A s \in Shards :
        /\ message[s] = "deleted"
        /\ \A w \in Workers : held[w] = NoMessage \/ HeldShard(w) # s
        => raw[s] = canonical[s]

\* The pipeline keeps the batch job's contract.
Job == INSTANCE BatchJob WITH
    size      <- NumShards,
    sent      <- {s \in Shards : message[s] # "unsent"},
    announced <- IF controller = "done" THEN NumShards ELSE -1,
    results   <- {s \in Shards : canonical[s] # NoFile}

ImplementsBatchJob == Job!Spec

\* The job as the BigQuery transfer finds it in the bucket, between two runs.
Transfer == INSTANCE BqTransfer WITH
    Jobs           <- {0},
    JobSize        <- [j \in {0} |-> NumShards],
    Day            <- [j \in {0} |-> 0],
    ThresholdNum   <- 1,
    ThresholdDen   <- 1,
    HasWebhook     <- FALSE,
    Nothing        <- -1,
    metadata       <- IF controller = "done" THEN {0} ELSE {},
    shardFiles     <- [j \in {0} |-> {s \in Shards : canonical[s] # NoFile}],
    transferStatus <- {},
    loads          <- {},
    partition      <- [d \in {0} |-> -1],
    pinged         <- {},
    pc             <- "idle",
    summary        <- [j \in {0} |-> [created |-> 0, expected |-> 0, transferred |-> FALSE]],
    left           <- {},
    current        <- -1,
    faults         <- 0

\* The bucket fills as the transfer takes for granted: the job is announced
\* once, shard files appear one by one and only afterwards, and no worker, retry
\* or crash ever takes one of them away.
BucketFillsForTransfer ==
    [][Transfer!Announce(0) \/ \E s \in Shards : Transfer!Finish(0, s)]_(Transfer!bucketVars)
=============================================================================
