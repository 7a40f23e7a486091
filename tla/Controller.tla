----------------------------- MODULE Controller -----------------------------
(***************************************************************************)
(* The weekly controller (cron/internal/controller) and the publisher it   *)
(* drives (cron/internal/pubsub/publisher.go).  It reads the repository    *)
(* inventory, groups the repositories into shards of ShardSize, hands each *)
(* shard to a goroutine that sends it, waits for all the sends and then    *)
(* writes .shard_metadata to the canonical and to the raw bucket.          *)
(*                                                                         *)
(* A repository is its position in the inventory.  Every error return of   *)
(* publishToRepoRequestTopic and of main ends in panic; the CronJob never  *)
(* restarts the pod, so a panicked job stays as it is.                     *)
(***************************************************************************)
EXTENDS Integers, FiniteSets

CONSTANTS
    MaxRepos,       \* bound: the largest inventory considered
    ShardSize,      \* config shard-size
    HasRawBucket    \* config raw-result-data-bucket-url is not empty

ASSUME ControllerAssumption ==
    /\ MaxRepos \in Nat
    /\ ShardSize \in Nat \ {0}
    /\ HasRawBucket \in BOOLEAN

VARIABLES
    numRepos,       \* repositories the iterator will yield
    pc,             \* where main is
    next,           \* the iterator's next repository
    repos,          \* request.Repos: repositories of the shard being filled
    shardNum,       \* shardNum of publishToRepoRequestTopic
    outgoing,       \* messages whose Send goroutine has not finished
    queue,          \* messages the topic has accepted
    totalErrors,    \* publisherImpl.totalErrors
    metadata,       \* NumShard in the canonical bucket's .shard_metadata
    rawMetadata     \* NumShard in the raw bucket's .shard_metadata

vars == <<numRepos, pc, next, repos, shardNum, outgoing, queue, totalErrors, metadata, rawMetadata>>

NotWritten == -1

Inventory == 1 .. numRepos

Message == [shard : Nat, repos : SUBSET Inventory]

Running == {"reading", "closing", "metadata", "rawMetadata"}

Init ==
    /\ numRepos \in 0 .. MaxRepos
    /\ pc = "reading"
    /\ next = 1
    /\ repos = {}
    /\ shardNum = 0
    /\ outgoing = {}
    /\ queue = {}
    /\ totalErrors = 0
    /\ metadata = NotWritten
    /\ rawMetadata = NotWritten

(***************************************************************************)
(* Publish marshals the request before its goroutine starts, so the        *)
(* message carries the shard number and repositories of this moment        *)
(* although the caller goes on to change both.                             *)
(***************************************************************************)
Publish(batch) ==
    outgoing' = outgoing \union {[shard |-> shardNum, repos |-> batch]}

\* Mutated: the request is not cleared after it is published.
ReadRepoKeepingRepos ==
    LET batch == repos \union {next}
    IN  /\ pc = "reading"
        /\ next <= numRepos
        /\ next' = next + 1
        /\ repos' = batch
        /\ IF Cardinality(batch) < ShardSize
           THEN UNCHANGED <<shardNum, outgoing>>
           ELSE /\ Publish(batch)
                /\ shardNum' = shardNum + 1
        /\ UNCHANGED <<numRepos, pc, queue, totalErrors, metadata, rawMetadata>>

\* Mutated: the iterator yields one repository too many.
ReadRepoPastEnd ==
    LET batch == repos \union {next}
    IN  /\ pc = "reading"
        /\ next <= numRepos + 1
        /\ next' = next + 1
        /\ IF Cardinality(batch) < ShardSize
           THEN /\ repos' = batch
                /\ UNCHANGED <<shardNum, outgoing>>
           ELSE /\ Publish(batch)
                /\ repos' = {}
                /\ shardNum' = shardNum + 1
        /\ UNCHANGED <<numRepos, pc, queue, totalErrors, metadata, rawMetadata>>

\* One turn of the read loop: Next, append, and Publish once the shard is full.
ReadRepo ==
    LET batch == repos \union {next}
    IN  /\ pc = "reading"
        /\ next <= numRepos
        /\ next' = next + 1
        /\ IF Cardinality(batch) < ShardSize
           THEN /\ repos' = batch
                /\ UNCHANGED <<shardNum, outgoing>>
           ELSE /\ Publish(batch)
                /\ repos' = {}
                /\ shardNum' = shardNum + 1
        /\ UNCHANGED <<numRepos, pc, queue, totalErrors, metadata, rawMetadata>>

\* Mutated: the number of the shard that never filled is not taken back.
FlushWithoutDecrement ==
    /\ pc = "reading"
    /\ next > numRepos
    /\ IF repos # {} THEN Publish(repos) ELSE UNCHANGED outgoing
    /\ pc' = "closing"
    /\ UNCHANGED <<numRepos, next, repos, shardNum, queue, totalErrors, metadata, rawMetadata>>

\* Mutated: the last, partial shard is forgotten.
FlushWithoutPartialShard ==
    /\ pc = "reading"
    /\ next > numRepos
    /\ pc' = "closing"
    /\ shardNum' = shardNum - 1
    /\ UNCHANGED <<numRepos, next, repos, outgoing, queue, totalErrors, metadata, rawMetadata>>

\* The inventory is exhausted: the last, partial shard is published, or the
\* number prepared for a shard that never filled is taken back.
Flush ==
    /\ pc = "reading"
    /\ next > numRepos
    /\ IF repos # {}
       THEN /\ Publish(repos)
            /\ UNCHANGED shardNum
       ELSE /\ shardNum' = shardNum - 1
            /\ UNCHANGED outgoing
    /\ pc' = "closing"
    /\ UNCHANGED <<numRepos, next, repos, queue, totalErrors, metadata, rawMetadata>>

\* A Send goroutine ends well.
SendOk(m) ==
    /\ outgoing' = outgoing \ {m}
    /\ queue' = queue \union {m}
    /\ UNCHANGED <<numRepos, pc, next, repos, shardNum, totalErrors, metadata, rawMetadata>>

\* A Send goroutine ends in an error; the topic may have accepted the message.
SendError(m) ==
    /\ outgoing' = outgoing \ {m}
    /\ queue' \in {queue, queue \union {m}}
    /\ totalErrors' = totalErrors + 1
    /\ UNCHANGED <<numRepos, pc, next, repos, shardNum, metadata, rawMetadata>>

\* Mutated: Close waits for the goroutines but does not report their errors.
CloseIgnoringErrors ==
    /\ pc = "closing"
    /\ outgoing = {}
    /\ pc' = "metadata"
    /\ UNCHANGED <<numRepos, next, repos, shardNum, outgoing, queue, totalErrors, metadata, rawMetadata>>

\* Mutated: a failed send keeps its place in the wait group.
CloseWaitingForErrors ==
    /\ pc = "closing"
    /\ outgoing = {}
    /\ totalErrors = 0
    /\ pc' = "metadata"
    /\ UNCHANGED <<numRepos, next, repos, shardNum, outgoing, queue, totalErrors, metadata, rawMetadata>>

\* Publisher.Close: wait for every goroutine, then fail if any send failed.
Close ==
    /\ pc = "closing"
    /\ outgoing = {}
    /\ pc' = IF totalErrors > 0 THEN "panicked" ELSE "metadata"
    /\ UNCHANGED <<numRepos, next, repos, shardNum, outgoing, queue, totalErrors, metadata, rawMetadata>>

\* The canonical bucket's metadata is written.  A write that reports an
\* error may have landed all the same, and main panics on it.
WriteMetadata ==
    /\ pc = "metadata"
    /\ metadata' = shardNum + 1
    /\ pc' \in {IF HasRawBucket THEN "rawMetadata" ELSE "done", "panicked"}
    /\ UNCHANGED <<numRepos, next, repos, shardNum, outgoing, queue, totalErrors, rawMetadata>>

\* The raw bucket's metadata, the same message with another location.
WriteRawMetadata ==
    /\ pc = "rawMetadata"
    /\ rawMetadata' = shardNum + 1
    /\ pc' \in {"done", "panicked"}
    /\ UNCHANGED <<numRepos, next, repos, shardNum, outgoing, queue, totalErrors, metadata>>

\* An error from the iterator, Publish or the bucket, or the pod is killed:
\* the process ends and its unfinished sends with it.
Panic ==
    /\ pc \in Running
    /\ pc' = "panicked"
    /\ outgoing' = {}
    /\ UNCHANGED <<numRepos, next, repos, shardNum, queue, totalErrors, metadata, rawMetadata>>

Main == ReadRepo \/ Flush \/ Close \/ WriteMetadata \/ WriteRawMetadata

Sends == \E m \in outgoing : SendOk(m) \/ SendError(m)

Next == Main \/ Sends \/ Panic

(***************************************************************************)
(* The process keeps running its own code unless it is killed, and every   *)
(* Send returns: the SDK call has a bounded number of retries.             *)
(***************************************************************************)
Fairness == WF_vars(Main) /\ WF_vars(Sends)

Spec == Init /\ [][Next]_vars /\ Fairness

(***************************************************************************)
(* Correctness.                                                            *)
(***************************************************************************)
Published == outgoing \union queue

ReposIn(messages) == UNION {m.repos : m \in messages}

TypeOK ==
    /\ numRepos \in 0 .. MaxRepos
    /\ pc \in Running \union {"done", "panicked"}
    /\ next \in 1 .. numRepos + 1
    /\ repos \subseteq Inventory
    /\ shardNum \in Nat \union {-1}
    /\ outgoing \subseteq Message
    /\ queue \subseteq Message
    /\ totalErrors \in Nat
    /\ metadata \in Nat \union {NotWritten}
    /\ rawMetadata \in Nat \union {NotWritten}

\* Two published messages never carry the same shard number (their results
\* would overwrite each other's file) nor a common repository, although one
\* request value is reused for all of them while earlier sends are running.
ShardsAreDisjoint ==
    \A m, n \in Published :
        m # n => m.shard # n.shard /\ m.repos \intersect n.repos = {}

\* A job that is announced is whole: the queue accepted exactly as many shards
\* as .shard_metadata declares, numbered from zero, none of them empty or too
\* large, and together they hold the whole inventory.  This is what lets the
\* transfer compare the shard files it counts with NumShard.
AnnouncedJobIsWhole ==
    metadata # NotWritten =>
        /\ {m.shard : m \in queue} = 0 .. metadata - 1
        /\ ReposIn(queue) = Inventory
        /\ \A m \in queue : Cardinality(m.repos) \in 1 .. ShardSize

\* A job of which a send failed, or that stopped halfway, is never announced
\* in either bucket, and the raw bucket never announces a job of its own.
UnfinishedJobIsSilent ==
    /\ totalErrors > 0 \/ outgoing # {} => metadata = NotWritten
    /\ rawMetadata # NotWritten => rawMetadata = metadata

\* The controller ends: Close does not wait for ever, whether sends fail or not.
ControllerEnds == <>(pc \in {"done", "panicked"})

\* The controller keeps its half of the batch job's contract: only whole jobs
\* are announced, with their true number of shards.
Job == INSTANCE BatchJob WITH
    size      <- (numRepos + ShardSize - 1) \div ShardSize,
    sent      <- {m.shard : m \in queue},
    announced <- metadata,
    results   <- {}

ImplementsBatchJob == Job!Spec
=============================================================================
