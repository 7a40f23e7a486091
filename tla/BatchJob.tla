------------------------------ MODULE BatchJob ------------------------------
(***************************************************************************)
(* What one weekly batch job promises, whoever carries it out: the shards  *)
(* of the job are put on the queue, then the job is announced by writing   *)
(* its .shard_metadata file with the number of shards, and only then may   *)
(* shard results appear in the canonical bucket.  Controller implements    *)
(* the first half of this contract and ShardWorkers all of it.             *)
(***************************************************************************)
EXTENDS Integers

VARIABLES
    size,               \* how many shards the job's inventory divides into
    sent,               \* shard numbers the queue has accepted
    announced,          \* NumShard of .shard_metadata, NotWritten before it exists
    results             \* shard numbers with a file in the canonical bucket

vars == <<size, sent, announced, results>>

Shards == 0 .. size - 1

NotWritten == -1

Init ==
    /\ size \in Nat
    /\ sent = {}
    /\ announced = NotWritten
    /\ results = {}

\* One shard reaches the queue; none does once the job is announced.
Send(s) ==
    /\ announced = NotWritten
    /\ sent' = sent \union {s}
    /\ UNCHANGED <<size, announced, results>>

\* The job is announced, with its true size, once every shard is queued.
Announce ==
    /\ announced = NotWritten
    /\ sent = Shards
    /\ announced' = size
    /\ UNCHANGED <<size, sent, results>>

\* A shard result appears, never for a job that was not announced.
Finish(s) ==
    /\ announced # NotWritten
    /\ s \in sent
    /\ results' = results \union {s}
    /\ UNCHANGED <<size, sent, announced>>

Next ==
    \/ Announce
    \/ \E s \in Shards : Send(s) \/ Finish(s)

Spec == Init /\ [][Next]_vars
=============================================================================
