----------------------------- MODULE Subscriber -----------------------------
(***************************************************************************)
(* A worker's end of the request queue: the three implementations of       *)
(* cron/internal/pubsub.Subscriber (SQS, the custom GCP one and the        *)
(* portable gocloud one) driven by cron/worker.WorkLoop, with the          *)
(* goroutines that renew the lease of the message in hand.                 *)
(*                                                                         *)
(* One worker process at a time; ShardWorkers has the fleet and what is    *)
(* done with a shard.  The channels a subscriber makes are numbered, and   *)
(* a heartbeat goroutine has the number of the pull that started it.  An   *)
(* SQS heartbeat keeps the channel and the receipt it was started with;    *)
(* the GCP one reads both fields of the subscriber anew on every turn.     *)
(***************************************************************************)
EXTENDS Integers, FiniteSets

CONSTANTS
    Messages,       \* messages of the subscription
    Unparseable,    \* those whose body is not a ScorecardBatchRequest
    Kinds,          \* the subscribers considered: "sqs", "gcs", "gocloud"
    MaxReceives,    \* bound: deliveries of one message
    MaxFaults,      \* bound: failing calls considered in one behaviour
    NoDelivery      \* nothing received yet

ASSUME SubscriberAssumption ==
    /\ Unparseable \subseteq Messages
    /\ Kinds \subseteq {"sqs", "gcs", "gocloud"}
    /\ MaxReceives \in Nat
    /\ MaxFaults \in Nat
    /\ NoDelivery \notin [message : Messages, receipt : Nat]

VARIABLES
    kind,           \* which subscriber CreateSubscriber has returned
    ctx,            \* the subscriber's context: "live" or "cancelled"
    lease,          \* the queue's view: "visible", "leased" or "deleted"
    receives,       \* how often each message was delivered
    pc,             \* where WorkLoop.Run and the subscriber's methods are
    msg,            \* subscriber.msg or subscriber.recvdAckID
    done,           \* the channel in subscriber.done or subscriber.stop
    closed,         \* the channels closed so far
    beats,          \* the heartbeat goroutines of this process
    pending,        \* acks and nacks in the client library's batch
    backoff,        \* delay before the next receive, in seconds
    faults          \* failing calls so far

queueVars == <<lease, receives>>
vars == <<kind, ctx, lease, receives, pc, msg, done, closed, beats, pending,
          backoff, faults>>

Delivery == [message : Messages, receipt : Nat]

minReceiveBackoff == 1
maxReceiveBackoff == 30

\* The process has ended: Run returned nil, main panicked with its error or
\* log.Fatal was called, or a closed channel was closed again.
Ended == pc \in {"closed", "failed", "panic"}

\* The worker is between the receipt of a message and the end of the Ack or
\* Nack that settles it.
InHand == pc \in {"parsing", "holding", "acking", "nacking"}

Init ==
    /\ kind \in Kinds
    /\ ctx = "live"
    /\ lease = [m \in Messages |-> "visible"]
    /\ receives = [m \in Messages |-> 0]
    /\ pc = "pull"
    /\ msg = NoDelivery
    /\ done = 0
    /\ closed = {}
    /\ beats = [n \in {} |-> NoDelivery]
    /\ pending = {}
    /\ backoff = minReceiveBackoff
    /\ faults = 0

Fault ==
    /\ faults < MaxFaults
    /\ faults' = faults + 1

\* A call on the subscriber's context fails: always once that is cancelled.
CallFails ==
    \/ ctx = "cancelled" /\ UNCHANGED faults
    \/ ctx = "live" /\ Fault

\* The owner of the context cancels it.  WorkLoop.Run itself passes
\* context.Background(); the subscribers are written for both.
Cancel ==
    /\ ctx = "live"
    /\ ~Ended
    /\ ctx' = "cancelled"
    /\ UNCHANGED <<kind, queueVars, pc, msg, done, closed, beats, pending, backoff, faults>>

(***************************************************************************)
(* SynchronousPull.                                                        *)
(***************************************************************************)
\* Mutated: the GCP subscriber makes its channel with the heartbeat.
BeginPullSharingChannel ==
    /\ pc = "pull"
    /\ pc' = "receiving"
    /\ backoff' = minReceiveBackoff
    /\ UNCHANGED <<kind, ctx, queueVars, msg, done, closed, beats, pending, faults>>

BeginPull ==
    /\ pc = "pull"
    /\ pc' = "receiving"
    /\ backoff' = minReceiveBackoff
    /\ done' = IF kind = "gcs" THEN done + 1 ELSE done
    /\ UNCHANGED <<kind, ctx, queueVars, msg, closed, beats, pending, faults>>

\* The heartbeat that renews delivery d, started on channel n.
StartBeat(n, d) ==
    [b \in DOMAIN beats \cup {n} |->
        IF b = n THEN [at |-> "new", channel |-> n, handle |-> d] ELSE beats[b]]

\* The queue hands over message m.
Receive(m) ==
    LET d == [message |-> m, receipt |-> receives[m] + 1] IN
    /\ pc = "receiving"
    /\ ctx = "live"
    /\ lease[m] = "visible"
    /\ receives[m] < MaxReceives
    /\ lease' = [lease EXCEPT ![m] = "leased"]
    /\ receives' = [receives EXCEPT ![m] = @ + 1]
    /\ msg' = d
    /\ done' = IF kind = "sqs" THEN done + 1 ELSE done
    /\ beats' = IF kind = "gocloud" THEN beats ELSE StartBeat(done', d)
    /\ pc' = "parsing"
    /\ UNCHANGED <<kind, ctx, closed, pending, backoff, faults>>

Parse ==
    /\ pc = "parsing"
    /\ msg.message \notin Unparseable
    /\ pc' = "holding"
    /\ UNCHANGED <<kind, ctx, queueVars, msg, done, closed, beats, pending, backoff, faults>>

\* Mutated: every subscriber returns the parse error to WorkLoop.Run.
FailParseReturningError ==
    /\ pc = "parsing"
    /\ msg.message \in Unparseable
    /\ pc' = "failed"
    /\ UNCHANGED <<kind, ctx, queueVars, msg, done, closed, beats, pending, backoff, faults>>

\* SQS nacks what it cannot parse and receives the next message; the others
\* return the error, with which main panics.
FailParse ==
    /\ pc = "parsing"
    /\ msg.message \in Unparseable
    /\ IF kind = "sqs"
       THEN pc' = "nacking" /\ closed' = closed \cup {done}
       ELSE pc' = "failed" /\ UNCHANGED closed
    /\ UNCHANGED <<kind, ctx, queueVars, msg, done, beats, pending, backoff, faults>>

\* Mutated: the GCP pull stops its channel before it returns no message.
StopOnErrorClosing ==
    /\ kind # "sqs"
    /\ pc = "receiving"
    /\ CallFails
    /\ pc' = "closing"
    /\ closed' = IF kind = "gcs" THEN closed \cup {done} ELSE closed
    /\ UNCHANGED <<kind, ctx, queueVars, msg, done, beats, pending, backoff>>

\* The GCP subscribers take any receive error for the end of the subscription.
StopOnError ==
    /\ kind # "sqs"
    /\ pc = "receiving"
    /\ CallFails
    /\ pc' = "closing"
    /\ UNCHANGED <<kind, ctx, queueVars, msg, done, closed, beats, pending, backoff>>

\* SQS stops cleanly only for a cancelled context, also while backing off.
StopOnCancel ==
    /\ kind = "sqs"
    /\ pc \in {"receiving", "waiting"}
    /\ ctx = "cancelled"
    /\ pc' = "closing"
    /\ UNCHANGED <<kind, ctx, queueVars, msg, done, closed, beats, pending, backoff, faults>>

\* A transient receive error is retried after the current backoff.
RetryReceive ==
    /\ kind = "sqs"
    /\ pc = "receiving"
    /\ ctx = "live"
    /\ Fault
    /\ pc' = "waiting"
    /\ UNCHANGED <<kind, ctx, queueVars, msg, done, closed, beats, pending, backoff>>

Backoff ==
    /\ pc = "waiting"
    /\ pc' = "receiving"
    /\ backoff' = IF backoff * 2 < maxReceiveBackoff THEN backoff * 2 ELSE maxReceiveBackoff
    /\ UNCHANGED <<kind, ctx, queueVars, msg, done, closed, beats, pending, faults>>

\* A message without a receipt handle is nacked and ends the worker.
FailHandle(m) ==
    LET d == [message |-> m, receipt |-> receives[m] + 1] IN
    /\ kind = "sqs"
    /\ pc = "receiving"
    /\ ctx = "live"
    /\ lease[m] = "visible"
    /\ receives[m] < MaxReceives
    /\ Fault
    /\ lease' = [lease EXCEPT ![m] = "leased"]
    /\ receives' = [receives EXCEPT ![m] = @ + 1]
    /\ pending' = pending \cup {[delivery |-> d, to |-> "visible"]}
    /\ pc' = "failed"
    /\ UNCHANGED <<kind, ctx, msg, done, closed, beats, backoff>>

\* A permanent error ends the worker.
FailReceive ==
    /\ kind = "sqs"
    /\ pc = "receiving"
    /\ ctx = "live"
    /\ Fault
    /\ pc' = "failed"
    /\ UNCHANGED <<kind, ctx, queueVars, msg, done, closed, beats, pending, backoff>>

(***************************************************************************)
(* Ack and Nack, called by WorkLoop.Run with the message in hand.          *)
(***************************************************************************)
Verdict(p) == IF p = "acking" THEN "deleted" ELSE "visible"

\* SQS: the heartbeat is told to stop before the message is settled.
StopHeartbeat ==
    /\ kind = "sqs"
    /\ pc = "holding"
    /\ pc' \in {"acking", "nacking"}
    /\ closed' = closed \cup {done}
    /\ UNCHANGED <<kind, ctx, queueVars, msg, done, beats, pending, backoff, faults>>

\* The goroutine has left the wait group.
Left(b) == beats[b].at = "gone"

\* Mutated: the heartbeat is told to stop but not waited for.
SettleUnjoined ==
    /\ kind = "sqs"
    /\ pc \in {"acking", "nacking"}
    /\ pending' = pending \cup {[delivery |-> msg, to |-> Verdict(pc)]}
    /\ pc' = "pull"
    /\ UNCHANGED <<kind, ctx, queueVars, msg, done, closed, beats, backoff, faults>>

\* SQS: the wait group is empty and the driver takes the ack or nack.
Settle ==
    /\ kind = "sqs"
    /\ pc \in {"acking", "nacking"}
    /\ \A b \in DOMAIN beats : Left(b)
    /\ pending' = pending \cup {[delivery |-> msg, to |-> Verdict(pc)]}
    /\ pc' = "pull"
    /\ UNCHANGED <<kind, ctx, queueVars, msg, done, closed, beats, backoff, faults>>

\* gocloud: the driver takes the ack or nack at once.
SettlePortable ==
    /\ kind = "gocloud"
    /\ pc = "holding"
    /\ \E p \in {"acking", "nacking"} :
           pending' = pending \cup {[delivery |-> msg, to |-> Verdict(p)]}
    /\ pc' = "pull"
    /\ UNCHANGED <<kind, ctx, queueVars, msg, done, closed, beats, backoff, faults>>

\* The message of delivery d if the queue still knows d as its lease.
Settled(d, to) ==
    IF receives[d.message] = d.receipt /\ lease[d.message] # "deleted"
    THEN [lease EXCEPT ![d.message] = to]
    ELSE lease

\* close(subscriber.done): closing a closed channel panics.
CloseDone(then) ==
    /\ closed' = closed \cup {done}
    /\ pc' = IF done \in closed THEN "panic" ELSE then

\* GCP: Acknowledge is a call of its own, made before the heartbeat stops.
Acknowledge ==
    /\ kind = "gcs"
    /\ pc = "holding"
    /\ ctx = "live"
    /\ lease' = Settled(msg, "deleted")
    /\ pc' = "acking"
    /\ UNCHANGED <<kind, ctx, receives, msg, done, closed, beats, pending, backoff, faults>>

\* The call fails, applied or not; done is closed and log.Fatal called.
AcknowledgeFails ==
    /\ kind = "gcs"
    /\ pc = "holding"
    /\ CallFails
    /\ lease' \in {lease, Settled(msg, "deleted")}
    /\ CloseDone("failed")
    /\ UNCHANGED <<kind, ctx, receives, msg, done, beats, pending, backoff>>

EndAck ==
    /\ kind = "gcs"
    /\ pc = "acking"
    /\ CloseDone("pull")
    /\ UNCHANGED <<kind, ctx, queueVars, msg, done, beats, pending, backoff, faults>>

\* GCP Nack tells nobody: the lease is left to run out.
Nack ==
    /\ kind = "gcs"
    /\ pc = "holding"
    /\ CloseDone("pull")
    /\ UNCHANGED <<kind, ctx, queueVars, msg, done, beats, pending, backoff, faults>>

(***************************************************************************)
(* Close, after SynchronousPull has returned no request.                   *)
(***************************************************************************)
\* What the queue holds once the batch has been sent.
Flushed ==
    [m \in Messages |->
        LET mine == {t \in pending : t.delivery.message = m
                                        /\ t.delivery.receipt = receives[m]}
        IN  IF lease[m] = "deleted" \/ mine = {} THEN lease[m]
            ELSE (CHOOSE t \in mine : TRUE).to]

\* Mutated: Close hands its own cancelled context to Shutdown, as gocloud's.
CloseOnOwnContext ==
    /\ pc = "closing"
    /\ \/ /\ kind = "gcs"
          /\ CloseDone("closed")
          /\ UNCHANGED <<lease, pending>>
       \/ /\ kind # "gcs"
          /\ ctx = "live"
          /\ lease' = Flushed
          /\ pending' = {}
          /\ pc' = "closed"
          /\ UNCHANGED closed
       \/ /\ kind # "gcs"
          /\ ctx = "cancelled"
          /\ pc' = "failed"
          /\ UNCHANGED <<lease, pending, closed>>
    /\ UNCHANGED <<kind, ctx, receives, msg, done, beats, backoff, faults>>

\* Shutdown sends the batch.  SQS does it on a context that outlives its
\* own, gocloud on the subscriber's; the GCP client has no batch.
Close ==
    /\ pc = "closing"
    /\ \/ /\ kind = "gcs"
          /\ CloseDone("closed")
          /\ UNCHANGED <<lease, pending>>
       \/ /\ \/ kind = "sqs" /\ \A b \in DOMAIN beats : Left(b)
             \/ kind = "gocloud" /\ ctx = "live"
          /\ lease' = Flushed
          /\ pending' = {}
          /\ pc' = "closed"
          /\ UNCHANGED closed
       \/ /\ kind = "gocloud"
          /\ ctx = "cancelled"
          /\ pc' = "failed"
          /\ UNCHANGED <<lease, pending, closed>>
    /\ UNCHANGED <<kind, ctx, receives, msg, done, beats, backoff, faults>>

\* Shutdown or the client's Close fails; Run returns the error.
CloseFails ==
    /\ pc = "closing"
    /\ Fault
    /\ IF kind = "gcs" THEN CloseDone("failed") ELSE pc' = "failed" /\ UNCHANGED closed
    /\ UNCHANGED <<kind, ctx, queueVars, msg, done, beats, pending, backoff>>

(***************************************************************************)
(* The heartbeat goroutines.                                               *)
(***************************************************************************)
Alive(b) == b \in DOMAIN beats /\ ~Ended

BeatStep(b, beat) ==
    /\ beats' = [beats EXCEPT ![b] = beat]
    /\ UNCHANGED <<kind, ctx, queueVars, msg, done, closed, pending, backoff>>

\* The top of the loop: GCP reads subscriber.done anew.
EnterSelect(b) ==
    /\ Alive(b) /\ beats[b].at \in {"new", "loop"}
    /\ BeatStep(b, [at |-> "select", handle |-> beats[b].handle,
                    channel |-> IF kind = "gcs" THEN done ELSE beats[b].channel])
    /\ UNCHANGED <<pc, faults>>

\* The first GCP renewal has no delay: with the timer and the channel both
\* ready, select takes either.
FireAtOnce(b) ==
    /\ kind = "gcs"
    /\ Alive(b) /\ beats[b].at = "new"
    /\ BeatStep(b, [at |-> "fired", handle |-> beats[b].handle, channel |-> done])
    /\ UNCHANGED <<pc, faults>>

\* The channel is closed or the context done.
Stop(b) ==
    /\ Alive(b) /\ beats[b].at = "select"
    /\ beats[b].channel \in closed \/ ctx = "cancelled"
    /\ BeatStep(b, [beats[b] EXCEPT !.at = "gone"])
    /\ UNCHANGED <<pc, faults>>

\* The timer fires first.
Fire(b) ==
    /\ Alive(b) /\ beats[b].at = "select"
    /\ beats[b].channel \notin closed /\ ctx = "live"
    /\ BeatStep(b, [beats[b] EXCEPT !.at = "fired"])
    /\ UNCHANGED <<pc, faults>>

\* The request to renew goes out: GCP reads subscriber.recvdAckID anew.
Renew(b) ==
    /\ Alive(b) /\ beats[b].at = "fired"
    /\ BeatStep(b, [at |-> "call", channel |-> beats[b].channel,
                    handle |-> IF kind = "gcs" THEN msg ELSE beats[b].handle])
    /\ UNCHANGED <<pc, faults>>

Renewed(b) ==
    /\ Alive(b) /\ beats[b].at = "call"
    /\ ctx = "live"
    /\ BeatStep(b, [beats[b] EXCEPT !.at = "loop"])
    /\ UNCHANGED <<pc, faults>>

\* Mutated: a failed renewal ends the SQS heartbeat.
RenewalFailsEndingBeat(b) ==
    /\ Alive(b) /\ beats[b].at = "call"
    /\ CallFails
    /\ BeatStep(b, [beats[b] EXCEPT !.at = "gone"])
    /\ pc' = IF kind = "gcs" THEN "failed" ELSE pc

\* A failed renewal: SQS logs it and goes on, GCP calls log.Fatal.
RenewalFails(b) ==
    /\ Alive(b) /\ beats[b].at = "call"
    /\ CallFails
    /\ BeatStep(b, [beats[b] EXCEPT !.at = "loop"])
    /\ pc' = IF kind = "gcs" THEN "failed" ELSE pc

(***************************************************************************)
(* The queue, and the pod's restarts.                                      *)
(***************************************************************************)
\* Heartbeat b goes on renewing the lease of delivery d.
Renews(b, d) ==
    /\ Alive(b)
    /\ beats[b].at # "gone"
    /\ beats[b].at \in {"new", "loop"} =>
           (IF kind = "gcs" THEN done ELSE beats[b].channel) \notin closed
    /\ beats[b].at = "select" => beats[b].channel \notin closed
    /\ d = IF kind = "gcs" /\ beats[b].at # "call" THEN msg ELSE beats[b].handle

Lease(m) == [message |-> m, receipt |-> receives[m]]

Renewing(m) == \E b \in DOMAIN beats : Renews(b, Lease(m))

\* A lease nobody renews runs out; with a renewal missed it may run out
\* although somebody does.
Lapse(m) ==
    /\ lease[m] = "leased"
    /\ Renewing(m) => faults < MaxFaults
    /\ faults' = IF Renewing(m) THEN faults + 1 ELSE faults
    /\ lease' = [lease EXCEPT ![m] = "visible"]
    /\ UNCHANGED <<kind, ctx, receives, pc, msg, done, closed, beats, pending, backoff>>

\* The client library sends an ack or nack of its batch.
Flush(t) ==
    /\ t \in pending
    /\ ~Ended
    /\ pending' = pending \ {t}
    /\ lease' = Settled(t.delivery, t.to)
    /\ UNCHANGED <<kind, ctx, receives, pc, msg, done, closed, beats, backoff, faults>>

\* Kubernetes starts the container again; what the process knew is gone.
Restart ==
    /\ Ended
    /\ ctx' = "live"
    /\ pc' = "pull"
    /\ msg' = NoDelivery
    /\ done' = 0
    /\ closed' = {}
    /\ beats' = [n \in {} |-> NoDelivery]
    /\ pending' = {}
    /\ backoff' = minReceiveBackoff
    /\ UNCHANGED <<kind, queueVars, faults>>

----------------------------------------------------------------------------
Pull ==
    \/ BeginPull \/ \E m \in Messages : Receive(m)
    \/ Parse \/ FailParse
    \/ StopOnError \/ StopOnCancel \/ RetryReceive \/ Backoff \/ FailReceive
    \/ \E m \in Messages : FailHandle(m)

AckOrNack ==
    \/ StopHeartbeat \/ Settle \/ SettlePortable
    \/ Acknowledge \/ AcknowledgeFails \/ EndAck \/ Nack

Heartbeat(b) ==
    \/ EnterSelect(b) \/ FireAtOnce(b) \/ Stop(b) \/ Fire(b)
    \/ Renew(b) \/ Renewed(b) \/ RenewalFails(b)

Next ==
    \/ Cancel \/ Pull \/ AckOrNack \/ Close \/ CloseFails \/ Restart
    \/ \E b \in DOMAIN beats : Heartbeat(b)
    \/ \E m \in Messages : Lapse(m)
    \/ \E t \in pending : Flush(t)

\* The pod's steps are taken: scans end, calls return, closed channels are
\* seen, batches are sent.  Leases nobody renews run out.
Fairness ==
    /\ WF_vars(Pull \/ AckOrNack \/ Close)
    /\ \A b \in 1 .. (MaxReceives * Cardinality(Messages) + 1) :
           WF_vars(b \in DOMAIN beats /\ Heartbeat(b))
    /\ \A m \in Messages : WF_vars(~Renewing(m) /\ Lapse(m))
    /\ WF_vars(\E t \in pending : Flush(t))

Spec == Init /\ [][Next]_vars /\ Fairness

----------------------------------------------------------------------------
(***************************************************************************)
(* Properties.                                                             *)
(***************************************************************************)
\* Types of the variables; the backoff stays within its two bounds.
TypeOK ==
    /\ kind \in Kinds
    /\ ctx \in {"live", "cancelled"}
    /\ lease \in [Messages -> {"visible", "leased", "deleted"}]
    /\ receives \in [Messages -> 0 .. MaxReceives]
    /\ pc \in {"pull", "receiving", "waiting", "parsing", "holding", "acking",
               "nacking", "closing", "closed", "failed", "panic"}
    /\ msg \in Delivery \cup {NoDelivery}
    /\ done \in Nat
    /\ closed \subseteq 0 .. done
    /\ DOMAIN beats \subseteq 1 .. done
    /\ beats \in [DOMAIN beats -> [at : {"new", "loop", "select", "fired", "call", "gone"},
                                   channel : 1 .. done, handle : Delivery]]
    /\ pending \subseteq [delivery : Delivery, to : {"visible", "deleted"}]
    /\ backoff \in minReceiveBackoff .. maxReceiveBackoff
    /\ faults \in 0 .. MaxFaults

\* stopHeartbeat "waits for the goroutine to leave, so no renewal can land
\* after the message has been acked or the subscriber closed": an SQS
\* heartbeat that is still running is the one of the message in hand.
SqsRenewsOnlyWhatItHolds ==
    kind = "sqs" /\ ~Ended =>
        \A b \in DOMAIN beats :
            beats[b].at # "gone" => InHand /\ b = done /\ beats[b].handle = msg

\* While a message is processed and the context lives, some goroutine goes
\* on renewing its lease, whatever renewals failed and however the
\* goroutines of earlier messages ended.
HeldMessageIsRenewed ==
    /\ kind # "gocloud"
    /\ ctx = "live"
    /\ pc \in {"parsing", "holding"}
    => \E b \in DOMAIN beats : Renews(b, msg)

\* Ack, Nack and Close of the GCP subscriber close subscriber.done; no
\* order of them closes the same channel twice, which would panic.
NoChannelClosedTwice == pc # "panic"

\* An SQS worker never ends with a message neither acked nor nacked: not
\* for a body it cannot parse, nor for a failed renewal.
SqsNeverEndsHolding == [][kind = "sqs" /\ Ended' /\ ~Ended => ~InHand]_vars

\* With no further failing call, an SQS worker whose context is cancelled
\* finishes its message and closes with every ack and nack sent.
SqsShutdownIsClean ==
    (kind = "sqs" /\ ctx = "cancelled" /\ ~Ended /\ faults = MaxFaults)
        ~> (pc = "closed" /\ pending = {})

\* "nack the message so it can be tried later" (cron/worker/worker.go:102):
\* a leased message the worker no longer has in hand loses its lease.
NackedMessageReturns ==
    \A m \in Messages :
        (lease[m] = "leased" /\ ~(InHand /\ msg.message = m)) ~> (lease[m] # "leased")
=============================================================================
