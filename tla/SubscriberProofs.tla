-------------------------- MODULE SubscriberProofs --------------------------
(***************************************************************************)
(* The safety properties of Subscriber, for any messages, deliveries and   *)
(* failing calls and for each of the three subscribers.                    *)
(***************************************************************************)
EXTENDS Subscriber, TLAPS

(***************************************************************************)
(* The inductive invariant.                                                *)
(***************************************************************************)
\* A delivery has been received wherever one is looked at.
DeliveryIsKnown ==
    InHand \/ DOMAIN beats # {} => msg \in Delivery

\* The GCP subscriber makes a channel at the start of every pull and closes it
\* at most once before the next: in Ack, in Nack or in Close.
ChannelIsOpen ==
    kind = "gcs" /\ pc \in {"receiving", "waiting", "parsing", "holding", "acking", "closing"} =>
        done >= 1 /\ done \notin closed

\* The goroutine started for the message in hand has its channel and its
\* receipt, and leaves only with the context.
BeatIsRunning ==
    kind # "gocloud" /\ pc \in {"parsing", "holding"} =>
        /\ done \in DOMAIN beats
        /\ done \notin closed
        /\ beats[done].channel = done
        /\ beats[done].handle = msg
        /\ beats[done].at = "gone" => ctx = "cancelled"

IInv ==
    /\ TypeOK
    /\ DeliveryIsKnown
    /\ ChannelIsOpen
    /\ BeatIsRunning
    /\ SqsRenewsOnlyWhatItHolds
    /\ NoChannelClosedTwice

\* The invariant holds when the worker starts.
LEMMA InitIInv == Init => IInv
BY SubscriberAssumption
   DEF Init, IInv, TypeOK, DeliveryIsKnown, ChannelIsOpen, BeatIsRunning,
       SqsRenewsOnlyWhatItHolds, NoChannelClosedTwice, InHand, Ended, minReceiveBackoff,
       maxReceiveBackoff

(***************************************************************************)
(* The queue's answers and the failure counter.                            *)
(***************************************************************************)
Leases == [Messages -> {"visible", "leased", "deleted"}]
Tickets == [delivery : Delivery, to : {"visible", "deleted"}]

\* Settling a delivery moves at most its message's lease.
LEMMA SettledType ==
    ASSUME TypeOK, NEW d \in Delivery, NEW to \in {"visible", "deleted"}
    PROVE  Settled(d, to) \in Leases
BY DEF TypeOK, Settled, Delivery, Leases

\* Sending the batch settles some leases.
LEMMA FlushedType == ASSUME TypeOK PROVE Flushed \in Leases
<1> SUFFICES ASSUME NEW m \in Messages PROVE Flushed[m] \in {"visible", "leased", "deleted"}
  BY DEF Flushed, Leases
<1> DEFINE mine == {t \in pending : t.delivery.message = m /\ t.delivery.receipt = receives[m]}
<1>1. \A t \in mine : t.to \in {"visible", "deleted"}
  BY DEF TypeOK
<1>2. mine # {} => (CHOOSE t \in mine : TRUE) \in mine
  OBVIOUS
<1> QED
  BY <1>1, <1>2 DEF Flushed, TypeOK

\* A failing call is counted unless the context explains it.
LEMMA FaultType ==
    ASSUME TypeOK, Fault \/ CallFails PROVE faults' \in 0 .. MaxFaults
BY SubscriberAssumption DEF TypeOK, Fault, CallFails

(***************************************************************************)
(* The steps.                                                              *)
(***************************************************************************)
\* A step that starts no goroutine and moves none keeps the invariant if it
\* keeps the types and leaves the channel and the worker in order.
LEMMA ControlKeepsIInv ==
    ASSUME IInv, TypeOK', UNCHANGED <<kind, msg, beats>>,
           done' = done \/ (kind = "gcs" /\ done' = done + 1 /\ pc = "pull"),
           ctx' = ctx \/ (ctx = "live" /\ ctx' = "cancelled"),
           pc' # "panic",
           pc' \in {"parsing", "holding"} =>
               pc \in {"parsing", "holding"} /\ closed' = closed,
           pc' \in {"acking", "nacking"} => InHand,
           kind = "gcs" /\ pc' \in {"receiving", "waiting", "acking", "closing"} =>
               done' >= 1 /\ done' \notin closed',
           kind = "sqs" /\ pc' \notin {"closed", "failed", "panic"} =>
               /\ ~Ended
               /\ InHand /\ pc' \notin {"parsing", "holding", "acking", "nacking"} =>
                      \A b \in DOMAIN beats : Left(b)
    PROVE  IInv'
<1>1. DeliveryIsKnown'
  BY DEF IInv, DeliveryIsKnown, InHand
<1>2. ChannelIsOpen'
  BY DEF IInv, ChannelIsOpen
<1>3. BeatIsRunning'
  BY DEF IInv, BeatIsRunning
<1>4. SqsRenewsOnlyWhatItHolds'
  BY DEF IInv, SqsRenewsOnlyWhatItHolds, InHand, Ended, Left
<1> QED
  BY <1>1, <1>2, <1>3, <1>4 DEF IInv, NoChannelClosedTwice

\* SynchronousPull without a message: nothing is started.
LEMMA PullKeepsIInv ==
    ASSUME IInv,
           \/ BeginPull \/ Parse \/ FailParse \/ StopOnError \/ StopOnCancel \/ RetryReceive
           \/ Backoff \/ FailReceive \/ \E m \in Messages : FailHandle(m)
    PROVE  IInv'
<1>0. TypeOK /\ pc # "panic"
  BY DEF IInv, NoChannelClosedTwice
<1>1. CASE BeginPull
  <2>1. TypeOK'
    BY <1>0, <1>1 DEF TypeOK, BeginPull, queueVars, minReceiveBackoff, maxReceiveBackoff
  <2>2. kind = "gcs" => done' >= 1 /\ done' \notin closed'
    BY <1>0, <1>1 DEF TypeOK, BeginPull
  <2> QED
    BY <1>0, <1>1, <2>1, <2>2, ControlKeepsIInv DEF BeginPull, Ended, InHand
<1>2. CASE Parse
  <2>1. TypeOK'
    BY <1>0, <1>2 DEF TypeOK, Parse, queueVars
  <2> QED
    BY <1>0, <1>2, <2>1, ControlKeepsIInv DEF Parse, Ended
<1>3. CASE FailParse
  <2>1. TypeOK'
    BY <1>0, <1>3 DEF TypeOK, FailParse, queueVars
  <2> QED
    BY <1>0, <1>3, <2>1, ControlKeepsIInv DEF FailParse, Ended, InHand
<1>4. CASE StopOnError \/ StopOnCancel \/ RetryReceive \/ FailReceive
  <2>1. TypeOK'
    BY <1>0, <1>4, FaultType
       DEF TypeOK, StopOnError, StopOnCancel, RetryReceive, FailReceive, queueVars
  <2> QED
    BY <1>0, <1>4, <2>1, ControlKeepsIInv
       DEF StopOnError, StopOnCancel, RetryReceive, FailReceive, Ended, InHand, IInv, ChannelIsOpen
<1>5. CASE Backoff
  <2>1. TypeOK'
    BY <1>0, <1>5 DEF TypeOK, Backoff, queueVars, minReceiveBackoff, maxReceiveBackoff
  <2> QED
    BY <1>0, <1>5, <2>1, ControlKeepsIInv DEF Backoff, Ended, InHand, IInv, ChannelIsOpen
<1>6. ASSUME NEW m \in Messages, FailHandle(m) PROVE IInv'
  <2> DEFINE d == [message |-> m, receipt |-> receives[m] + 1]
  <2>1. d \in Delivery /\ receives[m] + 1 \in 0 .. MaxReceives
    BY <1>0, <1>6, SubscriberAssumption DEF TypeOK, FailHandle, Delivery
  <2>2. pending' \subseteq Tickets
    BY <1>0, <1>6, <2>1 DEF TypeOK, FailHandle, Tickets
  <2>3. TypeOK'
    BY <1>0, <1>6, <2>1, <2>2, FaultType DEF TypeOK, FailHandle, Tickets
  <2> QED
    BY <1>0, <1>6, <2>3, ControlKeepsIInv DEF FailHandle
<1> QED
  BY <1>1, <1>2, <1>3, <1>4, <1>5, <1>6

\* Ack and Nack.
LEMMA AckOrNackKeepsIInv ==
    ASSUME IInv, AckOrNack
    PROVE  IInv'
<1>0. TypeOK /\ pc # "panic"
  BY DEF IInv, NoChannelClosedTwice
<1>1. InHand => msg \in Delivery
  BY DEF IInv, DeliveryIsKnown
<1>2. CASE StopHeartbeat
  <2>1. TypeOK'
    BY <1>0, <1>2 DEF TypeOK, StopHeartbeat, queueVars
  <2> QED
    BY <1>0, <1>2, <2>1, ControlKeepsIInv DEF StopHeartbeat, Ended, InHand
<1>3. CASE Settle \/ SettlePortable
  <2>1. msg \in Delivery
    BY <1>1, <1>3 DEF Settle, SettlePortable, InHand
  <2>2. pending' \subseteq Tickets
    BY <1>0, <1>3, <2>1 DEF TypeOK, Settle, SettlePortable, Verdict, Tickets
  <2>3. TypeOK'
    BY <1>0, <1>3, <2>2 DEF TypeOK, Settle, SettlePortable, queueVars, Tickets
  <2> QED
    BY <1>0, <1>3, <2>3, ControlKeepsIInv DEF Settle, SettlePortable, Ended, InHand
<1>4. CASE Acknowledge
  <2>1. lease' \in Leases
    BY <1>0, <1>1, <1>4, SettledType DEF Acknowledge, InHand
  <2>2. TypeOK'
    BY <1>0, <1>4, <2>1 DEF TypeOK, Acknowledge, Leases
  <2> QED
    BY <1>0, <1>4, <2>2, ControlKeepsIInv DEF Acknowledge, Ended, InHand, IInv, ChannelIsOpen
<1>5. CASE AcknowledgeFails
  <2>1. lease' \in Leases
    BY <1>0, <1>1, <1>5, SettledType DEF AcknowledgeFails, InHand, TypeOK, Leases
  <2>2. pc' = "failed"
    BY <1>5 DEF AcknowledgeFails, CloseDone, IInv, ChannelIsOpen
  <2>3. TypeOK'
    BY <1>0, <1>5, <2>1, <2>2, FaultType DEF TypeOK, AcknowledgeFails, CloseDone, Leases
  <2> QED
    BY <1>0, <1>5, <2>2, <2>3, ControlKeepsIInv DEF AcknowledgeFails
<1>6. CASE EndAck \/ Nack
  <2>1. pc' = "pull" /\ kind = "gcs"
    BY <1>6 DEF EndAck, Nack, CloseDone, IInv, ChannelIsOpen
  <2>2. TypeOK'
    BY <1>0, <1>6, <2>1 DEF TypeOK, EndAck, Nack, CloseDone, queueVars
  <2> QED
    BY <1>0, <1>6, <2>1, <2>2, ControlKeepsIInv DEF EndAck, Nack
<1> QED
  BY <1>2, <1>3, <1>4, <1>5, <1>6 DEF AckOrNack

\* Close.
LEMMA CloseKeepsIInv ==
    ASSUME IInv, Close \/ CloseFails
    PROVE  IInv'
<1>0. TypeOK
  BY DEF IInv
<1>1. pc' \in {"closed", "failed"}
  BY DEF Close, CloseFails, CloseDone, IInv, ChannelIsOpen
<1>2. lease' \in Leases
  BY <1>0, FlushedType DEF Close, CloseFails, TypeOK, Leases, queueVars
<1>3. TypeOK'
  BY <1>0, <1>1, <1>2, FaultType DEF TypeOK, Close, CloseFails, CloseDone, queueVars, Leases
<1> QED
  BY <1>0, <1>1, <1>3, ControlKeepsIInv DEF Close, CloseFails

\* The context is cancelled, a lease runs out, the batch is sent.
LEMMA WorldKeepsIInv ==
    ASSUME IInv, Cancel \/ (\E m \in Messages : Lapse(m)) \/ (\E t \in pending : Flush(t))
    PROVE  IInv'
<1>0. TypeOK /\ pc # "panic"
  BY DEF IInv, NoChannelClosedTwice
<1>1. UNCHANGED <<kind, msg, beats, done, closed, pc, receives, backoff>>
  BY DEF Cancel, Lapse, Flush, queueVars
<1>2. lease' \in Leases
  <2>1. ASSUME NEW t \in pending, Flush(t) PROVE lease' \in Leases
    <3>1. t.delivery \in Delivery /\ t.to \in {"visible", "deleted"}
      BY <1>0 DEF TypeOK
    <3> QED
      BY <1>0, <2>1, <3>1, SettledType DEF Flush
  <2>2. CASE Cancel \/ \E m \in Messages : Lapse(m)
    BY <1>0, <2>2 DEF Cancel, Lapse, TypeOK, Leases, queueVars
  <2> QED
    BY <2>1, <2>2
<1>3. faults' \in 0 .. MaxFaults
  BY <1>0, SubscriberAssumption DEF Cancel, Lapse, Flush, TypeOK
<1>4. pending' \subseteq pending /\ (ctx' = ctx \/ (ctx = "live" /\ ctx' = "cancelled"))
  BY DEF Cancel, Lapse, Flush
<1>5. TypeOK'
  BY <1>0, <1>1, <1>2, <1>3, <1>4 DEF TypeOK, Leases
<1>6. DeliveryIsKnown' /\ ChannelIsOpen' /\ BeatIsRunning' /\ SqsRenewsOnlyWhatItHolds'
  BY <1>1, <1>4 DEF IInv, DeliveryIsKnown, ChannelIsOpen, BeatIsRunning, SqsRenewsOnlyWhatItHolds,
     InHand, Ended
<1> QED
  BY <1>0, <1>1, <1>5, <1>6 DEF IInv, NoChannelClosedTwice

Beat(n) ==
    [at : {"new", "loop", "select", "fired", "call", "gone"}, channel : 1 .. n, handle : Delivery]

\* A message arrives and its goroutine is started.
LEMMA ReceiveKeepsIInv ==
    ASSUME IInv, NEW m \in Messages, Receive(m)
    PROVE  IInv'
<1> DEFINE d == [message |-> m, receipt |-> receives[m] + 1]
<1>0. TypeOK /\ pc = "receiving" /\ pc' = "parsing" /\ UNCHANGED <<kind, ctx, closed>>
  BY DEF IInv, Receive
<1>1. d \in Delivery /\ msg' = d /\ receives[m] + 1 \in 0 .. MaxReceives
  BY <1>0, SubscriberAssumption DEF TypeOK, Receive, Delivery
<1>2. done \in Nat /\ done' \in {done, done + 1} /\ (kind # "gocloud" => done' >= 1 /\ done' \notin closed)
  <2>1. done \in Nat /\ closed \subseteq 0 .. done /\ kind \in {"sqs", "gcs", "gocloud"}
    BY <1>0, SubscriberAssumption DEF TypeOK
  <2>2. CASE kind = "sqs"
    <3>1. done' = done + 1
      BY <2>2 DEF Receive
    <3> QED
      BY <2>1, <3>1
  <2>3. CASE kind # "sqs"
    <3>1. done' = done
      BY <2>3 DEF Receive
    <3> QED
      BY <1>0, <2>1, <2>3, <3>1 DEF IInv, ChannelIsOpen
  <2> QED
    BY <2>2, <2>3
<1>3. CASE kind = "gocloud"
  <2>1. UNCHANGED <<beats, done>>
    BY <1>3 DEF Receive
  <2>2. TypeOK'
    BY <1>0, <1>1, <2>1 DEF TypeOK, Receive
  <2> QED
    BY <1>0, <1>1, <1>3, <2>1, <2>2 DEF IInv, DeliveryIsKnown, ChannelIsOpen, BeatIsRunning,
       SqsRenewsOnlyWhatItHolds, NoChannelClosedTwice
<1>4. CASE kind # "gocloud"
  <2>1. beats' = StartBeat(done', d)
    BY <1>4 DEF Receive
  <2>2. /\ DOMAIN beats' = DOMAIN beats \cup {done'}
        /\ beats'[done'] = [at |-> "new", channel |-> done', handle |-> d]
        /\ \A b \in DOMAIN beats : b # done' => beats'[b] = beats[b]
        /\ beats' = [b \in DOMAIN beats' |-> beats'[b]]
    BY <2>1 DEF StartBeat
  <2>3. \A b \in DOMAIN beats' : beats'[b] \in Beat(done')
    BY <1>0, <1>1, <1>2, <1>4, <2>2 DEF TypeOK, Beat
  <2>4. TypeOK'
    <3>1. DOMAIN beats' \subseteq 1 .. done' /\ closed' \subseteq 0 .. done'
      BY <1>0, <1>2, <1>4, <2>2 DEF TypeOK
    <3>2. beats' \in [DOMAIN beats' -> Beat(done')]
      BY <2>2, <2>3
    <3> QED
      BY <1>0, <1>1, <1>2, <3>1, <3>2 DEF TypeOK, Receive, Beat
  <2>5. SqsRenewsOnlyWhatItHolds'
    BY <1>0, <1>1, <2>2 DEF IInv, SqsRenewsOnlyWhatItHolds, InHand, Ended
  <2> QED
    BY <1>0, <1>1, <1>2, <1>4, <2>2, <2>4, <2>5
       DEF IInv, DeliveryIsKnown, ChannelIsOpen, BeatIsRunning, NoChannelClosedTwice
<1> QED
  BY <1>3, <1>4

\* A goroutine takes a turn, or leaves.
LEMMA HeartbeatKeepsIInv ==
    ASSUME IInv, NEW b \in DOMAIN beats, Heartbeat(b)
    PROVE  IInv'
<1>0. TypeOK /\ pc # "panic" /\ ~Ended /\ beats[b].at # "gone"
  BY DEF IInv, NoChannelClosedTwice, Heartbeat, EnterSelect, FireAtOnce, Stop, Fire, Renew, Renewed,
     RenewalFails, Alive
<1>1. UNCHANGED <<kind, ctx, lease, receives, msg, done, closed, pending, backoff>>
  BY DEF Heartbeat, EnterSelect, FireAtOnce, Stop, Fire, Renew, Renewed, RenewalFails, BeatStep, queueVars
<1>2. beats[b] \in Beat(done) /\ msg \in Delivery /\ done \in 1 .. done
  BY <1>0 DEF TypeOK, Beat, IInv, DeliveryIsKnown
<1>3. PICK beat \in Beat(done) :
        /\ beats' = [beats EXCEPT ![b] = beat]
        /\ beat.channel = beats[b].channel \/ (kind = "gcs" /\ beat.channel = done)
        /\ beat.handle = beats[b].handle \/ (kind = "gcs" /\ beat.handle = msg)
        /\ beat.at = "gone" => beats[b].channel \in closed \/ ctx = "cancelled"
  <2>1. CASE EnterSelect(b)
    <3> DEFINE beat == [at |-> "select", handle |-> beats[b].handle,
                        channel |-> IF kind = "gcs" THEN done ELSE beats[b].channel]
    <3>1. beat \in Beat(done)
      BY <1>2 DEF Beat
    <3>2. beats' = [beats EXCEPT ![b] = beat]
      BY <2>1 DEF EnterSelect, BeatStep
    <3> QED
      BY <3>1, <3>2
  <2>2. CASE FireAtOnce(b)
    <3> DEFINE beat == [at |-> "fired", handle |-> beats[b].handle, channel |-> done]
    <3>1. beat \in Beat(done)
      BY <1>2 DEF Beat
    <3>2. beats' = [beats EXCEPT ![b] = beat] /\ kind = "gcs"
      BY <2>2 DEF FireAtOnce, BeatStep
    <3> QED
      BY <3>1, <3>2
  <2>3. CASE Renew(b)
    <3> DEFINE beat == [at |-> "call", channel |-> beats[b].channel,
                        handle |-> IF kind = "gcs" THEN msg ELSE beats[b].handle]
    <3>1. beat \in Beat(done)
      BY <1>2 DEF Beat
    <3>2. beats' = [beats EXCEPT ![b] = beat]
      BY <2>3 DEF Renew, BeatStep
    <3> QED
      BY <3>1, <3>2
  <2>4. CASE Stop(b)
    BY <1>2, <2>4 DEF Stop, BeatStep, Beat
  <2>5. CASE Fire(b) \/ Renewed(b) \/ RenewalFails(b)
    BY <1>2, <2>5 DEF Fire, Renewed, RenewalFails, BeatStep, Beat
  <2> QED
    BY <2>1, <2>2, <2>3, <2>4, <2>5 DEF Heartbeat
<1>4. pc' = pc \/ (kind = "gcs" /\ pc' = "failed")
  BY DEF Heartbeat, EnterSelect, FireAtOnce, Stop, Fire, Renew, Renewed, RenewalFails
<1>5. faults' \in 0 .. MaxFaults
  BY <1>0, FaultType DEF Heartbeat, EnterSelect, FireAtOnce, Stop, Fire, Renew, Renewed, RenewalFails, TypeOK
<1>6. /\ DOMAIN beats' = DOMAIN beats
      /\ \A n \in DOMAIN beats : beats'[n] = IF n = b THEN beat ELSE beats[n]
      /\ beats' \in [DOMAIN beats' -> Beat(done)]
  BY <1>0, <1>3 DEF TypeOK, Beat
<1>7. TypeOK'
  BY <1>0, <1>1, <1>4, <1>5, <1>6 DEF TypeOK, Beat
<1>8. DeliveryIsKnown' /\ ChannelIsOpen'
  BY <1>1, <1>4, <1>6 DEF IInv, DeliveryIsKnown, ChannelIsOpen, InHand
<1>9. BeatIsRunning'
  BY <1>1, <1>3, <1>4, <1>6 DEF IInv, BeatIsRunning
<1>10. SqsRenewsOnlyWhatItHolds'
  BY <1>0, <1>1, <1>3, <1>4, <1>6 DEF IInv, SqsRenewsOnlyWhatItHolds, InHand, Ended
<1> QED
  BY <1>0, <1>4, <1>7, <1>8, <1>9, <1>10 DEF IInv, NoChannelClosedTwice

\* The container is started again.
LEMMA RestartKeepsIInv == ASSUME IInv, Restart PROVE IInv'
BY SubscriberAssumption
   DEF Restart, IInv, TypeOK, DeliveryIsKnown, ChannelIsOpen, BeatIsRunning,
       SqsRenewsOnlyWhatItHolds, NoChannelClosedTwice, InHand, Ended, minReceiveBackoff,
       maxReceiveBackoff, queueVars

\* Every step keeps the invariant.
LEMMA NextIInv == IInv /\ [Next]_vars => IInv'
<1> SUFFICES ASSUME IInv, [Next]_vars PROVE IInv'
  OBVIOUS
<1>1. CASE Pull
  BY <1>1, PullKeepsIInv, ReceiveKeepsIInv DEF Pull
<1>2. CASE AckOrNack
  BY <1>2, AckOrNackKeepsIInv
<1>3. CASE Close \/ CloseFails
  BY <1>3, CloseKeepsIInv
<1>4. CASE Cancel \/ (\E m \in Messages : Lapse(m)) \/ (\E t \in pending : Flush(t))
  BY <1>4, WorldKeepsIInv
<1>5. CASE Restart
  BY <1>5, RestartKeepsIInv
<1>6. CASE \E b \in DOMAIN beats : Heartbeat(b)
  BY <1>6, HeartbeatKeepsIInv
<1>7. CASE UNCHANGED vars
  BY <1>7 DEF vars, IInv, TypeOK, DeliveryIsKnown, ChannelIsOpen, BeatIsRunning,
     SqsRenewsOnlyWhatItHolds, NoChannelClosedTwice, InHand, Ended
<1> QED
  BY <1>1, <1>2, <1>3, <1>4, <1>5, <1>6, <1>7 DEF Next

(***************************************************************************)
(* The theorems.                                                           *)
(***************************************************************************)
\* The inductive invariant is an invariant.
THEOREM InvariantHolds == Spec => []IInv
BY InitIInv, NextIInv, PTL DEF Spec

\* The subscriber's fields, goroutines and backoff keep their types and bounds.
THEOREM TypesHold == Spec => []TypeOK
<1>1. IInv => TypeOK
  BY DEF IInv
<1> QED
  BY <1>1, InvariantHolds, PTL

\* An SQS heartbeat that still runs is the one of the message in hand: none
\* outlives the Ack or Nack of its message.
THEOREM SqsRenewsOnlyWhatItHoldsHolds == Spec => []SqsRenewsOnlyWhatItHolds
<1>1. IInv => SqsRenewsOnlyWhatItHolds
  BY DEF IInv
<1> QED
  BY <1>1, InvariantHolds, PTL

\* A message in hand under a live context always has a goroutine that renews
\* its lease.
THEOREM HeldMessageIsRenewedHolds == Spec => []HeldMessageIsRenewed
<1>1. IInv => HeldMessageIsRenewed
  <2> SUFFICES ASSUME IInv, kind # "gocloud", ctx = "live", pc \in {"parsing", "holding"}
               PROVE  \E b \in DOMAIN beats : Renews(b, msg)
    BY DEF HeldMessageIsRenewed
  <2>1. /\ done \in DOMAIN beats /\ done \notin closed
        /\ beats[done].channel = done /\ beats[done].handle = msg /\ beats[done].at # "gone"
    BY DEF IInv, BeatIsRunning
  <2>2. Renews(done, msg)
    BY <2>1 DEF Renews, Alive, Ended
  <2> QED
    BY <2>1, <2>2
<1> QED
  BY <1>1, InvariantHolds, PTL

\* No order of Ack, Nack and Close closes a channel of the GCP subscriber twice.
THEOREM NoChannelClosedTwiceHolds == Spec => []NoChannelClosedTwice
<1>1. IInv => NoChannelClosedTwice
  BY DEF IInv
<1> QED
  BY <1>1, InvariantHolds, PTL

\* An SQS worker never ends with a message neither acked nor nacked.
THEOREM SqsNeverEndsHoldingHolds == Spec => SqsNeverEndsHolding
<1>1. [Next]_vars => [kind = "sqs" /\ Ended' /\ ~Ended => ~InHand]_vars
  <2> SUFFICES ASSUME Next, kind = "sqs", Ended', ~Ended PROVE ~InHand
    OBVIOUS
  <2>1. CASE Pull
    BY <2>1 DEF Pull, BeginPull, Receive, Parse, FailParse, StopOnError, StopOnCancel, RetryReceive,
       Backoff, FailReceive, FailHandle, Ended, InHand
  <2>2. CASE AckOrNack
    BY <2>2 DEF AckOrNack, StopHeartbeat, Settle, SettlePortable, Acknowledge, AcknowledgeFails,
       EndAck, Nack, Ended, InHand
  <2>3. CASE Close \/ CloseFails
    BY <2>3 DEF Close, CloseFails, InHand
  <2>4. CASE Cancel \/ (\E m \in Messages : Lapse(m)) \/ (\E t \in pending : Flush(t)) \/ Restart
    BY <2>4 DEF Cancel, Lapse, Flush, Restart, Ended
  <2>5. CASE \E b \in DOMAIN beats : Heartbeat(b)
    BY <2>5 DEF Heartbeat, EnterSelect, FireAtOnce, Stop, Fire, Renew, Renewed, RenewalFails, Ended
  <2> QED
    BY <2>1, <2>2, <2>3, <2>4, <2>5 DEF Next
<1> QED
  BY <1>1, PTL DEF Spec, SqsNeverEndsHolding
=============================================================================
