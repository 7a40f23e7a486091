------------------------- MODULE OrchestratorProofs -------------------------
(***************************************************************************)
(* The safety invariants of Orchestrator, for any number of requests and   *)
(* commits, any pool size, windows and clock.                              *)
(***************************************************************************)
EXTENDS Orchestrator, TLAPS

(***************************************************************************)
(* The inductive invariant.                                                *)
(***************************************************************************)
\* Result r can be handed to a request for key k.
Answers(r, k) == r \in Result /\ (k # Latest => r.commit = k)

\* Result r is pinned if it says what commit it is about.
Pinned(r) == r.commit # None => store[r.commit] # None

\* A pinned object is about the commit that is its key.
PinnedObjectsMatch ==
    \A c \in Commits : store[c] # None => store[c].commit = c

\* A scan has a result about a commit, the one its key asks for, and comes to
\* the latest key only after the pinned one.
FlightsCarryTheirKey ==
    \A k \in Keys :
        /\ flight[k] \in {"scanning", "persisting", "persistingLatest", "landing"} =>
               Answers(found[k], k) /\ found[k].commit \in Commits
        /\ flight[k] = "persistingLatest" => k = Latest /\ Pinned(found[k])

\* What a request has read, fetched or waited for is about the commit it asks
\* for; the upstream is only asked for the latest result, and its answer comes
\* to the latest key only after the pinned one.
RequestsCarryTheirKey ==
    \A q \in Requests :
        /\ pc[q] = "attributes" => Answers(got[q], key[q])
        /\ pc[q] \in {"fetch", "backfillCommit", "backfillLatest"} => key[q] = Latest
        /\ pc[q] = "backfillCommit" => got[q] \in Result /\ got[q].commit \in Commits
        /\ pc[q] = "backfillLatest" => got[q] \in Result /\ Pinned(got[q])
        /\ pc[q] = "wait" => got[q] \in {None, Failed} \/ Answers(got[q], key[q])

\* A ready answer is about the commit asked for.
RepliesCarryTheirKey ==
    \A q \in Requests : reply[q].status = "ready" => Answers(reply[q].result, key[q])

IInv ==
    /\ TypeOK
    /\ PinnedObjectsMatch
    /\ LatestIsAlsoPinned
    /\ FlightsCarryTheirKey
    /\ RequestsCarryTheirKey
    /\ RepliesCarryTheirKey

\* The invariant holds before any request has been handled.
LEMMA InitIInv == Init => IInv
BY OrchestratorAssumption
   DEF Init, IInv, TypeOK, PinnedObjectsMatch, LatestIsAlsoPinned, FlightsCarryTheirKey,
       RequestsCarryTheirKey, RepliesCarryTheirKey, Keys, Commits, NoReply

(***************************************************************************)
(* The world's steps and the requests'.                                    *)
(***************************************************************************)
\* Time, pushes and upstream publications touch neither requests nor store.
LEMMA WorldKeepsIInv ==
    ASSUME IInv, Tick \/ Push \/ \E c \in {head, None} : UpstreamPublishes(c)
    PROVE  IInv'
<1>1. UNCHANGED <<store, flight, found, key, pc, got, reply, mode>>
  BY DEF Tick, Push, UpstreamPublishes, flightVars
<1>2. now' \in 0 .. MaxTime /\ head' \in Commits /\ upstream' \in Result \union {None}
  BY OrchestratorAssumption
     DEF IInv, TypeOK, Tick, Push, UpstreamPublishes, Result, Commits, flightVars
<1>3. TypeOK'
  BY <1>1, <1>2 DEF IInv, TypeOK
<1> QED
  BY <1>1, <1>3 DEF IInv, PinnedObjectsMatch, LatestIsAlsoPinned, FlightsCarryTheirKey,
     RequestsCarryTheirKey, RepliesCarryTheirKey, Answers, Pinned

\* The store after a step holds results of the right commits, keeps the pinned
\* twin of the latest one, and has lost no object.
StoreIsKept ==
    /\ store' \in [Keys -> Result \union {None}]
    /\ PinnedObjectsMatch'
    /\ LatestIsAlsoPinned'
    /\ \A k \in Keys : store[k] # None => store'[k] # None

\* A write of a commit's own result, or of a pinned result to the latest key,
\* keeps the store sound, whether it lands or not.
LEMMA WriteKeepsStore ==
    ASSUME IInv, NEW k \in Keys, NEW r \in Result, Write(k, r),
           IF k = Latest THEN Pinned(r) ELSE r.commit = k
    PROVE  StoreIsKept
<1> USE OrchestratorAssumption
<1>0. r.commit \in Commits \union {None}
  BY DEF Result
<1>1. CASE store' = store
  BY <1>1 DEF StoreIsKept, IInv, TypeOK, PinnedObjectsMatch, LatestIsAlsoPinned
<1>2. CASE store' = [store EXCEPT ![k] = r]
  <2>1. store' \in [Keys -> Result \union {None}]
    BY <1>2 DEF IInv, TypeOK
  <2>2. PinnedObjectsMatch'
    BY <1>2 DEF IInv, TypeOK, PinnedObjectsMatch, Keys
  <2>3. \A x \in Keys : store[x] # None => store'[x] # None
    BY <1>2 DEF IInv, TypeOK
  <2>4. LatestIsAlsoPinned'
    <3>1. CASE k = Latest
      BY <1>0, <1>2, <2>3, <3>1 DEF IInv, TypeOK, LatestIsAlsoPinned, Pinned, Keys
    <3>2. CASE k # Latest
      <4>1. store'[Latest] = store[Latest]
        BY <1>2, <3>2 DEF IInv, TypeOK, Keys
      <4>2. store[Latest] # None => store[Latest].commit \in Commits \union {None}
        BY DEF IInv, TypeOK, Keys, Result
      <4> QED
        BY <4>1, <4>2, <2>3 DEF IInv, LatestIsAlsoPinned, Keys
    <3> QED
      BY <3>1, <3>2
  <2> QED
    BY <2>1, <2>2, <2>3, <2>4 DEF StoreIsKept
<1> QED
  BY <1>1, <1>2 DEF Write

\* A step of a request keeps the invariant if it keeps the store and what
\* concerns that request.
LEMMA RequestKeepsIInv ==
    ASSUME IInv, NEW q \in Requests, StoreIsKept,
           UNCHANGED <<worldVars, flightVars, key>>,
           \/ \E where \in {"attributes", "produce", "fetch", "backfillCommit", "backfillLatest",
                            "join", "wait"}, r \in Result \union {None} :
                  /\ GoWith(q, where, r)
                  /\ where = "attributes" => Answers(r, key[q])
                  /\ where \in {"fetch", "backfillCommit", "backfillLatest"} => key[q] = Latest
                  /\ where = "backfillCommit" => r \in Result /\ r.commit \in Commits
                  /\ where = "backfillLatest" =>
                         r \in Result /\ (r.commit # None => store'[r.commit] # None)
                  /\ where = "wait" => r = None
           \/ \E status \in {"ready", "retry", "error"}, r \in Result \union {None},
                 source \in {"none", "cached", "upstream", "live"} :
                  /\ Answer(q, status, r, source)
                  /\ status = "ready" => Answers(r, key[q])
    PROVE  IInv'
<1>1. TypeOK'
  <2>1. UNCHANGED <<now, head, mode, upstream, flight, found, key>>
    BY DEF worldVars, flightVars
  <2>2. PICK where \in {"attributes", "produce", "fetch", "backfillCommit", "backfillLatest",
                        "join", "wait", "done"}, r \in Result \union {None} :
            pc' = [pc EXCEPT ![q] = where] /\ got' = [got EXCEPT ![q] = r]
    BY DEF GoWith, Answer
  <2>3. pc' \in [Requests -> {"start", "attributes", "produce", "fetch", "backfillCommit",
                              "backfillLatest", "join", "wait", "done"}]
    BY <2>2 DEF IInv, TypeOK
  <2>4. got' \in [Requests -> Result \union {None, Failed}]
    BY <2>2 DEF IInv, TypeOK
  <2>5. reply' \in [Requests -> [status : {"none", "ready", "retry", "error"},
                                 result : Result \union {None},
                                 source : {"none", "cached", "upstream", "live"}]]
    BY DEF IInv, TypeOK, GoWith, Answer
  <2> QED
    BY <2>1, <2>3, <2>4, <2>5 DEF IInv, TypeOK, StoreIsKept
<1>2. \A r \in Result : Pinned(r) => (r.commit # None => store'[r.commit] # None)
  BY DEF StoreIsKept, Pinned, Result, Keys
<1>3. RequestsCarryTheirKey'
  BY <1>2 DEF IInv, TypeOK, RequestsCarryTheirKey, GoWith, Answer, Answers, Pinned
<1>4. RepliesCarryTheirKey'
  BY DEF IInv, TypeOK, RepliesCarryTheirKey, GoWith, Answer, Answers
<1>5. FlightsCarryTheirKey'
  BY <1>2 DEF IInv, FlightsCarryTheirKey, flightVars, Answers, Pinned
<1> QED
  BY <1>1, <1>3, <1>4, <1>5 DEF IInv, StoreIsKept

\* Steps that leave the store alone keep it.
LEMMA SameStoreIsKept == ASSUME IInv, UNCHANGED store PROVE StoreIsKept
BY DEF StoreIsKept, IInv, TypeOK, PinnedObjectsMatch, LatestIsAlsoPinned

\* The steps of a request that read and decide.
LEMMA ReadingKeepsIInv ==
    ASSUME IInv, NEW q \in Requests,
           ReadBody(q) \/ ReadAttributes(q) \/ Produce(q) \/ Fetch(q) \/ Wait(q)
    PROVE  IInv'
<1> USE OrchestratorAssumption
<1>1. key[q] \in Keys /\ got[q] \in Result \union {None, Failed}
  BY DEF IInv, TypeOK
<1>2. StoreIsKept /\ UNCHANGED <<worldVars, flightVars, key>>
  BY SameStoreIsKept DEF ReadBody, ReadAttributes, Produce, Fetch, Wait
<1>3. CASE ReadBody(q)
  <2>1. store[key[q]] # None => Answers(store[key[q]], key[q])
    BY <1>1 DEF IInv, TypeOK, PinnedObjectsMatch, Answers, Keys
  <2> QED
    BY <1>1, <1>2, <1>3, <2>1, RequestKeepsIInv DEF ReadBody, Go, GiveUp, Answers
<1>4. CASE ReadAttributes(q)
  BY <1>1, <1>2, <1>4, RequestKeepsIInv
     DEF ReadAttributes, Go, IInv, RequestsCarryTheirKey, Answers
<1>5. CASE Produce(q)
  BY <1>1, <1>2, <1>5, RequestKeepsIInv DEF Produce, Go
<1>6. CASE Fetch(q)
  <2>1. upstream # None => upstream \in Result /\ upstream.commit \in Commits \union {None}
    BY DEF IInv, TypeOK, Result
  <2>2. key[q] = Latest
    BY <1>6 DEF IInv, RequestsCarryTheirKey, Fetch
  <2> QED
    BY <1>1, <1>2, <1>6, <2>1, <2>2, RequestKeepsIInv DEF Fetch, Go, GiveUp
<1>7. CASE Wait(q)
  <2>1. got[q] \in {None, Failed} \/ Answers(got[q], key[q])
    BY <1>7 DEF IInv, RequestsCarryTheirKey, Wait
  <2> QED
    BY <1>1, <1>2, <1>7, <2>1, RequestKeepsIInv DEF Wait, Go, GiveUp, Answers
<1> QED
  BY <1>3, <1>4, <1>5, <1>6, <1>7

\* The two writes of a backfill.
LEMMA BackfillKeepsIInv ==
    ASSUME IInv, NEW q \in Requests, BackfillCommit(q) \/ BackfillLatest(q)
    PROVE  IInv'
<1> USE OrchestratorAssumption
<1>1. CASE BackfillCommit(q)
  <2>1. got[q] \in Result /\ got[q].commit \in Commits /\ key[q] = Latest
    BY <1>1 DEF IInv, RequestsCarryTheirKey, BackfillCommit
  <2>2. Write(got[q].commit, got[q])
    BY <1>1 DEF BackfillCommit, Write
  <2>3. got[q].commit \in Keys /\ got[q].commit # Latest
    BY <2>1 DEF Keys
  <2>4. StoreIsKept
    BY <2>1, <2>2, <2>3, WriteKeepsStore
  <2>5. CASE Answer(q, "ready", got[q], "upstream")
    BY <1>1, <2>1, <2>4, <2>5, RequestKeepsIInv DEF BackfillCommit, Answers
  <2>6. CASE /\ store' = [store EXCEPT ![got[q].commit] = got[q]]
             /\ GoWith(q, "backfillLatest", got[q])
    <3>1. store'[got[q].commit] # None
      BY <2>1, <2>3, <2>6 DEF IInv, TypeOK
    <3> QED
      BY <1>1, <2>1, <2>4, <2>6, <3>1, RequestKeepsIInv DEF BackfillCommit
  <2> QED
    BY <1>1, <2>5, <2>6 DEF BackfillCommit
<1>2. CASE BackfillLatest(q)
  <2>1. got[q] \in Result /\ Pinned(got[q]) /\ key[q] = Latest
    BY <1>2 DEF IInv, RequestsCarryTheirKey, BackfillLatest
  <2>2. StoreIsKept
    BY <1>2, <2>1, WriteKeepsStore DEF BackfillLatest, Keys
  <2> QED
    BY <1>2, <2>1, <2>2, RequestKeepsIInv DEF BackfillLatest, Answers
<1> QED
  BY <1>1, <1>2

\* A request starts or joins a call.
LEMMA JoinKeepsIInv ==
    ASSUME IInv, NEW q \in Requests, Join(q)
    PROVE  IInv'
<1>1. TypeOK'
  BY DEF IInv, TypeOK, Join, Go, GoWith, worldVars
<1>2. FlightsCarryTheirKey'
  BY DEF IInv, TypeOK, FlightsCarryTheirKey, Join, worldVars, Answers, Pinned
<1>3. RequestsCarryTheirKey'
  BY DEF IInv, TypeOK, RequestsCarryTheirKey, Join, Go, GoWith, Answers, Pinned
<1>4. PinnedObjectsMatch' /\ LatestIsAlsoPinned' /\ RepliesCarryTheirKey'
  BY DEF IInv, PinnedObjectsMatch, LatestIsAlsoPinned, RepliesCarryTheirKey, Join, Go, GoWith,
     Answers
<1> QED
  BY <1>1, <1>2, <1>3, <1>4 DEF IInv

(***************************************************************************)
(* The flights' steps.                                                     *)
(***************************************************************************)
\* A call that ends hands a result about its key, or an error, to the requests
\* waiting for that key.
LEMMA LandKeepsIInv ==
    ASSUME IInv, NEW k \in Keys, NEW outcome, Land(k, outcome),
           outcome = Failed \/ Answers(outcome, k),
           UNCHANGED <<worldVars, store, key, pc, reply>>
    PROVE  IInv'
<1>1. TypeOK'
  BY DEF IInv, TypeOK, Land, worldVars, Answers
<1>2. FlightsCarryTheirKey'
  BY DEF IInv, TypeOK, FlightsCarryTheirKey, Land, Answers, Pinned
<1>3. RequestsCarryTheirKey'
  BY DEF IInv, TypeOK, RequestsCarryTheirKey, Land, Answers, Pinned
<1>4. PinnedObjectsMatch' /\ LatestIsAlsoPinned' /\ RepliesCarryTheirKey'
  BY DEF IInv, PinnedObjectsMatch, LatestIsAlsoPinned, RepliesCarryTheirKey, Answers
<1> QED
  BY <1>1, <1>2, <1>3, <1>4 DEF IInv

\* A write of a flight keeps the invariant if the flight goes on to land, or to
\* the latest key with a pinned result.
LEMMA PersistKeepsIInv ==
    ASSUME IInv, NEW k \in Keys, StoreIsKept,
           flight[k] \in {"persisting", "persistingLatest"},
           NEW next \in {"persistingLatest", "landing"},
           flight' = [flight EXCEPT ![k] = next],
           next = "persistingLatest" =>
               k = Latest /\ (found[k].commit # None => store'[found[k].commit] # None),
           UNCHANGED <<worldVars, found, key, pc, got, reply>>
    PROVE  IInv'
<1>1. TypeOK'
  BY DEF IInv, TypeOK, StoreIsKept, worldVars
<1>2. \A r \in Result : Pinned(r) => (r.commit # None => store'[r.commit] # None)
  BY DEF StoreIsKept, Pinned, Result, Keys
<1>3. FlightsCarryTheirKey'
  BY <1>2 DEF IInv, TypeOK, FlightsCarryTheirKey, Answers, Pinned
<1>4. RequestsCarryTheirKey'
  BY <1>2 DEF IInv, TypeOK, RequestsCarryTheirKey, Answers, Pinned
<1>5. RepliesCarryTheirKey'
  BY DEF IInv, RepliesCarryTheirKey, Answers
<1> QED
  BY <1>1, <1>3, <1>4, <1>5 DEF IInv, StoreIsKept

\* Every step of a background scan.
LEMMA FlightKeepsIInv ==
    ASSUME IInv, NEW k \in Keys, Flight(k)
    PROVE  IInv'
<1> USE OrchestratorAssumption
<1>1. CASE StartScan(k)
  <2>1. Answers(found'[k], k) /\ found'[k].commit \in Commits
    BY <1>1 DEF IInv, TypeOK, StartScan, Answers, Result, Keys, Commits
  <2>2. TypeOK'
    BY <1>1, <2>1 DEF IInv, TypeOK, StartScan, worldVars, Answers
  <2>3. FlightsCarryTheirKey'
    BY <1>1, <2>1 DEF IInv, TypeOK, FlightsCarryTheirKey, StartScan, Answers, Pinned
  <2> QED
    BY <1>1, <2>2, <2>3 DEF IInv, StartScan, PinnedObjectsMatch, LatestIsAlsoPinned,
       RequestsCarryTheirKey, RepliesCarryTheirKey, Answers, Pinned
<1>2. CASE EndScan(k)
  <2>1. TypeOK'
    BY <1>2 DEF IInv, TypeOK, EndScan, worldVars
  <2>2. FlightsCarryTheirKey'
    BY <1>2 DEF IInv, TypeOK, FlightsCarryTheirKey, EndScan, Answers, Pinned
  <2> QED
    BY <1>2, <2>1, <2>2 DEF IInv, EndScan, PinnedObjectsMatch, LatestIsAlsoPinned,
       RequestsCarryTheirKey, RepliesCarryTheirKey, Answers, Pinned
<1>3. CASE FailScan(k)
  BY <1>3, LandKeepsIInv DEF FailScan
<1>4. CASE EndFlight(k)
  BY <1>4, LandKeepsIInv DEF EndFlight, IInv, FlightsCarryTheirKey
<1>5. CASE PersistCommit(k)
  <2>1. found[k] \in Result /\ found[k].commit \in Commits
    BY <1>5 DEF IInv, FlightsCarryTheirKey, PersistCommit, Answers
  <2>2. Write(found[k].commit, found[k])
    BY <1>5 DEF PersistCommit, Write
  <2>3. StoreIsKept
    BY <2>1, <2>2, WriteKeepsStore DEF Keys
  <2>4. CASE flight' = [flight EXCEPT ![k] = "landing"]
    BY <1>5, <2>3, <2>4, PersistKeepsIInv DEF PersistCommit
  <2>5. CASE /\ store' = [store EXCEPT ![found[k].commit] = found[k]]
             /\ k = Latest
             /\ flight' = [flight EXCEPT ![k] = "persistingLatest"]
    <3>1. store'[found[k].commit] # None
      BY <2>1, <2>5 DEF IInv, TypeOK, Keys
    <3> QED
      BY <1>5, <2>3, <2>5, <3>1, PersistKeepsIInv DEF PersistCommit
  <2> QED
    BY <1>5, <2>4, <2>5 DEF PersistCommit
<1>6. CASE PersistLatest(k)
  <2>1. k = Latest /\ found[k] \in Result /\ Pinned(found[k])
    BY <1>6 DEF IInv, FlightsCarryTheirKey, PersistLatest, Answers
  <2>2. StoreIsKept
    BY <1>6, <2>1, WriteKeepsStore DEF PersistLatest
  <2> QED
    BY <1>6, <2>2, PersistKeepsIInv DEF PersistLatest
<1> QED
  BY <1>1, <1>2, <1>3, <1>4, <1>5, <1>6 DEF Flight

(***************************************************************************)
(* The theorems.                                                           *)
(***************************************************************************)
\* Every step keeps the invariant.
LEMMA NextIInv == IInv /\ [Next]_vars => IInv'
<1> SUFFICES ASSUME IInv, [Next]_vars PROVE IInv'
  OBVIOUS
<1>1. CASE Tick \/ Push \/ \E c \in {head, None} : UpstreamPublishes(c)
  BY <1>1, WorldKeepsIInv
<1>2. ASSUME NEW q \in Requests, Request(q) PROVE IInv'
  BY <1>2, ReadingKeepsIInv, BackfillKeepsIInv, JoinKeepsIInv DEF Request
<1>3. ASSUME NEW k \in Keys, Flight(k) PROVE IInv'
  BY <1>3, FlightKeepsIInv
<1>4. CASE UNCHANGED vars
  BY <1>4 DEF vars, IInv, TypeOK, PinnedObjectsMatch, LatestIsAlsoPinned, FlightsCarryTheirKey,
     RequestsCarryTheirKey, RepliesCarryTheirKey, Answers, Pinned
<1> QED
  BY <1>1, <1>2, <1>3, <1>4 DEF Next

\* The inductive invariant is an invariant.
THEOREM InvariantHolds == Spec => []IInv
BY InitIInv, NextIInv, PTL DEF Spec

\* The variables of GetOrProduce and its store keep their types.
THEOREM TypesHold == Spec => []TypeOK
<1>1. IInv => TypeOK
  BY DEF IInv
<1> QED
  BY <1>1, InvariantHolds, PTL

\* GetOrProduce answers a request for a commit only with a result about that
\* commit, whatever latest scans and backfills write to the pinned keys.
THEOREM PinnedAnswerHolds == Spec => []PinnedAnswerIsThatCommit
<1>1. IInv => PinnedAnswerIsThatCommit
  BY DEF IInv, RepliesCarryTheirKey, PinnedAnswerIsThatCommit, Answers
<1> QED
  BY <1>1, InvariantHolds, PTL

\* The latest object always has its pinned twin, whichever writes of persist
\* and backfill fail.
THEOREM LatestPinnedHolds == Spec => []LatestIsAlsoPinned
<1>1. IInv => LatestIsAlsoPinned
  BY DEF IInv
<1> QED
  BY <1>1, InvariantHolds, PTL
=============================================================================
