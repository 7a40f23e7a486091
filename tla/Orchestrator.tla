---------------------------- MODULE Orchestrator ----------------------------
(***************************************************************************)
(* The hybrid results server for one repository: GetOrProduce and what it  *)
(* calls in internal/orchestrator, over the object store (internal/store), *)
(* the scan pool (internal/scan) and the upstream fallback                 *)
(* (internal/fallback).                                                    *)
(*                                                                         *)
(* A result is what the server tells apart: the commit it is about, the    *)
(* date it was generated and where it really comes from.  Requests,        *)
(* background scans and backfills interleave between any two store calls.  *)
(***************************************************************************)
EXTENDS Integers, FiniteSets

CONSTANTS
    Requests,           \* concurrent HTTP requests
    NumCommits,         \* commits of the repository, in the order of their push
    Latest,             \* the key of the latest result: an empty commit
    Concurrency,        \* size of the scan pool
    Ttl,                \* freshness window of a local latest result
    MaxAge,             \* fallback max-age: window of an upstream result
    MaxTime,            \* bound: how far the clock runs
    None,               \* no result, no commit
    Failed              \* the outcome of a scan that ended in an error

Commits == 1 .. NumCommits
Keys == Commits \union {Latest}

\* An upstream result may come without its commit.
Result == [commit : Commits \union {None}, date : 0 .. MaxTime, origin : {"local", "upstream"}]

ASSUME OrchestratorAssumption ==
    /\ Concurrency \in Nat \ {0}
    /\ Ttl \in Nat /\ MaxAge \in Nat /\ MaxTime \in Nat
    /\ NumCommits \in Nat \ {0}
    /\ Latest \notin Commits /\ None \notin Commits
    /\ None \notin Result /\ Failed \notin Result /\ Failed # None

VARIABLES
    now,                \* the clock
    head,               \* the repository's HEAD commit
    mode,               \* "off", "fetch-first" or "safety-net", by flags
    upstream,           \* what the upstream API has for the repository
    store,              \* per key: the stored result, with its origin tag
    flight,             \* per key: the singleflight call and where it is
    found,              \* per key: the result the call produced
    key,                \* per request: what it asks for
    pc,                 \* per request: where GetOrProduce is
    got,                \* per request: the body it has read or fetched, or the
                        \* outcome in its DoChan channel
    reply               \* per request: the answer

vars == <<now, head, mode, upstream, store, flight, found, key, pc, got, reply>>

worldVars == <<now, head, mode, upstream>>
flightVars == <<flight, found>>

NoReply == [status |-> "none", result |-> None, source |-> "none"]

Init ==
    /\ now = 0
    /\ head = 1
    /\ mode \in {"off", "fetch-first", "safety-net"}
    /\ upstream = None
    /\ store = [k \in Keys |-> None]
    /\ flight = [k \in Keys |-> "idle"]
    /\ found = [k \in Keys |-> None]
    /\ key \in [Requests -> Keys]
    /\ pc = [q \in Requests |-> "start"]
    /\ got = [q \in Requests |-> None]
    /\ reply = [q \in Requests |-> NoReply]

(***************************************************************************)
(* The world outside: time passes, someone pushes, the upstream publishes. *)
(***************************************************************************)
Tick ==
    /\ now < MaxTime
    /\ now' = now + 1
    /\ UNCHANGED <<head, mode, upstream, store, flightVars, key, pc, got, reply>>

Push ==
    /\ head + 1 \in Commits
    /\ head' = head + 1
    /\ UNCHANGED <<now, mode, upstream, store, flightVars, key, pc, got, reply>>

UpstreamPublishes(c) ==
    /\ upstream' = [commit |-> c, date |-> now, origin |-> "upstream"]
    /\ UNCHANGED <<now, head, mode, store, flightVars, key, pc, got, reply>>

(***************************************************************************)
(* A request.                                                              *)
(***************************************************************************)
Answer(q, status, result, source) ==
    /\ reply' = [reply EXCEPT ![q] = [status |-> status, result |-> result, source |-> source]]
    /\ pc' = [pc EXCEPT ![q] = "done"]
    /\ got' = [got EXCEPT ![q] = None]

GoWith(q, where, result) ==
    /\ pc' = [pc EXCEPT ![q] = where]
    /\ got' = [got EXCEPT ![q] = result]
    /\ UNCHANGED reply

Go(q, where) == GoWith(q, where, None)

GiveUp(q) == Answer(q, "error", None, "none")

\* store.write when its error does not matter: the object at k is replaced, or
\* the write fails, and a failed write may have landed.
Write(k, result) ==
    store' \in {store, [store EXCEPT ![k] = result]}

\* Whether a result of this age is still good under this origin tag.
Fresh(result, tag) ==
    now - result.date <= IF tag = "upstream" THEN MaxAge ELSE Ttl

\* GetWithOrigin, first call: ReadAll of the body.
ReadBody(q) ==
    /\ pc[q] = "start"
    /\ \/ store[key[q]] = None /\ Go(q, "produce")
       \/ store[key[q]] # None /\ GoWith(q, "attributes", store[key[q]])
       \/ GiveUp(q)
    /\ UNCHANGED <<worldVars, store, flightVars, key>>

\* What the second call, Attributes, reports: the tag of the object that is
\* there by now, or local when the call fails.
TagsRead(k) == {store[k].origin, "local"}

\* GetWithOrigin's second call, then fresh and cachedOutcome.
ReadAttributes(q) ==
    /\ pc[q] = "attributes"
    /\ \E tag \in TagsRead(key[q]) :
        IF key[q] # Latest \/ Fresh(got[q], tag)
        THEN Answer(q, "ready", got[q], IF tag = "upstream" THEN "upstream" ELSE "cached")
        ELSE Go(q, "produce")
    /\ UNCHANGED <<worldVars, store, flightVars, key>>

\* produce and fallbackDecision.
Produce(q) ==
    /\ pc[q] = "produce"
    /\ Go(q, IF mode = "fetch-first" /\ key[q] = Latest THEN "fetch" ELSE "join")
    /\ UNCHANGED <<worldVars, store, flightVars, key>>

\* tryFallback's Fetch: the upstream's result unless it is missing, too old or
\* the call fails; then fetch-first goes on to scan and safety-net gives up.
Fetch(q) ==
    /\ pc[q] = "fetch"
    /\ \/ /\ upstream # None
          /\ now - upstream.date <= MaxAge
          /\ GoWith(q, IF upstream.commit = None THEN "backfillLatest" ELSE "backfillCommit", upstream)
       \/ IF mode = "fetch-first" THEN Go(q, "join") ELSE GiveUp(q)
    /\ UNCHANGED <<worldVars, store, flightVars, key>>

\* Mutated: the latest pointer is written even if the pinned object was not.
BackfillBoth(q) ==
    /\ pc[q] = "backfillCommit"
    /\ Write(got[q].commit, got[q])
    /\ GoWith(q, "backfillLatest", got[q])
    /\ UNCHANGED <<worldVars, flightVars, key>>

\* backfill, PutLatestAndCommitWithOrigin's first write; a failure is logged
\* and leaves out the second.
BackfillCommit(q) ==
    /\ pc[q] = "backfillCommit"
    /\ \/ /\ store' = [store EXCEPT ![got[q].commit] = got[q]]
          /\ GoWith(q, "backfillLatest", got[q])
       \/ /\ Write(got[q].commit, got[q])
          /\ Answer(q, "ready", got[q], "upstream")
    /\ UNCHANGED <<worldVars, flightVars, key>>

\* backfill's second write, and the answer.
BackfillLatest(q) ==
    /\ pc[q] = "backfillLatest"
    /\ Write(Latest, got[q])
    /\ Answer(q, "ready", got[q], "upstream")
    /\ UNCHANGED <<worldVars, flightVars, key>>

\* scanOutcome's DoChan: start a scan for the key or join the one running.
Join(q) ==
    /\ pc[q] = "join"
    /\ flight' = [flight EXCEPT ![key[q]] = IF @ = "idle" THEN "queued" ELSE @]
    /\ Go(q, "wait")
    /\ UNCHANGED <<worldVars, store, found, key>>

\* Mutated: no timer bounds the wait, and a failed scan is asked for again.
WaitAgain(q) ==
    /\ pc[q] = "wait"
    /\ \/ got[q] = Failed /\ Go(q, "join")
       \/ got[q] \notin {None, Failed} /\ Answer(q, "ready", got[q], "live")
    /\ UNCHANGED <<worldVars, store, flightVars, key>>

\* scanOutcome's select: the scan's outcome, the sync timeout, or the client
\* is gone.  After an error safety-net turns to the upstream.
Wait(q) ==
    /\ pc[q] = "wait"
    /\ \/ got[q] \notin {None, Failed} /\ Answer(q, "ready", got[q], "live")
       \/ /\ got[q] = Failed
          /\ IF mode = "safety-net" /\ key[q] = Latest THEN Go(q, "fetch") ELSE GiveUp(q)
       \/ Answer(q, "retry", None, "live")
       \/ GiveUp(q)
    /\ UNCHANGED <<worldVars, store, flightVars, key>>

(***************************************************************************)
(* A background scan: scanAndStore under one singleflight key.             *)
(***************************************************************************)
\* Mutated: the call is not taken out of the group.
LandKeepingCall(k, outcome) ==
    /\ flight' = [flight EXCEPT ![k] = "queued"]
    /\ found' = [found EXCEPT ![k] = None]
    /\ got' = [q \in Requests |->
                  IF pc[q] = "wait" /\ key[q] = k /\ got[q] = None THEN outcome ELSE got[q]]

\* The call ends: every request waiting on it gets the outcome, and the next
\* request for the key starts a new call.
Land(k, outcome) ==
    /\ flight' = [flight EXCEPT ![k] = "idle"]
    /\ found' = [found EXCEPT ![k] = None]
    /\ got' = [q \in Requests |->
                  IF pc[q] = "wait" /\ key[q] = k /\ got[q] = None THEN outcome ELSE got[q]]

Scanning == {k \in Keys : flight[k] = "scanning"}

\* Mutated: the requested commit is not passed on to the scan.
StartScanOfHead(k) ==
    /\ flight[k] = "queued"
    /\ Cardinality(Scanning) < Concurrency
    /\ flight' = [flight EXCEPT ![k] = "scanning"]
    /\ found' = [found EXCEPT ![k] = [commit |-> head, date |-> now, origin |-> "local"]]
    /\ UNCHANGED <<worldVars, store, key, pc, got, reply>>

\* Mutated: the key of the latest result is taken for a commit.
StartScanOfKey(k) ==
    /\ flight[k] = "queued"
    /\ Cardinality(Scanning) < Concurrency
    /\ flight' = [flight EXCEPT ![k] = "scanning"]
    /\ found' = [found EXCEPT ![k] = [commit |-> k, date |-> now, origin |-> "local"]]
    /\ UNCHANGED <<worldVars, store, key, pc, got, reply>>

\* A pool slot is free and the scan starts, on HEAD or on the pinned commit.
StartScan(k) ==
    /\ flight[k] = "queued"
    /\ Cardinality(Scanning) < Concurrency
    /\ flight' = [flight EXCEPT ![k] = "scanning"]
    /\ found' = [found EXCEPT ![k] =
                    [commit |-> IF k = Latest THEN head ELSE k, date |-> now, origin |-> "local"]]
    /\ UNCHANGED <<worldVars, store, key, pc, got, reply>>

\* No slot or no result within the scan timeout, a scan error or a skipped
\* repository: the waiting requests get the error.
FailScan(k) ==
    /\ flight[k] \in {"queued", "scanning"}
    /\ Land(k, Failed)
    /\ UNCHANGED <<worldVars, store, key, pc, reply>>

\* The scan is over and gives its slot back.
EndScan(k) ==
    /\ flight[k] = "scanning"
    /\ flight' = [flight EXCEPT ![k] = "persisting"]
    /\ UNCHANGED <<worldVars, store, found, key, pc, got, reply>>

\* persist, the pinned key: PutLatestAndCommit's first write, or Put.  A
\* failure is logged and leaves out the write to the latest key.
PersistCommit(k) ==
    /\ flight[k] = "persisting"
    /\ \/ /\ store' = [store EXCEPT ![found[k].commit] = found[k]]
          /\ flight' = [flight EXCEPT ![k] = IF k = Latest THEN "persistingLatest" ELSE "landing"]
       \/ /\ Write(found[k].commit, found[k])
          /\ flight' = [flight EXCEPT ![k] = "landing"]
    /\ UNCHANGED <<worldVars, found, key, pc, got, reply>>

\* persist, the latest key.
PersistLatest(k) ==
    /\ flight[k] = "persistingLatest"
    /\ Write(Latest, found[k])
    /\ flight' = [flight EXCEPT ![k] = "landing"]
    /\ UNCHANGED <<worldVars, found, key, pc, got, reply>>

\* scanAndStore returns its result.
EndFlight(k) ==
    /\ flight[k] = "landing"
    /\ Land(k, found[k])
    /\ UNCHANGED <<worldVars, store, key, pc, reply>>

Request(q) ==
    \/ ReadBody(q) \/ ReadAttributes(q) \/ Produce(q) \/ Fetch(q) \/ BackfillCommit(q)
    \/ BackfillLatest(q) \/ Join(q) \/ Wait(q)

Flight(k) ==
    \/ StartScan(k) \/ FailScan(k) \/ EndScan(k) \/ PersistCommit(k) \/ PersistLatest(k)
    \/ EndFlight(k)

Next ==
    \/ Tick
    \/ Push
    \/ \E c \in {head, None} : UpstreamPublishes(c)
    \/ \E q \in Requests : Request(q)
    \/ \E k \in Keys : Flight(k)

(***************************************************************************)
(* Goroutines are scheduled; every wait has a timer (sync timeout, scan    *)
(* timeout, the fallback client's timeout).  The world owes nothing.       *)
(***************************************************************************)
Fairness ==
    /\ \A q \in Requests : WF_vars(Request(q))
    /\ \A k \in Keys : WF_vars(Flight(k))

Spec == Init /\ [][Next]_vars /\ Fairness

(***************************************************************************)
(* Correctness.                                                            *)
(***************************************************************************)
TypeOK ==
    /\ now \in 0 .. MaxTime
    /\ head \in Commits
    /\ mode \in {"off", "fetch-first", "safety-net"}
    /\ upstream \in Result \union {None}
    /\ store \in [Keys -> Result \union {None}]
    /\ flight \in [Keys -> {"idle", "queued", "scanning", "persisting", "persistingLatest", "landing"}]
    /\ found \in [Keys -> Result \union {None}]
    /\ key \in [Requests -> Keys]
    /\ pc \in [Requests -> {"start", "attributes", "produce", "fetch", "backfillCommit",
                            "backfillLatest", "join", "wait", "done"}]
    /\ got \in [Requests -> Result \union {None, Failed}]
    /\ reply \in [Requests -> [status : {"none", "ready", "retry", "error"},
                               result : Result \union {None},
                               source : {"none", "cached", "upstream", "live"}]]

\* A request for a commit is only ever answered with a result about that
\* commit, although latest scans and backfills write the pinned keys too and
\* HEAD moves under them.
PinnedAnswerIsThatCommit ==
    \A q \in Requests :
        reply[q].status = "ready" /\ key[q] # Latest => reply[q].result.commit = key[q]

\* The latest result is never the only copy: its commit can be asked for as
\* well, because the pinned key is written first and the latest only if that
\* succeeded.
LatestIsAlsoPinned ==
    store[Latest] # None =>
        LET c == store[Latest].commit IN c # None => store[c] # None

\* Every request is answered in the end, also one that waits behind scans
\* of other keys or for a scan that fails.
EveryRequestAnswered == <>[](\A q \in Requests : pc[q] = "done")

\* Every scan ends and frees its key and its slot, whether or not anyone
\* still waits: when the requests are over, nothing stays in flight.
FlightsLand == <>[](\A k \in Keys : flight[k] = "idle")

(***************************************************************************)
(* What the repository says and the code does not keep.                    *)
(***************************************************************************)
\* A commit-pinned object is immutable (internal/store/store.go).
PinnedIsImmutable ==
    [][\A c \in Commits : store[c] # None => store'[c] = store[c]]_vars
=============================================================================
