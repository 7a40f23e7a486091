--------------------------- MODULE ResultServing ---------------------------
(***************************************************************************)
(* The legacy results API: one repository's results, from the two writers  *)
(* of its buckets to the CDN in front of the GET handler.                  *)
(*                                                                         *)
(* POST /projects publishes a result of the scorecard action into the      *)
(* results bucket (api/app/server/post_results.go); the cron workers       *)
(* export theirs into the cron bucket (cron/internal/worker/main.go).      *)
(* Both write the latest object, purge its URL, write the commit's object  *)
(* and purge that URL.  GET answers from the results bucket, else from the *)
(* cron bucket, else with a 404, and lets the CDN keep any of the three    *)
(* for a year.  A commit is the number of its push.                        *)
(***************************************************************************)
EXTENDS Integers

CONSTANTS
    Posts,          \* publishing requests of the scorecard action
    Exports,        \* batch jobs that export a result of the repository
    Garbled,        \* published results that do not decode as a ScorecardResult
    Fills,          \* requests the CDN passes on to the API
    MaxCommit,      \* bound: pushes to the repository
    MaxFaults,      \* bound: failures considered in one behaviour
    Latest,         \* the key without a commit
    None, NotFound  \* no object, no cached answer; a 404

Writers == Posts \cup Exports
Commits == 1 .. MaxCommit

\* A key stands for the object and for the one URL of it that its writers
\* purge.  The handler leads other spellings of a URL to the same object; the
\* CDN keeps those apart, and no purge is ever sent for them.
Keys == Commits \cup {Latest}

Result == [by : Writers, commit : Commits]

ASSUME ResultServingAssumption ==
    /\ Posts \cap Exports = {}
    /\ Garbled \subseteq [by : Posts, commit : Commits]
    /\ MaxCommit \in Nat \ {0}
    /\ MaxFaults \in Nat
    /\ Latest \notin Int
    /\ {None, NotFound} \cap Result = {}
    /\ None # NotFound

VARIABLES
    head,           \* HEAD of the default branch
    bucket,         \* per bucket and key: the object
    cdn,            \* per key: the answer the CDN holds
    pc,             \* per writer: its next step
    payload,        \* per writer: the result it is writing
    fill,           \* per request of the CDN: key, step and answer so far
    missed,         \* history: keys with a purge that failed or met a fill
    faults          \* failures so far

vars == <<head, bucket, cdn, pc, payload, fill, missed, faults>>

BucketOf(w) == IF w \in Posts THEN "action" ELSE "cron"

Init ==
    /\ head = 1
    /\ bucket = [b \in {"action", "cron"} |-> [k \in Keys |-> None]]
    /\ cdn = [k \in Keys |-> None]
    /\ pc = [w \in Writers |-> "new"]
    /\ payload = [w \in Writers |-> None]
    /\ fill = [r \in Fills |-> [at |-> "idle", key |-> Latest, answer |-> None]]
    /\ missed = {}
    /\ faults = 0

Fault ==
    /\ faults < MaxFaults
    /\ faults' = faults + 1

Push ==
    /\ head < MaxCommit
    /\ head' = head + 1
    /\ UNCHANGED <<bucket, cdn, pc, payload, fill, missed, faults>>

(***************************************************************************)
(* The writers.                                                            *)
(***************************************************************************)
\* The certificate, its repository and branch, and the workflow at its
\* commit are verified before anything is written.
Verify(p) ==
    /\ pc[p] = "new"
    /\ \E c \in 1 .. head : payload' = [payload EXCEPT ![p] = [by |-> p, commit |-> c]]
    /\ pc' = [pc EXCEPT ![p] = "writeLatest"]
    /\ UNCHANGED <<head, bucket, cdn, fill, missed, faults>>

Reject(p) ==
    /\ pc[p] = "new"
    /\ pc' = [pc EXCEPT ![p] = "rejected"]
    /\ UNCHANGED <<head, bucket, cdn, payload, fill, missed, faults>>

\* Mutated: a retried export goes on where the first one is known to fail.
ScanResuming(e) ==
    /\ pc[e] \in {"new", "retry"}
    /\ payload' = [payload EXCEPT ![e] = [by |-> e, commit |-> head]]
    /\ pc' = [pc EXCEPT ![e] = IF @ = "new" THEN "writeLatest" ELSE "writeCommit"]
    /\ UNCHANGED <<head, bucket, cdn, fill, missed, faults>>

\* A retried shard scans the repository again and exports all of it again.
Scan(e) ==
    /\ pc[e] \in {"new", "retry"}
    /\ payload' = [payload EXCEPT ![e] = [by |-> e, commit |-> head]]
    /\ pc' = [pc EXCEPT ![e] = "writeLatest"]
    /\ UNCHANGED <<head, bucket, cdn, fill, missed, faults>>

\* The repository is out of reach or bars the scanner, or the shard has its
\* result by now: the job leaves what is exported of the repository as it is.
Leave(e) ==
    /\ pc[e] \in {"new", "retry"}
    /\ pc' = [pc EXCEPT ![e] = "left"]
    /\ UNCHANGED <<head, bucket, cdn, payload, fill, missed, faults>>

\* The key a writer writes or purges next.
KeyOf(w) == IF pc[w] \in {"writeLatest", "purgeLatest"} THEN Latest ELSE payload[w].commit

Written(w) == [bucket EXCEPT ![BucketOf(w)][KeyOf(w)] = payload[w]]

Write(w) ==
    /\ pc[w] \in {"writeLatest", "writeCommit"}
    /\ bucket' = Written(w)
    /\ pc' = [pc EXCEPT ![w] = IF @ = "writeLatest" THEN "purgeLatest" ELSE "purgeCommit"]
    /\ UNCHANGED <<head, cdn, payload, fill, missed, faults>>

\* An error ends a post; the shard of an export is nacked and retried.
GiveUp(w) == [pc EXCEPT ![w] = IF w \in Posts THEN "failed" ELSE "retry"]

\* The write is reported as failed, whether it reached the bucket or not.
WriteFails(w) ==
    /\ pc[w] \in {"writeLatest", "writeCommit"}
    /\ Fault
    /\ \/ UNCHANGED <<bucket, missed>>
       \/ bucket' = Written(w) /\ missed' = missed \cup {KeyOf(w)}
    /\ pc' = GiveUp(w)
    /\ UNCHANGED <<head, cdn, payload, fill>>

\* After a purge, successful or not, the writer goes on.
AfterPurge(w) == [pc EXCEPT ![w] = IF @ = "purgeLatest" THEN "writeCommit" ELSE "done"]

\* Some request of the CDN for key k is on its way through the API.
Filling(k) == \E r \in Fills : fill[r].at # "idle" /\ fill[r].key = k

\* Mutated: the path of the latest result is purged both times.
PurgeSamePath(w) ==
    /\ pc[w] \in {"purgeLatest", "purgeCommit"}
    /\ cdn' = [cdn EXCEPT ![Latest] = None]
    /\ missed' = IF Filling(KeyOf(w)) THEN missed \cup {KeyOf(w)} ELSE missed \ {KeyOf(w)}
    /\ pc' = AfterPurge(w)
    /\ UNCHANGED <<head, bucket, payload, fill, faults>>

Purge(w) ==
    /\ pc[w] \in {"purgeLatest", "purgeCommit"}
    /\ cdn' = [cdn EXCEPT ![KeyOf(w)] = None]
    /\ missed' = IF Filling(KeyOf(w)) THEN missed \cup {KeyOf(w)} ELSE missed \ {KeyOf(w)}
    /\ pc' = AfterPurge(w)
    /\ UNCHANGED <<head, bucket, payload, fill, faults>>

\* A failed purge is logged and otherwise ignored.
PurgeFails(w) ==
    /\ pc[w] \in {"purgeLatest", "purgeCommit"}
    /\ Fault
    /\ missed' = missed \cup {KeyOf(w)}
    /\ pc' = AfterPurge(w)
    /\ UNCHANGED <<head, bucket, cdn, payload, fill>>

\* The process dies between a write and its purge.
Die(w) ==
    /\ pc[w] \in {"purgeLatest", "purgeCommit"}
    /\ Fault
    /\ missed' = missed \cup {KeyOf(w)}
    /\ pc' = GiveUp(w)
    /\ UNCHANGED <<head, bucket, cdn, payload, fill>>

(***************************************************************************)
(* The GET handler behind the CDN.                                         *)
(***************************************************************************)
\* A request the CDN cannot answer reaches the API.
Miss(r, k) ==
    /\ fill[r].at = "idle"
    /\ cdn[k] = None
    /\ fill' = [fill EXCEPT ![r] = [at |-> "action", key |-> k, answer |-> None]]
    /\ UNCHANGED <<head, bucket, cdn, pc, payload, missed, faults>>

\* Mutated: a result missing from both buckets is answered as an empty one.
ReadStepEmpty(f, o) ==
    IF o # None THEN [f EXCEPT !.at = "answer", !.answer = o]
    ELSE IF f.at = "action" THEN [f EXCEPT !.at = "cron"]
    ELSE [f EXCEPT !.at = "answer"]

\* getResults reads object o of the bucket it is at: the cron bucket is
\* tried after any error, and an error there is a 404.
ReadStep(f, o) ==
    IF o # None THEN [f EXCEPT !.at = "answer", !.answer = o]
    ELSE IF f.at = "action" THEN [f EXCEPT !.at = "cron"]
    ELSE [f EXCEPT !.at = "answer", !.answer = NotFound]

Read(r) ==
    /\ fill[r].at \in {"action", "cron"}
    /\ fill' = [fill EXCEPT ![r] = ReadStep(@, bucket[@.at][@.key])]
    /\ UNCHANGED <<head, bucket, cdn, pc, payload, missed, faults>>

\* The read fails although the object may exist.
ReadFails(r) ==
    /\ fill[r].at \in {"action", "cron"}
    /\ Fault
    /\ fill' = [fill EXCEPT ![r] = ReadStep(@, None)]
    /\ missed' = missed \cup {fill[r].key}
    /\ UNCHANGED <<head, bucket, cdn, pc, payload>>

\* The response reaches the CDN, which keeps it; an object the handler
\* cannot decode is a 500, which carries no TTL.
Store(r) ==
    /\ fill[r].at = "answer"
    /\ cdn' = IF fill[r].answer \in Garbled THEN cdn
              ELSE [cdn EXCEPT ![fill[r].key] = fill[r].answer]
    /\ fill' = [fill EXCEPT ![r] = [at |-> "idle", key |-> Latest, answer |-> None]]
    /\ UNCHANGED <<head, bucket, pc, payload, missed, faults>>

\* The CDN drops an answer on its own.
Evict(k) ==
    /\ cdn[k] # None
    /\ cdn' = [cdn EXCEPT ![k] = None]
    /\ UNCHANGED <<head, bucket, pc, payload, fill, missed, faults>>

----------------------------------------------------------------------------
Writer(w) == Write(w) \/ WriteFails(w) \/ Purge(w) \/ PurgeFails(w) \/ Die(w)

Get(r) == (\E k \in Keys : Miss(r, k)) \/ Read(r) \/ ReadFails(r) \/ Store(r)

Next ==
    \/ Push
    \/ \E p \in Posts : Verify(p) \/ Reject(p)
    \/ \E e \in Exports : Scan(e) \/ Leave(e)
    \/ \E w \in Writers : Writer(w)
    \/ \E r \in Fills : Get(r)
    \/ \E k \in Keys : Evict(k)

Spec == Init /\ [][Next]_vars

----------------------------------------------------------------------------
(***************************************************************************)
(* Properties.                                                             *)
(***************************************************************************)
\* Types of the variables; a request past its reads has an answer.
TypeOK ==
    /\ head \in Commits
    /\ bucket \in [{"action", "cron"} -> [Keys -> Result \cup {None}]]
    /\ cdn \in [Keys -> Result \cup {None, NotFound}]
    /\ pc \in [Writers -> {"new", "rejected", "writeLatest", "purgeLatest", "writeCommit",
                           "purgeCommit", "done", "failed", "retry", "left"}]
    /\ payload \in [Writers -> Result \cup {None}]
    /\ fill \in [Fills -> [at : {"idle", "action", "cron", "answer"}, key : Keys,
                           answer : Result \cup {None, NotFound}]]
    /\ \A r \in Fills : fill[r].at = "answer" => fill[r].answer # None
    /\ missed \subseteq Keys
    /\ faults \in 0 .. MaxFaults

\* What the API would answer for key k if it read both buckets now.
Answer(k) ==
    IF bucket["action"][k] # None THEN bucket["action"][k]
    ELSE IF bucket["cron"][k] # None THEN bucket["cron"][k]
    ELSE NotFound

\* A writer has written key k and will purge it.
Due(k) == \E w \in Writers : pc[w] \in {"purgeLatest", "purgeCommit"} /\ KeyOf(w) = k

\* The CDN holds what the buckets hold, for every key whose writers have
\* done their purges, unless a purge of that key was lost or met a request
\* on its way, or a bucket read failed: under the URL that is purged there is
\* no other way to serve an overwritten result, a cron result under a published
\* one, or a 404 for a result that exists.
CdnIsCurrent ==
    \A k \in Keys : ~Due(k) /\ k \notin missed => cdn[k] \in {None, Answer(k)}

\* A latest object without its pinned twin has a writer that is about to write
\* it, or one that did not come to it after a failure: a post that failed, an
\* export to be retried, or one whose retry passed the repository over.  No
\* writer ends well without it, not even exports that died, were retried at
\* another HEAD or were overtaken by another job.
SettledLatestIsPinned ==
    \A b \in {"action", "cron"} :
        LET latest == bucket[b][Latest]
        IN  latest # None /\ bucket[b][latest.commit] = None =>
                \/ pc[latest.by] \in {"purgeLatest", "writeCommit"}
                \/ pc[latest.by] \in {"failed", "retry", "writeLatest", "left"} /\ faults > 0

\* "1 year, invalidated if updated by the weekly scan or scorecard action"
\* (api/app/server/get_results.go:37): once a write and its purge are over,
\* the CDN does not hold an older answer.
UpdatesInvalidate == \A k \in Keys : ~Due(k) => cdn[k] \in {None, Answer(k)}
=============================================================================
