------------------------ MODULE ResultServingProofs ------------------------
(***************************************************************************)
(* The safety invariants of ResultServing, for any number of publishing    *)
(* requests, batch jobs, CDN requests, commits and failures.               *)
(***************************************************************************)
EXTENDS ResultServing, TLAPS

(***************************************************************************)
(* The inductive invariant.                                                *)
(***************************************************************************)
\* A writer past its verification or scan has a result of its own.
WritersHavePayload ==
    \A w \in Writers :
        pc[w] \in {"writeLatest", "purgeLatest", "writeCommit", "purgeCommit"} =>
            payload[w] \in Result /\ payload[w].by = w

\* What a request of the CDN has learned so far is what the buckets hold,
\* unless a purge of its key is still to come or was missed.
FillsAreCurrent ==
    \A r \in Fills :
        LET f == fill[r]
        IN  ~Due(f.key) /\ f.key \notin missed =>
                /\ f.at = "cron" => bucket["action"][f.key] = None
                /\ f.at = "answer" => f.answer = Answer(f.key)

\* The latest object is what its writer has just written, until the writer has
\* written the pinned one too.
LatestIsAccountedFor ==
    \A b \in {"action", "cron"} :
        LET latest == bucket[b][Latest]
        IN  latest # None =>
                /\ BucketOf(latest.by) = b
                /\ pc[latest.by] \in {"purgeLatest", "writeCommit"} => latest = payload[latest.by]
                /\ pc[latest.by] \in {"purgeCommit", "done"} => bucket[b][latest.commit] # None

\* Steps at which a writer that has written the latest object can only be after
\* a failure.
AfterFailure == {"failed", "retry", "writeLatest", "left"}

\* The writer of the latest object has started, and is at one of those steps
\* only if there was a failure.
LatestHasReason ==
    \A b \in {"action", "cron"} :
        LET latest == bucket[b][Latest]
        IN  latest # None =>
                /\ pc[latest.by] \notin {"new", "rejected"}
                /\ pc[latest.by] \in AfterFailure => faults > 0

IInv ==
    /\ TypeOK
    /\ WritersHavePayload
    /\ FillsAreCurrent
    /\ CdnIsCurrent
    /\ LatestIsAccountedFor
    /\ LatestHasReason

\* The invariant holds with empty buckets and an empty CDN.
LEMMA InitIInv == Init => IInv
<1> SUFFICES ASSUME Init PROVE IInv
  OBVIOUS
<1> USE ResultServingAssumption DEF Init
<1>1. TypeOK
  BY DEF TypeOK, Commits, Keys
<1>2. /\ WritersHavePayload /\ FillsAreCurrent /\ CdnIsCurrent
      /\ LatestIsAccountedFor /\ LatestHasReason
  BY DEF WritersHavePayload, FillsAreCurrent, CdnIsCurrent, LatestIsAccountedFor, LatestHasReason,
     Keys
<1> QED
  BY <1>1, <1>2 DEF IInv

(***************************************************************************)
(* Keys, and what a step does to them.                                     *)
(***************************************************************************)
Writing == {"writeLatest", "writeCommit"}
Purging == {"purgeLatest", "purgeCommit"}

\* Commits are numbers, and the key of the latest result is not.
LEMMA LatestIsNoCommit == Latest \notin Commits
BY ResultServingAssumption DEF Commits

\* The key a writer is at is one of the repository's.
LEMMA KeyOfType ==
    ASSUME IInv, NEW w \in Writers, pc[w] \in Writing \cup Purging
    PROVE  /\ payload[w] \in Result /\ payload[w].by = w /\ payload[w].commit \in Commits
           /\ payload[w] # None
           /\ KeyOf(w) \in Keys
           /\ pc[w] \in {"writeLatest", "purgeLatest"} => KeyOf(w) = Latest
           /\ pc[w] \in {"writeCommit", "purgeCommit"} => KeyOf(w) = payload[w].commit
<1>1. payload[w] \in Result /\ payload[w].by = w
  BY DEF IInv, WritersHavePayload, Writing, Purging
<1>2. payload[w].commit \in Commits /\ payload[w] # None
  BY <1>1, ResultServingAssumption DEF Result
<1> QED
  BY <1>1, <1>2 DEF KeyOf, Keys, Writing, Purging

\* A write changes one object.
LEMMA WrittenObject ==
    ASSUME IInv, NEW w \in Writers, pc[w] \in Writing, bucket' = Written(w)
    PROVE  /\ bucket' \in [{"action", "cron"} -> [Keys -> Result \cup {None}]]
           /\ \A b \in {"action", "cron"}, k \in Keys :
                  bucket'[b][k] = IF b = BucketOf(w) /\ k = KeyOf(w) THEN payload[w] ELSE bucket[b][k]
<1>1. payload[w] \in Result /\ KeyOf(w) \in Keys /\ BucketOf(w) \in {"action", "cron"}
  BY KeyOfType DEF BucketOf
<1> QED
  BY <1>1 DEF IInv, TypeOK, Written

\* The step leaves key k as current as it was.
KeptCurrent(k) ==
    /\ \A b \in {"action", "cron"} : bucket'[b][k] = bucket[b][k]
    /\ cdn'[k] \in {cdn[k], None}
    /\ Due(k) => Due(k)'
    /\ k \in missed => k \in missed'

\* A step that is not a CDN request's keeps the CDN current if each key is
\* kept, or has a purge to come, or a missed one, or was purged with no request
\* on its way.
LEMMA CurrencyIsKept ==
    ASSUME IInv, UNCHANGED fill,
           \A k \in Keys : \/ KeptCurrent(k)
                           \/ Due(k)'
                           \/ k \in missed'
                           \/ cdn'[k] = None /\ ~Filling(k)
    PROVE  FillsAreCurrent' /\ CdnIsCurrent'
<1>1. \A k \in Keys : KeptCurrent(k) => Answer(k)' = Answer(k)
  BY DEF KeptCurrent, Answer
<1>2. FillsAreCurrent'
  <2> SUFFICES ASSUME NEW r \in Fills, ~Due(fill[r].key)', fill[r].key \notin missed'
               PROVE  /\ fill[r].at = "cron" => bucket'["action"][fill[r].key] = None
                      /\ fill[r].at = "answer" => fill[r].answer = Answer(fill[r].key)'
    BY DEF FillsAreCurrent
  <2>1. fill[r].key \in Keys
    BY DEF IInv, TypeOK
  <2>2. CASE KeptCurrent(fill[r].key)
    <3>1. ~Due(fill[r].key) /\ fill[r].key \notin missed
      BY <2>1, <2>2 DEF KeptCurrent
    <3>2. Answer(fill[r].key)' = Answer(fill[r].key)
      BY <1>1, <2>1, <2>2
    <3> QED
      BY <2>1, <2>2, <3>1, <3>2 DEF KeptCurrent, IInv, FillsAreCurrent
  <2>3. CASE ~Filling(fill[r].key)
    BY <2>3 DEF Filling
  <2> QED
    BY <2>1, <2>2, <2>3
<1>3. CdnIsCurrent'
  <2> SUFFICES ASSUME NEW k \in Keys, ~Due(k)', k \notin missed'
               PROVE  cdn'[k] \in {None, Answer(k)'}
    BY DEF CdnIsCurrent
  <2>1. CASE KeptCurrent(k)
    BY <1>1, <2>1 DEF KeptCurrent, IInv, CdnIsCurrent
  <2> QED
    BY <2>1
<1> QED
  BY <1>2, <1>3

(***************************************************************************)
(* The steps.                                                              *)
(***************************************************************************)
\* Pushes and the CDN's own evictions.
LEMMA WorldKeepsIInv ==
    ASSUME IInv, Push \/ \E k \in Keys : Evict(k)
    PROVE  IInv'
<1>1. UNCHANGED <<bucket, pc, payload, fill, missed, faults>>
  BY DEF Push, Evict
<1>2. TypeOK'
  BY ResultServingAssumption DEF IInv, TypeOK, Push, Evict, Commits
<1>3. \A k \in Keys : KeptCurrent(k)
  BY <1>1 DEF Push, Evict, KeptCurrent, Due, KeyOf, IInv, TypeOK
<1>4. FillsAreCurrent' /\ CdnIsCurrent'
  BY <1>1, <1>3, CurrencyIsKept
<1>5. WritersHavePayload' /\ LatestIsAccountedFor' /\ LatestHasReason'
  BY <1>1 DEF IInv, WritersHavePayload, LatestIsAccountedFor, LatestHasReason
<1> QED
  BY <1>2, <1>4, <1>5 DEF IInv

\* A writer that is not between a write and its purge owes no purge, and
\* changes nobody else's.
LEMMA OthersStayDue ==
    ASSUME IInv, NEW w \in Writers, NEW k \in Keys,
           \A v \in Writers \ {w} : pc'[v] = pc[v] /\ payload'[v] = payload[v],
           pc[w] \in Purging => KeyOf(w) # k,
           Due(k)
    PROVE  Due(k)'
BY DEF Due, KeyOf, Purging

\* A post is verified or rejected; a job scans the repository or leaves it.
LEMMA PayloadKeepsIInv ==
    ASSUME IInv, NEW w \in Writers,
           \/ w \in Posts /\ (Verify(w) \/ Reject(w))
           \/ w \in Exports /\ (Scan(w) \/ Leave(w))
    PROVE  IInv'
<1>1. /\ UNCHANGED <<head, bucket, cdn, fill, missed, faults>>
      /\ pc[w] \in {"new", "retry"}
  BY DEF Verify, Reject, Scan, Leave
<1>2. /\ pc' \in [Writers -> {"new", "rejected", "writeLatest", "purgeLatest", "writeCommit",
                              "purgeCommit", "done", "failed", "retry", "left"}]
      /\ pc'[w] \in {"writeLatest", "rejected", "left"}
      /\ pc'[w] = "rejected" => pc[w] = "new"
      /\ \A v \in Writers \ {w} : pc'[v] = pc[v]
  <2>1. CASE w \in Posts /\ (Verify(w) \/ Reject(w))
    BY <2>1 DEF Verify, Reject, IInv, TypeOK
  <2>2. CASE w \in Exports /\ (Scan(w) \/ Leave(w))
    BY <2>2 DEF Scan, Leave, IInv, TypeOK
  <2> QED
    BY <2>1, <2>2
<1>3. /\ payload' \in [Writers -> Result \cup {None}]
      /\ pc'[w] = "writeLatest" => payload'[w] \in Result /\ payload'[w].by = w
      /\ \A v \in Writers \ {w} : payload'[v] = payload[v]
  <2>1. CASE Reject(w) \/ Leave(w)
    BY <2>1, <1>1 DEF Reject, Leave, IInv, TypeOK
  <2>2. CASE Verify(w) \/ Scan(w)
    <3>1. PICK c \in Commits : payload' = [payload EXCEPT ![w] = [by |-> w, commit |-> c]]
      BY <2>2, ResultServingAssumption DEF Verify, Scan, IInv, TypeOK, Commits
    <3>2. [by |-> w, commit |-> c] \in Result
      BY DEF Result
    <3> QED
      BY <3>1, <3>2 DEF IInv, TypeOK
  <2> QED
    BY <2>1, <2>2
<1>4. TypeOK'
  BY <1>1, <1>2, <1>3 DEF IInv, TypeOK
<1>5. \A k \in Keys : KeptCurrent(k)
  BY <1>1, <1>2, <1>3, OthersStayDue DEF KeptCurrent, Purging
<1>6. FillsAreCurrent' /\ CdnIsCurrent'
  BY <1>1, <1>5, CurrencyIsKept
<1>7. WritersHavePayload'
  BY <1>2, <1>3 DEF IInv, WritersHavePayload
<1>8. LatestIsAccountedFor'
  <2>1. \A b \in {"action", "cron"} : bucket[b][Latest] # None => bucket[b][Latest].by \in Writers
    BY DEF IInv, TypeOK, Keys, Result
  <2> QED
    BY <1>1, <1>2, <1>3, <2>1 DEF IInv, LatestIsAccountedFor
<1>9. LatestHasReason'
  <2> SUFFICES ASSUME NEW b \in {"action", "cron"}, bucket[b][Latest] # None
               PROVE  /\ pc'[bucket[b][Latest].by] \notin {"new", "rejected"}
                      /\ pc'[bucket[b][Latest].by] \in AfterFailure => faults > 0
    BY <1>1 DEF LatestHasReason
  <2> DEFINE v == bucket[b][Latest].by
  <2>1. v \in Writers
    BY DEF IInv, TypeOK, Keys, Result
  <2>2. pc[v] \notin {"new", "rejected"} /\ (pc[v] \in AfterFailure => faults > 0)
    BY DEF IInv, LatestHasReason
  <2> HIDE DEF v
  <2>3. CASE v = w
    BY <1>1, <1>2, <2>2, <2>3 DEF AfterFailure, v
  <2>4. CASE v # w
    BY <1>2, <2>1, <2>2, <2>4 DEF v
  <2> QED
    BY <2>3, <2>4
<1> QED
  BY <1>4, <1>6, <1>7, <1>8, <1>9 DEF IInv

\* A write that is reported, or reported as failed although it was applied.
LEMMA WriteKeepsIInv ==
    ASSUME IInv, NEW w \in Writers, pc[w] \in Writing, bucket' = Written(w),
           UNCHANGED <<head, cdn, payload, fill>>, faults' \in 0 .. MaxFaults,
           faults > 0 => faults' > 0,
           \/ /\ pc' = [pc EXCEPT ![w] = IF @ = "writeLatest" THEN "purgeLatest" ELSE "purgeCommit"]
              /\ missed' = missed
           \/ /\ pc' = GiveUp(w)
              /\ missed' = missed \cup {KeyOf(w)}
              /\ faults' > 0
    PROVE  IInv'
<1> USE LatestIsNoCommit
<1>1. /\ payload[w] \in Result /\ payload[w].by = w /\ payload[w].commit \in Commits
      /\ payload[w] # None
      /\ KeyOf(w) \in Keys
      /\ pc[w] = "writeLatest" => KeyOf(w) = Latest
      /\ pc[w] = "writeCommit" => KeyOf(w) = payload[w].commit
  BY KeyOfType DEF Writing, Purging
<1>2. /\ bucket' \in [{"action", "cron"} -> [Keys -> Result \cup {None}]]
      /\ \A b \in {"action", "cron"}, k \in Keys :
             bucket'[b][k] = IF b = BucketOf(w) /\ k = KeyOf(w) THEN payload[w] ELSE bucket[b][k]
  BY WrittenObject
<1>3. /\ pc' \in [Writers -> {"new", "rejected", "writeLatest", "purgeLatest", "writeCommit",
                              "purgeCommit", "done", "failed", "retry", "left"}]
      /\ \/ pc'[w] \in {"failed", "retry"} /\ missed' = missed \cup {KeyOf(w)} /\ faults' > 0
         \/ pc[w] = "writeLatest" /\ pc'[w] = "purgeLatest" /\ missed' = missed
         \/ pc[w] = "writeCommit" /\ pc'[w] = "purgeCommit" /\ missed' = missed
      /\ \A v \in Writers \ {w} : pc'[v] = pc[v]
  BY DEF IInv, TypeOK, GiveUp, Writing
<1>4. TypeOK'
  BY <1>1, <1>2, <1>3 DEF IInv, TypeOK
<1>5. WritersHavePayload'
  BY <1>1, <1>3 DEF IInv, WritersHavePayload
<1>6. FillsAreCurrent' /\ CdnIsCurrent'
  <2>1. \A k \in Keys : k = KeyOf(w) => Due(k)' \/ k \in missed'
    BY <1>1, <1>3 DEF Due, KeyOf
  <2>2. \A k \in Keys : k # KeyOf(w) => KeptCurrent(k)
    BY <1>2, <1>3, OthersStayDue DEF KeptCurrent, Writing, Purging
  <2> QED
    BY <2>1, <2>2, CurrencyIsKept
<1>7. LatestIsAccountedFor'
  <2> SUFFICES ASSUME NEW b \in {"action", "cron"}, bucket'[b][Latest] # None
               PROVE  LET latest == bucket'[b][Latest]
                      IN  /\ BucketOf(latest.by) = b
                          /\ pc'[latest.by] \in {"purgeLatest", "writeCommit"} =>
                                 latest = payload[latest.by]
                          /\ pc'[latest.by] \in {"purgeCommit", "done"} =>
                                 bucket'[b][latest.commit] # None
    BY DEF LatestIsAccountedFor, BucketOf
  <2>1. Latest \in Keys /\ \A c \in Commits : c \in Keys
    BY DEF Keys
  <2>2. CASE b = BucketOf(w) /\ KeyOf(w) = Latest
    <3>1. bucket'[b][Latest] = payload[w]
      BY <1>2, <2>1, <2>2
    <3>2. pc'[w] \in {"failed", "retry", "purgeLatest"}
      BY <1>1, <1>3, <2>2 DEF Writing
    <3> QED
      BY <1>1, <2>2, <3>1, <3>2
  <2>3. CASE ~(b = BucketOf(w) /\ KeyOf(w) = Latest)
    <3> DEFINE latest == bucket[b][Latest]
    <3>1. bucket'[b][Latest] = latest /\ latest # None
      BY <1>2, <2>1, <2>3
    <3>2. latest.by \in Writers /\ latest.commit \in Commits
      BY <2>1, <3>1 DEF IInv, TypeOK, Result
    <3>3. /\ BucketOf(latest.by) = b
          /\ pc[latest.by] \in {"purgeLatest", "writeCommit"} => latest = payload[latest.by]
          /\ pc[latest.by] \in {"purgeCommit", "done"} => bucket[b][latest.commit] # None
      BY <3>1 DEF IInv, LatestIsAccountedFor
    <3>4. bucket[b][latest.commit] # None => bucket'[b][latest.commit] # None
      BY <1>1, <1>2, <2>1, <3>2
    <3>5. CASE latest.by # w
      BY <1>3, <3>1, <3>2, <3>3, <3>4, <3>5
    <3>6. CASE latest.by = w
      <4>1. pc[w] = "writeCommit"
        BY <1>1, <2>3, <3>3, <3>6 DEF Writing
      <4>2. latest = payload[w]
        BY <3>3, <3>6, <4>1
      <4>3. bucket'[b][latest.commit] # None
        BY <1>1, <1>2, <2>1, <3>3, <3>6, <4>1, <4>2
      <4>4. pc'[w] \in {"failed", "retry", "purgeCommit"}
        BY <1>3, <4>1
      <4> QED
        BY <3>1, <3>3, <3>6, <4>3, <4>4
    <3> QED
      BY <3>5, <3>6
  <2> QED
    BY <2>2, <2>3
<1>8. LatestHasReason'
  <2> SUFFICES ASSUME NEW b \in {"action", "cron"}, bucket'[b][Latest] # None
               PROVE  /\ pc'[bucket'[b][Latest].by] \notin {"new", "rejected"}
                      /\ pc'[bucket'[b][Latest].by] \in AfterFailure => faults' > 0
    BY DEF LatestHasReason
  <2>1. Latest \in Keys
    BY DEF Keys
  <2>2. pc'[w] \notin {"new", "rejected"} /\ (pc'[w] \in AfterFailure => faults' > 0)
    BY <1>3 DEF AfterFailure
  <2>3. CASE b = BucketOf(w) /\ KeyOf(w) = Latest
    <3>1. bucket'[b][Latest] = payload[w]
      BY <1>2, <2>1, <2>3
    <3> QED
      BY <1>1, <2>2, <3>1
  <2>4. CASE ~(b = BucketOf(w) /\ KeyOf(w) = Latest)
    <3> DEFINE v == bucket[b][Latest].by
    <3>1. bucket'[b][Latest] = bucket[b][Latest] /\ bucket[b][Latest] # None
      BY <1>2, <2>1, <2>4
    <3>2. v \in Writers
      BY <2>1, <3>1 DEF IInv, TypeOK, Result
    <3>3. pc[v] \notin {"new", "rejected"} /\ (pc[v] \in AfterFailure => faults > 0)
      BY <3>1 DEF IInv, LatestHasReason
    <3>4. v # w => pc'[v] = pc[v]
      BY <1>3, <3>2
    <3> QED
      BY <2>2, <3>1, <3>3, <3>4
  <2> QED
    BY <2>3, <2>4
<1> QED
  BY <1>4, <1>5, <1>6, <1>7, <1>8 DEF IInv

\* A purge, a failed or a missing one: the writer goes on or gives up.
LEMMA PurgeKeepsIInv ==
    ASSUME IInv, NEW w \in Writers, Purge(w) \/ PurgeFails(w) \/ Die(w)
    PROVE  IInv'
<1>1. /\ UNCHANGED <<head, bucket, payload, fill>>
      /\ pc[w] \in Purging
      /\ faults' \in 0 .. MaxFaults
      /\ faults > 0 => faults' > 0
      /\ Die(w) => faults' > 0
  BY ResultServingAssumption DEF Purge, PurgeFails, Die, Fault, Purging, IInv, TypeOK
<1>2. /\ KeyOf(w) \in Keys /\ payload[w] \in Result /\ payload[w].by = w
      /\ pc[w] = "purgeLatest" => KeyOf(w) = Latest
  BY <1>1, KeyOfType DEF Purging
<1>3. /\ pc' \in [Writers -> {"new", "rejected", "writeLatest", "purgeLatest", "writeCommit",
                              "purgeCommit", "done", "failed", "retry", "left"}]
      /\ \/ pc'[w] \in {"failed", "retry"} /\ Die(w)
         \/ pc[w] = "purgeLatest" /\ pc'[w] = "writeCommit"
         \/ pc[w] = "purgeCommit" /\ pc'[w] = "done"
      /\ \A v \in Writers \ {w} : pc'[v] = pc[v]
  BY DEF Purge, PurgeFails, Die, AfterPurge, GiveUp, IInv, TypeOK
<1>4. /\ cdn' \in [Keys -> Result \cup {None, NotFound}]
      /\ \A k \in Keys : k # KeyOf(w) => cdn'[k] = cdn[k] /\ (k \in missed => k \in missed')
      /\ missed' \subseteq Keys
      /\ \/ KeyOf(w) \in missed'
         \/ cdn'[KeyOf(w)] = None /\ ~Filling(KeyOf(w))
  BY <1>2 DEF Purge, PurgeFails, Die, IInv, TypeOK
<1>5. TypeOK'
  BY <1>1, <1>3, <1>4 DEF IInv, TypeOK
<1>6. WritersHavePayload'
  BY <1>1, <1>2, <1>3 DEF IInv, WritersHavePayload
<1>7. FillsAreCurrent' /\ CdnIsCurrent'
  <2>1. \A k \in Keys : k # KeyOf(w) => KeptCurrent(k)
    BY <1>1, <1>3, <1>4, OthersStayDue DEF KeptCurrent
  <2> QED
    BY <1>1, <1>4, <2>1, CurrencyIsKept
<1>8. LatestIsAccountedFor'
  <2>1. \A b \in {"action", "cron"} : bucket[b][Latest] # None => bucket[b][Latest].by \in Writers
    BY DEF IInv, TypeOK, Keys, Result
  <2> QED
    BY <1>1, <1>3, <2>1 DEF IInv, LatestIsAccountedFor, BucketOf
<1>9. LatestHasReason'
  <2>1. \A b \in {"action", "cron"} : bucket[b][Latest] # None => bucket[b][Latest].by \in Writers
    BY DEF IInv, TypeOK, Keys, Result
  <2>2. pc'[w] \notin {"new", "rejected"} /\ (pc'[w] \in AfterFailure => faults' > 0)
    BY <1>1, <1>3 DEF AfterFailure
  <2> QED
    BY <1>1, <1>3, <2>1, <2>2 DEF IInv, LatestHasReason
<1> QED
  BY <1>5, <1>6, <1>7, <1>8, <1>9 DEF IInv

\* Every step of a writer.
LEMMA WriterKeepsIInv ==
    ASSUME IInv, NEW w \in Writers, Writer(w)
    PROVE  IInv'
<1>1. CASE Write(w)
  BY <1>1, WriteKeepsIInv DEF Write, Writing, IInv, TypeOK
<1>2. CASE WriteFails(w)
  <2>1. faults' \in 0 .. MaxFaults /\ faults' > 0
    BY <1>2, ResultServingAssumption DEF WriteFails, Fault, IInv, TypeOK
  <2>2. CASE bucket' = Written(w) /\ missed' = missed \cup {KeyOf(w)}
    BY <1>2, <2>1, <2>2, WriteKeepsIInv DEF WriteFails, Writing
  <2>3. CASE UNCHANGED <<bucket, missed>>
    <3>1. /\ UNCHANGED <<head, bucket, cdn, payload, fill, missed>>
          /\ pc' \in [Writers -> {"new", "rejected", "writeLatest", "purgeLatest", "writeCommit",
                                  "purgeCommit", "done", "failed", "retry", "left"}]
          /\ pc[w] \in Writing /\ pc'[w] \in {"failed", "retry"}
          /\ \A v \in Writers \ {w} : pc'[v] = pc[v]
      BY <1>2, <2>3 DEF WriteFails, GiveUp, Writing, IInv, TypeOK
    <3>2. TypeOK'
      BY <2>1, <3>1 DEF IInv, TypeOK
    <3>3. \A k \in Keys : KeptCurrent(k)
      BY <3>1, OthersStayDue DEF KeptCurrent, Writing, Purging
    <3>4. FillsAreCurrent' /\ CdnIsCurrent'
      BY <3>1, <3>3, CurrencyIsKept
    <3>5. \A b \in {"action", "cron"} : bucket[b][Latest] # None => bucket[b][Latest].by \in Writers
      BY DEF IInv, TypeOK, Keys, Result
    <3>6. WritersHavePayload' /\ LatestIsAccountedFor'
      BY <3>1, <3>5 DEF IInv, WritersHavePayload, LatestIsAccountedFor, BucketOf
    <3>7. LatestHasReason'
      BY <2>1, <3>1, <3>5 DEF IInv, LatestHasReason
    <3> QED
      BY <3>2, <3>4, <3>6, <3>7 DEF IInv
  <2> QED
    BY <1>2, <2>2, <2>3 DEF WriteFails
<1>3. CASE Purge(w) \/ PurgeFails(w) \/ Die(w)
  BY <1>3, PurgeKeepsIInv
<1> QED
  BY <1>1, <1>2, <1>3 DEF Writer

\* What a request of the CDN knows after its next read is what the buckets
\* hold, if what it knew before was.
LEMMA ReadIsCurrent ==
    ASSUME IInv, NEW r \in Fills, fill[r].at \in {"action", "cron"},
           ~Due(fill[r].key), fill[r].key \notin missed,
           NEW f, f = ReadStep(fill[r], bucket[fill[r].at][fill[r].key])
    PROVE  /\ f.key = fill[r].key
           /\ f.at = "cron" => bucket["action"][f.key] = None
           /\ f.at = "answer" => f.answer = Answer(f.key)
<1>1. fill[r] \in [at : {"idle", "action", "cron", "answer"}, key : Keys,
                   answer : Result \cup {None, NotFound}]
  BY DEF IInv, TypeOK
<1>2. fill[r].at = "cron" => bucket["action"][fill[r].key] = None
  BY DEF IInv, FillsAreCurrent
<1>3. CASE fill[r].at = "action"
  BY <1>1, <1>3 DEF ReadStep, Answer
<1>4. CASE fill[r].at = "cron"
  BY <1>1, <1>2, <1>4 DEF ReadStep, Answer
<1> QED
  BY <1>3, <1>4

\* A read step keeps the request's type, and ends in an answer or goes on.
LEMMA ReadStepType ==
    ASSUME IInv, NEW r \in Fills, NEW o \in Result \cup {None}, fill[r].at \in {"action", "cron"}
    PROVE  /\ ReadStep(fill[r], o) \in [at : {"idle", "action", "cron", "answer"}, key : Keys,
                                        answer : Result \cup {None, NotFound}]
           /\ ReadStep(fill[r], o).at = "answer" => ReadStep(fill[r], o).answer # None
           /\ ReadStep(fill[r], o).key = fill[r].key
<1>1. fill[r] \in [at : {"idle", "action", "cron", "answer"}, key : Keys,
                   answer : Result \cup {None, NotFound}]
  BY DEF IInv, TypeOK
<1> QED
  BY <1>1, ResultServingAssumption DEF ReadStep

\* Every step of a CDN request.
LEMMA GetKeepsIInv ==
    ASSUME IInv, NEW r \in Fills, Get(r)
    PROVE  IInv'
<1> DEFINE Fill == [at : {"idle", "action", "cron", "answer"}, key : Keys,
                    answer : Result \cup {None, NotFound}]
<1>1. UNCHANGED <<head, bucket, pc, payload>> /\ fill \in [Fills -> Fill]
  BY DEF Get, Miss, Read, ReadFails, Store, IInv, TypeOK
<1>2. \A k \in Keys : (Due(k)' <=> Due(k)) /\ Answer(k)' = Answer(k)
  BY <1>1 DEF Due, KeyOf, Answer
<1>3. WritersHavePayload' /\ LatestIsAccountedFor' /\ LatestHasReason'
  <2>1. faults > 0 => faults' > 0
    BY DEF Get, Miss, Read, ReadFails, Store, Fault, IInv, TypeOK
  <2> QED
    BY <1>1, <2>1 DEF IInv, WritersHavePayload, LatestIsAccountedFor, LatestHasReason
<1>4. ASSUME NEW f \in Fill, fill' = [fill EXCEPT ![r] = f],
             f.at = "answer" => f.answer # None,
             UNCHANGED cdn, faults' \in 0 .. MaxFaults,
             missed \subseteq missed', missed' \subseteq Keys,
             ~Due(f.key) /\ f.key \notin missed' =>
                 /\ f.at = "cron" => bucket["action"][f.key] = None
                 /\ f.at = "answer" => f.answer = Answer(f.key)
      PROVE  IInv'
  <2>1. \A x \in Fills : fill'[x] = IF x = r THEN f ELSE fill[x]
    BY <1>1, <1>4
  <2>2. TypeOK'
    <3>1. fill' \in [Fills -> Fill]
      BY <1>1, <1>4
    <3>2. \A x \in Fills : fill'[x].at = "answer" => fill'[x].answer # None
      BY <1>4, <2>1 DEF IInv, TypeOK
    <3> QED
      BY <1>1, <1>4, <3>1, <3>2 DEF IInv, TypeOK
  <2>3. CdnIsCurrent'
    BY <1>2, <1>4 DEF IInv, CdnIsCurrent
  <2>4. FillsAreCurrent'
    <3> SUFFICES ASSUME NEW x \in Fills, ~Due(fill[x].key)', fill'[x].key \notin missed'
                 PROVE  /\ fill'[x].at = "cron" => bucket["action"][fill'[x].key] = None
                        /\ fill'[x].at = "answer" => fill'[x].answer = Answer(fill[x].key)'
      BY <1>1 DEF FillsAreCurrent
    <3> DEFINE k == fill'[x].key
    <3>1. k \in Keys
      BY <1>1, <1>4, <2>1
    <3>2. ~Due(k) /\ Answer(fill[x].key)' = Answer(k)
      BY <1>1, <3>1 DEF Due, KeyOf, Answer
    <3>3. CASE x = r
      BY <1>4, <2>1, <3>2, <3>3
    <3>4. CASE x # r
      BY <1>4, <2>1, <3>2, <3>4 DEF IInv, FillsAreCurrent
    <3> QED
      BY <3>3, <3>4
  <2> QED
    BY <1>3, <2>2, <2>3, <2>4 DEF IInv
<1>5. ASSUME NEW k \in Keys, Miss(r, k) PROVE IInv'
  <2>1. [at |-> "action", key |-> k, answer |-> None] \in Fill
    OBVIOUS
  <2> QED
    BY <1>4, <1>5, <2>1 DEF Miss, IInv, TypeOK
<1>6. CASE Read(r)
  <2> DEFINE o == bucket[fill[r].at][fill[r].key]
             f == ReadStep(fill[r], o)
  <2>1. fill[r].at \in {"action", "cron"} /\ fill[r].key \in Keys
    BY <1>1, <1>6 DEF Read
  <2>2. o \in Result \cup {None}
    BY <2>1 DEF IInv, TypeOK
  <2>3. f \in Fill /\ (f.at = "answer" => f.answer # None) /\ f.key = fill[r].key
    BY <2>1, <2>2, ReadStepType
  <2>4. ~Due(f.key) /\ f.key \notin missed =>
            /\ f.at = "cron" => bucket["action"][f.key] = None
            /\ f.at = "answer" => f.answer = Answer(f.key)
    BY <2>1, <2>3, ReadIsCurrent
  <2>5. fill' = [fill EXCEPT ![r] = f] /\ UNCHANGED <<cdn, missed, faults>>
    BY <1>6 DEF Read
  <2> HIDE DEF f
  <2> QED
    BY <1>4, <2>3, <2>4, <2>5 DEF IInv, TypeOK
<1>7. CASE ReadFails(r)
  <2> DEFINE f == ReadStep(fill[r], None)
  <2>1. fill[r].at \in {"action", "cron"} /\ fill[r].key \in Keys
    BY <1>1, <1>7 DEF ReadFails
  <2>2. f \in Fill /\ (f.at = "answer" => f.answer # None) /\ f.key = fill[r].key
    BY <2>1, ReadStepType
  <2>3. /\ fill' = [fill EXCEPT ![r] = f] /\ UNCHANGED cdn
        /\ missed' = missed \cup {fill[r].key}
    BY <1>7 DEF ReadFails
  <2>4. faults' \in 0 .. MaxFaults
    BY <1>7, ResultServingAssumption DEF ReadFails, Fault, IInv, TypeOK
  <2> HIDE DEF f
  <2> QED
    BY <1>4, <2>1, <2>2, <2>3, <2>4 DEF IInv, TypeOK
<1>8. CASE Store(r)
  <2> DEFINE f == [at |-> "idle", key |-> Latest, answer |-> None]
  <2>1. fill' = [fill EXCEPT ![r] = f] /\ f \in Fill
    BY <1>8 DEF Store, Keys
  <2>2. \A x \in Fills : fill'[x] = IF x = r THEN f ELSE fill[x]
    BY <1>1, <2>1
  <2>3. fill[r].key \in Keys /\ fill[r].answer \in Result \cup {None, NotFound}
    BY <1>1
  <2>4. /\ cdn' \in [Keys -> Result \cup {None, NotFound}]
        /\ \A k \in Keys : cdn'[k] = cdn[k] \/ (k = fill[r].key /\ cdn'[k] = fill[r].answer)
    BY <1>8, <2>3 DEF Store, IInv, TypeOK
  <2>5. UNCHANGED <<missed, faults>>
    BY <1>8 DEF Store
  <2>6. TypeOK'
    <3>1. fill' \in [Fills -> Fill]
      BY <1>1, <2>1
    <3>2. \A x \in Fills : fill'[x].at = "answer" => fill'[x].answer # None
      BY <2>2 DEF IInv, TypeOK
    <3> QED
      BY <1>1, <2>4, <2>5, <3>1, <3>2 DEF IInv, TypeOK
  <2>7. CdnIsCurrent'
    <3> SUFFICES ASSUME NEW k \in Keys, ~Due(k)', k \notin missed'
                 PROVE  cdn'[k] \in {None, Answer(k)'}
      BY DEF CdnIsCurrent
    <3>1. ~Due(k) /\ k \notin missed /\ Answer(k)' = Answer(k)
      BY <1>2, <2>5
    <3>2. CASE cdn'[k] = cdn[k]
      BY <3>1, <3>2 DEF IInv, CdnIsCurrent
    <3>3. CASE k = fill[r].key /\ cdn'[k] = fill[r].answer
      <4>1. fill[r].answer = Answer(k)
        BY <1>8, <3>1, <3>3 DEF IInv, FillsAreCurrent, Store
      <4> QED
        BY <3>1, <3>3, <4>1
    <3> QED
      BY <2>4, <3>2, <3>3
  <2>8. FillsAreCurrent'
    <3> SUFFICES ASSUME NEW x \in Fills, ~Due(fill[x].key)', fill'[x].key \notin missed'
                 PROVE  /\ fill'[x].at = "cron" => bucket["action"][fill'[x].key] = None
                        /\ fill'[x].at = "answer" => fill'[x].answer = Answer(fill[x].key)'
      BY <1>1 DEF FillsAreCurrent
    <3>1. CASE x = r
      BY <2>2, <3>1
    <3>2. CASE x # r
      <4>1. fill'[x] = fill[x]
        BY <2>2, <3>2
      <4>2. ~Due(fill[x].key) /\ Answer(fill[x].key)' = Answer(fill[x].key)
        BY <1>1, <4>1 DEF Due, KeyOf, Answer
      <4> QED
        BY <2>5, <4>1, <4>2 DEF IInv, FillsAreCurrent
    <3> QED
      BY <3>1, <3>2
  <2> QED
    BY <1>3, <2>6, <2>7, <2>8 DEF IInv
<1> QED
  BY <1>5, <1>6, <1>7, <1>8 DEF Get

\* Every step keeps the invariant.
LEMMA NextIInv == IInv /\ [Next]_vars => IInv'
<1> SUFFICES ASSUME IInv, [Next]_vars PROVE IInv'
  OBVIOUS
<1>1. CASE Push \/ \E k \in Keys : Evict(k)
  BY <1>1, WorldKeepsIInv
<1>2. CASE \/ \E p \in Posts : Verify(p) \/ Reject(p)
           \/ \E e \in Exports : Scan(e) \/ Leave(e)
  BY <1>2, PayloadKeepsIInv DEF Writers
<1>3. CASE \E w \in Writers : Writer(w)
  BY <1>3, WriterKeepsIInv
<1>4. CASE \E r \in Fills : Get(r)
  BY <1>4, GetKeepsIInv
<1>5. CASE UNCHANGED vars
  BY <1>5 DEF vars, IInv, TypeOK, WritersHavePayload, FillsAreCurrent, CdnIsCurrent,
     LatestIsAccountedFor, LatestHasReason, Due, KeyOf, Answer
<1> QED
  BY <1>1, <1>2, <1>3, <1>4, <1>5 DEF Next

(***************************************************************************)
(* The theorems.                                                           *)
(***************************************************************************)
\* The inductive invariant is an invariant.
THEOREM InvariantHolds == Spec => []IInv
BY InitIInv, NextIInv, PTL DEF Spec

\* Buckets, CDN, writers and requests keep their types.
THEOREM TypesHold == Spec => []TypeOK
<1>1. IInv => TypeOK
  BY DEF IInv
<1> QED
  BY <1>1, InvariantHolds, PTL

\* The CDN holds what the buckets hold for every key without an outstanding
\* or missed purge, for any number of posts, exports and requests.
THEOREM CdnIsCurrentHolds == Spec => []CdnIsCurrent
<1>1. IInv => CdnIsCurrent
  BY DEF IInv
<1> QED
  BY <1>1, InvariantHolds, PTL

\* A latest object without its pinned twin has a writer about to write it, or
\* one that did not come to it after a failure, for any number of posts, exports
\* and failures.
THEOREM SettledLatestIsPinnedHolds == Spec => []SettledLatestIsPinned
<1>1. IInv => SettledLatestIsPinned
  <2> SUFFICES ASSUME IInv, NEW b \in {"action", "cron"}, bucket[b][Latest] # None,
                      bucket[b][bucket[b][Latest].commit] = None
               PROVE  LET v == bucket[b][Latest].by
                      IN  \/ pc[v] \in {"purgeLatest", "writeCommit"}
                          \/ pc[v] \in AfterFailure /\ faults > 0
    BY DEF SettledLatestIsPinned, AfterFailure
  <2>1. bucket[b][Latest].by \in Writers
    BY DEF IInv, TypeOK, Keys, Result
  <2> QED
    BY <2>1 DEF IInv, TypeOK, LatestIsAccountedFor, LatestHasReason, AfterFailure
<1> QED
  BY <1>1, InvariantHolds, PTL
============================================================================
