----------------------- MODULE WorkflowVerifierProofs -----------------------
(***************************************************************************)
(* The invariants of WorkflowVerifier, for every set of repositories and   *)
(* workflows and every lookback.                                           *)
(***************************************************************************)
EXTENDS WorkflowVerifier, FiniteSetTheorems, SequenceTheorems, WellFoundedInduction, TLAPS

(***************************************************************************)
(* The inductive invariant.                                                *)
(***************************************************************************)
Lookup == {"tags", "default", "releases", "branch"}

\* A commit is in the cache only if a step that pins it in lower case would be
\* accepted by the calls themselves.
CacheBelongs ==
    \A c \in cachedCommits : Belongs(world[c[1]], [uses |-> c[1], pin |-> c[2], lower |-> TRUE])

\* Step s is fit for an accepted job, by what the API knows.
Fit(w, s) == Allowed(s) /\ (Pinned(s) => Belongs(w[s.uses], s))

\* Once a job is found the workflow is clean; once its steps are looked at the
\* job is plain and the steps already passed are fit.
JobProgress ==
    /\ pc \in Lookup \cup {"job", "step", "accepted"} =>
        /\ GloballyClean
        /\ job \in DOMAIN Jobs
        /\ CallsScorecard(Jobs[job])
    /\ pc \in Lookup \cup {"step", "accepted"} =>
        /\ JobIsPlain
        /\ \A i \in DOMAIN Steps : i < step => Fit(world, Steps[i])
    /\ pc \in {"workflow", "job"} => step = 1
    /\ pc \in {"workflow", "job", "step", "tags", "default", "releases"} => analyzed = 0

\* While a commit is looked up, every source asked so far has refused it.
LookupProgress ==
    /\ pc \in Lookup => step \in DOMAIN Steps /\ Allowed(Step) /\ Pinned(Step)
    /\ pc \in {"default", "releases", "branch"} => ~(Step.lower /\ Step.pin \in Repo.tags)
    /\ pc \in {"releases", "branch"} => ~BranchContains(Repo.default)
    /\ pc = "branch" =>
        ~(Step.lower /\ Step.uses # CodeQL /\ Step.pin \in TargetCommits(Repo.releases))

\* While release branches are compared, the first k of the list are behind:
\* the rest is still to come, the k hold as many branches other than the
\* default as were counted, and none of those has the commit.
BranchProgress ==
    pc = "branch" =>
        \E k \in 0 .. Len(Listed(Repo, Step)) :
            /\ Len(branches) = Len(Listed(Repo, Step)) - k
            /\ \A i \in 1 .. Len(branches) : branches[i] = Listed(Repo, Step)[k + i]
            /\ analyzed = Cardinality(OtherThanDefault(Repo, Step, k))
            /\ \A i \in OtherThanDefault(Repo, Step, k) : ~BranchContains(Listed(Repo, Step)[i])

IInv ==
    /\ TypeOK
    /\ CacheBelongs
    /\ JobProgress
    /\ LookupProgress
    /\ BranchProgress
    /\ VerdictIsRight

(***************************************************************************)
(* Counting positions.                                                     *)
(***************************************************************************)

\* A nonempty set of natural numbers has a least element.
LEMMA LeastNatural ==
    ASSUME NEW T, T \subseteq Nat, T # {}
    PROVE  \E m \in T : \A k \in T : m <= k
<1>1. \E R : IsWellFoundedOn(R, Nat) /\ \A x, y \in Nat : x < y => <<x, y>> \in R
  <2>1. \A x, y \in Nat : x < y => <<x, y>> \in OpToRel(<, Nat)
    BY DEF OpToRel
  <2> QED
    BY <2>1, NatLessThanWellFounded
<1>2. PICK R : IsWellFoundedOn(R, Nat) /\ \A x, y \in Nat : x < y => <<x, y>> \in R
  BY <1>1
<1>3. PICK x \in T : \A y \in T : ~ (<<y, x>> \in R)
  <2>1. IsWellFoundedOn(R, Nat)
    BY <1>2
  <2> QED
    BY <2>1, WFMin, Zenon
<1>4. \A k \in T : ~ (k < x)
  BY <1>2, <1>3
<1> QED
  BY <1>4

\* A set of positions is finite.
LEMMA PositionsAreFinite ==
    ASSUME NEW n \in Nat, NEW S \in SUBSET (1 .. n)
    PROVE  IsFiniteSet(S) /\ Cardinality(S) \in Nat
<1>1. IsFiniteSet(1 .. n)
  BY FS_Interval
<1>2. IsFiniteSet(S)
  BY <1>1, FS_Subset
<1> QED
  BY <1>2, FS_CardinalityType

\* The elements of a set of positions have the ranks one, two and so on up to
\* their number.
LEMMA RanksAreAllTaken ==
    ASSUME NEW L \in Nat, NEW kept \in SUBSET (1 .. L), NEW n \in 1 .. Cardinality(kept)
    PROVE  \E i \in kept : Cardinality({j \in kept : j <= i}) = n
<1> DEFINE Upto(i) == {j \in kept : j <= i}
           Rank(i) == Cardinality(Upto(i))
           T == {i \in Nat : Rank(i) >= n}
<1>1. \A j \in kept : j \in Int /\ 1 <= j /\ j <= L
  OBVIOUS
<1>2. ASSUME NEW i \in Nat
      PROVE  IsFiniteSet(Upto(i)) /\ Rank(i) \in Nat
  <2>1. Upto(i) \in SUBSET (1 .. L)
    OBVIOUS
  <2> QED
    BY <2>1, PositionsAreFinite, Zenon
<1>3. n \in Nat /\ n >= 1 /\ n <= Cardinality(kept) /\ Cardinality(kept) \in Nat
  <2>1. Cardinality(kept) \in Nat
    BY PositionsAreFinite, Zenon
  <2> QED
    BY <2>1
<1>4. Rank(L) = Cardinality(kept)
  <2>1. Upto(L) = kept
    BY <1>1, Zenon
  <2> QED
    BY <2>1
<1>5. Rank(0) = 0
  <2>1. \A j \in kept : ~ (j <= 0)
    BY <1>1
  <2>2. Upto(0) = {}
    BY <2>1, Zenon
  <2> QED
    BY <2>2, FS_EmptySet
<1>6. ASSUME NEW i \in Nat, i + 1 \notin kept
      PROVE  Rank(i + 1) = Rank(i)
  <2>1. ASSUME NEW j \in kept
        PROVE  j <= i + 1 <=> j <= i
    <3>1. j \in Int /\ j # i + 1
      BY <1>1, <1>6
    <3> QED
      BY <3>1
  <2>2. Upto(i + 1) = Upto(i)
    BY <2>1, Zenon
  <2> QED
    BY <2>2
<1>7. ASSUME NEW i \in Nat, i + 1 \in kept
      PROVE  Rank(i + 1) = Rank(i) + 1
  <2>1. \A j \in kept : j <= i + 1 <=> j <= i \/ j = i + 1
    BY <1>1
  <2>2. ~ (i + 1 <= i)
    OBVIOUS
  <2>3. Upto(i + 1) = Upto(i) \cup {i + 1} /\ i + 1 \notin Upto(i)
    BY <1>7, <2>1, <2>2, Zenon
  <2> HIDE DEF Upto
  <2> QED
    BY <1>2, <2>3, FS_AddElement
<1> HIDE DEF Rank
<1>8. PICK m \in T : \A k \in T : m <= k
  <2>1. L \in T /\ T \subseteq Nat
    BY <1>3, <1>4
  <2> HIDE DEF T
  <2> QED
    BY <2>1, LeastNatural
<1>9. m \in Nat /\ Rank(m) >= n /\ m # 0
  BY <1>3, <1>5, <1>8
<1>10. PICK i \in Nat : m = i + 1
  <2>1. m - 1 \in Nat /\ m = (m - 1) + 1
    BY <1>9
  <2> QED
    BY <2>1
<1>11. Rank(i) < n
  <2>1. i \notin T
    BY <1>8, <1>10
  <2> QED
    BY <1>2, <1>3, <2>1 DEF Rank
<1>12. Rank(i) \in Nat /\ Rank(i + 1) \in Nat
  <2>1. i + 1 \in Nat
    OBVIOUS
  <2> QED
    BY <1>2, <2>1 DEF Rank
<1>13. m \in kept /\ Rank(m) = n
  <2>1. CASE m \in kept
    BY <1>3, <1>7, <1>9, <1>10, <1>11, <1>12, <2>1
  <2>2. CASE m \notin kept
    BY <1>3, <1>6, <1>9, <1>10, <1>11, <1>12, <2>2
  <2> QED
    BY <2>1, <2>2
<1> QED
  BY <1>13 DEF Rank

(***************************************************************************)
(* The lists of branches.                                                  *)
(***************************************************************************)

\* The branches kept of the releases' targets are branches.
LEMMA TargetBranchesType ==
    ASSUME NEW targets \in Seq(Branches \cup Hashes)
    PROVE  TargetBranches(targets) \in Seq(Branches)
<1> DEFINE kept == {i \in DOMAIN targets :
                        targets[i] \in Branches /\ \A j \in 1 .. i - 1 : targets[j] # targets[i]}
           At(n) == CHOOSE i \in kept : Cardinality({j \in kept : j <= i}) = n
           N == Cardinality(kept)
<1>1. TargetBranches(targets) = [n \in 1 .. N |-> targets[At(n)]]
  BY DEF TargetBranches
<1>2. Len(targets) \in Nat /\ kept \in SUBSET (1 .. Len(targets))
  OBVIOUS
<1>3. N \in Nat
  BY <1>2, PositionsAreFinite, Zenon
<1>4. ASSUME NEW n \in 1 .. N
      PROVE  targets[At(n)] \in Branches
  <2>1. \E i \in kept : Cardinality({j \in kept : j <= i}) = n
    BY <1>2, RanksAreAllTaken, Zenon
  <2>2. At(n) \in kept
    BY <2>1, Zenon
  <2> QED
    BY <2>2
<1>5. [n \in 1 .. N |-> targets[At(n)]] \in [1 .. N -> Branches]
  BY <1>4
<1> HIDE DEF N, At
<1> QED
  BY <1>1, <1>3, <1>5, SeqDef

\* So are the numbered release branches of codeql-action.
LEMMA CodeQLBranchesType ==
    ASSUME NEW major \in -1 .. Len(CodeQLBranch)
    PROVE  CodeQLBranches(major) \in Seq(Branches)
<1>1. CodeQLBranch \in Seq(Branches)
  BY WorkflowVerifierAssumption
<1>2. PICK n \in Nat : 1 .. major = 1 .. n /\ (major >= 0 => n = major) /\ (major < 0 => n = 0)
  <2>1. Len(CodeQLBranch) \in Nat
    BY <1>1
  <2>2. CASE major >= 0
    BY <2>1, <2>2
  <2>3. CASE major < 0
    <3>1. 1 .. major = 1 .. 0
      BY <2>1, <2>3
    <3> QED
      BY <2>1, <2>3, <3>1
  <2> QED
    BY <2>1, <2>2, <2>3
<1>3. \A i \in 1 .. major : CodeQLBranch[major - i + 1] \in Branches
  BY <1>1
<1>4. CodeQLBranches(major) \in [1 .. n -> Branches]
  BY <1>2, <1>3 DEF CodeQLBranches
<1> QED
  BY <1>2, <1>4, SeqDef

\* The release branches listed for a repository are branches.
LEMMA ListedType ==
    ASSUME NEW r \in Repository, NEW s
    PROVE  Listed(r, s) \in Seq(Branches) /\ Len(Listed(r, s)) \in Nat
<1>1. r.releases \in Seq(Branches \cup Hashes) /\ r.major \in -1 .. Len(CodeQLBranch)
  BY DEF Repository
<1>2. Listed(r, s) \in Seq(Branches)
  BY <1>1, TargetBranchesType, CodeQLBranchesType DEF Listed
<1> QED
  BY <1>2

\* One more position is counted unless it holds the default branch.
LEMMA OtherThanDefaultNext ==
    ASSUME NEW r, NEW s, NEW k \in Nat
    PROVE  /\ IsFiniteSet(OtherThanDefault(r, s, k))
           /\ Cardinality(OtherThanDefault(r, s, k)) \in Nat
           /\ Listed(r, s)[k + 1] = r.default =>
                  OtherThanDefault(r, s, k + 1) = OtherThanDefault(r, s, k)
           /\ Listed(r, s)[k + 1] # r.default =>
                  /\ OtherThanDefault(r, s, k + 1) = OtherThanDefault(r, s, k) \cup {k + 1}
                  /\ Cardinality(OtherThanDefault(r, s, k + 1))
                       = Cardinality(OtherThanDefault(r, s, k)) + 1
<1>1. IsFiniteSet(OtherThanDefault(r, s, k)) /\ Cardinality(OtherThanDefault(r, s, k)) \in Nat
  <2>1. OtherThanDefault(r, s, k) \in SUBSET (1 .. k)
    BY DEF OtherThanDefault
  <2> QED
    BY <2>1, PositionsAreFinite, Zenon
<1>2. 1 .. k + 1 = (1 .. k) \cup {k + 1} /\ k + 1 \notin 1 .. k
  OBVIOUS
<1>3. ASSUME Listed(r, s)[k + 1] = r.default
      PROVE  OtherThanDefault(r, s, k + 1) = OtherThanDefault(r, s, k)
  BY <1>2, <1>3, Zenon DEF OtherThanDefault
<1>4. ASSUME Listed(r, s)[k + 1] # r.default
      PROVE  /\ OtherThanDefault(r, s, k + 1) = OtherThanDefault(r, s, k) \cup {k + 1}
             /\ k + 1 \notin OtherThanDefault(r, s, k)
  BY <1>2, <1>4, Zenon DEF OtherThanDefault
<1> QED
  BY <1>1, <1>3, <1>4, FS_AddElement

\* More positions are never fewer branches.
LEMMA OtherThanDefaultMonotone ==
    ASSUME NEW r, NEW s, NEW k \in Nat, NEW n \in Nat, k <= n
    PROVE  Cardinality(OtherThanDefault(r, s, k)) <= Cardinality(OtherThanDefault(r, s, n))
<1>1. IsFiniteSet(OtherThanDefault(r, s, n))
  BY OtherThanDefaultNext
<1>2. \A i \in 1 .. k : i \in 1 .. n
  OBVIOUS
<1>3. OtherThanDefault(r, s, k) \subseteq OtherThanDefault(r, s, n)
  BY <1>2, Zenon DEF OtherThanDefault
<1> QED
  BY <1>1, <1>3, FS_Subset

(***************************************************************************)
(* What a commit belonging to a repository depends on.                     *)
(***************************************************************************)

\* A commit found for one spelling of a pin belongs for the lower-case one.
LEMMA BelongsInLowerCase ==
    ASSUME NEW r, NEW s, NEW t, s.uses = t.uses, s.pin = t.pin, t.lower = TRUE, Belongs(r, s)
    PROVE  Belongs(r, t)
<1>1. Listed(r, t) = Listed(r, s)
  BY DEF Listed
<1>2. \A n : OtherThanDefault(r, t, n) = OtherThanDefault(r, s, n)
  BY <1>1, Zenon DEF OtherThanDefault
<1>3. ASSUME NEW b \in Comparable(r, s)
      PROVE  b \in Comparable(r, t)
  <2>1. PICK i \in OtherThanDefault(r, s, Len(Listed(r, s))) :
            /\ Cardinality(OtherThanDefault(r, s, i - 1)) < lookback
            /\ b = Listed(r, s)[i]
    BY DEF Comparable
  <2>2. /\ i \in OtherThanDefault(r, t, Len(Listed(r, t)))
        /\ Cardinality(OtherThanDefault(r, t, i - 1)) < lookback
        /\ b = Listed(r, t)[i]
    BY <1>1, <1>2, <2>1
  <2> QED
    BY <2>2 DEF Comparable
<1> QED
  BY <1>3 DEF Belongs

\* The branches compared are branches.
LEMMA ComparableType ==
    ASSUME NEW r \in Repository, NEW s
    PROVE  Comparable(r, s) \cup {r.default} \subseteq Branches
<1>1. r.default \in Branches
  BY DEF Repository
<1>2. Listed(r, s) \in Seq(Branches) /\ Len(Listed(r, s)) \in Nat
  BY ListedType
<1>3. \A i \in 1 .. Len(Listed(r, s)) : Listed(r, s)[i] \in Branches
  BY <1>2
<1>4. ASSUME NEW b \in Comparable(r, s)
      PROVE  b \in Branches
  <2>1. PICK i \in OtherThanDefault(r, s, Len(Listed(r, s))) : b = Listed(r, s)[i]
    BY DEF Comparable
  <2>2. i \in 1 .. Len(Listed(r, s))
    BY DEF OtherThanDefault
  <2> QED
    BY <1>3, <2>1, <2>2
<1> QED
  BY <1>1, <1>4

\* The record of a cached commit, as a step that pins it.
LEMMA CacheIsSoundInIInv ==
    ASSUME TypeOK, CacheBelongs
    PROVE  CacheIsSound
<1> SUFFICES ASSUME NEW c \in cachedCommits
             PROVE  c[2] \in Known(c[1])
  BY DEF CacheIsSound
<1> DEFINE r == world[c[1]]
           s == [uses |-> c[1], pin |-> c[2], lower |-> TRUE]
<1>1. r \in Repository
  BY DEF TypeOK
<1>2. Belongs(r, s) /\ s.pin = c[2]
  BY DEF CacheBelongs
<1>3. Comparable(r, s) \cup {r.default} \subseteq Branches
  BY <1>1, ComparableType
<1> HIDE DEF s
<1>4. s.pin \in r.tags \cup TargetCommits(r.releases) \cup UNION {r.on[b] : b \in Branches}
  BY <1>2, <1>3 DEF Belongs
<1> QED
  BY <1>2, <1>4 DEF Known

(***************************************************************************)
(* What the actions leave alone.                                           *)
(***************************************************************************)

\* The workflow and the job found have the shape of a workflow.
LEMMA WorkflowShape ==
    ASSUME TypeOK
    PROVE  /\ Jobs \in Seq(WorkflowJob) /\ Len(Jobs) \in Nat /\ DOMAIN Jobs = 1 .. Len(Jobs)
           /\ job \in DOMAIN Jobs =>
                  /\ job # 0
                  /\ Steps \in Seq(WorkflowStep)
                  /\ Len(Steps) \in Nat
                  /\ DOMAIN Steps = 1 .. Len(Steps)
<1>1. Jobs \in Seq(WorkflowJob) /\ Len(Jobs) \in Nat /\ DOMAIN Jobs = 1 .. Len(Jobs)
  BY DEF TypeOK, Workflow, Jobs
<1>2. ASSUME job \in DOMAIN Jobs
      PROVE  Jobs[job] \in WorkflowJob /\ job # 0
  BY <1>1, <1>2
<1>3. ASSUME job \in DOMAIN Jobs
      PROVE  Steps \in Seq(WorkflowStep)
  BY <1>2, <1>3 DEF WorkflowJob, Steps
<1> QED
  BY <1>1, <1>2, <1>3

\* The lookup of the scope finds a job that may write id tokens unless it has
\* write-all.
LEMMA SamePermissions ==
    ASSUME TypeOK, NEW j \in DOMAIN Jobs
    PROVE  Jobs[j].permissions # "idTokenWrite" <=>
               ~MayWriteIdTokens(Jobs[j]) \/ Jobs[j].permissions = "writeAll"
BY DEF MayWriteIdTokens

\* While a commit is looked up, there is a step that pins one.
LEMMA LookupShape ==
    ASSUME IInv, pc \in Lookup
    PROVE  /\ job \in DOMAIN Jobs /\ job # 0
           /\ step \in DOMAIN Steps /\ Len(Steps) \in Nat /\ DOMAIN Steps = 1 .. Len(Steps)
           /\ Step \in WorkflowStep /\ Step.uses \in Actions /\ Step.pin \in Hashes
           /\ Repo \in Repository /\ Repo = world[Step.uses]
<1>1. job \in DOMAIN Jobs /\ step \in DOMAIN Steps /\ Pinned(Step)
  BY DEF IInv, JobProgress, LookupProgress
<1>2. /\ job # 0 /\ Steps \in Seq(WorkflowStep)
      /\ Len(Steps) \in Nat /\ DOMAIN Steps = 1 .. Len(Steps)
  BY <1>1, WorkflowShape DEF IInv
<1>3. Step \in WorkflowStep
  BY <1>1, <1>2 DEF Step
<1>4. Step.uses \in Actions /\ Step.pin \in Hashes
  BY <1>1 DEF Pinned
<1>5. Repo \in Repository
  BY <1>4 DEF IInv, TypeOK, Repo
<1> QED
  BY <1>1, <1>2, <1>3, <1>4, <1>5 DEF Repo

\* The verdict on a job depends on the repositories, the workflow and the job.
LEMMA SameVerdict ==
    ASSUME UNCHANGED <<world, workflow, job>>
    PROVE  /\ Jobs' = Jobs /\ Steps' = Steps
           /\ GloballyClean' = GloballyClean
           /\ JobIsPlain' = JobIsPlain
           /\ Admissible(job)' = Admissible(job)
<1>1. Jobs' = Jobs /\ Steps' = Steps
  BY DEF Jobs, Steps
<1>2. GloballyClean' = GloballyClean /\ JobIsPlain' = JobIsPlain
  BY DEF Jobs, GloballyClean, JobIsPlain
<1>3. Admissible(job)' = Admissible(job)
  BY DEF Admissible, GloballyClean, MayWriteIdTokens, Jobs
<1> QED
  BY <1>1, <1>2, <1>3

(***************************************************************************)
(* The workflow and the job.                                               *)
(***************************************************************************)

\* Nothing is judged, cached or compared yet.
LEMMA InitIInv == Init => IInv
<1> SUFFICES ASSUME Init
             PROVE  IInv
  OBVIOUS
<1>1. TypeOK
  <2>1. world \in [Actions -> Repository] /\ workflow \in Workflow
    BY WorkflowVerifierAssumption DEF Init
  <2>2. Len(Jobs) \in Nat
    BY <2>1 DEF Workflow, Jobs
  <2>3. branches \in Seq(Branches)
    BY DEF Init
  <2> QED
    BY <2>1, <2>2, <2>3, WorkflowVerifierAssumption DEF Init, TypeOK
<1>2. CacheBelongs
  BY DEF Init, CacheBelongs
<1>3. JobProgress /\ LookupProgress /\ BranchProgress
  BY DEF Init, JobProgress, LookupProgress, BranchProgress, Lookup
<1>4. VerdictIsRight
  BY DEF Init, VerdictIsRight
<1> QED
  BY <1>1, <1>2, <1>3, <1>4 DEF IInv

\* A verdict changes nothing but pc: what is left to show is that it is right.
LEMMA VerdictStep ==
    ASSUME IInv, NEW v \in {"rejected", "error"}, Verdict(v), VerdictIsRight'
    PROVE  IInv'
<1>1. /\ pc' = v
      /\ UNCHANGED <<world, workflow, job, step, cachedCommits, branches, analyzed, faults>>
  BY DEF Verdict
<1>2. TypeOK'
  BY <1>1 DEF IInv, TypeOK, Final, Jobs
<1>3. CacheBelongs'
  BY <1>1 DEF IInv, CacheBelongs
<1>4. JobProgress' /\ LookupProgress' /\ BranchProgress'
  BY <1>1 DEF JobProgress, LookupProgress, BranchProgress, Lookup
<1> QED
  BY <1>2, <1>3, <1>4 DEF IInv

\* Whichever scorecard job is found, the workflow is clean.
LEMMA FindJobStep ==
    ASSUME IInv, FindJob
    PROVE  IInv'
<1>1. /\ pc = "workflow" /\ pc' = "job" /\ GloballyClean
      /\ job' \in DOMAIN Jobs /\ CallsScorecard(Jobs[job'])
      /\ UNCHANGED <<world, workflow, step, cachedCommits, branches, analyzed, faults>>
  BY DEF FindJob
<1>2. Jobs' = Jobs /\ GloballyClean' = GloballyClean
  BY <1>1 DEF Jobs, GloballyClean
<1>3. TypeOK'
  <2>1. job' \in 0 .. Len(Jobs)
    BY <1>1, WorkflowShape DEF IInv
  <2> QED
    BY <1>1, <1>2, <2>1 DEF IInv, TypeOK
<1>4. CacheBelongs'
  BY <1>1 DEF IInv, CacheBelongs
<1>5. JobProgress'
  BY <1>1, <1>2 DEF IInv, JobProgress, Lookup
<1>6. LookupProgress' /\ BranchProgress' /\ VerdictIsRight'
  BY <1>1 DEF LookupProgress, BranchProgress, VerdictIsRight, Lookup
<1> QED
  BY <1>3, <1>4, <1>5, <1>6 DEF IInv

\* A workflow is refused when it is not clean or has no scorecard job.
LEMMA RejectWorkflowStep ==
    ASSUME IInv, RejectWorkflow
    PROVE  IInv'
<1>1. /\ ~GloballyClean \/ \A j \in DOMAIN Jobs : ~CallsScorecard(Jobs[j])
      /\ Verdict("rejected")
      /\ pc' = "rejected"
      /\ UNCHANGED <<world, workflow, job>>
  BY DEF RejectWorkflow, Verdict
<1>2. Jobs' = Jobs /\ GloballyClean' = GloballyClean
  BY <1>1, SameVerdict
<1>3. VerdictIsRight'
  BY <1>1, <1>2 DEF VerdictIsRight
<1> QED
  BY <1>1, <1>3, VerdictStep

\* A refusal on account of the job found is right if the job is not admissible.
LEMMA RejectedJobStep ==
    ASSUME IInv, Verdict("rejected"), job # 0, ~Admissible(job)
    PROVE  IInv'
<1>1. pc' = "rejected" /\ UNCHANGED <<world, workflow, job>>
  BY DEF Verdict
<1>2. Admissible(job)' = Admissible(job)
  BY <1>1, SameVerdict
<1>3. VerdictIsRight'
  BY <1>1, <1>2 DEF VerdictIsRight
<1> QED
  BY <1>3, VerdictStep

\* The steps of the job are looked at only if the job is plain.
LEMMA CheckJobStep ==
    ASSUME IInv, CheckJob
    PROVE  IInv'
<1>1. pc = "job" /\ Verdict(IF JobIsPlain THEN "step" ELSE "rejected")
  BY DEF CheckJob
<1>2. GloballyClean /\ job \in DOMAIN Jobs /\ CallsScorecard(Jobs[job]) /\ analyzed = 0 /\ step = 1
  BY <1>1 DEF IInv, JobProgress
<1>3. CASE ~JobIsPlain
  <2>1. job # 0
    BY <1>2, WorkflowShape DEF IInv
  <2>2. ~Admissible(job)
    BY <1>3, SamePermissions DEF IInv, Admissible, JobIsPlain
  <2> QED
    BY <1>1, <1>3, <2>1, <2>2, RejectedJobStep
<1>4. CASE JobIsPlain
  <2>1. /\ pc' = "step"
        /\ UNCHANGED <<world, workflow, job, step, cachedCommits, branches, analyzed, faults>>
    BY <1>1, <1>4 DEF Verdict
  <2>2. Jobs' = Jobs /\ Steps' = Steps /\ GloballyClean' = GloballyClean /\ JobIsPlain' = JobIsPlain
    BY <2>1, SameVerdict
  <2>3. TypeOK'
    BY <2>1, <2>2 DEF IInv, TypeOK
  <2>4. CacheBelongs'
    BY <2>1 DEF IInv, CacheBelongs
  <2>5. JobProgress'
    <3>1. \A i \in DOMAIN Steps : ~ (i < step)
      BY <1>2, WorkflowShape DEF IInv
    <3> QED
      BY <1>2, <1>4, <2>1, <2>2, <3>1 DEF JobProgress, Lookup
  <2>6. LookupProgress' /\ BranchProgress' /\ VerdictIsRight'
    BY <2>1 DEF LookupProgress, BranchProgress, VerdictIsRight, Lookup
  <2> QED
    BY <2>3, <2>4, <2>5, <2>6 DEF IInv
<1> QED
  BY <1>3, <1>4

(***************************************************************************)
(* The steps of the job.                                                   *)
(***************************************************************************)

\* Going on with the next step after a fit one.
LEMMA PassedStep ==
    ASSUME IInv, pc \in Lookup \cup {"step"}, step \in DOMAIN Steps, Fit(world, Step), NextStep,
           UNCHANGED <<world, workflow, job, faults>>,
           cachedCommits' \subseteq Actions \X Hashes, CacheBelongs'
    PROVE  IInv'
<1>1. pc' = "step" /\ step' = step + 1 /\ branches' = <<>> /\ analyzed' = 0
  BY DEF NextStep
<1>2. /\ Jobs' = Jobs /\ Steps' = Steps
      /\ GloballyClean' = GloballyClean /\ JobIsPlain' = JobIsPlain
  BY SameVerdict
<1>3. TypeOK'
  <2>1. branches' \in Seq(Branches)
    BY <1>1
  <2> QED
    BY <1>1, <1>2, <2>1, WorkflowVerifierAssumption DEF IInv, TypeOK
<1>4. JobProgress'
  <2>1. /\ GloballyClean /\ job \in DOMAIN Jobs /\ CallsScorecard(Jobs[job]) /\ JobIsPlain
        /\ \A i \in DOMAIN Steps : i < step => Fit(world, Steps[i])
    BY DEF IInv, JobProgress
  <2>2. step \in Nat /\ \A i \in DOMAIN Steps : i \in Nat
    BY <2>1, WorkflowShape DEF IInv, TypeOK
  <2>3. ASSUME NEW i \in DOMAIN Steps, i < step'
        PROVE  Fit(world, Steps[i])
    <3>1. i < step \/ i = step
      BY <1>1, <2>2, <2>3
    <3> QED
      BY <2>1, <3>1 DEF Step
  <2> QED
    BY <1>1, <1>2, <2>1, <2>3 DEF JobProgress, Lookup
<1>5. LookupProgress' /\ BranchProgress' /\ VerdictIsRight'
  BY <1>1 DEF LookupProgress, BranchProgress, VerdictIsRight, Lookup
<1> QED
  BY <1>3, <1>4, <1>5 DEF IInv

\* A cached commit belongs to the repository of the step that pins it.
LEMMA CachedBelongs ==
    ASSUME IInv, NEW s \in WorkflowStep, Cached(s)
    PROVE  Belongs(world[s.uses], s)
<1> DEFINE t == [uses |-> s.uses, pin |-> s.pin, lower |-> TRUE]
<1>1. s.lower /\ <<s.uses, s.pin>> \in cachedCommits
  BY DEF Cached
<1>2. Belongs(world[s.uses], t)
  BY <1>1 DEF IInv, CacheBelongs
<1>3. t.uses = s.uses /\ t.pin = s.pin /\ s.lower = TRUE
  BY <1>1 DEF WorkflowStep
<1> HIDE DEF t
<1> QED
  BY <1>2, <1>3, BelongsInLowerCase

\* A step that pins a commit not in the cache is looked up, any other is fit.
LEMMA CheckStepStep ==
    ASSUME IInv, CheckStep
    PROVE  IInv'
<1>1. /\ pc = "step" /\ step <= Len(Steps) /\ Allowed(Step)
      /\ UNCHANGED <<world, workflow, job, cachedCommits, faults>>
  BY DEF CheckStep
<1>2. /\ GloballyClean /\ job \in DOMAIN Jobs /\ CallsScorecard(Jobs[job]) /\ JobIsPlain
      /\ analyzed = 0
      /\ \A i \in DOMAIN Steps : i < step => Fit(world, Steps[i])
  BY <1>1 DEF IInv, JobProgress
<1>3. Steps \in Seq(WorkflowStep) /\ Len(Steps) \in Nat /\ DOMAIN Steps = 1 .. Len(Steps)
  BY <1>2, WorkflowShape DEF IInv
<1>4. step \in DOMAIN Steps
  BY <1>1, <1>3 DEF IInv, TypeOK
<1>5. Step \in WorkflowStep
  BY <1>3, <1>4 DEF Step
<1>6. /\ Jobs' = Jobs /\ Steps' = Steps
      /\ GloballyClean' = GloballyClean /\ JobIsPlain' = JobIsPlain
  BY <1>1, SameVerdict
<1>7. CacheBelongs'
  BY <1>1 DEF IInv, CacheBelongs
<1>8. CASE Pinned(Step) /\ ~Cached(Step)
  <2>1. pc' = "tags" /\ UNCHANGED <<step, branches, analyzed>>
    BY <1>8 DEF CheckStep
  <2>2. TypeOK'
    BY <1>1, <1>6, <2>1 DEF IInv, TypeOK
  <2>3. JobProgress'
    BY <1>1, <1>2, <1>6, <2>1 DEF JobProgress, Lookup
  <2>4. LookupProgress'
    BY <1>1, <1>4, <1>6, <1>8, <2>1 DEF LookupProgress, Lookup, Step
  <2>5. BranchProgress' /\ VerdictIsRight'
    BY <2>1 DEF BranchProgress, VerdictIsRight
  <2> QED
    BY <1>7, <2>2, <2>3, <2>4, <2>5 DEF IInv
<1>9. CASE ~ (Pinned(Step) /\ ~Cached(Step))
  <2>1. NextStep
    BY <1>9 DEF CheckStep
  <2>2. Fit(world, Step)
    BY <1>1, <1>5, <1>9, CachedBelongs DEF Fit
  <2>3. cachedCommits' \subseteq Actions \X Hashes
    BY <1>1 DEF IInv, TypeOK
  <2> QED
    BY <1>1, <1>4, <1>7, <2>1, <2>2, <2>3, PassedStep
<1> QED
  BY <1>8, <1>9

\* A step the job may not have makes the job inadmissible.
LEMMA RejectStepStep ==
    ASSUME IInv, RejectStep
    PROVE  IInv'
<1>1. pc = "step" /\ step <= Len(Steps) /\ ~Allowed(Step) /\ Verdict("rejected")
  BY DEF RejectStep
<1>2. job \in DOMAIN Jobs
  BY <1>1 DEF IInv, JobProgress
<1>3. job # 0 /\ Len(Steps) \in Nat /\ DOMAIN Steps = 1 .. Len(Steps)
  BY <1>2, WorkflowShape DEF IInv
<1>4. step \in DOMAIN Steps
  BY <1>1, <1>3 DEF IInv, TypeOK
<1>5. ~Admissible(job)
  BY <1>1, <1>4 DEF Admissible, Step, Steps
<1> QED
  BY <1>1, <1>3, <1>5, RejectedJobStep

\* When every step has been passed, the job is admissible.
LEMMA AcceptStep ==
    ASSUME IInv, Accept
    PROVE  IInv'
<1>1. /\ pc = "step" /\ step > Len(Steps) /\ pc' = "accepted"
      /\ UNCHANGED <<world, workflow, job, step, cachedCommits, branches, analyzed, faults>>
  BY DEF Accept, Verdict
<1>2. /\ GloballyClean /\ job \in DOMAIN Jobs /\ CallsScorecard(Jobs[job]) /\ JobIsPlain
      /\ \A i \in DOMAIN Steps : i < step => Fit(world, Steps[i])
  BY <1>1 DEF IInv, JobProgress
<1>3. Len(Steps) \in Nat /\ DOMAIN Steps = 1 .. Len(Steps)
  BY <1>2, WorkflowShape DEF IInv
<1>4. \A i \in DOMAIN Steps : Fit(world, Steps[i])
  BY <1>1, <1>2, <1>3 DEF IInv, TypeOK
<1>5. Admissible(job)
  BY <1>2, <1>4, SamePermissions DEF IInv, Admissible, JobIsPlain, Steps, Fit
<1>6. /\ Jobs' = Jobs /\ Steps' = Steps /\ Admissible(job)' = Admissible(job)
      /\ GloballyClean' = GloballyClean /\ JobIsPlain' = JobIsPlain
  BY <1>1, SameVerdict
<1>7. TypeOK'
  BY <1>1, <1>6 DEF IInv, TypeOK, Final
<1>8. CacheBelongs'
  BY <1>1 DEF IInv, CacheBelongs
<1>9. JobProgress'
  BY <1>1, <1>2, <1>6 DEF JobProgress, Lookup
<1>10. LookupProgress' /\ BranchProgress' /\ VerdictIsRight'
  BY <1>1, <1>5, <1>6 DEF LookupProgress, BranchProgress, VerdictIsRight, Lookup
<1> QED
  BY <1>7, <1>8, <1>9, <1>10 DEF IInv

(***************************************************************************)
(* The calls for one commit.                                               *)
(***************************************************************************)

\* A step that pins commit h of the current step's repository in lower case.
LowerCase(h) == [uses |-> Step.uses, pin |-> h, lower |-> TRUE]

\* Commits that belong may be marked.
LEMMA MarkingStep ==
    ASSUME IInv, pc \in Lookup, NEW hashes \in SUBSET Hashes,
           \A h \in hashes : Belongs(Repo, LowerCase(h)),
           cachedCommits' = cachedCommits \cup Mark(hashes), world' = world
    PROVE  CacheBelongs' /\ cachedCommits' \subseteq Actions \X Hashes
<1>1. Step.uses \in Actions /\ Repo = world[Step.uses]
  BY LookupShape
<1>2. cachedCommits \subseteq Actions \X Hashes
  BY DEF IInv, TypeOK
<1>3. Mark(hashes) \subseteq Actions \X Hashes
  BY <1>1 DEF Mark
<1>4. ASSUME NEW c \in cachedCommits'
      PROVE  Belongs(world[c[1]], [uses |-> c[1], pin |-> c[2], lower |-> TRUE])
  <2>1. CASE c \in cachedCommits
    BY <2>1 DEF IInv, CacheBelongs
  <2>2. CASE c \in Mark(hashes)
    <3>1. PICK h \in hashes : c = <<Step.uses, h>>
      BY <2>2 DEF Mark
    <3>2. c[1] = Step.uses /\ c[2] = h
      BY <3>1
    <3> QED
      BY <1>1, <3>2 DEF LowerCase
  <2> QED
    BY <2>1, <2>2
<1> QED
  BY <1>2, <1>3, <1>4 DEF CacheBelongs

\* A commit that is found makes its step fit.
LEMMA FoundStep ==
    ASSUME IInv, pc \in Lookup, NEW hashes \in SUBSET Hashes,
           \A h \in hashes : Belongs(Repo, LowerCase(h)),
           Belongs(Repo, Step), Found(Mark(hashes))
    PROVE  IInv'
<1>1. /\ cachedCommits' = cachedCommits \cup Mark(hashes)
      /\ NextStep
      /\ UNCHANGED <<world, workflow, job, faults>>
  BY DEF Found
<1>2. CacheBelongs' /\ cachedCommits' \subseteq Actions \X Hashes
  BY <1>1, MarkingStep
<1>3. step \in DOMAIN Steps /\ Fit(world, Step)
  BY LookupShape DEF IInv, LookupProgress, Fit
<1> QED
  BY <1>1, <1>2, <1>3, PassedStep

\* Asking the next source leaves the job and the step as they are.
LEMMA AskingStep ==
    ASSUME IInv, pc \in Lookup, pc' \in Lookup, UNCHANGED <<world, workflow, job, step, faults>>,
           branches' \in Seq(Branches), analyzed' \in 0 .. lookback,
           pc' # "branch" => analyzed' = 0,
           cachedCommits' \subseteq Actions \X Hashes
    PROVE  /\ TypeOK' /\ JobProgress' /\ VerdictIsRight'
           /\ Step' = Step /\ Repo' = Repo /\ Steps' = Steps
<1>1. /\ Jobs' = Jobs /\ Steps' = Steps
      /\ GloballyClean' = GloballyClean /\ JobIsPlain' = JobIsPlain
  BY SameVerdict
<1>2. Step' = Step
  BY <1>1 DEF Step
<1>3. Repo' = Repo
  BY <1>2 DEF Repo
<1>4. TypeOK'
  BY <1>1 DEF IInv, TypeOK, Lookup
<1>5. JobProgress'
  BY <1>1 DEF IInv, JobProgress, Lookup
<1>6. VerdictIsRight'
  BY DEF VerdictIsRight, Lookup
<1> QED
  BY <1>1, <1>2, <1>3, <1>4, <1>5, <1>6

\* The tags are all marked; they settle a pin in lower case.
LEMMA GetTagsStep ==
    ASSUME IInv, GetTags
    PROVE  IInv'
<1>1. pc = "tags" /\ pc \in Lookup
  BY DEF GetTags, Lookup
<1>2. Repo.tags \in SUBSET Hashes
  BY <1>1, LookupShape DEF Repository
<1>3. \A h \in Repo.tags : Belongs(Repo, LowerCase(h))
  BY DEF Belongs, LowerCase
<1>4. CASE Step.lower /\ Step.pin \in Repo.tags
  <2>1. Belongs(Repo, Step)
    BY <1>4 DEF Belongs
  <2> QED
    BY <1>1, <1>2, <1>3, <1>4, <2>1, FoundStep DEF GetTags
<1>5. CASE ~ (Step.lower /\ Step.pin \in Repo.tags)
  <2>1. /\ pc' = "default" /\ pc' \in Lookup
        /\ cachedCommits' = cachedCommits \cup Mark(Repo.tags)
        /\ UNCHANGED <<world, workflow, job, step, analyzed, faults, branches>>
    BY <1>5 DEF GetTags, NotFound, Lookup
  <2>2. CacheBelongs' /\ cachedCommits' \subseteq Actions \X Hashes
    BY <1>1, <1>2, <1>3, <2>1, MarkingStep
  <2>3. branches' \in Seq(Branches) /\ analyzed' \in 0 .. lookback /\ analyzed' = 0
    BY <1>1, <2>1 DEF IInv, TypeOK, JobProgress
  <2>4. /\ TypeOK' /\ JobProgress' /\ VerdictIsRight'
        /\ Step' = Step /\ Repo' = Repo /\ Steps' = Steps
    BY <1>1, <2>1, <2>2, <2>3, AskingStep
  <2>5. LookupProgress'
    BY <1>1, <1>5, <2>1, <2>4 DEF IInv, LookupProgress, Lookup
  <2>6. BranchProgress'
    BY <2>1 DEF BranchProgress
  <2> QED
    BY <2>2, <2>4, <2>5, <2>6 DEF IInv
<1> QED
  BY <1>4, <1>5

\* The default branch settles any spelling.
LEMMA CheckDefaultStep ==
    ASSUME IInv, CheckDefault
    PROVE  IInv'
<1>1. pc = "default" /\ pc \in Lookup
  BY DEF CheckDefault, Lookup
<1>2. CASE BranchContains(Repo.default)
  <2>1. Belongs(Repo, Step) /\ Belongs(Repo, LowerCase(Step.pin))
    BY <1>2 DEF Belongs, BranchContains, LowerCase
  <2>2. {Step.pin} \in SUBSET Hashes
    BY <1>1, LookupShape
  <2>3. Found(Mark({Step.pin}))
    BY <1>2 DEF CheckDefault
  <2> QED
    BY <1>1, <2>1, <2>2, <2>3, FoundStep
<1>3. CASE ~BranchContains(Repo.default)
  <2>1. /\ pc' = "releases" /\ pc' \in Lookup
        /\ UNCHANGED <<world, workflow, job, step, cachedCommits, analyzed, faults, branches>>
    BY <1>3 DEF CheckDefault, NotFound, Lookup
  <2>2. CacheBelongs' /\ cachedCommits' \subseteq Actions \X Hashes
    BY <2>1 DEF IInv, CacheBelongs, TypeOK
  <2>3. branches' \in Seq(Branches) /\ analyzed' \in 0 .. lookback /\ analyzed' = 0
    BY <1>1, <2>1 DEF IInv, TypeOK, JobProgress
  <2>4. /\ TypeOK' /\ JobProgress' /\ VerdictIsRight'
        /\ Step' = Step /\ Repo' = Repo /\ Steps' = Steps
    BY <1>1, <2>1, <2>2, <2>3, AskingStep
  <2>5. LookupProgress'
    BY <1>1, <1>3, <2>1, <2>4 DEF IInv, LookupProgress, Lookup, BranchContains
  <2>6. BranchProgress'
    BY <2>1 DEF BranchProgress
  <2> QED
    BY <2>2, <2>4, <2>5, <2>6 DEF IInv
<1> QED
  BY <1>2, <1>3

\* A highest version tag of major zero ends in an error.
LEMMA FailMajorStep ==
    ASSUME IInv, FailMajor
    PROVE  IInv'
<1>1. BadMajor /\ Verdict("error")
  BY DEF FailMajor
<1>2. pc' = "error" /\ UNCHANGED <<world, workflow, job, step>>
  BY <1>1 DEF Verdict
<1>3. BadMajor'
  BY <1>1, <1>2 DEF BadMajor, Repo, Step, Steps, Jobs
<1>4. VerdictIsRight'
  BY <1>2, <1>3 DEF VerdictIsRight
<1> QED
  BY <1>1, <1>4, VerdictStep

\* The comparison starts with the whole list of release branches.
LEMMA StartBranches ==
    ASSUME IInv, pc = "releases", pc' = "branch",
           UNCHANGED <<world, workflow, job, step, analyzed, faults>>,
           branches' = Listed(Repo, Step),
           CacheBelongs', cachedCommits' \subseteq Actions \X Hashes,
           ~(Step.lower /\ Step.uses # CodeQL /\ Step.pin \in TargetCommits(Repo.releases))
    PROVE  IInv'
<1>1. pc \in Lookup /\ pc' \in Lookup
  BY DEF Lookup
<1>2. Repo \in Repository
  BY <1>1, LookupShape
<1>3. Listed(Repo, Step) \in Seq(Branches) /\ Len(Listed(Repo, Step)) \in Nat
  BY <1>2, ListedType
<1>4. analyzed' = 0 /\ analyzed' \in 0 .. lookback
  BY DEF IInv, JobProgress, TypeOK
<1>5. /\ TypeOK' /\ JobProgress' /\ VerdictIsRight'
      /\ Step' = Step /\ Repo' = Repo /\ Steps' = Steps
  BY <1>1, <1>3, <1>4, AskingStep
<1>6. LookupProgress'
  BY <1>1, <1>5 DEF IInv, LookupProgress, Lookup, BranchContains
<1>7. BranchProgress'
  <2>1. OtherThanDefault(Repo, Step, 0) = {}
    BY DEF OtherThanDefault
  <2>2. Cardinality({}) = 0
    BY FS_EmptySet
  <2>3. 0 \in 0 .. Len(Listed(Repo, Step)) /\ Len(branches') = Len(Listed(Repo, Step)) - 0
    BY <1>3
  <2>4. ASSUME NEW i \in 1 .. Len(branches')
        PROVE  branches'[i] = Listed(Repo, Step)[0 + i]
    <3>1. 0 + i = i
      BY <1>3
    <3> QED
      BY <3>1
  <2>5. /\ analyzed' = Cardinality(OtherThanDefault(Repo, Step, 0))
        /\ \A i \in OtherThanDefault(Repo, Step, 0) : ~(Step.pin \in Repo.on[Listed(Repo, Step)[i]])
    BY <1>4, <2>1, <2>2
  <2> QED
    BY <1>5, <2>3, <2>4, <2>5 DEF BranchProgress, BranchContains
<1> QED
  BY <1>5, <1>6, <1>7 DEF IInv

\* The releases settle a pin in lower case or give the branches to compare.
LEMMA GetReleasesStep ==
    ASSUME IInv, GetReleases
    PROVE  IInv'
<1>1. pc = "releases" /\ pc \in Lookup
  BY DEF GetReleases, Lookup
<1>2. CASE Step.uses = CodeQL
  <2>1. /\ pc' = "branch"
        /\ UNCHANGED <<world, workflow, job, step, cachedCommits, analyzed, faults>>
        /\ branches' = CodeQLBranches(Repo.major)
    BY <1>2 DEF GetReleases, NotFound
  <2>2. branches' = Listed(Repo, Step)
    BY <1>2, <2>1 DEF Listed
  <2>3. CacheBelongs' /\ cachedCommits' \subseteq Actions \X Hashes
    BY <2>1 DEF IInv, CacheBelongs, TypeOK
  <2> QED
    BY <1>1, <1>2, <2>1, <2>2, <2>3, StartBranches
<1>3. CASE Step.uses # CodeQL
  <2> DEFINE marked == TargetCommits(Repo.releases)
  <2>1. marked \in SUBSET Hashes
    BY DEF TargetCommits
  <2>2. \A h \in marked : Belongs(Repo, LowerCase(h))
    BY <1>3 DEF Belongs, LowerCase
  <2>3. CASE Step.lower /\ Step.pin \in marked
    <3>1. Belongs(Repo, Step)
      BY <1>3, <2>3 DEF Belongs
    <3>2. Found(Mark(marked))
      BY <1>3, <2>3 DEF GetReleases
    <3> QED
      BY <1>1, <2>1, <2>2, <3>1, <3>2, FoundStep
  <2>4. CASE ~ (Step.lower /\ Step.pin \in marked)
    <3>1. /\ pc' = "branch"
          /\ cachedCommits' = cachedCommits \cup Mark(marked)
          /\ UNCHANGED <<world, workflow, job, step, analyzed, faults>>
          /\ branches' = TargetBranches(Repo.releases)
      BY <1>3, <2>4 DEF GetReleases, NotFound
    <3>2. branches' = Listed(Repo, Step)
      BY <1>3, <3>1 DEF Listed
    <3>3. CacheBelongs' /\ cachedCommits' \subseteq Actions \X Hashes
      BY <1>1, <2>1, <2>2, <3>1, MarkingStep
    <3> QED
      BY <1>1, <2>4, <3>1, <3>2, <3>3, StartBranches
  <2> QED
    BY <2>3, <2>4
<1> QED
  BY <1>2, <1>3

(***************************************************************************)
(* The comparison with the release branches.                               *)
(***************************************************************************)

\* One branch is left behind: the default, or one without the commit.
LEMMA NextBranchStep ==
    ASSUME IInv, pc = "branch", branches # <<>>, analyzed < lookback,
           UNCHANGED <<world, workflow, job, pc, step, cachedCommits, faults>>,
           branches' = Tail(branches),
           \/ Head(branches) = Repo.default /\ analyzed' = analyzed
           \/ /\ Head(branches) # Repo.default /\ analyzed' = analyzed + 1
              /\ ~BranchContains(Head(branches))
    PROVE  IInv'
<1> DEFINE L == Listed(Repo, Step)
           O(k) == OtherThanDefault(Repo, Step, k)
<1>1. pc \in Lookup /\ pc' \in Lookup
  BY DEF Lookup
<1>2. branches \in Seq(Branches) /\ analyzed \in Nat /\ lookback \in Nat
  BY WorkflowVerifierAssumption DEF IInv, TypeOK
<1>3. /\ branches' \in Seq(Branches) /\ Len(branches) \in Nat /\ Len(branches) > 0
      /\ Len(branches') = Len(branches) - 1
      /\ Head(branches) = branches[1]
      /\ \A i \in 1 .. Len(branches') : branches'[i] = branches[i + 1]
  BY <1>2
<1>4. CacheBelongs' /\ cachedCommits' \subseteq Actions \X Hashes
  BY DEF IInv, CacheBelongs, TypeOK
<1>5. /\ TypeOK' /\ JobProgress' /\ VerdictIsRight'
      /\ Step' = Step /\ Repo' = Repo /\ Steps' = Steps
  BY <1>1, <1>2, <1>3, <1>4, AskingStep
<1>6. LookupProgress'
  BY <1>1, <1>5 DEF IInv, LookupProgress, Lookup, BranchContains
<1>7. L \in Seq(Branches) /\ Len(L) \in Nat
  BY <1>1, LookupShape, ListedType
<1>8. PICK k \in 0 .. Len(L) :
          /\ Len(branches) = Len(L) - k
          /\ \A i \in 1 .. Len(branches) : branches[i] = L[k + i]
          /\ analyzed = Cardinality(O(k))
          /\ \A i \in O(k) : ~BranchContains(L[i])
  BY DEF IInv, BranchProgress
<1>9. k \in Nat /\ k + 1 \in 0 .. Len(L) /\ Head(branches) = L[k + 1]
  BY <1>3, <1>7, <1>8
<1>10. /\ L[k + 1] = Repo.default => O(k + 1) = O(k)
       /\ L[k + 1] # Repo.default => O(k + 1) = O(k) \cup {k + 1}
                                       /\ Cardinality(O(k + 1)) = Cardinality(O(k)) + 1
  BY <1>9, OtherThanDefaultNext
<1> HIDE DEF L, O
<1>11. /\ Len(branches') = Len(L) - (k + 1)
       /\ \A i \in 1 .. Len(branches') : branches'[i] = L[(k + 1) + i]
  <2>1. Len(branches') = Len(L) - (k + 1)
    BY <1>3, <1>7, <1>8, <1>9
  <2>2. ASSUME NEW i \in 1 .. Len(branches')
        PROVE  branches'[i] = L[(k + 1) + i]
    <3>1. i + 1 \in 1 .. Len(branches) /\ k + (i + 1) = (k + 1) + i
      BY <1>3, <1>9
    <3>2. branches'[i] = branches[i + 1]
      BY <1>3
    <3>3. branches[i + 1] = L[k + (i + 1)]
      BY <1>8, <3>1
    <3> QED
      BY <3>1, <3>2, <3>3
  <2> QED
    BY <2>1, <2>2
<1>12. /\ analyzed' = Cardinality(O(k + 1))
       /\ \A i \in O(k + 1) : ~BranchContains(L[i])
  BY <1>8, <1>9, <1>10
<1>13. BranchProgress'
  <2>1. \E n \in 0 .. Len(L) :
            /\ Len(branches') = Len(L) - n
            /\ \A i \in 1 .. Len(branches') : branches'[i] = L[n + i]
            /\ analyzed' = Cardinality(O(n))
            /\ \A i \in O(n) : ~(Step.pin \in Repo.on[L[i]])
    BY <1>9, <1>11, <1>12 DEF BranchContains
  <2> QED
    BY <1>5, <2>1 DEF BranchProgress, BranchContains, L, O
<1> QED
  BY <1>4, <1>5, <1>6, <1>13 DEF IInv

\* The default branch is passed over without being counted.
LEMMA SkipDefaultStep ==
    ASSUME IInv, SkipDefault
    PROVE  IInv'
BY NextBranchStep DEF SkipDefault

\* A release branch within the lookback settles any spelling.
LEMMA CheckBranchStep ==
    ASSUME IInv, CheckBranch
    PROVE  IInv'
<1>1. /\ pc = "branch" /\ pc \in Lookup
      /\ branches # <<>> /\ analyzed < lookback /\ Head(branches) # Repo.default
  BY DEF CheckBranch, Lookup
<1>2. CASE ~BranchContains(Head(branches))
  BY <1>1, <1>2, NextBranchStep DEF CheckBranch
<1>3. CASE BranchContains(Head(branches))
  <2> DEFINE L == Listed(Repo, Step)
             O(n) == OtherThanDefault(Repo, Step, n)
  <2>1. branches \in Seq(Branches) /\ Len(branches) \in Nat /\ Len(branches) > 0
        /\ Head(branches) = branches[1]
    BY <1>1 DEF IInv, TypeOK
  <2>2. L \in Seq(Branches) /\ Len(L) \in Nat
    BY <1>1, LookupShape, ListedType
  <2>3. PICK k \in 0 .. Len(L) :
            /\ Len(branches) = Len(L) - k
            /\ \A i \in 1 .. Len(branches) : branches[i] = L[k + i]
            /\ analyzed = Cardinality(O(k))
    BY <1>1 DEF IInv, BranchProgress
  <2>4. k + 1 \in 1 .. Len(L) /\ Head(branches) = L[k + 1] /\ (k + 1) - 1 = k
    BY <2>1, <2>2, <2>3
  <2>5. k + 1 \in O(Len(L))
    BY <1>1, <2>4 DEF OtherThanDefault
  <2>6. Cardinality(O((k + 1) - 1)) < lookback
    BY <1>1, <2>3, <2>4
  <2>7. Head(branches) \in Comparable(Repo, Step)
    BY <2>4, <2>5, <2>6 DEF Comparable
  <2>8. Belongs(Repo, Step)
    BY <1>3, <2>7 DEF Belongs, BranchContains
  <2>9. Belongs(Repo, LowerCase(Step.pin))
    <3>1. /\ LowerCase(Step.pin).uses = Step.uses /\ LowerCase(Step.pin).pin = Step.pin
          /\ LowerCase(Step.pin).lower = TRUE
      BY DEF LowerCase
    <3> QED
      BY <2>8, <3>1, BelongsInLowerCase
  <2>10. {Step.pin} \in SUBSET Hashes
    BY <1>1, LookupShape
  <2>11. Found(Mark({Step.pin}))
    BY <1>3 DEF CheckBranch
  <2> QED
    BY <1>1, <2>8, <2>9, <2>10, <2>11, FoundStep
<1> QED
  BY <1>2, <1>3

\* A commit is refused only when every source the verifier is meant to ask has
\* refused it.
LEMMA RejectCommitStep ==
    ASSUME IInv, RejectCommit
    PROVE  IInv'
<1> DEFINE L == Listed(Repo, Step)
           O(n) == OtherThanDefault(Repo, Step, n)
<1>1. /\ pc = "branch" /\ pc \in Lookup
      /\ branches = <<>> \/ analyzed >= lookback
      /\ Verdict("rejected")
  BY DEF RejectCommit, Lookup
<1>2. L \in Seq(Branches) /\ Len(L) \in Nat
  BY <1>1, LookupShape, ListedType
<1>3. PICK k \in 0 .. Len(L) :
          /\ Len(branches) = Len(L) - k
          /\ analyzed = Cardinality(O(k))
          /\ \A i \in O(k) : ~BranchContains(L[i])
  BY <1>1 DEF IInv, BranchProgress
<1>4. ASSUME NEW b \in Comparable(Repo, Step)
      PROVE  ~BranchContains(b)
  <2>1. PICK i \in O(Len(L)) : Cardinality(O(i - 1)) < lookback /\ b = L[i]
    BY DEF Comparable
  <2>2. i \in 1 .. Len(L) /\ L[i] # Repo.default
    BY DEF OtherThanDefault
  <2>3. i <= k
    <3>1. CASE branches = <<>>
      BY <1>2, <1>3, <2>2, <3>1
    <3>2. CASE analyzed >= lookback
      <4>1. ASSUME ~ (i <= k)
            PROVE  FALSE
        <5>1. i - 1 \in Nat /\ k \in Nat /\ k <= i - 1
          BY <1>2, <2>2, <4>1
        <5>2. Cardinality(O(k)) <= Cardinality(O(i - 1))
          BY <5>1, OtherThanDefaultMonotone
        <5>3. Cardinality(O(k)) \in Nat /\ Cardinality(O(i - 1)) \in Nat
          BY <5>1, OtherThanDefaultNext
        <5> HIDE DEF O
        <5> QED
          BY <1>3, <2>1, <3>2, <5>2, <5>3, WorkflowVerifierAssumption
      <4> QED
        BY <4>1
    <3> QED
      BY <1>1, <3>1, <3>2
  <2>4. i \in O(k)
    BY <1>2, <2>2, <2>3 DEF OtherThanDefault
  <2> QED
    BY <1>3, <2>1, <2>4
<1>5. ~Belongs(Repo, Step)
  BY <1>1, <1>4 DEF IInv, LookupProgress, Belongs, BranchContains
<1>6. Pinned(Step)
  BY <1>1 DEF IInv, LookupProgress
<1>7. job # 0 /\ step \in DOMAIN Steps /\ Repo = world[Step.uses]
  BY <1>1, LookupShape
<1>8. ~Admissible(job)
  BY <1>5, <1>6, <1>7 DEF Admissible, Step, Steps
<1> QED
  BY <1>1, <1>7, <1>8, RejectedJobStep

\* A failed call is counted and ends in an error.
LEMMA CallFailsStep ==
    ASSUME IInv, CallFails
    PROVE  IInv'
<1>1. /\ faults < MaxFaults /\ faults' = faults + 1 /\ pc' = "error"
      /\ UNCHANGED <<world, workflow, job, step, cachedCommits, branches, analyzed>>
  BY DEF CallFails
<1>2. TypeOK'
  BY <1>1, WorkflowVerifierAssumption DEF IInv, TypeOK, Final, Jobs
<1>3. CacheBelongs'
  BY <1>1 DEF IInv, CacheBelongs
<1>4. JobProgress' /\ LookupProgress' /\ BranchProgress'
  BY <1>1 DEF JobProgress, LookupProgress, BranchProgress, Lookup
<1>5. VerdictIsRight'
  <2>1. faults' > 0
    BY <1>1 DEF IInv, TypeOK
  <2> QED
    BY <1>1, <2>1 DEF VerdictIsRight
<1> QED
  BY <1>2, <1>3, <1>4, <1>5 DEF IInv

\* So is a panic, which is no verdict either.
LEMMA ComparePanicsStep ==
    ASSUME IInv, ComparePanics
    PROVE  IInv'
<1>1. /\ faults < MaxFaults /\ faults' = faults + 1 /\ pc' = "panicked"
      /\ UNCHANGED <<world, workflow, job, step, cachedCommits, branches, analyzed>>
  BY DEF ComparePanics
<1>2. TypeOK'
  BY <1>1, WorkflowVerifierAssumption DEF IInv, TypeOK, Final, Jobs
<1>3. CacheBelongs'
  BY <1>1 DEF IInv, CacheBelongs
<1>4. JobProgress' /\ LookupProgress' /\ BranchProgress'
  BY <1>1 DEF JobProgress, LookupProgress, BranchProgress, Lookup
<1>5. VerdictIsRight'
  <2>1. faults' > 0
    BY <1>1 DEF IInv, TypeOK
  <2> QED
    BY <1>1, <2>1 DEF VerdictIsRight
<1> QED
  BY <1>2, <1>3, <1>4, <1>5 DEF IInv

\* A step that changes nothing keeps the invariant.
LEMMA StutterStep ==
    ASSUME IInv, UNCHANGED vars
    PROVE  IInv'
<1>1. UNCHANGED <<world, workflow, job, pc, step, cachedCommits, branches, analyzed, faults>>
  BY DEF vars
<1>2. /\ Jobs' = Jobs /\ Steps' = Steps /\ Admissible(job)' = Admissible(job)
      /\ GloballyClean' = GloballyClean /\ JobIsPlain' = JobIsPlain
  BY <1>1, SameVerdict
<1>3. Step' = Step /\ Repo' = Repo
  BY <1>1, <1>2 DEF Step, Repo
<1>4. TypeOK' /\ CacheBelongs'
  BY <1>1, <1>2 DEF IInv, TypeOK, CacheBelongs
<1>5. JobProgress'
  BY <1>1, <1>2 DEF IInv, JobProgress
<1>6. LookupProgress'
  BY <1>1, <1>2, <1>3 DEF IInv, LookupProgress, BranchContains
<1>7. BranchProgress'
  BY <1>1, <1>3 DEF IInv, BranchProgress, BranchContains
<1>8. VerdictIsRight'
  BY <1>1, <1>2, <1>3 DEF IInv, VerdictIsRight, BadMajor
<1> QED
  BY <1>4, <1>5, <1>6, <1>7, <1>8 DEF IInv

\* Every check and every call keeps the invariant.
LEMMA NextIInv == IInv /\ [Next]_vars => IInv'
<1> SUFFICES ASSUME IInv, [Next]_vars
             PROVE  IInv'
  OBVIOUS
<1>1. CASE FindJob \/ RejectWorkflow \/ CheckJob
  BY <1>1, FindJobStep, RejectWorkflowStep, CheckJobStep
<1>2. CASE CheckStep \/ RejectStep \/ Accept
  BY <1>2, CheckStepStep, RejectStepStep, AcceptStep
<1>3. CASE GetTags \/ CheckDefault \/ FailMajor \/ GetReleases
  BY <1>3, GetTagsStep, CheckDefaultStep, FailMajorStep, GetReleasesStep
<1>4. CASE SkipDefault \/ CheckBranch \/ RejectCommit
  BY <1>4, SkipDefaultStep, CheckBranchStep, RejectCommitStep
<1>5. CASE CallFails \/ ComparePanics
  BY <1>5, CallFailsStep, ComparePanicsStep
<1>6. CASE Done \/ UNCHANGED vars
  BY <1>6, StutterStep DEF Done
<1> QED
  BY <1>1, <1>2, <1>3, <1>4, <1>5, <1>6 DEF Next

(***************************************************************************)
(* The theorems.                                                           *)
(***************************************************************************)

\* The inductive invariant holds throughout.
LEMMA InvariantHolds == Spec => []IInv
BY InitIInv, NextIInv, PTL DEF Spec

\* Every variable keeps its type: what is compared are branches, at most
\* lookback of them for one commit, and only commits of the pinnable actions are
\* cached (githubVerifier.contains).
THEOREM TypeCorrect == Spec => []TypeOK
<1>1. IInv => TypeOK
  BY DEF IInv
<1> QED
  BY <1>1, InvariantHolds, PTL

\* Whatever the repositories, the steps and the order of the calls, the cache
\* the steps share files a commit only under a repository that has it
\* (githubVerifier.contains and markContains).
THEOREM SharedCacheIsSound == Spec => []CacheIsSound
<1>1. IInv => CacheIsSound
  BY CacheIsSoundInIInv DEF IInv
<1> QED
  BY <1>1, InvariantHolds, PTL

\* A workflow is accepted only if its job is admissible, refused only if it is
\* not, and an error or a panic is neither, for every set of repositories, every workflow
\* and every lookback (verifyScorecardWorkflow and githubVerifier.contains).
THEOREM VerdictsAreRight == Spec => []VerdictIsRight
<1>1. IInv => VerdictIsRight
  BY DEF IInv
<1> QED
  BY <1>1, InvariantHolds, PTL
=============================================================================
