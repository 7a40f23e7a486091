-------------------------- MODULE WorkflowVerifier --------------------------
(***************************************************************************)
(* What POST /projects asks of the workflow that produced a result:        *)
(* verifyScorecardWorkflow (api/app/server/verify_workflow.go) with the    *)
(* githubVerifier that decides, call by call to the GitHub API and with a  *)
(* cache shared by the steps, whether a pinned commit belongs to the       *)
(* repository of its action (api/app/server/github_verifier.go).           *)
(*                                                                         *)
(* A hash is a model value; a reference to it is written in lower case or  *)
(* not.  The regular expressions on labels and step names are abstracted   *)
(* to the classes the code tells apart.                                    *)
(***************************************************************************)
EXTENDS Integers, Sequences, FiniteSets

CONSTANTS
    Hashes,         \* commits
    Branches,       \* branch names
    Actions,        \* repositories of the allowed, pinnable steps
    CodeQL,         \* the one among them released from numbered branches
    CodeQLBranch,   \* releases/vN as a branch name, by N
    Worlds,         \* states of the actions' repositories to consider
    Workflows,      \* workflows to consider
    lookback,       \* release branches compared at most (10 in the code)
    MaxFaults       \* bound: failing API calls

\* What the API tells of one repository: tagged commits, default branch,
\* commits on each branch, targets of its releases in the order they are
\* listed, and the highest major among its version tags (-1: none).
Repository ==
    [tags : SUBSET Hashes, default : Branches, on : [Branches -> SUBSET Hashes],
     releases : Seq(Branches \cup Hashes), major : -1 .. Len(CodeQLBranch)]

WorkflowStep ==
    [uses : Actions \cup {"scorecard-image", "other"}, pin : Hashes \cup {"tag"}, lower : BOOLEAN]

\* A job's own permissions: the scope id-token set to write, the shorthand
\* write-all (which has no scopes), or neither.
WorkflowJob ==
    [permissions : {"idTokenWrite", "writeAll", "other"}, containerOrServices : BOOLEAN,
     runner : {"ubuntu", "unsupported"}, env : BOOLEAN, defaults : BOOLEAN, steps : Seq(WorkflowStep)]

Workflow ==
    [diagnostics : {"none", "reviewed", "unreviewed"}, envOrDefaults : BOOLEAN, write : BOOLEAN,
     jobs : Seq(WorkflowJob)]

ASSUME WorkflowVerifierAssumption ==
    /\ Hashes \cap Branches = {}
    /\ {"scorecard-action", CodeQL} \subseteq Actions
    /\ "scorecard-image" \notin Actions
    /\ CodeQLBranch \in Seq(Branches)
    /\ Worlds \subseteq [Actions -> Repository]
    /\ Workflows \subseteq Workflow
    /\ lookback \in Nat
    /\ MaxFaults \in Nat

VARIABLES
    world,          \* what the GitHub API knows of each action's repository
    workflow,       \* the workflow of the request
    job,            \* the job findScorecardJob returned, by position
    pc,             \* the next check or API call
    step,           \* the step of the job being verified
    cachedCommits,  \* commits known to belong to a repository
    branches,       \* release branches still to compare
    analyzed,       \* release branches compared
    faults          \* failed calls

vars == <<world, workflow, job, pc, step, cachedCommits, branches, analyzed, faults>>

Final == {"accepted", "rejected", "error", "panicked"}

Jobs == workflow.jobs
Steps == Jobs[job].steps
Step == Steps[step]

\* A job with a step that calls the action, from its repository or image.
CallsScorecard(j) ==
    \E i \in DOMAIN j.steps : j.steps[i].uses \in {"scorecard-action", "scorecard-image"}

Init ==
    /\ world \in Worlds
    /\ workflow \in Workflows
    /\ job = 0
    /\ pc = "workflow"
    /\ step = 1
    /\ cachedCommits = {}
    /\ branches = <<>>
    /\ analyzed = 0
    /\ faults = 0

Verdict(v) ==
    /\ pc' = v
    /\ UNCHANGED <<world, workflow, job, step, cachedCommits, branches, analyzed, faults>>

(***************************************************************************)
(* verifyScorecardWorkflow.                                                *)
(***************************************************************************)
\* Nothing global: diagnostics other than reviewed ones, variables or
\* defaults, or write permissions.
GloballyClean ==
    /\ workflow.diagnostics # "unreviewed"
    /\ ~workflow.envOrDefaults
    /\ ~workflow.write

\* Go's map order decides which of several scorecard jobs is judged.
FindJob ==
    /\ pc = "workflow"
    /\ GloballyClean
    /\ \E j \in DOMAIN Jobs :
           /\ CallsScorecard(Jobs[j])
           /\ job' = j
    /\ pc' = "job"
    /\ UNCHANGED <<world, workflow, step, cachedCommits, branches, analyzed, faults>>

RejectWorkflow ==
    /\ pc = "workflow"
    /\ ~GloballyClean \/ \A j \in DOMAIN Jobs : ~CallsScorecard(Jobs[j])
    /\ Verdict("rejected")

\* No other job sets the scope id-token to write (write-all is not looked for
\* here); the job runs on one supported Ubuntu runner, outside containers,
\* without variables or defaults.
JobIsPlain ==
    /\ \A j \in DOMAIN Jobs : j # job => Jobs[j].permissions # "idTokenWrite"
    /\ ~Jobs[job].containerOrServices
    /\ Jobs[job].runner = "ubuntu"
    /\ ~Jobs[job].env
    /\ ~Jobs[job].defaults

CheckJob ==
    /\ pc = "job"
    /\ Verdict(IF JobIsPlain THEN "step" ELSE "rejected")

\* The step is one the job may have at all.
Allowed(s) == s.uses \in Actions \cup {"scorecard-image"}

\* The step names a commit that has to be looked up.
Pinned(s) == s.uses \in Actions /\ s.pin \in Hashes

NextStep ==
    /\ step' = step + 1
    /\ pc' = "step"
    /\ branches' = <<>>
    /\ analyzed' = 0

\* Mutated: the cache is consulted without the repository.
CachedInAnyRepo(s) == s.lower /\ \E a \in Actions : <<a, s.pin>> \in cachedCommits

\* cachedCommits holds lower-case hashes; the pin is looked up as written.
Cached(s) == s.lower /\ <<s.uses, s.pin>> \in cachedCommits

CheckStep ==
    /\ pc = "step"
    /\ step <= Len(Steps)
    /\ Allowed(Step)
    /\ IF Pinned(Step) /\ ~Cached(Step)
       THEN pc' = "tags" /\ UNCHANGED <<step, branches, analyzed>>
       ELSE NextStep
    /\ UNCHANGED <<world, workflow, job, cachedCommits, faults>>

RejectStep ==
    /\ pc = "step"
    /\ step <= Len(Steps)
    /\ ~Allowed(Step)
    /\ Verdict("rejected")

Accept ==
    /\ pc = "step"
    /\ step > Len(Steps)
    /\ Verdict("accepted")

(***************************************************************************)
(* githubVerifier.contains for the commit of the current step.             *)
(***************************************************************************)
Repo == world[Step.uses]

\* The repository's answer is in: go on with the next step.
Found(marked) ==
    /\ cachedCommits' = cachedCommits \cup marked
    /\ NextStep
    /\ UNCHANGED <<world, workflow, job, faults>>

\* The call brought only commits to remember, if any.
NotFound(marked, next) ==
    /\ cachedCommits' = cachedCommits \cup marked
    /\ pc' = next
    /\ UNCHANGED <<world, workflow, job, step, analyzed, faults>>

Mark(hashes) == {<<Step.uses, h>> : h \in hashes}

GetTags ==
    /\ pc = "tags"
    /\ IF Step.lower /\ Step.pin \in Repo.tags
       THEN Found(Mark(Repo.tags))
       ELSE NotFound(Mark(Repo.tags), "default") /\ UNCHANGED branches

\* CompareCommits says "behind" or "identical"; a 404 is no ancestry.
BranchContains(b) == Step.pin \in Repo.on[b]

\* Mutated: the hash is remembered before the comparison is looked at.
CheckDefaultMarking ==
    /\ pc = "default"
    /\ IF BranchContains(Repo.default)
       THEN Found(Mark({Step.pin}))
       ELSE NotFound(Mark({Step.pin}), "releases") /\ UNCHANGED branches

CheckDefault ==
    /\ pc = "default"
    /\ IF BranchContains(Repo.default)
       THEN Found(Mark({Step.pin}))
       ELSE NotFound({}, "releases") /\ UNCHANGED branches

\* releases/vN, ..., releases/v1 for the highest major among the tags, none
\* without a version tag (-1).
CodeQLBranches(major) == [i \in 1 .. major |-> CodeQLBranch[major - i + 1]]

\* The branches among the releases' targets, once each, in order.
TargetBranches(targets) ==
    LET isNew(i) == targets[i] \in Branches /\ \A j \in 1 .. i - 1 : targets[j] # targets[i]
        kept == {i \in DOMAIN targets : isNew(i)}
    IN  [n \in 1 .. Cardinality(kept) |->
            targets[CHOOSE i \in kept : Cardinality({j \in kept : j <= i}) = n]]

TargetCommits(targets) == {targets[i] : i \in DOMAIN targets} \cap Hashes

\* A highest version tag of major zero has no branches to try.
BadMajor == Step.uses = CodeQL /\ Repo.major = 0

FailMajor ==
    /\ pc = "releases"
    /\ BadMajor
    /\ Verdict("error")

GetReleases ==
    /\ pc = "releases"
    /\ ~BadMajor
    /\ IF Step.uses = CodeQL
       THEN NotFound({}, "branch") /\ branches' = CodeQLBranches(Repo.major)
       ELSE LET marked == TargetCommits(Repo.releases)
            IN  IF Step.lower /\ Step.pin \in marked
                THEN Found(Mark(marked))
                ELSE /\ NotFound(Mark(marked), "branch")
                     /\ branches' = TargetBranches(Repo.releases)

\* Mutated: the default branch, skipped, counts as analyzed.
SkipDefaultCounting ==
    /\ pc = "branch"
    /\ branches # <<>> /\ analyzed < lookback
    /\ Head(branches) = Repo.default
    /\ branches' = Tail(branches)
    /\ analyzed' = analyzed + 1
    /\ UNCHANGED <<world, workflow, job, pc, step, cachedCommits, faults>>

SkipDefault ==
    /\ pc = "branch"
    /\ branches # <<>> /\ analyzed < lookback
    /\ Head(branches) = Repo.default
    /\ branches' = Tail(branches)
    /\ UNCHANGED <<world, workflow, job, pc, step, cachedCommits, analyzed, faults>>

\* Mutated: every release branch is compared.
CheckBranchUnlimited ==
    /\ pc = "branch"
    /\ branches # <<>>
    /\ Head(branches) # Repo.default
    /\ IF BranchContains(Head(branches))
       THEN Found(Mark({Step.pin}))
       ELSE /\ branches' = Tail(branches)
            /\ analyzed' = analyzed + 1
            /\ UNCHANGED <<world, workflow, job, pc, step, cachedCommits, faults>>

CheckBranch ==
    /\ pc = "branch"
    /\ branches # <<>> /\ analyzed < lookback
    /\ Head(branches) # Repo.default
    /\ IF BranchContains(Head(branches))
       THEN Found(Mark({Step.pin}))
       ELSE /\ branches' = Tail(branches)
            /\ analyzed' = analyzed + 1
            /\ UNCHANGED <<world, workflow, job, pc, step, cachedCommits, faults>>

\* No branch is left to compare: the commit is an imposter.
RejectCommit ==
    /\ pc = "branch"
    /\ branches = <<>> \/ analyzed >= lookback
    /\ Verdict("rejected")

\* The next call compares the commit with a branch.
Comparing ==
    \/ pc = "default"
    \/ pc = "branch" /\ branches # <<>> /\ analyzed < lookback /\ Head(branches) # Repo.default

\* A failed call ends the verification with an error, not with a verdict: any
\* failure of the listings and of the query for the default branch, an answer
\* of the API other than a 404 to a comparison.
CallFails ==
    /\ \/ pc = "tags"
       \/ pc = "releases" /\ Step.uses # CodeQL
       \/ Comparing
    /\ faults < MaxFaults
    /\ faults' = faults + 1
    /\ pc' = "error"
    /\ UNCHANGED <<world, workflow, job, step, cachedCommits, branches, analyzed>>

\* A comparison that gets no answer at all has no response to look at:
\* branchContains dereferences nil, and the server drops the connection.
ComparePanics ==
    /\ Comparing
    /\ faults < MaxFaults
    /\ faults' = faults + 1
    /\ pc' = "panicked"
    /\ UNCHANGED <<world, workflow, job, step, cachedCommits, branches, analyzed>>

----------------------------------------------------------------------------
\* The handler has ended.
Done == pc \in Final /\ UNCHANGED vars

Next ==
    \/ FindJob \/ RejectWorkflow \/ CheckJob
    \/ CheckStep \/ RejectStep \/ Accept
    \/ GetTags \/ CheckDefault \/ FailMajor \/ GetReleases
    \/ SkipDefault \/ CheckBranch \/ RejectCommit
    \/ CallFails \/ ComparePanics \/ Done

Spec == Init /\ [][Next]_vars

----------------------------------------------------------------------------
(***************************************************************************)
(* Properties.                                                             *)
(***************************************************************************)
\* Types of the variables; at most lookback release branches are compared
\* for one commit.
TypeOK ==
    /\ world \in [Actions -> Repository]
    /\ workflow \in Workflow
    /\ job \in 0 .. Len(Jobs)
    /\ pc \in {"workflow", "job", "step", "tags", "default", "releases", "branch"} \cup Final
    /\ step \in Nat \ {0}
    /\ cachedCommits \subseteq Actions \X Hashes
    /\ branches \in Seq(Branches)
    /\ analyzed \in 0 .. lookback
    /\ faults \in 0 .. MaxFaults

\* The commits of repository a, found by any of the calls.
Known(a) ==
    LET r == world[a]
    IN  r.tags \cup TargetCommits(r.releases) \cup UNION {r.on[b] : b \in Branches}

\* Nothing enters the shared cache but commits of the repository they are
\* filed under, so that no step can be accepted on another one's account.
CacheIsSound == \A c \in cachedCommits : c[2] \in Known(c[1])

\* The release branches listed for step s of repository r, in order.
Listed(r, s) ==
    IF s.uses = CodeQL THEN CodeQLBranches(r.major) ELSE TargetBranches(r.releases)

\* The positions among the first n of them with another branch than the default.
OtherThanDefault(r, s, n) == {i \in 1 .. n : Listed(r, s)[i] # r.default}

\* The first lookback branches other than the default.
Comparable(r, s) ==
    {Listed(r, s)[i] : i \in {i \in OtherThanDefault(r, s, Len(Listed(r, s))) :
                                 Cardinality(OtherThanDefault(r, s, i - 1)) < lookback}}

\* The commit of pinned step s is one the verifier is meant to accept for
\* repository r: on the default branch or the first release branches other
\* than that, or, if written in lower case, on a tag or the target of a
\* release.
Belongs(r, s) ==
    \/ \E b \in Comparable(r, s) \cup {r.default} : s.pin \in r.on[b]
    \/ s.lower /\ s.pin \in r.tags
    \/ s.lower /\ s.uses # CodeQL /\ s.pin \in TargetCommits(r.releases)

\* What GitHub grants the job's token: write-all covers id-token.
MayWriteIdTokens(j) == j.permissions \in {"idTokenWrite", "writeAll"}

\* What is asked of an accepted job j.  The other jobs write id tokens, if at
\* all, by way of write-all: that is less than the comment in the code says
\* ("Make sure other jobs don't have id-token permissions"), and as much as the
\* lookup of the scope can tell.
Admissible(j) ==
    /\ GloballyClean
    /\ CallsScorecard(Jobs[j])
    /\ \A i \in DOMAIN Jobs :
           i # j => ~MayWriteIdTokens(Jobs[i]) \/ Jobs[i].permissions = "writeAll"
    /\ Jobs[j].runner = "ubuntu"
    /\ ~(Jobs[j].containerOrServices \/ Jobs[j].env \/ Jobs[j].defaults)
    /\ \A i \in DOMAIN Jobs[j].steps :
           LET s == Jobs[j].steps[i] IN Allowed(s) /\ (Pinned(s) => Belongs(world[s.uses], s))

\* The verdict is the one of the job judged, whatever earlier steps left in
\* the cache and in whatever order the calls are spared: a workflow is
\* accepted only if every pinned commit belongs and no other job sets the
\* scope id-token to write, refused (a 400) only if some check fails (never for
\* another job's write-all), and a failed call is neither.  It ends in an error
\* (a 500) or, if a comparison got no answer, in a panic (no response at all).
VerdictIsRight ==
    /\ pc = "accepted" => Admissible(job)
    /\ pc = "rejected" =>
           \/ job # 0 /\ ~Admissible(job)
           \/ ~GloballyClean \/ \A j \in DOMAIN Jobs : ~CallsScorecard(Jobs[j])
    /\ pc = "error" => faults > 0 \/ BadMajor
    /\ pc = "panicked" => faults > 0
=============================================================================
