---- MODULE MCWorkflowVerifier ----
(* Repositories and workflows small enough to enumerate: every placing of   *)
(* a commit h1 (and tags of h2) in the repository of scorecard-action, then *)
(* every placing of h1 in that of codeql-action, with the other one fixed.  *)
EXTENDS WorkflowVerifier

TheHashes == {"h1", "h2"}
TheBranches == {"main", "v1", "v2"}
TheActions == {"scorecard-action", "codeql-action"}
TheBranchOf == <<"v1", "v2">>

Placings == [TheBranches -> SUBSET {"h1"}]
Targets == TheBranches \cup {"h1"}
ReleaseLists == {<<>>} \cup {<<t>> : t \in Targets} \cup {<<t, u>> : t, u \in Targets}

Bare == [tags |-> {}, default |-> "main", on |-> [b \in TheBranches |-> {}],
         releases |-> <<>>, major |-> -1]

ActionRepos ==
    {[tags |-> ts, default |-> "main", on |-> p, releases |-> rs, major |-> -1] :
        ts \in SUBSET TheHashes, p \in Placings, rs \in ReleaseLists}

CodeQLRepos ==
    {[tags |-> ts, default |-> "v2", on |-> p, releases |-> <<"h1">>, major |-> m] :
        ts \in {{}, {"h1"}}, p \in Placings, m \in -1 .. 2}

World(a, q) == [r \in TheActions |-> IF r = "codeql-action" THEN q ELSE a]

TheWorlds ==
    {World(a, Bare) : a \in ActionRepos}
    \cup {World([Bare EXCEPT !.tags = {"h1"}], q) : q \in CodeQLRepos}

Step1(u, p, l) == [uses |-> u, pin |-> p, lower |-> l]
Plain(ss) == [permissions |-> "other", containerOrServices |-> FALSE, runner |-> "ubuntu",
              env |-> FALSE, defaults |-> FALSE, steps |-> ss]

Tagged == Step1("scorecard-action", "tag", TRUE)
Image == Step1("scorecard-image", "tag", TRUE)
StepLists ==
    {<<Step1("scorecard-action", "h2", l), Step1("scorecard-action", "h1", m)>> :
        l, m \in BOOLEAN}
    \cup {<<Step1("scorecard-action", "h1", TRUE), Step1("codeql-action", "h1", l)>> :
        l \in BOOLEAN}
    \cup {<<Image, Step1("codeql-action", "h1", TRUE), Step1("codeql-action", "h1", FALSE)>>}

Flow(js) == [diagnostics |-> "none", envOrDefaults |-> FALSE, write |-> FALSE, jobs |-> js]

Good == Plain(<<Tagged>>)
Other == Plain(<<Step1("other", "tag", TRUE)>>)

TheWorkflows ==
    {Flow(<<Plain(ss)>>) : ss \in StepLists}
    \cup {Flow(<<Other, Good>>), Flow(<<Other>>), Flow(<<Good, Plain(<<Image, Step1("other", "tag", TRUE)>>)>>),
          Flow(<<Good, [Other EXCEPT !.permissions = "idTokenWrite"]>>),
          Flow(<<Good, [Other EXCEPT !.permissions = "writeAll"]>>),
          Flow(<<[Good EXCEPT !.containerOrServices = TRUE]>>),
          Flow(<<[Good EXCEPT !.runner = "unsupported"]>>),
          Flow(<<[Good EXCEPT !.env = TRUE]>>), Flow(<<[Good EXCEPT !.defaults = TRUE]>>),
          [Flow(<<Good>>) EXCEPT !.diagnostics = "reviewed"],
          [Flow(<<Good>>) EXCEPT !.diagnostics = "unreviewed"],
          [Flow(<<Good>>) EXCEPT !.envOrDefaults = TRUE],
          [Flow(<<Good>>) EXCEPT !.write = TRUE]}
====
