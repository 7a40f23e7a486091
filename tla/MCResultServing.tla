---- MODULE MCResultServing ----
(* Posts and exports of one repository, and requests behind the CDN. *)
EXTENDS ResultServing, TLC

CONSTANT p1

\* What p1 publishes for the first commit does not decode.
FirstIsGarbled == {[by |-> p1, commit |-> 1]}

Symmetric == Permutations(Exports)
====
