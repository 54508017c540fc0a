--------------------------- MODULE MCModelLifecycle ---------------------------
(* Instances of ModelLifecycle for TLC.                                     *)
EXTENDS ModelLifecycle, TLC

CONSTANTS c1, c2, e1, e2

\* All candidates run in the same runtime.
SameProfile == [c \in Candidates |-> "runtime"]

\* Both candidates can be promoted and the second one rolled back.
FewSetbacks == <<16, 9, 6, 5>>

Names == Permutations({c1, c2}) \cup Permutations({e1, e2})
================================================================================
