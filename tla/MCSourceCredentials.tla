-------------------------- MODULE MCSourceCredentials --------------------------
(* Instances of SourceCredentials for TLC.                                  *)
EXTENDS SourceCredentials, TLC

CONSTANTS o1, o2, g1, g2, b1, work1

Requests == Permutations({o1, o2})
================================================================================
