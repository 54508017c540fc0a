------------------------------ MODULE BatchServing ------------------------------
(***************************************************************************)
(* What production forecasting promises about the model that serves a      *)
(* batch: each batch is served by one of the assignments made so far, the  *)
(* choice is never revised, and the batch is published at most once, under *)
(* that assignment.  ProductionEod implements this specification.          *)
(***************************************************************************)
EXTENDS Naturals

CONSTANT Batches

VARIABLES
    made,               \* how many assignments have been made
    serving,            \* [b]: the assignment that serves b, 0 for none yet
    released            \* [b]: the assignment under which b was published, or 0

vars == <<made, serving, released>>

Init ==
    /\ made = 0
    /\ serving = [b \in Batches |-> 0]
    /\ released = [b \in Batches |-> 0]

Make == made' = made + 1 /\ UNCHANGED <<serving, released>>

Serve(b) ==
    /\ serving[b] = 0
    /\ \E a \in 1..made : serving' = [serving EXCEPT ![b] = a]
    /\ UNCHANGED <<made, released>>

Release(b) ==
    /\ serving[b] # 0
    /\ released[b] = 0
    /\ released' = [released EXCEPT ![b] = serving[b]]
    /\ UNCHANGED <<made, serving>>

Next == Make \/ \E b \in Batches : Serve(b) \/ Release(b)

Spec == Init /\ [][Next]_vars

=================================================================================
