----------------------------- MODULE ServingHistory -----------------------------
(***************************************************************************)
(* What the governance of a model family promises about who serves: the    *)
(* candidates installed so far, one after the other.  An approval is       *)
(* granted against the present history and is void as soon as anything is  *)
(* installed, a rejection is final, and the only way back is to reinstate  *)
(* the candidate before the present one.  ModelLifecycle implements this   *)
(* specification.                                                          *)
(***************************************************************************)
EXTENDS Naturals, Sequences

CONSTANTS Candidates, None

VARIABLES
    installed,          \* the candidates that served, the last one serves
    rejected,           \* the candidates an approver has rejected
    granted             \* [c]: length of installed when c was approved, or None

vars == <<installed, rejected, granted>>

Init ==
    /\ installed = <<>>
    /\ rejected = {}
    /\ granted = [c \in Candidates |-> None]

Approve(c) ==
    /\ c \notin rejected
    /\ granted' = [granted EXCEPT ![c] = Len(installed)]
    /\ UNCHANGED <<installed, rejected>>

\* An approver withholds the approval, for good if that is a rejection.
Refuse(c) ==
    /\ granted' = [granted EXCEPT ![c] = None]
    /\ rejected' \in {rejected, rejected \cup {c}}
    /\ UNCHANGED installed

Install(c) ==
    /\ granted[c] = Len(installed)
    /\ installed' = Append(installed, c)
    /\ UNCHANGED <<rejected, granted>>

Reinstate ==
    /\ Len(installed) > 1
    /\ installed' = Append(installed, installed[Len(installed) - 1])
    /\ UNCHANGED <<rejected, granted>>

Next ==
    \/ \E c \in Candidates : Approve(c) \/ Refuse(c) \/ Install(c)
    \/ Reinstate

Spec == Init /\ [][Next]_vars

=================================================================================
