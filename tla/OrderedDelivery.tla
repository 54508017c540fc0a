---------------------------- MODULE OrderedDelivery ----------------------------
(***************************************************************************)
(* What the outbox promises its consumers, without claims, leases, tokens, *)
(* markers or cursors: each published version of an aggregate is applied   *)
(* by each consumer at most once and in version order, the second consumer *)
(* after the first, and a version is reported delivered only when every    *)
(* consumer has applied it.  OutboxRelay implements this specification.    *)
(***************************************************************************)
EXTENDS Naturals

CONSTANTS
    Aggregates,         \* aggregate ids
    Versions,           \* 1..n for some n
    First, Second       \* the consumers, in the order they are served

Consumers == {First, Second}

VARIABLES
    published,          \* [a]: versions published so far
    status,             \* [a][v]: "absent", "pending", "delivered", "isolated"
    effects             \* [c][a][v]: times consumer c applied version v of a

vars == <<published, status, effects>>

Init ==
    /\ published = [a \in Aggregates |-> 0]
    /\ status = [a \in Aggregates |-> [v \in Versions |-> "absent"]]
    /\ effects = [c \in Consumers |->
                    [a \in Aggregates |-> [v \in Versions |-> 0]]]

Publish(a) ==
    /\ published[a] + 1 \in Versions
    /\ published' = [published EXCEPT ![a] = @ + 1]
    /\ status' = [status EXCEPT ![a][published[a] + 1] = "pending"]
    /\ UNCHANGED effects

Apply(c, a, v) ==
    /\ v <= published[a]
    /\ effects[c][a][v] = 0
    /\ \A u \in Versions : u < v => effects[c][a][u] = 1
    /\ c = Second => effects[First][a][v] = 1
    /\ effects' = [effects EXCEPT ![c][a][v] = 1]
    /\ UNCHANGED <<published, status>>

Deliver(a, v) ==
    /\ status[a][v] = "pending"
    /\ \A c \in Consumers : effects[c][a][v] = 1
    /\ status' = [status EXCEPT ![a][v] = "delivered"]
    /\ UNCHANGED <<published, effects>>

Isolate(a, v) ==
    /\ status[a][v] = "pending"
    /\ status' = [status EXCEPT ![a][v] = "isolated"]
    /\ UNCHANGED <<published, effects>>

Next ==
    \E a \in Aggregates :
        \/ Publish(a)
        \/ \E v \in Versions :
              \/ \E c \in Consumers : Apply(c, a, v)
              \/ Deliver(a, v)
              \/ Isolate(a, v)

Spec == Init /\ [][Next]_vars

===============================================================================
