---------------------------- MODULE MCOutboxRelay ----------------------------
(* Instances of OutboxRelay for TLC.                                        *)
EXTENDS OutboxRelay, TLC

CONSTANTS w1, w2, w3

\* Nobody accepts aggregate 1.
FirstRefused == [w \in Workers |-> Aggregates \ {1}]

\* A rolling upgrade: w3 does not accept the event type of aggregate 1 yet.
RollingUpgrade ==
    [w \in Workers |-> IF w = w3 THEN Aggregates \ {1} ELSE Aggregates]

Upgraded == Permutations({w1, w2})
==============================================================================
