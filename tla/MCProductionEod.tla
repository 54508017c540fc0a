---------------------------- MODULE MCProductionEod ----------------------------
(* Small instances of ProductionEod.                                         *)
EXTENDS ProductionEod, TLC

CONSTANTS r1, r2, b1, b2, k1, k2, t1, t2

\* A request for each batch, and the first one sent for the wrong batch as well.
ThreeCommands ==
    { [key |-> k1, trace |-> t1, batch |-> b1],
      [key |-> k1, trace |-> t1, batch |-> b2],
      [key |-> k2, trace |-> t2, batch |-> b2] }

\* The second batch is the later one.
Cutoffs == b1 :> 0 @@ b2 :> 1
===============================================================================
