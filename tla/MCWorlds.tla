------------------------------- MODULE MCWorlds -------------------------------
(***************************************************************************)
(* An instance of Worlds for TLC.  Capacities are the program's divided by *)
(* a common factor where only their ratio matters, so that every limit is  *)
(* met: three of four anchors carry a load of 5, two do not; an edge runs  *)
(* on one trunk but not on none; stores are nearly full or empty.          *)
(* The canaries of the adapter are evaluated with the program's own        *)
(* quantities before the run.                                              *)
(***************************************************************************)
EXTENDS Worlds, TLC

CONSTANTS f1, e1, x1, p1, p2, z1, r1, w1, w2, b1, b2, q1, q2, q3

MC_Stock == [ocean |-> 2, groundwater |-> 1, central |-> 1, surface |-> 0, lung |-> 0]
MC_StoreCapacity == [ocean |-> 3, groundwater |-> 1, central |-> 2, surface |-> 1, lung |-> 1]
MC_Heat == [resident |-> 3, environmental |-> 2, system |-> 4]
MC_Nominal == [ocean |-> 2, aquifer |-> 1, lakePond |-> 1, lungReturn |-> 0, groundwater |-> 0]
MC_PoolCapacity ==
  [ocean |-> -1, aquifer |-> 2, lakePond |-> 1, lungReturn |-> 1, groundwater |-> -1]
MC_Units == {-1, 1, 2}
MC_Amounts ==
  {[in |-> 3, work |-> 1, stored |-> -1, heat |-> 2, returned |-> 1],
   [in |-> 0, work |-> 0, stored |-> 1, heat |-> -1, returned |-> 0],
   [in |-> 2, work |-> 1, stored |-> 0, heat |-> 0, returned |-> 0]}

Adapter == INSTANCE LocalAdapter

\* The fourteen canary scenarios pass; hosted assets are verified.
ASSUME AdapterAssumption == Adapter!CanariesPass /\ Adapter!AssetsAreVerified

MC_Symmetry == Permutations({q1, q2, q3}) \cup Permutations({p1, p2})
                 \cup Permutations({w1, w2}) \cup Permutations({b1, b2})
=============================================================================
