------------------------------ MODULE WorldParts ------------------------------
(***************************************************************************)
(* What the world engines have in common: exact integer allocation over    *)
(* ordered modules, edges fed by two trunks, energy accounts.  The engines *)
(* write each of these out again; gp-test-001.ts and                       *)
(* structural-thermal-simulation.ts use the same loads and capacities.     *)
(***************************************************************************)
EXTENDS Integers, FiniteSets

CONSTANTS
  None,
  Field, Anchor,                           \* anchors of a field, numbered as their ids sort
  FieldLoad, AnchorCapacity,
  Edge, TrunkCapacity, EdgeDemand, CriticalDemand,
  Sector                                   \* symbol sectors

Lesser(a, b) == IF a <= b THEN a ELSE b

\* allocateExact: each of the ids gets the quotient and the first ones the
\* remainder, one unit each; None if that is more than one of them holds.
Allocate(total, ids, capacity) ==
  IF total < 0 \/ ids = {} THEN None
  ELSE LET q == total \div Cardinality(ids)
           r == total % Cardinality(ids)
       IN IF q + (IF r > 0 THEN 1 ELSE 0) > capacity THEN None
          ELSE [i \in ids |-> q + (IF Cardinality({j \in ids : j < i}) < r THEN 1 ELSE 0)]

Allocations == UNION {[A -> 0..AnchorCapacity] : A \in SUBSET Anchor}

NoAllocation == [i \in {} |-> 0]

\* An anchor of a field fails: its load is allocated to the others.
WithoutAnchor(f, a) ==
  LET anchors == [f.anchors EXCEPT ![a] = FALSE]
      alloc == Allocate(FieldLoad, {b \in Anchor : anchors[b]}, AnchorCapacity)
  IN [anchors |-> anchors,
      alloc |-> IF alloc = None THEN NoAllocation ELSE alloc,
      status |-> IF alloc = None THEN "DEGRADED" ELSE "NORMAL"]

WholeField ==
  [anchors |-> [a \in Anchor |-> TRUE], status |-> "NORMAL",
   alloc |-> Allocate(FieldLoad, Anchor, AnchorCapacity)]

TrunkPower(active) == IF active THEN TrunkCapacity ELSE 0

\* recalcEdge, after trunk t ("a" or "b") has become active or not.
WithTrunk(e, t, active) ==
  LET a == IF t = "a" THEN active ELSE e.a
      b == IF t = "b" THEN active ELSE e.b
      served == Lesser(EdgeDemand, TrunkPower(a) + TrunkPower(b))
  IN [a |-> a, b |-> b, served |-> served, held |-> EdgeDemand - served]

WholeEdge == [a |-> TRUE, b |-> TRUE, served |-> EdgeDemand, held |-> 0]

\* An energy tick, as a record of its five amounts, is balanced.
Balanced(x) == x.in = x.work + x.stored + x.heat + x.returned
NoEnergy == [in |-> 0, work |-> 0, stored |-> 0, heat |-> 0, returned |-> 0]
Sum5(x, y) ==
  [in |-> x.in + y.in, work |-> x.work + y.work, stored |-> x.stored + y.stored,
   heat |-> x.heat + y.heat, returned |-> x.returned + y.returned]

\* deny: the state of before the command, halted.
Deny(s, code) == [accepted |-> FALSE, state |-> [s EXCEPT !.halted = TRUE, !.code = code]]

\* accept
Accept(s) ==
  [accepted |-> TRUE,
   state |-> [s EXCEPT !.tick = s.tick + 1, !.halted = FALSE, !.code = None]]
=============================================================================
