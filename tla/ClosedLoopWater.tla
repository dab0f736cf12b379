--------------------------- MODULE ClosedLoopWater ---------------------------
(***************************************************************************)
(* The closed-loop water runtime (closed-loop-water-runtime.ts): a state,  *)
(* and applyWaterCommand from a state and a command to a result.  The      *)
(* geometry tables, the canonical text and its hash are left out.          *)
(*                                                                         *)
(* A definition named Mutant_* is a wrong form of the one below it.        *)
(***************************************************************************)
EXTENDS Integers, FiniteSets

CONSTANTS
  None,
  Train, TrainCapacity,          \* pump trains
  BeltSector, SectorCapacity,    \* sectors of the belt
  NormalFlow,
  Nominal,                       \* what each pool holds at the beginning
  PoolCapacity                   \* Unlimited for the pools without a limit

Pool == {"ocean", "aquifer", "lakePond", "lungReturn", "groundwater"}
Unlimited == -1

\* createBaselineWaterState; nothing is ever in flight.
Baseline ==
  [tick |-> 0, water |-> Nominal,
   trains |-> [p \in Train |-> TRUE], sectors |-> [b \in BeltSector |-> TRUE],
   belt |-> NormalFlow, halted |-> FALSE, code |-> None]

\* totalWater
TotalWater(s) ==
  s.water["ocean"] + s.water["aquifer"] + s.water["lakePond"] + s.water["lungReturn"]
    + s.water["groundwater"]

\* activePumpCapacity, activeBeltCapacity
ActivePumpCapacity(s) == TrainCapacity * Cardinality({p \in Train : s.trains[p]})
ActiveBeltCapacity(s) == SectorCapacity * Cardinality({b \in BeltSector : s.sectors[b]})

\* deny; no command that is accepted clears the code, as it is clear.
Deny(s, code) ==
  [accepted |-> FALSE, state |-> [s EXCEPT !.halted = TRUE, !.code = code]]
Accept(s) == [accepted |-> TRUE, state |-> s]

TickNormal(s) ==
  IF ActivePumpCapacity(s) < NormalFlow THEN Deny(s, "PUMP_CAPACITY_EXCEEDED")
  ELSE IF ActiveBeltCapacity(s) < NormalFlow THEN Deny(s, "BELT_CAPACITY_EXCEEDED")
  ELSE Accept([s EXCEPT !.tick = @ + 1, !.belt = NormalFlow])

\* ISOLATE_PUMP and RESTORE_PUMP, ISOLATE_SECTOR and RESTORE_SECTOR
SetPump(s, p, active) ==
  IF p \notin Train THEN Deny(s, "UNKNOWN_PUMP")
  ELSE Accept([s EXCEPT !.trains[p] = active])
SetSector(s, b, active) ==
  IF b \notin BeltSector THEN Deny(s, "UNKNOWN_SECTOR")
  ELSE Accept([s EXCEPT !.sectors[b] = active])

\* beltCommandLimit: the least of the limits.  A negative one throws, which
\* leaves the state as it is.
BeltLimit(s, acceptance) ==
  LET limits == acceptance \cup {NormalFlow, ActiveBeltCapacity(s)} IN
  CHOOSE n \in limits : \A m \in limits : n <= m

BeltCommand(s, acceptance) ==
  IF \E n \in acceptance : n < 0 THEN [accepted |-> FALSE, state |-> s]
  ELSE Accept([s EXCEPT !.belt = BeltLimit(s, acceptance)])

\* Both values are read before either is written, so a pool that receives
\* from itself ends with the units added.
Mutant_OverflowsByOne(s, from, to, units) ==
  IF units < 0 THEN Deny(s, "INVALID_TRANSFER")
  ELSE IF units > s.water[from] THEN Deny(s, "SOURCE_UNDERFLOW")
  ELSE IF PoolCapacity[to] # Unlimited /\ s.water[to] > PoolCapacity[to]
    THEN Deny(s, "DESTINATION_OVERFLOW")
  ELSE Accept([s EXCEPT !.water =
         [s.water EXCEPT ![from] = s.water[from] - units, ![to] = s.water[to] + units]])
Transfer(s, from, to, units) ==
  IF units < 0 THEN Deny(s, "INVALID_TRANSFER")
  ELSE IF units > s.water[from] THEN Deny(s, "SOURCE_UNDERFLOW")
  ELSE IF PoolCapacity[to] # Unlimited /\ s.water[to] + units > PoolCapacity[to]
    THEN Deny(s, "DESTINATION_OVERFLOW")
  ELSE Accept([s EXCEPT !.water =
         [s.water EXCEPT ![from] = s.water[from] - units, ![to] = s.water[to] + units]])

\* applyWaterCommand
Apply(s, c) ==
  IF s.halted THEN [accepted |-> FALSE, state |-> s]
  ELSE CASE c.type = "TICK_NORMAL" -> TickNormal(s)
         [] c.type = "SET_PUMP" -> SetPump(s, c.pump, c.active)
         [] c.type = "SET_SECTOR" -> SetSector(s, c.sector, c.active)
         [] c.type = "BELT_COMMAND" -> BeltCommand(s, c.acceptance)
         [] c.type = "TRANSFER" -> Transfer(s, c.from, c.to, c.units)
=============================================================================
