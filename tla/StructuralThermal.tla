--------------------------- MODULE StructuralThermal ---------------------------
(***************************************************************************)
(* The structural-thermal simulation (structural-thermal-simulation.ts): a *)
(* state, and applySimulationCommand from a state and a command to a       *)
(* result.  Quantities are integers.                                       *)
(*                                                                         *)
(* A definition named Mutant_* is a wrong form of the one below it.        *)
(***************************************************************************)
EXTENDS WorldParts

CONSTANTS Relay, ServiceReturnCapacity

Thermal == {"resident", "environmental", "system", "service", "reused", "returned"}

\* createBaselineSimulation
Baseline ==
  [tick |-> 0, halted |-> FALSE, code |-> None,
   fields |-> [f \in Field |-> WholeField], edges |-> [e \in Edge |-> WholeEdge],
   relays |-> [r \in Relay |-> TRUE],
   symbols |-> [x \in Sector |-> [online |-> TRUE, band |-> "GREEN"]],
   thermal |-> [k \in Thermal |-> 0], energy |-> NoEnergy]

\* sourceHeat, totalThermalAccounted; the stored heat stays 0.
SourceHeat(t) == t["resident"] + t["environmental"] + t["system"]
TotalThermalAccounted(t) == SourceHeat(t) + t["service"] + t["reused"] + t["returned"]

IsolateAnchor(s, f, a) ==
  IF f \notin Field THEN Deny(s, "FIELD_NOT_FOUND")
  ELSE IF a \notin Anchor THEN Deny(s, "ANCHOR_NOT_ACTIVE")
  ELSE IF ~s.fields[f].anchors[a] THEN Deny(s, "ANCHOR_NOT_ACTIVE")
  ELSE Accept([s EXCEPT !.fields[f] = WithoutAnchor(s.fields[f], a)])

IsolatedField ==
  [anchors |-> [a \in Anchor |-> FALSE], alloc |-> NoAllocation, status |-> "ISOLATED"]

IsolateField(s, f, transfer) ==
  IF f \notin Field THEN Deny(s, "FIELD_NOT_FOUND")
  ELSE IF transfer < FieldLoad THEN Deny(s, "LOAD_TRANSFER_INSUFFICIENT")
  ELSE Accept([s EXCEPT !.fields[f] = IsolatedField])

\* ISOLATE_TRUNK and RESTORE_TRUNK
SetTrunk(s, e, t, active) ==
  IF e \notin Edge THEN Deny(s, "EDGE_NOT_FOUND")
  ELSE LET new == WithTrunk(s.edges[e], t, active) IN
       IF new.served < CriticalDemand THEN Deny(s, "CRITICAL_POWER_UNSERVED")
       ELSE Accept([s EXCEPT !.edges[e] = new])

IsolateRelay(s, r) ==
  IF r \notin Relay THEN Deny(s, "RELAY_NOT_ACTIVE")
  ELSE IF ~s.relays[r] THEN Deny(s, "RELAY_NOT_ACTIVE")
  ELSE Accept([s EXCEPT !.relays[r] = FALSE])

SetSymbolOffline(s, x) ==
  IF x \notin Sector THEN Deny(s, "SYMBOL_SECTOR_NOT_FOUND")
  ELSE Accept([s EXCEPT !.symbols[x].online = FALSE])

Mutant_RedStaysOnline(s, x, band) ==
  IF x \notin Sector THEN Deny(s, "SYMBOL_SECTOR_NOT_FOUND")
  ELSE Accept([s EXCEPT !.symbols[x].band = band])
SetSymbolThermal(s, x, band) ==
  IF x \notin Sector THEN Deny(s, "SYMBOL_SECTOR_NOT_FOUND")
  ELSE Accept([s EXCEPT !.symbols[x] =
                 [online |-> @.online /\ band # "RED", band |-> band]])

\* ADD_RESIDENT_HEAT, ADD_ENVIRONMENTAL_HEAT, ADD_SYSTEM_HEAT
AddHeat(s, source, units) ==
  IF units < 0 THEN Deny(s, "INVALID_HEAT") ELSE Accept([s EXCEPT !.thermal[source] = @ + units])

CollectHeat(s) ==
  Accept([s EXCEPT !.thermal =
    [s.thermal EXCEPT !["service"] = @ + SourceHeat(s.thermal),
                      !["resident"] = 0, !["environmental"] = 0, !["system"] = 0]])

ReuseServiceHeat(s, units) ==
  IF units < 0 \/ units > s.thermal["service"] THEN Deny(s, "SERVICE_HEAT_UNDERFLOW")
  ELSE Accept([s EXCEPT !.thermal["service"] = @ - units, !.thermal["reused"] = @ + units])

\* No more is returned than the return capacity takes; the rest stays.
Mutant_ForgetsTheRest(s, units) ==
  IF units < 0 \/ units > s.thermal["service"] THEN Deny(s, "SERVICE_HEAT_UNDERFLOW")
  ELSE Accept([s EXCEPT !.thermal["service"] = @ - units,
                        !.thermal["returned"] = @ + Lesser(units, ServiceReturnCapacity)])
ReturnServiceHeat(s, units) ==
  IF units < 0 \/ units > s.thermal["service"] THEN Deny(s, "SERVICE_HEAT_UNDERFLOW")
  ELSE LET returned == Lesser(units, ServiceReturnCapacity) IN
       Accept([s EXCEPT !.thermal["service"] = @ - returned, !.thermal["returned"] = @ + returned])

\* The heat that the tick generates is heat of the system.
EnergyTick(s, x) ==
  IF ~Balanced(x) THEN Deny(s, "ENERGY_IMBALANCE")
  ELSE Accept([s EXCEPT !.energy = Sum5(@, x), !.thermal["system"] = @ + x.heat])

\* applySimulationCommand
Apply(s, c) ==
  IF s.halted THEN Deny(s, "STATE_HALTED")
  ELSE CASE c.type = "ISOLATE_ANCHOR" -> IsolateAnchor(s, c.field, c.anchor)
         [] c.type = "ISOLATE_FIELD" -> IsolateField(s, c.field, c.units)
         [] c.type = "ISOLATE_TRUNK" -> SetTrunk(s, c.edge, c.trunk, FALSE)
         [] c.type = "RESTORE_TRUNK" -> SetTrunk(s, c.edge, c.trunk, TRUE)
         [] c.type = "ISOLATE_RELAY" -> IsolateRelay(s, c.relay)
         [] c.type = "SET_SYMBOL_OFFLINE" -> SetSymbolOffline(s, c.sector)
         [] c.type = "SET_SYMBOL_THERMAL" -> SetSymbolThermal(s, c.sector, c.band)
         [] c.type = "ADD_HEAT" -> AddHeat(s, c.source, c.units)
         [] c.type = "COLLECT_HEAT" -> CollectHeat(s)
         [] c.type = "REUSE_SERVICE_HEAT" -> ReuseServiceHeat(s, c.units)
         [] c.type = "RETURN_SERVICE_HEAT" -> ReturnServiceHeat(s, c.units)
         [] c.type = "ENERGY_TICK" -> EnergyTick(s, c.amounts)
         [] OTHER -> Deny(s, "UNKNOWN_COMMAND")
=============================================================================
