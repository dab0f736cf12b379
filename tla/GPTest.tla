-------------------------------- MODULE GPTest --------------------------------
(***************************************************************************)
(* GP-TEST-001 (gp-test-001.ts): a state, and applyGPCommand from a state  *)
(* and a command to a result.  Quantities are integers.  Islands and       *)
(* watersheds, which no command reads, are left out.                       *)
(*                                                                         *)
(* A definition named Mutant_* is a wrong form of the one below it.        *)
(***************************************************************************)
EXTENDS WorldParts

CONSTANTS
  Pump, PumpCapacity, Zone, ZoneCapacity,
  Stock,          \* what each water store holds at the beginning
  StoreCapacity,
  Heat,           \* resident, environmental and system heat at the beginning
  ReuseCapacity, ReturnCapacity, GreenBuffer, AmberBuffer

WaterStore == {"ocean", "groundwater", "central", "surface", "lung"}

\* createGPTest001Baseline
Baseline ==
  [tick |-> 0, halted |-> FALSE, code |-> None,
   water |-> Stock, pumps |-> [p \in Pump |-> TRUE], zones |-> [z \in Zone |-> TRUE],
   fields |-> [f \in Field |-> WholeField], edges |-> [e \in Edge |-> WholeEdge],
   symbols |-> [x \in Sector |-> [online |-> TRUE, band |-> "GREEN"]],
   thermal |-> [resident |-> Heat.resident, environmental |-> Heat.environmental,
                system |-> Heat.system, buffer |-> 0, reused |-> 0, returned |-> 0,
                band |-> "GREEN"],
   energy |-> NoEnergy]

\* totalWater
TotalWater(s) ==
  s.water["ocean"] + s.water["groundwater"] + s.water["central"] + s.water["surface"]
    + s.water["lung"]

\* activePumpCapacity, activeReturnCapacity
ActivePumpCapacity(s) == PumpCapacity * Cardinality({p \in Pump : s.pumps[p]})
ActiveReturnCapacity(s) == ZoneCapacity * Cardinality({z \in Zone : s.zones[z]})

IsolateAnchor(s, f, a) ==
  IF f \notin Field THEN Deny(s, "FIELD_NOT_FOUND")
  ELSE IF a \notin Anchor THEN Deny(s, "ANCHOR_NOT_ACTIVE")
  ELSE IF ~s.fields[f].anchors[a] THEN Deny(s, "ANCHOR_NOT_ACTIVE")
  ELSE Accept([s EXCEPT !.fields[f] = WithoutAnchor(s.fields[f], a)])

IsolatePump(s, p) ==
  IF p \notin Pump THEN Deny(s, "PUMP_NOT_ACTIVE")
  ELSE IF ~s.pumps[p] THEN Deny(s, "PUMP_NOT_ACTIVE")
  ELSE Accept([s EXCEPT !.pumps[p] = FALSE])

IsolateZone(s, z) ==
  IF z \notin Zone THEN Deny(s, "RETURN_ZONE_NOT_ACTIVE")
  ELSE IF ~s.zones[z] THEN Deny(s, "RETURN_ZONE_NOT_ACTIVE")
  ELSE Accept([s EXCEPT !.zones[z] = FALSE])

Mutant_ServesCriticalLast(s, e, t) ==
  IF e \notin Edge THEN Deny(s, "EDGE_NOT_FOUND")
  ELSE IF ~s.edges[e][t] THEN Deny(s, "TRUNK_NOT_ACTIVE")
  ELSE LET new == WithTrunk(s.edges[e], t, FALSE) IN
       IF new.served < CriticalDemand
         THEN Deny([s EXCEPT !.edges[e] = new], "CRITICAL_POWER_UNSERVED")
       ELSE Accept([s EXCEPT !.edges[e] = new])
IsolateTrunk(s, e, t) ==
  IF e \notin Edge THEN Deny(s, "EDGE_NOT_FOUND")
  ELSE IF ~s.edges[e][t] THEN Deny(s, "TRUNK_NOT_ACTIVE")
  ELSE LET new == WithTrunk(s.edges[e], t, FALSE) IN
       IF new.served < CriticalDemand THEN Deny(s, "CRITICAL_POWER_UNSERVED")
       ELSE Accept([s EXCEPT !.edges[e] = new])

SetSymbolRed(s, x) ==
  IF x \notin Sector THEN Deny(s, "SYMBOL_NOT_FOUND")
  ELSE Accept([s EXCEPT !.symbols[x] = [online |-> FALSE, band |-> "RED"]])

SetResidentHeat(s, units) ==
  IF units < 0 THEN Deny(s, "INVALID_HEAT") ELSE Accept([s EXCEPT !.thermal.resident = units])

\* classifyBuffer
ClassifyBuffer(buffer) ==
  IF buffer <= GreenBuffer THEN "GREEN" ELSE IF buffer <= AmberBuffer THEN "AMBER" ELSE "RED"

ThermalTick(s) ==
  LET t == s.thermal
      source == t.resident + t.environmental + t.system
      reused == Lesser(source, ReuseCapacity)
      returned == Lesser(source - reused, ReturnCapacity)
      buffer == source - reused - returned
  IN Accept([s EXCEPT !.thermal = [t EXCEPT !.reused = reused, !.returned = returned,
                                     !.buffer = buffer, !.band = ClassifyBuffer(buffer)]])

\* The last check can only fail on a state that already holds another total.
WaterTransfer(s, from, to, units) ==
  IF units < 0 \/ from = to THEN Deny(s, "INVALID_WATER_TRANSFER")
  ELSE IF units > s.water[from] THEN Deny(s, "WATER_SOURCE_UNDERFLOW")
  ELSE IF s.water[to] + units > StoreCapacity[to] THEN Deny(s, "WATER_DESTINATION_OVERFLOW")
  ELSE LET new == [s EXCEPT !.water[from] = s.water[from] - units,
                            !.water[to] = s.water[to] + units]
       IN IF TotalWater(new) # TotalWater(Baseline) THEN Deny(s, "WATER_CONSERVATION_FAILURE")
          ELSE Accept(new)

EnergyTick(s, x) ==
  IF ~Balanced(x) THEN Deny(s, "ENERGY_IMBALANCE")
  ELSE Accept([s EXCEPT !.energy = Sum5(s.energy, x)])

\* applyGPCommand
Apply(s, c) ==
  IF s.halted THEN Deny(s, "STATE_HALTED")
  ELSE CASE c.type = "ISOLATE_ANCHOR" -> IsolateAnchor(s, c.field, c.anchor)
         [] c.type = "ISOLATE_PUMP" -> IsolatePump(s, c.pump)
         [] c.type = "ISOLATE_RETURN_ZONE" -> IsolateZone(s, c.zone)
         [] c.type = "ISOLATE_TRUNK" -> IsolateTrunk(s, c.edge, c.trunk)
         [] c.type = "SET_SYMBOL_RED" -> SetSymbolRed(s, c.sector)
         [] c.type = "SET_RESIDENT_HEAT" -> SetResidentHeat(s, c.units)
         [] c.type = "THERMAL_TICK" -> ThermalTick(s)
         [] c.type = "WATER_TRANSFER" -> WaterTransfer(s, c.from, c.to, c.units)
         [] c.type = "ENERGY_TICK" -> EnergyTick(s, c.amounts)
         [] OTHER -> Deny(s, "UNKNOWN_COMMAND")
=============================================================================
