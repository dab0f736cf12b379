-------------------------------- MODULE Worlds --------------------------------
(***************************************************************************)
(* The world engines under any sequence of commands: GP-TEST-001, the      *)
(* structural-thermal simulation, the closed-loop water runtime and the    *)
(* Stone room.  Each is a state and a pure function that its host calls    *)
(* with one command after the other; they share no state, so a behaviour   *)
(* is of one of them.  Commands may name what does not exist, carry        *)
(* negative amounts, and come after the engine has halted.                 *)
(***************************************************************************)
EXTENDS Integers, FiniteSets, Functions

CONSTANTS
  None, Unknown,                   \* Unknown: an id of no part
  Field, Anchor, FieldLoad, AnchorCapacity,
  Edge, TrunkCapacity, EdgeDemand, CriticalDemand, Sector,
  Pump, PumpCapacity, Zone, ZoneCapacity, Stock, StoreCapacity,
  Heat, ReuseCapacity, ReturnCapacity, GreenBuffer, AmberBuffer,
  Relay, ServiceReturnCapacity,
  Train, TrainCapacity, BeltSector, SectorCapacity, NormalFlow, Nominal, PoolCapacity,
  Plate,
  Units, Amounts,   \* bounds: the quantities and the energy ticks of commands
  MaxTick, MaxBeltTick, MaxHeld  \* bounds: accepted commands, ticks, water brought in

GP == INSTANCE GPTest
Sim == INSTANCE StructuralThermal
Water == INSTANCE ClosedLoopWater
Room == INSTANCE StoneRoom

\* The codes that the engines deny commands with.
DenialCode ==
  {"STATE_HALTED", "UNKNOWN_COMMAND", "FIELD_NOT_FOUND", "ANCHOR_NOT_ACTIVE",
   "LOAD_TRANSFER_INSUFFICIENT", "EDGE_NOT_FOUND", "TRUNK_NOT_ACTIVE", "CRITICAL_POWER_UNSERVED",
   "RELAY_NOT_ACTIVE", "SYMBOL_NOT_FOUND", "SYMBOL_SECTOR_NOT_FOUND", "PUMP_NOT_ACTIVE",
   "RETURN_ZONE_NOT_ACTIVE", "INVALID_HEAT", "SERVICE_HEAT_UNDERFLOW", "ENERGY_IMBALANCE",
   "INVALID_WATER_TRANSFER", "WATER_SOURCE_UNDERFLOW", "WATER_DESTINATION_OVERFLOW",
   "WATER_CONSERVATION_FAILURE", "UNKNOWN_PUMP", "UNKNOWN_SECTOR", "PUMP_CAPACITY_EXCEEDED",
   "BELT_CAPACITY_EXCEEDED", "INVALID_TRANSFER", "SOURCE_UNDERFLOW", "DESTINATION_OVERFLOW"}

ASSUME NoneAssumption == None \notin DenialCode \cup GP!Allocations

\* The anchors of a whole field carry its load, the trunks of a whole edge
\* its demand.
ASSUME StructureAssumption ==
  /\ IsFiniteSet(Anchor) /\ Anchor \subseteq Nat
  /\ {FieldLoad, AnchorCapacity, TrunkCapacity, EdgeDemand, CriticalDemand} \subseteq Nat
  /\ 0 < FieldLoad /\ FieldLoad <= AnchorCapacity * Cardinality(Anchor)
  /\ CriticalDemand <= EdgeDemand /\ EdgeDemand <= 2 * TrunkCapacity

ASSUME WaterAssumption ==
  /\ Stock \in [GP!WaterStore -> Nat] /\ StoreCapacity \in [GP!WaterStore -> Nat]
  /\ \A k \in GP!WaterStore : Stock[k] <= StoreCapacity[k]
  /\ Nominal \in [Water!Pool -> Nat]
  /\ PoolCapacity \in [Water!Pool -> Nat \cup {Water!Unlimited}]
  /\ \A k \in Water!Pool : PoolCapacity[k] = Water!Unlimited \/ Nominal[k] <= PoolCapacity[k]
  /\ IsFiniteSet(Pump) /\ IsFiniteSet(Zone) /\ IsFiniteSet(Train) /\ IsFiniteSet(BeltSector)
  /\ {PumpCapacity, ZoneCapacity, TrainCapacity, SectorCapacity, NormalFlow} \subseteq Nat

\* The room has three plates.
ASSUME RoomAssumption == IsFiniteSet(Plate) /\ Cardinality(Plate) = 3

ASSUME HeatAssumption ==
  /\ Heat \in [{"resident", "environmental", "system"} -> Nat]
  /\ {ReuseCapacity, ReturnCapacity, GreenBuffer, AmberBuffer, ServiceReturnCapacity} \subseteq Nat

ASSUME InputAssumption ==
  /\ Units \subseteq Int /\ MaxTick \in Nat /\ MaxBeltTick \in Nat /\ MaxHeld \in Nat
  /\ Amounts \subseteq [in : Int, work : Int, stored : Int, heat : Int, returned : Int]

VARIABLES
  kind,    \* the engine
  st,      \* its state
  brought  \* water or heat that accepted commands added; a ghost

vars == <<kind, st, brought>>

Begin ==
  [gp |-> GP!Baseline, sim |-> Sim!Baseline, water |-> Water!Baseline, room |-> Room!NewRoom]

Init == kind \in DOMAIN Begin /\ st = Begin[kind] /\ brought = 0

-----------------------------------------------------------------------------
\* The commands that both simulations have.
StructureCommand ==
  [type : {"ISOLATE_ANCHOR"}, field : Field \cup {Unknown}, anchor : Anchor \cup {0}]
    \cup [type : {"ISOLATE_TRUNK"}, edge : Edge \cup {Unknown}, trunk : {"a", "b"}]
    \cup [type : {"ENERGY_TICK"}, amounts : Amounts]
    \cup [type : {"OTHER"}]

GPCommand ==
  StructureCommand
    \cup [type : {"ISOLATE_PUMP"}, pump : Pump \cup {Unknown}]
    \cup [type : {"ISOLATE_RETURN_ZONE"}, zone : Zone \cup {Unknown}]
    \cup [type : {"SET_SYMBOL_RED"}, sector : Sector \cup {Unknown}]
    \cup [type : {"SET_RESIDENT_HEAT"}, units : Units]
    \cup [type : {"THERMAL_TICK"}]
    \cup [type : {"WATER_TRANSFER"}, from : GP!WaterStore, to : GP!WaterStore, units : Units]

SimCommand ==
  StructureCommand
    \cup [type : {"ISOLATE_FIELD"}, field : Field \cup {Unknown}, units : {FieldLoad - 1, FieldLoad}]
    \cup [type : {"RESTORE_TRUNK"}, edge : Edge \cup {Unknown}, trunk : {"a", "b"}]
    \cup [type : {"ISOLATE_RELAY"}, relay : Relay \cup {Unknown}]
    \cup [type : {"SET_SYMBOL_OFFLINE"}, sector : Sector \cup {Unknown}]
    \cup [type : {"SET_SYMBOL_THERMAL"}, sector : Sector \cup {Unknown}, band : {"GREEN", "RED"}]
    \cup [type : {"ADD_HEAT"}, source : {"resident", "environmental", "system"}, units : Units]
    \cup [type : {"COLLECT_HEAT"}]
    \cup [type : {"REUSE_SERVICE_HEAT", "RETURN_SERVICE_HEAT"}, units : Units]

WaterCommand ==
  [type : {"TICK_NORMAL"}]
    \cup [type : {"SET_PUMP"}, pump : Train \cup {Unknown}, active : BOOLEAN]
    \cup [type : {"SET_SECTOR"}, sector : BeltSector \cup {Unknown}, active : BOOLEAN]
    \cup [type : {"BELT_COMMAND"}, acceptance : {{n, NormalFlow} : n \in Units}]
    \cup [type : {"TRANSFER"}, from : Water!Pool, to : Water!Pool, units : Units]

RoomAction ==
  [type : {"EnterRoom", "RecordLedger"}]
    \cup [type : {"TestAnchor", "CastAnchorPulse", "ReleaseAnchor", "ForceBreak"},
          plate : Plate \cup {Unknown}]
    \cup [type : {"NameProtection", "NameReleaseCondition"}, plate : Plate, named : BOOLEAN]

-----------------------------------------------------------------------------
\* applyGPCommand, called with any command.
ApplyGP ==
  /\ kind = "gp" /\ st.tick < MaxTick
  /\ \E c \in GPCommand : st' = GP!Apply(st, c).state
  /\ UNCHANGED <<kind, brought>>

\* applySimulationCommand
ApplySimulation ==
  /\ kind = "sim" /\ st.tick < MaxTick
  /\ \E c \in SimCommand :
       LET r == Sim!Apply(st, c) IN
       /\ st' = r.state
       /\ brought' = brought + (IF r.accepted /\ c.type = "ADD_HEAT" THEN c.units ELSE 0)
  /\ UNCHANGED kind

\* applyWaterCommand
ApplyWater ==
  /\ kind = "water" /\ st.tick < MaxBeltTick
  /\ \E c \in WaterCommand :
       LET r == Water!Apply(st, c) IN
       /\ st' = r.state
       /\ brought' = brought + (IF r.accepted /\ c.type = "TRANSFER" /\ c.from = c.to
                                  THEN c.units ELSE 0)
       /\ brought' <= MaxHeld
  /\ UNCHANGED kind

\* applyStoneRoomAction
ApplyRoom ==
  /\ kind = "room"
  /\ \E a \in RoomAction : st' = Room!Apply(st, a)
  /\ UNCHANGED <<kind, brought>>

Next == ApplyGP \/ ApplySimulation \/ ApplyWater \/ ApplyRoom

Spec == Init /\ [][Next]_vars
-----------------------------------------------------------------------------
FieldState ==
  [anchors : [Anchor -> BOOLEAN], status : {"NORMAL", "DEGRADED", "ISOLATED"},
   alloc : GP!Allocations]
EdgeState ==
  [a : BOOLEAN, b : BOOLEAN, served : 0..EdgeDemand, held : 0..EdgeDemand]

\* The states keep their types: stores never overflow or underflow, served
\* and allocated quantities stay within demand and capacity, and the
\* pressures of the room stay between 0 and 1.
TypeOK ==
  /\ kind \in DOMAIN Begin /\ brought \in Nat
  /\ kind \in {"gp", "sim"} =>
       /\ st.tick \in Nat /\ st.halted \in BOOLEAN /\ st.halted = (st.code # None)
       /\ st.code \in DenialCode \cup {None}
       /\ st.fields \in [Field -> FieldState] /\ st.edges \in [Edge -> EdgeState]
       /\ st.symbols \in [Sector -> [online : BOOLEAN, band : {"GREEN", "AMBER", "RED"}]]
  /\ kind = "gp" => \A k \in GP!WaterStore : st.water[k] \in 0..StoreCapacity[k]
  /\ kind = "water" =>
       /\ st.belt \in 0..NormalFlow
       /\ \A k \in Water!Pool : st.water[k] \in Nat
            /\ (PoolCapacity[k] # Water!Unlimited => st.water[k] <= PoolCapacity[k])
  /\ kind = "room" =>
       /\ st.phase \in {"Dormant", "Entered", "Reading", "Casting", "Releasing", "Resolved", "Failed"}
       /\ {st.tremor, st.seal, st.passage} \subseteq 0..Room!One
       /\ st.plates \in [Plate -> [Room!Mark -> BOOLEAN]]

\* The books balance after any commands: GP-TEST-001 holds the water it
\* began with; the heat of the simulation, source, service, reused and
\* returned, is what was added and what energy ticks generated; energy in is
\* work, stored, heat and returned.  The closed loop holds what it began
\* with and what transfers from a pool to itself made, nothing else.
AccountsBalance ==
  /\ kind = "gp" => GP!TotalWater(st) = GP!TotalWater(GP!Baseline) /\ GP!Balanced(st.energy)
  /\ kind = "sim" => /\ Sim!TotalThermalAccounted(st.thermal) = brought + st.energy.heat
                     /\ Sim!Balanced(st.energy)
  /\ kind = "water" => Water!TotalWater(st) = Water!TotalWater(Water!Baseline) + brought

\* What an engine reports as served is served: whatever fails, an edge gets
\* its critical demand, all that its active trunks carry up to the demand,
\* and the rest is reported held; a NORMAL field carries its load on its
\* active anchors and no others, a DEGRADED one has too few of them left; a
\* sector in the RED band is offline.
ServiceIsHonest ==
  kind \in {"gp", "sim"} =>
    /\ \A e \in Edge :
         LET x == st.edges[e]
             power == GP!TrunkPower(x.a) + GP!TrunkPower(x.b) IN
         /\ CriticalDemand <= x.served /\ x.served <= power /\ x.served + x.held = EdgeDemand
         /\ x.held = 0 \/ x.served = power
    /\ \A f \in Field :
         LET x == st.fields[f]
             active == {a \in Anchor : x.anchors[a]} IN
         CASE x.status = "NORMAL" -> DOMAIN x.alloc = active /\ SumFunction(x.alloc) = FieldLoad
           [] x.status = "DEGRADED" -> AnchorCapacity * Cardinality(active) < FieldLoad
           [] x.status = "ISOLATED" -> active = {}
    /\ \A x \in Sector : st.symbols[x].band = "RED" => ~st.symbols[x].online

\* A command that halts an engine leaves the rest of its state as it was, and
\* so does every later one: nothing of a denied command is kept.
HaltTouchesNothing ==
  [][kind # "room" /\ st'.halted =>
       st' = [st EXCEPT !.halted = TRUE, !.code = st'.code]]_vars

\* A room is resolved only when every plate has been found, named for what
\* it protects and for its release, held and released, with the passage open
\* and the seal loose, so that its ledger has no plate without a name and
\* no prison; and a release after which every plate is ready resolves the
\* room unless the seal is too strong: the pulses needed open the passage.
RoomResolvesComplete ==
  kind = "room" =>
    LET ready == \A p \in Plate : \A k \in Room!Mark : st.plates[p][k] IN
    /\ st.phase = "Resolved" => ready /\ st.passage >= 18 /\ st.seal < 10 /\ st.failure = None
    /\ st.ledger # None => st.phase = "Resolved" /\ st.ledger.unnamed = {} /\ ~st.ledger.prison
    /\ st.phase = "Releasing" /\ ready => st.seal >= 10
=============================================================================
