----------------------------- MODULE LocalAdapter -----------------------------
(***************************************************************************)
(* The local runtime adapter (local-runtime-adapter.ts, consumer-host.ts): *)
(* the fourteen canary scenarios on GP-TEST-001 with its real quantities,  *)
(* and what the server answers.  The server keeps no state: a request is a *)
(* function of the request and of the files it reads.  Texts, content      *)
(* types and hashes of bodies are left out; two states have one hash when  *)
(* they are equal.                                                         *)
(***************************************************************************)
EXTENDS Integers, Sequences, Functions, SequencesExt

CONSTANT None

\* GP_TEST_001 and the stocks of createGPTest001Baseline
NormalWaterCommand == 10000
InitialWater == 12000000

GP == INSTANCE GPTest WITH
  Field <- 1..12, Anchor <- 1..5, FieldLoad <- 1000, AnchorCapacity <- 250,
  Edge <- 1..3, TrunkCapacity <- 600, EdgeDemand <- 1000, CriticalDemand <- 500,
  Sector <- 1..12, Pump <- 1..3, PumpCapacity <- 6000, Zone <- 1..9, ZoneCapacity <- 1500,
  Stock <- [ocean |-> 7200000, groundwater |-> 2400000, central |-> 1200000,
            surface |-> 600000, lung |-> 600000],
  StoreCapacity <- [ocean |-> 8000000, groundwater |-> 3000000, central |-> 2000000,
                    surface |-> 1000000, lung |-> 1000000],
  Heat <- [resident |-> 360, environmental |-> 240, system |-> 400],
  ReuseCapacity <- 600, ReturnCapacity <- 500, GreenBuffer <- 100, AmberBuffer <- 300

\* replayGPCommands: it stops at the first command that is denied.
Replay(commands) ==
  LET step(r, c) == IF r.accepted THEN GP!Apply(r.state, c) ELSE r
  IN FoldLeft(step, [accepted |-> TRUE, state |-> GP!Baseline], commands).state

-----------------------------------------------------------------------------
Anchor1(a) == [type |-> "ISOLATE_ANCHOR", field |-> 1, anchor |-> a]
Pump1 == [type |-> "ISOLATE_PUMP", pump |-> 1]
Zone1 == [type |-> "ISOLATE_RETURN_ZONE", zone |-> 1]
Trunk1 == [type |-> "ISOLATE_TRUNK", edge |-> 1, trunk |-> "a"]
Red1 == [type |-> "SET_SYMBOL_RED", sector |-> 1]
Resident(n) == [type |-> "SET_RESIDENT_HEAT", units |-> n]
Tick == [type |-> "THERMAL_TICK"]
Pour(from, n) == [type |-> "WATER_TRANSFER", from |-> from, to |-> "central", units |-> n]
Unbalanced ==
  [type |-> "ENERGY_TICK",
   amounts |-> [in |-> 999, work |-> 600, stored |-> 100, heat |-> 200, returned |-> 100]]

\* The commands of GPF-001 to GPF-014.
Scenario ==
  << <<Anchor1(1)>>, <<Anchor1(1), Anchor1(2)>>, <<Pump1>>, <<Zone1>>, <<Trunk1>>, <<Red1>>,
     <<Resident(600), Tick>>, <<Pour("surface", 600001)>>, <<Pour("ocean", 800001)>>,
     <<Unbalanced>>, <<Anchor1(1), Trunk1, Red1, Resident(600), Tick>>,
     <<Pump1, Zone1, Resident(600), Tick>>, <<Pump1, Red1>>,
     <<Pour("surface", 600001), Resident(999)>> >>

\* runGPScenario: whether scenario n passes.
Passes(n) ==
  LET final == Replay(Scenario[n])
      field == final.fields[1]
      edge == final.edges[1]
      water == GP!TotalWater(final) = InitialWater
      carried == field.status = "NORMAL" /\ SumFunction(field.alloc) = 1000
  IN CASE n = 1 -> carried
       [] n = 2 -> field.status = "DEGRADED"
       [] n = 3 -> GP!ActivePumpCapacity(final) = 12000 /\ 12000 > NormalWaterCommand
       [] n = 4 -> GP!ActiveReturnCapacity(final) = 12000 /\ 12000 > NormalWaterCommand
       [] n = 5 -> edge.served = 600 /\ edge.held = 400
       [] n = 6 -> /\ final.symbols[1] = [online |-> FALSE, band |-> "RED"]
                   /\ \A x \in 2..12 : final.symbols[x].online
       [] n = 7 -> final.thermal.buffer = 140 /\ final.thermal.band = "AMBER"
       [] n = 8 -> final.halted /\ final.code = "WATER_SOURCE_UNDERFLOW" /\ water
       [] n = 9 -> final.halted /\ final.code = "WATER_DESTINATION_OVERFLOW" /\ water
       [] n = 10 -> final.halted /\ final.code = "ENERGY_IMBALANCE" /\ final.energy.in = 0
       [] n = 11 -> /\ field.status = "NORMAL" /\ edge.held = 400 /\ ~final.symbols[1].online
                    /\ final.thermal.band = "AMBER" /\ water /\ ~final.halted
       [] n = 12 -> final = Replay(Scenario[n])
       [] n = 13 -> final # GP!Baseline
       [] n = 14 -> final.halted

-----------------------------------------------------------------------------
\* The files of a hosted build, each "right", of another "size", of another
\* "hash", "directory" or "missing"; the markers are in the bundle, and only
\* there, when its bytes are right.
BuildFile == {"index", "script", "style", "icon", "robots"}
FileState == {"right", "size", "hash", "directory", "missing"}

\* inspectPressureboundBuild: the files that fail.  A bundle that is a
\* directory makes the read throw, which the server does not catch.
Inspect(files) ==
  [throws |-> files["script"] = "directory",
   failures |-> {f \in BuildFile : files[f] # "right"}]

Says(status, body) == [status |-> status, body |-> body]
Thrown == Says(0, None)   \* an exception that ends the process

\* readPressureboundHostedAsset: the build is inspected, then the file is
\* read again; between the two another process may have written it.
HostedAsset(file, inspected, read) ==
  LET i == Inspect(inspected) IN
  IF i.throws THEN Thrown
  ELSE IF i.failures # {} THEN Says(503, None)
  ELSE IF read[file] \in {"directory", "missing"} THEN Thrown
  ELSE Says(200, read[file])

\* pressureboundConsumerHandshake, and the status it is sent with.
Handshake(files) ==
  LET i == Inspect(files) IN
  IF i.throws THEN Thrown
  ELSE IF i.failures = {} THEN Says(200, "ok") ELSE Says(503, "hold")

\* The handler of createLocalRuntimeAdapterServer.  A path is its kind and
\* what it names.
Respond(method, path, bodyLength, inspected, read) ==
  IF method = "GET" /\ path.kind = "health" THEN Says(200, "ok")
  ELSE IF method = "GET" /\ path.kind = "handshake" THEN Handshake(inspected)
  ELSE IF method = "GET" /\ path.kind = "asset" /\ path.name \in BuildFile
    THEN HostedAsset(path.name, inspected, read)
  ELSE IF method = "GET" /\ path.kind = "baseline" THEN Says(200, GP!Baseline)
  ELSE IF method = "GET" /\ path.kind = "scenarios" THEN Says(200, DOMAIN Scenario)
  ELSE IF path.kind # "scenario" THEN Says(404, "NOT_FOUND")
  ELSE IF method # "POST" THEN Says(405, "METHOD_NOT_ALLOWED")
  ELSE IF bodyLength > 0 THEN Says(400, "REQUEST_BODY_NOT_ALLOWED")
  ELSE IF path.name \notin DOMAIN Scenario THEN Says(404, "SCENARIO_NOT_FOUND")
  ELSE Says(200, [id |-> path.name, pass |-> Passes(path.name)])

-----------------------------------------------------------------------------
\* The canaries that qualify an installation all pass on this source.
CanariesPass == \A n \in DOMAIN Scenario : Passes(n)

\* An asset is served only from a build whose files are all right, as long
\* as none changes during the request; a failed file holds every asset.
AssetsAreVerified ==
  \A files \in [BuildFile -> FileState], f \in BuildFile :
    LET r == HostedAsset(f, files, files) IN
    /\ r.status = 200 <=> \A g \in BuildFile : files[g] = "right"
    /\ r.status = 200 => r.body = "right" /\ Handshake(files).status = 200
=============================================================================
