-------------------------- MODULE UpdateChannelProofs --------------------------
(***************************************************************************)
(* Theorems about UpdateChannel for any builds and any number of failing   *)
(* steps and crashes.                                                      *)
(***************************************************************************)
EXTENDS UpdateChannel, TLAPS

-----------------------------------------------------------------------------
\* The inductive invariant.  It says where each script has its builds at
\* each of its steps (Places), that what has passed the canaries is current
\* (Tested), where the builds worth keeping are (Kept), and where a runnable
\* one is as long as nothing but a qualification has failed (Ready).

UpdateStep == DOMAIN UpdateThen \cup {"uLog", "uUndoLog"}
RollbackStep == DOMAIN RollbackThen \cup {"rLog", "rUndoLog"}

Empty(s) == dir[s] = None
Holds(s, v) == dir[s] # None /\ dir[s].ver = v

Places ==
  /\ pc = "idle" => Empty("stage") /\ Empty("hold") /\ Empty("failed")
  /\ pc \in UpdateStep => job.tool = "update"
  /\ pc \in RollbackStep => job.tool = "rollback"
  /\ pc \notin UpdateStep \cup RollbackStep \cup {"idle"} => job.tool \in {"install", "uninstall"}
  /\ pc \in {"uStop", "uClear", "uAside"} => Holds("current", job.from) /\ dir["stage"] = Whole(job.to)
  /\ pc = "uAside" => Empty("previous")
  /\ pc = "uSwap" => Empty("current") /\ Holds("previous", job.from) /\ dir["stage"] = Whole(job.to)
  /\ pc \in {"uTest", "uLog", "uUndoStop", "uUndoDrop"} =>
       dir["current"] = Whole(job.to) /\ Holds("previous", job.from)
  /\ pc = "uUndoMove" =>
       /\ Empty("current") \/ dir["current"].state # "whole"
       /\ Holds("previous", job.from)
  /\ pc \in {"uRetest", "uUndoLog"} =>
       dir["current"] # None /\ (dir["current"].state = "whole" => dir["current"].ver = job.from)
  /\ pc \in {"rStop", "rAside"} =>
       Holds("current", job.from) /\ Holds("previous", job.to) /\ Empty("hold") /\ Empty("failed")
  /\ pc = "rSwap" =>
       Empty("current") /\ Holds("previous", job.to) /\ Holds("hold", job.from) /\ Empty("failed")
  /\ pc \in {"rTest", "rKeep", "rUndoStop", "rUndoSwap"} =>
       Holds("current", job.to) /\ Empty("previous") /\ Holds("hold", job.from) /\ Empty("failed")
  /\ pc = "rLog" => Holds("current", job.to) /\ Holds("previous", job.from)
  /\ pc = "rUndoAside" =>
       Empty("current") /\ Empty("previous") /\ Holds("hold", job.from) /\ Holds("failed", job.to)
  /\ pc = "rUndoKeep" => Holds("current", job.from) /\ Empty("previous") /\ Holds("failed", job.to)
  /\ pc \in {"rRetest", "rUndoLog"} => Holds("current", job.from) /\ Holds("previous", job.to)

Tested == pc \in {"uLog", "uUndoLog", "rKeep", "rLog", "rUndoLog"} => Runnable(dir["current"]) /\ ~up

Kept ==
  job # None =>
    /\ job.tool \in {"install", "uninstall"} => job.keep = {}
    /\ pc = "idle" => job.keep \subseteq OnDisk
    /\ pc \in {"uStop", "uClear", "uAside", "uRetest", "uUndoLog"} =>
         job.keep \subseteq Contents(dir["current"])
    /\ pc \in {"uSwap", "uTest", "uLog", "uUndoStop", "uUndoDrop", "uUndoMove"} =>
         job.keep \subseteq Contents(dir["previous"])
    /\ pc \in RollbackStep =>
         job.keep \subseteq Contents(dir["current"]) \cup Contents(dir["previous"])
                              \cup Contents(dir["hold"]) \cup Contents(dir["failed"])

Ready ==
  job # None =>
    /\ job.before <= faults
    /\ job.tool \in {"update", "rollback"} /\ job.runnable /\ faults = job.before =>
         /\ pc \in {"idle", "uStop", "uClear", "uAside", "uRetest", "uUndoLog",
                    "rStop", "rAside", "rUndoKeep", "rRetest", "rUndoLog"} => Runnable(dir["current"])
         /\ pc \in {"uSwap", "uTest", "uUndoStop", "uUndoDrop", "uUndoMove"} => Runnable(dir["previous"])
         /\ pc \in {"rSwap", "rTest", "rUndoStop", "rUndoSwap", "rUndoAside"} => Runnable(dir["hold"])
         /\ pc = "uUndoMove" => Empty("current")
         /\ pc \in {"rUndoSwap", "uUndoDrop"} => ~up

IInv == TypeOK /\ Places /\ Tested /\ Kept /\ Ready

-----------------------------------------------------------------------------
\* What the tables of the scripts say.
LEMMA Tables ==
  /\ UpdateStep = {"uStop", "uClear", "uAside", "uSwap", "uTest", "uLog", "uUndoStop",
                   "uUndoDrop", "uUndoMove", "uRetest", "uUndoLog"}
  /\ RollbackStep = {"rStop", "rAside", "rSwap", "rTest", "rKeep", "rLog", "rUndoStop",
                     "rUndoSwap", "rUndoAside", "rUndoKeep", "rRetest", "rUndoLog"}
  /\ Moving = {"uAside", "uSwap", "uUndoMove", "rAside", "rSwap", "rKeep", "rUndoSwap",
               "rUndoAside", "rUndoKeep", "iAside", "iSwap", "iUndoMove"}
  /\ DOMAIN Caught = {"uTest", "rTest", "iAside", "iSwap", "iDrop"}
  /\ DOMAIN Logs = {"uLog", "uUndoLog", "rLog", "rUndoLog"}
  /\ Steps = {"idle", "iAside", "iSwap", "iDrop", "iUndoDrop", "iUndoMove", "xStop", "xRemove"}
               \cup UpdateStep \cup RollbackStep
BY DEF UpdateStep, RollbackStep, Moving, UpdateMoves, RollbackMoves, InstallMoves, UpdateThen,
       RollbackThen, InstallThen, Caught, Logs, Steps

LEMMA Order ==
  /\ Then("uStop") = "uClear" /\ Then("uClear") = "uAside" /\ Then("uAside") = "uSwap"
  /\ Then("uSwap") = "uTest" /\ Then("uTest") = "uLog" /\ Then("uUndoStop") = "uUndoDrop"
  /\ Then("uUndoDrop") = "uUndoMove" /\ Then("uUndoMove") = "uRetest"
  /\ Then("uRetest") = "uUndoLog"
  /\ Then("rStop") = "rAside" /\ Then("rAside") = "rSwap" /\ Then("rSwap") = "rTest"
  /\ Then("rTest") = "rKeep" /\ Then("rKeep") = "rLog" /\ Then("rUndoStop") = "rUndoSwap"
  /\ Then("rUndoSwap") = "rUndoAside" /\ Then("rUndoAside") = "rUndoKeep"
  /\ Then("rUndoKeep") = "rRetest" /\ Then("rRetest") = "rUndoLog"
  /\ Then("iAside") = "iSwap" /\ Then("iSwap") = "iDrop" /\ Then("iUndoDrop") = "iUndoMove"
  /\ Then("xStop") = "xRemove"
  /\ Caught["uTest"] = "uUndoStop" /\ Caught["rTest"] = "rUndoStop"
  /\ \A p \in {"iAside", "iSwap", "iDrop"} : Caught[p] = "iUndoDrop"
BY DEF Then, UpdateThen, RollbackThen, InstallThen, UninstallThen, Caught

LEMMA Routes ==
  /\ Ends("uAside") = <<"current", "previous">> /\ Ends("uSwap") = <<"stage", "current">>
  /\ Ends("uUndoMove") = <<"previous", "current">>
  /\ Ends("rAside") = <<"current", "hold">> /\ Ends("rSwap") = <<"previous", "current">>
  /\ Ends("rKeep") = <<"hold", "previous">> /\ Ends("rUndoSwap") = <<"current", "failed">>
  /\ Ends("rUndoAside") = <<"hold", "current">> /\ Ends("rUndoKeep") = <<"failed", "previous">>
  /\ Ends("iAside") = <<"current", "hold">> /\ Ends("iSwap") = <<"stage", "current">>
  /\ Ends("iUndoMove") = <<"hold", "current">>
BY DEF Ends, UpdateMoves, RollbackMoves, InstallMoves

-----------------------------------------------------------------------------
\* Directories.

Dirs == [Slot -> Tree \cup {None}]

LEMMA ContentsType == \A t \in Tree \cup {None} : Contents(t) \in SUBSET Version
BY DEF Contents, Tree

LEMMA WholeType == \A v \in Version : Whole(v) \in Tree /\ Whole(v) # None /\ Whole(v).ver = v
BY TreeAssumption DEF Whole, Tree

\* A move empties its source, renames it if the destination is free, and
\* loses nothing.
LEMMA MovedFacts ==
  ASSUME dir \in Dirs, NEW a \in Slot, NEW b \in Slot, a # b
  PROVE  /\ Moved(a, b) \in Dirs
         /\ Moved(a, b)[a] = None
         /\ \A s \in Slot \ {a, b} : Moved(a, b)[s] = dir[s]
         /\ dir[b] = None => Moved(a, b)[b] = dir[a]
         /\ dir[b] # None =>
              /\ Moved(a, b)[b] # None /\ Moved(a, b)[b].ver = dir[b].ver
              /\ Moved(a, b)[b].state = dir[b].state
         /\ Contents(dir[a]) \cup Contents(dir[b]) \subseteq Contents(Moved(a, b)[b])
<1>1. CASE dir[b] = None
  BY <1>1 DEF Moved, Dirs, Contents
<1>2. CASE dir[b] # None
  <2> DEFINE t == [dir[b] EXCEPT !.inner = dir[b].inner \cup Contents(dir[a])]
  <2>1. t \in Tree /\ t.ver = dir[b].ver /\ t.state = dir[b].state
        /\ t.inner = dir[b].inner \cup Contents(dir[a])
    BY <1>2, ContentsType DEF Dirs, Tree
  <2>2. Moved(a, b) = [dir EXCEPT ![b] = t, ![a] = None]
    BY <1>2 DEF Moved
  <2>3. t # None
    BY <2>1, TreeAssumption
  <2> HIDE DEF t
  <2>4. Moved(a, b)[b] = t /\ Moved(a, b)[a] = None
    BY <2>2 DEF Dirs
  <2>5. Contents(dir[a]) \cup Contents(dir[b]) \subseteq Contents(t)
    BY <1>2, <2>1, <2>3 DEF Contents
  <2> QED BY <1>2, <2>1, <2>2, <2>3, <2>4, <2>5 DEF Dirs
<1> QED BY <1>1, <1>2

\* A removal that stops half-way leaves a directory that is not whole.
LEMMA HalfRemovedFacts ==
  ASSUME dir \in Dirs, NEW s \in Slot, dir[s] # None, NEW d \in HalfRemoved(s)
  PROVE  /\ d \in Dirs /\ d[s] # None /\ d[s].state # "whole"
         /\ \A r \in Slot \ {s} : d[r] = dir[r]
<1>1. PICK st \in {"broken", "unmarked"}, i \in SUBSET dir[s].inner :
        d = [dir EXCEPT ![s].state = st, ![s].inner = i]
  <2>1. CASE Marked(s)
    BY <2>1 DEF HalfRemoved
  <2>2. CASE ~Marked(s)
    BY <2>2 DEF HalfRemoved
  <2> QED BY <2>1, <2>2
<1> DEFINE t == [dir[s] EXCEPT !.state = st, !.inner = i]
<1>2. t \in Tree /\ t.state = st
  BY DEF Dirs, Tree
<1>3. t # None
  BY <1>2, TreeAssumption
<1> HIDE DEF t
<1>4. d = [dir EXCEPT ![s] = t]
  BY <1>1 DEF t
<1> QED BY <1>2, <1>3, <1>4 DEF Dirs

-----------------------------------------------------------------------------
\* What every step needs.

Beside(d) == Contents(d["current"]) \cup Contents(d["previous"]) \cup Contents(d["hold"])
               \cup Contents(d["failed"])

\* While a tool runs, it has a record and what it keeps is in a directory.
LEMMA Running ==
  ASSUME IInv, pc # "idle"
  PROVE  job # None /\ job \in Job /\ dir \in Dirs /\ job.keep \subseteq Beside(dir)
<1>1. job # None /\ job \in Job /\ dir \in Dirs
  BY DEF IInv, TypeOK, Dirs
<1>2. job.keep \subseteq Beside(dir)
  BY <1>1, Tables DEF IInv, TypeOK, Places, Kept, Beside
<1> QED BY <1>1, <1>2

\* A script that ends keeps the invariant, if what it has to keep is in one
\* of its directories and, unless a step failed, a runnable build is current.
LEMMA FinishKeeps ==
  ASSUME IInv, pc # "idle", NEW d \in Dirs, NEW result \in Result, Finish(result, d),
         job' = job, faults' \in Nat, faults <= faults', up' \in BOOLEAN,
         tail' \in [action : Result, version : Version \cup {None}] \cup {None},
         job.keep \subseteq Beside(d),
         job.tool \in {"update", "rollback"} /\ job.runnable /\ faults' = job.before
           => Runnable(d["current"])
  PROVE  IInv'
<1>1. job # None /\ job \in Job
  BY Running
<1>2. /\ pc' = "idle" /\ last' = result
      /\ left' = left \cup Contents(d["hold"]) \cup Contents(d["failed"])
      /\ dir' = [d EXCEPT !["stage"] = None, !["hold"] = None, !["failed"] = None]
  BY DEF Finish
<1>3. /\ dir' \in Dirs /\ dir'["current"] = d["current"] /\ dir'["previous"] = d["previous"]
      /\ dir'["stage"] = None /\ dir'["hold"] = None /\ dir'["failed"] = None
  BY <1>2 DEF Dirs, Slot
<1>4. \A s \in Slot : Contents(d[s]) \subseteq Version
  BY ContentsType DEF Dirs
<1>5. TypeOK'
  <2>1. left' \subseteq Version
    BY <1>2, <1>4 DEF IInv, TypeOK, Slot
  <2>2. pc' \in Steps
    BY <1>2 DEF Steps
  <2> QED BY <1>1, <1>2, <1>3, <2>1, <2>2 DEF IInv, TypeOK, Dirs
<1>6. Places'
  BY <1>2, <1>3, Tables DEF Places, Empty
<1>7. Tested'
  BY <1>2 DEF Tested
<1>8. Kept'
  <2>1. job.keep \subseteq OnDisk'
    <3>1. Contents(dir'["current"]) \cup Contents(dir'["previous"]) \subseteq OnDisk'
      BY DEF OnDisk, Slot
    <3>2. Beside(d) \subseteq OnDisk'
      BY <1>2, <1>3, <3>1 DEF OnDisk, Beside
    <3> QED BY <3>2
  <2> QED BY <1>1, <1>2, <2>1, Tables DEF IInv, Kept
<1>9. Ready'
  BY <1>1, <1>2, <1>3 DEF IInv, Ready, TypeOK, Job
<1> QED BY <1>5, <1>6, <1>7, <1>8, <1>9 DEF IInv

\* The same after a failing step.
LEMMA FaultEnds ==
  ASSUME IInv, pc # "idle", NEW d \in Dirs, NEW result \in Result, Finish(result, d), Fault,
         job' = job, tail' = tail, up' \in BOOLEAN, job.keep \subseteq Beside(d)
  PROVE  IInv'
<1>1. job # None /\ job \in Job
  BY Running
<1>2. job.before \in Nat /\ job.before <= faults /\ faults \in Nat
  BY <1>1 DEF IInv, Ready, TypeOK, Job
<1>3. faults' \in Nat /\ faults <= faults' /\ faults' # job.before
  BY <1>2 DEF Fault
<1>4. tail' \in [action : Result, version : Version \cup {None}] \cup {None}
  BY DEF IInv, TypeOK
<1> QED BY <1>3, <1>4, FinishKeeps

\* A script that goes on keeps its types.
LEMMA GoesKeepsTypes ==
  ASSUME IInv, NEW d \in Dirs, NEW q \in Steps, Goes(q, d), job' \in Job,
         tail' = tail, up' \in BOOLEAN, faults' \in Nat
  PROVE  TypeOK'
BY TreeAssumption DEF IInv, TypeOK, Goes, Dirs

-----------------------------------------------------------------------------
\* One lemma for each action.

LEMMA StopRuntimeKeeps ==
  ASSUME IInv, StopRuntime
  PROVE  IInv'
<1>1. /\ pc \in {"uStop", "uUndoStop", "rStop", "rUndoStop", "xStop"} /\ job' = job /\ tail' = tail
      /\ pc # "idle" /\ up \in BOOLEAN
  BY DEF StopRuntime, Stops, IInv, TypeOK
<1>2. job # None /\ job \in Job /\ dir \in Dirs /\ job.keep \subseteq Beside(dir)
  BY <1>1, Running
<1>3. CASE up' = FALSE /\ Goes(Then(pc), dir) /\ UNCHANGED faults
  <2>1. /\ pc' = Then(pc) /\ dir' = dir /\ last' = last /\ left' = left /\ faults' = faults
        /\ faults \in Nat
    BY <1>3 DEF Goes, IInv, TypeOK
  <2>2. TypeOK'
    <3>1. Then(pc) \in Steps
      BY <1>1, Order, Tables
    <3> QED BY <1>1, <1>2, <1>3, <2>1, <3>1, GoesKeepsTypes
  <2>3. Places'
    BY <1>1, <2>1, Order, Tables DEF IInv, Places, Empty, Holds
  <2>4. Tested'
    BY <1>1, <2>1, Order DEF Tested
  <2>5. Kept'
    BY <1>1, <2>1, Order, Tables DEF IInv, Kept
  <2>6. Ready'
    BY <1>1, <1>3, <2>1, Order DEF IInv, Ready
  <2> QED BY <2>2, <2>3, <2>4, <2>5, <2>6 DEF IInv
<1>4. CASE Fault /\ Throw(dir) /\ UNCHANGED up
  <2>1. Finish("ERROR", dir)
    BY <1>1, <1>4, Tables DEF Throw
  <2> QED BY <1>1, <1>2, <1>4, <2>1, FaultEnds DEF Result
<1> QED BY <1>3, <1>4 DEF StopRuntime

\* A move that succeeds, as the steps of the scripts see it.
LEMMA MoveGoes ==
  ASSUME IInv, pc # "idle", NEW a \in Slot, NEW b \in Slot, a # b, NEW q \in Steps,
         Goes(q, Moved(a, b)), UNCHANGED <<up, job, tail, faults>>
  PROVE  /\ TypeOK' /\ pc' = q
         /\ dir'[a] = None /\ \A s \in Slot \ {a, b} : dir'[s] = dir[s]
         /\ dir[b] = None => dir'[b] = dir[a]
         /\ dir[b] # None =>
              dir'[b] # None /\ dir'[b].ver = dir[b].ver /\ dir'[b].state = dir[b].state
         /\ Contents(dir[a]) \cup Contents(dir[b]) \subseteq Contents(dir'[b])
<1>1. job' \in Job /\ dir \in Dirs /\ up' \in BOOLEAN /\ faults' \in Nat
  BY Running DEF IInv, TypeOK
<1>2. dir' = Moved(a, b) /\ pc' = q
  BY DEF Goes
<1>3. Moved(a, b) \in Dirs
  BY <1>1, MovedFacts
<1>4. TypeOK'
  BY <1>1, <1>3, GoesKeepsTypes
<1> QED BY <1>1, <1>2, <1>4, MovedFacts

LEMMA UpdateMoveKeeps ==
  ASSUME IInv, pc \in {"uAside", "uSwap", "uUndoMove"},
         Goes(Then(pc), Moved(Ends(pc)[1], Ends(pc)[2])), UNCHANGED <<up, job, tail, faults>>
  PROVE  IInv'
<1>1. CASE pc = "uAside"
  <2>0. Goes("uSwap", Moved("current", "previous"))
    BY <1>1, Order, Routes
  <2>1. /\ TypeOK' /\ pc' = "uSwap" /\ dir'["current"] = None
        /\ dir'["stage"] = dir["stage"]
        /\ dir["previous"] = None => dir'["previous"] = dir["current"]
    <3>1. {"current", "previous", "stage"} \subseteq Slot /\ "uSwap" \in Steps /\ pc # "idle"
      BY <1>1, Tables DEF Slot
    <3> QED BY <2>0, <3>1, MoveGoes
  <2>2. Places'
    BY <1>1, <2>1, Tables DEF IInv, Places, Empty, Holds
  <2>3. Tested' /\ Ready'
    BY <1>1, <2>1, Tables DEF IInv, Tested, Ready, Places, Empty, Holds
  <2>4. Kept'
    BY <1>1, <2>1, Tables DEF IInv, Kept, Places, Empty, Holds
  <2> QED BY <2>1, <2>2, <2>3, <2>4 DEF IInv
<1>2. CASE pc = "uSwap"
  <2>0. Goes("uTest", Moved("stage", "current"))
    BY <1>2, Order, Routes
  <2>1. /\ TypeOK' /\ pc' = "uTest" /\ dir'["previous"] = dir["previous"]
        /\ dir["current"] = None => dir'["current"] = dir["stage"]
    <3>1. {"current", "previous", "stage"} \subseteq Slot /\ "uTest" \in Steps /\ pc # "idle"
      BY <1>2, Tables DEF Slot
    <3> QED BY <2>0, <3>1, MoveGoes
  <2>2. Places'
    BY <1>2, <2>1, Tables DEF IInv, Places, Empty, Holds
  <2>3. Tested' /\ Ready'
    BY <1>2, <2>1, Tables DEF IInv, Tested, Ready, Places, Empty, Holds
  <2>4. Kept'
    BY <1>2, <2>1, Tables DEF IInv, Kept, Places, Empty, Holds
  <2> QED BY <2>1, <2>2, <2>3, <2>4 DEF IInv
<1>3. CASE pc = "uUndoMove"
  <2>0. Goes("uRetest", Moved("previous", "current"))
    BY <1>3, Order, Routes
  <2>1. /\ TypeOK' /\ pc' = "uRetest"
        /\ dir["current"] = None => dir'["current"] = dir["previous"]
        /\ dir["current"] # None =>
             dir'["current"] # None /\ dir'["current"].state = dir["current"].state
        /\ Contents(dir["previous"]) \subseteq Contents(dir'["current"])
    BY <2>0, <1>3, Tables, MoveGoes DEF Slot
  <2>2. Places'
    BY <1>3, <2>1, Tables DEF IInv, Places, Empty, Holds
  <2>3. Tested' /\ Ready'
    BY <1>3, <2>1, Tables DEF IInv, Tested, Ready, Places, Empty, Holds
  <2>4. Kept'
    BY <1>3, <2>1, Tables DEF IInv, Kept, Places, Empty, Holds
  <2> QED BY <2>1, <2>2, <2>3, <2>4 DEF IInv
<1> QED BY <1>1, <1>2, <1>3

LEMMA RollbackMoveKeeps ==
  ASSUME IInv, pc \in {"rAside", "rSwap", "rKeep", "rUndoSwap", "rUndoAside", "rUndoKeep"},
         Goes(Then(pc), Moved(Ends(pc)[1], Ends(pc)[2])), UNCHANGED <<up, job, tail, faults>>
  PROVE  IInv'
<1> DEFINE Move(a, b) ==
      /\ TypeOK' /\ dir'[a] = None /\ \A s \in Slot \ {a, b} : dir'[s] = dir[s]
      /\ dir[b] = None => dir'[b] = dir[a]
<1>1. CASE pc = "rAside"
  <2>0. Goes("rSwap", Moved("current", "hold"))
    BY <1>1, Order, Routes
  <2>1. Move("current", "hold") /\ pc' = "rSwap"
    BY <2>0, <1>1, Tables, MoveGoes DEF Slot
  <2> QED BY <1>1, <2>1, Tables DEF IInv, Places, Tested, Kept, Ready, Empty, Holds, Slot
<1>2. CASE pc = "rSwap"
  <2>0. Goes("rTest", Moved("previous", "current"))
    BY <1>2, Order, Routes
  <2>1. Move("previous", "current") /\ pc' = "rTest"
    BY <2>0, <1>2, Tables, MoveGoes DEF Slot
  <2> QED BY <1>2, <2>1, Tables DEF IInv, Places, Tested, Kept, Ready, Empty, Holds, Slot
<1>3. CASE pc = "rKeep"
  <2>0. Goes("rLog", Moved("hold", "previous"))
    BY <1>3, Order, Routes
  <2>1. Move("hold", "previous") /\ pc' = "rLog"
    BY <2>0, <1>3, Tables, MoveGoes DEF Slot
  <2> QED BY <1>3, <2>1, Tables DEF IInv, Places, Tested, Kept, Ready, Empty, Holds, Slot
<1>4. CASE pc = "rUndoSwap"
  <2>0. Goes("rUndoAside", Moved("current", "failed"))
    BY <1>4, Order, Routes
  <2>1. Move("current", "failed") /\ pc' = "rUndoAside"
    BY <2>0, <1>4, Tables, MoveGoes DEF Slot
  <2> QED BY <1>4, <2>1, Tables DEF IInv, Places, Tested, Kept, Ready, Empty, Holds, Slot
<1>5. CASE pc = "rUndoAside"
  <2>0. Goes("rUndoKeep", Moved("hold", "current"))
    BY <1>5, Order, Routes
  <2>1. Move("hold", "current") /\ pc' = "rUndoKeep"
    BY <2>0, <1>5, Tables, MoveGoes DEF Slot
  <2> QED BY <1>5, <2>1, Tables DEF IInv, Places, Tested, Kept, Ready, Empty, Holds, Slot
<1>6. CASE pc = "rUndoKeep"
  <2>0. Goes("rRetest", Moved("failed", "previous"))
    BY <1>6, Order, Routes
  <2>1. Move("failed", "previous") /\ pc' = "rRetest"
    BY <2>0, <1>6, Tables, MoveGoes DEF Slot
  <2> QED BY <1>6, <2>1, Tables DEF IInv, Places, Tested, Kept, Ready, Empty, Holds, Slot
<1> QED BY <1>1, <1>2, <1>3, <1>4, <1>5, <1>6

\* Nothing is promised while a build is installed or removed.
LEMMA InstallGoes ==
  ASSUME IInv, pc # "idle", job.tool \in {"install", "uninstall"}, NEW d \in Dirs,
         NEW q \in {"iSwap", "iDrop", "iUndoDrop", "iUndoMove", "xRemove"}, Goes(q, d),
         job' = job, tail' = tail, up' \in BOOLEAN, faults' \in Nat, faults <= faults'
  PROVE  IInv'
<1>1. job # None /\ job' \in Job /\ q \in Steps
  BY Running, Tables
<1>2. TypeOK' /\ pc' = q
  BY <1>1, GoesKeepsTypes DEF Goes
<1>3. job.before \in Nat /\ job.before <= faults /\ faults \in Nat
  BY <1>1 DEF IInv, Ready, TypeOK, Job
<1> QED BY <1>1, <1>2, <1>3, Tables DEF IInv, Places, Tested, Kept, Ready

LEMMA InstallEnds ==
  ASSUME IInv, pc # "idle", job.tool \in {"install", "uninstall"}, NEW d \in Dirs,
         NEW result \in Result, Finish(result, d),
         job' = job, tail' = tail, up' \in BOOLEAN, faults' \in Nat, faults <= faults'
  PROVE  IInv'
<1>1. job # None /\ job.keep = {}
  BY Running DEF IInv, Kept
<1>2. tail' \in [action : Result, version : Version \cup {None}] \cup {None}
  BY DEF IInv, TypeOK
<1> QED BY <1>1, <1>2, FinishKeeps

LEMMA MoveDirectoryKeeps ==
  ASSUME IInv, MoveDirectory
  PROVE  IInv'
<1> DEFINE a == Ends(pc)[1]
           b == Ends(pc)[2]
<1>1. pc \in Moving /\ pc # "idle" /\ UNCHANGED <<up, job, tail>> /\ up' \in BOOLEAN
  BY Tables DEF MoveDirectory, IInv, TypeOK
<1>2. /\ job # None /\ job \in Job /\ dir \in Dirs /\ job.keep \subseteq Beside(dir)
      /\ faults \in Nat
  BY <1>1, Running DEF IInv, TypeOK
<1>3. pc \in {"iAside", "iSwap", "iUndoMove"} => job.tool \in {"install", "uninstall"}
  BY Tables DEF IInv, Places
<1>4. a \in Slot /\ b \in Slot /\ a # b
  BY <1>1, Tables, Routes DEF Slot
<1>5. Moved(a, b) \in Dirs
  BY <1>2, <1>4, MovedFacts
<1>6. CASE (IF pc = "iUndoMove" THEN Finish("ERROR", Moved(a, b)) ELSE Goes(Then(pc), Moved(a, b)))
           /\ UNCHANGED faults
  <2>1. CASE pc = "iUndoMove"
    BY <1>1, <1>2, <1>3, <1>5, <1>6, <2>1, InstallEnds DEF Result
  <2>2. CASE pc \in {"iAside", "iSwap"}
    <3>1. Then(pc) \in {"iSwap", "iDrop"} /\ Goes(Then(pc), Moved(a, b))
      BY <1>6, <2>2, Order
    <3> QED BY <1>1, <1>2, <1>3, <1>5, <1>6, <2>2, <3>1, InstallGoes
  <2>3. CASE pc \in {"uAside", "uSwap", "uUndoMove"}
    BY <1>1, <1>6, <2>3, UpdateMoveKeeps
  <2>4. CASE pc \in {"rAside", "rSwap", "rKeep", "rUndoSwap", "rUndoAside", "rUndoKeep"}
    BY <1>1, <1>6, <2>4, RollbackMoveKeeps
  <2> QED BY <1>1, <2>1, <2>2, <2>3, <2>4, Tables
<1>7. CASE Throw(dir) /\ (Fault \/ (a = "current" /\ up /\ UNCHANGED faults))
  <2>1. faults' \in Nat /\ faults <= faults'
    BY <1>2, <1>7 DEF Fault
  <2>2. CASE pc \in {"iAside", "iSwap"}
    <3>1. Goes("iUndoDrop", dir)
      BY <1>7, <2>2, Order, Tables DEF Throw
    <3> QED BY <1>1, <1>2, <1>3, <2>1, <2>2, <3>1, InstallGoes
  <2>3. CASE pc \notin {"iAside", "iSwap"}
    <3>1. Finish("ERROR", dir)
      BY <1>1, <1>7, <2>3, Tables DEF Throw
    <3>2. CASE Fault
      BY <1>1, <1>2, <3>1, <3>2, FaultEnds DEF Result
    <3>3. CASE a = "current" /\ up /\ UNCHANGED faults
      <4>1. pc \in {"uAside", "rAside", "rUndoSwap"}
        BY <1>1, <2>3, <3>3, Tables, Routes
      <4>2. job.tool \in {"update", "rollback"} /\ job.runnable /\ faults' = job.before
              => Runnable(dir["current"])
        BY <1>2, <3>3, <4>1 DEF IInv, Ready
      <4>3. tail' \in [action : Result, version : Version \cup {None}] \cup {None}
        BY <1>1 DEF IInv, TypeOK
      <4> QED BY <1>1, <1>2, <2>1, <3>1, <4>2, <4>3, FinishKeeps DEF Result
    <3> QED BY <1>7, <3>2, <3>3
  <2> QED BY <2>2, <2>3
<1> QED BY <1>6, <1>7 DEF MoveDirectory

LEMMA ClearPreviousKeeps ==
  ASSUME IInv, ClearPrevious
  PROVE  IInv'
<1>1. pc = "uClear" /\ pc # "idle" /\ UNCHANGED <<up, job, tail>> /\ up' \in BOOLEAN
  BY DEF ClearPrevious, IInv, TypeOK
<1>2. /\ job # None /\ job \in Job /\ dir \in Dirs /\ job.keep \subseteq Beside(dir)
      /\ faults \in Nat
  BY <1>1, Running DEF IInv, TypeOK
<1>3. CASE Goes(Then(pc), [dir EXCEPT !["previous"] = None]) /\ UNCHANGED faults
  <2>1. [dir EXCEPT !["previous"] = None] \in Dirs
    BY <1>2 DEF Dirs
  <2>2. /\ pc' = "uAside" /\ faults' = faults /\ dir'["previous"] = None
        /\ dir'["current"] = dir["current"] /\ dir'["stage"] = dir["stage"]
    BY <1>1, <1>2, <1>3, Order DEF Goes, Dirs, Slot
  <2>3. TypeOK'
    <3>1. "uAside" \in Steps /\ Goes("uAside", [dir EXCEPT !["previous"] = None])
      BY <1>1, <1>3, Order, Tables
    <3> QED BY <1>1, <1>2, <2>1, <2>2, <3>1, GoesKeepsTypes
  <2> QED BY <1>1, <2>2, <2>3, Tables DEF IInv, Places, Tested, Kept, Ready, Empty, Holds
<1>4. CASE dir["previous"] # None /\ Throw(dir) /\ UNCHANGED faults
  <2>1. Finish("ERROR", dir)
    BY <1>1, <1>4, Tables DEF Throw
  <2>2. job.runnable /\ faults' = job.before /\ job.tool \in {"update", "rollback"}
          => Runnable(dir["current"])
    BY <1>1, <1>2, <1>4 DEF IInv, Ready
  <2>3. tail' \in [action : Result, version : Version \cup {None}] \cup {None}
    BY <1>1 DEF IInv, TypeOK
  <2> QED BY <1>1, <1>2, <1>4, <2>1, <2>2, <2>3, FinishKeeps DEF Result
<1>5. CASE Fault /\ Marked("previous") /\ \E d \in HalfRemoved("previous") : Throw(d)
  <2>1. PICK d \in HalfRemoved("previous") : Throw(d)
    BY <1>5
  <2>2. d \in Dirs /\ d["current"] = dir["current"]
    BY <1>2, <1>5, HalfRemovedFacts DEF Marked, Slot
  <2>3. Finish("ERROR", d)
    BY <1>1, <2>1, Tables DEF Throw
  <2>4. job.keep \subseteq Beside(d)
    BY <1>1, <1>2, <2>2 DEF IInv, Kept, Beside
  <2> QED BY <1>1, <1>5, <2>2, <2>3, <2>4, FaultEnds DEF Result
<1> QED BY <1>3, <1>4, <1>5 DEF ClearPrevious

LEMMA DropFailedKeeps ==
  ASSUME IInv, DropFailed
  PROVE  IInv'
<1>1. /\ pc \in {"uUndoDrop", "iUndoDrop"} /\ pc # "idle" /\ UNCHANGED <<up, job, tail>>
      /\ up' \in BOOLEAN
  BY DEF DropFailed, IInv, TypeOK
<1>2. job # None /\ job \in Job /\ dir \in Dirs /\ faults \in Nat
  BY <1>1, Running DEF IInv, TypeOK
<1>3. pc = "iUndoDrop" => job.tool \in {"install", "uninstall"}
  BY Tables DEF IInv, Places
<1>4. CASE pc = "iUndoDrop" /\ Finish("ERROR", dir) /\ UNCHANGED faults
  BY <1>1, <1>2, <1>3, <1>4, InstallEnds DEF Result
<1>5. CASE \/ Goes(Then(pc), [dir EXCEPT !["current"] = None]) /\ UNCHANGED faults
           \/ Fault /\ dir["current"] # None /\ \E d \in HalfRemoved("current") : Goes(Then(pc), d)
  <2>1. PICK d \in Dirs :
          /\ Goes(Then(pc), d)
          /\ \A s \in Slot \ {"current"} : d[s] = dir[s]
          /\ \/ d["current"] = None /\ faults' = faults
             \/ d["current"] # None /\ d["current"].state # "whole" /\ Fault
    <3>1. CASE Goes(Then(pc), [dir EXCEPT !["current"] = None]) /\ UNCHANGED faults
      <4>1. [dir EXCEPT !["current"] = None] \in Dirs
        BY <1>2 DEF Dirs
      <4> QED BY <1>2, <3>1, <4>1 DEF Dirs, Slot
    <3>2. CASE Fault /\ dir["current"] # None /\ \E d \in HalfRemoved("current") : Goes(Then(pc), d)
      BY <1>2, <3>2, HalfRemovedFacts DEF Slot
    <3> QED BY <1>5, <3>1, <3>2
  <2>2. faults' \in Nat /\ faults <= faults' /\ (d["current"] # None => faults' # faults)
    BY <1>2, <2>1 DEF Fault
  <2>3. CASE pc = "iUndoDrop"
    <3>1. Goes("iUndoMove", d)
      BY <2>1, <2>3, Order
    <3> QED BY <1>1, <1>2, <1>3, <2>2, <2>3, <3>1, InstallGoes
  <2>4. CASE pc = "uUndoDrop"
    <3>1. Goes("uUndoMove", d) /\ "uUndoMove" \in Steps
      BY <2>1, <2>4, Order, Tables
    <3>2. TypeOK'
      BY <1>1, <1>2, <2>2, <3>1, GoesKeepsTypes
    <3>3. pc' = "uUndoMove" /\ dir' = d /\ dir'["previous"] = dir["previous"]
      BY <2>1, <3>1 DEF Goes, Slot
    <3>4. Places' /\ Tested' /\ Kept'
      BY <1>1, <2>1, <2>4, <3>3, Tables DEF IInv, Places, Tested, Kept, Empty, Holds
    <3>5. Ready'
      <4>1. job.before \in Nat /\ job.before <= faults
        BY <1>2 DEF IInv, Ready, Job
      <4>2. faults' = job.before => faults' = faults /\ d["current"] = None
        BY <1>2, <2>1, <2>2, <4>1
      <4> QED BY <1>1, <1>2, <2>2, <2>4, <3>3, <4>1, <4>2 DEF IInv, Ready, Empty
    <3> QED BY <3>2, <3>4, <3>5 DEF IInv
  <2> QED BY <1>1, <2>3, <2>4
<1> QED BY <1>1, <1>4, <1>5 DEF DropFailed

LEMMA RemoveInstallationKeeps ==
  ASSUME IInv, RemoveInstallation
  PROVE  IInv'
<1>1. pc = "xRemove" /\ pc # "idle" /\ UNCHANGED <<up, job, tail>> /\ up' \in BOOLEAN
  BY DEF RemoveInstallation, IInv, TypeOK
<1>2. job.tool \in {"install", "uninstall"} /\ dir \in Dirs /\ faults \in Nat
  BY <1>1, Running, Tables DEF IInv, Places, TypeOK
<1>3. CASE Finish("UNINSTALLED", [dir EXCEPT !["current"] = None]) /\ UNCHANGED faults
  <2>1. [dir EXCEPT !["current"] = None] \in Dirs
    BY <1>2 DEF Dirs
  <2> QED BY <1>1, <1>2, <1>3, <2>1, InstallEnds DEF Result
<1>4. CASE Fault /\ dir["current"] # None /\ \E d \in HalfRemoved("current") : Finish("UNINSTALLED", d)
  <2>1. PICK d \in HalfRemoved("current") : Finish("UNINSTALLED", d)
    BY <1>4
  <2>2. d \in Dirs /\ faults' \in Nat /\ faults <= faults'
    BY <1>2, <1>4, HalfRemovedFacts DEF Slot, Fault
  <2> QED BY <1>1, <1>2, <2>1, <2>2, InstallEnds DEF Result
<1> QED BY <1>3, <1>4 DEF RemoveInstallation

LEMMA DropBackupKeeps ==
  ASSUME IInv, DropBackup
  PROVE  IInv'
<1>1. pc = "iDrop" /\ pc # "idle" /\ UNCHANGED <<up, job, tail>> /\ up' \in BOOLEAN
  BY DEF DropBackup, IInv, TypeOK
<1>2. job.tool \in {"install", "uninstall"} /\ dir \in Dirs /\ faults \in Nat
  BY <1>1, Running, Tables DEF IInv, Places, TypeOK
<1>3. CASE Finish("INSTALLED", [dir EXCEPT !["hold"] = None]) /\ UNCHANGED faults
  <2>1. [dir EXCEPT !["hold"] = None] \in Dirs
    BY <1>2 DEF Dirs
  <2> QED BY <1>1, <1>2, <1>3, <2>1, InstallEnds DEF Result
<1>4. CASE Fault /\ \E d \in {dir} \cup (IF dir["hold"] = None THEN {} ELSE HalfRemoved("hold")) :
                     Throw(d)
  <2>1. PICK d \in {dir} \cup (IF dir["hold"] = None THEN {} ELSE HalfRemoved("hold")) : Throw(d)
    BY <1>4
  <2>2. d \in Dirs
    <3>1. CASE dir["hold"] = None
      BY <1>2, <2>1, <3>1
    <3>2. CASE dir["hold"] # None
      BY <1>2, <2>1, <3>2, HalfRemovedFacts DEF Slot
    <3> QED BY <3>1, <3>2
  <2>3. Goes("iUndoDrop", d) /\ faults' \in Nat /\ faults <= faults'
    BY <1>1, <1>2, <1>4, <2>1, Order, Tables DEF Throw, Fault
  <2> QED BY <1>1, <1>2, <2>2, <2>3, InstallGoes
<1> QED BY <1>3, <1>4 DEF DropBackup

\* A test that fails, in the script that runs it.
LEMMA TestFails ==
  ASSUME IInv, pc \in Tests, Throw(dir), UNCHANGED <<job, tail>>, up' \in BOOLEAN,
         Fault \/ (~Runnable(dir["current"]) /\ UNCHANGED faults)
  PROVE  IInv'
<1>1. pc \in {"uTest", "uRetest", "rTest", "rRetest"} /\ pc # "idle"
  BY DEF Tests
<1>2. /\ job # None /\ job \in Job /\ dir \in Dirs /\ job.keep \subseteq Beside(dir)
      /\ faults \in Nat
  BY <1>1, Running DEF IInv, TypeOK
<1>3. faults' \in Nat /\ faults <= faults'
  BY <1>2 DEF Fault
<1>4. job.before \in Nat /\ job.before <= faults
  BY <1>2 DEF IInv, Ready, Job
<1>5. faults' = job.before => faults = job.before
  BY <1>2, <1>3, <1>4
<1>6. CASE pc \in {"uTest", "rTest"}
  <2>1. Goes(Caught[pc], dir) /\ Caught[pc] \in {"uUndoStop", "rUndoStop"}
    BY <1>6, Order, Tables DEF Throw
  <2>2. TypeOK'
    <3>1. Caught[pc] \in Steps
      BY <2>1, Tables
    <3> QED BY <1>2, <1>3, <2>1, <3>1, GoesKeepsTypes
  <2>3. pc' = Caught[pc] /\ dir' = dir
    BY <2>1 DEF Goes
  <2>4. Places' /\ Tested' /\ Kept'
    BY <1>6, <2>1, <2>3, Order, Tables DEF IInv, Places, Tested, Kept, Empty, Holds
  <2>5. Ready'
    BY <1>2, <1>3, <1>4, <1>5, <1>6, <2>1, <2>3, Order DEF IInv, Ready
  <2> QED BY <2>2, <2>4, <2>5 DEF IInv
<1>7. CASE pc \in {"uRetest", "rRetest"}
  <2>1. Finish("ERROR", dir)
    BY <1>7, Tables DEF Throw
  <2>2. CASE Fault
    BY <1>1, <1>2, <2>1, <2>2, FaultEnds DEF Result
  <2>3. CASE ~Runnable(dir["current"]) /\ UNCHANGED faults
    <3>1. ~(job.tool \in {"update", "rollback"} /\ job.runnable /\ faults' = job.before)
      BY <1>2, <1>7, <2>3 DEF IInv, Ready
    <3>2. tail' \in [action : Result, version : Version \cup {None}] \cup {None}
      BY DEF IInv, TypeOK
    <3> QED BY <1>1, <1>2, <1>3, <2>1, <3>1, <3>2, FinishKeeps DEF Result
  <2> QED BY <2>2, <2>3
<1> QED BY <1>1, <1>6, <1>7

LEMMA TestStartKeeps ==
  ASSUME IInv, TestStart
  PROVE  IInv'
<1>1. pc \in Tests /\ ~up /\ UNCHANGED <<job, tail>> /\ pc # "idle" /\ up \in BOOLEAN
  BY DEF TestStart, Tests, IInv, TypeOK
<1>2. CASE up' = TRUE /\ UNCHANGED <<dir, pc, last, left, faults>>
  BY <1>1, <1>2 DEF IInv, TypeOK, Places, Tested, Kept, Ready, Tests, Empty, Holds, OnDisk
<1>3. CASE ~Runnable(dir["current"]) /\ Throw(dir) /\ UNCHANGED <<up, faults>>
  BY <1>1, <1>3, TestFails
<1>4. CASE Fault /\ Throw(dir) /\ UNCHANGED up
  BY <1>1, <1>4, TestFails
<1> QED BY <1>2, <1>3, <1>4 DEF TestStart

LEMMA TestCheckKeeps ==
  ASSUME IInv, TestCheck
  PROVE  IInv'
<1>1. pc \in {"uTest", "uRetest", "rTest", "rRetest"} /\ up /\ UNCHANGED <<job, tail>> /\ pc # "idle"
  BY DEF TestCheck, Tests
<1>2. CASE Qualifies(dir["current"]) /\ up' = FALSE /\ Goes(Then(pc), dir) /\ UNCHANGED faults
  <2>1. /\ job # None /\ job \in Job /\ dir \in Dirs /\ faults \in Nat
    BY <1>1, Running DEF IInv, TypeOK
  <2>2. pc' = Then(pc) /\ dir' = dir /\ faults' = faults /\ up' = FALSE
    BY <1>2 DEF Goes
  <2>3. Then(pc) \in Steps
    BY <1>1, Order, Tables
  <2>4. TypeOK'
    BY <1>1, <1>2, <2>1, <2>2, <2>3, GoesKeepsTypes
  <2>5. Places' /\ Tested'
    BY <1>1, <1>2, <2>2, Order, Tables DEF IInv, Places, Tested, Empty, Holds, Qualifies
  <2>6. Kept' /\ Ready'
    BY <1>1, <2>2, Order, Tables DEF IInv, Kept, Ready
  <2> QED BY <2>4, <2>5, <2>6 DEF IInv
<1>3. CASE ~Qualifies(dir["current"]) /\ up' = FALSE /\ Throw(dir) /\ UNCHANGED faults
  BY <1>1, <1>3, TestFails DEF Tests, Qualifies
<1>4. CASE Fault /\ up' \in BOOLEAN /\ Throw(dir)
  BY <1>1, <1>4, TestFails DEF Tests
<1> QED BY <1>2, <1>3, <1>4 DEF TestCheck

LEMMA WriteHistoryKeeps ==
  ASSUME IInv, WriteHistory
  PROVE  IInv'
<1>1. /\ pc \in {"uLog", "uUndoLog", "rLog", "rUndoLog"} /\ pc # "idle"
      /\ UNCHANGED <<up, job>> /\ up' \in BOOLEAN
  BY Tables DEF WriteHistory, IInv, TypeOK
<1>2. /\ job # None /\ job \in Job /\ dir \in Dirs /\ job.keep \subseteq Beside(dir)
      /\ faults \in Nat
  BY <1>1, Running DEF IInv, TypeOK
<1>3. Logs[pc] \in Result
  BY <1>1 DEF Logs, Result
<1>4. CASE /\ tail' = [action |-> Logs[pc],
                       version |-> IF pc \in {"uLog", "rLog"} THEN job.to ELSE job.from]
           /\ Finish(Logs[pc], dir) /\ UNCHANGED faults
  <2>1. tail' \in [action : Result, version : Version \cup {None}] \cup {None}
    BY <1>2, <1>3, <1>4 DEF Job
  <2>2. Runnable(dir["current"])
    BY <1>1 DEF IInv, Tested
  <2> QED BY <1>1, <1>2, <1>3, <1>4, <2>1, <2>2, FinishKeeps
<1>5. CASE Fault /\ Throw(dir) /\ UNCHANGED tail
  <2>1. Finish("ERROR", dir)
    BY <1>1, <1>5, Tables DEF Throw
  <2> QED BY <1>1, <1>2, <1>5, <2>1, FaultEnds DEF Result
<1> QED BY <1>4, <1>5 DEF WriteHistory

LEMMA CrashKeeps ==
  ASSUME IInv, Crash
  PROVE  IInv'
<1>1. pc # "idle" /\ Fault /\ UNCHANGED <<job, tail>> /\ up' \in BOOLEAN
  BY DEF Crash, IInv, TypeOK
<1>2. job # None /\ job \in Job /\ dir \in Dirs /\ job.keep \subseteq Beside(dir)
  BY <1>1, Running
<1>3. PICK d : /\ Finish("CRASHED", d)
               /\ \/ d = dir
                  \/ pc = "uClear" /\ dir["previous"] # None /\ d \in HalfRemoved("previous")
                  \/ pc \in {"uUndoDrop", "xRemove"} /\ dir["current"] # None /\ d \in HalfRemoved("current")
  BY DEF Crash
<1>4. d \in Dirs /\ job.keep \subseteq Beside(d)
  <2>1. CASE d = dir
    BY <1>2, <2>1
  <2>2. CASE pc = "uClear" /\ dir["previous"] # None /\ d \in HalfRemoved("previous")
    <3>1. d \in Dirs /\ d["current"] = dir["current"]
      BY <1>2, <2>2, HalfRemovedFacts DEF Slot
    <3> QED BY <1>2, <2>2, <3>1 DEF IInv, Kept, Beside
  <2>3. CASE pc \in {"uUndoDrop", "xRemove"} /\ dir["current"] # None /\ d \in HalfRemoved("current")
    <3>1. d \in Dirs /\ d["previous"] = dir["previous"]
      BY <1>2, <2>3, HalfRemovedFacts DEF Slot
    <3>2. pc = "xRemove" => job.keep = {}
      BY <1>2, Tables DEF IInv, Kept, Places
    <3> QED BY <1>2, <2>3, <3>1, <3>2 DEF IInv, Kept, Beside
  <2> QED BY <1>3, <2>1, <2>2, <2>3
<1> QED BY <1>1, <1>3, <1>4, FaultEnds DEF Result

LEMMA OwnerKeeps ==
  ASSUME IInv, OwnerStart \/ OwnerStop
  PROVE  IInv'
<1>1. pc = "idle" /\ up' \in BOOLEAN /\ UNCHANGED <<dir, pc, job, tail, last, left, faults>>
  BY DEF OwnerStart, OwnerStop
<1>2. OnDisk' = OnDisk
  BY <1>1 DEF OnDisk
<1>3. TypeOK' /\ Places' /\ Tested'
  BY <1>1, Tables DEF IInv, TypeOK, Places, Tested, Empty
<1>4. Kept' /\ Ready'
  BY <1>1, <1>2, Tables DEF IInv, Kept, Ready
<1> QED BY <1>3, <1>4 DEF IInv

-----------------------------------------------------------------------------
\* The tools begin.

LEMMA BeginsTypes ==
  ASSUME IInv, NEW tool \in {"update", "rollback", "install", "uninstall"}, NEW v \in Version,
         NEW q \in Steps, NEW d \in Dirs, d["current"] = dir["current"], Begins(tool, v, q, d)
  PROVE  /\ TypeOK' /\ job' # None /\ pc' = q /\ dir' = d /\ faults' = faults
         /\ job'.tool = tool /\ job'.to = v /\ job'.before = faults
         /\ dir["current"] # None => job'.from = dir["current"].ver
         /\ job'.keep = IF tool \in {"install", "uninstall"} THEN {}
                        ELSE Contents(dir["current"]) \cup
                             (IF tool = "rollback" THEN Contents(dir["previous"]) ELSE {})
         /\ job'.runnable = Runnable(dir["current"])
<1> DEFINE from == IF dir["current"] = None THEN None ELSE dir["current"].ver
           keep == IF tool \in {"install", "uninstall"} THEN {}
                   ELSE Contents(dir["current"]) \cup
                        (IF tool = "rollback" THEN Contents(dir["previous"]) ELSE {})
<1>1. /\ Goes(q, d) /\ UNCHANGED <<up, tail, faults>>
      /\ job' = [tool |-> tool, from |-> from, to |-> v, keep |-> keep,
                 runnable |-> Runnable(dir["current"]), before |-> faults]
  BY DEF Begins
<1>2. dir \in Dirs /\ faults \in Nat /\ up \in BOOLEAN
  BY DEF IInv, TypeOK, Dirs
<1>3. from \in Version \cup {None}
  BY <1>2 DEF Dirs, Tree, Slot
<1>4. keep \in SUBSET Version
  BY <1>2, ContentsType DEF Dirs, Slot
<1>5. Runnable(dir["current"]) \in BOOLEAN
  BY DEF Runnable
<1> HIDE DEF from, keep
<1>6. job' \in Job
  BY <1>1, <1>2, <1>3, <1>4, <1>5 DEF Job
<1>7. job' # None
  BY <1>6, TreeAssumption
<1>8. TypeOK'
  BY <1>1, <1>2, <1>6, GoesKeepsTypes
<1> QED BY <1>1, <1>7, <1>8 DEF Goes, from, keep

LEMMA BeginKeeps ==
  ASSUME IInv, BeginUpdate \/ BeginRollback \/ BeginInstall \/ BeginUninstall
  PROVE  IInv'
<1>1. pc = "idle" /\ dir \in Dirs /\ faults \in Nat /\ UNCHANGED <<up, tail, faults>>
  BY DEF BeginUpdate, BeginRollback, BeginInstall, BeginUninstall, Begins, IInv, TypeOK, Dirs
<1>2. dir["stage"] = None /\ dir["hold"] = None /\ dir["failed"] = None
  BY <1>1 DEF IInv, Places, Empty
<1>3. ASSUME NEW v \in Version
      PROVE  /\ [dir EXCEPT !["stage"] = Whole(v)] \in Dirs
             /\ [dir EXCEPT !["stage"] = Whole(v)]["stage"] = Whole(v)
             /\ \A s \in Slot \ {"stage"} : [dir EXCEPT !["stage"] = Whole(v)][s] = dir[s]
  BY <1>1, WholeType DEF Dirs, Slot
<1>4. CASE BeginUpdate
  <2>1. PICK v \in Version : /\ Marked("current")
                             /\ Begins("update", v, "uStop", [dir EXCEPT !["stage"] = Whole(v)])
    BY <1>4 DEF BeginUpdate
  <2> DEFINE d == [dir EXCEPT !["stage"] = Whole(v)]
  <2>2. d \in Dirs /\ d["stage"] = Whole(v) /\ d["current"] = dir["current"] /\ "uStop" \in Steps
    BY <1>3, Tables DEF Slot
  <2> HIDE DEF d
  <2>3. Begins("update", v, "uStop", d)
    BY <2>1 DEF d
  <2>4. /\ TypeOK' /\ job' # None /\ pc' = "uStop" /\ dir' = d /\ faults' = faults
        /\ job'.tool = "update" /\ job'.to = v /\ job'.before = faults
        /\ job'.from = dir["current"].ver /\ job'.keep = Contents(dir["current"])
        /\ job'.runnable = Runnable(dir["current"])
    BY <2>1, <2>2, <2>3, BeginsTypes DEF Marked
  <2> QED BY <1>1, <2>1, <2>2, <2>4, Tables
          DEF IInv, Places, Tested, Kept, Ready, Empty, Holds, Marked
<1>5. CASE BeginRollback
  <2>1. /\ Marked("current") /\ Marked("previous")
        /\ Begins("rollback", dir["previous"].ver, "rStop", dir)
    BY <1>5 DEF BeginRollback
  <2>2. dir["previous"].ver \in Version /\ "rStop" \in Steps
    BY <1>1, <2>1, Tables DEF Marked, Dirs, Tree, Slot
  <2>3. /\ TypeOK' /\ job' # None /\ pc' = "rStop" /\ dir' = dir /\ faults' = faults
        /\ job'.tool = "rollback" /\ job'.to = dir["previous"].ver /\ job'.before = faults
        /\ job'.from = dir["current"].ver
        /\ job'.keep = Contents(dir["current"]) \cup Contents(dir["previous"])
        /\ job'.runnable = Runnable(dir["current"])
    BY <1>1, <2>1, <2>2, BeginsTypes DEF Marked
  <2> QED BY <1>1, <1>2, <2>1, <2>3, Tables
          DEF IInv, Places, Tested, Kept, Ready, Empty, Holds, Marked
<1>6. CASE BeginInstall \/ BeginUninstall
  <2>1. PICK tool \in {"install", "uninstall"}, v \in Version,
             q \in {"iSwap", "iAside", "xStop"}, d \in Dirs :
          d["current"] = dir["current"] /\ Begins(tool, v, q, d)
    <3>1. CASE BeginInstall
      <4>1. PICK v \in Version : Begins("install", v,
                IF dir["current"] = None THEN "iSwap" ELSE "iAside", [dir EXCEPT !["stage"] = Whole(v)])
        BY <3>1 DEF BeginInstall
      <4> QED BY <1>3, <4>1 DEF Slot
    <3>2. CASE BeginUninstall
      <4>1. dir["current"].ver \in Version
        BY <1>1, <3>2 DEF BeginUninstall, Marked, Dirs, Tree, Slot
      <4> QED BY <1>1, <3>2, <4>1 DEF BeginUninstall
    <3> QED BY <1>6, <3>1, <3>2
  <2>2. q \in Steps
    BY Tables
  <2>3. /\ TypeOK' /\ job' # None /\ pc' = q /\ faults' = faults
        /\ job'.tool = tool /\ job'.before = faults /\ job'.keep = {}
    BY <2>1, <2>2, BeginsTypes
  <2> QED BY <1>1, <2>3, Tables DEF IInv, Places, Tested, Kept, Ready
<1> QED BY <1>4, <1>5, <1>6

-----------------------------------------------------------------------------
\* The theorems.

LEMMA InitHolds == Init => IInv
<1> SUFFICES ASSUME Init PROVE IInv
  OBVIOUS
<1>1. PICK t \in {None} \cup {Whole(v) : v \in Good} :
        dir = [s \in Slot |-> IF s = "current" THEN t ELSE None]
  BY DEF Init
<1>2. t \in Tree \cup {None}
  BY ChannelAssumption, WholeType
<1>3. dir \in [Slot -> Tree \cup {None}]
  BY <1>1, <1>2
<1>4. /\ pc = "idle" /\ job = None /\ up = FALSE /\ tail = None /\ last = "NONE" /\ left = {} /\ faults = 0
      /\ dir["stage"] = None /\ dir["hold"] = None /\ dir["failed"] = None
  BY <1>1 DEF Init, Slot
<1>5. TypeOK
  BY <1>3, <1>4, Tables DEF TypeOK, Result
<1> QED BY <1>4, <1>5, Tables DEF IInv, Places, Tested, Kept, Ready, Empty

LEMMA StepHolds == IInv /\ [Next]_vars => IInv'
<1> SUFFICES ASSUME IInv, [Next]_vars PROVE IInv'
  OBVIOUS
<1>1. CASE UNCHANGED vars
  BY <1>1 DEF vars, IInv, TypeOK, Places, Tested, Kept, Ready, Empty, Holds, OnDisk
<1>2. CASE Next
  BY <1>2, BeginKeeps, StopRuntimeKeeps, MoveDirectoryKeeps, ClearPreviousKeeps, DropFailedKeeps,
     RemoveInstallationKeeps, DropBackupKeeps, TestStartKeeps, TestCheckKeeps, WriteHistoryKeeps,
     CrashKeeps, OwnerKeeps DEF Next
<1> QED BY <1>1, <1>2

\* The invariant above holds in every behaviour of the tools.
THEOREM UpdateInvariant == Spec => []IInv
BY InitHolds, StepHolds, PTL DEF Spec

\* The directories, the tool that runs and its record keep their types.
THEOREM ChannelTyped == Spec => []TypeOK
<1>1. IInv => TypeOK
  BY DEF IInv
<1> QED BY <1>1, UpdateInvariant, PTL

\* However often steps fail and the machine stops, the builds that were
\* current, or for a rollback previous, when a tool began are on the disk.
THEOREM BuildsSurvive == Spec => []NothingOfUseIsLost
<1>1. IInv => NothingOfUseIsLost
  <2> SUFFICES ASSUME IInv, job # None PROVE job.keep \subseteq OnDisk
    BY DEF NothingOfUseIsLost
  <2>1. CASE pc = "idle"
    BY <2>1 DEF IInv, Kept
  <2>2. CASE pc # "idle"
    <3>1. job.keep \subseteq Beside(dir)
      BY <2>2, Running
    <3> QED BY <3>1 DEF Beside, OnDisk, Slot
  <2> QED BY <2>1, <2>2
<1> QED BY <1>1, UpdateInvariant, PTL

\* An update or a rollback that began with a runnable build, and in which
\* nothing but a qualification failed, ends with a runnable build.
THEOREM QualificationRestores == Spec => []FailedQualificationRestores
<1>1. IInv => FailedQualificationRestores
  BY DEF IInv, Ready, FailedQualificationRestores
<1> QED BY <1>1, UpdateInvariant, PTL

\* Only the last step of a script reports a success.
LEMMA OnlyLogsReport ==
  ASSUME IInv, Next, pc # "idle", pc' = "idle", last' \in {Logs[p] : p \in DOMAIN Logs}
  PROVE  WriteHistory /\ last' = Logs[pc] /\ Finish(Logs[pc], dir)
<1>1. last' \in {"UPDATED", "UPDATE_ROLLED_BACK", "ROLLED_BACK", "ROLLBACK_REJECTED_RESTORED_CURRENT"}
  BY DEF Logs
<1>2. \A p \in Stops \cup Tests \cup Moving \cup {"uClear", "uUndoDrop", "iUndoDrop"} :
        p # "iUndoMove" => Then(p) # "idle"
  BY Tables, Order DEF Stops, Tests
<1>3. \A p \in DOMAIN Caught : Caught[p] # "idle"
  BY Tables, Order
<1>4. \A d : Throw(d) => FALSE
  BY <1>1, <1>3 DEF Throw, Goes, Finish
<1>5. \A q, d : Goes(q, d) => q = "idle"
  BY DEF Goes
<1>6. \A d : \A r \in {"ERROR", "CRASHED", "INSTALLED", "UNINSTALLED"} : ~Finish(r, d)
  BY <1>1 DEF Finish
<1>7. WriteHistory
  <2>1. ~BeginUpdate /\ ~BeginRollback /\ ~BeginInstall /\ ~BeginUninstall /\ ~OwnerStart /\ ~OwnerStop
    BY DEF BeginUpdate, BeginRollback, BeginInstall, BeginUninstall, Begins, OwnerStart, OwnerStop
  <2>2. ~StopRuntime
    BY <1>2, <1>4, <1>5 DEF StopRuntime, Stops
  <2>3. ~MoveDirectory
    BY <1>2, <1>4, <1>5, <1>6 DEF MoveDirectory
  <2>4. ~ClearPrevious
    BY <1>2, <1>4, <1>5 DEF ClearPrevious
  <2>5. ~DropFailed
    BY <1>2, <1>5, <1>6 DEF DropFailed
  <2>6. ~RemoveInstallation /\ ~Crash
    BY <1>6 DEF RemoveInstallation, Crash
  <2>7. ~DropBackup
    BY <1>4, <1>6 DEF DropBackup
  <2>8. ~TestStart /\ ~TestCheck
    BY <1>2, <1>4, <1>5 DEF TestStart, TestCheck, Tests
  <2> QED BY <2>1, <2>2, <2>3, <2>4, <2>5, <2>6, <2>7, <2>8 DEF Next
<1>8. Finish(Logs[pc], dir)
  BY <1>4, <1>7 DEF WriteHistory
<1> QED BY <1>7, <1>8 DEF Finish

\* A reported result is true of the directories, of the runtime and of the
\* history.
THEOREM ReportsHold == Spec => ReportsAreTrue
<1> DEFINE v == IF last' \in {"UPDATED", "ROLLED_BACK"} THEN job.to ELSE job.from
           Truth == /\ Runnable(dir["current"])' /\ dir'["current"].ver = v
                    /\ ~up' /\ tail' = [action |-> last', version |-> v]
                    /\ job.tool = "rollback" => dir'["previous"] # None
                         /\ {v, dir'["previous"].ver} = {job.from, job.to}
           Report == pc # "idle" /\ pc' = "idle" /\ last' \in {Logs[p] : p \in DOMAIN Logs}
<1>1. IInv /\ Next /\ Report => Truth
  <2> SUFFICES ASSUME IInv, Next, Report PROVE Truth
    OBVIOUS
  <2>1. WriteHistory /\ last' = Logs[pc] /\ Finish(Logs[pc], dir)
    BY OnlyLogsReport
  <2>2. pc \in {"uLog", "uUndoLog", "rLog", "rUndoLog"} /\ up' = up
    BY <2>1, Tables DEF WriteHistory
  <2>3. dir'["current"] = dir["current"] /\ dir'["previous"] = dir["previous"]
    BY <2>1, <2>2, Running DEF Finish, Dirs, Slot
  <2>4. /\ Logs["uLog"] = "UPDATED" /\ Logs["uUndoLog"] = "UPDATE_ROLLED_BACK"
        /\ Logs["rLog"] = "ROLLED_BACK" /\ Logs["rUndoLog"] = "ROLLBACK_REJECTED_RESTORED_CURRENT"
    BY DEF Logs
  <2>5. v = IF pc \in {"uLog", "rLog"} THEN job.to ELSE job.from
    BY <2>1, <2>2, <2>4
  <2>6. Runnable(dir["current"]) /\ ~up
    BY <2>2 DEF IInv, Tested
  <2>7. tail' = [action |-> last', version |-> v]
    <3>1. ~Throw(dir)
      BY <2>1, <2>2, <2>4, Tables DEF Throw, Finish
    <3> QED BY <2>1, <2>5, <3>1 DEF WriteHistory
  <2>8. dir["current"].ver = v
    BY <2>2, <2>5, <2>6, WholeType, Tables DEF IInv, Places, Holds, Runnable, Whole
  <2>9. job.tool = "rollback" => pc \in {"rLog", "rUndoLog"}
    BY <2>2, Tables DEF IInv, Places
  <2>10. job.tool = "rollback" =>
           dir["previous"] # None /\ {v, dir["previous"].ver} = {job.from, job.to}
    BY <2>5, <2>9, Tables DEF IInv, Places, Holds
  <2> QED BY <2>2, <2>3, <2>6, <2>7, <2>8, <2>10
<1>2. IInv /\ [Next]_vars => [Report => Truth]_vars
  BY <1>1
<1> QED BY <1>2, UpdateInvariant, PTL DEF Spec, ReportsAreTrue
=============================================================================
