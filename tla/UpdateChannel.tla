---------------------------- MODULE UpdateChannel ----------------------------
(***************************************************************************)
(* The directories of the local runtime and the tools that move them:      *)
(* Update-LocalRuntime.ps1, Rollback-LocalRuntime.ps1,                     *)
(* Install-FOTNLocalRuntime.ps1 and Uninstall-LocalRuntime.ps1, with       *)
(* Start- and Stop-LocalRuntime.ps1.                                       *)
(* One action per step of a script.  Any step can fail, which ends the     *)
(* script's try block, and the machine can stop between any two steps.     *)
(*                                                                         *)
(* A directory is the version it was built from, whether it is whole, has  *)
(* lost files or has lost its marker too (a recursive removal that stops   *)
(* half-way), and the versions moved INTO it: Move-Item puts a directory   *)
(* inside its destination when that exists.  The retries of a move are one *)
(* step.  The directories with random names are slots while their script   *)
(* runs; afterwards no tool looks for them, and what they hold is "left".  *)
(* One tool runs at a time, as their owner starts them, and an uninstall   *)
(* ends with the removal it schedules.  Of the history file its last line  *)
(* is kept, the one the status shows.                                      *)
(*                                                                         *)
(* A definition named Mutant_* is a wrong form of the one below it.        *)
(***************************************************************************)
EXTENDS Naturals

CONSTANTS
  Version,   \* builds of the runtime, by version and source commit
  Good,      \* those that pass health and the 14 canaries
  None,
  MaxFaults  \* bound: failing steps and crashes in a behaviour

ASSUME ChannelAssumption ==
  Good \subseteq Version /\ None \notin Version /\ MaxFaults \in Nat

Slot == {"current", "previous", "stage", "hold", "failed"}

Tree == [ver : Version, state : {"whole", "broken", "unmarked"}, inner : SUBSET Version]

Job ==
  [tool : {"update", "rollback", "install", "uninstall"}, from : Version \cup {None}, to : Version,
   keep : SUBSET Version, runnable : BOOLEAN, before : Nat]

ASSUME TreeAssumption == None \notin Tree \cup Job

Result == {"NONE", "UPDATED", "UPDATE_ROLLED_BACK", "ROLLED_BACK",
           "ROLLBACK_REJECTED_RESTORED_CURRENT", "INSTALLED", "UNINSTALLED", "ERROR", "CRASHED"}

VARIABLES
  dir,    \* what each directory holds
  up,     \* a runtime started from "current" listens on the port
  pc,     \* the next step of the tool that runs, or "idle"
  job,    \* what the last tool was started on; its last two fields are ghosts
  tail,   \* the last line of update-history.ndjson
  last,   \* how the last tool ended
  left,   \* whole versions in directories that no tool looks for; a ghost
  faults

vars == <<dir, up, pc, job, tail, last, left, faults>>

Whole(v) == [ver |-> v, state |-> "whole", inner |-> {}]
Mutant_KeepsTheTree(t) == IF t = None THEN {} ELSE t.inner \cup {t}
Contents(t) ==
  IF t = None THEN {} ELSE t.inner \cup (IF t.state = "whole" THEN {t.ver} ELSE {})
Runnable(t) == t # None /\ t.state = "whole" /\ t.ver \in Good

\* Read-Marker succeeds.
Marked(s) == dir[s] # None /\ dir[s].state # "unmarked"

\* Move-Item, as it treats a destination that exists.
Moved(a, b) ==
  IF dir[b] = None THEN [dir EXCEPT ![b] = dir[a], ![a] = None]
  ELSE [dir EXCEPT ![b].inner = @ \cup Contents(dir[a]), ![a] = None]

\* What a recursive removal leaves when a file cannot be deleted.
HalfRemoved(s) ==
  {[dir EXCEPT ![s].state = st, ![s].inner = i] :
     st \in IF Marked(s) THEN {"broken", "unmarked"} ELSE {"unmarked"},
     i \in SUBSET dir[s].inner}

Init ==
  /\ \E t \in {None} \cup {Whole(v) : v \in Good} :
       dir = [s \in Slot |-> IF s = "current" THEN t ELSE None]
  /\ up = FALSE /\ pc = "idle" /\ job = None /\ tail = None /\ last = "NONE"
  /\ left = {} /\ faults = 0

-----------------------------------------------------------------------------
\* The scripts: what follows each step.
Mutant_ClearsLate ==
  [uStop |-> "uAside", uAside |-> "uClear", uClear |-> "uSwap", uSwap |-> "uTest",
   uTest |-> "uLog", uUndoStop |-> "uUndoDrop", uUndoDrop |-> "uUndoMove",
   uUndoMove |-> "uRetest", uRetest |-> "uUndoLog"]
UpdateThen ==
  [uStop |-> "uClear", uClear |-> "uAside", uAside |-> "uSwap", uSwap |-> "uTest",
   uTest |-> "uLog", uUndoStop |-> "uUndoDrop", uUndoDrop |-> "uUndoMove",
   uUndoMove |-> "uRetest", uRetest |-> "uUndoLog"]

RollbackThen ==
  [rStop |-> "rAside", rAside |-> "rSwap", rSwap |-> "rTest", rTest |-> "rKeep",
   rKeep |-> "rLog", rUndoStop |-> "rUndoSwap", rUndoSwap |-> "rUndoAside",
   rUndoAside |-> "rUndoKeep", rUndoKeep |-> "rRetest", rRetest |-> "rUndoLog"]

InstallThen == [iAside |-> "iSwap", iSwap |-> "iDrop", iUndoDrop |-> "iUndoMove"]

UninstallThen == [xStop |-> "xRemove"]

Then(p) ==
  IF p \in DOMAIN UpdateThen THEN UpdateThen[p]
  ELSE IF p \in DOMAIN RollbackThen THEN RollbackThen[p]
  ELSE IF p \in DOMAIN InstallThen THEN InstallThen[p] ELSE UninstallThen[p]

\* The handler that a throw goes to; a throw anywhere else ends the script.
Mutant_UpdateIsNotUndone ==
  [rTest |-> "rUndoStop", iAside |-> "iUndoDrop", iSwap |-> "iUndoDrop", iDrop |-> "iUndoDrop"]
Caught ==
  [uTest |-> "uUndoStop", rTest |-> "rUndoStop",
   iAside |-> "iUndoDrop", iSwap |-> "iUndoDrop", iDrop |-> "iUndoDrop"]

\* The directories that are moved, from and to.
UpdateMoves ==
  [uAside |-> <<"current", "previous">>, uSwap |-> <<"stage", "current">>,
   uUndoMove |-> <<"previous", "current">>]

RollbackMoves ==
  [rAside |-> <<"current", "hold">>, rSwap |-> <<"previous", "current">>,
   rKeep |-> <<"hold", "previous">>, rUndoSwap |-> <<"current", "failed">>,
   rUndoAside |-> <<"hold", "current">>, rUndoKeep |-> <<"failed", "previous">>]

InstallMoves ==
  [iAside |-> <<"current", "hold">>, iSwap |-> <<"stage", "current">>,
   iUndoMove |-> <<"hold", "current">>]

Moving == DOMAIN UpdateMoves \cup DOMAIN RollbackMoves \cup DOMAIN InstallMoves
Ends(p) ==
  IF p \in DOMAIN UpdateMoves THEN UpdateMoves[p]
  ELSE IF p \in DOMAIN RollbackMoves THEN RollbackMoves[p] ELSE InstallMoves[p]

Stops == {"uStop", "uUndoStop", "rStop", "rUndoStop", "xStop"}
Tests == {"uTest", "uRetest", "rTest", "rRetest"}

\* The last step of a script, with the result it writes to the history.
Logs ==
  [uLog |-> "UPDATED", uUndoLog |-> "UPDATE_ROLLED_BACK",
   rLog |-> "ROLLED_BACK", rUndoLog |-> "ROLLBACK_REJECTED_RESTORED_CURRENT"]

-----------------------------------------------------------------------------
\* The script goes on with step q and directories d.
Goes(q, d) == pc' = q /\ dir' = d /\ UNCHANGED <<last, left>>

\* The script ends.  What its hidden directories hold stays where it is.
Finish(result, d) ==
  /\ pc' = "idle" /\ last' = result
  /\ dir' = [d EXCEPT !["stage"] = None, !["hold"] = None, !["failed"] = None]
  /\ left' = left \cup Contents(d["hold"]) \cup Contents(d["failed"])

Throw(d) == IF pc \in DOMAIN Caught THEN Goes(Caught[pc], d) ELSE Finish("ERROR", d)

\* A file is held, a disk is full, a request times out.
Fault == faults < MaxFaults /\ faults' = faults + 1

Begins(tool, v, q, d) ==
  /\ pc = "idle" /\ Goes(q, d)
  /\ job' = [tool |-> tool, from |-> IF dir["current"] = None THEN None ELSE dir["current"].ver,
             to |-> v,
             keep |-> IF tool \in {"install", "uninstall"} THEN {} ELSE Contents(dir["current"]) \cup
                      (IF tool = "rollback" THEN Contents(dir["previous"]) ELSE {}),
             runnable |-> Runnable(dir["current"]), before |-> faults]
  /\ UNCHANGED <<up, tail, faults>>

\* A package has been verified and copied beside the installation.
BeginUpdate ==
  \E v \in Version :
    /\ Marked("current") /\ v # dir["current"].ver
    /\ Begins("update", v, "uStop", [dir EXCEPT !["stage"] = Whole(v)])

BeginRollback ==
  /\ Marked("current") /\ Marked("previous") /\ dir["current"].ver # dir["previous"].ver
  /\ Begins("rollback", dir["previous"].ver, "rStop", dir)

BeginInstall ==
  \E v \in Version :
    Begins("install", v, IF dir["current"] = None THEN "iSwap" ELSE "iAside",
           [dir EXCEPT !["stage"] = Whole(v)])

BeginUninstall ==
  /\ Marked("current") /\ Begins("uninstall", dir["current"].ver, "xStop", dir)

\* Stop-Runtime: the port is closed afterwards, or it throws.
StopRuntime ==
  /\ pc \in Stops
  /\ \/ up' = FALSE /\ Goes(Then(pc), dir) /\ UNCHANGED faults
     \/ Fault /\ Throw(dir) /\ UNCHANGED up
  /\ UNCHANGED <<job, tail>>

\* Move-DirectoryWithRetry.  A directory that a process runs from stays.
MoveDirectory ==
  /\ pc \in Moving
  /\ LET d == Moved(Ends(pc)[1], Ends(pc)[2]) IN
     \/ /\ ~(Ends(pc)[1] = "current" /\ up)
        /\ IF pc = "iUndoMove" THEN Finish("ERROR", d) ELSE Goes(Then(pc), d)
        /\ UNCHANGED faults
     \/ Ends(pc)[1] = "current" /\ up /\ Throw(dir) /\ UNCHANGED faults
     \/ Fault /\ Throw(dir)
  /\ UNCHANGED <<up, job, tail>>

\* The removal of the previous installation, if its marker can be read.
ClearPrevious ==
  /\ pc = "uClear"
  /\ \/ /\ dir["previous"] = None \/ Marked("previous")
        /\ Goes(Then(pc), [dir EXCEPT !["previous"] = None]) /\ UNCHANGED faults
     \/ dir["previous"] # None /\ ~Marked("previous") /\ Throw(dir) /\ UNCHANGED faults
     \/ Fault /\ Marked("previous") /\ \E d \in HalfRemoved("previous") : Throw(d)
  /\ UNCHANGED <<up, job, tail>>

\* The removal of the build that failed; a failure is not noticed.
DropFailed ==
  /\ pc \in {"uUndoDrop", "iUndoDrop"}
  /\ \/ /\ pc = "iUndoDrop" /\ dir["hold"] = None
        /\ Finish("ERROR", dir) /\ UNCHANGED faults
     \/ /\ pc = "iUndoDrop" => dir["hold"] # None
        /\ \/ Goes(Then(pc), [dir EXCEPT !["current"] = None]) /\ UNCHANGED faults
           \/ Fault /\ dir["current"] # None /\ \E d \in HalfRemoved("current") : Goes(Then(pc), d)
  /\ UNCHANGED <<up, job, tail>>

\* The removal that an uninstall schedules; nobody sees whether it fails.
RemoveInstallation ==
  /\ pc = "xRemove"
  /\ \/ Finish("UNINSTALLED", [dir EXCEPT !["current"] = None]) /\ UNCHANGED faults
     \/ Fault /\ dir["current"] # None /\ \E d \in HalfRemoved("current") : Finish("UNINSTALLED", d)
  /\ UNCHANGED <<up, job, tail>>

\* The shortcut, and the removal of the installer's backup, which ends the
\* installation; either may fail.
DropBackup ==
  /\ pc = "iDrop"
  /\ \/ Finish("INSTALLED", [dir EXCEPT !["hold"] = None]) /\ UNCHANGED faults
     \/ Fault /\ \E d \in {dir} \cup (IF dir["hold"] = None THEN {} ELSE HalfRemoved("hold")) :
                   Throw(d)
  /\ UNCHANGED <<up, job, tail>>

\* Test-Runtime, first half: the runtime starts and answers, or throws.
TestStart ==
  /\ pc \in Tests /\ ~up
  /\ \/ dir["current"].state = "whole" /\ up' = TRUE /\ UNCHANGED <<dir, pc, last, left, faults>>
     \/ ~Runnable(dir["current"]) /\ Throw(dir) /\ UNCHANGED <<up, faults>>
     \/ Fault /\ Throw(dir) /\ UNCHANGED up
  /\ UNCHANGED <<job, tail>>

\* Test-Runtime, second half: the canaries, and the stop in its finally.
Mutant_StartIsEnough(t) == t # None
Qualifies(t) == Runnable(t)

TestCheck ==
  /\ pc \in Tests /\ up
  /\ \/ Qualifies(dir["current"]) /\ up' = FALSE /\ Goes(Then(pc), dir) /\ UNCHANGED faults
     \/ ~Qualifies(dir["current"]) /\ up' = FALSE /\ Throw(dir) /\ UNCHANGED faults
     \/ Fault /\ up' \in BOOLEAN /\ Throw(dir)
  /\ UNCHANGED <<job, tail>>

\* Write-UpdateHistory.
WriteHistory ==
  /\ pc \in DOMAIN Logs
  /\ \/ /\ tail' = [action |-> Logs[pc],
                    version |-> IF pc \in {"uLog", "rLog"} THEN job.to ELSE job.from]
        /\ Finish(Logs[pc], dir) /\ UNCHANGED faults
     \/ Fault /\ Throw(dir) /\ UNCHANGED tail
  /\ UNCHANGED <<up, job>>

\* The machine stops, or the script is killed: no finally runs.
Crash ==
  /\ pc # "idle" /\ Fault
  /\ up' \in {up, FALSE}
  /\ \E d \in {dir} \cup (IF pc = "uClear" /\ dir["previous"] # None THEN HalfRemoved("previous")
                          ELSE IF pc \in {"uUndoDrop", "xRemove"} /\ dir["current"] # None THEN HalfRemoved("current")
                          ELSE {}) :
       Finish("CRASHED", d)
  /\ UNCHANGED <<job, tail>>

\* Start-LocalRuntime and Stop-LocalRuntime, called by the owner.
OwnerStart ==
  /\ pc = "idle" /\ ~up /\ dir["current"] # None /\ dir["current"].state = "whole"
  /\ up' = TRUE /\ UNCHANGED <<dir, pc, job, tail, last, left, faults>>

OwnerStop ==
  /\ pc = "idle" /\ up
  /\ up' = FALSE /\ UNCHANGED <<dir, pc, job, tail, last, left, faults>>

Next ==
  \/ BeginUpdate \/ BeginRollback \/ BeginInstall \/ BeginUninstall
  \/ StopRuntime \/ MoveDirectory \/ ClearPrevious \/ DropFailed
  \/ RemoveInstallation \/ DropBackup
  \/ TestStart \/ TestCheck \/ WriteHistory \/ Crash
  \/ OwnerStart \/ OwnerStop

Spec == Init /\ [][Next]_vars
-----------------------------------------------------------------------------
Steps == {"idle"} \cup DOMAIN UpdateThen \cup DOMAIN RollbackThen \cup Moving
           \cup DOMAIN Caught \cup DOMAIN Logs \cup {"iUndoDrop", "xStop", "xRemove"}

\* The directories, the tool that runs and its record keep their types.
TypeOK ==
  /\ dir \in [Slot -> Tree \cup {None}] /\ up \in BOOLEAN /\ pc \in Steps
  /\ job \in Job \cup {None}
  /\ pc # "idle" => job # None
  /\ tail \in [action : Result, version : Version \cup {None}] \cup {None}
  /\ last \in Result /\ left \subseteq Version /\ faults \in Nat

OnDisk == left \cup UNION {Contents(dir[s]) : s \in Slot}

\* Whatever fails and wherever the machine stops, an update loses no whole
\* build that was current when it began, and a rollback neither that one nor
\* the previous one: during the run and after it they are on the disk.
NothingOfUseIsLost == job # None => job.keep \subseteq OnDisk

\* When a tool reports that it updated, rolled back or restored, the build
\* it names is current and passes the canaries, the runtime is stopped, the
\* history says the same, and after a rollback both builds are in place.
ReportsAreTrue ==
  [][pc # "idle" /\ pc' = "idle" /\ last' \in {Logs[p] : p \in DOMAIN Logs} =>
       LET v == IF last' \in {"UPDATED", "ROLLED_BACK"} THEN job.to ELSE job.from IN
       /\ Runnable(dir["current"])' /\ dir'["current"].ver = v
       /\ ~up' /\ tail' = [action |-> last', version |-> v]
       /\ job.tool = "rollback" => dir'["previous"] # None
            /\ {v, dir'["previous"].ver} = {job.from, job.to}]_vars

\* "automatically restores the previous version when post-update
\* qualification fails" (LOCAL_UPDATE_CHANNEL_QUALIFICATION_001_RUNBOOK.md):
\* if an update or rollback begins with a runnable build and nothing but the
\* qualification of the other one fails, a runnable build is current at the end.
FailedQualificationRestores ==
  pc = "idle" /\ job # None /\ job.tool \in {"update", "rollback"} /\ job.runnable /\ faults = job.before
    => Runnable(dir["current"])
=============================================================================
