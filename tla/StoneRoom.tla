------------------------------ MODULE StoneRoom ------------------------------
(***************************************************************************)
(* The Stone puzzle room (playable-pressure.ts): a room, and               *)
(* applyStoneRoomAction from a room and an action to a room.  The three    *)
(* pressures, which the code keeps between 0 and 1 rounded to four places, *)
(* are counted in twentieths.  A name is whether it is there and not       *)
(* empty.  Witness records, and the ledger's fixed texts, are left out.    *)
(*                                                                         *)
(* A definition named Mutant_* is a wrong form of the one below it.        *)
(***************************************************************************)
EXTENDS Integers

CONSTANTS Plate, None

One == 20
Clamp01(n) == IF n < 0 THEN 0 ELSE IF n > One THEN One ELSE n

\* What a plate has or lacks; a plate of the blueprint lacks everything.
Mark == {"discovered", "protection", "release", "stabilized", "released"}
NewPlate == [k \in Mark |-> FALSE]

\* createRoomThatWouldNotFall
NewRoom ==
  [phase |-> "Dormant", tremor |-> One, seal |-> 0, passage |-> 0,
   plates |-> [p \in Plate |-> NewPlate], failure |-> None, ledger |-> None]

\* updatePlate: a plate that the room does not have changes the phase only.
UpdatePlate(room, p, field, value, phase) ==
  [room EXCEPT !.phase = phase,
     !.plates = [q \in Plate |->
       IF q = p THEN [room.plates[q] EXCEPT ![field] = value] ELSE room.plates[q]]]

\* failRoom
FailRoom(room, failure) ==
  [room EXCEPT !.phase = "Failed", !.failure = failure, !.seal = One, !.passage = 0]

\* castAnchorPulse
CastAnchorPulse(room, p) ==
  IF p \notin Plate THEN FailRoom(room, "NoAnchor")
  ELSE IF ~room.plates[p].discovered THEN FailRoom(room, "NoAnchor")
  ELSE IF ~room.plates[p].protection THEN FailRoom(room, "PanicHold")
  ELSE IF ~room.plates[p].release THEN FailRoom(room, "NoReleaseCondition")
  ELSE UpdatePlate([room EXCEPT !.tremor = Clamp01(@ - 5), !.seal = Clamp01(@ + 1),
                                !.passage = Clamp01(@ + 4)],
                   p, "stabilized", TRUE, "Casting")

\* isRoomReadyToResolve
Mutant_ReadyWhenReleased(room) ==
  \A p \in Plate : room.plates[p].stabilized /\ room.plates[p].released
IsRoomReadyToResolve(room) ==
  /\ \A p \in Plate : \A k \in Mark : room.plates[p][k]
  /\ room.passage >= 18 /\ room.seal < 10

\* releaseAnchor
ReleaseAnchor(room, p) ==
  IF p \notin Plate THEN room
  ELSE IF ~room.plates[p].stabilized THEN room
  ELSE LET new == UpdatePlate([room EXCEPT !.tremor = Clamp01(@ + 1), !.seal = Clamp01(@ - 3),
                                           !.passage = Clamp01(@ + 3)],
                              p, "released", TRUE, "Releasing")
       IN IF IsRoomReadyToResolve(new) THEN [new EXCEPT !.phase = "Resolved"] ELSE new

\* recordLedger: how many plates it names, and whether the room was over-sealed.
RecordLedger(room) ==
  IF room.phase # "Resolved" THEN room
  ELSE [room EXCEPT !.ledger =
          [unnamed |-> {p \in Plate : ~room.plates[p].protection \/ ~room.plates[p].release},
           prison |-> room.seal > 10]]

\* applyStoneRoomAction
Apply(room, a) ==
  IF a.type = "RecordLedger" THEN RecordLedger(room)
  ELSE IF room.phase \in {"Resolved", "Failed"} THEN room
  ELSE CASE a.type = "EnterRoom" -> [room EXCEPT !.phase = "Entered"]
         [] a.type = "TestAnchor" -> UpdatePlate(room, a.plate, "discovered", TRUE, "Reading")
         [] a.type = "NameProtection" -> UpdatePlate(room, a.plate, "protection", a.named, "Reading")
         [] a.type = "NameReleaseCondition" -> UpdatePlate(room, a.plate, "release", a.named, "Reading")
         [] a.type = "CastAnchorPulse" -> CastAnchorPulse(room, a.plate)
         [] a.type = "ReleaseAnchor" -> ReleaseAnchor(room, a.plate)
         [] a.type = "ForceBreak" -> FailRoom(room, "ForceBreak")
=============================================================================
