---------------------------- MODULE SecretEngine ----------------------------
(***************************************************************************)
(* One interface state driven by commands in any order, as the callers of  *)
(* posix-secret-engine-interface.ts and the harness runNonprodScenario     *)
(* drive it: every function returns the next state, and the caller keeps   *)
(* it.  Answers that were lost, operations tried again and reconciliations *)
(* that come late are commands like any other.                             *)
(*                                                                         *)
(* commits counts, for each operation, the answers of admit that report an *)
(* ENGINE_LOCAL effect; nothing in the code reads it.                      *)
(*                                                                         *)
(* A definition named Mutant_* is a wrong form of the one below it.        *)
(***************************************************************************)
EXTENDS HandoffInterface

CONSTANTS
  Emitted,   \* packets that emitHandoff builds from the sources at hand
  Installed, \* packets a caller installs by itself, which may be malformed (one that
             \* lacks the key of its fingerprint has the fingerprint flaw)
  MaxCommits \* where the count of commits is cut

ASSUME EngineAssumption ==
  Emitted \cup Installed \subseteq EmittedPacket /\ MaxCommits \in Nat \ {0}

VARIABLES st, commits

vars == <<st, commits>>

Init == st = Fresh /\ commits = [o \in Operation |-> 0]

-----------------------------------------------------------------------------
Quiet == UNCHANGED commits

EmitHandoff ==
  \E accountable \in BOOLEAN, h \in Handoff \cup {None}, p \in Emitted :
    st' = Emit(st, accountable, h, p) /\ Quiet

\* A caller starts from a fresh state that holds a packet of its own.
InstallFirstPacket ==
  \E h \in Handoff, p \in Installed :
    st = Fresh /\ st' = InstallPacket(st, h, p) /\ Quiet

ObserveHandoff == \E h \in Handoff : st' = Observe(st, h) /\ Quiet

ValidateHandoff == \E h \in Handoff : st' = Validate(st, h) /\ Quiet

Counted(o) == [commits EXCEPT ![o] = @ + 1]

AdmitHandoff ==
  \E o \in Operation, auth \in Authority, outcome \in Outcome :
    /\ commits[o] < MaxCommits
    /\ st' = Admit(st, o, auth, outcome)
    /\ commits' = IF Admits(st, o, auth) /\ outcome = "COMMIT" THEN Counted(o) ELSE commits

ReconcileOperation ==
  \E o \in Operation, d \in Decision : st' = Reconcile(st, o, d) /\ Quiet

BindSeedCommand == \E seed \in Seed \cup {None} : st' = BindSeed(st, seed) /\ Quiet

EvaluateRouteCommand == st' = EvaluateRoute(st) /\ Quiet

CommitRouteCommand ==
  \E route \in Route \cup {None} : st' = CommitRoute(st, route) /\ Quiet

MutateSource == st' = RefuseSourceMutation(st) /\ Quiet

Next ==
  \/ EmitHandoff \/ InstallFirstPacket \/ ObserveHandoff \/ ValidateHandoff
  \/ AdmitHandoff \/ ReconcileOperation
  \/ BindSeedCommand \/ EvaluateRouteCommand \/ CommitRouteCommand \/ MutateSource

Spec == Init /\ [][Next]_vars

-----------------------------------------------------------------------------
\* Every field of the state keeps its type, and commits stays in its bound.
TypeOK == st \in RuntimeState /\ commits \in [Operation -> 0..MaxCommits]

PastAdmission == {"ADMITTED", "SEED_BOUND", "ROUTE_ELIGIBLE", "ROUTED"}

\* Whatever was answered late, tried again or switched to another handoff,
\* a state past admission rests on a committed receipt of the handoff that
\* is active now, and an eligible or committed route on a seed.
AdmissionIsGrounded ==
  /\ st.state \in PastAdmission =>
       \E o \in Operation : Settled(st, o) /\ st.receipts[o].handoff = st.active
  /\ st.state \in {"ROUTE_ELIGIBLE", "ROUTED"} => st.seed # None

\* A packet that validate accepts as long as it has its key.
Vetted(h) ==
  /\ Known(st, h) /\ st.packets[h].flaw = None
  /\ st.packets[h].supersedes = None
       \/ (st.packets[h].supersedes # h /\ Known(st, st.packets[h].supersedes))

Sound(h) == Vetted(h) /\ st.packets[h].key

\* The part of the next property that a restart leaves, too.
OnlyVettedIsAdmitted ==
  /\ st.state \in PastAdmission \cup {"ADMISSIBLE_NOT_ADMITTED"} => Vetted(st.active)
  /\ \A o \in Operation : st.receipts[o] # None => Vetted(st.receipts[o].handoff)

\* Only a handoff that validate found nothing against is ever admissible,
\* admitted, or named by a receipt, by whichever path it became active.
OnlySoundIsAdmitted ==
  /\ st.state \in PastAdmission \cup {"ADMISSIBLE_NOT_ADMITTED"} => Sound(st.active)
  /\ \A o \in Operation : st.receipts[o] # None => Sound(st.receipts[o].handoff)

\* An operation takes effect in the engine at most once, however its
\* admission is retried or reconciled, and its receipt says COMMITTED from
\* then on.
CommitsOnce ==
  \A o \in Operation : commits[o] <= 1 /\ (commits[o] = 1 => Settled(st, o))

\* Once a handoff is admissible or further, looking at it again (observe,
\* validate, the same packet emitted again) never takes the state back.
ReadingNeverRewinds ==
  st.state \in PastAdmission \cup {"ADMISSIBLE_NOT_ADMITTED"} =>
    /\ Observe(st, st.active) = st /\ Validate(st, st.active) = st
    /\ \A a \in BOOLEAN : Emit(st, a, st.active, st.packets[st.active]) = st

\* Evidence is permanent: a stored packet and a committed receipt are the
\* same in every later state, whatever is emitted, admitted or reconciled.
EvidenceIsPermanent ==
  [][/\ \A h \in Handoff : st.packets[h] # None => st'.packets[h] = st.packets[h]
     /\ \A o \in Operation : Settled(st, o) => st'.receipts[o] = st.receipts[o]]_vars

Unresolved(o) == st.receipts[o] # None /\ st.receipts[o].decision = "UNKNOWN"

\* "unknown admission outcome remains held until explicit reconciliation"
\* (NP-011, posix-secret-engine-nonprod-harness.test.ts): as long as the
\* outcome of one operation on a handoff is unknown, no other operation
\* commits an admission of that handoff.
UnknownIsHeld ==
  [][\A o, o2 \in Operation :
       /\ o # o2 /\ Unresolved(o) /\ st'.receipts[o] = st.receipts[o]
       /\ commits'[o2] # commits[o2]
       => st'.receipts[o2].handoff # st.receipts[o].handoff]_vars
=============================================================================
