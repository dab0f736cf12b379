-------------------------- MODULE HandoffInterface --------------------------
(***************************************************************************)
(* The Position IX / Secret Engine interface                               *)
(* (posix-secret-engine-interface.ts): functions from an interface state   *)
(* and a command's arguments to the next interface state.  The module has  *)
(* no variables: SecretEngine runs the functions on one state, and         *)
(* RestartTarget on the state inside an installation target.               *)
(*                                                                         *)
(* A packet is reduced to its supersedesId, the first thing about its      *)
(* content that validate objects to, and whether it has the key of its     *)
(* supersedesId: emitHandoff writes the key even when its value is         *)
(* undefined and takes the semantic fingerprint with it, and a state that  *)
(* is saved and read back has lost it.  A receipt keeps its handoff and    *)
(* its decision: the other fields follow from these.  Answer codes are     *)
(* left out; ENGINE_LOCAL tells whether a command reports an effect.       *)
(***************************************************************************)
EXTENDS Naturals

CONSTANTS
  Handoff,   \* handoff identities
  Operation, \* admission operation identities
  Seed,      \* seed identities
  Route,     \* route identities
  None       \* undefined, or an empty identity

-----------------------------------------------------------------------------
InterfaceState ==
  {"NO_PACKET", "HANDOFF_EMITTED", "OBSERVED", "ADMISSIBLE_NOT_ADMITTED", "ADMITTED",
   "UNKNOWN_OUTCOME", "SEED_BOUND", "ROUTE_ELIGIBLE", "ROUTED", "HOLD", "DENIED",
   "CONFLICT", "REFUSED"}

Decision == {"COMMITTED", "NOT_COMMITTED", "UNKNOWN"}

\* What validate finds wrong with a packet's content, in the order it looks,
\* and the state it answers with.  It compares supersedesId between the two.
EarlyFlaw == {"schema", "type", "missing", "auto_admit"}
LateFlaw  == {"fingerprint", "agentive", "blocking"}
Flaw      == EarlyFlaw \cup LateFlaw

FlawState(f) ==
  IF f \in {"auto_admit", "agentive"} THEN "REFUSED" ELSE IF f = "type" THEN "DENIED" ELSE "HOLD"

\* Only a key without a value is ever missing.
Packet ==
  {p \in [flaw : Flaw \cup {None}, supersedes : Handoff \cup {None}, key : BOOLEAN] :
     p.supersedes # None => p.key}

\* What emitHandoff builds.
EmittedPacket == {p \in Packet : p.key}

Receipt == [handoff : Handoff, decision : Decision]

RuntimeState ==
  [state : InterfaceState, packets : [Handoff -> Packet \cup {None}],
   active : Handoff \cup {None}, receipts : [Operation -> Receipt \cup {None}],
   seed : Seed \cup {None}, route : Route \cup {None}]

ASSUME InterfaceAssumption ==
  None \notin Handoff \cup Operation \cup Seed \cup Route \cup InterfaceState \cup Flaw
                \cup Packet \cup Receipt

\* createInterfaceState.
Fresh ==
  [state |-> "NO_PACKET", packets |-> [h \in Handoff |-> None], active |-> None,
   receipts |-> [o \in Operation |-> None], seed |-> None, route |-> None]

-----------------------------------------------------------------------------
To(st, s) == [st EXCEPT !.state = s]

Activate(st, h) == [st EXCEPT !.active = h]

StorePacket(st, h, p) == [st EXCEPT !.packets = [@ EXCEPT ![h] = p]]

StoreReceipt(st, o, r) == [st EXCEPT !.receipts = [@ EXCEPT ![o] = r]]

Bind(st, seed) == [st EXCEPT !.seed = seed]

SetRoute(st, route) == [st EXCEPT !.route = route]

Mutant_NeverKnown(st, h) == FALSE
Known(st, h) == st.packets[h] # None

\* readSideMonotonicStates
Monotonic == {"ADMISSIBLE_NOT_ADMITTED", "UNKNOWN_OUTCOME", "ADMITTED", "SEED_BOUND",
              "ROUTE_ELIGIBLE", "ROUTED"}

\* preserveReadSideState
Mutant_NotPreserved(st, h) == st.active = h /\ st.state = "ADMISSIBLE_NOT_ADMITTED"
Preserved(st, h) == st.active = h /\ st.state \in Monotonic

Mutant_NeverSettled(st, o) == FALSE
Settled(st, o) == st.receipts[o] # None /\ st.receipts[o].decision = "COMMITTED"

-----------------------------------------------------------------------------
\* The semanticFingerprint field of a packet: the packet it was taken of.
Fingerprint(p) == [p EXCEPT !.key = TRUE]

\* emitHandoff.  Position IX material that is not accountable (PRE_ROUTE or
\* UNKNOWN) emits nothing.
Emit(st, accountable, h, p) ==
  IF h = None THEN To(st, "HOLD")
  ELSE IF ~accountable \/ (Known(st, h) /\ Fingerprint(st.packets[h]) = p) THEN st
  ELSE IF Known(st, h) THEN To(st, "CONFLICT")
  ELSE To(Activate(StorePacket(st, h, p), h), "HANDOFF_EMITTED")

\* installPacket
InstallPacket(st, h, p) == To(Activate(StorePacket(st, h, p), h), "HANDOFF_EMITTED")

Observe(st, h) ==
  IF ~Known(st, h) THEN To(st, "HOLD")
  ELSE IF Preserved(st, h) THEN st
  ELSE To(Activate(st, h), "OBSERVED")

\* A packet supersedes itself, or one that was never emitted.
Mutant_NoSelfCheck(st, h) ==
  st.packets[h].supersedes # None /\ ~Known(st, st.packets[h].supersedes)
BadAncestry(st, h) ==
  LET s == st.packets[h].supersedes IN s = h \/ (s # None /\ ~Known(st, s))

\* The state that validate's checks of the packet end in, None if all pass.
Objection(st, h) ==
  LET f == st.packets[h].flaw IN
  IF f \in EarlyFlaw THEN FlawState(f)
  ELSE IF BadAncestry(st, h) THEN "CONFLICT"
  ELSE IF ~st.packets[h].key THEN FlawState("fingerprint")
  ELSE IF f \in LateFlaw THEN FlawState(f)
  ELSE None

Validate(st, h) ==
  IF ~Known(st, h) THEN To(st, "HOLD")
  ELSE IF Objection(st, h) # None THEN To(st, Objection(st, h))
  ELSE IF Preserved(st, h) THEN st
  ELSE To(Activate(st, h), "ADMISSIBLE_NOT_ADMITTED")

-----------------------------------------------------------------------------
Outcome == {"COMMIT", "NOT_COMMIT", "UNKNOWN"}

\* The authority of an admission; None when no authorityRef is given.
Authority == {"VALID", "INVALID", "UNKNOWN", None}

DecisionOf(outcome) ==
  IF outcome = "COMMIT" THEN "COMMITTED"
  ELSE IF outcome = "NOT_COMMIT" THEN "NOT_COMMITTED" ELSE "UNKNOWN"

\* The state a decision leads to.
Mutant_DecisionAsState(decision) == decision
After(decision) ==
  IF decision = "COMMITTED" THEN "ADMITTED"
  ELSE IF decision = "UNKNOWN" THEN "UNKNOWN_OUTCOME" ELSE "ADMISSIBLE_NOT_ADMITTED"

Admissible(st) == st.state = "ADMISSIBLE_NOT_ADMITTED" /\ st.active # None

\* The admission writes a receipt.
Admits(st, o, auth) == ~Settled(st, o) /\ Admissible(st) /\ auth = "VALID"

Record(st, o, h, decision) ==
  To(StoreReceipt(st, o, [handoff |-> h, decision |-> decision]), After(decision))

Admit(st, o, auth, outcome) ==
  IF Settled(st, o) THEN st
  ELSE IF Admits(st, o, auth) THEN Record(st, o, st.active, DecisionOf(outcome))
  ELSE IF Admissible(st) /\ auth = "UNKNOWN" THEN To(st, "HOLD")
  ELSE To(st, "DENIED")

\* validateAdmissionReceipt, for a receipt that admit or reconcile wrote.
Mutant_FitsAnyHandoff(st, o) == Known(st, st.receipts[o].handoff)
Fits(st, o) ==
  LET h == st.receipts[o].handoff IN Known(st, h) /\ st.active \in {None, h}

Reconcile(st, o, decision) ==
  IF st.receipts[o] = None THEN To(st, "UNKNOWN_OUTCOME")
  ELSE IF ~Fits(st, o) \/ Settled(st, o) THEN st
  ELSE IF decision = "UNKNOWN" THEN To(st, "UNKNOWN_OUTCOME")
  ELSE Record(st, o, st.receipts[o].handoff, decision)

BindSeed(st, seed) ==
  IF st.state = "ADMITTED" THEN To(Bind(st, seed), "SEED_BOUND") ELSE To(st, "DENIED")

EvaluateRoute(st) ==
  To(st, IF st.state = "SEED_BOUND" /\ st.seed # None THEN "ROUTE_ELIGIBLE" ELSE "DENIED")

CommitRoute(st, route) ==
  IF st.state = "ROUTE_ELIGIBLE" /\ st.seed # None
    THEN To(SetRoute(st, route), "ROUTED") ELSE To(st, "REFUSED")

RefuseSourceMutation(st) == To(st, "REFUSED")

-----------------------------------------------------------------------------
\* A packet, and a state, as recoveryCanonicalJson writes them and a reload
\* reads them back: a key without a value is gone.
StoredPacket(p) == IF p.supersedes = None THEN [p EXCEPT !.key = FALSE] ELSE p

Stored(st) ==
  [st EXCEPT !.packets = [h \in Handoff |-> IF Known(st, h) THEN StoredPacket(@[h]) ELSE None]]
=============================================================================
