-------------------------- MODULE SecretEngineProofs --------------------------
(***************************************************************************)
(* Theorems about SecretEngine for any handoffs, operations, seeds, routes *)
(* and packets, and any sequence of commands.                              *)
(***************************************************************************)
EXTENDS SecretEngine, HandoffLemmas

-----------------------------------------------------------------------------
\* The inductive invariant.  Admitted states need their active handoff, and
\* reconcile, which lets any receipt through while none is active, needs to
\* know that this never happens.

Settling == PastAdmission \cup {"ADMISSIBLE_NOT_ADMITTED"}

HasActive ==
  /\ st.state \in Settling => st.active # None
  /\ \A o \in Operation : st.receipts[o] # None => st.active # None

IInv ==
  TypeOK /\ HasActive /\ AdmissionIsGrounded /\ OnlyVettedIsAdmitted /\ CommitsOnce

\* A step to a state short of admissible that moves no receipt, packet or
\* commit, whatever handoff it makes active.
LEMMA Retreat ==
  ASSUME IInv, st' \in RuntimeState, UNCHANGED commits,
         st'.state \in InterfaceState \ Settling,
         st'.packets = st.packets, st'.receipts = st.receipts,
         st'.active = st.active \/ st'.active \in Handoff
  PROVE  IInv'
<1> USE DEF IInv, Settling, PastAdmission
<1>1. TypeOK' /\ AdmissionIsGrounded'
  BY DEF TypeOK, AdmissionIsGrounded
<1>2. HasActive'
  BY InterfaceAssumption DEF HasActive
<1>3. OnlyVettedIsAdmitted'
  BY DEF OnlyVettedIsAdmitted, Vetted, Known
<1>4. CommitsOnce'
  BY DEF CommitsOnce, Settled
<1> QED BY <1>1, <1>2, <1>3, <1>4

\* Storing a first packet of a handoff, which becomes the active one.
LEMMA NewPacket ==
  ASSUME IInv, UNCHANGED commits, NEW h \in Handoff, NEW p \in Packet, ~Known(st, h),
         st' = To(Activate(StorePacket(st, h, p), h), "HANDOFF_EMITTED")
  PROVE  IInv'
<1> USE DEF IInv
<1>1. /\ st' \in RuntimeState /\ st'.state = "HANDOFF_EMITTED" /\ st'.active = h
      /\ st'.packets = [st.packets EXCEPT ![h] = p] /\ st'.receipts = st.receipts
  <2>1. st \in RuntimeState /\ "HANDOFF_EMITTED" \in InterfaceState
    BY DEF TypeOK, InterfaceState
  <2> DEFINE a == StorePacket(st, h, p)
             b == Activate(a, h)
  <2>2. a \in RuntimeState /\ a.packets = [st.packets EXCEPT ![h] = p] /\ a.receipts = st.receipts
    BY <2>1, StorePacketFields
  <2> HIDE DEF a
  <2>3. b \in RuntimeState /\ b.active = h /\ b.packets = a.packets /\ b.receipts = a.receipts
    BY <2>2, ActivateFields
  <2>4. st' = To(b, "HANDOFF_EMITTED")
    BY DEF a
  <2> HIDE DEF b
  <2> QED BY <2>1, <2>2, <2>3, <2>4, ToFields
<1>2. st.packets \in [Handoff -> Packet \cup {None}]
  BY FieldTypes DEF TypeOK
<1>3. \A k \in Handoff : Known(st, k) => Known(st, k)' /\ st'.packets[k] = st.packets[k]
  BY <1>1, <1>2 DEF Known
<1>4. \A k \in Handoff : Vetted(k) => Vetted(k)'
  <2> SUFFICES ASSUME NEW k \in Handoff, Vetted(k) PROVE Vetted(k)'
    OBVIOUS
  <2>1. st.packets[k] \in Packet /\ st.packets[k].supersedes \in Handoff \cup {None}
    BY <1>2 DEF Vetted, Known, Packet
  <2> QED BY <1>3, <2>1 DEF Vetted
<1>5. TypeOK' /\ AdmissionIsGrounded' /\ CommitsOnce'
  BY <1>1 DEF TypeOK, AdmissionIsGrounded, CommitsOnce, Settled, PastAdmission
<1>6. HasActive'
  BY <1>1, InterfaceAssumption DEF HasActive, Settling, PastAdmission
<1>7. OnlyVettedIsAdmitted'
  <2>1. st.receipts \in [Operation -> Receipt \cup {None}]
    BY FieldTypes DEF TypeOK
  <2>2. \A o \in Operation : st.receipts[o] # None => st.receipts[o].handoff \in Handoff
    BY <2>1 DEF Receipt
  <2> QED BY <1>1, <1>4, <2>2 DEF OnlyVettedIsAdmitted, PastAdmission
<1> QED BY <1>5, <1>6, <1>7

\* Writing the decision of an operation on the vetted handoff that is active.
LEMMA Recorded ==
  ASSUME IInv, NEW o \in Operation, NEW h \in Handoff, NEW d \in Decision,
         Vetted(h), st.active = h, ~Settled(st, o), st' = Record(st, o, h, d),
         \/ commits' = commits
         \/ d = "COMMITTED" /\ commits' = Counted(o) /\ commits[o] < MaxCommits
  PROVE  IInv'
<1> USE DEF IInv
<1> DEFINE r == [handoff |-> h, decision |-> d]
           a == StoreReceipt(st, o, r)
<1>1. /\ st' \in RuntimeState /\ st'.state = After(d) /\ st'.active = h
      /\ st'.packets = st.packets /\ st'.receipts = [st.receipts EXCEPT ![o] = r]
      /\ st'.seed = st.seed /\ st'.route = st.route
  <2>1. st \in RuntimeState /\ r \in Receipt /\ After(d) \in InterfaceState
    BY DEF TypeOK, Receipt, Decision, After, InterfaceState
  <2>2. st' = To(a, After(d))
    BY DEF Record
  <2> HIDE DEF r
  <2>3. /\ a \in RuntimeState /\ a.receipts = [st.receipts EXCEPT ![o] = r]
        /\ a.packets = st.packets /\ a.active = st.active
        /\ a.seed = st.seed /\ a.route = st.route
    BY <2>1, StoreReceiptFields
  <2> HIDE DEF a
  <2> QED BY <2>1, <2>2, <2>3, ToFields
<1>2. /\ st.receipts \in [Operation -> Receipt \cup {None}]
      /\ commits \in [Operation -> 0 .. MaxCommits]
  BY FieldTypes DEF TypeOK
<1>3. st'.receipts[o] = r /\ r # None /\ \A p \in Operation \ {o} : st'.receipts[p] = st.receipts[p]
  <2>1. r \in Receipt
    BY DEF Receipt
  <2> QED BY <1>1, <1>2, <2>1, InterfaceAssumption
<1>4. commits[o] = 0
  BY <1>2 DEF CommitsOnce
<1>5. TypeOK'
  BY <1>1, <1>2, EngineAssumption DEF TypeOK, Counted
<1>6. HasActive'
  BY <1>1, InterfaceAssumption DEF HasActive
<1>7. AdmissionIsGrounded'
  BY <1>1, <1>3 DEF AdmissionIsGrounded, Settled, PastAdmission, After
<1>8. OnlyVettedIsAdmitted'
  <2>1. \A k : Vetted(k) => Vetted(k)'
    BY <1>1 DEF Vetted, Known
  <2>2. Vetted(st.active)'
    BY <1>1, <2>1
  <2>3. ASSUME NEW p \in Operation, st'.receipts[p] # None PROVE Vetted(st.receipts[p].handoff)'
    <3>1. CASE p = o
      <4>1. st'.receipts[p].handoff = h
        BY <1>3, <3>1
      <4> QED BY <2>1, <4>1
    <3>2. CASE p # o
      <4>1. st'.receipts[p] = st.receipts[p]
        BY <1>3, <3>2
      <4>2. Vetted(st.receipts[p].handoff)
        BY <2>3, <4>1 DEF OnlyVettedIsAdmitted
      <4> QED BY <2>1, <4>1, <4>2
    <3> QED BY <3>1, <3>2
  <2> QED BY <2>2, <2>3 DEF OnlyVettedIsAdmitted
<1>9. CommitsOnce'
  <2> SUFFICES ASSUME NEW p \in Operation
               PROVE  (commits'[p] <= 1 /\ (commits'[p] = 1 => Settled(st', p)))
    BY DEF CommitsOnce, Settled
  <2>1. CASE p = o
    BY <1>2, <1>3, <1>4, <2>1 DEF Counted, Settled
  <2>2. CASE p # o
    BY <1>2, <1>3, <2>2 DEF Counted, Settled, CommitsOnce
  <2> QED BY <2>1, <2>2
<1> QED BY <1>5, <1>6, <1>7, <1>8, <1>9

\* A command that changes nothing.
LEMMA Stutter ==
  ASSUME IInv, UNCHANGED vars
  PROVE  IInv'
BY DEF IInv, TypeOK, HasActive, AdmissionIsGrounded, OnlyVettedIsAdmitted, CommitsOnce, Vetted,
       Known, Settled, vars

\* A command that only moves to a state short of admissible.
LEMMA Refused ==
  ASSUME IInv, UNCHANGED commits, NEW s \in InterfaceState \ Settling, st' = To(st, s)
  PROVE  IInv'
BY Retreat, ToFields DEF IInv, TypeOK

-----------------------------------------------------------------------------
\* The commands, one by one.

LEMMA EmitStep ==
  ASSUME IInv, EmitHandoff
  PROVE  IInv'
<1> USE DEF Settling, PastAdmission, InterfaceState
<1>1. PICK a \in BOOLEAN, h \in Handoff \cup {None}, p \in Emitted : st' = Emit(st, a, h, p)
  BY DEF EmitHandoff
<1>2. UNCHANGED commits /\ p \in Packet
  BY EngineAssumption DEF EmitHandoff, Quiet, EmittedPacket
<1>3. \/ st' = To(st, "HOLD") \/ st' = st \/ st' = To(st, "CONFLICT")
      \/ /\ h \in Handoff /\ ~Known(st, h)
         /\ st' = To(Activate(StorePacket(st, h, p), h), "HANDOFF_EMITTED")
  BY <1>1 DEF Emit
<1>4. CASE st' = To(st, "HOLD") \/ st' = To(st, "CONFLICT")
  BY <1>2, <1>4, Refused
<1>5. CASE st' = st
  BY <1>2, <1>5, Stutter DEF vars
<1>6. CASE /\ h \in Handoff /\ ~Known(st, h)
           /\ st' = To(Activate(StorePacket(st, h, p), h), "HANDOFF_EMITTED")
  BY <1>2, <1>6, NewPacket
<1> QED BY <1>3, <1>4, <1>5, <1>6

LEMMA InstallStep ==
  ASSUME IInv, InstallFirstPacket
  PROVE  IInv'
<1>1. PICK h \in Handoff, p \in Installed : st = Fresh /\ st' = InstallPacket(st, h, p)
  BY DEF InstallFirstPacket
<1>2. UNCHANGED commits /\ p \in Packet
  BY EngineAssumption DEF InstallFirstPacket, Quiet, EmittedPacket
<1>3. ~Known(st, h)
  BY <1>1 DEF Fresh, Known
<1> QED BY <1>1, <1>2, <1>3, NewPacket DEF InstallPacket

LEMMA ObserveStep ==
  ASSUME IInv, ObserveHandoff
  PROVE  IInv'
<1> USE DEF Settling, PastAdmission, InterfaceState
<1>1. PICK h \in Handoff : st' = Observe(st, h) /\ UNCHANGED commits
  BY DEF ObserveHandoff, Quiet
<1>2. st' = To(st, "HOLD") \/ st' = st \/ st' = To(Activate(st, h), "OBSERVED")
  BY <1>1 DEF Observe
<1>3. CASE st' = To(st, "HOLD")
  BY <1>1, <1>3, Refused
<1>4. CASE st' = st
  BY <1>1, <1>4, Stutter DEF vars
<1>5. CASE st' = To(Activate(st, h), "OBSERVED")
  <2>1. st \in RuntimeState
    BY DEF IInv, TypeOK
  <2>2. /\ st' \in RuntimeState /\ st'.state = "OBSERVED" /\ st'.active = h
        /\ st'.packets = st.packets /\ st'.receipts = st.receipts
    <3>1. "OBSERVED" \in InterfaceState
      OBVIOUS
    <3> QED BY <1>5, <2>1, <3>1, ActivateFields, ToFields
  <2> QED BY <1>1, <2>2, Retreat
<1> QED BY <1>2, <1>3, <1>4, <1>5
\* What validate finds nothing against is vetted, and has its key.
LEMMA NoObjection ==
  ASSUME st \in RuntimeState, NEW h \in Handoff, Known(st, h)
  PROVE  /\ Objection(st, h) \in {None} \cup (InterfaceState \ Settling)
         /\ Objection(st, h) = None <=> Vetted(h) /\ st.packets[h].key
<1> USE DEF InterfaceState, Settling, PastAdmission, EarlyFlaw, LateFlaw, Flaw
<1>1. st.packets[h] \in Packet
  BY FieldTypes DEF Known
<1>2. st.packets[h].flaw \in Flaw \cup {None}
  BY <1>1 DEF Packet
<1>3. None \notin {"HOLD", "DENIED", "REFUSED", "CONFLICT"}
  BY InterfaceAssumption
<1>4. None \notin Handoff
  BY InterfaceAssumption
<1>5. Objection(st, h) \in {None} \cup (InterfaceState \ Settling)
  BY DEF Objection, FlawState
<1>6. BadAncestry(st, h) <=>
        ~(st.packets[h].supersedes = None
            \/ (st.packets[h].supersedes # h /\ Known(st, st.packets[h].supersedes)))
  BY <1>4 DEF BadAncestry
<1>7. Objection(st, h) = None <=>
        st.packets[h].flaw \notin Flaw /\ ~BadAncestry(st, h) /\ st.packets[h].key
  BY <1>1, <1>3 DEF Packet, Objection, FlawState
<1>8. st.packets[h].flaw \notin Flaw <=> st.packets[h].flaw = None
  BY <1>2, InterfaceAssumption
<1> QED BY <1>5, <1>6, <1>7, <1>8 DEF Vetted

LEMMA ValidateStep ==
  ASSUME IInv, ValidateHandoff
  PROVE  IInv'
<1> USE DEF Settling, PastAdmission
<1>1. PICK h \in Handoff : st' = Validate(st, h) /\ UNCHANGED commits
  BY DEF ValidateHandoff, Quiet
<1>2. st \in RuntimeState
  BY DEF IInv, TypeOK
<1>3. CASE ~Known(st, h)
  BY <1>1, <1>3, Refused DEF Validate, InterfaceState
<1>4. CASE Known(st, h) /\ Objection(st, h) # None
  BY <1>1, <1>2, <1>4, NoObjection, Refused DEF Validate
<1>5. CASE st' = st
  BY <1>1, <1>5, Stutter DEF vars
<1>6. CASE /\ Known(st, h) /\ Objection(st, h) = None
           /\ st' = To(Activate(st, h), "ADMISSIBLE_NOT_ADMITTED")
  <2>1. /\ st' \in RuntimeState /\ st'.state = "ADMISSIBLE_NOT_ADMITTED" /\ st'.active = h
        /\ st'.packets = st.packets /\ st'.receipts = st.receipts
    <3>1. "ADMISSIBLE_NOT_ADMITTED" \in InterfaceState
      BY DEF InterfaceState
    <3> QED BY <1>2, <1>6, <3>1, ActivateFields, ToFields
  <2>2. Vetted(h)
    BY <1>2, <1>6, NoObjection
  <2>3. TypeOK' /\ AdmissionIsGrounded' /\ CommitsOnce'
    BY <1>1, <2>1 DEF IInv, TypeOK, AdmissionIsGrounded, CommitsOnce, Settled
  <2>4. HasActive'
    BY <2>1, InterfaceAssumption DEF HasActive
  <2>5. OnlyVettedIsAdmitted'
    BY <2>1, <2>2 DEF IInv, OnlyVettedIsAdmitted, Vetted, Known
  <2> QED BY <2>3, <2>4, <2>5 DEF IInv
<1> QED BY <1>1, <1>3, <1>4, <1>5, <1>6 DEF Validate

LEMMA AdmitStep ==
  ASSUME IInv, AdmitHandoff
  PROVE  IInv'
<1> USE DEF Settling, PastAdmission
<1>1. PICK o \in Operation, auth \in Authority, outcome \in Outcome :
        /\ commits[o] < MaxCommits
        /\ st' = Admit(st, o, auth, outcome)
        /\ commits' = IF Admits(st, o, auth) /\ outcome = "COMMIT" THEN Counted(o) ELSE commits
  BY DEF AdmitHandoff
<1>2. CASE Admits(st, o, auth)
  <2>1. st' = Record(st, o, st.active, DecisionOf(outcome))
    BY <1>1, <1>2 DEF Admit, Admits
  <2>2. st.active \in Handoff /\ Vetted(st.active)
    BY <1>2, FieldTypes DEF IInv, TypeOK, OnlyVettedIsAdmitted, Admits, Admissible
  <2>3. DecisionOf(outcome) \in Decision /\ (outcome = "COMMIT" => DecisionOf(outcome) = "COMMITTED")
    BY DEF DecisionOf, Decision
  <2> QED BY <1>1, <1>2, <2>1, <2>2, <2>3, Recorded DEF Admits
<1>3. CASE ~Admits(st, o, auth)
  <2>1. UNCHANGED commits /\ (st' = st \/ st' = To(st, "HOLD") \/ st' = To(st, "DENIED"))
    BY <1>1, <1>3 DEF Admit
  <2> QED BY <2>1, Stutter, Refused DEF vars, InterfaceState
<1> QED BY <1>2, <1>3

LEMMA ReconcileStep ==
  ASSUME IInv, ReconcileOperation
  PROVE  IInv'
<1> USE DEF Settling, PastAdmission
<1>1. PICK o \in Operation, d \in Decision : st' = Reconcile(st, o, d) /\ UNCHANGED commits
  BY DEF ReconcileOperation, Quiet
<1>2. CASE st' = st \/ st' = To(st, "UNKNOWN_OUTCOME")
  BY <1>1, <1>2, Stutter, Refused DEF vars, InterfaceState
<1>3. CASE /\ st.receipts[o] # None /\ Fits(st, o) /\ ~Settled(st, o)
           /\ st' = Record(st, o, st.receipts[o].handoff, d)
  <2> DEFINE h == st.receipts[o].handoff
  <2>1. h \in Handoff
    BY <1>3, FieldTypes DEF IInv, TypeOK, Receipt
  <2>2. Vetted(h) /\ st.active = h
    BY <1>3 DEF IInv, OnlyVettedIsAdmitted, HasActive, Fits
  <2> QED BY <1>1, <1>3, <2>1, <2>2, Recorded
<1> QED BY <1>1, <1>2, <1>3 DEF Reconcile
\* Binding a seed, finding the route eligible and committing it go up from
\* an admitted state, which stays grounded.
LEMMA Ascent ==
  ASSUME IInv, UNCHANGED commits, st' \in RuntimeState, st'.packets = st.packets,
         st'.active = st.active, st'.receipts = st.receipts,
         st.state \in PastAdmission, st'.state \in PastAdmission,
         st'.state \in {"ROUTE_ELIGIBLE", "ROUTED"} => st'.seed # None
  PROVE  IInv'
<1> USE DEF IInv
<1>1. TypeOK' /\ CommitsOnce'
  BY DEF TypeOK, CommitsOnce, Settled
<1>2. HasActive'
  BY DEF HasActive, Settling
<1>3. AdmissionIsGrounded'
  BY DEF AdmissionIsGrounded, Settled
<1>4. OnlyVettedIsAdmitted'
  BY DEF OnlyVettedIsAdmitted, Vetted, Known
<1> QED BY <1>1, <1>2, <1>3, <1>4

LEMMA RouteSteps ==
  ASSUME IInv, BindSeedCommand \/ EvaluateRouteCommand \/ CommitRouteCommand \/ MutateSource
  PROVE  IInv'
<1> USE DEF Settling, PastAdmission, InterfaceState
<1>1. st \in RuntimeState
  BY DEF IInv, TypeOK
<1>2. UNCHANGED commits
  BY DEF BindSeedCommand, EvaluateRouteCommand, CommitRouteCommand, MutateSource, Quiet
<1>3. CASE st' = To(st, "DENIED") \/ st' = To(st, "REFUSED")
  BY <1>2, <1>3, Refused
<1>4. ASSUME NEW seed \in Seed \cup {None}, st.state = "ADMITTED",
             st' = To(Bind(st, seed), "SEED_BOUND")
      PROVE  IInv'
  <2>1. "SEED_BOUND" \in InterfaceState
    OBVIOUS
  <2>2. /\ st' \in RuntimeState /\ st'.state = "SEED_BOUND" /\ st'.packets = st.packets
        /\ st'.active = st.active /\ st'.receipts = st.receipts
    BY <1>1, <1>4, <2>1, BindFields, ToFields
  <2> QED BY <1>2, <1>4, <2>2, Ascent
<1>5. ASSUME st.state = "SEED_BOUND", st.seed # None, st' = To(st, "ROUTE_ELIGIBLE")
      PROVE  IInv'
  <2>1. "ROUTE_ELIGIBLE" \in InterfaceState
    OBVIOUS
  <2>2. /\ st' \in RuntimeState /\ st'.state = "ROUTE_ELIGIBLE" /\ st'.packets = st.packets
        /\ st'.active = st.active /\ st'.receipts = st.receipts /\ st'.seed = st.seed
    BY <1>1, <1>5, <2>1, ToFields
  <2> QED BY <1>2, <1>5, <2>2, Ascent
<1>6. ASSUME NEW route \in Route \cup {None}, st.state = "ROUTE_ELIGIBLE", st.seed # None,
             st' = To(SetRoute(st, route), "ROUTED")
      PROVE  IInv'
  <2>1. "ROUTED" \in InterfaceState
    OBVIOUS
  <2>2. /\ st' \in RuntimeState /\ st'.state = "ROUTED" /\ st'.packets = st.packets
        /\ st'.active = st.active /\ st'.receipts = st.receipts /\ st'.seed = st.seed
    BY <1>1, <1>6, <2>1, SetRouteFields, ToFields
  <2> QED BY <1>2, <1>6, <2>2, Ascent
<1>7. CASE BindSeedCommand
  BY <1>3, <1>4, <1>7 DEF BindSeedCommand, BindSeed
<1>8. CASE EvaluateRouteCommand
  BY <1>3, <1>5, <1>8 DEF EvaluateRouteCommand, EvaluateRoute
<1>9. CASE CommitRouteCommand
  BY <1>3, <1>6, <1>9 DEF CommitRouteCommand, CommitRoute
<1>10. CASE MutateSource
  BY <1>3, <1>10 DEF MutateSource, RefuseSourceMutation
<1> QED BY <1>7, <1>8, <1>9, <1>10

-----------------------------------------------------------------------------
LEMMA EngineInit == Init => IInv
<1> SUFFICES ASSUME Init PROVE IInv
  OBVIOUS
<1> USE DEF Init, Fresh
<1>1. TypeOK
  BY EngineAssumption DEF TypeOK, RuntimeState, InterfaceState
<1>2. HasActive /\ AdmissionIsGrounded /\ OnlyVettedIsAdmitted
  BY DEF HasActive, AdmissionIsGrounded, OnlyVettedIsAdmitted, Settling, PastAdmission
<1>3. CommitsOnce
  BY DEF CommitsOnce
<1> QED BY <1>1, <1>2, <1>3 DEF IInv

LEMMA EngineNext == IInv /\ [Next]_vars => IInv'
<1> SUFFICES ASSUME IInv, [Next]_vars PROVE IInv'
  OBVIOUS
<1>1. CASE UNCHANGED vars
  BY <1>1, Stutter
<1>2. CASE Next
  BY <1>2, EmitStep, InstallStep, ObserveStep, ValidateStep, AdmitStep, ReconcileStep,
     RouteSteps DEF Next
<1> QED BY <1>1, <1>2

\* The inductive invariant holds in every state of every behaviour.
THEOREM EngineInvariant == Spec => []IInv
BY EngineInit, EngineNext, PTL DEF Spec

\* Types, for any constants: the interface state never leaves its type.
THEOREM EngineTypeCorrect == Spec => []TypeOK
<1>1. IInv => TypeOK
  BY DEF IInv
<1> QED BY <1>1, EngineInvariant, PTL

\* A state past admission always rests on a committed receipt of its handoff.
THEOREM AdmissionGrounded == Spec => []AdmissionIsGrounded
<1>1. IInv => AdmissionIsGrounded
  BY DEF IInv
<1> QED BY <1>1, EngineInvariant, PTL

\* Retries and reconciliations never make one operation take effect twice.
THEOREM OperationsCommitOnce == Spec => []CommitsOnce
<1>1. IInv => CommitsOnce
  BY DEF IInv
<1> QED BY <1>1, EngineInvariant, PTL

\* What no step of any command touches: a packet that is stored, and a
\* receipt that is committed.  A packet that is new has its key.
Kept ==
  /\ \A h \in Handoff : st.packets[h] # None => st'.packets[h] = st.packets[h]
  /\ \A h \in Handoff : st'.packets[h] = st.packets[h] \/ st'.packets[h] \in EmittedPacket
  /\ \A o \in Operation : Settled(st, o) => st'.receipts[o] = st.receipts[o]

LEMMA MovesKeep ==
  ASSUME st \in RuntimeState, NEW s \in InterfaceState,
         \/ st' = st \/ st' = To(st, s)
         \/ \E h \in Handoff : st' = To(Activate(st, h), s)
         \/ \E seed \in Seed \cup {None} : st' = To(Bind(st, seed), s)
         \/ \E route \in Route \cup {None} : st' = To(SetRoute(st, route), s)
  PROVE  Kept
<1>1. CASE st' = st
  BY <1>1 DEF Kept
<1>2. CASE st' = To(st, s)
  BY <1>2, ToFields DEF Kept
<1>3. ASSUME NEW h \in Handoff, st' = To(Activate(st, h), s) PROVE Kept
  <2> DEFINE t == Activate(st, h)
  <2>1. t \in RuntimeState /\ t.packets = st.packets /\ t.receipts = st.receipts
    BY ActivateFields
  <2> HIDE DEF t
  <2>2. st'.packets = t.packets /\ st'.receipts = t.receipts
    BY <1>3, <2>1, ToFields DEF t
  <2> QED BY <2>1, <2>2 DEF Kept
<1>4. ASSUME NEW seed \in Seed \cup {None}, st' = To(Bind(st, seed), s) PROVE Kept
  BY <1>4, BindFields, ToFields DEF Kept
<1>5. ASSUME NEW route \in Route \cup {None}, st' = To(SetRoute(st, route), s) PROVE Kept
  BY <1>5, SetRouteFields, ToFields DEF Kept
<1> QED BY <1>1, <1>2, <1>3, <1>4, <1>5

LEMMA PacketKeeps ==
  ASSUME st \in RuntimeState, NEW h \in Handoff, NEW p \in EmittedPacket, ~Known(st, h),
         st' = To(Activate(StorePacket(st, h, p), h), "HANDOFF_EMITTED")
  PROVE  Kept
<1>1. "HANDOFF_EMITTED" \in InterfaceState
  BY DEF InterfaceState
<1>2. st'.packets = [st.packets EXCEPT ![h] = p] /\ st'.receipts = st.receipts
  <2> DEFINE a == StorePacket(st, h, p)
  <2>1. a \in RuntimeState /\ a.packets = [st.packets EXCEPT ![h] = p] /\ a.receipts = st.receipts
    BY StorePacketFields DEF EmittedPacket
  <2> HIDE DEF a
  <2>2. st' = To(Activate(a, h), "HANDOFF_EMITTED")
    BY DEF a
  <2> QED BY <1>1, <2>1, <2>2, ActivateFields, ToFields
<1> QED BY <1>2, FieldTypes DEF Kept, Known

LEMMA ReceiptKeeps ==
  ASSUME st \in RuntimeState, NEW o \in Operation, NEW h \in Handoff, NEW d \in Decision,
         ~Settled(st, o), st' = Record(st, o, h, d)
  PROVE  Kept
<1> DEFINE r == [handoff |-> h, decision |-> d]
           a == StoreReceipt(st, o, r)
<1>1. st'.packets = st.packets /\ st'.receipts = [st.receipts EXCEPT ![o] = r]
  <2>1. r \in Receipt /\ After(d) \in InterfaceState
    BY DEF Receipt, After, InterfaceState
  <2>2. st' = To(a, After(d))
    BY DEF Record
  <2> HIDE DEF r
  <2>3. a \in RuntimeState /\ a.packets = st.packets /\ a.receipts = [st.receipts EXCEPT ![o] = r]
    BY <2>1, StoreReceiptFields
  <2> HIDE DEF a
  <2> QED BY <2>1, <2>2, <2>3, ToFields
<1> QED BY <1>1, FieldTypes DEF Kept, Settled

LEMMA NextKeeps ==
  ASSUME st \in RuntimeState, Next
  PROVE  Kept
<1> USE DEF InterfaceState
<1>1. st \in RuntimeState
  OBVIOUS
<1>2. CASE EmitHandoff
  <2>1. PICK a \in BOOLEAN, h \in Handoff \cup {None}, p \in Emitted : st' = Emit(st, a, h, p)
    BY <1>2 DEF EmitHandoff
  <2>2. \/ st' = st \/ st' = To(st, "HOLD") \/ st' = To(st, "CONFLICT")
        \/ /\ h \in Handoff /\ ~Known(st, h)
           /\ st' = To(Activate(StorePacket(st, h, p), h), "HANDOFF_EMITTED")
    BY <2>1 DEF Emit
  <2> QED BY <1>1, <2>2, EngineAssumption, MovesKeep, PacketKeeps
<1>3. CASE InstallFirstPacket
  <2>1. PICK h \in Handoff, p \in Installed : st = Fresh /\ st' = InstallPacket(st, h, p)
    BY <1>3 DEF InstallFirstPacket
  <2>2. ~Known(st, h)
    BY <2>1 DEF Fresh, Known
  <2> QED BY <1>1, <2>1, <2>2, EngineAssumption, PacketKeeps DEF InstallPacket
<1>4. CASE ObserveHandoff
  BY <1>1, <1>4, MovesKeep DEF ObserveHandoff, Observe
<1>5. CASE ValidateHandoff
  <2>1. PICK h \in Handoff : st' = Validate(st, h)
    BY <1>5 DEF ValidateHandoff
  <2>2. CASE Known(st, h) /\ Objection(st, h) # None
    <3>1. Objection(st, h) \in InterfaceState
      BY <1>1, <2>2, NoObjection
    <3> QED BY <1>1, <2>1, <2>2, <3>1, MovesKeep DEF Validate
  <2>3. CASE ~Known(st, h) \/ Objection(st, h) = None
    BY <1>1, <2>1, <2>3, MovesKeep DEF Validate
  <2> QED BY <2>2, <2>3
<1>6. CASE AdmitHandoff
  <2>1. PICK o \in Operation, auth \in Authority, outcome \in Outcome :
          st' = Admit(st, o, auth, outcome)
    BY <1>6 DEF AdmitHandoff
  <2>2. CASE Admits(st, o, auth)
    <3>1. st.active \in Handoff /\ DecisionOf(outcome) \in Decision
      BY <1>1, <2>2, FieldTypes DEF Admits, Admissible, DecisionOf, Decision
    <3> QED BY <1>1, <2>1, <2>2, <3>1, ReceiptKeeps DEF Admit, Admits
  <2>3. CASE ~Admits(st, o, auth)
    BY <1>1, <2>1, <2>3, MovesKeep DEF Admit
  <2> QED BY <2>2, <2>3
<1>7. CASE ReconcileOperation
  <2>1. PICK o \in Operation, d \in Decision : st' = Reconcile(st, o, d)
    BY <1>7 DEF ReconcileOperation
  <2>2. \/ st' = st \/ st' = To(st, "UNKNOWN_OUTCOME")
        \/ /\ st.receipts[o] # None /\ ~Settled(st, o)
           /\ st' = Record(st, o, st.receipts[o].handoff, d)
    BY <2>1 DEF Reconcile
  <2>3. st.receipts[o] # None => st.receipts[o].handoff \in Handoff
    BY <1>1, FieldTypes DEF Receipt
  <2> QED BY <1>1, <2>2, <2>3, MovesKeep, ReceiptKeeps
<1>8. CASE BindSeedCommand
  BY <1>1, <1>8, MovesKeep DEF BindSeedCommand, BindSeed
<1>9. CASE EvaluateRouteCommand
  BY <1>1, <1>9, MovesKeep DEF EvaluateRouteCommand, EvaluateRoute
<1>10. CASE CommitRouteCommand
  BY <1>1, <1>10, MovesKeep DEF CommitRouteCommand, CommitRoute
<1>11. CASE MutateSource
  BY <1>1, <1>11, MovesKeep DEF MutateSource, RefuseSourceMutation
<1> QED BY <1>2, <1>3, <1>4, <1>5, <1>6, <1>7, <1>8, <1>9, <1>10, <1>11 DEF Next

\* Packets once stored and receipts once committed are never changed again.
THEOREM EvidencePermanent == Spec => EvidenceIsPermanent
<1>1. IInv /\ [Next]_vars => [Kept]_vars
  BY NextKeeps DEF IInv, TypeOK
<1>2. Kept => (/\ \A h \in Handoff : st.packets[h] # None => st'.packets[h] = st.packets[h]
               /\ \A o \in Operation : Settled(st, o) => st'.receipts[o] = st.receipts[o])
  BY DEF Kept
<1> QED BY <1>1, <1>2, EngineInvariant, PTL DEF Spec, EvidenceIsPermanent

-----------------------------------------------------------------------------
\* In one process, without a restart, every packet has the key that its
\* fingerprint was taken with, and then a vetted packet is sound.
AllKeyed == \A h \in Handoff : Known(st, h) => st.packets[h].key

LEMMA PacketsKeyed == Spec => []AllKeyed
<1>1. Init => AllKeyed
  BY DEF Init, Fresh, AllKeyed, Known
<1>2. IInv /\ AllKeyed /\ [Next]_vars => AllKeyed'
  <2> SUFFICES ASSUME IInv, AllKeyed, [Next]_vars PROVE AllKeyed'
    OBVIOUS
  <2>1. CASE UNCHANGED vars
    BY <2>1 DEF AllKeyed, Known, vars
  <2>2. CASE Next
    <3>1. \A h \in Handoff : st'.packets[h] = st.packets[h] \/ st'.packets[h].key
      BY <2>2, NextKeeps DEF IInv, TypeOK, Kept, EmittedPacket
    <3> QED BY <3>1 DEF AllKeyed, Known
  <2> QED BY <2>1, <2>2
<1> QED BY <1>1, <1>2, EngineInvariant, PTL DEF Spec

\* Only packets that validate passes are admitted, whatever became active.
THEOREM OnlySound == Spec => []OnlySoundIsAdmitted
<1>1. IInv /\ AllKeyed => OnlySoundIsAdmitted
  <2> SUFFICES ASSUME IInv, AllKeyed PROVE OnlySoundIsAdmitted
    OBVIOUS
  <2>1. /\ st.active # None => st.active \in Handoff
        /\ \A o \in Operation : st.receipts[o] # None => st.receipts[o].handoff \in Handoff
    BY FieldTypes DEF IInv, TypeOK, Receipt
  <2>2. \A h \in Handoff : Vetted(h) => Sound(h)
    BY DEF AllKeyed, Sound, Vetted
  <2> QED BY <2>1, <2>2 DEF IInv, HasActive, Settling, OnlyVettedIsAdmitted, OnlySoundIsAdmitted
<1> QED BY <1>1, EngineInvariant, PacketsKeyed, PTL

\* Looking again at the active handoff never takes an admission back.
THEOREM ReadingIsSafe == Spec => []ReadingNeverRewinds
<1>1. IInv /\ AllKeyed => ReadingNeverRewinds
  <2> SUFFICES ASSUME IInv, AllKeyed, st.state \in Settling
               PROVE  /\ Observe(st, st.active) = st /\ Validate(st, st.active) = st
                      /\ \A a \in BOOLEAN : Emit(st, a, st.active, st.packets[st.active]) = st
    BY DEF ReadingNeverRewinds, Settling
  <2>1. st \in RuntimeState /\ st.active \in Handoff /\ Vetted(st.active)
    BY FieldTypes DEF IInv, TypeOK, HasActive, OnlyVettedIsAdmitted, Settling
  <2>2. Known(st, st.active) /\ Preserved(st, st.active) /\ st.active # None
    BY <2>1, InterfaceAssumption DEF Vetted, Preserved, Monotonic, Settling, PastAdmission
  <2>3. Objection(st, st.active) = None
    BY <2>1, <2>2, NoObjection DEF AllKeyed
  <2>4. Fingerprint(st.packets[st.active]) = st.packets[st.active]
    BY <2>1, <2>2, FieldTypes DEF AllKeyed, Known, Fingerprint, Packet
  <2> QED BY <2>2, <2>3, <2>4 DEF Observe, Validate, Emit
<1> QED BY <1>1, EngineInvariant, PacketsKeyed, PTL
=============================================================================
