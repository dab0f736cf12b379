---------------------------- MODULE HandoffLemmas ----------------------------
(***************************************************************************)
(* What the functions of HandoffInterface do to an interface state, for    *)
(* any handoffs, operations, seeds and routes.                             *)
(***************************************************************************)
EXTENDS HandoffInterface, TLAPS

LEMMA FieldTypes ==
  ASSUME NEW x \in RuntimeState
  PROVE  /\ x.state \in InterfaceState /\ x.packets \in [Handoff -> Packet \cup {None}]
         /\ x.active \in Handoff \cup {None} /\ x.receipts \in [Operation -> Receipt \cup {None}]
         /\ x.seed \in Seed \cup {None} /\ x.route \in Route \cup {None}
BY DEF RuntimeState

-----------------------------------------------------------------------------
\* What each update of an interface state changes and what it leaves alone.

LEMMA ToFields ==
  ASSUME NEW x \in RuntimeState, NEW s \in InterfaceState
  PROVE  /\ To(x, s) \in RuntimeState /\ To(x, s).state = s
         /\ To(x, s).packets = x.packets /\ To(x, s).active = x.active
         /\ To(x, s).receipts = x.receipts /\ To(x, s).seed = x.seed /\ To(x, s).route = x.route
BY DEF To, RuntimeState

LEMMA ActivateFields ==
  ASSUME NEW x \in RuntimeState, NEW h \in Handoff
  PROVE  /\ Activate(x, h) \in RuntimeState /\ Activate(x, h).active = h
         /\ Activate(x, h).packets = x.packets /\ Activate(x, h).receipts = x.receipts
BY DEF Activate, RuntimeState

LEMMA StorePacketFields ==
  ASSUME NEW x \in RuntimeState, NEW h \in Handoff, NEW p \in Packet
  PROVE  /\ StorePacket(x, h, p) \in RuntimeState
         /\ StorePacket(x, h, p).packets = [x.packets EXCEPT ![h] = p]
         /\ StorePacket(x, h, p).receipts = x.receipts
BY DEF StorePacket, RuntimeState

LEMMA StoreReceiptFields ==
  ASSUME NEW x \in RuntimeState, NEW o \in Operation, NEW r \in Receipt
  PROVE  /\ StoreReceipt(x, o, r) \in RuntimeState
         /\ StoreReceipt(x, o, r).receipts = [x.receipts EXCEPT ![o] = r]
         /\ StoreReceipt(x, o, r).packets = x.packets
         /\ StoreReceipt(x, o, r).active = x.active
         /\ StoreReceipt(x, o, r).seed = x.seed /\ StoreReceipt(x, o, r).route = x.route
BY DEF StoreReceipt, RuntimeState

LEMMA BindFields ==
  ASSUME NEW x \in RuntimeState, NEW s \in Seed \cup {None}
  PROVE  /\ Bind(x, s) \in RuntimeState /\ Bind(x, s).packets = x.packets
         /\ Bind(x, s).active = x.active /\ Bind(x, s).receipts = x.receipts
BY DEF Bind, RuntimeState

LEMMA SetRouteFields ==
  ASSUME NEW x \in RuntimeState, NEW r \in Route \cup {None}
  PROVE  /\ SetRoute(x, r) \in RuntimeState /\ SetRoute(x, r).route = r
         /\ SetRoute(x, r).packets = x.packets /\ SetRoute(x, r).active = x.active
         /\ SetRoute(x, r).receipts = x.receipts /\ SetRoute(x, r).seed = x.seed
BY DEF SetRoute, RuntimeState
-----------------------------------------------------------------------------
\* Every function keeps the type of the state.

LEMMA ReadSideTypes ==
  ASSUME NEW x \in RuntimeState, NEW h \in Handoff
  PROVE  Observe(x, h) \in RuntimeState /\ Validate(x, h) \in RuntimeState
<1> USE DEF InterfaceState
<1>1. \A s \in InterfaceState : To(x, s) \in RuntimeState /\ To(Activate(x, h), s) \in RuntimeState
  BY ToFields, ActivateFields
<1>2. Known(x, h) /\ Objection(x, h) # None => Objection(x, h) \in InterfaceState
  BY DEF Objection, FlawState
<1>3. Observe(x, h) \in RuntimeState
  BY <1>1 DEF Observe
<1>4. Validate(x, h) \in RuntimeState
  BY <1>1, <1>2 DEF Validate
<1> QED BY <1>3, <1>4

LEMMA EmitType ==
  ASSUME NEW x \in RuntimeState, NEW a, NEW h \in Handoff \cup {None}, NEW p \in Packet
  PROVE  Emit(x, a, h, p) \in RuntimeState
<1> USE DEF InterfaceState
<1>1. \A s \in InterfaceState : To(x, s) \in RuntimeState
  BY ToFields
<1>2. h # None => To(Activate(StorePacket(x, h, p), h), "HANDOFF_EMITTED") \in RuntimeState
  BY StorePacketFields, ActivateFields, ToFields
<1> QED BY <1>1, <1>2 DEF Emit

LEMMA RecordType ==
  ASSUME NEW x \in RuntimeState, NEW o \in Operation, NEW h \in Handoff, NEW d \in Decision
  PROVE  Record(x, o, h, d) \in RuntimeState
<1>1. [handoff |-> h, decision |-> d] \in Receipt /\ After(d) \in InterfaceState
  BY DEF Receipt, After, InterfaceState
<1> QED BY <1>1, StoreReceiptFields, ToFields DEF Record

\* A recorded commit settles its operation.
LEMMA RecordSettles ==
  ASSUME NEW x \in RuntimeState, NEW o \in Operation, NEW h \in Handoff
  PROVE  Settled(Record(x, o, h, "COMMITTED"), o)
<1> DEFINE r == [handoff |-> h, decision |-> "COMMITTED"]
           a == StoreReceipt(x, o, r)
<1>1. r \in Receipt /\ After("COMMITTED") \in InterfaceState
  BY DEF Receipt, Decision, After, InterfaceState
<1>2. a \in RuntimeState /\ a.receipts = [x.receipts EXCEPT ![o] = r]
  BY <1>1, StoreReceiptFields
<1>3. Record(x, o, h, "COMMITTED") = To(a, After("COMMITTED"))
  BY DEF Record
<1>4. Record(x, o, h, "COMMITTED").receipts[o] = r
  <2> HIDE DEF a, r
  <2> QED BY <1>1, <1>2, <1>3, ToFields, FieldTypes
<1>5. r # None
  BY <1>1, InterfaceAssumption
<1> QED BY <1>4, <1>5 DEF Settled

LEMMA AdmissionTypes ==
  ASSUME NEW x \in RuntimeState, NEW o \in Operation
  PROVE  /\ \A auth \in Authority, outcome \in Outcome : Admit(x, o, auth, outcome) \in RuntimeState
         /\ \A d \in Decision : Reconcile(x, o, d) \in RuntimeState
<1> USE DEF InterfaceState
<1>1. \A s \in InterfaceState : To(x, s) \in RuntimeState
  BY ToFields
<1>2. \A h \in Handoff, d \in Decision : Record(x, o, h, d) \in RuntimeState
  BY RecordType
<1>3. ASSUME NEW auth \in Authority, NEW outcome \in Outcome
      PROVE  Admit(x, o, auth, outcome) \in RuntimeState
  <2>1. Admits(x, o, auth) => x.active \in Handoff /\ DecisionOf(outcome) \in Decision
    BY FieldTypes DEF Admits, Admissible, DecisionOf, Decision
  <2> QED BY <1>1, <1>2, <2>1 DEF Admit
<1>4. ASSUME NEW d \in Decision
      PROVE  Reconcile(x, o, d) \in RuntimeState
  <2>1. x.receipts[o] # None => x.receipts[o].handoff \in Handoff
    BY FieldTypes DEF Receipt
  <2> QED BY <1>1, <1>2, <2>1 DEF Reconcile
<1> QED BY <1>3, <1>4

LEMMA RouteTypes ==
  ASSUME NEW x \in RuntimeState
  PROVE  /\ \A seed \in Seed \cup {None} : BindSeed(x, seed) \in RuntimeState
         /\ EvaluateRoute(x) \in RuntimeState
         /\ \A route \in Route \cup {None} : CommitRoute(x, route) \in RuntimeState
         /\ RefuseSourceMutation(x) \in RuntimeState
<1> USE DEF InterfaceState
<1>1. \A s \in InterfaceState : To(x, s) \in RuntimeState
  BY ToFields
<1>2. ASSUME NEW seed \in Seed \cup {None} PROVE BindSeed(x, seed) \in RuntimeState
  BY <1>1, BindFields, ToFields DEF BindSeed
<1>3. ASSUME NEW route \in Route \cup {None} PROVE CommitRoute(x, route) \in RuntimeState
  BY <1>1, SetRouteFields, ToFields DEF CommitRoute
<1> QED BY <1>1, <1>2, <1>3 DEF EvaluateRoute, RefuseSourceMutation

-----------------------------------------------------------------------------
\* Saving a state and reading it back keeps everything but the keys of the
\* packets that supersede nothing, and doing it again changes nothing more.

LEMMA StoredPacketFields ==
  ASSUME NEW p \in Packet
  PROVE  /\ StoredPacket(p) \in Packet /\ StoredPacket(p).flaw = p.flaw
         /\ StoredPacket(p).supersedes = p.supersedes
         /\ StoredPacket(StoredPacket(p)) = StoredPacket(p)
         /\ StoredPacket(p) = p \/ (p.supersedes = None /\ ~StoredPacket(p).key)
<1>1. CASE p.supersedes = None
  <2> DEFINE q == [p EXCEPT !.key = FALSE]
  <2>1. q \in Packet /\ q.flaw = p.flaw /\ q.supersedes = None /\ q.key = FALSE
    BY <1>1 DEF Packet
  <2>2. [q EXCEPT !.key = FALSE] = q
    BY <2>1 DEF Packet
  <2>3. StoredPacket(p) = q
    BY <1>1 DEF StoredPacket
  <2> HIDE DEF q
  <2>4. StoredPacket(q) = q
    BY <2>1, <2>2 DEF StoredPacket
  <2> QED BY <1>1, <2>1, <2>3, <2>4
<1>2. CASE p.supersedes # None
  BY <1>2 DEF StoredPacket
<1> QED BY <1>1, <1>2

\* A packet that lacks its key is read back as it was written.
LEMMA KeylessIsStored ==
  ASSUME NEW p \in Packet, p \notin EmittedPacket
  PROVE  StoredPacket(p) = p
<1>1. p.key = FALSE /\ p.supersedes = None
  BY DEF Packet, EmittedPacket
<1>2. [p EXCEPT !.key = FALSE] = p
  BY <1>1 DEF Packet
<1> QED BY <1>1, <1>2 DEF StoredPacket

LEMMA StoredFields ==
  ASSUME NEW x \in RuntimeState
  PROVE  /\ Stored(x) \in RuntimeState /\ Stored(x).state = x.state
         /\ Stored(x).active = x.active /\ Stored(x).receipts = x.receipts
         /\ Stored(x).seed = x.seed /\ Stored(x).route = x.route
         /\ \A h \in Handoff :
              /\ Known(Stored(x), h) <=> Known(x, h)
              /\ Known(x, h) => Stored(x).packets[h] = StoredPacket(x.packets[h])
<1> DEFINE p == [h \in Handoff |-> IF Known(x, h) THEN StoredPacket(x.packets[h]) ELSE None]
<1>1. \A h \in Handoff : Known(x, h) => x.packets[h] \in Packet /\ StoredPacket(x.packets[h]) \in Packet
  BY FieldTypes, StoredPacketFields DEF Known
<1>2. p \in [Handoff -> Packet \cup {None}]
  BY <1>1
<1>3. Stored(x) = [x EXCEPT !.packets = p]
  BY DEF Stored
<1>4. \A h \in Handoff : p[h] = IF Known(x, h) THEN StoredPacket(x.packets[h]) ELSE None
  OBVIOUS
<1> HIDE DEF p
<1>5. /\ Stored(x) \in RuntimeState /\ Stored(x).state = x.state /\ Stored(x).packets = p
      /\ Stored(x).active = x.active /\ Stored(x).receipts = x.receipts
      /\ Stored(x).seed = x.seed /\ Stored(x).route = x.route
  BY <1>2, <1>3 DEF RuntimeState
<1> QED BY <1>1, <1>4, <1>5, InterfaceAssumption DEF Known

\* Two states are the same when their fields are.
LEMMA SameState ==
  ASSUME NEW x \in RuntimeState, NEW y \in RuntimeState,
         x.state = y.state, x.active = y.active, x.receipts = y.receipts,
         x.seed = y.seed, x.route = y.route,
         \A h \in Handoff : x.packets[h] = y.packets[h]
  PROVE  x = y
<1>1. x.packets = y.packets
  BY FieldTypes
<1> QED BY <1>1 DEF RuntimeState

LEMMA StoredTwice ==
  ASSUME NEW x \in RuntimeState
  PROVE  Stored(Stored(x)) = Stored(x)
<1> DEFINE y == Stored(x)
<1>1. y \in RuntimeState /\ Stored(y) \in RuntimeState
  BY StoredFields
<1>2. \A h \in Handoff : Stored(y).packets[h] = y.packets[h]
  <2> SUFFICES ASSUME NEW h \in Handoff PROVE Stored(y).packets[h] = y.packets[h]
    OBVIOUS
  <2>1. CASE Known(x, h)
    <3>1. x.packets[h] \in Packet /\ y.packets[h] = StoredPacket(x.packets[h])
      BY <2>1, StoredFields, FieldTypes DEF Known
    <3>2. Known(y, h)
      BY <2>1, StoredFields
    <3> HIDE DEF y
    <3>3. Stored(y).packets[h] = StoredPacket(y.packets[h])
      BY <1>1, <3>2, StoredFields
    <3> QED BY <3>1, <3>3, StoredPacketFields
  <2>2. CASE ~Known(x, h)
    <3>1. ~Known(y, h)
      BY <2>2, StoredFields
    <3> HIDE DEF y
    <3>2. ~Known(Stored(y), h)
      BY <1>1, <3>1, StoredFields
    <3> QED BY <3>1, <3>2 DEF Known
  <2> QED BY <2>1, <2>2
<1> HIDE DEF y
<1>3. Stored(y) = y
  BY <1>1, <1>2, StoredFields, SameState
<1> QED BY <1>3 DEF y

\* Only the fresh state is read back as the fresh state.
LEMMA StoredFresh ==
  ASSUME NEW x \in RuntimeState
  PROVE  Stored(x) = Fresh <=> x = Fresh
<1>1. Fresh \in RuntimeState /\ \A h \in Handoff : ~Known(Fresh, h) /\ Fresh.packets[h] = None
  BY DEF Fresh, RuntimeState, InterfaceState, Known
<1>2. ASSUME Stored(x) = Fresh PROVE x = Fresh
  <2>1. \A h \in Handoff : x.packets[h] = Fresh.packets[h]
    BY <1>1, <1>2, StoredFields DEF Known
  <2> QED BY <1>1, <1>2, <2>1, StoredFields, SameState
<1>3. ASSUME x = Fresh PROVE Stored(x) = Fresh
  <2>1. \A h \in Handoff : Stored(x).packets[h] = x.packets[h]
    BY <1>1, <1>3, StoredFields DEF Known
  <2> QED BY <1>3, <2>1, StoredFields, SameState
<1> QED BY <1>2, <1>3
=============================================================================
