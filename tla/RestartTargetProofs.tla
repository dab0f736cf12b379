------------------------- MODULE RestartTargetProofs -------------------------
(***************************************************************************)
(* Theorems about RestartTarget for any candidates, any numbers of         *)
(* installations, sessions and commands.  What one command does to the     *)
(* state is taken from the proofs about SecretEngine: Run reads the        *)
(* commands between two installations as a run of the interface, in which  *)
(* effects counts the commits.                                             *)
(***************************************************************************)
EXTENDS RestartTarget, HandoffLemmas

Run == INSTANCE SecretEngineProofs WITH
  st <- cur, commits <- effects, Emitted <- EmittedPacket, Installed <- {}, MaxCommits <- 2

-----------------------------------------------------------------------------
\* The instance has the functions of the interface under names of its own.
LEMMA SameSets ==
  /\ Run!InterfaceState = InterfaceState /\ Run!Flaw = Flaw /\ Run!Packet = Packet
  /\ Run!Decision = Decision /\ Run!Receipt = Receipt /\ Run!RuntimeState = RuntimeState
  /\ Run!Outcome = Outcome /\ Run!Authority = Authority
  /\ Run!EmittedPacket = EmittedPacket
BY DEF InterfaceState, Flaw, EarlyFlaw, LateFlaw, Packet, Decision, Receipt, RuntimeState,
  Outcome, Authority, EmittedPacket, Run!EmittedPacket, Run!InterfaceState, Run!Flaw, Run!EarlyFlaw, Run!LateFlaw, Run!Packet,
  Run!Decision, Run!Receipt, Run!RuntimeState, Run!Outcome, Run!Authority

LEMMA SameQueries ==
  ASSUME NEW x, NEW h, NEW o, NEW a
  PROVE  /\ Run!Known(x, h) = Known(x, h) /\ Run!BadAncestry(x, h) = BadAncestry(x, h)
         /\ Run!Settled(x, o) = Settled(x, o) /\ Run!Admits(x, o, a) = Admits(x, o, a)
BY DEF Known, BadAncestry, Settled, Admits, Admissible,
  Run!Known, Run!BadAncestry, Run!Settled, Run!Admits, Run!Admissible

LEMMA SameReads ==
  ASSUME NEW x, NEW h, NEW p, NEW a
  PROVE  /\ Run!Emit(x, a, h, p) = Emit(x, a, h, p)
         /\ Run!Observe(x, h) = Observe(x, h) /\ Run!Validate(x, h) = Validate(x, h)
BY DEF Emit, Fingerprint, Run!Fingerprint, Observe, Validate, To, Activate, StorePacket, Known, Preserved, Monotonic,
  Objection, FlawState, BadAncestry, EarlyFlaw, LateFlaw,
  Run!Emit, Run!Observe, Run!Validate, Run!To, Run!Activate, Run!StorePacket, Run!Known,
  Run!Preserved, Run!Monotonic, Run!Objection, Run!FlawState, Run!BadAncestry, Run!EarlyFlaw,
  Run!LateFlaw

LEMMA SameWrites ==
  ASSUME NEW x, NEW o, NEW a, NEW out, NEW d, NEW seed, NEW route
  PROVE  /\ Run!Admit(x, o, a, out) = Admit(x, o, a, out)
         /\ Run!Reconcile(x, o, d) = Reconcile(x, o, d)
         /\ Run!BindSeed(x, seed) = BindSeed(x, seed)
         /\ Run!EvaluateRoute(x) = EvaluateRoute(x)
         /\ Run!CommitRoute(x, route) = CommitRoute(x, route)
         /\ Run!RefuseSourceMutation(x) = RefuseSourceMutation(x)
BY DEF Admit, Reconcile, BindSeed, EvaluateRoute, CommitRoute, RefuseSourceMutation, To, Bind,
  SetRoute, Record, StoreReceipt, After, Settled, Admits, Admissible, DecisionOf, Fits, Known,
  Run!Admit, Run!Reconcile, Run!BindSeed, Run!EvaluateRoute, Run!CommitRoute,
  Run!RefuseSourceMutation, Run!To, Run!Bind, Run!SetRoute, Run!Record, Run!StoreReceipt,
  Run!After, Run!Settled, Run!Admits, Run!Admissible, Run!DecisionOf, Run!Fits, Run!Known

LEMMA RunAssumed ==
  /\ None \notin Handoff \cup Operation \cup Seed \cup Route \cup Run!InterfaceState \cup Run!Flaw
                \cup Run!Packet \cup Run!Receipt
  /\ EmittedPacket \cup {} \subseteq Run!EmittedPacket /\ 2 \in Nat \ {0}
BY SameSets, InterfaceAssumption

\* A command that a session dispatches is a step of a run of the interface.
LEMMA DispatchRuns ==
  ASSUME NEW c \in Command, effects \in [Operation -> Nat], cur' = Applied(c, cur),
         \A o \in Operation : effects[o] <= 1,
         effects' = [o \in Operation |-> IF Takes(c, o) THEN effects[o] + 1 ELSE effects[o]]
  PROVE  Run!Next
<1> USE SameSets
<1>1. c \in OrdinaryCommand
  BY RestartAssumption
<1>2. c.type # "ADMIT" => Run!Quiet
  BY DEF Takes, Run!Quiet
<1>3. CASE c \in [type : {"EMIT_HANDOFF"}, accountable : BOOLEAN,
                  handoff : Handoff \cup {None}, packet : EmittedPacket]
  <2>1. cur' = Run!Emit(cur, c.accountable, c.handoff, c.packet)
    BY <1>3, SameReads DEF Applied
  <2> QED BY <1>2, <1>3, <2>1 DEF Run!Next, Run!EmitHandoff
<1>4. CASE c \in [type : {"OBSERVE", "VALIDATE"}, handoff : Handoff]
  <2>1. \/ cur' = Run!Observe(cur, c.handoff)
        \/ cur' = Run!Validate(cur, c.handoff)
    BY <1>4, SameReads DEF Applied
  <2> QED BY <1>2, <1>4, <2>1 DEF Run!Next, Run!ObserveHandoff, Run!ValidateHandoff
<1>5. CASE c \in [type : {"ADMIT"}, op : Operation, authority : Authority, outcome : Outcome]
  <2>1. cur' = Run!Admit(cur, c.op, c.authority, c.outcome)
    BY <1>5, SameWrites DEF Applied
  <2>2. effects' = IF Run!Admits(cur, c.op, c.authority) /\ c.outcome = "COMMIT"
                     THEN Run!Counted(c.op) ELSE effects
    BY <1>5, SameQueries DEF Takes, Run!Counted
  <2>3. effects[c.op] < 2
    BY <1>5
  <2> QED BY <1>5, <2>1, <2>2, <2>3 DEF Run!Next, Run!AdmitHandoff
<1>6. CASE c \in [type : {"RECONCILE"}, op : Operation, decision : Decision]
  <2>1. cur' = Run!Reconcile(cur, c.op, c.decision)
    BY <1>6, SameWrites DEF Applied
  <2> QED BY <1>2, <1>6, <2>1 DEF Run!Next, Run!ReconcileOperation
<1>7. CASE c \in [type : {"BIND_SEED"}, seed : Seed]
  <2>1. cur' = Run!BindSeed(cur, c.seed)
    BY <1>7, SameWrites DEF Applied
  <2> QED BY <1>2, <1>7, <2>1 DEF Run!Next, Run!BindSeedCommand
<1>8. CASE c \in [type : {"COMMIT_ROUTE"}, route : Route]
  <2>1. cur' = Run!CommitRoute(cur, c.route)
    BY <1>8, SameWrites DEF Applied
  <2> QED BY <1>2, <1>8, <2>1 DEF Run!Next, Run!CommitRouteCommand
<1>9. CASE c \in [type : {"EVALUATE_ROUTE", "REFUSE_SOURCE_MUTATION"}]
  <2>1. cur' = Run!EvaluateRoute(cur) \/ cur' = Run!RefuseSourceMutation(cur)
    BY <1>9, SameWrites DEF Applied
  <2> QED BY <1>2, <1>9, <2>1 DEF Run!Next, Run!EvaluateRouteCommand, Run!MutateSource
<1> QED BY <1>1, <1>3, <1>4, <1>5, <1>6, <1>7, <1>8, <1>9 DEF OrdinaryCommand
\* A command a session may dispatch keeps the type of the state.
LEMMA AppliedType ==
  ASSUME NEW c \in Command, NEW x \in RuntimeState
  PROVE  Applied(c, x) \in RuntimeState
<1>1. c \in OrdinaryCommand
  BY RestartAssumption
<1>2. CASE c \in [type : {"EMIT_HANDOFF"}, accountable : BOOLEAN,
                  handoff : Handoff \cup {None}, packet : EmittedPacket]
  BY <1>2, EmitType DEF Applied, EmittedPacket
<1>3. CASE c \in [type : {"OBSERVE", "VALIDATE"}, handoff : Handoff]
  BY <1>3, ReadSideTypes DEF Applied
<1>4. CASE c \in [type : {"ADMIT"}, op : Operation, authority : Authority, outcome : Outcome]
  BY <1>4, AdmissionTypes DEF Applied
<1>5. CASE c \in [type : {"RECONCILE"}, op : Operation, decision : Decision]
  BY <1>5, AdmissionTypes DEF Applied
<1>6. CASE c \in [type : {"BIND_SEED"}, seed : Seed]
  BY <1>6, RouteTypes DEF Applied
<1>7. CASE c \in [type : {"COMMIT_ROUTE"}, route : Route]
  BY <1>7, RouteTypes DEF Applied
<1>8. CASE c \in [type : {"EVALUATE_ROUTE", "REFUSE_SOURCE_MUTATION"}]
  BY <1>8, RouteTypes DEF Applied
<1> QED BY <1>1, <1>2, <1>3, <1>4, <1>5, <1>6, <1>7, <1>8 DEF OrdinaryCommand

-----------------------------------------------------------------------------
\* The inductive invariant: types of the target; the fence around an unknown
\* installation, with its evidence; before the first root, no session, and a
\* fresh state if any installation is under way; after it, the receipt that
\* made it, and its commits, which no command takes back; and the logs of
\* the sessions.

Fence ==
  /\ \A o, p \in InstallOp : Undecided(o) /\ Undecided(p) => o = p
  /\ \A o \in InstallOp : Undecided(o) =>
       Stored(cur) = latest[o].before /\ pending[o] = latest[o].cand /\ pending[o] \in Candidate

Unrooted ==
  root = None =>
    /\ \A s \in Session : session[s] = None
    /\ \A o \in InstallOp : Undecided(o) => cur = Fresh

Rooted ==
  root # None =>
    /\ latest[root.op] = root /\ root.decision = "COMMITTED"
    /\ \A o \in Operation : Settled(root.cand, o) => Settled(cur, o)

IInv == TypeOK /\ Fence /\ Unrooted /\ Rooted /\ AdmitsOncePerRoot /\ LogIsHistory

\* A candidate has its type, and reading a state back settles nothing.
LEMMA CandidateTypes == Candidate \cup Expected \subseteq RuntimeState
<1>1. \A x \in Saved \cup Initial : Stored(x) \in RuntimeState
  BY RestartAssumption, StoredFields
<1> QED BY <1>1 DEF Candidate, Expected

LEMMA StoredSettles ==
  ASSUME NEW x \in RuntimeState, NEW o \in Operation
  PROVE  Settled(Stored(x), o) <=> Settled(x, o)
BY StoredFields DEF Settled

LEMMA TargetInit == Init => IInv
<1> SUFFICES ASSUME Init PROVE IInv
  OBVIOUS
<1>1. TypeOK
  BY RestartAssumption DEF Init, TypeOK
<1>2. Fence /\ Unrooted /\ Rooted /\ AdmitsOncePerRoot
  BY DEF Init, Fence, Unrooted, Rooted, AdmitsOncePerRoot, Undecided
<1>3. LogIsHistory
  BY DEF Init, LogIsHistory
<1> QED BY <1>1, <1>2, <1>3 DEF IInv

\* What an installation that proceeds writes.
LEMMA InstallFacts ==
  ASSUME cur \in RuntimeState, NEW o \in InstallOp, NEW c \in Candidate, NEW x,
         InstallCode(o, c, x) = "PROCEED"
  PROVE  /\ latest[o] = None /\ \A p \in InstallOp : ~Undecided(p)
         /\ Stored(cur) = x /\ (root = None => cur = Fresh)
BY StoredFresh DEF InstallCode, HasPrior, Unresolved, Drifted, NotFresh

\* A new root, at once or by a reconciliation: no admission has taken effect
\* on it yet.
LEMMA NewRoot ==
  ASSUME IInv, NEW r \in InstallReceipt, r.decision = "COMMITTED",
         latest' = [latest EXCEPT ![r.op] = r], root' = r,
         NEW x \in RuntimeState, Replaced(x),
         \A o \in Operation : Settled(x, o) <=> Settled(r.cand, o)
  PROVE  Rooted' /\ AdmitsOncePerRoot'
BY DEF Rooted, AdmitsOncePerRoot, Replaced, IInv, TypeOK, InstallReceipt

\* A receipt without a new root leaves the root and its commits alone.
LEMMA SameRoot ==
  ASSUME IInv, NEW o \in InstallOp, NEW r, latest' = [latest EXCEPT ![o] = r],
         latest[o] = None \/ Undecided(o), UNCHANGED <<root, cur, effects>>
  PROVE  Rooted' /\ AdmitsOncePerRoot'
<1>1. AdmitsOncePerRoot'
  BY DEF IInv, AdmitsOncePerRoot, Settled
<1>2. root # None => root.op # o
  BY DEF IInv, Rooted, Undecided
<1>3. root # None => latest'[root.op] = latest[root.op]
  BY <1>2 DEF IInv, TypeOK, InstallReceipt
<1> QED BY <1>1, <1>3 DEF IInv, Rooted, Settled

LEMMA InstallKeeps ==
  ASSUME IInv, Install
  PROVE  IInv'
<1> USE DEF IInv
<1>1. PICK o \in InstallOp, c \in Candidate, x \in {Stored(cur)} \cup Expected,
           outcome \in Outcome :
        LET d == DecisionOf(outcome) IN
        /\ InstallCode(o, c, x) = "PROCEED"
        /\ Pushed(o, [op |-> o, cand |-> c, before |-> x, decision |-> d])
        /\ IF d = "COMMITTED" THEN Replaced(c) ELSE UNCHANGED <<cur, effects>>
        /\ pending' = IF d = "UNKNOWN" THEN [pending EXCEPT ![o] = c] ELSE pending
        /\ UNCHANGED session
  BY DEF Install
<1> DEFINE d == DecisionOf(outcome)
           r == [op |-> o, cand |-> c, before |-> x, decision |-> d]
<1>2. /\ latest[o] = None /\ \A p \in InstallOp : ~Undecided(p)
      /\ Stored(cur) = x /\ (root = None => cur = Fresh)
  BY <1>1, InstallFacts DEF TypeOK
<1>3. d \in Decision
  BY DEF DecisionOf, Decision
<1>4. r \in InstallReceipt /\ r # None
  BY <1>2, <1>3, StoredFields, RestartAssumption DEF TypeOK, InstallReceipt
<1>5. latest' = [latest EXCEPT ![o] = r] /\ root' = IF d = "COMMITTED" THEN r ELSE root
  BY <1>1 DEF Pushed
<1>6. TypeOK'
  BY <1>1, <1>4, <1>5, CandidateTypes DEF TypeOK, Replaced
<1>7. \A p \in InstallOp : Undecided(p)' => p = o /\ d = "UNKNOWN"
  BY <1>2, <1>4, <1>5 DEF TypeOK, Undecided
<1>8. Fence'
  <2>1. d = "UNKNOWN" => /\ Stored(cur)' = latest'[o].before /\ pending'[o] = latest'[o].cand
                         /\ pending'[o] \in Candidate
    BY <1>1, <1>2, <1>5 DEF TypeOK
  <2> QED BY <1>7, <2>1 DEF Fence
<1>9. Unrooted'
  BY <1>1, <1>2, <1>4, <1>5, <1>7 DEF Unrooted
<1>10. Rooted' /\ AdmitsOncePerRoot'
  <2>1. CASE d = "COMMITTED"
    BY <1>1, <1>4, <1>5, <2>1, CandidateTypes, NewRoot
  <2>2. CASE d # "COMMITTED"
    BY <1>1, <1>2, <1>5, <2>2, SameRoot
  <2> QED BY <2>1, <2>2
<1>11. LogIsHistory'
  BY <1>1 DEF LogIsHistory
<1> QED BY <1>6, <1>8, <1>9, <1>10, <1>11

\* What a reconciliation to COMMITTED leaves in the target: the candidate,
\* or the state that was there, if it has the candidate's fingerprint.
Reconciled(o) ==
  IF ReconcileCode(o, "COMMITTED") = "OK-INSTALLED" THEN Evidence(o) ELSE cur

LEMMA ReconcileFacts ==
  ASSUME IInv, NEW o \in InstallOp, Undecided(o), Settles(ReconcileCode(o, "COMMITTED"))
  PROVE  /\ pending[o] \in Candidate /\ pending[o] = latest[o].cand
         /\ Reconciled(o) \in RuntimeState
         /\ Reconciled(o) = pending[o] \/ (Reconciled(o) = cur /\ Stored(cur) = pending[o])
         /\ \A a \in Operation : Settled(Reconciled(o), a) <=> Settled(latest[o].cand, a)
<1> USE DEF IInv
<1>1. pending[o] \in Candidate /\ pending[o] = latest[o].cand /\ pending[o] \in RuntimeState
  BY CandidateTypes DEF Fence
<1>2. Reconciled(o) = pending[o] \/ (Reconciled(o) = cur /\ Stored(cur) = pending[o])
  BY <1>1 DEF Reconciled, ReconcileCode, Settles, Undecided, Evidence, Drifted
<1>3. cur \in RuntimeState
  BY DEF TypeOK
<1> QED BY <1>1, <1>2, <1>3, StoredSettles

LEMMA ReconcileKeeps ==
  ASSUME IInv, ReconcileInstall
  PROVE  IInv'
<1> USE DEF IInv
<1>1. PICK o \in InstallOp, d \in Decision :
        /\ Undecided(o) /\ Settles(ReconcileCode(o, d))
        /\ Pushed(o, [op |-> o, cand |-> latest[o].cand, before |-> latest[o].before,
                      decision |-> d])
        /\ pending' = [pending EXCEPT ![o] = None]
        /\ IF d # "COMMITTED" THEN UNCHANGED <<cur, effects>> ELSE Replaced(Reconciled(o))
        /\ UNCHANGED session
  BY DEF ReconcileInstall, Reconciled
<1> DEFINE r == [op |-> o, cand |-> latest[o].cand, before |-> latest[o].before, decision |-> d]
<1>2. d # "UNKNOWN"
  BY <1>1 DEF ReconcileCode, Settles, Undecided
<1>3. r \in InstallReceipt /\ r # None
  <2>1. latest[o] \in InstallReceipt
    BY <1>1 DEF TypeOK, Undecided
  <2> QED BY <2>1, RestartAssumption DEF InstallReceipt
<1>4. latest' = [latest EXCEPT ![o] = r] /\ root' = IF d = "COMMITTED" THEN r ELSE root
  BY <1>1 DEF Pushed
<1>5. pending[o] \in Candidate /\ pending[o] = latest[o].cand
  BY <1>1 DEF Fence
<1>6. TypeOK'
  <2>1. cur' \in RuntimeState /\ effects' \in [Operation -> Nat]
    BY <1>1, ReconcileFacts DEF TypeOK, Replaced
  <2> QED BY <1>1, <1>3, <1>4, <2>1 DEF TypeOK
<1>7. \A p \in InstallOp : ~Undecided(p)'
  BY <1>1, <1>2, <1>4 DEF TypeOK, Undecided, Fence
<1>8. Unrooted'
  BY <1>1, <1>3, <1>4, <1>7 DEF Unrooted
<1>9. Rooted' /\ AdmitsOncePerRoot'
  <2>1. CASE d = "COMMITTED"
    BY <1>1, <1>3, <1>4, <2>1, ReconcileFacts, NewRoot
  <2>2. CASE d # "COMMITTED"
    BY <1>1, <1>4, <2>2, SameRoot
  <2> QED BY <2>1, <2>2
<1>10. LogIsHistory'
  BY <1>1 DEF LogIsHistory
<1> QED BY <1>6, <1>7, <1>8, <1>9, <1>10 DEF Fence

LEMMA OpenKeeps ==
  ASSUME IInv, Open
  PROVE  IInv'
<1> USE DEF IInv
<1>1. PICK s \in Session :
        /\ root # None
        /\ session' = [session EXCEPT ![s] =
             [root |-> root, opening |-> Stored(cur), latest |-> Stored(cur), log |-> <<>>]]
        /\ UNCHANGED <<cur, latest, root, pending, effects>>
  BY DEF Open
<1> DEFINE new == [root |-> root, opening |-> Stored(cur), latest |-> Stored(cur), log |-> <<>>]
<1>2. new \in SessionRecord
  BY <1>1, StoredFields DEF TypeOK, SessionRecord
<1>3. TypeOK'
  BY <1>1, <1>2 DEF TypeOK
<1>4. Fence' /\ Unrooted' /\ Rooted' /\ AdmitsOncePerRoot'
  BY <1>1 DEF Fence, Unrooted, Rooted, AdmitsOncePerRoot, Undecided
<1>5. LogIsHistory'
  BY <1>1 DEF LogIsHistory, TypeOK
<1> QED BY <1>3, <1>4, <1>5

\* A log that is a history stays one when a command is added to it that
\* starts from its last state, under an identity it does not hold.
LEMMA LogGrows ==
  ASSUME IInv, NEW s \in Session, NEW e \in LogEntry, session[s] # None,
         Prior(s, e.id) = {}, e.before = session[s].latest,
         e.before = Stored(e.on), e.after = Stored(Applied(e.cmd, e.on)),
         session' = [session EXCEPT ![s] =
           [root |-> session[s].root, opening |-> session[s].opening, latest |-> e.after,
            log |-> Append(session[s].log, e)]]
  PROVE  LogIsHistory'
<1> USE DEF IInv
<1> DEFINE log == session[s].log
           n == Len(log)
<1>1. session[s] \in SessionRecord /\ log \in Seq(LogEntry) /\ n \in Nat
  BY DEF TypeOK, SessionRecord
<1>2. /\ session'[s].log = Append(log, e) /\ session'[s].opening = session[s].opening
      /\ session'[s].latest = e.after
      /\ \A t \in Session : t # s => session'[t] = session[t]
  BY DEF TypeOK
<1>3. /\ Len(Append(log, e)) = n + 1 /\ Append(log, e)[n + 1] = e
      /\ \A k \in 1 .. n : Append(log, e)[k] = log[k]
  BY <1>1
<1>4. \A k \in 1 .. n : log[k].id # e.id
  <2>1. DOMAIN log = 1 .. n
    BY <1>1
  <2> QED BY <2>1 DEF Prior, ToSet
<1> DEFINE At(k) == IF k = 0 THEN session[s].opening ELSE log[k].after
           After1(k) == IF k = 0 THEN session[s].opening ELSE Append(log, e)[k].after
<1>5. /\ \A k \in 1 .. n :
           /\ log[k].before = At(k - 1) /\ log[k].before = Stored(log[k].on)
           /\ log[k].after = Stored(Applied(log[k].cmd, log[k].on))
      /\ session[s].latest = At(n)
      /\ \A j, k \in 1 .. n : log[j].id = log[k].id => j = k
  BY DEF LogIsHistory
<1>6. \A k \in 0 .. n : After1(k) = At(k)
  BY <1>1, <1>3
<1>7. \A k \in 1 .. n + 1 :
        /\ Append(log, e)[k].before = After1(k - 1)
        /\ Append(log, e)[k].before = Stored(Append(log, e)[k].on)
        /\ Append(log, e)[k].after = Stored(Applied(Append(log, e)[k].cmd, Append(log, e)[k].on))
  <2> SUFFICES ASSUME NEW k \in 1 .. n + 1
               PROVE  /\ Append(log, e)[k].before = After1(k - 1)
                      /\ Append(log, e)[k].before = Stored(Append(log, e)[k].on)
                      /\ Append(log, e)[k].after =
                           Stored(Applied(Append(log, e)[k].cmd, Append(log, e)[k].on))
    OBVIOUS
  <2> HIDE DEF After1, At
  <2>1. CASE k = n + 1
    <3>1. After1(n) = At(n)
      BY <1>1, <1>6
    <3>2. Append(log, e)[k] = e /\ k - 1 = n
      BY <1>1, <1>3, <2>1
    <3>3. e.before = After1(k - 1)
      BY <1>5, <3>1, <3>2
    <3> QED BY <3>2, <3>3
  <2>2. CASE k \in 1 .. n
    <3>1. After1(k - 1) = At(k - 1)
      BY <1>1, <1>6, <2>2
    <3> QED BY <1>3, <1>5, <2>2, <3>1
  <2> QED BY <1>1, <2>1, <2>2
<1>8. session'[s].latest = After1(n + 1)
  BY <1>1, <1>2, <1>3
<1>9. \A j, k \in 1 .. n + 1 : Append(log, e)[j].id = Append(log, e)[k].id => j = k
  <2>1. \A j \in 1 .. n + 1 : j = n + 1 \/ j \in 1 .. n
    BY <1>1
  <2> QED BY <1>3, <1>4, <1>5, <2>1
<1> HIDE DEF log, n
<1> QED BY <1>2, <1>3, <1>7, <1>8, <1>9 DEF LogIsHistory, log, n

\* What the functions of SecretEngine keep, a dispatched command keeps.
LEMMA DispatchKept ==
  ASSUME IInv, NEW c \in Command, cur' = Applied(c, cur),
         effects' = [o \in Operation |-> IF Takes(c, o) THEN effects[o] + 1 ELSE effects[o]]
  PROVE  \A o \in Operation : Settled(cur, o) => Settled(cur', o)
<1>1. Run!Next
  BY DispatchRuns DEF IInv, TypeOK, AdmitsOncePerRoot
<1>2. Run!Kept
  BY <1>1, RunAssumed, SameSets, Run!NextKeeps DEF IInv, TypeOK
<1> QED BY <1>2, SameQueries DEF Run!Kept, Settled

\* The entry and the session record that a dispatched command leaves.
LEMMA DispatchTypes ==
  ASSUME IInv, NEW s \in Session, NEW id \in CommandId, NEW c \in Command,
         session[s] # None, cur' = Applied(c, cur)
  PROVE  LET e == [id |-> id, cmd |-> c, before |-> Stored(cur), on |-> cur,
                   after |-> Stored(cur')] IN
         /\ cur' \in RuntimeState /\ e \in LogEntry
         /\ [root |-> session[s].root, opening |-> session[s].opening,
             latest |-> Stored(cur'), log |-> Append(session[s].log, e)] \in SessionRecord
<1> DEFINE e == [id |-> id, cmd |-> c, before |-> Stored(cur), on |-> cur, after |-> Stored(cur')]
<1>1. cur' \in RuntimeState
  BY AppliedType DEF IInv, TypeOK
<1>2. e \in LogEntry
  BY <1>1, StoredFields DEF IInv, TypeOK, LogEntry
<1>3. session[s] \in SessionRecord
  BY DEF IInv, TypeOK
<1>4. Append(session[s].log, e) \in Seq(LogEntry)
  BY <1>2, <1>3 DEF SessionRecord
<1> QED BY <1>1, <1>2, <1>3, <1>4, StoredFields DEF SessionRecord

LEMMA DispatchKeeps ==
  ASSUME IInv, Dispatch
  PROVE  IInv'
<1> USE DEF IInv
<1>1. PICK s \in Session, id \in CommandId, c \in Command,
           x \in {Stored(cur)} \cup Expected :
        /\ session[s] # None
        /\ DispatchCode(s, id, c, x) = "PROCEED"
        /\ cur' = Applied(c, cur)
        /\ effects' = [o \in Operation |-> IF Takes(c, o) THEN effects[o] + 1 ELSE effects[o]]
        /\ session' = [session EXCEPT ![s] =
             [root |-> session[s].root, opening |-> session[s].opening, latest |-> Stored(cur'),
              log |-> Append(session[s].log,
                             [id |-> id, cmd |-> c, before |-> x, on |-> cur,
                              after |-> Stored(cur')])]]
        /\ UNCHANGED <<latest, root, pending>>
  BY DEF Dispatch
<1> DEFINE e == [id |-> id, cmd |-> c, before |-> x, on |-> cur, after |-> Stored(cur')]
<1>2. /\ root # None /\ \A o \in InstallOp : ~Undecided(o)
      /\ session[s].latest = Stored(cur) /\ x = Stored(cur) /\ Prior(s, id) = {}
  BY <1>1 DEF Unrooted, DispatchCode, StateCode, Unresolved, Stale, Drifted
<1>3. /\ cur' \in RuntimeState /\ e \in LogEntry
      /\ [root |-> session[s].root, opening |-> session[s].opening, latest |-> Stored(cur'),
          log |-> Append(session[s].log, e)] \in SessionRecord
  BY <1>1, <1>2, DispatchTypes
<1>4. TypeOK'
  BY <1>1, <1>3 DEF TypeOK
<1>5. Fence' /\ Unrooted'
  BY <1>1, <1>2 DEF Fence, Unrooted, Undecided
<1>6. \A o \in Operation : Settled(cur, o) => Settled(cur', o)
  BY <1>1, DispatchKept
<1>7. Rooted'
  BY <1>1, <1>2, <1>6 DEF Rooted, Settled
<1>8. AdmitsOncePerRoot'
  <2> SUFFICES ASSUME NEW o \in Operation
               PROVE  /\ effects'[o] <= 1
                      /\ effects'[o] = 1 => Settled(cur', o) /\ ~Settled(root.cand, o)
    BY <1>1 DEF AdmitsOncePerRoot, Settled
  <2>1. CASE Takes(c, o)
    <3>1. ~Settled(cur, o) /\ cur' = Record(cur, o, cur.active, "COMMITTED")
      BY <1>1, <2>1 DEF Takes, Admits, Applied, Admit, DecisionOf
    <3>2. effects[o] = 0
      BY <3>1 DEF AdmitsOncePerRoot, TypeOK
    <3>3. Settled(cur', o)
      <4>1. cur.active \in Handoff
        BY <2>1, FieldTypes DEF TypeOK, Takes, Admits, Admissible
      <4>2. "COMMITTED" \in Decision
        BY DEF Decision
      <4> QED BY <3>1, <4>1, <4>2, RecordSettles DEF TypeOK
    <3> QED BY <1>1, <1>2, <2>1, <3>1, <3>2, <3>3 DEF Rooted
  <2>2. CASE ~Takes(c, o)
    BY <1>1, <1>6, <2>2 DEF AdmitsOncePerRoot
  <2> QED BY <2>1, <2>2
<1>9. LogIsHistory'
  <2>1. /\ e.before = session[s].latest /\ e.before = Stored(e.on) /\ Prior(s, e.id) = {}
        /\ e.after = Stored(Applied(e.cmd, e.on))
    BY <1>1, <1>2
  <2> QED BY <1>1, <1>3, <2>1, LogGrows
<1> QED BY <1>4, <1>5, <1>7, <1>8, <1>9

LEMMA TargetNext == IInv /\ [Next]_vars => IInv'
<1> SUFFICES ASSUME IInv, [Next]_vars PROVE IInv'
  OBVIOUS
<1>1. CASE UNCHANGED vars
  <2>1. TypeOK' /\ Fence' /\ Unrooted' /\ Rooted' /\ AdmitsOncePerRoot'
    BY <1>1 DEF IInv, TypeOK, Fence, Unrooted, Rooted, AdmitsOncePerRoot, Undecided, vars
  <2>2. LogIsHistory'
    BY <1>1 DEF IInv, LogIsHistory, vars
  <2> QED BY <2>1, <2>2 DEF IInv
<1>2. CASE Next
  BY <1>2, InstallKeeps, ReconcileKeeps, OpenKeeps, DispatchKeeps DEF Next
<1> QED BY <1>1, <1>2

\* The inductive invariant holds in every state of every behaviour.
THEOREM TargetInvariant == Spec => []IInv
BY TargetInit, TargetNext, PTL DEF Spec

\* The target, its receipts and its sessions keep their types.
THEOREM TargetTypes == Spec => []TypeOK
<1>1. IInv => TypeOK
  BY DEF IInv
<1> QED BY <1>1, TargetInvariant, PTL

\* The log of every session is one unbroken history without a repeated
\* identity, whatever the other sessions and the installer do.
THEOREM SessionsLogHistory == Spec => []LogIsHistory
<1>1. IInv => LogIsHistory
  BY DEF IInv
<1> QED BY <1>1, TargetInvariant, PTL

\* All sessions of one installation together commit an admission at most
\* once, and never one that the installed state already shows committed.
THEOREM AdmittedOnce == Spec => []AdmitsOncePerRoot
<1>1. IInv => AdmitsOncePerRoot
  BY DEF IInv
<1> QED BY <1>1, TargetInvariant, PTL

-----------------------------------------------------------------------------
\* An unknown installation can always be settled, either way, whatever the
\* installer and the sessions attempt meanwhile.
THEOREM UnknownSettles == Spec => []UnknownCanSettle
<1>1. IInv => UnknownCanSettle
  <2> SUFFICES ASSUME IInv, NEW o \in InstallOp, Undecided(o),
                      NEW d \in {"COMMITTED", "NOT_COMMITTED"}
               PROVE  Stored(cur) = latest[o].before /\ Settles(ReconcileCode(o, d))
    BY DEF UnknownCanSettle, IInv, Fence
  <2>1. /\ Stored(cur) = latest[o].before /\ pending[o] = latest[o].cand /\ pending[o] # None
        /\ latest[o] # None /\ latest[o].decision = "UNKNOWN"
    BY RestartAssumption DEF IInv, Fence, Undecided
  <2> QED BY <2>1 DEF ReconcileCode, Settles, Drifted
<1> QED BY <1>1, TargetInvariant, PTL

\* A decided installation is never decided again.
THEOREM DecisionsFinal == Spec => DecidedIsFinal
<1> DEFINE Final == \A o \in InstallOp :
             latest[o] # None /\ latest[o].decision # "UNKNOWN" => latest'[o] = latest[o]
<1>1. IInv /\ [Next]_vars => [Final]_vars
  <2> SUFFICES ASSUME IInv, Next PROVE Final
    OBVIOUS
  <2>1. CASE Install
    BY <2>1, InstallFacts DEF Install, Pushed, IInv, TypeOK
  <2>2. CASE ReconcileInstall
    BY <2>2 DEF ReconcileInstall, Pushed, Undecided, IInv, TypeOK
  <2>3. CASE Open \/ Dispatch
    BY <2>3 DEF Open, Dispatch
  <2> QED BY <2>1, <2>2, <2>3 DEF Next
<1> QED BY <1>1, TargetInvariant, PTL DEF Spec, DecidedIsFinal

\* The first committed installation replaces a fresh state, and nothing
\* changes the target or opens a session before it.
THEOREM FirstInstallFresh == Spec => FirstInstallIsFromFresh
<1> DEFINE First ==
      root = None => IF root' = None THEN UNCHANGED <<cur, session>> ELSE cur = Fresh
<1>1. IInv /\ [Next]_vars => [First]_vars
  <2> SUFFICES ASSUME IInv, Next, root = None PROVE First
    OBVIOUS
  <2>1. CASE Install
    <3>1. PICK o \in InstallOp, c \in Candidate, x \in {Stored(cur)} \cup Expected,
               outcome \in Outcome :
            LET d == DecisionOf(outcome) IN
            /\ InstallCode(o, c, x) = "PROCEED"
            /\ Pushed(o, [op |-> o, cand |-> c, before |-> x, decision |-> d])
            /\ IF d = "COMMITTED" THEN Replaced(c) ELSE UNCHANGED <<cur, effects>>
            /\ UNCHANGED session
      BY <2>1 DEF Install
    <3>2. cur = Fresh
      BY <3>1, InstallFacts DEF IInv, TypeOK
    <3>3. CASE DecisionOf(outcome) = "COMMITTED"
      <4>1. cur \in RuntimeState
        BY DEF IInv, TypeOK
      <4>2. /\ root' = [op |-> o, cand |-> c, before |-> x, decision |-> "COMMITTED"]
            /\ x = Stored(cur)
        BY <3>1, <3>3, <4>1, InstallFacts DEF Pushed
      <4>3. root' \in InstallReceipt
        BY <4>1, <4>2, StoredFields DEF InstallReceipt, Decision
      <4>4. root' # None
        BY <4>3, RestartAssumption
      <4> QED BY <3>2, <4>4
    <3>4. CASE DecisionOf(outcome) # "COMMITTED"
      BY <3>1, <3>2, <3>4 DEF Pushed
    <3> QED BY <3>3, <3>4
  <2>2. CASE ReconcileInstall
    <3>1. PICK o \in InstallOp, d \in Decision :
            /\ Undecided(o)
            /\ Pushed(o, [op |-> o, cand |-> latest[o].cand, before |-> latest[o].before,
                          decision |-> d])
            /\ d # "COMMITTED" => UNCHANGED cur
            /\ UNCHANGED session
      BY <2>2 DEF ReconcileInstall
    <3>2. cur = Fresh
      BY <3>1 DEF IInv, Unrooted
    <3>3. CASE d = "COMMITTED"
      <4>1. latest[o] \in InstallReceipt
        BY <3>1 DEF IInv, TypeOK, Undecided
      <4>2. root' \in InstallReceipt
        BY <3>1, <3>3, <4>1 DEF Pushed, InstallReceipt
      <4>3. root' # None
        BY <4>2, RestartAssumption
      <4> QED BY <3>2, <4>3
    <3>4. CASE d # "COMMITTED"
      BY <3>1, <3>2, <3>4 DEF Pushed
    <3> QED BY <3>3, <3>4
  <2>3. CASE Open
    BY <2>3 DEF Open
  <2>4. CASE Dispatch
    BY <2>4 DEF Dispatch, IInv, Unrooted
  <2> QED BY <2>1, <2>2, <2>3, <2>4 DEF Next
<1> QED BY <1>1, TargetInvariant, PTL DEF Spec, FirstInstallIsFromFresh

\* Every change of the target has a receipt that names what it replaced: a
\* new root, or a new entry in the log of one session.
THEOREM ChangesReceipted == Spec => ChangesAreReceipted
<1> DEFINE Receipted == cur' # cur =>
             \/ root' # root /\ root'.cand = cur' /\ root'.before = Stored(cur)
             \/ \E s \in Session : Grew(s) /\
                  LET e == session'[s].log[Len(session'[s].log)] IN
                  e.before = Stored(cur) /\ e.after = Stored(cur')
<1>1. IInv /\ [Next]_vars => [Receipted]_vars
  <2> SUFFICES ASSUME IInv, Next, cur' # cur PROVE Receipted
    OBVIOUS
  <2> USE DEF IInv
  <2>1. CASE Install
    <3>1. PICK o \in InstallOp, c \in Candidate, x \in {Stored(cur)} \cup Expected,
               outcome \in Outcome :
            LET d == DecisionOf(outcome) IN
            /\ InstallCode(o, c, x) = "PROCEED"
            /\ Pushed(o, [op |-> o, cand |-> c, before |-> x, decision |-> d])
            /\ IF d = "COMMITTED" THEN Replaced(c) ELSE UNCHANGED <<cur, effects>>
      BY <2>1 DEF Install
    <3> DEFINE r == [op |-> o, cand |-> c, before |-> x, decision |-> "COMMITTED"]
    <3>2. root' = r /\ cur' = c
      BY <3>1 DEF Pushed, Replaced
    <3>3. x = Stored(cur) /\ latest[o] = None
      BY <3>1, InstallFacts DEF TypeOK
    <3>4. r \in InstallReceipt
      BY <3>3, StoredFields DEF InstallReceipt, Decision, TypeOK
    <3>5. r # None
      BY <3>4, RestartAssumption
    <3>6. root # r
      BY <3>3, <3>5 DEF Rooted
    <3> QED BY <3>2, <3>3, <3>6
  <2>2. CASE ReconcileInstall
    <3>1. PICK o \in InstallOp, d \in Decision :
            /\ Undecided(o) /\ Settles(ReconcileCode(o, d))
            /\ Pushed(o, [op |-> o, cand |-> latest[o].cand, before |-> latest[o].before,
                          decision |-> d])
            /\ IF d # "COMMITTED" THEN UNCHANGED <<cur, effects>> ELSE Replaced(Reconciled(o))
      BY <2>2 DEF ReconcileInstall, Reconciled
    <3> DEFINE r == [op |-> o, cand |-> latest[o].cand, before |-> latest[o].before,
                     decision |-> "COMMITTED"]
    <3>2. root' = r /\ cur' = pending[o]
      BY <3>1, ReconcileFacts DEF Pushed, Replaced
    <3>3. latest[o].before = Stored(cur) /\ latest[o].cand = pending[o]
      BY <3>1 DEF Fence
    <3>4. latest[o] \in InstallReceipt
      BY <3>1 DEF TypeOK, Undecided
    <3>5. r # None
      <4>1. r \in InstallReceipt
        BY <3>4 DEF InstallReceipt, Decision
      <4> QED BY <4>1, RestartAssumption
    <3>6. root # r
      BY <3>1, <3>5 DEF Rooted, Undecided
    <3> QED BY <3>2, <3>3, <3>6
  <2>3. CASE Open
    BY <2>3 DEF Open
  <2>4. CASE Dispatch
    <3>1. PICK s \in Session, id \in CommandId, c \in Command,
               x \in {Stored(cur)} \cup Expected :
            /\ session[s] # None
            /\ DispatchCode(s, id, c, x) = "PROCEED"
            /\ cur' = Applied(c, cur)
            /\ session' = [session EXCEPT ![s] =
                 [root |-> session[s].root, opening |-> session[s].opening,
                  latest |-> Stored(cur'),
                  log |-> Append(session[s].log,
                                 [id |-> id, cmd |-> c, before |-> x, on |-> cur,
                                  after |-> Stored(cur')])]]
      BY <2>4 DEF Dispatch
    <3> DEFINE e == [id |-> id, cmd |-> c, before |-> x, on |-> cur, after |-> Stored(cur')]
               n == Len(session[s].log)
    <3>2. x = Stored(cur)
      BY <3>1 DEF DispatchCode, StateCode, Drifted
    <3>3. session[s] \in SessionRecord
      BY <3>1 DEF TypeOK
    <3>4. session[s].log \in Seq(LogEntry) /\ n \in Nat
      BY <3>3 DEF SessionRecord
    <3>5. session'[s].log = Append(session[s].log, e) /\ session'[s] \in SessionRecord
      BY <3>1, <3>2, DispatchTypes DEF TypeOK
    <3>6. session'[s] # None
      BY <3>5, RestartAssumption
    <3>7. Len(session'[s].log) = n + 1 /\ session'[s].log[n + 1] = e
      BY <3>4, <3>5
    <3> QED BY <3>1, <3>2, <3>6, <3>7 DEF Grew
  <2> QED BY <2>1, <2>2, <2>3, <2>4 DEF Next
<1> QED BY <1>1, TargetInvariant, PTL DEF Spec, ChangesAreReceipted

-----------------------------------------------------------------------------
\* What SecretEngine keeps of an interface state, through restarts.  Genuine
\* is its inductive invariant without the counts, and Traced says where a
\* packet without its key came from.

Matches ==
  cur \in RuntimeState =>
    (Genuine(cur) <=> Run!HasActive /\ Run!AdmissionIsGrounded /\ Run!OnlyVettedIsAdmitted)

Traced ==
  root # None =>
    \A h \in Handoff : Known(cur, h) =>
      cur.packets[h] \in EmittedPacket \/ cur.packets[h] = root.cand.packets[h]

LEMMA GenuineMatches == Matches
<1> SUFFICES ASSUME cur \in RuntimeState
             PROVE  Genuine(cur) <=>
                      Run!HasActive /\ Run!AdmissionIsGrounded /\ Run!OnlyVettedIsAdmitted
  BY DEF Matches
<1>1. \A h \in Handoff : ~BadAncestry(cur, h) <=>
        \/ cur.packets[h].supersedes = None
        \/ cur.packets[h].supersedes # h /\ Known(cur, cur.packets[h].supersedes)
  BY InterfaceAssumption DEF BadAncestry
<1>2. /\ cur.active # None => cur.active \in Handoff
      /\ \A o \in Operation : cur.receipts[o] # None => cur.receipts[o].handoff \in Handoff
  BY FieldTypes DEF Receipt
<1>3. Genuine(cur) <=> Run!HasActive /\ Run!AdmissionIsGrounded /\ Run!OnlyVettedIsAdmitted
  BY <1>1, <1>2 DEF Genuine, Known, Settled, Run!HasActive, Run!Settling, Run!PastAdmission,
     Run!AdmissionIsGrounded, Run!OnlyVettedIsAdmitted, Run!Vetted, Run!Known, Run!Settled
<1> QED BY <1>3

\* A state that was saved and read back is as genuine as it was.
LEMMA StoredGenuine ==
  ASSUME NEW x \in RuntimeState, Genuine(x)
  PROVE  Genuine(Stored(x))
<1> DEFINE y == Stored(x)
<1>1. /\ y.state = x.state /\ y.active = x.active /\ y.receipts = x.receipts /\ y.seed = x.seed
  BY StoredFields
<1>2. ASSUME NEW h \in Handoff, Known(x, h), x.packets[h].flaw = None, ~BadAncestry(x, h)
      PROVE  Known(y, h) /\ y.packets[h].flaw = None /\ ~BadAncestry(y, h)
  <2>1. x.packets[h] \in Packet
    BY <1>2, FieldTypes DEF Known
  <2>2. Known(y, h) /\ y.packets[h] = StoredPacket(x.packets[h])
    BY <1>2, StoredFields
  <2>3. y.packets[h].flaw = None /\ y.packets[h].supersedes = x.packets[h].supersedes
    BY <1>2, <2>1, <2>2, StoredPacketFields
  <2>4. x.packets[h].supersedes \in Handoff \cup {None}
    BY <2>1 DEF Packet
  <2>5. \A k \in Handoff : Known(y, k) <=> Known(x, k)
    BY StoredFields
  <2> HIDE DEF y
  <2> QED BY <1>2, <2>2, <2>3, <2>4, <2>5 DEF BadAncestry
<1>3. /\ x.active # None => x.active \in Handoff
      /\ \A o \in Operation : x.receipts[o] # None => x.receipts[o].handoff \in Handoff
  BY FieldTypes DEF Receipt
<1> HIDE DEF y
<1>4. Genuine(y)
  BY <1>1, <1>2, <1>3 DEF Genuine
<1> QED BY <1>4 DEF y

LEMMA CandidatesGenuine == \A x \in Candidate : Genuine(x)
BY StoredGenuine, GenuineAssumption, RestartAssumption DEF Candidate

LEMMA GenuineIsGrounded ==
  ASSUME cur \in RuntimeState, Genuine(cur), Traced
  PROVE  EngineStaysGrounded
<1>1. \A h \in Handoff : ~BadAncestry(cur, h) <=>
        \/ cur.packets[h].supersedes = None
        \/ cur.packets[h].supersedes # h /\ Known(cur, cur.packets[h].supersedes)
  BY InterfaceAssumption DEF BadAncestry
<1>2. /\ cur.active # None => cur.active \in Handoff
      /\ \A o \in Operation : cur.receipts[o] # None => cur.receipts[o].handoff \in Handoff
  BY FieldTypes DEF Receipt
<1>3. Engine!AdmissionIsGrounded /\ Engine!OnlyVettedIsAdmitted
  BY <1>1, <1>2 DEF Genuine, Known, Settled, Engine!AdmissionIsGrounded,
     Engine!OnlyVettedIsAdmitted, Engine!PastAdmission, Engine!Vetted, Engine!Known,
     Engine!Settled
<1>4. ASSUME root # None, NEW h \in Handoff, Known(cur, h), Engine!Vetted(h),
             Objection(cur, h) # None
      PROVE  cur.packets[h] = root.cand.packets[h] /\ cur.packets[h].supersedes = None
  <2>1. cur.packets[h] \in Packet
    BY <1>4, FieldTypes DEF Known
  <2>2. cur.packets[h].flaw = None /\ ~BadAncestry(cur, h)
    BY <1>1, <1>4 DEF Engine!Vetted, Engine!Known, Known
  <2>3. ~cur.packets[h].key
    BY <1>4, <2>2, InterfaceAssumption DEF Objection, EarlyFlaw, LateFlaw, Flaw
  <2> QED BY <1>4, <2>1, <2>3 DEF Traced, EmittedPacket, Packet
<1> QED BY <1>3, <1>4 DEF EngineStaysGrounded

\* A dispatched command is a step of a run, from its invariant to itself.
LEMMA DispatchGenuine ==
  ASSUME IInv, Genuine(cur), Dispatch
  PROVE  Genuine(cur') /\ Run!Kept
<1>1. PICK c \in Command :
        /\ cur' = Applied(c, cur)
        /\ effects' = [o \in Operation |-> IF Takes(c, o) THEN effects[o] + 1 ELSE effects[o]]
  BY DEF Dispatch
<1>2. Run!Next
  BY <1>1, DispatchRuns DEF IInv, TypeOK, AdmitsOncePerRoot
<1>3. Run!IInv
  <2>1. Run!TypeOK
    BY SameSets DEF IInv, TypeOK, AdmitsOncePerRoot, Run!TypeOK
  <2>2. Run!CommitsOnce
    BY SameQueries DEF IInv, AdmitsOncePerRoot, Run!CommitsOnce, Settled, Run!Settled
  <2> QED BY <2>1, <2>2, GenuineMatches DEF IInv, TypeOK, Run!IInv, Matches
<1>4. Run!IInv'
  BY <1>2, <1>3, RunAssumed, Run!EngineNext
<1>5. cur' \in RuntimeState
  BY DispatchKeeps DEF IInv, TypeOK
<1>6. Matches'
  BY GenuineMatches, PTL
<1>7. Run!Kept
  BY <1>2, RunAssumed, SameSets, Run!NextKeeps DEF IInv, TypeOK
<1> QED BY <1>4, <1>5, <1>6, <1>7 DEF Run!IInv, Matches

LEMMA GenuineNext ==
  ASSUME IInv, Genuine(cur), [Next]_vars
  PROVE  Genuine(cur')
<1>1. CASE UNCHANGED vars \/ Open
  BY <1>1 DEF Open, vars
<1>2. CASE Install
  BY <1>2, CandidatesGenuine DEF Install, Replaced
<1>3. CASE ReconcileInstall
  <2>1. PICK o \in InstallOp : Undecided(o) /\ (cur' = cur \/ cur' = pending[o])
    BY <1>3 DEF ReconcileInstall, Replaced, Evidence
  <2> QED BY <2>1, CandidatesGenuine DEF IInv, Fence
<1>4. CASE Dispatch
  BY <1>4, DispatchGenuine
<1> QED BY <1>1, <1>2, <1>3, <1>4 DEF Next

\* Commands bring packets with their keys only, and an installation, or a
\* reconciliation that finds its candidate in place, leaves in the target the
\* packets of the new root.
LEMMA TracedNext ==
  ASSUME IInv, Genuine(cur), Traced, [Next]_vars
  PROVE  Traced'
<1> USE DEF IInv
<1>1. CASE UNCHANGED vars \/ Open
  BY <1>1 DEF Open, vars, Traced, Known
<1>2. CASE Install
  <2>1. \/ UNCHANGED <<root, cur>>
        \/ root'.cand = cur'
    BY <1>2 DEF Install, Pushed, Replaced
  <2> QED BY <2>1 DEF Traced, Known
<1>3. CASE ReconcileInstall
  <2>1. PICK o \in InstallOp, d \in Decision :
          /\ Undecided(o) /\ Settles(ReconcileCode(o, d))
          /\ Pushed(o, [op |-> o, cand |-> latest[o].cand, before |-> latest[o].before,
                        decision |-> d])
          /\ IF d # "COMMITTED" THEN UNCHANGED <<cur, effects>> ELSE Replaced(Reconciled(o))
    BY <1>3 DEF ReconcileInstall, Reconciled
  <2>2. CASE d # "COMMITTED"
    BY <2>1, <2>2 DEF Pushed, Traced, Known
  <2>3. CASE d = "COMMITTED"
    <3>1. /\ root'.cand = latest[o].cand /\ cur' = Reconciled(o) /\ pending[o] = latest[o].cand
          /\ cur' = pending[o] \/ (cur' = cur /\ Stored(cur) = pending[o])
      BY <2>1, <2>3, ReconcileFacts DEF Pushed, Replaced
    <3>2. CASE cur' = pending[o]
      BY <3>1, <3>2 DEF Traced
    <3>3. CASE cur' = cur /\ Stored(cur) = pending[o]
      <4> SUFFICES ASSUME NEW h \in Handoff, Known(cur, h), cur.packets[h] \notin EmittedPacket
                   PROVE  cur.packets[h] = Stored(cur).packets[h]
        BY <3>1, <3>3 DEF Traced, Known
      <4>1. cur \in RuntimeState /\ cur.packets[h] \in Packet
        BY FieldTypes DEF TypeOK, Known
      <4>2. Stored(cur).packets[h] = StoredPacket(cur.packets[h])
        BY <4>1, StoredFields
      <4>3. StoredPacket(cur.packets[h]) = cur.packets[h]
        BY <4>1, KeylessIsStored
      <4> QED BY <4>2, <4>3
    <3> QED BY <3>1, <3>2, <3>3
  <2> QED BY <2>2, <2>3
<1>4. CASE Dispatch
  <2>1. UNCHANGED root /\ Run!Kept /\ root # None
    BY <1>4, DispatchGenuine DEF Dispatch, Unrooted
  <2>2. \A h \in Handoff : cur'.packets[h] = cur.packets[h] \/ cur'.packets[h] \in EmittedPacket
    BY <2>1, SameSets DEF Run!Kept
  <2> QED BY <2>1, <2>2 DEF Traced, Known
<1> QED BY <1>1, <1>2, <1>3, <1>4 DEF Next

\* Through any number of restarts and re-entries, what a target admits is
\* backed by a committed receipt of a vetted packet, and a vetted packet that
\* validate turns down came with the installed snapshot, superseding nothing.
THEOREM RestartsStayGrounded == Spec => []EngineStaysGrounded
<1>1. Init => Genuine(cur) /\ Traced
  BY GenuineAssumption DEF Init, Traced
<1>2. IInv /\ Genuine(cur) /\ Traced /\ [Next]_vars => (Genuine(cur) /\ Traced)'
  BY GenuineNext, TracedNext
<1>3. IInv /\ Genuine(cur) /\ Traced => EngineStaysGrounded
  BY GenuineIsGrounded DEF IInv, TypeOK
<1> QED BY <1>1, <1>2, <1>3, TargetInvariant, PTL DEF Spec
=============================================================================
