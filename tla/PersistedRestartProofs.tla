------------------------ MODULE PersistedRestartProofs ------------------------
(***************************************************************************)
(* Theorems about what the recovery store answers and about the restarts   *)
(* prepared from its answers, for any number of callers, any envelopes and *)
(* any number of crashes and failures; and about directories that          *)
(* something else writes to.                                               *)
(***************************************************************************)
EXTENDS RecoveryStoreProofs, PersistedRestart, WellFoundedInduction

-----------------------------------------------------------------------------
\* The inductive invariant, on top of IInv of RecoveryStoreProofs.

\* Only verified envelopes are recorded.
Verified == \A f \in finals : VerifyEnvelope(f)

\* An append past the link has its record, and so has one answered as stored.
Recorded(c) ==
  /\ pc[c] \in {"unlink", "readback"} => call[c].env \in finals
  /\ result[c] \in {"STORE-OK-STORED", "STORE-OK-ALREADY-STORED"} => call[c].env \in finals

\* A scan, of an append or a load, lists final records only.
Listed(c) == pc[c] \in {"scanning", "decide"} => seen[c] \subseteq finals

\* A load that vouches for a chain has ended and still holds what it listed.
Vouched(c) ==
  result[c] \in {"STORE-VALID-CANDIDATE", "STORE-LOCAL-INTEGRITY-ONLY"} =>
    /\ pc[c] = Idle /\ ~Appending(c)
    /\ seen[c] # {} /\ seen[c] \subseteq finals /\ Healthy(seen[c])
    /\ result[c] = "STORE-VALID-CANDIDATE" => call[c].head # None /\ IsHead(seen[c], call[c].head)

\* While no fault happens every claim file and every staging file belongs to
\* an append under way.
Owned ==
  faults = 0 =>
    /\ \A n \in claims : \E c \in Caller :
         Appending(c) /\ pc[c] \in HoldingPC /\ Slot(c) = n
    /\ \A c \in staging : pc[c] \in {"stage", "link", "unlink"}

Filled(c) == \E f \in finals : SeqOf[f] = Slot(c)

\* As long as nobody has filled its sequence number, a legal append sees the
\* history it was made for and stops only at a peer's staging file or a busy
\* claim.
OnItsWay(c) ==
  /\ Extends(finals, call[c].env) /\ (finals = {} \/ IsHead(finals, call[c].head))
  /\ pc[c] \in {"scanning", "decide"} => seen[c] = finals
  /\ pc[c] \notin {"unlink", "readback"}
  /\ pc[c] = "release" => result[c] = "STORE-HOLD-ORPHAN-STAGING"
  /\ pc[c] = Idle => \/ result[c] = "STORE-HOLD-ORPHAN-STAGING"
                     \/ tries[c] = ClaimRetryLimit

Legal(c) ==
  faults = 0 /\ call[c].fresh =>
    /\ Appending(c) /\ call[c].env \in Envelope /\ VerifyEnvelope(call[c].env)
    /\ Filled(c) \/ OnItsWay(c)

Conflict == {"STORE-CONFLICT-SLOT", "STORE-CONFLICT-FORK", "STORE-CONFLICT-PREV-HASH",
             "STORE-CONFLICT-HEAD-CHANGED", "STORE-OK-STORED"}

\* An append of a stored record never gets as far as staging it.
Retried(c) ==
  call[c].stored =>
    /\ Appending(c) /\ call[c].env \in finals
    /\ pc[c] \notin {"stage", "link", "unlink", "readback"}
    /\ tries[c] < ClaimRetryLimit => result[c] \notin Conflict

CallerInv(c) == Recorded(c) /\ Listed(c) /\ Vouched(c) /\ Legal(c) /\ Retried(c)

AInv == IInv /\ Verified /\ Owned /\ \A c \in Caller : CallerInv(c)

-----------------------------------------------------------------------------
\* Facts about scans and verdicts.

\* The least-number principle, for a set.
LEMMA LeastNatural ==
  ASSUME NEW T \in SUBSET Nat, T # {}
  PROVE  \E n \in T : \A m \in T : n <= m
<1> DEFINE R == OpToRel(<, Nat)
<1>1. PICK n \in T : \A m \in T : <<m, n>> \notin R
  <2> HIDE DEF R
  <2>1. IsWellFoundedOn(R, Nat)
    BY NatLessThanWellFounded DEF R
  <2> QED BY <2>1, WFMin
<1>2. \A m \in T : ~(m < n)
  BY <1>1, Zenon DEF OpToRel
<1> QED BY <1>2

\* A listing S that misses records of a sound history F can only show a gap:
\* none of its records is defective by itself.
LEMMA ScanOfChain ==
  ASSUME NEW F \in SUBSET Envelope, NEW S \in SUBSET F, IsChain(F),
         \A f \in F : VerifyEnvelope(f)
  PROVE  ScanDefects(S) \subseteq {"STORE-CONFLICT-SEQUENCE"}
<1> USE EnvelopeAssumption
<1> DEFINE At(n) == {f \in S : SeqOf[f] = n}
           Below(e) == {f \in S : SeqOf[f] < SeqOf[e]}
           Unlinked(e) == SeqOf[e] > 0 /\ PrevOf[e] \notin At(SeqOf[e] - 1)
           Reuses(e) == \E f \in Below(e) : IdOf[f] = IdOf[e]
           Bad(n) == At(n) = {} \/ \E e \in At(n) : Unlinked(e) \/ Reuses(e) \/ At(n) # {e}
           reach == UNION {0 .. SeqOf[f] : f \in S}
           n == CHOOSE n \in reach : Bad(n) /\ \A m \in reach : Bad(m) => n <= m
<1>1. CASE \A m \in reach : ~Bad(m)
  BY <1>1, Zenon DEF ScanDefects
<1>2. CASE \E m \in reach : Bad(m)
  <2>1. n \in reach /\ Bad(n) /\ \A m \in reach : Bad(m) => n <= m
    <3> DEFINE T == {m \in reach : Bad(m)}
    <3>1. T \in SUBSET Nat /\ T # {}
      <4>1. reach \subseteq Nat
        OBVIOUS
      <4> HIDE DEF Bad, reach
      <4> QED BY <1>2, <4>1
    <3>2. PICK k \in T : \A m \in T : k <= m
      <4> HIDE DEF T
      <4> QED BY <3>1, LeastNatural
    <3> HIDE DEF Bad, reach
    <3>3. k \in reach /\ Bad(k) /\ \A m \in reach : Bad(m) => k <= m
      BY <3>2
    <3> QED BY <3>3
  <2>2. At(n) = {}
    <3> HIDE DEF n
    <3> SUFFICES ASSUME NEW e \in At(n)
                 PROVE  FALSE
      OBVIOUS
    <3>1. At(n) = {e}
      BY DEF IsChain, Forked
    <3>2. ~Reuses(e)
      BY DEF IsChain, IdReused
    <3>3. Unlinked(e)
      BY <2>1, <3>1, <3>2
    <3>4. n - 1 \in reach /\ n \in Nat /\ SeqOf[e] = n
      BY <3>3
    <3>5. ~Bad(n - 1)
      BY <2>1, <3>4
    <3>6. PICK p \in S : SeqOf[p] = n - 1
      BY <3>5
    <3>7. PrevOf[e] \in F /\ SeqOf[PrevOf[e]] = n - 1
      BY <3>3, <3>4 DEF IsChain, Linked
    <3>8. PrevOf[e] = p
      BY <3>6, <3>7 DEF IsChain, Forked
    <3> QED BY <3>3, <3>4, <3>6, <3>8
  <2>3. \A f \in S : VerifyEnvelope(f)
    OBVIOUS
  <2> QED BY <1>2, <2>2, <2>3, Zenon DEF ScanDefects
<1> QED BY <1>1, <1>2

\* A store answers with a stored record, a vouched chain or a verdict of
\* append only when the scan is healthy.
LEMMA ScanDefectCodes ==
  \A F : ScanDefects(F) \subseteq
    {"STORE-INVALID-RECORD", "STORE-CONFLICT-SEQUENCE", "STORE-CONFLICT-PREV-HASH",
     "STORE-CONFLICT-SLOT", "STORE-CONFLICT-FORK"}
BY DEF ScanDefects

\* What the answer to an append says about the records it is based on.
LEMMA AppendAnswers ==
  ASSUME NEW c \in Caller, Appending(c), NEW code \in Verdicts(c)
  PROVE  /\ code \notin {"STORE-OK-STORED", "STORE-VALID-CANDIDATE",
                         "STORE-LOCAL-INTEGRITY-ONLY", "STORE-HOLD-ORPHAN-STAGING"}
         /\ code = "STORE-OK-ALREADY-STORED" => call[c].env \in seen[c]
<1>1. CASE ~Healthy(seen[c])
  <2>1. code \in ScanDefects(seen[c])
    BY <1>1, Zenon DEF Verdicts
  <2> QED BY <2>1, ScanDefectCodes
<1>2. CASE Healthy(seen[c])
  <2>1. code = AppendVerdict(seen[c], call[c].env, call[c].head)
    BY <1>2, Zenon DEF Verdicts
  <2> QED BY <2>1 DEF AppendVerdict, Exact
<1> QED BY <1>1, <1>2

\* What the answer to a load says about the chain it verified.
LEMMA LoadAnswers ==
  ASSUME NEW c \in Caller, ~Appending(c), NEW code \in Verdicts(c)
  PROVE  /\ code \notin {"STORE-OK-STORED", "STORE-OK-ALREADY-STORED"}
         /\ code \in {"STORE-VALID-CANDIDATE", "STORE-LOCAL-INTEGRITY-ONLY"} =>
              Healthy(seen[c]) /\ seen[c] # {}
         /\ code = "STORE-VALID-CANDIDATE" =>
              call[c].head # None /\ IsHead(seen[c], call[c].head)
<1>1. CASE ~Healthy(seen[c])
  <2>1. code \in ScanDefects(seen[c])
    BY <1>1, Zenon DEF Verdicts
  <2> QED BY <2>1, ScanDefectCodes
<1>2. CASE Healthy(seen[c])
  <2>1. code = LoadVerdict(seen[c], call[c].head)
    BY <1>2, Zenon DEF Verdicts
  <2> QED BY <1>2, <2>1 DEF LoadVerdict, CheckpointReached, CheckpointMatches
<1> QED BY <1>1, <1>2

-----------------------------------------------------------------------------
\* The steps of one caller, and what they leave to the others.

StepOf(c) ==
  \/ \E e \in Envelope, h \in Envelope \cup {None} : CallAppend(c, e, h)
  \/ \E cp \in Checkpoint \cup {None} : CallLoad(c, cp)
  \/ Progress(c)
  \/ Failure(c)

SameCall(d) ==
  /\ pc'[d] = pc[d] /\ call'[d] = call[d] /\ tries'[d] = tries[d]
  /\ seen'[d] = seen[d] /\ result'[d] = result[d]

\* A step of one caller leaves the calls of the others alone, adds a record
\* only when it is Link, and never uncounts a fault.
LEMMA Frame ==
  ASSUME Shape, NEW c \in Caller, StepOf(c)
  PROVE  /\ \A d \in Caller \ {c} : SameCall(d)
         /\ finals' # finals => Link(c) /\ finals' = finals \cup {call[c].env}
         /\ faults' = 0 => faults = 0
<1> USE StoreAssumption DEF Shape, TypeOK, SameCall, Goto, Answer, Fault, ForgetScan, files, scan
<1>1. ASSUME NEW e, NEW h, CallAppend(c, e, h)
      PROVE  (\A d \in Caller \ {c} : SameCall(d)) /\ UNCHANGED <<finals, faults>>
  BY <1>1 DEF CallAppend
<1>2. ASSUME NEW cp, CallLoad(c, cp)
      PROVE  (\A d \in Caller \ {c} : SameCall(d)) /\ UNCHANGED <<finals, faults>>
  BY <1>2 DEF CallLoad
<1>3. ASSUME Progress(c)
      PROVE  /\ \A d \in Caller \ {c} : SameCall(d)
             /\ finals' # finals => Link(c) /\ finals' = finals \cup {call[c].env}
             /\ UNCHANGED faults
  <2>1. CASE AcquireClaim(c)
    BY <2>1 DEF AcquireClaim
  <2>2. CASE ClaimBusy(c)
    BY <2>2 DEF ClaimBusy
  <2>3. CASE BeginScan(c)
    BY <2>3 DEF BeginScan
  <2>4. CASE EndScan(c)
    BY <2>4 DEF EndScan
  <2>5. CASE Decline(c)
    BY <2>5 DEF Decline
  <2>6. CASE OpenStaging(c)
    BY <2>6 DEF OpenStaging
  <2>7. CASE WriteStaging(c)
    BY <2>7 DEF WriteStaging
  <2>8. CASE Link(c)
    BY <2>8 DEF Link, WithRecord
  <2>9. CASE UnlinkStaging(c)
    BY <2>9 DEF UnlinkStaging
  <2>10. CASE Readback(c)
    BY <2>10 DEF Readback
  <2>11. CASE Release(c)
    BY <2>11 DEF Release
  <2> QED BY <1>3, <2>1, <2>2, <2>3, <2>4, <2>5, <2>6, <2>7, <2>8, <2>9, <2>10, <2>11
          DEF Progress
<1>4. ASSUME Failure(c)
      PROVE  (\A d \in Caller \ {c} : SameCall(d)) /\ finals' = finals /\ faults' # 0
  <2>1. CASE ClaimFails(c)
    BY <2>1 DEF ClaimFails
  <2>2. CASE ScanFails(c)
    BY <2>2 DEF ScanFails
  <2>3. CASE OpenStagingFails(c)
    BY <2>3 DEF OpenStagingFails
  <2>4. CASE StagingFails(c)
    BY <2>4 DEF StagingFails
  <2>5. CASE ReadbackFails(c)
    BY <2>5 DEF ReadbackFails
  <2>6. CASE ReleaseFails(c)
    BY <2>6 DEF ReleaseFails
  <2>7. CASE Crash(c)
    BY <2>7 DEF Crash
  <2> QED BY <1>4, <2>1, <2>2, <2>3, <2>4, <2>5, <2>6, <2>7 DEF Failure
<1> QED BY <1>1, <1>2, <1>3, <1>4 DEF StepOf

\* The history that a legal append was made for is the present one until its
\* sequence number is filled: what anyone else links fills it.
LEMMA OthersKeep ==
  ASSUME AInv, NEW c \in Caller, StepOf(c), NEW d \in Caller \ {c}
  PROVE  CallerInv(d)'
<1> USE EnvelopeAssumption
<1>1. /\ SameCall(d) /\ finals \subseteq finals' /\ CallerInv(d)
      /\ finals' # finals => Link(c) /\ finals' = finals \cup {call[c].env}
      /\ faults' = 0 => faults = 0
  BY Frame DEF AInv, IInv
<1>2. Recorded(d)' /\ Listed(d)' /\ Retried(d)'
  BY <1>1 DEF SameCall, CallerInv, Recorded, Listed, Retried, Appending
<1>3. Vouched(d)'
  BY <1>1 DEF SameCall, CallerInv, Vouched, Appending
<1>4. Legal(d)'
  <2> SUFFICES ASSUME faults' = 0, call[d].fresh
               PROVE  Legal(d)'
    BY <1>1 DEF Legal, SameCall
  <2>1. /\ Appending(d) /\ call[d].env \in Envelope /\ VerifyEnvelope(call[d].env)
        /\ Filled(d) \/ OnItsWay(d)
    BY <1>1 DEF CallerInv, Legal
  <2>2. CASE Filled(d)
    BY <1>1, <2>1, <2>2 DEF SameCall, Legal, Filled, Slot, Appending
  <2>3. CASE finals' = finals
    BY <1>1, <2>1, <2>3 DEF SameCall, Legal, Filled, OnItsWay, Slot, Appending
  <2>4. CASE OnItsWay(d) /\ Link(c) /\ finals' = finals \cup {call[c].env}
    <3>1. Extends(finals, call[c].env) /\ call[c].env \in Envelope /\ finals \in SUBSET Envelope
      BY <2>4 DEF AInv, IInv, Shape, TypeOK, CallShape, StillExtends, Link, Goto, Idle
    <3>2. SeqOf[call[c].env] = SeqOf[call[d].env]
      BY <2>1, <2>4, <3>1, NextSlot DEF OnItsWay
    <3> QED BY <1>1, <2>1, <2>4, <3>2 DEF SameCall, Legal, Filled, Slot, Appending
  <2> QED BY <1>1, <2>1, <2>2, <2>3, <2>4
<1> QED BY <1>2, <1>3, <1>4 DEF CallerInv

\* A legal append whose number is free proceeds: the scan it reads is the
\* history it was made for.
LEMMA LegalProceeds ==
  ASSUME NEW c \in Caller, Appending(c), call[c].env \in Envelope, seen[c] \in SUBSET Envelope,
         Healthy(seen[c]), Extends(seen[c], call[c].env),
         seen[c] = {} \/ IsHead(seen[c], call[c].head)
  PROVE  Proceeds(c)
<1> USE EnvelopeAssumption
<1> DEFINE F == seen[c]
           e == call[c].env
           h == call[c].head
<1>1. ~Exact(F, e) /\ ~IdentityTaken(F, e)
  BY DEF Exact, IdentityTaken, Extends
<1>2. CASE F = {}
  <2>1. SeqOf[e] = 0
    BY <1>2 DEF Extends
  <2>2. AppendVerdict(F, e, h) = "PROCEED"
    BY <1>1, <1>2, <2>1, Zenon DEF AppendVerdict
  <2> QED BY <2>2, Zenon DEF Proceeds, Verdicts
<1>3. CASE F # {} /\ IsHead(F, h)
  <2>1. PICK k \in F : IsHead(F, k) /\ SeqOf[e] = SeqOf[k] + 1 /\ PrevOf[e] = k
    BY <1>3 DEF Extends
  <2>2. k = h
    BY <1>3, <2>1 DEF IsHead, Healthy, IsChain, Forked
  <2>3. AppendVerdict(F, e, h) = "PROCEED"
    BY <1>1, <1>3, <2>1, <2>2, Zenon DEF AppendVerdict, HeadObserved, Descends
  <2> QED BY <2>3, Zenon DEF Proceeds, Verdicts
<1> QED BY <1>2, <1>3

\* An append of a record that is in the history, and in its scan, is told so
\* or of a gap.
LEMMA RetryAnswers ==
  ASSUME NEW c \in Caller, Appending(c), finals \in SUBSET Envelope, IsChain(finals),
         Verified, seen[c] \in SUBSET finals, call[c].env \in seen[c],
         NEW code \in Verdicts(c)
  PROVE  code \in {"STORE-OK-ALREADY-STORED", "STORE-CONFLICT-SEQUENCE"}
<1>1. CASE ~Healthy(seen[c])
  <2>1. code \in ScanDefects(seen[c])
    BY <1>1, Zenon DEF Verdicts
  <2> QED BY <2>1, ScanOfChain DEF Verified
<1>2. CASE Healthy(seen[c])
  <2>1. code = AppendVerdict(seen[c], call[c].env, call[c].head)
    BY <1>2, Zenon DEF Verdicts
  <2> QED BY <2>1, Zenon DEF AppendVerdict, Exact
<1> QED BY <1>1, <1>2

\* A stored record has another verdict than to be appended.
LEMMA StoredNeverProceeds ==
  ASSUME NEW c \in Caller, Appending(c), call[c].env \in seen[c]
  PROVE  ~Proceeds(c)
<1>1. CASE ~Healthy(seen[c])
  <2>1. Verdicts(c) = ScanDefects(seen[c])
    BY <1>1, Zenon DEF Verdicts
  <2> QED BY <2>1, ScanDefectCodes DEF Proceeds
<1>2. CASE Healthy(seen[c])
  <2>1. Verdicts(c) = {AppendVerdict(seen[c], call[c].env, call[c].head)}
    BY <1>2, Zenon DEF Verdicts
  <2>2. AppendVerdict(seen[c], call[c].env, call[c].head) = "STORE-OK-ALREADY-STORED"
    BY Zenon DEF AppendVerdict, Exact
  <2> QED BY <2>1, <2>2 DEF Proceeds
<1> QED BY <1>1, <1>2

\* What a caller's own steps do to its call.
LEMMA OwnKeeps ==
  ASSUME AInv, NEW c \in Caller, StepOf(c)
  PROVE  CallerInv(c)'
<1> USE StoreAssumption, EnvelopeAssumption
    DEF CallerInv, Recorded, Listed, Vouched, Legal, Filled, OnItsWay, Retried, Conflict,
        Appending, Slot, Goto, Answer, Fault, ForgetScan, files, scan, Idle, AfterScan, NoCall
<1>1. TypeOK /\ CallShape /\ CallerInv(c)
  BY DEF AInv, IInv, Shape
<1>2. ASSUME NEW e \in Envelope, NEW h \in Envelope \cup {None}, CallAppend(c, e, h)
      PROVE  CallerInv(c)'
  BY <1>1, <1>2 DEF TypeOK, CallAppend
<1>3. ASSUME NEW cp \in Checkpoint \cup {None}, CallLoad(c, cp)
      PROVE  CallerInv(c)'
  BY <1>1, <1>3 DEF TypeOK, CallLoad
<1>4. ASSUME Progress(c)
      PROVE  CallerInv(c)'
  <2>1. CASE AcquireClaim(c)
    BY <1>1, <2>1 DEF TypeOK, AcquireClaim, AInv, IInv, Shape, RetriesLeft
  <2>2. CASE ClaimBusy(c)
    BY <1>1, <2>2 DEF TypeOK, ClaimBusy, LastAttempt
  <2>3. CASE BeginScan(c)
    BY <1>1, <2>3 DEF TypeOK, BeginScan
  <2>4. CASE EndScan(c)
    <3>1. PICK F \in SUBSET finals, S \in SUBSET Caller :
            /\ seen[c] \subseteq F
            /\ seen' = [seen EXCEPT ![c] = F]
            /\ Goto(c, "scanning", IF S = {} THEN "decide" ELSE AfterScan(c))
            /\ Answer(c, IF S = {} THEN "NO-RESULT" ELSE "STORE-HOLD-ORPHAN-STAGING")
            /\ UNCHANGED <<files, call, tries, faults>>
      BY <1>1, <2>4 DEF TypeOK, EndScan
    <3>2. seen[c] = finals => F = finals
      BY <3>1
    <3>3. CASE S = {}
      BY <1>1, <3>1, <3>2, <3>3 DEF TypeOK
    <3>4. CASE S # {} /\ Appending(c)
      BY <1>1, <3>1, <3>2, <3>4 DEF TypeOK
    <3>5. CASE S # {} /\ ~Appending(c)
      BY <1>1, <3>1, <3>2, <3>5 DEF TypeOK
    <3> QED BY <3>3, <3>4, <3>5
  <2>5. CASE Decline(c)
    <3>1. PICK code \in Verdicts(c) : Answer(c, code)
      BY <2>5 DEF Decline
    <3>2. /\ pc[c] = "decide" /\ pc' = [pc EXCEPT ![c] = IF Appending(c) THEN "release" ELSE Idle]
          /\ ~Proceeds(c) /\ UNCHANGED <<finals, call, tries, seen, faults>>
      BY <2>5 DEF Decline
    <3>3. /\ seen[c] \in SUBSET finals /\ IsChain(finals) /\ Verified
          /\ finals \in SUBSET Envelope
          /\ Appending(c) => \A f \in finals : SeqOf[f] = Slot(c) => f \in seen[c]
      BY <1>1, <3>2 DEF TypeOK, AInv, IInv, HistoryIsChain, ScanCurrent
    <3>4. Recorded(c)'
      BY <1>1, <3>1, <3>2, <3>3, AppendAnswers, LoadAnswers DEF TypeOK
    <3>5. Vouched(c)'
      BY <1>1, <3>1, <3>2, <3>3, AppendAnswers, LoadAnswers DEF TypeOK
    <3>6. Legal(c)'
      <4>1. call[c].fresh /\ faults = 0 => Filled(c)
        <5> SUFFICES ASSUME call[c].fresh, faults = 0, ~Filled(c)
                     PROVE  FALSE
          OBVIOUS
        <5>1. Appending(c) /\ call[c].env \in Envelope /\ OnItsWay(c) /\ seen[c] = finals
          BY <1>1, <3>2
        <5>2. Healthy(seen[c])
          BY <3>3, <5>1 DEF Healthy, Verified
        <5> QED BY <3>2, <3>3, <5>1, <5>2, LegalProceeds
      <4> QED BY <1>1, <3>2, <4>1 DEF TypeOK
    <3>7. Retried(c)'
      <4>1. CASE call[c].stored
        <5>1. Appending(c) /\ call[c].env \in seen[c]
          BY <1>1, <3>3, <4>1
        <5>2. code \in {"STORE-OK-ALREADY-STORED", "STORE-CONFLICT-SEQUENCE"}
          BY <3>3, <5>1, RetryAnswers
        <5> QED BY <1>1, <3>1, <3>2, <4>1, <5>2 DEF TypeOK
      <4>2. CASE ~call[c].stored
        BY <3>2, <4>2
      <4> QED BY <4>1, <4>2
    <3>8. Listed(c)'
      BY <1>1, <3>2 DEF TypeOK
    <3> QED BY <3>4, <3>5, <3>6, <3>7, <3>8
  <2>6. CASE OpenStaging(c)
    <3>1. ~call[c].stored
      <4>1. pc[c] = "decide" /\ Proceeds(c)
        BY <2>6 DEF OpenStaging
      <4>2. Appending(c) /\ \A f \in finals : SeqOf[f] = Slot(c) => f \in seen[c]
        BY <4>1 DEF Proceeds, AInv, IInv, ScanCurrent
      <4> QED BY <1>1, <4>1, <4>2, StoredNeverProceeds
    <3> QED BY <1>1, <2>6, <3>1 DEF TypeOK, OpenStaging
  <2>7. CASE WriteStaging(c)
    BY <1>1, <2>7 DEF TypeOK, WriteStaging
  <2>8. CASE Link(c)
    BY <1>1, <2>8 DEF TypeOK, Link, WithRecord
  <2>9. CASE UnlinkStaging(c)
    BY <1>1, <2>9 DEF TypeOK, UnlinkStaging
  <2>10. CASE Readback(c)
    BY <1>1, <2>10 DEF TypeOK, Readback
  <2>11. CASE Release(c)
    BY <1>1, <2>11 DEF TypeOK, Release
  <2> QED BY <1>4, <2>1, <2>2, <2>3, <2>4, <2>5, <2>6, <2>7, <2>8, <2>9, <2>10, <2>11
          DEF Progress
<1>5. ASSUME Failure(c)
      PROVE  CallerInv(c)'
  <2>1. CASE ClaimFails(c)
    BY <1>1, <2>1 DEF TypeOK, ClaimFails
  <2>2. CASE ScanFails(c)
    BY <1>1, <2>2 DEF TypeOK, ScanFails
  <2>3. CASE OpenStagingFails(c)
    BY <1>1, <2>3 DEF TypeOK, OpenStagingFails
  <2>4. CASE StagingFails(c)
    BY <1>1, <2>4 DEF TypeOK, StagingFails
  <2>5. CASE ReadbackFails(c)
    BY <1>1, <2>5 DEF TypeOK, ReadbackFails
  <2>6. CASE ReleaseFails(c)
    BY <1>1, <2>6 DEF TypeOK, ReleaseFails
  <2>7. CASE Crash(c)
    BY <1>1, <2>7 DEF TypeOK, Crash
  <2> QED BY <1>5, <2>1, <2>2, <2>3, <2>4, <2>5, <2>6, <2>7 DEF Failure
<1> QED BY <1>2, <1>3, <1>4, <1>5 DEF StepOf

\* Cleanup: an append that goes idle without a fault has removed its files,
\* and no other append has a claim file of the same name.
LEMMA OwnedNext ==
  ASSUME AInv, NEW c \in Caller, StepOf(c)
  PROVE  Owned'
<1> USE DEF Owned, HoldingPC, Appending, Slot, Goto, Answer, Fault, ForgetScan, files, scan,
            Idle, AfterScan, SameCall
<1>1. /\ TypeOK /\ CallShape /\ Owned /\ ClaimExclusion
      /\ \A d \in Caller \ {c} : SameCall(d)
      /\ faults' = 0 => faults = 0
  BY Frame DEF AInv, IInv, Shape
<1>2. ASSUME NEW e \in Envelope, NEW h \in Envelope \cup {None}, CallAppend(c, e, h)
      PROVE  Owned'
  BY <1>1, <1>2 DEF TypeOK, CallAppend
<1>3. ASSUME NEW cp \in Checkpoint \cup {None}, CallLoad(c, cp)
      PROVE  Owned'
  BY <1>1, <1>3 DEF TypeOK, CallLoad
<1>4. ASSUME Progress(c)
      PROVE  Owned'
  <2>1. CASE AcquireClaim(c)
    BY <1>1, <2>1 DEF TypeOK, AcquireClaim, CallShape
  <2>2. CASE ClaimBusy(c)
    BY <1>1, <2>2 DEF TypeOK, ClaimBusy, LastAttempt
  <2>3. CASE BeginScan(c)
    BY <1>1, <2>3 DEF TypeOK, BeginScan
  <2>4. CASE EndScan(c)
    BY <1>1, <2>4 DEF TypeOK, EndScan
  <2>5. CASE Decline(c)
    BY <1>1, <2>5 DEF TypeOK, Decline
  <2>6. CASE OpenStaging(c)
    <3>1. /\ pc[c] = "decide" /\ pc' = [pc EXCEPT ![c] = "stage"]
          /\ staging' = staging \cup {c} /\ UNCHANGED <<claims, call, faults>>
      BY <2>6 DEF OpenStaging
    <3>2. pc'[c] = "stage" /\ \A d \in Caller : d # c => pc'[d] = pc[d]
      BY <1>1, <3>1 DEF TypeOK
    <3>3. ASSUME NEW n \in claims', faults' = 0
          PROVE  \E d \in Caller : (Appending(d) /\ pc[d] \in HoldingPC /\ Slot(d) = n)'
      <4>1. PICK d \in Caller : Appending(d) /\ pc[d] \in HoldingPC /\ Slot(d) = n
        BY <1>1, <3>1, <3>3
      <4>2. pc'[d] \in HoldingPC
        BY <3>1, <3>2, <4>1
      <4> QED BY <3>1, <4>1, <4>2
    <3>4. ASSUME NEW d \in staging', faults' = 0
          PROVE  pc'[d] \in {"stage", "link", "unlink"}
      BY <1>1, <3>1, <3>2, <3>4 DEF TypeOK
    <3> QED BY <3>3, <3>4
  <2>7. CASE WriteStaging(c)
    BY <1>1, <2>7 DEF TypeOK, WriteStaging
  <2>8. CASE Link(c)
    BY <1>1, <2>8 DEF TypeOK, Link, WithRecord
  <2>9. CASE UnlinkStaging(c)
    BY <1>1, <2>9 DEF TypeOK, UnlinkStaging
  <2>10. CASE Readback(c)
    BY <1>1, <2>10 DEF TypeOK, Readback
  <2>11. CASE Release(c)
    BY <1>1, <2>11 DEF TypeOK, Release, ClaimExclusion
  <2> QED BY <1>4, <2>1, <2>2, <2>3, <2>4, <2>5, <2>6, <2>7, <2>8, <2>9, <2>10, <2>11
          DEF Progress
<1>5. ASSUME Failure(c)
      PROVE  Owned'
  <2>1. faults' # 0
    BY <1>1, <1>5, StoreAssumption
    DEF TypeOK, Failure, ClaimFails, ScanFails, OpenStagingFails, StagingFails, ReadbackFails,
        ReleaseFails, Crash
  <2> QED BY <2>1
<1> QED BY <1>2, <1>3, <1>4, <1>5 DEF StepOf

LEMMA AnswersInit == Init => AInv
BY StoreInit
DEF Init, AInv, Verified, Owned, CallerInv, Recorded, Listed, Vouched, Legal, Retried, NoCall,
    Idle, Appending

LEMMA AnswersNext == AInv /\ [Next]_vars => AInv'
<1> SUFFICES ASSUME AInv, [Next]_vars
             PROVE  AInv'
  OBVIOUS
<1>1. IInv'
  BY StoreNext DEF AInv
<1>2. CASE UNCHANGED vars
  BY <1>1, <1>2
  DEF vars, AInv, Verified, Owned, CallerInv, Recorded, Listed, Vouched, Legal, Filled,
      OnItsWay, Retried, Appending, Slot
<1>3. ASSUME NEW c \in Caller, StepOf(c)
      PROVE  AInv'
  <2>1. Verified'
    <3>1. finals' # finals => Link(c) /\ finals' = finals \cup {call[c].env}
      BY <1>3, Frame DEF AInv, IInv
    <3>2. Link(c) => VerifyEnvelope(call[c].env)
      BY DEF AInv, IInv, Shape, TypeOK, CallShape, Link, Goto, Idle
    <3> QED BY <3>1, <3>2 DEF AInv, Verified
  <2>2. Owned'
    BY <1>3, OwnedNext
  <2>3. \A d \in Caller : CallerInv(d)'
    <3>1. \A d \in Caller \ {c} : CallerInv(d)'
      BY <1>3, OthersKeep
    <3>2. CallerInv(c)'
      BY <1>3, OwnKeeps
    <3> QED BY <3>1, <3>2
  <2> QED BY <1>1, <2>1, <2>2, <2>3 DEF AInv
<1> QED BY <1>2, <1>3 DEF Next, StepOf

\* The invariant of the answers holds in every reachable state.
THEOREM AnswersInvariant == Spec => []AInv
BY AnswersInit, AnswersNext, PTL DEF Spec

-----------------------------------------------------------------------------
\* An append answered as stored has its record in the directory, for good.
THEOREM StoredStays == Spec => []StoredIsFinal
<1>1. AInv => StoredIsFinal
  BY DEF AInv, CallerInv, Recorded, StoredIsFinal
<1> QED BY AnswersInvariant, <1>1, PTL

\* Calls that end without a crash or an error leave no file behind.
THEOREM NothingLeftBehind == Spec => []NoStrayFiles
<1>1. AInv => NoStrayFiles
  BY DEF AInv, IInv, Shape, TypeOK, Owned, NoStrayFiles, HoldingPC, Idle
<1> QED BY AnswersInvariant, <1>1, PTL

\* A legal append that meets no fault, no peer's staging file and no busy claim
\* finds its sequence number filled.
THEOREM LegalAppendsMove == Spec => []LegalAppendProgress
<1>1. AInv => LegalAppendProgress
  <2> SUFFICES ASSUME AInv, NEW c \in Caller, faults = 0, pc[c] = Idle, call[c].fresh,
                      tries[c] < ClaimRetryLimit, result[c] # "STORE-HOLD-ORPHAN-STAGING"
               PROVE  \E f \in finals : SeqOf[f] = Slot(c)
    BY DEF LegalAppendProgress
  <2>1. tries[c] # ClaimRetryLimit
    BY StoreAssumption DEF AInv, IInv, Shape, TypeOK
  <2> QED BY <2>1 DEF AInv, CallerInv, Legal, OnItsWay, Filled
<1> QED BY AnswersInvariant, <1>1, PTL

\* Retrying a stored append is never answered with a rival or a stale head.
THEOREM RetriesAgree == Spec => []RetryNeverConflicts
<1>1. AInv => RetryNeverConflicts
  BY DEF AInv, CallerInv, Retried, Conflict, RetryNeverConflicts
<1> QED BY AnswersInvariant, <1>1, PTL

\* A prepared restart is the store's own history up to its checkpoint, however
\* long it is kept while others append.
THEOREM RestartsAreHistory == Spec => []RestartIsFromHistory
<1>1. AInv => RestartIsFromHistory
  <2> SUFFICES ASSUME AInv, NEW c \in Caller, pc[c] = Idle, call[c].op = "load",
                      result[c] \in {"STORE-VALID-CANDIDATE", "STORE-LOCAL-INTEGRITY-ONLY"}
               PROVE  /\ seen[c] # {} /\ seen[c] \subseteq finals /\ IsChain(seen[c])
                      /\ \A allowed \in SUBSET Envelope :
                           PreparePersistedRestart(c, allowed) = "RESTART-READY-CANDIDATE" =>
                             /\ Candidate(c) = call[c].head /\ VerifyEnvelope(Candidate(c))
                             /\ {f \in finals : SeqOf[f] <= SeqOf[Candidate(c)]} = seen[c]
    <3>1. ASSUME NEW c \in Caller, NEW allowed, result[c] # "STORE-VALID-CANDIDATE"
          PROVE  PreparePersistedRestart(c, allowed) # "RESTART-READY-CANDIDATE"
      BY <3>1 DEF PreparePersistedRestart, ParseInput, MapStoreResult
    <3> QED BY <3>1 DEF RestartIsFromHistory
  <2>1. /\ seen[c] # {} /\ seen[c] \subseteq finals /\ Healthy(seen[c])
        /\ result[c] = "STORE-VALID-CANDIDATE" => IsHead(seen[c], call[c].head)
        /\ finals \subseteq Envelope /\ IsChain(finals)
    BY DEF AInv, IInv, Shape, TypeOK, HistoryIsChain, CallerInv, Vouched
  <2>2. ASSUME NEW allowed \in SUBSET Envelope,
               PreparePersistedRestart(c, allowed) = "RESTART-READY-CANDIDATE"
        PROVE  result[c] = "STORE-VALID-CANDIDATE" /\ Candidate(c) = call[c].head
    BY <2>2 DEF PreparePersistedRestart, ParseInput, MapStoreResult, CandidateMatches
  <2>3. ASSUME NEW h, IsHead(seen[c], h)
        PROVE  VerifyEnvelope(h) /\ {f \in finals : SeqOf[f] <= SeqOf[h]} = seen[c]
    <3>1. h \in seen[c] /\ VerifyEnvelope(h)
      BY <2>1, <2>3 DEF IsHead, Healthy
    <3>2. ASSUME NEW f \in finals, SeqOf[f] <= SeqOf[h]
          PROVE  f \in seen[c]
      <4>1. SeqOf[f] \in 0 .. SeqOf[h]
        BY <2>1, <3>1, <3>2, EnvelopeAssumption
      <4>2. PICK g \in seen[c] : SeqOf[g] = SeqOf[f]
        BY <2>1, <3>1, <4>1 DEF Healthy, IsChain, Contiguous
      <4> QED BY <2>1, <4>2 DEF IsChain, Forked
    <3> QED BY <2>1, <2>3, <3>1, <3>2 DEF IsHead
  <2> QED BY <2>1, <2>2, <2>3 DEF Healthy
<1> QED BY AnswersInvariant, <1>1, PTL

-----------------------------------------------------------------------------
\* Directories that something else writes to.

\* A directory that is not one verified chain stays as it is: every scan since
\* sees all of it, and no append is past its decision.
Untouched ==
  ~Healthy(finals) =>
    \A c \in Caller : /\ pc[c] \notin {"stage", "link"}
                      /\ pc[c] \in {"scanning", "decide"} => seen[c] = finals

DInv == Protocol /\ Untouched

\* The scan has an answer for a set of records unless it is one verified chain.
LEMMA DefectsFound ==
  ASSUME NEW F \in SUBSET Envelope
  PROVE  ~Healthy(F) <=> ScanDefects(F) # {}
<1> USE EnvelopeAssumption
<1> DEFINE At(n) == {f \in F : SeqOf[f] = n}
           Below(e) == {f \in F : SeqOf[f] < SeqOf[e]}
           Unlinked(e) == SeqOf[e] > 0 /\ PrevOf[e] \notin At(SeqOf[e] - 1)
           Reuses(e) == \E f \in Below(e) : IdOf[f] = IdOf[e]
           Bad(n) == At(n) = {} \/ \E e \in At(n) : Unlinked(e) \/ Reuses(e) \/ At(n) # {e}
           reach == UNION {0 .. SeqOf[f] : f \in F}
           n == CHOOSE n \in reach : Bad(n) /\ \A m \in reach : Bad(m) => n <= m
           sound == \A m \in reach : ~Bad(m)
<1>1. CASE \E f \in F : ~VerifyEnvelope(f)
  <2>1. ScanDefects(F) = {"STORE-INVALID-RECORD"}
    BY <1>1, Zenon DEF ScanDefects
  <2> QED BY <1>1, <2>1 DEF Healthy
<1>2. CASE (\A f \in F : VerifyEnvelope(f)) /\ ~sound
  <2>1. At(n) = {} \/ \E e \in At(n) : TRUE
    OBVIOUS
  <2>2. ScanDefects(F) =
          IF At(n) = {} THEN {"STORE-CONFLICT-SEQUENCE"}
          ELSE {IF Unlinked(e) THEN "STORE-CONFLICT-PREV-HASH"
                ELSE IF Reuses(e) THEN "STORE-CONFLICT-SLOT"
                ELSE "STORE-CONFLICT-FORK" : e \in At(n)}
    BY <1>2, Zenon DEF ScanDefects
  <2>3. ScanDefects(F) # {}
    <3> HIDE DEF n, At, Unlinked, Reuses
    <3> QED BY <2>1, <2>2
  <2>4. ~IsChain(F)
    <3> SUFFICES ASSUME IsChain(F), NEW m \in reach
                 PROVE  ~Bad(m)
      BY <1>2
    <3>1. PICK e \in F : SeqOf[e] = m
      BY DEF IsChain, Contiguous
    <3>2. At(m) = {e}
      BY <3>1 DEF IsChain, Forked
    <3>3. ~Unlinked(e) /\ ~Reuses(e)
      BY DEF IsChain, Linked, IdReused
    <3> QED BY <3>2, <3>3
  <2> QED BY <2>3, <2>4 DEF Healthy
<1>3. CASE (\A f \in F : VerifyEnvelope(f)) /\ sound
  <2>1. ScanDefects(F) = {}
    BY <1>3, Zenon DEF ScanDefects
  <2>2. \A f \in F : \A m \in 0 .. SeqOf[f] : ~Bad(m)
    BY <1>3
  <2>3. \A f \in F : ~Bad(SeqOf[f])
    BY <2>2
  <2>4. ~Forked(F)
    BY <2>3 DEF Forked
  <2>5. Contiguous(F)
    BY <2>2 DEF Contiguous
  <2>6. Linked(F)
    BY <1>3, <2>3 DEF Linked, VerifyEnvelope, GenesisRelation
  <2>7. ~IdReused(F)
    <3> SUFFICES ASSUME NEW e \in F, NEW f \in F, e # f, IdOf[e] = IdOf[f]
                 PROVE  FALSE
      BY DEF IdReused
    <3>1. SeqOf[e] # SeqOf[f]
      BY <2>4 DEF Forked
    <3>2. ~Reuses(e) /\ ~Reuses(f)
      BY <2>3
    <3> QED BY <3>1, <3>2
  <2> QED BY <1>3, <2>1, <2>4, <2>5, <2>6, <2>7 DEF Healthy, IsChain
<1> QED BY <1>1, <1>2, <1>3

\* No append proceeds on a damaged directory, for it has seen the damage.
LEMMA UntouchedSound == Untouched => SoundAppends
<1> SUFFICES ASSUME Untouched, NEW c \in Caller, pc[c] = "decide", Proceeds(c)
             PROVE  Healthy(finals)
  BY DEF SoundAppends, Healthy
<1> QED BY ProceedsHealthy DEF Untouched

LEMMA DamageInit == Init => DInv
BY StoreInit DEF Init, IInv, DInv, Protocol, Untouched, Idle

\* The store's own steps leave a damaged directory as it is, and a history a
\* history.
LEMMA UntouchedNext == DInv /\ [Next]_vars => Untouched'
<1> USE DEF Goto, Answer, Fault, ForgetScan, files, scan, Idle, AfterScan, SameCall
<1> SUFFICES ASSUME DInv, [Next]_vars
             PROVE  Untouched'
  OBVIOUS
<1>1. CASE UNCHANGED vars
  BY <1>1 DEF vars, DInv, Untouched
<1>2. ASSUME NEW c \in Caller, StepOf(c), finals' # finals
      PROVE  Healthy(finals')
  <2>1. Link(c) /\ finals' = finals \cup {call[c].env}
    BY <1>2, Frame DEF DInv, Protocol
  <2>2. /\ finals \in SUBSET Envelope /\ call[c].env \in Envelope
        /\ VerifyEnvelope(call[c].env) /\ Extends(finals, call[c].env)
    BY <2>1 DEF DInv, Protocol, Shape, TypeOK, CallShape, StillExtends, Link
  <2>3. Healthy(finals)
    BY <2>1 DEF DInv, Untouched, Link
  <2> QED BY <2>1, <2>2, <2>3, ExtendedChain DEF Healthy
<1>3. ASSUME NEW c \in Caller, StepOf(c), finals' = finals, ~Healthy(finals)
      PROVE  Untouched'
  <2> DEFINE Kept(d) == /\ pc[d] \notin {"stage", "link"}
                        /\ pc[d] \in {"scanning", "decide"} => seen[d] = finals
  <2>1. /\ \A d \in Caller : Kept(d)
        /\ \A d \in Caller \ {c} : SameCall(d)
        /\ TypeOK /\ (pc[c] = "decide" => ~Proceeds(c))
    <3>1. /\ \A d \in Caller : Kept(d)
          /\ Shape /\ TypeOK
      BY <1>3 DEF DInv, Protocol, Shape, Untouched
    <3>2. \A d \in Caller \ {c} : SameCall(d)
      BY <1>3, <3>1, Frame
    <3>3. pc[c] = "decide" => ~Proceeds(c)
      BY <1>3, <3>1, ProceedsHealthy
    <3> QED BY <3>1, <3>2, <3>3
  <2>2. Kept(c)'
    <3>1. ASSUME NEW e, NEW h, CallAppend(c, e, h)
          PROVE  Kept(c)'
      BY <2>1, <3>1 DEF TypeOK, CallAppend
    <3>2. ASSUME NEW cp, CallLoad(c, cp)
          PROVE  Kept(c)'
      BY <2>1, <3>2 DEF TypeOK, CallLoad
    <3>3. CASE Progress(c)
      <4>1. CASE AcquireClaim(c)
        BY <1>3, <2>1, <4>1 DEF TypeOK, AcquireClaim
      <4>2. CASE ClaimBusy(c)
        BY <1>3, <2>1, <4>2 DEF TypeOK, ClaimBusy
      <4>3. CASE BeginScan(c)
        BY <1>3, <2>1, <4>3 DEF TypeOK, BeginScan
      <4>4. CASE EndScan(c)
        <5>1. PICK F \in SUBSET finals, S \in SUBSET (peers[c].sure \cup peers[c].maybe) :
                /\ seen[c] \subseteq F /\ seen' = [seen EXCEPT ![c] = F]
                /\ Goto(c, "scanning", IF S = {} THEN "decide" ELSE AfterScan(c))
          BY <4>4 DEF EndScan
        <5>2. F = finals
          BY <2>1, <5>1
        <5> QED BY <1>3, <2>1, <5>1, <5>2 DEF TypeOK
      <4>5. CASE Decline(c)
        BY <1>3, <2>1, <4>5 DEF TypeOK, Decline
      <4>6. CASE OpenStaging(c)
        BY <1>3, <2>1, <4>6 DEF TypeOK, OpenStaging
      <4>7. CASE WriteStaging(c)
        BY <1>3, <2>1, <4>7 DEF TypeOK, WriteStaging
      <4>8. CASE Link(c)
        BY <1>3, <2>1, <4>8 DEF TypeOK, Link
      <4>9. CASE UnlinkStaging(c)
        BY <1>3, <2>1, <4>9 DEF TypeOK, UnlinkStaging
      <4>10. CASE Readback(c)
        BY <1>3, <2>1, <4>10 DEF TypeOK, Readback
      <4>11. CASE Release(c)
        BY <1>3, <2>1, <4>11 DEF TypeOK, Release
      <4> QED BY <3>3, <4>1, <4>2, <4>3, <4>4, <4>5, <4>6, <4>7, <4>8, <4>9, <4>10, <4>11
              DEF Progress
    <3>4. CASE Failure(c)
      <4>1. CASE ClaimFails(c)
        BY <1>3, <2>1, <4>1 DEF TypeOK, ClaimFails
      <4>2. CASE ScanFails(c)
        BY <1>3, <2>1, <4>2 DEF TypeOK, ScanFails
      <4>3. CASE OpenStagingFails(c)
        BY <1>3, <2>1, <4>3 DEF TypeOK, OpenStagingFails
      <4>4. CASE StagingFails(c)
        BY <1>3, <2>1, <4>4 DEF TypeOK, StagingFails
      <4>5. CASE ReadbackFails(c)
        BY <1>3, <2>1, <4>5 DEF TypeOK, ReadbackFails
      <4>6. CASE ReleaseFails(c)
        BY <1>3, <2>1, <4>6 DEF TypeOK, ReleaseFails
      <4>7. CASE Crash(c)
        BY <1>3, <2>1, <4>7 DEF TypeOK, Crash
      <4> QED BY <3>4, <4>1, <4>2, <4>3, <4>4, <4>5, <4>6, <4>7 DEF Failure
    <3> QED BY <1>3, <3>1, <3>2, <3>3, <3>4 DEF StepOf
  <2> QED BY <1>3, <2>1, <2>2 DEF Untouched
<1> QED BY <1>1, <1>2, <1>3 DEF Next, StepOf, Untouched

\* What the outside changes, it changes while no call is under way.
LEMMA TamperKeeps == DInv /\ Tamper => DInv'
<1> USE StoreAssumption
    DEF Tamper, Fault, PlantRecord, RemoveRecord, scan, Idle, DInv, Protocol, Shape, TypeOK,
        CallShape, RetriesLeft, ClaimExclusion, HoldingPC, ScanCurrent, StillExtends, Untouched,
        Appending, Slot
<1> QED OBVIOUS

\* The invariant of a directory that something else writes to.
THEOREM TamperedInvariant == TamperedSpec => []DInv
<1>1. DInv /\ [Next \/ Tamper]_vars => DInv'
  <2>1. DInv /\ [Next]_vars => DInv'
    BY UntouchedSound, UntouchedNext, ShapeNext, ClaimNext, ScanNext, DecisionNext
    DEF DInv, Protocol
  <2> QED BY <2>1, TamperKeeps
<1> QED BY DamageInit, <1>1, PTL DEF TamperedSpec

\* Records that are not one verified chain are never loaded nor appended to.
THEOREM DamageReported == TamperedSpec => []DamageIsReported
<1>1. DInv => DamageIsReported
  <2> SUFFICES ASSUME DInv, NEW c \in Caller, pc[c] = "decide"
               PROVE  /\ ~Healthy(seen[c]) <=> ScanDefects(seen[c]) # {}
                      /\ ~Healthy(finals) => ~Proceeds(c)
    BY DEF DamageIsReported
  <2>1. seen[c] \in SUBSET Envelope
    BY DEF DInv, Protocol, Shape, TypeOK
  <2>2. ~Healthy(finals) => ~Proceeds(c)
    BY ProceedsHealthy DEF DInv, Untouched
  <2> QED BY <2>1, <2>2, DefectsFound
<1> QED BY TamperedInvariant, <1>1, PTL

\* An append's decision is still right at the link, though others tamper.
THEOREM TamperedDecisionSafe == TamperedSpec => []DecisionStaysValid
<1>1. DInv => DecisionStaysValid
  <2> SUFFICES ASSUME DInv, NEW c \in Caller, pc[c] \in {"stage", "link"}
               PROVE  /\ Extends(finals, call[c].env)
                      /\ IsChain(finals) /\ IsChain(finals \cup {call[c].env})
    BY DEF DecisionStaysValid
  <2>1. /\ Extends(finals, call[c].env) /\ IsChain(finals)
        /\ finals \in SUBSET Envelope /\ call[c].env \in Envelope
    BY DEF DInv, Protocol, Shape, TypeOK, CallShape, StillExtends, Untouched, Healthy, Idle
  <2> QED BY <2>1, ExtendedChain
<1> QED BY TamperedInvariant, <1>1, PTL
=============================================================================
