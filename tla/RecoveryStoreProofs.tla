------------------------- MODULE RecoveryStoreProofs -------------------------
(***************************************************************************)
(* Theorems about RecoveryStore for any number of callers, any envelopes   *)
(* and any number of crashes and failures.                                 *)
(***************************************************************************)
EXTENDS RecoveryStore, TLAPS

-----------------------------------------------------------------------------
\* Facts about chains.

\* Adding an envelope that extends a chain gives a chain.
LEMMA ExtendedChain ==
  ASSUME NEW F \in SUBSET Envelope, NEW e \in Envelope, IsChain(F), Extends(F, e)
  PROVE  IsChain(F \cup {e})
<1> USE EnvelopeAssumption
<1>1. \A f \in F : SeqOf[f] \in Nat /\ SeqOf[f] < SeqOf[e]
  BY DEF Extends, IsHead
<1>2. ~Forked(F \cup {e})
  BY <1>1 DEF IsChain, Forked
<1>3. Contiguous(F \cup {e})
  <2> SUFFICES ASSUME NEW f \in F \cup {e}, NEW n \in 0 .. SeqOf[f]
               PROVE  \E g \in F \cup {e} : SeqOf[g] = n
    BY DEF Contiguous
  <2>1. CASE f \in F
    BY <2>1 DEF IsChain, Contiguous
  <2>2. CASE f = e /\ n = SeqOf[e]
    BY <2>2
  <2>3. CASE f = e /\ n # SeqOf[e]
    <3>1. PICK h \in F : SeqOf[e] = SeqOf[h] + 1
      BY <2>3 DEF Extends, IsHead
    <3>2. n \in 0 .. SeqOf[h]
      BY <2>3, <3>1
    <3> QED BY <3>2 DEF IsChain, Contiguous
  <2> QED BY <2>1, <2>2, <2>3
<1>4. Linked(F \cup {e})
  <2>1. IF SeqOf[e] = 0 THEN PrevOf[e] = None
                        ELSE PrevOf[e] \in F /\ SeqOf[PrevOf[e]] = SeqOf[e] - 1
    BY <1>1 DEF Extends, IsHead, GenesisRelation
  <2> QED BY <2>1 DEF IsChain, Linked
<1>5. ~IdReused(F \cup {e})
  BY DEF IsChain, IdReused, Extends
<1> QED BY <1>2, <1>3, <1>4, <1>5 DEF IsChain

\* Whatever extends a history has the same, next sequence number.
LEMMA NextSlot ==
  ASSUME NEW F \in SUBSET Envelope, NEW d \in Envelope, NEW e \in Envelope,
         Extends(F, d), Extends(F, e)
  PROVE  SeqOf[d] = SeqOf[e]
BY EnvelopeAssumption DEF Extends, IsHead

\* A listing S of the history F that holds every record with e's sequence
\* number, but may lack others, is enough for append to decide about e.
LEMMA ScanDecides ==
  ASSUME NEW F \in SUBSET Envelope, NEW S \in SUBSET F, NEW e \in Envelope, NEW h,
         IsChain(F), IsChain(S), GenesisRelation(e),
         \A f \in F : SeqOf[f] = SeqOf[e] => f \in S,
         AppendVerdict(S, e, h) = "PROCEED"
  PROVE  Extends(F, e)
<1> USE EnvelopeAssumption
<1>1. /\ \A f \in S : IdOf[f] # IdOf[e]
      /\ \/ S = {} /\ SeqOf[e] = 0
         \/ IsHead(S, h) /\ SeqOf[e] = SeqOf[h] + 1 /\ PrevOf[e] = h
  BY Zenon DEF AppendVerdict, Exact, IdentityTaken, HeadObserved, Descends
<1>2. \A f \in F : SeqOf[f] # SeqOf[e]
  BY <1>1 DEF IsHead
<1>3. \A f \in F : SeqOf[f] < SeqOf[e]
  <2> SUFFICES ASSUME NEW f \in F, ~(SeqOf[f] < SeqOf[e])
               PROVE  FALSE
    OBVIOUS
  <2>1. SeqOf[e] \in 0 .. SeqOf[f]
    OBVIOUS
  <2> QED BY <1>2, <2>1 DEF IsChain, Contiguous
<1>4. CASE S = {} /\ SeqOf[e] = 0
  BY <1>3, <1>4 DEF Extends
<1>5. CASE IsHead(S, h) /\ SeqOf[e] = SeqOf[h] + 1 /\ PrevOf[e] = h
  <2>1. IsHead(F, h)
    BY <1>3, <1>5 DEF IsHead
  <2>2. \A f \in F : f \in S
    <3> SUFFICES ASSUME NEW f \in F
                 PROVE  f \in S
      OBVIOUS
    <3>1. SeqOf[f] \in 0 .. SeqOf[h] /\ h \in S
      BY <1>5, <2>1 DEF IsHead
    <3>2. PICK s \in S : SeqOf[s] = SeqOf[f]
      BY <3>1 DEF IsChain, Contiguous
    <3> QED BY <3>2 DEF IsChain, Forked
  <2>3. h \in F
    BY <2>1 DEF IsHead
  <2> QED BY <1>1, <1>5, <2>1, <2>2, <2>3 DEF Extends
<1> QED BY <1>1, <1>4, <1>5

-----------------------------------------------------------------------------
\* The inductive invariant.

\* A call under way: an append has a verified envelope, a load never reaches
\* the steps that change the directory.
CallShape ==
  \A c \in Caller :
    pc[c] # Idle =>
      IF Appending(c) THEN call[c].env \in Envelope /\ VerifyEnvelope(call[c].env)
                      ELSE pc[c] \in {"scan", "scanning", "decide"}

\* An append's scan, though not atomic, lists final records only and misses
\* none with the sequence number that the append has claimed.
ScanCurrent ==
  \A c \in Caller :
    Appending(c) /\ pc[c] \in {"scanning", "decide"} =>
      /\ seen[c] \subseteq finals
      /\ \A f \in finals : SeqOf[f] = Slot(c) => f \in seen[c]

\* An append that has decided may still be linked.
StillExtends ==
  \A c \in Caller : pc[c] \in {"stage", "link"} => Extends(finals, call[c].env)

\* The retry loop of a claim has an attempt left.
RetriesLeft == \A c \in Caller : pc[c] = "claim" => tries[c] < ClaimRetryLimit

Shape == TypeOK /\ CallShape /\ RetriesLeft

IInv == Shape /\ HistoryIsChain /\ ClaimExclusion /\ ScanCurrent /\ StillExtends

\* What the callers keep among themselves, whatever the directory holds, as
\* long as no append proceeds on a directory that is not a history.
Protocol == Shape /\ ClaimExclusion /\ ScanCurrent /\ StillExtends

SoundAppends == \A c \in Caller : pc[c] = "decide" /\ Proceeds(c) => IsChain(finals)

LEMMA ShapeInit == Init => Shape
BY StoreAssumption
DEF Init, Shape, TypeOK, CallShape, RetriesLeft, PC, Idle, Code, Calls, NoCall, NoPeers

\* Every verdict but PROCEED is an answer of the store.
LEMMA VerdictCodes ==
  ASSUME NEW c \in Caller, ~Proceeds(c)
  PROVE  Verdicts(c) \subseteq Code
<1> USE DEF Code
<1>1. ASSUME NEW F PROVE ScanDefects(F) \subseteq Code
  BY DEF ScanDefects
<1>2. ASSUME NEW F, NEW cp PROVE LoadVerdict(F, cp) \in Code
  BY DEF LoadVerdict
<1>3. ASSUME NEW F, NEW e, NEW h
      PROVE  AppendVerdict(F, e, h) \in Code \cup {"PROCEED"}
  BY DEF AppendVerdict
<1>4. CASE ~Healthy(seen[c])
  BY <1>1, <1>4, Zenon DEF Verdicts
<1>5. CASE Healthy(seen[c]) /\ Appending(c)
  <2>1. Verdicts(c) = {AppendVerdict(seen[c], call[c].env, call[c].head)}
    BY <1>5 DEF Verdicts
  <2> QED BY <1>3, <1>5, <2>1, Zenon DEF Proceeds
<1>6. CASE Healthy(seen[c]) /\ ~Appending(c)
  BY <1>2, <1>6, Zenon DEF Verdicts
<1> QED BY <1>4, <1>5, <1>6

\* One more attempt that is not the last one leaves another.
LEMMA AnotherTry ==
  ASSUME NEW t \in 0 .. ClaimRetryLimit, t < ClaimRetryLimit
  PROVE  t + 1 \in 0 .. ClaimRetryLimit /\ (t + 1 # ClaimRetryLimit => t + 1 < ClaimRetryLimit)
BY StoreAssumption

LEMMA ShapeNext == Shape /\ [Next]_vars => Shape'
<1> USE StoreAssumption, EnvelopeAssumption
    DEF Shape, TypeOK, CallShape, RetriesLeft, PC, Idle, HoldingPC, Code, Calls, NoPeers, Appending,
        Answer, Goto, Fault, ForgetScan, files, scan
<1> SUFFICES ASSUME Shape, [Next]_vars
             PROVE  Shape'
  OBVIOUS
<1>1. CASE UNCHANGED vars
  BY <1>1 DEF vars
<1>2. ASSUME NEW c \in Caller, NEW e \in Envelope, NEW h \in Envelope \cup {None},
             CallAppend(c, e, h)
      PROVE  Shape'
  BY <1>2 DEF CallAppend
<1>3. ASSUME NEW c \in Caller, NEW cp \in Checkpoint \cup {None}, CallLoad(c, cp)
      PROVE  Shape'
  BY <1>3 DEF CallLoad
<1>4. ASSUME NEW c \in Caller, Progress(c)
      PROVE  Shape'
  <2>1. CASE AcquireClaim(c)
    <3>1. call[c].env \in Envelope
      BY <2>1 DEF AcquireClaim
    <3>2. claims' \subseteq Nat
      <4>1. Slot(c) \in Nat
        BY <3>1 DEF Slot
      <4> QED BY <2>1, <4>1 DEF AcquireClaim
    <3>3. pc' \in [Caller -> PC] /\ tries' \in [Caller -> 0 .. ClaimRetryLimit]
      BY <2>1 DEF AcquireClaim
    <3> QED BY <2>1, <3>1, <3>2, <3>3 DEF AcquireClaim
  <2>2. CASE ClaimBusy(c)
    <3> DEFINE last == LastAttempt(tries[c] + 1)
    <3>1. /\ pc[c] = "claim" /\ pc' = [pc EXCEPT ![c] = IF last THEN Idle ELSE "claim"]
          /\ tries' = [tries EXCEPT ![c] = @ + 1] /\ UNCHANGED call
          /\ last <=> tries[c] + 1 = ClaimRetryLimit
      BY <2>2 DEF ClaimBusy, LastAttempt
    <3> HIDE DEF last
    <3>2. tries[c] \in 0 .. ClaimRetryLimit /\ tries[c] < ClaimRetryLimit
      BY <3>1
    <3>3. /\ tries[c] + 1 \in 0 .. ClaimRetryLimit
          /\ ~ last => tries[c] + 1 < ClaimRetryLimit
      BY <3>1, <3>2, AnotherTry
    <3>4. TypeOK'
      <4>1. pc' \in [Caller -> PC] /\ tries' \in [Caller -> 0 .. ClaimRetryLimit]
        BY <3>1, <3>3
      <4>2. result' \in [Caller -> Code]
        BY <2>2 DEF ClaimBusy
      <4> QED BY <2>2, <4>1, <4>2 DEF ClaimBusy
    <3>5. CallShape'
      BY <3>1
    <3>6. RetriesLeft'
      <4> SUFFICES ASSUME NEW d \in Caller, pc'[d] = "claim" PROVE tries'[d] < ClaimRetryLimit
        OBVIOUS
      <4>1. CASE d = c
        <5>1. ~ last /\ tries'[d] = tries[c] + 1
          BY <3>1, <4>1
        <5> QED BY <3>3, <5>1
      <4>2. CASE d # c
        BY <3>1, <4>2
      <4> QED BY <4>1, <4>2
    <3> QED BY <3>4, <3>5, <3>6 DEF Shape
  <2>3. CASE BeginScan(c)
    BY <2>3 DEF BeginScan
  <2>4. CASE EndScan(c)
    BY <2>4 DEF EndScan, AfterScan
  <2>5. CASE Decline(c)
    <3>1. \E code \in Code : Answer(c, code)
      BY <2>5, VerdictCodes, Zenon DEF Decline
    <3> QED BY <2>5, <3>1 DEF Decline, AfterScan
  <2>6. CASE OpenStaging(c)
    <3>1. peers' \in [Caller -> [sure : SUBSET Caller, maybe : SUBSET Caller]]
      BY <2>6 DEF OpenStaging
    <3>2. TypeOK'
      BY <2>6, <3>1 DEF OpenStaging
    <3>3. CallShape' /\ RetriesLeft'
      BY <2>6 DEF OpenStaging, Proceeds
    <3> QED BY <3>2, <3>3
  <2>7. CASE WriteStaging(c)
    <3>1. TypeOK'
      BY <2>7 DEF WriteStaging
    <3>2. CallShape' /\ RetriesLeft'
      BY <2>7 DEF WriteStaging
    <3> QED BY <3>1, <3>2
  <2>8. CASE Link(c)
    <3>1. call[c].env \in Envelope
      BY <2>8 DEF Link
    <3>2. TypeOK'
      <4>1. finals' \subseteq Envelope
        BY <2>8, <3>1 DEF Link, WithRecord
      <4>2. pc' \in [Caller -> PC] /\ staging' \subseteq Caller
        BY <2>8, <3>1 DEF Link
      <4> QED BY <2>8, <4>1, <4>2 DEF Link
    <3>3. CallShape' /\ RetriesLeft'
      BY <2>8 DEF Link
    <3> QED BY <3>2, <3>3
  <2>9. CASE UnlinkStaging(c)
    BY <2>9 DEF UnlinkStaging
  <2>10. CASE Readback(c)
    BY <2>10 DEF Readback
  <2>11. CASE Release(c)
    BY <2>11 DEF Release, Slot
  <2> QED BY <1>4, <2>1, <2>2, <2>3, <2>4, <2>5, <2>6, <2>7, <2>8, <2>9, <2>10, <2>11
          DEF Progress
<1>5. ASSUME NEW c \in Caller, Failure(c)
      PROVE  Shape'
  <2>1. CASE ClaimFails(c)
    <3>1. call[c].env \in Envelope
      BY <2>1 DEF ClaimFails
    <3>2. claims' \subseteq Nat
      BY <2>1, <3>1 DEF ClaimFails, Slot
    <3> QED BY <2>1, <3>1, <3>2 DEF ClaimFails
  <2>2. CASE ScanFails(c)
    BY <2>2 DEF ScanFails, AfterScan
  <2>3. CASE OpenStagingFails(c)
    BY <2>3 DEF OpenStagingFails, Proceeds
  <2>4. CASE StagingFails(c)
    BY <2>4 DEF StagingFails
  <2>5. CASE ReadbackFails(c)
    BY <2>5 DEF ReadbackFails
  <2>6. CASE ReleaseFails(c)
    BY <2>6 DEF ReleaseFails
  <2>7. CASE Crash(c)
    BY <2>7 DEF Crash, NoCall
  <2> QED BY <1>5, <2>1, <2>2, <2>3, <2>4, <2>5, <2>6, <2>7 DEF Failure
<1> QED BY <1>1, <1>2, <1>3, <1>4, <1>5 DEF Next

-----------------------------------------------------------------------------
\* The invariant is preserved.

LEMMA StoreInit == Init => IInv
BY ShapeInit, EnvelopeAssumption
DEF Init, IInv, HistoryIsChain, ClaimExclusion, ScanCurrent, StillExtends, IsChain,
    Forked, Contiguous, Linked, IdReused, Idle, HoldingPC, NoCall, Appending

\* HistoryIsChain: only Link adds a record, and the one it adds extends the
\* history.
LEMMA ChainNext == IInv /\ [Next]_vars => HistoryIsChain'
<1> SUFFICES ASSUME IInv, [Next]_vars
             PROVE  HistoryIsChain'
  OBVIOUS
<1>1. CASE finals' = finals
  BY <1>1 DEF IInv, HistoryIsChain
<1>2. ASSUME NEW c \in Caller, Link(c)
      PROVE  HistoryIsChain'
  <2>1. /\ finals \subseteq Envelope /\ call[c].env \in Envelope
        /\ Extends(finals, call[c].env)
    BY <1>2 DEF IInv, Shape, TypeOK, CallShape, StillExtends, Link, Goto, Idle
  <2>2. finals' = finals \cup {call[c].env}
    BY <1>2 DEF Link, WithRecord
  <2> QED BY <2>1, <2>2, ExtendedChain DEF IInv, HistoryIsChain
<1>3. finals' = finals \/ \E c \in Caller : Link(c)
  BY DEF Next, Progress, Failure, vars, files, CallAppend, CallLoad, AcquireClaim, ClaimBusy,
         BeginScan, EndScan, Decline, OpenStaging, WriteStaging, UnlinkStaging, Readback,
         Release, ClaimFails, ScanFails, OpenStagingFails, StagingFails, ReadbackFails,
         ReleaseFails, Crash
<1> QED BY <1>1, <1>2, <1>3

\* ClaimExclusion: a claim file is created by one append at a time, and removed
\* by its owner only.
LEMMA ClaimNext == Protocol /\ [Next]_vars => ClaimExclusion'
<1> USE DEF Protocol, Shape, TypeOK, CallShape, ClaimExclusion, Idle, HoldingPC, Appending, Slot,
            Answer, Goto, Fault, ForgetScan, files, scan
<1> SUFFICES ASSUME Protocol, [Next]_vars
             PROVE  ClaimExclusion'
  OBVIOUS
<1>1. CASE UNCHANGED vars
  BY <1>1 DEF vars
<1>2. ASSUME NEW c \in Caller, NEW e \in Envelope, NEW h \in Envelope \cup {None},
             CallAppend(c, e, h)
      PROVE  ClaimExclusion'
  BY <1>2 DEF CallAppend
<1>3. ASSUME NEW c \in Caller, NEW cp \in Checkpoint \cup {None}, CallLoad(c, cp)
      PROVE  ClaimExclusion'
  BY <1>3 DEF CallLoad
<1>4. ASSUME NEW c \in Caller, Progress(c)
      PROVE  ClaimExclusion'
  <2>1. CASE AcquireClaim(c)
    BY <2>1 DEF AcquireClaim, ClaimTaken
  <2>2. CASE ClaimBusy(c)
    BY <2>2 DEF ClaimBusy
  <2>3. CASE BeginScan(c)
    BY <2>3 DEF BeginScan
  <2>4. CASE EndScan(c)
    BY <2>4 DEF EndScan, AfterScan
  <2>5. CASE Decline(c)
    BY <2>5 DEF Decline, AfterScan
  <2>6. CASE OpenStaging(c)
    BY <2>6 DEF OpenStaging
  <2>7. CASE WriteStaging(c)
    BY <2>7 DEF WriteStaging
  <2>8. CASE Link(c)
    BY <2>8 DEF Link
  <2>9. CASE UnlinkStaging(c)
    BY <2>9 DEF UnlinkStaging
  <2>10. CASE Readback(c)
    BY <2>10 DEF Readback
  <2>11. CASE Release(c)
    BY <2>11 DEF Release
  <2> QED BY <1>4, <2>1, <2>2, <2>3, <2>4, <2>5, <2>6, <2>7, <2>8, <2>9, <2>10, <2>11
          DEF Progress
<1>5. ASSUME NEW c \in Caller, Failure(c)
      PROVE  ClaimExclusion'
  <2>1. CASE ClaimFails(c)
    BY <2>1 DEF ClaimFails
  <2>2. CASE ScanFails(c)
    BY <2>2 DEF ScanFails, AfterScan
  <2>3. CASE OpenStagingFails(c)
    BY <2>3 DEF OpenStagingFails
  <2>4. CASE StagingFails(c)
    BY <2>4 DEF StagingFails
  <2>5. CASE ReadbackFails(c)
    BY <2>5 DEF ReadbackFails
  <2>6. CASE ReleaseFails(c)
    BY <2>6 DEF ReleaseFails
  <2>7. CASE Crash(c)
    BY <2>7 DEF Crash, NoCall
  <2> QED BY <1>5, <2>1, <2>2, <2>3, <2>4, <2>5, <2>6, <2>7 DEF Failure
<1> QED BY <1>1, <1>2, <1>3, <1>4, <1>5 DEF Next

\* ScanCurrent: a record added while a scan runs has another sequence number
\* than the scanning append, for only the owner of a claim adds a record.
LEMMA ScanNext == Protocol /\ [Next]_vars => ScanCurrent'
<1> USE DEF Protocol, Shape, TypeOK, CallShape, ScanCurrent, Idle, HoldingPC, Appending, Slot,
            Answer, Goto, Fault, ForgetScan, files, scan
<1> SUFFICES ASSUME Protocol, [Next]_vars
             PROVE  ScanCurrent'
  OBVIOUS
<1>1. CASE UNCHANGED vars
  BY <1>1 DEF vars
<1>2. ASSUME NEW c \in Caller, NEW e \in Envelope, NEW h \in Envelope \cup {None},
             CallAppend(c, e, h)
      PROVE  ScanCurrent'
  BY <1>2 DEF CallAppend
<1>3. ASSUME NEW c \in Caller, NEW cp \in Checkpoint \cup {None}, CallLoad(c, cp)
      PROVE  ScanCurrent'
  BY <1>3 DEF CallLoad
<1>4. ASSUME NEW c \in Caller, Progress(c)
      PROVE  ScanCurrent'
  <2>1. CASE AcquireClaim(c)
    BY <2>1 DEF AcquireClaim
  <2>2. CASE ClaimBusy(c)
    BY <2>2 DEF ClaimBusy
  <2>3. CASE BeginScan(c)
    BY <2>3 DEF BeginScan
  <2>4. CASE EndScan(c)
    BY <2>4 DEF EndScan, AfterScan
  <2>5. CASE Decline(c)
    BY <2>5 DEF Decline, AfterScan
  <2>6. CASE OpenStaging(c)
    BY <2>6 DEF OpenStaging
  <2>7. CASE WriteStaging(c)
    BY <2>7 DEF WriteStaging
  <2>8. CASE Link(c)
    <3>1. Appending(c) /\ finals' = finals \cup {call[c].env}
      BY <2>8 DEF Link, WithRecord
    <3>2. \A d \in Caller \ {c} :
            Appending(d) /\ pc[d] \in {"scanning", "decide"} => Slot(d) # Slot(c)
      BY <2>8, <3>1 DEF ClaimExclusion, Link
    <3> QED BY <2>8, <3>1, <3>2 DEF Link
  <2>9. CASE UnlinkStaging(c)
    BY <2>9 DEF UnlinkStaging
  <2>10. CASE Readback(c)
    BY <2>10 DEF Readback
  <2>11. CASE Release(c)
    BY <2>11 DEF Release
  <2> QED BY <1>4, <2>1, <2>2, <2>3, <2>4, <2>5, <2>6, <2>7, <2>8, <2>9, <2>10, <2>11
          DEF Progress
<1>5. ASSUME NEW c \in Caller, Failure(c)
      PROVE  ScanCurrent'
  <2>1. CASE ClaimFails(c)
    BY <2>1 DEF ClaimFails
  <2>2. CASE ScanFails(c)
    BY <2>2 DEF ScanFails, AfterScan
  <2>3. CASE OpenStagingFails(c)
    BY <2>3 DEF OpenStagingFails
  <2>4. CASE StagingFails(c)
    BY <2>4 DEF StagingFails
  <2>5. CASE ReadbackFails(c)
    BY <2>5 DEF ReadbackFails
  <2>6. CASE ReleaseFails(c)
    BY <2>6 DEF ReleaseFails
  <2>7. CASE Crash(c)
    BY <2>7 DEF Crash, NoCall
  <2> QED BY <1>5, <2>1, <2>2, <2>3, <2>4, <2>5, <2>6, <2>7 DEF Failure
<1> QED BY <1>1, <1>2, <1>3, <1>4, <1>5 DEF Next

\* Nothing is appended on a scan that found a defect.
LEMMA ProceedsHealthy ==
  ASSUME NEW c \in Caller, Proceeds(c)
  PROVE  Healthy(seen[c])
<1>1. ~Healthy(seen[c]) => Verdicts(c) = ScanDefects(seen[c])
  BY Zenon DEF Verdicts
<1>2. "PROCEED" \notin ScanDefects(seen[c])
  BY DEF ScanDefects
<1> QED BY <1>1, <1>2 DEF Proceeds

\* StillExtends: decided on the scan in OpenStaging, and no other append adds a
\* record afterwards, for it would extend the same history under the same
\* sequence number, hence under the same claim.
LEMMA DecisionNext == Protocol /\ SoundAppends /\ [Next]_vars => StillExtends'
<1> USE DEF Idle, HoldingPC, Answer, Goto, Fault, ForgetScan, files, scan
<1> SUFFICES ASSUME Protocol, SoundAppends, [Next]_vars
             PROVE  StillExtends'
  OBVIOUS
<1>1. /\ pc \in [Caller -> PC] /\ finals \subseteq Envelope
      /\ ClaimExclusion /\ ScanCurrent /\ StillExtends
      /\ \A c \in Caller : pc[c] \in HoldingPC /\ Appending(c) =>
           call[c].env \in Envelope /\ GenesisRelation(call[c].env)
      /\ \A c \in Caller : pc[c] \in {"stage", "link"} => Appending(c)
  BY DEF Protocol, Shape, TypeOK, CallShape, VerifyEnvelope
<1>2. ASSUME NEW c \in Caller, OpenStaging(c)
      PROVE  StillExtends'
  <2>1. /\ pc[c] = "decide" /\ pc' = [pc EXCEPT ![c] = "stage"]
        /\ Proceeds(c) /\ UNCHANGED <<finals, call>>
    BY <1>2 DEF OpenStaging
  <2>2. Appending(c) /\ Verdicts(c) = {"PROCEED"}
    BY <2>1 DEF Proceeds
  <2>3. Healthy(seen[c]) /\ IsChain(finals)
    BY <2>1, ProceedsHealthy DEF SoundAppends
  <2>4. AppendVerdict(seen[c], call[c].env, call[c].head) = "PROCEED"
    <3>1. Verdicts(c) = {AppendVerdict(seen[c], call[c].env, call[c].head)}
      BY <2>2, <2>3, Zenon DEF Verdicts
    <3> QED BY <2>2, <3>1, Zenon
  <2>5. /\ seen[c] \in SUBSET finals /\ IsChain(seen[c])
        /\ \A f \in finals : SeqOf[f] = SeqOf[call[c].env] => f \in seen[c]
    BY <1>1, <2>1, <2>2, <2>3 DEF ScanCurrent, Slot, Healthy
  <2>6. Extends(finals, call[c].env)
    BY <1>1, <2>1, <2>2, <2>3, <2>4, <2>5, ScanDecides
  <2> QED BY <1>1, <2>1, <2>6 DEF StillExtends
<1>3. ASSUME NEW c \in Caller, Link(c)
      PROVE  StillExtends'
  <2>1. /\ pc[c] = "link" /\ pc' \in [Caller -> PC]
        /\ pc'[c] \notin {"stage", "link"} /\ UNCHANGED call
        /\ \A d \in Caller \ {c} : pc'[d] = pc[d]
    BY <1>1, <1>3 DEF Link, PC
  <2>2. \A d \in Caller \ {c} : pc[d] \notin {"stage", "link"}
    <3> SUFFICES ASSUME NEW d \in Caller \ {c}, pc[d] \in {"stage", "link"}
                 PROVE  FALSE
      OBVIOUS
    <3>1. /\ Extends(finals, call[c].env) /\ Extends(finals, call[d].env)
          /\ call[c].env \in Envelope /\ call[d].env \in Envelope
          /\ Appending(c) /\ Appending(d)
      BY <1>1, <2>1 DEF StillExtends
    <3>2. Slot(c) = Slot(d)
      BY <1>1, <3>1, NextSlot DEF Slot
    <3> QED BY <1>1, <2>1, <3>1, <3>2 DEF ClaimExclusion
  <2> QED BY <2>1, <2>2 DEF StillExtends
<1>4. ASSUME UNCHANGED finals,
             \A c \in Caller : pc'[c] \in {"stage", "link"} =>
               pc[c] \in {"stage", "link"} /\ call'[c] = call[c]
      PROVE  StillExtends'
  BY <1>1, <1>4 DEF StillExtends
<1>5. ASSUME NEW c \in Caller, NEW e \in Envelope, NEW h \in Envelope \cup {None},
             CallAppend(c, e, h)
      PROVE  StillExtends'
  BY <1>1, <1>4, <1>5 DEF CallAppend
<1>6. ASSUME NEW c \in Caller, NEW cp \in Checkpoint \cup {None}, CallLoad(c, cp)
      PROVE  StillExtends'
  BY <1>1, <1>4, <1>6 DEF CallLoad
<1>7. ASSUME NEW c \in Caller,
             \/ AcquireClaim(c) \/ ClaimBusy(c) \/ BeginScan(c) \/ EndScan(c) \/ Decline(c)
             \/ WriteStaging(c) \/ UnlinkStaging(c) \/ Readback(c) \/ Release(c)
      PROVE  StillExtends'
  BY <1>1, <1>4, <1>7
  DEF AcquireClaim, ClaimBusy, BeginScan, EndScan, Decline, WriteStaging, UnlinkStaging,
      Readback, Release, AfterScan
<1>8. ASSUME NEW c \in Caller, Failure(c)
      PROVE  StillExtends'
  <2>1. CASE Crash(c)
    BY <1>1, <1>4, <2>1 DEF Crash
  <2>2. CASE ~Crash(c)
    BY <1>1, <1>4, <1>8, <2>2
    DEF Failure, ClaimFails, ScanFails, OpenStagingFails, StagingFails, ReadbackFails,
        ReleaseFails, AfterScan
  <2> QED BY <2>1, <2>2
<1>9. CASE UNCHANGED vars
  BY <1>4, <1>9 DEF vars
<1> QED BY <1>2, <1>3, <1>5, <1>6, <1>7, <1>8, <1>9 DEF Next, Progress

LEMMA StoreNext == IInv /\ [Next]_vars => IInv'
<1>1. IInv => Protocol /\ SoundAppends
  BY DEF IInv, Protocol, SoundAppends, HistoryIsChain
<1>2. Protocol /\ SoundAppends /\ [Next]_vars => Protocol'
  BY ShapeNext, ClaimNext, ScanNext, DecisionNext DEF Protocol
<1> QED BY <1>1, <1>2, ChainNext DEF IInv, Protocol

\* The invariant holds in every reachable state.
THEOREM StoreInvariant == Spec => []IInv
BY StoreInit, StoreNext, PTL DEF Spec

-----------------------------------------------------------------------------
\* Type correctness of the store.
THEOREM TypeCorrect == Spec => []TypeOK
<1>1. IInv => TypeOK
  BY DEF IInv, Shape
<1> QED BY StoreInvariant, <1>1, PTL

\* However many appends, loads, crashes and failures interleave, the final
\* records of the directory are one gapless, hash-linked, unforked history.
THEOREM HistorySafe == Spec => []HistoryIsChain
<1>1. IInv => HistoryIsChain
  BY DEF IInv
<1> QED BY StoreInvariant, <1>1, PTL

\* The claim file excludes appends of the same sequence number.
THEOREM ClaimsExclude == Spec => []ClaimExclusion
<1>1. IInv => ClaimExclusion
  BY DEF IInv
<1> QED BY StoreInvariant, <1>1, PTL

\* What append read before its awaits still holds when it links the record.
THEOREM DecisionSafe == Spec => []DecisionStaysValid
<1>1. IInv => DecisionStaysValid
  <2> SUFFICES ASSUME IInv, NEW c \in Caller, pc[c] \in {"stage", "link"}
               PROVE  /\ Extends(finals, call[c].env)
                      /\ IsChain(finals) /\ IsChain(finals \cup {call[c].env})
    BY DEF DecisionStaysValid
  <2>1. /\ Extends(finals, call[c].env) /\ IsChain(finals)
        /\ finals \subseteq Envelope /\ call[c].env \in Envelope
    BY DEF IInv, Shape, TypeOK, CallShape, HistoryIsChain, StillExtends, Idle
  <2> QED BY <2>1, ExtendedChain
<1> QED BY StoreInvariant, <1>1, PTL

\* The store implements the append-only log: every step either leaves the final
\* records alone or appends one envelope at the head of the history.
THEOREM StoreRefinesLog == Spec => RefinesLog
<1>1. Init => Log!Init
  BY DEF Init, Log!Init
<1>2. IInv /\ [Next]_vars => [Log!Next]_finals
  <2> SUFFICES ASSUME IInv, [Next]_vars
               PROVE  Log!Next \/ finals' = finals
    OBVIOUS
  <2>1. ASSUME NEW c \in Caller, Link(c)
        PROVE  Log!Next
    <3>1. Extends(finals, call[c].env) /\ call[c].env \in Envelope
      BY <2>1 DEF IInv, Shape, TypeOK, CallShape, StillExtends, Link, Goto, Idle
    <3>2. finals' = finals \cup {call[c].env}
      BY <2>1 DEF Link, WithRecord
    <3>3. Log!Extends(finals, call[c].env)
      BY <3>1 DEF Extends, GenesisRelation, IsHead, Log!Extends, Log!GenesisRelation, Log!IsHead
    <3> QED BY <3>1, <3>2, <3>3 DEF Log!Next, Log!Append
  <2>2. finals' = finals \/ \E c \in Caller : Link(c)
    BY DEF Next, Progress, Failure, vars, files, CallAppend, CallLoad, AcquireClaim,
           ClaimBusy, BeginScan, EndScan, Decline, OpenStaging, WriteStaging, UnlinkStaging,
           Readback, Release, ClaimFails, ScanFails, OpenStagingFails, StagingFails,
           ReadbackFails, ReleaseFails, Crash
  <2> QED BY <2>1, <2>2
<1> QED BY <1>1, <1>2, StoreInvariant, PTL DEF Spec, Log!Spec, RefinesLog
=============================================================================
