SPECIFICATION Spec
CONSTANTS
  None = None
  Envelope <- MC_Core
  EnvelopeId <- MC_Id
  SeqOf <- MC_SeqOf
  PrevOf <- MC_PrevOf
  IdOf <- MC_IdOf
  InPolicy <- MC_Core
  Checkpoint = {"a"}
  Caller = {c1, c2}
  ClaimRetryLimit = 2
  MaxFaults = 1
SYMMETRY MC_Symmetry
INVARIANTS
  TypeOK
  HistoryIsChain
  ClaimExclusion
  DecisionStaysValid
  StoredIsFinal
  RestartIsFromHistory
  NoStrayFiles
  LegalAppendProgress
  RetryNeverConflicts
PROPERTY
  RefinesLog
