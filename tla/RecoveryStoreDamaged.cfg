SPECIFICATION FairSpec
CONSTANTS
  None = None
  Envelope <- MC_Rival
  EnvelopeId <- MC_Id
  SeqOf <- MC_SeqOf
  PrevOf <- MC_PrevOf
  IdOf <- MC_IdOf
  InPolicy <- MC_Rival
  Checkpoint = {"a"}
  Caller = {c1, c2}
  ClaimRetryLimit = 2
  MaxFaults = 1
INVARIANTS
  DamageIsReported
  DecisionStaysValid
PROPERTY
  CallsReturn
