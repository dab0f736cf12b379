SPECIFICATION Spec
CONSTANTS
  None = None
  Envelope <- MC_Small
  EnvelopeId <- MC_Id
  SeqOf <- MC_SeqOf
  PrevOf <- MC_PrevOf
  IdOf <- MC_IdOf
  InPolicy <- MC_Small
  Checkpoint = {"a"}
  Caller = {c1, c2}
  ClaimRetryLimit = 2
  MaxFaults = 1
INVARIANT
  HoldMeansInterrupted
