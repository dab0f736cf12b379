SPECIFICATION Spec
CONSTANTS
  None = None
  Null = Null
  Garbage = Garbage
  Absent = Absent
  Scenario = {"s1"}
  Pressure = {0, 5}
  MaxIntents = 4
  MaxEdits = 2
  PhaseOrder <- MC_PhaseOrder
  Label <- MC_Label
INVARIANTS
  FailureKeepsPrefix
  RestoredIsSaved
  ProofIsNotMinted
  ExportsAreFaithful
