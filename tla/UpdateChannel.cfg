SPECIFICATION Spec
CONSTANTS
  None = None
  v1 = v1
  v2 = v2
  v3 = v3
  v4 = v4
  Version = {v1, v2, v3, v4}
  Good = {v1, v2}
  MaxFaults = 2
SYMMETRY MC_Symmetry
INVARIANTS
  TypeOK
  NothingOfUseIsLost
  FailedQualificationRestores
PROPERTIES
  ReportsAreTrue
