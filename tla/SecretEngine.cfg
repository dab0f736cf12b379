SPECIFICATION Spec
CONSTANTS
  None = None
  Handoff = {h1, h2}
  First = h1
  Operation = {o1, o2}
  Seed = {seed}
  Route = {route}
  Emitted <- MC_Emitted
  Installed <- MC_Installed
  MaxCommits = 2
SYMMETRY MC_Symmetry
INVARIANTS
  TypeOK
  AdmissionIsGrounded
  OnlySoundIsAdmitted
  CommitsOnce
  ReadingNeverRewinds
PROPERTY EvidenceIsPermanent
