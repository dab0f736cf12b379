SPECIFICATION Spec
CONSTANTS
  None = None
  h1 = h1
  h2 = h2
  op = op
  seed = seed
  route = route
  Handoff = {h1, h2}
  Operation = {op}
  Seed = {seed}
  Route = {route}
  Saved <- MC_Saved
  Initial <- MC_Initial
  Command <- MC_Command
  InstallOp = {i1, i2}
  Session = {s1, s2}
  CommandId = {c1, c2}
CHECK_DEADLOCK FALSE
INVARIANT ExactDuplicateIsIdempotent
