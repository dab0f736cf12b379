SPECIFICATION Spec
CONSTANTS
  None = None
  EventType = {1, 2}
  Entity = {1, 2}
  Zone = {"PUBLIC_ZONE", "ABYSS_ZONE"}
  MaxTick = 2
  MaxCalls = 1
INVARIANT
  RollbackRestores
