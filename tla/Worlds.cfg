SPECIFICATION Spec
CONSTANTS
  None = None
  Unknown = Unknown
  f1 = f1
  e1 = e1
  x1 = x1
  p1 = p1
  p2 = p2
  z1 = z1
  r1 = r1
  w1 = w1
  w2 = w2
  b1 = b1
  b2 = b2
  q1 = q1
  q2 = q2
  q3 = q3
  Field = {f1}
  Anchor = {1, 2, 3, 4}
  FieldLoad = 5
  AnchorCapacity = 2
  Edge = {e1}
  TrunkCapacity = 6
  EdgeDemand = 10
  CriticalDemand = 5
  Sector = {x1}
  Pump = {p1, p2}
  PumpCapacity = 6
  Zone = {z1}
  ZoneCapacity = 6
  ReuseCapacity = 4
  ReturnCapacity = 3
  GreenBuffer = 1
  AmberBuffer = 3
  Relay = {r1}
  ServiceReturnCapacity = 1
  Train = {w1, w2}
  TrainCapacity = 3
  BeltSector = {b1, b2}
  SectorCapacity = 2
  NormalFlow = 3
  Plate = {q1, q2, q3}
  Units <- MC_Units
  MaxTick = 4
  MaxBeltTick = 1
  MaxHeld = 2
  Stock <- MC_Stock
  StoreCapacity <- MC_StoreCapacity
  Heat <- MC_Heat
  Nominal <- MC_Nominal
  PoolCapacity <- MC_PoolCapacity
  Amounts <- MC_Amounts
SYMMETRY MC_Symmetry
CHECK_DEADLOCK FALSE
INVARIANTS
  TypeOK
  AccountsBalance
  ServiceIsHonest
  RoomResolvesComplete
PROPERTIES
  HaltTouchesNothing
