SPECIFICATION Spec
CONSTANTS
  s1 = s1
  s2 = s2
  i1 = i1
  i2 = i2
  r1 = r1
  r2 = r2
  None = None
  Students = {s1, s2}
  Ids = {i1, i2}
  Requests = {r1, r2}
  Backends = {"postgres", "memory"}
  TTL = 1
  MaxTime = 2
SYMMETRY Slots
INVARIANTS
  TypeOK
  OneHolder
  TtlIsAnchored
PROPERTIES
  LeavesOnlyToItsOwner
  ImplementsLedger
