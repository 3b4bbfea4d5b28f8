SPECIFICATION Spec
CONSTANTS
  d1 = d1
  d2 = d2
  d3 = d3
  p1 = p1
  p2 = p2
  p3 = p3
  r1 = r1
  r2 = r2
  NoId = NoId
  NoDpr = NoDpr
  Requests = {r1, r2}
  Proposals = {p1, p2}
  WhatIfs = {p2}
  Dprs = {d1}
  Fp <- FpOf
  Completed <- NothingCompleted
  Ops = {"propose", "confirm", "turn", "agentConfirm", "refresh", "delete"}
  MaxSolves = 3
  MaxFaults = 1
  MayCrash = TRUE
  StaleTabs = FALSE
INVARIANTS
  TypeOK
  SingleUse
  ConfirmedPlansAreFeasible
PROPERTIES
  ImplementsLedger
