SPECIFICATION Spec
CONSTANTS
  d1 = d1
  d2 = d2
  d3 = d3
  p1 = p1
  p2 = p2
  p3 = p3
  r1 = r1
  r2 = r2
  NoId = NoId
  NoDpr = NoDpr
  Requests = {r1, r2}
  Proposals = {p1, p2}
  WhatIfs = {p2}
  Dprs = {d1, d2}
  Fp <- FpOf
  Completed <- CompletedLater
  Ops = {"propose", "confirm", "turn", "delete"}
  MaxSolves = 3
  MaxFaults = 0
  MayCrash = FALSE
  StaleTabs = FALSE
INVARIANTS
  DeletedMeansEmpty
