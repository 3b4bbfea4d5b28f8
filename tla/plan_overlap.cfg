SPECIFICATION HistorySpec
CONSTANTS
  d1 = d1
  d2 = d2
  d3 = d3
  p1 = p1
  p2 = p2
  r1 = r1
  r2 = r2
  NoId = NoId
  NoDpr = NoDpr
  Requests = {r1, r2}
  Proposals = {p1, p2}
  WhatIfs = {}
  Dprs = {d1, d2}
  Fp <- FpOf
  Completed <- CompletedLater
  Ops = {"propose", "confirm", "refresh", "delete"}
  MaxSolves = 3
  MaxFaults = 1
  MayCrash = TRUE
  StaleTabs = FALSE
INVARIANTS
  ConfirmedEditsSurvive
  LoneWriterRestoresRecord
SYMMETRY Alike
