SPECIFICATION FairHistorySpec
CONSTANTS
  d1 = d1
  d2 = d2
  d3 = d3
  p1 = p1
  p2 = p2
  r1 = r1
  r2 = r2
  NoId = NoId
  NoDpr = NoDpr
  Requests = {r1, r2}
  Proposals = {p1}
  WhatIfs = {}
  Dprs = {d1, d2}
  Fp <- FpOf
  Completed <- CompletedLater
  Ops = {"propose", "confirm", "turn", "refresh", "delete"}
  MaxSolves = 2
  MaxFaults = 0
  MayCrash = FALSE
  StaleTabs = FALSE
PROPERTIES
  EveryRequestEnds
  RefreshBringsAPlan
  OnlyTheOutlivedRefill
