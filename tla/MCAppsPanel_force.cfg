SPECIFICATION Spec
CONSTANTS
  SweepEvery = 1
  MaxTime = 1
  OverlapTime = 0
  Names = {n1}
  Pids = {p1, p2}
  NoApp = NoApp
  NoId = NoId
  Handlers = {h1}
INVARIANTS KillsTheShown
