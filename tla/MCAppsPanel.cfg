SPECIFICATION Spec
CONSTANTS
  SweepEvery = 1
  MaxTime = 3
  OverlapTime = 0
  Names = {n1, n2}
  Pids = {p1, p2}
  NoApp = NoApp
  NoId = NoId
  Handlers = {h1, h2}
SYMMETRY Symmetry
INVARIANTS TypeOK FreshButtonsWork MarksAreTheSelection KeptIsSpared
  KillsTheNamed
