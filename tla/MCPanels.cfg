SPECIFICATION Spec
CONSTANTS
  SweepEvery = 1
  MaxTime = 4
  Things = {1, 2, 3}
  Terms = {"f"}
  Matching <- Matches
  PageSize = 1
  Dashboards = {"shortcuts", "cities", "disks", "devices", "processes", "power"}
INVARIANTS TypeOK ForceIsConfirmed PageIsUsable
PROPERTY TurningKeepsFilter
