SPECIFICATION Spec
CONSTANTS
  Tasks = {t1, t2}
  Default = 1
  MaxLevel = 1
  Panels = {"media"}
  Again = {}
  Drifting = {}
PROPERTY FailedUploadKeeps
CHECK_DEADLOCK FALSE
