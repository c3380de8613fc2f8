SPECIFICATION Spec
CONSTANTS
  MaxLen = 3
  Pages = {"status", "boot ping", "wifi", "wifi note", "error", "dump", "disk", "unknown disk", "cpu"}
INVARIANTS TextSurvives OneMarkIsHarmless
CHECK_DEADLOCK FALSE
