SPECIFICATION FairSpec
CONSTANTS
  Tasks = {t1, t2}
  Default = 1
  MaxLevel = 2
  Panels = {"sound", "display", "bluetooth", "wifi", "power", "media"}
  Again = {"bluetooth", "power", "media"}
  Drifting = {"bluetooth"}
INVARIANTS TypeOK NoLitter
PROPERTIES HonestPage AloneIsExact CapSparesTheSlow AwakeUntilTold EveryTapEnds
CHECK_DEADLOCK FALSE
