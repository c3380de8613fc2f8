SPECIFICATION FairSpec
CONSTANTS
  Chats = {c1, c2}
  Updates = {u1, u2}
  Tracks = {t1}
  NoTrack = NoTrack
  None = None
  Torn = Torn
  MaxAge = 0
  Buttons = {"open", "refresh", "verb", "leave"}
  Careful = {c1}
INVARIANTS TypeOK ActiveIsAlive CarefulNoOrphan
PROPERTIES EveryRefresherEnds EveryPressEnds
CHECK_DEADLOCK FALSE
