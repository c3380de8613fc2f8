SPECIFICATION Spec
CONSTANTS
  Chats = {c1}
  Updates = {u1, u2, u3}
  Tracks = {t1}
  NoTrack = NoTrack
  None = None
  Torn = Torn
  MaxAge = 0
  Buttons = {"open", "leave"}
  Careful = {}
PROPERTY EvictIsOwn
CHECK_DEADLOCK FALSE
