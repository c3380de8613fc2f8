SPECIFICATION Spec
CONSTANTS
  Chats = {c1}
  Updates = {u1, u2, u3, u4}
  NoFlow = NoFlow
  Torn = Torn
  SweepEvery = 1
  Patient = {}
PROPERTY CompletionIsOwn
