SPECIFICATION FairSpec
CONSTANTS
  Chats = {c1, c2}
  Updates = {u1, u2, u3}
  NoFlow = NoFlow
  Torn = Torn
  SweepEvery = 1
  Patient = {c1}
INVARIANTS TypeOK IdleBound AnsweredIsClosed OwnChat
  PatientCallsOnce PatientJoinsTheSSID
PROPERTIES Lifecycle PatientFinishesOwn EveryUpdateEnds FlowsEnd
