SPECIFICATION BootSpec
CONSTANTS
  Users = {u1, u2}
  Tokens = {t1}
  NoItem = NoItem
  Garbled = Garbled
  Commands = {a1, c1}
  Alone = {a1}
SYMMETRY Symmetry
INVARIANTS ServedUntilRestart AgentFindsItsItems
PROPERTIES SetupSparesTheToken
