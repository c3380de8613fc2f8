SPECIFICATION Spec
CONSTANTS
  Users = {u1, u2}
  Tokens = {t1, t2}
  NoItem = NoItem
  Garbled = Garbled
  Commands = {a1, c1, c2}
  Alone = {a1}
SYMMETRY Symmetry
INVARIANTS TypeOK NeverEmptied RevokedStayOut
PROPERTIES AloneIsExact
