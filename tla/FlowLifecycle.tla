--------------------------- MODULE FlowLifecycle --------------------------
(* What the chat's flow slot promises, whatever handlers run at the same   *)
(* time: a flow is opened once, in one chat, over whatever was there; it   *)
(* may be closed at any moment, alone or together with flows of other      *)
(* chats; and a closed flow never comes back.                              *)
CONSTANTS Chats, Updates, NoFlow

VARIABLES holder,  \* the flow each chat holds
          opened   \* every flow that was ever opened

lifeVars == <<holder, opened>>

LifeInit ==
  /\ holder = [c \in Chats |-> NoFlow]
  /\ opened = {}

Open(c, f) ==
  /\ f \notin opened
  /\ opened' = opened \cup {f}
  /\ holder' = [holder EXCEPT ![c] = f]

Close(cs) ==
  /\ holder' = [c \in Chats |-> IF c \in cs THEN NoFlow ELSE holder[c]]
  /\ UNCHANGED opened

LifeNext ==
  \/ \E c \in Chats, f \in Updates : Open(c, f)
  \/ \E cs \in SUBSET Chats : Close(cs)

LifeSpec == LifeInit /\ [][LifeNext]_lifeVars
===========================================================================
