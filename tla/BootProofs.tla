----------------------------- MODULE BootProofs ---------------------------
(* Theorems about the daemon's starts, for any users, tokens and commands. *)
EXTENDS Boot, SecretsProofs

(* The end of the daemon is an Exit of Secrets, or no step of it. *)
LEMMA DiesExits ==
  ASSUME TypeOK, Dies, UNCHANGED <<token, list, job, revoked>>
  PROVE  Exit \/ UNCHANGED vars
<1>1. daemon.step = "down" => daemon = Down
  BY DEF TypeOK
<1> QED
  BY <1>1 DEF Dies, Exit, vars

(* Every step of Boot is one of Secrets, or changes nothing of it. *)
LEMMA BootStep ==
  ASSUME TypeOK, [BootNext]_bootVars
  PROVE  [Next]_vars
<1>1. ASSUME NEW c \in Commands,
             \/ \E kind \in Kinds, u \in Users : Begins(c, kind, u)
             \/ Looks(c) \/ LooksInVain(c) \/ Answers(c) \/ Works(c)
             \/ StoresToken(c) \/ Stores(c)
      PROVE  Command(c)
  BY <1>1 DEF Begins, Looks, LooksInVain, Answers, Works, StoresToken, Stores,
     Command
<1>2. ASSUME NEW c \in Commands,
             \/ \E kind \in ServiceKinds : RunService(c, kind)
             \/ WritePlist(c) \/ Bootstrap(c) \/ RemovePlist(c) \/ StepFails(c)
      PROVE  UNCHANGED vars
  BY <1>2 DEF RunService, WritePlist, Bootstrap, RemovePlist, StepFails,
     secretVars, vars
<1>3. ASSUME NEW c \in Commands, Bootout(c)
      PROVE  Exit \/ UNCHANGED vars
  BY <1>3, DiesExits DEF Bootout, vars
<1>4. CASE Relogin \/ MissesList
  BY <1>4, DiesExits DEF Relogin, MissesList, Next
<1>5. CASE \E who \in {"agent", "hand"} : Starts(who)
  BY <1>5 DEF Starts, Next
<1>6. CASE Loads \/ Exits
  BY <1>6 DEF Loads, Exits, Next
<1>7. CASE MissesToken \/ Connects \/ Pings
  BY <1>7 DEF MissesToken, Connects, Pings, secretVars, vars
<1>8. CASE UNCHANGED bootVars
  BY <1>8 DEF bootVars, secretVars, vars
<1> QED
  BY <1>1, <1>2, <1>3, <1>4, <1>5, <1>6, <1>7, <1>8 DEF BootNext, Next

(* With the LaunchAgent around it, everything proved of Secrets holds.     *)
THEOREM BootUsesSecrets == BootSpec => Spec
<1>1. BootInit => Init /\ Inv
  BY InitInv DEF BootInit
<1>2. Inv /\ [BootNext]_bootVars => [Next]_vars /\ Inv'
  BY BootStep, NextInv DEF Inv
<1> QED
  BY <1>1, <1>2, PTL DEF BootSpec, Spec

(* What the steps do to revoked and late, and to what the daemon serves.   *)
LEMMA ServedStep ==
  ASSUME Inv, ServedUntilRestart, [BootNext]_bootVars
  PROVE  ServedUntilRestart'
<1>1. ASSUME daemon'.allowed \subseteq daemon.allowed,
             revoked' \ revoked \subseteq late', late \subseteq late'
      PROVE  ServedUntilRestart'
  BY <1>1 DEF ServedUntilRestart
<1>2. Down.allowed = {}
  BY DEF Down
<1>3. ASSUME NEW c \in Commands,
             \/ \E kind \in Kinds, u \in Users : Begins(c, kind, u)
             \/ Looks(c) \/ LooksInVain(c) \/ Answers(c) \/ Works(c)
             \/ StoresToken(c)
      PROVE  UNCHANGED <<daemon, revoked, late>>
  BY <1>3 DEF Begins, Looks, LooksInVain, Answers, Works, StoresToken,
     Invoke, Check, AnswerSetup, Fails, AnswerToken, ReadToken, CopyList,
     ReadToAdd, ReadToRemove, ClearToken, StoreToken
<1>4. ASSUME NEW c \in Commands, Stores(c)
      PROVE  UNCHANGED daemon /\ late' = late \cup (revoked' \ revoked)
  BY <1>4 DEF Stores, StoreList, ClearList
<1>5. ASSUME NEW c \in Commands,
             \/ \E kind \in ServiceKinds : RunService(c, kind)
             \/ WritePlist(c) \/ Bootstrap(c) \/ RemovePlist(c) \/ StepFails(c)
      PROVE  UNCHANGED <<daemon, revoked, late>>
  BY <1>5 DEF RunService, WritePlist, Bootstrap, RemovePlist, StepFails,
     secretVars
<1>6. ASSUME NEW c \in Commands, Bootout(c)
      PROVE  ServedUntilRestart'
  BY <1>1, <1>2, <1>6 DEF Bootout, Dies
<1>7. CASE Relogin \/ MissesList \/ Exits
  BY <1>1, <1>2, <1>7 DEF Relogin, MissesList, Exits, Exit, Dies
<1>8. CASE \E who \in {"agent", "hand"} : Starts(who)
  <2>1. daemon'.allowed = {} /\ UNCHANGED <<revoked, late>>
    BY <1>8 DEF Starts, LoadToken, Down
  <2> QED
    BY <1>1, <2>1
<1>idle. CASE Loads
  <2>1. daemon \in [step : {"loading", "up"}, token : Tokens, allowed : SUBSET Users]
    BY <1>idle DEF Inv, TypeOK, Loads, LoadList, Down
  <2>2. daemon'.allowed = Members(list) /\ UNCHANGED revoked
    BY <1>idle, <2>1 DEF Loads, LoadList
  <2> QED
    BY <2>2 DEF Inv, RevokedStayOut, ServedUntilRestart
<1>10. CASE MissesToken \/ Connects \/ Pings
  BY <1>1, <1>10 DEF MissesToken, Connects, Pings, secretVars
<1>11. CASE UNCHANGED bootVars
  BY <1>1, <1>11 DEF bootVars, secretVars
<1> QED
  BY <1>1, <1>3, <1>4, <1>5, <1>6, <1>7, <1>8, <1>idle, <1>10, <1>11 DEF BootNext

(* Whom the daemon serves although revoked was revoked while it ran.       *)
THEOREM RestartRevokes == BootSpec => []ServedUntilRestart
<1>1. BootInit => ServedUntilRestart
  BY DEF BootInit, Init, Down, ServedUntilRestart
<1> QED
  BY <1>1, BootUsesSecrets, InvHolds, ServedStep, PTL DEF BootSpec

(* A setup run alone that is past its look at the Keychain and has not     *)
(* stored its token knows of none, or could not look.                      *)
LookedOK(c) ==
  Is(c, "setup") /\ (At(c, "prompt") \/ At(c, "store token")) /\ token # NoItem
    => c \in unread

(* Its job and the token decide; what else may change is beside the point. *)
LEMMA LookedKept ==
  ASSUME NEW c, LookedOK(c), job'[c] = job[c], UNCHANGED token,
         c \in unread => c \in unread'
  PROVE  LookedOK(c)'
BY DEF LookedOK, Is, At

LEMMA LookedOwnStep ==
  ASSUME Inv, NEW c \in Alone, LookedOK(c),
         \/ \E kind \in Kinds, u \in Users : Begins(c, kind, u)
         \/ Looks(c) \/ LooksInVain(c) \/ Answers(c) \/ Works(c)
         \/ StoresToken(c) \/ Stores(c)
  PROVE  LookedOK(c)'
<1>1. job \in [Commands -> Jobs] /\ c \in Commands
  BY AloneAssumption DEF Inv, TypeOK, Jobs
<1>idle. ASSUME Ends(c)
      PROVE  LookedOK(c)'
  <2>1. job'[c].step = "idle"
    BY <1>1, <1>idle DEF Ends, Idle
  <2> QED
    BY <2>1 DEF LookedOK, At, Is
<1>2. ASSUME NEW kind \in Kinds, NEW u \in Users, Begins(c, kind, u)
      PROVE  LookedOK(c)'
  <2>1. job'[c] = [Idle EXCEPT !.step = First(kind), !.kind = kind, !.user = u]
    BY <1>1, <1>2 DEF Begins, Invoke
  <2>2. job'[c].kind = kind /\ job'[c].step = First(kind)
    BY <2>1 DEF Idle
  <2>3. kind = "setup" => First(kind) = "check"
    BY DEF First
  <2> QED
    BY <2>2, <2>3 DEF LookedOK, Is, At
<1>3. CASE Looks(c)
  BY <1>1, <1>3 DEF Looks, Check, Goto, Ends, Idle, Busy, At, LookedOK, Is
<1>4. CASE LooksInVain(c)
  BY <1>4 DEF LooksInVain, LookedOK
<1>5. CASE Answers(c)
  <2>1. PICK t \in Tokens, l \in Lists \ {{}} : AnswerSetup(c, t, l)
    BY <1>5 DEF Answers
  <2>2. job[c] \in Jobs
    BY <1>1
  <2>3. job'[c] = [job[c] EXCEPT !.step = "store token", !.token = t, !.list = l]
    BY <1>1, <2>1 DEF AnswerSetup
  <2>4. job'[c].kind = job[c].kind
    BY <2>2, <2>3 DEF Jobs
  <2>5. At(c, "prompt") /\ UNCHANGED <<token, unread>>
    BY <1>5, <2>1 DEF Answers, AnswerSetup
  <2> QED
    BY <2>4, <2>5 DEF LookedOK, Is
<1>6. CASE Works(c)
  <2>1. CASE Fails(c) \/ ClearToken(c)
    BY <1>idle, <2>1 DEF Fails, ClearToken
  <2>2. ASSUME \/ \E t \in Tokens : AnswerToken(c, t)
               \/ ReadToken(c) \/ CopyList(c)
        PROVE  ~Is(c, "setup")
    BY <1>1, <2>2 DEF AnswerToken, ReadToken, CopyList, Inv, StepOK, Is, At
  <2>3. ASSUME ReadToAdd(c) \/ ReadToRemove(c)
        PROVE  ~Is(c, "setup")
    BY <2>3 DEF ReadToAdd, ReadToRemove, Is
  <2>4. ASSUME \/ \E t \in Tokens : AnswerToken(c, t)
               \/ ReadToken(c) \/ CopyList(c) \/ ReadToAdd(c) \/ ReadToRemove(c)
        PROVE  job'[c].kind = job[c].kind \/ job'[c] = Idle
    <3>1. job[c] \in Jobs
      BY <1>1
    <3>2. \A x, y :
            /\ [job[c] EXCEPT !.step = x, !.token = y].kind = job[c].kind
            /\ [job[c] EXCEPT !.step = x, !.list = y].kind = job[c].kind
      BY <3>1 DEF Jobs
    <3>3. ASSUME NEW t, WillStoreToken(c, t)
          PROVE  job'[c].kind = job[c].kind
      <4>1. job'[c] = [job[c] EXCEPT !.step = "store token", !.token = t]
        BY <1>1, <3>3 DEF WillStoreToken
      <4> QED
        BY <3>2, <4>1
    <3>4. ASSUME NEW l, WillStoreList(c, l)
          PROVE  job'[c].kind = job[c].kind
      <4>1. job'[c] = [job[c] EXCEPT !.step = "store list", !.list = l]
        BY <1>1, <3>4 DEF WillStoreList
      <4> QED
        BY <3>2, <4>1
    <3>5. Ends(c) => job'[c] = Idle
      BY <1>1 DEF Ends
    <3> QED
      BY <2>4, <3>3, <3>4, <3>5 DEF AnswerToken, ReadToken, CopyList, ReadToAdd,
         ReadToRemove
  <2>5. Idle.step = "idle"
    BY DEF Idle
  <2> QED
    BY <1>6, <2>1, <2>2, <2>3, <2>4, <2>5 DEF Works, LookedOK, Is, At
<1>7. CASE StoresToken(c)
  <2>1. job'[c].step \in {"idle", "copy list", "store list"}
    <3>1. Goto(c, "copy list") \/ Goto(c, "store list") \/ Ends(c)
      BY <1>7 DEF StoresToken, StoreToken, Is
    <3>2. job[c] \in Jobs
      BY <1>1
    <3>3. \A x : [job[c] EXCEPT !.step = x].step = x
      BY <3>2 DEF Jobs
    <3>4. ASSUME NEW x, Goto(c, x)
          PROVE  job'[c].step = x
      BY <1>1, <3>3, <3>4 DEF Goto
    <3>5. Ends(c) => job'[c].step = "idle"
      BY <1>1 DEF Ends, Idle
    <3> QED
      BY <3>1, <3>4, <3>5
  <2> QED
    BY <2>1 DEF LookedOK, At, Is
<1>8. CASE Stores(c)
  BY <1>8, <1>idle DEF Stores, StoreList, ClearList
<1> QED
  BY <1>2, <1>3, <1>4, <1>5, <1>6, <1>7, <1>8

(* A step of another command leaves the job alone, and the token too, or   *)
(* else nothing of a setup was under way.                                  *)
LEMMA LookedOthersStep ==
  ASSUME Inv, NEW c \in Alone, LookedOK(c), NEW d \in Commands, d # c,
         \/ \E kind \in Kinds, u \in Users : Begins(d, kind, u)
         \/ Looks(d) \/ LooksInVain(d) \/ Answers(d) \/ Works(d)
         \/ StoresToken(d) \/ Stores(d)
  PROVE  LookedOK(c)'
<1>1. job'[c] = job[c]
  BY AloneAssumption DEF Begins, Looks, LooksInVain, Answers, Works, StoresToken,
     Stores, Invoke, Check, Goto, Ends, AnswerSetup, Fails, AnswerToken,
     ReadToken, CopyList, ReadToAdd, ReadToRemove, ClearToken, StoreToken,
     StoreList, ClearList, WillStoreToken, WillStoreList, Inv, TypeOK
<1>2. c \in unread => c \in unread'
  BY DEF Begins, Looks, LooksInVain, Answers, Works, StoresToken, Stores
<1>3. CASE Busy(c)
  <2>1. ~Busy(d)
    BY <1>3 DEF Inv, AloneOK
  <2>2. UNCHANGED token
    BY <2>1 DEF Begins, Looks, LooksInVain, Answers, Works, StoresToken, Stores,
       Invoke, Check, AnswerSetup, Fails, AnswerToken, ReadToken, CopyList,
       ReadToAdd, ReadToRemove, ClearToken, StoreToken, StoreList, ClearList,
       Busy, At
  <2> QED
    BY <1>1, <1>2, <2>2, LookedKept
<1>4. CASE ~Busy(c)
  BY <1>1, <1>4 DEF LookedOK, Busy, At
<1> QED
  BY <1>3, <1>4

LEMMA LookedStep ==
  ASSUME Inv, [BootNext]_bootVars, NEW c \in Alone, LookedOK(c)
  PROVE  LookedOK(c)'
<1>1. ASSUME NEW d \in Commands,
             \/ \E kind \in Kinds, u \in Users : Begins(d, kind, u)
             \/ Looks(d) \/ LooksInVain(d) \/ Answers(d) \/ Works(d)
             \/ StoresToken(d) \/ Stores(d)
      PROVE  LookedOK(c)'
  BY <1>1, LookedOwnStep, LookedOthersStep
<1>2. ASSUME NEW d \in Commands,
             \/ \E kind \in ServiceKinds : RunService(d, kind)
             \/ WritePlist(d) \/ Bootstrap(d) \/ Bootout(d) \/ RemovePlist(d)
             \/ StepFails(d)
      PROVE  UNCHANGED <<token, job, unread>>
  BY <1>2 DEF RunService, WritePlist, Bootstrap, Bootout, RemovePlist,
     StepFails, secretVars
<1>3. CASE \/ Relogin \/ Loads \/ MissesToken \/ MissesList \/ Connects
           \/ Pings \/ Exits \/ UNCHANGED bootVars
           \/ \E who \in {"agent", "hand"} : Starts(who)
  <2>1. UNCHANGED <<token, job, unread>>
    BY <1>3 DEF Relogin, Loads, LoadList, MissesToken, MissesList, Connects,
       Pings, Exits, Exit, Starts, LoadToken, bootVars, secretVars
  <2> QED
    BY <2>1, LookedKept
<1> QED
  BY <1>1, <1>2, <1>3, LookedKept DEF BootNext

(* A setup without --reconfigure that nothing disturbs replaces no token,  *)
(* unless its own look for one failed.                                     *)
THEOREM UndisturbedSetupSpares == BootSpec => SetupSparesTheToken
<1> DEFINE Looked == \A c \in Alone : LookedOK(c)
           Spares == \A c \in Alone :
             StoreToken(c) /\ Is(c, "setup") /\ token # NoItem => c \in unread
<1>1. BootInit => Looked
  <2> SUFFICES ASSUME BootInit, NEW c \in Alone PROVE LookedOK(c)
    OBVIOUS
  <2>1. job[c] = Idle
    BY AloneAssumption DEF BootInit, Init
  <2> QED
    BY <2>1 DEF LookedOK, At, Idle
<1>2. Inv /\ Looked /\ [BootNext]_bootVars => Looked'
  BY LookedStep
<1>3. Looked => [Spares]_bootVars
  BY DEF LookedOK, StoreToken
<1> QED
  BY <1>1, <1>2, <1>3, BootUsesSecrets, InvHolds, PTL
     DEF BootSpec, SetupSparesTheToken

---------------------------------------------------------------------------
Ready == token # NoItem /\ list # NoItem

Procs == [by : {"none", "agent", "hand"}, bot : BOOLEAN,
          ping : {"none", "waiting", "wired", "gave up"}]

(* On a pristine machine only setups are at work, and the agent comes into *)
(* being when both items are there, which no setup takes away.             *)
PristineOK ==
  pristine =>
    /\ ~missed
    /\ \A c \in Commands : Busy(c) => job[c].kind \in Setups
    /\ \A c \in Commands : At(c, "store list") => token # NoItem
    /\ plist \/ loaded \/ (\E c \in Commands : todo[c] # <<>>) => Ready
    /\ proc \in Procs
    /\ proc.by = "agent" => Ready

(* What a step of a command that is at work does to the jobs. *)
LEMMA JobsStep ==
  ASSUME Inv, NEW c \in Commands,
         \/ Looks(c) \/ LooksInVain(c) \/ Answers(c) \/ Works(c)
         \/ StoresToken(c) \/ Stores(c)
  PROVE  /\ Busy(c)
         /\ \A d \in Commands \ {c} : job'[d] = job[d]
         /\ \/ job'[c].step = "idle"
            \/ /\ job'[c].kind = job[c].kind
               /\ job'[c].step = "store list" =>
                    StoreToken(c) \/ job[c].kind \in {"token reauth", "add", "remove"}
<1> DEFINE Moves(step) == job'[c].kind = job[c].kind /\ job'[c].step = step
<1>1. job \in [Commands -> Jobs] /\ job[c] \in Jobs
  BY DEF Inv, TypeOK, Jobs
<1>2. \A x, y, z :
        LET r == job[c] IN
        /\ [r EXCEPT !.step = x].kind = r.kind /\ [r EXCEPT !.step = x].step = x
        /\ [r EXCEPT !.step = x, !.token = y].kind = r.kind
        /\ [r EXCEPT !.step = x, !.token = y].step = x
        /\ [r EXCEPT !.step = x, !.list = y].kind = r.kind
        /\ [r EXCEPT !.step = x, !.list = y].step = x
        /\ [r EXCEPT !.step = x, !.token = y, !.list = z].kind = r.kind
        /\ [r EXCEPT !.step = x, !.token = y, !.list = z].step = x
  BY <1>1 DEF Jobs
<1> DEFINE Others == \A d \in Commands \ {c} : job'[d] = job[d]
<1>3. ASSUME NEW x, Goto(c, x) PROVE Moves(x) /\ Others
  BY <1>1, <1>2, <1>3 DEF Goto
<1>4. ASSUME NEW t, WillStoreToken(c, t) PROVE Moves("store token") /\ Others
  <2>1. job'[c] = [job[c] EXCEPT !.step = "store token", !.token = t] /\ Others
    BY <1>1, <1>4 DEF WillStoreToken
  <2> QED
    BY <1>2, <2>1
<1>5. ASSUME NEW l, WillStoreList(c, l) PROVE Moves("store list") /\ Others
  <2>1. job'[c] = [job[c] EXCEPT !.step = "store list", !.list = l] /\ Others
    BY <1>1, <1>5 DEF WillStoreList
  <2> QED
    BY <1>2, <2>1
<1>6. ASSUME NEW t, NEW l, AnswerSetup(c, t, l) PROVE Moves("store token") /\ Others
  <2>1. job'[c] = [job[c] EXCEPT !.step = "store token", !.token = t, !.list = l]
        /\ Others
    BY <1>1, <1>6 DEF AnswerSetup
  <2> QED
    BY <1>2, <2>1
<1>7. Ends(c) => job'[c].step = "idle" /\ Others
  BY <1>1 DEF Ends, Idle
<1>8. CASE Looks(c) \/ LooksInVain(c)
  <2>1. Check(c)
    BY <1>8 DEF Looks, LooksInVain
  <2>2. Goto(c, "prompt") \/ Ends(c)
    BY <2>1 DEF Check
  <2>3. Busy(c)
    BY <2>1 DEF Check, At, Busy
  <2>4. Goto(c, "prompt") => Moves("prompt") /\ Others
    BY <1>3
  <2> QED
    BY <1>7, <2>2, <2>3, <2>4
<1>9. CASE Answers(c)
  BY <1>6, <1>9 DEF Answers, AnswerSetup, At, Busy
<1>10. CASE Works(c)
  <2>1. CASE Fails(c) \/ ClearToken(c)
    BY <1>7, <2>1 DEF Fails, ClearToken, At, Busy
  <2>2. CASE ReadToken(c) \/ \E t \in Tokens : AnswerToken(c, t)
    BY <1>4, <2>2 DEF ReadToken, AnswerToken, At, Busy
  <2>3. CASE CopyList(c)
    <3>1. Is(c, "token reauth") /\ Busy(c)
      BY <2>3 DEF CopyList, Inv, StepOK, At, Busy
    <3>2. Ends(c) \/ WillStoreList(c, list)
      BY <2>3 DEF CopyList
    <3> QED
      BY <1>5, <1>7, <3>1, <3>2 DEF Is
  <2>4. CASE ReadToAdd(c) \/ ReadToRemove(c)
    <3>1. job[c].kind \in {"add", "remove"} /\ Busy(c)
      BY <2>4 DEF ReadToAdd, ReadToRemove, Is, At, Busy
    <3>2. Ends(c) \/ \E l : WillStoreList(c, l)
      BY <2>4 DEF ReadToAdd, ReadToRemove
    <3> QED
      BY <1>5, <1>7, <3>1, <3>2
  <2> QED
    BY <1>10, <2>1, <2>2, <2>3, <2>4 DEF Works
<1>11. CASE StoresToken(c)
  <2>1. StoreToken(c)
    BY <1>11 DEF StoresToken
  <2>2. Goto(c, "copy list") \/ Goto(c, "store list") \/ Ends(c)
    BY <2>1 DEF StoreToken, Is
  <2>3. Busy(c)
    BY <2>1 DEF StoreToken, At, Busy
  <2> QED
    BY <1>3, <1>7, <2>1, <2>2, <2>3
<1>12. CASE Stores(c)
  BY <1>7, <1>12 DEF Stores, StoreList, ClearList, At, Busy
<1> QED
  BY <1>8, <1>9, <1>10, <1>11, <1>12

(* On a pristine machine a command takes away neither item. *)
LEMMA ItemsStay ==
  ASSUME Inv, PristineOK, pristine, NEW c \in Commands,
         \/ Looks(c) \/ LooksInVain(c) \/ Answers(c) \/ Works(c)
         \/ StoresToken(c) \/ Stores(c)
  PROVE  /\ token # NoItem => token' # NoItem
         /\ list # NoItem => list' # NoItem
         /\ StoreToken(c) => token' # NoItem
         /\ Stores(c) => Ready'
<1>1. Busy(c) /\ job[c].kind \in Setups
  BY JobsStep DEF PristineOK
<1>2. NoItem \notin Tokens /\ NoItem \notin Lists
  BY ItemAssumption DEF Lists
<1>3. StoreToken(c) => token' \in Tokens
  BY DEF StoreToken, Inv, StepOK
<1>4. StoreList(c) => list' \in Lists /\ token # NoItem /\ UNCHANGED token
  BY DEF StoreList, Inv, StepOK, PristineOK
<1>5. ~ClearToken(c) /\ ~ClearList(c)
  BY <1>1 DEF ClearToken, ClearList, Is, Setups
<1>6. ~StoreToken(c) => UNCHANGED token
  BY <1>4, <1>5 DEF Looks, LooksInVain, Answers, Works, StoresToken, Stores, Check,
     AnswerSetup, Fails, AnswerToken, ReadToken, CopyList, ReadToAdd, ReadToRemove
<1>7. ~StoreList(c) => UNCHANGED list
  BY <1>5 DEF Looks, LooksInVain, Answers, Works, StoresToken, Stores, Check,
     AnswerSetup, Fails, AnswerToken, ReadToken, CopyList, ReadToAdd,
     ReadToRemove, StoreToken
<1>8. Stores(c) => StoreList(c)
  BY <1>5 DEF Stores
<1> QED
  BY <1>2, <1>3, <1>4, <1>6, <1>7, <1>8 DEF Ready

LEMMA PristineCommand ==
  ASSUME Inv, PristineOK, NEW c \in Commands,
         \/ Looks(c) \/ LooksInVain(c) \/ Answers(c) \/ Works(c)
         \/ StoresToken(c) \/ Stores(c)
  PROVE  PristineOK'
<1> SUFFICES ASSUME pristine' PROVE PristineOK'
  BY DEF PristineOK
<1>1. pristine /\ UNCHANGED <<plist, loaded, proc, missed>>
  BY DEF Looks, LooksInVain, Answers, Works, StoresToken, Stores, agentVars
<1>2. UNCHANGED todo \/ Stores(c)
  BY DEF Looks, LooksInVain, Answers, Works, StoresToken, agentVars
<1>3. Ready => Ready'
  BY <1>1, ItemsStay DEF Ready
<1>4. Stores(c) => Ready'
  BY <1>1, ItemsStay
<1>5. ASSUME NEW d \in Commands, Busy(d)'
      PROVE  job'[d].kind \in Setups
  BY <1>1, <1>5, JobsStep DEF PristineOK, Busy, At
<1>6. ASSUME NEW d \in Commands, At(d, "store list")'
      PROVE  token' # NoItem
  <2>1. CASE d = c
    <3>1. Busy(c) /\ job[c].kind \in Setups
      BY <1>1, JobsStep DEF PristineOK
    <3>2. job'[c].step = "store list"
      BY <1>6, <2>1 DEF At
    <3>3. StoreToken(c)
      BY <3>1, <3>2, JobsStep DEF Setups
    <3> QED
      BY <1>1, <3>3, ItemsStay
  <2>2. CASE d # c
    <3>1. job'[d] = job[d]
      BY <2>2, JobsStep
    <3>2. token # NoItem
      BY <1>1, <1>6, <3>1 DEF PristineOK, At
    <3> QED
      BY <1>1, <3>2, ItemsStay
  <2> QED
    BY <2>1, <2>2
<1>7. plist' \/ loaded' \/ (\E d \in Commands : todo'[d] # <<>>) => Ready'
  BY <1>1, <1>2, <1>3, <1>4 DEF PristineOK
<1> QED
  BY <1>1, <1>3, <1>5, <1>6, <1>7 DEF PristineOK

LEMMA PristineBegins ==
  ASSUME Inv, PristineOK, NEW c \in Commands, NEW kind \in Kinds, NEW u \in Users,
         Begins(c, kind, u)
  PROVE  PristineOK'
<1> SUFFICES ASSUME pristine' PROVE PristineOK'
  BY DEF PristineOK
<1>1. /\ pristine /\ kind \in Setups
      /\ UNCHANGED <<token, list, plist, loaded, todo, proc, missed>>
  BY DEF Begins, Undisturbed, Invoke, agentVars, Setups
<1>2. job \in [Commands -> Jobs]
  BY DEF Inv, TypeOK, Jobs
<1>3. /\ job'[c] = [Idle EXCEPT !.step = First(kind), !.kind = kind, !.user = u]
      /\ \A d \in Commands \ {c} : job'[d] = job[d]
  BY <1>2 DEF Begins, Invoke
<1>4. job'[c].kind = kind /\ job'[c].step \in {"check", "prompt"}
  <2>1. First(kind) \in {"check", "prompt"}
    BY <1>1 DEF First, Setups
  <2> QED
    BY <1>3, <2>1 DEF Idle
<1>5. \A d \in Commands : Busy(d)' => job'[d].kind \in Setups
  BY <1>1, <1>3, <1>4 DEF PristineOK, Busy, At
<1>6. \A d \in Commands : At(d, "store list")' => token' # NoItem
  BY <1>1, <1>3, <1>4 DEF PristineOK, At
<1> QED
  BY <1>1, <1>5, <1>6 DEF PristineOK, Ready

LEMMA PristineStep ==
  ASSUME Inv, PristineOK, [BootNext]_bootVars
  PROVE  PristineOK'
<1>1. ASSUME UNCHANGED <<token, list, job>>,
             pristine' => pristine /\ (~missed => ~missed'),
             pristine' /\ (plist' \/ loaded' \/ \E c \in Commands : todo'[c] # <<>>)
               => Ready,
             pristine' => proc' \in Procs,
             pristine' /\ proc'.by = "agent" => Ready
      PROVE  PristineOK'
  BY <1>1 DEF PristineOK, Ready, Busy, At
<1>2. ASSUME NEW c \in Commands, NEW kind \in ServiceKinds, RunService(c, kind)
      PROVE  PristineOK'
  BY <1>2 DEF RunService, PristineOK
<1>3. ASSUME NEW c \in Commands,
             WritePlist(c) \/ Bootstrap(c) \/ Bootout(c) \/ RemovePlist(c) \/ StepFails(c)
      PROVE  PristineOK'
  <2>1. pristine' = pristine /\ missed' = missed /\ UNCHANGED <<token, list, job>>
    BY <1>3 DEF WritePlist, Bootstrap, Bootout, RemovePlist, StepFails, secretVars
  <2>2. pristine => Ready
    BY <1>3 DEF WritePlist, Bootstrap, Bootout, RemovePlist, StepFails, Comes,
       PristineOK
  <2>3. proc' = proc \/ proc' = NoProc
    BY <1>3 DEF WritePlist, Bootstrap, Bootout, RemovePlist, StepFails, Dies
  <2>4. pristine => proc' \in Procs
    <3>1. NoProc \in Procs
      BY DEF NoProc, Procs
    <3> QED
      BY <2>3, <3>1 DEF PristineOK
  <2> QED
    BY <1>1, <2>1, <2>2, <2>4
<1>4. CASE Relogin \/ Exits
  <2>1. /\ UNCHANGED <<token, list, job, pristine, missed, plist, todo>>
        /\ loaded' = plist \/ UNCHANGED loaded
        /\ proc' = NoProc
    BY <1>4 DEF Relogin, Exits, Exit, Dies, agentVars
  <2>2. proc' \in Procs /\ proc'.by = "none"
    BY <2>1 DEF NoProc, Procs
  <2> QED
    BY <1>1, <2>1, <2>2 DEF PristineOK
<1>5. ASSUME NEW who \in {"agent", "hand"}, Starts(who)
      PROVE  PristineOK'
  <2>1. /\ UNCHANGED <<token, list, job, pristine, missed, plist, loaded, todo>>
        /\ proc' \in Procs /\ proc'.by = who /\ (who = "agent" => loaded)
    BY <1>5 DEF Starts, LoadToken, agentVars, NoProc, Procs
  <2> QED
    BY <1>1, <2>1 DEF PristineOK
<1>6. CASE MissesToken
  <2>1. pristine => Ready
    BY <1>6 DEF MissesToken, PristineOK
  <2>2. ~pristine'
    BY <1>6, <2>1 DEF MissesToken, Ready
  <2> QED
    BY <2>2 DEF PristineOK
<1>7. CASE MissesList
  <2>1. pristine => proc.by # "agent"
    BY <1>7 DEF MissesList, PristineOK, Ready
  <2>2. /\ UNCHANGED <<token, list, job, pristine, plist, loaded, todo>>
        /\ proc' = NoProc /\ (proc.by # "agent" /\ ~missed => ~missed')
    BY <1>7 DEF MissesList, Dies, agentVars
  <2>3. proc' \in Procs /\ proc'.by = "none"
    BY <2>2 DEF NoProc, Procs
  <2> QED
    BY <1>1, <2>1, <2>2, <2>3 DEF PristineOK
<1>8. ASSUME proc \in Procs => proc' \in Procs /\ proc'.by = proc.by,
             UNCHANGED <<token, list, job, pristine, missed, plist, loaded, todo>>
      PROVE  PristineOK'
  BY <1>1, <1>8 DEF PristineOK
<1>9. CASE Loads \/ Connects \/ Pings
  <2>1. UNCHANGED <<token, list, job, pristine, missed, plist, loaded, todo>>
    BY <1>9 DEF Loads, LoadList, Connects, Pings, secretVars, agentVars
  <2>2. ASSUME proc \in Procs PROVE proc' \in Procs /\ proc'.by = proc.by
    <3>1. CASE Loads
      BY <2>2, <3>1 DEF Loads, Procs
    <3>2. CASE Connects
      BY <2>2, <3>2 DEF Connects, Procs
    <3>3. CASE Pings
      BY <2>2, <3>3 DEF Pings, Procs
    <3> QED
      BY <1>9, <3>1, <3>2, <3>3
  <2> QED
    BY <1>8, <2>1, <2>2
<1>10. CASE UNCHANGED bootVars
  BY <1>8, <1>10 DEF bootVars, secretVars, agentVars
<1> QED
  BY <1>2, <1>3, <1>4, <1>5, <1>6, <1>7, <1>9, <1>10, PristineCommand,
     PristineBegins DEF BootNext

(* On a machine that only undisturbed setups have touched, the agent's     *)
(* daemon finds both items whenever it starts.                             *)
THEOREM AgentComesLast == BootSpec => []AgentFindsItsItems
<1>1. BootInit => PristineOK
  <2> SUFFICES ASSUME BootInit, pristine PROVE PristineOK
    BY DEF PristineOK
  <2>1. ~plist /\ ~loaded /\ ~missed /\ proc \in Procs /\ proc.by = "none"
    BY DEF BootInit, NoProc, Procs
  <2>2. \A c \in Commands : todo[c] = <<>> /\ job[c] = Idle
    BY DEF BootInit, Init
  <2>3. Idle.step = "idle"
    BY DEF Idle
  <2>4. \A c \in Commands : ~Busy(c) /\ ~At(c, "store list")
    BY <2>2, <2>3 DEF Busy, At
  <2> QED
    BY <2>1, <2>2, <2>4 DEF PristineOK
<1>2. PristineOK => AgentFindsItsItems
  BY DEF PristineOK, AgentFindsItsItems
<1> QED
  BY <1>1, <1>2, BootUsesSecrets, InvHolds, PristineStep, PTL DEF BootSpec
===========================================================================
