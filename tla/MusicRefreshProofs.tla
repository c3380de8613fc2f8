------------------------ MODULE MusicRefreshProofs ------------------------
(* Safety of the Music refresher for any chats, presses and tracks.        *)
EXTENDS MusicRefresh, TLAPS

(* A handler is over when it has started its session, and only sessions    *)
(* that were started are cancelled.                                        *)
Started ==
  /\ \A u \in Updates : run[u] # "none" => pc[u] = "end"
  /\ \A s \in cancelled : run[s] # "none"

(* A runner ticks its own session; a handler that ticks has a session that *)
(* was started; and what Stop removed from the manager is not in it.       *)
Holding ==
  /\ \A s \in Sessions : sess[Runner(s)] = s
  /\ \A u \in Updates : sess[Caller(u)] # None => run[sess[Caller(u)]] # "none"
  /\ \A u \in Updates : ~At(Caller(u), "idle") => sess[Caller(u)] # None /\ pc[u] = "tick"
  /\ \A u \in Updates : pc[u] = "cancel" =>
       /\ sess[Caller(u)] # None
       /\ \A c \in Chats : active[c] # sess[Caller(u)]

Inv == TypeOK /\ Started /\ Holding /\ ActiveIsAlive

LEMMA InvInit == Init => Inv
<1> SUFFICES ASSUME Init PROVE Inv
  OBVIOUS
<1> USE DEF Init, Sessions, Sounds, AllButtons, Workers
<1>1. TypeOK
  <2>1. sess \in [Workers -> Sessions \cup {None}]
    OBVIOUS
  <2>2. 0 \in 0..(MaxAge + 1)
    BY MaxAgeAssumption
  <2> QED
    BY <2>1, <2>2 DEF TypeOK
<1>2. Started
  BY DEF Started
<1>3. Holding
  BY DEF Holding, Runner, Caller, At
<1>4. ActiveIsAlive
  BY DEF ActiveIsAlive
<1> QED
  BY <1>1, <1>2, <1>3, <1>4 DEF Inv

LEMMA WorkersDiffer ==
  ASSUME NEW s \in Updates, NEW u \in Updates
  PROVE  /\ Runner(s) \in Workers /\ Caller(u) \in Workers
         /\ Runner(s) # Caller(u)
         /\ Runner(s) = Runner(u) => s = u
         /\ Caller(s) = Caller(u) => s = u
BY DEF Workers, Runner, Caller

(* A tick reads the player and edits the message: no session starts or     *)
(* ends in it.                                                             *)
LEMMA TickIsLocal ==
  ASSUME NEW w \in Workers, Tick(w)
  PROVE  UNCHANGED <<active, run, cancelled, age, callVars, sess, playing, wired>>
BY DEF Tick, TickReads, TickSkips, SameTrack, NewTrack, ArtworkFetched,
       ArtworkFails, PhotoSwaps, SwapFails, TrackStored, CaptionEdited,
       TickUnchanged

LEMMA TickTypes ==
  ASSUME TypeOK, Holding, NEW w \in Workers, Tick(w), ~At(w, "idle") => sess[w] \in Sessions
  PROVE  TypeOK'
<1> USE DEF TypeOK, To, TickEnds, At
<1>1. UNCHANGED <<active, run, cancelled, age, callVars, sess, playing, wired>>
  BY TickIsLocal
<1>2. CASE TickReads(w)
  BY <1>1, <1>2 DEF TickReads, callVars
<1>3. CASE TickSkips(w) \/ CaptionEdited(w)
  BY <1>1, <1>3 DEF TickSkips, CaptionEdited, callVars, Sounds
<1>4. CASE SameTrack(w) \/ NewTrack(w) \/ ArtworkFetched(w) \/ ArtworkFails(w)
           \/ SwapFails(w)
  BY <1>1, <1>4 DEF SameTrack, NewTrack, ArtworkFetched, ArtworkFails,
                    SwapFails, callVars
<1>5. CASE PhotoSwaps(w)
  BY <1>1, <1>5 DEF PhotoSwaps, callVars
<1>6. CASE TrackStored(w)
  <2>1. \A t \in {np[w]} \cup (IF OtherStores(w) # {} \/ trackID[sess[w]] = Torn
                           THEN {Torn} ELSE {}) : t \in Sounds \cup {Torn}
    OBVIOUS
  <2> QED
    BY <1>1, <1>6, <2>1 DEF TrackStored, callVars, Sounds
<1> QED
  BY <1>2, <1>3, <1>4, <1>5, <1>6 DEF Tick

LEMMA TickHolds ==
  ASSUME Holding, NEW u \in Updates, NEW w \in {Runner(u), Caller(u)}
  PROVE  w \in Workers /\ (~At(w, "idle") => sess[w] # None)
BY WorkersDiffer, NoneAssumption DEF Holding, Sessions

LEMMA TypeStep == Inv /\ [Next]_vars => TypeOK'
<1> USE NoneAssumption, TracksAssumption, MaxAgeAssumption, ButtonsAssumption
<1> SUFFICES ASSUME Inv, [Next]_vars PROVE TypeOK'
  OBVIOUS
<1> USE WorkersDiffer DEF Inv, TypeOK, Goto, Sounds, Sessions, sessVars,
        callVars, tickVars
<1>1. ASSUME NEW u \in Updates, NEW b \in Buttons, Press(u, b) PROVE TypeOK'
  BY <1>1 DEF Press, AllButtons
<1>2. ASSUME NEW u \in Updates, OpenReads(u) PROVE TypeOK'
  BY <1>2 DEF OpenReads
<1>3. ASSUME NEW u \in Updates, OpenSends(u) PROVE TypeOK'
  BY <1>3 DEF OpenSends
<1>4. ASSUME NEW u \in Updates, OpenFails(u) PROVE TypeOK'
  BY <1>4 DEF OpenFails
<1>5. ASSUME NEW u \in Updates, Start(u) PROVE TypeOK'
  BY <1>5 DEF Start
<1>6. ASSUME NEW u \in Updates, RefreshAsks(u) PROVE TypeOK'
  BY <1>6 DEF RefreshAsks, AllButtons
<1>7. ASSUME NEW u \in Updates, VerbSucceeds(u) \/ VerbFails(u) PROVE TypeOK'
  BY <1>7 DEF VerbSucceeds, VerbFails
<1>8. ASSUME NEW u \in Updates, Refresh(u) PROVE TypeOK'
  BY <1>8 DEF Refresh
<1>9. ASSUME NEW u \in Updates, RefreshReturns(u) PROVE TypeOK'
  BY <1>9 DEF RefreshReturns
<1>10. ASSUME NEW u \in Updates, StopRemoves(u) PROVE TypeOK'
  BY <1>10 DEF StopRemoves
<1>11. ASSUME NEW u \in Updates, StopCancels(u) PROVE TypeOK'
  BY <1>11 DEF StopCancels, Holding
<1>12. ASSUME NEW s \in Updates, RunTicks(s) PROVE TypeOK'
  BY <1>12 DEF RunTicks
<1>13. ASSUME NEW s \in Updates, RunTicked(s) PROVE TypeOK'
  BY <1>13 DEF RunTicked
<1>14. ASSUME NEW s \in Updates, RunExits(s) PROVE TypeOK'
  BY <1>14 DEF RunExits, Evict
<1>15. ASSUME NEW u \in Updates, NEW w \in {Runner(u), Caller(u)}, Tick(w)
       PROVE  TypeOK'
  <2>1. w \in Workers /\ (~At(w, "idle") => sess[w] \in Sessions)
    BY TickHolds
  <2> QED
    BY <1>15, <2>1, TickTypes
<1>16. CASE SetBot
  BY <1>16 DEF SetBot
<1>17. CASE TrackChanges
  BY <1>17 DEF TrackChanges
<1>18. CASE TimePasses
  BY <1>18 DEF TimePasses
<1>19. CASE UNCHANGED vars
  BY <1>19 DEF vars
<1> QED
  BY <1>1, <1>2, <1>3, <1>4, <1>5, <1>6, <1>7, <1>8, <1>9, <1>10, <1>11,
     <1>12, <1>13, <1>14, <1>15, <1>16, <1>17, <1>18, <1>19
     DEF Next, Handler, Goroutine

(* What a step that leaves the sessions alone may not disturb. *)
LEMMA QuietStep ==
  ASSUME Inv, UNCHANGED <<active, run, cancelled, chat, sess>>,
         \A u \in Updates : /\ pc[u] = "end" => pc'[u] = "end"
                            /\ pc'[u] = "cancel" => pc[u] = "cancel",
         \A u \in Updates : ~At(Caller(u), "idle")' =>
            ~At(Caller(u), "idle") /\ pc'[u] = pc[u]
  PROVE  (Started /\ Holding /\ ActiveIsAlive)'
BY DEF Inv, Started, Holding, ActiveIsAlive, Running

LEMMA InvStep == Inv /\ [Next]_vars => Inv'
<1> USE NoneAssumption
<1> SUFFICES ASSUME Inv, [Next]_vars PROVE Inv'
  OBVIOUS
<1> DEFINE Rest == Started /\ Holding /\ ActiveIsAlive
<1>0. TypeOK'
  BY TypeStep
<1> USE WorkersDiffer
    DEF Inv, TypeOK, Goto, Sessions, sessVars, callVars, tickVars, At
<1>1. ASSUME NEW u \in Updates, NEW b \in Buttons, Press(u, b) PROVE Rest'
  <2>1. b # "cancel" /\ b # "end"
    BY ButtonsAssumption DEF AllButtons
  <2> QED
    BY <1>1, <2>1, QuietStep DEF Press, Holding
<1>2. ASSUME NEW u \in Updates,
             \/ OpenReads(u) \/ OpenSends(u) \/ OpenFails(u) \/ RefreshAsks(u)
             \/ VerbSucceeds(u) \/ VerbFails(u)
      PROVE  Rest'
  <2>1. /\ UNCHANGED <<active, run, cancelled, chat, sess, stage>>
        /\ pc[u] \in AllButtons \cup {"send"}
        /\ pc'[u] \notin {"cancel"}
        /\ \A v \in Updates \ {u} : pc'[v] = pc[v]
    BY <1>2 DEF OpenReads, OpenSends, OpenFails, RefreshAsks, VerbSucceeds,
                VerbFails, AllButtons
  <2> QED
    BY <2>1, QuietStep DEF Holding, AllButtons
<1>3. ASSUME NEW u \in Updates, Start(u) PROVE Rest'
  <2> DEFINE c == chat[u]
  <2>1. /\ pc[u] = "start" /\ pc' = [pc EXCEPT ![u] = "end"]
        /\ active' = [active EXCEPT ![c] = u]
        /\ run' = [run EXCEPT ![u] = "wait"]
        /\ cancelled' = cancelled \cup ({active[c]} \ {None})
        /\ UNCHANGED <<chat, stage, sess>>
    BY <1>3 DEF Start
  <2>2. run[u] = "none" /\ u \notin cancelled
    BY <2>1 DEF Started
  <2>3. \A d \in Chats : active[d] # u
    BY <2>2 DEF ActiveIsAlive, Running
  <2>4. Started'
    BY <2>1, <2>2 DEF Started, ActiveIsAlive, Running
  <2>5. Holding'
    BY <2>1, <2>2 DEF Holding
  <2>6. ActiveIsAlive'
    BY <2>1, <2>2, <2>3 DEF ActiveIsAlive, Running
  <2> QED
    BY <2>4, <2>5, <2>6
<1>4. ASSUME NEW u \in Updates, Refresh(u) PROVE Rest'
  BY <1>4 DEF Refresh, Started, Holding, ActiveIsAlive, Running
<1>5. ASSUME NEW u \in Updates, RefreshReturns(u) PROVE Rest'
  BY <1>5 DEF RefreshReturns, Started, Holding, ActiveIsAlive, Running
<1>6. ASSUME NEW u \in Updates, StopRemoves(u) PROVE Rest'
  <2> DEFINE s == active[chat[u]]
  <2>1. /\ pc[u] = "leave"
        /\ active' = [active EXCEPT ![chat[u]] = None]
        /\ sess' = [sess EXCEPT ![Caller(u)] = s]
        /\ pc' = [pc EXCEPT ![u] = IF s = None THEN "end" ELSE "cancel"]
        /\ UNCHANGED <<run, cancelled, chat, stage>>
    BY <1>6 DEF StopRemoves
  <2>2. s # None => Running(s) /\ chat[s] = chat[u]
    BY DEF ActiveIsAlive
  <2>3. Started' /\ ActiveIsAlive'
    BY <2>1 DEF Started, ActiveIsAlive, Running
  <2>4. \A c \in Chats : active'[c] # None => active'[c] # s
    BY <2>1, <2>2 DEF ActiveIsAlive
  <2>5. ASSUME NEW v \in Updates
        PROVE  /\ sess'[Caller(v)] # None => run'[sess'[Caller(v)]] # "none"
               /\ ~At(Caller(v), "idle")' => sess'[Caller(v)] # None /\ pc'[v] = "tick"
               /\ pc'[v] = "cancel" =>
                    /\ sess'[Caller(v)] # None
                    /\ \A c \in Chats : active'[c] # sess'[Caller(v)]
    <3>1. CASE v = u
      BY <2>1, <2>2, <2>4, <3>1 DEF Holding, Running
    <3>2. CASE v # u
      BY <2>1, <3>2 DEF Holding
    <3> QED
      BY <3>1, <3>2
  <2>6. \A v \in Sessions : sess'[Runner(v)] = v
    BY <2>1 DEF Holding
  <2> QED
    BY <2>3, <2>5, <2>6 DEF Holding
<1>7. ASSUME NEW u \in Updates, StopCancels(u) PROVE Rest'
  BY <1>7 DEF StopCancels, Started, Holding, ActiveIsAlive, Running
<1>8. ASSUME NEW s \in Updates, RunTicks(s) PROVE Rest'
  BY <1>8 DEF RunTicks, Started, Holding, ActiveIsAlive, Running
<1>9. ASSUME NEW s \in Updates, RunTicked(s) PROVE Rest'
  BY <1>9 DEF RunTicked, Started, Holding, ActiveIsAlive, Running
<1>10. ASSUME NEW s \in Updates, RunExits(s) PROVE Rest'
  BY <1>10 DEF RunExits, Evict, Started, Holding, ActiveIsAlive, Running
<1>11. ASSUME NEW u \in Updates, NEW w \in {Runner(u), Caller(u)}, Tick(w)
       PROVE  Rest'
  <2>1. w \in Workers
    OBVIOUS
  <2>2. UNCHANGED <<active, run, cancelled, callVars, sess>>
    BY <1>11, <2>1, TickIsLocal
  <2>3. stage[w] # "idle" /\ \A v \in Workers \ {w} : stage'[v] = stage[v]
    BY <1>11 DEF Tick, TickReads, TickSkips, SameTrack, NewTrack,
         ArtworkFetched, ArtworkFails, PhotoSwaps, SwapFails, TrackStored,
         CaptionEdited, To, TickEnds
  <2> QED
    BY <2>1, <2>2, <2>3, QuietStep
<1>12. ASSUME SetBot \/ TrackChanges \/ TimePasses \/ UNCHANGED vars
       PROVE  Rest'
  BY <1>12, QuietStep DEF SetBot, TrackChanges, TimePasses, vars
<1>13. Rest'
  BY <1>1, <1>2, <1>3, <1>4, <1>5, <1>6, <1>7, <1>8, <1>9, <1>10, <1>11, <1>12
     DEF Next, Handler, Goroutine
<1> QED
  BY <1>0, <1>13

LEMMA Invariant == Spec => []Inv
BY InvInit, InvStep, PTL DEF Spec

(* Every variable keeps its type. *)
THEOREM TypeCorrect == Spec => []TypeOK
<1>1. Inv => TypeOK
  BY DEF Inv
<1> QED
  BY <1>1, Invariant, PTL

(* The entry of a chat is a running session of that chat, never a dead one.*)
THEOREM ActiveSessionsAlive == Spec => []ActiveIsAlive
<1>1. Inv => ActiveIsAlive
  BY DEF Inv
<1> QED
  BY <1>1, Invariant, PTL
---------------------------------------------------------------------------
(* With care, a chat has one session at a time that runs, is being opened  *)
(* or may still be opened by a refresh; and a session that runs is the     *)
(* chat's entry, or cancelled, or about to be.                             *)
Busy(s) == Running(s) \/ Opening(s) \/ pc[s] = "refresh"

OneAtATime ==
  \A s, t \in Sessions :
    chat[s] \in Careful /\ Busy(s) /\ Busy(t) /\ chat[s] = chat[t] => s = t

Taken(s) == \E u \in Updates : pc[u] = "cancel" /\ sess[Caller(u)] = s

NoOrphan ==
  \A s \in Sessions : chat[s] \in Careful /\ Orphan(s) => Taken(s)

CarefulInv == OneAtATime /\ NoOrphan

(* A step that opens no session, ends none and forgets none keeps it. *)
LEMMA CarefulQuietStep ==
  ASSUME CarefulInv, UNCHANGED <<active, chat>>, cancelled \subseteq cancelled',
         \A s \in Sessions : Busy(s)' => Busy(s),
         \A s \in Sessions : Running(s)' => Running(s),
         \A u \in Updates : pc[u] = "cancel" =>
           \/ pc'[u] = "cancel" /\ sess'[Caller(u)] = sess[Caller(u)]
           \/ sess[Caller(u)] \in cancelled'
  PROVE  CarefulInv'
BY DEF CarefulInv, OneAtATime, NoOrphan, Taken, Orphan

LEMMA CarefulStep == Inv /\ Inv' /\ CarefulInv /\ [Next]_vars => CarefulInv'
<1> SUFFICES ASSUME Inv, Inv', CarefulInv, [Next]_vars PROVE CarefulInv'
  OBVIOUS
<1> USE WorkersDiffer, NoneAssumption
    DEF Inv, TypeOK, Goto, Sessions, sessVars, callVars, tickVars
<1> DEFINE Local == UNCHANGED <<active, run, cancelled, chat>>
<1>1. ASSUME NEW u \in Updates, NEW b \in Buttons, Press(u, b)
      PROVE  CarefulInv'
  <2>1. Local /\ UNCHANGED sess /\ pc[u] = "unsent"
        /\ pc' = [pc EXCEPT ![u] = b] /\ b \in AllButtons
    BY <1>1, ButtonsAssumption DEF Press
  <2>2. \A s \in Sessions : s # u => (Busy(s)' <=> Busy(s))
    BY <2>1 DEF Busy, Running, Opening
  <2>3. ASSUME NEW s \in Sessions, s # u, chat[u] \in Careful, Busy(s), Busy(u)'
        PROVE  chat[s] # chat[u]
    <3>1. b \in {"open", "refresh"}
      BY <2>1, <2>3 DEF Busy, Running, Opening, Started, AllButtons
    <3> QED
      BY <1>1, <2>3, <3>1 DEF Press, Busy
  <2>4. OneAtATime'
    BY <2>1, <2>2, <2>3 DEF CarefulInv, OneAtATime
  <2>5. NoOrphan'
    BY <2>1 DEF CarefulInv, NoOrphan, Taken, Orphan, Running
  <2> QED
    BY <2>4, <2>5 DEF CarefulInv
<1>2. ASSUME NEW u \in Updates,
             \/ OpenReads(u) \/ OpenSends(u) \/ OpenFails(u) \/ RefreshAsks(u)
             \/ VerbSucceeds(u) \/ VerbFails(u) \/ Refresh(u)
             \/ RefreshReturns(u)
      PROVE  CarefulInv'
  <2>1. /\ Local /\ pc[u] # "cancel"
        /\ \A v \in Updates \ {u} : pc'[v] = pc[v] /\ sess'[Caller(v)] = sess[Caller(v)]
    BY <1>2 DEF OpenReads, OpenSends, OpenFails, RefreshAsks, VerbSucceeds,
                VerbFails, Refresh, RefreshReturns
  <2>2. Busy(u)' => Busy(u)
    BY <1>2 DEF OpenReads, OpenSends, OpenFails, RefreshAsks, VerbSucceeds,
                VerbFails, Refresh, RefreshReturns, Busy, Opening, Running
  <2>3. \A s \in Sessions : Busy(s)' => Busy(s)
    BY <2>1, <2>2 DEF Busy, Opening, Running
  <2> QED
    BY <2>1, <2>3, CarefulQuietStep DEF Running
<1>3. ASSUME NEW u \in Updates, Start(u) PROVE CarefulInv'
  <2>1. /\ pc[u] = "start" /\ pc' = [pc EXCEPT ![u] = "end"]
        /\ active' = [active EXCEPT ![chat[u]] = u]
        /\ run' = [run EXCEPT ![u] = "wait"]
        /\ cancelled \subseteq cancelled'
        /\ UNCHANGED <<chat, sess>>
    BY <1>3 DEF Start
  <2>2. \A s \in Sessions : s # u => (Busy(s)' <=> Busy(s)) /\ (Running(s)' <=> Running(s))
    BY <2>1 DEF Busy, Running, Opening
  <2>3. Busy(u)
    BY <2>1 DEF Busy, Opening
  <2>4. OneAtATime'
    BY <2>1, <2>2, <2>3 DEF CarefulInv, OneAtATime
  <2>5. ASSUME NEW s \in Sessions, chat[s] \in Careful, Orphan(s)' PROVE Taken(s)'
    <3>1. s # u
      BY <2>1, <2>5 DEF Orphan
    <3>2. chat[s] # chat[u]
      BY <2>2, <2>3, <2>5, <3>1 DEF CarefulInv, OneAtATime, Orphan, Busy
    <3>3. Taken(s)
      BY <2>1, <2>2, <2>5, <3>1, <3>2 DEF CarefulInv, NoOrphan, Orphan
    <3> QED
      BY <2>1, <3>3 DEF Taken
  <2> QED
    BY <2>1, <2>4, <2>5 DEF CarefulInv, NoOrphan
<1>4. ASSUME NEW u \in Updates, StopRemoves(u) PROVE CarefulInv'
  <2>1. /\ pc[u] = "leave" /\ UNCHANGED <<run, cancelled, chat>>
        /\ active' = [active EXCEPT ![chat[u]] = None]
        /\ sess' = [sess EXCEPT ![Caller(u)] = active[chat[u]]]
        /\ pc' = [pc EXCEPT ![u] = IF active[chat[u]] = None THEN "end"
                                   ELSE "cancel"]
    BY <1>4 DEF StopRemoves
  <2>2. \A s \in Sessions : Busy(s)' => Busy(s)
    BY <2>1 DEF Busy, Running, Opening
  <2>3. OneAtATime'
    BY <2>1, <2>2 DEF CarefulInv, OneAtATime
  <2>4. ASSUME NEW s \in Sessions, chat[s] \in Careful, Orphan(s)' PROVE Taken(s)'
    <3>1. CASE active[chat[s]] = s
      <4>1. chat[s] = chat[u]
        BY <2>1, <2>4, <3>1 DEF Orphan
      <4> QED
        BY <2>1, <3>1, <4>1 DEF Taken
    <3>2. CASE active[chat[s]] # s
      <4>1. Taken(s)
        BY <2>1, <2>4, <3>2 DEF CarefulInv, NoOrphan, Orphan, Running
      <4> QED
        BY <2>1, <4>1 DEF Taken
    <3> QED
      BY <3>1, <3>2
  <2> QED
    BY <2>1, <2>3, <2>4 DEF CarefulInv, NoOrphan
<1>5. ASSUME NEW u \in Updates, StopCancels(u) PROVE CarefulInv'
  <2>1. /\ pc[u] = "cancel" /\ pc' = [pc EXCEPT ![u] = "end"]
        /\ cancelled' = cancelled \cup {sess[Caller(u)]}
        /\ sess' = [sess EXCEPT ![Caller(u)] = None]
        /\ UNCHANGED <<active, run, chat>>
    BY <1>5 DEF StopCancels
  <2>2. \A s \in Sessions : (Busy(s)' => Busy(s)) /\ (Running(s)' => Running(s))
    BY <2>1 DEF Busy, Running, Opening
  <2> QED
    BY <2>1, <2>2, CarefulQuietStep
<1>6. ASSUME NEW s \in Updates, RunTicks(s) \/ RunTicked(s)
      PROVE  CarefulInv'
  <2>1. /\ UNCHANGED <<active, cancelled, chat, pc, sess>>
        /\ \A t \in Sessions : Running(t)' <=> Running(t)
    BY <1>6 DEF RunTicks, RunTicked, Running
  <2> QED
    BY <2>1, CarefulQuietStep DEF Busy, Opening
<1>7. ASSUME NEW s \in Updates, RunExits(s) PROVE CarefulInv'
  <2>1. /\ run[s] = "wait" /\ run' = [run EXCEPT ![s] = "gone"]
        /\ active' = [active EXCEPT ![chat[s]] = None]
        /\ cancelled' = cancelled \cup {s}
        /\ UNCHANGED <<chat, pc, sess>>
    BY <1>7 DEF RunExits, Evict
  <2>2. \A t \in Sessions : (Busy(t)' => Busy(t)) /\ (Running(t)' => Running(t) /\ t # s)
    BY <2>1 DEF Busy, Running, Opening
  <2>3. OneAtATime'
    BY <2>1, <2>2 DEF CarefulInv, OneAtATime
  <2>4. ASSUME NEW t \in Sessions, chat[t] \in Careful, Orphan(t)' PROVE Taken(t)'
    <3>1. Running(t) /\ t # s /\ t \notin cancelled
      BY <2>1, <2>2, <2>4 DEF Orphan
    <3>2. chat[t] # chat[s]
      BY <2>1, <2>4, <3>1 DEF CarefulInv, OneAtATime, Busy, Running
    <3> QED
      BY <2>1, <2>4, <3>1, <3>2 DEF CarefulInv, NoOrphan, Orphan, Taken
  <2> QED
    BY <2>1, <2>3, <2>4 DEF CarefulInv, NoOrphan
<1>8. ASSUME NEW u \in Updates, NEW w \in {Runner(u), Caller(u)}, Tick(w)
      PROVE  CarefulInv'
  <2>1. w \in Workers
    OBVIOUS
  <2> QED
    BY <1>8, <2>1, TickIsLocal, CarefulQuietStep DEF Busy, Running, Opening
<1>9. ASSUME SetBot \/ TrackChanges \/ TimePasses \/ UNCHANGED vars
      PROVE  CarefulInv'
  <2>1. UNCHANGED <<active, run, cancelled, chat, pc, sess>>
    BY <1>9 DEF SetBot, TrackChanges, TimePasses, vars
  <2> QED
    BY <2>1, CarefulQuietStep DEF Busy, Running, Opening
<1> QED
  BY <1>1, <1>2, <1>3, <1>4, <1>5, <1>6, <1>7, <1>8, <1>9
     DEF Next, Handler, Goroutine

(* Reopened with care, no session is out of Stop's reach: the unguarded    *)
(* evict can only hurt a session opened while its predecessor still runs.  *)
THEOREM CarefulSessionsReachable == Spec => []CarefulNoOrphan
<1>1. Init => CarefulInv
  BY DEF Init, CarefulInv, OneAtATime, NoOrphan, Orphan, Busy, Running,
         Opening, Sessions
<1>2. Inv /\ CarefulInv => CarefulNoOrphan
  BY DEF CarefulInv, NoOrphan, Taken, CarefulNoOrphan
<1> QED
  BY <1>1, <1>2, CarefulStep, Invariant, PTL DEF Spec
===========================================================================
