------------------------ MODULE FlowDispatchProofs ------------------------
(* Safety of the registry and of the flow dispatcher, for any number of    *)
(* updates and chats, any flows and any janitor period.                    *)
EXTENDS FlowDispatch, TLAPS

(* The registry keeps its types and evicts in time. *)
(* Every call of the registry, and the clock, keeps the types. *)
THEOREM RegTypeCorrect == RegSpec => []RegTypeOK
<1> USE NoFlowAssumption, SweepEveryAssumption
<1>1. RegInit => RegTypeOK
  BY DEF RegInit, RegTypeOK
<1>2. RegTypeOK /\ [RegNext]_regVars => RegTypeOK'
  <2> SUFFICES ASSUME RegTypeOK, [RegNext]_regVars PROVE RegTypeOK'
    OBVIOUS
  <2> USE DEF RegTypeOK
  <2>1. ASSUME NEW c \in Chats, NEW f \in Updates, Install(c, f)
        PROVE  RegTypeOK'
    BY <2>1 DEF Install
  <2>2. ASSUME NEW c \in Chats, ActiveHit(c) PROVE RegTypeOK'
    BY <2>2 DEF ActiveHit
  <2>3. ASSUME NEW c \in Chats, ActiveMiss(c) PROVE RegTypeOK'
    BY <2>3 DEF ActiveMiss, Vacate
  <2>4. ASSUME NEW c \in Chats, Cancel(c) PROVE RegTypeOK'
    BY <2>4 DEF Cancel, Vacate
  <2>5. CASE Sweep
    BY <2>5 DEF Sweep, Vacate
  <2>6. CASE Pass
    BY <2>6 DEF Pass
  <2>7. CASE UNCHANGED regVars
    BY <2>7 DEF regVars
  <2> QED
    BY <2>1, <2>2, <2>3, <2>4, <2>5, <2>6, <2>7 DEF RegNext
<1> QED
  BY <1>1, <1>2, PTL DEF RegSpec

(* An unused flow leaves its slot within one and a half ttl.  The bound is *)
(* not inductive; IdleInv is: an entry ages exactly as fast as the next    *)
(* sweep draws near, and a sweep leaves no entry older than a ttl.         *)
THEOREM EvictedInTime == RegSpec => []IdleBound
<1> USE NoFlowAssumption, SweepEveryAssumption
<1>1. RegInit => IdleInv
  BY DEF RegInit, IdleInv
<1>2. RegTypeOK /\ IdleInv /\ [RegNext]_regVars => IdleInv'
  <2> SUFFICES ASSUME RegTypeOK, IdleInv, [RegNext]_regVars PROVE IdleInv'
    OBVIOUS
  <2> USE DEF RegTypeOK, IdleInv, TTL
  <2>1. ASSUME NEW c \in Chats, NEW f \in Updates, Install(c, f)
        PROVE  IdleInv'
    BY <2>1 DEF Install
  <2>2. ASSUME NEW c \in Chats, ActiveHit(c) PROVE IdleInv'
    BY <2>2 DEF ActiveHit
  <2>3. ASSUME NEW c \in Chats, ActiveMiss(c) PROVE IdleInv'
    BY <2>3 DEF ActiveMiss, Vacate
  <2>4. ASSUME NEW c \in Chats, Cancel(c) PROVE IdleInv'
    BY <2>4 DEF Cancel, Vacate
  <2>5. CASE Sweep
    BY <2>5 DEF Sweep, Vacate, Expired
  <2>6. CASE Pass
    BY <2>6 DEF Pass
  <2>7. CASE UNCHANGED regVars
    BY <2>7 DEF regVars
  <2> QED
    BY <2>1, <2>2, <2>3, <2>4, <2>5, <2>6, <2>7 DEF RegNext
<1>3. RegTypeOK /\ IdleInv => IdleBound
  BY DEF RegTypeOK, IdleInv, IdleBound, TTL
<1> QED
  BY <1>1, <1>2, <1>3, RegTypeCorrect, PTL DEF RegSpec
---------------------------------------------------------------------------
(* The dispatcher. *)

(* What an update's goroutine holds at each stage. *)
Goroutine(u) ==
  /\ pc[u] \in {"unsent", "received"} => flow[u] = NoFlow /\ ~done[u]
  /\ pc[u] \in {"handle", "store", "service", "stuck", "finish"} =>
       /\ kind[u] \in Texts
       /\ flow[u] # NoFlow
       /\ done[u] <=> pc[u] = "finish"
  /\ done[u] => kind[u] \in Texts /\ flow[u] # NoFlow
  /\ flow[u] = u => kind[u] \in Taps

Goroutines == \A u \in Updates : Goroutine(u)

(* The slot of a chat holds a flow that was opened there. *)
LiveOpened ==
  \A c \in Chats : live[c] # NoFlow => flow[live[c]] = live[c] /\ chat[live[c]] = c

Inv ==
  /\ TypeOK
  /\ Goroutines
  /\ LiveOpened
  /\ OwnChat
  /\ AnsweredIsClosed

(* Types alone are not inductive: Handle reads the fields of a flow that   *)
(* was found.                                                              *)
LEMMA TypeStep == TypeOK /\ Goroutines /\ [Next]_vars => TypeOK'
<1> USE NoFlowAssumption, SweepEveryAssumption, TornAssumption
<1> SUFFICES ASSUME TypeOK, Goroutines, [Next]_vars PROVE TypeOK'
  OBVIOUS
<1> USE DEF TypeOK, RegTypeOK, Stages, Kinds, Strings, Goto, fieldVars, regVars
<1>1. ASSUME NEW u \in Updates, NEW k \in Kinds, Receive(u, k) PROVE TypeOK'
  BY <1>1 DEF Receive
<1>2. ASSUME NEW u \in Updates, OpenFlow(u) PROVE TypeOK'
  BY <1>2 DEF OpenFlow, Install
<1>3. ASSUME NEW u \in Updates, CancelFlow(u) PROVE TypeOK'
  BY <1>3 DEF CancelFlow, Cancel, Vacate
<1>4. ASSUME NEW u \in Updates, FindFlow(u) PROVE TypeOK'
  BY <1>4 DEF FindFlow, ActiveHit
<1>5. ASSUME NEW u \in Updates, IgnoreText(u) PROVE TypeOK'
  BY <1>5 DEF IgnoreText, ActiveMiss, Vacate
<1>6. ASSUME NEW u \in Updates, HandleAnswer(u) \/ HandleSSID(u) \/ SendReply(u)
      PROVE  TypeOK'
  BY <1>6 DEF HandleAnswer, HandleSSID, SendReply
<1>7. ASSUME NEW u \in Updates, StoreSSID(u) PROVE TypeOK'
  <2>1. \A s \in {u} \cup (IF Storing(flow[u]) # {u} \/ ssid[flow[u]] = Torn
                          THEN {Torn} ELSE {}) : s \in Strings
    OBVIOUS
  <2> QED
    BY <1>7, <2>1 DEF StoreSSID
<1>8. ASSUME NEW u \in Updates, HandlePassword(u) PROVE TypeOK'
  <2>1. flow[u] \in Updates
    BY <1>8 DEF HandlePassword, Goroutines, Goroutine
  <2>2. SeesSSID(flow[u]) \subseteq Strings
    BY <2>1 DEF SeesSSID, Storing
  <2> QED
    BY <1>8, <2>2 DEF HandlePassword
<1>9. ASSUME NEW u \in Updates,
             ServiceReturns(u) \/ ServiceSticks(u) \/ ServiceLetsGo(u)
      PROVE  TypeOK'
  BY <1>9 DEF ServiceReturns, ServiceSticks, ServiceLetsGo
<1>10. ASSUME NEW u \in Updates, FinishFlow(u) PROVE TypeOK'
  BY <1>10 DEF FinishFlow, Finish, Cancel, Vacate
<1>11. CASE JanitorSweeps
  BY <1>11 DEF JanitorSweeps, Sweep, Vacate, goVars
<1>12. CASE TimePasses
  BY <1>12 DEF TimePasses, Pass, goVars
<1>13. CASE UNCHANGED vars
  BY <1>13 DEF vars, goVars
<1> QED
  BY <1>1, <1>2, <1>3, <1>4, <1>5, <1>6, <1>7, <1>8, <1>9, <1>10, <1>11,
     <1>12, <1>13 DEF Next, Handler


LEMMA InvInit == Init => Inv
BY NoFlowAssumption, SweepEveryAssumption
   DEF Init, RegInit, Inv, TypeOK, RegTypeOK, Stages, Kinds, Strings,
       Goroutines, Goroutine, LiveOpened, OwnChat, AnsweredIsClosed

LEMMA InvStep == Inv /\ [Next]_vars => Inv'
<1> USE NoFlowAssumption
<1> SUFFICES ASSUME Inv, [Next]_vars PROVE Inv'
  OBVIOUS
<1> DEFINE Rest == Goroutines /\ LiveOpened /\ OwnChat /\ AnsweredIsClosed
<1>0. TypeOK'
  BY TypeStep DEF Inv
<1> USE <1>0 DEF Inv, TypeOK, RegTypeOK, Goroutines, Goroutine, LiveOpened,
                 OwnChat, AnsweredIsClosed, Taps, Texts, Goto, fieldVars, regVars
<1>1. ASSUME NEW u \in Updates, NEW k \in Kinds, Receive(u, k) PROVE Rest'
  BY <1>1 DEF Receive
<1>2. ASSUME NEW u \in Updates, OpenFlow(u) PROVE Rest'
  <2>1. flow[u] = NoFlow /\ ~done[u] /\ kind[u] \in Taps
    BY <1>2 DEF OpenFlow
  <2>2. \A v \in Updates : flow[v] # u
    BY <2>1
  <2>3. \A c \in Chats : live[c] # u
    BY <2>1
  <2>4. /\ flow' = [flow EXCEPT ![u] = u]
        /\ live' = [live EXCEPT ![chat[u]] = u]
        /\ pc' = [pc EXCEPT ![u] = "reply"]
        /\ UNCHANGED <<kind, chat, done>>
    BY <1>2 DEF OpenFlow, Install
  <2>5. Goroutines'
    BY <2>1, <2>2, <2>4
  <2>6. LiveOpened' /\ OwnChat'
    BY <2>1, <2>2, <2>3, <2>4
  <2>7. AnsweredIsClosed'
    BY <2>1, <2>2, <2>4
  <2> QED
    BY <2>5, <2>6, <2>7
<1>3. ASSUME NEW u \in Updates, CancelFlow(u) PROVE Rest'
  BY <1>3 DEF CancelFlow, Cancel, Vacate
<1>4. ASSUME NEW u \in Updates, FindFlow(u) PROVE Rest'
  BY <1>4 DEF FindFlow, ActiveHit
<1>5. ASSUME NEW u \in Updates, IgnoreText(u) PROVE Rest'
  BY <1>5 DEF IgnoreText, ActiveMiss, Vacate
<1>6. ASSUME NEW u \in Updates, HandleAnswer(u) \/ HandleSSID(u) \/ SendReply(u)
      PROVE  Rest'
  <2>1. CASE HandleAnswer(u)
    BY <2>1 DEF HandleAnswer
  <2>2. CASE HandleSSID(u)
    BY <2>2 DEF HandleSSID
  <2>3. CASE SendReply(u)
    BY <2>3 DEF SendReply
  <2> QED
    BY <1>6, <2>1, <2>2, <2>3
<1>7. ASSUME NEW u \in Updates, StoreSSID(u) PROVE Rest'
  BY <1>7 DEF StoreSSID
<1>8. ASSUME NEW u \in Updates, HandlePassword(u) PROVE Rest'
  BY <1>8 DEF HandlePassword
<1>9. ASSUME NEW u \in Updates,
             ServiceReturns(u) \/ ServiceSticks(u) \/ ServiceLetsGo(u)
      PROVE  Rest'
  <2>1. CASE ServiceReturns(u)
    BY <2>1 DEF ServiceReturns
  <2>2. CASE ServiceSticks(u)
    BY <2>2 DEF ServiceSticks
  <2>3. CASE ServiceLetsGo(u)
    BY <2>3 DEF ServiceLetsGo
  <2> QED
    BY <1>9, <2>1, <2>2, <2>3
<1>10. ASSUME NEW u \in Updates, FinishFlow(u) PROVE Rest'
  BY <1>10 DEF FinishFlow, Finish, Cancel, Vacate
<1>11. CASE JanitorSweeps
  BY <1>11 DEF JanitorSweeps, Sweep, Vacate, goVars
<1>12. CASE TimePasses
  BY <1>12 DEF TimePasses, Pass, goVars
<1>13. CASE UNCHANGED vars
  BY <1>13 DEF vars, goVars
<1>14. Rest'
  BY <1>1, <1>2, <1>3, <1>4, <1>5, <1>6, <1>7, <1>8, <1>9, <1>10, <1>11,
     <1>12, <1>13 DEF Next, Handler
<1> QED
  BY <1>14

LEMMA Invariant == Spec => []Inv
BY InvInit, InvStep, PTL DEF Spec

(* Every variable keeps its type. *)
THEOREM TypeCorrect == Spec => []TypeOK
<1>1. Inv => TypeOK
  BY DEF Inv
<1> QED
  BY <1>1, Invariant, PTL

(* A flow that reported completion or was cancelled is out of its slot,    *)
(* and stays out.                                                          *)
THEOREM AnsweredFlowsClosed == Spec => []AnsweredIsClosed
<1>1. Inv => AnsweredIsClosed
  BY DEF Inv
<1> QED
  BY <1>1, Invariant, PTL

(* A flow is found, called and removed only by its own chat. *)
THEOREM ChatsIsolated == Spec => []OwnChat
<1>1. Inv => OwnChat
  BY DEF Inv
<1> QED
  BY <1>1, Invariant, PTL

---------------------------------------------------------------------------
(* Handlers, janitor and clock use the registry only through its calls, so *)
(* what is proved of the registry holds of the dispatcher.                 *)
LEMMA RegistryStep == Inv /\ [Next]_vars => [RegNext]_regVars
<1> SUFFICES ASSUME Inv, [Next]_vars PROVE [RegNext]_regVars
  OBVIOUS
<1> USE DEF Inv, TypeOK, RegNext
<1>1. ASSUME NEW u \in Updates, OpenFlow(u) PROVE RegNext
  BY <1>1 DEF OpenFlow
<1>2. ASSUME NEW u \in Updates, CancelFlow(u) \/ FinishFlow(u) PROVE RegNext
  BY <1>2 DEF CancelFlow, FinishFlow, Finish
<1>3. ASSUME NEW u \in Updates, FindFlow(u) PROVE RegNext
  BY <1>3 DEF FindFlow
<1>4. ASSUME NEW u \in Updates, IgnoreText(u) PROVE RegNext
  BY <1>4 DEF IgnoreText
<1>5. ASSUME NEW u \in Updates,
             \/ \E k \in Kinds : Receive(u, k)
             \/ HandleAnswer(u) \/ HandleSSID(u) \/ StoreSSID(u)
             \/ HandlePassword(u) \/ ServiceReturns(u)
             \/ ServiceSticks(u) \/ ServiceLetsGo(u) \/ SendReply(u)
      PROVE  UNCHANGED regVars
  BY <1>5 DEF Receive, HandleAnswer, HandleSSID, StoreSSID, HandlePassword,
              ServiceReturns, ServiceSticks, ServiceLetsGo, SendReply
<1>6. CASE JanitorSweeps \/ TimePasses
  BY <1>6 DEF JanitorSweeps, TimePasses
<1>7. CASE UNCHANGED vars
  BY <1>7 DEF vars
<1> QED
  BY <1>1, <1>2, <1>3, <1>4, <1>5, <1>6, <1>7 DEF Next, Handler

(* The dispatcher implements the registry's specification. *)
THEOREM UsesRegistry == Spec => RegSpec
<1>1. Init => RegInit
  BY DEF Init
<1> QED
  BY <1>1, Invariant, RegistryStep, PTL DEF Spec, RegSpec

(* An abandoned flow leaves its chat within one and a half ttl, whatever   *)
(* the other chats do.                                                     *)
THEOREM AbandonedFlowsEvicted == Spec => []IdleBound
BY UsesRegistry, EvictedInTime

---------------------------------------------------------------------------
LEMMA LifeStep == Inv /\ [Next]_vars => [Life!LifeNext]_(Life!lifeVars)
<1> USE NoFlowAssumption
<1> SUFFICES ASSUME Inv, [Next]_vars PROVE [Life!LifeNext]_(Life!lifeVars)
  OBVIOUS
<1> DEFINE opened == {u \in Updates : flow[u] = u}
<1> USE DEF Inv, TypeOK, RegTypeOK
<1>1. ASSUME NEW u \in Updates, OpenFlow(u)
      PROVE  Life!Open(chat[u], u)
  <2>1. flow[u] # u
    BY <1>1 DEF OpenFlow, Goroutines, Goroutine
  <2>2. opened' = opened \cup {u}
    BY <1>1 DEF OpenFlow
  <2> QED
    BY <1>1, <2>1, <2>2 DEF OpenFlow, Install, Life!Open
<1>2. ASSUME NEW cs \in SUBSET Chats, Vacate(cs), opened' = opened
      PROVE  Life!LifeNext
  <2>1. Life!Close(cs)
    BY <1>2 DEF Vacate, Life!Close
  <2> QED
    BY <2>1 DEF Life!LifeNext
<1>3. ASSUME NEW u \in Updates, CancelFlow(u) PROVE Life!LifeNext
  <2>1. flow[u] = NoFlow
    BY <1>3 DEF CancelFlow, Goroutines, Goroutine
  <2>2. live[chat[u]] # u
    BY <2>1 DEF LiveOpened
  <2>3. opened' = opened
    BY <1>3, <2>1, <2>2 DEF CancelFlow
  <2> QED
    BY <1>2, <1>3, <2>3 DEF CancelFlow, Cancel
<1>4. ASSUME NEW u \in Updates, FindFlow(u) PROVE UNCHANGED Life!lifeVars
  <2>1. flow[u] = NoFlow
    BY <1>4 DEF FindFlow, Goroutines, Goroutine
  <2>2. live[chat[u]] # u
    BY <2>1 DEF LiveOpened
  <2>3. opened' = opened
    BY <1>4, <2>1, <2>2 DEF FindFlow
  <2> QED
    BY <1>4, <2>3 DEF FindFlow, ActiveHit, Life!lifeVars
<1>5. ASSUME NEW u \in Updates, IgnoreText(u) \/ FinishFlow(u)
      PROVE  Life!LifeNext
  BY <1>2, <1>5 DEF IgnoreText, ActiveMiss, FinishFlow, Finish, Cancel
<1>6. ASSUME NEW u \in Updates,
             \/ \E k \in Kinds : Receive(u, k)
             \/ HandleAnswer(u) \/ HandleSSID(u) \/ StoreSSID(u)
             \/ HandlePassword(u) \/ ServiceReturns(u)
             \/ ServiceSticks(u) \/ ServiceLetsGo(u) \/ SendReply(u)
      PROVE  UNCHANGED Life!lifeVars
  BY <1>6 DEF Receive, HandleAnswer, HandleSSID, StoreSSID, HandlePassword,
              ServiceReturns, ServiceSticks, ServiceLetsGo, SendReply,
              regVars, Life!lifeVars
<1>7. CASE JanitorSweeps
  BY <1>2, <1>7 DEF JanitorSweeps, Sweep, goVars
<1>8. CASE TimePasses
  BY <1>8 DEF TimePasses, Pass, goVars, Life!lifeVars
<1>9. CASE UNCHANGED vars
  BY <1>9 DEF vars, regVars, goVars, Life!lifeVars
<1> QED
  BY <1>1, <1>3, <1>4, <1>5, <1>6, <1>7, <1>8, <1>9
     DEF Next, Handler, Life!LifeNext

(* No interleaving of handlers and janitor brings back a closed flow: the  *)
(* slots implement FlowLifecycle.                                          *)
THEOREM ClosedForGood == Spec => Lifecycle
<1>1. Init => Life!LifeInit
  BY NoFlowAssumption DEF Init, RegInit, Life!LifeInit
<1> QED
  BY <1>1, Invariant, LifeStep, PTL DEF Spec, Lifecycle, Life!LifeSpec
---------------------------------------------------------------------------
(* What the chats in Patient, whose users wait for each answer, can rely   *)
(* on, whatever the others do.                                             *)
(* One update of such a chat is in flight, *)
Serial ==
  \A u, v \in Updates :
    chat[u] \in Patient /\ InFlight(u) /\ InFlight(v) /\ chat[u] = chat[v] => u = v

(* so the slot still holds the flow that is being handled, or the janitor  *)
(* emptied it,                                                             *)
HeldOrEvicted ==
  \A u \in Updates :
    chat[u] \in Patient /\ (Handling(u) \/ pc[u] = "finish") =>
    live[chat[u]] \in {flow[u], NoFlow}

(* no text reaches a flow that is done,                                    *)
NotAfterDone ==
  \A u, v \in Updates :
    /\ chat[u] \in Patient
    /\ done[u] /\ flow[v] = flow[u] /\ (done[v] \/ Handling(v))
    => u = v

(* and join's fields hold the content of a text that was answered.         *)
SSIDAnswered ==
  \A f \in Updates : chat[f] \in Patient =>
    /\ ssid[f] # NoFlow => /\ ssid[f] \in Updates
                           /\ flow[ssid[f]] = f
                           /\ pc[ssid[f]] \in {"reply", "end"}
    /\ waitPass[f] => ssid[f] # NoFlow

Joins ==
  \A u \in Updates :
    chat[u] \in Patient /\ (Calling(u) \/ done[u]) /\ IsJoin(flow[u]) =>
    /\ used[u] \in Updates \ {u}
    /\ pc[used[u]] = "end" /\ flow[used[u]] = flow[u]

PatientInv == Serial /\ HeldOrEvicted /\ NotAfterDone /\ SSIDAnswered /\ Joins

LEMMA PatientInit == Init => PatientInv
BY DEF Init, PatientInv, Serial, HeldOrEvicted, NotAfterDone, SSIDAnswered,
       Joins, InFlight, Handling, Calling

(* An update belongs to one chat for good. *)
LEMMA ChatStays == [Next]_vars => chat' = chat
BY DEF Next, Handler, Receive, OpenFlow, CancelFlow, FindFlow, IgnoreText,
       HandleAnswer, HandleSSID, StoreSSID, HandlePassword, ServiceReturns,
       ServiceSticks, ServiceLetsGo, FinishFlow, SendReply, JanitorSweeps, TimePasses, vars, goVars

(* Users wait, so two goroutines of a chat never overlap. *)
LEMMA SerialStep ==
  Inv /\ Serial /\ [Next]_vars => Serial'
<1> SUFFICES ASSUME Inv, Serial, [Next]_vars PROVE Serial'
  OBVIOUS
<1>0. chat' = chat
  BY ChatStays
<1> USE <1>0
<1> USE DEF Inv, TypeOK, Serial, InFlight, Goto
<1>1. ASSUME NEW u \in Updates, NEW k \in Kinds, Receive(u, k) PROVE Serial'
  BY <1>1 DEF Receive, InFlight
<1>2. ASSUME NEW u \in Updates, Handler(u) PROVE Serial'
  <2>1. /\ InFlight(u) /\ chat' = chat
        /\ \A v \in Updates \ {u} : pc'[v] = pc[v]
    BY <1>2 DEF Handler, OpenFlow, CancelFlow, FindFlow, IgnoreText,
         HandleAnswer, HandleSSID, StoreSSID, HandlePassword,
         ServiceReturns, ServiceSticks, ServiceLetsGo, FinishFlow, SendReply
  <2> QED
    BY <2>1
<1>3. CASE JanitorSweeps \/ TimePasses \/ UNCHANGED vars
  BY <1>3 DEF JanitorSweeps, TimePasses, vars, goVars
<1> QED
  BY <1>1, <1>2, <1>3 DEF Next

(* A goroutine moves itself and touches the slot of its own chat. *)
LEMMA HandlerIsLocal ==
  ASSUME Inv, NEW u \in Updates, Handler(u)
  PROVE  /\ InFlight(u) /\ UNCHANGED <<kind, chat>>
         /\ \A v \in Updates \ {u} : /\ pc'[v] = pc[v]
                                     /\ flow'[v] = flow[v]
                                     /\ done'[v] = done[v]
                                     /\ used'[v] = used[v]
         /\ \A c \in Chats \ {chat[u]} : live'[c] = live[c]
BY DEF Inv, TypeOK, RegTypeOK, Goto, InFlight, Handler, OpenFlow, CancelFlow,
       FindFlow, IgnoreText, HandleAnswer, HandleSSID, StoreSSID,
       HandlePassword, ServiceReturns, ServiceSticks, ServiceLetsGo,
       FinishFlow, SendReply, Install, Cancel, Finish, ActiveHit, ActiveMiss, Vacate, regVars

LEMMA HeldStep ==
  Inv /\ PatientInv /\ [Next]_vars => HeldOrEvicted'
<1> USE NoFlowAssumption
<1> SUFFICES ASSUME Inv, PatientInv, [Next]_vars PROVE HeldOrEvicted'
  OBVIOUS
<1>0. chat' = chat
  BY ChatStays
<1> USE <1>0
<1> USE DEF PatientInv, HeldOrEvicted, Handling, Calling
<1>1. ASSUME NEW u \in Updates, NEW k \in Kinds, Receive(u, k)
      PROVE  HeldOrEvicted'
  BY <1>1 DEF Receive, Inv, TypeOK, regVars, Goto
<1>2. ASSUME NEW u \in Updates, Handler(u) PROVE HeldOrEvicted'
  <2>1. ASSUME NEW v \in Updates \ {u}, chat'[v] \in Patient,
               Handling(v)' \/ pc'[v] = "finish"
        PROVE  live'[chat'[v]] \in {flow'[v], NoFlow}
    <3>1. InFlight(v) /\ InFlight(u) /\ pc'[v] = pc[v]
      BY <1>2, <2>1, HandlerIsLocal DEF InFlight
    <3>2. chat[v] # chat[u] /\ chat[v] \in Chats
      BY <2>1, <3>1 DEF Serial, Inv, TypeOK
    <3> QED
      BY <1>2, <2>1, <3>1, <3>2, HandlerIsLocal
  <2>2. ASSUME chat'[u] \in Patient,
               Handling(u)' \/ pc'[u] = "finish"
        PROVE  live'[chat'[u]] \in {flow'[u], NoFlow}
    <3> USE DEF Inv, TypeOK, Goto
    <3>1. CASE OpenFlow(u) \/ CancelFlow(u) \/ IgnoreText(u) \/ FinishFlow(u)
               \/ SendReply(u) \/ StoreSSID(u)
      BY <2>2, <3>1 DEF OpenFlow, CancelFlow, IgnoreText, FinishFlow,
                        SendReply, StoreSSID
    <3>2. CASE FindFlow(u)
      BY <3>2 DEF FindFlow, ActiveHit
    <3>3. CASE HandleAnswer(u) \/ HandleSSID(u) \/ HandlePassword(u)
               \/ ServiceReturns(u) \/ ServiceSticks(u) \/ ServiceLetsGo(u)
      BY <2>2, <3>3 DEF HandleAnswer, HandleSSID, HandlePassword, ServiceReturns,
                        ServiceSticks, ServiceLetsGo, regVars
    <3> QED
      BY <1>2, <3>1, <3>2, <3>3 DEF Handler
  <2> QED
    BY <2>1, <2>2
<1>3. CASE JanitorSweeps
  BY <1>3 DEF JanitorSweeps, Sweep, Vacate, goVars, Inv, TypeOK
<1>4. CASE TimePasses \/ UNCHANGED vars
  BY <1>4 DEF TimePasses, Pass, vars, goVars, regVars
<1> QED
  BY <1>1, <1>2, <1>3, <1>4 DEF Next

(* Two updates of one flow are of one chat, so only one is in flight. *)
LEMMA SameFlow ==
  ASSUME Inv, Serial, NEW u \in Updates, NEW v \in Updates,
         chat[u] \in Patient, flow[u] # NoFlow, flow[u] = flow[v],
         InFlight(u), InFlight(v)
  PROVE  u = v
BY DEF Inv, TypeOK, OwnChat, Serial

LEMMA NotAfterDoneStep ==
  Inv /\ PatientInv /\ [Next]_vars => NotAfterDone'
<1> USE NoFlowAssumption
<1> SUFFICES ASSUME Inv, PatientInv, [Next]_vars PROVE NotAfterDone'
  OBVIOUS
<1>0. chat' = chat
  BY ChatStays
<1> USE <1>0
<1> USE DEF PatientInv, NotAfterDone, Inv, TypeOK, Goto, Handling, Calling
<1>1. ASSUME NEW u \in Updates, NEW k \in Kinds, Receive(u, k)
      PROVE  NotAfterDone'
  BY <1>1 DEF Receive
<1>2. ASSUME NEW u \in Updates,
             \/ OpenFlow(u) \/ CancelFlow(u) \/ IgnoreText(u)
             \/ FinishFlow(u) \/ SendReply(u)
      PROVE  NotAfterDone'
  <2>1. /\ done' = done /\ ~Handling(u)'
        /\ \A v \in Updates \ {u} : pc'[v] = pc[v] /\ flow'[v] = flow[v]
        /\ done[u] => flow'[u] = flow[u]
    BY <1>2 DEF OpenFlow, CancelFlow, IgnoreText, FinishFlow, SendReply,
                Goroutines, Goroutine
  <2> QED
    BY <2>1
<1>3. ASSUME NEW u \in Updates,
             \/ HandleAnswer(u) \/ HandleSSID(u) \/ HandlePassword(u)
             \/ StoreSSID(u) \/ ServiceSticks(u)
      PROVE  NotAfterDone'
  BY <1>3 DEF HandleAnswer, HandleSSID, HandlePassword, StoreSSID, ServiceSticks
<1>4. ASSUME NEW u \in Updates, FindFlow(u) PROVE NotAfterDone'
  <2>1. /\ done' = done /\ ~done[u] /\ pc[u] = "received"
        /\ flow' = [flow EXCEPT ![u] = live[chat[u]]]
        /\ \A v \in Updates \ {u} : pc'[v] = pc[v]
        /\ live[chat[u]] # NoFlow
    BY <1>4 DEF FindFlow, ActiveHit, Goroutines, Goroutine
  <2>2. ASSUME NEW v \in Updates, chat[v] \in Patient, done[v],
               flow[v] = live[chat[u]]
        PROVE  FALSE
    <3>1. chat[v] = chat[u]
      BY <2>1, <2>2 DEF LiveOpened, OwnChat, RegTypeOK
    <3>2. pc[v] = "end"
      BY <2>1, <2>2, <3>1 DEF Serial, InFlight, Goroutines, Goroutine, Stages
    <3> QED
      BY <2>1, <2>2, <3>1, <3>2 DEF AnsweredIsClosed
  <2> QED
    BY <2>1, <2>2
<1>5. ASSUME NEW u \in Updates, ServiceReturns(u) \/ ServiceLetsGo(u)
      PROVE  NotAfterDone'
  <2>1. /\ Calling(u) /\ flow' = flow
        /\ done' = [done EXCEPT ![u] = TRUE]
        /\ \A v \in Updates \ {u} : pc'[v] = pc[v]
    BY <1>5 DEF ServiceReturns, ServiceLetsGo
  <2>2. ASSUME NEW v \in Updates, chat[u] \in Patient \/ chat[v] \in Patient,
               flow[v] = flow[u], done[v] \/ Handling(v)
        PROVE  v = u
    <3>0. chat[u] = chat[v] /\ flow[u] # NoFlow
      BY <2>1, <2>2 DEF OwnChat, Goroutines, Goroutine
    <3>1. CASE done[v]
      BY <2>1, <2>2, <3>0, <3>1
    <3>2. CASE Handling(v)
      BY <2>1, <2>2, <3>0, <3>2, SameFlow DEF InFlight, Goroutines, Goroutine
    <3> QED
      BY <2>2, <3>1, <3>2
  <2> QED
    BY <2>1, <2>2
<1>6. CASE JanitorSweeps \/ TimePasses \/ UNCHANGED vars
  BY <1>6 DEF JanitorSweeps, TimePasses, vars, goVars
<1> QED
  BY <1>1, <1>2, <1>3, <1>4, <1>5, <1>6 DEF Next, Handler

(* A goroutine that has left its first stage keeps its flow, one that has  *)
(* answered stays answered, and a flow keeps the kind of its opener.       *)
LEMMA AnswersStay ==
  ASSUME Inv, [Next]_vars, NEW v \in Updates
  PROVE  /\ pc[v] \notin {"unsent", "received"} => flow'[v] = flow[v]
         /\ pc[v] \in {"reply", "end"} => pc'[v] \in {"reply", "end"}
         /\ pc[v] = "end" => pc'[v] = "end"
         /\ pc[v] # "unsent" => kind'[v] = kind[v]
<1> USE DEF Inv, TypeOK, Goto
<1> DEFINE Stays ==
             /\ pc[v] \notin {"unsent", "received"} => flow'[v] = flow[v]
             /\ pc[v] \in {"reply", "end"} => pc'[v] \in {"reply", "end"}
             /\ pc[v] = "end" => pc'[v] = "end"
             /\ pc[v] # "unsent" => kind'[v] = kind[v]
<1>1. ASSUME NEW u \in Updates, NEW k \in Kinds, Receive(u, k) PROVE Stays
  BY <1>1 DEF Receive
<1>2. ASSUME NEW u \in Updates, Handler(u) PROVE Stays
  <2>1. CASE u # v
    BY <1>2, <2>1, HandlerIsLocal
  <2>2. CASE u = v
    BY <1>2, <2>2
       DEF Handler, OpenFlow, CancelFlow, FindFlow, IgnoreText, HandleAnswer,
           HandleSSID, StoreSSID, HandlePassword, ServiceReturns,
           ServiceSticks, ServiceLetsGo, FinishFlow, SendReply
  <2> QED
    BY <2>1, <2>2
<1>3. CASE JanitorSweeps \/ TimePasses \/ UNCHANGED vars
  BY <1>3 DEF JanitorSweeps, TimePasses, vars, goVars
<1> QED
  BY <1>1, <1>2, <1>3 DEF Next

LEMMA SSIDStep ==
  Inv /\ PatientInv /\ [Next]_vars => SSIDAnswered'
<1> USE NoFlowAssumption, TornAssumption
<1> SUFFICES ASSUME Inv, PatientInv, [Next]_vars PROVE SSIDAnswered'
  OBVIOUS
<1>0. chat' = chat
  BY ChatStays
<1> USE <1>0
<1> USE DEF PatientInv, SSIDAnswered, Inv, TypeOK
<1>1. CASE UNCHANGED fieldVars
  <2>1. ssid' = ssid /\ waitPass' = waitPass
    BY <1>1 DEF fieldVars
  <2> QED
    BY <2>1, AnswersStay
<1>2. ASSUME NEW u \in Updates, StoreSSID(u), chat[u] \in Patient
      PROVE  SSIDAnswered'
  <2> DEFINE f == flow[u]
  <2>1. f \in Updates /\ chat[f] = chat[u] /\ pc[u] = "store"
    BY <1>2 DEF StoreSSID, Goroutines, Goroutine, OwnChat
  <2>2. Storing(f) = {u}
    BY <1>2, <2>1, SameFlow DEF Storing, InFlight
  <2>3. ssid[f] # Torn
    BY <1>2, <2>1
  <2>4. ssid' = [ssid EXCEPT ![f] = u] /\ waitPass' = [waitPass EXCEPT ![f] = TRUE]
    BY <1>2, <2>2, <2>3 DEF StoreSSID
  <2>5. pc'[u] = "reply" /\ flow'[u] = f
    BY <1>2 DEF StoreSSID, Goto
  <2> QED
    BY <2>1, <2>4, <2>5, AnswersStay
<1>3. ASSUME NEW u \in Updates, StoreSSID(u), chat[u] \notin Patient
      PROVE  SSIDAnswered'
  <2>1. chat[flow[u]] \notin Patient
    BY <1>3 DEF StoreSSID, Goroutines, Goroutine, OwnChat
  <2>2. \A f \in Updates \ {flow[u]} :
          ssid'[f] = ssid[f] /\ waitPass'[f] = waitPass[f]
    BY <1>3 DEF StoreSSID
  <2> QED
    BY <2>1, <2>2, AnswersStay
<1>4. UNCHANGED fieldVars \/ \E u \in Updates : StoreSSID(u)
  BY DEF Next, Handler, Receive, OpenFlow, CancelFlow, FindFlow, IgnoreText,
         HandleAnswer, HandleSSID, HandlePassword, ServiceReturns,
         ServiceSticks, ServiceLetsGo, FinishFlow, SendReply, JanitorSweeps, TimePasses, vars
<1> QED
  BY <1>1, <1>2, <1>3, <1>4

LEMMA JoinsStep ==
  Inv /\ PatientInv /\ [Next]_vars => Joins'
<1> USE NoFlowAssumption
<1> SUFFICES ASSUME Inv, PatientInv, [Next]_vars PROVE Joins'
  OBVIOUS
<1>0. chat' = chat
  BY ChatStays
<1> USE <1>0
<1> DEFINE Named(v) ==
             /\ used[v] \in Updates \ {v}
             /\ pc[used[v]] = "end" /\ flow[used[v]] = flow[v]
<1> USE DEF PatientInv, Joins, Inv, TypeOK, Goto, IsJoin, Calling
<1>1. ASSUME NEW v \in Updates, chat[v] \in Patient,
             Calling(v) \/ done[v],
             IsJoin(flow[v])', used'[v] = used[v]
      PROVE  Named(v)'
  <2>1. flow[v] \in Updates /\ flow[flow[v]] = flow[v] /\ flow'[v] = flow[v]
    BY <1>1, AnswersStay DEF Goroutines, Goroutine, OwnChat
  <2>2. kind'[flow[v]] = kind[flow[v]]
    BY <2>1, AnswersStay DEF Goroutines, Goroutine
  <2>3. Named(v)
    BY <1>1, <2>1, <2>2
  <2> QED
    BY <1>1, <2>1, <2>3, AnswersStay
<1>2. ASSUME NEW u \in Updates, chat[u] \in Patient, HandlePassword(u)
      PROVE  Named(u)'
  <2> DEFINE f == flow[u]
  <2>1. f \in Updates /\ chat[f] = chat[u] /\ pc[u] = "handle"
    BY <1>2 DEF HandlePassword, Goroutines, Goroutine, OwnChat
  <2>2. Storing(f) = {}
    BY <1>2, <2>1, SameFlow DEF Storing, InFlight
  <2>3. waitPass[f] /\ used' = [used EXCEPT ![u] = ssid[f]]
    BY <1>2, <2>1, <2>2 DEF HandlePassword, SeesWaitPass, SeesSSID
  <2>4. ssid[f] \in Updates \ {u} /\ flow[ssid[f]] = f
    BY <1>2, <2>1, <2>3 DEF SSIDAnswered
  <2>5. pc[ssid[f]] = "end"
    BY <1>2, <2>1, <2>3, <2>4, SameFlow DEF SSIDAnswered, InFlight
  <2>6. flow' = flow /\ pc' = [pc EXCEPT ![u] = "service"]
    BY <1>2 DEF HandlePassword
  <2> QED
    BY <2>1, <2>3, <2>4, <2>5, <2>6
<1>3. ASSUME NEW v \in Updates, chat[v] \in Patient, (Calling(v)' \/ done'[v]),
             IsJoin(flow[v])'
      PROVE  Named(v)'
  <2>1. \/ HandlePassword(v)
        \/ (Calling(v) \/ done[v]) /\ used'[v] = used[v]
    <3>1. CASE UNCHANGED <<pc, done, used>>
      BY <1>3, <3>1
    <3>2. ASSUME NEW u \in Updates, NEW k \in Kinds, Receive(u, k)
          PROVE  (Calling(v) \/ done[v]) /\ used'[v] = used[v]
      BY <1>3, <3>2 DEF Receive
    <3>3. ASSUME NEW u \in Updates \ {v}, Handler(u)
          PROVE  (Calling(v) \/ done[v]) /\ used'[v] = used[v]
      BY <1>3, <3>3, HandlerIsLocal
    <3>4. CASE Handler(v) /\ ~HandleAnswer(v) /\ ~HandlePassword(v)
      BY <1>3, <3>4
         DEF Handler, OpenFlow, CancelFlow, FindFlow, IgnoreText,
             HandleSSID, StoreSSID, ServiceReturns, ServiceSticks,
             ServiceLetsGo, FinishFlow, SendReply
    <3>5. ~HandleAnswer(v)
      <4>1. ASSUME HandleAnswer(v) PROVE FALSE
        <5>1. kind' = kind /\ flow' = flow /\ done' = done /\ ~done[v]
          BY <4>1 DEF HandleAnswer, Goroutines, Goroutine
        <5> QED
          BY <1>3, <4>1, <5>1 DEF HandleAnswer
      <4> QED
        BY <4>1
    <3>6. \/ UNCHANGED <<pc, done, used>>
          \/ \E u \in Updates : Handler(u) \/ \E k \in Kinds : Receive(u, k)
      BY DEF Next, JanitorSweeps, TimePasses, vars, goVars
    <3> QED
      BY <3>1, <3>2, <3>3, <3>4, <3>5, <3>6
  <2> QED
    BY <1>1, <1>2, <1>3, <2>1
<1> QED
  BY <1>3

LEMMA PatientStep ==
  Inv /\ PatientInv /\ [Next]_vars => PatientInv'
BY SerialStep, HeldStep, NotAfterDoneStep, SSIDStep, JoinsStep DEF PatientInv

LEMMA PatientInvariant == Spec => []PatientInv
<1>1. Init => PatientInv
  BY PatientInit
<1>2. Inv /\ PatientInv /\ [Next]_vars => PatientInv'
  BY PatientStep
<1> QED
  BY <1>1, <1>2, Invariant, PTL DEF Spec

(* A flow calls its service at most once. *)
THEOREM PatientFlowsCallOnce == Spec => []PatientCallsOnce
<1>1. Inv /\ PatientInv => PatientCallsOnce
  <2> SUFFICES ASSUME Inv, PatientInv,
                      NEW u \in Updates, NEW v \in Updates,
                      chat[u] \in Patient, flow[u] = flow[v], flow[u] # NoFlow,
                      Calling(u) \/ done[u],
                      Calling(v) \/ done[v]
               PROVE  u = v
    BY DEF PatientCallsOnce
  <2>1. CASE done[u] \/ done[v]
    BY <2>1 DEF PatientInv, NotAfterDone, Handling, Inv, OwnChat
  <2>2. CASE ~done[u] /\ ~done[v]
    BY <2>2, SameFlow DEF Calling, InFlight, PatientInv
  <2> QED
    BY <2>1, <2>2
<1> QED
  BY <1>1, Invariant, PatientInvariant, PTL

(* Join names the SSID of an answered text of its own flow. *)
THEOREM PatientJoinsAnsweredSSID == Spec => []PatientJoinsTheSSID
<1>1. PatientInv => PatientJoinsTheSSID
  BY DEF PatientJoinsTheSSID, PatientInv, Joins
<1> QED
  BY <1>1, PatientInvariant, PTL

(* Completion removes no flow but its own. *)
THEOREM PatientFinishOwn == Spec => PatientFinishesOwn
<1>1. PatientInv /\ [Next]_vars =>
        [\A u \in Updates : chat[u] \in Patient /\ FinishFlow(u) =>
           live[chat[u]] \in {flow[u], NoFlow}]_vars
  BY DEF PatientInv, HeldOrEvicted, FinishFlow
<1> QED
  BY <1>1, PatientInvariant, PTL DEF Spec, PatientFinishesOwn
===========================================================================
