--------------------------- MODULE FlowDispatch ---------------------------
(* The typed-input flows of the bot: every Telegram update is handled by a *)
(* goroutine of its own, internal/telegram/bot/bot.go dispatch, and all of *)
(* them share the registry of FlowRegistry and the flow objects in it.     *)
(*                                                                         *)
(*   tap     a button whose handler opens a flow: Ack, build, Install, and *)
(*           send the prompt (handlers/*.go, sendFlowPrompt)               *)
(*   text    plain text: Active, flow.Handle, Finish if done, send reply   *)
(*   cancel  the /cancel command: Cancel, send reply                       *)
(*                                                                         *)
(* A flow takes one valid text and calls its service, successfully or not, *)
(* except Wi-Fi join, which takes the SSID first and then the password.    *)
(* The flow objects have no lock: a store of join's two fields overlaps    *)
(* the reads of other goroutines, and Go says nothing of what they see.    *)
EXTENDS FlowRegistry

CONSTANTS Torn,      \* a string read while another goroutine stores it
          Patient    \* chats whose users wait for an answer before the next update

ASSUME TornAssumption == Torn \notin Updates /\ Torn # NoFlow
ASSUME PatientAssumption == Patient \subseteq Chats

VARIABLES pc,        \* where the update's goroutine is
          kind,      \* what the update is
          chat,      \* the chat it comes from
          flow,      \* the flow it opened, found or cancelled
          done,      \* whether its Handle returned Done
          used,      \* the text whose content its join call names as SSID
          ssid,      \* join flows: the text stored in ssid
          waitPass   \* join flows: the SSID is there, the password is next

goVars == <<pc, kind, chat, flow, done, used>>
fieldVars == <<ssid, waitPass>>
vars == <<regVars, goVars, fieldVars>>

Kinds == {"tapOne", "tapJoin", "valid", "invalid", "cancel"}
Taps == {"tapOne", "tapJoin"}
Texts == {"valid", "invalid"}
Stages == {"unsent", "received", "handle", "store", "service", "stuck",
           "finish", "reply", "end"}

(* The SSIDs a goroutine can read: what was stored, by which text. *)
Strings == Updates \cup {NoFlow, Torn}

InFlight(u) == pc[u] \notin {"unsent", "end"}

(* In the flow's call of its service, which may have outlasted its cap. *)
Calling(u) == pc[u] \in {"service", "stuck"}

(* In flow.Handle, from the dispatcher's call to its return. *)
Handling(u) == pc[u] \in {"handle", "store"} \/ Calling(u)

IsJoin(f) == kind[f] = "tapJoin"

Storing(f) == {v \in Updates : pc[v] = "store" /\ flow[v] = f}

Init ==
  /\ RegInit
  /\ pc = [u \in Updates |-> "unsent"]
  /\ kind = [u \in Updates |-> "cancel"]
  /\ chat \in [Updates -> Chats]
  /\ flow = [u \in Updates |-> NoFlow]
  /\ done = [u \in Updates |-> FALSE]
  /\ used = [u \in Updates |-> NoFlow]
  /\ ssid = [u \in Updates |-> NoFlow]
  /\ waitPass = [u \in Updates |-> FALSE]

Goto(u, stage) == pc' = [pc EXCEPT ![u] = stage]

(* A whitelisted user sends an update and the library starts a goroutine   *)
(* for it.                                                                 *)
Receive(u, k) ==
  /\ pc[u] = "unsent"
  /\ chat[u] \in Patient => \A v \in Updates : chat[v] = chat[u] => ~InFlight(v)
  /\ Goto(u, "received")
  /\ kind' = [kind EXCEPT ![u] = k]
  /\ UNCHANGED <<regVars, fieldVars, chat, flow, done, used>>

(* The opener installs the flow it built before it sends the prompt. *)
OpenFlow(u) ==
  /\ pc[u] = "received" /\ kind[u] \in Taps
  /\ Install(chat[u], u)
  /\ flow' = [flow EXCEPT ![u] = u]
  /\ Goto(u, "reply")
  /\ UNCHANGED <<kind, chat, done, used, fieldVars>>

(* cmdCancel: the reply says whether there was a flow. *)
CancelFlow(u) ==
  /\ pc[u] = "received" /\ kind[u] = "cancel"
  /\ Cancel(chat[u])
  /\ flow' = [flow EXCEPT ![u] = live[chat[u]]]
  /\ Goto(u, "reply")
  /\ UNCHANGED <<kind, chat, done, used, fieldVars>>

(* Mutant: one slot for all chats. *)
FindFlow_AnyChat(u) ==
  /\ pc[u] = "received" /\ kind[u] \in Texts
  /\ \E c \in Chats : ActiveHit(c) /\ flow' = [flow EXCEPT ![u] = live[c]]
  /\ Goto(u, "handle")
  /\ UNCHANGED <<kind, chat, done, used, fieldVars>>

(* dispatchFlow looks the flow up; without one the text is dropped. *)
FindFlow(u) ==
  /\ pc[u] = "received" /\ kind[u] \in Texts
  /\ ActiveHit(chat[u])
  /\ flow' = [flow EXCEPT ![u] = live[chat[u]]]
  /\ Goto(u, "handle")
  /\ UNCHANGED <<kind, chat, done, used, fieldVars>>

IgnoreText(u) ==
  /\ pc[u] = "received" /\ kind[u] \in Texts
  /\ ActiveMiss(chat[u])
  /\ Goto(u, "end")
  /\ UNCHANGED <<kind, chat, flow, done, used, fieldVars>>

(* Mutant: asking again puts the flow back into the slot. *)
HandleAnswer_Reinstalls(u) ==
  /\ pc[u] = "handle" /\ ~IsJoin(flow[u])
  /\ IF kind[u] = "valid"
     THEN Goto(u, "service") /\ UNCHANGED regVars
     ELSE Goto(u, "reply") /\ Install(chat[u], flow[u])
  /\ UNCHANGED <<fieldVars, kind, chat, flow, done, used>>

(* Mutant: an invalid text makes Handle wait for another. *)
HandleAnswer_Waits(u) ==
  /\ pc[u] = "handle" /\ ~IsJoin(flow[u])
  /\ kind[u] = "valid" /\ Goto(u, "service")
  /\ UNCHANGED <<regVars, fieldVars, kind, chat, flow, done, used>>

(* Handle of a flow with one question: an invalid text asks again, a valid *)
(* one calls the service.                                                  *)
HandleAnswer(u) ==
  /\ pc[u] = "handle" /\ ~IsJoin(flow[u])
  /\ Goto(u, IF kind[u] = "valid" THEN "service" ELSE "reply")
  /\ UNCHANGED <<regVars, fieldVars, kind, chat, flow, done, used>>

(* What reading join's fields gives while other goroutines store them. *)
SeesWaitPass(f) ==
  {waitPass[f]} \cup (IF Storing(f) # {} THEN {TRUE} ELSE {})

SeesSSID(f) ==
  {ssid[f]} \cup Storing(f) \cup (IF Storing(f) # {} THEN {Torn} ELSE {})

(* joinWifiFlow.Handle with waitPass unset: an empty SSID asks again, any  *)
(* other is stored together with waitPass.                                 *)
HandleSSID(u) ==
  /\ pc[u] = "handle" /\ IsJoin(flow[u])
  /\ FALSE \in SeesWaitPass(flow[u])
  /\ Goto(u, IF kind[u] = "valid" THEN "store" ELSE "reply")
  /\ UNCHANGED <<regVars, fieldVars, kind, chat, flow, done, used>>

(* Mutant: the phase is recorded and the SSID is not. *)
StoreSSID_Forgets(u) ==
  /\ pc[u] = "store"
  /\ waitPass' = [waitPass EXCEPT ![flow[u]] = TRUE]
  /\ Goto(u, "reply")
  /\ UNCHANGED <<regVars, kind, chat, flow, done, used, ssid>>

StoreSSID(u) ==
  LET f == flow[u] IN
  /\ pc[u] = "store"
  /\ \E s \in {u} \cup (IF Storing(f) # {u} \/ ssid[f] = Torn
                        THEN {Torn} ELSE {}) :
       ssid' = [ssid EXCEPT ![f] = s]
  /\ waitPass' = [waitPass EXCEPT ![f] = TRUE]
  /\ Goto(u, "reply")
  /\ UNCHANGED <<regVars, kind, chat, flow, done, used>>

(* joinWifiFlow.Handle with waitPass set: any text is the password. *)
HandlePassword(u) ==
  /\ pc[u] = "handle" /\ IsJoin(flow[u])
  /\ TRUE \in SeesWaitPass(flow[u])
  /\ \E s \in SeesSSID(flow[u]) : used' = [used EXCEPT ![u] = s]
  /\ Goto(u, "service")
  /\ UNCHANGED <<regVars, fieldVars, kind, chat, flow, done>>

(* The service answers or fails: every flow is then done. *)
ServiceReturns(u) ==
  /\ pc[u] = "service"
  /\ done' = [done EXCEPT ![u] = TRUE]
  /\ Goto(u, "finish")
  /\ UNCHANGED <<regVars, fieldVars, kind, chat, flow, used>>

(* The cap kills sudo, not the command sudo started, which may run on with *)
(* the pipes open: the call then waits for it beyond any cap.  So may the  *)
(* wdutil of the network that join reads back and timezone's systemsetup.  *)
ServiceSticks(u) ==
  /\ pc[u] = "service"
  /\ Goto(u, "stuck")
  /\ UNCHANGED <<regVars, fieldVars, kind, chat, flow, done, used>>

(* The command behind the killed sudo ends, if ever, and the call with it. *)
ServiceLetsGo(u) ==
  /\ pc[u] = "stuck"
  /\ done' = [done EXCEPT ![u] = TRUE]
  /\ Goto(u, "finish")
  /\ UNCHANGED <<regVars, fieldVars, kind, chat, flow, used>>

(* Mutant: a flow that is done keeps its slot. *)
FinishFlow_Dropped(u) ==
  /\ pc[u] = "finish"
  /\ Goto(u, "reply")
  /\ UNCHANGED <<regVars, kind, chat, flow, done, used, fieldVars>>

(* dispatchFlow unwires the chat's flow after a Response that is done. *)
FinishFlow(u) ==
  /\ pc[u] = "finish"
  /\ Finish(chat[u])
  /\ Goto(u, "reply")
  /\ UNCHANGED <<kind, chat, flow, done, used, fieldVars>>

(* The message is sent; an error of Telegram is only logged. *)
SendReply(u) ==
  /\ pc[u] = "reply"
  /\ Goto(u, "end")
  /\ UNCHANGED <<regVars, fieldVars, kind, chat, flow, done, used>>

Handler(u) ==
  \/ OpenFlow(u) \/ CancelFlow(u) \/ FindFlow(u) \/ IgnoreText(u)
  \/ HandleAnswer(u) \/ HandleSSID(u) \/ StoreSSID(u) \/ HandlePassword(u)
  \/ ServiceReturns(u) \/ ServiceSticks(u) \/ ServiceLetsGo(u)
  \/ FinishFlow(u) \/ SendReply(u)

JanitorSweeps == Sweep /\ UNCHANGED <<goVars, fieldVars>>

TimePasses == Pass /\ UNCHANGED <<goVars, fieldVars>>

Next ==
  \/ \E u \in Updates : Handler(u) \/ \E k \in Kinds : Receive(u, k)
  \/ JanitorSweeps
  \/ TimePasses

Spec == Init /\ [][Next]_vars

(* Handlers go on: the calls they make end by themselves, a subprocess by  *)
(* the runner's cap and a request by the client's.  A call stuck behind a  *)
(* killed sudo need not end, and nothing ends it.  Time and the janitor do *)
(* not stop.  Nobody has to send anything.                                 *)
Fairness ==
  /\ \A u \in Updates : WF_vars(pc[u] # "stuck" /\ Handler(u))
  /\ WF_vars(JanitorSweeps)
  /\ WF_vars(TimePasses)

FairSpec == Spec /\ Fairness
---------------------------------------------------------------------------
TypeOK ==
  /\ RegTypeOK
  /\ pc \in [Updates -> Stages]
  /\ kind \in [Updates -> Kinds]
  /\ chat \in [Updates -> Chats]
  /\ flow \in [Updates -> Updates \cup {NoFlow}]
  /\ done \in [Updates -> BOOLEAN]
  /\ used \in [Updates -> Strings]
  /\ ssid \in [Updates -> Strings]
  /\ waitPass \in [Updates -> BOOLEAN]

(* The slot behaves as FlowLifecycle says: no interleaving of the handlers *)
(* and the janitor brings back a flow that was finished, cancelled,        *)
(* replaced or timed out.                                                  *)
Life == INSTANCE FlowLifecycle
          WITH holder <- live, opened <- {u \in Updates : flow[u] = u}

Lifecycle == Life!LifeSpec

(* A flow that reported completion, and one a cancel was acknowledged for, *)
(* takes no further text: by the time the user can read the reply it is    *)
(* out of the slot, for good.                                              *)
AnsweredIsClosed ==
  \A u \in Updates :
    /\ pc[u] \in {"reply", "end"}
    /\ done[u] \/ kind[u] = "cancel"
    /\ flow[u] # NoFlow
    => live[chat[u]] # flow[u]

(* Chats do not disturb each other: a flow is found, called and removed    *)
(* only by updates of the chat it was opened in.                           *)
OwnChat ==
  \A u \in Updates :
    flow[u] # NoFlow => flow[flow[u]] = flow[u] /\ chat[flow[u]] = chat[u]

(* In a chat whose users wait for answers, a flow calls its service at     *)
(* most once, whatever the other chats do.                                 *)
PatientCallsOnce ==
  \A u, v \in Updates :
    /\ chat[u] \in Patient
    /\ flow[u] = flow[v] /\ flow[u] # NoFlow
    /\ Calling(u) \/ done[u]
    /\ Calling(v) \/ done[v]
    => u = v

(* If they wait, join names the last SSID the bot asked the password for,  *)
(* whole and from the same flow, never the password's text.                *)
PatientJoinsTheSSID ==
  \A u \in Updates :
    /\ chat[u] \in Patient
    /\ Calling(u) \/ done[u]
    /\ IsJoin(flow[u])
    => /\ used[u] \in Updates \ {u}
       /\ pc[used[u]] = "end" /\ flow[used[u]] = flow[u]

(* If they wait, completion removes the flow that completed, or nothing,   *)
(* and never one opened later.                                             *)
PatientFinishesOwn ==
  [][\A u \in Updates : chat[u] \in Patient /\ FinishFlow(u) =>
       live[chat[u]] \in {flow[u], NoFlow}]_vars

(* What a doc says and the code does not do.                               *)
(*                                                                         *)
(* Done unwires "this flow" (flows/flow.go, Response): completion never    *)
(* takes another flow out of the slot.                                     *)
CompletionIsOwn ==
  [][\A u \in Updates : FinishFlow(u) =>
       live[chat[u]] \in {flow[u], NoFlow}]_vars

(* Every text a flow took is answered, even if the flow was meanwhile      *)
(* cancelled, replaced or timed out; so is every tap and every cancel.     *)
(* Only a call stuck behind a killed sudo keeps its update, and when it    *)
(* lets go its update is answered as well.                                 *)
EveryUpdateEnds ==
  \A u \in Updates : InFlight(u) ~> pc[u] \in {"end", "stuck"}

(* An open flow does not hold the chat forever: without further texts the  *)
(* janitor ends it, even if nobody in the chat ever writes again.          *)
FlowsEnd == \A c \in Chats : live[c] # NoFlow ~> live[c] = NoFlow
===========================================================================
