--------------------------- MODULE MusicRefresh ---------------------------
(* The live refresh of the Music dashboard: a goroutine per open dashboard *)
(* edits its photo message every few seconds until it is stopped or too    *)
(* old (internal/telegram/musicrefresh/refresher.go), while the handlers   *)
(* of the dashboard's buttons open, refresh and leave it                   *)
(* (handlers/mus.go, handlers/callbacks.go).                               *)
(*                                                                         *)
(* A session is named by the update whose handler started it.  tickOnce    *)
(* runs in the session's goroutine and in the handlers that force a tick;  *)
(* each execution is a worker, and the two share the session's trackID     *)
(* without a lock.  The 5 s between ticks are not modelled: a tick may     *)
(* come at any time.                                                       *)
EXTENDS Integers

CONSTANTS Chats, Updates,
          Tracks,     \* what the player may play
          NoTrack,    \* the player names no track
          None,       \* no session
          Torn,       \* a string written by two goroutines at once
          MaxAge,     \* DefaultMaxDuration, in clock units
          Buttons,    \* the buttons that users press
          Careful     \* chats that reopen Music only when its last session is gone

AllButtons == {"open", "refresh", "verb", "leave"}

ASSUME NoneAssumption == None \notin Updates
ASSUME TracksAssumption == NoTrack \notin Tracks /\ Torn \notin Tracks \cup {NoTrack}
ASSUME MaxAgeAssumption == MaxAge \in Nat
ASSUME ButtonsAssumption == Buttons \subseteq AllButtons
ASSUME CarefulAssumption == Careful \subseteq Chats

VARIABLES active,     \* Manager.active: the session of each chat
          run,        \* the session's goroutine
          cancelled,  \* sessions whose context is cancelled
          age,        \* time since the session started
          trackID,    \* session.trackID
          pc,         \* where the update's handler is
          chat,       \* the chat it was pressed in
          stage,      \* where a worker is in tickOnce
          sess,       \* the session a worker ticks, or Stop removed
          np,         \* the track a worker read from the player
          playing,    \* the track that is playing
          wired       \* SetBot was called

sessVars == <<run, cancelled, age, trackID>>
callVars == <<pc, chat>>
tickVars == <<stage, sess, np>>
vars == <<active, sessVars, callVars, tickVars, playing, wired>>

Sessions == Updates
Sounds == Tracks \cup {NoTrack}

Workers == {"run", "call"} \X Updates
Runner(s) == <<"run", s>>
Caller(u) == <<"call", u>>

Running(s) == run[s] \in {"wait", "tick"}

(* Whether a session was or will be started by u's handler. *)
Opening(u) == pc[u] \in {"open", "send", "start"}

Init ==
  /\ active = [c \in Chats |-> None]
  /\ run = [s \in Sessions |-> "none"]
  /\ cancelled = {}
  /\ age = [s \in Sessions |-> 0]
  /\ trackID = [s \in Sessions |-> NoTrack]
  /\ pc = [u \in Updates |-> "unsent"]
  /\ chat \in [Updates -> Chats]
  /\ stage = [w \in Workers |-> "idle"]
  /\ sess = [w \in Workers |-> IF w[1] = "run" THEN w[2] ELSE None]
  /\ np = [w \in Workers |-> NoTrack]
  /\ playing \in Sounds
  /\ wired = FALSE

Goto(u, where) == pc' = [pc EXCEPT ![u] = where]
---------------------------------------------------------------------------
(* The user presses a button; the router of callbacks.go stops the session *)
(* of the chat before every handler that is not Music's.  A refresh without*)
(* a session opens one, so care covers both.                               *)
Press(u, b) ==
  /\ pc[u] = "unsent"
  /\ chat[u] \in Careful /\ b \in {"open", "refresh"} =>
       \A s \in Sessions : chat[s] = chat[u] => ~Running(s) /\ ~Opening(s) /\ pc[s] # "refresh"
  /\ Goto(u, b)
  /\ UNCHANGED <<active, sessVars, chat, tickVars, playing, wired>>

(* handleMusicOpen reads the player, sends the photo message, and starts   *)
(* the session; it returns early if reading or sending fails.              *)
OpenReads(u) ==
  /\ pc[u] = "open"
  /\ np' = [np EXCEPT ![Caller(u)] = playing]
  /\ Goto(u, "send")
  /\ UNCHANGED <<active, sessVars, chat, stage, sess, playing, wired>>

OpenSends(u) ==
  /\ pc[u] = "send"
  /\ Goto(u, "start")
  /\ UNCHANGED <<active, sessVars, chat, tickVars, playing, wired>>

OpenFails(u) ==
  /\ pc[u] \in {"open", "send"}
  /\ np' = [np EXCEPT ![Caller(u)] = NoTrack]
  /\ Goto(u, "end")
  /\ UNCHANGED <<active, sessVars, chat, stage, sess, playing, wired>>

(* Manager.Start: the session that was active is cancelled and replaced.   *)
Start(u) ==
  LET c == chat[u] IN
  /\ pc[u] = "start"
  /\ cancelled' = cancelled \cup ({active[c]} \ {None})
  /\ active' = [active EXCEPT ![c] = u]
  /\ run' = [run EXCEPT ![u] = "wait"]
  /\ trackID' = [trackID EXCEPT ![u] = np[Caller(u)]]
  /\ np' = [np EXCEPT ![Caller(u)] = NoTrack]
  /\ Goto(u, "end")
  /\ UNCHANGED <<age, chat, stage, sess, playing, wired>>

(* handleMusicRefresh: IsActive, and the open path when it is not. *)
RefreshAsks(u) ==
  /\ pc[u] = "refresh"
  /\ Goto(u, IF active[chat[u]] = None THEN "open" ELSE "lookup")
  /\ UNCHANGED <<active, sessVars, chat, tickVars, playing, wired>>

(* musicVerb and the volume buttons: the player may change track. *)
VerbSucceeds(u) ==
  /\ pc[u] = "verb"
  /\ playing' \in Sounds
  /\ Goto(u, "lookup")
  /\ UNCHANGED <<active, sessVars, chat, tickVars, wired>>

VerbFails(u) ==
  /\ pc[u] = "verb"
  /\ Goto(u, "end")
  /\ UNCHANGED <<active, sessVars, chat, tickVars, playing, wired>>

(* Mutant: the lock is kept, and tickOnce waits for it forever. *)
Refresh_KeepsLock(u) ==
  LET s == active[chat[u]] IN
  /\ pc[u] = "lookup"
  /\ IF s = None
     THEN Goto(u, "end") /\ UNCHANGED <<stage, sess>>
     ELSE /\ Goto(u, "tick")
          /\ sess' = [sess EXCEPT ![Caller(u)] = s]
          /\ stage' = [stage EXCEPT ![Caller(u)] = "locked"]
  /\ UNCHANGED <<active, sessVars, chat, np, playing, wired>>

(* Manager.Refresh takes the session under the lock and ticks without it.  *)
Refresh(u) ==
  LET s == active[chat[u]] IN
  /\ pc[u] = "lookup"
  /\ IF s = None
     THEN Goto(u, "end") /\ UNCHANGED <<stage, sess>>
     ELSE /\ Goto(u, "tick")
          /\ sess' = [sess EXCEPT ![Caller(u)] = s]
          /\ stage' = [stage EXCEPT ![Caller(u)] = "read"]
  /\ UNCHANGED <<active, sessVars, chat, np, playing, wired>>

RefreshReturns(u) ==
  /\ pc[u] = "tick" /\ stage[Caller(u)] = "idle"
  /\ Goto(u, "end")
  /\ sess' = [sess EXCEPT ![Caller(u)] = None]
  /\ UNCHANGED <<active, sessVars, chat, stage, np, playing, wired>>

(* Mutant: a missing session is cancelled too. *)
StopRemoves_Unchecked(u) ==
  /\ pc[u] = "leave"
  /\ active' = [active EXCEPT ![chat[u]] = None]
  /\ sess' = [sess EXCEPT ![Caller(u)] = active[chat[u]]]
  /\ Goto(u, "cancel")
  /\ UNCHANGED <<sessVars, chat, stage, np, playing, wired>>

(* Mutant: the session is removed and not cancelled. *)
StopRemoves_Forgets(u) ==
  /\ pc[u] = "leave"
  /\ active' = [active EXCEPT ![chat[u]] = None]
  /\ Goto(u, "end")
  /\ UNCHANGED <<sessVars, chat, tickVars, playing, wired>>

(* Manager.Stop removes the session under the lock, then cancels it. *)
StopRemoves(u) ==
  LET s == active[chat[u]] IN
  /\ pc[u] = "leave"
  /\ active' = [active EXCEPT ![chat[u]] = None]
  /\ sess' = [sess EXCEPT ![Caller(u)] = s]
  /\ Goto(u, IF s = None THEN "end" ELSE "cancel")
  /\ UNCHANGED <<sessVars, chat, stage, np, playing, wired>>

StopCancels(u) ==
  /\ pc[u] = "cancel"
  /\ cancelled' = cancelled \cup {sess[Caller(u)]}
  /\ sess' = [sess EXCEPT ![Caller(u)] = None]
  /\ Goto(u, "end")
  /\ UNCHANGED <<active, run, age, trackID, chat, stage, np,
                 playing, wired>>

Handler(u) ==
  \/ OpenReads(u) \/ OpenSends(u) \/ OpenFails(u) \/ Start(u)
  \/ RefreshAsks(u) \/ VerbSucceeds(u) \/ VerbFails(u)
  \/ Refresh(u) \/ RefreshReturns(u) \/ StopRemoves(u) \/ StopCancels(u)
---------------------------------------------------------------------------
(* Manager.run: the goroutine waits for its context or its ticker.         *)
RunTicks(s) ==
  /\ run[s] = "wait" /\ age[s] <= MaxAge
  /\ run' = [run EXCEPT ![s] = "tick"]
  /\ stage' = [stage EXCEPT ![Runner(s)] = "read"]
  /\ UNCHANGED <<active, cancelled, age, trackID, callVars, sess, np,
                 playing, wired>>

RunTicked(s) ==
  /\ run[s] = "tick" /\ stage[Runner(s)] = "idle"
  /\ run' = [run EXCEPT ![s] = "wait"]
  /\ UNCHANGED <<active, cancelled, age, trackID, callVars, tickVars,
                 playing, wired>>

(* Mutant: the goroutine leaves its entry behind. *)
Evict_Kept(s) == UNCHANGED active

(* Manager.evict clears the chat's entry, whosever it is. *)
Evict(s) == active' = [active EXCEPT ![chat[s]] = None]

(* Mutant: no hard cap. *)
RunExits_Uncapped(s) ==
  /\ run[s] = "wait" /\ s \in cancelled
  /\ Evict(s)
  /\ run' = [run EXCEPT ![s] = "gone"]
  /\ UNCHANGED <<cancelled, age, trackID, callVars, tickVars, playing,
                 wired>>

(* The goroutine leaves: its context is cancelled, or it is too old, and   *)
(* then the deferred cancel releases the context.                          *)
RunExits(s) ==
  /\ run[s] = "wait"
  /\ s \in cancelled \/ age[s] > MaxAge
  /\ Evict(s)
  /\ cancelled' = cancelled \cup {s}
  /\ run' = [run EXCEPT ![s] = "gone"]
  /\ UNCHANGED <<age, trackID, callVars, tickVars, playing, wired>>
---------------------------------------------------------------------------
(* tickOnce.  A session's goroutine passes the session's context to every  *)
(* call, a handler its own, which lives as long as the daemon.             *)
ContextAlive(w) == w[1] = "run" => sess[w] \notin cancelled

At(w, where) == stage[w] = where

To(w, where) == stage' = [stage EXCEPT ![w] = where]

(* tickOnce returns, and what it read is gone. *)
TickEnds(w) == To(w, "idle") /\ np' = [np EXCEPT ![w] = NoTrack]

TickUnchanged == UNCHANGED <<active, run, cancelled, age, callVars, sess,
                             playing, wired>>

(* Another worker is writing the session's trackID. *)
OtherStores(w) == {v \in Workers \ {w} : At(v, "store") /\ sess[v] = sess[w]}

TickReads(w) ==
  /\ At(w, "read") /\ wired /\ ContextAlive(w)
  /\ np' = [np EXCEPT ![w] = playing]
  /\ To(w, "compare")
  /\ TickUnchanged /\ UNCHANGED trackID

(* No bot is wired, or the player cannot be read: the tick is skipped. *)
TickSkips(w) ==
  /\ At(w, "read")
  /\ TickEnds(w)
  /\ TickUnchanged /\ UNCHANGED trackID

SameTrack(w) ==
  /\ At(w, "compare")
  /\ \/ np[w] \in {NoTrack, trackID[sess[w]]}
     \/ \E v \in OtherStores(w) : np[v] = np[w]
  /\ To(w, "caption")
  /\ TickUnchanged /\ UNCHANGED <<np, trackID>>

NewTrack(w) ==
  /\ At(w, "compare")
  /\ np[w] # NoTrack
  /\ np[w] # trackID[sess[w]] \/ OtherStores(w) # {}
  /\ To(w, "artwork")
  /\ TickUnchanged /\ UNCHANGED <<np, trackID>>

(* tryEditMedia fetches again with artwork and sends it if the track is    *)
(* still the same.                                                         *)
ArtworkFetched(w) ==
  /\ At(w, "artwork") /\ ContextAlive(w) /\ playing = np[w]
  /\ To(w, "swap")
  /\ TickUnchanged /\ UNCHANGED <<np, trackID>>

ArtworkFails(w) ==
  /\ At(w, "artwork")
  /\ To(w, "caption")
  /\ TickUnchanged /\ UNCHANGED <<np, trackID>>

(* EditMessageMedia: Telegram answers that it shows the artwork ...        *)
PhotoSwaps(w) ==
  /\ At(w, "swap")
  /\ To(w, "store")
  /\ TickUnchanged /\ UNCHANGED <<np, trackID>>

(* ... or fails, or its answer is lost.                                    *)
SwapFails(w) ==
  /\ At(w, "swap")
  /\ To(w, "caption")
  /\ TickUnchanged /\ UNCHANGED <<np, trackID>>

TrackStored(w) ==
  /\ At(w, "store")
  /\ \E t \in {np[w]} \cup (IF OtherStores(w) # {} \/ trackID[sess[w]] = Torn
                           THEN {Torn} ELSE {}) :
       trackID' = [trackID EXCEPT ![sess[w]] = t]
  /\ TickEnds(w)
  /\ TickUnchanged

(* EditMessageCaption; a failure is only logged. *)
CaptionEdited(w) ==
  /\ At(w, "caption")
  /\ TickEnds(w)
  /\ TickUnchanged /\ UNCHANGED trackID

Tick(w) ==
  \/ TickReads(w) \/ TickSkips(w) \/ SameTrack(w) \/ NewTrack(w)
  \/ ArtworkFetched(w) \/ ArtworkFails(w) \/ PhotoSwaps(w) \/ SwapFails(w)
  \/ TrackStored(w) \/ CaptionEdited(w)
---------------------------------------------------------------------------
(* pingOnBoot finds the bot and wires it, if it finds it in time. *)
SetBot ==
  /\ ~wired /\ wired' = TRUE
  /\ UNCHANGED <<active, sessVars, callVars, tickVars, playing>>

(* The player advances on its own. *)
TrackChanges ==
  /\ playing' \in Sounds \ {playing}
  /\ UNCHANGED <<active, sessVars, callVars, tickVars, wired>>

(* Ages above MaxAge are one. *)
TimePasses ==
  /\ \E s \in Sessions : Running(s) /\ age[s] <= MaxAge
  /\ age' = [s \in Sessions |->
               IF Running(s) /\ age[s] <= MaxAge THEN age[s] + 1 ELSE age[s]]
  /\ UNCHANGED <<active, run, cancelled, trackID, callVars, tickVars,
                 playing, wired>>

Goroutine(s) == RunTicks(s) \/ RunTicked(s) \/ RunExits(s)

Next ==
  \/ \E u \in Updates :
       \/ \E b \in Buttons : Press(u, b)
       \/ Handler(u) \/ Goroutine(u) \/ Tick(Runner(u)) \/ Tick(Caller(u))
  \/ SetBot \/ TrackChanges \/ TimePasses

Spec == Init /\ [][Next]_vars

(* Every call ends by itself, and time does not stop; nobody presses       *)
(* anything, and neither player, bot nor network does what is hoped for.   *)
Fairness ==
  /\ \A u \in Updates :
       /\ WF_vars(Handler(u))
       /\ WF_vars(RunTicked(u)) /\ WF_vars(RunExits(u))
       /\ WF_vars(Tick(Runner(u))) /\ WF_vars(Tick(Caller(u)))
  /\ WF_vars(TimePasses)

FairSpec == Spec /\ Fairness
---------------------------------------------------------------------------
TypeOK ==
  /\ active \in [Chats -> Sessions \cup {None}]
  /\ run \in [Sessions -> {"none", "wait", "tick", "gone"}]
  /\ cancelled \subseteq Sessions
  /\ age \in [Sessions -> 0..(MaxAge + 1)]
  /\ trackID \in [Sessions -> Sounds \cup {Torn}]
  /\ pc \in [Updates -> AllButtons \cup {"unsent", "send", "start", "lookup",
                                        "tick", "cancel", "end"}]
  /\ chat \in [Updates -> Chats]
  /\ stage \in [Workers -> {"idle", "read", "compare", "artwork", "swap",
                            "store", "caption"}]
  /\ sess \in [Workers -> Sessions \cup {None}]
  /\ np \in [Workers -> Sounds]
  /\ playing \in Sounds
  /\ wired \in BOOLEAN

(* IsActive does not lie: the entry of a chat is a session of that chat    *)
(* whose goroutine runs and whose context is alive.  If not, Refresh would *)
(* tick a dead session and the dashboard would never be reopened.          *)
ActiveIsAlive ==
  \A c \in Chats : active[c] # None =>
    Running(active[c]) /\ active[c] \notin cancelled /\ chat[active[c]] = c

(* No refresher outlives its cap, stopped or not, reachable or not.        *)
EveryRefresherEnds == \A s \in Sessions : run[s] = "wait" ~> run[s] = "gone"

(* Every press is answered, with any number of ticks going on.             *)
EveryPressEnds == \A u \in Updates : pc[u] # "unsent" ~> pc[u] = "end"

(* A session nobody can stop: it runs, and the manager has forgotten it.   *)
Orphan(s) == Running(s) /\ s \notin cancelled /\ active[chat[s]] # s

(* In a chat that reopens Music only after the goroutine of the last session has *)
(* left, no session is ever out of Stop's reach, except those Stop has     *)
(* taken out itself and is about to cancel, whatever other chats do.       *)
CarefulNoOrphan ==
  \A s \in Sessions : chat[s] \in Careful /\ Orphan(s) =>
    \E u \in Updates : pc[u] = "cancel" /\ sess[Caller(u)] = s

(* What docs say and the code does not do.                                 *)
(*                                                                         *)
(* evict removes the entry "IF the entry still belongs to this goroutine"  *)
(* (refresher.go).                                                         *)
EvictIsOwn ==
  [][\A s \in Sessions : RunExits(s) => active[chat[s]] \in {s, None}]_vars
===========================================================================
