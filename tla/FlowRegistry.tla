--------------------------- MODULE FlowRegistry ---------------------------
(* The per-chat store of active flows, internal/telegram/flows/registry.go.*)
(*                                                                         *)
(* The code keeps, per chat, the flow and the instant of its last use; the *)
(* model keeps the flow and how long ago that was, in units of which       *)
(* SweepEvery make up one period of the janitor (ttl/2).  A chat without   *)
(* an entry has idle 0, so that states the code cannot tell apart are one. *)
(*                                                                         *)
(* A flow object is named by the Telegram update whose handler built it:   *)
(* every opener in internal/telegram/handlers builds one flow per call.    *)
EXTENDS Integers

CONSTANTS Chats,        \* chats of whitelisted users
          Updates,      \* Telegram updates, and so the flows they may open
          NoFlow,       \* an empty slot
          SweepEvery    \* janitor period, in clock units

ASSUME NoFlowAssumption == NoFlow \notin Updates
ASSUME SweepEveryAssumption == SweepEvery \in Nat \ {0}

VARIABLES live,     \* the active flow of each chat
          idle,     \* time since its lastTouch
          sweepIn   \* time until the janitor's ticker fires

regVars == <<live, idle, sweepIn>>

(* The janitor ticks every ttl/2. *)
TTL == 2 * SweepEvery

Expired(c) == idle[c] > TTL

Vacate(cs) ==
  /\ live' = [c \in Chats |-> IF c \in cs THEN NoFlow ELSE live[c]]
  /\ idle' = [c \in Chats |-> IF c \in cs THEN 0 ELSE idle[c]]

(* NewRegistry and StartJanitor: no entry, a full period to the first tick.*)
RegInit ==
  /\ live = [c \in Chats |-> NoFlow]
  /\ idle = [c \in Chats |-> 0]
  /\ sweepIn = SweepEvery

(* Registry.Install: last write wins, whatever the slot held. *)
Install(c, f) ==
  /\ live' = [live EXCEPT ![c] = f]
  /\ idle' = [idle EXCEPT ![c] = 0]
  /\ UNCHANGED sweepIn

(* Registry.Active, found and within the ttl: the entry is touched. *)
ActiveHit(c) ==
  /\ live[c] # NoFlow
  /\ ~Expired(c)
  /\ idle' = [idle EXCEPT ![c] = 0]
  /\ UNCHANGED <<live, sweepIn>>

(* Registry.Active, absent or expired: an expired entry is deleted. *)
ActiveMiss(c) ==
  /\ live[c] = NoFlow \/ Expired(c)
  /\ Vacate({c})
  /\ UNCHANGED sweepIn

(* Registry.Cancel, and Registry.Finish which delegates to it: whatever    *)
(* flow the chat has is removed, expired or not.                           *)
Cancel(c) ==
  /\ Vacate({c})
  /\ UNCHANGED sweepIn

Finish(c) == Cancel(c)

(* Mutant: a ticker of a whole ttl instead of half. *)
Sweep_Slow ==
  /\ sweepIn = 0
  /\ Vacate({c \in Chats : Expired(c)})
  /\ sweepIn' = TTL

(* Mutant: the janitor looks entries up with Active, which touches them. *)
Sweep_Touches ==
  /\ sweepIn = 0
  /\ live' = [c \in Chats |-> IF Expired(c) THEN NoFlow ELSE live[c]]
  /\ idle' = [c \in Chats |-> 0]
  /\ sweepIn' = SweepEvery

(* Registry.Sweep, on the janitor's tick. *)
Sweep ==
  /\ sweepIn = 0
  /\ Vacate({c \in Chats : Expired(c)})
  /\ sweepIn' = SweepEvery

(* The clock.  The janitor does nothing but sweep and mu is never held     *)
(* across a call, so a due sweep runs before time passes again.            *)
Pass ==
  /\ sweepIn > 0
  /\ sweepIn' = sweepIn - 1
  /\ idle' = [c \in Chats |-> IF live[c] = NoFlow THEN 0 ELSE idle[c] + 1]
  /\ UNCHANGED live

RegNext ==
  \/ \E c \in Chats :
       \/ \E f \in Updates : Install(c, f)
       \/ ActiveHit(c)
       \/ ActiveMiss(c)
       \/ Cancel(c)
  \/ Sweep
  \/ Pass

RegSpec == RegInit /\ [][RegNext]_regVars

RegTypeOK ==
  /\ live \in [Chats -> Updates \cup {NoFlow}]
  /\ idle \in [Chats -> Nat]
  /\ sweepIn \in 0..SweepEvery

(* No entry outlives its last use by more than one and a half ttl, however *)
(* uses, cancellations and the ticks of the janitor fall together: what    *)
(* StartJanitor says of its period.                                        *)
IdleBound == \A c \in Chats : live[c] # NoFlow => idle[c] <= TTL + SweepEvery

(* Why: what an entry has left before the next sweep bounds its idleness.  *)
IdleInv ==
  \A c \in Chats : live[c] # NoFlow => idle[c] + sweepIn <= TTL + SweepEvery
===========================================================================
