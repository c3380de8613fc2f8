------------------------------- MODULE Boot -------------------------------
(* How the daemon is started and kept alive: cmd/macontrol/daemon.go, the  *)
(* LaunchAgent of service.go and assets.go, and what the setup wizard does *)
(* about it after it has stored the items of Secrets.                      *)
(*                                                                         *)
(* launchd runs the agent's daemon at once when the agent is loaded, at    *)
(* login, and again whenever it exits; `macontrol run` runs one by hand.   *)
(* There is at most one daemon at a time.                                  *)
EXTENDS Secrets, Sequences

VARIABLES plist,     \* the plist is in ~/Library/LaunchAgents
          loaded,    \* launchd has the agent
          todo,      \* what is left of each service command or wizard
          proc,      \* who runs the daemon, and how far it is
          unread,    \* history: setups whose look for a token failed
          late,      \* history: users revoked since the daemon's last load
          pristine,  \* history: only undisturbed setups touched the machine
          missed     \* history: the agent's daemon missed an item

secretVars == <<token, list, job, daemon, revoked>>
agentVars == <<plist, loaded, todo>>
bootVars == <<secretVars, agentVars, proc, unread, late, pristine, missed>>

(* by: whether the agent or a hand started it.  bot: the client is there.  *)
(* ping: the goroutine of pingOnBoot, which also wires the Music refresher.*)
NoProc == [by |-> "none", bot |-> FALSE, ping |-> "none"]

BootInit ==
  /\ Init
  /\ plist \in BOOLEAN /\ loaded \in BOOLEAN
  /\ todo = [c \in Commands |-> <<>>]
  /\ proc = NoProc
  /\ unread = {} /\ late = {}
  /\ pristine = (token = NoItem /\ list = NoItem /\ ~plist /\ ~loaded)
  /\ missed = FALSE

(* The agent's steps of each service command.  A failed bootout does not   *)
(* keep uninstall from removing the plist.                                 *)
Service(kind) ==
  CASE kind = "install" -> <<"write", "bootstrap">>
    [] kind = "uninstall" -> <<"bootout", "remove">>
    [] kind = "start" -> <<"bootstrap">>
    [] kind = "stop" -> <<"bootout">>

ServiceKinds == {"install", "uninstall", "start", "stop"}

(* The answers to "Install LaunchAgent?" and "Start the daemon now?".      *)
Wizard ==
  {<<>>, Service("install"), Service("install") \o Service("start")}

Engaged(c) == Busy(c) \/ todo[c] # <<>>

MayRun(c) ==
  /\ ~Engaged(c)
  /\ \A d \in Commands : Engaged(d) => c \notin Alone /\ d \notin Alone

Undisturbed(c, kind) == c \in Alone /\ kind \in {"setup", "reconfigure"}
---------------------------------------------------------------------------
(* Commands on the Keychain, with what the history notes of them. *)
Begins(c, kind, u) ==
  /\ MayRun(c)
  /\ Invoke(c, kind, u)
  /\ unread' = unread \ {c}
  /\ pristine' = (pristine /\ Undisturbed(c, kind))
  /\ UNCHANGED <<agentVars, proc, late, missed>>

(* Mutant: a token that is found does not end the setup. *)
Looks_On(c) ==
  /\ Check(c)
  /\ UNCHANGED <<agentVars, proc, unread, late, pristine, missed>>

(* existingTokenRefusesOverwrite: the Keychain is read ... *)
Looks(c) ==
  /\ Check(c) /\ (Busy(c)' = (token = NoItem))
  /\ UNCHANGED <<agentVars, proc, unread, late, pristine, missed>>

(* ... or cannot be, which counts as no token. *)
LooksInVain(c) ==
  /\ Check(c) /\ Busy(c)'
  /\ unread' = unread \cup {c}
  /\ UNCHANGED <<agentVars, proc, late, pristine, missed>>

Answers(c) ==
  /\ \E t \in Tokens, l \in Lists \ {{}} : AnswerSetup(c, t, l)
  /\ UNCHANGED <<agentVars, proc, unread, late, pristine, missed>>

Works(c) ==
  /\ \/ Fails(c) \/ \E t \in Tokens : AnswerToken(c, t)
     \/ ReadToken(c) \/ CopyList(c)
     \/ ReadToAdd(c) \/ ReadToRemove(c) \/ ClearToken(c)
  /\ UNCHANGED <<agentVars, proc, unread, late, pristine, missed>>

(* Mutant: setup installs the agent as soon as there is a token. *)
StoresToken_Installs(c) ==
  /\ StoreToken(c)
  /\ plist' = TRUE /\ loaded' = TRUE
  /\ UNCHANGED <<todo, proc, unread, late, pristine, missed>>

StoresToken(c) ==
  /\ StoreToken(c)
  /\ UNCHANGED <<agentVars, proc, unread, late, pristine, missed>>

(* Setup goes on with the agent when both items are stored. *)
Stores(c) ==
  /\ StoreList(c) \/ ClearList(c)
  /\ IF Is(c, "setup") \/ Is(c, "reconfigure")
     THEN \E steps \in Wizard : todo' = [todo EXCEPT ![c] = steps]
     ELSE UNCHANGED todo
  /\ late' = late \cup (revoked' \ revoked)
  /\ UNCHANGED <<plist, loaded, proc, unread, pristine, missed>>
---------------------------------------------------------------------------
(* The LaunchAgent. *)
RunService(c, kind) ==
  /\ MayRun(c)
  /\ todo' = [todo EXCEPT ![c] = Service(kind)]
  /\ pristine' = FALSE
  /\ UNCHANGED <<secretVars, plist, loaded, proc, unread, late, missed>>

Comes(c, step) ==
  /\ ~Busy(c) /\ todo[c] # <<>> /\ Head(todo[c]) = step
  /\ todo' = [todo EXCEPT ![c] = Tail(@)]

WritePlist(c) ==
  /\ Comes(c, "write")
  /\ plist' = TRUE
  /\ UNCHANGED <<secretVars, loaded, proc, unread, late, pristine, missed>>

(* launchctl bootstrap fails if the agent is loaded, or has no plist. *)
Bootstrap(c) ==
  /\ Comes(c, "bootstrap")
  /\ loaded' = (loaded \/ plist)
  /\ UNCHANGED <<secretVars, plist, proc, unread, late, pristine, missed>>

(* The end of the daemon, which takes all it had in memory with it. *)
Dies == daemon' = Down /\ proc' = NoProc

(* launchctl bootout ends the agent's daemon, if it is loaded. *)
Bootout(c) ==
  /\ Comes(c, "bootout")
  /\ loaded' = FALSE
  /\ IF proc.by = "agent" THEN Dies ELSE UNCHANGED <<daemon, proc>>
  /\ UNCHANGED <<token, list, job, revoked, plist, unread, late, pristine, missed>>

RemovePlist(c) ==
  /\ Comes(c, "remove")
  /\ plist' = FALSE
  /\ UNCHANGED <<secretVars, loaded, proc, unread, late, pristine, missed>>

(* Any of these may fail.  Without a plist install does not bootstrap. *)
StepFails(c) ==
  /\ ~Busy(c) /\ todo[c] # <<>>
  /\ todo' = [todo EXCEPT ![c] =
                IF Head(@) = "write" THEN Tail(Tail(@)) ELSE Tail(@)]
  /\ UNCHANGED <<secretVars, plist, loaded, proc, unread, late, pristine, missed>>

(* The user logs out, or the Mac restarts, and logs in; commands have ended*)
(* by then. *)
Relogin ==
  /\ \A c \in Commands : ~Engaged(c)
  /\ Dies
  /\ loaded' = plist
  /\ UNCHANGED <<token, list, job, revoked, plist, todo, unread, late,
                 pristine, missed>>
---------------------------------------------------------------------------
(* runDaemon: config.Load, the token first ... *)
Starts(who) ==
  /\ who = "agent" => loaded
  /\ LoadToken
  /\ proc' = [NoProc EXCEPT !.by = who]
  /\ UNCHANGED <<agentVars, unread, late, pristine, missed>>

(* ... then the whitelist, which is what Allows asks from then on; and the *)
(* goroutine of pingOnBoot. *)
Loads ==
  /\ LoadList
  /\ proc' = [proc EXCEPT !.ping = "waiting"]
  /\ late' = {}
  /\ UNCHANGED <<agentVars, unread, pristine, missed>>

(* An item that is not there ends it; launchd will try again. *)
MissesToken ==
  /\ daemon.step = "down" /\ loaded /\ token = NoItem
  /\ missed' = TRUE
  /\ UNCHANGED <<secretVars, agentVars, proc, unread, late, pristine>>

MissesList ==
  /\ daemon.step = "loading" /\ list = NoItem
  /\ Dies
  /\ missed' = (missed \/ proc.by = "agent")
  /\ UNCHANGED <<token, list, job, revoked, agentVars, unread, late, pristine>>

(* bot.Start has made the client, and polls for updates. *)
Connects ==
  /\ daemon.step = "up" /\ ~proc.bot
  /\ proc' = [proc EXCEPT !.bot = TRUE]
  /\ UNCHANGED <<secretVars, agentVars, unread, late, pristine, missed>>

(* pingOnBoot looks for the client 50 times; with it, it calls SetBot and  *)
(* pings the members, without it nothing more.                             *)
Pings ==
  /\ proc.ping = "waiting"
  /\ proc' = [proc EXCEPT !.ping = IF proc.bot THEN "wired" ELSE "gave up"]
  /\ UNCHANGED <<secretVars, agentVars, unread, late, pristine, missed>>

(* A load that fails otherwise, a token that Telegram rejects, a signal.   *)
Exits ==
  /\ Exit /\ proc' = NoProc
  /\ UNCHANGED <<agentVars, unread, late, pristine, missed>>

BootNext ==
  \/ \E c \in Commands :
       \/ \E kind \in Kinds, u \in Users : Begins(c, kind, u)
       \/ Looks(c) \/ LooksInVain(c) \/ Answers(c) \/ Works(c)
       \/ StoresToken(c) \/ Stores(c)
       \/ \E kind \in ServiceKinds : RunService(c, kind)
       \/ WritePlist(c) \/ Bootstrap(c) \/ Bootout(c) \/ RemovePlist(c)
       \/ StepFails(c)
  \/ Relogin
  \/ \E who \in {"agent", "hand"} : Starts(who)
  \/ Loads \/ MissesToken \/ MissesList \/ Connects \/ Pings \/ Exits

BootSpec == BootInit /\ [][BootNext]_bootVars
---------------------------------------------------------------------------
(* A user taken off the whitelist by a command run alone is served no      *)
(* longer than by the daemon that runs at that moment: any later start,    *)
(* by launchd or by hand, is without the user.                             *)
ServedUntilRestart == daemon.allowed \cap revoked \subseteq late

(* A setup without --reconfigure that nothing disturbs replaces no token,  *)
(* unless its own look for one failed.                                     *)
SetupSparesTheToken ==
  [][\A c \in Alone :
       StoreToken(c) /\ Is(c, "setup") /\ token # NoItem => c \in unread]_bootVars

(* On a machine that only undisturbed setups have touched, broken off or   *)
(* not, launchd never starts a daemon that misses an item: the agent comes *)
(* after both are stored.                                                  *)
AgentFindsItsItems == pristine => ~missed
===========================================================================
