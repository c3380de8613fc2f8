------------------------------ MODULE Secrets -----------------------------
(* The bot token and the whitelist in the Keychain (internal/keychain),    *)
(* the commands that change them (cmd/macontrol: setup, token, whitelist), *)
(* and the daemon, which loads them as it starts (internal/config).        *)
(*                                                                         *)
(* Commands are processes of their own and the Keychain has no lock across *)
(* calls of security(1): what a command read may be gone when it writes.   *)
(* Any call may fail, as the Keychain may be locked, and a command may be  *)
(* interrupted.  Commands of Alone are those run while no other one is.    *)
EXTENDS Integers

CONSTANTS Users, Tokens,
          NoItem,     \* an absent Keychain item, or an unused field
          Garbled,    \* a whitelist that does not parse
          Commands,   \* bound: commands run at once
          Alone

ASSUME ItemAssumption ==
  /\ NoItem \notin Tokens \cup {Garbled}
  /\ \A users \in SUBSET Users : users # NoItem /\ users # Garbled
ASSUME AloneAssumption == Alone \subseteq Commands

VARIABLES token,    \* the item of ServiceToken
          list,     \* the item of ServiceWhitelist
          job,      \* what each command is doing
          daemon,   \* the daemon and what it has loaded
          revoked   \* history: users a command run alone took off the list

vars == <<token, list, job, daemon, revoked>>

Lists == {Garbled} \cup SUBSET Users

(* parseUserIDs; no item at all is an empty whitelist. *)
Members(l) == IF l \in {NoItem, Garbled} THEN {} ELSE l

Kinds == {"setup", "reconfigure", "token set", "token clear", "token reauth",
          "add", "remove", "clear"}

Idle == [step |-> "idle", kind |-> "clear", user |-> NoItem,
         token |-> NoItem, list |-> NoItem]

Down == [step |-> "down", token |-> NoItem, allowed |-> {}]

Init ==
  /\ token \in Tokens \cup {NoItem}
  /\ list \in {NoItem, Garbled} \cup ((SUBSET Users) \ {{}})
  /\ job = [c \in Commands |-> Idle]
  /\ daemon = Down
  /\ revoked = {}

At(c, step) == job[c].step = step
Is(c, kind) == job[c].kind = kind
Busy(c) == ~At(c, "idle")

Goto(c, step) == job' = [job EXCEPT ![c].step = step]

(* It goes on to store a list, which may be the one that it read. *)
WillStoreList(c, l) ==
  job' = [job EXCEPT ![c].step = "store list", ![c].list = l]

WillStoreToken(c, t) ==
  job' = [job EXCEPT ![c].step = "store token", ![c].token = t]

Ends(c) == job' = [job EXCEPT ![c] = Idle]
---------------------------------------------------------------------------
First(kind) ==
  CASE kind = "setup" -> "check"
    [] kind = "token reauth" -> "read token"
    [] kind \in {"add", "remove"} -> "read list"
    [] OTHER -> "prompt"

Invoke(c, kind, u) ==
  /\ At(c, "idle")
  /\ \A d \in Commands : Busy(d) => c \notin Alone /\ d \notin Alone
  /\ job' = [job EXCEPT ![c] =
               [Idle EXCEPT !.step = First(kind), !.kind = kind, !.user = u]]
  /\ UNCHANGED <<token, list, daemon, revoked>>

(* fatalf, a refused prompt, Ctrl-C: what has been stored remains.  A call *)
(* that was cut off after it took effect is one that succeeded before.     *)
Fails(c) ==
  /\ Busy(c)
  /\ Ends(c)
  /\ UNCHANGED <<token, list, daemon, revoked>>

(* existingTokenRefusesOverwrite.  A read that fails finds no token. *)
Check(c) ==
  /\ At(c, "check")
  /\ \/ Goto(c, "prompt")
     \/ token # NoItem /\ Ends(c)
  /\ UNCHANGED <<token, list, daemon, revoked>>

(* The dialog up to a token that verifies.  Setup stores additional ids as *)
(* they were typed.                                                        *)
AnswerSetup(c, t, l) ==
  /\ At(c, "prompt") /\ (Is(c, "setup") \/ Is(c, "reconfigure"))
  /\ job' = [job EXCEPT ![c].step = "store token", ![c].token = t, ![c].list = l]
  /\ UNCHANGED <<token, list, daemon, revoked>>

AnswerToken(c, t) ==
  /\ At(c, "prompt") /\ Is(c, "token set")
  /\ WillStoreToken(c, t)
  /\ UNCHANGED <<token, list, daemon, revoked>>

(* tokenReauth reads the token, to store it again under a new ACL ... *)
ReadToken(c) ==
  /\ At(c, "read token") /\ token # NoItem
  /\ WillStoreToken(c, token)
  /\ UNCHANGED <<token, list, daemon, revoked>>

StoreToken(c) ==
  /\ At(c, "store token")
  /\ token' = job[c].token
  /\ CASE Is(c, "token set") -> Ends(c)
       [] Is(c, "token reauth") -> Goto(c, "copy list")
       [] OTHER -> Goto(c, "store list")
  /\ UNCHANGED <<list, daemon, revoked>>

(* ... and then the whitelist, parsed or not, if there is one. *)
CopyList(c) ==
  /\ At(c, "copy list")
  /\ IF list = NoItem THEN Ends(c) ELSE WillStoreList(c, list)
  /\ UNCHANGED <<token, list, daemon, revoked>>

(* Mutant: a list that cannot be read is taken for an empty one. *)
ReadToAdd_Forgives(c) ==
  /\ At(c, "read list") /\ Is(c, "add")
  /\ IF job[c].user \in Members(list)
     THEN Ends(c)
     ELSE WillStoreList(c, Members(list) \cup {job[c].user})
  /\ UNCHANGED <<token, list, daemon, revoked>>

(* whitelistAdd reads the list, which must parse ... *)
ReadToAdd(c) ==
  /\ At(c, "read list") /\ Is(c, "add")
  /\ list # Garbled
  /\ IF job[c].user \in Members(list)
     THEN Ends(c)
     ELSE WillStoreList(c, Members(list) \cup {job[c].user})
  /\ UNCHANGED <<token, list, daemon, revoked>>

(* Mutant: the last entry may be removed. *)
ReadToRemove_Last(c) ==
  /\ At(c, "read list") /\ Is(c, "remove")
  /\ job[c].user \in Members(list)
  /\ WillStoreList(c, Members(list) \ {job[c].user})
  /\ UNCHANGED <<token, list, daemon, revoked>>

(* Mutant: the list read is stored instead of the one filtered. *)
ReadToRemove_Unfiltered(c) ==
  /\ At(c, "read list") /\ Is(c, "remove")
  /\ job[c].user \in Members(list) /\ Members(list) # {job[c].user}
  /\ WillStoreList(c, Members(list))
  /\ UNCHANGED <<token, list, daemon, revoked>>

(* ... as does whitelistRemove, which refuses to remove the last entry. *)
ReadToRemove(c) ==
  /\ At(c, "read list") /\ Is(c, "remove")
  /\ job[c].user \in Members(list) /\ Members(list) # {job[c].user}
  /\ WillStoreList(c, Members(list) \ {job[c].user})
  /\ UNCHANGED <<token, list, daemon, revoked>>

(* The users whom a command means to put on the list, and to take off it.  *)
Invited(c) ==
  CASE Is(c, "add") -> {job[c].user}
    [] Is(c, "setup") \/ Is(c, "reconfigure") -> Members(job[c].list)
    [] OTHER -> {}

Expelled(c) ==
  CASE Is(c, "remove") -> {job[c].user}
    [] Is(c, "setup") \/ Is(c, "reconfigure") -> Users \ Members(job[c].list)
    [] Is(c, "clear") -> Users
    [] OTHER -> {}

Revokes(c) ==
  revoked' = (revoked \ Invited(c)) \cup (IF c \in Alone THEN Expelled(c) ELSE {})

(* Client.Set of the whitelist, the last thing a command does. *)
StoreList(c) ==
  /\ At(c, "store list")
  /\ list' = job[c].list
  /\ Revokes(c)
  /\ Ends(c)
  /\ UNCHANGED <<token, daemon>>

(* tokenClear and whitelistClear, confirmed. *)
ClearToken(c) ==
  /\ At(c, "prompt") /\ Is(c, "token clear")
  /\ token' = NoItem
  /\ Ends(c)
  /\ UNCHANGED <<list, daemon, revoked>>

ClearList(c) ==
  /\ At(c, "prompt") /\ Is(c, "clear")
  /\ list' = NoItem
  /\ Revokes(c)
  /\ Ends(c)
  /\ UNCHANGED <<token, daemon>>
---------------------------------------------------------------------------
(* Mutant: an absent token will do. *)
LoadToken_Any ==
  /\ daemon.step = "down"
  /\ daemon' = [Down EXCEPT !.step = "loading", !.token = token]
  /\ UNCHANGED <<token, list, job, revoked>>

(* Loader.Load as the daemon starts: the token, ... *)
LoadToken ==
  /\ daemon.step = "down" /\ token # NoItem
  /\ daemon' = [Down EXCEPT !.step = "loading", !.token = token]
  /\ UNCHANGED <<token, list, job, revoked>>

(* ... then the whitelist, which must parse and not be empty. *)
LoadList ==
  /\ daemon.step = "loading" /\ Members(list) # {}
  /\ daemon' = [daemon EXCEPT !.step = "up", !.allowed = Members(list)]
  /\ UNCHANGED <<token, list, job, revoked>>

(* A load that fails, a stop, a crash; it may be started again. *)
Exit ==
  /\ daemon.step # "down"
  /\ daemon' = Down
  /\ UNCHANGED <<token, list, job, revoked>>

Command(c) ==
  \/ \E kind \in Kinds, u \in Users : Invoke(c, kind, u)
  \/ Fails(c) \/ Check(c)
  \/ \E t \in Tokens :
       AnswerToken(c, t) \/ \E l \in Lists \ {{}} : AnswerSetup(c, t, l)
  \/ ReadToken(c) \/ StoreToken(c) \/ CopyList(c) \/ ReadToAdd(c)
  \/ ReadToRemove(c) \/ StoreList(c) \/ ClearToken(c) \/ ClearList(c)

Next == (\E c \in Commands : Command(c)) \/ LoadToken \/ LoadList \/ Exit

Spec == Init /\ [][Next]_vars
---------------------------------------------------------------------------
Steps == {"idle", "check", "prompt", "read token", "store token", "read list",
          "copy list", "store list"}

TypeOK ==
  /\ token \in Tokens \cup {NoItem}
  /\ list \in {NoItem} \cup Lists
  /\ job \in [Commands -> [step : Steps, kind : Kinds, user : Users \cup {NoItem},
                           token : Tokens \cup {NoItem}, list : {NoItem} \cup Lists]]
  /\ daemon \in [step : {"loading", "up"}, token : Tokens, allowed : SUBSET Users]
               \cup {Down}
  /\ revoked \in SUBSET Users

(* However commands overlap or break off, removals never leave a whitelist *)
(* with nobody on it: only whitelist clear locks everyone out.             *)
NeverEmptied == list # {}

(* A user whom a command run alone took off the whitelist comes back only  *)
(* by a command that names the user, whatever overlaps or breaks off since.*)
RevokedStayOut == Members(list) \cap revoked = {}

(* What a command does to the items as they are when it writes: what its   *)
(* name says, not what suited the items as they once were or as a failed   *)
(* read made them look.                                                    *)
Exact(c) ==
  /\ StoreList(c) =>
       CASE Is(c, "add") ->
              list # Garbled /\ list' = Members(list) \cup {job[c].user}
         [] Is(c, "remove") -> list' = Members(list) \ {job[c].user}
         [] Is(c, "token reauth") -> list' = list
         [] OTHER -> TRUE
  /\ StoreToken(c) /\ Is(c, "token reauth") => token' = token

(* Commands run alone lose no update, and token reauth changes no value.   *)
AloneIsExact == [][\A c \in Alone : Exact(c)]_vars
===========================================================================
