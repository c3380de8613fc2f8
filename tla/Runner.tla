------------------------------ MODULE Runner ------------------------------
(* Calls of macOS commands, internal/runner/runner.go over os/exec.  A     *)
(* goroutine makes one call at a time and is blocked in it: until the      *)
(* command ends, until it is killed at its deadline, or, after the kill of *)
(* a sudo, for as long as the command below sudo keeps the output pipes.   *)
(* Time counts in units of 15 seconds, for each call on its own.           *)
EXTENDS Integers

CONSTANTS Tasks,    \* goroutines that call commands
          Default   \* DefaultTimeout

ASSUME DefaultAssumption == Default \in Nat \ {0}

VARIABLE call   \* the call each goroutine is blocked in

NoCall == [child |-> "none"]

(* What the code asks for: the kind of command, a change it is to make     *)
(* (Devices), the time it needs to do its work, the deadline in the        *)
(* caller's context (0 for none), whether that context also held the call  *)
(* before, whether it runs below sudo, what the caller does when it fails, *)
(* and when the caller needs it at all.                                    *)
Command(kind, change) ==
  [kind |-> kind, change |-> change, needs |-> 0, own |-> 0, shares |-> FALSE,
   sudo |-> FALSE, onError |-> "stop", when |-> "always"]

Needing(n, c) == [c EXCEPT !.needs = n]
Within(own, c) == [c EXCEPT !.own = own]
Sharing(c) == [c EXCEPT !.shares = TRUE]
Sudo(c) == [c EXCEPT !.sudo = TRUE]

(* withTimeout: the default cap, unless the caller's context has its own. *)
Cap(c) == IF c.own = 0 THEN Default ELSE c.own

(* exec.Cmd.Start, with v what the caller knew when it composed the call,  *)
(* after a call that took until then.                                      *)
Started(c, v, then) ==
  [child |-> "running", cmd |-> c, arg |-> v,
   age |-> IF c.shares THEN then ELSE 0, acted |-> FALSE]

Running(t) == call[t].child = "running"
Clings(t) == call[t].child = "descendant"

(* The command does its work once, at some moment before it ends.  What    *)
(* comes of it is up to the Mac (Devices).                                 *)
Works(t) == Running(t) /\ ~call[t].acted

(* Exit status 0: the command did its work, which need not have had the    *)
(* effect it was meant to have.                                            *)
EndsWell(t) ==
  /\ Running(t) /\ call[t].acted
  /\ call[t].age >= call[t].cmd.needs

(* Another exit status, or a command that could not be started. *)
EndsBadly(t) == Running(t)

(* Mutant: a call without a deadline of its own is never killed. *)
Overdue_OwnOnly(t) ==
  /\ Running(t) /\ call[t].cmd.own # 0
  /\ call[t].age = Cap(call[t].cmd)

(* CommandContext kills the child at the deadline, whether or not it has   *)
(* done its work. *)
Overdue(t) ==
  /\ Running(t)
  /\ call[t].age = Cap(call[t].cmd)

(* run and ExecCombined wait for the pipes too; what sudo started may hold *)
(* them after sudo was killed.                                             *)
MayCling(t) == call[t].cmd.sudo

Older(t) ==
  /\ Running(t) /\ call[t].age < Cap(call[t].cmd)
  /\ call' = [call EXCEPT ![t].age = @ + 1]
===========================================================================
