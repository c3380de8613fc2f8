----------------------------- MODULE ShortMap -----------------------------
(* The side table behind the short ids of buttons,                         *)
(* internal/telegram/callbacks/shortmap.go.  Ids are random and do not     *)
(* collide, so an id is modelled by its value and the instant of its Put.  *)
(* Entries of one instant expire together; the table is kept as the        *)
(* instants whose entries have been deleted again.  That Get deletes an    *)
(* expired entry a little before the janitor would shows nowhere.          *)
EXTENDS Integers

CONSTANTS SweepEvery,   \* janitor period (ttl/2), in clock units
          MaxTime       \* bound: the clock stops here

ASSUME SweepAssumption == SweepEvery \in Nat \ {0}
ASSUME MaxTimeAssumption == MaxTime \in Nat

VARIABLES now,      \* the clock
          deleted,  \* instants whose entries were deleted
          sweepAt   \* when the janitor's ticker fires next

mapVars == <<now, deleted, sweepAt>>

TTL == 2 * SweepEvery

(* An entry lives for one ttl from its Put, whatever its use. *)
Expired(t) == now - t > TTL

MapInit ==
  /\ now = 0
  /\ deleted = {}
  /\ sweepAt = SweepEvery

(* ShortMap.Get finds the entry of an id that was put at t. *)
Holds(t) == t \notin deleted /\ ~Expired(t)

(* Mutant: the janitor forgets an entry at its first tick after half a ttl.*)
Sweep_Eager ==
  /\ now = sweepAt
  /\ deleted' = deleted \cup {t \in 0..now : now - t >= SweepEvery}
  /\ sweepAt' = now + SweepEvery
  /\ UNCHANGED now

(* Mutant: a ticker of a whole ttl instead of half. *)
Sweep_Slow ==
  /\ now = sweepAt
  /\ deleted' = deleted \cup {t \in 0..now : Expired(t)}
  /\ sweepAt' = now + TTL
  /\ UNCHANGED now

(* ShortMap.Sweep, on the janitor's tick. *)
Sweep ==
  /\ now = sweepAt
  /\ deleted' = deleted \cup {t \in 0..now : Expired(t)}
  /\ sweepAt' = now + SweepEvery
  /\ UNCHANGED now

(* The clock; the janitor is punctual, as its lock is never held long. *)
Pass ==
  /\ now < MaxTime /\ now < sweepAt
  /\ now' = now + 1
  /\ UNCHANGED <<deleted, sweepAt>>

MapTypeOK ==
  /\ now \in 0..MaxTime
  /\ deleted \subseteq 0..now
  /\ sweepAt \in now..(now + SweepEvery)
===========================================================================
