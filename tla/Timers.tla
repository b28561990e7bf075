------------------------------- MODULE Timers -------------------------------
(***************************************************************************)
(* What an agent expects of its timers: one that is pending fires when its *)
(* time is up, not earlier, and the clock does not pass it by.             *)
(***************************************************************************)
EXTENDS Integers

CONSTANT Timer

VARIABLES
  pending,   \* the timers that are set
  left       \* the time until each of them

vars == <<pending, left>>

\* The times of the timers T do not change.
Keep(T) == \A t \in T : left'[t] = left[t]

Init == pending \subseteq Timer /\ \A t \in pending : left[t] >= 0

\* Timers are set; none that is pending is moved.
Set ==
  /\ pending \subseteq pending'
  /\ Keep(pending)
  /\ \A t \in pending' \ pending : left'[t] >= 0

\* Timer t fires.  It may be set again, and others with it.
Fire(t) ==
  /\ t \in pending
  /\ left[t] = 0
  /\ pending \ {t} \subseteq pending'
  /\ Keep(pending \ {t})
  /\ \A u \in pending' \ (pending \ {t}) : left'[u] >= 0

\* All timers are dropped.
Clear == pending' = {}

\* The clock moves on by one tick.
Tick ==
  /\ \A t \in pending : left[t] > 0 /\ left'[t] = left[t] - 1
  /\ pending' = pending

Next == Set \/ (\E t \in pending : Fire(t)) \/ Clear \/ Tick

Spec == Init /\ [][Next]_vars

=============================================================================
