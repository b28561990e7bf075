--------------------------- MODULE OLSRTimerQueue ---------------------------
(***************************************************************************)
(* The timers of an OLSR agent.  All of them share one simulator event:    *)
(* timerQueuePtr maps times to timers, timerMessage is scheduled for the   *)
(* first of them, and handleMessage fires whatever is due when it arrives. *)
(* The simulator keeps timerMessage's time; nothing keeps the times in the *)
(* map but the agent's care to reschedule it.                              *)
(*                                                                         *)
(* A timer is in the map at most once: resched removes it first, expire is *)
(* called after it has been taken out.                                     *)
(***************************************************************************)
EXTENDS Integers

CONSTANTS
  Periodic,    \* helloTimer, tcTimer and midTimer
  Mid,         \* midTimer
  Passing,     \* timers of messages and tuples, made and deleted by handlers
  HelloIval,   \* hello_ival(), after which all three fire first
  MaxDelay,    \* longest time a timer is set to
  InMacLayer   \* isInMacLayer()

Timer == Periodic \cup Passing

ASSUME TimerAssumption ==
  /\ Mid \in Periodic
  /\ Periodic # {Mid}
  /\ Periodic \cap Passing = {}
  /\ HelloIval \in Nat \ {0}
  /\ MaxDelay \in Nat
  /\ HelloIval <= MaxDelay
  /\ InMacLayer \in BOOLEAN

VARIABLES
  queue,     \* the timers in the map timerQueuePtr points to
  left,      \* the time until each of them, 0 for the others
  arrival,   \* the time until timerMessage arrives
  pc,        \* "idle" between two events, "loop" in the loop over due timers,
             \* "failed" when the simulation has ended with an error
  up         \* isNodeOperational()

vars == <<queue, left, arrival, pc, up>>

Unscheduled == -1

TypeOK ==
  /\ queue \subseteq Timer
  /\ left \in [Timer -> 0..MaxDelay]
  /\ arrival \in -1..MaxDelay
  /\ pc \in {"idle", "loop", "failed"}
  /\ up \in BOOLEAN

\* initialize: the periodic timers are set, then scheduleNextEvent.
Init ==
  /\ queue = Periodic
  /\ left = [t \in Timer |-> IF t \in Periodic THEN HelloIval ELSE 0]
  /\ arrival = HelloIval
  /\ pc = "idle"
  /\ up = TRUE

-----------------------------------------------------------------------------
\* timerQueuePtr->begin(): a timer with the earliest time.
IsFirst(t, q, l) == t \in q /\ \A u \in q : l[t] <= l[u]

\* An earlier time of the first timer does not move timerMessage.
ScheduleNextEventSlip ==
  IF queue' = {}
  THEN pc' = "failed" /\ UNCHANGED arrival
  ELSE \E t \in queue' :
         /\ IsFirst(t, queue', left')
         /\ IF arrival = Unscheduled THEN pc' = "idle" /\ arrival' = left'[t]
            ELSE pc' = (IF left'[t] > arrival THEN "failed" ELSE "idle") /\ UNCHANGED arrival

\* scheduleNextEvent, on the new content of the map.  It reads the first timer
\* of an empty map without asking, and throws if timerMessage comes too early.
ScheduleNextEvent ==
  IF queue' = {}
  THEN pc' = "failed" /\ UNCHANGED arrival
  ELSE \E t \in queue' :
         /\ IsFirst(t, queue', left')
         /\ IF arrival = Unscheduled \/ left'[t] < arrival
            THEN pc' = "idle" /\ arrival' = left'[t]
            ELSE pc' = (IF left'[t] > arrival THEN "failed" ELSE "idle") /\ UNCHANGED arrival

\* The timers N are new in the map, each with a time to go of at least "min".
Insert(N, min) ==
  \E d \in [N -> min..MaxDelay] :
    left' = [t \in Timer |-> IF t \in N THEN d[t] ELSE left[t]]

\* handleMessage with timerMessage; a node that is down deletes it, the only
\* message it will ever have.
SelfMessage ==
  /\ pc = "idle"
  /\ arrival = 0
  /\ arrival' = Unscheduled
  /\ pc' = IF up THEN "loop" ELSE "failed"
  /\ UNCHANGED <<queue, left, up>>

Due(t) == pc = "loop" /\ IsFirst(t, queue, left) /\ left[t] = 0

\* The jitter is added to the interval, not taken from it.
ExpirePeriodicJitterSlip(t) ==
  /\ Due(t)
  /\ t \in Periodic
  /\ \E d \in 1..(MaxDelay + 1) : left' = [left EXCEPT ![t] = d]
  /\ UNCHANGED <<queue, arrival, pc, up>>

\* OLSR_HelloTimer, OLSR_TcTimer and OLSR_MidTimer::expire: a message may be
\* buffered, with a timer of its own that can be due at once, and the timer is
\* set again; the MID timer is not, in the MAC layer.
ExpirePeriodic(t) ==
  /\ Due(t)
  /\ t \in Periodic
  /\ IF t = Mid /\ InMacLayer
     THEN queue' = queue \ {t} /\ UNCHANGED left
     ELSE \E m \in SUBSET (Passing \ queue), d \in 1..MaxDelay :
            /\ \A u, v \in m : u = v
            /\ queue' = queue \cup m
            /\ \E e \in [m -> 0..MaxDelay] :
                 left' = [u \in Timer |-> IF u = t THEN d ELSE IF u \in m THEN e[u] ELSE left[u]]
  /\ UNCHANGED <<arrival, pc, up>>

\* The timer of a message or of a tuple whose time is over: it deletes itself.
ExpireDelete(t) ==
  /\ Due(t)
  /\ t \in Passing
  /\ queue' = queue \ {t}
  /\ UNCHANGED <<left, arrival, pc, up>>

\* The timer of a tuple that has been refreshed: DELAY_T is never 0.
ExpireAgain(t) ==
  /\ Due(t)
  /\ t \in Passing
  /\ Insert({t}, 1)
  /\ UNCHANGED <<queue, arrival, pc, up>>

\* The loop of handleMessage ends when the first timer lies in the future; it
\* does not ask whether there is one.
LoopEnd ==
  /\ pc = "loop"
  /\ \A t \in queue : left[t] > 0
  /\ UNCHANGED <<queue, left, up>>
  /\ ScheduleNextEvent

\* handleMessage with a packet: recv_olsr may add tuples and buffer messages,
\* each with a timer; none is taken away.
Receive ==
  /\ pc = "idle"
  /\ up
  /\ \E N \in SUBSET (Passing \ queue) :
       /\ queue' = queue \cup N
       /\ Insert(N, 0)
  /\ ScheduleNextEvent
  /\ UNCHANGED up

\* timerMessage stays scheduled.
NodeDownSlip ==
  /\ pc = "idle"
  /\ up
  /\ up' = FALSE
  /\ queue' = {}
  /\ left' = [t \in Timer |-> 0]
  /\ UNCHANGED <<arrival, pc>>

\* handleNodeShutdown and handleNodeCrash.
NodeDown ==
  /\ pc = "idle"
  /\ up
  /\ up' = FALSE
  /\ queue' = {}
  /\ left' = [t \in Timer |-> 0]
  /\ arrival' = Unscheduled
  /\ UNCHANGED pc

\* Not all of the periodic timers are started again.
NodeStartSlip ==
  /\ pc = "idle"
  /\ ~up
  /\ up' = TRUE
  /\ \E p \in Periodic \ {Mid} : queue' = queue \cup {p, Mid}
  /\ left' = [t \in Timer |-> IF t \in queue' THEN HelloIval ELSE left[t]]
  /\ ScheduleNextEvent

\* handleNodeStart.
NodeStart ==
  /\ pc = "idle"
  /\ ~up
  /\ up' = TRUE
  /\ queue' = queue \cup Periodic
  /\ left' = [t \in Timer |-> IF t \in Periodic THEN HelloIval ELSE left[t]]
  /\ ScheduleNextEvent

\* The clock advances.  The simulator heeds the arrival of timerMessage: the
\* times in the map are unknown to it.
Tick ==
  /\ pc = "idle"
  /\ arrival # 0
  /\ arrival' = IF arrival = Unscheduled THEN arrival ELSE arrival - 1
  /\ left' = [t \in Timer |-> IF t \in queue THEN left[t] - 1 ELSE left[t]]
  /\ UNCHANGED <<queue, pc, up>>

EventNext ==
  \/ SelfMessage
  \/ \E t \in Timer : ExpirePeriodic(t) \/ ExpireDelete(t) \/ ExpireAgain(t)
  \/ LoopEnd

Next == EventNext \/ Receive \/ NodeDown \/ NodeStart \/ Tick

Spec == Init /\ [][Next]_vars

\* The simulator delivers timerMessage and runs its handler to the end, and
\* only finitely many events happen at one time.
FairSpec == Spec /\ WF_vars(EventNext) /\ SF_vars(Tick)

-----------------------------------------------------------------------------
\* No event ends the simulation: scheduleNextEvent never finds timerMessage
\* scheduled before the first timer ("OLSR timer Queue problem"), no handler
\* reads the first timer of an empty map, no node that is down gets, and
\* deletes, timerMessage.
NeverFails == pc # "failed"

\* Every timer fires at its time, although only timerMessage is known to the
\* simulator.
Promise == INSTANCE Timers WITH pending <- queue

OnTime == Promise!Spec

\* A node that stays up goes on sending: after any number of restarts its
\* periodic timers fire again and again (in the MAC layer not the MID timer).
PeriodicForever ==
  \A p \in Periodic :
    (p # Mid \/ ~InMacLayer) => (<>[]up => []<>(p \in queue /\ left[p] = 0))

=============================================================================
