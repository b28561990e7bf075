----------------------- MODULE OLSRTimerQueueProofs -------------------------
(***************************************************************************)
(* For any timers and any delays: the queue of an agent never brings the   *)
(* simulation to an end, and every timer fires at its time.                *)
(***************************************************************************)
EXTENDS OLSRTimerQueue, TLAPS

\* Between two events of a node that is up, timerMessage is scheduled for the
\* first timer of the map.
InStep ==
  pc = "idle" /\ up =>
    /\ \E t \in queue : left[t] = arrival
    /\ \A t \in queue : arrival <= left[t]

\* A node that is down has no timers and no timerMessage to come.
Resting == pc = "idle" /\ ~up => queue = {} /\ arrival = Unscheduled

\* The loop runs in a node that is up, with timerMessage in its hands.
Looping == pc = "loop" => up /\ arrival = Unscheduled

\* The timers that always set themselves again are in the map.
Anchored == up => Periodic \ {Mid} \subseteq queue

IInv ==
  /\ TypeOK
  /\ NeverFails
  /\ InStep
  /\ Resting
  /\ Looping
  /\ Anchored

\* What scheduleNextEvent does if there is a timer, none of them is later than
\* it may be, and timerMessage is not scheduled before the first.
LEMMA ScheduleStep ==
  ASSUME queue' # {}, queue' \subseteq Timer, left' \in [Timer -> 0..MaxDelay],
         arrival \in -1..MaxDelay, ScheduleNextEvent,
         arrival = Unscheduled \/ \E t \in queue' : left'[t] <= arrival
  PROVE  /\ pc' = "idle"
         /\ arrival' \in -1..MaxDelay
         /\ \E t \in queue' : left'[t] = arrival'
         /\ \A t \in queue' : arrival' <= left'[t]
<1> USE TimerAssumption DEF Unscheduled
<1>1. PICK t \in queue' :
        /\ IsFirst(t, queue', left')
        /\ IF arrival = Unscheduled \/ left'[t] < arrival
           THEN pc' = "idle" /\ arrival' = left'[t]
           ELSE pc' = (IF left'[t] > arrival THEN "failed" ELSE "idle") /\ UNCHANGED arrival
  BY DEF ScheduleNextEvent
<1>2. \A u \in queue' : left'[t] <= left'[u] /\ left'[u] \in 0..MaxDelay
  BY <1>1 DEF IsFirst
<1>3. CASE arrival = Unscheduled \/ left'[t] < arrival
  BY <1>1, <1>2, <1>3
<1>4. CASE arrival # Unscheduled /\ ~(left'[t] < arrival)
  <2>1. left'[t] = arrival
    BY <1>2, <1>4
  <2> QED  BY <1>1, <1>2, <1>4, <2>1
<1> QED  BY <1>3, <1>4

\* New timers get times of at least "min".
LEMMA InsertStep ==
  ASSUME TypeOK, NEW min \in Nat, NEW N \in SUBSET Timer, Insert(N, min)
  PROVE  /\ left' \in [Timer -> 0..MaxDelay]
         /\ \A t \in Timer \ N : left'[t] = left[t]
<1>1. PICK d \in [N -> min..MaxDelay] :
        left' = [t \in Timer |-> IF t \in N THEN d[t] ELSE left[t]]
  BY DEF Insert
<1>2. \A t \in Timer : (IF t \in N THEN d[t] ELSE left[t]) \in 0..MaxDelay
  BY TimerAssumption DEF TypeOK
<1> QED  BY <1>1, <1>2

\* What is common to the three kinds of expire.
LEMMA ExpireStep ==
  ASSUME TypeOK, NEW t \in Timer, ExpirePeriodic(t) \/ ExpireDelete(t) \/ ExpireAgain(t)
  PROVE  /\ t \in queue /\ left[t] = 0 /\ pc = "loop"
         /\ UNCHANGED <<arrival, pc, up>>
         /\ queue' \subseteq Timer
         /\ left' \in [Timer -> 0..MaxDelay]
         /\ queue \ {t} \subseteq queue'
         /\ \A u \in queue \ {t} : left'[u] = left[u]
         /\ t \in Periodic \ {Mid} => t \in queue'
<1> USE TimerAssumption
<1>1. t \in queue /\ left[t] = 0 /\ pc = "loop" /\ UNCHANGED <<arrival, pc, up>>
  BY DEF ExpirePeriodic, ExpireDelete, ExpireAgain, Due, IsFirst
<1>2. CASE ExpirePeriodic(t)
  <2>1. CASE t = Mid /\ InMacLayer
    BY <1>1, <1>2, <2>1 DEF ExpirePeriodic, TypeOK
  <2>2. CASE ~(t = Mid /\ InMacLayer)
    <3>1. PICK m \in SUBSET (Passing \ queue), d \in 1..MaxDelay :
            /\ queue' = queue \cup m
            /\ \E e \in [m -> 0..MaxDelay] :
                 left' = [u \in Timer |-> IF u = t THEN d ELSE IF u \in m THEN e[u] ELSE left[u]]
      BY <1>2, <2>2 DEF ExpirePeriodic
    <3>2. PICK e \in [m -> 0..MaxDelay] :
            left' = [u \in Timer |-> IF u = t THEN d ELSE IF u \in m THEN e[u] ELSE left[u]]
      BY <3>1
    <3>3. \A u \in Timer :
            (IF u = t THEN d ELSE IF u \in m THEN e[u] ELSE left[u]) \in 0..MaxDelay
      BY DEF TypeOK
    <3>4. left' \in [Timer -> 0..MaxDelay]
      BY <3>2, <3>3
    <3>5. \A u \in queue \ {t} : left'[u] = left[u]
      BY <3>1, <3>2 DEF TypeOK
    <3> QED  BY <1>1, <3>1, <3>4, <3>5 DEF TypeOK, Timer
  <2> QED  BY <2>1, <2>2
<1>3. CASE ExpireDelete(t)
  BY <1>1, <1>3 DEF ExpireDelete, TypeOK
<1>4. CASE ExpireAgain(t)
  <2>1. Insert({t}, 1) /\ queue' = queue
    BY <1>4 DEF ExpireAgain
  <2>2. left' \in [Timer -> 0..MaxDelay] /\ \A u \in Timer \ {t} : left'[u] = left[u]
    BY <2>1, InsertStep
  <2> QED  BY <1>1, <2>1, <2>2 DEF TypeOK
<1> QED  BY <1>2, <1>3, <1>4

LEMMA ReceiveStep ==
  ASSUME TypeOK, Receive
  PROVE  /\ pc = "idle" /\ up /\ up' = up
         /\ queue \subseteq queue' /\ queue' \subseteq Timer
         /\ left' \in [Timer -> 0..MaxDelay]
         /\ \A t \in queue : left'[t] = left[t]
         /\ ScheduleNextEvent
<1>1. PICK N \in SUBSET (Passing \ queue) : queue' = queue \cup N /\ Insert(N, 0)
  BY DEF Receive
<1>2. N \in SUBSET Timer
  BY <1>1 DEF Timer
<1>3. /\ left' \in [Timer -> 0..MaxDelay]
      /\ \A t \in Timer \ N : left'[t] = left[t]
  BY <1>1, <1>2, InsertStep
<1> QED  BY <1>1, <1>2, <1>3 DEF Receive, TypeOK

LEMMA StartStep ==
  ASSUME IInv, NodeStart
  PROVE  /\ pc = "idle" /\ up' /\ queue = {} /\ arrival = Unscheduled
         /\ queue' = Periodic
         /\ left' \in [Timer -> 0..MaxDelay]
         /\ ScheduleNextEvent
<1>1. pc = "idle" /\ ~up /\ up' /\ queue = {} /\ arrival = Unscheduled
  BY DEF NodeStart, IInv, Resting
<1>2. left' \in [Timer -> 0..MaxDelay]
  BY TimerAssumption DEF NodeStart, IInv, TypeOK
<1> QED  BY <1>1, <1>2 DEF NodeStart

\* The clock moves on only if no timer is due.
LEMMA TickStep ==
  ASSUME IInv, Tick
  PROVE  /\ \A t \in queue : left[t] > 0 /\ left'[t] = left[t] - 1
         /\ left' \in [Timer -> 0..MaxDelay]
<1>1. \A t \in queue : left[t] > 0
  <2>1. CASE up
    BY <2>1, TimerAssumption DEF IInv, Tick, InStep, TypeOK, Unscheduled
  <2>2. CASE ~up
    BY <2>2 DEF IInv, Tick, Resting
  <2> QED  BY <2>1, <2>2
<1>2. \A t \in queue : t \in Timer
  BY DEF IInv, TypeOK
<1> QED  BY <1>1, <1>2, TimerAssumption DEF Tick, IInv, TypeOK

\* There is always a timer that sets itself again.
LEMMA SomeAnchor == Periodic \ {Mid} # {}
BY TimerAssumption

LEMMA InvariantStep ==
  ASSUME IInv, [Next]_vars
  PROVE  IInv'
<1> USE TimerAssumption DEF IInv, TypeOK, NeverFails, InStep, Resting, Looping, Anchored, Unscheduled
<1>1. CASE SelfMessage
  BY <1>1 DEF SelfMessage
<1>2. CASE \E t \in Timer : ExpirePeriodic(t) \/ ExpireDelete(t) \/ ExpireAgain(t)
  <2>1. PICK t \in Timer : ExpirePeriodic(t) \/ ExpireDelete(t) \/ ExpireAgain(t)
    BY <1>2
  <2>2. /\ pc = "loop" /\ UNCHANGED <<arrival, pc, up>>
        /\ queue' \subseteq Timer
        /\ left' \in [Timer -> 0..MaxDelay]
        /\ queue \ {t} \subseteq queue'
        /\ t \in Periodic \ {Mid} => t \in queue'
    BY <2>1, ExpireStep
  <2> QED  BY <2>2
<1>3. CASE LoopEnd
  <2>1. queue' = queue /\ left' = left /\ up' = up /\ up /\ arrival = Unscheduled /\ ScheduleNextEvent
    BY <1>3 DEF LoopEnd
  <2>2. queue' # {}
    BY <2>1, SomeAnchor
  <2> QED  BY <2>1, <2>2, ScheduleStep
<1>4. CASE Receive
  <2>1. /\ pc = "idle" /\ up /\ up' = up
        /\ queue \subseteq queue' /\ queue' \subseteq Timer
        /\ left' \in [Timer -> 0..MaxDelay]
        /\ \A t \in queue : left'[t] = left[t]
        /\ ScheduleNextEvent
    BY <1>4, ReceiveStep
  <2>2. \E t \in queue' : left'[t] <= arrival
    BY <2>1
  <2>3. /\ pc' = "idle" /\ arrival' \in -1..MaxDelay
        /\ \E t \in queue' : left'[t] = arrival'
        /\ \A t \in queue' : arrival' <= left'[t]
    BY <2>1, <2>2, ScheduleStep
  <2> QED  BY <2>1, <2>3
<1>5. CASE NodeDown
  <2>1. left' \in [Timer -> 0..MaxDelay]
    BY <1>5 DEF NodeDown
  <2>2. /\ pc' = "idle" /\ queue' = {} /\ arrival' = -1
        /\ up' = FALSE
    BY <1>5 DEF NodeDown
  <2>3. arrival' \in -1..MaxDelay /\ queue' \subseteq Timer
    BY <2>2
  <2>4. TypeOK'
    BY <2>1, <2>2, <2>3
  <2>5. (NeverFails /\ InStep /\ Resting /\ Looping /\ Anchored)'
    BY <2>2
  <2> QED  BY <2>4, <2>5
<1>6. CASE NodeStart
  <2>1. /\ up' /\ queue' = Periodic /\ arrival = Unscheduled
        /\ left' \in [Timer -> 0..MaxDelay]
        /\ ScheduleNextEvent
    BY <1>6, StartStep
  <2>2. queue' # {} /\ queue' \subseteq Timer
    BY <2>1 DEF Timer
  <2>3. /\ pc' = "idle" /\ arrival' \in -1..MaxDelay
        /\ \E t \in queue' : left'[t] = arrival'
        /\ \A t \in queue' : arrival' <= left'[t]
    BY <2>1, <2>2, ScheduleStep
  <2> QED  BY <2>1, <2>2, <2>3
<1>7. CASE Tick
  <2>1. /\ \A t \in queue : left[t] > 0 /\ left'[t] = left[t] - 1
        /\ left' \in [Timer -> 0..MaxDelay]
    BY <1>7, TickStep
  <2>2. queue' = queue /\ pc' = pc /\ up' = up /\ pc = "idle" /\ arrival # 0
    BY <1>7 DEF Tick
  <2>3. CASE up
    <3>1. arrival \in 1..MaxDelay /\ arrival' = arrival - 1
      BY <1>7, <2>2, <2>3 DEF Tick
    <3> QED  BY <2>1, <2>2, <2>3, <3>1
  <2>4. CASE ~up
    BY <1>7, <2>1, <2>2, <2>4 DEF Tick
  <2> QED  BY <2>3, <2>4
<1>8. CASE UNCHANGED vars
  BY <1>8 DEF vars
<1> QED
  BY <1>1, <1>2, <1>3, <1>4, <1>5, <1>6, <1>7, <1>8 DEF Next, EventNext

\* The parts of the invariant hold in every reachable state: timerMessage and
\* the map stay in step.
THEOREM TimerQueueInvariant == Spec => []IInv
<1>1. Init => IInv
  BY TimerAssumption DEF Init, IInv, TypeOK, NeverFails, InStep, Resting, Looping, Anchored, Timer
<1> QED  BY <1>1, InvariantStep, PTL DEF Spec

\* The types hold, no time in the map is ever negative (TypeOK).
THEOREM TypeCorrect == Spec => []TypeOK
<1>1. IInv => TypeOK
  BY DEF IInv
<1> QED  BY <1>1, TimerQueueInvariant, PTL

\* No event of the agent ends the simulation (NeverFails).
THEOREM TimerQueueNeverFails == Spec => []NeverFails
<1>1. IInv => NeverFails
  BY DEF IInv
<1> QED  BY <1>1, TimerQueueInvariant, PTL

\* The queue implements a set of timers that fire exactly on time (OnTime).
THEOREM TimerQueueOnTime == Spec => OnTime
<1>1. Init => Promise!Init
  BY TimerAssumption DEF Init, Promise!Init, Timer
<1>2. ASSUME IInv, IInv', [Next]_vars PROVE [Promise!Next]_Promise!vars
  <2> USE DEF Promise!Next, Promise!vars
  <2>1. CASE SelfMessage \/ LoopEnd \/ UNCHANGED vars
    BY <2>1 DEF SelfMessage, LoopEnd, vars
  <2>2. CASE \E t \in Timer : ExpirePeriodic(t) \/ ExpireDelete(t) \/ ExpireAgain(t)
    <3>1. PICK t \in Timer : ExpirePeriodic(t) \/ ExpireDelete(t) \/ ExpireAgain(t)
      BY <2>2
    <3>2. /\ t \in queue /\ left[t] = 0
          /\ queue \ {t} \subseteq queue'
          /\ \A u \in queue \ {t} : left'[u] = left[u]
          /\ \A u \in queue' : left'[u] >= 0
      BY <1>2, <3>1, ExpireStep, TimerAssumption DEF IInv, TypeOK
    <3>3. Promise!Fire(t)
      BY <3>2 DEF Promise!Fire, Promise!Keep
    <3> QED  BY <3>2, <3>3
  <2>3. CASE Receive
    <3>1. /\ queue \subseteq queue'
          /\ \A t \in queue : left'[t] = left[t]
          /\ \A u \in queue' : left'[u] >= 0
      BY <1>2, <2>3, ReceiveStep, TimerAssumption DEF IInv, TypeOK
    <3> QED  BY <3>1 DEF Promise!Set, Promise!Keep
  <2>4. CASE NodeDown
    BY <2>4 DEF NodeDown, Promise!Clear
  <2>5. CASE NodeStart
    <3>1. queue = {} /\ \A u \in queue' : left'[u] >= 0
      BY <1>2, <2>5, StartStep, TimerAssumption DEF IInv, TypeOK
    <3> QED  BY <3>1 DEF Promise!Set, Promise!Keep
  <2>6. CASE Tick
    <3>1. \A t \in queue : left[t] > 0 /\ left'[t] = left[t] - 1
      BY <1>2, <2>6, TickStep
    <3>2. queue' = queue
      BY <2>6 DEF Tick
    <3> QED  BY <3>1, <3>2 DEF Promise!Tick
  <2> QED
    BY <1>2, <2>1, <2>2, <2>3, <2>4, <2>5, <2>6 DEF Next, EventNext
<1> QED  BY <1>1, <1>2, TimerQueueInvariant, PTL DEF Spec, OnTime, Promise!Spec

=============================================================================
