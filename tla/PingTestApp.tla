----------------------------- MODULE PingTestApp -----------------------------
(***************************************************************************)
(* The application of every host: it pings its destinations in turn and    *)
(* keeps count of lost pings and of round-trip times, while replies come   *)
(* late, out of order, after a restart, or not at all.                     *)
(*                                                                         *)
(* A ping is identified by the number its application drew at its start    *)
(* (pid, the originator id of the payload) and its sequence number.  The   *)
(* circular buffer of sending times holds, for every slot, whose time it   *)
(* is: an rtt is right when it is taken from the slot of its own ping.     *)
(***************************************************************************)
EXTENDS Integers, FiniteSets

CONSTANTS
  Dests,      \* destAddresses.size()
  History,    \* PING_HISTORY_SIZE
  Counts,     \* what the parameter count may be; -1 is no limit
  MaxSeq,     \* bound on sendSeqNo
  MaxStarts   \* bound on the starts of the application

ASSUME PingAssumption ==
  /\ Dests \in Nat \ {0}
  /\ History \in Nat \ {0}
  /\ Counts \subseteq Int
  /\ MaxSeq \in Nat
  /\ MaxStarts \in Nat

VARIABLES
  par,        \* parameters: continuous, count, and whether there is a stopTime
  up,         \* isNodeUp()
  pid,        \* number of the current start, None while stopped
  starts,     \* numbers drawn so far
  kind,       \* kind of the timer message
  scheduled,  \* timer->isScheduled()
  destAddrIdx,
  sendSeqNo,
  expectedReplySeqNo,
  sendTimeHistory,   \* the ping whose sending time is in a slot
  sentCount,
  lossCount,
  net,        \* pings and replies under way
  over,       \* finish has been called
  answered,   \* history: pings of this start whose reply has been counted
  carried,    \* history: lossCount at this start
  pings       \* history: how often every destination was pinged since

params   == <<par>>
lifetime == <<up, pid, starts>>
sending  == <<kind, scheduled, destAddrIdx, sendSeqNo, sendTimeHistory, sentCount>>
counting == <<expectedReplySeqNo, lossCount, answered>>
vars == <<params, lifetime, sending, counting, net, over, carried, pings>>

None  == -1
Index == 0..(Dests - 1)
Ping  == [pid : Nat, seq : Nat]

TypeOK ==
  /\ par \in [continuous : BOOLEAN, stops : BOOLEAN, count : Counts]
  /\ up \in BOOLEAN
  /\ starts \in Nat
  /\ pid \in 1..starts \cup {None}
  /\ kind \in {"FIRST_ADDR", "CHANGE_ADDR", "SEND"}
  /\ scheduled \in BOOLEAN
  /\ destAddrIdx \in -1..Dests
  /\ sendSeqNo \in Nat
  /\ expectedReplySeqNo \in Nat
  /\ sendTimeHistory \in [0..(History - 1) -> Ping]
  /\ sentCount \in Nat
  /\ lossCount \in Int
  /\ net \subseteq Ping
  /\ over \in BOOLEAN
  /\ answered \subseteq Nat
  /\ carried \in Int
  /\ pings \in [Index -> Nat]

\* The application has not been started; a node that is up from the beginning
\* starts it in initialize, as NodeStart does.
Init ==
  /\ par \in [continuous : BOOLEAN, stops : BOOLEAN, count : Counts]
  /\ up = FALSE
  /\ pid = None
  /\ starts = 0
  /\ kind = "FIRST_ADDR"
  /\ scheduled = FALSE
  /\ destAddrIdx = -1
  /\ sendSeqNo = 0
  /\ expectedReplySeqNo = 0
  /\ sendTimeHistory = [i \in 0..(History - 1) |-> [pid |-> 0, seq |-> 0]]
  /\ sentCount = 0
  /\ lossCount = 0
  /\ net = {}
  /\ over = FALSE
  /\ answered = {}
  /\ carried = 0
  /\ pings = [d \in Index |-> 0]

-----------------------------------------------------------------------------
\* isEnabled, with a destination given.
Enabled == par.count = -1 \/ sentCount < par.count

\* scheduleNextPingRequest: unless the stop time has come.
ScheduleNext == scheduled' \in IF par.stops THEN BOOLEAN ELSE {TRUE}

\* handleOperationStage on a start, and startSendingPingRequests.
NodeStart ==
  /\ ~up
  /\ starts < MaxStarts
  /\ up' = TRUE
  /\ IF Enabled
     THEN /\ pid' = starts + 1
          /\ starts' = starts + 1
          /\ kind' = "FIRST_ADDR"
          /\ sentCount' = 0
          /\ sendSeqNo' = 0
          /\ ScheduleNext
     ELSE UNCHANGED <<pid, starts, kind, sentCount, sendSeqNo, scheduled>>
  /\ UNCHANGED <<params, destAddrIdx, sendTimeHistory, counting, net, over, carried, pings>>

\* The timer is left alone.
NodeDownSlip ==
  /\ up
  /\ up' = FALSE
  /\ pid' = None
  /\ sendSeqNo' = 0
  /\ expectedReplySeqNo' = 0
  /\ destAddrIdx' = -1
  /\ carried' = lossCount
  /\ answered' = {}
  /\ pings' = [d \in Index |-> 0]
  /\ UNCHANGED <<params, starts, kind, scheduled, sendTimeHistory, sentCount, lossCount, net, over>>

\* handleOperationStage on a shutdown or crash, and stopSendingPingRequests.
NodeDown ==
  /\ up
  /\ up' = FALSE
  /\ pid' = None
  /\ sendSeqNo' = 0
  /\ expectedReplySeqNo' = 0
  /\ destAddrIdx' = -1
  /\ scheduled' = FALSE
  /\ carried' = lossCount
  /\ answered' = {}
  /\ pings' = [d \in Index |-> 0]
  /\ UNCHANGED <<params, starts, kind, sendTimeHistory, sentCount, lossCount, net, over>>

\* The destination of the next ping: the first one after a start.
Current == IF kind = "FIRST_ADDR" THEN 0 ELSE destAddrIdx

\* The end of the list is not noticed.
NextAddressSlip ==
  IF Dests > 1
  THEN destAddrIdx' = Current + 1 /\ kind' = "CHANGE_ADDR"
  ELSE destAddrIdx' = Current /\ kind' = "SEND"

\* What handleMessage does after a ping: with several destinations the next
\* one is chosen, and after the last the first if pinging is continuous.
NextAddress ==
  IF Dests > 1
  THEN /\ destAddrIdx' = IF Current + 1 >= Dests /\ par.continuous
                         THEN (Current + 1) % Dests ELSE Current + 1
       /\ kind' = "CHANGE_ADDR"
  ELSE destAddrIdx' = Current /\ kind' = "SEND"

\* handleMessage with the timer, and sendPing.
SendPing ==
  /\ up
  /\ scheduled
  /\ Current < Dests
  /\ sendSeqNo < MaxSeq
  /\ sendTimeHistory' = [sendTimeHistory EXCEPT ![sendSeqNo % History] = [pid |-> pid, seq |-> sendSeqNo]]
  /\ net' = net \cup {[pid |-> pid, seq |-> sendSeqNo]}
  /\ sendSeqNo' = sendSeqNo + 1
  /\ sentCount' = sentCount + 1
  /\ pings' = [pings EXCEPT ![Current] = @ + 1]
  /\ NextAddress
  /\ ScheduleNext
  /\ UNCHANGED <<params, lifetime, counting, over, carried>>

\* handleMessage with the timer when the last destination has been pinged.
LastAddress ==
  /\ up
  /\ scheduled
  /\ kind = "CHANGE_ADDR"
  /\ destAddrIdx >= Dests
  /\ scheduled' = FALSE
  /\ UNCHANGED <<params, lifetime, kind, destAddrIdx, sendSeqNo, sendTimeHistory, sentCount,
                 counting, net, over, carried, pings>>

\* A late reply is not taken back from the losses.
CountPingResponseSlip(s) ==
  /\ expectedReplySeqNo' = IF s >= expectedReplySeqNo THEN s + 1 ELSE expectedReplySeqNo
  /\ lossCount' = IF s > expectedReplySeqNo THEN lossCount + (s - expectedReplySeqNo) ELSE lossCount

\* countPingResponse: a gap counts as lost, a late reply is taken back.
CountPingResponse(s) ==
  /\ expectedReplySeqNo' = IF s >= expectedReplySeqNo THEN s + 1 ELSE expectedReplySeqNo
  /\ lossCount' = IF s = expectedReplySeqNo THEN lossCount
                  ELSE IF s > expectedReplySeqNo THEN lossCount + (s - expectedReplySeqNo)
                  ELSE lossCount - 1

\* One slot too old.
KeptSlip(s) == ~(sendSeqNo - s > History + 1)

\* The sending time of ping s is taken from the buffer; there is no rtt of an
\* older ping.
Kept(s) == ~(sendSeqNo - s > History)

\* The reply to m arrives: it is dropped by a node that is down and by an
\* application that was started again, counted otherwise.
Reply(m) ==
  /\ net' = net \ {m}
  /\ IF up /\ m.pid = pid
     THEN CountPingResponse(m.seq) /\ answered' = answered \cup {m.seq}
     ELSE UNCHANGED counting
  /\ UNCHANGED <<params, lifetime, sending, over, carried, pings>>

\* A request or reply is lost.
Lose(m) ==
  /\ net' = net \ {m}
  /\ UNCHANGED <<params, lifetime, sending, counting, over, carried, pings>>

\* finish: what is still expected is lost.
Finish ==
  /\ over' = TRUE
  /\ lossCount' = IF sendSeqNo = 0 THEN lossCount ELSE lossCount + (sendSeqNo - expectedReplySeqNo)
  /\ UNCHANGED <<params, lifetime, sending, expectedReplySeqNo, answered, net, carried, pings>>

Next ==
  /\ ~over
  /\ \/ NodeStart
     \/ NodeDown
     \/ SendPing
     \/ LastAddress
     \/ \E m \in net : Reply(m) \/ Lose(m)
     \/ Finish

Spec == Init /\ [][Next]_vars

\* The simulator fires the timer.
FairSpec == Spec /\ WF_vars(~over /\ (SendPing \/ LastAddress))

-----------------------------------------------------------------------------
\* No self-message reaches a node that is down, which would end the simulation
\* ("Self message received when PingTestApp is down"), and a start finds the
\* timer idle, as startSendingPingRequests asserts.
NoTimerWhenDown == scheduled => up /\ pid # None

\* Of the pings of this start, those before the expected one are answered or
\* counted as lost, and none of them both, however late, out of order, lost or
\* left over from an earlier start their replies are; in the end all that were
\* not answered are lost.
LossAccount ==
  LET settled == IF over /\ sendSeqNo # 0 THEN sendSeqNo ELSE expectedReplySeqNo
  IN  lossCount = carried + Cardinality((0..(settled - 1)) \ answered)

\* A sending time that is taken from the circular buffer is that of the ping
\* replied to: the comparison with PING_HISTORY_SIZE leaves out the pings whose
\* slot has been written again, since the last start or before.
RttOfItsPing ==
  \A m \in net :
    m.pid = pid /\ Kept(m.seq) => sendTimeHistory[m.seq % History] = m

\* An application that stays up and has no stop time goes on pinging, and every
\* destination gets its share; if it is not continuous, each is pinged once.
Share(d) ==
  IF par.continuous THEN pings[d] >= MaxSeq \div Dests ELSE pings[d] >= 1

EveryDestination ==
  \A d \in Index :
    (pid # None /\ ~par.stops) ~> (over \/ ~up \/ Share(d))

=============================================================================
