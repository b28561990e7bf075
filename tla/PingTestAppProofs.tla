-------------------------- MODULE PingTestAppProofs --------------------------
(***************************************************************************)
(* The counters of PingTestApp for any number of destinations, any size of *)
(* the circular buffer and any sequence of pings, replies, losses and      *)
(* restarts; and that the destinations are pinged in turn.                 *)
(***************************************************************************)
EXTENDS PingTestApp, FiniteSetTheorems, TLAPS

\* A stopped application has nothing scheduled, sent, expected or answered.
Stopped ==
  pid = None => ~scheduled /\ sendSeqNo = 0 /\ expectedReplySeqNo = 0 /\ answered = {}

\* Only pings that were sent are expected and answered, each once; what is
\* under way for this start is neither answered nor still to be sent.
Answers ==
  /\ expectedReplySeqNo <= sendSeqNo
  /\ answered \subseteq 0..(expectedReplySeqNo - 1)
  /\ \A m \in net : m.pid <= starts
  /\ \A m \in net : m.pid = pid => m.seq < sendSeqNo /\ m.seq \notin answered

\* The slots of the last pings are those of this start.
Slots ==
  pid # None =>
    \A s \in 0..(sendSeqNo - 1) :
      Kept(s) => sendTimeHistory[s % History] = [pid |-> pid, seq |-> s]

\* There is a destination to ping.
Addressed == pid # None /\ kind # "FIRST_ADDR" => destAddrIdx >= 0

IInv ==
  /\ TypeOK
  /\ pid # None => up
  /\ Stopped
  /\ Answers
  /\ Slots
  /\ Addressed
  /\ LossAccount

-----------------------------------------------------------------------------
\* Quotient and remainder.
LEMMA Division ==
  ASSUME NEW x \in Nat, NEW n \in Nat \ {0}
  PROVE  \E q \in Int : x = n * q + (x % n)
<1>1. \A q, r \in Int : q = x \div n /\ r = x % n => x = n * q + r
  OBVIOUS
<1>2. x \div n \in Int /\ x % n \in Int
  OBVIOUS
<1> QED  BY <1>1, <1>2

\* Different multiples of n lie at least n apart.
LEMMA Apart ==
  ASSUME NEW n \in Nat \ {0}, NEW p \in Int, NEW q \in Int, n * q < n * p
  PROVE  n * p - n * q >= n
<1>1. CASE p >= q + 1
  <2>1. PICK k \in Nat : p = q + 1 + k
    BY <1>1
  <2>2. n * p = n * q + n + n * k /\ n * k \in Nat
    BY <2>1
  <2> QED  BY <2>2
<1>2. CASE p <= q
  <2>1. PICK k \in Nat : q = p + k
    BY <1>2
  <2>2. n * q = n * p + n * k /\ n * k \in Nat
    BY <2>1
  <2> QED  BY <2>2
<1> QED  BY <1>1, <1>2

\* Pings less than a round of the buffer apart have slots of their own.
LEMMA OwnSlot ==
  ASSUME NEW a \in Nat, NEW b \in Nat, b < a, a - b < History
  PROVE  a % History # b % History
<1>0. History \in Nat \ {0}
  BY PingAssumption
<1> SUFFICES ASSUME a % History = b % History PROVE FALSE
  OBVIOUS
<1>1. PICK p \in Int : a = History * p + (a % History)
  BY <1>0, Division
<1>2. PICK q \in Int : b = History * q + (b % History)
  BY <1>0, Division
<1>3. a % History \in Int /\ History * p \in Int /\ History * q \in Int
  BY <1>0
<1>4. History * p - History * q = a - b
  BY <1>1, <1>2, <1>3
<1> QED  BY <1>0, <1>3, <1>4, Apart

\* A ping has a slot of the buffer.
LEMMA SlotType ==
  ASSUME NEW a \in Nat
  PROVE  a % History \in 0..(History - 1)
BY PingAssumption

\* Those missing up to k, all answered ones being below e.
LEMMA MissingUpTo ==
  ASSUME NEW A, NEW e \in Nat, NEW k \in Nat, e <= k, A \subseteq 0..(e - 1)
  PROVE  /\ IsFiniteSet((0..(e - 1)) \ A)
         /\ Cardinality((0..(e - 1)) \ A) \in Nat
         /\ Cardinality((0..(k - 1)) \ A) = Cardinality((0..(e - 1)) \ A) + (k - e)
<1> DEFINE M == (0..(e - 1)) \ A
           R == e..(k - 1)
<1>1. IsFiniteSet(M) /\ Cardinality(M) \in Nat
  <2>1. IsFiniteSet(0..(e - 1))
    BY FS_Interval
  <2>2. IsFiniteSet(M)
    BY <2>1, FS_Difference
  <2> QED  BY <2>2, FS_CardinalityType
<1>2. IsFiniteSet(R) /\ Cardinality(R) = k - e
  <2>1. e \in Int /\ k - 1 \in Int
    OBVIOUS
  <2>2. IsFiniteSet(R) /\ Cardinality(R) = IF e > k - 1 THEN 0 ELSE (k - 1) - e + 1
    BY <2>1, FS_Interval
  <2> QED  BY <2>2
<1>3. (0..(k - 1)) \ A = M \cup R
  OBVIOUS
<1>4. M \cap R = {}
  OBVIOUS
<1>5. Cardinality(M \cup R) = Cardinality(M) + Cardinality(R)
  <2> HIDE DEF M, R
  <2>1. Cardinality(M \cup R) = Cardinality(M) + Cardinality(R) - Cardinality(M \cap R)
    BY <1>1, <1>2, FS_Union
  <2>2. Cardinality(M \cap R) = 0
    BY <1>4, FS_EmptySet
  <2>3. Cardinality(R) \in Nat
    BY <1>2, FS_CardinalityType
  <2> QED  BY <1>1, <2>1, <2>2, <2>3
<1> QED  BY <1>1, <1>2, <1>3, <1>5

\* A counted reply keeps the account.
LEMMA ReplyAccount ==
  ASSUME TypeOK, Answers, LossAccount, ~over,
         NEW s \in Nat, s \notin answered, s < sendSeqNo,
         CountPingResponse(s), answered' = answered \cup {s}
  PROVE  /\ lossCount' \in Int
         /\ expectedReplySeqNo' \in Nat
         /\ expectedReplySeqNo' <= sendSeqNo
         /\ answered' \subseteq 0..(expectedReplySeqNo' - 1)
         /\ lossCount' = carried + Cardinality((0..(expectedReplySeqNo' - 1)) \ answered')
<1> DEFINE e == expectedReplySeqNo
           M == (0..(e - 1)) \ answered
<1>0. /\ e \in Nat /\ sendSeqNo \in Nat /\ lossCount \in Int /\ carried \in Int
      /\ answered \subseteq 0..(e - 1) /\ e <= sendSeqNo
      /\ lossCount = carried + Cardinality(M)
  BY DEF TypeOK, Answers, LossAccount
<1>1. IsFiniteSet(M) /\ Cardinality(M) \in Nat
  BY <1>0, MissingUpTo
<1>2. CASE s = e
  <2>1. expectedReplySeqNo' = e + 1 /\ lossCount' = lossCount
    BY <1>0, <1>2 DEF CountPingResponse
  <2>2. (0..((e + 1) - 1)) \ (answered \cup {s}) = M
    BY <1>0, <1>2
  <2> QED  BY <1>0, <1>2, <2>1, <2>2
<1>3. CASE s > e
  <2>1. expectedReplySeqNo' = s + 1 /\ lossCount' = lossCount + (s - e)
    BY <1>0, <1>3 DEF CountPingResponse
  <2>2. (0..((s + 1) - 1)) \ (answered \cup {s}) = (0..(s - 1)) \ answered
    BY <1>0, <1>3
  <2>3. Cardinality((0..(s - 1)) \ answered) = Cardinality(M) + (s - e)
    <3>1. e <= s
      BY <1>0, <1>3
    <3> HIDE DEF e
    <3> QED  BY <1>0, <3>1, MissingUpTo DEF M
  <2>4. lossCount' = carried + Cardinality((0..(expectedReplySeqNo' - 1)) \ answered')
    <3>1. lossCount' = carried + (Cardinality(M) + (s - e))
      <4> HIDE DEF M
      <4> QED  BY <1>0, <1>1, <2>1
    <3>2. (0..(expectedReplySeqNo' - 1)) \ answered' = (0..(s - 1)) \ answered
      BY <2>1, <2>2
    <3> QED  BY <2>3, <3>1, <3>2
  <2>5. answered' \subseteq 0..(expectedReplySeqNo' - 1) /\ lossCount' \in Int
    BY <1>0, <1>3, <2>1
  <2> QED  BY <1>0, <1>3, <2>1, <2>4, <2>5
<1>4. CASE s < e
  <2>1. expectedReplySeqNo' = e /\ lossCount' = lossCount - 1
    BY <1>0, <1>4 DEF CountPingResponse
  <2>2. (0..(e - 1)) \ (answered \cup {s}) = M \ {s} /\ s \in M
    BY <1>0, <1>4
  <2>3. Cardinality(M \ {s}) = Cardinality(M) - 1
    <3> HIDE DEF M
    <3> QED  BY <1>1, <2>2, FS_RemoveElement
  <2>4. lossCount' = carried + Cardinality((0..(expectedReplySeqNo' - 1)) \ answered')
    BY <1>0, <1>1, <2>1, <2>2, <2>3
  <2>5. answered' \subseteq 0..(expectedReplySeqNo' - 1)
    BY <1>0, <1>4, <2>1
  <2> QED  BY <1>0, <2>1, <2>4, <2>5
<1> QED  BY <1>0, <1>2, <1>3, <1>4

-----------------------------------------------------------------------------
\* A step that leaves the variables of the invariant alone but for the timer,
\* which it may stop, and what is under way, of which it may take something.
LEMMA QuietStep ==
  ASSUME IInv, net' \subseteq net, scheduled' = scheduled \/ scheduled' = FALSE,
         UNCHANGED <<par, up, pid, starts, kind, destAddrIdx, sendSeqNo, sendTimeHistory,
                     sentCount, expectedReplySeqNo, lossCount, answered, over, carried, pings>>
  PROVE  IInv'
<1>1. TypeOK'
  BY DEF IInv, TypeOK
<1>2. Stopped' /\ Addressed' /\ (pid # None => up)'
  BY DEF IInv, Stopped, Addressed
<1>3. Answers'
  BY DEF IInv, Answers
<1>4. Slots'
  BY DEF IInv, Slots, Kept
<1>5. LossAccount'
  BY DEF IInv, LossAccount
<1> QED  BY <1>1, <1>2, <1>3, <1>4, <1>5 DEF IInv

\* The parts of the invariant at a start of the node.
LEMMA StartStep ==
  ASSUME IInv, ~over, over' = over, NodeStart
  PROVE  IInv'
<1>1. /\ ~up /\ up' = TRUE /\ pid = None /\ ~scheduled
      /\ sendSeqNo = 0 /\ expectedReplySeqNo = 0 /\ answered = {}
  BY DEF IInv, NodeStart, Stopped
<1>2. /\ destAddrIdx' = destAddrIdx /\ sendTimeHistory' = sendTimeHistory /\ par' = par
      /\ expectedReplySeqNo' = expectedReplySeqNo /\ lossCount' = lossCount
      /\ answered' = answered /\ net' = net /\ carried' = carried /\ pings' = pings
  BY DEF NodeStart, counting, params
<1>3. sendSeqNo' = 0
  BY <1>1 DEF NodeStart
<1>4. \/ /\ pid' = starts + 1 /\ starts' = starts + 1 /\ kind' = "FIRST_ADDR" /\ sentCount' = 0
         /\ scheduled' \in BOOLEAN
      \/ UNCHANGED <<pid, starts, kind, sentCount, scheduled>>
  BY DEF NodeStart, ScheduleNext
<1>5. TypeOK
  BY DEF IInv
<1>6. TypeOK'
  <2>1. pid' \in 1..starts' \cup {None} /\ starts' \in Nat
    BY <1>4, <1>5 DEF TypeOK
  <2>2. kind' \in {"FIRST_ADDR", "CHANGE_ADDR", "SEND"} /\ sentCount' \in Nat /\ scheduled' \in BOOLEAN
    BY <1>4, <1>5 DEF TypeOK
  <2> QED  BY <1>1, <1>2, <1>3, <1>5, <2>1, <2>2 DEF TypeOK
<1>7. Stopped'
  BY <1>1, <1>2, <1>3, <1>4, <1>5 DEF Stopped, TypeOK, None
<1>8. Answers'
  <2>1. \A m \in net : m.pid \in Nat /\ m.pid <= starts
    BY <1>5 DEF IInv, Answers, TypeOK, Ping
  <2>2. /\ starts \in Nat /\ (pid' = -1 \/ pid' = starts + 1)
        /\ starts' = starts \/ starts' = starts + 1
    BY <1>1, <1>4, <1>5 DEF TypeOK, None
  <2>3. ASSUME NEW m \in net PROVE m.pid <= starts' /\ m.pid # pid'
    <3> DEFINE n == m.pid
    <3>1. n \in Nat /\ n <= starts
      BY <2>1
    <3> HIDE DEF n
    <3>2. n <= starts' /\ n # pid'
      BY <2>2, <3>1
    <3> QED  BY <3>2 DEF n
  <2>4. \A m \in net' : m.pid <= starts' /\ m.pid # pid'
    BY <1>2, <2>3
  <2> QED  BY <1>1, <1>2, <1>3, <2>4 DEF Answers
<1>9. Slots' /\ Addressed'
  BY <1>1, <1>3, <1>4 DEF Slots, Addressed
<1>10. LossAccount'
  BY <1>1, <1>2, <1>3 DEF IInv, LossAccount
<1> QED  BY <1>1, <1>6, <1>7, <1>8, <1>9, <1>10 DEF IInv

\* When the node goes down.
LEMMA DownStep ==
  ASSUME IInv, ~over, over' = over, NodeDown
  PROVE  IInv'
<1>1. TypeOK
  BY DEF IInv
<1>2. TypeOK'
  <2>1. /\ par' = par /\ starts' = starts /\ kind' = kind /\ sentCount' = sentCount
        /\ sendTimeHistory' = sendTimeHistory /\ lossCount' = lossCount /\ net' = net
    BY DEF NodeDown, params
  <2>2. pid' \in 1..starts' \cup {None} /\ up' \in BOOLEAN /\ scheduled' \in BOOLEAN
    BY DEF NodeDown
  <2>3. sendSeqNo' \in Nat /\ expectedReplySeqNo' \in Nat /\ answered' \subseteq Nat
    BY DEF NodeDown
  <2>4. destAddrIdx' \in -1..Dests /\ carried' \in Int /\ pings' \in [Index -> Nat]
    BY <1>1, PingAssumption DEF NodeDown, TypeOK
  <2> QED  BY <1>1, <2>1, <2>2, <2>3, <2>4 DEF TypeOK
<1>3. Stopped' /\ Slots' /\ Addressed' /\ (pid # None => up)'
  BY DEF Stopped, Slots, Addressed, NodeDown
<1>4. Answers'
  <2>1. \A m \in net : m.pid \in Nat /\ m.pid <= starts
    BY <1>1 DEF IInv, Answers, TypeOK, Ping
  <2> QED  BY <2>1 DEF Answers, NodeDown, None
<1>5. LossAccount'
  <2>1. lossCount' = lossCount /\ carried' = lossCount /\ expectedReplySeqNo' = 0 /\ sendSeqNo' = 0
    BY DEF NodeDown
  <2>2. Cardinality((0..(0 - 1)) \ answered') = 0
    BY FS_EmptySet
  <2> QED  BY <1>1, <2>1, <2>2 DEF LossAccount, TypeOK
<1> QED  BY <1>2, <1>3, <1>4, <1>5 DEF IInv

\* When a ping is sent.
LEMMA SendStep ==
  ASSUME IInv, ~over, over' = over, SendPing
  PROVE  IInv'
<1>1. /\ TypeOK /\ up /\ scheduled /\ Stopped /\ Answers /\ Slots /\ Addressed /\ LossAccount
      /\ (pid # None => up)
  BY DEF IInv, SendPing
<1>2. pid # None /\ pid \in 1..starts /\ pid \in Nat /\ sendSeqNo \in Nat
  BY <1>1 DEF Stopped, TypeOK
<1>3. /\ sendTimeHistory' = [sendTimeHistory EXCEPT ![sendSeqNo % History] = [pid |-> pid, seq |-> sendSeqNo]]
      /\ net' = net \cup {[pid |-> pid, seq |-> sendSeqNo]}
      /\ sendSeqNo' = sendSeqNo + 1
      /\ sentCount' = sentCount + 1
      /\ pings' = [pings EXCEPT ![Current] = @ + 1]
      /\ scheduled' \in BOOLEAN
      /\ UNCHANGED <<par, up, pid, starts, expectedReplySeqNo, lossCount, answered, over, carried>>
  BY DEF SendPing, ScheduleNext, params, lifetime, counting
<1>4. Current \in Index
  BY <1>1, <1>2, PingAssumption DEF SendPing, Current, Index, Addressed, TypeOK
<1>5. destAddrIdx' \in 0..Dests /\ kind' \in {"CHANGE_ADDR", "SEND"}
  <2>1. \A x \in Nat, n \in Nat \ {0} : x % n \in 0..(n - 1)
    OBVIOUS
  <2>2. Current \in 0..(Dests - 1) /\ Current + 1 \in Nat /\ Dests \in Nat \ {0}
    BY <1>4, PingAssumption DEF Index
  <2>3. (Current + 1) % Dests \in 0..Dests /\ Current + 1 \in 0..Dests /\ Current \in 0..Dests
    BY <2>1, <2>2
  <2>4. NextAddress
    BY DEF SendPing
  <2> HIDE DEF Current
  <2> QED  BY <2>3, <2>4 DEF NextAddress
<1>6. sendSeqNo % History \in 0..(History - 1)
  BY <1>2, SlotType
<1>7. TypeOK'
  <2>1. sendTimeHistory' \in [0..(History - 1) -> Ping]
    BY <1>1, <1>2, <1>3, <1>6 DEF TypeOK, Ping
  <2>2. net' \subseteq Ping
    BY <1>1, <1>2, <1>3 DEF TypeOK, Ping
  <2>3. pings' \in [Index -> Nat]
    <3> HIDE DEF Current
    <3> QED  BY <1>1, <1>3, <1>4 DEF TypeOK
  <2> QED  BY <1>1, <1>2, <1>3, <1>5, <2>1, <2>2, <2>3 DEF TypeOK
<1>8. Answers'
  <2>1. \A m \in net : m.pid = pid => m.seq \in Nat /\ m.seq < sendSeqNo
    BY <1>1 DEF TypeOK, Answers, Ping
  <2>2. sendSeqNo \notin answered /\ expectedReplySeqNo <= sendSeqNo + 1
    BY <1>1, <1>2 DEF Answers, TypeOK
  <2>3. pid <= starts
    BY <1>1, <1>2 DEF TypeOK
  <2>4. \A m \in net' : m.pid = pid => m.seq < sendSeqNo + 1 /\ m.seq \notin answered
    BY <1>1, <1>2, <1>3, <2>1, <2>2 DEF Answers
  <2>5. \A m \in net' : m.pid <= starts
    BY <1>1, <1>2, <1>3, <2>3 DEF Answers
  <2> QED  BY <1>1, <1>3, <2>2, <2>4, <2>5 DEF Answers
<1>9. Slots'
  <2> SUFFICES ASSUME NEW s \in 0..sendSeqNo, Kept(s)'
               PROVE  sendTimeHistory'[s % History] = [pid |-> pid, seq |-> s]
    BY <1>2, <1>3 DEF Slots
  <2>1. s \in Nat /\ s % History \in 0..(History - 1) /\ History \in Nat
    BY SlotType, PingAssumption
  <2>2. sendTimeHistory \in [0..(History - 1) -> Ping]
    BY <1>1 DEF TypeOK
  <2>3. CASE s = sendSeqNo
    BY <1>3, <2>1, <2>2, <2>3
  <2>4. CASE s < sendSeqNo
    <3>1. sendSeqNo - s < History
      BY <1>2, <1>3, <2>1 DEF Kept
    <3>2. s % History # sendSeqNo % History
      BY <1>2, <2>1, <2>4, <3>1, OwnSlot
    <3>3. Kept(s) /\ s \in 0..(sendSeqNo - 1)
      BY <1>2, <2>1, <2>4, <3>1 DEF Kept
    <3>4. sendTimeHistory[s % History] = [pid |-> pid, seq |-> s]
      BY <1>1, <1>2, <3>3 DEF Slots
    <3> QED  BY <1>3, <2>1, <2>2, <3>2, <3>4
  <2> QED  BY <1>2, <2>1, <2>3, <2>4
<1>10. Stopped' /\ Addressed' /\ (pid # None => up)'
  BY <1>1, <1>2, <1>3, <1>5, PingAssumption DEF Stopped, Addressed
<1>11. LossAccount'
  BY <1>1, <1>3 DEF LossAccount
<1> QED  BY <1>7, <1>8, <1>9, <1>10, <1>11 DEF IInv

\* When a reply arrives.
LEMMA ReplyStep ==
  ASSUME IInv, ~over, over' = over, NEW m \in net, Reply(m)
  PROVE  IInv'
<1>1. /\ TypeOK /\ Stopped /\ Answers /\ Slots /\ Addressed /\ LossAccount /\ (pid # None => up)
  BY DEF IInv
<1>2. /\ net' = net \ {m}
      /\ UNCHANGED <<par, up, pid, starts, kind, scheduled, destAddrIdx, sendSeqNo, sendTimeHistory,
                     sentCount, over, carried, pings>>
  BY DEF Reply, params, lifetime, sending
<1>3. CASE ~(up /\ m.pid = pid)
  <2>1. UNCHANGED <<expectedReplySeqNo, lossCount, answered>>
    BY <1>3 DEF Reply, counting
  <2> QED  BY <1>2, <2>1, QuietStep
<1>4. CASE up /\ m.pid = pid
  <2> DEFINE s == m.seq
  <2>1. m \in Ping /\ s \in Nat /\ m.pid \in Nat
    BY <1>1 DEF TypeOK, Ping
  <2>2. s \notin answered /\ s < sendSeqNo
    BY <1>1, <1>4 DEF Answers
  <2>3. CountPingResponse(s) /\ answered' = answered \cup {s}
    BY <1>4 DEF Reply
  <2>4. pid # None
    BY <1>4, <2>1 DEF None
  <2>5. \A k \in net' : k.pid = pid => k.seq # s
    <3> SUFFICES ASSUME NEW k \in net', k.pid = pid, k.seq = s PROVE FALSE
      OBVIOUS
    <3>1. k \in Ping /\ k # m
      BY <1>1, <1>2 DEF TypeOK
    <3> QED  BY <1>4, <2>1, <3>1 DEF Ping
  <2> HIDE DEF s
  <2>6. /\ lossCount' \in Int /\ expectedReplySeqNo' \in Nat /\ expectedReplySeqNo' <= sendSeqNo
        /\ answered' \subseteq 0..(expectedReplySeqNo' - 1)
        /\ lossCount' = carried + Cardinality((0..(expectedReplySeqNo' - 1)) \ answered')
    BY <1>1, <2>1, <2>2, <2>3, ReplyAccount
  <2>7. TypeOK'
    <3>1. answered' \subseteq Nat /\ net' \subseteq Ping
      BY <1>1, <1>2, <2>1, <2>3 DEF TypeOK
    <3> QED  BY <1>1, <1>2, <2>6, <3>1 DEF TypeOK
  <2>8. Stopped' /\ Addressed' /\ (pid # None => up)'
    BY <1>1, <1>2, <2>4 DEF Stopped, Addressed
  <2>9. Answers'
    <3>1. \A k \in net' : k.pid <= starts
      BY <1>1, <1>2 DEF Answers
    <3>2. \A k \in net' : k.pid = pid => k.seq < sendSeqNo /\ k.seq \notin answered'
      BY <1>1, <1>2, <2>3, <2>5 DEF Answers
    <3> QED  BY <1>2, <2>6, <3>1, <3>2 DEF Answers
  <2>10. Slots'
    BY <1>1, <1>2 DEF Slots, Kept
  <2>11. LossAccount'
    BY <1>2, <2>6 DEF LossAccount
  <2> QED  BY <2>7, <2>8, <2>9, <2>10, <2>11 DEF IInv
<1> QED  BY <1>3, <1>4

\* At the end of the simulation.
LEMMA FinishStep ==
  ASSUME IInv, ~over, Finish
  PROVE  IInv'
<1>1. TypeOK /\ Answers /\ LossAccount
  BY DEF IInv
<1>2. /\ over' = TRUE
      /\ UNCHANGED <<par, up, pid, starts, kind, scheduled, destAddrIdx, sendSeqNo, sendTimeHistory,
                     sentCount, expectedReplySeqNo, answered, net, carried, pings>>
      /\ lossCount' = IF sendSeqNo = 0 THEN lossCount ELSE lossCount + (sendSeqNo - expectedReplySeqNo)
  BY DEF Finish, params, lifetime, sending
<1>3. TypeOK'
  <2>1. lossCount' \in Int
    BY <1>1, <1>2 DEF TypeOK
  <2> QED  BY <1>1, <1>2, <2>1 DEF TypeOK
<1>4. Stopped' /\ Addressed' /\ Answers' /\ Slots' /\ (pid # None => up)'
  BY <1>2 DEF IInv, Stopped, Addressed, Answers, Slots, Kept
<1>5. LossAccount'
  <2> DEFINE e == expectedReplySeqNo
  <2>1. e \in Nat /\ sendSeqNo \in Nat /\ e <= sendSeqNo /\ answered \subseteq 0..(e - 1)
    BY <1>1 DEF TypeOK, Answers
  <2>2. lossCount \in Int /\ carried \in Int /\ lossCount = carried + Cardinality((0..(e - 1)) \ answered)
    BY <1>1 DEF TypeOK, LossAccount
  <2>3. CASE sendSeqNo = 0
    BY <1>2, <2>2, <2>3 DEF LossAccount
  <2>4. CASE sendSeqNo # 0
    <3> DEFINE M == (0..(e - 1)) \ answered
               S == (0..(sendSeqNo - 1)) \ answered
    <3>1. Cardinality(M) \in Nat /\ Cardinality(S) = Cardinality(M) + (sendSeqNo - e)
      <4> HIDE DEF e
      <4> QED  BY <2>1, MissingUpTo
    <3>2. lossCount' = lossCount + (sendSeqNo - e)
      BY <1>2, <2>4
    <3>3. lossCount' = carried + Cardinality(S)
      <4>1. lossCount = carried + Cardinality(M)
        BY <2>2
      <4> HIDE DEF M, S, e
      <4> QED  BY <2>1, <2>2, <3>1, <3>2, <4>1
    <3> QED  BY <1>2, <2>4, <3>3 DEF LossAccount
  <2> QED  BY <2>3, <2>4
<1> QED  BY <1>2, <1>3, <1>4, <1>5 DEF IInv

-----------------------------------------------------------------------------
\* The program starts in the invariant.
LEMMA InvariantInit == Init => IInv
<1> SUFFICES ASSUME Init PROVE IInv
  OBVIOUS
<1>1. TypeOK
  <2>1. 0 \in Nat /\ [pid |-> 0, seq |-> 0] \in Ping
    BY DEF Ping
  <2>2. -1 \in -1..Dests
    BY PingAssumption
  <2>3. sendTimeHistory \in [0..(History - 1) -> Ping] /\ pings \in [Index -> Nat]
    BY <2>1 DEF Init
  <2>4. /\ pid \in 1..starts \cup {None} /\ net \subseteq Ping /\ answered \subseteq Nat
        /\ up \in BOOLEAN /\ scheduled \in BOOLEAN /\ over \in BOOLEAN
        /\ kind \in {"FIRST_ADDR", "CHANGE_ADDR", "SEND"}
    BY DEF Init
  <2>5. /\ starts \in Nat /\ sendSeqNo \in Nat /\ expectedReplySeqNo \in Nat /\ sentCount \in Nat
        /\ lossCount \in Int /\ carried \in Int /\ destAddrIdx \in -1..Dests
    BY <2>2 DEF Init
  <2>6. par \in [continuous : BOOLEAN, stops : BOOLEAN, count : Counts]
    BY DEF Init
  <2> QED  BY <2>3, <2>4, <2>5, <2>6 DEF TypeOK
<1>2. Stopped /\ Addressed /\ Answers /\ Slots /\ (pid # None => up)
  BY DEF Init, Stopped, Addressed, Answers, Slots
<1>3. LossAccount
  <2>1. (0..(0 - 1)) \ answered = {}
    OBVIOUS
  <2> QED  BY <2>1, FS_EmptySet DEF Init, LossAccount
<1> QED  BY <1>1, <1>2, <1>3 DEF IInv

\* Every step keeps it.
LEMMA InvariantStep == IInv /\ [Next]_vars => IInv'
<1> SUFFICES ASSUME IInv, [Next]_vars PROVE IInv'
  OBVIOUS
<1>1. CASE ~over /\ NodeStart
  <2>1. over' = over
    BY <1>1 DEF NodeStart
  <2> QED  BY <1>1, <2>1, StartStep
<1>2. CASE ~over /\ NodeDown
  <2>1. over' = over
    BY <1>2 DEF NodeDown
  <2> QED  BY <1>2, <2>1, DownStep
<1>3. CASE ~over /\ SendPing
  <2>1. over' = over
    BY <1>3 DEF SendPing
  <2> QED  BY <1>3, <2>1, SendStep
<1>4. CASE LastAddress
  BY <1>4, QuietStep DEF LastAddress, params, lifetime, counting
<1>5. ASSUME NEW m \in net, ~over, Reply(m) PROVE IInv'
  <2>1. over' = over
    BY <1>5 DEF Reply
  <2> QED  BY <1>5, <2>1, ReplyStep
<1>6. ASSUME NEW m \in net, Lose(m) PROVE IInv'
  BY <1>6, QuietStep DEF Lose, params, lifetime, sending, counting
<1>7. CASE ~over /\ Finish
  BY <1>7, FinishStep
<1>8. CASE UNCHANGED vars
  BY <1>8, QuietStep DEF vars, params, lifetime, sending, counting
<1> QED  BY <1>1, <1>2, <1>3, <1>4, <1>5, <1>6, <1>7, <1>8 DEF Next

\* The inductive invariant of the application, for all its parameters.
THEOREM PingInvariant == Spec => []IInv
<1> QED  BY InvariantInit, InvariantStep, PTL DEF Spec

\* The state is of its type: the index of a destination stays within the list.
THEOREM TypeCorrect == Spec => []TypeOK
<1>1. IInv => TypeOK
  BY DEF IInv
<1> QED  BY <1>1, PingInvariant, PTL

\* handleMessage and startSendingPingRequests never find the timer as their
\* error and assertion fear.
THEOREM PingNoTimerWhenDown == Spec => []NoTimerWhenDown
<1>1. IInv => NoTimerWhenDown
  BY DEF IInv, Stopped, TypeOK, NoTimerWhenDown
<1> QED  BY <1>1, PingInvariant, PTL

\* countPingResponse and finish keep the account of lost pings.
THEOREM PingLossAccount == Spec => []LossAccount
<1>1. IInv => LossAccount
  BY DEF IInv
<1> QED  BY <1>1, PingInvariant, PTL

\* processPingResponse takes the sending time of the ping that was answered,
\* for any size of the circular buffer.
THEOREM PingRttOfItsPing == Spec => []RttOfItsPing
<1>1. IInv => RttOfItsPing
  <2> SUFFICES ASSUME IInv, NEW m \in net, m.pid = pid, Kept(m.seq)
               PROVE  sendTimeHistory[m.seq % History] = m
    BY DEF RttOfItsPing
  <2>1. m \in Ping /\ m.seq \in Nat /\ m.pid \in Nat /\ sendSeqNo \in Nat
    BY DEF IInv, TypeOK, Ping
  <2>2. m.seq < sendSeqNo /\ pid # None
    BY <2>1 DEF IInv, Answers, None
  <2>3. m.seq \in 0..(sendSeqNo - 1)
    BY <2>1, <2>2
  <2>4. sendTimeHistory[m.seq % History] = [pid |-> m.pid, seq |-> m.seq]
    BY <2>2, <2>3 DEF IInv, Slots
  <2> QED  BY <2>1, <2>4 DEF Ping
<1> QED  BY <1>1, PingInvariant, PTL

-----------------------------------------------------------------------------
\* The destinations are pinged in turn: q rounds are complete and the next
\* destination is Current.  Whoever does not ping for ever goes round once,
\* and only the end of the list or the stop time leave the timer idle.
Rounds(q) ==
  /\ sendSeqNo = Dests * q + Current
  /\ \A d \in Index : pings[d] = q + (IF d < Current THEN 1 ELSE 0)
  /\ ~par.continuous /\ Dests > 1 => q = 0

Turns ==
  /\ pid = None => \A d \in Index : pings[d] = 0
  /\ pid # None =>
       /\ kind = "FIRST_ADDR" => sendSeqNo = 0
       /\ Dests = 1 => Current = 0
       /\ par.continuous => Current < Dests
       /\ ~scheduled /\ ~par.stops => kind = "CHANGE_ADDR" /\ destAddrIdx >= Dests
       /\ \E q \in Nat : Rounds(q)

\* The quotient is the one number that leaves a remainder.
LEMMA Quotient ==
  ASSUME NEW x \in Nat, NEW n \in Nat \ {0}, NEW q \in Nat, NEW r \in 0..(n - 1), x = n * q + r
  PROVE  x \div n = q
<1> DEFINE p == x \div n
           t == x % n
<1>1. p \in Int /\ t \in 0..(n - 1) /\ x = n * p + t
  OBVIOUS
<1> HIDE DEF p, t
<1>2. n * p \in Int /\ n * q \in Int
  BY <1>1
<1>3. ASSUME NEW a \in Int, NEW b \in Int, a < b PROVE n * a < n * b
  <2>1. PICK k \in Nat : b = a + 1 + k
    BY <1>3
  <2>2. n * b = n * a + n + n * k /\ n * k \in Nat /\ n * a \in Int
    BY <2>1
  <2> QED  BY <2>2
<1>4. CASE p < q
  <2>1. n * q - n * p >= n
    BY <1>1, <1>3, <1>4, Apart
  <2> QED  BY <1>1, <1>2, <2>1
<1>5. CASE q < p
  <2>1. n * p - n * q >= n
    BY <1>1, <1>3, <1>5, Apart
  <2> QED  BY <1>1, <1>2, <2>1
<1> QED  BY <1>1, <1>4, <1>5 DEF p

\* Where the next ping goes: the index is in the list or just past its end.
LEMMA CurrentType == ASSUME IInv, pid # None PROVE Current \in 0..Dests
BY PingAssumption DEF IInv, TypeOK, Addressed, Current

LEMMA TurnsInit == Init => Turns
BY DEF Init, Turns

\* Sending a ping moves on to the next destination.
LEMMA TurnsSend == ASSUME IInv, Turns, SendPing PROVE Turns'
<1>0. Dests \in Nat \ {0}
  BY PingAssumption
<1>1. /\ pid # None /\ pid' = pid /\ par' = par /\ sendSeqNo \in Nat
      /\ pings \in [Index -> Nat]
      /\ sendSeqNo' = sendSeqNo + 1
      /\ pings' = [pings EXCEPT ![Current] = @ + 1]
      /\ NextAddress /\ Current < Dests
  BY DEF SendPing, IInv, Stopped, TypeOK, params, lifetime
<1>2. Current \in 0..(Dests - 1)
  BY <1>0, <1>1, CurrentType
<1>3. PICK q \in Nat : Rounds(q)
  BY <1>1 DEF Turns
<1>4. par \in [continuous : BOOLEAN, stops : BOOLEAN, count : Counts]
  BY DEF IInv, TypeOK
<1>5. scheduled' \/ par.stops
  BY DEF SendPing, ScheduleNext
<1> DEFINE c == Current
<1>6. /\ c \in 0..(Dests - 1) /\ sendSeqNo = Dests * q + c
      /\ \A d \in Index : pings[d] = q + (IF d < c THEN 1 ELSE 0)
      /\ ~par.continuous /\ Dests > 1 => q = 0
  BY <1>2, <1>3 DEF Rounds
<1>7. \A d \in Index : pings'[d] = q + (IF d < c + 1 THEN 1 ELSE 0)
  <2> SUFFICES ASSUME NEW d \in Index PROVE pings'[d] = q + (IF d < c + 1 THEN 1 ELSE 0)
    OBVIOUS
  <2> HIDE DEF c
  <2>1. pings' = [pings EXCEPT ![c] = @ + 1]
    BY <1>1 DEF c
  <2>2. d \in Int
    BY <1>0 DEF Index
  <2>3. CASE d = c
    BY <1>1, <1>6, <2>1, <2>2, <2>3
  <2>4. CASE d # c
    BY <1>1, <1>6, <2>1, <2>2, <2>4
  <2> QED  BY <2>3, <2>4
<1>8. CASE Dests > 1 /\ ~(c + 1 >= Dests /\ par.continuous)
  <2>1. destAddrIdx' = c + 1 /\ kind' = "CHANGE_ADDR" /\ Current' = c + 1
    BY <1>1, <1>8 DEF NextAddress, Current
  <2>2. Rounds(q)'
    <3> HIDE DEF c
    <3>1. Dests * q \in Int
      BY <1>0
    <3> QED  BY <1>1, <1>6, <1>7, <2>1, <3>1 DEF Rounds, Index
  <2>3. par'.continuous => Current' < Dests
    <3> HIDE DEF c
    <3> QED  BY <1>0, <1>1, <1>6, <1>8, <2>1
  <2> QED  BY <1>1, <1>5, <1>8, <2>1, <2>2, <2>3 DEF Turns
<1>9. CASE Dests > 1 /\ c + 1 >= Dests /\ par.continuous
  <2>0. c + 1 = Dests
    <3> HIDE DEF c
    <3> QED  BY <1>0, <1>6, <1>9
  <2>1. destAddrIdx' = 0 /\ kind' = "CHANGE_ADDR" /\ Current' = 0
    <3>1. Dests % Dests = 0
      BY <1>0
    <3> QED  BY <1>1, <1>9, <2>0, <3>1 DEF NextAddress, Current
  <2>2. Rounds(q + 1)'
    <3> HIDE DEF c
    <3>1. Dests * (q + 1) = Dests * q + Dests /\ Dests * q \in Int
      BY <1>0
    <3>2. \A d \in Index : pings'[d] = q + 1
      BY <1>0, <1>7, <2>0 DEF Index
    <3>3. \A d \in Index : ~(d < 0)
      BY DEF Index
    <3> QED  BY <1>1, <1>6, <1>9, <2>0, <2>1, <3>1, <3>2, <3>3 DEF Rounds, Index
  <2>3. q + 1 \in Nat
    OBVIOUS
  <2> QED  BY <1>0, <1>1, <1>5, <1>9, <2>1, <2>2, <2>3 DEF Turns
<1>10. CASE Dests = 1
  <2>0. c = 0
    BY <1>2, <1>10
  <2>1. destAddrIdx' = 0 /\ kind' = "SEND" /\ Current' = 0
    BY <1>1, <1>10, <2>0 DEF NextAddress, Current
  <2>2. Rounds(q + 1)'
    <3> HIDE DEF c
    <3>1. \A d \in Index : pings'[d] = q + 1 /\ ~(d < 0)
      BY <1>0, <1>7, <1>10, <2>0 DEF Index
    <3> QED  BY <1>1, <1>6, <1>10, <2>0, <2>1, <3>1 DEF Rounds, Index
  <2>3. q + 1 \in Nat
    OBVIOUS
  <2>4. ~scheduled' => par'.stops
    BY <1>1, <1>5
  <2> QED  BY <1>1, <1>10, <2>1, <2>2, <2>3, <2>4 DEF Turns
<1> QED  BY <1>0, <1>8, <1>9, <1>10

LEMMA TurnsStep == IInv /\ Turns /\ [Next]_vars => Turns'
<1> SUFFICES ASSUME IInv, Turns, [Next]_vars PROVE Turns'
  OBVIOUS
<1>0. Dests \in Nat \ {0} /\ TypeOK
  BY PingAssumption DEF IInv
<1>1. CASE NodeStart
  <2>1. pid = None /\ sendSeqNo' = 0 /\ pings' = pings /\ par' = par
    BY <1>1 DEF NodeStart, IInv, Stopped, params
  <2>2. CASE pid' = None
    BY <2>1, <2>2 DEF Turns
  <2>3. CASE pid' # None
    <3>1. Enabled /\ kind' = "FIRST_ADDR" /\ (scheduled' \/ par.stops)
      BY <1>1, <2>1, <2>3 DEF NodeStart, ScheduleNext
    <3>2. Current' = 0
      BY <3>1 DEF Current
    <3>3. Rounds(0)'
      <4>1. Dests * 0 = 0 /\ \A d \in Index : d \in Nat
        BY <1>0 DEF Index
      <4> QED  BY <2>1, <3>2, <4>1 DEF Rounds, Turns, Index
    <3> QED  BY <1>0, <2>1, <2>3, <3>1, <3>2, <3>3 DEF Turns
  <2> QED  BY <2>2, <2>3
<1>2. CASE NodeDown
  BY <1>2 DEF NodeDown, Turns, Index
<1>3. CASE SendPing
  BY <1>3, TurnsSend
<1>4. CASE LastAddress
  <2>1. UNCHANGED <<par, pid, kind, destAddrIdx, sendSeqNo, pings>> /\ kind = "CHANGE_ADDR"
        /\ destAddrIdx >= Dests
    BY <1>4 DEF LastAddress, params, lifetime
  <2>2. Current' = Current /\ \A q : Rounds(q)' <=> Rounds(q)
    BY <2>1 DEF Rounds, Current
  <2> QED  BY <2>1, <2>2 DEF Turns
<1>5. CASE (\E m \in net : Reply(m) \/ Lose(m)) \/ Finish \/ UNCHANGED vars
  <2>1. UNCHANGED <<par, pid, kind, scheduled, destAddrIdx, sendSeqNo, pings>>
    BY <1>5 DEF Reply, Lose, Finish, vars, params, lifetime, sending
  <2>2. Current' = Current /\ \A q : Rounds(q)' <=> Rounds(q)
    BY <2>1 DEF Rounds, Current
  <2> QED  BY <2>1, <2>2 DEF Turns
<1> QED  BY <1>1, <1>2, <1>3, <1>4, <1>5 DEF Next

\* Whatever is answered, lost or started again, sendPing has gone to
\* destination d once for every round of the list that has come to it.
InTurn == \A d \in Index : pings[d] = (sendSeqNo + (Dests - 1 - d)) \div Dests

\* handleMessage and NextAddress: the pings since a start are spread evenly.
THEOREM PingInTurn == Spec => []InTurn
<1>1. IInv /\ Turns => InTurn
  <2> SUFFICES ASSUME IInv, Turns, NEW d \in Index
               PROVE  pings[d] = (sendSeqNo + (Dests - 1 - d)) \div Dests
    BY DEF InTurn
  <2>0. Dests \in Nat \ {0} /\ d \in 0..(Dests - 1) /\ sendSeqNo \in Nat
    BY PingAssumption DEF Index, IInv, TypeOK
  <2> DEFINE x == sendSeqNo + (Dests - 1 - d)
  <2>1. x \in Nat
    BY <2>0
  <2>2. CASE pid = None
    <3>1. sendSeqNo = 0 /\ pings[d] = 0
      BY <2>2 DEF Turns, IInv, Stopped
    <3>2. Dests - 1 - d \in 0..(Dests - 1) /\ x = Dests * 0 + (Dests - 1 - d)
      BY <2>0, <3>1
    <3> HIDE DEF x
    <3>3. x \div Dests = 0
      BY <2>0, <2>1, <3>2, Quotient
    <3> QED  BY <3>1, <3>3 DEF x
  <2>3. CASE pid # None
    <3> DEFINE c == Current
    <3>1. c \in 0..Dests
      BY <2>3, CurrentType
    <3>2. PICK q \in Nat : Rounds(q)
      BY <2>3 DEF Turns
    <3>3. sendSeqNo = Dests * q + c /\ pings[d] = q + (IF d < c THEN 1 ELSE 0)
      BY <3>2 DEF Rounds
    <3>4. Dests * q \in Nat /\ Dests * (q + 1) = Dests * q + Dests
      BY <2>0
    <3> HIDE DEF c
    <3>5. CASE d < c
      <4>1. c - 1 - d \in 0..(Dests - 1) /\ x = Dests * (q + 1) + (c - 1 - d)
        BY <2>0, <3>1, <3>3, <3>4, <3>5
      <4> HIDE DEF x
      <4>2. x \div Dests = q + 1
        BY <2>0, <2>1, <4>1, Quotient
      <4> QED  BY <3>3, <3>5, <4>2 DEF x
    <3>6. CASE ~(d < c)
      <4>1. Dests - 1 - d + c \in 0..(Dests - 1) /\ x = Dests * q + (Dests - 1 - d + c)
        BY <2>0, <3>1, <3>3, <3>4, <3>6
      <4> HIDE DEF x
      <4>2. x \div Dests = q
        BY <2>0, <2>1, <4>1, Quotient
      <4> QED  BY <3>3, <3>6, <4>2 DEF x
    <3> QED  BY <3>5, <3>6
  <2> QED  BY <2>2, <2>3
<1> QED  BY <1>1, PingInvariant, TurnsInit, TurnsStep, PTL DEF Spec

\* An application without a stop time that sends no more, because its timer is
\* idle or, pinging for ever, because it has sent all that the bound allows,
\* has given every destination its share: what EveryDestination adds is that
\* the simulator fires the timer.
Spent == ~scheduled \/ (par.continuous /\ sendSeqNo >= MaxSeq)

THEOREM PingShare ==
  Spec => [](pid # None /\ ~par.stops /\ Spent => \A d \in Index : Share(d))
<1>1. ASSUME IInv, Turns, pid # None, ~par.stops, Spent, NEW d \in Index
      PROVE  Share(d)
  <2>0. /\ Dests \in Nat \ {0} /\ MaxSeq \in Nat /\ sendSeqNo \in Nat /\ d \in 0..(Dests - 1)
        /\ par.continuous \in BOOLEAN
    BY <1>1, PingAssumption DEF Index, IInv, TypeOK
  <2> DEFINE c == Current
  <2>1. c \in 0..Dests
    BY <1>1, CurrentType
  <2>2. PICK q \in Nat : Rounds(q)
    BY <1>1 DEF Turns
  <2>3. sendSeqNo = Dests * q + c /\ pings[d] = q + (IF d < c THEN 1 ELSE 0)
    BY <2>2 DEF Rounds
  <2>4. CASE par.continuous
    <3>1. c < Dests /\ sendSeqNo >= MaxSeq
      <4>1. par.continuous => c < Dests
        BY <1>1 DEF Turns
      <4>2. scheduled
        <5>1. ~scheduled => kind = "CHANGE_ADDR" /\ destAddrIdx >= Dests
          BY <1>1 DEF Turns
        <5>2. kind = "CHANGE_ADDR" => c = destAddrIdx
          BY DEF Current
        <5>3. destAddrIdx \in Int
          BY <1>1 DEF IInv, TypeOK
        <5> HIDE DEF c
        <5> QED  BY <2>0, <2>1, <2>4, <4>1, <5>1, <5>2, <5>3
      <4> QED  BY <1>1, <2>4, <4>1, <4>2 DEF Spent
    <3> DEFINE k == MaxSeq \div Dests
               r == MaxSeq % Dests
    <3>2. k \in Int /\ r \in 0..(Dests - 1) /\ MaxSeq = Dests * k + r
      BY <2>0
    <3> HIDE DEF k, r, c
    <3>3. k <= q
      <4>1. ASSUME k >= q + 1 PROVE FALSE
        <5>1. PICK j \in Nat : k = q + 1 + j
          BY <3>2, <4>1
        <5>2. Dests * k = Dests * q + Dests + Dests * j /\ Dests * j \in Nat /\ Dests * q \in Nat
          BY <2>0, <5>1
        <5> QED  BY <2>0, <2>1, <2>3, <3>1, <3>2, <5>2
      <4> QED  BY <3>2, <4>1
    <3>4. pings[d] >= k
      BY <2>1, <2>3, <3>2, <3>3
    <3> QED  BY <2>4, <3>4 DEF Share, k
  <2>5. CASE ~par.continuous
    <3>1. ~scheduled /\ c = destAddrIdx /\ destAddrIdx >= Dests
      BY <1>1, <2>5 DEF Turns, Spent, Current
    <3> HIDE DEF c
    <3>2. d < c
      BY <2>0, <2>1, <3>1
    <3> QED  BY <2>3, <2>5, <3>2 DEF Share
  <2> QED  BY <2>4, <2>5
<1>2. IInv /\ Turns => (pid # None /\ ~par.stops /\ Spent => \A d \in Index : Share(d))
  BY <1>1
<1> QED  BY <1>2, PingInvariant, TurnsInit, TurnsStep, PTL DEF Spec

=============================================================================
