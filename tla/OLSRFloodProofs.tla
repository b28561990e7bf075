-------------------------- MODULE OLSRFloodProofs ---------------------------
(***************************************************************************)
(* Proofs about OLSRFlood, for any network, any number of messages and any *)
(* behaviour of the neighbourhood sets; and, for any network whose         *)
(* neighbourhood sets are right and at rest, that a flood leaves nobody    *)
(* out (RestInvariant, FloodDelivers, FloodCompletes).                     *)
(***************************************************************************)
EXTENDS OLSRFlood, SequenceTheorems, FiniteSetTheorems, TLAPS

\* Node n may send m: it is its originator, or has processed it.
Has(n, m) == m \in Msg \ new /\ (orig[m] = n \/ m \in got[n])

\* Every buffered message was enqueued with a timer of its own.
Timed == \A n \in Node : Len(msgs[n]) <= timers[n]

\* What has not been made yet is nowhere known.
Unknown == \A n \in Node : (tx[n] \cup dup[n] \cup got[n]) \cap new = {}

\* Whatever is on its way is with a node that has it, or in reach of one.
Sourced ==
  /\ \A n \in Node : \A m \in Carried(msgs[n]) : Has(n, m)
  /\ \A p \in air \cup rx : p.to \in radio[p.from] /\ \A m \in Carried(p.load) : Has(p.from, m)

\* What a node has sent or buffered it will not take again while a copy is on
\* its way: it is its own or has a duplicate tuple.
Marked ==
  \A n \in Node : \A m \in tx[n] \cup Carried(msgs[n]) :
    orig[m] = n \/ m \in dup[n] \/ ~UnderWay(m)

Inv == TypeOK /\ Timed /\ Unknown /\ Sourced /\ Marked /\ AtMostOnce

-----------------------------------------------------------------------------
LEMMA CarriedEmpty == Carried(<<>>) = {}
  BY DEF Carried

LEMMA CarriedAppend ==
  ASSUME NEW s \in Seq(Copy), NEW c \in Copy
  PROVE  /\ Append(s, c) \in Seq(Copy)
         /\ Len(Append(s, c)) = Len(s) + 1
         /\ Carried(Append(s, c)) = Carried(s) \cup {c.msg}
<1>1. /\ Append(s, c) \in Seq(Copy)
      /\ Len(Append(s, c)) = Len(s) + 1
      /\ \A i \in 1..Len(s) : Append(s, c)[i] = s[i]
      /\ Append(s, c)[Len(s) + 1] = c
  BY AppendProperties
<1>2. Len(s) \in Nat
  BY LenProperties
<1>3. Carried(Append(s, c)) \subseteq Carried(s) \cup {c.msg}
  <2>1. SUFFICES ASSUME NEW i \in 1..Len(s) + 1
                 PROVE  Append(s, c)[i].msg \in Carried(s) \cup {c.msg}
    BY <1>1 DEF Carried
  <2>2. i \in 1..Len(s) \/ i = Len(s) + 1
    BY <1>2
  <2> QED  BY <1>1, <2>2 DEF Carried
<1>4. Carried(s) \subseteq Carried(Append(s, c))
  <2>1. SUFFICES ASSUME NEW i \in 1..Len(s)
                 PROVE  s[i].msg \in Carried(Append(s, c))
    BY DEF Carried
  <2>2. i \in 1..Len(Append(s, c))
    BY <1>1, <1>2
  <2> QED  BY <1>1, <2>2 DEF Carried
<1>5. c.msg \in Carried(Append(s, c))
  <2>1. Len(s) + 1 \in 1..Len(Append(s, c))
    BY <1>1, <1>2
  <2> QED  BY <1>1, <2>1 DEF Carried
<1> QED  BY <1>1, <1>3, <1>4, <1>5

\* The messages of a buffer, none of them in T, are different from each other.
Once(s, T) ==
  \A i \in 1..Len(s) :
    /\ s[i].msg \notin T
    /\ \A j \in 1..Len(s) : s[i].msg = s[j].msg => i = j

\* A message joins a buffer that does not hold it.
LEMMA AppendedOnce ==
  ASSUME NEW s \in Seq(Copy), NEW c \in Copy, NEW T,
         Once(s, T), c.msg \notin T, c.msg \notin Carried(s)
  PROVE  Once(Append(s, c), T)
<1> DEFINE r == Append(s, c)
<1>1. /\ Len(r) = Len(s) + 1
      /\ \A i \in 1..Len(s) : r[i] = s[i]
      /\ r[Len(s) + 1] = c
      /\ Len(s) \in Nat
  BY AppendProperties, LenProperties
<1> HIDE DEF r
<1>2. \A i \in 1..Len(r) : i \in 1..Len(s) \/ i = Len(s) + 1
  BY <1>1
<1>3. \A i \in 1..Len(s) : s[i].msg # c.msg
  BY DEF Carried
<1>4. ASSUME NEW i \in 1..Len(r)
      PROVE  r[i].msg \notin T
  BY <1>1, <1>2 DEF Once
<1>5. ASSUME NEW i \in 1..Len(r), NEW j \in 1..Len(r), r[i].msg = r[j].msg
      PROVE  i = j
  BY <1>1, <1>2, <1>3, <1>5 DEF Once
<1> QED  BY <1>4, <1>5 DEF Once, r

LEMMA CarriedHeadTail ==
  ASSUME NEW s \in Seq(Copy), Len(s) > 0
  PROVE  /\ Head(s) \in Copy
         /\ Head(s).msg \in Carried(s)
         /\ Tail(s) \in Seq(Copy)
         /\ Len(Tail(s)) = Len(s) - 1
         /\ Carried(Tail(s)) \subseteq Carried(s)
<1>1. Len(s) \in Nat /\ s # <<>>
  BY LenProperties, EmptySeq
<1>2. /\ Head(s) \in Copy
      /\ Tail(s) \in Seq(Copy)
      /\ Len(Tail(s)) = Len(s) - 1
      /\ \A i \in 1..Len(Tail(s)) : Tail(s)[i] = s[i + 1]
  BY <1>1, HeadTailProperties
<1>3. Head(s).msg \in Carried(s)
  BY <1>1 DEF Carried
<1>4. Carried(Tail(s)) \subseteq Carried(s)
  <2>1. SUFFICES ASSUME NEW i \in 1..Len(Tail(s))
                 PROVE  s[i + 1].msg \in Carried(s)
    BY <1>2 DEF Carried
  <2>2. i + 1 \in 1..Len(s)
    BY <1>1, <1>2
  <2> QED  BY <2>2 DEF Carried
<1> QED  BY <1>2, <1>3, <1>4

\* send_pkt makes no empty packet, none that is too long, and puts nothing in
\* them that was not in the buffer.
LEMMA ChunksProperties ==
  ASSUME FloodAssumption, NEW s \in Seq(Copy), NEW t \in Chunks(s)
  PROVE  /\ t \in Seq(Copy)
         /\ Len(t) \in 1..MaxMsgs
         /\ Carried(t) \subseteq Carried(s)
<1>1. Len(s) \in Nat /\ MaxMsgs \in Nat /\ MaxMsgs > 0
  BY LenProperties DEF FloodAssumption
<1>2. PICK k \in 0..Len(s) :
        /\ k * MaxMsgs < Len(s)
        /\ t = SubSeq(s, k * MaxMsgs + 1,
                      IF Len(s) < (k + 1) * MaxMsgs THEN Len(s) ELSE (k + 1) * MaxMsgs)
  BY DEF Chunks
<1> DEFINE a == k * MaxMsgs
           b == IF Len(s) < (k + 1) * MaxMsgs THEN Len(s) ELSE (k + 1) * MaxMsgs
<1>3. /\ a \in Nat
      /\ a < Len(s)
      /\ (k + 1) * MaxMsgs = a + MaxMsgs
  BY <1>1, <1>2
<1>4. /\ b \in Nat
      /\ a + 1 <= b
      /\ b <= Len(s)
      /\ b - a <= MaxMsgs
      /\ t = SubSeq(s, a + 1, b)
  BY <1>1, <1>2, <1>3
<1> HIDE DEF a, b
<1>5. /\ a + 1 \in 1..Len(s) + 1
      /\ b \in a + 1 - 1..Len(s)
  BY <1>1, <1>3, <1>4
<1>6. /\ t \in Seq(Copy)
      /\ Len(t) = b - (a + 1) + 1
      /\ \A i \in 1..b - (a + 1) + 1 : t[i] = s[a + 1 + i - 1]
  BY <1>4, <1>5, SubSeqProperties
<1>7. Len(t) \in 1..MaxMsgs
  BY <1>1, <1>3, <1>4, <1>6
<1>8. ASSUME NEW i \in 1..Len(t)
      PROVE  t[i].msg \in Carried(s)
  <2>1. a + 1 + i - 1 \in 1..Len(s)
    BY <1>1, <1>3, <1>4, <1>6
  <2>2. t[i] = s[a + 1 + i - 1]
    BY <1>6
  <2> QED  BY <2>1, <2>2 DEF Carried
<1> QED  BY <1>6, <1>7, <1>8 DEF Carried

-----------------------------------------------------------------------------
LEMMA TypeInit ==
  ASSUME FloodAssumption, Init
  PROVE  TypeOK
  BY EmptySeq DEF Init, Quiet, TypeOK

\* The parts of TypeOK that a step may disturb are typed one by one.
LEMMA OriginateType ==
  ASSUME FloodAssumption, TypeOK, NEW m \in Msg, Originate(m)
  PROVE  TypeOK'
<1> DEFINE c == [msg |-> m, ttl |-> Ttl]
<1>1. c \in Copy /\ orig[m] \in Node
  BY DEF FloodAssumption, Copy
<1>2. Append(msgs[orig[m]], c) \in Seq(Copy)
  BY <1>1, CarriedAppend DEF TypeOK
<1>3. msgs' \in [Node -> Seq(Copy)] /\ timers' \in [Node -> Nat]
  BY <1>1, <1>2 DEF TypeOK, Originate, Enqueue
<1>4. UNCHANGED <<radio, sym, sel, dup, air, rx, down, got, tx>> /\ new' \subseteq new
  BY DEF Originate, topo
<1> QED  BY <1>3, <1>4 DEF TypeOK

LEMMA MsgTimerType ==
  ASSUME FloodAssumption, TypeOK, NEW n \in Node, MsgTimer(n)
  PROVE  TypeOK'
<1>1. msgs' \in [Node -> Seq(Copy)] /\ timers' \in [Node -> Nat]
  BY EmptySeq DEF TypeOK, MsgTimer
<1>2. Carried(msgs[n]) \subseteq Msg
  <2>1. msgs[n] \in Seq(Copy)
    BY DEF TypeOK
  <2>2. \A i \in 1..Len(msgs[n]) : msgs[n][i] \in Copy
    BY <2>1, ElementOfSeq
  <2> QED  BY <2>2 DEF Carried, Copy
<1>3. tx' \in [Node -> SUBSET Msg]
  BY <1>2 DEF TypeOK, MsgTimer
<1>4. ASSUME NEW p \in air' \ air
      PROVE  p \in Packet /\ Len(p.load) \in 1..MaxMsgs
  <2>1. PICK r \in radio[n], s \in Chunks(msgs[n]) : p = [from |-> n, to |-> r, load |-> s]
    BY <1>4 DEF MsgTimer
  <2>2. msgs[n] \in Seq(Copy) /\ r \in Node
    BY DEF TypeOK
  <2>3. s \in Seq(Copy) /\ Len(s) \in 1..MaxMsgs
    BY <2>2, ChunksProperties
  <2> QED  BY <2>1, <2>2, <2>3 DEF Packet
<1> QED  BY <1>1, <1>3, <1>4 DEF TypeOK, MsgTimer, topo

LEMMA ReceiveType ==
  ASSUME FloodAssumption, TypeOK, NEW p \in rx, Receive(p)
  PROVE  TypeOK'
<1> DEFINE n == p.to
           c == Head(p.load)
<1>1. /\ p \in Packet
      /\ n \in Node
      /\ p.load \in Seq(Copy)
      /\ Len(p.load) \in 1..MaxMsgs
      /\ MaxMsgs \in Nat
  BY DEF TypeOK, Packet, FloodAssumption
<1>2. /\ c \in Copy
      /\ c.msg \in Msg
      /\ c.ttl \in Nat
      /\ Tail(p.load) \in Seq(Copy)
      /\ Len(Tail(p.load)) = Len(p.load) - 1
  <2>1. Len(p.load) > 0
    BY <1>1
  <2>2. /\ c \in Copy
        /\ Tail(p.load) \in Seq(Copy)
        /\ Len(Tail(p.load)) = Len(p.load) - 1
    BY <1>1, <2>1, CarriedHeadTail
  <2> QED  BY <2>2 DEF Copy
<1>3. \A q \in rx' : q \in Packet /\ Len(q.load) \in 1..MaxMsgs
  <2>1. CASE Len(p.load) = 1
    BY <2>1 DEF Receive
  <2>2. CASE Len(p.load) # 1
    <3>1. rx' = {[from |-> p.from, to |-> p.to, load |-> Tail(p.load)]}
      BY <2>2 DEF Receive
    <3>2. [from |-> p.from, to |-> p.to, load |-> Tail(p.load)] \in Packet
      BY <1>1, <1>2 DEF Packet
    <3>3. Len(p.load) - 1 \in 1..MaxMsgs
      <4> DEFINE l == Len(p.load)
      <4>1. l \in 1..MaxMsgs /\ MaxMsgs \in Nat /\ l # 1
        BY <1>1, <2>2
      <4> HIDE DEF l
      <4>2. l - 1 \in 1..MaxMsgs
        BY <4>1
      <4> QED  BY <4>2 DEF l
    <3> QED  BY <1>2, <3>1, <3>2, <3>3
  <2> QED  BY <2>1, <2>2
<1>4. got' \in [Node -> SUBSET Msg] /\ dup' \in [Node -> SUBSET Msg]
  BY <1>1, <1>2 DEF TypeOK, Receive
<1>5. msgs' \in [Node -> Seq(Copy)] /\ timers' \in [Node -> Nat]
  <2>1. CASE Relayed(n, p.from, c)
    <3>1. c.ttl > 1
      BY <2>1 DEF Relayed
    <3>2. OneHopLess(c) \in Copy
      BY <1>2, <3>1 DEF OneHopLess, Copy
    <3>3. Append(msgs[n], OneHopLess(c)) \in Seq(Copy)
      BY <1>1, <3>2, CarriedAppend DEF TypeOK
    <3>4. Enqueue(n, OneHopLess(c))
      BY <2>1 DEF Receive
    <3> QED  BY <1>1, <3>3, <3>4 DEF TypeOK, Enqueue
  <2>2. CASE ~Relayed(n, p.from, c)
    BY <2>2 DEF TypeOK, Receive
  <2> QED  BY <2>1, <2>2
<1> QED  BY <1>3, <1>4, <1>5 DEF TypeOK, Receive, topo

LEMMA TypeStep ==
  ASSUME FloodAssumption, TypeOK, [Next]_vars
  PROVE  TypeOK'
<1>1. CASE \E m \in Msg : Originate(m)
  BY <1>1, OriginateType
<1>2. CASE \E n \in Node : MsgTimer(n)
  BY <1>2, MsgTimerType
<1>3. ASSUME NEW p \in air, Accept(p)
      PROVE  TypeOK'
  BY <1>3 DEF TypeOK, Accept, topo
<1>4. CASE \E p \in rx : Receive(p)
  BY <1>4, ReceiveType
<1>5. ASSUME NEW p \in air, Lose(p)
      PROVE  TypeOK'
  BY <1>5 DEF TypeOK, Lose, topo
<1>6. ASSUME NEW n \in Node, NEW m \in Msg, DupExpire(n, m)
      PROVE  TypeOK'
  BY <1>6 DEF TypeOK, DupExpire, topo
<1>7. ASSUME NEW n \in Node, NodeDown(n)
      PROVE  TypeOK'
  BY <1>7, EmptySeq DEF TypeOK, NodeDown, Emptied, topo
<1>8. ASSUME NEW n \in Node, NodeStart(n)
      PROVE  TypeOK'
  BY <1>8 DEF TypeOK, NodeStart, topo
<1>9. ASSUME NEW n \in Node, NEW k \in Node, Relearn(n, k)
      PROVE  TypeOK'
  <2> DEFINE links == (sym[n] \ {k}) \cup ({k} \ sym[n])
             selectors == (sel[n] \ {k}) \cup ({k} \ sel[n])
  <2>1. links \in SUBSET Node /\ selectors \in SUBSET Node
    BY DEF TypeOK
  <2>2. \/ sym' = [sym EXCEPT ![n] = links] /\ UNCHANGED sel
        \/ sel' = [sel EXCEPT ![n] = selectors] /\ UNCHANGED sym
    BY <1>9 DEF Relearn
  <2> HIDE DEF links, selectors
  <2>3. sym' \in [Node -> SUBSET Node] /\ sel' \in [Node -> SUBSET Node]
    BY <2>1, <2>2 DEF TypeOK
  <2>4. UNCHANGED <<radio, dup, msgs, timers, air, rx, down, got, tx, new>>
    BY <1>9 DEF Relearn
  <2> QED  BY <2>3, <2>4 DEF TypeOK
<1>10. CASE UNCHANGED vars
  BY <1>10 DEF TypeOK, vars
<1> QED
  BY <1>1, <1>2, <1>3, <1>4, <1>5, <1>6, <1>7, <1>8, <1>9, <1>10 DEF Next, Deliver

-----------------------------------------------------------------------------
LEMMA InvInit ==
  ASSUME FloodAssumption, Init
  PROVE  Inv
<1>1. TypeOK
  BY TypeInit
<1>2. /\ \A n \in Node : msgs[n] = <<>> /\ timers[n] = 0 /\ tx[n] = {} /\ dup[n] = {} /\ got[n] = {}
      /\ air \cup rx = {}
  BY DEF Init, Quiet
<1>3. Timed
  <2>1. ASSUME NEW n \in Node
        PROVE  Len(msgs[n]) <= timers[n]
    <3>1. Len(msgs[n]) = 0 /\ timers[n] = 0
      BY <1>2, EmptySeq
    <3> QED  BY <3>1
  <2> QED  BY <2>1 DEF Timed
<1>4. Unknown /\ Sourced /\ Marked
  BY <1>2, CarriedEmpty DEF Unknown, Sourced, Marked
<1>5. AtMostOnce
  BY <1>2 DEF AtMostOnce
<1> QED  BY <1>1, <1>3, <1>4, <1>5 DEF Inv

\* Steps that send, buffer and process nothing, and forget only duplicate
\* tuples of messages that have gone.
LEMMA CalmStep ==
  ASSUME Inv, TypeOK',
         UNCHANGED <<radio, msgs, timers, got, tx, new>>,
         air' \cup rx' \subseteq air \cup rx,
         \A n \in Node : dup'[n] \subseteq dup[n] /\ \A m \in dup[n] \ dup'[n] : ~UnderWay(m)
  PROVE  Inv'
<1>1. Timed' /\ AtMostOnce'
  BY DEF Inv, Timed, AtMostOnce
<1>2. Unknown'
  BY DEF Inv, Unknown
<1>3. \A n, m : Has(n, m)' <=> Has(n, m)
  BY DEF Has
<1>4. Sourced'
  BY <1>3 DEF Inv, Sourced
<1>5. \A m : UnderWay(m)' => UnderWay(m)
  BY DEF UnderWay
<1>6. Marked'
  <2>1. SUFFICES ASSUME NEW n \in Node, NEW m \in tx[n] \cup Carried(msgs[n])
                 PROVE  orig[m] = n \/ m \in dup'[n] \/ ~UnderWay(m)'
    BY DEF Marked
  <2>2. orig[m] = n \/ m \in dup[n] \/ ~UnderWay(m)
    BY DEF Inv, Marked
  <2> QED  BY <1>5, <2>2
<1> QED  BY <1>1, <1>2, <1>4, <1>6 DEF Inv

LEMMA OriginateStep ==
  ASSUME FloodAssumption, Inv, TypeOK', NEW o \in Msg, Originate(o)
  PROVE  Inv'
<1> DEFINE c == [msg |-> o, ttl |-> Ttl]
           h == orig[o]
<1>1. /\ c \in Copy /\ c.msg = o
      /\ h \in Node
      /\ msgs[h] \in Seq(Copy)
      /\ Len(msgs[h]) \in Nat
  BY LenProperties DEF FloodAssumption, Copy, Inv, TypeOK
<1>2. /\ Len(Append(msgs[h], c)) = Len(msgs[h]) + 1
      /\ Carried(Append(msgs[h], c)) = Carried(msgs[h]) \cup {o}
  BY <1>1, CarriedAppend
<1>3. /\ msgs' = [msgs EXCEPT ![h] = Append(msgs[h], c)]
      /\ timers' = [timers EXCEPT ![h] = timers[h] + 1]
      /\ new' = new \ {o}
      /\ o \in new
      /\ UNCHANGED <<radio, dup, air, rx, got, tx>>
  BY DEF Originate, Enqueue, topo
<1>4. msgs'[h] = Append(msgs[h], c) /\ \A n \in Node \ {h} : msgs'[n] = msgs[n]
  BY <1>1, <1>3 DEF Inv, TypeOK
<1> HIDE DEF c
<1>5. \A n \in Node : Carried(msgs'[n]) = Carried(msgs[n]) \cup (IF n = h THEN {o} ELSE {})
  BY <1>2, <1>4
<1>6. Timed'
  <2>1. ASSUME NEW n \in Node
        PROVE  Len(msgs'[n]) <= timers'[n]
    BY <1>1, <1>2, <1>3, <1>4 DEF Inv, TypeOK, Timed
  <2> QED  BY <2>1 DEF Timed
<1>7. Unknown'
  BY <1>3 DEF Inv, Unknown
<1>8. \A n, m : Has(n, m) => Has(n, m)' /\ m # o
  BY <1>3 DEF Has
<1>9. Has(h, o)'
  BY <1>3 DEF Has
<1>10. Sourced'
  <2>1. ASSUME NEW n \in Node, NEW m \in Carried(msgs'[n])
        PROVE  Has(n, m)'
    BY <1>5, <1>8, <1>9 DEF Inv, Sourced
  <2>2. ASSUME NEW p \in air' \cup rx'
        PROVE  p.to \in radio'[p.from] /\ \A m \in Carried(p.load) : Has(p.from, m)'
    BY <1>3, <1>8 DEF Inv, Sourced
  <2> QED  BY <2>1, <2>2 DEF Sourced
<1>11. \A m : UnderWay(m)' => UnderWay(m) \/ m = o
  <2>1. SUFFICES ASSUME NEW m, UnderWay(m)', m # o
                 PROVE  UnderWay(m)
    OBVIOUS
  <2>2. CASE \E n \in Node : m \in Carried(msgs'[n])
    BY <1>5, <2>1, <2>2 DEF UnderWay
  <2>3. CASE \E p \in air' \cup rx' : m \in Carried(p.load)
    BY <1>3, <2>3 DEF UnderWay
  <2> QED  BY <2>1, <2>2, <2>3 DEF UnderWay
<1>12. \A n \in Node : o \notin tx[n] /\ o \notin Carried(msgs[n])
  BY <1>3 DEF Inv, Unknown, Sourced, Has
<1>13. Marked'
  <2>1. SUFFICES ASSUME NEW n \in Node, NEW m \in tx'[n] \cup Carried(msgs'[n])
                 PROVE  orig[m] = n \/ m \in dup'[n] \/ ~UnderWay(m)'
    BY DEF Marked
  <2>2. CASE m = o
    BY <1>3, <1>5, <1>12, <2>2
  <2>3. CASE m # o
    <3>1. m \in tx[n] \cup Carried(msgs[n])
      BY <1>3, <1>5, <2>3
    <3>2. orig[m] = n \/ m \in dup[n] \/ ~UnderWay(m)
      BY <3>1 DEF Inv, Marked
    <3> QED  BY <1>3, <1>11, <2>3, <3>2
  <2> QED  BY <2>2, <2>3
<1>14. AtMostOnce'
  <2>1. ASSUME NEW n \in Node
        PROVE  Once(msgs'[n], tx'[n])
    <3>1. Once(msgs[n], tx[n])
      BY DEF Inv, AtMostOnce, Once
    <3> QED  BY <1>1, <1>3, <1>4, <1>12, <3>1, AppendedOnce
  <2> QED  BY <2>1 DEF AtMostOnce, Once
<1> QED  BY <1>6, <1>7, <1>10, <1>13, <1>14 DEF Inv

LEMMA MsgTimerStep ==
  ASSUME FloodAssumption, Inv, TypeOK', NEW h \in Node, MsgTimer(h)
  PROVE  Inv'
<1>1. /\ msgs' = [msgs EXCEPT ![h] = <<>>]
      /\ timers' = [timers EXCEPT ![h] = timers[h] - 1]
      /\ timers[h] > 0
      /\ tx' = [tx EXCEPT ![h] = tx[h] \cup Carried(msgs[h])]
      /\ UNCHANGED <<radio, dup, rx, got, new>>
  BY DEF MsgTimer, topo
<1>2. /\ msgs'[h] = <<>>
      /\ tx'[h] = tx[h] \cup Carried(msgs[h])
      /\ \A n \in Node \ {h} : msgs'[n] = msgs[n] /\ tx'[n] = tx[n]
  BY <1>1 DEF Inv, TypeOK
<1>3. ASSUME NEW p \in air' \ air
      PROVE  /\ p.from = h
             /\ p.to \in radio[h]
             /\ Carried(p.load) \subseteq Carried(msgs[h])
  <2>1. PICK r \in radio[h], s \in Chunks(msgs[h]) : p = [from |-> h, to |-> r, load |-> s]
    BY <1>3 DEF MsgTimer
  <2>2. msgs[h] \in Seq(Copy)
    BY DEF Inv, TypeOK
  <2> QED  BY <2>1, <2>2, ChunksProperties
<1>4. Timed'
  <2>1. ASSUME NEW n \in Node
        PROVE  Len(msgs'[n]) <= timers'[n]
    <3>1. CASE n = h
      <4>1. timers'[n] \in Nat /\ Len(msgs'[n]) = 0
        BY <1>2, <3>1, EmptySeq DEF TypeOK
      <4> QED  BY <4>1
    <3>2. CASE n # h
      BY <1>1, <1>2, <3>2 DEF Inv, TypeOK, Timed
    <3> QED  BY <3>1, <3>2
  <2> QED  BY <2>1 DEF Timed
<1>5. \A n, m : Has(n, m)' <=> Has(n, m)
  BY <1>1 DEF Has
<1>6. \A m \in Carried(msgs[h]) : Has(h, m)
  BY DEF Inv, Sourced
<1>7. Unknown'
  <2>1. Carried(msgs[h]) \cap new = {}
    BY <1>6 DEF Has
  <2> QED  BY <1>1, <1>2, <2>1 DEF Inv, Unknown
<1>8. Sourced'
  <2>1. ASSUME NEW n \in Node, NEW m \in Carried(msgs'[n])
        PROVE  Has(n, m)'
    BY <1>2, <1>5, CarriedEmpty DEF Inv, Sourced
  <2>2. ASSUME NEW p \in air' \cup rx'
        PROVE  p.to \in radio'[p.from] /\ \A m \in Carried(p.load) : Has(p.from, m)'
    <3>1. CASE p \in air' \ air
      BY <1>1, <1>3, <1>5, <1>6, <3>1
    <3>2. CASE p \notin air' \ air
      BY <1>1, <1>5, <3>2 DEF Inv, Sourced
    <3> QED  BY <3>1, <3>2
  <2> QED  BY <2>1, <2>2 DEF Sourced
<1>9. \A m : UnderWay(m)' => UnderWay(m)
  <2>1. SUFFICES ASSUME NEW m, UnderWay(m)'
                 PROVE  UnderWay(m)
    OBVIOUS
  <2>2. CASE \E n \in Node : m \in Carried(msgs'[n])
    BY <1>2, <2>2, CarriedEmpty DEF UnderWay
  <2>3. CASE \E p \in air' \cup rx' : m \in Carried(p.load)
    <3>1. PICK p \in air' \cup rx' : m \in Carried(p.load)
      BY <2>3
    <3>2. CASE p \in air' \ air
      BY <1>3, <3>1, <3>2 DEF UnderWay
    <3>3. CASE p \notin air' \ air
      BY <1>1, <3>1, <3>3 DEF UnderWay
    <3> QED  BY <3>2, <3>3
  <2> QED  BY <2>1, <2>2, <2>3 DEF UnderWay
<1>10. Marked'
  <2>1. SUFFICES ASSUME NEW n \in Node, NEW m \in tx'[n] \cup Carried(msgs'[n])
                 PROVE  orig[m] = n \/ m \in dup'[n] \/ ~UnderWay(m)'
    BY DEF Marked
  <2>2. m \in tx[n] \cup Carried(msgs[n])
    BY <1>2, CarriedEmpty
  <2>3. orig[m] = n \/ m \in dup[n] \/ ~UnderWay(m)
    BY <2>2 DEF Inv, Marked
  <2> QED  BY <1>1, <1>9, <2>3
<1>11. AtMostOnce'
  <2>1. ASSUME NEW n \in Node
        PROVE  Once(msgs'[n], tx'[n])
    <3>1. CASE n = h
      <4>1. msgs'[n] = <<>> /\ Len(msgs'[n]) = 0
        BY <1>2, <3>1, EmptySeq
      <4> QED  BY <4>1 DEF Once
    <3>2. CASE n # h
      BY <1>2, <3>2 DEF Inv, AtMostOnce, Once
    <3> QED  BY <3>1, <3>2
  <2> QED  BY <2>1 DEF AtMostOnce, Once
<1> QED  BY <1>4, <1>7, <1>8, <1>10, <1>11 DEF Inv

LEMMA NodeDownStep ==
  ASSUME FloodAssumption, Inv, TypeOK', NEW h \in Node, NodeDown(h)
  PROVE  Inv'
<1>1. /\ msgs'[h] = <<>> /\ tx'[h] = {} /\ timers'[h] = 0 /\ dup'[h] = {}
      /\ \A n \in Node \ {h} : /\ msgs'[n] = msgs[n] /\ tx'[n] = tx[n]
                               /\ timers'[n] = timers[n] /\ dup'[n] = dup[n]
      /\ UNCHANGED <<radio, air, rx, got, new>>
  BY DEF Inv, TypeOK, NodeDown, Emptied, topo
<1>2. Carried(msgs'[h]) = {} /\ Len(msgs'[h]) = 0
  BY <1>1, CarriedEmpty, EmptySeq
<1>3. Timed'
  <2>1. ASSUME NEW n \in Node
        PROVE  Len(msgs'[n]) <= timers'[n]
    <3>1. CASE n = h
      BY <1>1, <1>2, <3>1
    <3>2. CASE n # h
      BY <1>1, <3>2 DEF Inv, Timed
    <3> QED  BY <3>1, <3>2
  <2> QED  BY <2>1 DEF Timed
<1>4. Unknown'
  BY <1>1 DEF Inv, Unknown
<1>5. \A n, m : Has(n, m)' <=> Has(n, m)
  BY <1>1 DEF Has
<1>6. Sourced'
  <2>1. ASSUME NEW n \in Node, NEW m \in Carried(msgs'[n])
        PROVE  Has(n, m)'
    BY <1>1, <1>2, <1>5 DEF Inv, Sourced
  <2>2. ASSUME NEW p \in air' \cup rx'
        PROVE  p.to \in radio'[p.from] /\ \A m \in Carried(p.load) : Has(p.from, m)'
    BY <1>1, <1>5 DEF Inv, Sourced
  <2> QED  BY <2>1, <2>2 DEF Sourced
<1>7. \A m : UnderWay(m)' => UnderWay(m)
  BY <1>1, <1>2 DEF UnderWay
<1>8. Marked'
  <2>1. SUFFICES ASSUME NEW n \in Node, NEW m \in tx'[n] \cup Carried(msgs'[n])
                 PROVE  orig[m] = n \/ m \in dup'[n] \/ ~UnderWay(m)'
    BY DEF Marked
  <2>2. n # h
    BY <1>1, <1>2
  <2>3. orig[m] = n \/ m \in dup[n] \/ ~UnderWay(m)
    BY <1>1, <2>2 DEF Inv, Marked
  <2> QED  BY <1>1, <1>7, <2>2, <2>3
<1>9. AtMostOnce'
  <2>1. ASSUME NEW n \in Node
        PROVE  Once(msgs'[n], tx'[n])
    <3>1. CASE n = h
      BY <1>2, <3>1 DEF Once
    <3>2. CASE n # h
      BY <1>1, <3>2 DEF Inv, AtMostOnce, Once
    <3> QED  BY <3>1, <3>2
  <2> QED  BY <2>1 DEF AtMostOnce, Once
<1> QED  BY <1>3, <1>4, <1>6, <1>8, <1>9 DEF Inv

\* One turn of the loop of recv_olsr.
LEMMA ReceiveStep ==
  ASSUME FloodAssumption, Inv, TypeOK', NEW p \in rx, Receive(p)
  PROVE  Inv'
<1> DEFINE n == p.to
           c == Head(p.load)
           d == OneHopLess(c)
<1>1. /\ p \in Packet
      /\ n \in Node
      /\ p.load \in Seq(Copy)
      /\ Len(p.load) > 0
  BY DEF FloodAssumption, Inv, TypeOK, Packet
<1>2. /\ c \in Copy
      /\ c.msg \in Carried(p.load)
      /\ Carried(Tail(p.load)) \subseteq Carried(p.load)
  BY <1>1, CarriedHeadTail
<1>3. /\ n \in radio[p.from]
      /\ Has(p.from, c.msg)
      /\ UnderWay(c.msg)
      /\ c.msg \in Msg \ new
  BY <1>2 DEF Inv, Sourced, UnderWay, Has
<1>4. ASSUME NEW q \in rx'
      PROVE  q.from = p.from /\ q.to = p.to /\ Carried(q.load) \subseteq Carried(p.load)
  <2>1. q = [from |-> p.from, to |-> p.to, load |-> Tail(p.load)]
    BY DEF Receive
  <2> QED  BY <1>2, <2>1
<1>5. /\ got' = IF Processed(n, p.from, c) THEN [got EXCEPT ![n] = got[n] \cup {c.msg}] ELSE got
      /\ dup' = IF Duplicate(n, p.from, c) THEN [dup EXCEPT ![n] = dup[n] \cup {c.msg}] ELSE dup
      /\ IF Relayed(n, p.from, c) THEN Enqueue(n, d) ELSE UNCHANGED <<msgs, timers>>
      /\ UNCHANGED <<radio, air, tx, new>>
  BY DEF Receive, topo
<1> HIDE DEF n, c, d
<1>6. /\ \A k \in Node : got[k] \subseteq got'[k] /\ got'[k] \subseteq got[k] \cup {c.msg}
      /\ \A k \in Node : dup[k] \subseteq dup'[k] /\ dup'[k] \subseteq dup[k] \cup {c.msg}
  BY <1>1, <1>5 DEF Inv, TypeOK
<1>7. \A k \in Node : \A m : Has(k, m) => Has(k, m)'
  BY <1>5, <1>6 DEF Has
<1>8. Unknown'
  BY <1>3, <1>5, <1>6 DEF Inv, Unknown
<1>9. p.from \in Node
  BY <1>1 DEF Packet
<1>10. ASSUME NEW q \in air' \cup rx'
       PROVE  q.to \in radio'[q.from] /\ \A m \in Carried(q.load) : Has(q.from, m)'
  <2>1. CASE q \in rx'
    BY <1>3, <1>4, <1>5, <1>7, <1>9, <2>1 DEF Inv, Sourced, n
  <2>2. CASE q \in air
    <3>1. q.from \in Node
      BY <2>2 DEF Inv, TypeOK, Packet
    <3> QED  BY <1>5, <1>7, <2>2, <3>1 DEF Inv, Sourced
  <2> QED  BY <1>5, <2>1, <2>2
<1>11. \A m : (\E q \in air' \cup rx' : m \in Carried(q.load)) => UnderWay(m)
  BY <1>4, <1>5 DEF UnderWay
<1>12. CASE Relayed(n, p.from, c)
  <2>1. /\ orig[c.msg] # n
        /\ c.msg \notin dup[n]
        /\ c.ttl > 1
        /\ Processed(n, p.from, c)
        /\ Duplicate(n, p.from, c)
    BY <1>12 DEF Relayed, Duplicate, Considered, Processed
  <2>2. d \in Copy /\ d.msg = c.msg
    BY <1>2, <2>1 DEF OneHopLess, Copy, d
  <2>3. msgs[n] \in Seq(Copy)
    BY <1>1 DEF Inv, TypeOK
  <2>4. /\ msgs'[n] = Append(msgs[n], d)
        /\ timers'[n] = timers[n] + 1
        /\ \A k \in Node \ {n} : msgs'[k] = msgs[k] /\ timers'[k] = timers[k]
    BY <1>1, <1>5, <1>12 DEF Enqueue, Inv, TypeOK
  <2>5. /\ Len(msgs'[n]) = Len(msgs[n]) + 1
        /\ Carried(msgs'[n]) = Carried(msgs[n]) \cup {c.msg}
    BY <2>2, <2>3, <2>4, CarriedAppend
  <2>6. c.msg \notin tx[n] \cup Carried(msgs[n])
    BY <1>1, <1>3, <2>1 DEF Inv, Marked
  <2>7. c.msg \in dup'[n] /\ c.msg \in got'[n]
    BY <1>1, <1>5, <2>1 DEF Inv, TypeOK
  <2>8. Timed'
    <3>1. ASSUME NEW k \in Node
          PROVE  Len(msgs'[k]) <= timers'[k]
      <4>1. CASE k = n
        <5>1. Len(msgs[n]) \in Nat /\ timers[n] \in Nat /\ Len(msgs[n]) <= timers[n]
          BY <1>1, <2>3, LenProperties DEF Inv, TypeOK, Timed
        <5> QED  BY <2>4, <2>5, <4>1, <5>1
      <4>2. CASE k # n
        BY <2>4, <4>2 DEF Inv, Timed
      <4> QED  BY <4>1, <4>2
    <3> QED  BY <3>1 DEF Timed
  <2>9. Sourced'
    <3>1. ASSUME NEW k \in Node, NEW m \in Carried(msgs'[k])
          PROVE  Has(k, m)'
      <4>1. CASE k = n /\ m = c.msg
        BY <1>3, <1>5, <2>7, <4>1 DEF Has
      <4>2. CASE ~(k = n /\ m = c.msg)
        <5>1. m \in Carried(msgs[k])
          BY <2>4, <2>5, <4>2
        <5> QED  BY <1>7, <5>1 DEF Inv, Sourced
      <4> QED  BY <4>1, <4>2
    <3> QED  BY <1>10, <3>1 DEF Sourced
  <2>10. \A m : UnderWay(m)' => UnderWay(m)
    <3>1. SUFFICES ASSUME NEW m, UnderWay(m)'
                   PROVE  UnderWay(m)
      OBVIOUS
    <3>2. CASE \E k \in Node : m \in Carried(msgs'[k])
      BY <1>3, <2>4, <2>5, <3>2 DEF UnderWay
    <3> QED  BY <1>11, <3>1, <3>2 DEF UnderWay
  <2>11. Marked'
    <3>1. SUFFICES ASSUME NEW k \in Node, NEW m \in tx'[k] \cup Carried(msgs'[k])
                   PROVE  orig[m] = k \/ m \in dup'[k] \/ ~UnderWay(m)'
      BY DEF Marked
    <3>2. CASE k = n /\ m = c.msg
      BY <2>7, <3>2
    <3>3. CASE ~(k = n /\ m = c.msg)
      <4>1. m \in tx[k] \cup Carried(msgs[k])
        BY <1>5, <2>4, <2>5, <3>3
      <4>2. orig[m] = k \/ m \in dup[k] \/ ~UnderWay(m)
        BY <4>1 DEF Inv, Marked
      <4> QED  BY <1>6, <2>10, <4>2
    <3> QED  BY <3>2, <3>3
  <2>12. AtMostOnce'
    <3>1. ASSUME NEW k \in Node
          PROVE  Once(msgs'[k], tx'[k])
      <4>1. Once(msgs[k], tx[k])
        BY DEF Inv, AtMostOnce, Once
      <4>2. CASE k = n
        BY <1>5, <2>2, <2>3, <2>4, <2>6, <4>1, <4>2, AppendedOnce
      <4>3. CASE k # n
        BY <1>5, <2>4, <4>1, <4>3
      <4> QED  BY <4>2, <4>3
    <3> QED  BY <3>1 DEF AtMostOnce, Once
  <2> QED  BY <1>8, <2>8, <2>9, <2>11, <2>12 DEF Inv
<1>13. CASE ~Relayed(n, p.from, c)
  <2>1. UNCHANGED <<msgs, timers>>
    BY <1>5, <1>13
  <2>2. Timed' /\ AtMostOnce'
    BY <1>5, <2>1 DEF Inv, Timed, AtMostOnce
  <2>3. Sourced'
    BY <1>7, <1>10, <2>1 DEF Inv, Sourced
  <2>4. \A m : UnderWay(m)' => UnderWay(m)
    BY <1>11, <2>1 DEF UnderWay
  <2>5. Marked'
    <3>1. SUFFICES ASSUME NEW k \in Node, NEW m \in tx[k] \cup Carried(msgs[k])
                   PROVE  orig[m] = k \/ m \in dup'[k] \/ ~UnderWay(m)'
      BY <1>5, <2>1 DEF Marked
    <3>2. orig[m] = k \/ m \in dup[k] \/ ~UnderWay(m)
      BY DEF Inv, Marked
    <3> QED  BY <1>6, <2>4, <3>2
  <2> QED  BY <1>8, <2>2, <2>3, <2>5 DEF Inv
<1> QED  BY <1>12, <1>13

LEMMA InvStep ==
  ASSUME FloodAssumption, Inv, [Next]_vars
  PROVE  Inv'
<1>1. TypeOK'
  BY TypeStep DEF Inv
<1>2. CASE \E m \in Msg : Originate(m)
  BY <1>1, <1>2, OriginateStep
<1>3. CASE \E n \in Node : MsgTimer(n)
  BY <1>1, <1>3, MsgTimerStep
<1>4. ASSUME NEW p \in air, Accept(p)
      PROVE  Inv'
  <2>1. /\ UNCHANGED <<radio, dup, msgs, timers, got, tx, new>>
        /\ air' \cup rx' \subseteq air \cup rx
    BY <1>4 DEF Accept, topo
  <2> QED  BY <1>1, <2>1, CalmStep
<1>5. CASE \E p \in rx : Receive(p)
  BY <1>1, <1>5, ReceiveStep
<1>6. ASSUME NEW p \in air, Lose(p)
      PROVE  Inv'
  <2>1. /\ UNCHANGED <<radio, dup, msgs, timers, got, tx, new>>
        /\ air' \cup rx' \subseteq air \cup rx
    BY <1>6 DEF Lose, topo
  <2> QED  BY <1>1, <2>1, CalmStep
<1>7. ASSUME NEW n \in Node, NEW m \in Msg, DupExpire(n, m)
      PROVE  Inv'
  <2>1. /\ UNCHANGED <<radio, msgs, timers, got, tx, new>>
        /\ air' \cup rx' \subseteq air \cup rx
    BY <1>7 DEF DupExpire, topo
  <2>2. /\ ~UnderWay(m)
        /\ dup' = [dup EXCEPT ![n] = dup[n] \ {m}]
    BY <1>7 DEF DupExpire
  <2>3. \A k \in Node : dup'[k] \subseteq dup[k] /\ \A j \in dup[k] \ dup'[k] : ~UnderWay(j)
    BY <2>2 DEF Inv, TypeOK
  <2> QED  BY <1>1, <2>1, <2>3, CalmStep
<1>8. CASE \E n \in Node : NodeDown(n)
  BY <1>1, <1>8, NodeDownStep
<1>9. ASSUME NEW n \in Node, NodeStart(n)
      PROVE  Inv'
  <2>1. /\ UNCHANGED <<radio, dup, msgs, timers, got, tx, new>>
        /\ air' \cup rx' \subseteq air \cup rx
    BY <1>9 DEF NodeStart, topo
  <2> QED  BY <1>1, <2>1, CalmStep
<1>10. ASSUME NEW n \in Node, NEW k \in Node, Relearn(n, k)
       PROVE  Inv'
  <2>1. /\ UNCHANGED <<radio, dup, msgs, timers, got, tx, new>>
        /\ air' \cup rx' \subseteq air \cup rx
    BY <1>10 DEF Relearn
  <2> QED  BY <1>1, <2>1, CalmStep
<1>11. CASE UNCHANGED vars
  <2>1. /\ UNCHANGED <<radio, dup, msgs, timers, got, tx, new>>
        /\ air' \cup rx' \subseteq air \cup rx
    BY <1>11 DEF vars
  <2> QED  BY <1>1, <2>1, CalmStep
<1> QED
  BY <1>2, <1>3, <1>4, <1>5, <1>6, <1>7, <1>8, <1>9, <1>10, <1>11 DEF Next, Deliver

-----------------------------------------------------------------------------
\* The inductive invariant holds throughout, whatever happens to links,
\* selectors, packets and nodes.
THEOREM FloodInvariant == Spec => []Inv
<1>1. Init => Inv
  BY InvInit, FloodAssumption
<1>2. Inv /\ [Next]_vars => Inv'
  BY InvStep, FloodAssumption
<1> QED
  BY <1>1, <1>2, PTL DEF Spec

\* Type correctness, with the limit on the size of packets that recv_olsr
\* asserts.
THEOREM TypeCorrect == Spec => []TypeOK
<1>1. Inv => TypeOK
  BY DEF Inv
<1> QED
  BY <1>1, FloodInvariant, PTL

\* A buffered message always has a timer that will send it.
THEOREM BufferServed == Spec => []BufferHasTimer
<1>1. Inv => BufferHasTimer
  <2>1. SUFFICES ASSUME Inv, NEW n \in Node, msgs[n] # <<>>
                 PROVE  timers[n] > 0
    BY DEF BufferHasTimer
  <2>2. msgs[n] \in Seq(Copy) /\ timers[n] \in Nat
    BY <2>1 DEF Inv, TypeOK
  <2>3. Len(msgs[n]) <= timers[n]
    BY <2>1 DEF Inv, Timed
  <2>4. Len(msgs[n]) \in Nat \ {0}
    BY <2>1, <2>2, EmptySeq
  <2> QED  BY <2>2, <2>3, <2>4
<1> QED
  BY <1>1, FloodInvariant, PTL

\* Between two starts a node sends a message at most once.
THEOREM SentAtMostOnce == Spec => []AtMostOnce
<1>1. Inv => AtMostOnce
  BY DEF Inv
<1> QED
  BY <1>1, FloodInvariant, PTL

-----------------------------------------------------------------------------
LEMMA ReachedOther ==
  ASSUME UNCHANGED <<radio, got, new>>
  PROVE  UNCHANGED F!vars
  BY DEF F!vars, Reached

LEMMA OriginateSpreads ==
  ASSUME Inv, NEW o \in Msg, Originate(o)
  PROVE  F!Originate(o)
<1>1. /\ o \in new
      /\ new' = new \ {o}
      /\ UNCHANGED <<radio, got>>
  BY DEF Originate, topo
<1>2. {n \in Node : o \in got[n]} = {}
  BY <1>1 DEF Inv, Unknown
<1>3. Reached[o] = {}
  BY <1>1 DEF Reached
<1>4. Reached' = [Reached EXCEPT ![o] = {orig[o]}]
  BY <1>1, <1>2 DEF Reached
<1> QED  BY <1>1, <1>3, <1>4 DEF F!Originate

LEMMA ReceiveSpreads ==
  ASSUME Inv, NEW p \in rx, Receive(p)
  PROVE  [F!Next]_(F!vars)
<1> DEFINE n == p.to
           c == Head(p.load)
<1>1. /\ n \in Node
      /\ p.from \in Node
      /\ n \in radio[p.from]
      /\ Has(p.from, c.msg)
  <2>1. p \in Packet /\ p.load \in Seq(Copy) /\ Len(p.load) > 0
    BY DEF Inv, TypeOK, Packet
  <2>2. c.msg \in Carried(p.load)
    BY <2>1, CarriedHeadTail
  <2> QED  BY <2>1, <2>2 DEF Inv, Sourced, Packet
<1>2. /\ got' = IF Processed(n, p.from, c) THEN [got EXCEPT ![n] = got[n] \cup {c.msg}] ELSE got
      /\ UNCHANGED <<radio, new>>
  BY DEF Receive, topo
<1> HIDE DEF n, c
<1>3. c.msg \in Msg /\ p.from \in Reached[c.msg]
  BY <1>1 DEF Has, Reached
<1>4. CASE Processed(n, p.from, c)
  <2>1. got' = [got EXCEPT ![n] = got[n] \cup {c.msg}] /\ got \in [Node -> SUBSET Msg]
    BY <1>2, <1>4 DEF Inv, TypeOK
  <2>2. \A k \in Node : got'[k] = got[k] \cup (IF k = n THEN {c.msg} ELSE {})
    BY <1>1, <2>1
  <2>3. c.msg \notin new
    BY <1>1 DEF Has
  <2>4. ASSUME NEW m \in Msg
        PROVE  Reached'[m] = IF m \in {c.msg} THEN Reached[m] \cup {n} ELSE Reached[m]
    <3>1. CASE m = c.msg
      <4>1. {k \in Node : m \in got'[k]} = {k \in Node : m \in got[k]} \cup {n}
        BY <1>1, <2>2, <3>1
      <4> QED  BY <1>2, <2>3, <3>1, <4>1 DEF Reached
    <3>2. CASE m # c.msg
      <4>1. {k \in Node : m \in got'[k]} = {k \in Node : m \in got[k]}
        BY <2>2, <3>2
      <4> QED  BY <1>2, <3>2, <4>1 DEF Reached
    <3> QED  BY <3>1, <3>2
  <2>5. Reached' = [m \in Msg |-> IF m \in {c.msg} THEN Reached[m] \cup {n} ELSE Reached[m]]
    BY <2>4 DEF Reached
  <2>6. F!Spread(n, {c.msg})
    BY <1>1, <1>2, <1>3, <2>5 DEF F!Spread
  <2> QED  BY <1>1, <1>3, <2>6 DEF F!Next
<1>5. CASE ~Processed(n, p.from, c)
  BY <1>2, <1>5, ReachedOther
<1> QED  BY <1>4, <1>5

\* A message only spreads from nodes that have processed it to nodes in their
\* reach: the detailed flooding implements the abstract one.
THEOREM FloodImplements == Spec => ImplementsFlood
<1>1. Init => F!Init
  BY DEF Init, Quiet, F!Init, Reached
<1>2. Inv /\ [Next]_vars => [F!Next]_(F!vars)
  <2>1. SUFFICES ASSUME Inv, [Next]_vars
                 PROVE  [F!Next]_(F!vars)
    OBVIOUS
  <2>2. CASE \E m \in Msg : Originate(m)
    BY <2>1, <2>2, OriginateSpreads DEF F!Next
  <2>3. CASE \E p \in rx : Receive(p)
    BY <2>1, <2>3, ReceiveSpreads
  <2>4. CASE \/ \E n \in Node : MsgTimer(n)
             \/ \E p \in air : Accept(p) \/ Lose(p)
             \/ \E n \in Node, m \in Msg : DupExpire(n, m)
             \/ \E n \in Node : NodeDown(n) \/ NodeStart(n)
             \/ \E n, k \in Node : Relearn(n, k)
             \/ UNCHANGED vars
    <3>1. UNCHANGED <<radio, got, new>>
      BY <2>4 DEF MsgTimer, Accept, Lose, DupExpire, NodeDown, NodeStart, Relearn, topo, vars
    <3> QED  BY <3>1, ReachedOther
  <2> QED  BY <2>1, <2>2, <2>3, <2>4 DEF Next, Deliver
<1> QED
  BY <1>1, <1>2, FloodInvariant, PTL DEF Spec, ImplementsFlood

-----------------------------------------------------------------------------
\* The flood of one message over a network at rest, as sets: T has sent it, B
\* has it buffered, H has it, and W are the pairs of sender and receiver
\* between which a copy is on its way.  "g" is radio, "s" is sel.
AtTwoHops(g, w, x) == x # w /\ x \notin g[w] /\ \E y \in g[w] : x \in g[y]

\* Links are symmetric, and the MPRs of every node cover its 2-hop neighbours.
Network(g, s) ==
  /\ g \in [Node -> SUBSET Node] /\ s \in [Node -> SUBSET Node]
  /\ \A a \in Node : a \notin g[a]
  /\ \A a, b \in Node : a \in g[b] <=> b \in g[a]
  /\ \A k, x \in Node : AtTwoHops(g, k, x) => \E y \in g[k] : x \in g[y] /\ k \in s[y]

\* y will send the message: it has it buffered, or the copy on its way to y is
\* the first, and from a selector of y.
Due(y, s, B, H, W) == y \in B \/ (y \notin H /\ \E v \in s[y] : <<v, y>> \in W)

\* Why the flood is not stuck: whoever is two hops from a sender and has not
\* been in reach of any has a neighbour that will send.
Good(g, s, o, T, B, H, W) ==
  /\ T \cup B \subseteq H /\ H \subseteq Node
  /\ H # {} => o \in T \cup B
  /\ \A v, x : <<v, x>> \in W => v \in T /\ x \in g[v]
  /\ \A v, w, x, y : <<v, x>> \in W /\ <<w, y>> \in W => v = w
  /\ \A v \in T : \A x \in g[v] : x \in H \/ <<v, x>> \in W
  /\ \A x \in H \ {o} : \E v \in T : x \in g[v]
  /\ \A v \in T, x \in Node : AtTwoHops(g, v, x) /\ x \notin H /\ g[x] \cap T = {}
                                => \E y \in g[x] : Due(y, s, B, H, W)

\* A message that has only been made.
LEMMA GoodStart ==
  ASSUME NEW g, NEW s, NEW o \in Node, Network(g, s)
  PROVE  Good(g, s, o, {}, {o}, {o}, {})
BY DEF Good

\* A buffered message is sent to all in reach, when no copy is on its way.
LEMMA GoodSend ==
  ASSUME NEW g, NEW s, NEW o, NEW T, NEW B, NEW H, NEW h \in B, NEW W,
         Network(g, s), Good(g, s, o, T, B, H, {}),
         \A v, x : <<v, x>> \in W <=> v = h /\ x \in g[h]
  PROVE  Good(g, s, o, T \cup {h}, B \ {h}, H, W)
<1>1. h \in Node /\ h \in H /\ T \subseteq H /\ B \subseteq H /\ H \subseteq Node
  BY DEF Good
<1>2. ASSUME NEW v \in T, NEW x \in Node, AtTwoHops(g, v, x), x \notin H, g[x] \cap T = {}, x \notin g[h]
      PROVE  \E y \in g[x] : y \in B \ {h}
  <2>1. PICK y \in g[x] : Due(y, s, B, H, {})
    BY <1>2 DEF Good
  <2>2. y \in B
    BY <2>1 DEF Due
  <2>3. y # h
    BY <1>1, <1>2, <2>1 DEF Network
  <2> QED  BY <2>2, <2>3
<1>3. ASSUME NEW x \in Node, AtTwoHops(g, h, x), x \notin H, g[x] \cap T = {}, x \notin g[h]
      PROVE  \E y \in g[x] : Due(y, s, B \ {h}, H, W)
  <2>1. PICK y \in g[h] : x \in g[y] /\ h \in s[y]
    BY <1>1, <1>3 DEF Network
  <2>2. y \in Node /\ y \in g[x] /\ y # h
    BY <1>1, <2>1 DEF Network
  <2>3. CASE y \notin H
    BY <2>1, <2>2, <2>3 DEF Due
  <2>4. CASE y \in B
    BY <2>2, <2>4 DEF Due
  <2>5. CASE y \in H /\ y \notin B
    <3>1. y \notin T /\ y # o
      BY <1>3, <2>2, <2>5 DEF Good
    <3>2. PICK v \in T : y \in g[v]
      BY <2>5, <3>1 DEF Good
    <3>3. v \in Node /\ v # x
      BY <1>1, <1>3
    <3>4. AtTwoHops(g, v, x)
      BY <1>1, <1>3, <2>1, <3>2, <3>3 DEF AtTwoHops, Network
    <3> QED  BY <1>2, <1>3, <3>4 DEF Due
  <2> QED  BY <2>3, <2>4, <2>5
<1>4. ASSUME NEW v \in T \cup {h}, NEW x \in Node, AtTwoHops(g, v, x), x \notin H,
             g[x] \cap (T \cup {h}) = {}
      PROVE  \E y \in g[x] : Due(y, s, B \ {h}, H, W)
  <2>1. x \notin g[h] /\ g[x] \cap T = {}
    BY <1>1, <1>4 DEF Network
  <2>2. CASE v \in T
    BY <1>2, <1>4, <2>1, <2>2 DEF Due
  <2>3. CASE v = h
    BY <1>3, <1>4, <2>1, <2>3
  <2> QED  BY <2>2, <2>3
<1>5. /\ (T \cup {h}) \cup (B \ {h}) \subseteq H /\ H \subseteq Node
      /\ H # {} => o \in (T \cup {h}) \cup (B \ {h})
      /\ \A v, x : <<v, x>> \in W => v \in T \cup {h} /\ x \in g[v]
      /\ \A v, w, x, y : <<v, x>> \in W /\ <<w, y>> \in W => v = w
  BY <1>1 DEF Good
<1>6. /\ \A v \in T \cup {h} : \A x \in g[v] : x \in H \/ <<v, x>> \in W
      /\ \A x \in H \ {o} : \E v \in T \cup {h} : x \in g[v]
  BY <1>1 DEF Good
<1> QED  BY <1>4, <1>5, <1>6 DEF Good

\* A copy arrives at a node that has the message.
LEMMA GoodAgain ==
  ASSUME NEW g, NEW s, NEW o, NEW T, NEW B, NEW H, NEW W, NEW V, NEW n \in H,
         Good(g, s, o, T, B, H, W), V \subseteq W,
         \A v, x : <<v, x>> \in W /\ x # n => <<v, x>> \in V
  PROVE  Good(g, s, o, T, B, H, V)
<1>1. \A y : Due(y, s, B, H, W) => Due(y, s, B, H, V)
  BY DEF Due
<1>2. \A v \in T : \A x \in g[v] : x \in H \/ <<v, x>> \in V
  BY DEF Good
<1> QED  BY <1>1, <1>2 DEF Good

\* The first copy arrives at n, from w.  It is buffered when w is a selector.
LEMMA GoodFirst ==
  ASSUME NEW g, NEW s, NEW o, NEW T, NEW B, NEW H, NEW W, NEW V, NEW C, NEW n, NEW w,
         Network(g, s), Good(g, s, o, T, B, H, W), V \subseteq W,
         n \notin H, <<w, n>> \in W,
         \A v, x : <<v, x>> \in W /\ x # n => <<v, x>> \in V,
         B \subseteq C, C \subseteq B \cup {n}, w \in s[n] => n \in C
  PROVE  Good(g, s, o, T, C, H \cup {n}, V)
<1>1. w \in T /\ n \in g[w] /\ T \subseteq H /\ H \subseteq Node
  BY DEF Good
<1>2. n \in Node /\ n # o /\ n \notin T
  BY <1>1 DEF Good, Network
<1>3. ASSUME NEW y, Due(y, s, B, H, W) PROVE Due(y, s, C, H \cup {n}, V)
  <2>1. CASE y \in B
    BY <2>1 DEF Due
  <2>2. CASE y = n /\ y \notin B
    <3>1. PICK v \in s[n] : <<v, n>> \in W
      BY <1>3, <2>2 DEF Due
    <3>2. v = w
      BY <3>1 DEF Good
    <3> QED  BY <2>2, <3>1, <3>2 DEF Due
  <2>3. CASE y # n /\ y \notin B
    BY <1>3, <2>3 DEF Due
  <2> QED  BY <2>1, <2>2, <2>3
<1>4. /\ T \cup C \subseteq H \cup {n} /\ H \cup {n} \subseteq Node
      /\ o \in T \cup C
      /\ \A v, x : <<v, x>> \in V => v \in T /\ x \in g[v]
      /\ \A v, u, x, y : <<v, x>> \in V /\ <<u, y>> \in V => v = u
  BY <1>1, <1>2 DEF Good
<1>5. /\ \A v \in T : \A x \in g[v] : x \in H \cup {n} \/ <<v, x>> \in V
      /\ \A x \in (H \cup {n}) \ {o} : \E v \in T : x \in g[v]
  BY <1>1 DEF Good
<1>6. ASSUME NEW v \in T, NEW x \in Node, AtTwoHops(g, v, x), x \notin H \cup {n}, g[x] \cap T = {}
      PROVE  \E y \in g[x] : Due(y, s, C, H \cup {n}, V)
  BY <1>3, <1>6 DEF Good
<1> QED  BY <1>4, <1>5, <1>6 DEF Good

\* Once nothing is on its way, everyone in reach of a node that has the
\* message has it.
LEMMA GoodEnd ==
  ASSUME NEW g, NEW s, NEW o, NEW T, NEW H, NEW k \in H, NEW x \in g[k],
         Network(g, s), Good(g, s, o, T, {}, H, {})
  PROVE  x \in H
<1> SUFFICES ASSUME x \notin H PROVE FALSE
  OBVIOUS
<1>1. k \in Node /\ x \in Node /\ T \subseteq H
  BY DEF Good, Network
<1>2. \A v \in T : x \notin g[v]
  BY DEF Good
<1>3. k \notin T /\ k # o
  BY <1>2 DEF Good
<1>4. PICK v \in T : k \in g[v]
  BY <1>3 DEF Good
<1>5. v \in Node /\ v # x
  BY <1>1 DEF Good
<1>6. AtTwoHops(g, v, x) /\ g[x] \cap T = {}
  BY <1>1, <1>2, <1>4, <1>5 DEF AtTwoHops, Network, Good
<1>7. PICK y \in g[x] : Due(y, s, {}, H, {})
  BY <1>1, <1>6 DEF Good
<1> QED  BY <1>7 DEF Due

-----------------------------------------------------------------------------
\* The copies in a buffer or a packet.
Copies(s) == {s[i] : i \in 1..Len(s)}

\* The messages carried are those of the copies.
LEMMA CarriedCopies ==
  ASSUME NEW s
  PROVE  \A m : m \in Carried(s) <=> \E c \in Copies(s) : c.msg = m
BY DEF Carried, Copies

\* enque_msg adds a copy.
LEMMA CopiesAppend ==
  ASSUME NEW s \in Seq(Copy), NEW c \in Copy
  PROVE  Copies(Append(s, c)) = Copies(s) \cup {c}
<1> DEFINE r == Append(s, c)
<1>1. /\ Len(r) = Len(s) + 1 /\ Len(s) \in Nat
      /\ \A i \in 1..Len(s) : r[i] = s[i]
      /\ r[Len(s) + 1] = c
  BY AppendProperties, LenProperties
<1> HIDE DEF r
<1>2. \A i \in 1..Len(r) : r[i] \in Copies(s) \cup {c}
  BY <1>1 DEF Copies
<1>3. \A i \in 1..Len(s) : s[i] \in Copies(r)
  BY <1>1 DEF Copies
<1>4. c \in Copies(r)
  BY <1>1 DEF Copies
<1>5. Copies(r) \subseteq Copies(s) \cup {c}
  BY <1>2 DEF Copies
<1>6. Copies(s) \subseteq Copies(r)
  BY <1>3 DEF Copies
<1> QED  BY <1>4, <1>5, <1>6 DEF r

\* recv_olsr takes one from the front.
LEMMA CopiesHeadTail ==
  ASSUME NEW s \in Seq(Copy), Len(s) > 0
  PROVE  /\ Head(s) \in Copies(s)
         /\ Copies(s) = {Head(s)} \cup Copies(Tail(s))
         /\ Len(s) = 1 => Copies(Tail(s)) = {}
<1>1. Len(s) \in Nat /\ s # <<>>
  BY LenProperties
<1>2. /\ Len(Tail(s)) = Len(s) - 1 /\ Head(s) = s[1]
      /\ \A i \in 1..Len(Tail(s)) : Tail(s)[i] = s[i + 1]
  BY <1>1, HeadTailProperties
<1>3. Head(s) \in Copies(s)
  BY <1>1, <1>2 DEF Copies
<1>4. \A i \in 1..Len(Tail(s)) : Tail(s)[i] \in Copies(s)
  BY <1>1, <1>2 DEF Copies
<1>5. ASSUME NEW i \in 1..Len(s) PROVE s[i] \in {Head(s)} \cup Copies(Tail(s))
  <2>1. CASE i = 1
    BY <1>2, <2>1
  <2>2. CASE i # 1
    <3>1. i - 1 \in 1..Len(Tail(s)) /\ (i - 1) + 1 = i
      BY <1>1, <1>2, <2>2
    <3> QED  BY <1>2, <3>1 DEF Copies
  <2> QED  BY <2>1, <2>2
<1>6. Copies(s) \subseteq {Head(s)} \cup Copies(Tail(s))
  BY <1>5 DEF Copies
<1>7. Copies(Tail(s)) \subseteq Copies(s)
  BY <1>4 DEF Copies
<1>8. ASSUME Len(s) = 1 PROVE Copies(Tail(s)) = {}
  <2>1. Len(Tail(s)) = 0
    BY <1>2, <1>8
  <2> QED  BY <2>1 DEF Copies
<1> QED  BY <1>3, <1>6, <1>7, <1>8

\* Every place in the buffer falls into one of its pieces of MaxMsgs.
LEMMA Piece ==
  ASSUME NEW M \in Nat \ {0}, NEW j \in Nat \ {0}
  PROVE  \E k \in 0..(j - 1) : k * M < j /\ j <= (k + 1) * M
<1> DEFINE k == (j - 1) \div M
           r == (j - 1) % M
<1>1. j - 1 \in Nat
  OBVIOUS
<1>2. k \in Nat /\ r \in 0..(M - 1) /\ j - 1 = k * M + r
  BY <1>1
<1> HIDE DEF k, r
<1>3. k * M \in Nat /\ (k + 1) * M = k * M + M
  BY <1>2
<1>4. k <= k * M
  BY <1>2
<1> QED  BY <1>2, <1>3, <1>4

\* send_pkt puts everything in the buffer into packets, and nothing else.
LEMMA ChunkCopies ==
  ASSUME FloodAssumption, NEW s \in Seq(Copy)
  PROVE  /\ \A t \in Chunks(s) : Copies(t) \subseteq Copies(s)
         /\ \A c \in Copies(s) : \E t \in Chunks(s) : c \in Copies(t)
<1> DEFINE top(k) == IF Len(s) < (k + 1) * MaxMsgs THEN Len(s) ELSE (k + 1) * MaxMsgs
           piece(k) == SubSeq(s, k * MaxMsgs + 1, top(k))
<1>1. Len(s) \in Nat /\ MaxMsgs \in Nat \ {0}
  BY LenProperties DEF FloodAssumption
<1>2. ASSUME NEW k \in 0..Len(s), k * MaxMsgs < Len(s)
      PROVE  /\ k * MaxMsgs \in Nat /\ top(k) \in Nat
             /\ k * MaxMsgs < top(k) /\ top(k) <= Len(s)
             /\ top(k) = Len(s) \/ top(k) = (k + 1) * MaxMsgs
             /\ Len(piece(k)) = top(k) - k * MaxMsgs
             /\ \A i \in 1..Len(piece(k)) : piece(k)[i] = s[k * MaxMsgs + i]
  <2> DEFINE a == k * MaxMsgs
             b == top(k)
  <2>1. a \in Nat /\ (k + 1) * MaxMsgs = a + MaxMsgs
    BY <1>1
  <2>2. b \in Nat /\ a + 1 <= b /\ b <= Len(s) /\ (b = Len(s) \/ b = (k + 1) * MaxMsgs)
    <3> DEFINE q == (k + 1) * MaxMsgs
               l == Len(s)
    <3>1. b = IF l < q THEN l ELSE q
      OBVIOUS
    <3>2. q = a + MaxMsgs /\ a < l /\ l \in Nat
      BY <1>1, <1>2, <2>1
    <3> HIDE DEF a, b, q, l
    <3>3. b \in Nat /\ a + 1 <= b /\ b <= l /\ (b = l \/ b = q)
      BY <1>1, <2>1, <3>1, <3>2
    <3> QED  BY <3>3 DEF q, l
  <2> HIDE DEF a, b
  <2>3. a + 1 \in Int /\ b \in Int /\ a + 1 <= b /\ \A i \in a + 1..b : s[i] \in Copy
    <3>1. \A i \in a + 1..b : i \in 1..Len(s)
      BY <1>1, <2>1, <2>2
    <3> QED  BY <2>1, <2>2, <3>1, ElementOfSeq
  <2>4. /\ Len(SubSeq(s, a + 1, b)) = b - (a + 1) + 1
        /\ \A i \in 1..b - (a + 1) + 1 : SubSeq(s, a + 1, b)[i] = s[a + 1 + i - 1]
    BY <2>3, SubSeqProperties
  <2>5. Len(SubSeq(s, a + 1, b)) = b - a
    BY <2>1, <2>2, <2>4
  <2>6. \A i \in 1..Len(SubSeq(s, a + 1, b)) : SubSeq(s, a + 1, b)[i] = s[a + i]
    <3>1. \A i \in 1..b - a : a + 1 + i - 1 = a + i
      BY <2>1, <2>2
    <3> QED  BY <2>1, <2>2, <2>4, <2>5, <3>1
  <2> QED  BY <2>1, <2>2, <2>5, <2>6 DEF a, b
<1> HIDE DEF top
<1>3. \A t : t \in Chunks(s) <=> \E k \in 0..Len(s) : k * MaxMsgs < Len(s) /\ t = piece(k)
  BY DEF Chunks, top
<1> HIDE DEF piece
<1>4. ASSUME NEW t \in Chunks(s), NEW i \in 1..Len(t) PROVE t[i] \in Copies(s)
  <2>1. PICK k \in 0..Len(s) : k * MaxMsgs < Len(s) /\ t = piece(k)
    BY <1>3
  <2> DEFINE a == k * MaxMsgs
  <2>2. /\ a \in Nat /\ top(k) \in Nat /\ a < top(k) /\ top(k) <= Len(s)
        /\ Len(t) = top(k) - a
        /\ t[i] = s[a + i]
    BY <1>2, <2>1
  <2> HIDE DEF a
  <2>3. a + i \in 1..Len(s)
    BY <1>1, <2>2
  <2> QED  BY <2>2, <2>3 DEF Copies
<1>5. ASSUME NEW j \in 1..Len(s) PROVE \E t \in Chunks(s) : s[j] \in Copies(t)
  <2>1. PICK k \in 0..(j - 1) : k * MaxMsgs < j /\ j <= (k + 1) * MaxMsgs
    <3>1. j \in Nat \ {0}
      BY <1>1
    <3> QED  BY <1>1, <3>1, Piece
  <2>2. k \in 0..Len(s) /\ k * MaxMsgs \in Nat /\ k * MaxMsgs < Len(s)
    BY <1>1, <2>1
  <2> DEFINE i == j - k * MaxMsgs
  <2>3. i \in 1..Len(piece(k)) /\ k * MaxMsgs + i = j
    BY <1>1, <1>2, <2>1, <2>2
  <2>4. piece(k)[i] = s[j]
    BY <1>2, <2>2, <2>3
  <2>5. s[j] \in Copies(piece(k))
    BY <2>3, <2>4 DEF Copies
  <2> QED  BY <1>3, <2>2, <2>5
<1> QED  BY <1>4, <1>5 DEF Copies

-----------------------------------------------------------------------------
\* A network at rest: nobody is down, the links known are the links there are,
\* and the selectors are those of MPR sets that cover.
AtRest == down = {} /\ sym = radio /\ Network(radio, sel)

Senders(m) == {n \in Node : m \in tx[n]}
Holders(m) == {n \in Node : m \in Carried(msgs[n])}
Havers(m)  == {n \in Node : Has(n, m)}
Flying(m)  == {<<p.from, p.to>> : p \in {q \in air \cup rx : m \in Carried(q.load)}}

\* Each node that sends takes a hop off the ttl, and sends once.
HopsLeft ==
  /\ \A n \in Node : \A c \in Copies(msgs[n]) : c.ttl + Cardinality(Senders(c.msg)) >= Ttl
  /\ \A p \in air \cup rx : \A c \in Copies(p.load) :
       c.ttl + Cardinality(Senders(c.msg)) >= Ttl + 1

\* While a copy is on its way, the duplicate tuples say who has the message.
Remembered ==
  \A m \in Msg : UnderWay(m) => \A n \in Node : m \in dup[n] <=> m \in got[n]

Floods(m) == Good(radio, sel, orig[m], Senders(m), Holders(m), Havers(m), Flying(m))

RestInv ==
  /\ Inv
  /\ AtRest
  /\ \A p, q \in rx : p = q
  /\ Remembered
  /\ HopsLeft
  /\ \A m \in Msg : Floods(m)

\* What the theorem assumes of the run: no losses, a neighbourhood at rest,
\* packets that arrive before the next are sent, and hops enough.
Calm == ~Lossy /\ ~Dynamic /\ Prompt /\ IsFiniteSet(Node) /\ Cardinality(Node) < Ttl

\* The copies of a buffer or packet are copies.
LEMMA CopiesType ==
  ASSUME NEW s \in Seq(Copy), NEW c \in Copies(s)
  PROVE  c \in Copy /\ c.msg \in Msg /\ c.ttl \in Nat
<1>1. c \in Copy
  BY ElementOfSeq DEF Copies
<1> QED  BY <1>1 DEF Copy

\* Who has sent a message are at most all.
LEMMA SendersFinite ==
  ASSUME IsFiniteSet(Node), NEW m
  PROVE  /\ IsFiniteSet(Senders(m)) /\ Cardinality(Senders(m)) \in Nat
         /\ Cardinality(Senders(m)) <= Cardinality(Node)
BY FS_Subset, FS_CardinalityType DEF Senders

\* It holds when nothing is being flooded.
LEMMA RestInit ==
  ASSUME Calm, FloodAssumption, Init, AtRest
  PROVE  RestInv
<1>1. Inv
  BY InvInit
<1>2. /\ \A n \in Node : msgs[n] = <<>> /\ dup[n] = {} /\ got[n] = {} /\ tx[n] = {}
      /\ air = {} /\ rx = {} /\ new = Msg
  BY DEF Init, Quiet
<1>3. Copies(<<>>) = {}
  BY EmptySeq DEF Copies
<1>4. HopsLeft
  BY <1>2, <1>3 DEF HopsLeft
<1>5. Remembered
  BY <1>2 DEF Remembered
<1>6. ASSUME NEW m \in Msg PROVE Floods(m)
  <2>1. Senders(m) = {} /\ Holders(m) = {} /\ Havers(m) = {} /\ Flying(m) = {}
    BY <1>2, CarriedEmpty DEF Senders, Holders, Havers, Flying, Has
  <2> QED  BY <2>1 DEF Floods, Good
<1> QED  BY <1>1, <1>2, <1>4, <1>5, <1>6 DEF RestInv

\* A step that neither sends, buffers nor takes a message.
LEMMA StillStep ==
  ASSUME RestInv, Inv', UNCHANGED <<topo, msgs, down, got, tx, new>>,
         air' \cup rx' = air \cup rx, \A p, q \in rx' : p = q,
         \A n \in Node, m \in Msg : (m \in dup'[n] <=> m \in dup[n]) \/ ~UnderWay(m)
  PROVE  RestInv'
<1>1. AtRest'
  BY DEF RestInv, AtRest, topo, Network
<1>2. \A m : UnderWay(m)' <=> UnderWay(m)
  BY DEF UnderWay
<1>3. Remembered'
  BY <1>2 DEF RestInv, Remembered
<1>4. \A m : /\ Senders(m)' = Senders(m) /\ Holders(m)' = Holders(m)
             /\ Havers(m)' = Havers(m) /\ Flying(m)' = Flying(m)
  BY DEF Senders, Holders, Havers, Flying, Has
<1>5. HopsLeft'
  BY <1>4 DEF RestInv, HopsLeft
<1>6. \A m \in Msg : Floods(m)'
  BY <1>4 DEF RestInv, Floods, topo
<1> QED  BY <1>1, <1>3, <1>5, <1>6 DEF RestInv

\* A new message is with its originator only.
LEMMA RestOriginate ==
  ASSUME FloodAssumption, RestInv, Inv', NEW o \in Msg, Originate(o)
  PROVE  RestInv'
<1> DEFINE c == [msg |-> o, ttl |-> Ttl]
           h == orig[o]
<1>1. /\ c \in Copy /\ c.msg = o /\ c.ttl = Ttl
      /\ h \in Node /\ msgs[h] \in Seq(Copy) /\ o \in new
  BY DEF FloodAssumption, Copy, RestInv, Inv, TypeOK, Originate
<1>2. /\ msgs' = [msgs EXCEPT ![h] = Append(msgs[h], c)]
      /\ new' = new \ {o}
      /\ UNCHANGED <<radio, sym, sel, dup, air, rx, down, got, tx>>
  BY DEF Originate, Enqueue, topo
<1>3. msgs'[h] = Append(msgs[h], c) /\ \A n \in Node \ {h} : msgs'[n] = msgs[n]
  BY <1>1, <1>2 DEF RestInv, Inv, TypeOK
<1> HIDE DEF c, h
<1>4. /\ Carried(msgs'[h]) = Carried(msgs[h]) \cup {o}
      /\ Copies(msgs'[h]) = Copies(msgs[h]) \cup {c}
  BY <1>1, <1>3, CarriedAppend, CopiesAppend
<1>5. /\ \A n \in Node : o \notin tx[n] /\ o \notin dup[n] /\ o \notin got[n]
      /\ \A n \in Node : o \notin Carried(msgs[n])
      /\ \A p \in air \cup rx : o \notin Carried(p.load)
  BY <1>1 DEF RestInv, Inv, Unknown, Sourced, Has
<1>6. AtRest'
  BY <1>2 DEF RestInv, AtRest, Network
<1>7. Remembered'
  <2> SUFFICES ASSUME NEW m \in Msg, UnderWay(m)', NEW n \in Node
               PROVE  m \in dup[n] <=> m \in got[n]
    BY <1>2 DEF Remembered
  <2>1. CASE m = o
    BY <1>5, <2>1
  <2>2. CASE m # o
    <3>1. UnderWay(m)
      BY <1>2, <1>3, <1>4, <2>2 DEF UnderWay
    <3> QED  BY <3>1 DEF RestInv, Remembered
  <2> QED  BY <2>1, <2>2
<1>8. \A m : Senders(m)' = Senders(m) /\ Flying(m)' = Flying(m)
  BY <1>2 DEF Senders, Flying
<1>9. HopsLeft'
  <2>1. Senders(o) = {} /\ Cardinality(Senders(o)) = 0
    BY <1>5, FS_EmptySet DEF Senders
  <2>2. c.ttl + Cardinality(Senders(c.msg)) >= Ttl
    BY <1>1, <2>1 DEF FloodAssumption
  <2>3. \A n \in Node : \A d \in Copies(msgs'[n]) : d.ttl + Cardinality(Senders(d.msg)) >= Ttl
    BY <1>3, <1>4, <2>2 DEF RestInv, HopsLeft
  <2>4. \A p \in air \cup rx : \A d \in Copies(p.load) :
          d.ttl + Cardinality(Senders(d.msg)) >= Ttl + 1
    BY DEF RestInv, HopsLeft
  <2> QED  BY <1>2, <1>8, <2>3, <2>4 DEF HopsLeft
<1>10. ASSUME NEW m \in Msg, m # o PROVE Floods(m)'
  <2>1. Holders(m)' = Holders(m) /\ Havers(m)' = Havers(m)
    BY <1>2, <1>3, <1>4, <1>10 DEF Holders, Havers, Has
  <2> QED  BY <1>2, <1>8, <2>1 DEF RestInv, Floods
<1>11. Floods(o)'
  <2>1. Senders(o) = {} /\ Flying(o) = {}
    BY <1>5 DEF Senders, Flying
  <2>2. Holders(o)' = {h} /\ Havers(o)' = {h}
    BY <1>1, <1>2, <1>3, <1>4, <1>5 DEF Holders, Havers, Has, h
  <2>3. Good(radio, sel, h, {}, {h}, {h}, {})
    BY <1>1, GoodStart DEF RestInv, AtRest
  <2>4. orig[o] = h /\ Senders(o)' = {} /\ Flying(o)' = {}
    BY <1>8, <2>1 DEF h
  <2> QED  BY <1>2, <2>2, <2>3, <2>4 DEF Floods
<1> QED  BY <1>2, <1>6, <1>7, <1>9, <1>10, <1>11 DEF RestInv

\* Packets are sent when none is on its way: the messages in them have one
\* sender.
LEMMA RestTimer ==
  ASSUME FloodAssumption, Calm, RestInv, Inv', NEW h \in Node, MsgTimer(h)
  PROVE  RestInv'
<1>1. /\ msgs' = [msgs EXCEPT ![h] = <<>>]
      /\ tx' = [tx EXCEPT ![h] = tx[h] \cup Carried(msgs[h])]
      /\ air' = {[from |-> h, to |-> r, load |-> s] : r \in radio[h], s \in Chunks(msgs[h])}
      /\ air = {} /\ rx = {}
      /\ UNCHANGED <<radio, sym, sel, dup, rx, down, got, new>>
  BY DEF MsgTimer, topo, Calm
<1>2. /\ msgs'[h] = <<>> /\ tx'[h] = tx[h] \cup Carried(msgs[h])
      /\ \A n \in Node \ {h} : msgs'[n] = msgs[n] /\ tx'[n] = tx[n]
  BY <1>1 DEF RestInv, Inv, TypeOK
<1>3. Carried(msgs'[h]) = {} /\ Copies(msgs'[h]) = {}
  BY <1>2, CarriedEmpty, EmptySeq DEF Copies
<1>4. msgs[h] \in Seq(Copy)
  BY DEF RestInv, Inv, TypeOK
<1>5. \A p \in air' \cup rx' : /\ p.from = h /\ p.to \in radio[h]
                               /\ Copies(p.load) \subseteq Copies(msgs[h])
  BY <1>1, <1>4, ChunkCopies
<1>6. ASSUME NEW m \in Carried(msgs[h]), NEW r \in radio[h]
      PROVE  \E p \in air' \cup rx' : p.from = h /\ p.to = r /\ m \in Carried(p.load)
  <2>1. PICK c \in Copies(msgs[h]) : c.msg = m
    BY CarriedCopies
  <2>2. PICK s \in Chunks(msgs[h]) : c \in Copies(s)
    BY <1>4, ChunkCopies
  <2>3. m \in Carried(s)
    BY <2>1, <2>2, CarriedCopies
  <2>4. [from |-> h, to |-> r, load |-> s] \in air'
    BY <1>1
  <2> QED  BY <2>3, <2>4
<1>7. \A m : Flying(m) = {}
  BY <1>1 DEF Flying
<1>8. ASSUME NEW m PROVE Carried(msgs[h]) \subseteq Msg /\ (UnderWay(m)' => UnderWay(m))
  <2>1. \A p \in air' \cup rx' : Carried(p.load) \subseteq Carried(msgs[h])
    BY <1>5, CarriedCopies
  <2>2. UnderWay(m)' => UnderWay(m)
    BY <1>2, <1>3, <2>1 DEF UnderWay
  <2>3. \A d \in Carried(msgs[h]) : Has(h, d)
    BY DEF RestInv, Inv, Sourced
  <2> QED  BY <2>2, <2>3 DEF Has
<1>9. AtRest'
  BY <1>1 DEF RestInv, AtRest, Network
<1>10. Remembered'
  BY <1>1, <1>8 DEF RestInv, Remembered
<1>11. ASSUME NEW m \in Msg, m \in Carried(msgs[h])
       PROVE  /\ Senders(m)' = Senders(m) \cup {h} /\ h \notin Senders(m)
              /\ Cardinality(Senders(m)') = Cardinality(Senders(m)) + 1
  <2>1. Senders(m)' = Senders(m) \cup {h}
    BY <1>2, <1>11 DEF Senders
  <2>2. h \notin Senders(m)
    BY <1>11 DEF Senders, Carried, RestInv, Inv, AtMostOnce
  <2> QED  BY <2>1, <2>2, SendersFinite, FS_AddElement DEF Calm
<1>12. ASSUME NEW m, m \notin Carried(msgs[h]) PROVE Senders(m)' = Senders(m)
  BY <1>2, <1>12 DEF Senders
<1>13. HopsLeft'
  <2>1. ASSUME NEW n \in Node, NEW c \in Copies(msgs'[n])
        PROVE  c.ttl + Cardinality(Senders(c.msg)') >= Ttl
    <3>1. n # h /\ c \in Copies(msgs[n])
      BY <1>2, <1>3, <2>1
    <3>2. c \in Copy /\ c.msg \in Msg /\ c.ttl \in Nat
      BY <3>1, CopiesType DEF RestInv, Inv, TypeOK
    <3>3. c.ttl + Cardinality(Senders(c.msg)) >= Ttl
      BY <3>1 DEF RestInv, HopsLeft
    <3>4. Cardinality(Senders(c.msg)) \in Nat /\ Ttl \in Nat
      BY SendersFinite DEF Calm, FloodAssumption
    <3>5. CASE c.msg \in Carried(msgs[h])
      BY <1>11, <3>2, <3>3, <3>4, <3>5
    <3>6. CASE c.msg \notin Carried(msgs[h])
      BY <1>12, <3>3, <3>6
    <3> QED  BY <3>5, <3>6
  <2>2. ASSUME NEW p \in air' \cup rx', NEW c \in Copies(p.load)
        PROVE  c.ttl + Cardinality(Senders(c.msg)') >= Ttl + 1
    <3>1. c \in Copies(msgs[h]) /\ c.msg \in Carried(msgs[h])
      BY <1>5, CarriedCopies
    <3>2. c \in Copy /\ c.msg \in Msg /\ c.ttl \in Nat
      BY <1>4, <3>1, CopiesType
    <3>3. c.ttl + Cardinality(Senders(c.msg)) >= Ttl
      BY <3>1 DEF RestInv, HopsLeft
    <3>4. Cardinality(Senders(c.msg)) \in Nat /\ Ttl \in Nat
      BY SendersFinite DEF Calm, FloodAssumption
    <3> QED  BY <1>11, <3>1, <3>2, <3>3, <3>4
  <2> QED  BY <2>1, <2>2 DEF HopsLeft
<1>14. \A m : Havers(m)' = Havers(m)
  BY <1>1 DEF Havers, Has
<1>15. ASSUME NEW m \in Msg, m \in Carried(msgs[h]) PROVE Floods(m)'
  <2>1. Holders(m)' = Holders(m) \ {h} /\ h \in Holders(m)
    BY <1>2, <1>3, <1>15 DEF Holders
  <2>2. \A v, x : <<v, x>> \in Flying(m)' <=> v = h /\ x \in radio[h]
    BY <1>5, <1>6, <1>15 DEF Flying
  <2>3. Good(radio, sel, orig[m], Senders(m) \cup {h}, Holders(m) \ {h}, Havers(m), Flying(m)')
    BY <1>7, <2>1, <2>2, GoodSend DEF RestInv, AtRest, Floods
  <2> QED  BY <1>1, <1>11, <1>14, <1>15, <2>1, <2>3 DEF Floods
<1>16. ASSUME NEW m \in Msg, m \notin Carried(msgs[h]) PROVE Floods(m)'
  <2>1. Holders(m)' = Holders(m)
    BY <1>2, <1>3, <1>16 DEF Holders
  <2>2. Flying(m)' = {}
    BY <1>5, <1>16, CarriedCopies DEF Flying
  <2> QED  BY <1>1, <1>7, <1>12, <1>14, <1>16, <2>1, <2>2 DEF RestInv, Floods
<1> QED  BY <1>1, <1>9, <1>10, <1>13, <1>15, <1>16 DEF RestInv

\* A copy is taken when it is the first, for there are hops left and it comes
\* from a symmetric neighbour; it is forwarded when that is a selector.
LEMMA RestReceive ==
  ASSUME FloodAssumption, Calm, RestInv, Inv', NEW p \in rx, Receive(p)
  PROVE  RestInv'
<1> DEFINE n == p.to
           c == Head(p.load)
           w == p.from
           q == [from |-> p.from, to |-> p.to, load |-> Tail(p.load)]
           o == c.msg
<1>1. /\ p \in Packet /\ n \in Node /\ w \in Node /\ p.load \in Seq(Copy) /\ Len(p.load) > 0
      /\ rx = {p}
  BY DEF RestInv, Inv, TypeOK, Packet
<1>2. /\ c \in Copies(p.load) /\ c \in Copy /\ o \in Msg /\ c.ttl \in Nat
      /\ o \in Carried(p.load)
      /\ Copies(p.load) = {c} \cup Copies(Tail(p.load))
      /\ Len(p.load) = 1 => Copies(Tail(p.load)) = {}
  BY <1>1, CopiesHeadTail, CopiesType, CarriedCopies
<1>3. rx' \subseteq {q} /\ (rx' = {} => Copies(Tail(p.load)) = {})
  BY <1>1, <1>2 DEF Receive
<1>4. UNCHANGED <<radio, sym, sel, air, down, tx, new>>
  BY DEF Receive, topo
<1>5. n \in radio[w] /\ w \in sym[n] /\ Has(w, o)
  BY <1>1, <1>2 DEF RestInv, Inv, Sourced, AtRest, Network
<1>6. UnderWay(o) /\ <<w, n>> \in Flying(o)
  BY <1>2 DEF UnderWay, Flying
<1>7. o \in dup[n] <=> o \in got[n]
  BY <1>1, <1>2, <1>6 DEF RestInv, Remembered
<1>8. c.ttl > 1
  <2>1. c.ttl + Cardinality(Senders(o)) >= Ttl + 1
    BY <1>2 DEF RestInv, HopsLeft
  <2> QED  BY <1>2, <2>1, SendersFinite, FS_CardinalityType DEF Calm, FloodAssumption
<1>9. o \notin new /\ (Has(n, o) <=> orig[o] = n \/ o \in got[n])
  BY <1>2, <1>5 DEF Has
<1>10. /\ Processed(n, w, c) <=> ~Has(n, o)
       /\ Duplicate(n, w, c) <=> ~Has(n, o)
       /\ Relayed(n, w, c) <=> ~Has(n, o) /\ w \in sel[n]
  BY <1>2, <1>5, <1>7, <1>8, <1>9 DEF Processed, Duplicate, Relayed, Considered
<1>11. /\ got' = IF Processed(n, w, c) THEN [got EXCEPT ![n] = got[n] \cup {o}] ELSE got
       /\ dup' = IF Duplicate(n, w, c) THEN [dup EXCEPT ![n] = dup[n] \cup {o}] ELSE dup
       /\ IF Relayed(n, w, c) THEN Enqueue(n, OneHopLess(c)) ELSE UNCHANGED <<msgs, timers>>
  BY DEF Receive
<1> HIDE DEF n, c, w, q, o
<1>12. AtRest'
  BY <1>4 DEF RestInv, AtRest, Network
<1>13. \A m : Senders(m)' = Senders(m)
  BY <1>4 DEF Senders
<1>14. /\ q.from = w /\ q.to = n /\ q.load = Tail(p.load) /\ p.from = w /\ p.to = n
  BY DEF q, w, n
<1>15. ASSUME NEW m, m # o PROVE Flying(m)' = Flying(m)
  <2>1. m \in Carried(p.load) <=> m \in Carried(Tail(p.load))
    BY <1>2, <1>15, CarriedCopies DEF o
  <2>2. m \in Carried(Tail(p.load)) => q \in rx'
    BY <1>3, CarriedCopies
  <2> QED  BY <1>1, <1>3, <1>4, <1>14, <2>1, <2>2 DEF Flying
<1>16. /\ Flying(o)' \subseteq Flying(o)
       /\ \A v, x : <<v, x>> \in Flying(o) /\ x # n => <<v, x>> \in Flying(o)'
  <2>1. Carried(Tail(p.load)) \subseteq Carried(p.load)
    BY <1>2, CarriedCopies
  <2> QED  BY <1>1, <1>3, <1>4, <1>14, <2>1 DEF Flying
<1>17. \A r \in air' \cup rx' : \A d \in Copies(r.load) :
         d.ttl + Cardinality(Senders(d.msg)) >= Ttl + 1
  BY <1>2, <1>3, <1>4, <1>14 DEF RestInv, HopsLeft
<1>18. CASE Has(n, o)
  <2>1. UNCHANGED <<got, dup, msgs>>
    BY <1>10, <1>11, <1>18
  <2>2. \A m : Holders(m)' = Holders(m) /\ Havers(m)' = Havers(m)
    BY <1>4, <2>1 DEF Holders, Havers, Has
  <2>3. HopsLeft'
    BY <1>13, <1>17, <2>1 DEF RestInv, HopsLeft
  <2>4. \A m : UnderWay(m)' => UnderWay(m)
    <3>1. Carried(Tail(p.load)) \subseteq Carried(p.load)
      BY <1>2, CarriedCopies
    <3> QED  BY <1>3, <1>4, <1>14, <2>1, <3>1 DEF UnderWay
  <2>5. Remembered'
    BY <2>1, <2>4 DEF RestInv, Remembered
  <2>6. ASSUME NEW m \in Msg PROVE Floods(m)'
    <3>1. CASE m = o
      <4>1. n \in Havers(o)
        BY <1>1, <1>18 DEF Havers
      <4>2. Good(radio, sel, orig[o], Senders(o), Holders(o), Havers(o), Flying(o)')
        BY <1>2, <1>16, <4>1, GoodAgain DEF RestInv, Floods
      <4> QED  BY <1>4, <1>13, <2>2, <3>1, <4>2 DEF Floods
    <3>2. CASE m # o
      BY <1>4, <1>13, <1>15, <2>2, <3>2 DEF RestInv, Floods
    <3> QED  BY <3>1, <3>2
  <2> QED  BY <1>3, <1>12, <2>3, <2>5, <2>6 DEF RestInv
<1>19. CASE ~Has(n, o)
  <2> DEFINE d == OneHopLess(c)
  <2>1. /\ \A k \in Node : got'[k] = got[k] \cup (IF k = n THEN {o} ELSE {})
        /\ \A k \in Node : dup'[k] = dup[k] \cup (IF k = n THEN {o} ELSE {})
    BY <1>1, <1>10, <1>11, <1>19 DEF RestInv, Inv, TypeOK
  <2>2. d \in Copy /\ d.msg = o /\ d.ttl = c.ttl - 1
    BY <1>2, <1>8 DEF OneHopLess, Copy, o
  <2> HIDE DEF d
  <2>3. /\ \A k \in Node : /\ Carried(msgs[k]) \subseteq Carried(msgs'[k])
                           /\ Carried(msgs'[k]) \subseteq Carried(msgs[k]) \cup (IF k = n THEN {o} ELSE {})
                           /\ Copies(msgs'[k]) \subseteq Copies(msgs[k]) \cup {d}
        /\ w \in sel[n] => o \in Carried(msgs'[n])
    <3>1. CASE w \in sel[n]
      <4>1. msgs[n] \in Seq(Copy)
        BY <1>1 DEF RestInv, Inv, TypeOK
      <4>2. /\ msgs'[n] = Append(msgs[n], d)
            /\ \A k \in Node \ {n} : msgs'[k] = msgs[k]
        BY <1>1, <1>10, <1>11, <1>19, <3>1 DEF Enqueue, RestInv, Inv, TypeOK, d
      <4>3. /\ Carried(msgs'[n]) = Carried(msgs[n]) \cup {o}
            /\ Copies(msgs'[n]) = Copies(msgs[n]) \cup {d}
        BY <2>2, <4>1, <4>2, CarriedAppend, CopiesAppend
      <4> QED  BY <4>2, <4>3
    <3>2. CASE w \notin sel[n]
      BY <1>10, <1>11, <3>2
    <3> QED  BY <3>1, <3>2
  <2>4. HopsLeft'
    <3>1. d.ttl + Cardinality(Senders(d.msg)) >= Ttl
      <4>1. c.ttl + Cardinality(Senders(o)) >= Ttl + 1
        BY <1>2 DEF RestInv, HopsLeft, o
      <4> QED  BY <1>2, <2>2, <4>1, SendersFinite DEF Calm, FloodAssumption
    <3> QED  BY <1>13, <1>17, <2>3, <3>1 DEF RestInv, HopsLeft
  <2>5. \A m : UnderWay(m)' => UnderWay(m)
    <3>1. Carried(Tail(p.load)) \subseteq Carried(p.load)
      BY <1>2, CarriedCopies
    <3> QED  BY <1>3, <1>4, <1>6, <1>14, <2>3, <3>1 DEF UnderWay
  <2>6. Remembered'
    BY <2>1, <2>5 DEF RestInv, Remembered
  <2>7. \A m : m # o => Holders(m)' = Holders(m) /\ Havers(m)' = Havers(m)
    BY <1>4, <2>1, <2>3 DEF Holders, Havers, Has
  <2>8. Havers(o)' = Havers(o) \cup {n} /\ n \notin Havers(o)
    BY <1>1, <1>2, <1>4, <1>9, <1>19, <2>1 DEF Havers, Has
  <2>9. /\ Holders(o) \subseteq Holders(o)' /\ Holders(o)' \subseteq Holders(o) \cup {n}
        /\ w \in sel[n] => n \in Holders(o)'
    BY <1>1, <2>3 DEF Holders
  <2>10. ASSUME NEW m \in Msg PROVE Floods(m)'
    <3>1. CASE m = o
      <4>1. Good(radio, sel, orig[o], Senders(o), Holders(o)', Havers(o) \cup {n}, Flying(o)')
        BY <1>2, <1>6, <1>16, <2>8, <2>9, GoodFirst DEF RestInv, AtRest, Floods
      <4> QED  BY <1>4, <1>13, <2>8, <3>1, <4>1 DEF Floods
    <3>2. CASE m # o
      BY <1>4, <1>13, <1>15, <2>7, <3>2 DEF RestInv, Floods
    <3> QED  BY <3>1, <3>2
  <2> QED  BY <1>3, <1>12, <2>4, <2>6, <2>10 DEF RestInv
<1> QED  BY <1>18, <1>19

-----------------------------------------------------------------------------
\* No other step is possible in a network at rest without losses.
LEMMA RestStep ==
  ASSUME FloodAssumption, Calm, RestInv, [Next]_vars
  PROVE  RestInv'
<1>1. Inv'
  BY InvStep DEF RestInv
<1>2. CASE \E m \in Msg : Originate(m)
  BY <1>1, <1>2, RestOriginate
<1>3. CASE \E n \in Node : MsgTimer(n)
  BY <1>1, <1>3, RestTimer
<1>4. ASSUME NEW p \in air, Accept(p) PROVE RestInv'
  <2>1. /\ UNCHANGED <<topo, dup, msgs, down, got, tx, new>>
        /\ air' = air \ {p} /\ rx' = {p} /\ rx = {}
    BY <1>4 DEF Accept, RestInv, AtRest
  <2>2. air' \cup rx' = air \cup rx /\ \A a, b \in rx' : a = b
    BY <2>1
  <2> QED  BY <1>1, <2>1, <2>2, StillStep
<1>5. CASE \E p \in rx : Receive(p)
  BY <1>1, <1>5, RestReceive
<1>6. ASSUME NEW n \in Node, NEW m \in Msg, DupExpire(n, m) PROVE RestInv'
  <2>1. /\ UNCHANGED <<topo, msgs, air, rx, down, got, tx, new>>
        /\ dup' = [dup EXCEPT ![n] = dup[n] \ {m}] /\ ~UnderWay(m)
    BY <1>6 DEF DupExpire
  <2>2. \A k \in Node, j \in Msg : (j \in dup'[k] <=> j \in dup[k]) \/ ~UnderWay(j)
    BY <2>1 DEF RestInv, Inv, TypeOK
  <2> QED  BY <1>1, <2>1, <2>2, StillStep DEF RestInv
<1>7. CASE UNCHANGED vars
  BY <1>1, <1>7, StillStep DEF vars, topo, RestInv
<1>8. /\ \A p \in air : ~Lose(p)
      /\ \A n \in Node : ~NodeDown(n) /\ ~NodeStart(n)
      /\ \A n, k \in Node : ~Relearn(n, k)
  BY DEF Calm, Lose, NodeDown, NodeStart, Relearn, RestInv, AtRest
<1> QED  BY <1>2, <1>3, <1>4, <1>5, <1>6, <1>7, <1>8 DEF Next, Deliver

\* When nothing of a message is on its way any more, every neighbour of a node
\* that has it has it.
Delivered ==
  \A m \in Msg \ new : ~UnderWay(m) => \A k \in Reached[m] : radio[k] \subseteq Reached[m]

\* That is what Floods says of a message no copy of which is on its way.
LEMMA RestDelivered ==
  ASSUME FloodAssumption, RestInv
  PROVE  Delivered
<1> SUFFICES ASSUME NEW m \in Msg \ new, ~UnderWay(m), NEW k \in Reached[m], NEW x \in radio[k]
             PROVE  x \in Reached[m]
  BY DEF Delivered
<1>1. Reached[m] = Havers(m)
  BY DEF Reached, Havers, Has, FloodAssumption
<1>2. Holders(m) = {} /\ Flying(m) = {}
  BY DEF UnderWay, Holders, Flying
<1> QED  BY <1>1, <1>2, GoodEnd DEF RestInv, AtRest, Floods

\* The invariant of floods in a network at rest.
THEOREM RestInvariant ==
  ASSUME Calm
  PROVE  Spec /\ AtRest => []RestInv
<1>1. Init /\ AtRest => RestInv
  BY RestInit, FloodAssumption
<1>2. RestInv /\ [Next]_vars => RestInv'
  BY RestStep, FloodAssumption
<1> QED  BY <1>1, <1>2, PTL DEF Spec

\* In a network at rest a flood leaves nobody out: whenever no copy of a message
\* is left, who hears a node that has the message has it, whichever way recv_olsr
\* and forward_default took turns.
THEOREM FloodDelivers ==
  ASSUME Calm
  PROVE  Spec /\ AtRest => []Delivered
<1>1. RestInv => Delivered
  BY RestDelivered, FloodAssumption
<1> QED  BY <1>1, RestInvariant, PTL

\* A node that has a message keeps it.
LEMMA ReachedGrows ==
  ASSUME RestInv, [Next]_vars, NEW m \in Msg
  PROVE  UNCHANGED radio /\ Reached[m] \subseteq Reached[m]'
<1>1. CASE \E m1 \in Msg : Originate(m1)
  BY <1>1 DEF Originate, topo, Reached
<1>2. CASE \E p \in rx : Receive(p)
  <2>1. UNCHANGED <<radio, new>> /\ \A a \in Node : got[a] \subseteq got'[a]
    BY <1>2 DEF Receive, topo, RestInv, Inv, TypeOK
  <2> QED  BY <2>1 DEF Reached
<1>3. CASE \/ \E a \in Node : MsgTimer(a)
           \/ \E p \in air : Accept(p) \/ Lose(p)
           \/ \E a \in Node, m1 \in Msg : DupExpire(a, m1)
           \/ \E a \in Node : NodeDown(a) \/ NodeStart(a)
           \/ \E a, b \in Node : Relearn(a, b)
           \/ UNCHANGED vars
  <2>1. UNCHANGED <<radio, got, new>>
    BY <1>3 DEF MsgTimer, Accept, Lose, DupExpire, NodeDown, NodeStart, Relearn, topo, vars
  <2> QED  BY <2>1 DEF Reached
<1> QED  BY <1>1, <1>2, <1>3 DEF Next, Deliver

\* Every neighbour of a node that has a message gets it, if floods end, which
\* is for fairness to see to.
THEOREM FloodCompletes ==
  ASSUME Calm
  PROVE  Spec /\ AtRest /\ FloodEnds => FloodComplete
<1>1. ASSUME NEW m \in Msg, NEW k \in Node, NEW n \in Node
      PROVE  Spec /\ AtRest /\ (UnderWay(m) ~> ~UnderWay(m))
               => ((k \in Reached[m] /\ n \in radio[k]) ~> n \in Reached[m])
  <2>1. RestInv /\ k \in Reached[m] /\ n \in radio[k] /\ ~UnderWay(m) => n \in Reached[m]
    <3>1. k \in Reached[m] => m \in Msg \ new
      BY <1>1 DEF Reached
    <3> QED  BY <1>1, <3>1, RestDelivered, FloodAssumption DEF Delivered
  <2>2. k \in Reached[m] /\ n \in radio[k] /\ RestInv /\ [Next]_vars
           => (k \in Reached[m])' /\ (n \in radio[k])'
    BY <1>1, ReachedGrows
  <2> QED  BY <2>1, <2>2, RestInvariant, PTL DEF Spec
<1>2. FloodEnds => \A m \in Msg : UnderWay(m) ~> ~UnderWay(m)
  BY DEF FloodEnds
<1> QED  BY <1>1, <1>2 DEF FloodComplete, F!Reaches

-----------------------------------------------------------------------------
\* mpr_computation, as far as MprSelections goes: its machine is not used.
Sel == INSTANCE OLSRMprProofs WITH
  Nbr <- Node, Far <- {}, Local <- {}, Wills <- Nat,
  nb <- <<>>, twohop <- {}, N2 <- {}, covered <- {}, mprset <- {}, pc <- "start"

\* The tables of node k in network g: its neighbours, and what they list.
NbTable(g, will, k)  == [n \in g[k] |-> [status |-> "SYM", will |-> will[n]]]
TwoHopTable(g, k) == UNION {{n} \X g[n] : n \in g[k]}

\* A network in which every node knows its neighbourhood, none of them refuses
\* to forward, and has selected the nodes mprs[k] by mpr_computation.
Selected(will, mprs) ==
  /\ radio \in [Node -> SUBSET Node]
  /\ \A a \in Node : a \notin radio[a]
  /\ \A a, b \in Node : a \in radio[b] <=> b \in radio[a]
  /\ sym = radio
  /\ \A k \in Node :
       mprs[k] \in Sel!MprSelections(NbTable(radio, will, k), TwoHopTable(radio, k), {k})
  /\ sel = [n \in Node |-> {k \in Node : n \in mprs[k]}]

\* The MPR sets that mpr_computation returns at all nodes make such a network,
\* whichever of its results each node takes.
THEOREM SelectedAtRest ==
  ASSUME IsFiniteSet(Node), NEW will \in [Node -> Nat \ {0}], NEW mprs,
         Selected(will, mprs), down = {}
  PROVE  AtRest
<1>1. Sel!MprAssumption /\ Sel!MprFinite
  <2>1. IsFiniteSet(Node \cup {} \cup {})
    OBVIOUS
  <2> QED  BY <2>1 DEF Sel!MprAssumption, Sel!MprFinite, Sel!IsFiniteSet, IsFiniteSet
<1>2. ASSUME NEW k \in Node, NEW x \in Node, AtTwoHops(radio, k, x)
      PROVE  \E y \in radio[k] : x \in radio[y] /\ k \in sel[y]
  <2> DEFINE n == NbTable(radio, will, k)
             H == TwoHopTable(radio, k)
  <2>1. \A a, b : <<a, b>> \in H <=> a \in radio[k] /\ b \in radio[a]
    BY DEF TwoHopTable
  <2>2. \A t \in H : t = <<t[1], t[2]>>
    BY DEF TwoHopTable
  <2>3. radio[k] \subseteq Node /\ \A a \in radio[k] : radio[a] \subseteq Node
    BY DEF Selected
  <2>4. /\ DOMAIN n = radio[k]
        /\ \A a \in radio[k] : n[a].status = "SYM" /\ n[a].will = will[a]
        /\ Sel!SymNeighbors(n) = radio[k]
    BY DEF NbTable, Sel!SymNeighbors
  <2>5. Sel!IsFiniteSet(H)
    <3>1. H \subseteq Node \X Node
      BY <2>1, <2>2, <2>3
    <3>2. IsFiniteSet(H)
      BY <3>1, FS_Product, FS_Subset
    <3> QED  BY <3>2 DEF Sel!IsFiniteSet, IsFiniteSet
  <2>6. Sel!Graded(n)
    BY <2>3, <2>4 DEF Sel!Graded
  <2>7. mprs[k] \in Sel!MprSelections(n, H, {k})
    BY DEF Selected
  <2> DEFINE N2 == Sel!StrictTwoHop(n, H, {k})
  <2> HIDE DEF n, H
  <2>8. mprs[k] \subseteq Sel!SymNeighbors(n) /\ \A t \in N2 : \E u \in N2 : u[2] = t[2] /\ u[1] \in mprs[k]
    BY <1>1, <2>5, <2>6, <2>7, Sel!SelectionSound
  <2>9. PICK a \in radio[k] : x \in radio[a]
    BY <1>2 DEF AtTwoHops
  <2>10. <<a, x>> \in N2
    BY <1>2, <2>1, <2>3, <2>4, <2>9 DEF Sel!StrictTwoHop, Sel!WillNever, AtTwoHops
  <2>11. PICK u \in N2 : u[2] = x /\ u[1] \in mprs[k]
    BY <2>8, <2>10
  <2>12. u \in H /\ u[1] \in radio[k] /\ x \in radio[u[1]]
    BY <2>1, <2>2, <2>11 DEF Sel!StrictTwoHop
  <2>13. k \in sel[u[1]]
    BY <2>3, <2>11, <2>12 DEF Selected
  <2> QED  BY <2>12, <2>13
<1>3. sel \in [Node -> SUBSET Node]
  BY DEF Selected
<1> QED  BY <1>2, <1>3 DEF AtRest, Network, Selected

=============================================================================
