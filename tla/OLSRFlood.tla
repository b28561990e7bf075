----------------------------- MODULE OLSRFlood ------------------------------
(***************************************************************************)
(* Flooding of TC messages: recv_olsr and forward_default with the         *)
(* duplicate set, and the buffer msgs_ that enque_msg fills and            *)
(* OLSR_MsgTimer empties through send_pkt.                                 *)
(*                                                                         *)
(* A message is identified by its originator and sequence number.  What    *)
(* forward_default reads of the neighbourhood, the symmetric links and the *)
(* MPR selectors, is input here: at rest, or changing at any time.  Hosts  *)
(* have one interface, so a message with a duplicate tuple, whose          *)
(* iface_list then holds that interface, is never considered again and the *)
(* tuple's retransmitted flag decides nothing.                             *)
(*                                                                         *)
(* A definition whose name ends in Slip is the one that follows it with a  *)
(* plausible programming error; the specification never uses it.           *)
(***************************************************************************)
EXTENDS Naturals, Sequences

CONSTANTS
  Node,
  Msg,
  orig,      \* originator of every message
  Ttl,       \* ttl of a new message, 255 in send_tc
  MaxMsgs,   \* OLSR_MAX_MSGS, messages in a packet
  Lossy,     \* packets may be lost, nodes may go down and restart
  Dynamic,   \* symmetric links and MPR selectors may change
  Prompt     \* packets have arrived before the next ones are sent

ASSUME FloodAssumption ==
  /\ orig \in [Msg -> Node]
  /\ Ttl \in Nat
  /\ MaxMsgs \in Nat \ {0}
  /\ {Lossy, Dynamic, Prompt} \subseteq BOOLEAN

VARIABLES
  radio,     \* the nodes that hear a node
  sym,       \* senders that find_sym_link_tuple accepts
  sel,       \* senders that find_mprsel_tuple finds
  dup,       \* messages with a duplicate tuple
  msgs,      \* msgs_: messages with the ttl they will be sent with
  timers,    \* how many OLSR_MsgTimers are pending
  air,       \* packets under way, one per receiver
  rx,        \* the packet in the loop of recv_olsr, if any
  down,      \* nodes that are down
  got,       \* history: the messages a node has processed
  tx,        \* history: the messages a node has sent since it last started
  new        \* messages not yet made by their originator

vars == <<radio, sym, sel, dup, msgs, timers, air, rx, down, got, tx, new>>
topo == <<radio, sym, sel>>

Copy   == [msg : Msg, ttl : Nat]
Packet == [from : Node, to : Node, load : Seq(Copy)]

\* The packets respect the limit that recv_olsr asserts.
TypeOK ==
  /\ radio \in [Node -> SUBSET Node]
  /\ sym \in [Node -> SUBSET Node]
  /\ sel \in [Node -> SUBSET Node]
  /\ dup \in [Node -> SUBSET Msg]
  /\ msgs \in [Node -> Seq(Copy)]
  /\ timers \in [Node -> Nat]
  /\ air \subseteq Packet
  /\ rx \subseteq Packet
  /\ \A p \in air \cup rx : Len(p.load) \in 1..MaxMsgs
  /\ down \subseteq Node
  /\ got \in [Node -> SUBSET Msg]
  /\ tx \in [Node -> SUBSET Msg]
  /\ new \subseteq Msg

\* Nothing is being flooded.
Quiet ==
  /\ dup = [n \in Node |-> {}]
  /\ msgs = [n \in Node |-> <<>>]
  /\ timers = [n \in Node |-> 0]
  /\ air = {}
  /\ rx = {}
  /\ down = {}
  /\ got = [n \in Node |-> {}]
  /\ tx = [n \in Node |-> {}]

Init ==
  /\ radio \in [Node -> SUBSET Node]
  /\ sym \in [Node -> SUBSET Node]
  /\ sel \in [Node -> SUBSET Node]
  /\ Quiet
  /\ new = Msg

-----------------------------------------------------------------------------
Carried(s) == {s[i].msg : i \in 1..Len(s)}

\* A copy of m on its way.
UnderWay(m) ==
  \/ \E n \in Node : m \in Carried(msgs[n])
  \/ \E p \in air \cup rx : m \in Carried(p.load)

\* enque_msg: the message joins the buffer, with a timer of its own.
Enqueue(n, c) ==
  /\ msgs' = [msgs EXCEPT ![n] = Append(@, c)]
  /\ timers' = [timers EXCEPT ![n] = @ + 1]

\* send_tc.
Originate(m) ==
  /\ m \in new
  /\ rx = {}
  /\ orig[m] \notin down
  /\ new' = new \ {m}
  /\ Enqueue(orig[m], [msg |-> m, ttl |-> Ttl])
  /\ UNCHANGED <<topo, dup, air, rx, down, got, tx>>

\* The loop over the buffer does not stop at OLSR_MAX_MSGS.
ChunksSlip(s) == IF s = <<>> THEN {} ELSE {s}

\* send_pkt: the loads of the packets that empty the buffer.
Chunks(s) ==
  {SubSeq(s, k * MaxMsgs + 1,
          IF Len(s) < (k + 1) * MaxMsgs THEN Len(s) ELSE (k + 1) * MaxMsgs) :
     k \in {i \in 0..Len(s) : i * MaxMsgs < Len(s)}}

\* OLSR_MsgTimer: the first timer to fire sends everything in the buffer, the
\* later ones may find it empty.
MsgTimer(n) ==
  /\ timers[n] > 0
  /\ rx = {}
  /\ Prompt => air = {}
  /\ timers' = [timers EXCEPT ![n] = @ - 1]
  /\ air' = air \cup {[from |-> n, to |-> r, load |-> s] : r \in radio[n], s \in Chunks(msgs[n])}
  /\ tx' = [tx EXCEPT ![n] = @ \cup Carried(msgs[n])]
  /\ msgs' = [msgs EXCEPT ![n] = <<>>]
  /\ UNCHANGED <<topo, dup, rx, down, got, new>>

\* recv_olsr takes a packet; handleMessage deletes it when the node is down.
Accept(p) ==
  /\ rx = {}
  /\ air' = air \ {p}
  /\ rx' = IF p.to \in down THEN {} ELSE {p}
  /\ UNCHANGED <<topo, dup, msgs, timers, down, got, tx, new>>

\* The node's own messages are considered.
ConsideredSlip(n, c) == c.ttl > 0 /\ c.msg \notin dup[n]

\* recv_olsr considers a message unless it has run out of hops, is the node's
\* own, or has a duplicate tuple.
Considered(n, c) == c.ttl > 0 /\ orig[c.msg] # n /\ c.msg \notin dup[n]

\* process_tc discards what no symmetric neighbour sent.
Processed(n, from, c) == Considered(n, c) /\ from \in sym[n]

\* Whose message it is does not matter to forward_default.
DuplicateSlip(n, from, c) == Considered(n, c)

\* forward_default makes the duplicate tuple, unless it returns because no
\* symmetric neighbour sent the message.
Duplicate(n, from, c) == Considered(n, c) /\ from \in sym[n]

\* The originator is looked up among the selectors instead of the sender.
RelayedSlip(n, from, c) == Duplicate(n, from, c) /\ c.ttl > 1 /\ orig[c.msg] \in sel[n]

\* It retransmits for MPR selectors, while there are hops left.
Relayed(n, from, c) == Duplicate(n, from, c) /\ c.ttl > 1 /\ from \in sel[n]

OneHopLessSlip(c) == c
OneHopLess(c) == [msg |-> c.msg, ttl |-> c.ttl - 1]

\* One turn of the loop of recv_olsr.
Receive(p) ==
  LET n == p.to
      c == Head(p.load)
  IN  /\ rx' = IF Len(p.load) = 1 THEN {} ELSE {[from |-> p.from, to |-> n, load |-> Tail(p.load)]}
      /\ got' = IF Processed(n, p.from, c) THEN [got EXCEPT ![n] = @ \cup {c.msg}] ELSE got
      /\ dup' = IF Duplicate(n, p.from, c) THEN [dup EXCEPT ![n] = @ \cup {c.msg}] ELSE dup
      /\ IF Relayed(n, p.from, c) THEN Enqueue(n, OneHopLess(c)) ELSE UNCHANGED <<msgs, timers>>
      /\ UNCHANGED <<topo, air, down, tx, new>>

\* A packet is lost on the air.
Lose(p) ==
  /\ Lossy
  /\ rx = {}
  /\ air' = air \ {p}
  /\ UNCHANGED <<topo, dup, msgs, timers, rx, down, got, tx, new>>

\* OLSR_DupTupleTimer.  The tuple lives for OLSR_DUP_HOLD_TIME, 30 s from the
\* message; a hop takes no longer than the jitter, half a second, so in
\* networks of less than sixty hops the message is no longer on its way.
DupExpire(n, m) ==
  /\ m \in dup[n]
  /\ rx = {}
  /\ ~UnderWay(m)
  /\ dup' = [dup EXCEPT ![n] = @ \ {m}]
  /\ UNCHANGED <<topo, msgs, timers, air, rx, down, got, tx, new>>

\* The buffer survives.
EmptiedSlip(n) == msgs
Emptied(n) == [msgs EXCEPT ![n] = <<>>]

\* handleNodeCrash and handleNodeShutdown: the buffer is cleared; the message
\* timers, and the duplicate tuples with theirs, are deleted.
NodeDown(n) ==
  /\ Lossy
  /\ rx = {}
  /\ n \notin down
  /\ down' = down \cup {n}
  /\ msgs' = Emptied(n)
  /\ timers' = [timers EXCEPT ![n] = 0]
  /\ dup' = [dup EXCEPT ![n] = {}]
  /\ tx' = [tx EXCEPT ![n] = {}]
  /\ UNCHANGED <<topo, air, rx, got, new>>

\* handleNodeStart.
NodeStart(n) ==
  /\ rx = {}
  /\ n \in down
  /\ down' = down \ {n}
  /\ UNCHANGED <<topo, dup, msgs, timers, air, rx, got, tx, new>>

\* What n knows of k, which it can hear, changes: by a timer or a HELLO, which
\* may come within the packet that is being read.
Relearn(n, k) ==
  /\ Dynamic
  /\ n \in radio[k]
  /\ \/ sym' = [sym EXCEPT ![n] = (@ \ {k}) \cup ({k} \ @)] /\ UNCHANGED sel
     \/ sel' = [sel EXCEPT ![n] = (@ \ {k}) \cup ({k} \ @)] /\ UNCHANGED sym
  /\ UNCHANGED <<radio, dup, msgs, timers, air, rx, down, got, tx, new>>

Deliver == (\E p \in air : Accept(p)) \/ (\E p \in rx : Receive(p))

Next ==
  \/ \E m \in Msg : Originate(m)
  \/ \E n \in Node : MsgTimer(n)
  \/ Deliver
  \/ \E p \in air : Lose(p)
  \/ \E n \in Node, m \in Msg : DupExpire(n, m)
  \/ \E n \in Node : NodeDown(n) \/ NodeStart(n)
  \/ \E n, k \in Node : Relearn(n, k)

\* Every scheduled timer fires, and what is on the air arrives or is lost.
Fairness == (\A n \in Node : WF_vars(MsgTimer(n))) /\ WF_vars(Deliver)

Spec == Init /\ [][Next]_vars /\ Fairness

-----------------------------------------------------------------------------
\* Nothing is forgotten in the buffer: enque_msg makes a timer per message but
\* the first to fire sends the messages of the others, so while the buffer
\* holds anything a timer that will send it is pending, across restarts too.
BufferHasTimer == \A n \in Node : msgs[n] # <<>> => timers[n] > 0

\* A node that has not restarted sends a message at most once, whoever it
\* hears it from and however the neighbourhood changes meanwhile: the
\* duplicate set of recv_olsr and forward_default does its work.
AtMostOnce ==
  \A n \in Node :
    \A i \in 1..Len(msgs[n]) :
      /\ msgs[n][i].msg \notin tx[n]
      /\ \A j \in 1..Len(msgs[n]) : msgs[n][i].msg = msgs[n][j].msg => i = j

\* A flood ends, although restarted nodes forget what they have forwarded:
\* the ttl bounds it.
FloodEnds == \A m \in Msg : UnderWay(m) ~> ~UnderWay(m)

\* The nodes that have a message.
Reached == [m \in Msg |-> IF m \in new THEN {} ELSE {orig[m]} \cup {n \in Node : m \in got[n]}]

F == INSTANCE Flood WITH reached <- Reached

\* A message only spreads over links from nodes that have processed it:
\* recv_olsr, process_tc and forward_default agree on what is a duplicate and
\* on whom to listen to, while the neighbourhood changes under them.
ImplementsFlood == F!Init /\ [][F!Next]_(F!vars)

\* Where the neighbourhood sets agree with the radio links and the selectors
\* are those mpr_computation chose, every neighbour of a node that has the
\* message gets it, though most nodes never forward it.
FloodComplete == F!Reaches

=============================================================================
