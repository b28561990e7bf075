---------------------------- MODULE OLSRTopology ----------------------------
(***************************************************************************)
(* Topology dissemination between one originator of TC messages and one    *)
(* receiver: the originator's MPR selector set and ansn_, the TCs on their *)
(* way, the receiver's topology tuples of this originator.  process_tc     *)
(* treats originators separately, and receivers share nothing.             *)
(*                                                                         *)
(* Selectors come and go as HELLOs and neighbour losses have it.  nb_loss  *)
(* erases a selector tuple from the set without a new ANSN and leaves its  *)
(* timer in the queue; the ANSN changes when that timer fires.  A TC takes *)
(* any time up to Flight, so TCs overtake each other, or it is lost.       *)
(*                                                                         *)
(* Times are kept as in OLSRNeighbor: ticks to go, Expired once over.      *)
(***************************************************************************)
EXTENDS Integers, FiniteSets

CONSTANTS
  Sel,        \* addresses that may select the originator as MPR
  Slot,       \* erased selector tuples whose timer is still queued, at most
  AnsnMod,    \* OLSR_MAX_SEQ_NUM + 1
  SelHold,    \* validity time of a HELLO, in ticks
  TopHold,    \* OLSR_TOP_HOLD_TIME, the validity time of a TC
  TcMin,      \* shortest and
  TcMax,      \* longest time between two TC timers (tc_ival less the jitter)
  Flight      \* longest time a TC is under way, buffers included

ASSUME TopologyAssumption ==
  /\ IsFiniteSet(Sel)
  /\ IsFiniteSet(Slot)
  /\ AnsnMod \in Nat \ {0}
  /\ SelHold \in Nat
  /\ TopHold \in Nat
  /\ TcMin \in Nat \ {0}
  /\ TcMax \in Nat
  /\ TcMin <= TcMax
  /\ Flight \in Nat

VARIABLES
  sel,      \* time of the MPR selector tuples, Absent without a tuple
  ghost,    \* time of the erased tuples that wait for their timer, or Absent
  ansn,     \* ansn_ of the originator
  tc,       \* time to the originator's TC timer
  up,       \* isNodeOperational() of the originator
  listens,  \* isNodeOperational() of the receiver
  net,      \* TCs that will arrive, with the time they have left
  topo,     \* topology tuples of the receiver with this originator
  named,    \* history: the selector set when ansn_ last changed
  since     \* history: ticks since an address was last a selector

vars == <<sel, ghost, ansn, tc, up, listens, net, topo, named, since>>

Expired == -1
Absent  == -2

\* One more than the longest age a property asks about.
Ages == Flight + TopHold + 2

Selectors(s) == {a \in Sel : s[a] # Absent}
Ghosts == {g \in Slot : ghost[g] # Absent}
View(t) == {d \in Sel : t[d].time # Absent}

TC == [ansn : 0..(AnsnMod - 1), sel : SUBSET Sel, left : 0..Flight]
NoTuple == [seq |-> 0, time |-> Absent]

TypeOK ==
  /\ sel \in [Sel -> -2..SelHold]
  /\ ghost \in [Slot -> -2..SelHold]
  /\ ansn \in 0..(AnsnMod - 1)
  /\ tc \in 0..TcMax
  /\ up \in BOOLEAN
  /\ listens \in BOOLEAN
  /\ net \subseteq TC
  /\ topo \in [Sel -> [seq : 0..(AnsnMod - 1), time : -2..TopHold]]
  /\ named \subseteq Sel
  /\ since \in [Sel -> 0..Ages]

Init ==
  /\ sel = [a \in Sel |-> Absent]
  /\ ghost = [g \in Slot |-> Absent]
  /\ ansn = AnsnMod - 1
  /\ tc \in TcMin..TcMax
  /\ up = TRUE
  /\ listens = TRUE
  /\ net = {}
  /\ topo = [d \in Sel |-> NoTuple]
  /\ named = {}
  /\ since = [a \in Sel |-> Ages]

-----------------------------------------------------------------------------
\* The remainder is forgotten.
AdvanceSlip(k) == ansn + k

\* add_mprsel_tuple and rm_mprsel_tuple: k changes of the selector set.
Advance(k) == (ansn + k) % AnsnMod

\* populate_mprselset: a HELLO of a that lists the originator as its MPR.
HeardSelector(a) ==
  /\ up
  /\ sel' = [sel EXCEPT ![a] = SelHold]
  /\ IF sel[a] = Absent
     THEN ansn' = Advance(1) /\ named' = Selectors(sel')
     ELSE UNCHANGED <<ansn, named>>
  /\ since' = [since EXCEPT ![a] = 0]
  /\ UNCHANGED <<ghost, tc, up, listens, net, topo>>

\* OLSR_MprSelTupleTimer of a tuple that is in the set.
SelectorExpire(a) ==
  /\ sel[a] = Expired
  /\ sel' = [sel EXCEPT ![a] = Absent]
  /\ ansn' = Advance(1)
  /\ named' = Selectors(sel')
  /\ UNCHANGED <<ghost, tc, up, listens, net, topo, since>>

\* OLSR_MprSelTupleTimer that finds its tuple erased: nothing to announce.
GhostExpireSlip(g) ==
  /\ ghost[g] = Expired
  /\ ghost' = [ghost EXCEPT ![g] = Absent]
  /\ UNCHANGED <<sel, ansn, tc, up, listens, net, topo, named, since>>

\* OLSR_MprSelTupleTimer of a tuple that nb_loss has erased from the set:
\* rm_mprsel_tuple erases nothing and advances the ANSN all the same.
GhostExpire(g) ==
  /\ ghost[g] = Expired
  /\ ghost' = [ghost EXCEPT ![g] = Absent]
  /\ ansn' = Advance(1)
  /\ named' = Selectors(sel)
  /\ UNCHANGED <<sel, tc, up, listens, net, topo, since>>

\* nb_loss: erase_mprsel_tuples, which leaves the tuple to its timer.
NbLoss(a, g) ==
  /\ up
  /\ sel[a] # Absent
  /\ ghost[g] = Absent
  /\ sel' = [sel EXCEPT ![a] = Absent]
  /\ ghost' = [ghost EXCEPT ![g] = sel[a]]
  /\ UNCHANGED <<ansn, tc, up, listens, net, topo, named, since>>

\* OLSR_TcTimer::expire and send_tc: a TC with the selector set, if there is
\* any selector; it goes astray if "lost".
TcTimer(lost) ==
  /\ up
  /\ tc = 0
  /\ tc' \in TcMin..TcMax
  /\ IF Selectors(sel) # {} /\ ~lost
     THEN net' = net \cup {[ansn |-> ansn, sel |-> Selectors(sel), left |-> Flight]}
     ELSE net' = net
  /\ UNCHANGED <<sel, ghost, ansn, up, listens, topo, named, since>>

-----------------------------------------------------------------------------
\* find_newer_topology_tuple
Newer(m) == \E d \in View(topo) : topo[d].seq > m.ansn

\* erase_older_topology_tuples leaves tuple t.
Survives(t, m) == t.time # Absent /\ t.seq >= m.ansn

\* All tuples of the originator are refreshed.
UpdatedSlip(m) ==
  [d \in Sel |->
     IF d \in m.sel \/ Survives(topo[d], m)
     THEN [seq |-> IF Survives(topo[d], m) THEN topo[d].seq ELSE m.ansn, time |-> TopHold]
     ELSE NoTuple]

\* A tuple with an older ANSN is kept, and found again in step 4.1.
UpdatedKeepSlip(m) ==
  [d \in Sel |->
     IF d \in m.sel
     THEN [seq |-> IF topo[d].time # Absent THEN topo[d].seq ELSE m.ansn, time |-> TopHold]
     ELSE IF Survives(topo[d], m) THEN topo[d] ELSE NoTuple]

\* Steps 3 and 4 of process_tc: the tuples of older ANSNs go, those listed are
\* refreshed or entered, the others of the same ANSN stay.
Updated(m) ==
  [d \in Sel |->
     IF d \in m.sel
     THEN [seq |-> IF Survives(topo[d], m) THEN topo[d].seq ELSE m.ansn, time |-> TopHold]
     ELSE IF Survives(topo[d], m) THEN topo[d] ELSE NoTuple]

\* Step 2 is left out.
ReceiveSlip(m) ==
  /\ net' = net \ {m}
  /\ topo' = Updated(m)
  /\ UNCHANGED <<sel, ghost, ansn, tc, up, listens, named, since>>

\* The check for newer tuples also refreshes those that are there.
ReceiveRefreshSlip(m) ==
  /\ net' = net \ {m}
  /\ topo' = IF ~listens THEN topo
             ELSE IF Newer(m)
             THEN [d \in Sel |-> IF topo[d].time # Absent THEN [topo[d] EXCEPT !.time = TopHold] ELSE NoTuple]
             ELSE Updated(m)
  /\ UNCHANGED <<sel, ghost, ansn, tc, up, listens, named, since>>

\* process_tc, for a TC that comes from a symmetric neighbour; a node that is
\* down deletes it.
Receive(m) ==
  /\ net' = net \ {m}
  /\ topo' = IF ~listens \/ Newer(m) THEN topo ELSE Updated(m)
  /\ UNCHANGED <<sel, ghost, ansn, tc, up, listens, named, since>>

\* OLSR_TopologyTupleTimer.
TopologyExpire(d) ==
  /\ topo[d].time = Expired
  /\ topo' = [topo EXCEPT ![d] = NoTuple]
  /\ UNCHANGED <<sel, ghost, ansn, tc, up, listens, net, named, since>>

\* The receiver crashes or shuts down: the timers take their tuples along.
ReceiverDown ==
  /\ listens
  /\ listens' = FALSE
  /\ topo' = [d \in Sel |-> NoTuple]
  /\ UNCHANGED <<sel, ghost, ansn, tc, up, net, named, since>>

\* The receiver starts again.
ReceiverStart ==
  /\ ~listens
  /\ listens' = TRUE
  /\ UNCHANGED <<sel, ghost, ansn, tc, up, net, topo, named, since>>

-----------------------------------------------------------------------------
\* The originator crashes or shuts down: the destructor of every selector
\* timer calls rm_mprsel_tuple; ansn_ itself is kept.
NodeDown ==
  /\ up
  /\ up' = FALSE
  /\ sel' = [a \in Sel |-> Absent]
  /\ ghost' = [g \in Slot |-> Absent]
  /\ ansn' = Advance(Cardinality(Selectors(sel)) + Cardinality(Ghosts))
  /\ named' = {}
  /\ UNCHANGED <<tc, listens, net, topo, since>>

\* handleNodeStart schedules the TC timer anew.
NodeStart ==
  /\ ~up
  /\ up' = TRUE
  /\ tc' \in TcMin..TcMax
  /\ UNCHANGED <<sel, ghost, ansn, listens, net, topo, named, since>>

Dec(x) == IF x >= 0 THEN x - 1 ELSE x
Least(x, y) == IF x < y THEN x ELSE y

\* No timer is due and no TC overdue.
Quiet ==
  /\ up => tc # 0
  /\ \A a \in Sel : sel[a] # Expired /\ topo[a].time # Expired
  /\ \A g \in Slot : ghost[g] # Expired
  /\ \A m \in net : m.left # 0

\* The clock advances by one tick.
Tick ==
  /\ Quiet
  /\ sel' = [a \in Sel |-> Dec(sel[a])]
  /\ ghost' = [g \in Slot |-> Dec(ghost[g])]
  /\ tc' = IF up THEN tc - 1 ELSE tc
  /\ net' = {[ansn |-> m.ansn, sel |-> m.sel, left |-> m.left - 1] : m \in net}
  /\ topo' = [d \in Sel |-> [seq |-> topo[d].seq, time |-> Dec(topo[d].time)]]
  /\ since' = [a \in Sel |-> IF sel[a] # Absent THEN 0 ELSE Least(since[a] + 1, Ages)]
  /\ UNCHANGED <<ansn, up, listens, named>>

TimerNext ==
  \/ \E a \in Sel : SelectorExpire(a) \/ TopologyExpire(a)
  \/ \E g \in Slot : GhostExpire(g)
  \/ \E lost \in BOOLEAN : TcTimer(lost)

Next ==
  \/ TimerNext
  \/ \E a \in Sel : HeardSelector(a)
  \/ \E a \in Sel, g \in Slot : NbLoss(a, g)
  \/ \E m \in net : Receive(m)
  \/ NodeDown
  \/ NodeStart
  \/ ReceiverDown
  \/ ReceiverStart
  \/ Tick

Spec == Init /\ [][Next]_vars

\* The simulator fires every timer, delivers what is under way and its clock
\* advances; whether a TC is lost is the medium's choice.
FairSpec ==
  /\ Spec
  /\ WF_vars(TimerNext)
  /\ WF_vars(\E m \in net : Receive(m))
  /\ WF_vars(Tick)

-----------------------------------------------------------------------------
\* Step 4.1 refreshes a tuple without touching its T_seq and step 2 asks for
\* "some tuple": both rely on all tuples of an originator bearing one ANSN.
OneAnsn ==
  \A d, e \in View(topo) : topo[d].seq = topo[e].seq

\* A selector set smaller than the one its ANSN was given to (nb_loss withdraws
\* silently) gets an ANSN of its own later: the timer that advances it is still
\* to come.  Until then TCs of one ANSN may list different sets.
SilentWithdrawalPending ==
  /\ Selectors(sel) \subseteq named
  /\ Selectors(sel) # named => Ghosts # {}

\* The receiver drops a link in bounded time after the originator withdrew it,
\* whatever is lost, reordered or wrapped around.
StaleBounded ==
  \A d \in View(topo) : since[d] <= Flight + TopHold + 1

\* A receiver never mixes two announcements: when its view of the originator
\* goes over to another ANSN, it becomes the selector set of one TC.
WholeAnnouncement ==
  [][\A d \in View(topo), e \in View(topo') :
       topo'[e].seq # topo[d].seq =>
         \E m \in net : m.ansn = topo'[e].seq /\ View(topo') = m.sel]_vars

\* No TC is lost, the nodes stay up and the selectors stay the same.
Undisturbed ==
  /\ up /\ up' /\ listens /\ listens'
  /\ Selectors(sel') = Selectors(sel)
  /\ ~TcTimer(TRUE) \/ Selectors(sel) = {}

\* Once that is so for ever, the receiver's view becomes the originator's
\* selector set and stays so: also when the ANSN has wrapped around and TCs are
\* ignored until older tuples expire, and when the selector set is empty and no
\* TC is sent any more.
Settled == <>[][Undisturbed]_vars

Converges == Settled => <>[](View(topo) = Selectors(sel))

=============================================================================
