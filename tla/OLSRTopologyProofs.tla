------------------------- MODULE OLSRTopologyProofs -------------------------
(***************************************************************************)
(* For any number of selectors, any holding times and delays and any width *)
(* of the ANSN: the tuples of an originator bear one ANSN, a view is taken *)
(* over as a whole, a withdrawn link is dropped in bounded time, and the   *)
(* view that agrees with a lasting selector set goes on agreeing.          *)
(***************************************************************************)
EXTENDS OLSRTopology, FiniteSetTheorems, TLAPS

\* A selector is a selector now; an address that a TC lists was one when the
\* TC was sent; a tuple was refreshed by such a TC.
SelectorAge == \A a \in Selectors(sel) : since[a] = 0
MessageAge  == \A m \in net : \A a \in m.sel : since[a] + m.left <= Flight
TupleAge    == \A d \in View(topo) : since[d] + topo[d].time <= Flight + TopHold

IInv ==
  /\ TypeOK
  /\ OneAnsn
  /\ SilentWithdrawalPending
  /\ SelectorAge
  /\ MessageAge
  /\ TupleAge

\* However often it is advanced, the ANSN keeps its width.
LEMMA AdvanceType ==
  ASSUME TypeOK, NEW k \in Nat
  PROVE  Advance(k) \in 0..(AnsnMod - 1)
<1>1. ansn + k \in Nat /\ AnsnMod \in Nat \ {0}
  BY TopologyAssumption DEF TypeOK
<1>2. \A x \in Nat, n \in Nat \ {0} : x % n \in 0..(n - 1)
  OBVIOUS
<1> QED  BY <1>1, <1>2 DEF Advance

\* The number of tuples deleted by a crash is a number.
LEMMA CountType ==
  ASSUME TypeOK
  PROVE  Cardinality(Selectors(sel)) + Cardinality(Ghosts) \in Nat
<1>1. Selectors(sel) \in SUBSET Sel /\ Ghosts \in SUBSET Slot
  BY DEF Selectors, Ghosts
<1>2. IsFiniteSet(Selectors(sel)) /\ IsFiniteSet(Ghosts)
  BY <1>1, FS_Subset, TopologyAssumption
<1>3. Cardinality(Selectors(sel)) \in Nat /\ Cardinality(Ghosts) \in Nat
  BY <1>2, FS_CardinalityType
<1> QED  BY <1>3

\* What process_tc makes of the tuples, unless a newer one is there: every
\* tuple bears the ANSN of the TC; those of lower ANSNs are gone.
LEMMA UpdatedTuples ==
  ASSUME TypeOK, NEW m \in net, ~Newer(m)
  PROVE  /\ Updated(m) \in [Sel -> [seq : 0..(AnsnMod - 1), time : -2..TopHold]]
         /\ \A d \in View(Updated(m)) : Updated(m)[d].seq = m.ansn
         /\ \A d \in Sel : d \in m.sel => Updated(m)[d].time = TopHold
         /\ \A d \in View(Updated(m)) : d \notin m.sel =>
              /\ d \in View(topo)
              /\ topo[d].seq = m.ansn
              /\ Updated(m)[d] = topo[d]
<1>1. m.ansn \in 0..(AnsnMod - 1) /\ m.sel \subseteq Sel
  BY DEF TypeOK, TC
<1>2. \A d \in Sel : topo[d] \in [seq : 0..(AnsnMod - 1), time : -2..TopHold]
  BY DEF TypeOK
<1>3. \A d \in Sel : Survives(topo[d], m) => d \in View(topo) /\ topo[d].seq = m.ansn
  BY <1>1, <1>2 DEF Newer, Survives, View
<1>4. AnsnMod \in Nat \ {0} /\ TopHold \in Nat
  BY TopologyAssumption
<1>5. \A d \in Sel : Updated(m)[d] =
        IF d \in m.sel
        THEN [seq |-> IF Survives(topo[d], m) THEN topo[d].seq ELSE m.ansn, time |-> TopHold]
        ELSE IF Survives(topo[d], m) THEN topo[d] ELSE NoTuple
  BY DEF Updated
<1>6. \A d \in Sel : d \in m.sel => Updated(m)[d] = [seq |-> m.ansn, time |-> TopHold]
  BY <1>3, <1>5
<1>7. \A d \in Sel : d \notin m.sel =>
        IF Survives(topo[d], m) THEN Updated(m)[d] = topo[d] ELSE Updated(m)[d] = NoTuple
  BY <1>5
<1>8. \A d \in Sel : Updated(m)[d] \in [seq : 0..(AnsnMod - 1), time : -2..TopHold]
  BY <1>1, <1>2, <1>4, <1>6, <1>7 DEF NoTuple, Absent
<1>9. Updated(m) \in [Sel -> [seq : 0..(AnsnMod - 1), time : -2..TopHold]]
  BY <1>8 DEF Updated
<1>10. \A d \in Sel : d \notin m.sel /\ d \in View(Updated(m)) =>
         Survives(topo[d], m) /\ Updated(m)[d] = topo[d]
  BY <1>7 DEF View, NoTuple
<1> QED  BY <1>3, <1>6, <1>9, <1>10 DEF View

\* The types hold initially and after every step (TypeOK).
THEOREM TypeCorrect == Spec => []TypeOK
<1> USE TopologyAssumption DEF Absent, Expired, Ages
<1>1. Init => TypeOK
  BY DEF Init, TypeOK, NoTuple
<1>2. ASSUME TypeOK, [Next]_vars PROVE TypeOK'
  <2>1. Advance(1) \in 0..(AnsnMod - 1)
    BY <1>2, AdvanceType
  <2>0. NoTuple \in [seq : 0..(AnsnMod - 1), time : -2..TopHold]
    BY DEF NoTuple
  <2>2. CASE \E a \in Sel : HeardSelector(a)
    BY <1>2, <2>1, <2>2 DEF HeardSelector, TypeOK, Selectors
  <2>3. CASE \E a \in Sel : SelectorExpire(a)
    BY <1>2, <2>1, <2>3 DEF SelectorExpire, TypeOK, Selectors
  <2>4. CASE \E g \in Slot : GhostExpire(g)
    BY <1>2, <2>1, <2>4 DEF GhostExpire, TypeOK, Selectors
  <2>5. CASE \E a \in Sel, g \in Slot : NbLoss(a, g)
    BY <1>2, <2>5 DEF NbLoss, TypeOK
  <2>6. CASE \E lost \in BOOLEAN : TcTimer(lost)
    <3>1. [ansn |-> ansn, sel |-> Selectors(sel), left |-> Flight] \in TC
      BY <1>2 DEF TypeOK, TC, Selectors
    <3>2. net' \subseteq TC
      BY <1>2, <2>6, <3>1 DEF TcTimer, TypeOK
    <3> QED  BY <1>2, <2>6, <3>2 DEF TcTimer, TypeOK
  <2>7. CASE \E m \in net : Receive(m)
    <3>1. PICK m \in net : Receive(m)
      BY <2>7
    <3>2. topo' \in [Sel -> [seq : 0..(AnsnMod - 1), time : -2..TopHold]]
      BY <1>2, <3>1, UpdatedTuples DEF Receive, TypeOK
    <3> QED  BY <1>2, <3>1, <3>2 DEF Receive, TypeOK
  <2>8. CASE \E d \in Sel : TopologyExpire(d)
    BY <1>2, <2>0, <2>8 DEF TopologyExpire, TypeOK
  <2>9. CASE ReceiverDown \/ ReceiverStart
    BY <1>2, <2>0, <2>9 DEF ReceiverDown, ReceiverStart, TypeOK
  <2>10. CASE NodeDown
    <3>1. ansn' \in 0..(AnsnMod - 1)
      BY <1>2, <2>10, CountType, AdvanceType DEF NodeDown
    <3>2. sel' \in [Sel -> -2..SelHold] /\ ghost' \in [Slot -> -2..SelHold]
      BY <2>10 DEF NodeDown
    <3> QED  BY <1>2, <2>10, <3>1, <3>2 DEF NodeDown, TypeOK
  <2>11. CASE NodeStart
    BY <1>2, <2>11 DEF NodeStart, TypeOK
  <2>12. CASE Tick
    <3>1. sel' \in [Sel -> -2..SelHold] /\ ghost' \in [Slot -> -2..SelHold]
      BY <1>2, <2>12 DEF Tick, TypeOK, Dec
    <3>2. tc' \in 0..TcMax
      BY <1>2, <2>12 DEF Tick, TypeOK, Quiet
    <3>3. net' \subseteq TC
      <4>1. \A m \in net : m \in TC /\ m.left # 0
        BY <1>2, <2>12 DEF Tick, TypeOK, Quiet
      <4>2. \A m \in TC : m.left # 0 =>
              [ansn |-> m.ansn, sel |-> m.sel, left |-> m.left - 1] \in TC
        BY DEF TC
      <4> QED  BY <2>12, <4>1, <4>2 DEF Tick
    <3>4. topo' \in [Sel -> [seq : 0..(AnsnMod - 1), time : -2..TopHold]]
      BY <1>2, <2>12 DEF Tick, TypeOK, Dec
    <3>5. since' \in [Sel -> 0..Ages]
      BY <1>2, <2>12 DEF Tick, TypeOK, Least
    <3> QED  BY <1>2, <2>12, <3>1, <3>2, <3>3, <3>4, <3>5 DEF Tick, TypeOK
  <2>13. CASE UNCHANGED vars
    BY <1>2, <2>13 DEF vars, TypeOK
  <2> QED
    BY <1>2, <2>2, <2>3, <2>4, <2>5, <2>6, <2>7, <2>8, <2>9, <2>10, <2>11, <2>12, <2>13
    DEF Next, TimerNext
<1> QED  BY <1>1, <1>2, PTL DEF Spec

\* The steps that do not touch the receiver's tuples.
LEMMA TopoUnchanged ==
  ASSUME [Next]_vars,
         ~\E m \in net : Receive(m),
         ~\E d \in Sel : TopologyExpire(d),
         ~ReceiverDown,
         ~Tick
  PROVE  topo' = topo
BY DEF Next, TimerNext, vars, HeardSelector, SelectorExpire, GhostExpire, NbLoss, TcTimer,
       NodeDown, NodeStart, ReceiverStart

\* A step other than the reception of a TC only takes tuples away.
LEMMA TopoShrinks ==
  ASSUME TypeOK, [Next]_vars, ~\E m \in net : Receive(m)
  PROVE  \A d \in View(topo') : d \in View(topo) /\ topo'[d].seq = topo[d].seq
<1>1. CASE \E d \in Sel : TopologyExpire(d)
  BY <1>1 DEF TopologyExpire, TypeOK, View, NoTuple
<1>2. CASE ReceiverDown
  BY <1>2 DEF ReceiverDown, View, NoTuple
<1>3. CASE Tick
  <2>1. \A d \in Sel : topo'[d].seq = topo[d].seq
    BY <1>3 DEF Tick
  <2>2. \A d \in Sel : topo[d].time = Absent => topo'[d].time = Absent
    BY <1>3 DEF Tick, Dec, Absent
  <2> QED  BY <2>1, <2>2 DEF View
<1> QED  BY <1>1, <1>2, <1>3, TopoUnchanged DEF View

LEMMA OneAnsnStep ==
  ASSUME IInv, [Next]_vars
  PROVE  OneAnsn'
<1>1. CASE \E m \in net : Receive(m)
  <2>1. PICK m \in net : Receive(m)
    BY <1>1
  <2>2. CASE ~listens \/ Newer(m)
    BY <2>1, <2>2 DEF Receive, IInv, OneAnsn, View
  <2>3. CASE listens /\ ~Newer(m)
    <3>1. topo' = Updated(m)
      BY <2>1, <2>3 DEF Receive
    <3>2. \A d \in View(topo') : topo'[d].seq = m.ansn
      BY <2>3, <3>1, UpdatedTuples DEF IInv
    <3> QED  BY <3>2 DEF OneAnsn
  <2> QED  BY <2>2, <2>3
<1>2. CASE ~\E m \in net : Receive(m)
  BY <1>2, TopoShrinks DEF IInv, OneAnsn
<1> QED  BY <1>1, <1>2

LEMMA PendingStep ==
  ASSUME IInv, [Next]_vars
  PROVE  SilentWithdrawalPending'
<1> USE DEF SilentWithdrawalPending, Selectors, Ghosts, Absent, Expired
<1>1. TypeOK /\ SilentWithdrawalPending
  BY DEF IInv
<1>2. CASE \E a \in Sel : HeardSelector(a)
  <2>1. PICK a \in Sel : HeardSelector(a)
    BY <1>2
  <2>2. CASE sel[a] = Absent
    BY <2>1, <2>2 DEF HeardSelector
  <2>3. CASE sel[a] # Absent
    <3>1. Selectors(sel') = Selectors(sel)
      BY <1>1, <2>1, <2>3, TopologyAssumption DEF HeardSelector, TypeOK
    <3>2. named' = named /\ ghost' = ghost
      BY <2>1, <2>3 DEF HeardSelector
    <3> QED  BY <1>1, <3>1, <3>2
  <2> QED  BY <2>2, <2>3
<1>3. CASE \E a \in Sel : SelectorExpire(a)
  BY <1>3 DEF SelectorExpire
<1>4. CASE \E g \in Slot : GhostExpire(g)
  BY <1>4 DEF GhostExpire
<1>5. CASE \E a \in Sel, g \in Slot : NbLoss(a, g)
  <2>1. PICK a \in Sel, g \in Slot : NbLoss(a, g)
    BY <1>5
  <2>2. ghost'[g] # Absent
    BY <1>1, <2>1 DEF NbLoss, TypeOK
  <2>3. Selectors(sel') \subseteq Selectors(sel)
    BY <1>1, <2>1 DEF NbLoss, TypeOK
  <2> QED  BY <1>1, <2>1, <2>2, <2>3 DEF NbLoss
<1>6. CASE NodeDown
  BY <1>6 DEF NodeDown
<1>7. CASE Tick
  <2>1. \A a \in Sel : sel'[a] = Absent <=> sel[a] = Absent
    BY <1>1, <1>7 DEF Tick, Dec, TypeOK
  <2>2. \A g \in Slot : ghost'[g] = Absent <=> ghost[g] = Absent
    BY <1>1, <1>7 DEF Tick, Dec, TypeOK
  <2> QED  BY <1>1, <1>7, <2>1, <2>2 DEF Tick
<1>8. CASE UNCHANGED <<sel, ghost, named>>
  BY <1>1, <1>8
<1> QED
  BY <1>2, <1>3, <1>4, <1>5, <1>6, <1>7, <1>8
  DEF Next, TimerNext, vars, TcTimer, Receive, TopologyExpire, ReceiverDown, ReceiverStart,
      NodeStart

LEMMA AgeStep ==
  ASSUME IInv, [Next]_vars
  PROVE  SelectorAge' /\ MessageAge' /\ TupleAge'
<1> USE TopologyAssumption DEF SelectorAge, MessageAge, TupleAge, Selectors, View, Absent, Expired
<1>1. TypeOK /\ SelectorAge /\ MessageAge /\ TupleAge
  BY DEF IInv
<1>2. /\ \A a \in Sel : sel[a] \in -2..SelHold /\ since[a] \in 0..Ages /\ Ages \in Nat
      /\ \A d \in Sel : topo[d].time \in -2..TopHold
      /\ \A m \in net : m.sel \subseteq Sel /\ m.left \in 0..Flight
  BY <1>1 DEF TypeOK, TC, Ages
<1>3. CASE \E a \in Sel : HeardSelector(a)
  <2>1. PICK a \in Sel : HeardSelector(a)
    BY <1>3
  <2>2. \A b \in Sel : since'[b] = IF b = a THEN 0 ELSE since[b]
    BY <1>1, <2>1 DEF HeardSelector, TypeOK
  <2>3. \A b \in Sel : b # a => sel'[b] = sel[b]
    BY <1>1, <2>1 DEF HeardSelector, TypeOK
  <2>4. net' = net /\ topo' = topo
    BY <2>1 DEF HeardSelector
  <2> QED  BY <1>1, <1>2, <2>2, <2>3, <2>4
<1>4. CASE \E a \in Sel : SelectorExpire(a)
  BY <1>1, <1>2, <1>4 DEF SelectorExpire, TypeOK
<1>5. CASE \E a \in Sel, g \in Slot : NbLoss(a, g)
  BY <1>1, <1>2, <1>5 DEF NbLoss, TypeOK
<1>6. CASE \E lost \in BOOLEAN : TcTimer(lost)
  <2>1. \A m \in net' \ net : m.left = Flight /\ \A a \in m.sel : a \in Selectors(sel)
    BY <1>6 DEF TcTimer
  <2>2. sel' = sel /\ topo' = topo /\ since' = since
    BY <1>6 DEF TcTimer
  <2>3. MessageAge'
    BY <1>1, <2>1, <2>2
  <2> QED  BY <1>1, <2>2, <2>3
<1>7. CASE \E m \in net : Receive(m)
  <2>1. PICK m \in net : Receive(m)
    BY <1>7
  <2>2. net' \subseteq net /\ sel' = sel /\ since' = since
    BY <2>1 DEF Receive
  <2>3. CASE ~listens \/ Newer(m)
    BY <1>1, <2>1, <2>2, <2>3 DEF Receive
  <2>4. CASE listens /\ ~Newer(m)
    <3>1. topo' = Updated(m)
      BY <2>1, <2>4 DEF Receive
    <3>2. /\ \A d \in Sel : d \in m.sel => topo'[d].time = TopHold
          /\ \A d \in View(topo') : d \notin m.sel => d \in View(topo) /\ topo'[d] = topo[d]
      BY <1>1, <2>4, <3>1, UpdatedTuples
    <3>3. \A d \in View(topo') : since'[d] + topo'[d].time <= Flight + TopHold
      BY <1>1, <1>2, <2>2, <3>2
    <3> QED  BY <1>1, <2>2, <3>3
  <2> QED  BY <2>3, <2>4
<1>8. CASE \E d \in Sel : TopologyExpire(d)
  BY <1>1, <1>2, <1>8 DEF TopologyExpire, TypeOK, NoTuple
<1>9. CASE ReceiverDown
  BY <1>1, <1>9 DEF ReceiverDown, NoTuple
<1>10. CASE NodeDown
  BY <1>1, <1>10 DEF NodeDown
<1>11. CASE Tick
  <2>1. /\ \A a \in Sel : sel'[a] = Dec(sel[a])
        /\ \A d \in Sel : topo'[d].time = Dec(topo[d].time) /\ topo[d].time # Expired
        /\ \A a \in Sel : sel[a] # Absent => since'[a] = 0
        /\ \A a \in Sel : since'[a] <= since[a] + 1
    BY <1>2, <1>11 DEF Tick, Quiet, Least
  <2>2. SelectorAge'
    BY <1>2, <2>1 DEF Dec
  <2>3. \A m \in net' : \E k \in net : m.sel = k.sel /\ m.left = k.left - 1
    BY <1>11 DEF Tick
  <2>4. \A a \in Sel : since'[a] \in Int
    BY <1>2, <1>11 DEF Tick, Least
  <2>5. MessageAge'
    BY <1>1, <1>2, <2>1, <2>3, <2>4
  <2>6. TupleAge'
    BY <1>1, <1>2, <2>1, <2>4 DEF Dec
  <2> QED  BY <2>2, <2>5, <2>6
<1>12. CASE UNCHANGED <<sel, net, topo, since>>
  BY <1>1, <1>12
<1> QED
  BY <1>3, <1>4, <1>5, <1>6, <1>7, <1>8, <1>9, <1>10, <1>11, <1>12
  DEF Next, TimerNext, vars, GhostExpire, ReceiverStart, NodeStart

\* All parts of the invariant hold in every reachable state.
THEOREM TopologyInvariant == Spec => []IInv
<1>1. Init => OneAnsn /\ SilentWithdrawalPending /\ SelectorAge /\ MessageAge /\ TupleAge
  BY DEF Init, OneAnsn, SilentWithdrawalPending, SelectorAge, MessageAge, TupleAge, Selectors,
         View, NoTuple, Absent
<1>2. ASSUME IInv, TypeOK', [Next]_vars PROVE IInv'
  BY <1>2, OneAnsnStep, PendingStep, AgeStep DEF IInv
<1>3. Init /\ TypeOK => IInv
  BY <1>1 DEF IInv
<1> QED  BY <1>2, <1>3, TypeCorrect, PTL DEF Spec

\* All tuples of an originator bear one ANSN (OneAnsn), which the refreshing of
\* step 4.1 in process_tc depends on.
THEOREM TopologyOneAnsn == Spec => []OneAnsn
<1>1. IInv => OneAnsn
  BY DEF IInv
<1> QED  BY <1>1, TopologyInvariant, PTL

\* A withdrawal by nb_loss gets an ANSN of its own later
\* (SilentWithdrawalPending), from the timer of the tuple it erased.
THEOREM TopologyWithdrawalPending == Spec => []SilentWithdrawalPending
<1>1. IInv => SilentWithdrawalPending
  BY DEF IInv
<1> QED  BY <1>1, TopologyInvariant, PTL

\* A receiver keeps a withdrawn link no longer than a TC may be under way and
\* its holding time together (StaleBounded), whatever the width of the ANSN.
THEOREM TopologyStaleBounded == Spec => []StaleBounded
<1>1. IInv => StaleBounded
  <2>1. ASSUME IInv, NEW d \in View(topo) PROVE since[d] <= Flight + TopHold + 1
    <3>1. /\ d \in Sel
          /\ topo[d].time \in -2..TopHold /\ topo[d].time # -2
          /\ since[d] \in Nat
          /\ since[d] + topo[d].time <= Flight + TopHold
      BY <2>1 DEF IInv, TypeOK, TupleAge, View, Absent
    <3> QED  BY <3>1, TopologyAssumption
  <2> QED  BY <2>1 DEF StaleBounded
<1> QED  BY <1>1, TopologyInvariant, PTL

\* A view goes over to another ANSN as a whole (WholeAnnouncement): process_tc
\* never mixes two announcements.
THEOREM TopologyWholeAnnouncement == Spec => WholeAnnouncement
<1> DEFINE Whole ==
      \A d \in View(topo), e \in View(topo') :
        topo'[e].seq # topo[d].seq =>
          \E m \in net : m.ansn = topo'[e].seq /\ View(topo') = m.sel
<1>1. ASSUME IInv, [Next]_vars PROVE Whole
  <2>1. CASE ~\E m \in net : Receive(m)
    BY <1>1, <2>1, TopoShrinks DEF IInv, OneAnsn
  <2>2. CASE \E m \in net : Receive(m)
    <3>1. PICK m \in net : Receive(m)
      BY <2>2
    <3>2. CASE ~listens \/ Newer(m)
      BY <1>1, <3>1, <3>2 DEF Receive, IInv, OneAnsn, View
    <3>3. CASE listens /\ ~Newer(m)
      <4>1. topo' = Updated(m) /\ TypeOK /\ m.sel \subseteq Sel
        BY <1>1, <3>1, <3>3 DEF Receive, IInv, TypeOK, TC
      <4>2. /\ \A e \in View(topo') : topo'[e].seq = m.ansn
            /\ \A e \in Sel : e \in m.sel => topo'[e].time = TopHold
            /\ \A e \in View(topo') : e \notin m.sel => e \in View(topo) /\ topo[e].seq = m.ansn
        BY <3>3, <4>1, UpdatedTuples
      <4>3. ASSUME NEW d \in View(topo), NEW e \in View(topo'), topo'[e].seq # topo[d].seq
            PROVE  m.ansn = topo'[e].seq /\ View(topo') = m.sel
        <5>1. View(topo') \subseteq m.sel
          BY <1>1, <4>2, <4>3 DEF IInv, OneAnsn
        <5>2. m.sel \subseteq View(topo')
          BY <4>1, <4>2, TopologyAssumption DEF View, Absent
        <5> QED  BY <4>2, <5>1, <5>2
      <4> QED  BY <4>3
    <3> QED  BY <3>2, <3>3
  <2> QED  BY <2>1, <2>2
<1>2. [Next]_vars /\ IInv => [Whole]_vars
  BY <1>1
<1> QED  BY <1>2, TopologyInvariant, PTL DEF Spec, WholeAnnouncement

-----------------------------------------------------------------------------
\* Nothing of an earlier selector set is left: no erased tuple that would still
\* advance the ANSN, no older TC under way, no tuple with an ANSN of which the
\* selector set is not.
Steady ==
  /\ Ghosts = {}
  /\ \A m \in net : m.ansn = ansn /\ m.sel = Selectors(sel)
  /\ \A d \in View(topo) :
       topo[d].seq < ansn \/ (topo[d].seq = ansn /\ d \in Selectors(sel))

\* A tuple outlives the next TC, or one that is under way.
Fresh(d) ==
  \/ tc + Flight <= topo[d].time
  \/ \E m \in net : m.left <= topo[d].time

\* The receiver knows the selector set and will not forget it.
Agreed ==
  /\ View(topo) = Selectors(sel)
  /\ \A d \in View(topo) : topo[d].seq = ansn /\ Fresh(d)

\* A TC of the steady originator is accepted and replaces the whole view.
LEMMA SteadyReceive ==
  ASSUME TcMax + Flight <= TopHold, IInv, Steady, listens, NEW m \in net, Receive(m)
  PROVE  Steady' /\ Agreed'
<1>1. /\ m.ansn = ansn /\ m.sel = Selectors(sel) /\ net' \subseteq net
      /\ ansn \in 0..(AnsnMod - 1) /\ tc \in 0..TcMax
      /\ \A d \in View(topo) : topo[d].seq \in 0..(AnsnMod - 1)
      /\ TcMax \in Nat /\ Flight \in Nat /\ TopHold \in Nat /\ AnsnMod \in Nat
  BY TopologyAssumption DEF Steady, Receive, IInv, TypeOK, View
<1>2. ~Newer(m)
  BY <1>1 DEF Newer, Steady
<1>3. topo' = Updated(m) /\ UNCHANGED <<sel, ghost, ansn, tc>>
  BY <1>2 DEF Receive
<1>4. /\ \A d \in View(Updated(m)) : Updated(m)[d].seq = m.ansn
      /\ \A d \in Sel : d \in m.sel => Updated(m)[d].time = TopHold
      /\ \A d \in View(Updated(m)) : d \notin m.sel => d \in View(topo) /\ topo[d].seq = m.ansn
  BY <1>2, UpdatedTuples DEF IInv
<1>5. View(Updated(m)) = Selectors(sel)
  <2>1. ASSUME NEW d \in View(Updated(m)) PROVE d \in m.sel
    BY <1>1, <1>4, <2>1 DEF Steady
  <2>2. ASSUME NEW d \in Selectors(sel) PROVE d \in View(Updated(m))
    <3>1. d \in Sel /\ d \in m.sel
      BY <1>1 DEF Selectors
    <3>2. Updated(m)[d].time = TopHold
      BY <1>4, <3>1
    <3> QED  BY <1>1, <3>1, <3>2 DEF View, Absent
  <2> QED  BY <1>1, <2>1, <2>2
<1>6. \A d \in Selectors(sel) : Updated(m)[d].time = TopHold /\ Updated(m)[d].seq = ansn
  BY <1>1, <1>4, <1>5 DEF Selectors
<1>7. Selectors(sel)' = Selectors(sel) /\ Ghosts' = Ghosts /\ View(topo)' = Selectors(sel)
  BY <1>3, <1>5 DEF Selectors, Ghosts, View
<1>8. Steady'
  <2>1. \A k \in net' : k.ansn = ansn /\ k.sel = Selectors(sel)
    BY <1>1 DEF Steady
  <2> QED  BY <1>3, <1>6, <1>7, <2>1 DEF Steady
<1>9. Agreed'
  <2>1. \A d \in Selectors(sel) : tc' + Flight <= topo'[d].time
    BY <1>1, <1>3, <1>6
  <2>2. \A d \in Selectors(sel) : Fresh(d)'
    BY <2>1 DEF Fresh
  <2> QED  BY <1>3, <1>6, <1>7, <2>2 DEF Agreed
<1> QED  BY <1>8, <1>9

\* A step of the clock takes as much from a tuple as from what refreshes it.
LEMMA SteadyTick ==
  ASSUME IInv, Steady, up, Tick
  PROVE  Steady' /\ (Agreed => Agreed')
<1>1. /\ UNCHANGED <<ansn, up, listens, named>>
      /\ \A a \in Sel : sel'[a] = Dec(sel[a]) /\ topo'[a].seq = topo[a].seq /\ topo'[a].time = Dec(topo[a].time)
      /\ \A g \in Slot : ghost'[g] = Dec(ghost[g])
      /\ tc' = tc - 1
  BY DEF Tick
<1>2. /\ \A a \in Sel : sel[a] \in -2..SelHold /\ topo[a].time \in -2..TopHold
      /\ \A g \in Slot : ghost[g] \in -2..SelHold
      /\ tc \in 0..TcMax /\ \A m \in net : m.left \in 0..Flight
      /\ SelHold \in Nat /\ TopHold \in Nat /\ TcMax \in Nat /\ Flight \in Nat
  BY TopologyAssumption DEF IInv, TypeOK, TC
<1>3. \A x \in Int : Dec(x) = Absent <=> x = Absent
  BY DEF Dec, Absent
<1>4. Selectors(sel') = Selectors(sel) /\ Selectors(sel)' = Selectors(sel)
      /\ Ghosts' = Ghosts /\ View(topo)' = View(topo)
  <2>1. \A a \in Sel : (sel'[a] = Absent <=> sel[a] = Absent) /\ (topo'[a].time = Absent <=> topo[a].time = Absent)
    BY <1>1, <1>2, <1>3
  <2>2. \A g \in Slot : ghost'[g] = Absent <=> ghost[g] = Absent
    BY <1>1, <1>2, <1>3
  <2> QED  BY <2>1, <2>2 DEF Selectors, Ghosts, View
<1>5. net' = {[ansn |-> m.ansn, sel |-> m.sel, left |-> m.left - 1] : m \in net}
  BY DEF Tick
<1>6. Steady'
  <2>1. \A m \in net' : m.ansn = ansn /\ m.sel = Selectors(sel)
    BY <1>5 DEF Steady
  <2>2. \A d \in View(topo) : topo'[d].seq = topo[d].seq
    BY <1>1 DEF View
  <2> QED  BY <1>1, <1>4, <2>1, <2>2 DEF Steady
<1>7. ASSUME Agreed PROVE Agreed'
  <2> SUFFICES ASSUME NEW d \in View(topo) PROVE topo'[d].seq = ansn /\ Fresh(d)'
    BY <1>1, <1>4, <1>7 DEF Agreed
  <2>1. d \in Sel /\ topo[d].seq = ansn /\ Fresh(d)
    BY <1>7 DEF Agreed, View
  <2>2. CASE tc + Flight <= topo[d].time
    <3>1. topo[d].time >= 0
      BY <1>2, <2>1, <2>2
    <3>2. topo'[d].time = topo[d].time - 1
      BY <1>1, <2>1, <3>1 DEF Dec
    <3>3. tc' + Flight <= topo'[d].time
      BY <1>1, <1>2, <2>1, <2>2, <3>2
    <3> QED  BY <1>1, <2>1, <3>3 DEF Fresh
  <2>3. CASE \E m \in net : m.left <= topo[d].time
    <3>1. PICK m \in net : m.left <= topo[d].time
      BY <2>3
    <3>2. m.left \in Int /\ topo[d].time >= 0
      BY <1>2, <2>1, <3>1
    <3>3. topo'[d].time = topo[d].time - 1
      BY <1>1, <2>1, <3>2 DEF Dec
    <3>4. [ansn |-> m.ansn, sel |-> m.sel, left |-> m.left - 1] \in net'
      BY <1>5
    <3>5. \E k \in net' : k.left <= topo'[d].time
      <4>1. m.left - 1 <= topo[d].time - 1
        BY <1>2, <2>1, <3>1, <3>2
      <4> QED  BY <3>3, <3>4, <4>1
    <3> QED  BY <1>1, <2>1, <3>5 DEF Fresh
  <2> QED  BY <2>1, <2>2, <2>3 DEF Fresh
<1> QED  BY <1>6, <1>7

\* The TC timer sends another TC of the same set before a tuple needs it.
LEMMA SteadyTimer ==
  ASSUME IInv, Steady, Undisturbed, NEW lost \in BOOLEAN, TcTimer(lost)
  PROVE  Steady' /\ (Agreed => Agreed')
<1>1. tc = 0 /\ UNCHANGED <<sel, ghost, ansn, up, listens, topo, named, since>>
  BY DEF TcTimer
<1>2. Selectors(sel)' = Selectors(sel) /\ Ghosts' = Ghosts /\ View(topo)' = View(topo)
  BY <1>1 DEF Selectors, Ghosts, View
<1>3. CASE Selectors(sel) = {}
  <2>1. net' = net
    BY <1>3 DEF TcTimer
  <2> QED  BY <1>1, <1>2, <1>3, <2>1 DEF Steady, Agreed
<1>4. CASE Selectors(sel) # {}
  <2> DEFINE k == [ansn |-> ansn, sel |-> Selectors(sel), left |-> Flight]
  <2>1. ~lost
    BY <1>4 DEF Undisturbed
  <2>2. net' = net \cup {k}
    BY <1>4, <2>1 DEF TcTimer
  <2>3. Steady'
    BY <1>1, <1>2, <2>2 DEF Steady
  <2>4. ASSUME NEW d \in View(topo), Fresh(d) PROVE Fresh(d)'
    <3>1. CASE tc + Flight <= topo[d].time
      <4>1. k \in net' /\ k.left <= topo'[d].time
        BY <1>1, <2>2, <3>1, TopologyAssumption
      <4> QED  BY <4>1 DEF Fresh
    <3>2. CASE \E m \in net : m.left <= topo[d].time
      BY <1>1, <2>2, <3>2 DEF Fresh
    <3> QED  BY <2>4, <3>1, <3>2 DEF Fresh
  <2> QED  BY <1>1, <1>2, <2>3, <2>4 DEF Agreed
<1> QED  BY <1>3, <1>4

\* No other step of an undisturbed originator and receiver changes the selector
\* set, its ANSN or what is under way, and no tuple of an agreed view runs out.
LEMMA SteadyOther ==
  ASSUME IInv, Steady, Undisturbed,
         \/ \E a \in Sel : SelectorExpire(a) \/ TopologyExpire(a) \/ HeardSelector(a)
         \/ \E g \in Slot : GhostExpire(g)
         \/ \E a \in Sel, g \in Slot : NbLoss(a, g)
         \/ NodeDown \/ NodeStart \/ ReceiverDown \/ ReceiverStart
         \/ UNCHANGED vars
  PROVE  Steady' /\ (Agreed => Agreed')
<1>0. /\ sel \in [Sel -> -2..SelHold] /\ ghost \in [Slot -> -2..SelHold]
      /\ \A a \in Sel : topo[a].time \in -2..TopHold
      /\ DOMAIN topo = Sel
      /\ tc \in 0..TcMax /\ \A m \in net : m.left \in 0..Flight
      /\ Flight \in Nat /\ TcMax \in Nat /\ TopHold \in Nat
  BY TopologyAssumption DEF IInv, TypeOK, TC
<1>1. Selectors(sel)' = Selectors(sel)
  BY DEF Undisturbed, Selectors
<1>2. ASSUME UNCHANGED <<ghost, ansn, tc, net, topo>> PROVE Steady' /\ (Agreed => Agreed')
  <2>1. Ghosts' = Ghosts /\ View(topo)' = View(topo)
    BY <1>2 DEF Ghosts, View
  <2>2. \A d : Fresh(d)' <=> Fresh(d)
    BY <1>2 DEF Fresh
  <2> QED  BY <1>1, <1>2, <2>1, <2>2 DEF Steady, Agreed
<1>3. ASSUME NEW a \in Sel, HeardSelector(a) PROVE UNCHANGED <<ghost, ansn, tc, net, topo>>
  <2>1. sel[a] # Absent
    <3>1. sel'[a] = SelHold /\ SelHold # Absent
      BY <1>0, <1>3, TopologyAssumption DEF HeardSelector, Absent
    <3> QED  BY <1>1, <3>1 DEF Selectors
  <2> QED  BY <1>3, <2>1 DEF HeardSelector
<1>4. ASSUME NEW a \in Sel, SelectorExpire(a) \/ \E g \in Slot : NbLoss(a, g) PROVE FALSE
  <2>1. sel[a] # Absent /\ sel'[a] = Absent
    BY <1>0, <1>4 DEF SelectorExpire, NbLoss, Expired, Absent
  <2> QED  BY <1>1, <2>1 DEF Selectors
<1>5. ASSUME NEW g \in Slot, GhostExpire(g) PROVE FALSE
  BY <1>5 DEF GhostExpire, Steady, Ghosts, Expired, Absent
<1>6. ~NodeDown /\ ~NodeStart /\ ~ReceiverDown /\ ~ReceiverStart
  BY DEF Undisturbed, NodeDown, NodeStart, ReceiverDown, ReceiverStart
<1>7. ASSUME NEW d \in Sel, TopologyExpire(d) PROVE Steady' /\ ~Agreed
  <2>1. /\ topo[d].time = -1 /\ topo' = [topo EXCEPT ![d] = NoTuple]
        /\ UNCHANGED <<sel, ghost, ansn, net, tc>>
    BY <1>7 DEF TopologyExpire, Expired
  <2>2. topo'[d] = NoTuple /\ \A e \in Sel : e # d => topo'[e] = topo[e]
    BY <1>0, <2>1
  <2>3. View(topo)' \subseteq View(topo) \ {d}
    BY <2>2 DEF View, NoTuple
  <2>4. \A e \in View(topo)' : topo'[e] = topo[e] /\ e \in View(topo)
    BY <2>2, <2>3 DEF View
  <2>5. Steady'
    BY <1>1, <2>1, <2>4 DEF Steady, Ghosts
  <2>6. ~Agreed
    <3>1. d \in View(topo)
      BY <2>1 DEF View, Absent
    <3>2. ~Fresh(d)
      BY <1>0, <2>1 DEF Fresh
    <3> QED  BY <3>1, <3>2 DEF Agreed
  <2> QED  BY <2>5, <2>6
<1>8. CASE UNCHANGED vars
  BY <1>2, <1>8 DEF vars
<1> QED  BY <1>2, <1>3, <1>4, <1>5, <1>6, <1>7, <1>8

\* send_tc and process_tc while the selector set stays as it is: the safety part
\* of Converges.  Once the erased selector tuples and the older TCs are gone,
\* they do not come back; the first TC that arrives then makes the view the
\* selector set; and the view stays so, because the next TC arrives before a
\* tuple runs out.
StayInStep ==
  /\ Steady /\ Undisturbed => Steady'
  /\ Steady /\ Undisturbed /\ Agreed => Agreed'
  /\ \A m \in net : Steady /\ listens /\ Receive(m) => Agreed'

\* send_tc, process_tc and OLSR_TopologyTupleTimer keep two nodes in step, for a
\* validity time of a TC that spans the longest time to the next one's arrival
\* (OLSR_TOP_HOLD_TIME is three intervals).
THEOREM TopologyStaysInStep ==
  ASSUME TcMax + Flight <= TopHold
  PROVE  Spec => [][StayInStep]_vars
<1>1. IInv /\ [Next]_vars => [StayInStep]_vars
  <2> SUFFICES ASSUME IInv, [Next]_vars PROVE StayInStep
    OBVIOUS
  <2>1. \A m \in net : Steady /\ listens /\ Receive(m) => Agreed'
    BY SteadyReceive
  <2>2. ASSUME Steady, Undisturbed PROVE Steady' /\ (Agreed => Agreed')
    <3>1. listens /\ up
      BY <2>2 DEF Undisturbed
    <3>2. CASE \E m \in net : Receive(m)
      BY <2>2, <3>1, <3>2, SteadyReceive
    <3>3. CASE Tick
      BY <2>2, <3>1, <3>3, SteadyTick
    <3>4. CASE \E lost \in BOOLEAN : TcTimer(lost)
      BY <2>2, <3>4, SteadyTimer
    <3>5. CASE \/ \E a \in Sel : SelectorExpire(a) \/ TopologyExpire(a) \/ HeardSelector(a)
               \/ \E g \in Slot : GhostExpire(g)
               \/ \E a \in Sel, g \in Slot : NbLoss(a, g)
               \/ NodeDown \/ NodeStart \/ ReceiverDown \/ ReceiverStart
               \/ UNCHANGED vars
      BY <2>2, <3>5, SteadyOther
    <3> QED  BY <3>2, <3>3, <3>4, <3>5 DEF Next, TimerNext
  <2> QED  BY <2>1, <2>2 DEF StayInStep
<1> QED  BY <1>1, TopologyInvariant, PTL DEF Spec

=============================================================================
