------------------------- MODULE OLSRNeighborProofs -------------------------
(***************************************************************************)
(* Type correctness and the safety invariants of the neighbourhood state,  *)
(* for any set of neighbours, HELLO messages and holding times; and what   *)
(* ties it to the route computation and to the MPR selection.              *)
(***************************************************************************)
EXTENDS OLSRNeighbor, TLAPS, FiniteSetTheorems

LinkType == [up : BOOLEAN, sym : -1..VTime, asym : -1..VTime,
             time : -1..(VTime + HoldTime), lost : -1..HoldTime,
             timer : -1..(VTime + HoldTime), first : BOOLEAN]
NbType   == [status : {"NONE", "NOT_SYM", "SYM"}, will : Nat]

\* Recomputed sets are subsets of the symmetric neighbours and of Nbr.
LEMMA RecomputeType ==
  ASSUME Recompute
  PROVE  mprset' \subseteq SymNeighbors(nb') /\ rtnbr' \subseteq Nbr
BY DEF Recompute, MprSelections, OneHopRoutes

\* The timer's next expiry stays within the range of a link tuple's time.
LEMMA LeastType ==
  ASSUME NEW l \in LinkType
  PROVE  Least(l.time, l.sym) \in -1..(VTime + HoldTime)
<1>1. l.time \in -1..(VTime + HoldTime) /\ l.sym \in -1..VTime
  BY DEF LinkType
<1> QED  BY <1>1, NeighborAssumption DEF Least

\* link_sensing yields a well-formed link tuple.
LEMMA SensedLinkType ==
  ASSUME NEW old \in LinkType, NEW c
  PROVE  SensedLink(old, c) \in LinkType
<1> USE NeighborAssumption DEF LinkType, Expired
<1> DEFINE told == c.lt \in {"SYM", "ASYM"} /\ ~(c.lt = "SYM" /\ c.nt = "NOT")
           sym  == IF told THEN VTime ELSE IF c.lt = "LOST" THEN Expired ELSE old.sym
           time == Greatest(VTime, IF told THEN VTime + HoldTime ELSE old.time)
<1>1. sym \in -1..VTime /\ time \in -1..(VTime + HoldTime)
  BY DEF Greatest
<1>2. (IF old.up THEN old.timer ELSE Least(time, sym)) \in -1..(VTime + HoldTime)
  <2> HIDE DEF sym, time
  <2> QED  BY <1>1 DEF Least
<1>3. (IF told THEN Expired ELSE old.lost) \in -1..HoldTime
  OBVIOUS
<1>4. SensedLink(old, c) =
        [up |-> TRUE, sym |-> sym, asym |-> VTime, time |-> time,
         lost |-> IF told THEN Expired ELSE old.lost,
         timer |-> IF old.up THEN old.timer ELSE Least(time, sym),
         first |-> old.first \/ ~old.up]
  BY DEF SensedLink
<1> HIDE DEF told, sym, time
<1> QED  BY <1>1, <1>2, <1>3, <1>4

\* mac_failed changes the lost time and the time of the tuple only.
LEMMA FailedLink ==
  ASSUME NEW l \in LinkType
  PROVE  LET k == [l EXCEPT !.lost = HoldTime, !.time = HoldTime]
         IN  /\ k \in LinkType
             /\ k.lost = HoldTime /\ k.time = HoldTime
             /\ k.up = l.up /\ k.sym = l.sym /\ k.timer = l.timer
<1>1. HoldTime \in -1..HoldTime /\ HoldTime \in -1..(VTime + HoldTime)
  BY NeighborAssumption
<1>2. [l EXCEPT !.lost = HoldTime] \in LinkType
  BY <1>1 DEF LinkType
<1>3. ASSUME NEW k \in LinkType PROVE [k EXCEPT !.time = HoldTime] \in LinkType
  BY <1>1 DEF LinkType
<1>4. [l EXCEPT !.lost = HoldTime, !.time = HoldTime] \in LinkType
  BY <1>2, <1>3
<1> QED  BY <1>4 DEF LinkType

\* A tick leaves a remaining time within its range.
LEMMA DecType ==
  ASSUME NEW n \in Nat, NEW x \in -2..n
  PROVE  /\ Dec(x) \in -2..n
         /\ x \in -1..n => Dec(x) \in -1..n
BY DEF Dec

\* What the HELLO inputs are.
LEMMA HelloType ==
  ASSUME NEW h \in Hellos
  PROVE  h.orig \in Nbr /\ h.will \in Nat
BY NeighborAssumption

\* The initial tables are well-formed.
LEMMA TypeInit == Init => TypeOK
BY NeighborAssumption DEF Init, NoLink, NoNb, TypeOK, Expired, Absent

\* Every handler keeps the types of the tables.
LEMMA TypeStep ==
  ASSUME TypeOK, [Next]_vars
  PROVE  TypeOK'
<1> USE NeighborAssumption DEF TypeOK, Expired, Absent
<1>0. /\ link \in [Nbr -> LinkType] /\ nb \in [Nbr -> NbType]
      /\ (link' \in [Nbr -> LinkType] /\ nb' \in [Nbr -> NbType]
          /\ twohop' \in [Nbr \X Address -> -2..VTime] /\ mprset' \subseteq Nbr
          /\ mprsel' \in [Nbr -> -2..VTime] /\ rtnbr' \subseteq Nbr
          /\ alive' \in BOOLEAN => TypeOK')
  BY DEF LinkType, NbType
<1>n. ASSUME NEW b \in Nbr, NEW l \in LinkType, NbLoss(b, l) PROVE TypeOK'
  <2>1. link' \in [Nbr -> LinkType] /\ nb' \in [Nbr -> NbType]
    BY <1>0, <1>n DEF NbLoss, NbType, Status
  <2>2. /\ twohop' \in [Nbr \X Address -> -2..VTime]
        /\ mprsel' \in [Nbr -> -2..VTime] /\ alive' \in BOOLEAN
    BY <1>n DEF NbLoss
  <2>3. mprset' \subseteq Nbr /\ rtnbr' \subseteq Nbr
    BY <1>n, <2>1, RecomputeType DEF NbLoss, SymNeighbors
  <2> QED  BY <1>0, <2>1, <2>2, <2>3
<1>1. ASSUME NEW h \in Hellos, ProcessHello(h) PROVE TypeOK'
  <2>1. h.orig \in Nbr /\ h.will \in Nat
    BY HelloType
  <2>2. SensedLink(link[h.orig], h.code[Self]) \in LinkType
    BY <1>0, <2>1, SensedLinkType
  <2>3. link' \in [Nbr -> LinkType]
    BY <1>0, <1>1, <2>1, <2>2 DEF ProcessHello
  <2>4. nb' \in [Nbr -> NbType]
    BY <1>0, <1>1, <2>1 DEF ProcessHello, HeardNeighbor, NbType, Status
  <2>5. twohop' \in [Nbr \X Address -> -2..VTime]
    BY <1>1 DEF ProcessHello, HeardTwoHop
  <2>6. mprsel' \in [Nbr -> -2..VTime] /\ alive' \in BOOLEAN
    BY <1>1 DEF ProcessHello, HeardSelector
  <2>7. mprset' \subseteq Nbr /\ rtnbr' \subseteq Nbr
    BY <1>1, <2>4, RecomputeType DEF ProcessHello, SymNeighbors
  <2> QED  BY <1>0, <2>3, <2>4, <2>5, <2>6, <2>7
<1>2. CASE RecvOther
  BY <1>2 DEF RecvOther, OneHopRoutes
<1>3. ASSUME NEW b \in Nbr, LinkTupleExpire(b) PROVE TypeOK'
  BY <1>3 DEF LinkTupleExpire, RemoveLinkTuple, NoLink, NoNb
<1>4. ASSUME NEW b \in Nbr, SymLapseFirst(b) PROVE TypeOK'
  <2> DEFINE l == [link[b] EXCEPT !.first = FALSE]
  <2>1. link[b] \in LinkType
    BY <1>0
  <2>2. l \in LinkType /\ link[b].time \in -1..(VTime + HoldTime)
    BY <2>1 DEF LinkType
  <2>3. [l EXCEPT !.timer = link[b].time] \in LinkType
    BY <2>2 DEF LinkType
  <2>4. link' = [link EXCEPT ![b] = [l EXCEPT !.timer = link[b].time]]
    BY <1>0, <1>4 DEF SymLapseFirst
  <2>5. link' \in [Nbr -> LinkType]
    BY <1>0, <2>3, <2>4
  <2> QED  BY <1>0, <1>4, <2>5 DEF SymLapseFirst
<1>5. ASSUME NEW b \in Nbr, SymLapse(b) PROVE TypeOK'
  <2>1. [link[b] EXCEPT !.timer = link[b].time] \in LinkType
    BY <1>0 DEF LinkType
  <2> QED  BY <1>5, <1>n, <2>1 DEF SymLapse
<1>6. ASSUME NEW b \in Nbr, LinkTimerRearm(b) PROVE TypeOK'
  <2>1. link[b] \in LinkType /\ Least(link[b].time, link[b].sym) \in -1..(VTime + HoldTime)
    BY <1>0, LeastType
  <2>2. link' \in [Nbr -> LinkType]
    BY <1>0, <1>6, <2>1 DEF LinkTimerRearm, LinkType
  <2> QED  BY <1>0, <1>6, <2>2 DEF LinkTimerRearm
<1>7. ASSUME NEW b \in Nbr, MprSelExpire(b) PROVE TypeOK'
  BY <1>7 DEF MprSelExpire
<1>8. ASSUME NEW t \in DOMAIN twohop, Nb2hopExpire(t) PROVE TypeOK'
  BY <1>8 DEF Nb2hopExpire
<1>9. ASSUME NEW b \in Nbr, MacFailed(b) PROVE TypeOK'
  <2> DEFINE k == [link[b] EXCEPT !.lost = HoldTime, !.time = HoldTime]
  <2>1. k \in LinkType
    BY <1>0, FailedLink
  <2>2. NbLoss(b, k)
    BY <1>9 DEF MacFailed
  <2> HIDE DEF k
  <2> QED  BY <1>n, <2>1, <2>2
<1>10. CASE NodeDown
  <2>1. NoLink \in LinkType /\ NoNb \in NbType
    BY DEF NoLink, NoNb, LinkType, NbType
  <2>2. Absent \in -2..VTime
    OBVIOUS
  <2>3. /\ twohop' \in [Nbr \X Address -> -2..VTime]
        /\ mprsel' \in [Nbr -> -2..VTime]
    <3> HIDE DEF Absent
    <3> QED  BY <1>10, <2>2 DEF NodeDown
  <2> QED  BY <1>0, <1>10, <2>1, <2>3 DEF NodeDown
<1>11. CASE NodeStart
  BY <1>11 DEF NodeStart
<1>12. CASE Tick
  <2>1. link' \in [Nbr -> LinkType]
    BY <1>0, <1>12 DEF Tick, Dec, LinkType
  <2>2. /\ twohop' \in [Nbr \X Address -> -2..VTime]
        /\ mprsel' \in [Nbr -> -2..VTime]
    BY <1>12, DecType DEF Tick
  <2> QED  BY <1>0, <1>12, <2>1, <2>2 DEF Tick
<1>13. CASE UNCHANGED vars
  BY <1>13 DEF vars
<1> QED
  BY <1>1, <1>2, <1>3, <1>4, <1>5, <1>6, <1>7, <1>8, <1>9, <1>10,
     <1>11, <1>12, <1>13 DEF Next, TimerNext

\* The tables of the agent keep their types (TypeOK).
THEOREM TypeCorrect == Spec => []TypeOK
BY TypeInit, TypeStep, PTL DEF Spec

-----------------------------------------------------------------------------
\* The strengthening the safety invariants need.  A link that has not lapsed,
\* or whose neighbour still counts as symmetric, runs out at most Lag later; a
\* neighbour that lost its status has a lapsed or a failed link; and a failed
\* link lapses before the failure is forgotten.
RunsOutInLag(b) ==
  ~UseMac /\ (nb[b].status = "SYM" \/ link[b].sym >= 0)
    => link[b].time <= link[b].sym + Lag

FailureOutlastsLink == UseMac => VTime <= HoldTime

NotSymHasReason(b) ==
  nb[b].status = "NOT_SYM" =>
    link[b].sym < 0 \/ (UseMac /\ link[b].lost >= 0)

LapsesWithinFailure(b) ==
  UseMac => (link[b].lost >= 0 => link[b].sym <= link[b].lost)

\* One neighbour's part of the invariant.
NbrInv(b) ==
  /\ link[b].up <=> nb[b].status # "NONE"
  /\ ~UseMac => (link[b].up => link[b].timer <= link[b].time)
  /\ RunsOutInLag(b)
  /\ FailureOutlastsLink => NotSymHasReason(b) /\ LapsesWithinFailure(b)

IInv ==
  /\ TypeOK
  /\ \A b \in Nbr : NbrInv(b)
  /\ DerivedFollowStatus

\* What the invariant says of one neighbour's link tuple l and status s.
LinkInv(l, s) ==
  /\ l.up <=> s # "NONE"
  /\ ~UseMac => (l.up => l.timer <= l.time)
  /\ ~UseMac /\ (s = "SYM" \/ l.sym >= 0) => l.time <= l.sym + Lag
  /\ FailureOutlastsLink =>
       /\ s = "NOT_SYM" => l.sym < 0 \/ (UseMac /\ l.lost >= 0)
       /\ UseMac => (l.lost >= 0 => l.sym <= l.lost)

LEMMA NbrInvLink ==
  ASSUME NEW b \in Nbr
  PROVE  /\ NbrInv(b) <=> LinkInv(link[b], nb[b].status)
         /\ NbrInv(b)' <=> LinkInv(link'[b], nb'[b].status)
BY DEF NbrInv, LinkInv, RunsOutInLag, NotSymHasReason, LapsesWithinFailure

\* link_sensing and updated_link_tuple establish it for a heard neighbour.
LEMMA SensedLinkInv ==
  ASSUME NEW l \in LinkType, NEW s, NEW c, LinkInv(l, s)
  PROVE  LinkInv(SensedLink(l, c), Status(SensedLink(l, c)))
<1> USE NeighborAssumption DEF LinkType, Expired
<1> DEFINE told == c.lt \in {"SYM", "ASYM"} /\ ~(c.lt = "SYM" /\ c.nt = "NOT")
           k == SensedLink(l, c)
<1>1. /\ k.up = TRUE
      /\ k.sym = (IF told THEN VTime ELSE IF c.lt = "LOST" THEN -1 ELSE l.sym)
      /\ k.lost = (IF told THEN -1 ELSE l.lost)
      /\ k.time = Greatest(VTime, IF told THEN VTime + HoldTime ELSE l.time)
      /\ k.timer = (IF l.up THEN l.timer ELSE Least(k.time, k.sym))
  BY DEF SensedLink
<1>2. SensedLink(l, c) \in LinkType
  BY SensedLinkType
<1>3. Status(k) = (IF (UseMac /\ k.lost >= 0) \/ k.sym < 0 THEN "NOT_SYM" ELSE "SYM")
  BY DEF Status
<1> HIDE DEF k
<1>4. ~UseMac => k.timer <= k.time
  <2>1. l.up => l.timer <= VTime + HoldTime
    OBVIOUS
  <2>2. ~UseMac /\ l.up => l.timer <= l.time
    BY DEF LinkInv
  <2> QED  BY <1>1, <2>1, <2>2 DEF Greatest, Least
<1>5. ~UseMac /\ k.sym >= 0 => k.time <= k.sym + Lag
  <2>1. l.sym >= 0 /\ ~UseMac => l.time <= l.sym + Lag
    BY DEF LinkInv
  <2> QED  BY <1>1, <2>1 DEF Greatest, Lag
<1>6. FailureOutlastsLink => (UseMac => (k.lost >= 0 => k.sym <= k.lost))
  <2>1. FailureOutlastsLink => (UseMac => (l.lost >= 0 => l.sym <= l.lost))
    BY DEF LinkInv
  <2> QED  BY <1>1, <2>1
<1>7. LinkInv(k, Status(k))
  BY <1>1, <1>3, <1>4, <1>5, <1>6 DEF LinkInv
<1> QED  BY <1>7 DEF k

\* nb_loss after a lapse of the symmetric time.
LEMMA LapsedLinkInv ==
  ASSUME NEW l \in LinkType, NEW s, LinkInv(l, s), l.up, l.sym < 0,
         NEW k \in LinkType, k = [l EXCEPT !.timer = l.time]
  PROVE  LinkInv(k, Status(k))
<1>1. k.up = l.up /\ k.sym = l.sym /\ k.time = l.time /\ k.timer = l.time /\ k.lost = l.lost
  BY DEF LinkType
<1> QED  BY <1>1, NeighborAssumption DEF LinkInv, Status, LinkType

\* nb_loss after the link layer reported a failure.
LEMMA FailedLinkInv ==
  ASSUME NEW l \in LinkType, NEW s, LinkInv(l, s), l.up, UseMac,
         NEW k \in LinkType, k.up = l.up, k.sym = l.sym, k.lost = HoldTime
  PROVE  LinkInv(k, Status(k))
BY NeighborAssumption DEF LinkInv, Status, LinkType, FailureOutlastsLink

\* The passage of a tick.
LEMMA TickLinkInv ==
  ASSUME NEW l \in LinkType, NEW k \in LinkType, NEW s, LinkInv(l, s),
         k.up = l.up, k.sym = Dec(l.sym), k.time = Dec(l.time),
         k.lost = Dec(l.lost), k.timer = Dec(l.timer)
  PROVE  LinkInv(k, s)
<1>1. /\ l.sym \in -1..VTime /\ l.time \in Int /\ l.lost \in Int /\ l.timer \in Int
      /\ l.time >= -1 /\ l.timer >= -1
  BY NeighborAssumption DEF LinkType
<1>2. Lag \in Nat \ {0}
  BY NeighborAssumption DEF Lag, Greatest
<1>3. ~UseMac => (k.up => k.timer <= k.time)
  BY <1>1 DEF LinkInv, Dec
<1>4. ~UseMac /\ (s = "SYM" \/ k.sym >= 0) => k.time <= k.sym + Lag
  BY <1>1, <1>2 DEF LinkInv, Dec
<1>5. FailureOutlastsLink =>
        /\ s = "NOT_SYM" => k.sym < 0 \/ (UseMac /\ k.lost >= 0)
        /\ UseMac => (k.lost >= 0 => k.sym <= k.lost)
  BY <1>1 DEF LinkInv, Dec
<1> QED  BY <1>3, <1>4, <1>5 DEF LinkInv

-----------------------------------------------------------------------------
\* After a recomputation no neighbour without the status is an MPR or a route.
LEMMA RecomputeDerived ==
  ASSUME nb' \in [Nbr -> NbType], Recompute
  PROVE  DerivedFollowStatus'
BY RecomputeType DEF Recompute, OneHopRoutes, DerivedFollowStatus, SymNeighbors

\* A handler that gives neighbour b the link tuple l and the status s, and
\* recomputes the derived sets, keeps the invariant.
LEMMA OneNeighborStep ==
  ASSUME IInv, TypeOK', NEW b \in Nbr, NEW l, LinkInv(l, nb'[b].status),
         link' = [link EXCEPT ![b] = l],
         \A c \in Nbr \ {b} : nb'[c] = nb[c],
         DerivedFollowStatus'
  PROVE  IInv'
<1>1. ASSUME NEW c \in Nbr PROVE NbrInv(c)'
  <2>1. link'[c] = IF c = b THEN l ELSE link[c]
    BY DEF IInv, TypeOK
  <2>2. CASE c = b
    BY <2>1, <2>2, NbrInvLink
  <2>3. CASE c # b
    BY <2>1, <2>3, NbrInvLink DEF IInv
  <2> QED  BY <2>2, <2>3
<1> QED  BY <1>1 DEF IInv

LEMMA NbLossStep ==
  ASSUME IInv, TypeOK', NEW b \in Nbr, NEW l, LinkInv(l, Status(l)), NbLoss(b, l)
  PROVE  IInv'
<1>1. nb \in [Nbr -> NbType] /\ nb' \in [Nbr -> NbType]
  BY DEF IInv, TypeOK, NbType
<1>2. nb'[b].status = Status(l) /\ \A c \in Nbr \ {b} : nb'[c] = nb[c]
  BY <1>1 DEF NbLoss, NbType
<1>3. DerivedFollowStatus'
  BY <1>1, RecomputeDerived DEF NbLoss
<1> QED  BY <1>2, <1>3, OneNeighborStep DEF NbLoss

\* The inductive step.
LEMMA StepInv ==
  ASSUME IInv, TypeOK', [Next]_vars
  PROVE  IInv'
<1> USE NeighborAssumption
<1>0. /\ link \in [Nbr -> LinkType] /\ nb \in [Nbr -> NbType]
      /\ link' \in [Nbr -> LinkType] /\ nb' \in [Nbr -> NbType]
      /\ TypeOK /\ DerivedFollowStatus
      /\ \A b \in Nbr : LinkInv(link[b], nb[b].status)
  BY NbrInvLink DEF IInv, TypeOK, LinkType, NbType
<1>1. ASSUME NEW h \in Hellos, ProcessHello(h) PROVE IInv'
  <2> DEFINE b == h.orig
             l == SensedLink(link[b], h.code[Self])
  <2>1. b \in Nbr
    BY HelloType
  <2>2. LinkInv(l, Status(l))
    BY <1>0, <2>1, SensedLinkInv
  <2>3. nb' = [nb EXCEPT ![b] = [status |-> Status(l), will |-> h.will]] /\ Recompute
        /\ link' = [link EXCEPT ![b] = l]
    BY <1>1 DEF ProcessHello, HeardNeighbor
  <2>4. nb'[b].status = Status(l) /\ \A c \in Nbr \ {b} : nb'[c] = nb[c]
    <3> HIDE DEF l
    <3> QED  BY <1>0, <2>1, <2>3
  <2>5. DerivedFollowStatus'
    BY <1>0, <2>3, RecomputeDerived
  <2> HIDE DEF b, l
  <2> QED  BY <2>1, <2>2, <2>3, <2>4, <2>5, OneNeighborStep
<1>2. ASSUME RecvOther PROVE IInv'
  <2>1. DerivedFollowStatus'
    BY <1>0, <1>2 DEF RecvOther, OneHopRoutes, DerivedFollowStatus
  <2>2. ASSUME NEW b \in Nbr PROVE NbrInv(b)'
    BY <1>0, <1>2, NbrInvLink DEF RecvOther
  <2> QED  BY <2>1, <2>2 DEF IInv
<1>3. ASSUME NEW b \in Nbr, LinkTupleExpire(b) PROVE IInv'
  <2>1. nb'[b].status = "NONE" /\ \A c \in Nbr \ {b} : nb'[c] = nb[c]
    BY <1>0, <1>3 DEF LinkTupleExpire, RemoveLinkTuple, NoNb
  <2>2. LinkInv(NoLink, "NONE")
    BY DEF LinkInv, NoLink, Expired, FailureOutlastsLink
  <2>3. DerivedFollowStatus'
    BY <1>0, <1>3, <2>1 DEF LinkTupleExpire, DerivedFollowStatus
  <2> QED  BY <1>3, <2>1, <2>2, <2>3, OneNeighborStep DEF LinkTupleExpire, RemoveLinkTuple
<1>4. ASSUME NEW b \in Nbr, NEW k, LinkInv(k, nb[b].status),
             link' = [link EXCEPT ![b] = k],
             UNCHANGED <<nb, mprset, rtnbr>>
      PROVE  IInv'
  <2>1. DerivedFollowStatus'
    BY <1>0, <1>4 DEF DerivedFollowStatus
  <2> QED  BY <1>4, <2>1, OneNeighborStep
<1>5. ASSUME NEW b \in Nbr, SymLapseFirst(b) PROVE IInv'
  <2> DEFINE k == [link[b] EXCEPT !.first = FALSE, !.timer = link[b].time]
  <2>1. k.up = link[b].up /\ k.sym = link[b].sym /\ k.time = link[b].time
        /\ k.timer = link[b].time /\ k.lost = link[b].lost
    BY <1>0 DEF LinkType
  <2>2. link' = [link EXCEPT ![b] = k] /\ UNCHANGED <<nb, mprset, rtnbr>>
    BY <1>0, <1>5 DEF SymLapseFirst
  <2>3. LinkInv(k, nb[b].status)
    <3> HIDE DEF k
    <3> QED  BY <1>0, <2>1 DEF LinkInv, LinkType
  <2> HIDE DEF k
  <2> QED  BY <1>4, <2>2, <2>3
<1>6. ASSUME NEW b \in Nbr, SymLapse(b) PROVE IInv'
  <2> DEFINE k == [link[b] EXCEPT !.timer = link[b].time]
  <2>1. k \in LinkType
    BY <1>0 DEF LinkType
  <2>2. NbLoss(b, k) /\ link[b].up /\ link[b].sym < 0
    BY <1>6 DEF SymLapse, LinkTimerDue
  <2>3. LinkInv(k, Status(k))
    BY <1>0, <2>1, <2>2, LapsedLinkInv
  <2> HIDE DEF k
  <2> QED  BY <2>2, <2>3, NbLossStep
<1>7. ASSUME NEW b \in Nbr, LinkTimerRearm(b) PROVE IInv'
  <2> DEFINE k == [link[b] EXCEPT !.timer = Least(link[b].time, link[b].sym)]
  <2>1. k.up = link[b].up /\ k.sym = link[b].sym /\ k.time = link[b].time
        /\ k.timer = Least(link[b].time, link[b].sym) /\ k.lost = link[b].lost
    BY <1>0 DEF LinkType
  <2>2. link' = [link EXCEPT ![b] = k] /\ UNCHANGED <<nb, mprset, rtnbr>>
    BY <1>0, <1>7 DEF LinkTimerRearm
  <2>3. LinkInv(k, nb[b].status)
    <3> HIDE DEF k
    <3> QED  BY <1>0, <2>1 DEF LinkInv, LinkType, Least
  <2> HIDE DEF k
  <2> QED  BY <1>4, <2>2, <2>3
<1>8. ASSUME UNCHANGED <<link, nb, mprset, rtnbr>> PROVE IInv'
  <2>1. DerivedFollowStatus'
    BY <1>0, <1>8 DEF DerivedFollowStatus
  <2>2. ASSUME NEW b \in Nbr PROVE NbrInv(b)'
    BY <1>0, <1>8, NbrInvLink
  <2> QED  BY <2>1, <2>2 DEF IInv
<1>9. ASSUME NEW b \in Nbr, MacFailed(b) PROVE IInv'
  <2> DEFINE k == [link[b] EXCEPT !.lost = HoldTime, !.time = HoldTime]
  <2>1. k \in LinkType /\ k.lost = HoldTime /\ k.up = link[b].up /\ k.sym = link[b].sym
    BY <1>0, FailedLink
  <2>2. NbLoss(b, k) /\ link[b].up /\ UseMac
    BY <1>9 DEF MacFailed
  <2> HIDE DEF k
  <2>3. LinkInv(k, Status(k))
    BY <1>0, <2>1, <2>2, FailedLinkInv
  <2> QED  BY <2>2, <2>3, NbLossStep
<1>10. ASSUME NodeDown PROVE IInv'
  <2>1. LinkInv(NoLink, "NONE")
    BY DEF LinkInv, NoLink, Expired, FailureOutlastsLink
  <2>2. ASSUME NEW b \in Nbr PROVE NbrInv(b)'
    BY <1>10, <2>1, NbrInvLink DEF NodeDown, NoNb
  <2>3. DerivedFollowStatus'
    BY <1>10 DEF NodeDown, DerivedFollowStatus, NoNb
  <2> QED  BY <2>2, <2>3 DEF IInv
<1>11. ASSUME Tick PROVE IInv'
  <2>1. ASSUME NEW b \in Nbr PROVE NbrInv(b)'
    <3>1. /\ link'[b].up = link[b].up /\ link'[b].sym = Dec(link[b].sym)
          /\ link'[b].time = Dec(link[b].time) /\ link'[b].lost = Dec(link[b].lost)
          /\ link'[b].timer = Dec(link[b].timer) /\ nb' = nb
      BY <1>11 DEF Tick
    <3>2. link[b] \in LinkType /\ link'[b] \in LinkType
      BY <1>0
    <3>3. LinkInv(link'[b], nb[b].status)
      BY <1>0, <3>1, <3>2, TickLinkInv
    <3> QED  BY <3>1, <3>3, NbrInvLink
  <2>2. DerivedFollowStatus'
    BY <1>0, <1>11 DEF Tick, DerivedFollowStatus
  <2> QED  BY <2>1, <2>2 DEF IInv
<1> QED
  BY <1>1, <1>2, <1>3, <1>5, <1>6, <1>7, <1>8, <1>9, <1>10, <1>11
  DEF Next, TimerNext, Nb2hopExpire, MprSelExpire, NodeStart, vars

\* It holds of the initial tables.
LEMMA InitInv == Init => IInv
<1> SUFFICES ASSUME Init PROVE IInv
  OBVIOUS
<1>1. TypeOK
  BY TypeInit
<1>2. ASSUME NEW b \in Nbr PROVE NbrInv(b)
  BY NbrInvLink DEF Init, NoLink, NoNb, LinkInv, Expired, FailureOutlastsLink
<1>3. DerivedFollowStatus
  BY DEF Init, DerivedFollowStatus
<1> QED  BY <1>1, <1>2, <1>3 DEF IInv

\* The invariant holds in every state.
THEOREM NeighborInvariant == Spec => []IInv
<1>1. IInv /\ TypeOK' /\ [Next]_vars => IInv'
  BY StepInv
<1> QED  BY <1>1, InitInv, TypeCorrect, PTL DEF Spec

\* Link and neighbour tuples come and go together.
THEOREM NeighborLinkHasNeighbor == Spec => []LinkHasNeighbor
<1>1. IInv => LinkHasNeighbor
  BY DEF IInv, NbrInv, LinkHasNeighbor
<1> QED  BY <1>1, NeighborInvariant, PTL

\* MPRs and next hops are never neighbours that lost their symmetric status.
THEOREM NeighborDerivedFollowStatus == Spec => []DerivedFollowStatus
<1>1. IInv => DerivedFollowStatus
  BY DEF IInv
<1> QED  BY <1>1, NeighborInvariant, PTL

\* Without link-layer feedback a lapsed neighbour that keeps its symmetric
\* status is looked at again within the longer of the two holding times.
THEOREM NeighborLapseBounded == Spec => []LapseBounded
<1>1. IInv => LapseBounded
  <2> SUFFICES ASSUME IInv, ~UseMac, NEW b \in Nbr, nb[b].status = "SYM", link[b].sym < 0
               PROVE  link[b].timer < Lag
    BY DEF LapseBounded
  <2>1. link[b].sym = -1 /\ link[b].time \in Int /\ link[b].timer \in Int /\ Lag \in Int
    BY NeighborAssumption DEF IInv, TypeOK, Lag, Greatest
  <2>2. link[b].up /\ link[b].timer <= link[b].time /\ link[b].time <= link[b].sym + Lag
    BY DEF IInv, NbrInv, RunsOutInLag
  <2> QED  BY <2>1, <2>2
<1> QED  BY <1>1, NeighborInvariant, PTL

\* A link timer never comes later than the time of its tuple.
THEOREM NeighborLinkTimerInTime == Spec => []LinkTimerInTime
<1>1. IInv => LinkTimerInTime
  BY DEF IInv, NbrInv, LinkTimerInTime
<1> QED  BY <1>1, NeighborInvariant, PTL

\* The invariant admits no invalid advertised link.
LEMMA InvAdvertised ==
  ASSUME IInv, FailureOutlastsLink
  PROVE  AdvertisedLinksValid
<1> SUFFICES ASSUME NEW b \in Nbr, AdvertisedCode(b) = [lt |-> "SYM", nt |-> "NOT"]
             PROVE  FALSE
  BY DEF AdvertisedLinksValid
<1>1. link[b].up /\ ~(UseMac /\ link[b].lost >= 0) /\ link[b].sym >= 0
      /\ nb[b].status # "SYM"
  BY DEF AdvertisedCode, NotListed
<1>2. nb[b].status = "NOT_SYM"
  BY <1>1 DEF IInv, TypeOK, NbrInv
<1>3. link[b].sym \in Int
  BY DEF IInv, TypeOK
<1> QED
  BY <1>1, <1>2, <1>3 DEF IInv, NbrInv, NotSymHasReason

\* send_hello advertises no invalid link, provided that, when failures of the
\* link layer are taken into account, they are remembered at least as long as
\* a HELLO keeps a link symmetric.
THEOREM NeighborAdvertisedLinksValid ==
  ASSUME UseMac => VTime <= HoldTime
  PROVE  Spec => []AdvertisedLinksValid
<1>1. IInv => AdvertisedLinksValid
  BY InvAdvertised DEF FailureOutlastsLink
<1> QED  BY <1>1, NeighborInvariant, PTL

-----------------------------------------------------------------------------
\* By how much a link tuple outlives the 2-hop tuples of its neighbour.
Margin == HoldTime - VTime

\* Why every 2-hop tuple of a symmetric neighbour has a route to lean on: the
\* link's time exceeds its symmetric time by HoldTime and the times of the
\* neighbour's 2-hop tuples by the margin.
OutlivesTwoHop(b) ==
  /\ ~link[b].up => link[b].sym < 0
  /\ nb[b].status = "SYM" =>
       /\ link[b].sym >= 0 => link[b].time >= link[b].sym + HoldTime
       /\ \A x \in Address : twohop[<<b, x>>] # Absent
                               => link[b].time >= twohop[<<b, x>>] + Margin

\* A HELLO keeps it.
LEMMA HelloOutlives ==
  ASSUME IInv, \A b \in Nbr : OutlivesTwoHop(b), VTime <= HoldTime,
         NEW h \in Hellos, ProcessHello(h), TypeOK'
  PROVE  \A b \in Nbr : OutlivesTwoHop(b)'
<1> USE NeighborAssumption
<1> DEFINE b == h.orig
           old == link[b]
           told == h.code[Self].lt \in {"SYM", "ASYM"}
                     /\ ~(h.code[Self].lt = "SYM" /\ h.code[Self].nt = "NOT")
           l == SensedLink(old, h.code[Self])
<1>1. b \in Nbr /\ old \in LinkType /\ l \in LinkType
  BY HelloType, SensedLinkType DEF IInv, TypeOK, LinkType
<1>2. /\ nb' = [nb EXCEPT ![b] = [status |-> Status(l), will |-> h.will]]
      /\ link' = [link EXCEPT ![b] = l]
      /\ twohop' = HeardTwoHop(h, l)
  BY DEF ProcessHello, HeardNeighbor
<1>3. /\ l.up = TRUE
      /\ l.sym = (IF told THEN VTime ELSE IF h.code[Self].lt = "LOST" THEN -1 ELSE old.sym)
      /\ l.lost = (IF told THEN -1 ELSE old.lost)
      /\ l.time = Greatest(VTime, IF told THEN VTime + HoldTime ELSE old.time)
  BY DEF SensedLink, Expired
<1>4. Status(l) = "SYM" <=> ~(UseMac /\ l.lost >= 0) /\ l.sym >= 0
  BY <1>1 DEF Status, LinkType
<1> HIDE DEF l
<1>5. ASSUME Status(l) = "SYM" PROVE l.time >= l.sym + HoldTime /\ l.time >= HoldTime
  <2>1. CASE told
    BY <1>3, <2>1 DEF Greatest
  <2>2. CASE ~told
    <3>1. l.sym = old.sym /\ l.lost = old.lost /\ old.sym >= 0
      BY <1>3, <1>4, <1>5, <2>2
    <3>2. nb[b].status = "SYM"
      <4>1. old.up
        BY <1>1, <3>1 DEF OutlivesTwoHop, LinkType
      <4>2. nb[b].status # "NOT_SYM"
        BY <1>1, <1>4, <1>5, <3>1 DEF IInv, NbrInv, NotSymHasReason, FailureOutlastsLink, LinkType
      <4> QED  BY <1>1, <4>1, <4>2 DEF IInv, TypeOK, NbrInv
    <3>3. old.time >= old.sym + HoldTime
      BY <1>1, <3>1, <3>2 DEF OutlivesTwoHop
    <3>4. old.time \in Int /\ l.time \in Int /\ l.time >= old.time
      BY <1>1, <1>3, <2>2 DEF Greatest, LinkType
    <3> QED  BY <1>1, <3>1, <3>3, <3>4 DEF LinkType
  <2> QED  BY <2>1, <2>2
<1>6. ASSUME NEW c \in Nbr PROVE OutlivesTwoHop(c)'
  <2>1. CASE c = b
    <3>1. nb'[c].status = Status(l) /\ link'[c] = l
      BY <1>1, <1>2, <2>1 DEF IInv, TypeOK
    <3>2. ASSUME NEW x \in Address PROVE twohop'[<<c, x>>] <= VTime /\ twohop'[<<c, x>>] \in Int
      BY DEF TypeOK
    <3>3. l.up = TRUE /\ l.time \in Int
      BY <1>1, <1>3 DEF LinkType
    <3> QED  BY <1>5, <3>1, <3>2, <3>3 DEF OutlivesTwoHop, Margin
  <2>2. CASE c # b
    <3>1. nb'[c] = nb[c] /\ link'[c] = link[c]
      BY <1>1, <1>2, <2>2 DEF IInv, TypeOK
    <3>2. \A x \in Address : twohop'[<<c, x>>] = twohop[<<c, x>>]
      BY <1>2, <2>2 DEF HeardTwoHop, IInv, TypeOK
    <3> QED  BY <3>1, <3>2 DEF OutlivesTwoHop
  <2> QED  BY <2>1, <2>2
<1> QED  BY <1>6

\* The inductive step for the other handlers.
LEMMA OutlivesStep ==
  ASSUME IInv, \A b \in Nbr : OutlivesTwoHop(b), VTime <= HoldTime,
         TypeOK', [Next]_vars
  PROVE  \A b \in Nbr : OutlivesTwoHop(b)'
<1> USE NeighborAssumption
<1>0. /\ link \in [Nbr -> LinkType] /\ nb \in [Nbr -> NbType]
      /\ twohop \in [Nbr \X Address -> -2..VTime]
      /\ link' \in [Nbr -> LinkType]
  BY DEF IInv, TypeOK, LinkType, NbType
<1>1. ASSUME NEW h \in Hellos, ProcessHello(h) PROVE \A b \in Nbr : OutlivesTwoHop(b)'
  BY <1>1, HelloOutlives
<1>2. ASSUME NEW c \in Nbr, NEW b \in Nbr,
             c # b => nb'[c] = nb[c] /\ link'[c] = link[c]
                       /\ \A x \in Address : twohop'[<<c, x>>] = twohop[<<c, x>>],
             c = b => link'[c] = NoLink \/
                       (link'[c].up = link[c].up /\ link'[c].sym = link[c].sym),
             c = b => nb'[c].status # "SYM" \/
                       (nb'[c] = nb[c] /\ link'[c].sym = link[c].sym
                        /\ link'[c].time = link[c].time
                        /\ \A x \in Address : twohop'[<<c, x>>] = twohop[<<c, x>>])
      PROVE  OutlivesTwoHop(c)'
  BY <1>2 DEF OutlivesTwoHop, NoLink, Expired
<1>3. ASSUME NEW b \in Nbr, LinkTupleExpire(b) PROVE \A c \in Nbr : OutlivesTwoHop(c)'
  BY <1>0, <1>2, <1>3 DEF LinkTupleExpire, RemoveLinkTuple, NoNb
<1>4. ASSUME NEW b \in Nbr, SymLapseFirst(b) PROVE \A c \in Nbr : OutlivesTwoHop(c)'
  BY <1>0, <1>2, <1>4 DEF SymLapseFirst, LinkType
<1>5. ASSUME NEW b \in Nbr, LinkTimerRearm(b) PROVE \A c \in Nbr : OutlivesTwoHop(c)'
  <2>1. link'[b].sym = link[b].sym /\ link'[b].time = link[b].time
    BY <1>0, <1>5 DEF LinkTimerRearm, LinkType
  <2> QED  BY <1>0, <1>2, <1>5, <2>1 DEF LinkTimerRearm
<1>6. ASSUME NEW b \in Nbr, NEW l, NbLoss(b, l), Status(l) = "NOT_SYM",
             l.up = link[b].up, l.sym = link[b].sym
      PROVE  \A c \in Nbr : OutlivesTwoHop(c)'
  BY <1>0, <1>2, <1>6 DEF NbLoss, NbType
<1>7. ASSUME NEW b \in Nbr, SymLapse(b) PROVE \A c \in Nbr : OutlivesTwoHop(c)'
  <2> DEFINE k == [link[b] EXCEPT !.timer = link[b].time]
  <2>1. NbLoss(b, k) /\ link[b].sym < 0
    BY <1>7 DEF SymLapse
  <2>2. Status(k) = "NOT_SYM" /\ k.up = link[b].up /\ k.sym = link[b].sym
    BY <1>0, <2>1 DEF Status, LinkType
  <2> HIDE DEF k
  <2> QED  BY <1>6, <2>1, <2>2
<1>8. ASSUME NEW b \in Nbr, MacFailed(b) PROVE \A c \in Nbr : OutlivesTwoHop(c)'
  <2> DEFINE k == [link[b] EXCEPT !.lost = HoldTime, !.time = HoldTime]
  <2>1. NbLoss(b, k) /\ UseMac
    BY <1>8 DEF MacFailed
  <2>2. k.lost = HoldTime /\ k.up = link[b].up /\ k.sym = link[b].sym
    BY <1>0, FailedLink
  <2> HIDE DEF k
  <2>3. Status(k) = "NOT_SYM"
    BY <2>1, <2>2 DEF Status
  <2> QED  BY <1>6, <2>1, <2>2, <2>3
<1>9. ASSUME NEW t \in DOMAIN twohop, Nb2hopExpire(t) PROVE \A c \in Nbr : OutlivesTwoHop(c)'
  BY <1>0, <1>9 DEF Nb2hopExpire, OutlivesTwoHop
<1>10. ASSUME NodeDown PROVE \A c \in Nbr : OutlivesTwoHop(c)'
  BY <1>10 DEF NodeDown, NoLink, NoNb, Expired, OutlivesTwoHop
<1>11. ASSUME Tick PROVE \A c \in Nbr : OutlivesTwoHop(c)'
  <2>0. ASSUME NEW c \in Nbr, ~link'[c].up PROVE link'[c].sym < 0
    BY <1>0, <1>11, <2>0 DEF Tick, Dec, OutlivesTwoHop, LinkType
  <2> SUFFICES ASSUME NEW c \in Nbr, nb'[c].status = "SYM"
               PROVE  /\ link'[c].sym >= 0 => link'[c].time >= link'[c].sym + HoldTime
                      /\ \A x \in Address : twohop'[<<c, x>>] # Absent
                                              => link'[c].time >= twohop'[<<c, x>>] + Margin
    BY <2>0 DEF OutlivesTwoHop
  <2>1. /\ link'[c].sym = Dec(link[c].sym) /\ link'[c].time = Dec(link[c].time)
        /\ nb[c].status = "SYM"
    BY <1>11 DEF Tick
  <2>2. link[c].sym \in Int /\ link[c].time \in Int
    BY <1>0 DEF LinkType
  <2>3. link'[c].sym >= 0 => link'[c].time >= link'[c].sym + HoldTime
    BY <2>1, <2>2 DEF OutlivesTwoHop, Dec
  <2>4. ASSUME NEW x \in Address, twohop'[<<c, x>>] # Absent
        PROVE  link'[c].time >= twohop'[<<c, x>>] + Margin
    <3>1. twohop'[<<c, x>>] = Dec(twohop[<<c, x>>]) /\ twohop[<<c, x>>] # Expired
      BY <1>0, <1>11 DEF Tick, Quiet
    <3>2. twohop[<<c, x>>] \in Int /\ twohop[<<c, x>>] >= -2
      BY <1>0
    <3>3. twohop[<<c, x>>] # Absent
      BY <2>4, <3>1, <3>2 DEF Dec, Absent
    <3>4. link[c].time >= twohop[<<c, x>>] + Margin /\ Margin \in Nat
      BY <2>1, <3>3 DEF OutlivesTwoHop, Margin
    <3> QED  BY <2>1, <2>2, <3>1, <3>2, <3>3, <3>4 DEF Dec, Absent, Expired
  <2> QED  BY <2>3, <2>4
<1> QED
  BY <1>1, <1>3, <1>4, <1>5, <1>7, <1>8, <1>9, <1>10, <1>11
  DEF Next, TimerNext, RecvOther, MprSelExpire, NodeStart, vars, OutlivesTwoHop

\* It holds throughout, for the shipped equal times as well.
LEMMA LinksOutliveTwoHop ==
  ASSUME VTime <= HoldTime
  PROVE  Spec => [](\A b \in Nbr : OutlivesTwoHop(b))
<1>1. Init => \A b \in Nbr : OutlivesTwoHop(b)
  BY DEF Init, NoNb, NoLink, Expired, OutlivesTwoHop
<1>2. IInv /\ TypeOK' /\ (\A b \in Nbr : OutlivesTwoHop(b)) /\ [Next]_vars
        => (\A b \in Nbr : OutlivesTwoHop(b))'
  BY OutlivesStep
<1> QED  BY <1>1, <1>2, NeighborInvariant, TypeCorrect, PTL DEF Spec

\* A tuple of N2 has a route to lean on, unless the margin is nothing and the
\* tuple is over, its timer due.
LEMMA OutlivedProvider ==
  ASSUME IInv, \A b \in Nbr : OutlivesTwoHop(b), VTime <= HoldTime,
         Quiet \/ VTime < HoldTime
  PROVE  ProviderHasRoute
<1> USE NeighborAssumption
<1> SUFFICES ASSUME NEW t \in StrictTwoHop(nb, TwoHopPairs(twohop), {})
             PROVE  t[1] \in OneHopRoutes(link, nb)
  BY DEF ProviderHasRoute
<1>1. /\ t \in Nbr \X Address /\ twohop[t] # Absent
      /\ t[1] \in Nbr /\ nb[t[1]].status = "SYM"
  BY DEF StrictTwoHop, TwoHopPairs, SymNeighbors, IInv, TypeOK
<1>2. t = <<t[1], t[2]>> /\ t[2] \in Address
  BY <1>1
<1>3. twohop[t] \in Int /\ twohop[t] >= -1 /\ (Quiet => twohop[t] # -1)
  BY <1>1 DEF IInv, TypeOK, Absent, Quiet, Expired
<1>4. link[t[1]].time >= twohop[t] + Margin /\ Margin \in Nat
  BY <1>1, <1>2 DEF OutlivesTwoHop, Margin
<1>5. VTime < HoldTime => Margin > 0
  BY DEF Margin
<1>6. link[t[1]].time \in Int /\ link[t[1]].up
  BY <1>1 DEF IInv, TypeOK, NbrInv
<1>7. link[t[1]].time >= 0
  BY <1>3, <1>4, <1>5, <1>6
<1> QED  BY <1>1, <1>6, <1>7 DEF OneHopRoutes

\* When a HELLO's validity is shorter than the neighbour hold time, the
\* assertion of rtable_computation never fails, whenever it is called.
THEOREM NeighborProviderHasRoute ==
  ASSUME VTime < HoldTime
  PROVE  Spec => []ProviderHasRoute
<1>1. VTime <= HoldTime
  BY NeighborAssumption
<1>2. IInv /\ (\A b \in Nbr : OutlivesTwoHop(b)) => ProviderHasRoute
  BY <1>1, OutlivedProvider
<1> QED  BY <1>1, <1>2, LinksOutliveTwoHop, NeighborInvariant, PTL

\* With the shipped values, where validity and hold time are equal, it can
\* fail only in the microsecond in which the timer of a tuple is due: in every
\* state in which none is, each 2-hop tuple has a route to lean on.
THEOREM NeighborProviderWhenQuiet ==
  ASSUME VTime <= HoldTime
  PROVE  Spec => [](Quiet => ProviderHasRoute)
<1>1. IInv /\ (\A b \in Nbr : OutlivesTwoHop(b)) => (Quiet => ProviderHasRoute)
  BY OutlivedProvider
<1> QED  BY <1>1, LinksOutliveTwoHop, NeighborInvariant, PTL

-----------------------------------------------------------------------------
\* What rtable_computation of OLSRRtable finds in the repositories when it is
\* called in a state of this module.  The topology set is not part of this
\* module: it may hold any tuples that process_tc can record.
OtherAddress == Address \ {Self}

Tables == INSTANCE OLSRRtable WITH
  Addr     <- OtherAddress,
  nb       <- [a \in OtherAddress |-> IF a \in Nbr THEN nb[a] ELSE NoNb],
  links    <- {b \in Nbr : link[b].up /\ link[b].time >= 0},
  twohop   <- TwoHopPairs(twohop),
  topology <- Address \X OtherAddress,
  main     <- [a \in OtherAddress |-> a],
  rt       <- <<>>,
  todo     <- {},
  h        <- 2,
  added    <- FALSE,
  pc       <- "start"

\* populate_nb2hopset never records the node itself.
SelfNotTwoHop == \A b \in Nbr : twohop[<<b, Self>>] = Absent

LEMMA SelfNotTwoHopStep ==
  ASSUME TypeOK, SelfNotTwoHop, [Next]_vars
  PROVE  SelfNotTwoHop'
<1>0. /\ twohop \in [Nbr \X Address -> -2..VTime]
      /\ \A b \in Nbr : <<b, Self>> \in DOMAIN twohop
  BY DEF TypeOK, Address
<1>1. ASSUME NEW h \in Hellos, ProcessHello(h) PROVE SelfNotTwoHop'
  <2> SUFFICES ASSUME NEW b \in Nbr PROVE twohop'[<<b, Self>>] = Absent
    BY DEF SelfNotTwoHop
  <2>1. twohop'[<<b, Self>>] = twohop[<<b, Self>>]
    BY <1>0, <1>1 DEF ProcessHello, HeardTwoHop
  <2> QED  BY <2>1 DEF SelfNotTwoHop
<1>2. ASSUME NEW b \in Nbr, NEW l, NbLoss(b, l) PROVE SelfNotTwoHop'
  BY <1>0, <1>2 DEF NbLoss, SelfNotTwoHop
<1>3. ASSUME NEW t \in DOMAIN twohop, Nb2hopExpire(t) PROVE SelfNotTwoHop'
  BY <1>0, <1>3 DEF Nb2hopExpire, SelfNotTwoHop
<1>4. ASSUME NodeDown PROVE SelfNotTwoHop'
  BY <1>0, <1>4 DEF NodeDown, SelfNotTwoHop
<1>5. ASSUME Tick PROVE SelfNotTwoHop'
  BY <1>0, <1>5 DEF Tick, Dec, Absent, SelfNotTwoHop
<1>6. ASSUME UNCHANGED twohop PROVE SelfNotTwoHop'
  BY <1>6 DEF SelfNotTwoHop
<1> QED
  BY <1>1, <1>2, <1>3, <1>4, <1>5, <1>6
  DEF Next, TimerNext, RecvOther, LinkTupleExpire, SymLapseFirst, SymLapse,
      LinkTimerRearm, MprSelExpire, MacFailed, NodeStart, vars

\* Both modules see the same strict 2-hop tuples.
LEMMA TablesStrict ==
  ASSUME TypeOK, SelfNotTwoHop
  PROVE  /\ TwoHopPairs(twohop) \subseteq Nbr \X OtherAddress
         /\ Tables!Strict = StrictTwoHop(nb, TwoHopPairs(twohop), {})
<1> DEFINE wide == [a \in OtherAddress |-> IF a \in Nbr THEN nb[a] ELSE NoNb]
<1>1. Nbr \subseteq OtherAddress
  BY NeighborAssumption DEF OtherAddress, Address
<1>2. TwoHopPairs(twohop) \subseteq Nbr \X OtherAddress
  <2> SUFFICES ASSUME NEW t \in TwoHopPairs(twohop) PROVE t \in Nbr \X OtherAddress
    OBVIOUS
  <2>1. t \in Nbr \X Address /\ twohop[t] # Absent
    BY DEF TypeOK, TwoHopPairs
  <2>2. t = <<t[1], t[2]>> /\ t[1] \in Nbr /\ t[2] \in Address
    BY <2>1
  <2>3. t[2] # Self
    BY <2>1, <2>2 DEF SelfNotTwoHop
  <2> QED  BY <2>2, <2>3 DEF OtherAddress
<1>3. SymNeighbors(wide) = SymNeighbors(nb)
  BY <1>1 DEF SymNeighbors, NoNb, TypeOK
<1>4. \A b \in Nbr : wide[b] = nb[b]
  BY <1>1
<1>5. StrictTwoHop(wide, TwoHopPairs(twohop), {})
        = StrictTwoHop(nb, TwoHopPairs(twohop), {})
  <2>1. \A t \in TwoHopPairs(twohop) : t[1] \in Nbr
    BY <1>2
  <2> HIDE DEF wide
  <2> QED  BY <1>3, <1>4, <2>1 DEF StrictTwoHop
<1>6. Tables!Strict = StrictTwoHop(wide, TwoHopPairs(twohop), {})
  BY DEF Tables!Strict, Tables!StrictTwoHop, Tables!SymNeighbors, Tables!WillNever,
         StrictTwoHop, SymNeighbors, WillNever
<1> QED  BY <1>2, <1>5, <1>6

\* Links for every 2-hop tuple are what makes the tables good.
LEMMA ProviderMakesTablesGood ==
  ASSUME TypeOK, SelfNotTwoHop, ProviderHasRoute
  PROVE  Tables!GoodTables
<1>1. Nbr \subseteq OtherAddress
  BY NeighborAssumption DEF OtherAddress, Address
<1>2. [a \in OtherAddress |-> IF a \in Nbr THEN nb[a] ELSE NoNb]
        \in [OtherAddress -> [status : {"SYM", "NOT_SYM", "NONE"}, will : Nat]]
  BY DEF TypeOK, NoNb
<1>3. /\ TwoHopPairs(twohop) \subseteq OtherAddress \X OtherAddress
      /\ \A t \in TwoHopPairs(twohop) : t[2] \in OtherAddress
  BY <1>1, TablesStrict
<1>4. ASSUME NEW t \in Tables!Strict PROVE Tables!LinksOf(t[1]) # {}
  <2>1. t[1] \in OneHopRoutes(link, nb)
    BY <1>4, TablesStrict DEF ProviderHasRoute
  <2>2. t[1] \in Nbr /\ link[t[1]].up /\ link[t[1]].time >= 0
    BY <2>1 DEF OneHopRoutes
  <2> QED  BY <1>1, <2>2 DEF Tables!LinksOf
<1>5. Address \X OtherAddress \subseteq (OtherAddress \cup {Self}) \X OtherAddress
  BY DEF OtherAddress, Address
<1> QED  BY <1>1, <1>2, <1>3, <1>4, <1>5 DEF Tables!GoodTables, Tables!Dest

\* The node itself is never recorded at two hops.
LEMMA SelfNeverTwoHop == Spec => []SelfNotTwoHop
<1>1. Init => SelfNotTwoHop
  BY DEF Init, SelfNotTwoHop, Address
<1>2. TypeOK /\ SelfNotTwoHop /\ [Next]_vars => SelfNotTwoHop'
  BY SelfNotTwoHopStep
<1> QED  BY <1>1, <1>2, TypeCorrect, PTL DEF Spec

\* The assumption of the route computation, Init of OLSRRtable, is what the
\* neighbour handlers provide: when a HELLO's validity is shorter than the
\* neighbour hold time, rtable_computation finds good tables in any state.
THEOREM NeighborTablesGood ==
  ASSUME VTime < HoldTime
  PROVE  Spec => []Tables!GoodTables
<1>1. TypeOK /\ SelfNotTwoHop /\ ProviderHasRoute => Tables!GoodTables
  BY ProviderMakesTablesGood
<1> QED
  BY <1>1, SelfNeverTwoHop, TypeCorrect, NeighborProviderHasRoute, PTL

\* With equal times, as shipped, it finds them in every state in which no
\* timer is due.
THEOREM NeighborTablesWhenQuiet ==
  ASSUME VTime <= HoldTime
  PROVE  Spec => [](Quiet => Tables!GoodTables)
<1>1. TypeOK /\ SelfNotTwoHop /\ (Quiet => ProviderHasRoute) => (Quiet => Tables!GoodTables)
  BY ProviderMakesTablesGood
<1> QED
  BY <1>1, SelfNeverTwoHop, TypeCorrect, NeighborProviderWhenQuiet, PTL

-----------------------------------------------------------------------------
\* mpr_computation as this module calls it, and what is proved of it.
Sel == INSTANCE OLSRMprProofs WITH
  Local <- {Self}, Wills <- Nat, twohop <- TwoHopPairs(twohop),
  N2 <- {}, covered <- {}, pc <- "start"

\* Both modules have the selection in common.
LEMMA SameSelections ==
  /\ \A n, H, L : Sel!MprSelections(n, H, L) = MprSelections(n, H, L)
  /\ \A n, H, L : Sel!StrictTwoHop(n, H, L) = StrictTwoHop(n, H, L)
  /\ \A n : Sel!SymNeighbors(n) = SymNeighbors(n)
<1> USE DEF Sel!SymNeighbors, SymNeighbors, Sel!ReachedBy, ReachedBy
<1>1. \A n : Sel!AlwaysWilling(n) = AlwaysWilling(n)
  BY DEF Sel!AlwaysWilling, AlwaysWilling, Sel!WillAlways, WillAlways
<1>2. \A n, H, L : Sel!StrictTwoHop(n, H, L) = StrictTwoHop(n, H, L)
  BY DEF Sel!StrictTwoHop, StrictTwoHop, Sel!WillNever, WillNever
<1>3. \A R : Sel!SoleProviders(R) = SoleProviders(R) /\ Sel!AfterSole(R) = AfterSole(R)
  BY DEF Sel!SoleProviders, SoleProviders, Sel!AfterSole, AfterSole
<1>4. \A n, R : Sel!AfterAlways(n, R) = AfterAlways(n, R)
  BY <1>1 DEF Sel!AfterAlways, AfterAlways
<1>5. \A n, H, R : Sel!GreedyElections(n, H, R) = GreedyElections(n, H, R)
  BY Zenon DEF Sel!GreedyElections, GreedyElections, Sel!CoverTwoHopNeighbors, CoverTwoHopNeighbors,
         Sel!MaxReach, MaxReach, Sel!NoWorse, NoWorse, Sel!reachability, reachability,
         Sel!degree, degree, Sel!Cardinality, Cardinality
<1>6. \A n, H, L : Sel!MprSelections(n, H, L) = MprSelections(n, H, L)
  BY <1>1, <1>2, <1>3, <1>4, <1>5 DEF Sel!MprSelections, MprSelections
<1> QED  BY <1>2, <1>6

\* A finite neighbourhood has finitely many 2-hop tuples.
LEMMA PairsFinite ==
  ASSUME IsFiniteSet(Nbr \cup Far), NEW th \in [Nbr \X Address -> -2..VTime]
  PROVE  IsFiniteSet(TwoHopPairs(th)) /\ Sel!IsFiniteSet(TwoHopPairs(th))
<1>1. IsFiniteSet(Address)
  BY FS_Singleton, FS_Union DEF Address
<1>2. Nbr \subseteq Address /\ TwoHopPairs(th) \subseteq Address \X Address
  BY DEF Address, TwoHopPairs
<1>3. IsFiniteSet(TwoHopPairs(th))
  BY <1>1, <1>2, FS_Product, FS_Subset
<1> QED  BY <1>3 DEF Sel!IsFiniteSet, IsFiniteSet

\* The assumptions of OLSRMpr hold of the instance.
LEMMA AssumptionSel ==
  ASSUME IsFiniteSet(Nbr \cup Far)
  PROVE  Sel!MprAssumption /\ Sel!MprFinite
<1>1. IsFiniteSet(Nbr \cup Far \cup {Self})
  BY FS_Singleton, FS_Union
<1>2. Sel!MprFinite
  BY <1>1 DEF Sel!MprFinite, Sel!IsFiniteSet, IsFiniteSet
<1> QED  BY <1>2, NeighborAssumption DEF Sel!MprAssumption

\* mpr_computation always has a result, whatever the tables hold: a handler
\* that recomputes the MPR set is never stuck in the search for one.
THEOREM RecomputeNotBlocked ==
  ASSUME IsFiniteSet(Nbr \cup Far),
         NEW n \in [Nbr -> NbType], NEW th \in [Nbr \X Address -> -2..VTime]
  PROVE  MprSelections(n, TwoHopPairs(th), {Self}) # {}
<1>1. Sel!Graded(n)
  BY SameSelections DEF Sel!Graded, SymNeighbors, NbType
<1>2. Sel!MprSelections(n, TwoHopPairs(th), {Self}) # {}
  BY <1>1, PairsFinite, AssumptionSel, Sel!SelectionExists
<1> QED  BY <1>2, SameSelections

\* The MPR set covers the tables: to every strict 2-hop address leads an MPR
\* with which it is recorded.
Covers ==
  \A t \in StrictTwoHop(nb, TwoHopPairs(twohop), {Self}) :
    \E u \in StrictTwoHop(nb, TwoHopPairs(twohop), {Self}) : u[2] = t[2] /\ u[1] \in mprset

\* A recomputed set covers the tables it was computed from.
LEMMA RecomputeCovers ==
  ASSUME IsFiniteSet(Nbr \cup Far), TypeOK', Recompute
  PROVE  Covers'
<1> DEFINE H == TwoHopPairs(twohop')
<1>1. nb' \in [Nbr -> NbType] /\ twohop' \in [Nbr \X Address -> -2..VTime]
  BY DEF TypeOK, NbType
<1>2. Sel!IsFiniteSet(H)
  BY <1>1, PairsFinite
<1>3. Sel!Graded(nb')
  BY <1>1, SameSelections DEF Sel!Graded, SymNeighbors, NbType
<1>4. mprset' \in Sel!MprSelections(nb', H, {Self})
  BY SameSelections DEF Recompute
<1> HIDE DEF H
<1>5. \A t \in Sel!StrictTwoHop(nb', H, {Self}) :
        \E u \in Sel!StrictTwoHop(nb', H, {Self}) : u[2] = t[2] /\ u[1] \in mprset'
  BY <1>2, <1>3, <1>4, AssumptionSel, Sel!SelectionSound
<1> QED  BY <1>5, SameSelections DEF Covers, H

\* The strict 2-hop tuples do not change with the time left of the tuples.
LEMMA CoversUnchanged ==
  ASSUME Covers, UNCHANGED <<nb, mprset>>, TwoHopPairs(twohop') = TwoHopPairs(twohop)
  PROVE  Covers'
BY DEF Covers

\* Only two handlers take cover away without asking for new MPRs: the timer of
\* a 2-hop tuple, when the tuple came from an MPR, and the end of a link tuple
\* whose neighbour still counted as symmetric.
UncoversOnly ==
  \/ \E t \in DOMAIN twohop : t[1] \in mprset /\ Nb2hopExpire(t)
  \/ \E b \in Nbr : nb[b].status = "SYM" /\ LinkTupleExpire(b)

\* Every HELLO, every neighbour loss and every link-layer failure leaves an MPR
\* set that covers the 2-hop neighbourhood; and between them it goes on
\* covering it, but for the two handlers above.
CoverStep ==
  /\ (\E h \in Hellos : ProcessHello(h)) \/ (\E b \in Nbr : SymLapse(b) \/ MacFailed(b))
       => Covers'
  /\ Covers => Covers' \/ UncoversOnly

\* The step, from the type invariant.
LEMMA CoverStepHolds ==
  ASSUME IsFiniteSet(Nbr \cup Far), TypeOK, TypeOK', [Next]_vars
  PROVE  CoverStep
<1>0. /\ nb \in [Nbr -> NbType] /\ twohop \in [Nbr \X Address -> -2..VTime]
  BY DEF TypeOK, NbType
<1>1. ASSUME (\E h \in Hellos : ProcessHello(h)) \/ (\E b \in Nbr : SymLapse(b) \/ MacFailed(b))
      PROVE  Covers'
  BY <1>1, RecomputeCovers DEF ProcessHello, SymLapse, MacFailed, NbLoss
<1>2. ASSUME Covers, NEW b \in Nbr, LinkTupleExpire(b), nb[b].status # "SYM" PROVE Covers'
  <2>1. SymNeighbors(nb') = SymNeighbors(nb)
    BY <1>0, <1>2 DEF LinkTupleExpire, RemoveLinkTuple, SymNeighbors, NoNb
  <2>2. \A x \in SymNeighbors(nb) : nb'[x] = nb[x]
    BY <1>0, <1>2 DEF LinkTupleExpire, RemoveLinkTuple, SymNeighbors
  <2>3. StrictTwoHop(nb', TwoHopPairs(twohop), {Self}) = StrictTwoHop(nb, TwoHopPairs(twohop), {Self})
    BY <2>1, <2>2 DEF StrictTwoHop
  <2> QED  BY <1>2, <2>3 DEF Covers, LinkTupleExpire
<1>3. ASSUME Covers, NEW t \in DOMAIN twohop, Nb2hopExpire(t), t[1] \notin mprset PROVE Covers'
  <2>1. TwoHopPairs(twohop') = TwoHopPairs(twohop) \ {t}
    BY <1>0, <1>3 DEF Nb2hopExpire, TwoHopPairs
  <2>2. StrictTwoHop(nb, TwoHopPairs(twohop'), {Self})
          = StrictTwoHop(nb, TwoHopPairs(twohop), {Self}) \ {t}
    BY <2>1 DEF StrictTwoHop
  <2>3. nb' = nb /\ mprset' = mprset
    BY <1>3 DEF Nb2hopExpire
  <2> QED  BY <1>3, <2>2, <2>3 DEF Covers
<1>4. ASSUME Covers, Tick PROVE Covers'
  <2>1. \A t \in Nbr \X Address : twohop'[t] = Absent <=> twohop[t] = Absent
    BY <1>0, <1>4 DEF Tick, Dec, Absent
  <2>2. DOMAIN twohop' = DOMAIN twohop
    BY <1>0, <1>4 DEF Tick
  <2> QED  BY <1>0, <1>4, <2>1, <2>2, CoversUnchanged DEF Tick, TwoHopPairs
<1>5. ASSUME Covers, NodeDown PROVE Covers'
  <2>1. SymNeighbors(nb') = {}
    BY <1>5 DEF NodeDown, SymNeighbors, NoNb
  <2> QED  BY <2>1 DEF Covers, StrictTwoHop
<1>6. ASSUME Covers, UNCHANGED <<nb, mprset, twohop>> PROVE Covers'
  BY <1>6, CoversUnchanged
<1>7. ASSUME Covers PROVE Covers' \/ UncoversOnly
  BY <1>1, <1>2, <1>3, <1>4, <1>5, <1>6, <1>7
  DEF Next, TimerNext, RecvOther, SymLapseFirst, LinkTimerRearm, MprSelExpire, NodeStart, vars,
      UncoversOnly
<1> QED  BY <1>1, <1>7 DEF CoverStep

\* The MPR set covers the 2-hop neighbourhood after every handler that
\* recomputes it, and loses cover in two handlers only.
THEOREM NeighborCoverKept ==
  ASSUME IsFiniteSet(Nbr \cup Far)
  PROVE  Spec => [][CoverStep]_vars
<1>1. TypeOK /\ TypeOK' /\ [Next]_vars => [CoverStep]_vars
  BY CoverStepHolds
<1> QED  BY <1>1, TypeCorrect, PTL DEF Spec

=============================================================================
