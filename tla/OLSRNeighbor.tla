----------------------------- MODULE OLSRNeighbor ---------------------------
(***************************************************************************)
(* The neighbourhood state of one OLSR agent: link set, neighbour set,     *)
(* 2-hop neighbour set, MPR set, MPR selector set and the one-hop part of  *)
(* the routing table, with the handlers that change them: process_hello,   *)
(* the tuple timers, nb_loss, mac_failed and node crash and start.  The    *)
(* HELLOs of the neighbours are inputs: any that send_hello can produce.   *)
(*                                                                         *)
(* Time.  A point in time is kept as the number of ticks until it, -1 once *)
(* it has passed, so "x >= now" reads x >= 0.  DELAY() schedules a timer   *)
(* one microsecond after its tuple's time: a timer with value -1 is due,   *)
(* other events may still come first, but the clock cannot pass it.        *)
(*                                                                         *)
(* Every host of the network has a single wireless interface, so interface *)
(* and main addresses coincide.  ansn_, which changes of the selector set  *)
(* also advance, is part of OLSRTopology.                                  *)
(***************************************************************************)
EXTENDS Integers, OLSRMprOps

CONSTANTS
  Self,       \* ra_addr()
  Nbr,        \* nodes whose HELLOs can arrive
  Far,        \* further addresses those HELLOs may list
  Hellos,     \* the HELLO messages that can arrive
  VTime,      \* emf_to_seconds(vtime) of a HELLO, in ticks
  HoldTime,   \* OLSR_NEIGHB_HOLD_TIME, in ticks
  UseMac      \* use_mac()

\* A definition whose name ends in Slip is the one that follows it with a
\* plausible programming error; the specification never uses it.

LinkTypes == {"ASYM", "SYM", "LOST"}
NbTypes   == {"NOT", "SYM", "MPR"}
NotListed == [lt |-> "NONE", nt |-> "NONE"]
LinkCodes == [lt : LinkTypes, nt : NbTypes] \cup {NotListed}
Address   == Nbr \cup Far \cup {Self}

ASSUME NeighborAssumption ==
  /\ Self \notin Nbr
  /\ VTime \in Nat \ {0}
  /\ HoldTime \in Nat \ {0}
  /\ UseMac \in BOOLEAN
  /\ Hellos \subseteq [orig : Nbr, will : Nat, code : [Address -> LinkCodes]]

VARIABLES
  link,      \* link tuples, each with its OLSR_LinkTupleTimer
  nb,        \* neighbour tuples
  twohop,    \* N_time of the 2-hop tuples, Absent without a tuple
  mprset,    \* state_.mprset_
  mprsel,    \* time of the MPR selector tuples, Absent without a tuple
  rtnbr,     \* neighbours that rtable_ holds a one-hop route to
  alive      \* isNodeOperational()

vars == <<link, nb, twohop, mprset, mprsel, rtnbr, alive>>

Expired == -1
Absent  == -2

NoLink == [up |-> FALSE, sym |-> Expired, asym |-> Expired, time |-> Expired,
           lost |-> Expired, timer |-> Expired, first |-> FALSE]
NoNb   == [status |-> "NONE", will |-> 0]

TypeOK ==
  /\ link \in [Nbr -> [up : BOOLEAN, sym : -1..VTime, asym : -1..VTime,
                       time : -1..(VTime + HoldTime), lost : -1..HoldTime,
                       timer : -1..(VTime + HoldTime), first : BOOLEAN]]
  /\ nb \in [Nbr -> [status : {"NONE", "NOT_SYM", "SYM"}, will : Nat]]
  /\ twohop \in [Nbr \X Address -> -2..VTime]
  /\ mprset \subseteq Nbr
  /\ mprsel \in [Nbr -> -2..VTime]
  /\ rtnbr \subseteq Nbr
  /\ alive \in BOOLEAN

Init ==
  /\ link = [b \in Nbr |-> NoLink]
  /\ nb = [b \in Nbr |-> NoNb]
  /\ twohop = [t \in Nbr \X Address |-> Absent]
  /\ mprset = {}
  /\ mprsel = [b \in Nbr |-> Absent]
  /\ rtnbr = {}
  /\ alive = TRUE

-----------------------------------------------------------------------------
Least(x, y)    == IF x < y THEN x ELSE y
Greatest(x, y) == IF x > y THEN x ELSE y

\* The pairs of the 2-hop neighbour set "th".
TwoHopPairs(th) == {t \in DOMAIN th : th[t] # Absent}

\* The boundary of the symmetric time is taken as already lapsed.
StatusSlip(l) ==
  IF (UseMac /\ l.lost >= 0) \/ l.sym <= 0 THEN "NOT_SYM" ELSE "SYM"

\* The status updated_link_tuple gives the neighbour of link tuple l.
Status(l) ==
  IF (UseMac /\ l.lost >= 0) \/ l.sym < 0 THEN "NOT_SYM" ELSE "SYM"

\* rtable_computation, step 1: one-hop routes to the symmetric neighbours
\* that have a link tuple still in time.
OneHopRoutes(l, n) == {b \in Nbr : n[b].status = "SYM" /\ l[b].up /\ l[b].time >= 0}

\* mpr_computation and rtable_computation, on the new values of the sets.
Recompute ==
  /\ mprset' \in MprSelections(nb', TwoHopPairs(twohop'), {Self})
  /\ rtnbr' = OneHopRoutes(link', nb')

\* A HELLO that does not list us also extends the symmetric time.
SensedLinkSlip(old, c) ==
  LET sym  == IF c.lt = "LOST" THEN Expired ELSE VTime
      time == IF c.lt = "NONE" THEN old.time + HoldTime ELSE VTime + HoldTime
  IN  [up |-> TRUE, sym |-> sym, asym |-> VTime, time |-> time, lost |-> Expired,
       timer |-> IF old.up THEN old.timer ELSE Least(time, sym),
       first |-> old.first \/ ~old.up]

\* The time of the tuple follows its asymmetric time without the maximum.
SensedLinkTimeSlip(old, c) ==
  LET told == c.lt \in {"SYM", "ASYM"}
      sym  == IF told THEN VTime ELSE IF c.lt = "LOST" THEN Expired ELSE old.sym
      time == IF told THEN VTime + HoldTime ELSE VTime
  IN  [up |-> TRUE, sym |-> sym, asym |-> VTime, time |-> time,
       lost |-> IF told THEN Expired ELSE old.lost,
       timer |-> IF old.up THEN old.timer ELSE Least(time, sym),
       first |-> old.first \/ ~old.up]

\* Every HELLO extends the holding time, also one that does not list us.
SensedLinkHoldSlip(old, c) ==
  LET told == c.lt \in {"SYM", "ASYM"}
      sym  == IF told THEN VTime ELSE IF c.lt = "LOST" THEN Expired ELSE old.sym
      time == VTime + HoldTime
  IN  [up |-> TRUE, sym |-> sym, asym |-> VTime, time |-> time,
       lost |-> IF told THEN Expired ELSE old.lost,
       timer |-> IF old.up THEN old.timer ELSE Least(time, sym),
       first |-> old.first \/ ~old.up]

\* link_sensing: the link tuple after a HELLO that carries code c for us.  A
\* new tuple starts out not symmetric (NoLink) and gets its timer at the end.
SensedLink(old, c) ==
  LET told == c.lt \in {"SYM", "ASYM"} /\ ~(c.lt = "SYM" /\ c.nt = "NOT")
      sym  == IF told THEN VTime ELSE IF c.lt = "LOST" THEN Expired ELSE old.sym
      time == Greatest(VTime, IF told THEN VTime + HoldTime ELSE old.time)
  IN  [up |-> TRUE, sym |-> sym, asym |-> VTime, time |-> time,
       lost |-> IF told THEN Expired ELSE old.lost,
       timer |-> IF old.up THEN old.timer ELSE Least(time, sym),
       first |-> old.first \/ ~old.up]

\* populate_nb2hopset: what neighbour h.orig announces, kept when the link to
\* it is symmetric.
HeardTwoHop(h, l) ==
  [t \in DOMAIN twohop |->
     IF t[1] # h.orig \/ l.sym < 0 \/ t[2] = Self THEN twohop[t]
     ELSE CASE h.code[t[2]].nt \in {"SYM", "MPR"} -> VTime
            [] h.code[t[2]].nt = "NOT"            -> Absent
            [] OTHER                              -> twohop[t]]

\* updated_link_tuple and populate_nbset: the neighbour tuple of h.orig.
HeardNeighbor(h, l) ==
  [nb EXCEPT ![h.orig] = [status |-> Status(l), will |-> h.will]]

\* populate_mprselset: h.orig has chosen us, or says nothing about it.
HeardSelector(h) ==
  [mprsel EXCEPT ![h.orig] = IF h.code[Self].nt = "MPR" THEN VTime ELSE @]

\* process_hello: link_sensing, populate_nbset, populate_nb2hopset,
\* mpr_computation, populate_mprselset; recv_olsr then recomputes the routes.
ProcessHello(h) ==
  LET b == h.orig
      l == SensedLink(link[b], h.code[Self])
  IN  /\ alive
      /\ link' = [link EXCEPT ![b] = l]
      /\ nb' = HeardNeighbor(h, l)
      /\ twohop' = HeardTwoHop(h, l)
      /\ mprsel' = HeardSelector(h)
      /\ Recompute
      /\ UNCHANGED alive

\* recv_olsr with any other message: only the routing table is recomputed.
RecvOther ==
  /\ alive
  /\ rtnbr' = OneHopRoutes(link, nb)
  /\ UNCHANGED <<link, nb, twohop, mprset, mprsel, alive>>

-----------------------------------------------------------------------------
\* The MPR set and the routes are not recomputed.
NbLossSlip(b, l) ==
  /\ link' = [link EXCEPT ![b] = l]
  /\ nb' = [nb EXCEPT ![b].status = Status(l)]
  /\ twohop' = [t \in DOMAIN twohop |-> IF t[1] = b THEN Absent ELSE twohop[t]]
  /\ mprsel' = [mprsel EXCEPT ![b] = Absent]
  /\ UNCHANGED <<mprset, rtnbr, alive>>

\* nb_loss for neighbour b, whose link tuple becomes l.
NbLoss(b, l) ==
  /\ link' = [link EXCEPT ![b] = l]
  /\ nb' = [nb EXCEPT ![b].status = Status(l)]
  /\ twohop' = [t \in DOMAIN twohop |-> IF t[1] = b THEN Absent ELSE twohop[t]]
  /\ mprsel' = [mprsel EXCEPT ![b] = Absent]
  /\ Recompute
  /\ UNCHANGED alive

LinkTimerDue(b) == alive /\ link[b].up /\ link[b].timer = Expired

\* Only the neighbour tuple is erased; the timer is gone all the same.
LinkTupleExpireSlip(b) ==
  /\ LinkTimerDue(b)
  /\ link[b].time < 0
  /\ link' = [link EXCEPT ![b].timer = VTime]
  /\ nb' = [nb EXCEPT ![b] = NoNb]
  /\ UNCHANGED <<twohop, mprset, mprsel, rtnbr, alive>>

\* rm_link_tuple: the link tuple and its neighbour tuple.
RemoveLinkTuple(b) ==
  /\ link' = [link EXCEPT ![b] = NoLink]
  /\ nb' = [nb EXCEPT ![b] = NoNb]

\* OLSR_LinkTupleTimer::expire, tuple out of time: the destructor calls
\* rm_link_tuple and does nothing else.
LinkTupleExpire(b) ==
  /\ LinkTimerDue(b)
  /\ link[b].time < 0
  /\ RemoveLinkTuple(b)
  /\ UNCHANGED <<twohop, mprset, mprsel, rtnbr, alive>>

\* The symmetric time is over, and the timer has not met this case before.
SymLapseFirst(b) ==
  /\ LinkTimerDue(b)
  /\ link[b].time >= 0
  /\ link[b].sym < 0
  /\ link[b].first
  /\ link' = [link EXCEPT ![b].first = FALSE, ![b].timer = link[b].time]
  /\ UNCHANGED <<nb, twohop, mprset, mprsel, rtnbr, alive>>

\* The symmetric time is over: neighbour loss.
SymLapse(b) ==
  /\ LinkTimerDue(b)
  /\ link[b].time >= 0
  /\ link[b].sym < 0
  /\ ~link[b].first
  /\ NbLoss(b, [link[b] EXCEPT !.timer = link[b].time])

\* Neither is over: the timer is set to the earlier of the two.
LinkTimerRearm(b) ==
  /\ LinkTimerDue(b)
  /\ link[b].time >= 0
  /\ link[b].sym >= 0
  /\ link' = [link EXCEPT ![b].timer = Least(link[b].time, link[b].sym)]
  /\ UNCHANGED <<nb, twohop, mprset, mprsel, rtnbr, alive>>

\* OLSR_Nb2hopTupleTimer: the timer follows N_time, the tuple goes after it.
Nb2hopExpire(t) ==
  /\ twohop[t] = Expired
  /\ twohop' = [twohop EXCEPT ![t] = Absent]
  /\ UNCHANGED <<link, nb, mprset, mprsel, rtnbr, alive>>

\* OLSR_MprSelTupleTimer.
MprSelExpire(b) ==
  /\ mprsel[b] = Expired
  /\ mprsel' = [mprsel EXCEPT ![b] = Absent]
  /\ UNCHANGED <<link, nb, twohop, mprset, rtnbr, alive>>

\* mac_failed: the link layer reports a frame to b as undeliverable; b is the
\* next hop of a route and has a link tuple.
MacFailed(b) ==
  /\ UseMac
  /\ alive
  /\ b \in rtnbr
  /\ link[b].up
  /\ NbLoss(b, [link[b] EXCEPT !.lost = HoldTime, !.time = HoldTime])

\* handleNodeCrash and handleNodeShutdown delete every tuple timer, and with
\* it the tuple; the MPR set is not cleared.
NodeDown ==
  /\ alive
  /\ alive' = FALSE
  /\ link' = [b \in Nbr |-> NoLink]
  /\ nb' = [b \in Nbr |-> NoNb]
  /\ twohop' = [t \in DOMAIN twohop |-> Absent]
  /\ mprsel' = [b \in Nbr |-> Absent]
  /\ rtnbr' = {}
  /\ UNCHANGED mprset

\* handleNodeStart.
NodeStart ==
  /\ ~alive
  /\ alive' = TRUE
  /\ UNCHANGED <<link, nb, twohop, mprset, mprsel, rtnbr>>

-----------------------------------------------------------------------------
Dec(x) == IF x >= 0 THEN x - 1 ELSE x

\* No timer is due.
Quiet ==
  /\ \A b \in Nbr : ~LinkTimerDue(b) /\ mprsel[b] # Expired
  /\ \A t \in DOMAIN twohop : twohop[t] # Expired

\* The clock advances by one tick.
Tick ==
  /\ Quiet
  /\ link' = [b \in Nbr |->
       [up |-> link[b].up, sym |-> Dec(link[b].sym), asym |-> Dec(link[b].asym),
        time |-> Dec(link[b].time), lost |-> Dec(link[b].lost),
        timer |-> Dec(link[b].timer), first |-> link[b].first]]
  /\ twohop' = [t \in DOMAIN twohop |-> Dec(twohop[t])]
  /\ mprsel' = [b \in Nbr |-> Dec(mprsel[b])]
  /\ UNCHANGED <<nb, mprset, rtnbr, alive>>

TimerNext ==
  \/ \E b \in Nbr : \/ LinkTupleExpire(b)
                    \/ SymLapseFirst(b)
                    \/ SymLapse(b)
                    \/ LinkTimerRearm(b)
                    \/ MprSelExpire(b)
  \/ \E t \in DOMAIN twohop : Nb2hopExpire(t)

Next ==
  \/ \E h \in Hellos : ProcessHello(h)
  \/ RecvOther
  \/ TimerNext
  \/ \E b \in Nbr : MacFailed(b)
  \/ NodeDown
  \/ NodeStart
  \/ Tick

Spec == Init /\ [][Next]_vars

\* The simulator delivers every scheduled event and its clock advances.
FairSpec == Spec /\ WF_vars(TimerNext) /\ WF_vars(Tick)

-----------------------------------------------------------------------------
\* A link that is only heard is not listed.
AdvertisedCodeSlip(b) ==
  IF ~link[b].up \/ link[b].sym < 0 THEN NotListed
  ELSE [lt |-> IF UseMac /\ link[b].lost >= 0 THEN "LOST" ELSE "SYM",
        nt |-> IF b \in mprset THEN "MPR"
               ELSE IF nb[b].status = "SYM" THEN "SYM" ELSE "NOT"]

\* A link that is not heard any more is listed as asymmetric, not as lost.
AdvertisedCodeStaleSlip(b) ==
  IF ~link[b].up \/ link[b].time < 0 THEN NotListed
  ELSE [lt |-> IF UseMac /\ link[b].lost >= 0 THEN "LOST"
               ELSE IF link[b].sym >= 0 THEN "SYM" ELSE "ASYM",
        nt |-> IF b \in mprset THEN "MPR"
               ELSE IF nb[b].status = "SYM" THEN "SYM" ELSE "NOT"]

\* send_hello: the link code under which neighbour b is advertised.
AdvertisedCode(b) ==
  IF ~link[b].up \/ link[b].time < 0 THEN NotListed
  ELSE [lt |-> IF UseMac /\ link[b].lost >= 0 THEN "LOST"
               ELSE IF link[b].sym >= 0 THEN "SYM"
               ELSE IF link[b].asym >= 0 THEN "ASYM" ELSE "LOST",
        nt |-> IF b \in mprset THEN "MPR"
               ELSE IF nb[b].status = "SYM" THEN "SYM" ELSE "NOT"]

\* Receivers skip "invalid advertised links" (a symmetric link to a node that
\* is no neighbour); whatever the order of HELLOs, timers and link failures,
\* send_hello never produces one.
AdvertisedLinksValid ==
  \A b \in Nbr : AdvertisedCode(b) # [lt |-> "SYM", nt |-> "NOT"]

\* Link and neighbour tuples come and go together: send_hello never meets a
\* neighbour it does not know, rm_link_tuple always finds the tuple to delete.
LinkHasNeighbor == \A b \in Nbr : link[b].up <=> nb[b].status # "NONE"

\* The sets derived from the neighbour set follow it: an MPR or a next hop is
\* never a neighbour that has lost its symmetric status.
DerivedFollowStatus ==
  \A b \in Nbr : nb[b].status = "NOT_SYM" => b \notin mprset /\ b \notin rtnbr

\* Without link-layer feedback a link tuple never outlives its time: its timer
\* comes no later.
LinkTimerInTime ==
  ~UseMac => \A b \in Nbr : link[b].up => link[b].timer <= link[b].time

\* A neighbour that still counts as symmetric after its link has lapsed is
\* looked at again within the longer of the two holding times; the bound
\* depends on how link_sensing and the timer set time(), sym_time() and the
\* timer relative to each other.
Lag == Greatest(VTime, HoldTime)

LapseBounded ==
  ~UseMac => \A b \in Nbr :
    nb[b].status = "SYM" /\ link[b].sym < 0 => link[b].timer < Lag

\* The assertion of rtable_computation: a 2-hop tuple it turns into a route
\* comes from a neighbour it has a route to.  A packet can arrive, and the
\* routes be computed, in any state: also between the end of a link tuple's
\* time and its timer.
ProviderHasRoute ==
  \A t \in StrictTwoHop(nb, TwoHopPairs(twohop), {}) :
    t[1] \in OneHopRoutes(link, nb)

\* A neighbour that is not heard any more is forgotten: its link tuple (and
\* with LinkHasNeighbor its neighbour tuple) eventually goes for good.
Silent(b) == <>[][~\E h \in Hellos : h.orig = b /\ ProcessHello(h)]_vars

SilentNeighbourForgotten ==
  \A b \in Nbr : Silent(b) => <>[](~link[b].up)

\* The comment on OLSR_LinkTupleTimer: "if symmetric time has expired then it
\* is assumed a neighbor loss".  Once the clock moves on, a neighbour whose
\* link is not symmetric any more does not keep its symmetric status.
LapseIsLoss ==
  Quiet => \A b \in Nbr : nb[b].status = "SYM" => link[b].sym >= 0

=============================================================================
