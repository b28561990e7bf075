--------------------------- MODULE OLSRRtableProofs -------------------------
(***************************************************************************)
(* Theorems about OLSRRtable, for any addresses and any good tables.       *)
(*                                                                         *)
(* The argument.  After the first loop the one-hop entries are fixed: they *)
(* lead to themselves, or to the entry of a link that does (HopsInv).  The *)
(* 2-hop loop writes only destinations without a one-hop entry, because a  *)
(* strict 2-hop address is a main address and no symmetric neighbour       *)
(* (StrictInv), and afterwards only missing entries are added.  So what an *)
(* entry was built on stays as it was (RoutesChain).  RoundInv is the      *)
(* invariant of the breadth-first rounds.                                  *)
(*                                                                         *)
(* Every round but the last adds an entry and none is ever taken back, so  *)
(* there are no more rounds than destinations, and every step makes        *)
(* progress (RtableRoundsBounded, RtableAdvances).                         *)
(***************************************************************************)
EXTENDS OLSRRtable, FiniteSetTheorems, TLAPS

\* The state's types and what each phase leaves in the variables.
PhaseInv ==
  /\ TypeOK
  /\ h >= 2
  /\ pc = "start" => rt = [a \in Dest |-> NoRoute] /\ h = 2 /\ ~added
  /\ pc = "twohop" => h = 2 /\ ~added
  /\ pc \notin {"start", "twohop"} => todo = {}

\* Strict 2-hop tuples: their providers have a one-hop entry, their ends never.
StrictInv ==
  /\ pc # "start" => \A t \in Strict : rt[t[1]].dist = 1
  /\ \A t \in Strict : rt[t[2]].dist # 1
  /\ pc # "start" => \A t \in Strict \ todo : rt[t[2]].dist = 2

\* Next hops are one-hop entries that lead to themselves; a route begins with
\* the next hop unless there is only one.
HopsInv ==
  \A a \in Dest : Routed(a) =>
    /\ rt[a].next \in Addr
    /\ rt[rt[a].next].dist = 1
    /\ rt[rt[a].next].next = rt[a].next
    /\ rt[a].dist = 1 => rt[a].route = <<>>
    /\ rt[a].dist >= 2 => rt[a].route # <<>> /\ Head(rt[a].route) = rt[a].next

\* Distances so far.
DistInv ==
  /\ pc \in {"start", "twohop"} => \A a \in Dest : rt[a].dist <= 2
  /\ pc = "start" => \A a \in Dest : rt[a].dist = 0

\* The rounds of step 4: nothing is further than the round allows, and the
\* topology tuples of the rounds before are dealt with.
Settled(t) == Routed(t[1]) /\ rt[t[1]].dist <= rt[t[2]].dist + 1

RoundInv ==
  /\ pc \in {"topology", "assoc"} =>
       /\ \A a \in Dest : rt[a].dist <= h + 1
       /\ ~added => \A a \in Dest : rt[a].dist <= h
       /\ \A t \in topology : 2 <= rt[t[2]].dist /\ rt[t[2]].dist < h => Settled(t)
  /\ pc = "assoc" => \A t \in topology : rt[t[2]].dist = h => Settled(t)
  /\ pc = "done" => ShortestRoutes

\* Willingness of next hops, while every link leads to a main address.
WillInv ==
  (\A l \in links : main[l] = l) =>
    \A t \in Strict :
      /\ pc # "start" => rt[t[1]].next = t[1]
      /\ pc # "start" /\ t \notin todo => nb[t[1]].will <= nb[rt[t[2]].next].will
      /\ rt[t[2]].dist = 2 => rt[t[2]].next \in Addr /\ Sym(rt[t[2]].next)

IInv == PhaseInv /\ StrictInv /\ HopsInv /\ DistInv /\ RoutesChain /\ RoundInv /\ WillInv


Entry == [dist : Nat, next : Dest, route : Seq(Addr)]

-----------------------------------------------------------------------------
\* What the selection of strict tuples guarantees of each of them.
LEMMA StrictFacts ==
  ASSUME GoodTables
  PROVE  \A t \in Strict :
           /\ t \in Addr \X Addr
           /\ Sym(t[1]) /\ ~Sym(t[2])
           /\ main[t[2]] = t[2]
           /\ LinksOf(t[1]) # {}
  BY DEF GoodTables, Strict, StrictTwoHop, Sym

\* The repositories do not change during the computation.
LEMMA TablesFixed ==
  ASSUME GoodTables, UNCHANGED tables
  PROVE  /\ GoodTables'
         /\ Strict' = Strict
         /\ \A n : Sym(n)' <=> Sym(n)
  BY DEF GoodTables, tables, Strict, StrictTwoHop, SymNeighbors, LinksOf, Sym

\* A missing entry is added during a round of step 4.
LEMMA AddMissing ==
  ASSUME IInv, UNCHANGED <<tables, todo, h, pc>>, pc \in {"topology", "assoc"},
         added' = TRUE,
         NEW d \in Dest, ~Routed(d), NEW e \in Entry,
         rt' = [rt EXCEPT ![d] = e],
         e.dist >= 1, e.dist <= h + 1,
         e.next \in Addr, rt[e.next].dist = 1, rt[e.next].next = e.next,
         e.dist = 1 => e.route = <<>>,
         e.dist >= 2 => e.route # <<>> /\ Head(e.route) = e.next,
         e.dist >= 2 => Chained(d, e),
         \/ pc = "topology" /\ e.dist = h + 1
         \/ \A t \in topology : t[2] # d
  PROVE  IInv'
<1> USE DEF Routed
<1>1. TypeOK /\ GoodTables /\ todo = {} /\ h \in Nat /\ h >= 2
  BY DEF IInv, PhaseInv, TypeOK
<1>2. GoodTables' /\ Strict' = Strict /\ (\A n : Sym(n)' <=> Sym(n)) /\ UNCHANGED tables
  BY <1>1, TablesFixed DEF tables
<1>3. \A t \in Strict : t \in Addr \X Addr /\ rt[t[1]].dist = 1 /\ rt[t[2]].dist = 2
  BY <1>1, StrictFacts DEF IInv, StrictInv
<1>4. rt \in [Dest -> Entry] /\ rt[d].dist = 0 /\ rt'[d] = e
      /\ (\A a \in Dest : a # d => rt'[a] = rt[a])
      /\ (\A a \in Dest : Routed(a) => a # d)
  BY <1>1 DEF TypeOK, Entry
<1>5. PhaseInv'
  <2>1. rt' \in [Dest -> Entry]
    BY <1>4
  <2> QED
    BY <1>1, <1>2, <2>1 DEF IInv, PhaseInv, TypeOK, Entry
<1>6. StrictInv'
  BY <1>1, <1>2, <1>3, <1>4 DEF StrictInv, Dest
<1>7. HopsInv'
  <2> SUFFICES ASSUME NEW a \in Dest, Routed(a)'
               PROVE  /\ rt'[a].next \in Addr
                      /\ rt'[rt'[a].next].dist = 1
                      /\ rt'[rt'[a].next].next = rt'[a].next
                      /\ rt'[a].dist = 1 => rt'[a].route = <<>>
                      /\ rt'[a].dist >= 2 => rt'[a].route # <<>> /\ Head(rt'[a].route) = rt'[a].next
    BY DEF HopsInv
  <2>1. CASE a = d
    BY <1>4, <2>1 DEF Dest
  <2>2. CASE a # d
    <3>1. Routed(a) /\ rt'[a] = rt[a]
      BY <1>4, <2>2
    <3>2. /\ rt[a].next \in Addr
          /\ rt[rt[a].next].dist = 1
          /\ rt[rt[a].next].next = rt[a].next
          /\ rt[a].dist = 1 => rt[a].route = <<>>
          /\ rt[a].dist >= 2 => rt[a].route # <<>> /\ Head(rt[a].route) = rt[a].next
      BY <3>1 DEF IInv, HopsInv
    <3>3. rt[a].next # d
      BY <3>2, <1>4
    <3> QED
      BY <1>4, <3>1, <3>2, <3>3 DEF Dest
  <2> QED
    BY <2>1, <2>2
<1>8. DistInv'
  BY DEF DistInv
<1>9. RoutesChain'
  <2>1. \A t \in Strict : rt'[t[1]] = rt[t[1]]
    BY <1>3, <1>4 DEF Dest
  <2>2. \A t \in topology : rt[t[2]].dist >= 2 => rt'[t[2]] = rt[t[2]]
    BY <1>1, <1>4 DEF GoodTables, Dest
  <2>3. ASSUME NEW a \in Dest, NEW x \in Entry, x.dist >= 2, Chained(a, x)
        PROVE  Chained(a, x)'
    <3>1. Known(a)' = Known(a)
      BY <1>2 DEF Known, tables
    <3>2. CASE x.dist = 2
      BY <1>2, <2>1, <2>3, <3>1, <3>2 DEF Chained
    <3>3. CASE x.dist >= 3
      <4>1. PICK t \in topology : /\ t[1] \in Known(a)
                                  /\ rt[t[2]].dist = x.dist - 1
                                  /\ x.route = Append(rt[t[2]].route, t[2])
        BY <2>3, <3>3 DEF Chained
      <4>2. rt'[t[2]] = rt[t[2]]
        BY <2>2, <3>3, <4>1 DEF Entry
      <4> QED
        BY <1>2, <2>3, <3>1, <3>3, <4>1, <4>2 DEF Chained, tables
    <3> QED
      BY <2>3, <3>2, <3>3 DEF Entry
  <2> SUFFICES ASSUME NEW a \in Dest, rt'[a].dist >= 2
               PROVE  Chained(a, rt[a])'
    BY DEF RoutesChain
  <2> DEFINE x == IF a = d THEN e ELSE rt[a]
  <2>4. x \in Entry /\ rt'[a] = x
    BY <1>4
  <2>5. Chained(a, x)
    BY <1>4, <2>4 DEF IInv, RoutesChain
  <2> HIDE DEF x
  <2> QED
    BY <2>3, <2>4, <2>5 DEF Chained
<1>10. RoundInv'
  <2>1. \A t \in topology : t \in Dest \X Addr
    BY <1>1 DEF GoodTables
  <2>2. \A t \in topology : Settled(t) /\ t[2] # d => Settled(t)'
    BY <1>4, <2>1 DEF Settled, Dest
  <2>3. /\ \A a \in Dest : rt[a].dist <= h + 1
        /\ \A t \in topology : 2 <= rt[t[2]].dist /\ rt[t[2]].dist < h => Settled(t)
        /\ pc = "assoc" => \A t \in topology : rt[t[2]].dist = h => Settled(t)
    BY DEF IInv, RoundInv
  <2>4. \A a \in Dest : rt'[a].dist <= h + 1
    BY <1>4, <2>3
  <2>5. ASSUME NEW t \in topology, 2 <= rt'[t[2]].dist, rt'[t[2]].dist < h
        PROVE  Settled(t)'
    <3>1. t[2] # d
      BY <1>1, <1>4, <2>5
    <3> QED
      BY <1>4, <2>1, <2>2, <2>3, <2>5, <3>1 DEF Dest
  <2>6. ASSUME pc = "assoc", NEW t \in topology, rt'[t[2]].dist = h
        PROVE  Settled(t)'
    BY <1>4, <2>1, <2>2, <2>3, <2>6 DEF Dest
  <2> QED
    BY <2>4, <2>5, <2>6 DEF RoundInv, tables
<1>11. WillInv'
  <2>1. \A t \in Strict : rt'[t[1]] = rt[t[1]] /\ rt'[t[2]] = rt[t[2]]
    BY <1>3, <1>4 DEF Dest
  <2> QED
    BY <1>1, <1>2, <2>1 DEF WillInv, IInv, tables
<1> QED
  BY <1>5, <1>6, <1>7, <1>8, <1>9, <1>10, <1>11 DEF IInv

-----------------------------------------------------------------------------
LEMMA InitInv == Init => IInv
<1> SUFFICES ASSUME Init PROVE IInv
  OBVIOUS
<1> USE DEF Init, StartOfCall
<1>1. \A a \in Dest : rt[a] = NoRoute /\ ~Routed(a) /\ rt[a].dist = 0
  BY DEF NoRoute, Routed
<1>2. rt \in [Dest -> Entry]
  BY DEF NoRoute, Entry, Dest
<1>3. \A t \in Strict : t \in Addr \X Addr
  BY StrictFacts
<1>4. PhaseInv
  <2>1. added \in BOOLEAN /\ ~added
    BY Zenon
  <2>2. TypeOK
    BY <1>2, <2>1 DEF TypeOK, Entry
  <2> QED
    BY <2>1, <2>2 DEF PhaseInv
<1>5. StrictInv /\ HopsInv /\ DistInv /\ RoutesChain /\ RoundInv /\ WillInv
  BY <1>1, <1>3 DEF StrictInv, HopsInv, DistInv, RoutesChain, RoundInv, WillInv, Dest
<1> QED
  BY <1>4, <1>5 DEF IInv

\* Steps that leave the table alone, or fill it for the first time.
LEMMA OneHopStep == ASSUME IInv, OneHopRoutes PROVE IInv'
<1>1. GoodTables /\ pc = "start" /\ rt = [a \in Dest |-> NoRoute] /\ h = 2 /\ ~added
  BY DEF IInv, PhaseInv, TypeOK, OneHopRoutes
<1>2. GoodTables' /\ Strict' = Strict /\ (\A n : Sym(n)' <=> Sym(n)) /\ UNCHANGED tables
  BY <1>1, TablesFixed DEF OneHopRoutes
<1>3. \A t \in Strict : /\ t \in Addr \X Addr
                        /\ Sym(t[1]) /\ ~Sym(t[2])
                        /\ main[t[2]] = t[2]
                        /\ LinksOf(t[1]) # {}
  BY <1>1, StrictFacts
<1>4. PICK lt \in [Indirect -> links] :
        /\ \A n \in Indirect : lt[n] \in LinksOf(n)
        /\ rt' = [a \in Dest |->
             IF a \in Direct THEN [dist |-> 1, next |-> a, route |-> <<>>]
             ELSE IF a \in Indirect THEN [dist |-> 1, next |-> lt[a], route |-> <<>>]
             ELSE NoRoute]
  BY DEF OneHopRoutes
<1>5. links \subseteq Addr /\ main \in [Addr -> Addr] /\ (\A a \in Addr : main[main[a]] = main[a])
  BY <1>1 DEF GoodTables
<1> DEFINE direct(a) == a \in links /\ Sym(main[a])
           via(a)    == a \in Addr /\ Sym(a) /\ LinksOf(a) # {}
           one(a)    == [dist |-> 1, next |-> a, route |-> <<>>]
<1>6. /\ \A a \in Dest : direct(a) => rt'[a] = one(a)
      /\ \A a \in Dest : ~direct(a) /\ via(a) => rt'[a] = one(lt[a])
      /\ \A a \in Dest : ~direct(a) /\ ~via(a) => rt'[a] = NoRoute
  BY <1>4 DEF Direct, Indirect
<1>a. \A a \in Dest : /\ one(a).dist = 1 /\ one(a).next = a /\ one(a).route = <<>>
                      /\ one(a) \in Entry
  BY DEF Entry
<1>b. NoRoute \in Entry /\ NoRoute.dist = 0
  BY DEF NoRoute, Entry, Dest
<1>c. \A a \in Dest : ~direct(a) /\ via(a) =>
        lt[a] \in links /\ lt[a] \in Dest /\ lt[a] \in Addr /\ main[lt[a]] = a
  BY <1>4, <1>5 DEF LinksOf, Dest, Direct, Indirect
<1>d. \A t \in Strict : via(t[1]) /\ ~via(t[2]) /\ ~direct(t[2]) /\ t[1] \in Dest /\ t[2] \in Dest
  BY <1>3 DEF Dest
<1>e. \A a \in Dest : /\ direct(a) => Sym(main[a]) /\ a \in Addr /\ a \in links
                      /\ via(a) => Sym(a)
  BY <1>5
<1> HIDE DEF one, via
<1>7. rt' \in [Dest -> Entry]
  <2>1. \A a \in Dest : rt'[a] \in Entry
    BY <1>6, <1>a, <1>b, <1>c
  <2> QED
    BY <1>4, <2>1
<1>8. PhaseInv'
  <2>1. TypeOK'
    BY <1>1, <1>2, <1>7 DEF IInv, PhaseInv, TypeOK, Entry, OneHopRoutes
  <2>2. h' = 2 /\ ~added' /\ pc' = "twohop"
    BY <1>1 DEF OneHopRoutes
  <2> QED
    BY <2>1, <2>2 DEF PhaseInv
<1>9. StrictInv'
  <2>1. \A t \in Strict : rt'[t[1]].dist = 1
    BY <1>6, <1>a, <1>c, <1>d
  <2>2. \A t \in Strict : rt'[t[2]].dist # 1
    BY <1>6, <1>b, <1>d
  <2> QED
    BY <1>2, <2>1, <2>2 DEF StrictInv, OneHopRoutes
<1>10. HopsInv'
  <2> SUFFICES ASSUME NEW a \in Dest, rt'[a].dist > 0
               PROVE  /\ rt'[a].next \in Addr
                      /\ rt'[rt'[a].next].dist = 1
                      /\ rt'[rt'[a].next].next = rt'[a].next
                      /\ rt'[a].dist = 1 => rt'[a].route = <<>>
                      /\ ~(rt'[a].dist >= 2)
    BY DEF HopsInv, Routed
  <2>1. CASE direct(a)
    BY <1>5, <1>6, <1>a, <2>1
  <2>2. CASE ~direct(a)
    <3>1. via(a)
      BY <1>6, <1>b, <2>2
    <3>2. rt'[a] = one(lt[a]) /\ direct(lt[a])
      BY <1>6, <1>c, <1>e, <2>2, <3>1
    <3>3. rt'[lt[a]] = one(lt[a])
      BY <1>6, <1>c, <2>2, <3>1, <3>2
    <3> QED
      BY <1>a, <1>c, <2>2, <3>1, <3>2, <3>3
  <2> QED
    BY <2>1, <2>2
<1>11. \A a \in Dest : rt'[a].dist \in {0, 1}
  BY <1>6, <1>a, <1>b, <1>c
<1>12. DistInv' /\ RoutesChain' /\ RoundInv'
  BY <1>11 DEF DistInv, RoutesChain, RoundInv, OneHopRoutes
<1>13. WillInv'
  <2> SUFFICES ASSUME \A l \in links : main[l] = l, NEW t \in Strict
               PROVE  rt'[t[1]].next = t[1] /\ rt'[t[2]].dist # 2
    BY <1>2 DEF WillInv, tables, OneHopRoutes
  <2>1. direct(t[1])
    BY <1>3, <1>5 DEF LinksOf
  <2> QED
    BY <1>6, <1>11, <1>a, <1>d, <2>1
<1> QED
  BY <1>8, <1>9, <1>10, <1>12, <1>13 DEF IInv

LEMMA TwoHopStep == ASSUME IInv, NEW t \in todo, AddTwoHop(t) PROVE IInv'
<1> DEFINE d == t[2]
           e == TwoHopEntry(d, rt[t[1]].next)
<1>1. TypeOK /\ GoodTables /\ pc = "twohop" /\ h = 2 /\ ~added /\ t \in Strict /\ pc' = pc /\ h' = h
      /\ ~added' /\ todo' = todo \ {t}
  BY DEF IInv, PhaseInv, TypeOK, AddTwoHop
<1>2. GoodTables' /\ Strict' = Strict /\ (\A n : Sym(n)' <=> Sym(n)) /\ UNCHANGED tables
  BY <1>1, TablesFixed DEF AddTwoHop
<1>3. \A u \in Strict : /\ u \in Addr \X Addr
                        /\ Sym(u[1]) /\ u[1] \in Dest /\ u[2] \in Dest
                        /\ rt[u[1]].dist = 1 /\ rt[u[2]].dist # 1
  BY <1>1, StrictFacts DEF IInv, StrictInv, Dest
<1>4. rt \in [Dest -> Entry] /\ \A a \in Dest : rt[a].dist <= 2
  BY <1>1 DEF TypeOK, Entry, IInv, DistInv
<1>5. Routed(t[1]) /\ rt[t[1]].next \in Addr /\ rt[rt[t[1]].next].dist = 1
      /\ rt[rt[t[1]].next].next = rt[t[1]].next
  BY <1>1, <1>3 DEF IInv, HopsInv, Routed
<1>6. e \in Entry /\ e.dist = 2 /\ e.next = rt[t[1]].next /\ e.route = <<e.next>>
  BY <1>5 DEF Entry, TwoHopEntry, Dest
<1>7. CASE ~Better(t)
  <2>1. rt' = rt
    BY <1>7 DEF AddTwoHop
  <2>2. Routed(d) /\ rt[d].dist = 2 /\ Sym(rt[d].next) /\ ~(nb[rt[d].next].will <= nb[t[1]].will)
    BY <1>1, <1>3, <1>4, <1>7 DEF Better, Entry, Routed
  <2>0. TypeOK'
    BY <1>1, <1>2, <2>1 DEF TypeOK, AddTwoHop
  <2>3. PhaseInv' /\ HopsInv' /\ DistInv' /\ RoundInv'
    BY <1>1, <2>0, <2>1 DEF IInv, PhaseInv, HopsInv, DistInv, RoundInv, Routed
  <2>4. StrictInv'
    BY <1>1, <1>2, <2>1, <2>2 DEF IInv, StrictInv
  <2>5. RoutesChain'
    BY <1>2, <2>1 DEF IInv, RoutesChain, Chained, Known, tables
  <2>6. WillInv'
    <3>1. nb[rt[d].next].will \in Nat /\ nb[t[1]].will \in Nat
      BY <1>1, <1>3, <1>4, <2>2 DEF GoodTables, Sym, SymNeighbors
    <3>2. nb[t[1]].will <= nb[rt[d].next].will
      BY <2>2, <3>1
    <3> QED
      BY <1>1, <1>2, <2>1, <3>2 DEF IInv, WillInv, tables
  <2> QED
    BY <2>3, <2>4, <2>5, <2>6 DEF IInv
<1>8. CASE Better(t)
  <2>1. rt' = [rt EXCEPT ![d] = e]
    BY <1>8 DEF AddTwoHop
  <2> HIDE DEF e
  <2>0. d \in Dest
    BY <1>1, <1>3
  <2> HIDE DEF d
  <2>2. rt'[d] = e /\ (\A a \in Dest : a # d => rt'[a] = rt[a]) /\ rt' \in [Dest -> Entry]
    BY <1>4, <1>6, <2>0, <2>1
  <2> USE DEF d
  <2>3. \A u \in Strict : rt'[u[1]] = rt[u[1]]
    BY <1>1, <1>3, <2>2
  <2>4. rt[d].dist # 1 /\ d \in Dest
    BY <1>1, <1>3
  <2>5. PhaseInv'
    <3>1. TypeOK'
      BY <1>1, <1>2, <2>2 DEF TypeOK, Entry, AddTwoHop
    <3> QED
      BY <1>1, <3>1 DEF PhaseInv
  <2>6. StrictInv'
    BY <1>1, <1>2, <1>3, <1>6, <2>2, <2>3 DEF IInv, StrictInv
  <2>7. HopsInv'
    <3> SUFFICES ASSUME NEW a \in Dest, rt'[a].dist > 0
                 PROVE  /\ rt'[a].next \in Addr
                        /\ rt'[rt'[a].next].dist = 1
                        /\ rt'[rt'[a].next].next = rt'[a].next
                        /\ rt'[a].dist = 1 => rt'[a].route = <<>>
                        /\ rt'[a].dist >= 2 => rt'[a].route # <<>> /\ Head(rt'[a].route) = rt'[a].next
      BY DEF HopsInv, Routed
    <3>1. CASE a = d
      BY <1>5, <1>6, <2>2, <2>4, <3>1 DEF Dest
    <3>2. CASE a # d
      <4>1. rt'[a] = rt[a] /\ Routed(a)
        BY <2>2, <3>2 DEF Routed
      <4>2. /\ rt[a].next \in Addr
            /\ rt[rt[a].next].dist = 1
            /\ rt[rt[a].next].next = rt[a].next
            /\ rt[a].dist = 1 => rt[a].route = <<>>
            /\ rt[a].dist >= 2 => rt[a].route # <<>> /\ Head(rt[a].route) = rt[a].next
        BY <4>1 DEF IInv, HopsInv
      <4> QED
        BY <2>2, <2>4, <4>1, <4>2 DEF Dest
    <3> QED
      BY <3>1, <3>2
  <2>8. DistInv' /\ RoundInv'
    BY <1>1, <1>4, <1>6, <2>2 DEF DistInv, RoundInv
  <2>9. RoutesChain'
    <3> SUFFICES ASSUME NEW a \in Dest, rt'[a].dist >= 2
                 PROVE  Chained(a, rt[a])'
      BY DEF RoutesChain
    <3>1. Known(a)' = Known(a) /\ a \in Known(a)
      BY <1>2 DEF Known, tables
    <3>2. rt'[a].dist = 2 /\ Len(rt'[a].route) = 1
          /\ \E u \in Strict : u[2] \in Known(a) /\ rt[u[1]].next = rt'[a].next
      <4>1. CASE a = d
        BY <1>1, <1>6, <2>2, <3>1, <4>1
      <4>2. CASE a # d
        <5>1. rt'[a] = rt[a] /\ rt[a].dist = 2
          BY <1>4, <2>2, <4>2 DEF Entry
        <5>2. Chained(a, rt[a])
          BY <5>1 DEF IInv, RoutesChain
        <5> QED
          BY <5>1, <5>2 DEF Chained
      <4> QED
        BY <4>1, <4>2
    <3> QED
      BY <1>2, <2>3, <3>1, <3>2 DEF Chained
  <2>10. WillInv'
    <3> SUFFICES ASSUME \A l \in links : main[l] = l
                 PROVE  \A u \in Strict :
                          /\ rt'[u[1]].next = u[1]
                          /\ u \notin todo' => nb[u[1]].will <= nb[rt'[u[2]].next].will
                          /\ rt'[u[2]].dist = 2 => rt'[u[2]].next \in Addr /\ Sym(rt'[u[2]].next)
      BY <1>2 DEF WillInv, tables
    <3>1. \A u \in Strict :
            /\ rt[u[1]].next = u[1]
            /\ u \notin todo => nb[u[1]].will <= nb[rt[u[2]].next].will
            /\ rt[u[2]].dist = 2 => rt[u[2]].next \in Addr /\ Sym(rt[u[2]].next)
      BY <1>1 DEF IInv, WillInv
    <3>2. e.next = t[1] /\ Sym(t[1]) /\ t[1] \in Addr
      BY <1>1, <1>3, <1>6, <3>1
    <3>3. \A n \in Addr : nb[n].will \in Nat
      BY <1>1 DEF GoodTables
    <3>4. ASSUME NEW u \in Strict, u \notin todo', u # t
          PROVE  nb[u[1]].will <= nb[rt'[u[2]].next].will
      <4>1. u \notin todo /\ nb[u[1]].will <= nb[rt[u[2]].next].will /\ rt[u[2]].dist = 2
        BY <1>1, <3>1, <3>4 DEF IInv, StrictInv
      <4>2. CASE u[2] = d
        <5>1. Sym(rt[d].next) /\ rt[d].next \in Addr /\ Routed(d)
          BY <3>1, <4>1, <4>2 DEF Routed
        <5>2. nb[rt[d].next].will <= nb[t[1]].will
          BY <1>8, <5>1 DEF Better
        <5> QED
          BY <1>3, <2>2, <3>2, <3>3, <4>1, <4>2, <5>1, <5>2
      <4>3. CASE u[2] # d
        BY <1>3, <2>2, <4>1, <4>3
      <4> QED
        BY <4>2, <4>3
    <3>5. nb[t[1]].will <= nb[rt'[t[2]].next].will
      BY <2>2, <3>2, <3>3
    <3> QED
      BY <1>3, <2>2, <2>3, <3>1, <3>2, <3>4, <3>5
  <2> QED
    BY <2>5, <2>6, <2>7, <2>8, <2>9, <2>10 DEF IInv
<1> QED
  BY <1>7, <1>8

-----------------------------------------------------------------------------
\* The rounds of step 4.
LEMMA TopologyStep == ASSUME IInv, NEW t \in topology, AddTopology(t) PROVE IInv'
<1> DEFINE d == t[1]
           e == LongerEntry(t[2])
<1>1. TypeOK /\ GoodTables /\ h \in Nat /\ h >= 2 /\ pc = "topology"
  BY DEF IInv, PhaseInv, TypeOK, AddTopology
<1>2. t[2] \in Addr /\ t[2] \in Dest /\ d \in Dest /\ ~Routed(d) /\ Routed(t[2]) /\ rt[t[2]].dist = h
  BY <1>1 DEF GoodTables, AddTopology, Eligible, Routed, Dest
<1>3. /\ rt[t[2]] \in Entry
      /\ rt[t[2]].route \in Seq(Addr) /\ rt[t[2]].route # <<>>
      /\ Head(rt[t[2]].route) = rt[t[2]].next
      /\ Len(rt[t[2]].route) = h - 1
  BY <1>1, <1>2 DEF TypeOK, Entry, IInv, HopsInv, RoutesChain, Chained
<1>4. /\ rt[t[2]].next \in Addr
      /\ rt[rt[t[2]].next].dist = 1
      /\ rt[rt[t[2]].next].next = rt[t[2]].next
  BY <1>2 DEF IInv, HopsInv
<1>5. /\ Append(rt[t[2]].route, t[2]) \in Seq(Addr)
      /\ Append(rt[t[2]].route, t[2]) # <<>>
      /\ Head(Append(rt[t[2]].route, t[2])) = rt[t[2]].next
      /\ Len(Append(rt[t[2]].route, t[2])) = h
  BY <1>1, <1>2, <1>3
<1>6. /\ e.dist = h + 1 /\ e.next = rt[t[2]].next /\ e.route = Append(rt[t[2]].route, t[2])
      /\ e \in Entry
  BY <1>1, <1>4, <1>5 DEF LongerEntry, Entry, Dest
<1>7. rt' = [rt EXCEPT ![d] = e] /\ UNCHANGED <<tables, todo, h, pc>> /\ added' = TRUE
  BY DEF AddTopology
<1>8. Chained(d, e)
  BY <1>1, <1>2, <1>5, <1>6 DEF Chained, Known
<1> HIDE DEF e
<1>9. /\ e.next \in Addr /\ rt[e.next].dist = 1 /\ rt[e.next].next = e.next
      /\ e.dist >= 1 /\ e.dist <= h + 1 /\ e.dist # 1
      /\ e.route # <<>> /\ Head(e.route) = e.next
  BY <1>1, <1>4, <1>5, <1>6
<1> HIDE DEF d
<1> QED
  BY <1>1, <1>2, <1>6, <1>7, <1>8, <1>9, AddMissing

LEMMA AssocStep == ASSUME IInv, NEW a \in Addr, AddAssoc(a) PROVE IInv'
<1> DEFINE e == rt[main[a]]
<1>1. TypeOK /\ GoodTables /\ h \in Nat /\ h >= 2 /\ pc = "assoc"
  BY DEF IInv, PhaseInv, TypeOK, AddAssoc
<1>2. a \in Dest /\ main[a] \in Addr /\ main[a] \in Dest /\ main[a] # a /\ ~Routed(a) /\ Routed(main[a])
      /\ main[main[a]] = main[a]
  BY <1>1 DEF GoodTables, AddAssoc, Aliased, Dest
<1>3. e \in Entry /\ e.dist >= 1 /\ e.dist <= h + 1
  BY <1>1, <1>2 DEF TypeOK, Entry, IInv, RoundInv, Routed
<1>4. /\ e.next \in Addr
      /\ rt[e.next].dist = 1
      /\ rt[e.next].next = e.next
      /\ e.dist = 1 => e.route = <<>>
      /\ e.dist >= 2 => e.route # <<>> /\ Head(e.route) = e.next
  BY <1>2 DEF IInv, HopsInv
<1>5. rt' = [rt EXCEPT ![a] = e] /\ UNCHANGED <<tables, todo, h, pc>> /\ added' = TRUE
  BY DEF AddAssoc
<1>6. e.dist >= 2 => Chained(a, e)
  <2>1. Known(main[a]) \subseteq Known(a)
    BY <1>2 DEF Known
  <2>2. e.dist >= 2 => Chained(main[a], e)
    BY <1>2 DEF IInv, RoutesChain
  <2> QED
    BY <2>1, <2>2 DEF Chained
<1>7. \A t \in topology : t[2] # a
  BY <1>1, <1>2 DEF GoodTables
<1> HIDE DEF e
<1> QED
  BY <1>1, <1>2, <1>3, <1>4, <1>5, <1>6, <1>7, AddMissing

\* What the invariant says of the table does not depend on the phase.
LEMMA TableKept ==
  ASSUME IInv, UNCHANGED <<tables, rt>>
  PROVE  HopsInv' /\ RoutesChain' /\ GoodTables' /\ Strict' = Strict /\ UNCHANGED tables
<1>1. GoodTables' /\ Strict' = Strict /\ UNCHANGED tables
  BY TablesFixed DEF IInv, PhaseInv, TypeOK
<1>2. HopsInv'
  BY DEF IInv, HopsInv, Routed
<1>3. RoutesChain'
  BY <1>1 DEF IInv, RoutesChain, Chained, Known, tables
<1> QED
  BY <1>1, <1>2, <1>3

LEMMA PhaseStep ==
  ASSUME IInv, StartRounds \/ EndTopology \/ NextRound \/ Return
  PROVE  IInv'
<1>1. TypeOK /\ h \in Nat /\ h >= 2 /\ todo \subseteq Strict
      /\ pc \in {"twohop", "topology", "assoc"}
      /\ (pc = "twohop" => h = 2 /\ ~added)
      /\ (pc # "twohop" => todo = {})
      /\ rt \in [Dest -> Entry]
  BY DEF IInv, PhaseInv, TypeOK, Entry, StartRounds, EndTopology, NextRound, Return
<1>2. UNCHANGED <<tables, rt, todo>>
  BY DEF StartRounds, EndTopology, NextRound, Return
<1>3. HopsInv' /\ RoutesChain' /\ GoodTables' /\ Strict' = Strict /\ UNCHANGED tables
      /\ (\A n : Sym(n)' <=> Sym(n))
  BY <1>1, <1>2, TableKept, TablesFixed DEF TypeOK
<1>4. /\ \A t \in Strict : rt[t[1]].dist = 1 /\ rt[t[2]].dist # 1
      /\ \A t \in Strict \ todo : rt[t[2]].dist = 2
  BY <1>1 DEF IInv, StrictInv
<1>5. pc' # "start" /\ pc' # "twohop" /\ todo = {} /\ h' \in Nat /\ h' >= 2
      /\ pc' \in {"topology", "assoc", "done"}
  BY <1>1 DEF StartRounds, EndTopology, NextRound, Return
<1>6. added' \in BOOLEAN
  <2>1. added' = added \/ added' = FALSE
    BY DEF StartRounds, EndTopology, NextRound, Return
  <2> QED
    BY <1>1, <2>1 DEF TypeOK
<1>7. PhaseInv'
  <2>1. TypeOK'
    BY <1>1, <1>2, <1>3, <1>5, <1>6 DEF TypeOK
  <2> QED
    BY <1>2, <1>5, <2>1 DEF PhaseInv
<1>8. StrictInv' /\ DistInv' /\ WillInv'
  BY <1>1, <1>2, <1>3, <1>4, <1>5 DEF StrictInv, DistInv, WillInv, IInv, tables
<1>9. \A t \in topology : t[1] \in Dest /\ t[2] \in Dest /\ rt[t[2]].dist \in Nat
  BY <1>1 DEF TypeOK, GoodTables, Dest, Entry
<1>10. RoundInv'
  <2>1. CASE StartRounds
    <3>1. pc' = "topology" /\ h' = 2 /\ \A a \in Dest : rt'[a].dist <= 2
      BY <1>1, <2>1 DEF StartRounds, IInv, DistInv
    <3>2. \A a \in Dest : rt'[a].dist <= h' + 1
      BY <1>1, <1>2, <3>1 DEF Entry
    <3>3. \A t \in topology : ~(2 <= rt'[t[2]].dist /\ rt'[t[2]].dist < h')
      BY <1>2, <1>9, <3>1
    <3> QED
      BY <1>3, <3>1, <3>2, <3>3 DEF RoundInv, tables
  <2>2. CASE EndTopology
    <3>1. /\ pc = "topology" /\ pc' = "assoc" /\ h' = h /\ added' = added
          /\ \A t \in topology : Routed(t[1]) \/ rt[t[2]].dist # h
          /\ \A a \in Dest : rt[a].dist <= h + 1
          /\ (~added => \A a \in Dest : rt[a].dist <= h)
          /\ \A t \in topology : 2 <= rt[t[2]].dist /\ rt[t[2]].dist < h => Settled(t)
      BY <2>2 DEF EndTopology, Eligible, IInv, RoundInv
    <3>2. \A t \in topology : rt[t[2]].dist = h => Settled(t)
      BY <1>9, <3>1 DEF Settled
    <3>3. \A t \in topology : Settled(t)' <=> Settled(t)
      BY <1>2 DEF Settled, Routed
    <3> QED
      BY <1>2, <1>3, <3>1, <3>2, <3>3 DEF RoundInv, tables
  <2>3. CASE NextRound
    <3>1. /\ pc' = "topology" /\ h' = h + 1
          /\ \A a \in Dest : rt[a].dist <= h + 1
          /\ \A t \in topology : 2 <= rt[t[2]].dist /\ rt[t[2]].dist < h => Settled(t)
          /\ \A t \in topology : rt[t[2]].dist = h => Settled(t)
      BY <2>3 DEF NextRound, IInv, RoundInv
    <3>2. \A a \in Dest : rt[a].dist <= h' /\ rt[a].dist <= h' + 1
      BY <1>1, <3>1 DEF Entry
    <3>3. \A t \in topology : 2 <= rt[t[2]].dist /\ rt[t[2]].dist < h' => Settled(t)
      BY <1>1, <1>9, <3>1
    <3>4. \A t \in topology : Settled(t)' <=> Settled(t)
      BY <1>2 DEF Settled, Routed
    <3> QED
      BY <1>2, <1>3, <3>1, <3>2, <3>3, <3>4 DEF RoundInv, tables
  <2>4. CASE Return
    <3>1. /\ pc' = "done"
          /\ \A a \in Addr : ~Aliased(a)
          /\ \A a \in Dest : rt[a].dist <= h
          /\ \A t \in topology : 2 <= rt[t[2]].dist /\ rt[t[2]].dist < h => Settled(t)
          /\ \A t \in topology : rt[t[2]].dist = h => Settled(t)
      BY <2>4 DEF Return, IInv, RoundInv
    <3>2. \A t \in topology : rt[t[2]].dist >= 2 => Settled(t)
      BY <1>1, <1>9, <3>1
    <3>3. \A a \in Addr : Routed(main[a]) => Routed(a)
      BY <3>1 DEF Aliased
    <3>4. ShortestRoutes'
      BY <1>2, <1>3, <1>4, <1>5, <3>2, <3>3 DEF ShortestRoutes, Settled, Routed, tables
    <3> QED
      BY <3>1, <3>4 DEF RoundInv
  <2> QED
    BY <2>1, <2>2, <2>3, <2>4
<1> QED
  BY <1>3, <1>7, <1>8, <1>10 DEF IInv

LEMMA StutterStep == ASSUME IInv, UNCHANGED vars PROVE IInv'
<1>1. UNCHANGED <<tables, rt, todo, h, added, pc>>
  BY DEF vars, tables
<1>2. HopsInv' /\ RoutesChain' /\ GoodTables' /\ Strict' = Strict /\ UNCHANGED tables
      /\ (\A n : Sym(n)' <=> Sym(n))
  BY <1>1, TableKept, TablesFixed DEF IInv, PhaseInv, TypeOK
<1>3. PhaseInv' /\ StrictInv' /\ DistInv' /\ WillInv'
  BY <1>1, <1>2 DEF IInv, PhaseInv, TypeOK, StrictInv, DistInv, WillInv, tables
<1>4. RoundInv'
  BY <1>1, <1>2 DEF IInv, RoundInv, Settled, Routed, ShortestRoutes, tables
<1> QED
  BY <1>2, <1>3, <1>4 DEF IInv

-----------------------------------------------------------------------------
\* IInv is an invariant of rtable_computation, whatever the tables.
THEOREM RtableInvariant == Spec => []IInv
<1>1. IInv /\ [Next]_vars => IInv'
  <2> SUFFICES ASSUME IInv, [Next]_vars PROVE IInv'
    OBVIOUS
  <2>1. CASE OneHopRoutes
    BY <2>1, OneHopStep
  <2>2. CASE \E t \in todo : AddTwoHop(t)
    BY <2>2, TwoHopStep
  <2>3. CASE \E t \in topology : AddTopology(t)
    BY <2>3, TopologyStep
  <2>4. CASE \E a \in Addr : AddAssoc(a)
    BY <2>4, AssocStep
  <2>5. CASE StartRounds \/ EndTopology \/ NextRound \/ Return
    BY <2>5, PhaseStep
  <2>6. CASE UNCHANGED vars
    BY <2>6, StutterStep
  <2> QED
    BY <2>1, <2>2, <2>3, <2>4, <2>5, <2>6 DEF Next
<1> QED
  BY <1>1, InitInv, PTL DEF Spec

\* Types, and that the repositories stay good throughout.
THEOREM TypeCorrect == Spec => []TypeOK
<1>1. IInv => TypeOK
  BY DEF IInv, PhaseInv
<1> QED
  BY <1>1, RtableInvariant, PTL

\* getNextHop never throws "OLSR Data base error": the entry find_send_entry
\* returns is the first hop of the route.
THEOREM NextHopsConsistent == Spec => []NextHopConsistent
<1>1. IInv => NextHopConsistent
  <2> SUFFICES ASSUME IInv, NEW a \in Dest, Routed(a)
               PROVE  /\ Routed(rt[a].next)
                      /\ rt[rt[a].next].next = rt[a].next
                      /\ SendEntry(a).next = FirstHop(a)
    BY DEF NextHopConsistent
  <2>1. /\ rt[rt[a].next].dist = 1
        /\ rt[rt[a].next].next = rt[a].next
        /\ rt[a].dist = 1 => rt[a].route = <<>>
        /\ rt[a].dist >= 2 => rt[a].route # <<>> /\ Head(rt[a].route) = rt[a].next
        /\ rt[a].dist \in Nat /\ rt[a].dist > 0
    BY DEF IInv, HopsInv, PhaseInv, TypeOK, Routed
  <2> QED
    BY <2>1 DEF Routed, SendEntry, FirstHop
<1> QED
  BY <1>1, RtableInvariant, PTL

\* Every route of the table is built from known links and from the route of
\* its last intermediate node.
THEOREM RoutesAreChains == Spec => []RoutesChain
<1>1. IInv => RoutesChain
  BY DEF IInv
<1> QED
  BY <1>1, RtableInvariant, PTL

\* The table returned is that of a breadth-first search over the known links.
THEOREM RoutesAreShortest == Spec => []ShortestRoutes
<1>1. IInv => ShortestRoutes
  BY DEF IInv, RoundInv, ShortestRoutes
<1> QED
  BY <1>1, RtableInvariant, PTL

\* Two-hop routes go over the most willing of the neighbours that offer them.
THEOREM WillingNextHops == Spec => []MostWillingNextHop
<1>1. IInv => MostWillingNextHop
  BY DEF IInv, PhaseInv, WillInv, MostWillingNextHop
<1> QED
  BY <1>1, RtableInvariant, PTL

-----------------------------------------------------------------------------
\* Destinations that have an entry.
RoutedSet == {a \in Dest : Routed(a)}

\* Every round that is over has added an entry, and so has the one under way
\* when it says so.
RoundsInv ==
  pc \in {"topology", "assoc", "done"} =>
    h + (IF added THEN 1 ELSE 0) <= Cardinality(RoutedSet) + 2

\* The loops of step 4 keep the entries there are, and add one or leave the
\* table alone.
LEMMA EntriesKept ==
  ASSUME IInv, [Next]_vars, pc \in {"topology", "assoc"}
  PROVE  /\ \A a \in Dest : Routed(a) => rt'[a] = rt[a]
         /\ RoutedSet \subseteq RoutedSet'
         /\ (\E t \in topology : AddTopology(t)) \/ (\E a \in Addr : AddAssoc(a))
              => \E d \in Dest : d \notin RoutedSet /\ d \in RoutedSet'
<1>1. GoodTables /\ rt \in [Dest -> Entry] /\ h \in Nat /\ todo = {}
  BY DEF IInv, PhaseInv, TypeOK, Entry
<1>2. ASSUME UNCHANGED rt, UNCHANGED pc \/ UNCHANGED todo
      PROVE  (\A a \in Dest : Routed(a) => rt'[a] = rt[a]) /\ RoutedSet \subseteq RoutedSet'
  BY <1>2 DEF RoutedSet, Routed
<1>3. ASSUME NEW d \in Dest, NEW e, ~Routed(d), e.dist > 0, rt' = [rt EXCEPT ![d] = e]
      PROVE  /\ \A a \in Dest : Routed(a) => rt'[a] = rt[a]
             /\ RoutedSet \subseteq RoutedSet'
             /\ d \notin RoutedSet /\ d \in RoutedSet'
  <2>1. rt'[d] = e /\ \A a \in Dest : a # d => rt'[a] = rt[a]
    BY <1>1, <1>3
  <2> QED
    BY <1>3, <2>1 DEF RoutedSet, Routed
<1>4. CASE \E t \in topology : AddTopology(t)
  <2>1. PICK t \in topology : AddTopology(t)
    BY <1>4
  <2>2. t[1] \in Dest /\ ~Routed(t[1]) /\ rt' = [rt EXCEPT ![t[1]] = LongerEntry(t[2])]
    BY <1>1, <2>1 DEF AddTopology, Eligible, GoodTables
  <2>3. LongerEntry(t[2]).dist > 0
    BY <1>1 DEF LongerEntry
  <2> QED
    BY <1>3, <2>2, <2>3
<1>5. CASE \E a \in Addr : AddAssoc(a)
  <2>1. PICK a \in Addr : AddAssoc(a)
    BY <1>5
  <2>2. a \in Dest /\ ~Routed(a) /\ rt[main[a]].dist > 0 /\ rt' = [rt EXCEPT ![a] = rt[main[a]]]
    BY <2>1 DEF AddAssoc, Aliased, Routed, Dest
  <2> QED
    BY <1>3, <2>2
<1>6. CASE EndTopology \/ NextRound \/ Return \/ UNCHANGED vars
  <2>1. UNCHANGED rt
    BY <1>6 DEF EndTopology, NextRound, Return, vars
  <2>2. /\ \A t \in topology : ~AddTopology(t)
        /\ \A a \in Addr : ~AddAssoc(a)
    <3>1. CASE UNCHANGED vars
      <4>1. ASSUME NEW d \in Dest, NEW e, ~Routed(d), e.dist > 0, rt' = [rt EXCEPT ![d] = e]
            PROVE  FALSE
        BY <1>3, <2>1, <4>1 DEF RoutedSet, Routed
      <4>2. ASSUME NEW t \in topology, AddTopology(t) PROVE FALSE
        <5>1. t[1] \in Dest /\ ~Routed(t[1]) /\ rt' = [rt EXCEPT ![t[1]] = LongerEntry(t[2])]
          BY <1>1, <4>2 DEF AddTopology, Eligible, GoodTables
        <5>2. LongerEntry(t[2]).dist > 0
          BY <1>1 DEF LongerEntry
        <5> QED
          BY <4>1, <5>1, <5>2
      <4>3. ASSUME NEW a \in Addr, AddAssoc(a) PROVE FALSE
        BY <4>1, <4>3 DEF AddAssoc, Aliased, Routed, Dest
      <4> QED
        BY <4>2, <4>3
    <3>2. CASE EndTopology \/ NextRound \/ Return
      BY <3>2 DEF EndTopology, NextRound, Return, AddTopology, AddAssoc
    <3> QED
      BY <1>6, <3>1, <3>2
  <2>3. UNCHANGED RoutedSet /\ \A a \in Dest : rt'[a] = rt[a]
    BY <2>1 DEF RoutedSet, Routed
  <2> QED
    BY <2>2, <2>3
<1>7. ~OneHopRoutes /\ ~StartRounds /\ \A t \in todo : ~AddTwoHop(t)
  BY <1>1 DEF OneHopRoutes, StartRounds
<1> QED
  BY <1>4, <1>5, <1>6, <1>7 DEF Next

\* do ... while in step 4: however the vectors are ordered, the rounds are no
\* more than the destinations and one that finds nothing.
THEOREM RtableRoundsBounded ==
  ASSUME IsFiniteSet(Addr)
  PROVE  Spec => [](h <= Cardinality(Dest) + 2)
<1>1. IsFiniteSet(Dest) /\ Cardinality(Dest) \in Nat
  BY FS_AddElement, FS_CardinalityType DEF Dest
<1>2. /\ IsFiniteSet(RoutedSet) /\ IsFiniteSet(RoutedSet')
      /\ Cardinality(RoutedSet) \in Nat /\ Cardinality(RoutedSet') \in Nat
      /\ Cardinality(RoutedSet) <= Cardinality(Dest)
  <2>1. RoutedSet \in SUBSET Dest /\ RoutedSet' \in SUBSET Dest
    BY DEF RoutedSet
  <2> QED
    BY <1>1, <2>1, FS_Subset, FS_CardinalityType
<1>3. Init => RoundsInv
  BY DEF Init, StartOfCall, RoundsInv
<1>4. IInv /\ RoundsInv /\ [Next]_vars => RoundsInv'
  <2> SUFFICES ASSUME IInv, RoundsInv, [Next]_vars PROVE RoundsInv'
    OBVIOUS
  <2>0. h \in Nat /\ added \in BOOLEAN
    BY DEF IInv, PhaseInv, TypeOK
  <2>1. CASE pc = "start"
    BY <2>1 DEF Next, OneHopRoutes, AddTwoHop, StartRounds, AddTopology, EndTopology,
                AddAssoc, NextRound, Return, vars, RoundsInv
  <2>2. CASE pc = "twohop"
    <3>1. h = 2 /\ ~added
      BY <2>2 DEF IInv, PhaseInv
    <3>2. h' = h /\ added' = added
      BY <2>2 DEF Next, OneHopRoutes, AddTwoHop, StartRounds, AddTopology, EndTopology,
                  AddAssoc, NextRound, Return, vars
    <3> QED
      BY <1>2, <3>1, <3>2 DEF RoundsInv
  <2>3. CASE pc \in {"topology", "assoc"}
    <3>1. RoutedSet \subseteq RoutedSet'
      BY <2>3, EntriesKept
    <3>2. Cardinality(RoutedSet) <= Cardinality(RoutedSet')
      BY <1>2, <3>1, FS_Subset
    <3>3. h + (IF added THEN 1 ELSE 0) <= Cardinality(RoutedSet) + 2
      BY <2>3 DEF RoundsInv
    <3>4. CASE (\E t \in topology : AddTopology(t)) \/ (\E a \in Addr : AddAssoc(a))
      <4>1. PICK d \in Dest : d \notin RoutedSet /\ d \in RoutedSet'
        BY <2>3, <3>4, EntriesKept
      <4>2. /\ IsFiniteSet(RoutedSet \cup {d})
            /\ Cardinality(RoutedSet \cup {d}) = Cardinality(RoutedSet) + 1
        BY <1>2, <4>1, FS_AddElement
      <4>3. Cardinality(RoutedSet \cup {d}) <= Cardinality(RoutedSet')
        <5>1. RoutedSet \cup {d} \in SUBSET RoutedSet'
          BY <3>1, <4>1
        <5> QED
          BY <1>2, <5>1, FS_Subset
      <4>4. h' = h
        BY <3>4 DEF AddTopology, AddAssoc
      <4>5. h' + (IF added' THEN 1 ELSE 0) <= Cardinality(RoutedSet') + 2
        <5>1. h + 1 <= Cardinality(RoutedSet') + 2
          BY <1>2, <2>0, <3>3, <4>2, <4>3
        <5> QED
          BY <1>2, <2>0, <4>4, <5>1
      <4> QED
        BY <4>5 DEF RoundsInv
    <3>5. CASE EndTopology \/ Return \/ UNCHANGED vars
      <4>1. h' = h /\ added' = added
        BY <3>5 DEF EndTopology, Return, vars
      <4> QED
        BY <1>2, <2>0, <3>2, <3>3, <4>1 DEF RoundsInv
    <3>6. CASE NextRound
      BY <1>2, <2>0, <3>2, <3>3, <3>6 DEF RoundsInv, NextRound
    <3>7. ~OneHopRoutes /\ ~StartRounds /\ \A t \in todo : ~AddTwoHop(t)
      BY <2>3 DEF OneHopRoutes, StartRounds, AddTwoHop
    <3> QED
      BY <3>4, <3>5, <3>6, <3>7 DEF Next
  <2>4. CASE pc = "done"
    <3>1. UNCHANGED <<rt, h, added, pc>>
      BY <2>4 DEF Next, OneHopRoutes, AddTwoHop, StartRounds, AddTopology, EndTopology,
                  AddAssoc, NextRound, Return, vars
    <3>2. RoutedSet' = RoutedSet
      BY <3>1 DEF RoutedSet, Routed
    <3> QED
      BY <3>1, <3>2 DEF RoundsInv
  <2> QED
    BY <2>1, <2>2, <2>3, <2>4 DEF IInv, PhaseInv, TypeOK
<1>5. IInv /\ RoundsInv => h <= Cardinality(Dest) + 2
  <2> SUFFICES ASSUME IInv, RoundsInv PROVE h <= Cardinality(Dest) + 2
    OBVIOUS
  <2>1. h \in Nat /\ (pc \in {"start", "twohop"} => h = 2)
    BY DEF IInv, PhaseInv, TypeOK
  <2>2. CASE pc \in {"start", "twohop"}
    BY <1>1, <2>1, <2>2
  <2>3. CASE pc \in {"topology", "assoc", "done"}
    BY <1>1, <1>2, <2>1, <2>3 DEF RoundsInv
  <2> QED
    BY <2>2, <2>3 DEF IInv, PhaseInv, TypeOK
<1> QED
  BY <1>3, <1>4, <1>5, RtableInvariant, PTL DEF Spec

-----------------------------------------------------------------------------
\* What a step of the computation achieves: the one-hop routes, one 2-hop
\* tuple less, a destination more, or the end of a loop.  From the first
\* round on no entry is replaced or lost.
Progress ==
  \/ pc = "start"    /\ pc' = "twohop"
  \/ pc = "twohop"   /\ pc' = "twohop"   /\ todo' \subseteq todo /\ todo' # todo
  \/ pc = "twohop"   /\ pc' = "topology" /\ rt' = rt
  \/ /\ pc \in {"topology", "assoc"} /\ pc' = pc /\ h' = h
     /\ RoutedSet \subseteq RoutedSet' /\ RoutedSet' # RoutedSet
     /\ \A a \in RoutedSet : rt'[a] = rt[a]
  \/ pc = "topology" /\ pc' = "assoc"    /\ rt' = rt /\ h' = h
  \/ pc = "assoc"    /\ pc' = "topology" /\ rt' = rt /\ h' = h + 1
  \/ pc = "assoc"    /\ pc' = "done"     /\ rt' = rt /\ h' = h

\* With RtableRoundsBounded: rtable_computation has no way to run forever, and
\* an entry that steps 4 and 5 find or write is final.
THEOREM RtableAdvances == Spec => [][Progress]_vars
<1>1. IInv /\ [Next]_vars => [Progress]_vars
  <2> SUFFICES ASSUME IInv, Next PROVE Progress
    BY DEF vars
  <2>1. CASE OneHopRoutes
    BY <2>1 DEF OneHopRoutes, Progress
  <2>2. CASE \E t \in todo : AddTwoHop(t)
    BY <2>2 DEF AddTwoHop, Progress
  <2>3. CASE StartRounds
    BY <2>3 DEF StartRounds, Progress
  <2>4. CASE (\E t \in topology : AddTopology(t)) \/ (\E a \in Addr : AddAssoc(a))
    <3>1. pc \in {"topology", "assoc"} /\ pc' = pc /\ h' = h
      BY <2>4 DEF AddTopology, AddAssoc
    <3>2. /\ RoutedSet \subseteq RoutedSet' /\ RoutedSet' # RoutedSet
          /\ \A a \in RoutedSet : rt'[a] = rt[a]
      BY <2>4, <3>1, EntriesKept DEF RoutedSet
    <3> QED
      BY <3>1, <3>2 DEF Progress
  <2>5. CASE EndTopology
    BY <2>5 DEF EndTopology, Progress
  <2>6. CASE NextRound
    BY <2>6 DEF NextRound, Progress
  <2>7. CASE Return
    BY <2>7 DEF Return, Progress
  <2> QED
    BY <2>1, <2>2, <2>3, <2>4, <2>5, <2>6, <2>7 DEF Next
<1> QED
  BY <1>1, RtableInvariant, PTL DEF Spec

=============================================================================
