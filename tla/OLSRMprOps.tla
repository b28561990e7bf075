----------------------------- MODULE OLSRMprOps -----------------------------
(***************************************************************************)
(* The selection steps of OLSR::mpr_computation as operators over the      *)
(* node's neighbour set and 2-hop neighbour set.                           *)
(*                                                                         *)
(* A neighbour set is a function "nb" from neighbour addresses to records  *)
(* [status, will]; addresses without a neighbour tuple have status "NONE". *)
(* A 2-hop neighbour set is a set of pairs <<nb_main_addr, nb2hop_addr>>.  *)
(* The order of the C++ vectors only decides between equally good          *)
(* neighbours; MaxReach returns all of them.                               *)
(*                                                                         *)
(* A definition whose name ends in Slip is the one that follows it with a  *)
(* plausible programming error; the specification never uses it.           *)
(***************************************************************************)
EXTENDS Naturals, FiniteSets

WillNever  == 0   \* OLSR_WILL_NEVER
WillAlways == 7   \* OLSR_WILL_ALWAYS

\* N: the neighbours whose status is SYM.
SymNeighbors(nb) == {n \in DOMAIN nb : nb[n].status = "SYM"}

\* The check on WILL_NEVER neighbours is forgotten.
StrictTwoHopSlip(nb, twohop, local) ==
  {t \in twohop : /\ t[2] \notin local
                  /\ t[1] \in SymNeighbors(nb)
                  /\ t[2] \notin SymNeighbors(nb)}

\* N2: the 2-hop tuples that an MPR has to cover.  A tuple is left out when
\* it leads to the node itself or to a symmetric neighbour, or when it comes
\* from a neighbour that is not symmetric or never forwards.
StrictTwoHop(nb, twohop, local) ==
  {t \in twohop : /\ t[2] \notin local
                  /\ t[1] \in SymNeighbors(nb)
                  /\ nb[t[1]].will # WillNever
                  /\ t[2] \notin SymNeighbors(nb)}

\* The 2-hop addresses that neighbour n leads to.
ReachedBy(n, twohop) == {t[2] : t \in {u \in twohop : u[1] = n}}

\* CoverTwoHopNeighbors: every record of an address that n leads to goes.
CoverTwoHopNeighbors(n, N2) == {t \in N2 : t[2] \notin ReachedBy(n, N2)}

AlwaysWilling(nb) == {n \in SymNeighbors(nb) : nb[n].will = WillAlways}

\* The 2-hop address is inserted in place of the neighbour's.
SoleProvidersSlip(N2) ==
  {t[2] : t \in {u \in N2 : \A v \in N2 : v[2] = u[2] => v[1] = u[1]}}

\* Step 3: the neighbours that alone lead to some address of N2.
SoleProviders(N2) ==
  {t[1] : t \in {u \in N2 : \A v \in N2 : v[2] = u[2] => v[1] = u[1]}}

\* D(y) of RFC 3626: 2-hop tuples of n whose address has no neighbour tuple.
degree(n, nb, twohop) ==
  Cardinality({t \in twohop : /\ t[1] = n
                              /\ \/ t[2] \notin DOMAIN nb
                                 \/ nb[t[2]].status = "NONE"})

reachability(n, N2) == Cardinality({t \in N2 : t[1] = n})

\* Reachability is compared before willingness.
NoWorseSlip(m, n, nb, twohop, N2) ==
  \/ reachability(m, N2) > reachability(n, N2)
  \/ /\ reachability(m, N2) = reachability(n, N2)
     /\ nb[m].will >= nb[n].will

\* Neighbour m is not worse than n: willingness, reachability, then degree.
NoWorse(m, n, nb, twohop, N2) ==
  \/ nb[m].will > nb[n].will
  \/ /\ nb[m].will = nb[n].will
     /\ \/ reachability(m, N2) > reachability(n, N2)
        \/ /\ reachability(m, N2) = reachability(n, N2)
           /\ degree(m, nb, twohop) >= degree(n, nb, twohop)

\* Neighbours with reachability zero are not skipped.
MaxReachSlip(nb, twohop, N2) ==
  {m \in SymNeighbors(nb) :
     \A n \in SymNeighbors(nb) : NoWorse(m, n, nb, twohop, N2)}

\* Step 4.2: the candidates among which the scan of "rs" settles.
MaxReach(nb, twohop, N2) ==
  LET useful == {n \in SymNeighbors(nb) : \E t \in N2 : t[1] = n}
  IN  {m \in useful : \A n \in useful : NoWorse(m, n, nb, twohop, N2)}

\* Steps 1 and 3 as one function of N2: who is elected, what is left.
AfterAlways(nb, N2) ==
  {t \in N2 : \A n \in AlwaysWilling(nb) : t[2] \notin ReachedBy(n, N2)}

AfterSole(N2) ==
  {t \in N2 : \A n \in SoleProviders(N2) : t[2] \notin ReachedBy(n, N2)}

\* The sets of neighbours that step 4 may elect, starting from S.
GreedyElections(nb, twohop, S) ==
  LET elect[R \in SUBSET S] ==
        IF R = {} THEN {{}}
        ELSE UNION {{{m} \cup rest : rest \in elect[CoverTwoHopNeighbors(m, R)]} :
                      m \in MaxReach(nb, twohop, R)}
  IN  elect[S]

\* The MPR sets that mpr_computation may return.
MprSelections(nb, twohop, local) ==
  LET afterAlways == AfterAlways(nb, StrictTwoHop(nb, twohop, local))
      fixed       == AlwaysWilling(nb) \cup SoleProviders(afterAlways)
  IN  {M \in SUBSET SymNeighbors(nb) :
         \E G \in GreedyElections(nb, twohop, AfterSole(afterAlways)) :
           M = fixed \cup G}

=============================================================================
