----------------------------- MODULE OLSRRtable -----------------------------
(***************************************************************************)
(* OLSR::rtable_computation as a state machine, with the lookups that the  *)
(* rest of the program makes in its result, getNextHop and getRoute.       *)
(*                                                                         *)
(* The function clears rtable_ and rebuilds it from the repositories, which *)
(* do not change while it runs: one-hop routes from the neighbour and link *)
(* sets, two-hop routes from the 2-hop set, then rounds h = 2, 3, ... that *)
(* add routes of length h+1 from the topology set and routes to further    *)
(* interface addresses.  The order of the C++ vectors is left open: within *)
(* a loop the tuples come in any order, each once.  A pass over the        *)
(* topology set adds entries at distance h+1 only, which do not make       *)
(* further tuples eligible in the same pass, so "any order" is a set of    *)
(* eligible tuples to be emptied.                                          *)
(***************************************************************************)
EXTENDS OLSRMprOps, Sequences

CONSTANTS
  Self,      \* ra_addr()
  Addr       \* interface addresses of the other nodes, the main ones included

VARIABLES
  nb,        \* nbset()
  links,     \* nb_iface_addr of the link tuples that are in time
  twohop,    \* nb2hopset(): pairs <<neighbour, 2-hop neighbour>>
  topology,  \* topologyset(): pairs <<T_dest_addr, T_last_addr>>
  main,      \* get_main_addr, from the interface association set
  rt,        \* rtable_: the entry of every destination
  todo,      \* 2-hop tuples the loop of step 3 has still to visit
  h,         \* round of step 4
  added,     \* the round has added an entry
  pc         \* loop the function has reached

tables == <<nb, links, twohop, topology, main>>
vars   == <<nb, links, twohop, topology, main, rt, todo, h, added, pc>>

Dest == Addr \cup {Self}

NoRoute == [dist |-> 0, next |-> Self, route |-> <<>>]

Routed(a) == rt[a].dist > 0

Sym(n)     == n \in SymNeighbors(nb)
LinksOf(n) == {l \in links : main[l] = n}

\* The tuples of step 3: N2 without the check for the node itself, which
\* populate_nb2hopset never records.
Strict == StrictTwoHop(nb, twohop, {})

\* Contents of the repositories.  main: an association maps an interface to
\* the main address of its node, and a main address to itself.  Providers
\* have a link in time (ProviderHasRoute of OLSRNeighbor), 2-hop tuples hold
\* main addresses, TCs come from main addresses other than this node's own
\* (recv_olsr drops those), but may announce this node.
GoodTables ==
  /\ nb \in [Addr -> [status : {"SYM", "NOT_SYM", "NONE"}, will : Nat]]
  /\ links \subseteq Addr
  /\ main \in [Addr -> Addr]
  /\ \A a \in Addr : main[main[a]] = main[a]
  /\ twohop \subseteq Addr \X Addr
  /\ \A t \in twohop : main[t[2]] = t[2]
  /\ \A t \in Strict : LinksOf(t[1]) # {}
  /\ topology \subseteq Dest \X Addr
  /\ \A t \in topology : main[t[2]] = t[2]

TypeOK ==
  /\ GoodTables
  /\ rt \in [Dest -> [dist : Nat, next : Dest, route : Seq(Addr)]]
  /\ todo \subseteq Strict
  /\ h \in Nat
  /\ added \in BOOLEAN
  /\ pc \in {"start", "twohop", "topology", "assoc", "done"}

\* A run instantiates the tables in its MC module.
StartOfCall ==
  /\ rt = [a \in Dest |-> NoRoute]
  /\ todo = {}
  /\ h = 2
  /\ added = FALSE
  /\ pc = "start"

Init == GoodTables /\ StartOfCall

-----------------------------------------------------------------------------
\* A neighbour whose main address no link leads to gets no entry.
OneHopRoutesSlip ==
  /\ pc = "start"
  /\ rt' = [a \in Dest |-> IF a \in links /\ Sym(main[a])
                           THEN [dist |-> 1, next |-> a, route |-> <<>>]
                           ELSE NoRoute]
  /\ todo' = Strict
  /\ pc' = "twohop"
  /\ UNCHANGED <<tables, h, added>>

\* The interfaces of symmetric neighbours that links lead to, and the main
\* addresses of those neighbours that no link leads to.
Direct   == {a \in links : Sym(main[a])}
Indirect == {a \in Addr \ Direct : Sym(a) /\ LinksOf(a) # {}}

\* Step 2: routes to the former, and to the latter over one of the former.
OneHopRoutes ==
  /\ pc = "start"
  /\ \E lt \in [Indirect -> links] :
       /\ \A n \in Indirect : lt[n] \in LinksOf(n)
       /\ rt' = [a \in Dest |->
            IF a \in Direct THEN [dist |-> 1, next |-> a, route |-> <<>>]
            ELSE IF a \in Indirect THEN [dist |-> 1, next |-> lt[a], route |-> <<>>]
            ELSE NoRoute]
  /\ todo' = Strict
  /\ pc' = "twohop"
  /\ UNCHANGED <<tables, h, added>>

\* The destination is remembered in place of the next hop.
TwoHopEntrySlip(d, next) == [dist |-> 2, next |-> next, route |-> <<d>>]

\* add_entry for distance 2.
TwoHopEntry(d, next) == [dist |-> 2, next |-> next, route |-> <<next>>]

\* The less willing neighbour wins.
BetterSlip(t) ==
  ~Routed(t[2]) \/ nb[rt[t[2]].next].will >= nb[t[1]].will

\* Step 3, "the new is a better alternative": no entry yet, or its next hop
\* is not a symmetric neighbour that is more willing than the one of t.
Better(t) ==
  LET old == rt[t[2]].next
  IN  Routed(t[2]) /\ Sym(old) => nb[old].will <= nb[t[1]].will

AddTwoHop(t) ==
  /\ pc = "twohop"
  /\ t \in todo
  /\ todo' = todo \ {t}
  /\ rt' = IF Better(t)
           THEN [rt EXCEPT ![t[2]] = TwoHopEntry(t[2], rt[t[1]].next)]
           ELSE rt
  /\ UNCHANGED <<tables, h, added, pc>>

\* The rounds start at the distance after the first.
StartRoundsSlip ==
  /\ pc = "twohop"
  /\ todo = {}
  /\ h' = 3
  /\ pc' = "topology"
  /\ UNCHANGED <<tables, rt, todo, added>>

StartRounds ==
  /\ pc = "twohop"
  /\ todo = {}
  /\ pc' = "topology"
  /\ UNCHANGED <<tables, rt, todo, h, added>>

\* The check for an existing entry is lost.
EligibleSlip(t) == rt[t[2]].dist = h /\ rt[t[1]].dist # h + 1

\* Step 4.1: T_dest_addr has no entry, T_last_addr has one at distance h.
Eligible(t) == ~Routed(t[1]) /\ rt[t[2]].dist = h

\* add_entry with the entry of T_last_addr: its route and T_last_addr itself.
LongerEntry(last) ==
  [dist |-> h + 1, next |-> rt[last].next, route |-> Append(rt[last].route, last)]

AddTopology(t) ==
  /\ pc = "topology"
  /\ t \in topology
  /\ Eligible(t)
  /\ rt' = [rt EXCEPT ![t[1]] = LongerEntry(t[2])]
  /\ added' = TRUE
  /\ UNCHANGED <<tables, todo, h, pc>>

EndTopology ==
  /\ pc = "topology"
  /\ \A t \in topology : ~Eligible(t)
  /\ pc' = "assoc"
  /\ UNCHANGED <<tables, rt, todo, h, added>>

\* Entries that exist are written again.
AliasedSlip(a) == main[a] # a /\ Routed(main[a])

\* Step 5: the main address has an entry, the interface address has none.
Aliased(a) == main[a] # a /\ Routed(main[a]) /\ ~Routed(a)

AddAssoc(a) ==
  /\ pc = "assoc"
  /\ Aliased(a)
  /\ rt' = [rt EXCEPT ![a] = rt[main[a]]]
  /\ added' = TRUE
  /\ UNCHANGED <<tables, todo, h, pc>>

NextRound ==
  /\ pc = "assoc"
  /\ \A a \in Addr : ~Aliased(a)
  /\ added
  /\ h' = h + 1
  /\ added' = FALSE
  /\ pc' = "topology"
  /\ UNCHANGED <<tables, rt, todo>>

Return ==
  /\ pc = "assoc"
  /\ \A a \in Addr : ~Aliased(a)
  /\ ~added
  /\ pc' = "done"
  /\ UNCHANGED <<tables, rt, todo, h, added>>

Next ==
  \/ OneHopRoutes
  \/ \E t \in todo : AddTwoHop(t)
  \/ StartRounds
  \/ \E t \in topology : AddTopology(t)
  \/ EndTopology
  \/ \E a \in Addr : AddAssoc(a)
  \/ NextRound
  \/ Return

Spec == Init /\ [][Next]_vars

-----------------------------------------------------------------------------
\* find_send_entry: follows next_addr until an entry leads to itself.  Two
\* lookups are enough when the entry of every next hop leads to itself, which
\* NextHopConsistent says.
SendEntry(a) == IF rt[a].next = a THEN rt[a] ELSE rt[rt[a].next]

\* getNextHop: the first hop of the route, or the next hop without a route.
FirstHop(a) == IF rt[a].route # <<>> THEN Head(rt[a].route) ELSE rt[a].next

\* getNextHop never throws "OLSR Data base error": after any computation, and
\* in the middle of one, following the next hops from any entry ends at an
\* entry of a neighbour interface that is the first hop of the route.
NextHopConsistent ==
  \A a \in Dest : Routed(a) =>
    /\ Routed(rt[a].next)
    /\ rt[rt[a].next].next = rt[a].next
    /\ SendEntry(a).next = FirstHop(a)

\* What entry e of destination a, or of the main address of a, is built on.
Known(a) == {a, IF a \in Addr THEN main[a] ELSE a}

Chained(a, e) ==
  /\ Len(e.route) = e.dist - 1
  /\ \/ /\ e.dist = 2
        /\ \E t \in Strict : t[2] \in Known(a) /\ rt[t[1]].next = e.next
     \/ /\ e.dist >= 3
        /\ \E t \in topology : /\ t[1] \in Known(a)
                               /\ rt[t[2]].dist = e.dist - 1
                               /\ e.route = Append(rt[t[2]].route, t[2])

\* Routes are made of known links and of each other: a route of three hops or
\* more is the route of the last node before its end plus the link a TC
\* announced, a two-hop route goes over a strict 2-hop tuple, and its length
\* is the distance.  Routes therefore have no loops, and an entry is not
\* replaced once a longer route has been built on it.
RoutesChain == \A a \in Dest : rt[a].dist >= 2 => Chained(a, rt[a])

\* At the end no known link offers a route that is missing or shorter: the
\* distances are those of a breadth-first search.  (Links that leave a
\* neighbour are known from 2-hop tuples, those that leave nodes further away
\* from topology tuples.)
ShortestRoutes ==
  pc = "done" =>
    /\ \A t \in Strict : rt[t[2]].dist = 2
    /\ \A t \in topology :
         rt[t[2]].dist >= 2 => Routed(t[1]) /\ rt[t[1]].dist <= rt[t[2]].dist + 1
    /\ \A a \in Addr : Routed(main[a]) => Routed(a)

\* The comment of step 3, "check if the node is a better alternative": a
\* two-hop route goes over a neighbour of the highest willingness among those
\* that lead to the destination, when neighbours are linked to at their main
\* addresses.
MostWillingNextHop ==
  pc \notin {"start", "twohop"} /\ (\A l \in links : main[l] = l) =>
    \A t \in Strict : nb[t[1]].will <= nb[rt[t[2]].next].will

\* The rounds come to an end.
Terminates == <>(pc = "done")

\* getRoute checks its result the way getNextHop does, but compares with the
\* destination when the route is empty, and throws "OLSR Data base error" if
\* the two differ.
GetRouteConsistent ==
  pc = "done" =>
    \A a \in Addr : Routed(a) => SendEntry(a).next = Head(Append(rt[a].route, a))

=============================================================================
