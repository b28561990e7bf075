---------------------------- MODULE MCOLSRFlood -----------------------------
(***************************************************************************)
(* Instances of OLSRFlood for TLC.                                         *)
(***************************************************************************)
EXTENDS OLSRFlood, TLC

CONSTANTS n1, n2, n3, n4, n5, m1, m2

VARIABLE learning   \* the neighbourhood changes, or else nodes go down

Mpr == INSTANCE OLSRMprOps

SameOrigin  == [m \in Msg |-> n1]
Symmetric(g) == \A a, b \in Node : (a \in g[b]) = (b \in g[a])

\* Every node is reached from n1.
Connected(g) ==
  \A S \in SUBSET Node : (n1 \in S /\ S # Node) => \E a \in S : g[a] \ S # {}

Networks ==
  {g \in [Node -> SUBSET Node] :
     (\A n \in Node : n \notin g[n]) /\ Symmetric(g) /\ Connected(g)}

\* What mpr_computation may select at k in network g.
Selections(g, k) ==
  Mpr!MprSelections([n \in g[k] |-> [status |-> "SYM", will |-> 3]],
                    UNION {{n} \X g[n] : n \in g[k]}, {k})

\* Five nodes at rest in any connected network.  All but the originator n1 are
\* alike, so it is enough to look at networks where they stand in the order of
\* their numbers of neighbours.
RestInit ==
  /\ radio \in Networks
  /\ \A e \in {<<n2, n3>>, <<n3, n4>>, <<n4, n5>>} :
       Mpr!Cardinality(radio[e[1]]) >= Mpr!Cardinality(radio[e[2]])
  /\ sym = radio
  /\ \E s1 \in Selections(radio, n1), s2 \in Selections(radio, n2), s3 \in Selections(radio, n3),
        s4 \in Selections(radio, n4), s5 \in Selections(radio, n5) :
       LET mprs == (n1 :> s1) @@ (n2 :> s2) @@ (n3 :> s3) @@ (n4 :> s4) @@ (n5 :> s5)
       IN  sel = [n \in Node |-> {k \in Node : n \in mprs[k]}]
  /\ Quiet
  /\ new = Msg
  /\ learning = FALSE

RestSpec == RestInit /\ [][Next /\ UNCHANGED learning]_<<vars, learning>> /\ Fairness

\* A line or a triangle with one message, or n1 and n2 with two and n3 out of
\* reach.  The nodes know what they may of the links; everyone is a selector of
\* those it knows.
FaultyInit ==
  /\ learning \in BOOLEAN
  /\ \/ radio \in Networks
     \/ radio = (n1 :> {n2}) @@ (n2 :> {n1}) @@ (n3 :> {}) /\ ~learning
  /\ sym \in [Node -> SUBSET Node]
  /\ \A n \in Node : sym[n] \subseteq radio[n]
  /\ sel = sym
  /\ Quiet
  /\ new = Msg

\* Packets are lost in any case.  What n1 and n2 know of their neighbours
\* changes at any time while nobody goes down, or does not.
FaultyNext ==
  /\ Next
  /\ IF learning
     THEN down' = down /\ sym'[n3] = sym[n3] /\ sel'[n3] = sel[n3]
     ELSE topo' = topo
  /\ radio[n3] # {} => m2 \in new'
  /\ UNCHANGED learning

FaultySpec == FaultyInit /\ [][FaultyNext]_<<vars, learning>> /\ Fairness

=============================================================================
