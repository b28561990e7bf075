-------------------------------- MODULE Flood -------------------------------
(***************************************************************************)
(* What the flooding of OLSR messages promises: a message spreads from its *)
(* originator over links, and reaches every node that links lead to.       *)
(***************************************************************************)
EXTENDS Naturals

CONSTANTS
  Node,
  Msg,
  orig       \* originator of every message

VARIABLES
  radio,     \* the nodes that hear a node
  reached    \* the nodes that have a message

vars == <<radio, reached>>

Init ==
  /\ radio \in [Node -> SUBSET Node]
  /\ reached = [m \in Msg |-> {}]

Originate(m) ==
  /\ reached[m] = {}
  /\ reached' = [reached EXCEPT ![m] = {orig[m]}]
  /\ UNCHANGED radio

\* Node n gets the messages M, each of them known to a node that n hears.
Spread(n, M) ==
  /\ \A m \in M : \E k \in reached[m] : n \in radio[k]
  /\ reached' = [m \in Msg |-> IF m \in M THEN reached[m] \cup {n} ELSE reached[m]]
  /\ UNCHANGED radio

Next ==
  \/ \E m \in Msg : Originate(m)
  \/ \E n \in Node, M \in SUBSET Msg : Spread(n, M)

Spec == Init /\ [][Next]_vars

\* A message once sent reaches whoever hears a node that has it.
Reaches ==
  \A m \in Msg, k \in Node, n \in Node :
    (k \in reached[m] /\ n \in radio[k]) ~> n \in reached[m]

=============================================================================
