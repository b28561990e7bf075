----------------------------- MODULE MCOLSRMpr ------------------------------
(***************************************************************************)
(* Instances of OLSRMpr for TLC.                                           *)
(***************************************************************************)
EXTENDS OLSRMpr, TLC

CONSTANTS b, c, d, x, y, z, me

NoNeighbor == [status |-> "NONE", will |-> 0]

\* Two neighbours of every status and willingness, two far addresses and this
\* node: everything their HELLOs may have left in the two sets.
FewInit ==
  /\ nb \in [Nbr -> [status : {"SYM", "NOT_SYM", "NONE"}, will : {0, 3, 7}]]
  /\ nb[d] = NoNeighbor
  /\ twohop \in SUBSET {t \in {b, c} \X {b, c, x, y, me} : t[1] # t[2]}
  /\ mprset \in {{}, {b, c}}

\* Three symmetric neighbours and far addresses only: the rounds of the
\* greedy loop, with every overlap of what the neighbours lead to.
GreedyInit ==
  /\ nb \in [Nbr -> [status : {"SYM"}, will : {0, 1, 3}]]
  /\ twohop \in SUBSET (Nbr \X {x, y, z})
  /\ mprset = {}

MCInit ==
  /\ FewInit \/ GreedyInit
  /\ N2 = {}
  /\ covered = {}
  /\ pc = "start"

MCSpec == MCInit /\ [][Next]_vars /\ WF_vars(Next)

=============================================================================
