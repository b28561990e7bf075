---------------------------- MODULE MCOLSRRtable ----------------------------
(***************************************************************************)
(* Instances of OLSRRtable for TLC.                                        *)
(***************************************************************************)
EXTENDS OLSRRtable, TLC

CONSTANTS n1, n2, f1, f2, f3, i1

NoNeighbor == [status |-> "NONE", will |-> 0]

\* Two symmetric neighbours of any willingness, three nodes further away, any
\* 2-hop tuples to two of them, any topology tuples among the three and up to
\* this node: routes of up to five hops.
FarPairs == {<<f1, f2>>, <<f2, f1>>, <<f2, f3>>, <<f3, f2>>, <<f3, f1>>, <<Self, f2>>}

DeepTables ==
  /\ \E w1 \in {0, 1, 3}, w2 \in {0, 1, 3} :
       nb = [a \in Addr |-> CASE a = n1 -> [status |-> "SYM", will |-> w1]
                              [] a = n2 -> [status |-> "SYM", will |-> w2]
                              [] OTHER  -> NoNeighbor]
  /\ links = {n1, n2}
  /\ main = [a \in Addr |-> a]
  /\ twohop \in SUBSET ({n1, n2} \X {f1, f2})
  /\ topology \in SUBSET FarPairs

\* A second interface i1 of a neighbour or of a node further away; links may
\* lead to either interface, and the neighbour may be known by i1 only.
AliasTables ==
  /\ \E s \in {"SYM", "NOT_SYM"} :
       nb = [a \in Addr |-> CASE a = n1 -> [status |-> "SYM", will |-> 3]
                              [] a = n2 -> [status |-> s, will |-> 3]
                              [] OTHER  -> NoNeighbor]
  /\ links \in SUBSET {n1, n2, i1}
  /\ \E m \in {n1, f1, i1} : main = [a \in Addr |-> IF a = i1 THEN m ELSE a]
  /\ twohop \in SUBSET {<<n1, f1>>, <<n2, f1>>, <<n1, n2>>}
  /\ topology \in SUBSET {<<n2, f1>>, <<i1, f1>>, <<f1, n2>>}

MCInit ==
  /\ DeepTables \/ AliasTables
  /\ GoodTables
  /\ StartOfCall

MCSpec == MCInit /\ [][Next]_vars /\ WF_vars(Next)

=============================================================================
