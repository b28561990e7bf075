--------------------------- MODULE MCOLSRNeighbor ---------------------------
(***************************************************************************)
(* Instances of OLSRNeighbor for TLC.                                      *)
(***************************************************************************)
EXTENDS OLSRNeighbor, TLC

CONSTANTS me, nbrB, nbrC, farX

\* The codes send_hello can produce for the receiver: any but an invalid one.
CodesForUs == LinkCodes \ {[lt |-> "SYM", nt |-> "NOT"]}

\* For a third node only the neighbour type matters.
CodesForOthers == {NotListed, [lt |-> "SYM", nt |-> "SYM"], [lt |-> "LOST", nt |-> "NOT"]}

HelloOf(o, w, us, others) ==
  [orig |-> o, will |-> w,
   code |-> [a \in Address |-> IF a = Self THEN us
                               ELSE IF a = o THEN NotListed ELSE others[a]]]

\* One neighbour and a node behind it; every HELLO the neighbour may send.
OneHellos ==
  {HelloOf(nbrB, w, us, (farX :> far)) :
     w \in {0, 3}, us \in CodesForUs, far \in CodesForOthers}

\* Two neighbours, of which nbrB may list nbrC, and a node behind both.
CodesTwo == {[lt |-> "LOST", nt |-> "NOT"], [lt |-> "SYM", nt |-> "MPR"]}
SeesX    == {NotListed, [lt |-> "SYM", nt |-> "SYM"]}

TwoHellos ==
  {HelloOf(nbrB, 3, us, (nbrC :> o) @@ (farX :> far)) : us \in CodesTwo, o \in SeesX, far \in SeesX}
  \cup
  {HelloOf(nbrC, 3, us, (nbrB :> NotListed) @@ (farX :> far)) : us \in CodesTwo \cup {NotListed}, far \in SeesX}

=============================================================================
