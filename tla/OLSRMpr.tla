------------------------------- MODULE OLSRMpr ------------------------------
(***************************************************************************)
(* OLSR::mpr_computation as a state machine, one action per phase of the   *)
(* function and per iteration of its "while (N2 not empty)" loop.  The     *)
(* neighbour sets it reads do not change while it runs: the simulator      *)
(* executes one handler at a time.                                         *)
(***************************************************************************)
EXTENDS OLSRMprOps

CONSTANTS
  Nbr,      \* addresses that may have a neighbour tuple
  Far,      \* other addresses that HELLOs of neighbours may list
  Local,    \* interface addresses of the node itself
  Wills     \* willingness values neighbours announce

ASSUME MprAssumption ==
  /\ Wills \subseteq Nat
  /\ Nbr \cap Local = {}

\* The repositories are vectors in memory.
ASSUME MprFinite == IsFiniteSet(Nbr \cup Far \cup Local)

VARIABLES
  nb,        \* nbset(): neighbour tuples, status and willingness
  twohop,    \* nb2hopset(): pairs <<neighbour, 2-hop neighbour>>
  N2,        \* the working copy of the strict 2-hop tuples
  covered,   \* coveredTwoHopNeighbors
  mprset,    \* state_.mprset_
  pc         \* phase the function has reached

vars == <<nb, twohop, N2, covered, mprset, pc>>

Address == Nbr \cup Far \cup Local
NbTuple == [status : {"SYM", "NOT_SYM", "NONE"}, will : Wills]
Phase   == {"start", "always", "sole", "erase", "loop", "done"}

TypeOK ==
  /\ nb \in [Nbr -> NbTuple]
  /\ twohop \subseteq Nbr \X Address
  /\ N2 \subseteq twohop
  /\ covered \subseteq Address
  /\ mprset \subseteq Nbr
  /\ pc \in Phase

\* Any content of the two repositories; mprset may hold an earlier result.
Init ==
  /\ nb \in [Nbr -> NbTuple]
  /\ twohop \in SUBSET {t \in Nbr \X Address : t[1] # t[2]}
  /\ N2 = {}
  /\ covered = {}
  /\ mprset \in {{}, Nbr}
  /\ pc = "start"

\* clear_mprset(), then the construction of N and N2.
BuildSets ==
  /\ pc = "start"
  /\ mprset' = {}
  /\ N2' = StrictTwoHop(nb, twohop, Local)
  /\ pc' = "always"
  /\ UNCHANGED <<nb, twohop, covered>>

\* Step 1: members of N with willingness WILL_ALWAYS and what they cover.
TakeAlwaysWilling ==
  /\ pc = "always"
  /\ mprset' = mprset \cup AlwaysWilling(nb)
  /\ N2' = AfterAlways(nb, N2)
  /\ pc' = "sole"
  /\ UNCHANGED <<nb, twohop, covered>>

\* The addresses of every neighbour are noted, not only of the elected ones.
TakeSoleProvidersSlip ==
  /\ pc = "sole"
  /\ mprset' = mprset \cup SoleProviders(N2)
  /\ covered' = UNION {ReachedBy(n, N2) : n \in SymNeighbors(nb)}
  /\ pc' = "erase"
  /\ UNCHANGED <<nb, twohop, N2>>

\* Step 3: sole providers; the addresses they lead to are noted.
TakeSoleProviders ==
  /\ pc = "sole"
  /\ mprset' = mprset \cup SoleProviders(N2)
  /\ covered' = UNION {ReachedBy(n, N2) : n \in SoleProviders(N2)}
  /\ pc' = "erase"
  /\ UNCHANGED <<nb, twohop, N2>>

\* Step 3, second half: every record of a noted address is erased.
EraseCovered ==
  /\ pc = "erase"
  /\ N2' = {t \in N2 : t[2] \notin covered}
  /\ pc' = "loop"
  /\ UNCHANGED <<nb, twohop, covered, mprset>>

\* Step 4, one iteration: a best neighbour joins the MPR set.  An iteration
\* that found no candidate would change nothing and spin for ever; here it
\* leaves the machine without a successor, which Terminates would report.
SelectMax ==
  /\ pc = "loop"
  /\ N2 # {}
  /\ \E m \in MaxReach(nb, twohop, N2) :
       /\ mprset' = mprset \cup {m}
       /\ N2' = CoverTwoHopNeighbors(m, N2)
  /\ UNCHANGED <<nb, twohop, covered, pc>>

Return ==
  /\ pc = "loop"
  /\ N2 = {}
  /\ pc' = "done"
  /\ UNCHANGED <<nb, twohop, N2, covered, mprset>>

Next ==
  \/ BuildSets
  \/ TakeAlwaysWilling
  \/ TakeSoleProviders
  \/ EraseCovered
  \/ SelectMax
  \/ Return

\* The function runs to completion once called.
Spec == Init /\ [][Next]_vars /\ WF_vars(Next)

-----------------------------------------------------------------------------
Required == StrictTwoHop(nb, twohop, Local)

\* The chosen MPRs lead to address x.
CoveredByMpr(x) == \E u \in Required : u[1] \in mprset /\ u[2] = x

\* Coverage, the purpose of the MPR set (OLSR.cc step 4): no strict 2-hop
\* neighbour is ever dropped from N2 without an MPR that leads to it, so the
\* set returned reaches all of them.
Coverage ==
  pc # "start" =>
    \A t \in Required : (t \in N2 /\ pc # "done") \/ CoveredByMpr(t[2])

\* Only symmetric neighbours that are willing to forward are selected, however
\* the selection came about (a WILL_NEVER node has reachability zero).
OnlyWillingSymmetric ==
  pc # "start" =>
    \A m \in mprset : nb[m].status = "SYM" /\ nb[m].will # WillNever

\* Willingness counts (step 4.2, "the node with highest N_willingness"): a
\* selected neighbour is always willing, or leads to an address to which no
\* more willing neighbour leads.  It depends on every earlier step removing
\* all the records of a covered address.
WillingnessRespected ==
  pc # "start" =>
    \A m \in mprset :
      \/ nb[m].will = WillAlways
      \/ \E t \in Required :
           /\ t[1] = m
           /\ \A u \in Required : u[2] = t[2] => nb[u[1]].will <= nb[m].will

\* The closed form of the function, which the neighbourhood model uses, admits
\* every result of the step-by-step computation.
MatchesSelections == pc = "done" => mprset \in MprSelections(nb, twohop, Local)

\* The while loop always comes to an end (max is never null while N2 holds a
\* tuple, and each choice removes one).
Terminates == <>(pc = "done")

=============================================================================
