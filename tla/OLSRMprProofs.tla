--------------------------- MODULE OLSRMprProofs ----------------------------
(***************************************************************************)
(* For every set of neighbours, 2-hop tuples and willingness values, the   *)
(* set that mpr_computation returns covers all strict 2-hop neighbours     *)
(* and respects willingness, and the function comes to its end.  The first *)
(* part is about the operators of OLSRMprOps, the closed form of the       *)
(* function that the other modules use; the second about its steps.        *)
(*                                                                         *)
(* The greedy loop is a recursive function on sets of tuples.  Induction   *)
(* on their cardinality (SubsetInduction) comes from the least element of  *)
(* a set of numbers; it shows that the function exists, that it satisfies  *)
(* its equation, and what its values are.                                  *)
(***************************************************************************)
EXTENDS OLSRMpr, TLAPS, FiniteSetTheorems, WellFoundedInduction

-----------------------------------------------------------------------------
\* The right-hand side of the function in GreedyElections, for tuples R.
ElectStep(E, n, H, R) ==
  IF R = {} THEN {{}}
  ELSE UNION {{{m} \cup rest : rest \in E[CoverTwoHopNeighbors(m, R)]} : m \in MaxReach(n, H, R)}

IsElection(E, n, H, S) == E = [R \in SUBSET S |-> ElectStep(E, n, H, R)]

\* A nonempty set of natural numbers has a least element.
LEMMA LeastNat ==
  ASSUME NEW T \in SUBSET Nat, T # {}
  PROVE  \E k \in T : \A j \in T : k <= j
<1> DEFINE less == {ss \in Nat \X Nat : ss[1] < ss[2]}
<1>1. IsWellFoundedOn(less, Nat)
  BY NatLessThanWellFounded DEF OpToRel
<1>2. PICK k \in T : \A j \in T : ~(<<j, k>> \in less)
  <2> HIDE DEF less
  <2> QED  BY <1>1, WFMin
<1>3. \A j \in T : <<j, k>> \notin less => k <= j
  OBVIOUS
<1> QED  BY <1>2, <1>3

\* Induction on the cardinality of the subsets of a finite set.
LEMMA SubsetInduction ==
  ASSUME NEW S, IsFiniteSet(S), NEW Good,
         ASSUME NEW R \in SUBSET S,
                \A Q \in SUBSET S : Cardinality(Q) < Cardinality(R) => Q \in Good
         PROVE  R \in Good
  PROVE  \A R \in SUBSET S : R \in Good
<1> DEFINE Bad == {k \in Nat : \E R \in SUBSET S : R \notin Good /\ Cardinality(R) = k}
<1>1. SUFFICES ASSUME NEW R \in SUBSET S, R \notin Good PROVE FALSE
  OBVIOUS
<1>2. \A Q \in SUBSET S : Cardinality(Q) \in Nat
  BY FS_Subset, FS_CardinalityType
<1>3. Bad \in SUBSET Nat /\ Bad # {}
  BY <1>1, <1>2
<1>4. PICK k \in Bad : \A j \in Bad : k <= j
  <2> HIDE DEF Bad
  <2> QED  BY <1>3, LeastNat
<1>5. PICK P \in SUBSET S : P \notin Good /\ Cardinality(P) = k
  BY <1>4
<1>6. ASSUME NEW Q \in SUBSET S, Cardinality(Q) < Cardinality(P) PROVE Q \in Good
  <2>1. Q \notin Good => Cardinality(Q) \in Bad
    BY <1>2
  <2> QED  BY <2>1, <1>2, <1>3, <1>4, <1>5, <1>6
<1> QED  BY <1>5, <1>6

\* Electing a neighbour of MaxReach takes at least one tuple away.
LEMMA CoverSmaller ==
  ASSUME NEW n, NEW H, NEW R, IsFiniteSet(R), NEW m \in MaxReach(n, H, R)
  PROVE  /\ CoverTwoHopNeighbors(m, R) \subseteq R
         /\ Cardinality(CoverTwoHopNeighbors(m, R)) \in Nat
         /\ Cardinality(CoverTwoHopNeighbors(m, R)) < Cardinality(R)
<1> DEFINE C == CoverTwoHopNeighbors(m, R)
<1>1. PICK t \in R : t[1] = m
  BY DEF MaxReach
<1>2. C \subseteq R /\ t \notin C
  BY <1>1 DEF CoverTwoHopNeighbors, ReachedBy
<1>3. C # R /\ C \in SUBSET R
  BY <1>1, <1>2
<1>4. IsFiniteSet(C) /\ Cardinality(C) <= Cardinality(R) /\ Cardinality(C) # Cardinality(R)
  <2> HIDE DEF C
  <2> QED  BY <1>3, FS_Subset
<1>5. Cardinality(C) \in Nat /\ Cardinality(R) \in Nat
  BY <1>4, FS_CardinalityType
<1> QED  BY <1>2, <1>4, <1>5

\* The equation looks at the function only for what is left after an election.
LEMMA ElectStepLocal ==
  ASSUME NEW n, NEW H, NEW R, NEW E, NEW F,
         \A m \in MaxReach(n, H, R) : E[CoverTwoHopNeighbors(m, R)] = F[CoverTwoHopNeighbors(m, R)]
  PROVE  ElectStep(E, n, H, R) = ElectStep(F, n, H, R)
BY DEF ElectStep

\* The recursion of GreedyElections is well-founded: a function that satisfies
\* the equation exists.
LEMMA GreedyUnfolds ==
  ASSUME NEW n, NEW H, NEW S, IsFiniteSet(S)
  PROVE  \E E : IsElection(E, n, H, S) /\ GreedyElections(n, H, S) = E[S]
<1> DEFINE Approx(E, k) ==
             \A R \in SUBSET S : Cardinality(R) < k => E[R] = ElectStep(E, n, H, R)
           Bad == {k \in Nat : ~ \E E : Approx(E, k)}
<1>0. \A R \in SUBSET S : IsFiniteSet(R) /\ Cardinality(R) \in Nat /\ Cardinality(R) <= Cardinality(S)
  BY FS_Subset, FS_CardinalityType
<1>1. ASSUME NEW k \in Nat, NEW E, Approx(E, k) PROVE \E F : Approx(F, k + 1)
  <2> DEFINE F == [R \in SUBSET S |-> IF Cardinality(R) < k THEN E[R] ELSE ElectStep(E, n, H, R)]
  <2>1. SUFFICES ASSUME NEW R \in SUBSET S, Cardinality(R) < k + 1
                 PROVE  F[R] = ElectStep(F, n, H, R)
    <3> HIDE DEF F
    <3> QED  BY <2>1
  <2>2. F[R] = ElectStep(E, n, H, R)
    BY <1>1
  <2>3. ASSUME NEW m \in MaxReach(n, H, R)
        PROVE  E[CoverTwoHopNeighbors(m, R)] = F[CoverTwoHopNeighbors(m, R)]
    <3> DEFINE C == CoverTwoHopNeighbors(m, R)
    <3>1. C \in SUBSET S /\ Cardinality(C) \in Nat /\ Cardinality(C) < Cardinality(R)
      BY <1>0, CoverSmaller
    <3>2. Cardinality(C) < k
      BY <3>1, <2>1, <1>0
    <3>3. E[C] = F[C]
      <4> HIDE DEF C
      <4> QED  BY <3>1, <3>2
    <3> QED  BY <3>3
  <2> HIDE DEF F
  <2>4. ElectStep(E, n, H, R) = ElectStep(F, n, H, R)
    BY <2>3, ElectStepLocal
  <2> QED  BY <2>2, <2>4
<1>2. \A k \in Nat : \E E : Approx(E, k)
  <2>1. SUFFICES ASSUME Bad # {} PROVE FALSE
    OBVIOUS
  <2>2. PICK k \in Bad : \A j \in Bad : k <= j
    <3> HIDE DEF Bad
    <3>1. Bad \in SUBSET Nat
      BY DEF Bad
    <3> QED  BY <2>1, <3>1, LeastNat
  <2>3. k # 0
    <3>1. \A R \in SUBSET S : ~(Cardinality(R) < 0)
      BY <1>0
    <3> QED  BY <3>1
  <2>4. k - 1 \in Nat /\ k - 1 \notin Bad /\ (k - 1) + 1 = k
    BY <2>2, <2>3
  <2>5. PICK E : Approx(E, k - 1)
    BY <2>4
  <2>6. \E F : Approx(F, (k - 1) + 1)
    <3> HIDE DEF Approx
    <3> QED BY <1>1, <2>4, <2>5
  <2> QED  BY <2>4, <2>6
<1>3. \E E : IsElection(E, n, H, S)
  <2>1. Cardinality(S) + 1 \in Nat
    BY FS_CardinalityType
  <2>2. PICK E : Approx(E, Cardinality(S) + 1)
    <3> HIDE DEF Approx
    <3> QED BY <1>2, <2>1
  <2> DEFINE F == [R \in SUBSET S |-> E[R]]
  <2>3. ASSUME NEW R \in SUBSET S PROVE ElectStep(E, n, H, R) = ElectStep(F, n, H, R)
    <3>1. \A m \in MaxReach(n, H, R) : CoverTwoHopNeighbors(m, R) \in SUBSET S
      BY DEF CoverTwoHopNeighbors
    <3> QED  BY <3>1, ElectStepLocal
  <2>4. \A R \in SUBSET S : E[R] = ElectStep(E, n, H, R)
    BY <1>0, <2>2
  <2> QED  BY <2>3, <2>4 DEF IsElection
<1>4. GreedyElections(n, H, S) = (CHOOSE E : IsElection(E, n, H, S))[S]
  BY DEF GreedyElections, IsElection, ElectStep
<1> QED  BY <1>3, <1>4


\* It is the only one, on whatever set of tuples it is defined.
LEMMA ElectionUnique ==
  ASSUME NEW n, NEW H, NEW S, IsFiniteSet(S), NEW T \in SUBSET S,
         NEW E, IsElection(E, n, H, S), NEW F, IsElection(F, n, H, T)
  PROVE  \A R \in SUBSET T : E[R] = F[R]
<1> DEFINE Good == {R \in SUBSET T : E[R] = F[R]}
<1>1. IsFiniteSet(T)
  BY FS_Subset
<1>2. ASSUME NEW R \in SUBSET T,
             \A Q \in SUBSET T : Cardinality(Q) < Cardinality(R) => Q \in Good
      PROVE  R \in Good
  <2>1. IsFiniteSet(R)
    BY <1>1, FS_Subset
  <2>2. ASSUME NEW m \in MaxReach(n, H, R)
        PROVE  E[CoverTwoHopNeighbors(m, R)] = F[CoverTwoHopNeighbors(m, R)]
    <3>1. /\ CoverTwoHopNeighbors(m, R) \in SUBSET T
          /\ Cardinality(CoverTwoHopNeighbors(m, R)) < Cardinality(R)
      BY <2>1, CoverSmaller
    <3> QED  BY <1>2, <3>1
  <2>3. ElectStep(E, n, H, R) = ElectStep(F, n, H, R)
    BY <2>2, ElectStepLocal
  <2>4. E[R] = ElectStep(E, n, H, R) /\ F[R] = ElectStep(F, n, H, R)
    BY DEF IsElection
  <2> QED  BY <2>3, <2>4
<1>3. \A R \in SUBSET T : R \in Good
  <2> HIDE DEF Good
  <2> QED  BY <1>1, <1>2, SubsetInduction
<1> QED  BY <1>3

\* GreedyElections by its own recursion: nothing to cover, nobody elected.
LEMMA GreedyEmpty ==
  ASSUME NEW n, NEW H
  PROVE  GreedyElections(n, H, {}) = {{}}
<1>1. IsFiniteSet({})
  BY FS_EmptySet
<1>2. PICK E : IsElection(E, n, H, {}) /\ GreedyElections(n, H, {}) = E[{}]
  BY <1>1, GreedyUnfolds
<1>3. E[{}] = ElectStep(E, n, H, {})
  BY <1>2 DEF IsElection
<1> QED  BY <1>2, <1>3 DEF ElectStep

\* Otherwise one of the best neighbours is elected, and then the others.
LEMMA GreedyStep ==
  ASSUME NEW n, NEW H, NEW S, IsFiniteSet(S), S # {}, NEW G
  PROVE  G \in GreedyElections(n, H, S) <=>
           \E m \in MaxReach(n, H, S) :
             \E rest \in GreedyElections(n, H, CoverTwoHopNeighbors(m, S)) : G = {m} \cup rest
<1>1. PICK E : IsElection(E, n, H, S) /\ GreedyElections(n, H, S) = E[S]
  BY GreedyUnfolds
<1>2. ASSUME NEW m \in MaxReach(n, H, S)
      PROVE  E[CoverTwoHopNeighbors(m, S)] = GreedyElections(n, H, CoverTwoHopNeighbors(m, S))
  <2> DEFINE C == CoverTwoHopNeighbors(m, S)
  <2>1. C \in SUBSET S /\ IsFiniteSet(C)
    BY CoverSmaller, FS_Subset
  <2> HIDE DEF C
  <2>2. PICK F : IsElection(F, n, H, C) /\ GreedyElections(n, H, C) = F[C]
    BY <2>1, GreedyUnfolds
  <2>3. E[C] = F[C]
    BY <1>1, <2>1, <2>2, ElectionUnique
  <2> QED  BY <2>2, <2>3 DEF C
<1>3. E[S] = ElectStep(E, n, H, S)
  BY <1>1 DEF IsElection
<1>4. G \in E[S] <=> \E m \in MaxReach(n, H, S) :
                       \E rest \in E[CoverTwoHopNeighbors(m, S)] : G = {m} \cup rest
  BY <1>3 DEF ElectStep
<1> QED  BY <1>1, <1>2, <1>4

\* A finite set that is totally ordered has a greatest element.
LEMMA GreatestElement ==
  ASSUME NEW S, IsFiniteSet(S), S # {}, NEW leq,
         \A x, y \in S : <<x, y>> \in leq \/ <<y, x>> \in leq,
         \A x, y, z \in S : <<x, y>> \in leq /\ <<y, z>> \in leq => <<x, z>> \in leq
  PROVE  \E m \in S : \A x \in S : <<x, m>> \in leq
<1> DEFINE Good == {R \in SUBSET S : R = {} \/ \E m \in R : \A x \in R : <<x, m>> \in leq}
<1>1. ASSUME NEW R \in SUBSET S,
             \A Q \in SUBSET S : Cardinality(Q) < Cardinality(R) => Q \in Good
      PROVE  R \in Good
  <2>1. CASE R = {}
    BY <2>1
  <2>2. CASE R # {}
    <3>1. PICK y \in R : TRUE
      BY <2>2
    <3>2. Cardinality(R \ {y}) < Cardinality(R)
      BY <3>1, FS_Subset, FS_RemoveElement, FS_CardinalityType
    <3>3. R \ {y} \in Good
      BY <1>1, <3>2
    <3>4. CASE R \ {y} = {}
      BY <3>1, <3>4
    <3>5. CASE \E m \in R \ {y} : \A x \in R \ {y} : <<x, m>> \in leq
      <4>1. PICK m \in R \ {y} : \A x \in R \ {y} : <<x, m>> \in leq
        BY <3>5
      <4>2. CASE <<y, m>> \in leq
        BY <4>1, <4>2
      <4>3. CASE <<m, y>> \in leq
        BY <3>1, <4>1, <4>3
      <4> QED  BY <3>1, <4>1, <4>2, <4>3
    <3> QED  BY <3>3, <3>4, <3>5
  <2> QED  BY <2>1, <2>2
<1>2. S \in Good
  <2> HIDE DEF Good
  <2> QED  BY <1>1, SubsetInduction
<1> QED  BY <1>2

\* The symmetric neighbours have a willingness.
Graded(n) == \A x \in SymNeighbors(n) : n[x].will \in Nat

\* The neighbours that lead to a tuple of R are totally ordered by NoWorse: one
\* of them is the best.
LEMMA MaxReachExists ==
  ASSUME NEW n, Graded(n), NEW H, IsFiniteSet(H), NEW R, R # {},
         R \in SUBSET H, \A t \in R : t[1] \in SymNeighbors(n)
  PROVE  MaxReach(n, H, R) # {}
<1> DEFINE useful == {x \in SymNeighbors(n) : \E t \in R : t[1] = x}
           leq == {p \in useful \X useful : NoWorse(p[2], p[1], n, H, R)}
<1>1. IsFiniteSet(R)
  BY FS_Subset
<1>2. useful # {}
  OBVIOUS
<1>3. IsFiniteSet(useful)
  <2>1. [t \in R |-> t[1]] \in Surjection(R, useful)
    BY DEF Surjection
  <2> HIDE DEF useful
  <2> QED  BY <1>1, <2>1, FS_Surjection
<1>4. ASSUME NEW x \in useful
      PROVE  n[x].will \in Nat /\ reachability(x, R) \in Nat /\ degree(x, n, H) \in Nat
  <2>1. n[x].will \in Nat
    BY DEF Graded
  <2>2. {t \in R : t[1] = x} \in SUBSET R
    OBVIOUS
  <2>3. {t \in H : t[1] = x /\ (t[2] \notin DOMAIN n \/ n[t[2]].status = "NONE")} \in SUBSET H
    OBVIOUS
  <2>4. reachability(x, R) \in Nat
    BY <1>1, <2>2, FS_Subset, FS_CardinalityType DEF reachability
  <2>5. degree(x, n, H) \in Nat
    BY <2>3, FS_Subset, FS_CardinalityType DEF degree
  <2> QED  BY <2>1, <2>4, <2>5
<1> HIDE DEF useful
<1>5. \A x, y \in useful : <<x, y>> \in leq \/ <<y, x>> \in leq
  BY <1>4 DEF NoWorse
<1>6. \A x, y, z \in useful : <<x, y>> \in leq /\ <<y, z>> \in leq => <<x, z>> \in leq
  BY <1>4 DEF NoWorse
<1>7. PICK m \in useful : \A x \in useful : <<x, m>> \in leq
  <2> HIDE DEF leq
  <2> QED  BY <1>2, <1>3, <1>5, <1>6, GreatestElement
<1>8. \A x \in useful : NoWorse(m, x, n, H, R)
  BY <1>7
<1> QED  BY <1>8 DEF MaxReach, useful

\* What the greedy loop promises of the neighbours G that it elects for the
\* tuples R: they cover R, and none was elected in place of a more willing one.
Elected(n, R, G) ==
  /\ \A t \in R : \E u \in R : u[2] = t[2] /\ u[1] \in G
  /\ \A g \in G : \E t \in R :
       /\ t[1] = g
       /\ \A u \in R : u[2] = t[2] => n[u[1]].will <= n[g].will

\* The greedy loop has a result, and keeps that promise.
LEMMA ElectionsGood ==
  ASSUME NEW n, Graded(n), NEW H, IsFiniteSet(H), NEW S \in SUBSET H,
         \A t \in S : t[1] \in SymNeighbors(n)
  PROVE  /\ GreedyElections(n, H, S) # {}
         /\ \A G \in GreedyElections(n, H, S) : Elected(n, S, G)
<1> DEFINE Good == {R \in SUBSET S : /\ GreedyElections(n, H, R) # {}
                                    /\ \A G \in GreedyElections(n, H, R) : Elected(n, R, G)}
<1>1. IsFiniteSet(S)
  BY FS_Subset
<1>3. ASSUME NEW R \in SUBSET S,
             \A Q \in SUBSET S : Cardinality(Q) < Cardinality(R) => Q \in Good
      PROVE  R \in Good
  <2>1. CASE R = {}
    <3>1. GreedyElections(n, H, R) = {{}}
      BY <2>1, GreedyEmpty
    <3>2. Elected(n, R, {})
      BY <2>1 DEF Elected
    <3> QED  BY <3>1, <3>2
  <2>2. CASE R # {}
    <3>1. IsFiniteSet(R)
      BY <1>1, FS_Subset
    <3>2. ASSUME NEW m \in MaxReach(n, H, R) PROVE CoverTwoHopNeighbors(m, R) \in Good
      <4>1. /\ CoverTwoHopNeighbors(m, R) \in SUBSET S
            /\ Cardinality(CoverTwoHopNeighbors(m, R)) < Cardinality(R)
        BY <3>1, CoverSmaller
      <4> HIDE DEF Good
      <4> QED  BY <1>3, <4>1
    <3>3. \A G : G \in GreedyElections(n, H, R) <=>
            \E m \in MaxReach(n, H, R) :
              \E rest \in GreedyElections(n, H, CoverTwoHopNeighbors(m, R)) : G = {m} \cup rest
      BY <2>2, <3>1, GreedyStep
    <3>4. GreedyElections(n, H, R) # {}
      <4>1. PICK m \in MaxReach(n, H, R) : TRUE
        BY <2>2, MaxReachExists
      <4>2. PICK rest \in GreedyElections(n, H, CoverTwoHopNeighbors(m, R)) : TRUE
        BY <3>2, <4>1
      <4>3. {m} \cup rest \in GreedyElections(n, H, R)
        BY <3>3, <4>1, <4>2
      <4> QED  BY <4>3
    <3>5. ASSUME NEW G \in GreedyElections(n, H, R) PROVE Elected(n, R, G)
      <4>0. PICK m \in MaxReach(n, H, R) :
              \E rest \in GreedyElections(n, H, CoverTwoHopNeighbors(m, R)) : G = {m} \cup rest
        BY <3>3
      <4>1. PICK rest \in GreedyElections(n, H, CoverTwoHopNeighbors(m, R)) : G = {m} \cup rest
        BY <4>0
      <4> DEFINE C == CoverTwoHopNeighbors(m, R)
      <4>2. Elected(n, C, rest)
        BY <3>2, <4>1
      <4>3. C \subseteq R /\ \A t \in R : t \notin C => \E u \in R : u[2] = t[2] /\ u[1] = m
        BY DEF CoverTwoHopNeighbors, ReachedBy
      <4>4. \A t \in C : \A u \in R : u[2] = t[2] => u \in C
        BY DEF CoverTwoHopNeighbors
      <4>5. \E t \in R : t[1] = m
        BY DEF MaxReach
      <4>6. \A u \in R : n[u[1]].will <= n[m].will
        <5> SUFFICES ASSUME NEW u \in R PROVE n[u[1]].will <= n[m].will
          OBVIOUS
        <5>1. u[1] \in SymNeighbors(n) /\ m \in SymNeighbors(n)
          BY DEF MaxReach
        <5>2. NoWorse(m, u[1], n, H, R)
          BY <5>1 DEF MaxReach
        <5> QED  BY <5>1, <5>2 DEF NoWorse, Graded
      <4> HIDE DEF C
      <4>7. \A t \in R : \E u \in R : u[2] = t[2] /\ u[1] \in G
        BY <4>1, <4>2, <4>3 DEF Elected
      <4>8. ASSUME NEW g \in G
            PROVE  \E t \in R : t[1] = g /\ \A u \in R : u[2] = t[2] => n[u[1]].will <= n[g].will
        <5>1. CASE g = m
          BY <4>5, <4>6, <5>1
        <5>2. CASE g \in rest
          BY <4>2, <4>3, <4>4, <5>2 DEF Elected
        <5> QED  BY <4>1, <5>1, <5>2
      <4> QED  BY <4>7, <4>8 DEF Elected
    <3> QED  BY <3>4, <3>5
  <2> QED  BY <2>1, <2>2
<1>4. \A R \in SUBSET S : R \in Good
  <2> HIDE DEF Good
  <2> QED  BY <1>1, <1>3, SubsetInduction
<1> QED  BY <1>4

\* What the fixed part of MprSelections covers, and what it leaves to the loop.
LEMMA SelectionParts ==
  ASSUME NEW n, Graded(n), NEW H, IsFiniteSet(H), NEW L
  PROVE  LET Strict == StrictTwoHop(n, H, L)
             left  == AfterAlways(n, Strict)
             fixed == AlwaysWilling(n) \cup SoleProviders(left)
             rest  == AfterSole(left)
         IN  /\ fixed \subseteq SymNeighbors(n)
             /\ left \subseteq Strict /\ rest \subseteq left
             /\ \A t \in Strict : t \in rest \/ \E u \in Strict : u[2] = t[2] /\ u[1] \in fixed
             /\ \A t \in rest : \A u \in Strict : u[2] = t[2] => u \in rest
             /\ rest \in SUBSET H /\ IsFiniteSet(rest)
             /\ \A t \in Strict : t[1] \in SymNeighbors(n) /\ n[t[1]].will # WillNever
             /\ GreedyElections(n, H, rest) # {}
             /\ \A G \in GreedyElections(n, H, rest) : Elected(n, rest, G)
<1> DEFINE Strict == StrictTwoHop(n, H, L)
<1>1. Strict \subseteq H /\ \A t \in Strict : t[1] \in SymNeighbors(n) /\ n[t[1]].will # WillNever
  BY DEF StrictTwoHop
<1> HIDE DEF Strict
<1> DEFINE left == AfterAlways(n, Strict)
<1>2. /\ left \subseteq Strict
      /\ \A t \in Strict : t \in left \/ \E u \in Strict : u[2] = t[2] /\ u[1] \in AlwaysWilling(n)
      /\ \A t \in left : \A u \in Strict : u[2] = t[2] => u \in left
  BY DEF AfterAlways, ReachedBy
<1> HIDE DEF left
<1> DEFINE rest == AfterSole(left)
<1>3. /\ rest \subseteq left
      /\ \A t \in left : t \in rest \/ \E u \in left : u[2] = t[2] /\ u[1] \in SoleProviders(left)
      /\ \A t \in rest : \A u \in left : u[2] = t[2] => u \in rest
  BY DEF AfterSole, ReachedBy
<1>4. AlwaysWilling(n) \subseteq SymNeighbors(n) /\ SoleProviders(left) \subseteq SymNeighbors(n)
  BY <1>1, <1>2 DEF AlwaysWilling, SoleProviders
<1> HIDE DEF rest
<1>5. rest \in SUBSET H /\ IsFiniteSet(rest)
  BY <1>1, <1>2, <1>3, FS_Subset
<1>6. /\ GreedyElections(n, H, rest) # {}
      /\ \A G \in GreedyElections(n, H, rest) : Elected(n, rest, G)
  BY <1>1, <1>2, <1>3, <1>5, ElectionsGood
<1>7. \A t \in Strict : t \in rest \/ \E u \in Strict : u[2] = t[2]
                                     /\ u[1] \in AlwaysWilling(n) \cup SoleProviders(left)
  BY <1>2, <1>3
<1>8. \A t \in rest : \A u \in Strict : u[2] = t[2] => u \in rest
  BY <1>2, <1>3
<1> QED  BY <1>1, <1>2, <1>3, <1>4, <1>5, <1>6, <1>7, <1>8 DEF Strict, left, rest

\* mpr_computation has a result, whatever the tables hold: the actions of
\* OLSRNeighbor that recompute the MPR set are never held up by it.
THEOREM SelectionExists ==
  ASSUME NEW n, Graded(n), NEW H, IsFiniteSet(H), NEW L
  PROVE  MprSelections(n, H, L) # {}
<1> DEFINE Strict == StrictTwoHop(n, H, L)
           left  == AfterAlways(n, Strict)
           fixed == AlwaysWilling(n) \cup SoleProviders(left)
           rest  == AfterSole(left)
<1>1. /\ fixed \subseteq SymNeighbors(n)
      /\ rest \in SUBSET H
      /\ \A t \in rest : t[1] \in SymNeighbors(n)
      /\ GreedyElections(n, H, rest) # {}
      /\ \A G \in GreedyElections(n, H, rest) : Elected(n, rest, G)
  BY SelectionParts
<1>2. PICK G \in GreedyElections(n, H, rest) : Elected(n, rest, G)
  BY <1>1
<1>3. G \subseteq SymNeighbors(n)
  BY <1>1, <1>2 DEF Elected
<1>4. fixed \cup G \in MprSelections(n, H, L)
  BY <1>1, <1>2, <1>3 DEF MprSelections
<1> QED  BY <1>4

\* Every set that the closed form of mpr_computation admits consists of
\* symmetric neighbours, leads to all strict 2-hop neighbours, and holds a
\* neighbour only if it is always willing or leads to an address to which no
\* more willing one leads.
THEOREM SelectionSound ==
  ASSUME NEW n, Graded(n), NEW H, IsFiniteSet(H), NEW L, NEW M \in MprSelections(n, H, L)
  PROVE  LET Strict == StrictTwoHop(n, H, L)
         IN  /\ M \subseteq SymNeighbors(n)
             /\ \A t \in Strict : \E u \in Strict : u[2] = t[2] /\ u[1] \in M
             /\ \A m \in M : \/ n[m].will = WillAlways
                             \/ \E t \in Strict :
                                  /\ t[1] = m
                                  /\ \A u \in Strict : u[2] = t[2] => n[u[1]].will <= n[m].will
<1> DEFINE Strict == StrictTwoHop(n, H, L)
           left  == AfterAlways(n, Strict)
           fixed == AlwaysWilling(n) \cup SoleProviders(left)
           rest  == AfterSole(left)
<1>1. /\ left \subseteq Strict /\ rest \subseteq left
      /\ \A t \in Strict : t \in rest \/ \E u \in Strict : u[2] = t[2] /\ u[1] \in fixed
      /\ \A t \in rest : \A u \in Strict : u[2] = t[2] => u \in rest
      /\ rest \in SUBSET H
      /\ \A t \in Strict : t[1] \in SymNeighbors(n)
      /\ GreedyElections(n, H, rest) # {}
      /\ \A G \in GreedyElections(n, H, rest) : Elected(n, rest, G)
  BY SelectionParts
<1>2. M \subseteq SymNeighbors(n) /\ \E G \in GreedyElections(n, H, rest) : M = fixed \cup G
  BY DEF MprSelections
<1>3. PICK G \in GreedyElections(n, H, rest) : M = fixed \cup G
  BY <1>2
<1>4. Elected(n, rest, G)
  BY <1>1, <1>3
<1>5. ASSUME NEW m \in SoleProviders(left)
      PROVE  \E t \in Strict : t[1] = m /\ \A u \in Strict : u[2] = t[2] => n[u[1]].will <= n[m].will
  <2>1. PICK t \in left : t[1] = m /\ \A v \in left : v[2] = t[2] => v[1] = t[1]
    BY DEF SoleProviders
  <2>2. \A u \in Strict : u[2] = t[2] => u \in left
    BY <2>1 DEF AfterAlways
  <2>3. n[m].will \in Nat
    BY <1>1, <2>1 DEF Graded
  <2> HIDE DEF left, Strict
  <2> QED  BY <1>1, <2>1, <2>2, <2>3
<1>6. \A m \in AlwaysWilling(n) : n[m].will = WillAlways
  BY DEF AlwaysWilling
<1> HIDE DEF Strict, left, rest
<1>7. \A t \in Strict : \E u \in Strict : u[2] = t[2] /\ u[1] \in M
  BY <1>1, <1>3, <1>4 DEF Elected
<1>8. ASSUME NEW m \in G
      PROVE  \E t \in Strict : t[1] = m /\ \A u \in Strict : u[2] = t[2] => n[u[1]].will <= n[m].will
  BY <1>1, <1>4 DEF Elected
<1> QED  BY <1>2, <1>3, <1>5, <1>6, <1>7, <1>8 DEF Strict
-----------------------------------------------------------------------------

\* The part of the invariant that ties the working copy N2 to the tuples that
\* have to be covered: it is a part of them, and it holds either all of the
\* records of an address or none.
Closed ==
  pc # "start" =>
    /\ N2 \subseteq Required
    /\ \A t \in N2 : \A u \in Required : u[2] = t[2] => u \in N2

\* The addresses noted in step 3 lead to an elected neighbour, and the loop is
\* left with nothing to cover.
Noted ==
  /\ pc = "erase" => \A x \in covered : CoveredByMpr(x)
  /\ pc = "done"  => N2 = {}

IInv ==
  /\ TypeOK
  /\ Closed
  /\ Noted
  /\ Coverage
  /\ OnlyWillingSymmetric
  /\ WillingnessRespected

\* The sets that the function reads are not written by any of its steps.
LEMMA InputsUnchanged ==
  ASSUME [Next]_vars
  PROVE  nb' = nb /\ twohop' = twohop /\ Required' = Required
BY DEF Next, vars, BuildSets, TakeAlwaysWilling, TakeSoleProviders, EraseCovered,
       SelectMax, Return, Required

\* What a strict 2-hop tuple is.
LEMMA RequiredType ==
  ASSUME TypeOK, NEW t \in Required
  PROVE  /\ t \in twohop
         /\ t[1] \in Nbr
         /\ nb[t[1]].status = "SYM"
         /\ nb[t[1]].will # WillNever
         /\ nb[t[1]].will \in Nat
<1>1. t \in twohop /\ t[1] \in SymNeighbors(nb) /\ nb[t[1]].will # WillNever
  BY DEF Required, StrictTwoHop
<1>2. t[1] \in Nbr /\ nb[t[1]].status = "SYM"
  BY <1>1 DEF SymNeighbors, TypeOK
<1>3. nb[t[1]] \in NbTuple
  BY <1>2 DEF TypeOK
<1>4. nb[t[1]].will \in Nat
  BY <1>3, MprAssumption DEF NbTuple
<1> QED  BY <1>1, <1>2, <1>4

\* The repositories and the working sets keep their types (TypeOK).
THEOREM TypeCorrect == Spec => []TypeOK
<1>1. Init => TypeOK
  BY DEF Init, TypeOK, Address, Phase
<1>2. ASSUME TypeOK, [Next]_vars PROVE TypeOK'
  <2> USE DEF TypeOK, Phase
  <2>1. CASE BuildSets
    BY <1>2, <2>1 DEF BuildSets, StrictTwoHop
  <2>2. CASE TakeAlwaysWilling
    <3>1. AlwaysWilling(nb) \subseteq Nbr
      BY <1>2 DEF AlwaysWilling, SymNeighbors
    <3> QED  BY <1>2, <2>2, <3>1 DEF TakeAlwaysWilling, AfterAlways
  <2>3. CASE TakeSoleProviders
    <3>1. \A t \in N2 : t[1] \in Nbr /\ t[2] \in Address
      BY <1>2
    <3>2. SoleProviders(N2) \subseteq Nbr
      BY <3>1 DEF SoleProviders
    <3>3. covered' \subseteq Address
      BY <2>3, <3>1 DEF TakeSoleProviders, ReachedBy
    <3> QED  BY <1>2, <2>3, <3>2, <3>3 DEF TakeSoleProviders
  <2>4. CASE EraseCovered
    BY <1>2, <2>4 DEF EraseCovered
  <2>5. CASE SelectMax
    BY <1>2, <2>5 DEF SelectMax, MaxReach, SymNeighbors, CoverTwoHopNeighbors
  <2>6. CASE Return
    BY <1>2, <2>6 DEF Return
  <2>7. CASE UNCHANGED vars
    BY <1>2, <2>7 DEF vars
  <2> QED
    BY <1>2, <2>1, <2>2, <2>3, <2>4, <2>5, <2>6, <2>7 DEF Next
<1> QED  BY <1>1, <1>2, PTL DEF Spec

\* Step "always": what it removes from N2 is reached by an elected neighbour.
LEMMA AlwaysStep ==
  ASSUME IInv, TypeOK', TakeAlwaysWilling, Required' = Required, nb' = nb
  PROVE  Closed' /\ Noted' /\ Coverage' /\ OnlyWillingSymmetric' /\ WillingnessRespected'
<1> USE DEF TakeAlwaysWilling, AfterAlways
<1>1. N2 \subseteq Required /\ N2' \subseteq N2
  BY DEF IInv, Closed
<1>2. \A t \in N2 : \A u \in Required : u[2] = t[2] => u \in N2
  BY DEF IInv, Closed
<1>3. Closed'
  BY <1>1, <1>2 DEF Closed
<1>4. Noted'
  BY DEF Noted
<1>5. \A t \in N2 : t \in N2' \/ CoveredByMpr(t[2])'
  BY <1>1 DEF CoveredByMpr, ReachedBy
<1>6. \A t \in Required : CoveredByMpr(t[2]) => CoveredByMpr(t[2])'
  BY DEF CoveredByMpr
<1>7. Coverage'
  BY <1>1, <1>5, <1>6 DEF IInv, Coverage
<1>8. OnlyWillingSymmetric'
  BY DEF IInv, OnlyWillingSymmetric, AlwaysWilling, SymNeighbors, WillAlways, WillNever
<1>9. WillingnessRespected'
  BY DEF IInv, WillingnessRespected, AlwaysWilling
<1> QED  BY <1>3, <1>4, <1>7, <1>8, <1>9

\* Step "sole": every elected neighbour is the only one for some address.
LEMMA SoleStep ==
  ASSUME IInv, TypeOK', TakeSoleProviders, Required' = Required, nb' = nb
  PROVE  Closed' /\ Noted' /\ Coverage' /\ OnlyWillingSymmetric' /\ WillingnessRespected'
<1> USE DEF TakeSoleProviders
<1>1. TypeOK /\ N2 \subseteq Required
  BY DEF IInv, Closed
<1>2. \A t \in N2 : \A u \in Required : u[2] = t[2] => u \in N2
  BY DEF IInv, Closed
<1>3. Closed'
  BY <1>1, <1>2 DEF Closed
<1>4. Noted'
  BY <1>1 DEF Noted, CoveredByMpr, ReachedBy
<1>5. \A t \in Required : CoveredByMpr(t[2]) => CoveredByMpr(t[2])'
  BY DEF CoveredByMpr
<1>6. Coverage'
  BY <1>5 DEF IInv, Coverage
<1>7. \A t \in Required : /\ nb[t[1]].status = "SYM"
                          /\ nb[t[1]].will # WillNever
                          /\ nb[t[1]].will \in Nat
  BY <1>1, RequiredType
<1>8. OnlyWillingSymmetric'
  BY <1>1, <1>7 DEF IInv, OnlyWillingSymmetric, SoleProviders
<1>9. ASSUME NEW m \in SoleProviders(N2)
      PROVE  \E t \in Required :
               /\ t[1] = m
               /\ \A u \in Required : u[2] = t[2] => nb[u[1]].will <= nb[m].will
  <2>1. PICK t \in N2 : t[1] = m /\ \A v \in N2 : v[2] = t[2] => v[1] = t[1]
    BY <1>9 DEF SoleProviders
  <2>2. \A u \in Required : u[2] = t[2] => u[1] = m
    BY <1>2, <2>1
  <2>3. t \in Required /\ nb[m].will <= nb[m].will
    BY <1>1, <1>7, <2>1
  <2> QED  BY <2>1, <2>2, <2>3
<1>10. WillingnessRespected'
  BY <1>9 DEF IInv, WillingnessRespected
<1> QED  BY <1>3, <1>4, <1>6, <1>8, <1>10

\* One iteration of the loop: the neighbour chosen has the highest willingness
\* of those that lead to anything in N2, and N2 holds all records of what is left.
LEMMA LoopStep ==
  ASSUME IInv, TypeOK', SelectMax, Required' = Required, nb' = nb
  PROVE  Closed' /\ Noted' /\ Coverage' /\ OnlyWillingSymmetric' /\ WillingnessRespected'
<1>1. TypeOK /\ N2 \subseteq Required
  BY DEF IInv, Closed, SelectMax
<1>2. \A t \in N2 : \A u \in Required : u[2] = t[2] => u \in N2
  BY DEF IInv, Closed, SelectMax
<1>3. PICK m \in MaxReach(nb, twohop, N2) :
         mprset' = mprset \cup {m} /\ N2' = CoverTwoHopNeighbors(m, N2)
  BY DEF SelectMax
<1>4. pc = "loop" /\ pc' = "loop"
  BY DEF SelectMax
<1>5. Closed'
  BY <1>1, <1>2, <1>3 DEF Closed, CoverTwoHopNeighbors
<1>6. Noted'
  BY <1>4 DEF Noted
<1>7. \A t \in N2 : t \in N2' \/ CoveredByMpr(t[2])'
  BY <1>1, <1>3 DEF CoveredByMpr, ReachedBy, CoverTwoHopNeighbors
<1>8. \A t \in Required : CoveredByMpr(t[2]) => CoveredByMpr(t[2])'
  BY <1>3 DEF CoveredByMpr
<1>9. Coverage'
  BY <1>4, <1>7, <1>8 DEF IInv, Coverage
<1>10. \A t \in Required : /\ nb[t[1]].status = "SYM"
                           /\ nb[t[1]].will # WillNever
                           /\ nb[t[1]].will \in Nat
                           /\ t[1] \in SymNeighbors(nb)
  BY <1>1, RequiredType DEF Required, StrictTwoHop
<1>11. PICK t \in N2 : t[1] = m
  BY <1>3 DEF MaxReach
<1>12. OnlyWillingSymmetric'
  BY <1>1, <1>3, <1>4, <1>10, <1>11 DEF IInv, OnlyWillingSymmetric
<1>13. \A n \in SymNeighbors(nb) : (\E u \in N2 : u[1] = n) => NoWorse(m, n, nb, twohop, N2)
  BY <1>3 DEF MaxReach
<1>14. ASSUME NEW u \in Required, u[2] = t[2]
       PROVE  nb[u[1]].will <= nb[m].will
  <2>1. u \in N2 /\ t \in Required
    BY <1>1, <1>2, <1>11, <1>14
  <2>2. NoWorse(m, u[1], nb, twohop, N2)
    BY <2>1, <1>10, <1>13
  <2>3. nb[m].will \in Nat /\ nb[u[1]].will \in Nat
    BY <2>1, <1>10, <1>11
  <2>4. nb[m].will > nb[u[1]].will \/ nb[m].will = nb[u[1]].will
    BY <2>2 DEF NoWorse
  <2> QED  BY <2>3, <2>4
<1>15. WillingnessRespected'
  BY <1>1, <1>3, <1>4, <1>11, <1>14 DEF IInv, WillingnessRespected
<1> QED  BY <1>5, <1>6, <1>9, <1>12, <1>15

\* The invariant of mpr_computation: in particular the set it returns covers
\* every strict 2-hop neighbour (Coverage), holds only symmetric neighbours
\* willing to forward, and never prefers a less willing one without need.
THEOREM MprInvariant == Spec => []IInv
<1>1. Init => IInv
  BY DEF Init, IInv, TypeOK, Address, Phase, Closed, Noted, Coverage,
         OnlyWillingSymmetric, WillingnessRespected
<1>2. ASSUME IInv, TypeOK', [Next]_vars PROVE IInv'
  <2>1. nb' = nb /\ twohop' = twohop /\ Required' = Required
    BY <1>2, InputsUnchanged
  <2>2. CASE BuildSets
    BY <1>2, <2>1, <2>2
    DEF BuildSets, IInv, Closed, Noted, Coverage, OnlyWillingSymmetric,
        WillingnessRespected, Required
  <2>3. CASE TakeAlwaysWilling
    BY <1>2, <2>1, <2>3, AlwaysStep DEF IInv
  <2>4. CASE TakeSoleProviders
    BY <1>2, <2>1, <2>4, SoleStep DEF IInv
  <2>5. CASE EraseCovered
    <3>1. Closed'
      BY <1>2, <2>1, <2>5 DEF EraseCovered, IInv, Closed
    <3>2. Coverage'
      BY <1>2, <2>1, <2>5 DEF EraseCovered, IInv, Noted, Coverage, CoveredByMpr
    <3>3. Noted' /\ OnlyWillingSymmetric' /\ WillingnessRespected'
      BY <1>2, <2>1, <2>5
      DEF EraseCovered, IInv, Noted, OnlyWillingSymmetric, WillingnessRespected
    <3> QED  BY <1>2, <3>1, <3>2, <3>3 DEF IInv
  <2>6. CASE SelectMax
    BY <1>2, <2>1, <2>6, LoopStep DEF IInv
  <2>7. CASE Return
    BY <1>2, <2>1, <2>7
    DEF Return, IInv, Closed, Noted, Coverage, CoveredByMpr, OnlyWillingSymmetric,
        WillingnessRespected
  <2>8. CASE UNCHANGED vars
    BY <1>2, <2>1, <2>8
    DEF vars, IInv, Closed, Noted, Coverage, CoveredByMpr, OnlyWillingSymmetric,
        WillingnessRespected
  <2> QED
    BY <1>2, <2>2, <2>3, <2>4, <2>5, <2>6, <2>7, <2>8 DEF Next
<1> QED  BY <1>1, <1>2, TypeCorrect, PTL DEF Spec

\* No strict 2-hop neighbour is lost from the MPR computation (Coverage).
THEOREM MprCoverage == Spec => []Coverage
<1>1. IInv => Coverage
  BY DEF IInv
<1> QED  BY <1>1, MprInvariant, PTL

\* No neighbour that refuses to forward is ever elected (OnlyWillingSymmetric).
THEOREM MprOnlyWilling == Spec => []OnlyWillingSymmetric
<1>1. IInv => OnlyWillingSymmetric
  BY DEF IInv
<1> QED  BY <1>1, MprInvariant, PTL

\* A less willing neighbour is elected only where it is needed
\* (WillingnessRespected).
THEOREM MprWillingness == Spec => []WillingnessRespected
<1>1. IInv => WillingnessRespected
  BY DEF IInv
<1> QED  BY <1>1, MprInvariant, PTL

-----------------------------------------------------------------------------
\* The tables are such as the selection lemmas assume.
LEMMA TablesFinite ==
  ASSUME TypeOK
  PROVE  Graded(nb) /\ IsFiniteSet(twohop)
<1>1. \A x \in Nbr : nb[x].will \in Nat
  BY MprAssumption DEF TypeOK, NbTuple
<1>2. Graded(nb)
  BY <1>1 DEF Graded, SymNeighbors, TypeOK
<1>3. IsFiniteSet(Nbr) /\ IsFiniteSet(Address)
  BY MprFinite, FS_Subset DEF Address
<1>4. IsFiniteSet(Nbr \X Address)
  BY <1>3, FS_Product
<1> QED  BY <1>2, <1>4, FS_Subset DEF TypeOK

\* How the working sets of each phase stand to the closed form: whatever the
\* loop still elects, the result will be one that the closed form admits.
FollowsClosedForm ==
  LET left == AfterAlways(nb, Required)
  IN  /\ pc = "always" => mprset = {} /\ N2 = Required
      /\ pc = "sole"   => mprset = AlwaysWilling(nb) /\ N2 = left
      /\ pc = "erase"  => /\ mprset = AlwaysWilling(nb) \cup SoleProviders(left)
                          /\ N2 = left
                          /\ covered = UNION {ReachedBy(n, left) : n \in SoleProviders(left)}
      /\ pc = "loop"   => \A G \in GreedyElections(nb, twohop, N2) :
                            mprset \cup G \in MprSelections(nb, twohop, Local)
      /\ pc = "done"   => mprset \in MprSelections(nb, twohop, Local)

\* The loop starts on the tuples that the greedy elections start on.
LEMMA EraseFollows ==
  ASSUME IInv, FollowsClosedForm, EraseCovered
  PROVE  \A G \in GreedyElections(nb, twohop, N2') :
           mprset \cup G \in MprSelections(nb, twohop, Local)
<1> DEFINE left  == AfterAlways(nb, Required)
           fixed == AlwaysWilling(nb) \cup SoleProviders(left)
           rest  == AfterSole(left)
<1>1. mprset = fixed /\ N2 = left /\ covered = UNION {ReachedBy(n, left) : n \in SoleProviders(left)}
  BY DEF EraseCovered, FollowsClosedForm
<1>2. N2' = rest
  <2> HIDE DEF left
  <2> QED  BY <1>1 DEF EraseCovered, AfterSole
<1>3. Graded(nb) /\ IsFiniteSet(twohop)
  BY TablesFinite DEF IInv
<1>4. /\ fixed \subseteq SymNeighbors(nb)
      /\ rest \subseteq Required
      /\ \A t \in Required : t[1] \in SymNeighbors(nb)
      /\ \A G \in GreedyElections(nb, twohop, rest) : Elected(nb, rest, G)
  BY <1>3, SelectionParts DEF Required
<1>5. ASSUME NEW G \in GreedyElections(nb, twohop, rest)
      PROVE  fixed \cup G \in MprSelections(nb, twohop, Local)
  <2>1. G \subseteq SymNeighbors(nb)
    BY <1>4 DEF Elected
  <2> QED  BY <1>4, <2>1 DEF MprSelections, Required
<1> QED  BY <1>1, <1>2, <1>5

\* An iteration of the loop is a step of the recursion.
LEMMA LoopFollows ==
  ASSUME IInv, FollowsClosedForm, SelectMax
  PROVE  \A G \in GreedyElections(nb, twohop, N2') :
           mprset' \cup G \in MprSelections(nb, twohop, Local)
<1>1. PICK m \in MaxReach(nb, twohop, N2) :
        mprset' = mprset \cup {m} /\ N2' = CoverTwoHopNeighbors(m, N2)
  BY DEF SelectMax
<1>2. pc = "loop" /\ N2 # {} /\ IsFiniteSet(N2)
  BY TablesFinite, FS_Subset DEF SelectMax, IInv, TypeOK
<1>3. ASSUME NEW G \in GreedyElections(nb, twohop, N2')
      PROVE  mprset' \cup G \in MprSelections(nb, twohop, Local)
  <2>1. {m} \cup G \in GreedyElections(nb, twohop, N2)
    BY <1>1, <1>2, <1>3, GreedyStep
  <2>2. mprset \cup ({m} \cup G) \in MprSelections(nb, twohop, Local)
    BY <1>2, <2>1 DEF FollowsClosedForm
  <2>3. mprset' \cup G = mprset \cup ({m} \cup G)
    BY <1>1
  <2> QED  BY <2>2, <2>3
<1> QED  BY <1>3

\* The closed form by which OLSRNeighbor replaces the function admits every
\* result of it (MatchesSelections).
THEOREM MprMatchesSelections == Spec => []MatchesSelections
<1>1. Init => FollowsClosedForm
  BY DEF Init, FollowsClosedForm
<1>2. ASSUME IInv, FollowsClosedForm, [Next]_vars PROVE FollowsClosedForm'
  <2>1. nb' = nb /\ twohop' = twohop /\ Required' = Required
    BY <1>2, InputsUnchanged
  <2>2. CASE BuildSets
    BY <2>1, <2>2 DEF BuildSets, FollowsClosedForm, Required
  <2>3. CASE TakeAlwaysWilling
    BY <1>2, <2>1, <2>3 DEF TakeAlwaysWilling, FollowsClosedForm
  <2>4. CASE TakeSoleProviders
    BY <1>2, <2>1, <2>4 DEF TakeSoleProviders, FollowsClosedForm
  <2>5. CASE EraseCovered
    <3>1. mprset' = mprset /\ pc' = "loop"
      BY <2>5 DEF EraseCovered
    <3> QED  BY <1>2, <2>1, <2>5, <3>1, EraseFollows DEF FollowsClosedForm
  <2>6. CASE SelectMax
    <3>1. pc' = "loop"
      BY <2>6 DEF SelectMax
    <3> QED  BY <1>2, <2>1, <2>6, <3>1, LoopFollows DEF FollowsClosedForm
  <2>7. CASE Return
    <3>1. pc' = "done" /\ mprset' = mprset /\ mprset \cup {} \in MprSelections(nb, twohop, Local)
      BY <1>2, <2>7, GreedyEmpty DEF Return, FollowsClosedForm
    <3> QED  BY <2>1, <3>1 DEF FollowsClosedForm
  <2>8. CASE UNCHANGED vars
    <3>1. UNCHANGED <<N2, covered, mprset, pc>>
      BY <2>8 DEF vars
    <3> QED  BY <1>2, <2>1, <3>1 DEF FollowsClosedForm
  <2> QED  BY <1>2, <2>2, <2>3, <2>4, <2>5, <2>6, <2>7, <2>8 DEF Next
<1>3. FollowsClosedForm => MatchesSelections
  BY DEF FollowsClosedForm, MatchesSelections
<1> QED  BY <1>1, <1>2, <1>3, MprInvariant, PTL DEF Spec

-----------------------------------------------------------------------------
\* The loop of step 4 has a neighbour to elect while N2 holds a tuple: "max"
\* is not null, the function does not spin.
LoopHasCandidate == pc = "loop" /\ N2 # {} => MaxReach(nb, twohop, N2) # {}

\* While a 2-hop tuple is not covered, there is a neighbour to elect for it
\* (LoopHasCandidate).
THEOREM MprLoopHasCandidate == Spec => []LoopHasCandidate
<1>1. ASSUME IInv, pc = "loop", N2 # {} PROVE MaxReach(nb, twohop, N2) # {}
  <2>1. N2 \in SUBSET twohop
    BY <1>1 DEF IInv, TypeOK
  <2>2. \A t \in N2 : t[1] \in SymNeighbors(nb)
    BY <1>1 DEF IInv, Closed, Required, StrictTwoHop
  <2> QED  BY <1>1, <2>1, <2>2, TablesFinite, MaxReachExists DEF IInv
<1>2. IInv => LoopHasCandidate
  BY <1>1 DEF LoopHasCandidate
<1> QED  BY <1>2, MprInvariant, PTL

\* What each step brings nearer: the next phase, or the end of the loop.
Advances ==
  \/ <<pc, pc'>> \in {<<"start", "always">>, <<"always", "sole">>, <<"sole", "erase">>,
                      <<"erase", "loop">>, <<"loop", "done">>}
  \/ /\ pc = "loop" /\ pc' = "loop"
     /\ Cardinality(N2) \in Nat /\ Cardinality(N2') \in Nat
     /\ Cardinality(N2') < Cardinality(N2)

\* Every step goes on to the next phase or takes a tuple out of N2: with
\* LoopHasCandidate, and since the other phases never wait, mpr_computation ends
\* after at most five steps more than there are 2-hop tuples.
THEOREM MprAdvances == Spec => [][Advances]_vars
<1>1. ASSUME IInv, Next PROVE Advances
  <2>1. ASSUME SelectMax PROVE Advances
    <3>1. PICK m \in MaxReach(nb, twohop, N2) : N2' = CoverTwoHopNeighbors(m, N2)
      BY <2>1 DEF SelectMax
    <3>2. IsFiniteSet(N2)
      BY <1>1, TablesFinite, FS_Subset DEF IInv, TypeOK
    <3>3. /\ Cardinality(N2) \in Nat /\ Cardinality(N2') \in Nat
          /\ Cardinality(N2') < Cardinality(N2)
      BY <3>1, <3>2, CoverSmaller, FS_CardinalityType
    <3> QED  BY <2>1, <3>3 DEF SelectMax, Advances
  <2>2. ASSUME BuildSets \/ TakeAlwaysWilling \/ TakeSoleProviders \/ EraseCovered \/ Return
        PROVE  Advances
    BY <2>2 DEF BuildSets, TakeAlwaysWilling, TakeSoleProviders, EraseCovered, Return, Advances
  <2> QED  BY <1>1, <2>1, <2>2 DEF Next
<1> QED  BY <1>1, MprInvariant, PTL DEF Spec

=============================================================================
