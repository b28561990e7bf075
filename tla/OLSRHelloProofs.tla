--------------------------- MODULE OLSRHelloProofs --------------------------
(***************************************************************************)
(* Two agents that exchange HELLOs: each is a neighbourhood in the sense   *)
(* of OLSRNeighbor, and A does not count B as symmetric long after B could *)
(* hear it, for any validity and hold times.                               *)
(*                                                                         *)
(* What OLSRNeighborProofs shows of a single link tuple is used for both   *)
(* agents: it does not depend on whose tuple it is.                        *)
(***************************************************************************)
EXTENDS OLSRHello, TLAPS

P == INSTANCE OLSRNeighborProofs WITH
       Self <- A, Nbr <- {B}, Far <- {X}, Hellos <- HellosFrom(B), UseMac <- FALSE,
       link <- linkA, nb <- nbA, twohop <- twohopA, mprset <- mprsetA,
       mprsel <- mprselA, rtnbr <- rtnbrA, alive <- aliveA

\* The two agents and P have the operators on link tuples in common.
LEMMA SameOps ==
  /\ \A l, c : AtA!SensedLink(l, c) = P!SensedLink(l, c) /\ AtB!SensedLink(l, c) = P!SensedLink(l, c)
  /\ \A l : AtA!Status(l) = P!Status(l) /\ AtB!Status(l) = P!Status(l)
  /\ \A x, y : AtA!Least(x, y) = P!Least(x, y) /\ AtB!Least(x, y) = P!Least(x, y)
  /\ \A x : AtA!Dec(x) = P!Dec(x) /\ AtB!Dec(x) = P!Dec(x)
  /\ AtA!NoLink = P!NoLink /\ AtB!NoLink = P!NoLink
  /\ AtA!NoNb = P!NoNb /\ AtB!NoNb = P!NoNb
  /\ Lag = P!Lag
<1>1. \A x, y : /\ AtA!Least(x, y) = P!Least(x, y) /\ AtB!Least(x, y) = P!Least(x, y)
                /\ AtA!Greatest(x, y) = P!Greatest(x, y) /\ AtB!Greatest(x, y) = P!Greatest(x, y)
  BY DEF AtA!Least, AtB!Least, P!Least, AtA!Greatest, AtB!Greatest, P!Greatest
<1>2. AtA!Expired = P!Expired /\ AtB!Expired = P!Expired
  BY DEF AtA!Expired, AtB!Expired, P!Expired
<1>3. \A l, c : AtA!SensedLink(l, c) = P!SensedLink(l, c) /\ AtB!SensedLink(l, c) = P!SensedLink(l, c)
  BY DEF AtA!SensedLink, AtB!SensedLink, P!SensedLink, AtA!Expired, AtB!Expired, P!Expired,
         AtA!Least, AtB!Least, P!Least, AtA!Greatest, AtB!Greatest, P!Greatest
<1>4. /\ AtA!NoLink = P!NoLink /\ AtB!NoLink = P!NoLink
      /\ AtA!NoNb = P!NoNb /\ AtB!NoNb = P!NoNb
  BY <1>2 DEF AtA!NoLink, AtB!NoLink, P!NoLink, AtA!NoNb, AtB!NoNb, P!NoNb
<1>5. \A l : AtA!Status(l) = P!Status(l) /\ AtB!Status(l) = P!Status(l)
  BY DEF AtA!Status, AtB!Status, P!Status
<1>6. \A x : AtA!Dec(x) = P!Dec(x) /\ AtB!Dec(x) = P!Dec(x)
  BY DEF AtA!Dec, AtB!Dec, P!Dec
<1>7. Lag = P!Lag
  BY <1>1 DEF Lag, AtA!Lag, P!Lag
<1> QED  BY <1>1, <1>3, <1>4, <1>5, <1>6, <1>7

LinkType == [up : BOOLEAN, sym : -1..VTime, asym : -1..VTime,
             time : -1..(VTime + HoldTime), lost : -1..HoldTime,
             timer : -1..(VTime + HoldTime), first : BOOLEAN]
NbType   == [status : {"NONE", "NOT_SYM", "SYM"}, will : Nat]

\* The assumption of OLSRNeighbor holds of the instance.
LEMMA AssumptionP == P!NeighborAssumption
<1>1. HellosFrom(B) \subseteq [orig : {B}, will : Nat, code : [P!Address -> P!LinkCodes]]
  BY HelloAssumption
  DEF HellosFrom, Hello, Links, NotListed, P!Address, P!LinkCodes, P!LinkTypes, P!NbTypes,
      P!NotListed, Agent, Address
<1> QED  BY <1>1, HelloAssumption DEF P!NeighborAssumption

\* What LinkInv says without link-layer feedback.
LEMMA LinkInvMeans ==
  ASSUME NEW l, NEW s
  PROVE  P!LinkInv(l, s) <=>
           /\ l.up <=> s # "NONE"
           /\ l.up => l.timer <= l.time
           /\ s = "SYM" \/ l.sym >= 0 => l.time <= l.sym + Lag
           /\ s = "NOT_SYM" => l.sym < 0
BY SameOps DEF P!LinkInv, P!FailureOutlastsLink

-----------------------------------------------------------------------------
\* Code c tells its receiver that it is heard.
Tells(c) == c.lt \in {"SYM", "ASYM"} /\ ~(c.lt = "SYM" /\ c.nt = "NOT")

\* What B's link tuple for A says of the last HELLO it processed.
HeardRecently ==
  /\ linkB[A].asym >= 0 => heard + linkB[A].asym <= VTime
  /\ linkB[A].sym >= 0 => heard + linkB[A].sym <= VTime

\* A HELLO of B that tells A so was made within a validity time of it.
AirRecent == \A h \in air : h.orig = B /\ Tells(h.code[A]) => heard <= VTime

\* What the tuples of A for B say of it.
CountsRecent ==
  /\ linkA[B].sym >= 0 => heard + linkA[B].sym <= 2 * VTime
  /\ nbA[B].status = "SYM" => heard + linkA[B].time <= 2 * VTime + Lag

IInv ==
  /\ linkA \in [{B} -> LinkType] /\ nbA \in [{B} -> NbType]
  /\ linkB \in [{A} -> LinkType] /\ nbB \in [{A} -> NbType]
  /\ P!LinkInv(linkA[B], nbA[B].status)
  /\ P!LinkInv(linkB[A], nbB[A].status)
  /\ \A h \in air : h.orig \in Agent /\ h \in HellosFrom(h.orig)
  /\ heard \in 0..LongAgo
  /\ HeardRecently
  /\ AirRecent
  /\ CountsRecent
  /\ linkA[B].up => aliveA

LEMMA LagType == Lag \in Nat \ {0}
BY HelloAssumption DEF Lag, AtA!Lag, AtA!Greatest

\* How the timers of an agent change its tuples for the other: the link tuple
\* goes, or only its timer changes, and the status is kept or lost.
TimerChange(l, n, k, m) ==
  /\ k \in LinkType /\ m \in NbType
  /\ P!LinkInv(k, m.status)
  /\ \/ k.sym = -1 /\ k.asym = -1
     \/ k.sym = l.sym /\ k.asym = l.asym
  /\ m.status # "SYM" \/ (m = n /\ k.time = l.time)
  /\ k.up => l.up

\* The link tuple goes.
LEMMA GoneChange ==
  ASSUME NEW l, NEW n
  PROVE  TimerChange(l, n, P!NoLink, P!NoNb)
<1>1. P!NoLink \in LinkType /\ P!NoNb \in NbType
  BY HelloAssumption DEF P!NoLink, P!NoNb, P!Expired, LinkType, NbType
<1>2. P!NoNb.status = "NONE" /\ P!NoLink.up = FALSE /\ P!NoLink.sym = -1 /\ P!NoLink.asym = -1
  BY DEF P!NoLink, P!NoNb, P!Expired
<1>3. P!LinkInv(P!NoLink, P!NoNb.status)
  BY <1>2, LinkInvMeans
<1> HIDE DEF P!NoLink, P!NoNb
<1> QED  BY <1>1, <1>2, <1>3 DEF TimerChange

\* The timer of a link tuple is set again.
LEMMA RearmChange ==
  ASSUME NEW l \in LinkType, NEW n \in NbType, P!LinkInv(l, n.status),
         NEW t \in {l.time, P!Least(l.time, l.sym)}, NEW f \in BOOLEAN,
         NEW k, k = [l EXCEPT !.timer = t, !.first = f]
  PROVE  TimerChange(l, n, k, n)
<1>1. t \in -1..(VTime + HoldTime) /\ t <= l.time
  BY HelloAssumption DEF LinkType, P!Least
<1>2. /\ k.up = l.up /\ k.sym = l.sym /\ k.asym = l.asym /\ k.time = l.time /\ k.timer = t
  BY DEF LinkType
<1>3. [l EXCEPT !.timer = t] \in LinkType
  BY <1>1 DEF LinkType
<1>4. k \in LinkType
  BY <1>3 DEF LinkType
<1>5. P!LinkInv(k, n.status)
  BY <1>1, <1>2, LinkInvMeans
<1> QED  BY <1>2, <1>4, <1>5 DEF TimerChange

\* Neighbour loss after a lapse.
LEMMA LapseChange ==
  ASSUME NEW l \in LinkType, NEW n \in NbType, P!LinkInv(l, n.status), l.up, l.sym < 0,
         NEW k, k = [l EXCEPT !.timer = l.time],
         NEW m, m = [n EXCEPT !.status = P!Status(k)]
  PROVE  TimerChange(l, n, k, m)
<1>1. /\ k \in LinkType
      /\ k.up = l.up /\ k.sym = l.sym /\ k.asym = l.asym /\ k.time = l.time /\ k.timer = l.time
  BY DEF LinkType
<1>2. P!Status(k) = "NOT_SYM"
  BY <1>1 DEF P!Status
<1>3. m \in NbType /\ m.status = "NOT_SYM"
  BY <1>2 DEF NbType
<1>4. P!LinkInv(k, m.status)
  <2>1. l.time \in Int /\ l.sym \in Int /\ ~(l.sym >= 0) /\ l.up = TRUE
    BY DEF LinkType
  <2>2. /\ k.up <=> m.status # "NONE"
        /\ k.timer <= k.time
        /\ ~(m.status = "SYM" \/ k.sym >= 0)
        /\ k.sym < 0
    BY <1>1, <1>3, <2>1
  <2> QED  BY <2>2, LinkInvMeans
<1> QED  BY <1>1, <1>3, <1>4 DEF TimerChange

\* The timers of A.
LEMMA TimerA ==
  ASSUME IInv, AtA!TimerNext
  PROVE  /\ linkA' \in [{B} -> LinkType] /\ nbA' \in [{B} -> NbType]
         /\ TimerChange(linkA[B], nbA[B], linkA'[B], nbA'[B])
         /\ aliveA' = aliveA
<1> DEFINE l == linkA[B]
           n == nbA[B]
<1>0. l \in LinkType /\ n \in NbType /\ P!LinkInv(l, n.status)
      /\ linkA = [b \in {B} |-> l] /\ nbA = [b \in {B} |-> n]
  BY DEF IInv
<1>6. aliveA' = aliveA
  BY DEF AtA!TimerNext, AtA!LinkTupleExpire, AtA!SymLapseFirst, AtA!SymLapse, AtA!NbLoss,
         AtA!LinkTimerRearm, AtA!MprSelExpire, AtA!Nb2hopExpire
<1> SUFFICES TimerChange(l, n, linkA'[B], nbA'[B])
             /\ linkA' = [b \in {B} |-> linkA'[B]] /\ nbA' = [b \in {B} |-> nbA'[B]]
  BY <1>6 DEF TimerChange
<1>1. CASE AtA!LinkTupleExpire(B)
  <2>1. linkA' = [b \in {B} |-> P!NoLink] /\ nbA' = [b \in {B} |-> P!NoNb]
    BY <1>0, <1>1, SameOps DEF AtA!LinkTupleExpire, AtA!RemoveLinkTuple
  <2> QED  BY <2>1, GoneChange
<1>2. CASE AtA!SymLapseFirst(B)
  <2>1. linkA' = [b \in {B} |-> [l EXCEPT !.timer = l.time, !.first = FALSE]] /\ nbA' = nbA
    BY <1>0, <1>2 DEF AtA!SymLapseFirst
  <2> QED  BY <1>0, <2>1, RearmChange
<1>3. CASE AtA!SymLapse(B)
  <2> DEFINE k == [l EXCEPT !.timer = l.time]
  <2>1. /\ linkA' = [linkA EXCEPT ![B] = k]
        /\ nbA' = [nbA EXCEPT ![B].status = AtA!Status(k)]
        /\ l.up /\ l.sym < 0
    BY <1>3 DEF AtA!SymLapse, AtA!NbLoss, AtA!LinkTimerDue
  <2> HIDE DEF k
  <2>2. /\ linkA' = [b \in {B} |-> k]
        /\ nbA' = [b \in {B} |-> [n EXCEPT !.status = P!Status(k)]]
    BY <1>0, <2>1, SameOps
  <2> QED  BY <1>0, <2>1, <2>2, LapseChange DEF k
<1>4. CASE AtA!LinkTimerRearm(B)
  <2>1. linkA' = [b \in {B} |-> [l EXCEPT !.timer = P!Least(l.time, l.sym)]] /\ nbA' = nbA
    BY <1>0, <1>4, SameOps DEF AtA!LinkTimerRearm
  <2>2. [l EXCEPT !.timer = P!Least(l.time, l.sym)]
          = [l EXCEPT !.timer = P!Least(l.time, l.sym), !.first = l.first]
    BY <1>0 DEF LinkType
  <2> QED  BY <1>0, <2>1, <2>2, RearmChange DEF LinkType
<1>5. CASE linkA' = linkA /\ nbA' = nbA
  BY <1>0, <1>5 DEF TimerChange
<1> QED
  BY <1>1, <1>2, <1>3, <1>4, <1>5
  DEF AtA!TimerNext, AtA!MprSelExpire, AtA!Nb2hopExpire

\* The timers of B.
LEMMA TimerB ==
  ASSUME IInv, AtB!TimerNext
  PROVE  /\ linkB' \in [{A} -> LinkType] /\ nbB' \in [{A} -> NbType]
         /\ TimerChange(linkB[A], nbB[A], linkB'[A], nbB'[A])
<1> DEFINE l == linkB[A]
           n == nbB[A]
<1>0. l \in LinkType /\ n \in NbType /\ P!LinkInv(l, n.status)
      /\ linkB = [b \in {A} |-> l] /\ nbB = [b \in {A} |-> n]
  BY DEF IInv
<1> SUFFICES TimerChange(l, n, linkB'[A], nbB'[A])
             /\ linkB' = [b \in {A} |-> linkB'[A]] /\ nbB' = [b \in {A} |-> nbB'[A]]
  BY DEF TimerChange
<1>1. CASE AtB!LinkTupleExpire(A)
  <2>1. linkB' = [b \in {A} |-> P!NoLink] /\ nbB' = [b \in {A} |-> P!NoNb]
    BY <1>0, <1>1, SameOps DEF AtB!LinkTupleExpire, AtB!RemoveLinkTuple
  <2> QED  BY <2>1, GoneChange
<1>2. CASE AtB!SymLapseFirst(A)
  <2>1. linkB' = [b \in {A} |-> [l EXCEPT !.timer = l.time, !.first = FALSE]] /\ nbB' = nbB
    BY <1>0, <1>2 DEF AtB!SymLapseFirst
  <2> QED  BY <1>0, <2>1, RearmChange
<1>3. CASE AtB!SymLapse(A)
  <2> DEFINE k == [l EXCEPT !.timer = l.time]
  <2>1. /\ linkB' = [linkB EXCEPT ![A] = k]
        /\ nbB' = [nbB EXCEPT ![A].status = AtB!Status(k)]
        /\ l.up /\ l.sym < 0
    BY <1>3 DEF AtB!SymLapse, AtB!NbLoss, AtB!LinkTimerDue
  <2> HIDE DEF k
  <2>2. /\ linkB' = [b \in {A} |-> k]
        /\ nbB' = [b \in {A} |-> [n EXCEPT !.status = P!Status(k)]]
    BY <1>0, <2>1, SameOps
  <2> QED  BY <1>0, <2>1, <2>2, LapseChange DEF k
<1>4. CASE AtB!LinkTimerRearm(A)
  <2>1. linkB' = [b \in {A} |-> [l EXCEPT !.timer = P!Least(l.time, l.sym)]] /\ nbB' = nbB
    BY <1>0, <1>4, SameOps DEF AtB!LinkTimerRearm
  <2>2. [l EXCEPT !.timer = P!Least(l.time, l.sym)]
          = [l EXCEPT !.timer = P!Least(l.time, l.sym), !.first = l.first]
    BY <1>0 DEF LinkType
  <2> QED  BY <1>0, <2>1, <2>2, RearmChange DEF LinkType
<1>5. CASE linkB' = linkB /\ nbB' = nbB
  BY <1>0, <1>5 DEF TimerChange
<1> QED
  BY <1>1, <1>2, <1>3, <1>4, <1>5
  DEF AtB!TimerNext, AtB!MprSelExpire, AtB!Nb2hopExpire

\* A HELLO with code c changes an agent's tuples l and n to k and m.
HelloChange(l, c, k, m) ==
  /\ k \in LinkType /\ m \in NbType
  /\ P!LinkInv(k, m.status)
  /\ m.status = "SYM" <=> k.sym >= 0
  /\ k.asym = VTime
  /\ k.sym = (IF Tells(c) THEN VTime ELSE IF c.lt = "LOST" THEN -1 ELSE l.sym)
  /\ k.sym >= 0 => k.time <= k.sym + Lag

LEMMA HelloChanges ==
  ASSUME NEW l \in LinkType, NEW n \in NbType, P!LinkInv(l, n.status), NEW c,
         NEW k, k = P!SensedLink(l, c),
         NEW m, m = [status |-> P!Status(k), will |-> Will]
  PROVE  HelloChange(l, c, k, m)
<1>1. k \in LinkType
  BY P!SensedLinkType, AssumptionP DEF LinkType, P!LinkType
<1>2. P!LinkInv(k, P!Status(k))
  BY P!SensedLinkInv, AssumptionP DEF LinkType, P!LinkType
<1>3. /\ k.asym = VTime
      /\ k.sym = (IF Tells(c) THEN VTime ELSE IF c.lt = "LOST" THEN -1 ELSE l.sym)
  BY DEF P!SensedLink, P!Expired, Tells
<1>4. P!Status(k) = IF k.sym < 0 THEN "NOT_SYM" ELSE "SYM"
  BY DEF P!Status
<1>5. m \in NbType /\ m.status = P!Status(k)
  BY <1>4, HelloAssumption DEF NbType
<1>6. k.sym \in Int
  BY <1>1 DEF LinkType
<1>7. m.status = "SYM" <=> k.sym >= 0
  BY <1>4, <1>5, <1>6
<1>8. k.sym >= 0 => k.time <= k.sym + Lag
  BY <1>2, LinkInvMeans
<1> QED  BY <1>1, <1>2, <1>3, <1>5, <1>7, <1>8 DEF HelloChange

\* A HELLO arrives at A.
LEMMA HelloA ==
  ASSUME IInv, NEW h, h.orig = B, h.will = Will, AtA!ProcessHello(h)
  PROVE  /\ linkA' \in [{B} -> LinkType] /\ nbA' \in [{B} -> NbType]
         /\ HelloChange(linkA[B], h.code[A], linkA'[B], nbA'[B])
<1> DEFINE l == linkA[B]
           k == P!SensedLink(l, h.code[A])
           m == [status |-> P!Status(k), will |-> Will]
<1>0. l \in LinkType /\ nbA[B] \in NbType /\ P!LinkInv(l, nbA[B].status)
      /\ linkA = [b \in {B} |-> l] /\ nbA = [b \in {B} |-> nbA[B]]
  BY DEF IInv
<1>1. linkA' = [linkA EXCEPT ![B] = k] /\ nbA' = [nbA EXCEPT ![B] = m]
  BY SameOps DEF AtA!ProcessHello, AtA!HeardNeighbor
<1>2. HelloChange(l, h.code[A], k, m)
  BY <1>0, HelloChanges
<1> HIDE DEF k, m
<1>3. linkA' = [b \in {B} |-> k] /\ nbA' = [b \in {B} |-> m]
  BY <1>0, <1>1
<1> QED  BY <1>2, <1>3 DEF HelloChange

\* A HELLO arrives at B.
LEMMA HelloB ==
  ASSUME IInv, NEW h, h.orig = A, h.will = Will, AtB!ProcessHello(h)
  PROVE  /\ linkB' \in [{A} -> LinkType] /\ nbB' \in [{A} -> NbType]
         /\ HelloChange(linkB[A], h.code[B], linkB'[A], nbB'[A])
<1> DEFINE l == linkB[A]
           k == P!SensedLink(l, h.code[B])
           m == [status |-> P!Status(k), will |-> Will]
<1>0. l \in LinkType /\ nbB[A] \in NbType /\ P!LinkInv(l, nbB[A].status)
      /\ linkB = [b \in {A} |-> l] /\ nbB = [b \in {A} |-> nbB[A]]
  BY DEF IInv
<1>1. linkB' = [linkB EXCEPT ![A] = k] /\ nbB' = [nbB EXCEPT ![A] = m]
  BY SameOps DEF AtB!ProcessHello, AtB!HeardNeighbor
<1>2. HelloChange(l, h.code[B], k, m)
  BY <1>0, HelloChanges
<1> HIDE DEF k, m
<1>3. linkB' = [b \in {A} |-> k] /\ nbB' = [b \in {A} |-> m]
  BY <1>0, <1>1
<1> QED  BY <1>2, <1>3 DEF HelloChange

-----------------------------------------------------------------------------
\* A HELLO lists the receiver under the given code.
LEMMA HelloCode ==
  ASSUME NEW c
  PROVE  /\ Hello(A, c).orig = A /\ Hello(A, c).will = Will /\ Hello(A, c).code[B] = c
         /\ Hello(B, c).orig = B /\ Hello(B, c).will = Will /\ Hello(B, c).code[A] = c
BY HelloAssumption DEF Hello, Agent, Address

\* What an agent that keeps the invariant sends is valid, and tells A the truth.
LEMMA SentValid ==
  ASSUME IInv, NEW n \in Agent
  PROVE  /\ SentHello(n).orig = n
         /\ SentHello(n) \in HellosFrom(n)
         /\ n = B /\ Tells(SentHello(n).code[A]) => heard <= VTime
<1> USE HelloAssumption DEF Agent
<1>1. /\ linkA[B] \in LinkType /\ P!LinkInv(linkA[B], nbA[B].status) /\ nbA[B] \in NbType
      /\ linkB[A] \in LinkType /\ P!LinkInv(linkB[A], nbB[A].status) /\ nbB[A] \in NbType
  BY DEF IInv
<1> DEFINE ca == AtA!AdvertisedCode(B)
           cb == AtB!AdvertisedCode(A)
           valid(c) == c \in {NotListed} \cup (Links \ {[lt |-> "SYM", nt |-> "NOT"]})
<1>2. valid(ca)
  <2>1. linkA[B].up /\ linkA[B].sym >= 0 => nbA[B].status = "SYM"
    BY <1>1, LinkInvMeans DEF LinkType, NbType
  <2> QED  BY <2>1 DEF AtA!AdvertisedCode, AtA!NotListed, NotListed, Links
<1>3. valid(cb)
  <2>1. linkB[A].up /\ linkB[A].sym >= 0 => nbB[A].status = "SYM"
    BY <1>1, LinkInvMeans DEF LinkType, NbType
  <2> QED  BY <2>1 DEF AtB!AdvertisedCode, AtB!NotListed, NotListed, Links
<1>4. Tells(cb) => linkB[A].sym >= 0 \/ linkB[A].asym >= 0
  BY DEF AtB!AdvertisedCode, AtB!NotListed, Tells
<1>5. Tells(cb) => heard <= VTime
  <2>1. heard \in Int /\ linkB[A].sym \in Int /\ linkB[A].asym \in Int
    BY <1>1 DEF IInv, LinkType, LongAgo
  <2> QED  BY <1>4, <2>1 DEF IInv, HeardRecently
<1> HIDE DEF ca, cb
<1>6. CASE n = A
  <2>1. SentHello(n) = Hello(A, ca)
    BY <1>6 DEF SentHello, ca
  <2> QED  BY <1>2, <1>6, <2>1, HelloCode DEF HellosFrom
<1>7. CASE n = B
  <2>1. SentHello(n) = Hello(B, cb)
    BY <1>7 DEF SentHello, cb
  <2> QED  BY <1>3, <1>5, <1>7, <2>1, HelloCode DEF HellosFrom
<1> QED  BY <1>6, <1>7

\* The numbers the invariant compares.
LEMMA Numbers ==
  ASSUME IInv
  PROVE  /\ linkA[B] \in LinkType /\ linkB[A] \in LinkType
         /\ nbA[B] \in NbType /\ nbB[A] \in NbType
         /\ heard \in Nat /\ heard <= LongAgo /\ LongAgo \in Nat
         /\ LongAgo = 2 * VTime + Lag + 2
         /\ linkA[B].sym \in Int /\ linkA[B].time \in Int
         /\ linkB[A].sym \in Int /\ linkB[A].asym \in Int
BY LagType, HelloAssumption DEF IInv, LinkType, LongAgo

\* B's HELLOs are the only thing that renews its standing with A.
LEMMA ArriveStep ==
  ASSUME IInv, NEW h \in air, Arrive(h)
  PROVE  IInv'
<1> USE HelloAssumption
<1>1. h \in HellosFrom(h.orig) /\ air' \subseteq air
  BY DEF IInv, Arrive
<1>2. h.will = Will
  BY <1>1 DEF HellosFrom, Hello
<1>3. CASE h.orig = B /\ aliveA /\ AtA!ProcessHello(h) /\ UNCHANGED <<linkB, nbB, heard>>
  <2>1. /\ linkA' \in [{B} -> LinkType] /\ nbA' \in [{B} -> NbType]
        /\ HelloChange(linkA[B], h.code[A], linkA'[B], nbA'[B])
    BY <1>2, <1>3, HelloA
  <2>2. HeardRecently' /\ AirRecent'
    BY <1>1, <1>3 DEF IInv, HeardRecently, AirRecent
  <2>3. linkA'[B].sym >= 0 => heard + linkA'[B].sym <= 2 * VTime
    <3>1. Tells(h.code[A]) => heard <= VTime
      BY <1>3 DEF IInv, AirRecent
    <3>2. linkA[B].sym >= 0 => heard + linkA[B].sym <= 2 * VTime
      BY DEF IInv, CountsRecent
    <3> QED  BY <2>1, <3>1, <3>2, Numbers DEF HelloChange
  <2>4. nbA'[B].status = "SYM" => heard + linkA'[B].time <= 2 * VTime + Lag
    <3>1. linkA'[B].sym \in Int /\ linkA'[B].time \in Int
      BY <2>1 DEF LinkType
    <3> QED  BY <2>1, <2>3, <3>1, Numbers, LagType DEF HelloChange
  <2>5. aliveA'
    BY <1>3 DEF AtA!ProcessHello
  <2> QED  BY <1>1, <1>3, <2>1, <2>2, <2>3, <2>4, <2>5 DEF IInv, CountsRecent, HelloChange
<1>4. CASE h.orig = A /\ aliveB /\ AtB!ProcessHello(h) /\ heard' = 0 /\ UNCHANGED <<linkA, nbA, aliveA>>
  <2>1. /\ linkB' \in [{A} -> LinkType] /\ nbB' \in [{A} -> NbType]
        /\ HelloChange(linkB[A], h.code[B], linkB'[A], nbB'[A])
    BY <1>2, <1>4, HelloB
  <2>2. HeardRecently'
    <3>1. linkB'[A].sym <= VTime /\ linkB'[A].asym <= VTime
          /\ linkB'[A].sym \in Int /\ linkB'[A].asym \in Int
      BY <2>1 DEF LinkType
    <3> QED  BY <1>4, <3>1 DEF HeardRecently
  <2>3. AirRecent'
    BY <1>4 DEF AirRecent
  <2>5. CountsRecent'
    BY <1>4, Numbers, LagType DEF IInv, CountsRecent
  <2>4. heard' \in 0..LongAgo
    BY <1>4, Numbers
  <2> QED  BY <1>1, <1>4, <2>1, <2>2, <2>3, <2>4, <2>5 DEF IInv, HelloChange
<1>5. CASE UNCHANGED <<linkA, nbA, aliveA, linkB, nbB, heard>>
  BY <1>1, <1>5 DEF IInv, HeardRecently, AirRecent, CountsRecent
<1> QED
  BY <1>3, <1>4, <1>5 DEF Arrive, varsA, varsB

\* The timers.
LEMMA TimerStep ==
  ASSUME IInv, Timer
  PROVE  IInv'
<1>1. UNCHANGED <<air, heard>>
  BY DEF Timer
<1>2. CASE AtA!TimerNext /\ UNCHANGED varsB
  <2>1. /\ linkA' \in [{B} -> LinkType] /\ nbA' \in [{B} -> NbType]
        /\ TimerChange(linkA[B], nbA[B], linkA'[B], nbA'[B])
        /\ aliveA' = aliveA
    BY <1>2, TimerA
  <2>2. CountsRecent'
    BY <1>1, <2>1 DEF IInv, CountsRecent, TimerChange
  <2> QED
    BY <1>1, <1>2, <2>1, <2>2 DEF IInv, HeardRecently, AirRecent, TimerChange, varsB
<1>3. CASE AtB!TimerNext /\ UNCHANGED varsA
  <2>1. /\ linkB' \in [{A} -> LinkType] /\ nbB' \in [{A} -> NbType]
        /\ TimerChange(linkB[A], nbB[A], linkB'[A], nbB'[A])
    BY <1>3, TimerB
  <2>2. HeardRecently'
    BY <1>1, <2>1 DEF IInv, HeardRecently, TimerChange
  <2> QED
    BY <1>1, <1>3, <2>1, <2>2 DEF IInv, CountsRecent, AirRecent, TimerChange, varsA
<1> QED  BY <1>2, <1>3 DEF Timer

\* A crash of either agent.
LEMMA DownStep ==
  ASSUME IInv, NEW n \in Agent, NodeDown(n)
  PROVE  IInv'
<1>1. air' \subseteq air /\ heard' = heard
  BY DEF NodeDown
<1>2. /\ P!NoLink \in LinkType /\ P!NoNb \in NbType
      /\ P!LinkInv(P!NoLink, P!NoNb.status)
      /\ P!NoLink.sym = -1 /\ P!NoLink.asym = -1 /\ P!NoNb.status # "SYM" /\ ~P!NoLink.up
  BY GoneChange DEF TimerChange, P!NoLink, P!NoNb, P!Expired
<1> HIDE DEF P!NoLink, P!NoNb
<1>3. CASE AtA!NodeDown /\ UNCHANGED varsB
  <2>1. linkA' = [b \in {B} |-> P!NoLink] /\ nbA' = [b \in {B} |-> P!NoNb]
    BY <1>3, SameOps DEF AtA!NodeDown
  <2>2. linkA'[B] = P!NoLink /\ nbA'[B] = P!NoNb
    BY <2>1
  <2>3. CountsRecent'
    BY <1>2, <2>2 DEF CountsRecent
  <2> QED
    BY <1>1, <1>2, <1>3, <2>1, <2>2, <2>3 DEF IInv, HeardRecently, AirRecent, varsB
<1>4. CASE AtB!NodeDown /\ UNCHANGED varsA
  <2>1. linkB' = [b \in {A} |-> P!NoLink] /\ nbB' = [b \in {A} |-> P!NoNb]
    BY <1>4, SameOps DEF AtB!NodeDown
  <2>2. linkB'[A] = P!NoLink /\ nbB'[A] = P!NoNb
    BY <2>1
  <2>3. HeardRecently'
    BY <1>2, <2>2 DEF HeardRecently
  <2> QED
    BY <1>1, <1>2, <1>4, <2>1, <2>2, <2>3 DEF IInv, CountsRecent, AirRecent, varsA
<1> QED  BY <1>3, <1>4 DEF NodeDown

\* A tick ages every time by one.
LEMMA TickStep ==
  ASSUME IInv, Tick
  PROVE  IInv'
<1> USE HelloAssumption
<1> DEFINE l == linkA[B]
           k == linkB[A]
<1>1. /\ air' = {} /\ nbA' = nbA /\ nbB' = nbB
      /\ heard' = IF heard < LongAgo THEN heard + 1 ELSE heard
  BY DEF Tick, AtA!Tick, AtB!Tick
<1>2. linkA' = [b \in {B} |->
        [up |-> linkA[b].up, sym |-> P!Dec(linkA[b].sym), asym |-> P!Dec(linkA[b].asym),
         time |-> P!Dec(linkA[b].time), lost |-> P!Dec(linkA[b].lost),
         timer |-> P!Dec(linkA[b].timer), first |-> linkA[b].first]]
  BY SameOps DEF Tick, AtA!Tick
<1>3. linkB' = [b \in {A} |->
        [up |-> linkB[b].up, sym |-> P!Dec(linkB[b].sym), asym |-> P!Dec(linkB[b].asym),
         time |-> P!Dec(linkB[b].time), lost |-> P!Dec(linkB[b].lost),
         timer |-> P!Dec(linkB[b].timer), first |-> linkB[b].first]]
  BY SameOps DEF Tick, AtB!Tick
<1>4. ASSUME NEW x \in -1..(VTime + HoldTime), NEW n \in Nat, x <= n
      PROVE  P!Dec(x) \in -1..(VTime + HoldTime) /\ P!Dec(x) <= n /\ P!Dec(x) \in Int
  BY <1>4 DEF P!Dec
<1>5. linkA' \in [{B} -> LinkType] /\ linkB' \in [{A} -> LinkType]
  BY <1>2, <1>3, Numbers DEF LinkType, P!Dec
<1>6. /\ linkA'[B].up = l.up /\ linkA'[B].sym = P!Dec(l.sym) /\ linkA'[B].asym = P!Dec(l.asym)
      /\ linkA'[B].time = P!Dec(l.time) /\ linkA'[B].lost = P!Dec(l.lost)
      /\ linkA'[B].timer = P!Dec(l.timer)
      /\ linkB'[A].up = k.up /\ linkB'[A].sym = P!Dec(k.sym) /\ linkB'[A].asym = P!Dec(k.asym)
      /\ linkB'[A].time = P!Dec(k.time) /\ linkB'[A].lost = P!Dec(k.lost)
      /\ linkB'[A].timer = P!Dec(k.timer)
  BY <1>2, <1>3
<1>7. /\ P!LinkInv(linkA'[B], nbA[B].status)
      /\ P!LinkInv(linkB'[A], nbB[A].status)
  BY <1>5, <1>6, P!TickLinkInv, AssumptionP, Numbers DEF IInv, LinkType, P!LinkType
<1>8. heard' \in 0..LongAgo /\ heard' <= heard + 1
  BY <1>1, Numbers
<1>9. HeardRecently'
  BY <1>6, <1>8, Numbers DEF IInv, HeardRecently, P!Dec
<1>10. AirRecent'
  BY <1>1 DEF AirRecent
<1>11. linkA'[B].sym >= 0 => heard' + linkA'[B].sym <= 2 * VTime
  BY <1>6, <1>8, Numbers DEF IInv, CountsRecent, P!Dec
<1>12. ASSUME nbA[B].status = "SYM"
       PROVE  heard' + linkA'[B].time <= 2 * VTime + Lag
  <2>1. l.up /\ l.timer <= l.time
    BY <1>12, LinkInvMeans DEF IInv
  <2>2. ~(l.timer = -1)
    BY <2>1 DEF Tick, AtA!Tick, AtA!Quiet, AtA!LinkTimerDue, AtA!Expired, IInv
  <2>3. l.timer \in -1..(VTime + HoldTime)
    BY Numbers DEF LinkType
  <2>4. l.time >= 0
    BY <2>1, <2>2, <2>3, Numbers
  <2>5. heard + l.time <= 2 * VTime + Lag
    BY <1>12 DEF IInv, CountsRecent
  <2> QED  BY <1>6, <1>8, <2>4, <2>5, Numbers, LagType DEF P!Dec
<1>13. aliveA' = aliveA
  BY DEF Tick, AtA!Tick
<1> QED
  BY <1>1, <1>5, <1>6, <1>7, <1>8, <1>9, <1>10, <1>11, <1>12, <1>13 DEF IInv, CountsRecent

\* The inductive step.
LEMMA StepInv ==
  ASSUME IInv, [Next]_vars
  PROVE  IInv'
<1>1. ASSUME NEW n \in Agent, Send(n) PROVE IInv'
  <2>1. AirRecent'
    BY <1>1, SentValid, HelloAssumption DEF Send, AirRecent, IInv, Agent
  <2>2. \A h \in air' : h.orig \in Agent /\ h \in HellosFrom(h.orig)
    BY <1>1, SentValid DEF Send, IInv
  <2> QED
    BY <1>1, <2>1, <2>2 DEF Send, IInv, HeardRecently, CountsRecent, varsA, varsB
<1>2. ASSUME NEW h \in air, Arrive(h) PROVE IInv'
  BY <1>2, ArriveStep
<1>3. ASSUME NEW h \in air, Lose(h) PROVE IInv'
  BY <1>3 DEF Lose, IInv, HeardRecently, AirRecent, CountsRecent, varsA, varsB
<1>4. CASE Timer
  BY <1>4, TimerStep
<1>5. ASSUME NEW n \in Agent, NodeDown(n) PROVE IInv'
  BY <1>5, DownStep
<1>6. ASSUME NEW n \in Agent, NodeStart(n) PROVE IInv'
  <2>1. /\ UNCHANGED <<linkA, nbA, linkB, nbB, air, heard>>
        /\ aliveA => aliveA'
    BY <1>6 DEF NodeStart, AtA!NodeStart, AtB!NodeStart, varsA, varsB
  <2> QED  BY <2>1 DEF IInv, HeardRecently, AirRecent, CountsRecent
<1>7. CASE Tick
  BY <1>7, TickStep
<1>8. CASE UNCHANGED vars
  BY <1>8 DEF vars, varsA, varsB, IInv, HeardRecently, AirRecent, CountsRecent
<1> QED
  BY <1>1, <1>2, <1>3, <1>4, <1>5, <1>6, <1>7, <1>8 DEF Next

\* The inductive invariant: the link tuples of both agents, the HELLOs on the
\* air and the time since B heard A agree.
THEOREM HelloInvariant == Spec => []IInv
<1>1. Init => IInv
  <2> SUFFICES ASSUME Init PROVE IInv
    OBVIOUS
  <2>1. /\ linkA = [b \in {B} |-> P!NoLink] /\ nbA = [b \in {B} |-> P!NoNb]
        /\ linkB = [b \in {A} |-> P!NoLink] /\ nbB = [b \in {A} |-> P!NoNb]
        /\ air = {} /\ heard = LongAgo
    BY SameOps DEF Init, AtA!Init, AtB!Init
  <2>2. /\ P!NoLink \in LinkType /\ P!NoNb \in NbType
        /\ P!LinkInv(P!NoLink, P!NoNb.status)
        /\ P!NoLink.sym = -1 /\ P!NoLink.asym = -1 /\ P!NoNb.status # "SYM" /\ ~P!NoLink.up
    BY GoneChange DEF TimerChange, P!NoLink, P!NoNb, P!Expired
  <2>3. heard \in 0..LongAgo
    BY <2>1, LagType, HelloAssumption DEF LongAgo
  <2> QED
    BY <2>1, <2>2, <2>3 DEF IInv, HeardRecently, AirRecent, CountsRecent
<1> QED  BY <1>1, StepInv, PTL DEF Spec

\* A counts B as symmetric only if B has processed a HELLO of A lately, for
\* any validity and hold times, losses, delays and restarts.
THEOREM HelloSymmetricMeansHeard == Spec => []SymmetricMeansHeard
<1>1. IInv => SymmetricMeansHeard
  <2> SUFFICES ASSUME IInv, nbA[B].status = "SYM" PROVE heard < LongAgo
    BY DEF SymmetricMeansHeard
  <2>1. heard + linkA[B].time <= 2 * VTime + Lag
    BY DEF IInv, CountsRecent
  <2>2. linkA[B].time >= -1
    BY Numbers DEF LinkType
  <2> QED  BY <2>1, <2>2, Numbers, LagType, HelloAssumption
<1> QED  BY <1>1, HelloInvariant, PTL

\* Neither agent ever advertises an invalid link.
THEOREM HelloHellosValid == Spec => []HellosValid
<1>1. IInv => HellosValid
  BY DEF IInv, HellosValid
<1> QED  BY <1>1, HelloInvariant, PTL

\* Each of the two agents behaves as OLSRNeighbor says, so what is proved of
\* one agent that hears any valid HELLOs holds of two that hear each other.
THEOREM HelloImplementsNeighbor == Spec => AtA!Spec /\ AtB!Spec
<1>1. Init => AtA!Init /\ AtB!Init
  BY DEF Init
<1>2. IInv /\ [Next]_vars => [AtA!Next]_(AtA!vars) /\ [AtB!Next]_(AtB!vars)
  <2> SUFFICES ASSUME IInv, [Next]_vars
               PROVE  /\ AtA!Next \/ UNCHANGED varsA
                      /\ AtB!Next \/ UNCHANGED varsB
    BY DEF AtA!vars, AtB!vars, varsA, varsB
  <2>1. ASSUME NEW n \in Agent, Send(n) PROVE UNCHANGED <<varsA, varsB>>
    BY <2>1 DEF Send
  <2>2. ASSUME NEW h \in air, Arrive(h)
        PROVE  (AtA!Next \/ UNCHANGED varsA) /\ (AtB!Next \/ UNCHANGED varsB)
    <3>1. h \in HellosFrom(h.orig)
      BY DEF IInv
    <3> QED  BY <2>2, <3>1 DEF Arrive, AtA!Next, AtB!Next
  <2>3. ASSUME NEW h \in air, Lose(h) PROVE UNCHANGED <<varsA, varsB>>
    BY <2>3 DEF Lose
  <2>4. CASE Timer
    BY <2>4 DEF Timer, AtA!Next, AtB!Next
  <2>5. ASSUME NEW n \in Agent, NodeDown(n)
        PROVE  (AtA!Next \/ UNCHANGED varsA) /\ (AtB!Next \/ UNCHANGED varsB)
    BY <2>5 DEF NodeDown, AtA!Next, AtB!Next
  <2>6. ASSUME NEW n \in Agent, NodeStart(n)
        PROVE  (AtA!Next \/ UNCHANGED varsA) /\ (AtB!Next \/ UNCHANGED varsB)
    BY <2>6 DEF NodeStart, AtA!Next, AtB!Next
  <2>7. CASE Tick
    BY <2>7 DEF Tick, AtA!Next, AtB!Next
  <2>8. CASE UNCHANGED vars
    BY <2>8 DEF vars
  <2> QED
    BY <2>1, <2>2, <2>3, <2>4, <2>5, <2>6, <2>7, <2>8 DEF Next
<1> QED
  BY <1>1, <1>2, HelloInvariant, PTL DEF Spec, AtA!Spec, AtB!Spec

=============================================================================
