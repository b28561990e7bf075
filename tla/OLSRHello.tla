------------------------------ MODULE OLSRHello -----------------------------
(***************************************************************************)
(* Two OLSR agents and the HELLO messages between them: each neighbourhood *)
(* is an OLSRNeighbor of its own, and what one receives is what send_hello *)
(* of the other made of its tables some time ago.                          *)
(*                                                                         *)
(* B has a further neighbour X, so A has a reason to choose B as MPR.      *)
(* The clock unit is hello_ival(): every agent sends one HELLO between two *)
(* ticks (the jitter lets it come at any point between them), which        *)
(* arrives, late but before the next tick, or is lost.                     *)
(***************************************************************************)
EXTENDS Integers

CONSTANTS
  A, B,       \* the agents
  X,          \* the other neighbour of B
  Will,       \* willingness()
  VTime,      \* OLSR_NEIGHB_HOLD_TIME as the receiver of a HELLO decodes it
  HoldTime    \* OLSR_NEIGHB_HOLD_TIME

VARIABLES
  linkA, nbA, twohopA, mprsetA, mprselA, rtnbrA, aliveA,   \* the tables of A
  linkB, nbB, twohopB, mprsetB, mprselB, rtnbrB, aliveB,   \* the tables of B
  air,        \* the set of HELLOs made and not yet arrived
  sent,       \* agents whose next HELLO is due after the next tick
  heard       \* history: ticks since B last processed a HELLO of A

varsA == <<linkA, nbA, twohopA, mprsetA, mprselA, rtnbrA, aliveA>>
varsB == <<linkB, nbB, twohopB, mprsetB, mprselB, rtnbrB, aliveB>>
vars  == <<varsA, varsB, air, sent, heard>>

Agent   == {A, B}
Address == Agent \cup {X}

-----------------------------------------------------------------------------
NotListed == [lt |-> "NONE", nt |-> "NONE"]
Links     == [lt : {"ASYM", "SYM", "LOST"}, nt : {"NOT", "SYM", "MPR"}]

\* The HELLO of agent n that lists its link to the other agent under code c,
\* and, if n is B, X as a symmetric neighbour.
Hello(n, c) ==
  [orig |-> n, will |-> Will,
   code |-> [a \in Address |-> IF a \in Agent \ {n} THEN c
                               ELSE IF a = X /\ n = B THEN [lt |-> "SYM", nt |-> "SYM"]
                               ELSE NotListed]]

\* What an agent may hear from n: anything but an invalid advertised link.
HellosFrom(n) ==
  {Hello(n, c) : c \in {NotListed} \cup (Links \ {[lt |-> "SYM", nt |-> "NOT"]})}

AtA == INSTANCE OLSRNeighbor WITH
         Self <- A, Nbr <- {B}, Far <- {X}, Hellos <- HellosFrom(B), UseMac <- FALSE,
         link <- linkA, nb <- nbA, twohop <- twohopA, mprset <- mprsetA,
         mprsel <- mprselA, rtnbr <- rtnbrA, alive <- aliveA

AtB == INSTANCE OLSRNeighbor WITH
         Self <- B, Nbr <- {A}, Far <- {X}, Hellos <- HellosFrom(A), UseMac <- FALSE,
         link <- linkB, nb <- nbB, twohop <- twohopB, mprset <- mprsetB,
         mprsel <- mprselB, rtnbr <- rtnbrB, alive <- aliveB

ASSUME HelloAssumption ==
  /\ A # B
  /\ X \notin Agent
  /\ Will \in Nat
  /\ VTime \in Nat \ {0}
  /\ HoldTime \in Nat \ {0}

Lag == AtA!Lag

\* Long enough ago not to count any more.
LongAgo == 2 * VTime + Lag + 2

\* initialize: the first HELLO is one interval away.
Init ==
  /\ AtA!Init
  /\ AtB!Init
  /\ air = {}
  /\ sent = Agent
  /\ heard = LongAgo

-----------------------------------------------------------------------------
Alive(n) == IF n = A THEN aliveA ELSE aliveB

\* send_hello, on the tables as they are now.
SentHello(n) == Hello(n, IF n = A THEN AtA!AdvertisedCode(B) ELSE AtB!AdvertisedCode(A))

\* OLSR_HelloTimer: the message goes to the buffer, and is on its way until it
\* arrives or is lost.
Send(n) ==
  /\ Alive(n)
  /\ n \notin sent
  /\ air' = air \cup {SentHello(n)}
  /\ sent' = sent \cup {n}
  /\ UNCHANGED <<varsA, varsB, heard>>

\* A HELLO arrives; an agent that is down deletes it.
Arrive(h) ==
  /\ air' = air \ {h}
  /\ \/ /\ h.orig = B
        /\ IF aliveA THEN AtA!ProcessHello(h) ELSE UNCHANGED varsA
        /\ UNCHANGED <<varsB, heard>>
     \/ /\ h.orig = A
        /\ IF aliveB THEN AtB!ProcessHello(h) /\ heard' = 0 ELSE UNCHANGED <<varsB, heard>>
        /\ UNCHANGED varsA
  /\ UNCHANGED sent

\* A HELLO is lost on the air.
Lose(h) ==
  /\ air' = air \ {h}
  /\ UNCHANGED <<varsA, varsB, sent, heard>>

Timer ==
  /\ \/ AtA!TimerNext /\ UNCHANGED varsB
     \/ AtB!TimerNext /\ UNCHANGED varsA
  /\ UNCHANGED <<air, sent, heard>>

\* handleNodeCrash and handleNodeShutdown: a HELLO that is still in the buffer
\* is deleted, one that has been sent still arrives.
NodeDown(n) ==
  /\ IF n = A THEN AtA!NodeDown /\ UNCHANGED varsB ELSE AtB!NodeDown /\ UNCHANGED varsA
  /\ air' \in {air, {h \in air : h.orig # n}}
  /\ UNCHANGED <<sent, heard>>

\* handleNodeStart: the first HELLO is one interval away.
NodeStart(n) ==
  /\ IF n = A THEN AtA!NodeStart /\ UNCHANGED varsB ELSE AtB!NodeStart /\ UNCHANGED varsA
  /\ sent' = sent \cup {n}
  /\ UNCHANGED <<air, heard>>

\* One HELLO interval is over.
Tick ==
  /\ AtA!Tick
  /\ AtB!Tick
  /\ air = {}
  /\ \A n \in Agent : Alive(n) => n \in sent
  /\ sent' = {}
  /\ heard' = IF heard < LongAgo THEN heard + 1 ELSE heard
  /\ UNCHANGED air

Next ==
  \/ \E n \in Agent : Send(n)
  \/ \E h \in air : Arrive(h)
  \/ \E h \in air : Lose(h)
  \/ Timer
  \/ \E n \in Agent : NodeDown(n) \/ NodeStart(n)
  \/ Tick

Spec == Init /\ [][Next]_vars

\* Timers fire, what is on the air arrives or is lost, the clock advances.
FairSpec ==
  /\ Spec
  /\ \A n \in Agent : WF_vars(Send(n))
  /\ WF_vars(\E h \in air : Arrive(h))
  /\ WF_vars(Timer)
  /\ WF_vars(Tick)

-----------------------------------------------------------------------------
\* A counts B as symmetric neighbour only if B can hear A, or could lately:
\* whatever is lost, reordered with timers and restarts, or delayed, B has
\* processed a HELLO of A within two validity times, one HELLO interval, and
\* the time A takes to notice a lapse.
SymmetricMeansHeard == nbA[B].status = "SYM" => heard < LongAgo

\* When HELLOs get through again and nobody restarts, both agents count each
\* other as symmetric and route to each other, A has B as its MPR, and B has A
\* as its selector: the chain from ASYM over SYM to MPR always completes.
Calm ==
  /\ <>[](aliveA /\ aliveB)
  /\ <>[][~\E h \in air : Lose(h)]_vars

Settled ==
  /\ nbA[B].status = "SYM" /\ nbB[A].status = "SYM"
  /\ B \in rtnbrA /\ A \in rtnbrB
  /\ B \in mprsetA /\ mprselB[A] >= 0

Converges == Calm => <>[]Settled

\* A link that works in one direction only is noticed at both ends: if B hears
\* nothing of A any more, A stops to count B as symmetric, from the HELLOs of
\* B alone or from their absence.
BDeaf == <>[][~\E h \in air : h.orig = A /\ Arrive(h) /\ aliveB]_vars

OneWayNoticed == BDeaf => <>[](~aliveA \/ nbA[B].status # "SYM")

\* Neither agent ever meets an invalid advertised link, or would have to skip
\* one: however late a HELLO is made of tables that timers and other HELLOs
\* change, it is one of those OLSRNeighbor was checked with.
HellosValid == \A h \in air : h \in HellosFrom(h.orig)

=============================================================================
