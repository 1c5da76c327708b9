------------------------------ MODULE RelayServer ------------------------------
(***************************************************************************)
(* The fallback relay (relay_server.go): every accepted QUIC connection is *)
(* served by a handler goroutine of its own, which admits it against the   *)
(* live limits, reads its registration, and either keeps it in the waiting *)
(* map or, as the pair's owner, announces and relays the pair.             *)
(*                                                                         *)
(* One action is one section of handleConn between two blocking points, or *)
(* one critical section of RelayServer.mu.  A select with several ready    *)
(* cases takes any of them.  Timers fire whenever their select is reached: *)
(* durations are not modelled.  A connection may fail at any moment, and   *)
(* the handlers of both sides learn of it at different times.  The relayed *)
(* streams and the service telemetry are left out.                         *)
(***************************************************************************)
EXTENDS Integers, FiniteSets

CONSTANTS
  Conn,          \* connections, each accepted at most once
  Source,        \* source addresses
  Session, Token,\* opaque registration identifiers, equal for both peers
  SourceOf,      \* source address of each connection
  Hello,         \* the registration each connection sends
  NoConn,
  LiveLimit, LivePerIPLimit,       \* effectiveLiveLimit, ...PerIPLimit
  WaitingLimit, WaitingPerIPLimit  \* effectiveWaitingLimit, ...PerIPLimit

Role == {"send", "recv"}

ASSUME RelayAssumption ==
  /\ IsFiniteSet(Conn)
  /\ NoConn \notin Conn
  /\ SourceOf \in [Conn -> Source]
  /\ Hello \in [Conn -> [session: Session, token: Token, role: Role]]
  /\ {LiveLimit, LivePerIPLimit, WaitingLimit, WaitingPerIPLimit} \subseteq Nat \ {0}

VARIABLES
  phase,       \* where each connection's handler stands
  alive,       \* connections whose context is not done
  live, liveN, \* admitted connections per source, and in all
  waiting,     \* the connection waiting under each session
  paired,      \* waiters whose paired channel is closed
  partner,     \* the waiter each pair owner was matched with
  notice,      \* the ready notification of each paired connection
  stopped      \* the server's context is done

conns == <<phase, alive>>
limits == <<live, liveN>>
matches == <<waiting, paired, partner>>
vars == <<conns, limits, matches, notice, stopped>>

Phase == {"unborn", "admit", "hello", "register", "wait", "hold", "expired",
          "kept", "leave", "close", "notify", "relay", "release", "done"}

TypeOK ==
  /\ phase \in [Conn -> Phase]
  /\ alive \subseteq Conn
  /\ live \in [Source -> Nat]
  /\ liveN \in Nat
  /\ waiting \in [Session -> Conn \cup {NoConn}]
  /\ paired \subseteq Conn
  /\ partner \in [Conn -> Conn \cup {NoConn}]
  /\ notice \in [Conn -> {"none", "sent", "failed"}]
  /\ stopped \in BOOLEAN

Init ==
  /\ phase = [c \in Conn |-> "unborn"]
  /\ alive = {}
  /\ live = [ip \in Source |-> 0]
  /\ liveN = 0
  /\ waiting = [s \in Session |-> NoConn]
  /\ paired = {}
  /\ partner = [c \in Conn |-> NoConn]
  /\ notice = [c \in Conn |-> "none"]
  /\ stopped = FALSE

At(c, p) == phase[c] = p
Goto(c, p) == phase' = [phase EXCEPT ![c] = p]
SessionOf(c) == Hello[c].session

-----------------------------------------------------------------------------
\* The connection and the server around the handlers

Accept(c) ==
  /\ At(c, "unborn") /\ ~stopped
  /\ alive' = alive \cup {c}
  /\ Goto(c, "admit")
  /\ UNCHANGED <<limits, matches, notice, stopped>>

\* The peer closes, crashes or falls silent past the QUIC idle timeout.
Fail(c) ==
  /\ c \in alive
  /\ alive' = alive \ {c}
  /\ UNCHANGED <<phase, limits, matches, notice, stopped>>

Shutdown ==
  /\ ~stopped
  /\ stopped' = TRUE
  /\ UNCHANGED <<conns, limits, matches, notice>>

-----------------------------------------------------------------------------
\* Admission

MayAdmit(c) == liveN < LiveLimit /\ live[SourceOf[c]] < LivePerIPLimit

Admit(c) ==
  /\ At(c, "admit") /\ MayAdmit(c)
  /\ live' = [live EXCEPT ![SourceOf[c]] = @ + 1]
  /\ liveN' = liveN + 1
  /\ Goto(c, "hello")
  /\ UNCHANGED <<alive, matches, notice, stopped>>

\* Mutant of AfterRefusal: the release is deferred before the admission check.
AfterRefusalRelease == "release"

AfterRefusal == "done"

Refuse(c) ==
  /\ At(c, "admit") /\ ~MayAdmit(c)
  /\ alive' = alive \ {c}
  /\ Goto(c, AfterRefusal)
  /\ UNCHANGED <<limits, matches, notice, stopped>>

Close(c) ==
  /\ At(c, "close")
  /\ alive' = alive \ {c}
  /\ Goto(c, "release")
  /\ UNCHANGED <<limits, matches, notice, stopped>>

\* Mutant of Fewer: a handler returns its slot twice.
FewerTwice(n) == n - 2

Fewer(n) == IF n > 0 THEN n - 1 ELSE 0

\* releaseConnection
Release(c) ==
  /\ At(c, "release")
  /\ live' = [live EXCEPT ![SourceOf[c]] = Fewer(@)]
  /\ liveN' = Fewer(liveN)
  /\ Goto(c, "done")
  /\ UNCHANGED <<alive, matches, notice, stopped>>

-----------------------------------------------------------------------------
\* Registration

ReadHello(c) ==
  /\ At(c, "hello") /\ c \in alive
  /\ Goto(c, "register")
  /\ UNCHANGED <<alive, limits, matches, notice, stopped>>

\* The registration times out, is malformed, or its connection is gone.
HelloFails(c) ==
  /\ At(c, "hello")
  /\ Goto(c, "close")
  /\ UNCHANGED <<alive, limits, matches, notice, stopped>>

Matches(c, other) ==
  Hello[other].role # Hello[c].role /\ Hello[other].token = Hello[c].token

\* Mutant of Vacated: the matched waiter stays in the map.
VacatedNever(s) == waiting

Vacated(s) == [waiting EXCEPT ![s] = NoConn]

RegisterPair(c) ==
  LET other == waiting[SessionOf(c)]
  IN /\ At(c, "register") /\ other # NoConn /\ Matches(c, other)
     /\ waiting' = Vacated(SessionOf(c))
     /\ paired' = paired \cup {other}
     /\ partner' = [partner EXCEPT ![c] = other]
     /\ Goto(c, "notify")
     /\ UNCHANGED <<alive, limits, notice, stopped>>

Waiters == {s \in Session : waiting[s] # NoConn}
WaitersFrom(ip) == {s \in Waiters : SourceOf[waiting[s]] = ip}

MayWait(c) ==
  /\ Cardinality(Waiters) < WaitingLimit
  /\ Cardinality(WaitersFrom(SourceOf[c])) < WaitingPerIPLimit

RegisterWaiter(c) ==
  /\ At(c, "register") /\ waiting[SessionOf(c)] = NoConn /\ MayWait(c)
  /\ waiting' = [waiting EXCEPT ![SessionOf(c)] = c]
  /\ Goto(c, "wait")
  /\ UNCHANGED <<alive, limits, paired, partner, notice, stopped>>

RegisterRejected(c) ==
  LET other == waiting[SessionOf(c)]
  IN /\ At(c, "register")
     /\ IF other # NoConn THEN ~Matches(c, other) ELSE ~MayWait(c)
     /\ Goto(c, "close")
     /\ UNCHANGED <<alive, limits, matches, notice, stopped>>

-----------------------------------------------------------------------------
\* The first peer waits

Gone(c) == stopped \/ c \notin alive

WaitPaired(c) ==
  /\ At(c, "wait") /\ c \in paired
  /\ Goto(c, "hold")
  /\ UNCHANGED <<alive, limits, matches, notice, stopped>>

WaitExpires(c) ==
  /\ At(c, "wait")
  /\ Goto(c, "expired")
  /\ UNCHANGED <<alive, limits, matches, notice, stopped>>

WaitEnds(c) ==
  /\ phase[c] \in {"wait", "hold"} /\ Gone(c)
  /\ Goto(c, "leave")
  /\ UNCHANGED <<alive, limits, matches, notice, stopped>>

\* Mutant of OwnsSlot: whoever waits under the session is removed.
OwnsSlotAny(c) == waiting[SessionOf(c)] # NoConn

\* unregisterWaiting removes c only while the slot is still its own.
OwnsSlot(c) == waiting[SessionOf(c)] = c

\* Mutant of Unregistered: only the waiting timer empties the slot.
UnregisteredExpired(c) ==
  IF At(c, "expired") /\ OwnsSlot(c) THEN Vacated(SessionOf(c)) ELSE waiting

Unregistered(c) == IF OwnsSlot(c) THEN Vacated(SessionOf(c)) ELSE waiting

Leave(c) ==
  /\ At(c, "leave")
  /\ waiting' = Unregistered(c)
  /\ Goto(c, "close")
  /\ UNCHANGED <<alive, limits, paired, partner, notice, stopped>>

\* Mutant of AfterExpiry: the waiter is closed whoever won the lock.
AfterExpiryClose(c) == "close"

\* Mutant of AfterExpiry: an expired waiter is taken for a matched one.
AfterExpiryKept(c) == "kept"

\* At the timeout boundary a partner may have won the lock.
AfterExpiry(c) == IF OwnsSlot(c) THEN "close" ELSE "kept"

Expire(c) ==
  /\ At(c, "expired")
  /\ waiting' = Unregistered(c)
  /\ Goto(c, AfterExpiry(c))
  /\ UNCHANGED <<alive, limits, paired, partner, notice, stopped>>

KeptEnds(c) ==
  /\ At(c, "kept") /\ Gone(c)
  /\ Goto(c, "close")
  /\ UNCHANGED <<alive, limits, matches, notice, stopped>>

-----------------------------------------------------------------------------
\* The second peer owns the pair

Pair(o) == {o, partner[o]}

\* sendRelayReady to either side, concurrently.
NoticeSent(o, c) ==
  /\ At(o, "notify") /\ c \in Pair(o) \cap alive /\ notice[c] = "none"
  /\ notice' = [notice EXCEPT ![c] = "sent"]
  /\ UNCHANGED <<conns, limits, matches, stopped>>

NoticeFails(o, c) ==
  /\ At(o, "notify") /\ c \in Pair(o) /\ notice[c] = "none"
  /\ notice' = [notice EXCEPT ![c] = "failed"]
  /\ UNCHANGED <<conns, limits, matches, stopped>>

PairReady(o) ==
  /\ At(o, "notify") /\ \A c \in Pair(o) : notice[c] = "sent"
  /\ Goto(o, "relay")
  /\ UNCHANGED <<alive, limits, matches, notice, stopped>>

\* Mutant of PairClosed: the owner closes its own connection only.
PairClosedHalf(o) == alive \ {o}

PairClosed(o) == alive \ Pair(o)

EndPair(o) ==
  /\ alive' = PairClosed(o)
  /\ Goto(o, "release")
  /\ UNCHANGED <<limits, matches, notice, stopped>>

NotifyFails(o) ==
  At(o, "notify") /\ (\E c \in Pair(o) : notice[c] = "failed") /\ EndPair(o)

\* One side's connection, or the server, is done.
RelayStops(o) == At(o, "relay") /\ (stopped \/ ~(Pair(o) \subseteq alive)) /\ EndPair(o)

\* The idle timer or the pair's absolute lifetime fires.
RelayExpires(o) == At(o, "relay") /\ EndPair(o)

-----------------------------------------------------------------------------
\* What a handler does of its own accord, without a timer
Handle(c) ==
  \/ Admit(c) \/ Refuse(c) \/ Close(c) \/ Release(c)
  \/ RegisterPair(c) \/ RegisterWaiter(c) \/ RegisterRejected(c)
  \/ WaitPaired(c) \/ WaitEnds(c) \/ Leave(c) \/ Expire(c) \/ KeptEnds(c)
  \/ PairReady(c) \/ NotifyFails(c) \/ RelayStops(c)

Timeout(c) ==
  \/ HelloFails(c) \/ WaitExpires(c) \/ RelayExpires(c)
  \/ \E d \in Pair(c) : NoticeFails(c, d)

Next ==
  \/ \E c \in Conn : \/ Accept(c) \/ Fail(c) \/ ReadHello(c)
                     \/ Handle(c) \/ Timeout(c)
                     \/ \E d \in Conn : NoticeSent(c, d)
  \/ Shutdown

Spec == Init /\ [][Next]_vars

\* Goroutines that can run do run.
Prompt == \A c \in Conn : WF_vars(Handle(c))
PromptSpec == Spec /\ Prompt

\* And the timers every handler arms before it blocks do fire.
TimersFire == \A c \in Conn : WF_vars(Timeout(c))

-----------------------------------------------------------------------------
\* Properties

Admitted == {c \in Conn : phase[c] \notin {"unborn", "admit", "done"}}
AdmittedFrom(ip) == {c \in Admitted : SourceOf[c] = ip}

\* The counters admission reads are exact whatever handlers run between an
\* admission and its release: capacity is neither leaked nor given out twice.
CountsExact ==
  /\ liveN = Cardinality(Admitted)
  /\ \A ip \in Source : live[ip] = Cardinality(AdmittedFrom(ip))

\* Open connections past admission stay within both live limits, counting the
\* peers of a pair as well as waiters, and none outlives its slot.
OpenWithinLimits ==
  LET open == {c \in alive : ~At(c, "admit")}
  IN /\ open \subseteq Admitted
     /\ Cardinality(open) <= LiveLimit
     /\ \A ip \in Source : Cardinality({c \in open : SourceOf[c] = ip}) <= LivePerIPLimit

\* The waiting map and the handlers agree: the connection in a slot has a
\* handler that will still take it out, and an unmatched waiter has the slot,
\* although handlers of earlier connections of the same session unregister late.
SlotsHeld ==
  /\ \A s \in Waiters : LET c == waiting[s] IN
       /\ SessionOf(c) = s /\ c \notin paired
       /\ phase[c] \in {"wait", "expired", "leave"}
  /\ \A c \in Conn : At(c, "wait") /\ c \notin paired => OwnsSlot(c)

Owners == {c \in Conn : partner[c] # NoConn}

\* A pair joins two different connections that presented one session and token
\* in opposite roles, and no connection is ever in two pairs.
PairsDisjoint ==
  /\ \A o \in Owners : LET p == partner[o] IN
       /\ p # o
       /\ Hello[p].session = Hello[o].session
       /\ Hello[p].token = Hello[o].token
       /\ Hello[p].role # Hello[o].role
  /\ \A o1, o2 \in Owners : o1 # o2 => Pair(o1) \cap Pair(o2) = {}

\* Step by step: while the handler of owner o stays where it is, a step of the
\* partner's handler leaves the partner's connection open.
SparesPartner(o) ==
  LET p == partner[o]
      running == phase[o] \in {"notify", "relay"} /\ phase'[o] = phase[o]
  IN running /\ phase'[p] # phase[p] /\ p \in alive \ alive' => stopped

\* Only the owner of a pair, a failed connection or shutdown ends it: a waiter's
\* handler whose timer fired as the partner arrived keeps the connection alive.
PairSurvivesTimer == [][\A o \in Owners : SparesPartner(o)]_vars

\* When timers fire, every connection the relay accepts is eventually done and
\* its capacity returned, even if its peer stays silent, never finds a partner,
\* or dies.
EverySlotReturned == TimersFire => \A c \in Conn : At(c, "admit") ~> At(c, "done")

DeadWaiters == {s \in Waiters : waiting[s] \notin alive}

\* Without waiting for a timer, waiters whose connections are gone leave the map
\* so that their peers' retries can take the slots.
DeadWaiterLeaves == DeadWaiters # {} ~> DeadWaiters = {}

\* Owners of pairs that were relayed, with one side open and the other gone.
HalfOpen == {o \in Owners : ~At(o, "notify") /\ Cardinality(Pair(o) \cap alive) = 1}

\* Without waiting for a timer, one side of a relayed pair going away closes the
\* other.
PeerLossPropagates == HalfOpen # {} ~> HalfOpen = {}
-----------------------------------------------------------------------------
\* The inductive invariant behind the proofs

\* A connection may be matched only between its registration and its end.
PairedOK ==
  \A c \in paired : /\ phase[c] \notin {"unborn", "admit", "hello", "register"}
                    /\ partner[c] = NoConn

OwnersOK ==
  \A o \in Owners :
    /\ phase[o] \in {"notify", "relay", "release", "done"}
    /\ partner[o] \in paired
    /\ Hello[partner[o]].session = Hello[o].session
    /\ Matches(o, partner[o])
    /\ \A q \in Owners : partner[q] = partner[o] => q = o

OwningOK == \A c \in Conn : phase[c] \in {"notify", "relay"} => c \in Owners

\* A matched waiter's handler is on its way out only once the connection is
\* gone or the server stops.
LeavingOK ==
  \A c \in Conn : At(c, "leave") \/ (At(c, "close") /\ c \in paired) => Gone(c)

\* Handlers close their connections before they return the slots.
ClosedOK == \A c \in alive : phase[c] \notin {"unborn", "release", "done"}

RelayInv ==
  TypeOK /\ SlotsHeld /\ PairedOK /\ OwnersOK /\ OwningOK /\ LeavingOK /\ ClosedOK
=============================================================================
