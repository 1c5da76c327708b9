------------------------------- MODULE LegacyRace -------------------------------
(***************************************************************************)
(* establishLegacyQUICPath on both peers (path_selection.go): each peer    *)
(* accepts one authenticated connection, dials the other several times,    *)
(* tries the relay when its timer fires, and a select loop settles on one  *)
(* connection.  The loop then cancels and joins its workers and releases   *)
(* every connection that lost.                                             *)
(*                                                                         *)
(* A direct connection is named by the peer that dials it and the number   *)
(* of the dial; each peer numbers its relay attempts, and pairs says which *)
(* attempts the relay joined.  In a key confirmation the responder is done *)
(* once it has answered, the initiator once it has the answer; either may  *)
(* fail at any point before that, and for any reason.  Delays and timers   *)
(* are not timed: a timer that is armed may fire.                          *)
(***************************************************************************)
EXTENDS Naturals, Sequences, FiniteSets

CONSTANTS
  Dials,     \* dial workers of each peer, three for each of its targets
  Attempts,  \* bound on the relay attempts of a peer, 0 without a candidate
  NoConn

Peer == {"send", "recv"}

ASSUME RaceAssumption == Dials \in [Peer -> Nat] /\ Attempts \in Nat

Other(p) == IF p = "send" THEN "recv" ELSE "send"
Dialed(p, n) == [by |-> p, n |-> n]
Direct == UNION {[by: {p}, n: 1..Dials[p]] : p \in Peer}
Relayed == [by: {"relay"}, n: 1..Attempts]
Conn == Direct \cup Relayed

ASSUME NoConnAssumption == NoConn \notin Conn

VARIABLES
  dial,        \* state of each peer's dial workers
  accept,      \* state of each peer's accept worker
  accepted,    \* the connection it is confirming or has confirmed
  arrived,     \* connections waiting in each peer's listener
  answered,    \* connections whose responder has answered
  direct,      \* the channel directResults of each peer
  relay,       \* state of each peer's relay attempt
  attempt,     \* its number
  pairs,       \* attempts of sender and receiver that the relay joined
  relayResult, \* the channel relayResults of each peer
  inFlight,    \* relayInFlight
  loop,        \* where each peer's select loop stands
  provisional, \* the connection a peer will use unless a better one comes
  chosen,      \* quicConn
  over,        \* the workers' context is done
  open,        \* the connections of which a peer holds its end open
  forced       \* a timer has decided something

dialing == <<dial, accept, accepted, arrived, answered, direct>>
relaying == <<relay, attempt, pairs, relayResult>>
choice == <<inFlight, loop, provisional, chosen>>
vars == <<dialing, relaying, choice, over, open, forced>>

Worker == {"start", "confirm", "won", "lost", "returned"}

Init ==
  /\ dial = [p \in Peer |-> [n \in 1..Dials[p] |-> "start"]]
  /\ accept = [p \in Peer |-> "start"]
  /\ accepted = [p \in Peer |-> NoConn]
  /\ arrived = [p \in Peer |-> {}]
  /\ answered = {}
  /\ direct = [p \in Peer |-> <<>>]
  /\ relay = [p \in Peer |-> "idle"]
  /\ attempt = [p \in Peer |-> 0]
  /\ pairs = {}
  /\ relayResult = [p \in Peer |-> <<>>]
  /\ inFlight = [p \in Peer |-> FALSE]
  /\ loop = [p \in Peer |-> "race"]
  /\ provisional = [p \in Peer |-> NoConn]
  /\ chosen = [p \in Peer |-> NoConn]
  /\ over = [p \in Peer |-> FALSE]
  /\ open = [p \in Peer |-> {}]
  /\ forced = FALSE

\* Mutant of DirectCapacity: the accept worker's result is not counted.
DirectCapacityDials(p) == Dials[p]

\* The capacities of the result channels.
DirectCapacity(p) == Dials[p] + 1
RelayCapacity == 1

Close(p, conns) == open' = [open EXCEPT ![p] = @ \ conns]
Open(p, c) == open' = [open EXCEPT ![p] = @ \cup {c}]

-----------------------------------------------------------------------------
\* Dial workers

SetDial(p, n, s) == dial' = [dial EXCEPT ![p][n] = s]

Connect(p, n) ==
  /\ dial[p][n] = "start"
  /\ SetDial(p, n, "confirm")
  /\ Open(p, Dialed(p, n))
  /\ arrived' = [arrived EXCEPT ![Other(p)] = @ \cup {Dialed(p, n)}]
  /\ UNCHANGED <<accept, accepted, answered, direct, relaying, choice, over, forced>>

DialFails(p, n) ==
  /\ dial[p][n] = "start"
  /\ SetDial(p, n, "lost")
  /\ UNCHANGED <<accept, accepted, arrived, answered, direct, relaying, choice, over, open,
                 forced>>

\* Cancelled before its turn, a dial returns without a result.
DialSkipped(p, n) ==
  /\ dial[p][n] = "start" /\ over[p]
  /\ SetDial(p, n, "returned")
  /\ UNCHANGED <<accept, accepted, arrived, answered, direct, relaying, choice, over, open,
                 forced>>

DialConfirmed(p, n) ==
  /\ dial[p][n] = "confirm" /\ Dialed(p, n) \in answered
  /\ SetDial(p, n, "won")
  /\ UNCHANGED <<accept, accepted, arrived, answered, direct, relaying, choice, over, open,
                 forced>>

DialUnconfirmed(p, n) ==
  /\ dial[p][n] = "confirm"
  /\ SetDial(p, n, "lost")
  /\ Close(p, {Dialed(p, n)})
  /\ UNCHANGED <<accept, accepted, arrived, answered, direct, relaying, choice, over, forced>>

DialReturns(p, n) ==
  /\ dial[p][n] \in {"won", "lost"}
  /\ Len(direct[p]) < DirectCapacity(p)
  /\ direct' = [direct EXCEPT ![p] =
                  Append(@, IF dial[p][n] = "won" THEN Dialed(p, n) ELSE NoConn)]
  /\ SetDial(p, n, "returned")
  /\ UNCHANGED <<accept, accepted, arrived, answered, relaying, choice, over, open, forced>>

-----------------------------------------------------------------------------
\* The accept worker

SetAccept(p, s) == accept' = [accept EXCEPT ![p] = s]

Accept(p) ==
  /\ accept[p] = "start"
  /\ \E c \in arrived[p] :
       /\ arrived' = [arrived EXCEPT ![p] = @ \ {c}]
       /\ accepted' = [accepted EXCEPT ![p] = c]
       /\ Open(p, c)
  /\ SetAccept(p, "confirm")
  /\ UNCHANGED <<dial, answered, direct, relaying, choice, over, forced>>

Answer(p) ==
  /\ accept[p] = "confirm"
  /\ answered' = answered \cup {accepted[p]}
  /\ SetAccept(p, "won")
  /\ UNCHANGED <<dial, accepted, arrived, direct, relaying, choice, over, open, forced>>

\* A connection that is not confirmed is closed, and the worker goes on.
AcceptUnconfirmed(p) ==
  /\ accept[p] = "confirm"
  /\ Close(p, {accepted[p]})
  /\ accepted' = [accepted EXCEPT ![p] = NoConn]
  /\ SetAccept(p, "start")
  /\ UNCHANGED <<dial, arrived, answered, direct, relaying, choice, over, forced>>

AcceptCancelled(p) ==
  /\ accept[p] = "start" /\ over[p]
  /\ SetAccept(p, "lost")
  /\ UNCHANGED <<dial, accepted, arrived, answered, direct, relaying, choice, over, open,
                 forced>>

AfterAccepted(p) == "returned"

AcceptReturns(p) ==
  /\ accept[p] \in {"won", "lost"}
  /\ Len(direct[p]) < DirectCapacity(p)
  /\ direct' = [direct EXCEPT ![p] =
                  Append(@, IF accept[p] = "won" THEN accepted[p] ELSE NoConn)]
  /\ SetAccept(p, AfterAccepted(p))
  /\ UNCHANGED <<dial, accepted, arrived, answered, relaying, choice, over, open, forced>>

-----------------------------------------------------------------------------
\* Relay attempts

Current(p) == [by |-> "relay", n |-> attempt[p]]
SetRelay(p, s) == relay' = [relay EXCEPT ![p] = s]

\* The relay timer fires; with an attempt in flight it is only armed again.
StartRelay(p) ==
  /\ loop[p] = "race" /\ ~inFlight[p]
  /\ attempt[p] < Attempts
  /\ attempt' = [attempt EXCEPT ![p] = @ + 1]
  /\ inFlight' = [inFlight EXCEPT ![p] = TRUE]
  /\ SetRelay(p, "register")
  /\ Open(p, [by |-> "relay", n |-> attempt[p] + 1])
  /\ forced' = TRUE
  /\ UNCHANGED <<dialing, pairs, relayResult, loop, provisional, chosen, over>>

\* The relay joins the two registered peers and tells them so.
RelayJoins ==
  /\ \A p \in Peer : relay[p] = "register"
  /\ relay' = [p \in Peer |-> "confirm"]
  /\ pairs' = pairs \cup {<<attempt["send"], attempt["recv"]>>}
  /\ UNCHANGED <<dialing, attempt, relayResult, choice, over, open, forced>>

\* On the relay the sender is the initiator of the confirmation.
RelayAnswer ==
  /\ relay["recv"] = "confirm"
  /\ SetRelay("recv", "won")
  /\ answered' = answered \cup {Current("recv")}
  /\ UNCHANGED <<dial, accept, accepted, arrived, direct, attempt, pairs, relayResult,
                 choice, over, open, forced>>

RelayConfirmed ==
  /\ relay["send"] = "confirm"
  /\ \E c \in answered \cap Relayed : <<attempt["send"], c.n>> \in pairs
  /\ SetRelay("send", "won")
  /\ UNCHANGED <<dialing, attempt, pairs, relayResult, choice, over, open, forced>>

RelayFails(p) ==
  /\ relay[p] \in {"register", "confirm"}
  /\ SetRelay(p, "lost")
  /\ Close(p, {Current(p)})
  /\ UNCHANGED <<dialing, attempt, pairs, relayResult, choice, over, forced>>

RelayReturns(p) ==
  /\ relay[p] \in {"won", "lost"}
  /\ Len(relayResult[p]) < RelayCapacity
  /\ relayResult' = [relayResult EXCEPT ![p] =
                       Append(@, IF relay[p] = "won" THEN Current(p) ELSE NoConn)]
  /\ SetRelay(p, "idle")
  /\ UNCHANGED <<dialing, attempt, pairs, choice, over, open, forced>>

-----------------------------------------------------------------------------
\* The select loop

\* Mutant of Preferred: the first success of either direction wins.
PreferredAny(c) == TRUE

\* The receiver prefers to have dialed, the sender to have accepted.
Preferred(c) == c.by = "recv"

\* The provisional connection that another one replaces.
Losing(p) == {provisional[p]} \ {NoConn}

\* Leaving the loop, with or without a connection: finish cancels the workers.
Settle(p, c) ==
  /\ chosen' = [chosen EXCEPT ![p] = c]
  /\ provisional' = [provisional EXCEPT ![p] = NoConn]
  /\ loop' = [loop EXCEPT ![p] = "finish"]
  /\ over' = [over EXCEPT ![p] = TRUE]

Stay == UNCHANGED <<loop, chosen, over>>

TakeDirect(p) ==
  /\ loop[p] = "race" /\ direct[p] # <<>>
  /\ direct' = [direct EXCEPT ![p] = Tail(@)]
  /\ LET c == Head(direct[p])
     IN \/ c # NoConn /\ Preferred(c) /\ Settle(p, c) /\ Close(p, Losing(p))
        \/ /\ c # NoConn /\ ~Preferred(c)
           /\ provisional' = [provisional EXCEPT ![p] = IF @ = NoConn THEN c ELSE @]
           /\ Close(p, IF provisional[p] = NoConn THEN {} ELSE {c})
           /\ Stay
        \/ c = NoConn /\ Stay /\ UNCHANGED <<provisional, open>>
  /\ UNCHANGED <<dial, accept, accepted, arrived, answered, relaying, inFlight, forced>>

GraceEnds(p) ==
  /\ loop[p] = "race" /\ provisional[p] # NoConn
  /\ Settle(p, provisional[p])
  /\ forced' = TRUE
  /\ UNCHANGED <<dialing, relaying, inFlight, open>>

TakeRelay(p) ==
  /\ loop[p] = "race" /\ relayResult[p] # <<>>
  /\ relayResult' = [relayResult EXCEPT ![p] = Tail(@)]
  /\ inFlight' = [inFlight EXCEPT ![p] = FALSE]
  /\ LET c == Head(relayResult[p])
     IN \/ c # NoConn /\ Settle(p, c) /\ Close(p, Losing(p))
        \/ c = NoConn /\ Stay /\ UNCHANGED <<provisional, open>>
  /\ UNCHANGED <<dialing, relay, attempt, pairs, forced>>

\* HandshakeTimeout passes, or the caller's context is cancelled.
Deadline(p) ==
  /\ loop[p] = "race" /\ ~over[p]
  /\ over' = [over EXCEPT ![p] = TRUE]
  /\ forced' = TRUE
  /\ UNCHANGED <<dialing, relaying, choice, open>>

ContextDone(p) ==
  /\ loop[p] = "race" /\ over[p]
  /\ \/ /\ provisional[p] # NoConn \/ ~inFlight[p]
        /\ Settle(p, provisional[p])
     \/ /\ provisional[p] = NoConn /\ inFlight[p]
        /\ loop' = [loop EXCEPT ![p] = "lastRelay"]
        /\ UNCHANGED <<provisional, chosen, over>>
  /\ UNCHANGED <<dialing, relaying, inFlight, open, forced>>

TakeLastRelay(p) ==
  /\ loop[p] = "lastRelay" /\ relayResult[p] # <<>>
  /\ relayResult' = [relayResult EXCEPT ![p] = Tail(@)]
  /\ inFlight' = [inFlight EXCEPT ![p] = FALSE]
  /\ Settle(p, Head(relayResult[p]))
  /\ UNCHANGED <<dialing, relay, attempt, pairs, open, forced>>

Joined(p) == /\ \A n \in 1..Dials[p] : dial[p][n] = "returned"
             /\ accept[p] = "returned"
             /\ relay[p] = "idle"

\* Mutant of Drained: only the direct channel is drained.
DrainedDirect(p) == {direct[p][i] : i \in DOMAIN direct[p]}

\* drainRaceLosers
Drained(p) == {direct[p][i] : i \in DOMAIN direct[p]}
              \cup {relayResult[p][i] : i \in DOMAIN relayResult[p]}

\* finish: the workers are joined, the channels closed and drained.
Finish(p) ==
  /\ loop[p] = "finish" /\ Joined(p)
  /\ Close(p, Drained(p))
  /\ direct' = [direct EXCEPT ![p] = <<>>]
  /\ relayResult' = [relayResult EXCEPT ![p] = <<>>]
  /\ loop' = [loop EXCEPT ![p] = "done"]
  /\ UNCHANGED <<dial, accept, accepted, arrived, answered, relay, attempt, pairs,
                 inFlight, provisional, chosen, over, forced>>

Dialer(p, n) == Connect(p, n) \/ DialFails(p, n) \/ DialSkipped(p, n)
                \/ DialConfirmed(p, n) \/ DialUnconfirmed(p, n) \/ DialReturns(p, n)
Acceptor(p) == Accept(p) \/ Answer(p) \/ AcceptUnconfirmed(p) \/ AcceptCancelled(p)
               \/ AcceptReturns(p)
Relayer(p) == RelayFails(p) \/ RelayReturns(p)
Select(p) == TakeDirect(p) \/ TakeRelay(p) \/ ContextDone(p) \/ TakeLastRelay(p)
             \/ Finish(p)

Next ==
  \/ \E p \in Peer :
       \/ \E n \in 1..Dials[p] : Dialer(p, n)
       \/ Acceptor(p) \/ Relayer(p) \/ Select(p)
       \/ StartRelay(p) \/ GraceEnds(p) \/ Deadline(p)
  \/ RelayJoins \/ RelayAnswer \/ RelayConfirmed

Spec == Init /\ [][Next]_vars

-----------------------------------------------------------------------------
\* Properties

Same(c, d) ==
  IF c.by = "relay" THEN d.by = "relay" /\ <<c.n, d.n>> \in pairs ELSE c = d

BothChose == \A p \in Peer : chosen[p] # NoConn

\* A peer that is through with the race holds the connection it chose and no
\* other: no loser is left open, whichever worker or timer came last, and the
\* chosen one is never released (finish, drainRaceLosers, discardDirect).
OneSurvivor == \A p \in Peer :
  /\ chosen[p] # NoConn => chosen[p] \in open[p]
  /\ loop[p] = "done" => open[p] = {chosen[p]} \ {NoConn}

\* As long as no timer decides, the peers agree.
UnforcedAgreement == BothChose /\ ~forced => Same(chosen["send"], chosen["recv"])

\* The stated aim of the preferred direction (comment in the select loop).
NoSplitBrain == BothChose => Same(chosen["send"], chosen["recv"])

\* A worker that has a result finds room in its channel, so that finish, which
\* joins the workers before it empties the channels, never waits for ever.
NoWorkerBlocks == \A p \in Peer :
  LET results == {n \in 1..Dials[p] : dial[p][n] \in {"won", "lost"}}
      accepting == IF accept[p] \in {"won", "lost"} THEN 1 ELSE 0
  IN /\ Len(direct[p]) + Cardinality(results) + accepting <= DirectCapacity(p)
     /\ relay[p] \in {"won", "lost"} => Len(relayResult[p]) < RelayCapacity

-----------------------------------------------------------------------------
\* The inductive invariant behind the proofs

TypeOK ==
  /\ dial \in [Peer -> UNION {[1..Dials[p] -> Worker] : p \in Peer}]
  /\ \A p \in Peer : dial[p] \in [1..Dials[p] -> Worker]
  /\ accept \in [Peer -> Worker] /\ accepted \in [Peer -> Direct \cup {NoConn}]
  /\ arrived \in [Peer -> SUBSET Direct] /\ answered \subseteq Conn
  /\ direct \in [Peer -> Seq(Conn \cup {NoConn})]
  /\ relay \in [Peer -> {"idle", "register", "confirm", "won", "lost"}]
  /\ attempt \in [Peer -> 0..Attempts]
  /\ relayResult \in [Peer -> Seq(Conn \cup {NoConn})]
  /\ inFlight \in [Peer -> BOOLEAN]
  /\ loop \in [Peer -> {"race", "lastRelay", "finish", "done"}]
  /\ provisional \in [Peer -> Conn \cup {NoConn}] /\ chosen \in [Peer -> Conn \cup {NoConn}]
  /\ over \in [Peer -> BOOLEAN] /\ open \in [Peer -> SUBSET Conn] /\ forced \in BOOLEAN

\* The workers that have yet to return, and the room for what they report.
Busy(p) == {n \in 1..Dials[p] : dial[p][n] # "returned"}
Accepting(p) == IF accept[p] = "returned" THEN 0 ELSE 1
RoomOK(p) == Len(direct[p]) + Cardinality(Busy(p)) + Accepting(p) <= DirectCapacity(p)

\* A relay attempt or its result, and only one of them, is in flight.
RelayOK(p) ==
  /\ relay[p] # "idle" => relayResult[p] = <<>> /\ inFlight[p]
  /\ relayResult[p] # <<>> => Len(relayResult[p]) = 1 /\ inFlight[p]

\* What the workers hold is open, and a dial confirms what was answered.
WorkersOK(p) ==
  /\ \A n \in 1..Dials[p] :
       /\ dial[p][n] \in {"confirm", "won"} => Dialed(p, n) \in open[p]
       /\ dial[p][n] = "won" => Dialed(p, n) \in answered
  /\ accept[p] \in {"confirm", "won"} => accepted[p] \in open[p] /\ accepted[p].by = Other(p)
  /\ relay[p] \in {"register", "confirm", "won"} => Current(p) \in open[p]
  /\ \A c \in arrived[p] : c.by = Other(p)

\* A peer answers one connection.
AnsweredOK(p) ==
  \A c \in answered : c.by = Other(p) => accept[p] \in {"won", "returned"} /\ c = accepted[p]

\* The worker of an open connection has passed it on.
Passed(p, c) ==
  /\ c \in open[p]
  /\ \/ \E n \in 1..Dials[p] : c = Dialed(p, n) /\ dial[p][n] = "returned" /\ c \in answered
     \/ c = accepted[p] /\ c.by = Other(p) /\ accept[p] = "returned"
     \/ c = Current(p) /\ relay[p] = "idle"

PassedOK(p) ==
  /\ \A i \in DOMAIN direct[p] : direct[p][i] # NoConn =>
       Passed(p, direct[p][i]) /\ direct[p][i].by # "relay"
  /\ \A i \in DOMAIN relayResult[p] : relayResult[p][i] # NoConn =>
       Passed(p, relayResult[p][i]) /\ relayResult[p][i] = Current(p)
  /\ provisional[p] # NoConn => /\ Passed(p, provisional[p]) /\ provisional[p].by # "relay"
                                /\ loop[p] = "race"
  /\ chosen[p] # NoConn => Passed(p, chosen[p]) /\ loop[p] \in {"finish", "done"}

\* Nothing was passed on twice.
OnceOK(p) ==
  /\ \A i, j \in DOMAIN direct[p] : direct[p][i] = direct[p][j] /\ direct[p][i] # NoConn => i = j
  /\ \A i \in DOMAIN direct[p] :
       direct[p][i] # NoConn => direct[p][i] \notin {provisional[p], chosen[p]}
  /\ \A i \in DOMAIN relayResult[p] :
       relayResult[p][i] # NoConn => relayResult[p][i] # chosen[p]

\* Who is responsible for an open connection.
OpenOK(p) ==
  \A c \in open[p] :
    \/ \E n \in 1..Dials[p] : c = Dialed(p, n) /\ dial[p][n] \in {"confirm", "won"}
    \/ c = accepted[p] /\ accept[p] \in {"confirm", "won"}
    \/ c = Current(p) /\ relay[p] \in {"register", "confirm", "won"}
    \/ c \in Drained(p) \cup {provisional[p], chosen[p]}

DoneOK(p) == loop[p] = "done" => Joined(p) /\ direct[p] = <<>> /\ relayResult[p] = <<>>

\* What a peer has done while no timer has decided.
CalmOK(p) ==
  ~forced => /\ ~inFlight[p] /\ (over[p] => loop[p] # "race")
             /\ chosen[p] # NoConn => Preferred(chosen[p])

PeerOK(p) == /\ RoomOK(p) /\ RelayOK(p) /\ WorkersOK(p) /\ AnsweredOK(p) /\ PassedOK(p)
             /\ OnceOK(p) /\ OpenOK(p) /\ DoneOK(p) /\ CalmOK(p)

RaceInv == TypeOK /\ \A p \in Peer : PeerOK(p)
=============================================================================
