--------------------------- MODULE LegacyRaceProofs ---------------------------
(***************************************************************************)
(* What the legacy race keeps for any number of dials and relay attempts.  *)
(***************************************************************************)
EXTENDS LegacyRace, FiniteSetTheorems, TLAPS

LEMMA Peers ==
  ASSUME NEW p \in Peer
  PROVE  /\ Other(p) \in Peer /\ Other(p) # p /\ Other(Other(p)) = p
         /\ p # "relay" /\ Other(p) # "relay"
         /\ \A q \in Peer : q # p => q = Other(p)
BY DEF Peer, Other

\* How connections are named.
LEMMA Conns ==
  /\ \A p \in Peer : \A n \in 1 .. Dials[p] : Dialed(p, n) \in Direct
  /\ Direct \subseteq Conn /\ Relayed \subseteq Conn /\ NoConn \notin Conn
  /\ \A c \in Direct : c.by \in Peer /\ c.by # "relay"
  /\ \A c \in Relayed : c.by = "relay"
<1>1. \A p \in Peer : \A n \in 1 .. Dials[p] : Dialed(p, n) \in Direct
  BY DEF Dialed, Direct
<1>2. \A c \in Direct : c.by \in Peer
  BY DEF Direct
<1>3. \A p \in Peer : p # "relay"
  BY Peers
<1>4. \A c \in Relayed : c.by = "relay"
  BY DEF Relayed
<1>5. QED
  BY <1>1, <1>2, <1>3, <1>4, NoConnAssumption DEF Conn

LEMMA Names ==
  /\ \A p, n : Dialed(p, n).by = p /\ Dialed(p, n).n = n
  /\ \A p : Current(p).by = "relay" /\ Current(p).n = attempt[p]
BY DEF Dialed, Current

LEMMA PeerTypes ==
  ASSUME TypeOK, NEW p \in Peer
  PROVE  /\ dial[p] \in [1 .. Dials[p] -> Worker] /\ Dials[p] \in Nat
         /\ direct[p] \in Seq(Conn \cup {NoConn}) /\ Len(direct[p]) \in Nat
         /\ relayResult[p] \in Seq(Conn \cup {NoConn}) /\ Len(relayResult[p]) \in Nat
         /\ DirectCapacity(p) \in Nat
<1>1. dial[p] \in [1 .. Dials[p] -> Worker]
  BY DEF TypeOK
<1>2. direct[p] \in Seq(Conn \cup {NoConn}) /\ relayResult[p] \in Seq(Conn \cup {NoConn})
  BY DEF TypeOK
<1>3. Dials[p] \in Nat
  BY RaceAssumption DEF RaceAssumption
<1>4. Len(direct[p]) \in Nat /\ Len(relayResult[p]) \in Nat
  BY <1>2
<1>5. QED
  BY <1>1, <1>2, <1>3, <1>4 DEF DirectCapacity

\* A connection that was passed on is with no worker that still has to return.
LEMMA PassedElsewhere ==
  ASSUME NEW p \in Peer, NEW c, Passed(p, c)
  PROVE  /\ \A n \in 1 .. Dials[p] : dial[p][n] # "returned" => c # Dialed(p, n)
         /\ accept[p] # "returned" /\ accepted[p].by = Other(p) => c # accepted[p]
         /\ relay[p] # "idle" => c # Current(p)
<1>1. CASE \E n \in 1 .. Dials[p] : c = Dialed(p, n) /\ dial[p][n] = "returned"
  <2>1. PICK n \in 1 .. Dials[p] : c = Dialed(p, n) /\ dial[p][n] = "returned"
    BY <1>1
  <2>2. ASSUME NEW m, c = Dialed(p, m) PROVE m = n
    <3>1. Dialed(p, m).n = m /\ Dialed(p, n).n = n
      BY Names
    <3>2. QED
      BY <2>1, <2>2, <3>1
  <2>3. c.by = p /\ p # Other(p) /\ p # "relay"
    BY <2>1, Names, Peers
  <2>4. QED
    BY <2>1, <2>2, <2>3, Names
<1>2. CASE c = accepted[p] /\ c.by = Other(p) /\ accept[p] = "returned"
  BY <1>2, Names, Peers
<1>3. CASE c = Current(p) /\ relay[p] = "idle"
  BY <1>3, Names, Peers
<1>4. QED
  BY <1>1, <1>2, <1>3 DEF Passed

\* What a peer has passed on or settled on.
LEMMA PooledPassed ==
  ASSUME NEW p \in Peer, PassedOK(p),
         NEW c \in Drained(p) \cup {provisional[p], chosen[p]}, c # NoConn
  PROVE  Passed(p, c)
BY DEF PassedOK, Drained

-----------------------------------------------------------------------------
\* A step of a peer leaves the other one alone.

Apart(q) ==
  /\ dial'[q] = dial[q] /\ accept'[q] = accept[q] /\ accepted'[q] = accepted[q]
  /\ direct'[q] = direct[q] /\ relayResult'[q] = relayResult[q]
  /\ relay'[q] = relay[q] /\ attempt'[q] = attempt[q] /\ inFlight'[q] = inFlight[q]
  /\ loop'[q] = loop[q] /\ provisional'[q] = provisional[q] /\ chosen'[q] = chosen[q]
  /\ over'[q] = over[q] /\ open'[q] = open[q]

LEMMA ApartStep ==
  ASSUME NEW q \in Peer, PeerOK(q), Apart(q), forced => forced',
         \A c \in arrived'[q] : c \in arrived[q] \/ c.by = Other(q),
         answered \subseteq answered',
         \A c \in answered' : c \in answered \/ c.by # Other(q)
  PROVE  PeerOK(q)'
<1> USE DEF PeerOK, Apart
<1>1. RoomOK(q)' /\ RelayOK(q)'
  BY DEF RoomOK, Busy, Accepting, DirectCapacity, RelayOK
<1>2. WorkersOK(q)'
  BY DEF WorkersOK, Current
<1>3. AnsweredOK(q)'
  BY DEF AnsweredOK
<1>4. \A c : Passed(q, c) => Passed(q, c)'
  BY DEF Passed, Current
<1>5. PassedOK(q)'
  BY <1>4 DEF PassedOK, Current
<1>6. OnceOK(q)'
  BY DEF OnceOK
<1>7. OpenOK(q)'
  BY DEF OpenOK, Drained, Current
<1>8. DoneOK(q)' /\ CalmOK(q)'
  BY DEF DoneOK, Joined, CalmOK
<1>9. QED
  BY <1>1, <1>2, <1>3, <1>5, <1>6, <1>7, <1>8

-----------------------------------------------------------------------------
\* Workers: what they share

\* A worker that has returned stays so.
Onward(p) ==
  /\ \A n \in 1 .. Dials[p] : dial[p][n] = "returned" => dial'[p][n] = "returned"
  /\ accept[p] = "returned" => accept'[p] = "returned" /\ accepted'[p] = accepted[p]
  /\ relay[p] = "idle" => relay'[p] = "idle"
  /\ attempt'[p] = attempt[p]
  /\ answered \subseteq answered'

PoolSame(p) ==
  /\ direct'[p] = direct[p] /\ relayResult'[p] = relayResult[p]
  /\ provisional'[p] = provisional[p] /\ chosen'[p] = chosen[p] /\ loop'[p] = loop[p]

LEMMA PassedStays ==
  ASSUME NEW p \in Peer, Onward(p), NEW c \in open'[p], Passed(p, c)
  PROVE  Passed(p, c)'
BY DEF Onward, Passed, Current

LEMMA BusyCount ==
  ASSUME TypeOK, NEW p \in Peer
  PROVE  IsFiniteSet(Busy(p)) /\ Cardinality(Busy(p)) \in Nat
<1>1. IsFiniteSet(1 .. Dials[p])
  BY FS_Interval, RaceAssumption DEF RaceAssumption
<1>2. QED
  BY <1>1, FS_Subset, FS_CardinalityType DEF Busy

\* The step of a worker that passes nothing on and takes nothing back.
LEMMA PoolFrame ==
  ASSUME TypeOK, NEW p \in Peer, PeerOK(p), Onward(p), PoolSame(p),
         inFlight'[p] = inFlight[p], forced => forced', over'[p] = over[p] \/ forced',
         \A c \in open[p] : c \in open'[p] \/ ~Passed(p, c)
  PROVE  RoomOK(p)' /\ RelayOK(p)' /\ PassedOK(p)' /\ OnceOK(p)' /\ DoneOK(p)' /\ CalmOK(p)'
<1>1. RoomOK(p)'
  <2>1. Busy(p)' \subseteq Busy(p)
    BY DEF Busy, Onward
  <2>2. Cardinality(Busy(p)') <= Cardinality(Busy(p)) /\ Cardinality(Busy(p)') \in Nat
    BY <2>1, BusyCount, FS_Subset, FS_CardinalityType
  <2>3. Accepting(p)' <= Accepting(p) /\ Accepting(p) \in Nat /\ Accepting(p)' \in Nat
    BY DEF Accepting, Onward
  <2>4. Len(direct[p]) \in Nat /\ DirectCapacity(p) \in Nat
    BY PeerTypes
  <2>5. Len(direct'[p]) = Len(direct[p]) /\ DirectCapacity(p)' = DirectCapacity(p)
    BY DEF PoolSame, DirectCapacity
  <2>6. QED
    BY <2>2, <2>3, <2>4, <2>5, BusyCount DEF PeerOK, RoomOK
<1>2. RelayOK(p)'
  BY DEF PeerOK, RelayOK, PoolSame, Onward
<1>3. ASSUME NEW c \in Drained(p) \cup {provisional[p], chosen[p]}, c # NoConn
      PROVE  Passed(p, c)'
  <2>1. Passed(p, c)
    BY <1>3, PooledPassed DEF PeerOK
  <2>2. c \in open'[p]
    BY <2>1 DEF Passed
  <2>3. QED
    BY <2>1, <2>2, PassedStays
<1>4. Current(p)' = Current(p)
  BY DEF Current, Onward
<1>5. PassedOK(p)'
  BY <1>3, <1>4 DEF PeerOK, PassedOK, PoolSame, Drained
<1>6. OnceOK(p)'
  BY DEF PeerOK, OnceOK, PoolSame
<1>7. DoneOK(p)'
  BY DEF PeerOK, DoneOK, Joined, PoolSame, Onward
<1>8. CalmOK(p)'
  BY DEF PeerOK, CalmOK, PoolSame
<1>9. QED
  BY <1>1, <1>2, <1>5, <1>6, <1>7, <1>8

-----------------------------------------------------------------------------
\* Dial workers

LEMMA SetDialEffect ==
  ASSUME TypeOK, NEW p \in Peer, NEW n \in 1 .. Dials[p], NEW s \in Worker, SetDial(p, n, s)
  PROVE  /\ dial'[p][n] = s /\ \A m \in 1 .. Dials[p] : m # n => dial'[p][m] = dial[p][m]
         /\ \A q \in Peer : q # p => dial'[q] = dial[q]
         /\ dial' \in [Peer -> UNION {[1 .. Dials[q] -> Worker] : q \in Peer}]
         /\ \A q \in Peer : dial'[q] \in [1 .. Dials[q] -> Worker]
<1>1. PICK f : f = [dial[p] EXCEPT ![n] = s]
  OBVIOUS
<1>2. dial' = [dial EXCEPT ![p] = f]
  BY <1>1 DEF SetDial
<1>3. f \in [1 .. Dials[p] -> Worker]
  BY <1>1, PeerTypes
<1>4. dial'[p] = f /\ \A q \in Peer : q # p => dial'[q] = dial[q]
  BY <1>2 DEF TypeOK
<1>5. \A q \in Peer : dial'[q] \in [1 .. Dials[q] -> Worker]
  BY <1>3, <1>4, PeerTypes
<1>6. dial' \in [Peer -> UNION {[1 .. Dials[q] -> Worker] : q \in Peer}]
  <2>1. f \in UNION {[1 .. Dials[q] -> Worker] : q \in Peer}
    BY <1>3
  <2>2. QED
    BY <1>2, <2>1 DEF TypeOK
<1>7. f[n] = s /\ \A m \in 1 .. Dials[p] : m # n => f[m] = dial[p][m]
  BY <1>1, PeerTypes
<1>8. QED
  BY <1>4, <1>5, <1>6, <1>7

\* The connection of a dial that has not begun is not open.
LEMMA StartedClosed ==
  ASSUME RaceInv, NEW p \in Peer, NEW n \in 1 .. Dials[p], dial[p][n] = "start"
  PROVE  Dialed(p, n) \notin open[p]
<1>1. SUFFICES ASSUME Dialed(p, n) \in open[p] PROVE FALSE
  OBVIOUS
<1>2. PICK c : c = Dialed(p, n)
  OBVIOUS
<1>3. c \in open[p] /\ c.by = p /\ c.n = n /\ c # NoConn
  BY <1>1, <1>2, Names, Conns
<1>4. ASSUME NEW m \in 1 .. Dials[p], c = Dialed(p, m) PROVE dial[p][m] = "start"
  <2>1. Dialed(p, m).n = m
    BY Names
  <2>2. QED
    BY <1>3, <1>4, <2>1
<1>5. ~(c = accepted[p] /\ accept[p] \in {"confirm", "won"})
  BY <1>3, Peers DEF RaceInv, PeerOK, WorkersOK
<1>6. c # Current(p)
  BY <1>3, Names, Peers
<1>7. c \in Drained(p) \cup {provisional[p], chosen[p]}
  BY <1>3, <1>4, <1>5, <1>6 DEF RaceInv, PeerOK, OpenOK
<1>8. Passed(p, c)
  BY <1>3, <1>7, PooledPassed DEF RaceInv, PeerOK
<1>9. QED
  BY <1>2, <1>8, PassedElsewhere

\* A dial worker goes from one state to another, and opens or closes its connection.
LEMMA DialStep ==
  ASSUME RaceInv, NEW p \in Peer, NEW n \in 1 .. Dials[p], NEW s \in Worker, SetDial(p, n, s),
         dial[p][n] # "returned", NEW o \in SUBSET Conn, open' = [open EXCEPT ![p] = o],
         o \ {Dialed(p, n)} = open[p] \ {Dialed(p, n)},
         IF s \in {"confirm", "won"} THEN Dialed(p, n) \in o ELSE Dialed(p, n) \notin o,
         s = "won" => Dialed(p, n) \in answered,
         arrived' \in [Peer -> SUBSET Direct], arrived'[p] = arrived[p],
         \A c \in arrived'[Other(p)] : c \in arrived[Other(p)] \/ c.by = p,
         UNCHANGED <<accept, accepted, answered, direct, relaying, choice, over, forced>>
  PROVE  RaceInv'
<1>1. TypeOK /\ PeerOK(p)
  BY DEF RaceInv
<1>2. /\ dial'[p][n] = s /\ \A m \in 1 .. Dials[p] : m # n => dial'[p][m] = dial[p][m]
      /\ \A q \in Peer : q # p => dial'[q] = dial[q]
      /\ dial' \in [Peer -> UNION {[1 .. Dials[q] -> Worker] : q \in Peer}]
      /\ \A q \in Peer : dial'[q] \in [1 .. Dials[q] -> Worker]
  BY <1>1, SetDialEffect
<1>3. open'[p] = o /\ \A q \in Peer : q # p => open'[q] = open[q]
  BY <1>1 DEF TypeOK
<1>4. open' \in [Peer -> SUBSET Conn]
  BY <1>1 DEF TypeOK
<1>5. TypeOK'
  BY <1>1, <1>2, <1>4 DEF TypeOK, relaying, choice
<1>6. Onward(p) /\ PoolSame(p)
  BY <1>2 DEF Onward, PoolSame, relaying, choice
<1>7. \A c \in open[p] : c \in open'[p] \/ ~Passed(p, c)
  BY <1>3, PassedElsewhere
<1>8. RoomOK(p)' /\ RelayOK(p)' /\ PassedOK(p)' /\ OnceOK(p)' /\ DoneOK(p)' /\ CalmOK(p)'
  BY <1>1, <1>6, <1>7, PoolFrame DEF choice
<1>9. WorkersOK(p)'
  <2>1. \A m \in 1 .. Dials[p] : m # n => Dialed(p, m) # Dialed(p, n)
    <3>1. \A m : Dialed(p, m).n = m
      BY Names
    <3>2. QED
      BY <3>1
  <2>2. \A m \in 1 .. Dials[p] :
          /\ dial'[p][m] \in {"confirm", "won"} => Dialed(p, m) \in open'[p]
          /\ dial'[p][m] = "won" => Dialed(p, m) \in answered'
    BY <1>1, <1>2, <1>3, <2>1 DEF PeerOK, WorkersOK
  <2>3. accept'[p] \in {"confirm", "won"} => accepted'[p] \in open'[p] /\ accepted'[p].by = Other(p)
    BY <1>1, <1>3, Names, Peers DEF PeerOK, WorkersOK
  <2>4. relay'[p] \in {"register", "confirm", "won"} => Current(p)' \in open'[p]
    BY <1>1, <1>3, Names, Peers DEF PeerOK, WorkersOK, Current, relaying
  <2>5. QED
    BY <1>1, <2>2, <2>3, <2>4 DEF PeerOK, WorkersOK
<1>10. AnsweredOK(p)'
  BY <1>1 DEF PeerOK, AnsweredOK
<1>11. OpenOK(p)'
  <2>1. ASSUME NEW c \in open'[p], c = Dialed(p, n) PROVE dial'[p][n] \in {"confirm", "won"}
    BY <1>2, <1>3, <2>1
  <2>2. \A c \in open'[p] : c # Dialed(p, n) => c \in open[p]
    BY <1>3
  <2>3. Drained(p)' = Drained(p) /\ Current(p)' = Current(p)
    BY DEF Drained, Current, relaying
  <2>4. QED
    BY <1>1, <1>2, <2>1, <2>2, <2>3 DEF PeerOK, OpenOK, relaying, choice
<1>12. ASSUME NEW q \in Peer, q # p PROVE PeerOK(q)'
  <2>1. Apart(q)
    BY <1>2, <1>3, <1>12 DEF Apart, relaying, choice
  <2>2. q = Other(p) /\ Other(q) = p /\ PeerOK(q)
    BY <1>12, Peers DEF RaceInv
  <2>3. QED
    BY <2>1, <2>2, ApartStep
<1>13. QED
  BY <1>5, <1>8, <1>9, <1>10, <1>11, <1>12 DEF RaceInv, PeerOK

LEMMA ConnectStep ==
  ASSUME RaceInv, NEW p \in Peer, NEW n \in 1 .. Dials[p], Connect(p, n) PROVE RaceInv'
<1>1. PICK o : o = open[p] \cup {Dialed(p, n)}
  OBVIOUS
<1>2. o \in SUBSET Conn
  BY <1>1, Conns DEF RaceInv, TypeOK
<1>3. arrived' = [arrived EXCEPT ![Other(p)] = arrived[Other(p)] \cup {Dialed(p, n)}]
  BY DEF Connect
<1>4. /\ arrived' \in [Peer -> SUBSET Direct] /\ arrived'[p] = arrived[p]
      /\ \A c \in arrived'[Other(p)] : c \in arrived[Other(p)] \/ c.by = p
  <2>1. PICK d : d = Dialed(p, n)
    OBVIOUS
  <2>2. d \in Direct /\ d.by = p
    BY <2>1, Conns, Names
  <2>3. Other(p) \in Peer /\ Other(p) # p /\ arrived \in [Peer -> SUBSET Direct]
    BY Peers DEF RaceInv, TypeOK
  <2>4. arrived' = [arrived EXCEPT ![Other(p)] = arrived[Other(p)] \cup {d}]
    BY <1>3, <2>1
  <2>5. QED
    BY <2>2, <2>3, <2>4
<1>5. "confirm" \in Worker
  BY DEF Worker
<1>6. /\ SetDial(p, n, "confirm") /\ dial[p][n] # "returned" /\ open' = [open EXCEPT ![p] = o]
      /\ UNCHANGED <<accept, accepted, answered, direct, relaying, choice, over, forced>>
  BY <1>1 DEF Connect, Open
<1>7. o \ {Dialed(p, n)} = open[p] \ {Dialed(p, n)} /\ Dialed(p, n) \in o
  BY <1>1
<1>8. QED
  BY <1>2, <1>4, <1>5, <1>6, <1>7, DialStep

LEMMA DialQuietly ==
  ASSUME RaceInv, NEW p \in Peer, NEW n \in 1 .. Dials[p],
         DialFails(p, n) \/ DialSkipped(p, n) \/ DialConfirmed(p, n)
  PROVE  RaceInv'
<1>1. PICK o : o = open[p]
  OBVIOUS
<1>2. o \in SUBSET Conn /\ open = [open EXCEPT ![p] = o] /\ arrived \in [Peer -> SUBSET Direct]
  BY <1>1 DEF RaceInv, TypeOK
<1>3. {"lost", "returned", "won"} \subseteq Worker
  BY DEF Worker
<1>4. CASE DialFails(p, n)
  BY <1>1, <1>2, <1>3, <1>4, StartedClosed, DialStep DEF DialFails
<1>5. CASE DialSkipped(p, n)
  BY <1>1, <1>2, <1>3, <1>5, StartedClosed, DialStep DEF DialSkipped
<1>6. CASE DialConfirmed(p, n)
  <2>1. Dialed(p, n) \in o
    BY <1>1, <1>6 DEF DialConfirmed, RaceInv, PeerOK, WorkersOK
  <2>2. QED
    BY <1>1, <1>2, <1>3, <1>6, <2>1, DialStep DEF DialConfirmed
<1>7. QED
  BY <1>4, <1>5, <1>6

LEMMA DialUnconfirmedStep ==
  ASSUME RaceInv, NEW p \in Peer, NEW n \in 1 .. Dials[p], DialUnconfirmed(p, n) PROVE RaceInv'
<1>1. PICK o : o = open[p] \ {Dialed(p, n)}
  OBVIOUS
<1>2. o \in SUBSET Conn /\ arrived \in [Peer -> SUBSET Direct]
  BY <1>1 DEF RaceInv, TypeOK
<1>3. "lost" \in Worker
  BY DEF Worker
<1>4. /\ SetDial(p, n, "lost") /\ dial[p][n] # "returned" /\ open' = [open EXCEPT ![p] = o]
      /\ UNCHANGED <<accept, accepted, arrived, answered, direct, relaying, choice, over, forced>>
  BY <1>1 DEF DialUnconfirmed, Close
<1>5. o \ {Dialed(p, n)} = open[p] \ {Dialed(p, n)} /\ Dialed(p, n) \notin o
  BY <1>1
<1>6. QED
  BY <1>2, <1>3, <1>4, <1>5, DialStep

-----------------------------------------------------------------------------
\* The accept worker

\* The accept worker goes from one state to another without passing anything on.
LEMMA AcceptStep ==
  ASSUME RaceInv, NEW p \in Peer, NEW s \in Worker, SetAccept(p, s),
         accept[p] # "returned", NEW a \in Direct \cup {NoConn},
         accepted' = [accepted EXCEPT ![p] = a],
         NEW o \in SUBSET Conn, open' = [open EXCEPT ![p] = o],
         answered \subseteq answered', answered' \subseteq Conn,
         \A c \in answered' : c \in answered \/ c.by = Other(p),
         arrived' \in [Peer -> SUBSET Direct],
         \A q \in Peer : arrived'[q] \subseteq arrived[q],
         UNCHANGED <<dial, direct, relaying, choice, over, forced>>,
         \A c \in open[p] : c \in o \/ (c = accepted[p] /\ accept[p] \in {"confirm", "won"}),
         \A c \in o : c \in open[p] \/ (c = a /\ s = "confirm"),
         s \in {"confirm", "won"} => a \in o /\ a # NoConn /\ a.by = Other(p),
         \A c \in o : c = accepted[p] /\ accept[p] \in {"confirm", "won"}
                        => a = accepted[p] /\ s \in {"confirm", "won"},
         AnsweredOK(p)'
  PROVE  RaceInv'
<1>1. TypeOK /\ PeerOK(p)
  BY DEF RaceInv
<1>2. /\ accept'[p] = s /\ accepted'[p] = a /\ open'[p] = o
      /\ \A q \in Peer : q # p => /\ accept'[q] = accept[q] /\ accepted'[q] = accepted[q]
                                  /\ open'[q] = open[q]
  BY <1>1 DEF TypeOK, SetAccept
<1>3. /\ accept' \in [Peer -> Worker] /\ accepted' \in [Peer -> Direct \cup {NoConn}]
      /\ open' \in [Peer -> SUBSET Conn]
  BY <1>1 DEF TypeOK, SetAccept
<1>4. TypeOK'
  BY <1>1, <1>3 DEF TypeOK, relaying, choice
<1>5. Onward(p) /\ PoolSame(p)
  BY DEF Onward, PoolSame, relaying, choice
<1>6. \A c \in open[p] : c \in open'[p] \/ ~Passed(p, c)
  BY <1>1, <1>2, PassedElsewhere DEF PeerOK, WorkersOK
<1>7. RoomOK(p)' /\ RelayOK(p)' /\ PassedOK(p)' /\ OnceOK(p)' /\ DoneOK(p)' /\ CalmOK(p)'
  BY <1>1, <1>5, <1>6, PoolFrame DEF choice
<1>8. WorkersOK(p)'
  <2>1. \A m \in 1 .. Dials[p] :
          /\ dial'[p][m] \in {"confirm", "won"} => Dialed(p, m) \in open'[p]
          /\ dial'[p][m] = "won" => Dialed(p, m) \in answered'
    BY <1>1, <1>2, Names, Peers DEF PeerOK, WorkersOK
  <2>2. relay'[p] \in {"register", "confirm", "won"} => Current(p)' \in open'[p]
    BY <1>1, <1>2, Names, Peers DEF PeerOK, WorkersOK, Current, relaying
  <2>3. QED
    BY <1>1, <1>2, <2>1, <2>2 DEF PeerOK, WorkersOK
<1>9. OpenOK(p)'
  <2>1. Drained(p)' = Drained(p) /\ Current(p)' = Current(p)
    BY DEF Drained, Current, relaying
  <2>2. ASSUME NEW c \in o, c \notin open[p] PROVE c = a /\ s = "confirm"
    BY <2>2
  <2>3. QED
    BY <1>1, <1>2, <2>1, <2>2 DEF PeerOK, OpenOK, relaying, choice
<1>10. ASSUME NEW q \in Peer, q # p PROVE PeerOK(q)'
  <2>1. Apart(q)
    BY <1>2, <1>10 DEF Apart, relaying, choice
  <2>2. Other(q) = p /\ p # Other(p) /\ PeerOK(q)
    BY <1>10, Peers DEF RaceInv
  <2>3. QED
    BY <2>1, <2>2, ApartStep
<1>11. QED
  BY <1>4, <1>7, <1>8, <1>9, <1>10 DEF RaceInv, PeerOK

LEMMA AcceptorStep ==
  ASSUME RaceInv, NEW p \in Peer,
         Accept(p) \/ Answer(p) \/ AcceptUnconfirmed(p) \/ AcceptCancelled(p)
  PROVE  RaceInv'
<1>1. TypeOK /\ PeerOK(p)
  BY DEF RaceInv
<1>2. /\ arrived \in [Peer -> SUBSET Direct] /\ answered \subseteq Conn /\ open[p] \in SUBSET Conn
      /\ accepted[p] \in Direct \cup {NoConn} /\ Direct \subseteq Conn /\ NoConn \notin Conn
      /\ accepted = [accepted EXCEPT ![p] = accepted[p]] /\ open = [open EXCEPT ![p] = open[p]]
  BY <1>1, Conns DEF TypeOK
<1>3. {"start", "confirm", "won", "lost"} \subseteq Worker
  BY DEF Worker
<1>4. \A s : SetAccept(p, s) => accept'[p] = s
  BY <1>1 DEF SetAccept, TypeOK
<1>5. CASE Accept(p)
  <2>1. PICK c \in arrived[p] : /\ arrived' = [arrived EXCEPT ![p] = arrived[p] \ {c}]
                                /\ accepted' = [accepted EXCEPT ![p] = c] /\ Open(p, c)
    BY <1>5 DEF Accept
  <2>2. PICK o : o = open[p] \cup {c}
    OBVIOUS
  <2>3. c \in Direct /\ c.by = Other(p) /\ o \in SUBSET Conn /\ c # NoConn
    BY <1>1, <1>2, <2>2 DEF PeerOK, WorkersOK
  <2>4. /\ SetAccept(p, "confirm") /\ accept[p] = "start" /\ open' = [open EXCEPT ![p] = o]
        /\ UNCHANGED <<dial, answered, direct, relaying, choice, over, forced>>
    BY <1>5, <2>1, <2>2 DEF Accept, Open
  <2>5. /\ arrived' \in [Peer -> SUBSET Direct]
        /\ \A q \in Peer : arrived'[q] \subseteq arrived[q]
    BY <1>2, <2>1
  <2>6. AnsweredOK(p)'
    BY <1>1, <2>4 DEF PeerOK, AnsweredOK
  <2>7. /\ \A x \in open[p] : x \in o
        /\ \A x \in o : x \in open[p] \/ x = c
        /\ c \in o /\ accept[p] \notin {"confirm", "won", "returned"}
    BY <2>2, <2>4
  <2>8. /\ "confirm" \in Worker /\ c \in Direct \cup {NoConn} /\ answered \subseteq answered'
        /\ answered' \subseteq Conn /\ \A x \in answered' : x \in answered
    BY <1>2, <1>3, <2>3, <2>4
  <2>9. QED
    BY <2>1, <2>3, <2>4, <2>5, <2>6, <2>7, <2>8, AcceptStep
<1>6. CASE Answer(p)
  <2>1. /\ SetAccept(p, "won") /\ accept[p] = "confirm" /\ answered' = answered \cup {accepted[p]}
        /\ UNCHANGED <<accepted, arrived, open, dial, direct, relaying, choice, over, forced>>
    BY <1>6 DEF Answer
  <2>2. accepted[p] \in open[p] /\ accepted[p].by = Other(p)
    BY <1>1, <2>1 DEF PeerOK, WorkersOK
  <2>3. AnsweredOK(p)'
    BY <1>1, <1>4, <2>1 DEF PeerOK, AnsweredOK
  <2>4. QED
    BY <1>2, <1>3, <2>1, <2>2, <2>3, AcceptStep
<1>7. CASE AcceptUnconfirmed(p)
  <2>1. PICK o : o = open[p] \ {accepted[p]}
    OBVIOUS
  <2>2. /\ SetAccept(p, "start") /\ accept[p] = "confirm" /\ open' = [open EXCEPT ![p] = o]
        /\ accepted' = [accepted EXCEPT ![p] = NoConn]
        /\ UNCHANGED <<arrived, answered, dial, direct, relaying, choice, over, forced>>
    BY <1>7, <2>1 DEF AcceptUnconfirmed, Close
  <2>3. AnsweredOK(p)'
    BY <1>1, <2>2 DEF PeerOK, AnsweredOK
  <2>4. /\ \A x \in open[p] : x \in o \/ (x = accepted[p] /\ accept[p] = "confirm")
        /\ \A x \in o : x \in open[p] /\ x # accepted[p]
        /\ o \in SUBSET Conn
    BY <1>2, <2>1, <2>2
  <2>5. /\ "start" \in Worker /\ NoConn \in Direct \cup {NoConn} /\ answered \subseteq answered'
        /\ answered' \subseteq Conn /\ \A x \in answered' : x \in answered
        /\ arrived' \in [Peer -> SUBSET Direct] /\ \A q \in Peer : arrived'[q] \subseteq arrived[q]
    BY <1>2, <1>3, <2>2
  <2>6. PICK a, s : a = NoConn /\ s = "start"
    OBVIOUS
  <2>7. /\ SetAccept(p, s) /\ accept[p] # "returned" /\ open' = [open EXCEPT ![p] = o]
        /\ accepted' = [accepted EXCEPT ![p] = a] /\ s \in Worker /\ a \in Direct \cup {NoConn}
        /\ UNCHANGED <<dial, direct, relaying, choice, over, forced>>
    BY <2>2, <2>5, <2>6
  <2>8. /\ \A x \in open[p] : x \in o \/ (x = accepted[p] /\ accept[p] \in {"confirm", "won"})
        /\ \A x \in o : x \in open[p] \/ (x = a /\ s = "confirm")
        /\ s \notin {"confirm", "won"}
        /\ \A x \in o : ~(x = accepted[p] /\ accept[p] \in {"confirm", "won"})
    BY <2>4, <2>6
  <2>9. QED
    BY <2>3, <2>4, <2>5, <2>7, <2>8, AcceptStep
<1>8. CASE AcceptCancelled(p)
  <2>1. /\ SetAccept(p, "lost") /\ accept[p] = "start"
        /\ UNCHANGED <<accepted, arrived, answered, open, dial, direct, relaying, choice, over,
                       forced>>
    BY <1>8 DEF AcceptCancelled
  <2>2. AnsweredOK(p)'
    BY <1>1, <2>1 DEF PeerOK, AnsweredOK
  <2>3. QED
    BY <1>2, <1>3, <2>1, <2>2, AcceptStep
<1>9. QED
  BY <1>5, <1>6, <1>7, <1>8

-----------------------------------------------------------------------------
\* Relay attempts

\* An attempt goes on, or fails and closes its connection.
LEMMA AttemptStep ==
  ASSUME TypeOK, NEW p \in Peer, PeerOK(p), relay[p] \in {"register", "confirm"},
         relay'[p] \in {"confirm", "won", "lost"}, attempt'[p] = attempt[p],
         IF relay'[p] = "lost" THEN open'[p] = open[p] \ {Current(p)} ELSE open'[p] = open[p],
         answered \subseteq answered', \A c \in answered' : c \in answered \/ c.by = "relay",
         UNCHANGED <<dial, accept, accepted, arrived, direct, relayResult, choice, over, forced>>
  PROVE  PeerOK(p)'
<1>1. Onward(p) /\ PoolSame(p)
  BY DEF Onward, PoolSame, choice
<1>2. \A c \in open[p] : c \in open'[p] \/ ~Passed(p, c)
  BY PassedElsewhere
<1>3. RoomOK(p)' /\ RelayOK(p)' /\ PassedOK(p)' /\ OnceOK(p)' /\ DoneOK(p)' /\ CalmOK(p)'
  BY <1>1, <1>2, PoolFrame DEF choice
<1>4. Current(p)' = Current(p) /\ Current(p) \in open[p]
  BY DEF Current, PeerOK, WorkersOK
<1>5. WorkersOK(p)'
  <2>1. \A m \in 1 .. Dials[p] :
          /\ dial'[p][m] \in {"confirm", "won"} => Dialed(p, m) \in open'[p]
          /\ dial'[p][m] = "won" => Dialed(p, m) \in answered'
    BY Names, Peers DEF PeerOK, WorkersOK
  <2>2. accept'[p] \in {"confirm", "won"} => accepted'[p] \in open'[p] /\ accepted'[p].by = Other(p)
    BY Names, Peers DEF PeerOK, WorkersOK
  <2>3. relay'[p] \in {"register", "confirm", "won"} => Current(p)' \in open'[p]
    BY <1>4
  <2>4. QED
    BY <2>1, <2>2, <2>3 DEF PeerOK, WorkersOK
<1>6. AnsweredOK(p)'
  BY Peers DEF PeerOK, AnsweredOK
<1>7. OpenOK(p)'
  <2>1. Drained(p)' = Drained(p)
    BY DEF Drained
  <2>2. ASSUME NEW c \in open'[p] PROVE c # Current(p) \/ relay'[p] \in {"confirm", "won"}
    BY <2>2
  <2>3. QED
    BY <1>4, <2>1, <2>2 DEF PeerOK, OpenOK, choice
<1>8. QED
  BY <1>3, <1>5, <1>6, <1>7 DEF PeerOK

LEMMA RelayPeerStep ==
  ASSUME RaceInv, NEW p \in Peer, RelayFails(p) \/ (p = "recv" /\ RelayAnswer)
                                  \/ (p = "send" /\ RelayConfirmed)
  PROVE  RaceInv'
<1>1. TypeOK /\ PeerOK(p)
  BY DEF RaceInv
<1>2. PICK s \in {"won", "lost"} : relay' = [relay EXCEPT ![p] = s]
  BY DEF RelayFails, RelayAnswer, RelayConfirmed, SetRelay
<1>3. PICK o : o = IF s = "lost" THEN open[p] \ {Current(p)} ELSE open[p]
  OBVIOUS
<1>4. open' = [open EXCEPT ![p] = o]
  <2>1. relay'[p] = s
    BY <1>1, <1>2 DEF TypeOK
  <2>2. CASE RelayFails(p)
    <3>1. s = "lost"
      BY <1>1, <2>1, <2>2 DEF RelayFails, SetRelay, TypeOK
    <3>2. QED
      BY <1>3, <2>2, <3>1 DEF RelayFails, Close
  <2>3. CASE (p = "recv" /\ RelayAnswer) \/ (p = "send" /\ RelayConfirmed)
    <3>1. s = "won" /\ open' = open
      BY <1>1, <2>1, <2>3 DEF RelayAnswer, RelayConfirmed, SetRelay, TypeOK
    <3>2. QED
      BY <1>1, <1>3, <3>1 DEF TypeOK
  <2>4. QED
    BY <2>2, <2>3
<1>5. UNCHANGED <<dial, accept, accepted, arrived, direct, attempt, pairs, relayResult, choice,
                  over, forced>>
  BY DEF RelayFails, RelayAnswer, RelayConfirmed, dialing
<1>6. relay[p] \in {"register", "confirm"}
  BY DEF RelayFails, RelayAnswer, RelayConfirmed
<1>7. answered' = answered \/ answered' = answered \cup {Current(p)}
  BY DEF RelayFails, RelayAnswer, RelayConfirmed, dialing
<1>8. Current(p) \in Conn /\ Current(p).by = "relay"
  BY <1>1, <1>6, Names DEF PeerOK, WorkersOK, TypeOK
<1>9. /\ relay'[p] = s /\ open'[p] = o
      /\ \A q \in Peer : q # p => relay'[q] = relay[q] /\ open'[q] = open[q]
  BY <1>1, <1>2, <1>4 DEF TypeOK
<1>10. TypeOK'
  <2>1. o \in SUBSET Conn
    BY <1>1, <1>3 DEF TypeOK
  <2>2. open' \in [Peer -> SUBSET Conn] /\ answered' \subseteq Conn
    BY <1>1, <1>4, <1>7, <1>8, <2>1 DEF TypeOK
  <2>3. relay' \in [Peer -> {"idle", "register", "confirm", "won", "lost"}]
    BY <1>1, <1>2 DEF TypeOK
  <2>4. QED
    BY <1>1, <1>5, <2>2, <2>3 DEF TypeOK, choice
<1>11. PeerOK(p)'
  BY <1>1, <1>3, <1>5, <1>6, <1>7, <1>8, <1>9, AttemptStep
<1>12. ASSUME NEW q \in Peer, q # p PROVE PeerOK(q)'
  <2>1. Apart(q)
    BY <1>5, <1>9, <1>12 DEF Apart, choice
  <2>2. PeerOK(q) /\ Other(q) # "relay"
    BY <1>12, Peers DEF RaceInv
  <2>3. QED
    BY <1>5, <1>7, <1>8, <2>1, <2>2, ApartStep
<1>13. QED
  BY <1>10, <1>11, <1>12 DEF RaceInv

LEMMA RelayJoinsStep ==
  ASSUME RaceInv, RelayJoins PROVE RaceInv'
<1>1. TypeOK
  BY DEF RaceInv
<1>2. /\ UNCHANGED <<dial, accept, accepted, arrived, answered, direct, attempt, relayResult,
                     choice, over, open, forced>>
      /\ relay' = [p \in Peer |-> "confirm"]
  BY DEF RelayJoins, dialing
<1>3. TypeOK'
  BY <1>1, <1>2 DEF TypeOK, choice
<1>4. ASSUME NEW p \in Peer PROVE PeerOK(p)'
  <2>1. relay[p] = "register" /\ relay'[p] = "confirm" /\ PeerOK(p)
    BY <1>2 DEF RelayJoins, RaceInv
  <2>2. QED
    BY <1>1, <1>2, <2>1, AttemptStep
<1>5. QED
  BY <1>3, <1>4 DEF RaceInv

-----------------------------------------------------------------------------
\* Results

LEMMA AppendAt ==
  ASSUME NEW S, NEW g \in Seq(S), NEW x \in S
  PROVE  /\ Append(g, x) \in Seq(S) /\ Len(Append(g, x)) = Len(g) + 1
         /\ DOMAIN Append(g, x) = DOMAIN g \cup {Len(g) + 1} /\ Len(g) + 1 \notin DOMAIN g
         /\ Append(g, x)[Len(g) + 1] = x
         /\ \A i \in DOMAIN g : Append(g, x)[i] = g[i]
OBVIOUS

\* A worker passes its result r to the channel of direct connections.
LEMMA PassOn ==
  ASSUME TypeOK, NEW p \in Peer, PeerOK(p), NEW r \in Conn \cup {NoConn},
         direct'[p] = Append(direct[p], r), Onward(p), ~Joined(p),
         open'[p] = open[p], relay'[p] = relay[p],
         UNCHANGED <<relayResult, choice, over, forced>>,
         r # NoConn => ~Passed(p, r) /\ Passed(p, r)' /\ r.by # "relay",
         Cardinality(Busy(p)') + Accepting(p)' + 1 <= Cardinality(Busy(p)) + Accepting(p),
         Cardinality(Busy(p)') \in Nat
  PROVE  /\ RoomOK(p)' /\ RelayOK(p)' /\ PassedOK(p)' /\ OnceOK(p)' /\ DoneOK(p)' /\ CalmOK(p)'
         /\ Drained(p)' = Drained(p) \cup {r}
<1>1. PICK g : g = direct[p]
  OBVIOUS
<1>2. /\ Len(direct'[p]) = Len(g) + 1 /\ Len(g) \in Nat
      /\ DOMAIN direct'[p] = DOMAIN g \cup {Len(g) + 1} /\ Len(g) + 1 \notin DOMAIN g
      /\ direct'[p][Len(g) + 1] = r
      /\ \A i \in DOMAIN g : direct'[p][i] = g[i]
  BY <1>1, AppendAt, PeerTypes
<1>3. RoomOK(p)'
  <2>1. Accepting(p) \in Nat /\ Accepting(p)' \in Nat /\ DirectCapacity(p) \in Nat
    BY PeerTypes DEF Accepting
  <2>2. Len(g) + Cardinality(Busy(p)) + Accepting(p) <= DirectCapacity(p)
    BY <1>1 DEF PeerOK, RoomOK
  <2>3. DirectCapacity(p)' = DirectCapacity(p)
    BY DEF DirectCapacity
  <2>4. QED
    BY <1>2, <2>1, <2>2, <2>3, BusyCount DEF RoomOK
<1>4. RelayOK(p)'
  BY DEF PeerOK, RelayOK, choice
<1>5. Current(p)' = Current(p)
  BY DEF Current, Onward
<1>6. \A c : Passed(p, c) => Passed(p, c)'
  <2>1. \A c : Passed(p, c) => c \in open'[p]
    BY DEF Passed
  <2>2. QED
    BY <2>1, PassedStays
<1>7. PassedOK(p)'
  <2>1. ASSUME NEW i \in DOMAIN direct'[p], NEW c, c = direct'[p][i], c # NoConn
        PROVE  Passed(p, c)' /\ c.by # "relay"
    <3>1. CASE i \in DOMAIN g
      BY <1>1, <1>2, <1>6, <2>1, <3>1 DEF PeerOK, PassedOK
    <3>2. CASE i = Len(g) + 1
      BY <1>2, <2>1, <3>2
    <3>3. QED
      BY <1>2, <2>1, <3>1, <3>2
  <2>2. QED
    BY <1>5, <1>6, <2>1 DEF PeerOK, PassedOK, choice
<1>8. OnceOK(p)'
  <2>1. ASSUME r # NoConn
        PROVE  /\ \A i \in DOMAIN g : g[i] # r
               /\ r \notin {provisional[p], chosen[p]}
    BY <1>1, <2>1 DEF PeerOK, PassedOK
  <2>2. ASSUME NEW i \in DOMAIN direct'[p], NEW j \in DOMAIN direct'[p],
               direct'[p][i] = direct'[p][j], direct'[p][i] # NoConn
        PROVE  i = j
    BY <1>1, <1>2, <2>1, <2>2 DEF PeerOK, OnceOK
  <2>3. ASSUME NEW i \in DOMAIN direct'[p], direct'[p][i] # NoConn
        PROVE  direct'[p][i] \notin {provisional[p], chosen[p]}
    BY <1>1, <1>2, <2>1, <2>3 DEF PeerOK, OnceOK
  <2>4. QED
    BY <2>2, <2>3 DEF PeerOK, OnceOK, choice
<1>9. DoneOK(p)'
  BY DEF PeerOK, DoneOK, choice
<1>10. CalmOK(p)'
  BY DEF PeerOK, CalmOK, choice
<1>11. Drained(p)' = Drained(p) \cup {r}
  BY <1>1, <1>2 DEF Drained
<1>12. QED
  BY <1>3, <1>4, <1>7, <1>8, <1>9, <1>10, <1>11

LEMMA DialReturnsStep ==
  ASSUME RaceInv, NEW p \in Peer, NEW n \in 1 .. Dials[p], DialReturns(p, n) PROVE RaceInv'
<1>1. TypeOK /\ PeerOK(p)
  BY DEF RaceInv
<1>2. PICK r : r = IF dial[p][n] = "won" THEN Dialed(p, n) ELSE NoConn
  OBVIOUS
<1>3. /\ dial[p][n] \in {"won", "lost"} /\ SetDial(p, n, "returned")
      /\ direct' = [direct EXCEPT ![p] = Append(direct[p], r)]
      /\ UNCHANGED <<accept, accepted, arrived, answered, relaying, choice, over, open, forced>>
  BY <1>2 DEF DialReturns
<1>4. "returned" \in Worker
  BY DEF Worker
<1>5. /\ dial'[p][n] = "returned" /\ \A m \in 1 .. Dials[p] : m # n => dial'[p][m] = dial[p][m]
      /\ \A q \in Peer : q # p => dial'[q] = dial[q]
      /\ dial' \in [Peer -> UNION {[1 .. Dials[q] -> Worker] : q \in Peer}]
      /\ \A q \in Peer : dial'[q] \in [1 .. Dials[q] -> Worker]
  BY <1>1, <1>3, <1>4, SetDialEffect
<1>6. r \in Conn \cup {NoConn}
  BY <1>2, Conns
<1>7. /\ direct'[p] = Append(direct[p], r) /\ \A q \in Peer : q # p => direct'[q] = direct[q]
      /\ direct' \in [Peer -> Seq(Conn \cup {NoConn})]
  <2>1. Append(direct[p], r) \in Seq(Conn \cup {NoConn})
    BY <1>1, <1>6, AppendAt, PeerTypes
  <2>2. QED
    BY <1>1, <1>3, <2>1 DEF TypeOK
<1>8. TypeOK'
  BY <1>1, <1>3, <1>5, <1>7 DEF TypeOK, relaying, choice
<1>9. Onward(p) /\ ~Joined(p)
  BY <1>3, <1>5 DEF Onward, Joined, relaying
<1>10. /\ Cardinality(Busy(p)') + Accepting(p)' + 1 <= Cardinality(Busy(p)) + Accepting(p)
       /\ Cardinality(Busy(p)') \in Nat
  <2>1. Busy(p)' = Busy(p) \ {n} /\ n \in Busy(p)
    BY <1>3, <1>5 DEF Busy
  <2>2. Cardinality(Busy(p)') = Cardinality(Busy(p)) - 1 /\ Cardinality(Busy(p)') \in Nat
    BY <1>1, <2>1, BusyCount, FS_RemoveElement, FS_CardinalityType
  <2>3. Accepting(p)' = Accepting(p) /\ Accepting(p) \in Nat
    BY <1>3 DEF Accepting
  <2>4. QED
    BY <1>1, <2>2, <2>3, BusyCount
<1>11. ASSUME r # NoConn PROVE ~Passed(p, r) /\ Passed(p, r)' /\ r.by # "relay" /\ r = Dialed(p, n)
  <2>1. r = Dialed(p, n) /\ dial[p][n] = "won"
    BY <1>2, <1>11
  <2>2. r \in open[p] /\ r \in answered
    BY <1>1, <2>1 DEF PeerOK, WorkersOK
  <2>3. ~Passed(p, r)
    BY <1>3, <2>1, PassedElsewhere
  <2>4. Passed(p, r)'
    BY <1>3, <1>5, <2>1, <2>2 DEF Passed
  <2>5. QED
    BY <2>1, <2>3, <2>4, Names, Peers
<1>12. /\ RoomOK(p)' /\ RelayOK(p)' /\ PassedOK(p)' /\ OnceOK(p)' /\ DoneOK(p)' /\ CalmOK(p)'
       /\ Drained(p)' = Drained(p) \cup {r}
  <2>1. open'[p] = open[p] /\ relay'[p] = relay[p] /\ UNCHANGED <<relayResult, choice, over, forced>>
    BY <1>3 DEF relaying
  <2>2. QED
    BY <1>1, <1>6, <1>7, <1>9, <1>10, <1>11, <2>1, PassOn
<1>13. WorkersOK(p)'
  <2>1. \A m \in 1 .. Dials[p] :
          /\ dial'[p][m] \in {"confirm", "won"} => Dialed(p, m) \in open'[p]
          /\ dial'[p][m] = "won" => Dialed(p, m) \in answered'
    BY <1>1, <1>3, <1>5 DEF PeerOK, WorkersOK
  <2>2. QED
    BY <1>1, <1>3, <2>1 DEF PeerOK, WorkersOK, Current, relaying
<1>14. AnsweredOK(p)'
  BY <1>1, <1>3 DEF PeerOK, AnsweredOK
<1>15. OpenOK(p)'
  <2>1. ASSUME NEW c \in open'[p], NEW m \in 1 .. Dials[p],
               c = Dialed(p, m), dial[p][m] \in {"confirm", "won"}
        PROVE  dial'[p][m] \in {"confirm", "won"} \/ c = r
    BY <1>2, <1>3, <1>5, <2>1
  <2>2. Current(p)' = Current(p)
    BY <1>3 DEF Current, relaying
  <2>3. QED
    BY <1>1, <1>3, <1>12, <2>1, <2>2 DEF PeerOK, OpenOK, relaying, choice
<1>16. ASSUME NEW q \in Peer, q # p PROVE PeerOK(q)'
  <2>1. Apart(q)
    BY <1>3, <1>5, <1>7, <1>16 DEF Apart, relaying, choice
  <2>2. QED
    BY <1>3, <1>16, <2>1, ApartStep DEF RaceInv
<1>17. QED
  BY <1>8, <1>12, <1>13, <1>14, <1>15, <1>16 DEF RaceInv, PeerOK

LEMMA AcceptReturnsStep ==
  ASSUME RaceInv, NEW p \in Peer, AcceptReturns(p) PROVE RaceInv'
<1>1. TypeOK /\ PeerOK(p)
  BY DEF RaceInv
<1>2. PICK r : r = IF accept[p] = "won" THEN accepted[p] ELSE NoConn
  OBVIOUS
<1>3. /\ accept[p] \in {"won", "lost"} /\ accept' = [accept EXCEPT ![p] = "returned"]
      /\ direct' = [direct EXCEPT ![p] = Append(direct[p], r)]
      /\ UNCHANGED <<dial, accepted, arrived, answered, relaying, choice, over, open, forced>>
  BY <1>2 DEF AcceptReturns, SetAccept, AfterAccepted
<1>4. "returned" \in Worker
  BY DEF Worker
<1>5. /\ accept'[p] = "returned" /\ \A q \in Peer : q # p => accept'[q] = accept[q]
      /\ accept' \in [Peer -> Worker]
  BY <1>1, <1>3, <1>4 DEF TypeOK
<1>6. r \in Conn \cup {NoConn}
  BY <1>1, <1>2, Conns DEF TypeOK
<1>7. /\ direct'[p] = Append(direct[p], r) /\ \A q \in Peer : q # p => direct'[q] = direct[q]
      /\ direct' \in [Peer -> Seq(Conn \cup {NoConn})]
  <2>1. Append(direct[p], r) \in Seq(Conn \cup {NoConn})
    BY <1>1, <1>6, AppendAt, PeerTypes
  <2>2. QED
    BY <1>1, <1>3, <2>1 DEF TypeOK
<1>8. TypeOK'
  BY <1>1, <1>3, <1>5, <1>7 DEF TypeOK, relaying, choice
<1>9. Onward(p) /\ ~Joined(p)
  BY <1>3 DEF Onward, Joined, relaying
<1>10. /\ Cardinality(Busy(p)') + Accepting(p)' + 1 <= Cardinality(Busy(p)) + Accepting(p)
       /\ Cardinality(Busy(p)') \in Nat
  <2>1. Busy(p)' = Busy(p)
    BY <1>3 DEF Busy
  <2>2. Accepting(p) = 1 /\ Accepting(p)' = 0
    BY <1>3, <1>5 DEF Accepting
  <2>3. QED
    BY <1>1, <2>1, <2>2, BusyCount
<1>11. ASSUME r # NoConn PROVE ~Passed(p, r) /\ Passed(p, r)' /\ r.by # "relay"
  <2>1. r = accepted[p] /\ accept[p] = "won"
    BY <1>2, <1>11
  <2>2. r \in open[p] /\ r.by = Other(p)
    BY <1>1, <2>1 DEF PeerOK, WorkersOK
  <2>3. ~Passed(p, r)
    BY <2>1, <2>2, PassedElsewhere
  <2>4. Passed(p, r)'
    BY <1>3, <1>5, <2>1, <2>2 DEF Passed
  <2>5. QED
    BY <2>2, <2>3, <2>4, Peers
<1>12. /\ RoomOK(p)' /\ RelayOK(p)' /\ PassedOK(p)' /\ OnceOK(p)' /\ DoneOK(p)' /\ CalmOK(p)'
       /\ Drained(p)' = Drained(p) \cup {r}
  <2>1. open'[p] = open[p] /\ relay'[p] = relay[p] /\ UNCHANGED <<relayResult, choice, over, forced>>
    BY <1>3 DEF relaying
  <2>2. QED
    BY <1>1, <1>6, <1>7, <1>9, <1>10, <1>11, <2>1, PassOn
<1>13. WorkersOK(p)'
  BY <1>1, <1>3, <1>5 DEF PeerOK, WorkersOK, Current, relaying
<1>14. AnsweredOK(p)'
  BY <1>1, <1>3, <1>5 DEF PeerOK, AnsweredOK
<1>15. OpenOK(p)'
  <2>1. ASSUME NEW c \in open'[p], c = accepted[p], accept[p] \in {"confirm", "won"}
        PROVE  c = r
    BY <1>2, <1>3, <2>1
  <2>2. Current(p)' = Current(p)
    BY <1>3 DEF Current, relaying
  <2>3. QED
    BY <1>1, <1>3, <1>12, <2>1, <2>2 DEF PeerOK, OpenOK, relaying, choice
<1>16. ASSUME NEW q \in Peer, q # p PROVE PeerOK(q)'
  <2>1. Apart(q)
    BY <1>3, <1>5, <1>7, <1>16 DEF Apart, relaying, choice
  <2>2. QED
    BY <1>3, <1>16, <2>1, ApartStep DEF RaceInv
<1>17. QED
  BY <1>8, <1>12, <1>13, <1>14, <1>15, <1>16 DEF RaceInv, PeerOK

LEMMA RelayReturnsStep ==
  ASSUME RaceInv, NEW p \in Peer, RelayReturns(p) PROVE RaceInv'
<1>1. TypeOK /\ PeerOK(p)
  BY DEF RaceInv
<1>2. PICK r : r = IF relay[p] = "won" THEN Current(p) ELSE NoConn
  OBVIOUS
<1>3. /\ relay[p] \in {"won", "lost"} /\ relay' = [relay EXCEPT ![p] = "idle"]
      /\ relayResult' = [relayResult EXCEPT ![p] = Append(relayResult[p], r)]
      /\ UNCHANGED <<dialing, attempt, pairs, choice, over, open, forced>>
  BY <1>2 DEF RelayReturns, SetRelay
<1>4. relayResult[p] = <<>> /\ inFlight[p]
  BY <1>1, <1>3 DEF PeerOK, RelayOK
<1>5. /\ relay'[p] = "idle" /\ \A q \in Peer : q # p => relay'[q] = relay[q]
      /\ relay' \in [Peer -> {"idle", "register", "confirm", "won", "lost"}]
  BY <1>1, <1>3 DEF TypeOK
<1>6. r \in Conn \cup {NoConn} /\ (r # NoConn => r = Current(p) /\ relay[p] = "won" /\ r \in open[p])
  BY <1>1, <1>2 DEF TypeOK, PeerOK, WorkersOK
<1>7. /\ relayResult'[p] = <<r>> /\ \A q \in Peer : q # p => relayResult'[q] = relayResult[q]
      /\ relayResult' \in [Peer -> Seq(Conn \cup {NoConn})]
  <2>1. Append(relayResult[p], r) = <<r>> /\ <<r>> \in Seq(Conn \cup {NoConn})
    BY <1>4, <1>6
  <2>2. QED
    BY <1>1, <1>3, <2>1 DEF TypeOK
<1>8. /\ DOMAIN relayResult'[p] = {1} /\ relayResult'[p][1] = r /\ Len(relayResult'[p]) = 1
  BY <1>7
<1>9. TypeOK'
  BY <1>1, <1>3, <1>5, <1>7 DEF TypeOK, dialing, choice
<1>10. RoomOK(p)' /\ RelayOK(p)'
  BY <1>1, <1>3, <1>4, <1>5, <1>8
  DEF PeerOK, RoomOK, Busy, Accepting, DirectCapacity, RelayOK, dialing, choice
<1>11. Current(p)' = Current(p) /\ Onward(p)
  BY <1>3, <1>5 DEF Current, Onward, dialing
<1>12. \A c : Passed(p, c) => Passed(p, c)'
  <2>1. \A c : Passed(p, c) => c \in open'[p]
    BY <1>3 DEF Passed
  <2>2. QED
    BY <1>11, <2>1, PassedStays
<1>13. r # NoConn => Passed(p, r)' /\ ~Passed(p, r)
  <2>1. r # NoConn => ~Passed(p, r)
    BY <1>6, PassedElsewhere
  <2>2. r # NoConn => Passed(p, r)'
    BY <1>3, <1>5, <1>6, <1>11 DEF Passed
  <2>3. QED
    BY <2>1, <2>2
<1>14. PassedOK(p)'
  BY <1>1, <1>3, <1>6, <1>8, <1>11, <1>12, <1>13 DEF PeerOK, PassedOK, dialing, choice
<1>15. OnceOK(p)'
  <2>1. r # NoConn => r # chosen[p]
    BY <1>1, <1>13 DEF PeerOK, PassedOK
  <2>2. QED
    BY <1>1, <1>3, <1>8, <2>1 DEF PeerOK, OnceOK, dialing, choice
<1>16. DoneOK(p)' /\ CalmOK(p)'
  BY <1>1, <1>3 DEF PeerOK, DoneOK, Joined, CalmOK, choice
<1>17. WorkersOK(p)' /\ AnsweredOK(p)'
  BY <1>1, <1>3, <1>5 DEF PeerOK, WorkersOK, AnsweredOK, dialing
<1>18. OpenOK(p)'
  <2>1. Drained(p)' = {direct[p][i] : i \in DOMAIN direct[p]} \cup {r}
    BY <1>3, <1>8 DEF Drained, dialing
  <2>2. Drained(p) = {direct[p][i] : i \in DOMAIN direct[p]}
    BY <1>4 DEF Drained
  <2>3. ASSUME NEW c \in open[p], c = Current(p), relay[p] \in {"register", "confirm", "won"}
        PROVE  c = r
    BY <1>2, <1>3, <2>3
  <2>4. QED
    BY <1>1, <1>3, <2>1, <2>2, <2>3 DEF PeerOK, OpenOK, dialing, choice
<1>19. ASSUME NEW q \in Peer, q # p PROVE PeerOK(q)'
  <2>1. Apart(q)
    BY <1>3, <1>5, <1>7, <1>19 DEF Apart, dialing, choice
  <2>2. QED
    BY <1>3, <1>19, <2>1, ApartStep DEF RaceInv, dialing
<1>20. QED
  BY <1>9, <1>10, <1>14, <1>15, <1>16, <1>17, <1>18, <1>19 DEF RaceInv, PeerOK

LEMMA StartRelayStep ==
  ASSUME RaceInv, NEW p \in Peer, StartRelay(p) PROVE RaceInv'
<1>1. TypeOK /\ PeerOK(p)
  BY DEF RaceInv
<1>2. PICK r : r = [by |-> "relay", n |-> attempt[p] + 1]
  OBVIOUS
<1>3. /\ loop[p] = "race" /\ ~inFlight[p] /\ attempt[p] < Attempts /\ forced' = TRUE
      /\ attempt' = [attempt EXCEPT ![p] = attempt[p] + 1]
      /\ inFlight' = [inFlight EXCEPT ![p] = TRUE]
      /\ relay' = [relay EXCEPT ![p] = "register"]
      /\ open' = [open EXCEPT ![p] = open[p] \cup {r}]
      /\ UNCHANGED <<dialing, pairs, relayResult, loop, provisional, chosen, over>>
  BY <1>2 DEF StartRelay, SetRelay, Open
<1>4. relay[p] = "idle" /\ relayResult[p] = <<>>
  BY <1>1, <1>3 DEF PeerOK, RelayOK
<1>5. r.by = "relay" /\ r \in Conn /\ attempt[p] + 1 \in 0 .. Attempts
  <2>1. attempt[p] \in 0 .. Attempts /\ Attempts \in Nat
    BY <1>1, RaceAssumption DEF TypeOK, RaceAssumption
  <2>2. attempt[p] + 1 \in 1 .. Attempts
    BY <1>3, <2>1
  <2>3. QED
    BY <1>2, <2>1, <2>2 DEF Conn, Relayed
<1>6. /\ attempt'[p] = attempt[p] + 1 /\ inFlight'[p] = TRUE /\ relay'[p] = "register"
      /\ open'[p] = open[p] \cup {r}
      /\ \A q \in Peer : q # p => /\ attempt'[q] = attempt[q] /\ inFlight'[q] = inFlight[q]
                                  /\ relay'[q] = relay[q] /\ open'[q] = open[q]
  BY <1>1, <1>3 DEF TypeOK
<1>7. attempt' \in [Peer -> 0 .. Attempts] /\ open' \in [Peer -> SUBSET Conn]
  BY <1>1, <1>3, <1>5 DEF TypeOK
<1>8. TypeOK'
  BY <1>1, <1>3, <1>7 DEF TypeOK, dialing
<1>9. Current(p)' = r
  BY <1>2, <1>6 DEF Current
<1>10. RoomOK(p)' /\ RelayOK(p)'
  BY <1>1, <1>3, <1>4, <1>6
  DEF PeerOK, RoomOK, Busy, Accepting, DirectCapacity, RelayOK, dialing
<1>11. ASSUME NEW c, Passed(p, c), c.by # "relay" PROVE Passed(p, c)'
  BY <1>3, <1>6, <1>11, Names DEF Passed, dialing
<1>12. PassedOK(p)'
  <2>1. chosen[p] = NoConn
    BY <1>1, <1>3 DEF PeerOK, PassedOK
  <2>2. QED
    BY <1>1, <1>3, <1>4, <1>11, <2>1 DEF PeerOK, PassedOK, dialing
<1>13. OnceOK(p)' /\ DoneOK(p)' /\ CalmOK(p)'
  BY <1>1, <1>3 DEF PeerOK, OnceOK, DoneOK, CalmOK, dialing
<1>14. WorkersOK(p)' /\ AnsweredOK(p)'
  BY <1>1, <1>3, <1>6, <1>9 DEF PeerOK, WorkersOK, AnsweredOK, dialing
<1>15. OpenOK(p)'
  <2>1. Drained(p)' = Drained(p)
    BY <1>3 DEF Drained, dialing
  <2>2. QED
    BY <1>1, <1>3, <1>4, <1>6, <1>9, <2>1 DEF PeerOK, OpenOK, dialing
<1>16. ASSUME NEW q \in Peer, q # p PROVE PeerOK(q)'
  <2>1. Apart(q)
    BY <1>3, <1>6, <1>16 DEF Apart, dialing
  <2>2. QED
    BY <1>3, <1>16, <2>1, ApartStep DEF RaceInv, dialing
<1>17. QED
  BY <1>8, <1>10, <1>12, <1>13, <1>14, <1>15, <1>16 DEF RaceInv, PeerOK

-----------------------------------------------------------------------------
\* The select loop

\* The loop takes one result of a channel, or none.
Taken(s, t) == t = s \/ (s # <<>> /\ t = Tail(s))

LEMMA TakenType ==
  ASSUME NEW S, NEW s \in Seq(S), NEW t, Taken(s, t)
  PROVE  /\ t \in Seq(S) /\ Len(t) <= Len(s) /\ Len(t) \in Nat
         /\ \E k \in Nat : \A i \in DOMAIN t : i \in Nat /\ i + k \in DOMAIN s /\ t[i] = s[i + k]
<1>1. CASE t = s
  <2>1. \A i \in DOMAIN t : i \in Nat /\ i + 0 = i
    BY <1>1
  <2>2. QED
    BY <1>1, <2>1
<1>2. CASE s # <<>> /\ t = Tail(s)
  <2>1. \A i \in DOMAIN t : i \in Nat /\ i + 1 \in DOMAIN s /\ t[i] = s[i + 1]
    BY <1>2
  <2>2. t \in Seq(S) /\ Len(t) <= Len(s) /\ Len(t) \in Nat
    BY <1>2
  <2>3. QED
    BY <2>1, <2>2
<1>3. QED
  BY <1>1, <1>2 DEF Taken

\* What the loop does leaves the workers alone, and what it closes was passed on.
Looped(p) ==
  /\ UNCHANGED <<dial, accept, accepted, arrived, answered, relay, attempt>>
  /\ open'[p] \subseteq open[p]
  /\ \A c \in open[p] \ open'[p] : Passed(p, c)
  /\ Taken(direct[p], direct'[p]) /\ Taken(relayResult[p], relayResult'[p])

LEMMA LoopFrame ==
  ASSUME TypeOK, NEW p \in Peer, PeerOK(p), Looped(p)
  PROVE  /\ RoomOK(p)' /\ WorkersOK(p)' /\ AnsweredOK(p)' /\ Current(p)' = Current(p)
         /\ \A c \in open'[p] : Passed(p, c) => Passed(p, c)'
         /\ \E k \in Nat : \A i \in DOMAIN direct'[p] :
              i \in Nat /\ i + k \in DOMAIN direct[p] /\ direct'[p][i] = direct[p][i + k]
         /\ \A i \in DOMAIN relayResult'[p] : \E j \in DOMAIN relayResult[p] :
              relayResult'[p][i] = relayResult[p][j]
<1> USE DEF Looped
<1>1. RoomOK(p)'
  <2>1. Len(direct'[p]) <= Len(direct[p]) /\ Len(direct'[p]) \in Nat
    BY PeerTypes, TakenType
  <2>2. Busy(p)' = Busy(p) /\ Accepting(p)' = Accepting(p) /\ DirectCapacity(p)' = DirectCapacity(p)
    BY DEF Busy, Accepting, DirectCapacity
  <2>3. Accepting(p) \in Nat
    BY DEF Accepting
  <2>4. QED
    BY <2>1, <2>2, <2>3, BusyCount, PeerTypes DEF PeerOK, RoomOK
<1>2. Current(p)' = Current(p)
  BY DEF Current
<1>3. WorkersOK(p)'
  <2>1. ASSUME NEW n \in 1 .. Dials[p], dial[p][n] \in {"confirm", "won"}
        PROVE  Dialed(p, n) \in open'[p]
    BY <2>1, PassedElsewhere DEF PeerOK, WorkersOK
  <2>2. ASSUME accept[p] \in {"confirm", "won"} PROVE accepted[p] \in open'[p]
    BY <2>2, PassedElsewhere DEF PeerOK, WorkersOK
  <2>3. ASSUME relay[p] \in {"register", "confirm", "won"} PROVE Current(p) \in open'[p]
    BY <2>3, PassedElsewhere DEF PeerOK, WorkersOK
  <2>4. QED
    BY <1>2, <2>1, <2>2, <2>3 DEF PeerOK, WorkersOK
<1>4. AnsweredOK(p)'
  BY DEF PeerOK, AnsweredOK
<1>5. \A c \in open'[p] : Passed(p, c) => Passed(p, c)'
  BY <1>2 DEF Passed
<1>6. \E k \in Nat : \A i \in DOMAIN direct'[p] :
        i \in Nat /\ i + k \in DOMAIN direct[p] /\ direct'[p][i] = direct[p][i + k]
  <2>1. PICK s, t : s = direct[p] /\ t = direct'[p]
    OBVIOUS
  <2>2. s \in Seq(Conn \cup {NoConn}) /\ Taken(s, t)
    BY <2>1, PeerTypes
  <2>3. \E k \in Nat : \A i \in DOMAIN t : i \in Nat /\ i + k \in DOMAIN s /\ t[i] = s[i + k]
    BY <2>2, TakenType
  <2>4. QED
    BY <2>1, <2>3
<1>7. \A i \in DOMAIN relayResult'[p] : \E j \in DOMAIN relayResult[p] :
        relayResult'[p][i] = relayResult[p][j]
  <2>1. PICK s, t : s = relayResult[p] /\ t = relayResult'[p]
    OBVIOUS
  <2>2. s \in Seq(Conn \cup {NoConn}) /\ Taken(s, t)
    BY <2>1, PeerTypes
  <2>3. PICK k \in Nat : \A i \in DOMAIN t : i \in Nat /\ i + k \in DOMAIN s /\ t[i] = s[i + k]
    BY <2>2, TakenType
  <2>4. QED
    BY <2>1, <2>3
<1>8. QED
  BY <1>1, <1>2, <1>3, <1>4, <1>5, <1>6, <1>7

\* The loop ends with result r, which it took or was provisional, and closes the
\* provisional connection if it is another one.
LEMMA SettleLocal ==
  ASSUME TypeOK, NEW p \in Peer, PeerOK(p), NEW r \in Conn \cup {NoConn},
         loop[p] \in {"race", "lastRelay"}, Looped(p),
         chosen'[p] = r, provisional'[p] = NoConn, loop'[p] = "finish",
         open'[p] = open[p] \ (Losing(p) \ {r}),
         r # NoConn => Passed(p, r) /\ r \notin Drained(p)',
         Drained(p) \subseteq Drained(p)' \cup {r},
         RelayOK(p)', CalmOK(p)'
  PROVE  PeerOK(p)'
<1>1. /\ RoomOK(p)' /\ WorkersOK(p)' /\ AnsweredOK(p)' /\ Current(p)' = Current(p)
      /\ \A c \in open'[p] : Passed(p, c) => Passed(p, c)'
  BY LoopFrame
<1>2. PICK k \in Nat : \A i \in DOMAIN direct'[p] :
        i \in Nat /\ i + k \in DOMAIN direct[p] /\ direct'[p][i] = direct[p][i + k]
  BY LoopFrame
<1>3. \A i \in DOMAIN relayResult'[p] : \E j \in DOMAIN relayResult[p] :
        relayResult'[p][i] = relayResult[p][j]
  BY LoopFrame
<1>4. chosen[p] = NoConn
  BY DEF PeerOK, PassedOK
<1>5. r # NoConn => Passed(p, r)'
  BY <1>1 DEF Passed
<1>6. ASSUME NEW i \in DOMAIN direct'[p], NEW c, c = direct'[p][i], c # NoConn
      PROVE  Passed(p, c)' /\ c.by # "relay" /\ c # r
  <2>1. Passed(p, c) /\ c.by # "relay" /\ c # provisional[p]
    BY <1>2, <1>6 DEF PeerOK, PassedOK, OnceOK
  <2>2. c \in open'[p]
    BY <2>1 DEF Passed, Losing
  <2>3. c \in Drained(p)'
    BY <1>6 DEF Drained
  <2>4. QED
    BY <1>1, <1>6, <2>1, <2>2, <2>3
<1>7. ASSUME NEW i \in DOMAIN relayResult'[p], NEW c, c = relayResult'[p][i], c # NoConn
      PROVE  Passed(p, c)' /\ c = Current(p) /\ c # r
  <2>1. Passed(p, c) /\ c = Current(p)
    BY <1>3, <1>7 DEF PeerOK, PassedOK
  <2>2. c # provisional[p]
    BY <1>7, <2>1, Names DEF PeerOK, PassedOK
  <2>3. c \in open'[p]
    BY <2>1, <2>2 DEF Passed, Losing
  <2>4. c \in Drained(p)'
    BY <1>7 DEF Drained
  <2>5. QED
    BY <1>1, <1>7, <2>1, <2>3, <2>4
<1>8. PassedOK(p)'
  BY <1>1, <1>5, <1>6, <1>7 DEF PassedOK
<1>9. OnceOK(p)'
  <2>1. ASSUME NEW i \in DOMAIN direct'[p], NEW j \in DOMAIN direct'[p],
               direct'[p][i] = direct'[p][j], direct'[p][i] # NoConn
        PROVE  i = j
    <3>1. i + k = j + k
      BY <1>2, <2>1 DEF PeerOK, OnceOK
    <3>2. QED
      BY <1>2, <3>1
  <2>2. QED
    BY <1>6, <1>7, <2>1 DEF OnceOK
<1>10. OpenOK(p)'
  <2>1. ASSUME NEW c \in open'[p], c \in Drained(p) \cup {provisional[p], chosen[p]}
        PROVE  c \in Drained(p)' \cup {provisional'[p], chosen'[p]}
    <3>1. c # NoConn
      BY Conns DEF TypeOK, Looped
    <3>2. QED
      BY <1>4, <2>1, <3>1 DEF Losing
  <2>2. \A c \in open'[p] : c \in open[p]
    BY DEF Looped
  <2>3. QED
    BY <1>1, <2>1, <2>2 DEF PeerOK, OpenOK, Looped
<1>11. DoneOK(p)'
  BY DEF DoneOK
<1>12. QED
  BY <1>1, <1>8, <1>9, <1>10, <1>11 DEF PeerOK

\* The loop goes on: result r, which it took, becomes provisional or is closed.
LEMMA StayLocal ==
  ASSUME TypeOK, NEW p \in Peer, PeerOK(p), NEW r \in Conn \cup {NoConn}, Looped(p),
         loop[p] = "race", loop'[p] \in {"race", "lastRelay"}, chosen'[p] = chosen[p],
         provisional'[p] = provisional[p] \/ (provisional'[p] = r /\ provisional[p] = NoConn),
         loop'[p] = "lastRelay" => provisional'[p] = NoConn,
         open'[p] = open[p] \ ({r} \ {provisional'[p]}),
         r # NoConn => Passed(p, r) /\ r \notin Drained(p)' /\ r.by # "relay",
         Drained(p) \subseteq Drained(p)' \cup {r},
         RelayOK(p)', CalmOK(p)'
  PROVE  PeerOK(p)'
<1>1. /\ RoomOK(p)' /\ WorkersOK(p)' /\ AnsweredOK(p)' /\ Current(p)' = Current(p)
      /\ \A c \in open'[p] : Passed(p, c) => Passed(p, c)'
  BY LoopFrame
<1>2. PICK k \in Nat : \A i \in DOMAIN direct'[p] :
        i \in Nat /\ i + k \in DOMAIN direct[p] /\ direct'[p][i] = direct[p][i + k]
  BY LoopFrame
<1>3. \A i \in DOMAIN relayResult'[p] : \E j \in DOMAIN relayResult[p] :
        relayResult'[p][i] = relayResult[p][j]
  BY LoopFrame
<1>4. chosen[p] = NoConn
  BY DEF PeerOK, PassedOK
<1>5. ASSUME NEW i \in DOMAIN direct'[p], NEW c, c = direct'[p][i], c # NoConn
      PROVE  Passed(p, c)' /\ c.by # "relay" /\ c # provisional'[p]
  <2>1. Passed(p, c) /\ c.by # "relay" /\ c # provisional[p]
    BY <1>2, <1>5 DEF PeerOK, PassedOK, OnceOK
  <2>2. c \in Drained(p)'
    BY <1>5 DEF Drained
  <2>3. c # r
    BY <1>5, <2>2
  <2>4. c \in open'[p]
    BY <2>1, <2>3 DEF Passed
  <2>5. QED
    BY <1>1, <2>1, <2>3, <2>4
<1>6. ASSUME NEW i \in DOMAIN relayResult'[p], NEW c, c = relayResult'[p][i], c # NoConn
      PROVE  Passed(p, c)' /\ c = Current(p)
  <2>1. Passed(p, c) /\ c = Current(p)
    BY <1>3, <1>6 DEF PeerOK, PassedOK
  <2>2. c # r
    BY <1>6, <2>1, Names
  <2>3. c \in open'[p]
    BY <2>1, <2>2 DEF Passed
  <2>4. QED
    BY <1>1, <2>1, <2>3
<1>7. ASSUME provisional'[p] # NoConn
      PROVE  \E c : /\ c = provisional'[p] /\ Passed(p, c)' /\ c.by # "relay"
                    /\ loop'[p] = "race"
  <2>1. PICK c : c = provisional'[p]
    OBVIOUS
  <2>2. Passed(p, c) /\ c.by # "relay"
    BY <1>7, <2>1 DEF PeerOK, PassedOK
  <2>3. c \in open'[p]
    BY <2>1, <2>2 DEF Passed
  <2>4. Passed(p, c)'
    BY <1>1, <2>2, <2>3
  <2>5. QED
    BY <1>7, <2>1, <2>2, <2>4
<1>8. PassedOK(p)'
  BY <1>1, <1>4, <1>5, <1>6, <1>7 DEF PassedOK
<1>9. OnceOK(p)'
  <2>1. ASSUME NEW i \in DOMAIN direct'[p], NEW j \in DOMAIN direct'[p],
               direct'[p][i] = direct'[p][j], direct'[p][i] # NoConn
        PROVE  i = j
    <3>1. i + k = j + k
      BY <1>2, <2>1 DEF PeerOK, OnceOK
    <3>2. QED
      BY <1>2, <3>1
  <2>2. QED
    BY <1>4, <1>5, <2>1 DEF OnceOK
<1>10. OpenOK(p)'
  <2>1. ASSUME NEW c \in open'[p], c \in Drained(p) \cup {provisional[p], chosen[p]}
        PROVE  c \in Drained(p)' \cup {provisional'[p], chosen'[p]}
    <3>1. c # NoConn
      BY Conns DEF TypeOK, Looped
    <3>2. QED
      BY <1>4, <2>1, <3>1
  <2>2. \A c \in open'[p] : c \in open[p]
    BY DEF Looped
  <2>3. QED
    BY <1>1, <2>1, <2>2 DEF PeerOK, OpenOK, Looped
<1>11. DoneOK(p)'
  BY DEF DoneOK
<1>12. QED
  BY <1>1, <1>8, <1>9, <1>10, <1>11 DEF PeerOK

LEMMA HeadTail ==
  ASSUME NEW s \in Seq(Conn \cup {NoConn}), s # <<>>, NEW c, c = Head(s), NEW t, t = Tail(s)
  PROVE  /\ c = s[1] /\ 1 \in DOMAIN s /\ c \in Conn \cup {NoConn}
         /\ t \in Seq(Conn \cup {NoConn}) /\ Len(t) = Len(s) - 1
         /\ \A i \in DOMAIN t : i + 1 \in DOMAIN s /\ i + 1 # 1 /\ t[i] = s[i + 1]
         /\ \A i \in DOMAIN s : i = 1 \/ (i - 1 \in DOMAIN t /\ s[i] = t[i - 1])
OBVIOUS

\* Only the half of p changes in the variables of the loop.
OnlyAt(p) ==
  /\ direct' = [direct EXCEPT ![p] = direct'[p]]
  /\ relayResult' = [relayResult EXCEPT ![p] = relayResult'[p]]
  /\ inFlight' = [inFlight EXCEPT ![p] = inFlight'[p]] /\ inFlight'[p] \in BOOLEAN
  /\ loop' = [loop EXCEPT ![p] = loop'[p]]
  /\ loop'[p] \in {"race", "lastRelay", "finish", "done"}
  /\ provisional' = [provisional EXCEPT ![p] = provisional'[p]]
  /\ provisional'[p] \in Conn \cup {NoConn}
  /\ chosen' = [chosen EXCEPT ![p] = chosen'[p]] /\ chosen'[p] \in Conn \cup {NoConn}
  /\ over' = [over EXCEPT ![p] = over'[p]] /\ over'[p] \in BOOLEAN
  /\ open' = [open EXCEPT ![p] = open'[p]]

\* A step of the loop of p, seen from outside p.
LEMMA LoopStep ==
  ASSUME RaceInv, NEW p \in Peer, OnlyAt(p), forced => forced', forced' \in BOOLEAN,
         direct'[p] \in Seq(Conn \cup {NoConn}), relayResult'[p] \in Seq(Conn \cup {NoConn}),
         open'[p] \subseteq open[p],
         UNCHANGED <<dial, accept, accepted, arrived, answered, relay, attempt>>,
         PeerOK(p)'
  PROVE  RaceInv'
<1>1. TypeOK
  BY DEF RaceInv
<1>2. PICK g, e, f, l, v, r, d, o :
        /\ g = direct'[p] /\ e = relayResult'[p] /\ f = inFlight'[p] /\ l = loop'[p]
        /\ v = provisional'[p] /\ r = chosen'[p] /\ d = over'[p] /\ o = open'[p]
  OBVIOUS
<1>3. /\ direct' = [direct EXCEPT ![p] = g] /\ relayResult' = [relayResult EXCEPT ![p] = e]
      /\ inFlight' = [inFlight EXCEPT ![p] = f] /\ loop' = [loop EXCEPT ![p] = l]
      /\ provisional' = [provisional EXCEPT ![p] = v] /\ chosen' = [chosen EXCEPT ![p] = r]
      /\ over' = [over EXCEPT ![p] = d] /\ open' = [open EXCEPT ![p] = o]
  BY <1>2 DEF OnlyAt
<1>4. /\ g \in Seq(Conn \cup {NoConn}) /\ e \in Seq(Conn \cup {NoConn}) /\ f \in BOOLEAN
      /\ l \in {"race", "lastRelay", "finish", "done"} /\ v \in Conn \cup {NoConn}
      /\ r \in Conn \cup {NoConn} /\ d \in BOOLEAN
  BY <1>2 DEF OnlyAt
<1>5. o \in SUBSET Conn
  BY <1>1, <1>2 DEF TypeOK
<1>6. TypeOK'
  <2>1. /\ direct' \in [Peer -> Seq(Conn \cup {NoConn})]
        /\ relayResult' \in [Peer -> Seq(Conn \cup {NoConn})]
    BY <1>1, <1>3, <1>4 DEF TypeOK
  <2>2. /\ inFlight' \in [Peer -> BOOLEAN] /\ over' \in [Peer -> BOOLEAN]
        /\ loop' \in [Peer -> {"race", "lastRelay", "finish", "done"}]
    BY <1>1, <1>3, <1>4 DEF TypeOK
  <2>3. /\ provisional' \in [Peer -> Conn \cup {NoConn}] /\ chosen' \in [Peer -> Conn \cup {NoConn}]
        /\ open' \in [Peer -> SUBSET Conn]
    BY <1>1, <1>3, <1>4, <1>5 DEF TypeOK
  <2>4. QED
    BY <1>1, <2>1, <2>2, <2>3 DEF TypeOK
<1>7. ASSUME NEW q \in Peer, q # p PROVE PeerOK(q)'
  <2>1. /\ direct'[q] = direct[q] /\ relayResult'[q] = relayResult[q] /\ inFlight'[q] = inFlight[q]
        /\ loop'[q] = loop[q] /\ provisional'[q] = provisional[q] /\ chosen'[q] = chosen[q]
        /\ over'[q] = over[q] /\ open'[q] = open[q]
    BY <1>1, <1>3, <1>7 DEF TypeOK
  <2>2. Apart(q)
    BY <2>1 DEF Apart
  <2>3. PeerOK(q)
    BY DEF RaceInv
  <2>4. QED
    BY <2>2, <2>3, ApartStep
<1>8. QED
  BY <1>6, <1>7 DEF RaceInv

LEMMA SettleEffect ==
  ASSUME TypeOK, NEW p \in Peer, NEW r, Settle(p, r)
  PROVE  /\ chosen' = [chosen EXCEPT ![p] = chosen'[p]] /\ chosen'[p] = r
         /\ provisional' = [provisional EXCEPT ![p] = provisional'[p]] /\ provisional'[p] = NoConn
         /\ loop' = [loop EXCEPT ![p] = loop'[p]] /\ loop'[p] = "finish"
         /\ over' = [over EXCEPT ![p] = over'[p]] /\ over'[p] = TRUE
BY DEF Settle, TypeOK

\* What stays as it is.
LEMMA Unchanging ==
  ASSUME TypeOK, NEW p \in Peer
  PROVE  /\ direct = [direct EXCEPT ![p] = direct[p]]
         /\ relayResult = [relayResult EXCEPT ![p] = relayResult[p]]
         /\ inFlight = [inFlight EXCEPT ![p] = inFlight[p]] /\ inFlight[p] \in BOOLEAN
         /\ loop = [loop EXCEPT ![p] = loop[p]]
         /\ loop[p] \in {"race", "lastRelay", "finish", "done"}
         /\ provisional = [provisional EXCEPT ![p] = provisional[p]]
         /\ provisional[p] \in Conn \cup {NoConn}
         /\ chosen = [chosen EXCEPT ![p] = chosen[p]] /\ chosen[p] \in Conn \cup {NoConn}
         /\ over = [over EXCEPT ![p] = over[p]] /\ over[p] \in BOOLEAN
         /\ open = [open EXCEPT ![p] = open[p]] /\ open[p] \subseteq Conn
         /\ forced \in BOOLEAN
BY DEF TypeOK

\* The provisional connection is in no channel.
LEMMA ProvisionalApart ==
  ASSUME TypeOK, NEW p \in Peer, PeerOK(p), NEW r, r = provisional[p]
  PROVE  /\ r \in Conn \cup {NoConn}
         /\ r # NoConn => Passed(p, r) /\ r \notin Drained(p) /\ r.by # "relay"
<1>1. r \in Conn \cup {NoConn}
  BY DEF TypeOK
<1>2. ASSUME r # NoConn PROVE Passed(p, r) /\ r \notin Drained(p) /\ r.by # "relay"
  <2>1. Passed(p, r) /\ r.by # "relay"
    BY <1>2 DEF PeerOK, PassedOK
  <2>2. \A i \in DOMAIN direct[p] : direct[p][i] # r
    BY <1>2 DEF PeerOK, OnceOK
  <2>3. ASSUME NEW i \in DOMAIN relayResult[p], relayResult[p][i] = r PROVE FALSE
    <3>1. r = Current(p)
      BY <1>2, <2>3 DEF PeerOK, PassedOK
    <3>2. QED
      BY <2>1, <3>1, Names
  <2>4. QED
    BY <2>1, <2>2, <2>3 DEF Drained
<1>3. QED
  BY <1>1, <1>2

LEMMA GraceEndsStep ==
  ASSUME RaceInv, NEW p \in Peer, GraceEnds(p) PROVE RaceInv'
<1>1. TypeOK /\ PeerOK(p)
  BY DEF RaceInv
<1>2. PICK r : r = provisional[p]
  OBVIOUS
<1>3. /\ loop[p] = "race" /\ r # NoConn /\ Settle(p, r) /\ forced' = TRUE
      /\ direct' = direct /\ relayResult' = relayResult /\ inFlight' = inFlight /\ open' = open
      /\ UNCHANGED <<dial, accept, accepted, arrived, answered, relay, attempt>>
  BY <1>2 DEF GraceEnds, dialing, relaying
<1>4. r \in Conn \cup {NoConn} /\ Passed(p, r) /\ r \notin Drained(p)
  BY <1>1, <1>2, <1>3, ProvisionalApart
<1>5. Looped(p) /\ Drained(p)' = Drained(p)
  BY <1>3 DEF Looped, Taken, Drained
<1>6. RelayOK(p)' /\ CalmOK(p)'
  BY <1>1, <1>3 DEF PeerOK, RelayOK, CalmOK
<1>7. open'[p] = open[p] \ (Losing(p) \ {r})
  BY <1>2, <1>3 DEF Losing
<1>8. /\ chosen' = [chosen EXCEPT ![p] = chosen'[p]] /\ chosen'[p] = r
      /\ provisional' = [provisional EXCEPT ![p] = provisional'[p]] /\ provisional'[p] = NoConn
      /\ loop' = [loop EXCEPT ![p] = loop'[p]] /\ loop'[p] = "finish"
      /\ over' = [over EXCEPT ![p] = over'[p]] /\ over'[p] = TRUE
  BY <1>1, <1>3, SettleEffect
<1>9. PeerOK(p)'
  <2>1. loop[p] \in {"race", "lastRelay"} /\ r \notin Drained(p)'
        /\ Drained(p) \subseteq Drained(p)' \cup {r}
    BY <1>3, <1>4, <1>5
  <2>2. QED
    BY <1>1, <1>4, <1>5, <1>6, <1>7, <1>8, <2>1, SettleLocal
<1>10. OnlyAt(p)
  BY <1>1, <1>3, <1>4, <1>8, Unchanging DEF OnlyAt
<1>11. QED
  BY <1>1, <1>3, <1>9, <1>10, LoopStep, PeerTypes

LEMMA DeadlineStep ==
  ASSUME RaceInv, NEW p \in Peer, Deadline(p) PROVE RaceInv'
<1>1. TypeOK /\ PeerOK(p)
  BY DEF RaceInv
<1>2. /\ over' = [over EXCEPT ![p] = TRUE] /\ forced' = TRUE
      /\ direct' = direct /\ relayResult' = relayResult /\ inFlight' = inFlight /\ open' = open
      /\ loop' = loop /\ provisional' = provisional /\ chosen' = chosen
      /\ UNCHANGED <<dial, accept, accepted, arrived, answered, relay, attempt>>
  BY DEF Deadline, dialing, relaying, choice
<1>3. Onward(p) /\ PoolSame(p) /\ Looped(p)
  BY <1>2 DEF Onward, PoolSame, Looped, Taken
<1>4. RoomOK(p)' /\ RelayOK(p)' /\ PassedOK(p)' /\ OnceOK(p)' /\ DoneOK(p)' /\ CalmOK(p)'
  BY <1>1, <1>2, <1>3, PoolFrame
<1>5. WorkersOK(p)' /\ AnsweredOK(p)'
  BY <1>1, <1>3, LoopFrame
<1>6. OpenOK(p)'
  BY <1>1, <1>2 DEF PeerOK, OpenOK, Drained, Current
<1>7. PeerOK(p)'
  BY <1>4, <1>5, <1>6 DEF PeerOK
<1>8. over' = [over EXCEPT ![p] = over'[p]] /\ over'[p] = TRUE
  BY <1>1, <1>2 DEF TypeOK
<1>9. OnlyAt(p)
  BY <1>1, <1>2, <1>8, Unchanging DEF OnlyAt
<1>10. QED
  BY <1>1, <1>2, <1>7, <1>9, LoopStep, PeerTypes

LEMMA ContextDoneStep ==
  ASSUME RaceInv, NEW p \in Peer, ContextDone(p) PROVE RaceInv'
<1>1. TypeOK /\ PeerOK(p)
  BY DEF RaceInv
<1>2. /\ loop[p] = "race" /\ over[p] /\ forced' = forced
      /\ direct' = direct /\ relayResult' = relayResult /\ inFlight' = inFlight /\ open' = open
      /\ UNCHANGED <<dial, accept, accepted, arrived, answered, relay, attempt>>
  BY DEF ContextDone, dialing, relaying
<1>3. Looped(p) /\ Drained(p)' = Drained(p)
  BY <1>2 DEF Looped, Taken, Drained
<1>4. forced
  BY <1>1, <1>2 DEF PeerOK, CalmOK
<1>5. RelayOK(p)' /\ CalmOK(p)'
  BY <1>1, <1>2, <1>4 DEF PeerOK, RelayOK, CalmOK
<1>6. CASE Settle(p, provisional[p])
  <2>1. PICK r : r = provisional[p]
    OBVIOUS
  <2>2. r \in Conn \cup {NoConn} /\ (r # NoConn => Passed(p, r) /\ r \notin Drained(p))
    BY <1>1, <2>1, ProvisionalApart
  <2>3. open'[p] = open[p] \ (Losing(p) \ {r})
    BY <1>2, <2>1 DEF Losing
  <2>4. /\ chosen' = [chosen EXCEPT ![p] = chosen'[p]] /\ chosen'[p] = r
        /\ provisional' = [provisional EXCEPT ![p] = provisional'[p]] /\ provisional'[p] = NoConn
        /\ loop' = [loop EXCEPT ![p] = loop'[p]] /\ loop'[p] = "finish"
        /\ over' = [over EXCEPT ![p] = over'[p]] /\ over'[p] = TRUE
    <3>1. Settle(p, r)
      BY <1>6, <2>1 DEF Settle
    <3>2. QED
      BY <1>1, <3>1, SettleEffect
  <2>5. PeerOK(p)'
    <3>1. /\ loop[p] \in {"race", "lastRelay"} /\ Drained(p) \subseteq Drained(p)' \cup {r}
          /\ r # NoConn => Passed(p, r) /\ r \notin Drained(p)'
      BY <1>2, <1>3, <2>2
    <3>2. QED
      BY <1>1, <1>3, <1>5, <2>2, <2>3, <2>4, <3>1, SettleLocal
  <2>6. OnlyAt(p)
    BY <1>1, <1>2, <2>2, <2>4, Unchanging DEF OnlyAt
  <2>7. QED
    BY <1>1, <1>2, <2>5, <2>6, LoopStep, PeerTypes, Unchanging
<1>7. CASE /\ provisional[p] = NoConn /\ loop' = [loop EXCEPT ![p] = "lastRelay"]
           /\ UNCHANGED <<provisional, chosen, over>>
  <2>1. PICK r : r = NoConn
    OBVIOUS
  <2>2. /\ loop' = [loop EXCEPT ![p] = loop'[p]] /\ loop'[p] = "lastRelay"
        /\ open'[p] = open[p] \ ({r} \ {provisional'[p]})
    BY <1>1, <1>2, <1>7, <2>1 DEF TypeOK
  <2>3. PeerOK(p)'
    <3>1. /\ loop'[p] \in {"race", "lastRelay"} /\ chosen'[p] = chosen[p]
          /\ provisional'[p] = provisional[p] /\ provisional'[p] = NoConn
          /\ Drained(p) \subseteq Drained(p)' \cup {r} /\ r \in Conn \cup {NoConn}
          /\ r # NoConn => Passed(p, r) /\ r \notin Drained(p)' /\ r.by # "relay"
      BY <1>2, <1>3, <1>7, <2>1, <2>2
    <3>2. QED
      BY <1>1, <1>2, <1>3, <1>5, <2>2, <3>1, StayLocal
  <2>4. OnlyAt(p)
    BY <1>1, <1>2, <1>7, <2>2, Unchanging DEF OnlyAt
  <2>5. QED
    BY <1>1, <1>2, <2>3, <2>4, LoopStep, PeerTypes, Unchanging
<1>8. QED
  BY <1>6, <1>7 DEF ContextDone

\* The loop takes a result of the direct channel.
LEMMA DirectTaken ==
  ASSUME TypeOK, NEW p \in Peer, PeerOK(p), direct[p] # <<>>,
         direct' = [direct EXCEPT ![p] = Tail(direct[p])], relayResult' = relayResult,
         NEW c, c = Head(direct[p])
  PROVE  /\ c \in Conn \cup {NoConn} /\ Drained(p) \subseteq Drained(p)' \cup {c}
         /\ c # NoConn => /\ Passed(p, c) /\ c.by # "relay" /\ c \notin Drained(p)'
                          /\ c # provisional[p]
         /\ direct' = [direct EXCEPT ![p] = direct'[p]]
         /\ Taken(direct[p], direct'[p]) /\ direct'[p] \in Seq(Conn \cup {NoConn})
<1>1. PICK s : s = direct[p]
  OBVIOUS
<1>2. s \in Seq(Conn \cup {NoConn}) /\ s # <<>> /\ c = Head(s)
  BY <1>1, PeerTypes
<1>3. PICK t : t = Tail(s)
  OBVIOUS
<1>4. /\ c = s[1] /\ 1 \in DOMAIN s /\ c \in Conn \cup {NoConn} /\ t \in Seq(Conn \cup {NoConn})
      /\ \A i \in DOMAIN t : i + 1 \in DOMAIN s /\ i + 1 # 1 /\ t[i] = s[i + 1]
      /\ \A i \in DOMAIN s : i = 1 \/ (i - 1 \in DOMAIN t /\ s[i] = t[i - 1])
  BY <1>2, <1>3, HeadTail
<1>5. direct' = [direct EXCEPT ![p] = t] /\ direct'[p] = t
  BY <1>1, <1>3 DEF TypeOK
<1>6. Drained(p)' = {t[i] : i \in DOMAIN t} \cup {relayResult[p][i] : i \in DOMAIN relayResult[p]}
  BY <1>5 DEF Drained
<1>7. Drained(p) = {s[i] : i \in DOMAIN s} \cup {relayResult[p][i] : i \in DOMAIN relayResult[p]}
  BY <1>1 DEF Drained
<1>8. ASSUME c # NoConn
      PROVE  /\ Passed(p, c) /\ c.by # "relay" /\ c \notin Drained(p)' /\ c # provisional[p]
  <2>1. Passed(p, c) /\ c.by # "relay" /\ c # provisional[p]
    BY <1>1, <1>4, <1>8 DEF PeerOK, PassedOK, OnceOK
  <2>2. ASSUME NEW i \in DOMAIN t, t[i] = c PROVE FALSE
    BY <1>1, <1>4, <1>8, <2>2 DEF PeerOK, OnceOK
  <2>3. ASSUME NEW i \in DOMAIN relayResult[p], relayResult[p][i] = c PROVE FALSE
    <3>1. c = Current(p)
      BY <1>8, <2>3 DEF PeerOK, PassedOK
    <3>2. QED
      BY <2>1, <3>1, Names
  <2>4. QED
    BY <1>6, <2>1, <2>2, <2>3
<1>9. Taken(direct[p], direct'[p]) /\ direct'[p] \in Seq(Conn \cup {NoConn})
  BY <1>1, <1>2, <1>3, <1>4, <1>5 DEF Taken
<1>10. Drained(p) \subseteq Drained(p)' \cup {c}
  BY <1>4, <1>6, <1>7
<1>11. QED
  BY <1>4, <1>5, <1>8, <1>9, <1>10

LEMMA TakeDirectStep ==
  ASSUME RaceInv, NEW p \in Peer, TakeDirect(p) PROVE RaceInv'
<1>1. TypeOK /\ PeerOK(p)
  BY DEF RaceInv
<1>2. PICK c : c = Head(direct[p])
  OBVIOUS
<1>3. /\ loop[p] = "race" /\ direct[p] # <<>> /\ direct' = [direct EXCEPT ![p] = Tail(direct[p])]
      /\ relayResult' = relayResult /\ inFlight' = inFlight /\ forced' = forced
      /\ UNCHANGED <<dial, accept, accepted, arrived, answered, relay, attempt>>
  BY DEF TakeDirect, relaying
<1>4. \/ c # NoConn /\ Preferred(c) /\ Settle(p, c) /\ Close(p, Losing(p))
      \/ /\ c # NoConn
         /\ provisional' = [provisional EXCEPT ![p] = IF @ = NoConn THEN c ELSE @]
         /\ Close(p, IF provisional[p] = NoConn THEN {} ELSE {c})
         /\ Stay
      \/ c = NoConn /\ Stay /\ UNCHANGED <<provisional, open>>
  BY <1>2 DEF TakeDirect
<1>5. /\ c \in Conn \cup {NoConn} /\ Drained(p) \subseteq Drained(p)' \cup {c}
      /\ c # NoConn => /\ Passed(p, c) /\ c.by # "relay" /\ c \notin Drained(p)'
                       /\ c # provisional[p]
      /\ direct' = [direct EXCEPT ![p] = direct'[p]]
      /\ Taken(direct[p], direct'[p]) /\ direct'[p] \in Seq(Conn \cup {NoConn})
  BY <1>1, <1>2, <1>3, DirectTaken
<1>6. RelayOK(p)'
  BY <1>1, <1>3 DEF PeerOK, RelayOK
<1>7. ASSUME OnlyAt(p), PeerOK(p)', open'[p] \subseteq open[p] PROVE RaceInv'
  <2>1. forced' \in BOOLEAN /\ relayResult'[p] \in Seq(Conn \cup {NoConn})
    BY <1>1, <1>3, PeerTypes, Unchanging
  <2>2. QED
    BY <1>3, <1>5, <1>7, <2>1, LoopStep
<1>8. CASE c # NoConn /\ Preferred(c) /\ Settle(p, c) /\ Close(p, Losing(p))
  <2>1. /\ chosen' = [chosen EXCEPT ![p] = chosen'[p]] /\ chosen'[p] = c
        /\ provisional' = [provisional EXCEPT ![p] = provisional'[p]] /\ provisional'[p] = NoConn
        /\ loop' = [loop EXCEPT ![p] = loop'[p]] /\ loop'[p] = "finish"
        /\ over' = [over EXCEPT ![p] = over'[p]] /\ over'[p] = TRUE
    BY <1>1, <1>8, SettleEffect
  <2>2. /\ open' = [open EXCEPT ![p] = open'[p]] /\ open'[p] = open[p] \ (Losing(p) \ {c})
        /\ open'[p] \subseteq open[p]
    <3>1. open'[p] = open[p] \ Losing(p) /\ open' = [open EXCEPT ![p] = open'[p]]
      BY <1>1, <1>8 DEF Close, TypeOK
    <3>2. QED
      BY <1>5, <1>8, <3>1 DEF Losing
  <2>3. Looped(p)
    <3>1. \A d \in open[p] \ open'[p] : Passed(p, d)
      BY <1>1, <2>2, ProvisionalApart DEF Losing
    <3>2. QED
      BY <1>3, <1>5, <2>2, <3>1 DEF Looped, Taken
  <2>4. CalmOK(p)'
    BY <1>1, <1>3, <1>8, <2>1 DEF PeerOK, CalmOK, Preferred
  <2>5. PeerOK(p)'
    <3>1. loop[p] \in {"race", "lastRelay"} /\ (c # NoConn => Passed(p, c) /\ c \notin Drained(p)')
      BY <1>3, <1>5
    <3>2. QED
      BY <1>1, <1>5, <1>6, <2>1, <2>2, <2>3, <2>4, <3>1, SettleLocal
  <2>6. OnlyAt(p)
    BY <1>1, <1>3, <1>5, <2>1, <2>2, Unchanging DEF OnlyAt
  <2>7. QED
    BY <1>7, <2>2, <2>5, <2>6
<1>9. CASE Stay /\ \/ /\ c # NoConn
                      /\ provisional' = [provisional EXCEPT ![p] = IF @ = NoConn THEN c ELSE @]
                      /\ Close(p, IF provisional[p] = NoConn THEN {} ELSE {c})
                   \/ c = NoConn /\ UNCHANGED <<provisional, open>>
  <2>1. loop' = loop /\ chosen' = chosen /\ over' = over
    BY <1>9 DEF Stay
  <2>2. /\ provisional' = [provisional EXCEPT ![p] = provisional'[p]]
        /\ provisional'[p] = IF provisional[p] = NoConn THEN c ELSE provisional[p]
    BY <1>1, <1>9 DEF TypeOK
  <2>3. /\ open' = [open EXCEPT ![p] = open'[p]] /\ open'[p] = open[p] \ ({c} \ {provisional'[p]})
        /\ open'[p] \subseteq open[p]
    <3>1. CASE c = NoConn
      <4>1. open' = open /\ NoConn \notin open[p]
        BY <1>1, <1>9, <3>1, Conns DEF TypeOK
      <4>2. QED
        BY <1>1, <3>1, <4>1, Unchanging
    <3>2. CASE c # NoConn
      <4>1. /\ open'[p] = open[p] \ (IF provisional[p] = NoConn THEN {} ELSE {c})
            /\ open' = [open EXCEPT ![p] = open'[p]]
        BY <1>1, <1>9, <3>2 DEF Close, TypeOK
      <4>2. QED
        BY <1>5, <2>2, <3>2, <4>1
    <3>3. QED
      BY <3>1, <3>2
  <2>4. Looped(p)
    <3>1. \A d \in open[p] \ open'[p] : d = c /\ d # NoConn
      BY <1>1, <2>3, Conns DEF TypeOK
    <3>2. QED
      BY <1>3, <1>5, <2>3, <3>1 DEF Looped, Taken
  <2>5. CalmOK(p)'
    BY <1>1, <1>3, <2>1 DEF PeerOK, CalmOK, Preferred
  <2>6. PeerOK(p)'
    <3>1. /\ loop'[p] \in {"race", "lastRelay"} /\ chosen'[p] = chosen[p] /\ loop'[p] # "lastRelay"
          /\ provisional'[p] = provisional[p] \/ (provisional'[p] = c /\ provisional[p] = NoConn)
          /\ c # NoConn => Passed(p, c) /\ c \notin Drained(p)' /\ c.by # "relay"
      BY <1>3, <1>5, <2>1, <2>2
    <3>2. QED
      BY <1>1, <1>3, <1>5, <1>6, <2>3, <2>4, <2>5, <3>1, StayLocal
  <2>7. OnlyAt(p)
    <3>1. provisional'[p] \in Conn \cup {NoConn}
      BY <1>1, <1>5, <2>2, Unchanging
    <3>2. QED
      BY <1>1, <1>3, <1>5, <2>1, <2>2, <2>3, <3>1, Unchanging DEF OnlyAt
  <2>8. QED
    BY <1>7, <2>3, <2>6, <2>7
<1>10. QED
  BY <1>4, <1>8, <1>9

\* The loop takes the result of the relay attempt.
LEMMA RelayTaken ==
  ASSUME TypeOK, NEW p \in Peer, PeerOK(p), relayResult[p] # <<>>,
         relayResult' = [relayResult EXCEPT ![p] = Tail(relayResult[p])], direct' = direct,
         inFlight' = [inFlight EXCEPT ![p] = FALSE], relay' = relay, NEW c, c = Head(relayResult[p])
  PROVE  /\ c \in Conn \cup {NoConn} /\ Drained(p) \subseteq Drained(p)' \cup {c}
         /\ c # NoConn => Passed(p, c) /\ c = Current(p) /\ c \notin Drained(p)'
         /\ relayResult' = [relayResult EXCEPT ![p] = relayResult'[p]] /\ relayResult'[p] = <<>>
         /\ Taken(relayResult[p], relayResult'[p]) /\ relay[p] = "idle" /\ inFlight[p]
         /\ inFlight' = [inFlight EXCEPT ![p] = inFlight'[p]] /\ inFlight'[p] = FALSE
         /\ RelayOK(p)'
<1>1. PICK s : s = relayResult[p]
  OBVIOUS
<1>2. s \in Seq(Conn \cup {NoConn}) /\ s # <<>> /\ c = Head(s)
  BY <1>1, PeerTypes
<1>3. PICK t : t = Tail(s)
  OBVIOUS
<1>4. Len(s) = 1 /\ relay[p] = "idle" /\ inFlight[p]
  BY <1>1, <1>2 DEF PeerOK, RelayOK
<1>5. /\ c = s[1] /\ 1 \in DOMAIN s /\ c \in Conn \cup {NoConn} /\ t \in Seq(Conn \cup {NoConn})
      /\ Len(t) = Len(s) - 1
      /\ \A i \in DOMAIN s : i = 1 \/ (i - 1 \in DOMAIN t /\ s[i] = t[i - 1])
  BY <1>2, <1>3, HeadTail
<1>6. t = <<>>
  BY <1>4, <1>5
<1>7. relayResult' = [relayResult EXCEPT ![p] = t] /\ relayResult'[p] = t
  BY <1>1, <1>3 DEF TypeOK
<1>8. Drained(p)' = {direct[p][i] : i \in DOMAIN direct[p]}
  BY <1>6, <1>7 DEF Drained
<1>9. Drained(p) = {direct[p][i] : i \in DOMAIN direct[p]} \cup {s[i] : i \in DOMAIN s}
  BY <1>1 DEF Drained
<1>10. Drained(p) \subseteq Drained(p)' \cup {c}
  BY <1>5, <1>6, <1>8, <1>9
<1>11. ASSUME c # NoConn PROVE Passed(p, c) /\ c = Current(p) /\ c \notin Drained(p)'
  <2>1. Passed(p, c) /\ c = Current(p)
    BY <1>1, <1>5, <1>11 DEF PeerOK, PassedOK
  <2>2. ASSUME NEW i \in DOMAIN direct[p], direct[p][i] = c PROVE FALSE
    <3>1. c.by # "relay"
      BY <1>11, <2>2 DEF PeerOK, PassedOK
    <3>2. QED
      BY <2>1, <3>1, Names
  <2>3. QED
    BY <1>8, <2>1, <2>2
<1>12. inFlight' = [inFlight EXCEPT ![p] = inFlight'[p]] /\ inFlight'[p] = FALSE
  BY DEF TypeOK
<1>13. RelayOK(p)'
  BY <1>4, <1>6, <1>7 DEF RelayOK
<1>14. Taken(relayResult[p], relayResult'[p])
  BY <1>1, <1>2, <1>3, <1>7 DEF Taken
<1>15. QED
  BY <1>4, <1>5, <1>6, <1>7, <1>10, <1>11, <1>12, <1>13, <1>14

\* The loop settles on the result of the relay attempt.
LEMMA SettleRelay ==
  ASSUME RaceInv, NEW p \in Peer, loop[p] \in {"race", "lastRelay"}, relayResult[p] # <<>>,
         relayResult' = [relayResult EXCEPT ![p] = Tail(relayResult[p])], direct' = direct,
         inFlight' = [inFlight EXCEPT ![p] = FALSE], forced' = forced,
         UNCHANGED <<dial, accept, accepted, arrived, answered, relay, attempt>>,
         NEW c, c = Head(relayResult[p]), Settle(p, c),
         open' = [open EXCEPT ![p] = open[p] \ Losing(p)]
  PROVE  RaceInv'
<1>1. TypeOK /\ PeerOK(p)
  BY DEF RaceInv
<1>2. /\ c \in Conn \cup {NoConn} /\ Drained(p) \subseteq Drained(p)' \cup {c}
      /\ c # NoConn => Passed(p, c) /\ c = Current(p) /\ c \notin Drained(p)'
      /\ relayResult' = [relayResult EXCEPT ![p] = relayResult'[p]] /\ relayResult'[p] = <<>>
      /\ Taken(relayResult[p], relayResult'[p]) /\ relay[p] = "idle" /\ inFlight[p]
      /\ inFlight' = [inFlight EXCEPT ![p] = inFlight'[p]] /\ inFlight'[p] = FALSE
      /\ RelayOK(p)'
  BY <1>1, RelayTaken
<1>3. /\ chosen' = [chosen EXCEPT ![p] = chosen'[p]] /\ chosen'[p] = c
      /\ provisional' = [provisional EXCEPT ![p] = provisional'[p]] /\ provisional'[p] = NoConn
      /\ loop' = [loop EXCEPT ![p] = loop'[p]] /\ loop'[p] = "finish"
      /\ over' = [over EXCEPT ![p] = over'[p]] /\ over'[p] = TRUE
  BY <1>1, SettleEffect
<1>4. open' = [open EXCEPT ![p] = open'[p]] /\ open'[p] = open[p] \ Losing(p)
  BY <1>1 DEF TypeOK
<1>5. c \notin Losing(p)
  <2>1. c # NoConn => c.by = "relay"
    BY <1>2, Names
  <2>2. PICK r : r = provisional[p]
    OBVIOUS
  <2>3. r # NoConn => r.by # "relay"
    BY <1>1, <2>2, ProvisionalApart
  <2>4. QED
    BY <2>1, <2>2, <2>3 DEF Losing
<1>6. open'[p] = open[p] \ (Losing(p) \ {c})
  BY <1>4, <1>5
<1>7. Looped(p)
  <2>1. \A d \in open[p] \ open'[p] : Passed(p, d)
    BY <1>1, <1>4, ProvisionalApart DEF Losing
  <2>2. QED
    BY <1>2, <1>4, <2>1 DEF Looped, Taken
<1>8. forced
  BY <1>1, <1>2 DEF PeerOK, CalmOK
<1>9. CalmOK(p)'
  BY <1>8 DEF CalmOK
<1>10. PeerOK(p)'
  <2>1. c # NoConn => Passed(p, c) /\ c \notin Drained(p)'
    BY <1>2
  <2>2. QED
    BY <1>1, <1>2, <1>3, <1>6, <1>7, <1>9, <2>1, SettleLocal
<1>11. OnlyAt(p)
  <2>1. direct' = [direct EXCEPT ![p] = direct'[p]]
    BY <1>1, Unchanging
  <2>2. QED
    BY <1>2, <1>3, <1>4, <2>1 DEF OnlyAt
<1>12. QED
  <2>1. /\ direct'[p] \in Seq(Conn \cup {NoConn}) /\ relayResult'[p] \in Seq(Conn \cup {NoConn})
        /\ forced' \in BOOLEAN /\ open'[p] \subseteq open[p]
    BY <1>1, <1>2, <1>4, PeerTypes, Unchanging
  <2>2. QED
    BY <1>10, <1>11, <2>1, LoopStep

LEMMA TakeRelayStep ==
  ASSUME RaceInv, NEW p \in Peer, TakeRelay(p) PROVE RaceInv'
<1>1. TypeOK /\ PeerOK(p)
  BY DEF RaceInv
<1>2. PICK c : c = Head(relayResult[p])
  OBVIOUS
<1>3. /\ loop[p] = "race" /\ relayResult[p] # <<>>
      /\ relayResult' = [relayResult EXCEPT ![p] = Tail(relayResult[p])] /\ direct' = direct
      /\ inFlight' = [inFlight EXCEPT ![p] = FALSE] /\ forced' = forced
      /\ UNCHANGED <<dial, accept, accepted, arrived, answered, relay, attempt>>
  BY DEF TakeRelay, dialing
<1>4. \/ Settle(p, c) /\ Close(p, Losing(p))
      \/ c = NoConn /\ Stay /\ UNCHANGED <<provisional, open>>
  BY <1>2 DEF TakeRelay
<1>5. CASE Settle(p, c) /\ Close(p, Losing(p))
  <2>1. open' = [open EXCEPT ![p] = open[p] \ Losing(p)]
    BY <1>5 DEF Close
  <2>2. QED
    BY <1>2, <1>3, <1>5, <2>1, SettleRelay
<1>6. CASE c = NoConn /\ Stay /\ UNCHANGED <<provisional, open>>
  <2>1. /\ c \in Conn \cup {NoConn} /\ Drained(p) \subseteq Drained(p)' \cup {c}
        /\ relayResult' = [relayResult EXCEPT ![p] = relayResult'[p]] /\ relayResult'[p] = <<>>
        /\ Taken(relayResult[p], relayResult'[p]) /\ relay[p] = "idle" /\ inFlight[p]
        /\ inFlight' = [inFlight EXCEPT ![p] = inFlight'[p]] /\ inFlight'[p] = FALSE
        /\ RelayOK(p)'
    BY <1>1, <1>2, <1>3, RelayTaken
  <2>2. loop' = loop /\ chosen' = chosen /\ over' = over /\ provisional' = provisional /\ open' = open
    BY <1>6 DEF Stay
  <2>3. Looped(p)
    BY <1>3, <2>1, <2>2 DEF Looped, Taken
  <2>4. forced
    BY <1>1, <2>1 DEF PeerOK, CalmOK
  <2>5. CalmOK(p)'
    BY <1>3, <2>4 DEF CalmOK
  <2>6. open'[p] = open[p] \ ({c} \ {provisional'[p]})
    BY <1>1, <1>6, <2>2, Conns DEF TypeOK
  <2>7. PeerOK(p)'
    <3>1. /\ loop'[p] \in {"race", "lastRelay"} /\ loop'[p] # "lastRelay"
          /\ chosen'[p] = chosen[p] /\ provisional'[p] = provisional[p]
          /\ c # NoConn => Passed(p, c) /\ c \notin Drained(p)' /\ c.by # "relay"
      BY <1>3, <1>6, <2>2
    <3>2. QED
      BY <1>1, <1>3, <2>1, <2>3, <2>5, <2>6, <3>1, StayLocal
  <2>8. OnlyAt(p)
    BY <1>1, <1>3, <2>1, <2>2, Unchanging DEF OnlyAt
  <2>9. QED
    <3>1. /\ direct'[p] \in Seq(Conn \cup {NoConn}) /\ relayResult'[p] \in Seq(Conn \cup {NoConn})
          /\ forced' \in BOOLEAN /\ open'[p] \subseteq open[p]
      BY <1>1, <1>3, <2>1, <2>2, PeerTypes, Unchanging
    <3>2. QED
      BY <1>3, <2>7, <2>8, <3>1, LoopStep
<1>7. QED
  BY <1>4, <1>5, <1>6

LEMMA TakeLastRelayStep ==
  ASSUME RaceInv, NEW p \in Peer, TakeLastRelay(p) PROVE RaceInv'
<1>1. TypeOK /\ PeerOK(p)
  BY DEF RaceInv
<1>2. PICK c : c = Head(relayResult[p])
  OBVIOUS
<1>3. /\ loop[p] \in {"race", "lastRelay"} /\ relayResult[p] # <<>>
      /\ relayResult' = [relayResult EXCEPT ![p] = Tail(relayResult[p])] /\ direct' = direct
      /\ inFlight' = [inFlight EXCEPT ![p] = FALSE] /\ forced' = forced /\ open' = open
      /\ UNCHANGED <<dial, accept, accepted, arrived, answered, relay, attempt>>
      /\ Settle(p, c)
  BY <1>2 DEF TakeLastRelay, dialing
<1>4. open' = [open EXCEPT ![p] = open[p] \ Losing(p)]
  <2>1. provisional[p] = NoConn
    BY <1>1 DEF TakeLastRelay, PeerOK, PassedOK
  <2>2. open[p] \ Losing(p) = open[p]
    BY <2>1 DEF Losing
  <2>3. QED
    BY <1>1, <1>3, <2>2, Unchanging
<1>5. QED
  BY <1>2, <1>3, <1>4, SettleRelay

LEMMA FinishStep ==
  ASSUME RaceInv, NEW p \in Peer, Finish(p) PROVE RaceInv'
<1>1. TypeOK /\ PeerOK(p)
  BY DEF RaceInv
<1>2. /\ loop[p] = "finish" /\ Joined(p) /\ open' = [open EXCEPT ![p] = open[p] \ Drained(p)]
      /\ direct' = [direct EXCEPT ![p] = <<>>] /\ relayResult' = [relayResult EXCEPT ![p] = <<>>]
      /\ loop' = [loop EXCEPT ![p] = "done"] /\ inFlight' = inFlight
      /\ provisional' = provisional /\ chosen' = chosen /\ over' = over /\ forced' = forced
      /\ UNCHANGED <<dial, accept, accepted, arrived, answered, relay, attempt>>
  BY DEF Finish, Close
<1>3. /\ open' = [open EXCEPT ![p] = open'[p]] /\ open'[p] = open[p] \ Drained(p)
      /\ direct' = [direct EXCEPT ![p] = direct'[p]] /\ direct'[p] = <<>>
      /\ relayResult' = [relayResult EXCEPT ![p] = relayResult'[p]] /\ relayResult'[p] = <<>>
      /\ loop' = [loop EXCEPT ![p] = loop'[p]] /\ loop'[p] = "done"
  BY <1>1, <1>2 DEF TypeOK
<1>4. /\ relay[p] = "idle" /\ accept[p] = "returned"
      /\ \A n \in 1 .. Dials[p] : dial[p][n] = "returned"
  BY <1>2 DEF Joined
<1>5. RoomOK(p)' /\ RelayOK(p)'
  <2>1. Busy(p)' = Busy(p) /\ Accepting(p)' = Accepting(p) /\ DirectCapacity(p)' = DirectCapacity(p)
    BY <1>2 DEF Busy, Accepting, DirectCapacity
  <2>2. Len(direct'[p]) = 0 /\ Accepting(p) \in Nat
    BY <1>3 DEF Accepting
  <2>3. QED
    BY <1>1, <1>2, <1>3, <1>4, <2>1, <2>2, BusyCount, PeerTypes DEF PeerOK, RoomOK, RelayOK
<1>6. WorkersOK(p)' /\ AnsweredOK(p)'
  BY <1>1, <1>2, <1>4 DEF PeerOK, WorkersOK, AnsweredOK
<1>7. provisional[p] = NoConn
  BY <1>1, <1>2 DEF PeerOK, PassedOK
<1>8. ASSUME chosen[p] # NoConn
      PROVE  \E c : c = chosen[p] /\ c = chosen'[p] /\ Passed(p, c)'
  <2>1. PICK c : c = chosen[p]
    OBVIOUS
  <2>2. Passed(p, c)
    BY <1>1, <1>8, <2>1 DEF PeerOK, PassedOK
  <2>3. c \notin Drained(p)
    BY <1>1, <1>8, <2>1 DEF PeerOK, OnceOK, Drained
  <2>4. Passed(p, c)'
    BY <1>2, <1>3, <2>2, <2>3 DEF Passed, Current
  <2>5. QED
    BY <1>2, <2>1, <2>4
<1>9. PassedOK(p)'
  <2>1. DOMAIN direct'[p] = {} /\ DOMAIN relayResult'[p] = {} /\ provisional'[p] = NoConn
    BY <1>2, <1>3, <1>7
  <2>2. QED
    BY <1>2, <1>3, <1>8, <2>1 DEF PassedOK
<1>10. OnceOK(p)' /\ DoneOK(p)'
  BY <1>2, <1>3 DEF OnceOK, DoneOK, Joined
<1>11. OpenOK(p)'
  <2>1. ASSUME NEW c \in open'[p] PROVE c = provisional'[p] \/ c = chosen'[p]
    <3>1. c \in open[p] /\ c \notin Drained(p)
      BY <1>3
    <3>2. QED
      BY <1>1, <1>2, <1>4, <3>1 DEF PeerOK, OpenOK
  <2>2. QED
    BY <2>1 DEF OpenOK
<1>12. CalmOK(p)'
  BY <1>1, <1>2, <1>3 DEF PeerOK, CalmOK
<1>13. PeerOK(p)'
  BY <1>5, <1>6, <1>9, <1>10, <1>11, <1>12 DEF PeerOK
<1>14. OnlyAt(p)
  BY <1>1, <1>2, <1>3, Unchanging DEF OnlyAt
<1>15. QED
  <2>1. /\ direct'[p] \in Seq(Conn \cup {NoConn}) /\ relayResult'[p] \in Seq(Conn \cup {NoConn})
        /\ forced' \in BOOLEAN /\ open'[p] \subseteq open[p]
    <3>1. <<>> \in Seq(Conn \cup {NoConn})
      OBVIOUS
    <3>2. QED
      BY <1>1, <1>2, <1>3, <3>1, Unchanging
  <2>2. QED
    BY <1>2, <1>13, <1>14, <2>1, LoopStep

-----------------------------------------------------------------------------
\* The invariant

LEMMA InitInv ==
  ASSUME Init PROVE RaceInv
<1>1. Dials \in [Peer -> Nat] /\ Attempts \in Nat
  BY RaceAssumption DEF RaceAssumption
<1>2. /\ dial \in [Peer -> UNION {[1 .. Dials[p] -> Worker] : p \in Peer}]
      /\ \A p \in Peer : dial[p] \in [1 .. Dials[p] -> Worker]
  <2>1. ASSUME NEW p \in Peer PROVE [n \in 1 .. Dials[p] |-> "start"] \in [1 .. Dials[p] -> Worker]
    BY DEF Worker
  <2>2. ASSUME NEW p \in Peer
        PROVE  [n \in 1 .. Dials[p] |-> "start"] \in UNION {[1 .. Dials[q] -> Worker] : q \in Peer}
    BY <2>1
  <2>3. dial = [p \in Peer |-> [n \in 1 .. Dials[p] |-> "start"]]
    BY DEF Init
  <2>4. QED
    BY <2>1, <2>2, <2>3
<1>3. TypeOK
  <2>1. /\ <<>> \in Seq(Conn \cup {NoConn}) /\ 0 \in 0 .. Attempts
        /\ "start" \in Worker /\ NoConn \in Direct \cup {NoConn} /\ NoConn \in Conn \cup {NoConn}
        /\ {} \in SUBSET Direct /\ {} \in SUBSET Conn
    BY <1>1 DEF Worker
  <2>2. /\ accept \in [Peer -> Worker] /\ accepted \in [Peer -> Direct \cup {NoConn}]
        /\ arrived \in [Peer -> SUBSET Direct] /\ answered \subseteq Conn
        /\ direct \in [Peer -> Seq(Conn \cup {NoConn})]
        /\ relay \in [Peer -> {"idle", "register", "confirm", "won", "lost"}]
        /\ attempt \in [Peer -> 0 .. Attempts]
        /\ relayResult \in [Peer -> Seq(Conn \cup {NoConn})]
    BY <2>1 DEF Init
  <2>3. /\ inFlight \in [Peer -> BOOLEAN]
        /\ loop \in [Peer -> {"race", "lastRelay", "finish", "done"}]
        /\ provisional \in [Peer -> Conn \cup {NoConn}] /\ chosen \in [Peer -> Conn \cup {NoConn}]
        /\ over \in [Peer -> BOOLEAN] /\ open \in [Peer -> SUBSET Conn] /\ forced \in BOOLEAN
    BY <2>1 DEF Init
  <2>4. QED
    BY <1>2, <2>2, <2>3 DEF TypeOK
<1>4. ASSUME NEW p \in Peer PROVE PeerOK(p)
  <2>1. /\ accept[p] = "start" /\ accepted[p] = NoConn /\ arrived[p] = {} /\ answered = {}
        /\ direct[p] = <<>> /\ relay[p] = "idle" /\ relayResult[p] = <<>> /\ inFlight[p] = FALSE
        /\ loop[p] = "race" /\ provisional[p] = NoConn /\ chosen[p] = NoConn
        /\ over[p] = FALSE /\ open[p] = {} /\ forced = FALSE
    BY DEF Init
  <2>2. \A n \in 1 .. Dials[p] : dial[p][n] = "start"
    <3>1. dial[p] = [n \in 1 .. Dials[p] |-> "start"]
      BY DEF Init
    <3>2. QED
      BY <3>1
  <2>3. RoomOK(p)
    <3>1. Busy(p) = 1 .. Dials[p]
      BY <2>2 DEF Busy
    <3>2. Dials[p] \in Nat
      BY <1>1
    <3>3. Cardinality(Busy(p)) = Dials[p]
      BY <3>1, <3>2, FS_Interval
    <3>4. Len(direct[p]) = 0 /\ Accepting(p) = 1 /\ DirectCapacity(p) = Dials[p] + 1
      BY <2>1 DEF Accepting, DirectCapacity
    <3>5. QED
      BY <3>2, <3>3, <3>4 DEF RoomOK
  <2>4. RelayOK(p) /\ WorkersOK(p) /\ AnsweredOK(p)
    BY <2>1, <2>2 DEF RelayOK, WorkersOK, AnsweredOK
  <2>5. PassedOK(p) /\ OnceOK(p) /\ OpenOK(p) /\ DoneOK(p) /\ CalmOK(p)
    BY <2>1 DEF PassedOK, OnceOK, OpenOK, DoneOK, CalmOK
  <2>6. QED
    BY <2>3, <2>4, <2>5 DEF PeerOK
<1>5. QED
  BY <1>3, <1>4 DEF RaceInv

LEMMA StutterStep ==
  ASSUME RaceInv, UNCHANGED vars PROVE RaceInv'
<1>1. /\ UNCHANGED <<dial, accept, accepted, arrived, answered, direct>>
      /\ UNCHANGED <<relay, attempt, relayResult, inFlight, loop, provisional, chosen>>
      /\ UNCHANGED <<over, open, forced>>
  BY DEF vars, dialing, relaying, choice
<1>2. TypeOK'
  BY <1>1 DEF RaceInv, TypeOK
<1>3. ASSUME NEW p \in Peer PROVE PeerOK(p)'
  <2>1. Apart(p) /\ PeerOK(p)
    BY <1>1 DEF Apart, RaceInv
  <2>2. QED
    BY <1>1, <2>1, ApartStep
<1>4. QED
  BY <1>2, <1>3 DEF RaceInv

LEMMA NextInv ==
  ASSUME RaceInv, [Next]_vars PROVE RaceInv'
<1>1. CASE UNCHANGED vars
  BY <1>1, StutterStep
<1>2. ASSUME NEW p \in Peer, NEW n \in 1 .. Dials[p], Dialer(p, n) PROVE RaceInv'
  BY <1>2, ConnectStep, DialQuietly, DialUnconfirmedStep, DialReturnsStep DEF Dialer
<1>3. ASSUME NEW p \in Peer, Acceptor(p) PROVE RaceInv'
  BY <1>3, AcceptorStep, AcceptReturnsStep DEF Acceptor
<1>4. ASSUME NEW p \in Peer, Relayer(p) PROVE RaceInv'
  BY <1>4, RelayPeerStep, RelayReturnsStep DEF Relayer
<1>5. ASSUME NEW p \in Peer, Select(p) PROVE RaceInv'
  BY <1>5, TakeDirectStep, TakeRelayStep, ContextDoneStep, TakeLastRelayStep, FinishStep DEF Select
<1>6. ASSUME NEW p \in Peer, StartRelay(p) \/ GraceEnds(p) \/ Deadline(p) PROVE RaceInv'
  BY <1>6, StartRelayStep, GraceEndsStep, DeadlineStep
<1>7. CASE RelayJoins \/ RelayAnswer \/ RelayConfirmed
  <2>1. "send" \in Peer
    BY DEF Peer
  <2>2. "recv" \in Peer
    BY DEF Peer
  <2>3. RelayAnswer => RaceInv'
    BY <2>2, RelayPeerStep
  <2>4. RelayConfirmed => RaceInv'
    BY <2>1, RelayPeerStep
  <2>5. QED
    BY <1>7, <2>3, <2>4, RelayJoinsStep
<1>8. QED
  BY <1>1, <1>2, <1>3, <1>4, <1>5, <1>6, <1>7 DEF Next

\* The invariant of the race, in every reachable state, for any number of dials
\* and of relay attempts.
THEOREM RaceInvariant == Spec => []RaceInv
BY InitInv, NextInv, PTL DEF Spec

-----------------------------------------------------------------------------
\* What follows from it

\* A peer that is through with the race holds the connection it chose, open, and
\* no other (finish, drainRaceLosers, discardDirect).
THEOREM WinnerOnly == Spec => []OneSurvivor
<1>1. ASSUME RaceInv PROVE OneSurvivor
  <2>1. ASSUME NEW p \in Peer PROVE chosen[p] # NoConn => chosen[p] \in open[p]
    BY <1>1 DEF RaceInv, PeerOK, PassedOK, Passed
  <2>2. ASSUME NEW p \in Peer, loop[p] = "done" PROVE open[p] = {chosen[p]} \ {NoConn}
    <3>1. PeerOK(p) /\ open[p] \subseteq Conn
      BY <1>1 DEF RaceInv, TypeOK
    <3>2. provisional[p] = NoConn
      BY <2>2, <3>1 DEF PeerOK, PassedOK
    <3>3. Drained(p) = {}
      BY <2>2, <3>1 DEF PeerOK, DoneOK, Drained
    <3>4. ASSUME NEW c \in open[p] PROVE c = chosen[p] /\ c # NoConn
      BY <2>2, <3>1, <3>2, <3>3, <3>4, Conns DEF PeerOK, OpenOK, DoneOK, Joined
    <3>5. QED
      BY <2>1, <3>4
  <2>3. QED
    BY <2>1, <2>2 DEF OneSurvivor
<1>2. QED
  BY <1>1, RaceInvariant, PTL

\* A worker that has a result finds room for it, whoever has not been listened to
\* since: the capacities of the channels are the number of workers (path_selection.go),
\* so that finish, which joins the workers before it drains, never waits for ever.
THEOREM RoomForResults == Spec => []NoWorkerBlocks
<1>1. ASSUME RaceInv PROVE NoWorkerBlocks
  <2>1. SUFFICES ASSUME NEW p \in Peer
                 PROVE  /\ Len(direct[p])
                           + Cardinality({n \in 1 .. Dials[p] : dial[p][n] \in {"won", "lost"}})
                           + (IF accept[p] \in {"won", "lost"} THEN 1 ELSE 0) <= DirectCapacity(p)
                        /\ relay[p] \in {"won", "lost"} => Len(relayResult[p]) < RelayCapacity
    BY DEF NoWorkerBlocks
  <2>2. PICK R : R = {n \in 1 .. Dials[p] : dial[p][n] \in {"won", "lost"}}
    OBVIOUS
  <2>3. TypeOK /\ PeerOK(p)
    BY <1>1 DEF RaceInv
  <2>4. R \subseteq Busy(p)
    BY <2>2 DEF Busy
  <2>5. Cardinality(R) <= Cardinality(Busy(p)) /\ Cardinality(R) \in Nat
    BY <2>3, <2>4, BusyCount, FS_Subset, FS_CardinalityType
  <2>6. PICK a : a = IF accept[p] \in {"won", "lost"} THEN 1 ELSE 0
    OBVIOUS
  <2>7. a \in Nat /\ Accepting(p) \in Nat /\ a <= Accepting(p)
    BY <2>6 DEF Accepting
  <2>8. Len(direct[p]) + Cardinality(R) + a <= DirectCapacity(p)
    <3>1. Len(direct[p]) + Cardinality(Busy(p)) + Accepting(p) <= DirectCapacity(p)
      BY <2>3 DEF PeerOK, RoomOK
    <3>2. Len(direct[p]) \in Nat /\ DirectCapacity(p) \in Nat /\ Cardinality(Busy(p)) \in Nat
      BY <2>3, PeerTypes, BusyCount
    <3>3. QED
      BY <2>5, <2>7, <3>1, <3>2
  <2>9. relay[p] \in {"won", "lost"} => Len(relayResult[p]) < RelayCapacity
    BY <2>3 DEF PeerOK, RelayOK, RelayCapacity
  <2>10. QED
    BY <2>2, <2>6, <2>8, <2>9
<1>2. QED
  BY <1>1, RaceInvariant, PTL

\* As long as no timer has decided anything, two peers that both chose chose the
\* same connection: the preferred direction is the receiver's, and a sender answers
\* one connection only.
THEOREM AgreementUnforced == Spec => []UnforcedAgreement
<1>1. ASSUME RaceInv PROVE UnforcedAgreement
  <2>1. SUFFICES ASSUME BothChose, ~forced PROVE Same(chosen["send"], chosen["recv"])
    BY DEF UnforcedAgreement
  <2>2. "send" \in Peer /\ "recv" \in Peer /\ Other("send") = "recv" /\ "recv" # "send"
    BY DEF Peer, Other
  <2>3. PICK c, d : c = chosen["send"] /\ d = chosen["recv"]
    OBVIOUS
  <2>4. c # NoConn /\ d # NoConn
    BY <2>1, <2>2, <2>3 DEF BothChose
  <2>5. PeerOK("send") /\ PeerOK("recv")
    BY <1>1, <2>2 DEF RaceInv
  <2>6. c.by = "recv" /\ d.by = "recv"
    BY <2>1, <2>3, <2>4, <2>5 DEF PeerOK, CalmOK, Preferred
  <2>7. Passed("send", c) /\ Passed("recv", d)
    BY <2>3, <2>4, <2>5 DEF PeerOK, PassedOK
  <2>8. c = accepted["send"]
    BY <2>2, <2>6, <2>7, Names DEF Passed
  <2>9. d \in answered
    <3>1. Other("recv") = "send"
      BY DEF Other
    <3>2. QED
      BY <2>2, <2>6, <2>7, <3>1, Names DEF Passed
  <2>10. d = accepted["send"]
    BY <2>2, <2>5, <2>6, <2>9 DEF PeerOK, AnsweredOK
  <2>11. QED
    BY <2>3, <2>6, <2>8, <2>10 DEF Same
<1>2. QED
  BY <1>1, RaceInvariant, PTL
=============================================================================
