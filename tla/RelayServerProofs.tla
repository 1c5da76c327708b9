--------------------------- MODULE RelayServerProofs ---------------------------
(***************************************************************************)
(* Proofs about RelayServer, for any number of connections, sources and    *)
(* sessions and any limits.                                                *)
(***************************************************************************)
EXTENDS RelayServer, FiniteSetTheorems, TLAPS

CountersTyped == live \in [Source -> Nat] /\ liveN \in Nat
NoticeTyped == notice \in [Conn -> {"none", "sent", "failed"}]

LEMMA HelloType ==
  ASSUME NEW c \in Conn
  PROVE  SessionOf(c) \in Session /\ SourceOf[c] \in Source /\ c # NoConn
BY RelayAssumption DEF RelayAssumption, SessionOf

LEMMA InitRelayInv == Init => RelayInv
<1>1. SUFFICES ASSUME Init PROVE RelayInv
  OBVIOUS
<1>2. TypeOK
  BY <1>1 DEF Init, TypeOK, Phase
<1>3. SlotsHeld /\ PairedOK /\ OwnersOK /\ OwningOK
  BY <1>1 DEF Init, SlotsHeld, Waiters, PairedOK, OwnersOK, OwningOK, Owners, At
<1>4. LeavingOK /\ ClosedOK
  BY <1>1 DEF Init, LeavingOK, ClosedOK, At
<1>5. QED
  BY <1>2, <1>3, <1>4 DEF RelayInv

\* A handler moves to phase p without touching the map or the pairs.
LEMMA PhaseMove ==
  ASSUME RelayInv, NEW c \in Conn, NEW p \in Phase, Goto(c, p),
         UNCHANGED <<waiting, paired, partner, stopped>>, alive' \subseteq alive,
         CountersTyped', NoticeTyped',
         c \in paired => p \notin {"unborn", "admit", "hello", "register"},
         c \in Owners => p \in {"notify", "relay", "release", "done"},
         p \in {"notify", "relay"} => c \in Owners,
         OwnsSlot(c) => p \in {"wait", "expired", "leave"},
         p = "wait" => c \in paired \/ OwnsSlot(c),
         p = "leave" \/ (p = "close" /\ c \in paired) => Gone(c),
         p \in {"unborn", "release", "done"} => c \notin alive'
  PROVE  RelayInv'
<1>1. TypeOK'
  BY DEF RelayInv, TypeOK, Goto, CountersTyped, NoticeTyped
<1>2. ASSUME NEW d \in Conn
      PROVE  phase'[d] = IF d = c THEN p ELSE phase[d]
  BY DEF Goto, RelayInv, TypeOK
<1>3. SlotsHeld'
  <2>1. ASSUME NEW s \in Session, waiting[s] # NoConn
        PROVE  /\ SessionOf(waiting[s]) = s /\ waiting[s] \notin paired
               /\ phase'[waiting[s]] \in {"wait", "expired", "leave"}
    BY <1>2, <2>1 DEF RelayInv, TypeOK, SlotsHeld, Waiters, OwnsSlot
  <2>2. ASSUME NEW d \in Conn, phase'[d] = "wait", d \notin paired
        PROVE  OwnsSlot(d)
    BY <1>2, <2>2 DEF RelayInv, SlotsHeld, At
  <2>3. QED
    BY <2>1, <2>2 DEF SlotsHeld, Waiters, At, OwnsSlot, SessionOf
<1>4. PairedOK'
  BY <1>2 DEF RelayInv, PairedOK, TypeOK
<1>5. OwnersOK' /\ OwningOK'
  BY <1>2 DEF RelayInv, OwnersOK, OwningOK, Owners, Matches, TypeOK
<1>6. LeavingOK'
  BY <1>2 DEF RelayInv, LeavingOK, At, Gone
<1>7. ClosedOK'
  BY <1>2 DEF RelayInv, TypeOK, ClosedOK
<1>8. QED
  BY <1>1, <1>3, <1>4, <1>5, <1>6, <1>7 DEF RelayInv

\* Which handlers may be in the map or in a pair, read off their phase.
LEMMA Standing ==
  ASSUME RelayInv, NEW c \in Conn
  PROVE  /\ phase[c] \in {"unborn", "admit", "hello", "register"} => c \notin paired
         /\ c \in Owners => phase[c] \in {"notify", "relay", "release", "done"}
         /\ phase[c] \in {"notify", "relay"} => c \in Owners
         /\ c \in Owners => c \notin paired
         /\ OwnsSlot(c) => phase[c] \in {"wait", "expired", "leave"} /\ c \notin paired
BY HelloType DEF RelayInv, TypeOK, PairedOK, OwnersOK, OwningOK, Owners, SlotsHeld, Waiters, OwnsSlot

-----------------------------------------------------------------------------
\* The invariant, action by action

LEMMA AcceptStep ==
  ASSUME RelayInv, NEW c \in Conn, Accept(c)
  PROVE  RelayInv'
<1>1. UNCHANGED <<live, liveN, waiting, paired, partner, notice, stopped>>
  BY DEF Accept, limits, matches
<1>2. TypeOK'
  BY <1>1 DEF Accept, Goto, RelayInv, TypeOK, Phase
<1>3. ASSUME NEW d \in Conn
      PROVE  /\ phase'[d] = IF d = c THEN "admit" ELSE phase[d]
             /\ d # c => (d \in alive' <=> d \in alive)
  BY DEF Accept, Goto, RelayInv, TypeOK
<1>4. phase[c] = "unborn"
  BY DEF Accept, At
<1>5. SlotsHeld'
  BY <1>1, <1>3, <1>4 DEF RelayInv, TypeOK, SlotsHeld, Waiters, OwnsSlot, At
<1>6. PairedOK' /\ OwnersOK' /\ OwningOK'
  BY <1>1, <1>3, <1>4 DEF RelayInv, TypeOK, PairedOK, OwnersOK, OwningOK, Owners, Matches
<1>7. LeavingOK' /\ ClosedOK'
  BY <1>1, <1>2, <1>3, <1>4 DEF RelayInv, TypeOK, LeavingOK, ClosedOK, Gone, At
<1>8. QED
  BY <1>2, <1>5, <1>6, <1>7 DEF RelayInv

\* Connections fail, notifications end and the server stops without moving a handler.
LEMMA StillStep ==
  ASSUME RelayInv, UNCHANGED <<phase, live, liveN, waiting, paired, partner>>,
         NoticeTyped', alive' \subseteq alive, stopped' \in BOOLEAN, stopped => stopped'
  PROVE  RelayInv'
<1>1. TypeOK'
  BY DEF RelayInv, TypeOK, NoticeTyped
<1>2. SlotsHeld'
  BY DEF RelayInv, SlotsHeld, Waiters, OwnsSlot, At
<1>3. PairedOK' /\ OwnersOK' /\ OwningOK'
  BY DEF RelayInv, PairedOK, OwnersOK, OwningOK, Owners, Matches
<1>4. LeavingOK' /\ ClosedOK'
  BY DEF RelayInv, LeavingOK, ClosedOK, Gone, At
<1>5. QED
  BY <1>1, <1>2, <1>3, <1>4 DEF RelayInv

LEMMA QuietStep ==
  ASSUME RelayInv,
         \/ \E c \in Conn : Fail(c)
         \/ \E c, d \in Conn : NoticeSent(c, d)
         \/ \E c \in Conn : \E d \in Pair(c) : NoticeFails(c, d)
         \/ Shutdown \/ UNCHANGED vars
  PROVE  RelayInv'
<1>1. CASE \E c \in Conn : Fail(c)
  BY <1>1, StillStep DEF Fail, limits, matches, NoticeTyped, RelayInv, TypeOK
<1>2. CASE \E c, d \in Conn : NoticeSent(c, d)
  BY <1>2, StillStep DEF NoticeSent, conns, limits, matches, NoticeTyped, RelayInv, TypeOK
<1>3. CASE \E c \in Conn : \E d \in Pair(c) : NoticeFails(c, d)
  <2>1. PICK c, d : NoticeFails(c, d)
    BY <1>3
  <2>2. QED
    BY <2>1, StillStep DEF NoticeFails, conns, limits, matches, NoticeTyped, RelayInv, TypeOK
<1>4. CASE Shutdown \/ UNCHANGED vars
  BY <1>4, StillStep DEF Shutdown, vars, conns, limits, matches, NoticeTyped, RelayInv, TypeOK
<1>5. QED
  BY <1>1, <1>2, <1>3, <1>4

LEMMA AdmissionStep ==
  ASSUME RelayInv, NEW c \in Conn, Admit(c) \/ Refuse(c) \/ Close(c) \/ Release(c)
  PROVE  RelayInv'
<1>1. CASE Admit(c)
  <2>1. CountersTyped' /\ NoticeTyped'
    BY <1>1, HelloType DEF Admit, RelayInv, TypeOK, CountersTyped, NoticeTyped
  <2>2. QED
    BY <1>1, <2>1, PhaseMove, Standing DEF Admit, At, matches, Phase
<1>2. CASE Refuse(c)
  BY <1>2, PhaseMove, Standing
     DEF Refuse, AfterRefusal, At, matches, limits, Phase, RelayInv, TypeOK,
         CountersTyped, NoticeTyped
<1>3. CASE Close(c)
  <2>1. CountersTyped' /\ NoticeTyped'
    BY <1>3 DEF Close, matches, limits, RelayInv, TypeOK, CountersTyped, NoticeTyped
  <2>2. phase[c] = "close" /\ Goto(c, "release") /\ alive' = alive \ {c}
        /\ UNCHANGED <<waiting, paired, partner, stopped>>
    BY <1>3 DEF Close, At, matches
  <2>3. c \notin Owners /\ ~OwnsSlot(c)
    BY <2>2, Standing
  <2>4. QED
    BY <2>1, <2>2, <2>3, PhaseMove DEF Phase
<1>4. CASE Release(c)
  <2>1. CountersTyped' /\ NoticeTyped'
    BY <1>4, HelloType DEF Release, Fewer, RelayInv, TypeOK, CountersTyped, NoticeTyped
  <2>2. c \notin alive
    BY <1>4 DEF Release, At, RelayInv, ClosedOK
  <2>3. QED
    BY <1>4, <2>1, <2>2, PhaseMove, Standing DEF Release, At, matches, Phase
<1>5. QED
  BY <1>1, <1>2, <1>3, <1>4

LEMMA RegistrationStep ==
  ASSUME RelayInv, NEW c \in Conn,
         ReadHello(c) \/ HelloFails(c) \/ RegisterRejected(c)
  PROVE  RelayInv'
<1>1. PICK p \in {"register", "close"} :
        /\ Goto(c, p) /\ phase[c] \in {"hello", "register"}
        /\ UNCHANGED <<alive, live, liveN, waiting, paired, partner, notice, stopped>>
  BY DEF ReadHello, HelloFails, RegisterRejected, At, limits, matches
<1>2. CountersTyped' /\ NoticeTyped'
  BY <1>1 DEF RelayInv, TypeOK, CountersTyped, NoticeTyped
<1>3. c \notin paired /\ c \notin Owners /\ ~OwnsSlot(c)
  BY <1>1, Standing
<1>4. QED
  BY <1>1, <1>2, <1>3, PhaseMove DEF Phase

LEMMA WaitingStep ==
  ASSUME RelayInv, NEW c \in Conn,
         WaitPaired(c) \/ WaitExpires(c) \/ WaitEnds(c) \/ KeptEnds(c)
  PROVE  RelayInv'
<1>1. PICK p \in {"hold", "expired", "leave", "close"} :
        /\ Goto(c, p) /\ phase[c] \in {"wait", "hold", "kept"}
        /\ UNCHANGED <<alive, live, liveN, waiting, paired, partner, notice, stopped>>
        /\ p = "hold" => c \in paired
        /\ p \in {"leave", "close"} => Gone(c)
        /\ p = "close" => phase[c] = "kept"
  BY DEF WaitPaired, WaitExpires, WaitEnds, KeptEnds, At, limits, matches
<1>2. CountersTyped' /\ NoticeTyped'
  BY <1>1 DEF RelayInv, TypeOK, CountersTyped, NoticeTyped
<1>3. c \notin Owners /\ (OwnsSlot(c) => p \in {"expired", "leave"})
  BY <1>1, Standing
<1>4. QED
  BY <1>1, <1>2, <1>3, PhaseMove DEF Phase

LEMMA PairEndStep ==
  ASSUME RelayInv, NEW c \in Conn,
         PairReady(c) \/ NotifyFails(c) \/ RelayStops(c) \/ RelayExpires(c)
  PROVE  RelayInv'
<1>1. PICK p \in {"relay", "release"} :
        /\ Goto(c, p) /\ phase[c] \in {"notify", "relay"}
        /\ UNCHANGED <<live, liveN, waiting, paired, partner, notice, stopped>>
        /\ alive' \subseteq alive
        /\ p = "release" => c \notin alive'
  BY DEF PairReady, NotifyFails, RelayStops, RelayExpires, EndPair, PairClosed, Pair,
         At, limits, matches
<1>2. CountersTyped' /\ NoticeTyped'
  BY <1>1 DEF RelayInv, TypeOK, CountersTyped, NoticeTyped
<1>3. ~OwnsSlot(c) /\ c \in Owners
  BY <1>1, Standing DEF RelayInv, OwningOK
<1>4. QED
  BY <1>1, <1>2, <1>3, PhaseMove DEF Phase

-----------------------------------------------------------------------------
\* Steps that change the map

LEMMA RegisterPairStep ==
  ASSUME RelayInv, NEW c \in Conn, RegisterPair(c)
  PROVE  RelayInv'
<1> DEFINE other == waiting[SessionOf(c)]
<1>1. /\ phase[c] = "register" /\ other # NoConn /\ Matches(c, other)
      /\ waiting' = [waiting EXCEPT ![SessionOf(c)] = NoConn]
      /\ paired' = paired \cup {other}
      /\ partner' = [partner EXCEPT ![c] = other]
      /\ phase' = [phase EXCEPT ![c] = "notify"]
      /\ UNCHANGED <<alive, live, liveN, notice, stopped>>
  BY DEF RegisterPair, Vacated, At, Goto, limits
<1>2. /\ SessionOf(c) \in Session /\ other \in Conn /\ SessionOf(other) = SessionOf(c)
      /\ OwnsSlot(other)
  BY <1>1, HelloType DEF RelayInv, TypeOK, SlotsHeld, Waiters, OwnsSlot
<1>3. /\ c \notin paired /\ c \notin Owners
      /\ phase[other] \in {"wait", "expired", "leave"} /\ other \notin paired
      /\ other \notin Owners /\ other # c
  BY <1>1, <1>2, Standing
<1>4. TypeOK'
  BY <1>1, <1>2 DEF RelayInv, TypeOK, Phase
<1>5. ASSUME NEW d \in Conn
      PROVE  /\ phase'[d] = IF d = c THEN "notify" ELSE phase[d]
             /\ partner'[d] = IF d = c THEN other ELSE partner[d]
  BY <1>1 DEF RelayInv, TypeOK
<1>6. SlotsHeld'
  <2>1. ASSUME NEW s \in Session, waiting'[s] # NoConn
        PROVE  /\ SessionOf(waiting'[s]) = s /\ waiting'[s] \notin paired'
               /\ phase'[waiting'[s]] \in {"wait", "expired", "leave"}
    <3>1. s # SessionOf(c) /\ waiting'[s] = waiting[s]
      BY <1>1, <1>2, <2>1 DEF RelayInv, TypeOK
    <3>2. /\ waiting[s] \in Conn /\ SessionOf(waiting[s]) = s
          /\ waiting[s] \notin paired
          /\ phase[waiting[s]] \in {"wait", "expired", "leave"}
      BY <2>1, <3>1 DEF RelayInv, TypeOK, SlotsHeld, Waiters
    <3>3. QED
      BY <1>1, <1>2, <1>5, <3>1, <3>2
  <2>2. ASSUME NEW d \in Conn, phase'[d] = "wait", d \notin paired'
        PROVE  waiting'[SessionOf(d)] = d
    <3>1. d # c /\ d # other /\ OwnsSlot(d)
      BY <1>1, <1>5, <2>2 DEF RelayInv, SlotsHeld, At
    <3>2. QED
      BY <1>1, <1>2, <3>1, HelloType DEF OwnsSlot, RelayInv, TypeOK
  <2>3. QED
    BY <2>1, <2>2 DEF SlotsHeld, Waiters, At, OwnsSlot, SessionOf
<1>7. PairedOK'
  BY <1>1, <1>2, <1>3, <1>5 DEF RelayInv, TypeOK, PairedOK, Owners
<1>8. OwnersOK' /\ OwningOK'
  <2> OwningOK'
    BY <1>1, <1>2, <1>5 DEF RelayInv, TypeOK, OwningOK, Owners
  <2>1. SUFFICES ASSUME NEW o \in Conn, partner'[o] # NoConn
                 PROVE  /\ phase'[o] \in {"notify", "relay", "release", "done"}
                        /\ partner'[o] \in paired'
                        /\ Hello[partner'[o]].session = Hello[o].session
                        /\ Matches(o, partner'[o])
                        /\ \A q \in Conn : partner'[q] # NoConn /\ partner'[q] = partner'[o]
                             => q = o
    BY DEF OwnersOK, Owners, Matches
  <2>2. CASE o = c
    BY <1>1, <1>2, <1>3, <1>5, <2>2 DEF RelayInv, OwnersOK, Owners, SessionOf
  <2>3. CASE o # c
    BY <1>1, <1>3, <1>5, <2>1, <2>3 DEF RelayInv, OwnersOK, Owners
  <2>4. QED
    BY <2>2, <2>3
<1>9. LeavingOK'
  BY <1>1, <1>2, <1>3, <1>5 DEF RelayInv, LeavingOK, At, Gone
<1>10. ClosedOK'
  BY <1>1, <1>5 DEF RelayInv, TypeOK, ClosedOK
<1>11. QED
  BY <1>4, <1>6, <1>7, <1>8, <1>9, <1>10 DEF RelayInv

LEMMA RegisterWaiterStep ==
  ASSUME RelayInv, NEW c \in Conn, RegisterWaiter(c)
  PROVE  RelayInv'
<1>1. /\ phase[c] = "register" /\ waiting[SessionOf(c)] = NoConn
      /\ waiting' = [waiting EXCEPT ![SessionOf(c)] = c]
      /\ phase' = [phase EXCEPT ![c] = "wait"]
      /\ UNCHANGED <<alive, live, liveN, paired, partner, notice, stopped>>
  BY DEF RegisterWaiter, At, Goto, limits
<1>2. SessionOf(c) \in Session /\ c \notin paired /\ c \notin Owners /\ c # NoConn
  BY <1>1, HelloType, Standing
<1>3. TypeOK'
  BY <1>1 DEF RelayInv, TypeOK, Phase
<1>4. ASSUME NEW d \in Conn
      PROVE  phase'[d] = IF d = c THEN "wait" ELSE phase[d]
  BY <1>1 DEF RelayInv, TypeOK
<1>5. SlotsHeld'
  <2>1. ASSUME NEW s \in Session, waiting'[s] # NoConn
        PROVE  /\ SessionOf(waiting'[s]) = s /\ waiting'[s] \notin paired
               /\ phase'[waiting'[s]] \in {"wait", "expired", "leave"}
    <3>1. CASE s = SessionOf(c)
      BY <1>1, <1>2, <1>4, <3>1 DEF RelayInv, TypeOK
    <3>2. CASE s # SessionOf(c)
      BY <1>1, <1>4, <2>1, <3>2 DEF RelayInv, TypeOK, SlotsHeld, Waiters
    <3>3. QED
      BY <3>1, <3>2
  <2>2. ASSUME NEW d \in Conn, phase'[d] = "wait", d \notin paired
        PROVE  waiting'[SessionOf(d)] = d
    <3>1. CASE d = c
      BY <1>1, <1>2, <3>1 DEF RelayInv, TypeOK
    <3>2. CASE d # c
      <4>1. waiting[SessionOf(d)] = d /\ d # NoConn /\ SessionOf(d) \in Session
        BY <1>4, <2>2, <3>2, HelloType DEF RelayInv, SlotsHeld, At, OwnsSlot
      <4>2. QED
        BY <1>1, <4>1 DEF RelayInv, TypeOK
    <3>3. QED
      BY <3>1, <3>2
  <2>3. QED
    BY <1>1, <2>1, <2>2 DEF SlotsHeld, Waiters, At, OwnsSlot, SessionOf
<1>6. PairedOK' /\ OwnersOK' /\ OwningOK'
  BY <1>1, <1>2, <1>4 DEF RelayInv, TypeOK, PairedOK, OwnersOK, OwningOK, Owners, Matches
<1>7. LeavingOK' /\ ClosedOK'
  BY <1>1, <1>2, <1>4 DEF RelayInv, TypeOK, LeavingOK, ClosedOK, At, Gone
<1>8. QED
  BY <1>3, <1>5, <1>6, <1>7 DEF RelayInv

\* Leave and Expire: unregisterWaiting.
LEMMA UnregisterStep ==
  ASSUME RelayInv, NEW c \in Conn, Leave(c) \/ Expire(c)
  PROVE  RelayInv'
<1>1. /\ phase[c] \in {"leave", "expired"}
      /\ waiting' = Unregistered(c)
      /\ UNCHANGED <<alive, live, liveN, paired, partner, notice, stopped>>
  BY DEF Leave, Expire, At, limits
<1>2. PICK p \in {"close", "kept"} :
        /\ phase' = [phase EXCEPT ![c] = p]
        /\ p = "close" => phase[c] = "leave" \/ OwnsSlot(c)
  BY DEF Leave, Expire, AfterExpiry, At, Goto
<1>3. c \notin Owners /\ SessionOf(c) \in Session /\ c # NoConn
  BY <1>1, Standing, HelloType
<1>4. ASSUME NEW d \in Conn
      PROVE  phase'[d] = IF d = c THEN p ELSE phase[d]
  BY <1>2 DEF RelayInv, TypeOK
<1>5. \A s \in Session : waiting'[s] \in {waiting[s], NoConn} /\ waiting'[s] # c
  <2>1. \A s \in Session : waiting[s] = c => s = SessionOf(c)
    BY <1>3 DEF RelayInv, SlotsHeld, Waiters
  <2>2. QED
    BY <1>1, <1>3, <2>1 DEF Unregistered, OwnsSlot, Vacated, RelayInv, TypeOK
<1>6. ASSUME NEW s \in Session, waiting[s] # c PROVE waiting'[s] = waiting[s]
  BY <1>1, <1>6 DEF Unregistered, OwnsSlot, Vacated, RelayInv, TypeOK
<1>7. TypeOK'
  <2>1. waiting' \in [Session -> Conn \cup {NoConn}]
    BY <1>1 DEF Unregistered, Vacated, RelayInv, TypeOK
  <2>2. QED
    BY <1>1, <1>2, <2>1 DEF RelayInv, TypeOK, Phase
<1>8. SlotsHeld'
  <2>1. ASSUME NEW s \in Session, waiting'[s] # NoConn
        PROVE  /\ SessionOf(waiting'[s]) = s /\ waiting'[s] \notin paired
               /\ phase'[waiting'[s]] \in {"wait", "expired", "leave"}
    BY <1>4, <1>5, <2>1 DEF RelayInv, TypeOK, SlotsHeld, Waiters
  <2>2. ASSUME NEW d \in Conn, phase'[d] = "wait", d \notin paired
        PROVE  waiting'[SessionOf(d)] = d
    <3>1. d # c /\ waiting[SessionOf(d)] = d
      BY <1>2, <1>4, <2>2 DEF RelayInv, SlotsHeld, At, OwnsSlot
    <3>2. QED
      BY <1>6, <3>1, HelloType
  <2>3. QED
    BY <1>1, <2>1, <2>2 DEF SlotsHeld, Waiters, At, OwnsSlot, SessionOf
<1>9. PairedOK' /\ OwnersOK' /\ OwningOK'
  BY <1>1, <1>2, <1>3, <1>4 DEF RelayInv, TypeOK, PairedOK, OwnersOK, OwningOK, Owners, Matches
<1>10. LeavingOK'
  <2>1. p = "close" /\ c \in paired => Gone(c)
    BY <1>2, Standing DEF RelayInv, LeavingOK, At
  <2>2. QED
    BY <1>1, <1>2, <1>4, <2>1 DEF RelayInv, LeavingOK, At, Gone
<1>11. ClosedOK'
  BY <1>1, <1>2, <1>4 DEF RelayInv, TypeOK, ClosedOK
<1>12. QED
  BY <1>7, <1>8, <1>9, <1>10, <1>11 DEF RelayInv

LEMMA NextRelayInv == RelayInv /\ [Next]_vars => RelayInv'
<1>1. SUFFICES ASSUME RelayInv, [Next]_vars PROVE RelayInv'
  OBVIOUS
<1>2. ASSUME NEW c \in Conn, Handle(c) PROVE RelayInv'
  BY <1>1, <1>2, AdmissionStep, RegistrationStep, RegisterPairStep, RegisterWaiterStep,
     WaitingStep, UnregisterStep, PairEndStep DEF Handle
<1>3. ASSUME NEW c \in Conn, Timeout(c) PROVE RelayInv'
  BY <1>1, <1>3, RegistrationStep, WaitingStep, PairEndStep, QuietStep DEF Timeout
<1>4. QED
  BY <1>1, <1>2, <1>3, AcceptStep, RegistrationStep, QuietStep DEF Next

-----------------------------------------------------------------------------
\* The theorems

\* The inductive invariant holds in every reachable state.
THEOREM RelayInvariant == Spec => []RelayInv
BY InitRelayInv, NextRelayInv, PTL DEF Spec

\* Every variable keeps its type: no counter goes below zero, a pair has one owner.
THEOREM TypeCorrect == Spec => []TypeOK
<1>1. RelayInv => TypeOK
  BY DEF RelayInv
<1>2. QED
  BY <1>1, RelayInvariant, PTL

\* The waiting map and the handlers agree in every reachable state.
THEOREM WaitingMapExact == Spec => []SlotsHeld
<1>1. RelayInv => SlotsHeld
  BY DEF RelayInv
<1>2. QED
  BY <1>1, RelayInvariant, PTL

\* Registration never puts one connection into two pairs, and pairs only
\* opposite roles of one session and token.
THEOREM PairsExclusive == Spec => []PairsDisjoint
<1>1. ASSUME RelayInv PROVE PairsDisjoint
  <2>1. ASSUME NEW o \in Owners
        PROVE  /\ partner[o] # o
               /\ Hello[partner[o]].session = Hello[o].session
               /\ Hello[partner[o]].token = Hello[o].token
               /\ Hello[partner[o]].role # Hello[o].role
    BY <1>1 DEF RelayInv, OwnersOK, PairedOK, Owners, Matches
  <2>2. ASSUME NEW o1 \in Owners, NEW o2 \in Owners, o1 # o2
        PROVE  Pair(o1) \cap Pair(o2) = {}
    <3>1. o1 \notin paired /\ o2 \notin paired
      BY <1>1, Standing DEF Owners
    <3>2. /\ partner[o1] \in paired /\ partner[o2] \in paired
          /\ partner[o1] # partner[o2]
      BY <1>1, <2>2 DEF RelayInv, OwnersOK
    <3>3. QED
      BY <2>2, <3>1, <3>2 DEF Pair
  <2>3. QED
    BY <2>1, <2>2 DEF PairsDisjoint
<1>2. QED
  BY <1>1, RelayInvariant, PTL

\* A waiter's handler never tears down a pair whose owner still runs, unless
\* the connection failed or the server stops: the timeout boundary is safe.
THEOREM TimerSparesPair == Spec => PairSurvivesTimer
<1>1. ASSUME RelayInv, [Next]_vars, NEW o \in Owners, phase[o] \in {"notify", "relay"},
             phase'[o] = phase[o], phase'[partner[o]] # phase[partner[o]],
             partner[o] \in alive \ alive'
      PROVE  stopped
  <2> DEFINE p == partner[o]
  <2>1. /\ o \in Conn /\ p \in paired /\ p \in Conn /\ p \notin Owners
        /\ \A q \in Owners : partner[q] = p => q = o
    BY <1>1, Standing DEF RelayInv, TypeOK, OwnersOK, Owners
  <2>2. ASSUME NEW c \in Conn, Refuse(c) \/ Close(c) PROVE stopped
    <3>1. p = c
      BY <1>1, <2>2 DEF Refuse, Close
    <3>2. phase[p] \in {"admit", "close"}
      BY <2>2, <3>1 DEF Refuse, Close, At
    <3>3. phase[p] = "close"
      BY <1>1, <2>1, <3>2, Standing
    <3>4. QED
      BY <1>1, <2>1, <3>3 DEF RelayInv, LeavingOK, At, Gone
  <2>3. ASSUME NEW c \in Conn, EndPair(c), phase[c] \in {"notify", "relay"} PROVE FALSE
    <3>1. p \in Pair(c) /\ phase'[c] = "release"
      BY <1>1, <2>3 DEF EndPair, PairClosed, Goto, RelayInv, TypeOK
    <3>2. c # o
      BY <1>1, <3>1
    <3>3. c \in Owners
      BY <1>1, <2>3, Standing
    <3>4. QED
      BY <2>1, <3>1, <3>2, <3>3 DEF Pair
  <2>4. ASSUME NEW c \in Conn, Fail(c) PROVE FALSE
    BY <1>1, <2>4 DEF Fail
  <2>5. CASE alive \subseteq alive'
    BY <1>1, <2>5
  <2>6. CASE UNCHANGED vars
    BY <1>1, <2>6 DEF vars, conns
  <2>7. CASE Next
    <3>1. CASE \E c \in Conn : Refuse(c) \/ Close(c)
      BY <2>2, <3>1
    <3>2. CASE \E c \in Conn : NotifyFails(c) \/ RelayStops(c) \/ RelayExpires(c)
      BY <2>3, <3>2 DEF NotifyFails, RelayStops, RelayExpires, At
    <3>3. CASE \E c \in Conn : \/ Accept(c) \/ Admit(c) \/ Release(c) \/ ReadHello(c)
                               \/ HelloFails(c) \/ RegisterPair(c) \/ RegisterWaiter(c)
                               \/ RegisterRejected(c)
      BY <2>5, <3>3 DEF Accept, Admit, Release, ReadHello, HelloFails, RegisterPair,
                        RegisterWaiter, RegisterRejected
    <3>4. CASE \E c \in Conn : \/ WaitPaired(c) \/ WaitExpires(c) \/ WaitEnds(c) \/ Leave(c)
                               \/ Expire(c) \/ KeptEnds(c) \/ PairReady(c)
      BY <2>5, <3>4 DEF WaitPaired, WaitExpires, WaitEnds, Leave, Expire, KeptEnds, PairReady
    <3>5. CASE \E c, d : NoticeSent(c, d) \/ NoticeFails(c, d)
      BY <2>5, <3>5 DEF NoticeSent, NoticeFails, conns
    <3>6. CASE Shutdown
      BY <2>5, <3>6 DEF Shutdown, conns
    <3>7. QED
      BY <2>4, <2>7, <3>1, <3>2, <3>3, <3>4, <3>5, <3>6 DEF Next, Handle, Timeout
  <2>8. QED
    BY <1>1, <2>6, <2>7
<1>2. RelayInv /\ [Next]_vars => \A o \in Owners : SparesPartner(o)
  BY <1>1 DEF SparesPartner
<1>3. QED
  BY <1>2, RelayInvariant, PTL DEF Spec, PairSurvivesTimer

-----------------------------------------------------------------------------
\* Counting the admitted connections

LEMMA FiniteSubset ==
  ASSUME NEW S, S \subseteq Conn
  PROVE  IsFiniteSet(S) /\ Cardinality(S) \in Nat
BY FS_Subset, FS_CardinalityType, RelayAssumption DEF RelayAssumption

LEMMA CountMove ==
  ASSUME CountsExact, NEW c \in Conn, NEW p \in Phase, phase \in [Conn -> Phase],
         Goto(c, p), UNCHANGED <<live, liveN>>,
         c \in Admitted <=> p \notin {"unborn", "admit", "done"}
  PROVE  CountsExact'
<1>1. Admitted' = Admitted
  BY DEF Goto, Admitted
<1>2. \A ip : AdmittedFrom(ip)' = AdmittedFrom(ip)
  BY <1>1 DEF AdmittedFrom
<1>3. QED
  BY <1>1, <1>2 DEF CountsExact

LEMMA CountSame ==
  ASSUME CountsExact, UNCHANGED <<phase, live, liveN>>
  PROVE  CountsExact'
BY DEF CountsExact, Admitted, AdmittedFrom

LEMMA CountAdmit ==
  ASSUME RelayInv, CountsExact, NEW c \in Conn, Admit(c)
  PROVE  CountsExact'
<1> DEFINE ip == SourceOf[c]
<1>1. /\ phase[c] = "admit" /\ phase' = [phase EXCEPT ![c] = "hello"]
      /\ live' = [live EXCEPT ![ip] = live[ip] + 1] /\ liveN' = liveN + 1
      /\ phase \in [Conn -> Phase] /\ live \in [Source -> Nat] /\ ip \in Source
  BY HelloType DEF Admit, At, Goto, RelayInv, TypeOK
<1>2. Admitted' = Admitted \cup {c} /\ c \notin Admitted
  BY <1>1 DEF Admitted
<1>3. /\ AdmittedFrom(ip)' = AdmittedFrom(ip) \cup {c} /\ c \notin AdmittedFrom(ip)
      /\ \A jp \in Source : jp # ip => AdmittedFrom(jp)' = AdmittedFrom(jp)
  BY <1>2 DEF AdmittedFrom
<1>4. IsFiniteSet(Admitted) /\ IsFiniteSet(AdmittedFrom(ip))
  BY FiniteSubset DEF Admitted, AdmittedFrom
<1>5. /\ Cardinality(Admitted') = Cardinality(Admitted) + 1
      /\ Cardinality(AdmittedFrom(ip)') = Cardinality(AdmittedFrom(ip)) + 1
  BY <1>2, <1>3, <1>4, FS_AddElement
<1>6. liveN' = Cardinality(Admitted')
  BY <1>1, <1>5 DEF CountsExact
<1>7. ASSUME NEW jp \in Source PROVE live'[jp] = Cardinality(AdmittedFrom(jp)')
  BY <1>1, <1>3, <1>5 DEF CountsExact
<1>8. QED
  BY <1>6, <1>7 DEF CountsExact

LEMMA CountRelease ==
  ASSUME RelayInv, CountsExact, NEW c \in Conn, Release(c)
  PROVE  CountsExact'
<1> DEFINE ip == SourceOf[c]
<1>1. /\ phase[c] = "release" /\ phase' = [phase EXCEPT ![c] = "done"]
      /\ live' = [live EXCEPT ![ip] = Fewer(live[ip])] /\ liveN' = Fewer(liveN)
      /\ phase \in [Conn -> Phase] /\ live \in [Source -> Nat] /\ ip \in Source
  BY HelloType DEF Release, At, Goto, RelayInv, TypeOK
<1>2. Admitted' = Admitted \ {c} /\ c \in Admitted
  BY <1>1 DEF Admitted
<1>3. /\ AdmittedFrom(ip)' = AdmittedFrom(ip) \ {c} /\ c \in AdmittedFrom(ip)
      /\ \A jp \in Source : jp # ip => AdmittedFrom(jp)' = AdmittedFrom(jp)
  BY <1>2 DEF AdmittedFrom
<1>4. /\ IsFiniteSet(Admitted) /\ Cardinality(Admitted) \in Nat
      /\ IsFiniteSet(AdmittedFrom(ip)) /\ Cardinality(AdmittedFrom(ip)) \in Nat
      /\ Cardinality(Admitted \ {c}) \in Nat
      /\ Cardinality(AdmittedFrom(ip) \ {c}) \in Nat
  BY FiniteSubset DEF Admitted, AdmittedFrom
<1>5. /\ Cardinality(Admitted') = Cardinality(Admitted) - 1
      /\ Cardinality(AdmittedFrom(ip)') = Cardinality(AdmittedFrom(ip)) - 1
  BY <1>2, <1>3, <1>4, FS_RemoveElement
<1>6. Cardinality(Admitted) > 0 /\ Cardinality(AdmittedFrom(ip)) > 0
  BY <1>2, <1>3, <1>4, <1>5
<1>7. liveN' = Cardinality(Admitted')
  BY <1>1, <1>4, <1>5, <1>6 DEF CountsExact, Fewer
<1>8. ASSUME NEW jp \in Source PROVE live'[jp] = Cardinality(AdmittedFrom(jp)')
  BY <1>1, <1>3, <1>4, <1>5, <1>6 DEF CountsExact, Fewer
<1>9. QED
  BY <1>7, <1>8 DEF CountsExact

\* Every other step keeps each handler on its side of admission and release.
LEMMA CountOther ==
  ASSUME RelayInv, [Next]_vars, \A c \in Conn : ~Admit(c) /\ ~Release(c)
  PROVE  /\ UNCHANGED <<live, liveN>>
         /\ \/ UNCHANGED phase
            \/ \E c \in Conn, p \in Phase :
                 Goto(c, p) /\ (c \in Admitted <=> p \notin {"unborn", "admit", "done"})
<1> DEFINE Goal ==
             /\ UNCHANGED <<live, liveN>>
             /\ \/ UNCHANGED phase
                \/ \E c \in Conn, p \in Phase :
                     Goto(c, p) /\ (c \in Admitted <=> p \notin {"unborn", "admit", "done"})
<1>1. ASSUME NEW c \in Conn, Accept(c) \/ Refuse(c) \/ Close(c) \/ ReadHello(c) PROVE Goal
  BY <1>1 DEF Accept, Refuse, AfterRefusal, Close, ReadHello, At, Admitted, Phase, limits
<1>2. ASSUME NEW c \in Conn,
             RegisterPair(c) \/ RegisterWaiter(c) \/ RegisterRejected(c) \/ HelloFails(c)
      PROVE  Goal
  BY <1>2 DEF RegisterPair, RegisterWaiter, RegisterRejected, HelloFails, At, Admitted,
              Phase, limits
<1>3. ASSUME NEW c \in Conn,
             WaitPaired(c) \/ WaitExpires(c) \/ WaitEnds(c) \/ Leave(c) \/ KeptEnds(c)
      PROVE  Goal
  BY <1>3 DEF WaitPaired, WaitExpires, WaitEnds, Leave, KeptEnds, At, Admitted, Phase, limits
<1>4. ASSUME NEW c \in Conn, Expire(c) PROVE Goal
  BY <1>4 DEF Expire, AfterExpiry, At, Admitted, Phase, limits
<1>5. ASSUME NEW c \in Conn,
             PairReady(c) \/ NotifyFails(c) \/ RelayStops(c) \/ RelayExpires(c)
      PROVE  Goal
  BY <1>5 DEF PairReady, NotifyFails, RelayStops, RelayExpires, EndPair, At, Admitted,
              Phase, limits
<1>6. ASSUME NEW c, NEW d, Fail(c) \/ NoticeSent(c, d) \/ NoticeFails(c, d) PROVE Goal
  BY <1>6 DEF Fail, NoticeSent, NoticeFails, conns, limits
<1>7. CASE Shutdown \/ UNCHANGED vars
  BY <1>7 DEF Shutdown, vars, conns, limits
<1>8. QED
  BY <1>1, <1>2, <1>3, <1>4, <1>5, <1>6, <1>7 DEF Next, Handle, Timeout

LEMMA NextCounts ==
  ASSUME RelayInv, CountsExact, [Next]_vars
  PROVE  CountsExact'
<1>1. CASE \E c \in Conn : Admit(c) \/ Release(c)
  BY <1>1, CountAdmit, CountRelease
<1>2. CASE \A c \in Conn : ~Admit(c) /\ ~Release(c)
  BY <1>2, CountOther, CountSame, CountMove DEF RelayInv, TypeOK
<1>3. QED
  BY <1>1, <1>2

LEMMA InitCounts == Init => CountsExact
<1>1. SUFFICES ASSUME Init PROVE CountsExact
  OBVIOUS
<1>2. Admitted = {} /\ \A ip : AdmittedFrom(ip) = {}
  BY <1>1 DEF Init, Admitted, AdmittedFrom
<1>3. QED
  BY <1>1, <1>2, FS_EmptySet DEF Init, CountsExact

\* The admission counters are exact in every reachable state: no interleaving of
\* handlers leaks capacity or gives it out twice.
THEOREM AdmissionExact == Spec => []CountsExact
<1>1. RelayInv /\ CountsExact /\ [Next]_vars => CountsExact'
  BY NextCounts
<1>2. QED
  BY <1>1, InitCounts, RelayInvariant, PTL DEF Spec

Limited == liveN <= LiveLimit /\ \A ip \in Source : live[ip] <= LivePerIPLimit

\* The open connections past admission stay within both live limits.
THEOREM OpenBounded == Spec => []OpenWithinLimits
<1>1. Init => Limited
  BY RelayAssumption DEF Init, Limited, RelayAssumption
<1>2. ASSUME RelayInv, Limited, [Next]_vars PROVE Limited'
  <2>1. ASSUME NEW c \in Conn, Admit(c) PROVE Limited'
    BY <1>2, <2>1, RelayAssumption, HelloType
       DEF RelayAssumption, Admit, MayAdmit, Limited, RelayInv, TypeOK
  <2>2. ASSUME NEW c \in Conn, Release(c) PROVE Limited'
    BY <1>2, <2>2, RelayAssumption, HelloType
       DEF RelayAssumption, Release, Fewer, Limited, RelayInv, TypeOK
  <2>3. CASE \A c \in Conn : ~Admit(c) /\ ~Release(c)
    BY <1>2, <2>3, CountOther DEF Limited
  <2>4. QED
    BY <2>1, <2>2, <2>3
<1>3. ASSUME RelayInv, CountsExact, Limited PROVE OpenWithinLimits
  <2> DEFINE open == {c \in alive : ~At(c, "admit")}
             from(ip) == {c \in open : SourceOf[c] = ip}
  <2>1. open \subseteq Admitted /\ \A ip \in Source : from(ip) \subseteq AdmittedFrom(ip)
    BY <1>3 DEF RelayInv, TypeOK, ClosedOK, Admitted, AdmittedFrom, At
  <2>2. ASSUME NEW S, NEW T, S \subseteq Conn, T \subseteq S, NEW n \in Nat, Cardinality(S) <= n
        PROVE  Cardinality(T) <= n
    BY <2>2, FS_Subset, FiniteSubset
  <2>3. Cardinality(open) <= LiveLimit
    <3>1. Admitted \subseteq Conn /\ LiveLimit \in Nat /\ Cardinality(Admitted) <= LiveLimit
      BY <1>3, RelayAssumption DEF Admitted, CountsExact, Limited, RelayAssumption
    <3>2. QED
      BY <2>1, <2>2, <3>1
  <2>4. ASSUME NEW ip \in Source PROVE Cardinality(from(ip)) <= LivePerIPLimit
    <3>1. /\ AdmittedFrom(ip) \subseteq Conn /\ LivePerIPLimit \in Nat
          /\ Cardinality(AdmittedFrom(ip)) <= LivePerIPLimit
      BY <1>3, RelayAssumption
         DEF Admitted, AdmittedFrom, CountsExact, Limited, RelayAssumption
    <3>2. QED
      BY <2>1, <2>2, <3>1
  <2>5. QED
    BY <2>1, <2>3, <2>4 DEF OpenWithinLimits
<1>4. QED
  BY <1>1, <1>2, <1>3, RelayInvariant, AdmissionExact, PTL DEF Spec

=============================================================================
