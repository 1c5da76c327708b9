-------------------------- MODULE SessionStoreProofs --------------------------
EXTENDS SessionStore, TLAPS

LEMMA SecondType ==
  ASSUME NEW t \in Nat
  PROVE  UnixSecond(t) \in Nat /\ UnixSecond(t) <= t
BY StoreAssumption DEF StoreAssumption, UnixSecond

LEMMA RefreshBounds ==
  ASSUME NEW s \in Session, NEW t \in Nat
  PROVE  /\ RefreshExpiry(s, t) \in Nat
         /\ RefreshExpiry(s, t) <= t + TTL
         /\ RefreshExpiry(s, t) <= AbsoluteExpiry(s)
         /\ t < AbsoluteExpiry(s) => t < RefreshExpiry(s, t)
BY StoreAssumption
   DEF StoreAssumption, Session, RefreshExpiry, Earlier, AbsoluteExpiry

LEMMA RequestType ==
  ASSUME NEW q \in Request
  PROVE  /\ q.op \in Op /\ q.code \in Code /\ q.role \in Role
         /\ q.cap \in Capability /\ q.msg \in Msg
         /\ Peer(q.role) \in Role /\ Peer(q.role) # q.role
         /\ q # NoRequest /\ Letter(q) \in Envelope
BY StoreAssumption DEF StoreAssumption, Role, Peer, Letter, Envelope

LEMMA NewSessionType ==
  ASSUME NEW t \in Nat, NEW c \in Capability
  PROVE  NewSession(t, c) \in Session
BY DEF NewSession, Session, Role, Envelope

LEMMA QueueUpdate ==
  ASSUME NEW s \in Session, NEW r \in Role, NEW queue \in Seq(Envelope)
  PROVE  /\ [s EXCEPT !.pending[r] = queue] \in Session
         /\ [s EXCEPT !.pending[r] = queue].created = s.created
         /\ [s EXCEPT !.pending[r] = queue].lease = s.lease
BY DEF Session

LEMMA MutatedType ==
  ASSUME NEW s \in Session, NEW q \in Request, q.op # "peek", Accepts(s, q)
  PROVE  /\ Mutated(s, q) \in Session
         /\ Mutated(s, q).created = s.created
         /\ Mutated(s, q).lease = s.lease
<1>1. CASE q.op = "claim"
  BY <1>1, RequestType DEF Mutated, Session
<1>2. CASE q.op = "publish"
  BY <1>2, RequestType DEF Mutated, Session
<1>3. CASE q.op = "report"
  BY <1>3, RequestType DEF Mutated, Session
<1>4. CASE q.op = "enqueue"
  <2>1. PICK r \in Role : r = Peer(q.role)
    BY RequestType
  <2>2. Append(s.pending[r], Letter(q)) \in Seq(Envelope)
    BY RequestType DEF Session
  <2>3. Mutated(s, q) = [s EXCEPT !.pending[r] = Append(s.pending[r], Letter(q))]
    BY <1>4, <2>1 DEF Mutated
  <2>4. QED
    BY <2>2, <2>3, QueueUpdate
<1>5. CASE q.op = "dequeue"
  <2>1. s.pending[q.role] # <<>>
    BY <1>5 DEF Accepts, MayDequeue
  <2>2. Tail(s.pending[q.role]) \in Seq(Envelope)
    BY <2>1, RequestType DEF Session
  <2>3. QED
    BY <1>5, <2>2, RequestType DEF Mutated, Session
<1>6. QED
  BY <1>1, <1>2, <1>3, <1>4, <1>5, RequestType DEF Op

-----------------------------------------------------------------------------
LEMMA InitStoreInv == Init => StoreInv
<1>1. SUFFICES ASSUME Init PROVE StoreInv
  OBVIOUS
<1>2. TypeOK
  <2>1. now \in Nat /\ store \in [Code -> Session \cup {NoSession}]
    BY <1>1, StoreAssumption DEF Init, StoreAssumption
  <2>2. index \in [Code -> Nat] /\ draining \in BOOLEAN
    BY <1>1 DEF Init, NotIndexed
  <2>3. watching \in [Code -> SUBSET Worker] /\ pc \in [Worker -> Phase]
    BY <1>1 DEF Init, Phase
  <2>4. /\ req \in [Worker -> Request \cup {NoRequest}]
        /\ snap \in [Worker -> Session \cup {NoSession}]
    BY <1>1 DEF Init
  <2>5. /\ acked \in [Code -> [Role -> SUBSET Capability]]
        /\ sent \in [Code -> [Role -> Seq(Envelope)]]
        /\ got \in [Code -> [Role -> Seq(Envelope)]]
    BY <1>1 DEF Init
  <2>6. QED
    BY <2>1, <2>2, <2>3, <2>4, <2>5 DEF TypeOK
<1>3. WorkerOK
  BY <1>1 DEF Init, WorkerOK, Carries
<1>4. WatchOK /\ LeaseOK /\ IndexCoversActive
  BY <1>1 DEF Init, WatchOK, LeaseOK, IndexCoversActive, Active, Exists
<1>5. QED
  BY <1>2, <1>3, <1>4 DEF StoreInv

-----------------------------------------------------------------------------
\* Framing: what a step of one worker leaves as it was

Moves(w, phase, q, s) ==
  /\ pc' = [pc EXCEPT ![w] = phase]
  /\ req' = [req EXCEPT ![w] = q]
  /\ snap' = [snap EXCEPT ![w] = s]

LocalTypeOK ==
  /\ pc \in [Worker -> Phase]
  /\ req \in [Worker -> Request \cup {NoRequest}]
  /\ snap \in [Worker -> Session \cup {NoSession}]

LEMMA CarriesOn ==
  ASSUME NEW phase, NEW q, NEW s, NEW t \in Nat, NEW u \in Nat, t <= u,
         Carries(phase, q, s, t)
  PROVE  Carries(phase, q, s, u)
<1>1. CASE phase = "create"
  BY <1>1, StoreAssumption DEF Carries, Session, StoreAssumption
<1>2. CASE phase = "exec"
  BY <1>2, StoreAssumption DEF Carries, Session, StoreAssumption
<1>3. CASE phase \notin {"create", "exec"}
  BY <1>3 DEF Carries
<1>4. QED
  BY <1>1, <1>2, <1>3

LEMMA MoveLocal ==
  ASSUME StoreInv, NEW w \in Worker,
         NEW phase \in Phase, NEW q \in Request \cup {NoRequest},
         NEW s \in Session \cup {NoSession}, Moves(w, phase, q, s),
         now' = now, Carries(phase, q, s, now)
  PROVE  LocalTypeOK' /\ WorkerOK'
<1>1. LocalTypeOK'
  BY DEF StoreInv, TypeOK, LocalTypeOK, Moves
<1>2. WorkerOK'
  <2>1. SUFFICES ASSUME NEW v \in Worker
                 PROVE  Carries(pc'[v], req'[v], snap'[v], now)
    BY DEF WorkerOK
  <2>2. CASE v = w
    BY <2>2 DEF Moves, StoreInv, TypeOK
  <2>3. CASE v # w
    BY <2>3 DEF Moves, StoreInv, TypeOK, WorkerOK
  <2>4. QED
    BY <2>2, <2>3
<1>3. QED
  BY <1>1, <1>2

LEMMA FinishMove ==
  ASSUME StoreInv, NEW w \in Worker, Finish(w)
  PROVE  /\ Moves(w, "idle", NoRequest, NoSession)
         /\ now' = now => LocalTypeOK' /\ WorkerOK'
<1>1. Moves(w, "idle", NoRequest, NoSession)
  BY DEF Finish, Goto, Moves
<1>2. Carries("idle", NoRequest, NoSession, now)
  BY DEF Carries
<1>3. "idle" \in Phase
  BY DEF Phase
<1>4. QED
  BY <1>1, <1>2, <1>3, MoveLocal

LEMMA RetryMove ==
  ASSUME StoreInv, NEW w \in Worker, Retry(w), req[w] \in Request, req[w].op # "peek"
  PROVE  /\ Moves(w, "fetch", req[w], NoSession)
         /\ now' = now => LocalTypeOK' /\ WorkerOK'
<1>1. Moves(w, "fetch", req[w], NoSession)
  BY DEF Retry, Goto, Moves, StoreInv, TypeOK
<1>2. Carries("fetch", req[w], NoSession, now)
  BY DEF Carries
<1>3. "fetch" \in Phase
  BY DEF Phase
<1>4. QED
  BY <1>1, <1>2, <1>3, MoveLocal

\* The watches that survive a step of w are other workers', on keys it left.
LEMMA KeepWatches ==
  ASSUME StoreInv, NEW w \in Worker, NEW phase, NEW q, NEW s, Moves(w, phase, q, s),
         \A k \in Code : /\ watching'[k] \subseteq watching[k] \ {w}
                         /\ watching'[k] # {} => store'[k] = store[k]
  PROVE  WatchOK'
<1>1. SUFFICES ASSUME NEW k \in Code, NEW v \in watching'[k]
               PROVE  /\ pc'[v] \in {"decide", "exec", "remove"}
                      /\ req'[v].code = k
                      /\ store'[k] # NoSession
                      /\ SameValue(snap'[v], store'[k])
                      /\ pc'[v] = "exec" => store'[k].lease <= snap'[v].lease
  BY DEF WatchOK, Exists
<1>2. v \in watching[k] /\ v \in Worker /\ v # w /\ store'[k] = store[k]
  BY <1>1 DEF StoreInv, TypeOK
<1>3. pc'[v] = pc[v] /\ req'[v] = req[v] /\ snap'[v] = snap[v]
  BY <1>2 DEF Moves, StoreInv, TypeOK
<1>4. QED
  BY <1>2, <1>3 DEF StoreInv, WatchOK, Exists

LEMMA SameRedis ==
  ASSUME StoreInv, UNCHANGED <<now, store, index>>
  PROVE  LeaseOK' /\ IndexCoversActive'
BY DEF StoreInv, LeaseOK, IndexCoversActive, Active, Exists

\* Only workers past their WATCH are watching.
LEMMA NotWatching ==
  ASSUME StoreInv, NEW w \in Worker, pc[w] \notin {"decide", "exec", "remove"},
         NEW k \in Code
  PROVE  w \notin watching[k]
BY DEF StoreInv, WatchOK

LEMMA WatchesOwnKey ==
  ASSUME StoreInv, NEW w \in Worker, NEW k \in Code, w \in watching[k]
  PROVE  /\ req[w].code = k /\ Exists(k) /\ SameValue(snap[w], store[k])
         /\ pc[w] \in {"decide", "exec", "remove"}
BY DEF StoreInv, WatchOK

RedisTypeOK ==
  /\ now \in Nat
  /\ store \in [Code -> Session \cup {NoSession}]
  /\ index \in [Code -> Nat]
  /\ draining \in BOOLEAN
  /\ watching \in [Code -> SUBSET Worker]

HistoryTypeOK ==
  /\ acked \in [Code -> [Role -> SUBSET Capability]]
  /\ sent \in [Code -> [Role -> Seq(Envelope)]]
  /\ got \in [Code -> [Role -> Seq(Envelope)]]

LEMMA TypeParts == TypeOK <=> RedisTypeOK /\ LocalTypeOK /\ HistoryTypeOK
BY DEF TypeOK, RedisTypeOK, LocalTypeOK, HistoryTypeOK

\* A step of w that leaves the sessions, the index and the histories alone and
\* ends any watch of w keeps the invariant.
LEMMA QuietMove ==
  ASSUME StoreInv, NEW w \in Worker, NEW phase, NEW q, NEW s, Moves(w, phase, q, s),
         LocalTypeOK', WorkerOK', UNCHANGED <<now, store, index, draining, history>>,
         watching' \in [Code -> SUBSET Worker],
         \A k \in Code : watching'[k] \subseteq watching[k] \ {w}
  PROVE  StoreInv'
<1>1. RedisTypeOK'
  BY DEF StoreInv, TypeOK, RedisTypeOK
<1>2. HistoryTypeOK'
  BY DEF StoreInv, TypeOK, HistoryTypeOK, history
<1>3. WatchOK'
  BY KeepWatches
<1>4. LeaseOK' /\ IndexCoversActive'
  BY SameRedis
<1>5. TypeOK'
  BY <1>1, <1>2 DEF TypeOK, RedisTypeOK, LocalTypeOK, HistoryTypeOK
<1>6. QED
  BY <1>3, <1>4, <1>5 DEF StoreInv

\* The same when w was not watching and no watch changes.
LEMMA IdleMove ==
  ASSUME StoreInv, NEW w \in Worker, NEW phase, NEW q, NEW s, Moves(w, phase, q, s),
         LocalTypeOK', WorkerOK', UNCHANGED <<redis, history>>,
         \A k \in Code : w \notin watching[k]
  PROVE  StoreInv'
<1>1. /\ UNCHANGED <<now, store, index, draining, history>>
      /\ watching' = watching /\ watching \in [Code -> SUBSET Worker]
  BY DEF redis, StoreInv, TypeOK
<1>2. \A k \in Code : watching'[k] \subseteq watching[k] \ {w}
  BY <1>1
<1>3. QED
  BY <1>1, <1>2, QuietMove

LEMMA Serving ==
  ASSUME StoreInv, NEW w \in Worker, pc[w] # "idle"
  PROVE  /\ req[w] \in Request /\ req[w].code \in Code
         /\ Carries(pc[w], req[w], snap[w], now)
BY RequestType DEF StoreInv, WorkerOK, Carries

-----------------------------------------------------------------------------
\* The invariant, action by action

LEMMA BeginStep ==
  ASSUME StoreInv, NEW w \in Worker, NEW q \in Request, Begin(w, q)
  PROVE  StoreInv'
<1>1. Moves(w, FirstPhase(q), q, snap[w])
  BY DEF Begin, Moves, Goto, StoreInv, TypeOK
<1>2. FirstPhase(q) \in Phase /\ snap[w] \in Session \cup {NoSession}
  BY DEF FirstPhase, Phase, StoreInv, TypeOK
<1>3. Carries(FirstPhase(q), q, snap[w], now)
  BY DEF FirstPhase, Carries
<1>4. LocalTypeOK' /\ WorkerOK'
  BY <1>1, <1>2, <1>3, MoveLocal DEF Begin, redis
<1>5. \A k \in Code : w \notin watching[k]
  BY NotWatching DEF Begin, At
<1>6. QED
  BY <1>1, <1>4, <1>5, IdleMove DEF Begin

LEMMA ReadControlStep ==
  ASSUME StoreInv, NEW w \in Worker, ReadControl(w)
  PROVE  StoreInv'
<1>1. \A k \in Code : w \notin watching[k]
  BY NotWatching DEF ReadControl, At
<1>2. CASE Finish(w)
  BY <1>1, <1>2, FinishMove, IdleMove DEF ReadControl, redis
<1>3. CASE Goto(w, "time") /\ UNCHANGED <<req, snap>>
  <2>1. Moves(w, "time", req[w], snap[w])
    BY <1>3 DEF Moves, Goto, StoreInv, TypeOK
  <2>2. /\ "time" \in Phase /\ req[w] \in Request \cup {NoRequest}
        /\ snap[w] \in Session \cup {NoSession}
    BY DEF Phase, StoreInv, TypeOK
  <2>3. Carries("time", req[w], snap[w], now)
    BY Serving DEF ReadControl, At, Carries
  <2>4. LocalTypeOK' /\ WorkerOK'
    BY <2>1, <2>2, <2>3, MoveLocal DEF ReadControl, redis
  <2>5. QED
    BY <1>1, <2>1, <2>4, IdleMove DEF ReadControl
<1>4. QED
  BY <1>2, <1>3 DEF ReadControl

LEMMA ReadTimeStep ==
  ASSUME StoreInv, NEW w \in Worker, ReadTime(w)
  PROVE  StoreInv'
<1> DEFINE s == NewSession(UnixSecond(now), req[w].cap)
<1>1. req[w] \in Request /\ req[w].op # "peek" /\ now \in Nat
  BY Serving DEF ReadTime, At, Carries, StoreInv, TypeOK
<1>2. s \in Session /\ s.created <= now
  BY <1>1, SecondType, NewSessionType, RequestType DEF NewSession
<1>3. Moves(w, "create", req[w], s)
  BY DEF ReadTime, Moves, Goto, StoreInv, TypeOK
<1>4. "create" \in Phase /\ Carries("create", req[w], s, now)
  BY <1>1, <1>2 DEF Phase, Carries
<1>5. LocalTypeOK' /\ WorkerOK'
  BY <1>1, <1>2, <1>3, <1>4, MoveLocal DEF ReadTime, redis
<1>6. \A k \in Code : w \notin watching[k]
  BY NotWatching DEF ReadTime, At
<1>7. QED
  BY <1>3, <1>5, <1>6, IdleMove DEF ReadTime

LEMMA CreateExistsStep ==
  ASSUME StoreInv, NEW w \in Worker, CreateExists(w)
  PROVE  StoreInv'
<1>1. \A k \in Code : w \notin watching[k]
  BY NotWatching DEF CreateExists, At
<1>2. req[w] \in Request /\ snap[w] \in Session
  BY Serving DEF CreateExists, At, Carries
<1>3. req[w].op # "peek"
  BY Serving DEF CreateExists, At, Carries
<1>4. QED
  BY <1>1, <1>2, <1>3, RetryMove, IdleMove DEF CreateExists, redis

LEMMA FetchMissingStep ==
  ASSUME StoreInv, NEW w \in Worker, FetchMissing(w)
  PROVE  StoreInv'
<1>1. \A k \in Code : w \notin watching[k]
  BY NotWatching DEF FetchMissing, At
<1>2. QED
  BY <1>1, FinishMove, IdleMove DEF FetchMissing, redis

LEMMA LoadFreshStep ==
  ASSUME StoreInv, NEW w \in Worker, LoadFresh(w)
  PROVE  StoreInv'
<1>1. \A k \in Code : w \notin watching[k]
  BY NotWatching DEF LoadFresh, At
<1>2. QED
  BY <1>1, FinishMove, IdleMove DEF LoadFresh, redis

LEMMA LoadStaleStep ==
  ASSUME StoreInv, NEW w \in Worker, LoadStale(w)
  PROVE  StoreInv'
<1> DEFINE s == store[req[w].code]
<1>1. \A k \in Code : w \notin watching[k]
  BY NotWatching DEF LoadStale, At
<1>2. req[w] \in Request /\ req[w].code \in Code
  BY Serving DEF LoadStale, At
<1>3. s \in Session
  BY <1>2 DEF LoadStale, Exists, StoreInv, TypeOK
<1>4. Moves(w, "evict", req[w], s)
  BY DEF LoadStale, Moves, Goto, StoreInv, TypeOK
<1>5. "evict" \in Phase /\ Carries("evict", req[w], s, now)
  BY <1>2, <1>3 DEF Phase, Carries
<1>6. LocalTypeOK' /\ WorkerOK'
  BY <1>2, <1>3, <1>4, <1>5, MoveLocal DEF LoadStale, redis
<1>7. QED
  BY <1>1, <1>4, <1>6, IdleMove DEF LoadStale

LEMMA TxFailedStep ==
  ASSUME StoreInv, NEW w \in Worker, TxFailed(w)
  PROVE  StoreInv'
<1>1. \A k \in Code : w \notin watching[k]
  BY WatchesOwnKey DEF TxFailed, Clean
<1>2. req[w] \in Request /\ req[w].op # "peek"
  BY Serving DEF TxFailed, Carries
<1>3. QED
  BY <1>1, <1>2, RetryMove, IdleMove DEF TxFailed, redis

LEMMA DecideRejectStep ==
  ASSUME StoreInv, NEW w \in Worker, DecideReject(w)
  PROVE  StoreInv'
<1>1. req[w] \in Request /\ req[w].code \in Code /\ req[w].op # "peek"
  BY Serving DEF DecideReject, At, Carries
<1>2. /\ watching' \in [Code -> SUBSET Worker]
      /\ \A k \in Code : watching'[k] \subseteq watching[k] \ {w}
  BY <1>1, WatchesOwnKey DEF DecideReject, Unwatch, StoreInv, TypeOK
<1>3. CASE Finish(w)
  BY <1>2, <1>3, FinishMove, QuietMove DEF DecideReject
<1>4. CASE Retry(w)
  BY <1>1, <1>2, <1>4, RetryMove, QuietMove DEF DecideReject
<1>5. QED
  BY <1>3, <1>4 DEF DecideReject

\* A step of w past its WATCH that leaves every watch and session as it was.
LEMMA WatchingMove ==
  ASSUME StoreInv, NEW w \in Worker, NEW phase \in {"remove", "exec"},
         NEW s \in Session, pc[w] = "decide",
         Moves(w, phase, req[w], s), UNCHANGED <<redis, history>>,
         SameValue(s, snap[w]), Carries(phase, req[w], s, now),
         phase = "exec" => \A k \in Code :
           w \in watching[k] => store[k].lease <= s.lease
  PROVE  StoreInv'
<1>1. UNCHANGED <<now, store, index, draining, watching, acked, sent, got>>
  BY DEF redis, history
<1>2. LocalTypeOK' /\ WorkerOK'
  BY <1>1, MoveLocal DEF Phase, StoreInv, TypeOK
<1>3. TypeOK'
  BY <1>1, <1>2 DEF StoreInv, TypeOK, LocalTypeOK
<1>4. WatchOK'
  <2>1. SUFFICES ASSUME NEW k \in Code, NEW v \in watching[k]
                 PROVE  /\ pc'[v] \in {"decide", "exec", "remove"}
                        /\ req'[v].code = k
                        /\ store[k] # NoSession
                        /\ SameValue(snap'[v], store[k])
                        /\ pc'[v] = "exec" => store[k].lease <= snap'[v].lease
    BY <1>1 DEF WatchOK, Exists, SameValue
  <2>2. v \in Worker
    BY DEF StoreInv, TypeOK
  <2>3. CASE v = w
    <3>1. pc'[v] = phase /\ req'[v] = req[v] /\ snap'[v] = s
      BY <2>2, <2>3 DEF Moves, StoreInv, TypeOK
    <3>2. req[w].code = k /\ Exists(k) /\ SameValue(snap[w], store[k])
      BY <2>3, WatchesOwnKey
    <3>3. SameValue(s, store[k])
      BY <3>2 DEF SameValue
    <3>4. QED
      BY <2>3, <3>1, <3>2, <3>3 DEF Exists
  <2>4. CASE v # w
    <3>1. pc'[v] = pc[v] /\ req'[v] = req[v] /\ snap'[v] = snap[v]
      BY <2>2, <2>4 DEF Moves, StoreInv, TypeOK
    <3>2. QED
      BY <3>1 DEF StoreInv, WatchOK, Exists
  <2>5. QED
    BY <2>3, <2>4
<1>5. LeaseOK' /\ IndexCoversActive'
  BY <1>1, SameRedis
<1>6. QED
  BY <1>2, <1>3, <1>4, <1>5 DEF StoreInv

LEMMA DecideStaleStep ==
  ASSUME StoreInv, NEW w \in Worker, DecideStale(w)
  PROVE  StoreInv'
<1>1. /\ req[w] \in Request /\ snap[w] \in Session
      /\ Carries("remove", req[w], snap[w], now)
  BY Serving DEF DecideStale, At, Carries
<1>2. Moves(w, "remove", req[w], snap[w])
  BY DEF DecideStale, Moves, Goto, StoreInv, TypeOK
<1>3. QED
  BY <1>1, <1>2, WatchingMove DEF DecideStale, At, SameValue

\* A refreshed lease covers the one in force, which no clock reading was ahead of.
LEMMA RefreshCovers ==
  ASSUME StoreInv, NEW k \in Code, Exists(k)
  PROVE  store[k].lease <= RefreshExpiry(store[k], now)
BY StoreAssumption
   DEF StoreInv, LeaseOK, TypeOK, RefreshExpiry, Earlier, Exists, AbsoluteExpiry,
       StoreAssumption, Session

LEMMA SameRefresh ==
  ASSUME NEW s \in Session, NEW u \in Session, SameValue(s, u), NEW t
  PROVE  RefreshExpiry(s, t) = RefreshExpiry(u, t)
<1>1. s.created = u.created
  BY DEF SameValue, Session
<1>2. QED
  BY <1>1 DEF RefreshExpiry, AbsoluteExpiry

LEMMA DecideAcceptStep ==
  ASSUME StoreInv, NEW w \in Worker, DecideAccept(w)
  PROVE  StoreInv'
<1> DEFINE e == RefreshExpiry(snap[w], now)
           s == [snap[w] EXCEPT !.lease = e]
<1>1. /\ req[w] \in Request /\ req[w].op # "peek" /\ snap[w] \in Session
      /\ now \in Nat /\ pc[w] = "decide"
  BY Serving DEF DecideAccept, At, Carries, StoreInv, TypeOK
<1>2. /\ e \in Nat /\ e <= now + TTL /\ e <= AbsoluteExpiry(snap[w])
  BY <1>1, RefreshBounds
<1>3. s \in Session /\ SameValue(s, snap[w]) /\ s.lease = e
  BY <1>1, <1>2 DEF Session, SameValue
<1>4. AbsoluteExpiry(s) = AbsoluteExpiry(snap[w])
  BY <1>1 DEF AbsoluteExpiry, Session
<1>5. Accepts(s, req[w])
  BY <1>1 DEF DecideAccept, Accepts, MayClaim, MayEnqueue, MayDequeue, Authenticates,
              PendingBytes, Session
<1>6. Carries("exec", req[w], s, now)
  BY <1>1, <1>2, <1>3, <1>4, <1>5 DEF Carries
<1>7. Moves(w, "exec", req[w], s)
  BY <1>1 DEF DecideAccept, Moves, Goto, StoreInv, TypeOK
<1>8. ASSUME NEW k \in Code, w \in watching[k]
      PROVE  store[k].lease <= s.lease
  <2>1. Exists(k) /\ SameValue(snap[w], store[k])
    BY <1>8, WatchesOwnKey
  <2>2. store[k] \in Session
    BY <2>1 DEF Exists, StoreInv, TypeOK
  <2>3. e = RefreshExpiry(store[k], now)
    BY <1>1, <2>1, <2>2, SameRefresh
  <2>4. QED
    BY <1>3, <2>1, <2>3, RefreshCovers
<1>9. QED
  BY <1>1, <1>3, <1>6, <1>7, <1>8, WatchingMove DEF DecideAccept

LEMMA FetchStep ==
  ASSUME StoreInv, NEW w \in Worker, Fetch(w)
  PROVE  StoreInv'
<1> DEFINE q == req[w]
           s == store[q.code]
<1>1. /\ q \in Request /\ q.op # "peek" /\ q.code \in Code
      /\ pc[w] = "fetch"
  BY Serving DEF Fetch, At, Carries
<1>2. s \in Session
  BY <1>1 DEF Fetch, Exists, StoreInv, TypeOK
<1>3. Moves(w, "decide", q, s)
  BY <1>1 DEF Fetch, Moves, Goto, StoreInv, TypeOK
<1>4. "decide" \in Phase /\ Carries("decide", q, s, now)
  BY <1>1, <1>2 DEF Phase, Carries
<1>5. UNCHANGED <<now, store, index, draining, acked, sent, got>>
  BY DEF Fetch, history
<1>6. LocalTypeOK' /\ WorkerOK'
  BY <1>1, <1>2, <1>3, <1>4, <1>5, MoveLocal
<1>7. TypeOK'
  <2>1. watching' \in [Code -> SUBSET Worker]
    BY <1>1 DEF Fetch, StoreInv, TypeOK
  <2>2. QED
    BY <1>5, <1>6, <2>1 DEF StoreInv, TypeOK, LocalTypeOK
<1>8. WatchOK'
  <2>1. SUFFICES ASSUME NEW k \in Code, NEW v \in watching'[k]
                 PROVE  /\ pc'[v] \in {"decide", "exec", "remove"}
                        /\ req'[v].code = k
                        /\ store[k] # NoSession
                        /\ SameValue(snap'[v], store[k])
                        /\ pc'[v] = "exec" => store[k].lease <= snap'[v].lease
    BY <1>5 DEF WatchOK, Exists, SameValue
  <2>2. v \in Worker
    BY <1>7 DEF TypeOK
  <2>3. CASE v = w
    <3>1. k = q.code
      <4>1. w \notin watching[k]
        BY <1>1, NotWatching
      <4>2. QED
        BY <2>3, <4>1 DEF Fetch, StoreInv, TypeOK
    <3>2. pc'[v] = "decide" /\ req'[v] = q /\ snap'[v] = s
      BY <1>3, <2>2, <2>3 DEF Moves, StoreInv, TypeOK
    <3>3. QED
      BY <3>1, <3>2 DEF Fetch, Exists, SameValue
  <2>4. CASE v # w
    <3>1. pc'[v] = pc[v] /\ req'[v] = req[v] /\ snap'[v] = snap[v]
      BY <1>3, <2>2, <2>4 DEF Moves, StoreInv, TypeOK
    <3>2. v \in watching[k]
      BY <2>4 DEF Fetch, StoreInv, TypeOK
    <3>3. QED
      BY <3>1, <3>2 DEF StoreInv, WatchOK, Exists
  <2>5. QED
    BY <2>3, <2>4
<1>9. QED
  BY <1>5, <1>6, <1>7, <1>8, SameRedis DEF StoreInv

-----------------------------------------------------------------------------
\* Steps that change the sessions or the index

LEMMA DeleteKeeps ==
  ASSUME StoreInv, NEW k \in Code, Delete(k), now' = now, draining' = draining
  PROVE  RedisTypeOK' /\ LeaseOK' /\ IndexCoversActive'
<1>1. RedisTypeOK'
  BY DEF Delete, StoreInv, TypeOK, RedisTypeOK, NotIndexed
<1>2. ASSUME NEW j \in Code, Exists(j)'
      PROVE  j # k /\ store'[j] = store[j] /\ index'[j] = index[j] /\ Exists(j)
  BY <1>2 DEF Delete, Exists, StoreInv, TypeOK
<1>3. LeaseOK'
  BY <1>2 DEF StoreInv, LeaseOK, AbsoluteExpiry
<1>4. IndexCoversActive'
  BY <1>2 DEF StoreInv, IndexCoversActive, Active
<1>5. QED
  BY <1>1, <1>3, <1>4

LEMMA TerminateStep ==
  ASSUME StoreInv, NEW k \in Code, Terminate(k)
  PROVE  StoreInv'
<1>1. Delete(k) /\ UNCHANGED <<now, draining, pc, req, snap, acked, sent, got>>
  BY DEF Terminate, local, history
<1>2. RedisTypeOK' /\ LeaseOK' /\ IndexCoversActive'
  BY <1>1, DeleteKeeps
<1>3. TypeOK'
  BY <1>1, <1>2 DEF StoreInv, TypeOK, RedisTypeOK
<1>4. WorkerOK'
  BY <1>1 DEF StoreInv, WorkerOK
<1>5. WatchOK'
  <2>1. SUFFICES ASSUME NEW j \in Code, NEW v \in watching'[j]
                 PROVE  /\ v \in watching[j] /\ store'[j] = store[j]
    BY <1>1 DEF StoreInv, WatchOK, Exists, SameValue
  <2>2. QED
    BY <1>1 DEF Delete, StoreInv, TypeOK, WatchOK
<1>6. QED
  BY <1>2, <1>3, <1>4, <1>5 DEF StoreInv

LEMMA SetDrainingStep ==
  ASSUME StoreInv, SetDraining
  PROVE  StoreInv'
<1>1. UNCHANGED <<now, store, index, watching, pc, req, snap, acked, sent, got>>
  BY DEF SetDraining, local, history
<1>2. TypeOK'
  BY <1>1 DEF SetDraining, StoreInv, TypeOK
<1>3. WorkerOK' /\ WatchOK'
  BY <1>1 DEF StoreInv, WorkerOK, WatchOK, Exists, SameValue
<1>4. QED
  BY <1>1, <1>2, <1>3, SameRedis DEF StoreInv

LEMMA RemoveWatchedStep ==
  ASSUME StoreInv, NEW w \in Worker, RemoveWatched(w)
  PROVE  StoreInv'
<1> DEFINE k == req[w].code
<1>1. k \in Code
  BY Serving DEF RemoveWatched, At
<1>2. Delete(k) /\ Finish(w) /\ UNCHANGED <<now, draining, acked, sent, got>>
  BY DEF RemoveWatched, history
<1>3. RedisTypeOK' /\ LeaseOK' /\ IndexCoversActive'
  BY <1>1, <1>2, DeleteKeeps
<1>4. LocalTypeOK' /\ WorkerOK' /\ Moves(w, "idle", NoRequest, NoSession)
  BY <1>2, FinishMove
<1>5. WatchOK'
  <2>1. ASSUME NEW j \in Code
        PROVE  /\ watching'[j] \subseteq watching[j] \ {w}
               /\ watching'[j] # {} => store'[j] = store[j]
    <3>1. CASE j = k
      BY <1>1, <1>2, <3>1 DEF Delete, StoreInv, TypeOK, WatchOK
    <3>2. CASE j # k
      BY <1>1, <1>2, <3>2, WatchesOwnKey DEF Delete, StoreInv, TypeOK
    <3>3. QED
      BY <3>1, <3>2
  <2>2. QED
    BY <1>4, <2>1, KeepWatches
<1>6. TypeOK'
  BY <1>2, <1>3, <1>4 DEF StoreInv, TypeOK, RedisTypeOK, LocalTypeOK
<1>7. QED
  BY <1>3, <1>4, <1>5, <1>6 DEF StoreInv

LEMMA EvictStep ==
  ASSUME StoreInv, NEW w \in Worker, Evict(w)
  PROVE  StoreInv'
<1> DEFINE k == req[w].code
<1>1. k \in Code
  BY Serving DEF Evict, At
<1>2. /\ Finish(w) /\ UNCHANGED <<now, draining, acked, sent, got>>
      /\ \A j \in Code : w \notin watching[j]
  BY NotWatching DEF Evict, At, history
<1>3. LocalTypeOK' /\ WorkerOK' /\ Moves(w, "idle", NoRequest, NoSession)
  BY <1>2, FinishMove
<1>4. CASE Delete(k)
  <2>1. RedisTypeOK' /\ LeaseOK' /\ IndexCoversActive'
    BY <1>1, <1>2, <1>4, DeleteKeeps
  <2>2. ASSUME NEW j \in Code
        PROVE  /\ watching'[j] \subseteq watching[j] \ {w}
               /\ watching'[j] # {} => store'[j] = store[j]
    <3>1. CASE j = k
      BY <1>1, <1>2, <1>4, <3>1 DEF Delete, StoreInv, TypeOK, WatchOK
    <3>2. CASE j # k
      BY <1>1, <1>2, <1>4, <3>2 DEF Delete, StoreInv, TypeOK
    <3>3. QED
      BY <3>1, <3>2
  <2>3. WatchOK'
    BY <1>3, <2>2, KeepWatches
  <2>4. TypeOK'
    BY <1>2, <1>3, <2>1 DEF StoreInv, TypeOK, RedisTypeOK, LocalTypeOK
  <2>5. QED
    BY <1>3, <2>1, <2>3, <2>4 DEF StoreInv
<1>5. CASE UNCHANGED <<store, index, watching>>
  BY <1>2, <1>3, <1>5, IdleMove DEF redis, history
<1>6. QED
  BY <1>4, <1>5 DEF Evict

\* The purge drops only entries no unexpired session needs.
LEMMA PurgeKeeps ==
  ASSUME StoreInv, NEW k \in Active
  PROVE  Purged[k] = index[k]
BY DEF StoreInv, TypeOK, IndexCoversActive, Active, Purged, Exists, Session

LEMMA CreateRefusedStep ==
  ASSUME StoreInv, NEW w \in Worker, CreateRefused(w)
  PROVE  StoreInv'
<1>1. /\ UNCHANGED <<now, store, draining, watching, acked, sent, got>>
      /\ index' = Purged /\ Finish(w)
      /\ \A k \in Code : w \notin watching[k]
  BY NotWatching DEF CreateRefused, At, history
<1>2. LocalTypeOK' /\ WorkerOK' /\ Moves(w, "idle", NoRequest, NoSession)
  BY <1>1, FinishMove
<1>3. TypeOK'
  <2>1. index' \in [Code -> Nat]
    BY <1>1 DEF Purged, NotIndexed, StoreInv, TypeOK
  <2>2. QED
    BY <1>1, <1>2, <2>1 DEF StoreInv, TypeOK, LocalTypeOK
<1>4. WatchOK'
  BY <1>1, <1>2, KeepWatches
<1>5. LeaseOK'
  BY <1>1 DEF StoreInv, LeaseOK, Exists
<1>6. IndexCoversActive'
  <2>1. Active' = Active
    BY <1>1 DEF Active, Exists
  <2>2. QED
    BY <1>1, <2>1, PurgeKeeps DEF StoreInv, IndexCoversActive
<1>7. QED
  BY <1>2, <1>3, <1>4, <1>5, <1>6 DEF StoreInv

LEMMA CreateStep ==
  ASSUME StoreInv, NEW w \in Worker, Create(w)
  PROVE  StoreInv'
<1> DEFINE k == req[w].code
           e == RefreshExpiry(snap[w], now)
           s == [snap[w] EXCEPT !.lease = e]
<1>1. /\ k \in Code /\ req[w] \in Request /\ snap[w] \in Session /\ now \in Nat
      /\ req[w].cap \in Capability
  BY Serving, RequestType DEF Create, At, Carries, StoreInv, TypeOK
<1>2. /\ e \in Nat /\ e <= now + TTL /\ e <= AbsoluteExpiry(snap[w]) /\ now < e
  BY <1>1, RefreshBounds DEF Create
<1>3. /\ s \in Session /\ s.lease = e /\ AbsoluteExpiry(s) = AbsoluteExpiry(snap[w])
      /\ s # NoSession
  BY <1>1, <1>2, StoreAssumption DEF Session, AbsoluteExpiry, StoreAssumption
<1>4. /\ store' = [store EXCEPT ![k] = s] /\ index' = [Purged EXCEPT ![k] = e]
      /\ UNCHANGED <<now, draining, watching>> /\ Finish(w)
      /\ store[k] = NoSession
  BY DEF Create, Exists
<1>5. LocalTypeOK' /\ WorkerOK' /\ Moves(w, "idle", NoRequest, NoSession)
  BY <1>4, FinishMove
<1>6. RedisTypeOK'
  <2>1. index' \in [Code -> Nat]
    BY <1>2, <1>4 DEF Purged, NotIndexed, StoreInv, TypeOK
  <2>2. store' \in [Code -> Session \cup {NoSession}]
    BY <1>3, <1>4 DEF StoreInv, TypeOK
  <2>3. QED
    BY <1>4, <2>1, <2>2 DEF StoreInv, TypeOK, RedisTypeOK
<1>7. HistoryTypeOK'
  <2>1. acked' \in [Code -> [Role -> SUBSET Capability]]
    <3> DEFINE one == [r \in Role |-> IF r = "send" THEN {req[w].cap} ELSE {}]
    <3>1. one \in [Role -> SUBSET Capability]
      BY <1>1
    <3>2. acked' = [acked EXCEPT ![k] = one]
      BY DEF Create
    <3>3. QED
      BY <3>1, <3>2 DEF StoreInv, TypeOK
  <2>2. sent' \in [Code -> [Role -> Seq(Envelope)]] /\ got' \in [Code -> [Role -> Seq(Envelope)]]
    <3> DEFINE none == [r \in Role |-> <<>>]
    <3>1. none \in [Role -> Seq(Envelope)]
      OBVIOUS
    <3>2. sent' = [sent EXCEPT ![k] = none] /\ got' = [got EXCEPT ![k] = none]
      BY DEF Create
    <3> HIDE DEF none
    <3>3. QED
      BY <3>1, <3>2 DEF StoreInv, TypeOK
  <2>3. QED
    BY <2>1, <2>2 DEF HistoryTypeOK
<1>8. WatchOK'
  <2>1. ASSUME NEW j \in Code
        PROVE  /\ watching'[j] \subseteq watching[j] \ {w}
               /\ watching'[j] # {} => store'[j] = store[j]
    <3>1. w \notin watching[j]
      BY NotWatching DEF Create, At
    <3>2. CASE j = k
      BY <1>4, <3>1, <3>2 DEF StoreInv, WatchOK, Exists
    <3>3. CASE j # k
      BY <1>4, <3>1, <3>3 DEF StoreInv, TypeOK
    <3>4. QED
      BY <3>2, <3>3
  <2>2. QED
    BY <1>5, <2>1, KeepWatches
<1>9. LeaseOK'
  <2>1. SUFFICES ASSUME NEW j \in Code, store'[j] # NoSession
                 PROVE  /\ now <= store'[j].lease
                        /\ store'[j].lease <= now + TTL
                        /\ store'[j].lease <= AbsoluteExpiry(store'[j])
    BY <1>4 DEF LeaseOK, Exists, AbsoluteExpiry
  <2>2. CASE j = k
    BY <1>1, <1>2, <1>3, <1>4, <2>2 DEF StoreInv, TypeOK
  <2>3. CASE j # k
    BY <1>4, <2>1, <2>3 DEF StoreInv, TypeOK, LeaseOK, Exists
  <2>4. QED
    BY <2>2, <2>3
<1>10. IndexCoversActive'
  <2>1. SUFFICES ASSUME NEW j \in Code, store'[j] # NoSession, store'[j].lease > now
                 PROVE  index'[j] = store'[j].lease
    BY <1>4 DEF IndexCoversActive, Active, Exists
  <2>2. CASE j = k
    BY <1>1, <1>3, <1>4, <2>2 DEF StoreInv, TypeOK, Purged
  <2>3. CASE j # k
    <3>1. store'[j] = store[j] /\ j \in Active
      BY <1>4, <2>1, <2>3 DEF StoreInv, TypeOK, Active, Exists
    <3>2. index'[j] = Purged[j]
      BY <1>1, <1>4, <2>3 DEF Purged
    <3>3. QED
      BY <3>1, <3>2, PurgeKeeps DEF StoreInv, IndexCoversActive
  <2>4. QED
    BY <2>2, <2>3
<1>11. QED
  BY <1>5, <1>6, <1>7, <1>8, <1>9, <1>10, TypeParts
     DEF StoreInv, TypeOK, RedisTypeOK, LocalTypeOK, HistoryTypeOK

LEMMA HistoryUpdate ==
  ASSUME NEW f \in [Code -> [Role -> Seq(Envelope)]], NEW k \in Code,
         NEW r \in Role, NEW x \in Envelope
  PROVE  [f EXCEPT ![k][r] = Append(@, x)] \in [Code -> [Role -> Seq(Envelope)]]
<1>1. Append(f[k][r], x) \in Seq(Envelope)
  OBVIOUS
<1>2. [f[k] EXCEPT ![r] = Append(f[k][r], x)] \in [Role -> Seq(Envelope)]
  BY <1>1
<1>3. QED
  BY <1>2

LEMMA CommitHistory ==
  ASSUME StoreInv, NEW w \in Worker, Commit(w)
  PROVE  HistoryTypeOK'
<1> DEFINE q == req[w]
           k == q.code
           s == snap[w]
<1>1. /\ q \in Request /\ k \in Code /\ q.role \in Role /\ q.cap \in Capability
      /\ Letter(q) \in Envelope /\ s \in Session /\ Accepts(s, q)
  BY Serving, RequestType DEF Commit, At, Carries
<1>2. acked' \in [Code -> [Role -> SUBSET Capability]]
  <2>1. CASE q.op = "claim"
    BY <1>1, <2>1 DEF Commit, StoreInv, TypeOK
  <2>2. CASE q.op # "claim"
    BY <2>2 DEF Commit, StoreInv, TypeOK
  <2>3. QED
    BY <2>1, <2>2
<1>3. sent' \in [Code -> [Role -> Seq(Envelope)]]
  <2>1. CASE q.op = "enqueue"
    <3>1. PICK r \in Role : r = Peer(q.role)
      BY <1>1, RequestType
    <3>2. sent' = [sent EXCEPT ![k][r] = Append(@, Letter(q))]
      BY <2>1, <3>1 DEF Commit
    <3>3. QED
      BY <1>1, <3>2, HistoryUpdate DEF StoreInv, TypeOK
  <2>2. CASE q.op # "enqueue"
    BY <2>2 DEF Commit, StoreInv, TypeOK
  <2>3. QED
    BY <2>1, <2>2
<1>4. got' \in [Code -> [Role -> Seq(Envelope)]]
  <2>1. CASE q.op = "dequeue"
    <3>1. s.pending[q.role] \in Seq(Envelope) /\ s.pending[q.role] # <<>>
      BY <1>1, <2>1 DEF Accepts, MayDequeue, Session
    <3>2. PICK x \in Envelope : x = Head(s.pending[q.role])
      BY <3>1
    <3>3. got' = [got EXCEPT ![k][q.role] = Append(@, x)]
      BY <2>1, <3>2 DEF Commit
    <3>4. QED
      BY <1>1, <3>3, HistoryUpdate DEF StoreInv, TypeOK
  <2>2. CASE q.op # "dequeue"
    BY <2>2 DEF Commit, StoreInv, TypeOK
  <2>3. QED
    BY <2>1, <2>2
<1>5. QED
  BY <1>2, <1>3, <1>4 DEF HistoryTypeOK

LEMMA CommitStep ==
  ASSUME StoreInv, NEW w \in Worker, Commit(w)
  PROVE  StoreInv'
<1> DEFINE k == req[w].code
           m == Mutated(snap[w], req[w])
<1>1. /\ k \in Code /\ req[w] \in Request /\ snap[w] \in Session /\ now \in Nat
      /\ req[w].op # "peek" /\ Accepts(snap[w], req[w])
      /\ snap[w].lease <= AbsoluteExpiry(snap[w])
      /\ snap[w].lease <= now + TTL
  BY Serving DEF Commit, At, Carries, StoreInv, TypeOK
<1>2. /\ m \in Session /\ m.lease = snap[w].lease
      /\ AbsoluteExpiry(m) = AbsoluteExpiry(snap[w])
  BY <1>1, MutatedType DEF AbsoluteExpiry
<1>3. m.lease \in Nat /\ m # NoSession
  BY <1>2, StoreAssumption DEF Session, StoreAssumption
<1> HIDE DEF m
<1>4. /\ store' = [store EXCEPT ![k] = IF m.lease <= now THEN NoSession ELSE m]
      /\ index' = [index EXCEPT ![k] = m.lease]
      /\ watching' = [watching EXCEPT ![k] = {}]
      /\ UNCHANGED <<now, draining>> /\ Finish(w)
  BY DEF Commit, Save, m
<1>5. LocalTypeOK' /\ WorkerOK' /\ Moves(w, "idle", NoRequest, NoSession)
  BY <1>4, FinishMove
<1>6. RedisTypeOK'
  BY <1>2, <1>3, <1>4 DEF StoreInv, TypeOK, RedisTypeOK
<1>7. HistoryTypeOK'
  BY CommitHistory
<1>8. TypeOK'
  BY <1>5, <1>6, <1>7 DEF TypeOK, RedisTypeOK, LocalTypeOK, HistoryTypeOK
<1>9. WatchOK'
  <2>1. ASSUME NEW j \in Code
        PROVE  /\ watching'[j] \subseteq watching[j] \ {w}
               /\ watching'[j] # {} => store'[j] = store[j]
    BY <1>1, <1>4, WatchesOwnKey DEF StoreInv, TypeOK
  <2>2. QED
    BY <1>5, <2>1, KeepWatches
<1>10. LeaseOK'
  <2>1. SUFFICES ASSUME NEW j \in Code, store'[j] # NoSession
                 PROVE  /\ now <= store'[j].lease
                        /\ store'[j].lease <= now + TTL
                        /\ store'[j].lease <= AbsoluteExpiry(store'[j])
    BY <1>4 DEF LeaseOK, Exists, AbsoluteExpiry
  <2>2. CASE j = k
    <3>1. store'[j] = m /\ ~(m.lease <= now)
      BY <1>4, <2>1, <2>2 DEF StoreInv, TypeOK
    <3>2. QED
      BY <1>1, <1>2, <1>3, <3>1
  <2>3. CASE j # k
    BY <1>4, <2>1, <2>3 DEF StoreInv, TypeOK, LeaseOK, Exists
  <2>4. QED
    BY <2>2, <2>3
<1>11. IndexCoversActive'
  <2>1. SUFFICES ASSUME NEW j \in Code, store'[j] # NoSession, store'[j].lease > now
                 PROVE  index'[j] = store'[j].lease
    BY <1>4 DEF IndexCoversActive, Active, Exists
  <2>2. CASE j = k
    BY <1>4, <2>1, <2>2 DEF StoreInv, TypeOK
  <2>3. CASE j # k
    BY <1>4, <2>1, <2>3 DEF StoreInv, TypeOK, IndexCoversActive, Active, Exists
  <2>4. QED
    BY <2>2, <2>3
<1>12. QED
  BY <1>5, <1>8, <1>9, <1>10, <1>11 DEF StoreInv

LEMMA TickStep ==
  ASSUME StoreInv, Tick
  PROVE  StoreInv'
<1>1. /\ now \in Nat /\ now' = now + 1
      /\ UNCHANGED <<index, draining, pc, req, snap, acked, sent, got>>
  BY DEF Tick, local, history, StoreInv, TypeOK
<1>2. ASSUME NEW k \in Code
      PROVE  /\ watching'[k] \subseteq watching[k]
             /\ \/ store'[k] = NoSession /\ watching'[k] = {}
                \/ /\ store'[k] = store[k]
                   /\ store[k] # NoSession => now' <= store[k].lease
  <2>1. CASE Exists(k) /\ store[k].lease < now + 1
    BY <2>1 DEF Tick
  <2>2. CASE Exists(k) /\ ~(store[k].lease < now + 1)
    <3>1. store[k].lease \in Nat
      BY <2>2 DEF Exists, StoreInv, TypeOK, Session
    <3>2. QED
      BY <1>1, <2>2, <3>1 DEF Tick, Exists
  <2>3. CASE ~Exists(k)
    BY <2>3 DEF Tick, Exists
  <2>4. QED
    BY <2>1, <2>2, <2>3
<1>3. TypeOK'
  <2>1. store' \in [Code -> Session \cup {NoSession}]
    BY DEF Tick, StoreInv, TypeOK
  <2>2. watching' \in [Code -> SUBSET Worker]
    BY DEF Tick, StoreInv, TypeOK
  <2>3. QED
    BY <1>1, <2>1, <2>2 DEF StoreInv, TypeOK
<1>4. WorkerOK'
  <2>1. SUFFICES ASSUME NEW w \in Worker
                 PROVE  Carries(pc[w], req[w], snap[w], now')
    BY <1>1 DEF WorkerOK
  <2>2. QED
    BY <1>1, CarriesOn DEF StoreInv, WorkerOK
<1>5. WatchOK'
  <2>1. SUFFICES ASSUME NEW k \in Code, NEW v \in watching'[k]
                 PROVE  v \in watching[k] /\ store'[k] = store[k]
    BY <1>1 DEF StoreInv, WatchOK, Exists, SameValue
  <2>2. QED
    BY <1>2, <2>1
<1>6. LeaseOK'
  <2>1. SUFFICES ASSUME NEW k \in Code, store'[k] # NoSession
                 PROVE  /\ now' <= store'[k].lease
                        /\ store'[k].lease <= now' + TTL
                        /\ store'[k].lease <= AbsoluteExpiry(store'[k])
    BY DEF LeaseOK, Exists, AbsoluteExpiry
  <2>2. store'[k] = store[k] /\ now' <= store[k].lease /\ store[k] \in Session
    BY <1>2, <2>1 DEF StoreInv, TypeOK
  <2>3. store[k].lease <= now + TTL /\ store[k].lease <= AbsoluteExpiry(store[k])
    BY <2>1, <2>2 DEF StoreInv, LeaseOK, Exists
  <2>4. QED
    BY <1>1, <2>2, <2>3, StoreAssumption DEF StoreAssumption, Session
<1>7. IndexCoversActive'
  <2>1. SUFFICES ASSUME NEW k \in Code, store'[k] # NoSession, store'[k].lease > now'
                 PROVE  index[k] = store'[k].lease
    BY <1>1 DEF IndexCoversActive, Active, Exists
  <2>2. store'[k] = store[k] /\ store[k].lease \in Nat
    BY <1>2, <2>1 DEF StoreInv, TypeOK, Session
  <2>3. k \in Active
    BY <1>1, <2>1, <2>2 DEF Active, Exists
  <2>4. QED
    BY <2>2, <2>3 DEF StoreInv, IndexCoversActive
<1>8. QED
  BY <1>3, <1>4, <1>5, <1>6, <1>7 DEF StoreInv

LEMMA StutterStep ==
  ASSUME StoreInv, UNCHANGED vars
  PROVE  StoreInv'
<1>1. UNCHANGED <<now, store, index, draining, watching, pc, req, snap, acked, sent, got>>
  BY DEF vars, redis, local, history
<1>2. TypeOK' /\ WorkerOK' /\ WatchOK'
  BY <1>1 DEF StoreInv, TypeOK, WorkerOK, WatchOK, Exists, SameValue
<1>3. QED
  BY <1>1, <1>2, SameRedis DEF StoreInv

LEMMA NextStoreInv == StoreInv /\ [Next]_vars => StoreInv'
<1>1. SUFFICES ASSUME StoreInv, [Next]_vars PROVE StoreInv'
  OBVIOUS
<1>2. ASSUME NEW w \in Worker, Work(w) PROVE StoreInv'
  BY <1>1, <1>2, ReadControlStep, ReadTimeStep, CreateExistsStep, CreateRefusedStep,
     CreateStep, FetchMissingStep, FetchStep, DecideStaleStep, DecideAcceptStep,
     DecideRejectStep, CommitStep, TxFailedStep, RemoveWatchedStep, LoadFreshStep,
     LoadStaleStep, EvictStep DEF Work
<1>3. QED
  BY <1>1, <1>2, BeginStep, TerminateStep, SetDrainingStep, TickStep, StutterStep DEF Next

-----------------------------------------------------------------------------
\* The theorems

\* In every reachable state of the store, for any number of workers, codes and
\* capabilities and any limits, the typing, worker, watch, lease and index parts
\* of the inductive invariant hold.
THEOREM StoreInvariant == Spec => []StoreInv
BY InitStoreInv, NextStoreInv, PTL DEF Spec

\* Every variable of the store keeps its type.
THEOREM TypeCorrect == Spec => []TypeOK
<1>1. StoreInv => TypeOK
  BY DEF StoreInv
<1>2. QED
  BY <1>1, StoreInvariant, PTL

\* No refresh extends a session beyond its absolute lifetime (modify and the
\* create script both cap the lease).
THEOREM LeasesEnd == Spec => []LeaseWithinLifetime
<1>1. StoreInv => LeaseWithinLifetime
  BY DEF StoreInv, LeaseOK, LeaseWithinLifetime
<1>2. QED
  BY <1>1, StoreInvariant, PTL

\* The capacity index holds the exact expiry of every unexpired session.
THEOREM IndexComplete == Spec => []IndexCoversActive
<1>1. StoreInv => IndexCoversActive
  BY DEF StoreInv
<1>2. QED
  BY <1>1, StoreInvariant, PTL

-----------------------------------------------------------------------------
\* What a step does to a session that outlives it

\* A session that survives a step is untouched, or the step is the commit of a
\* worker whose copy was that session when it executed.
LEMMA SurvivorWritten ==
  ASSUME StoreInv, [Next]_vars, NEW k \in Code, Exists(k), Exists(k)'
  PROVE  \/ store'[k] = store[k]
         \/ \E w \in Worker : /\ pc[w] = "exec" /\ w \in watching[k]
                              /\ store'[k] = Mutated(snap[w], req[w])
<1> DEFINE Goal == \/ store'[k] = store[k]
                   \/ \E w \in Worker : /\ pc[w] = "exec" /\ w \in watching[k]
                                        /\ store'[k] = Mutated(snap[w], req[w])
<1>1. ASSUME NEW j \in Code, Delete(j) PROVE Goal
  BY <1>1 DEF Delete, Exists, StoreInv, TypeOK
<1>2. ASSUME NEW w \in Worker, Work(w) PROVE Goal
  <2>1. req[w].code \in Code \/ pc[w] = "idle"
    BY Serving
  <2>2. CASE Create(w)
    BY <2>2 DEF Create, Exists, StoreInv, TypeOK
  <2>3. CASE Commit(w)
    BY <2>1, <2>3 DEF Commit, At, Save, Clean, Exists, StoreInv, TypeOK
  <2>4. CASE RemoveWatched(w) \/ Evict(w)
    BY <1>1, <2>1, <2>4 DEF RemoveWatched, Evict, At
  <2>5. CASE \/ ReadControl(w) \/ ReadTime(w) \/ CreateExists(w) \/ CreateRefused(w)
             \/ FetchMissing(w) \/ Fetch(w) \/ DecideStale(w) \/ DecideAccept(w)
    BY <2>5 DEF ReadControl, ReadTime, CreateExists, CreateRefused, FetchMissing,
                Fetch, DecideStale, DecideAccept, redis
  <2>6. CASE DecideReject(w) \/ TxFailed(w) \/ LoadFresh(w) \/ LoadStale(w)
    BY <2>6 DEF DecideReject, TxFailed, LoadFresh, LoadStale, redis
  <2>7. QED
    BY <1>2, <2>2, <2>3, <2>4, <2>5, <2>6 DEF Work
<1>3. CASE Tick
  BY <1>3 DEF Tick, Exists
<1>4. CASE \E w \in Worker, q \in Request : Begin(w, q)
  BY <1>4 DEF Begin, redis
<1>5. CASE SetDraining \/ UNCHANGED vars
  BY <1>5 DEF SetDraining, vars, redis
<1>6. CASE \E j \in Code : Terminate(j)
  BY <1>1, <1>6 DEF Terminate
<1>7. QED
  BY <1>2, <1>3, <1>4, <1>5, <1>6 DEF Next

LEMMA WriterCopy ==
  ASSUME StoreInv, NEW k \in Code, NEW w \in watching[k], pc[w] = "exec"
  PROVE  /\ w \in Worker /\ req[w] \in Request /\ req[w].op # "peek"
         /\ snap[w] \in Session /\ Accepts(snap[w], req[w])
         /\ SameValue(snap[w], store[k]) /\ store[k] \in Session
         /\ store[k].lease <= snap[w].lease
<1>1. w \in Worker
  BY DEF StoreInv, TypeOK
<1>2. Exists(k) /\ SameValue(snap[w], store[k]) /\ store[k].lease <= snap[w].lease
  BY DEF StoreInv, WatchOK
<1>3. QED
  BY <1>1, <1>2, Serving DEF Carries, Exists, StoreInv, TypeOK

\* No commit shortens the lease another commit granted, although each takes its
\* own reading of the clock before its EXEC.
THEOREM LeasesMonotone == Spec => LeaseNeverShrinks
<1>1. ASSUME StoreInv, [Next]_vars, NEW k \in Code, Exists(k), Exists(k)'
      PROVE  store[k].lease <= store'[k].lease
  <2>1. store[k].lease \in Nat
    BY <1>1 DEF StoreInv, TypeOK, Exists, Session
  <2>2. CASE store'[k] = store[k]
    BY <2>1, <2>2
  <2>3. ASSUME NEW w \in Worker, pc[w] = "exec", w \in watching[k],
               store'[k] = Mutated(snap[w], req[w])
        PROVE  store[k].lease <= store'[k].lease
    BY <1>1, <2>3, WriterCopy, MutatedType
  <2>4. QED
    BY <1>1, <2>2, <2>3, SurvivorWritten
<1>2. StoreInv /\ [Next]_vars =>
        \A k \in Code : Exists(k) /\ Exists(k)' => store[k].lease <= store'[k].lease
  BY <1>1
<1>3. QED
  BY <1>2, StoreInvariant, PTL DEF Spec, LeaseNeverShrinks

\* What an accepted mutation keeps of the session it starts from.
LEMMA MutationKeeps ==
  ASSUME NEW s \in Session, NEW q \in Request, q.op # "peek", Accepts(s, q)
  PROVE  LET m == Mutated(s, q) IN
         /\ s.info \subseteq m.info /\ s.reports \subseteq m.reports
         /\ \A r \in Role : s.owner[r] \in {NoOne, m.owner[r]}
<1>1. CASE q.op = "claim"
  <2>1. s.owner[q.role] \in {NoOne, q.cap}
    BY <1>1 DEF Accepts, MayClaim
  <2>2. QED
    BY <1>1, <2>1, RequestType DEF Mutated, Session
<1>2. CASE q.op \in {"publish", "report", "enqueue", "dequeue"}
  BY <1>2, RequestType DEF Mutated, Session
<1>3. QED
  BY <1>1, <1>2, RequestType DEF Op

\* Every claim, publication and report a commit recorded survives every later
\* step that leaves its session in place.
THEOREM UpdatesSurvive == Spec => NoLostUpdate
<1> DEFINE Kept(k) ==
       /\ store[k].created = store'[k].created
       /\ store[k].info \subseteq store'[k].info
       /\ store[k].reports \subseteq store'[k].reports
       /\ \A r \in Role : store[k].owner[r] \in {NoOne, store'[k].owner[r]}
<1>1. ASSUME StoreInv, [Next]_vars, NEW k \in Code, Exists(k), Exists(k)'
      PROVE  Kept(k)
  <2>1. CASE store'[k] = store[k]
    BY <2>1
  <2>2. ASSUME NEW w \in Worker, pc[w] = "exec", w \in watching[k],
               store'[k] = Mutated(snap[w], req[w])
        PROVE  Kept(k)
    <3>1. /\ req[w] \in Request /\ req[w].op # "peek" /\ snap[w] \in Session
          /\ Accepts(snap[w], req[w]) /\ SameValue(snap[w], store[k])
          /\ store[k] \in Session
      BY <1>1, <2>2, WriterCopy
    <3>2. /\ snap[w].created = store[k].created /\ snap[w].info = store[k].info
          /\ snap[w].reports = store[k].reports /\ snap[w].owner = store[k].owner
      BY <3>1 DEF SameValue, Session
    <3>3. QED
      BY <2>2, <3>1, <3>2, MutatedType, MutationKeeps
  <2>3. QED
    BY <1>1, <2>1, <2>2, SurvivorWritten
<1>2. StoreInv /\ [Next]_vars => \A k \in Code : Exists(k) /\ Exists(k)' => Kept(k)
  BY <1>1
<1>3. QED
  BY <1>2, StoreInvariant, PTL DEF Spec, NoLostUpdate

=============================================================================
