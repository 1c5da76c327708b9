------------------------ MODULE StoreRefinementProofs ------------------------
(***************************************************************************)
(* What sessions contain: their owners, their queues, and that the store   *)
(* implements the mailbox it promises, for any workers, codes and limits.  *)
(***************************************************************************)
EXTENDS SessionStoreProofs, FiniteSetTheorems

-----------------------------------------------------------------------------
\* What a step does to the sessions and the histories

Removes(S) ==
  /\ store' = [k \in Code |-> IF k \in S THEN NoSession ELSE store[k]]
  /\ UNCHANGED history

LEMMA DeleteRemoves ==
  ASSUME StoreInv, NEW k \in Code, Delete(k), UNCHANGED history
  PROVE  Removes({k})
BY DEF Delete, Removes, StoreInv, TypeOK

LEMMA NothingRemoved ==
  ASSUME StoreInv, UNCHANGED <<store, history>>
  PROVE  Removes({})
BY DEF Removes, StoreInv, TypeOK

\* Sessions are created, written by a commit, or removed whole.
LEMMA SessionsChange ==
  ASSUME StoreInv, [Next]_vars
  PROVE  \/ \E S \in SUBSET Code : Removes(S)
         \/ \E w \in Worker : Create(w) \/ Commit(w)
<1> DEFINE Gone == \E S \in SUBSET Code : Removes(S)
<1>1. UNCHANGED <<store, history>> => Gone
  BY NothingRemoved
<1>2. ASSUME NEW k \in Code, Delete(k), UNCHANGED history PROVE Gone
  BY <1>2, DeleteRemoves
<1> HIDE DEF Gone
<1>3. ASSUME NEW w \in Worker, Work(w), ~Create(w), ~Commit(w) PROVE Gone
  <2>1. req[w].code \in Code \/ pc[w] = "idle"
    BY Serving
  <2>2. CASE RemoveWatched(w) \/ Evict(w)
    BY <1>1, <1>2, <2>1, <2>2 DEF RemoveWatched, Evict, At
  <2>3. CASE \/ ReadControl(w) \/ ReadTime(w) \/ CreateExists(w) \/ CreateRefused(w)
             \/ FetchMissing(w) \/ Fetch(w) \/ DecideStale(w) \/ DecideAccept(w)
    BY <1>1, <2>3 DEF ReadControl, ReadTime, CreateExists, CreateRefused, FetchMissing,
                Fetch, DecideStale, DecideAccept, redis
  <2>4. CASE DecideReject(w) \/ TxFailed(w) \/ LoadFresh(w) \/ LoadStale(w)
    BY <1>1, <2>4 DEF DecideReject, TxFailed, LoadFresh, LoadStale, redis
  <2>5. QED
    BY <1>3, <2>2, <2>3, <2>4 DEF Work
<1>4. CASE Tick
  <2>1. Removes({k \in Code : Exists(k) /\ store[k].lease < now + 1})
    BY <1>4 DEF Tick, Removes
  <2>2. QED
    BY <2>1 DEF Gone
<1>5. CASE \E w \in Worker, q \in Request : Begin(w, q)
  BY <1>1, <1>5 DEF Begin, redis, Gone
<1>6. CASE SetDraining \/ UNCHANGED vars
  BY <1>1, <1>6 DEF SetDraining, vars, redis, Gone
<1>7. CASE \E k \in Code : Terminate(k)
  BY <1>2, <1>7 DEF Terminate, Gone
<1>8. QED
  BY <1>3, <1>4, <1>5, <1>6, <1>7 DEF Next, Gone

-----------------------------------------------------------------------------
\* Who may create a session

\* A worker's step leaves the others where they are.
LEMMA OthersWait ==
  ASSUME StoreInv, NEW w \in Worker, NEW v \in Worker, v # w,
         Work(w) \/ \E q \in Request : Begin(w, q)
  PROVE  UNCHANGED <<pc[v], req[v], snap[v]>>
<1>1. ASSUME Finish(w) \/ Retry(w) \/ \E phase \in Phase : Goto(w, phase) /\ UNCHANGED <<req, snap>>
      PROVE  UNCHANGED <<pc[v], req[v], snap[v]>>
  BY <1>1 DEF Finish, Retry, Goto, StoreInv, TypeOK
<1>2. CASE ReadControl(w) \/ CreateExists(w) \/ CreateRefused(w) \/ Create(w) \/ FetchMissing(w)
  BY <1>1, <1>2 DEF ReadControl, CreateExists, CreateRefused, Create, FetchMissing, Phase
<1>3. CASE DecideStale(w) \/ DecideReject(w) \/ Commit(w) \/ TxFailed(w)
  BY <1>1, <1>3 DEF DecideStale, DecideReject, Commit, TxFailed, Phase
<1>4. CASE RemoveWatched(w) \/ LoadFresh(w) \/ Evict(w)
  BY <1>1, <1>4 DEF RemoveWatched, LoadFresh, Evict
<1>5. CASE ReadTime(w) \/ Fetch(w) \/ DecideAccept(w) \/ LoadStale(w)
  BY <1>5 DEF ReadTime, Fetch, DecideAccept, LoadStale, Goto, StoreInv, TypeOK
<1>6. CASE \E q \in Request : Begin(w, q)
  BY <1>6 DEF Begin, Goto, StoreInv, TypeOK
<1>7. QED
  BY <1>2, <1>3, <1>4, <1>5, <1>6 DEF Work

LEMMA OriginStep ==
  ASSUME StoreInv, OriginOK, [Next]_vars
  PROVE  OriginOK'
<1>1. ASSUME NEW v \in Worker,
             UNCHANGED <<pc[v], req[v], snap[v]>> \/ pc'[v] \notin {"control", "time", "create"}
      PROVE  /\ pc'[v] \in {"control", "time", "create"}
                  => req'[v].op = "claim" /\ req'[v].role = "send"
             /\ pc'[v] = "create" => snap'[v] = NewSession(snap'[v].created, req'[v].cap)
  BY <1>1 DEF OriginOK, At
<1>2. ASSUME NEW w \in Worker, NEW v \in Worker, v # w,
             Work(w) \/ \E q \in Request : Begin(w, q)
      PROVE  UNCHANGED <<pc[v], req[v], snap[v]>>
  BY <1>2, OthersWait
<1>3. ASSUME NEW w \in Worker, Work(w) \/ \E q \in Request : Begin(w, q)
      PROVE  /\ pc'[w] \in {"control", "time", "create"}
                  => req'[w].op = "claim" /\ req'[w].role = "send"
             /\ pc'[w] = "create" => snap'[w] = NewSession(snap'[w].created, req'[w].cap)
  <2>1. pc \in [Worker -> Phase] /\ req \in [Worker -> Request \cup {NoRequest}]
        /\ snap \in [Worker -> Session \cup {NoSession}]
    BY DEF StoreInv, TypeOK
  <2>2. ASSUME Finish(w) \/ Retry(w) PROVE pc'[w] \notin {"control", "time", "create"}
    BY <2>1, <2>2 DEF Finish, Retry, Goto
  <2>3. CASE \E q \in Request : Begin(w, q)
    BY <2>1, <2>3 DEF Begin, FirstPhase, Goto
  <2>4. CASE ReadControl(w)
    BY <2>1, <2>2, <2>4 DEF ReadControl, OriginOK, At, Goto
  <2>5. CASE ReadTime(w)
    BY <2>1, <2>5 DEF ReadTime, OriginOK, At, Goto, NewSession
  <2>6. CASE CreateExists(w) \/ CreateRefused(w) \/ Create(w) \/ FetchMissing(w)
    BY <2>2, <2>6 DEF CreateExists, CreateRefused, Create, FetchMissing
  <2>7. CASE DecideReject(w) \/ Commit(w) \/ TxFailed(w)
    BY <2>2, <2>7 DEF DecideReject, Commit, TxFailed
  <2>8. CASE RemoveWatched(w) \/ LoadFresh(w) \/ Evict(w)
    BY <2>2, <2>8 DEF RemoveWatched, LoadFresh, Evict
  <2>9. CASE DecideStale(w) \/ Fetch(w) \/ DecideAccept(w) \/ LoadStale(w)
    BY <2>1, <2>9 DEF DecideStale, Fetch, DecideAccept, LoadStale, Goto
  <2>10. QED
    BY <1>3, <2>3, <2>4, <2>5, <2>6, <2>7, <2>8, <2>9 DEF Work
<1>4. CASE \E w \in Worker : Work(w) \/ \E q \in Request : Begin(w, q)
  BY <1>1, <1>2, <1>3, <1>4 DEF OriginOK, At
<1>5. CASE SetDraining \/ Tick \/ UNCHANGED vars \/ \E k \in Code : Terminate(k)
  BY <1>1, <1>5 DEF SetDraining, Tick, Terminate, vars, local, OriginOK, At
<1>6. QED
  BY <1>4, <1>5 DEF Next

-----------------------------------------------------------------------------
\* What the two steps that write a session write

LEMMA CommitWrites ==
  ASSUME StoreInv, NEW w \in Worker, Commit(w)
  PROVE  LET q == req[w]
             k == q.code
             m == Mutated(store[k], q)
         IN /\ q \in Request /\ q.op # "peek" /\ k \in Code /\ store[k] \in Session
            /\ Accepts(store[k], q)
            /\ \A j \in Code \ {k} : store'[j] = store[j]
            /\ \/ store'[k] = NoSession
               \/ /\ store'[k] \in Session /\ store'[k] # NoSession
                  /\ Content(store'[k]) = Content(m) /\ store'[k].created = store[k].created
            /\ acked' = IF q.op = "claim" THEN [acked EXCEPT ![k][q.role] = @ \cup {q.cap}]
                        ELSE acked
            /\ sent' = IF q.op = "enqueue"
                       THEN [sent EXCEPT ![k][Peer(q.role)] = Append(@, Letter(q))] ELSE sent
            /\ got' = IF q.op = "dequeue"
                      THEN [got EXCEPT ![k][q.role] = Append(@, Head(store[k].pending[q.role]))]
                      ELSE got
<1> DEFINE q == req[w]
           k == q.code
           m == Mutated(snap[w], q)
<1>1. q \in Request /\ k \in Code /\ snap[w] \in Session /\ Accepts(snap[w], q) /\ q.op # "peek"
  BY Serving DEF Commit, At, Carries
<1>2. w \in watching[k] /\ pc[w] = "exec"
  BY DEF Commit, Clean, At
<1>3. store[k] \in Session /\ SameValue(snap[w], store[k])
  BY <1>1, <1>2, WriterCopy
<1>4. /\ snap[w].created = store[k].created
      /\ snap[w].owner = store[k].owner /\ snap[w].info = store[k].info
      /\ snap[w].reports = store[k].reports /\ snap[w].pending = store[k].pending
  BY <1>1, <1>3 DEF SameValue, Session
<1>5. Accepts(store[k], q)
  BY <1>1, <1>4 DEF Accepts, MayClaim, Authenticates, MayEnqueue, MayDequeue, PendingBytes
<1>6. m \in Session /\ m # NoSession
  BY <1>1, MutatedType, StoreAssumption DEF StoreAssumption
<1>7. Content(m) = Content(Mutated(store[k], q)) /\ m.created = store[k].created
  <2>1. q.op \in {"claim", "publish", "report", "enqueue", "dequeue"}
    BY <1>1, RequestType DEF Op
  <2>2. CASE q.op \in {"claim", "publish", "report"}
    BY <1>1, <1>3, <1>4, <2>2 DEF Mutated, Content, Session
  <2>3. CASE q.op = "enqueue"
    BY <1>1, <1>3, <1>4, <2>3 DEF Mutated, Content, Session
  <2>4. CASE q.op = "dequeue"
    BY <1>1, <1>3, <1>4, <2>4 DEF Mutated, Content, Session
  <2>5. QED
    BY <2>1, <2>2, <2>3, <2>4
<1>8. store' = [store EXCEPT ![k] = IF m.lease <= now THEN NoSession ELSE m]
  BY DEF Commit, Save
<1>9. store \in [Code -> Session \cup {NoSession}]
  BY DEF StoreInv, TypeOK
<1>10. /\ acked' = IF q.op = "claim" THEN [acked EXCEPT ![k][q.role] = @ \cup {q.cap}] ELSE acked
       /\ sent' = IF q.op = "enqueue"
                  THEN [sent EXCEPT ![k][Peer(q.role)] = Append(@, Letter(q))] ELSE sent
       /\ got' = IF q.op = "dequeue"
                 THEN [got EXCEPT ![k][q.role] = Append(@, Head(store[k].pending[q.role]))]
                 ELSE got
  BY <1>4 DEF Commit
<1> HIDE DEF m
<1>11. /\ \A j \in Code \ {k} : store'[j] = store[j]
       /\ store'[k] = NoSession \/ store'[k] = m
  BY <1>1, <1>8, <1>9
<1>12. QED
  BY <1>1, <1>3, <1>5, <1>6, <1>7, <1>10, <1>11

LEMMA CreateWrites ==
  ASSUME StoreInv, OriginOK, NEW w \in Worker, Create(w)
  PROVE  LET q == req[w]
             k == q.code
         IN /\ q \in Request /\ k \in Code /\ store[k] = NoSession
            /\ \A j \in Code \ {k} : store'[j] = store[j]
            /\ store'[k] \in Session /\ store'[k] # NoSession
            /\ store'[k].created = snap[w].created
            /\ Content(store'[k]) = Content(NewSession(0, q.cap))
            /\ acked' = [acked EXCEPT ![k] = [r \in Role |-> IF r = "send" THEN {q.cap} ELSE {}]]
            /\ sent' = [sent EXCEPT ![k] = [r \in Role |-> <<>>]]
            /\ got' = [got EXCEPT ![k] = [r \in Role |-> <<>>]]
<1> DEFINE q == req[w]
           k == q.code
           s == [snap[w] EXCEPT !.lease = RefreshExpiry(snap[w], now)]
<1>1. q \in Request /\ k \in Code /\ snap[w] \in Session /\ now \in Nat
  BY Serving DEF Create, At, Carries, StoreInv, TypeOK
<1>2. RefreshExpiry(snap[w], now) \in Nat
  BY <1>1, RefreshBounds
<1>3. s \in Session /\ s # NoSession /\ s.created = snap[w].created
      /\ Content(s) = Content(snap[w])
  BY <1>1, <1>2, StoreAssumption DEF StoreAssumption, Session, Content
<1>4. Content(snap[w]) = Content(NewSession(0, q.cap))
  <2>1. PICK n : n = snap[w].created
    OBVIOUS
  <2>2. snap[w] = NewSession(n, q.cap)
    BY <2>1 DEF OriginOK, Create
  <2>3. Content(NewSession(n, q.cap)) = Content(NewSession(0, q.cap))
    BY DEF NewSession, Content
  <2>4. QED
    BY <2>2, <2>3
<1>5. store' = [store EXCEPT ![k] = s] /\ store[k] = NoSession
  BY DEF Create, Exists
<1>6. /\ acked' = [acked EXCEPT ![k] = [r \in Role |-> IF r = "send" THEN {q.cap} ELSE {}]]
      /\ sent' = [sent EXCEPT ![k] = [r \in Role |-> <<>>]]
      /\ got' = [got EXCEPT ![k] = [r \in Role |-> <<>>]]
  BY DEF Create
<1> HIDE DEF s
<1>7. store'[k] = s /\ \A j \in Code \ {k} : store'[j] = store[j]
  BY <1>1, <1>5 DEF StoreInv, TypeOK
<1>8. QED
  BY <1>1, <1>3, <1>4, <1>5, <1>6, <1>7

-----------------------------------------------------------------------------
\* The owners of a session and the claims that were acknowledged

LEMMA OwnersRemoved ==
  ASSUME OwnersOK, NEW S \in SUBSET Code, Removes(S)
  PROVE  OwnersOK'
BY DEF OwnersOK, Removes, Exists, history

LEMMA OwnersCreate ==
  ASSUME StoreInv, OriginOK, OwnersOK, NEW w \in Worker, Create(w)
  PROVE  OwnersOK'
<1> DEFINE q == req[w]
           k == q.code
           a == [r \in Role |-> IF r = "send" THEN {q.cap} ELSE {}]
<1>1. /\ q \in Request /\ k \in Code
      /\ \A j \in Code \ {k} : store'[j] = store[j]
      /\ Content(store'[k]) = Content(NewSession(0, q.cap))
      /\ acked' = [acked EXCEPT ![k] = a]
  BY CreateWrites
<1>2. q.cap \in Capability /\ q.cap # NoOne
  BY <1>1, RequestType, StoreAssumption DEF StoreAssumption
<1>3. store'[k].owner = [r \in Role |-> IF r = "send" THEN q.cap ELSE NoOne]
  BY <1>1 DEF Content, NewSession
<1>4. acked \in [Code -> [Role -> SUBSET Capability]]
  BY DEF StoreInv, TypeOK
<1>5. acked'[k] = a /\ \A j \in Code \ {k} : acked'[j] = acked[j]
  BY <1>1, <1>4
<1>6. SUFFICES ASSUME NEW j \in Code
               PROVE  /\ \A r \in Role : \E c \in Capability \cup {NoOne} : acked'[j][r] \subseteq {c}
                      /\ acked'[j]["send"] \cap acked'[j]["recv"] = {}
                      /\ store'[j] # NoSession =>
                           /\ store'[j].owner["send"] \notin {NoOne, store'[j].owner["recv"]}
                           /\ \A r \in Role : acked'[j][r] \subseteq {store'[j].owner[r]}
  BY DEF OwnersOK, Exists
<1>7. CASE j = k
  BY <1>2, <1>3, <1>5, <1>7 DEF Role
<1>8. CASE j # k
  BY <1>1, <1>5, <1>8 DEF OwnersOK, Exists
<1>9. QED
  BY <1>7, <1>8

\* A claim is accepted from the owner of the role, or for the receiver's role
\* while nobody has it.
LEMMA ClaimKeeps ==
  ASSUME NEW s \in Session, NEW q \in Request, q.op = "claim", Accepts(s, q),
         s.owner["send"] \notin {NoOne, s.owner["recv"]}
  PROVE  LET o == [s.owner EXCEPT ![q.role] = q.cap]
         IN /\ Mutated(s, q).owner = o
            /\ o["send"] = s.owner["send"] /\ o["send"] \notin {NoOne, o["recv"]}
            /\ s.owner[q.role] \in {NoOne, q.cap}
BY RequestType, StoreAssumption
   DEF Accepts, MayClaim, Mutated, Session, Role, StoreAssumption

LEMMA OwnersCommit ==
  ASSUME StoreInv, OwnersOK, NEW w \in Worker, Commit(w)
  PROVE  OwnersOK'
<1> DEFINE q == req[w]
           k == q.code
           m == Mutated(store[k], q)
<1>1. /\ q \in Request /\ q.op # "peek" /\ k \in Code /\ store[k] \in Session
      /\ Accepts(store[k], q)
      /\ \A j \in Code \ {k} : store'[j] = store[j]
      /\ store'[k] = NoSession \/ store'[k].owner = m.owner
      /\ acked' = IF q.op = "claim" THEN [acked EXCEPT ![k][q.role] = @ \cup {q.cap}]
                  ELSE acked
  BY CommitWrites DEF Content
<1>2. q.cap \in Capability /\ q.cap # NoOne /\ q.role \in Role /\ NoOne \notin Capability
  BY <1>1, RequestType, StoreAssumption DEF StoreAssumption
<1>3. acked \in [Code -> [Role -> SUBSET Capability]]
  BY DEF StoreInv, TypeOK
<1>4. /\ store[k].owner["send"] \notin {NoOne, store[k].owner["recv"]}
      /\ \A r \in Role : acked[k][r] \subseteq {store[k].owner[r]}
      /\ store[k].owner \in [Role -> Capability \cup {NoOne}]
  BY <1>1, StoreAssumption DEF OwnersOK, Exists, StoreAssumption, Session
<1>5. m.owner \in [Role -> Capability \cup {NoOne}]
      /\ m.owner["send"] \notin {NoOne, m.owner["recv"]}
      /\ \A r \in Role : acked'[k][r] \subseteq {m.owner[r]}
      /\ \A j \in Code \ {k} : acked'[j] = acked[j]
  <2>1. CASE q.op = "claim"
    <3>1. m.owner = [store[k].owner EXCEPT ![q.role] = q.cap]
          /\ m.owner["send"] \notin {NoOne, m.owner["recv"]}
          /\ store[k].owner[q.role] \in {NoOne, q.cap}
      BY <1>1, <1>4, <2>1, ClaimKeeps
    <3>2. acked'[k] = [acked[k] EXCEPT ![q.role] = @ \cup {q.cap}]
          /\ \A j \in Code \ {k} : acked'[j] = acked[j]
      BY <1>1, <1>3, <2>1
    <3>3. acked[k][q.role] \subseteq {q.cap}
      BY <1>1, <1>2, <1>3, <1>4, <3>1
    <3>4. \A r \in Role : acked'[k][r] \subseteq {m.owner[r]}
      BY <1>1, <1>2, <1>3, <1>4, <3>1, <3>2, <3>3
    <3>5. PICK o : o = m.owner
      OBVIOUS
    <3>6. o \in [Role -> Capability \cup {NoOne}] /\ o["send"] \notin {NoOne, o["recv"]}
      BY <1>2, <1>4, <3>1, <3>5
    <3>7. QED
      BY <3>2, <3>4, <3>5, <3>6
  <2>2. CASE q.op # "claim"
    <3>1. m.owner = store[k].owner
      <4>1. q.op \in {"publish", "report", "enqueue", "dequeue"}
        BY <1>1, <2>2, RequestType DEF Op
      <4>2. CASE q.op \in {"publish", "report"}
        BY <1>1, <4>2 DEF Mutated, Session
      <4>3. CASE q.op = "enqueue"
        BY <1>1, <4>3 DEF Mutated, Session
      <4>4. CASE q.op = "dequeue"
        BY <1>1, <4>4 DEF Mutated, Session
      <4>5. QED
        BY <4>1, <4>2, <4>3, <4>4
    <3>2. QED
      BY <1>1, <1>4, <2>2, <3>1
  <2>3. QED
    BY <2>1, <2>2
<1>6. SUFFICES ASSUME NEW j \in Code
               PROVE  /\ \A r \in Role : \E c \in Capability \cup {NoOne} : acked'[j][r] \subseteq {c}
                      /\ acked'[j]["send"] \cap acked'[j]["recv"] = {}
                      /\ store'[j] # NoSession =>
                           /\ store'[j].owner["send"] \notin {NoOne, store'[j].owner["recv"]}
                           /\ \A r \in Role : acked'[j][r] \subseteq {store'[j].owner[r]}
  BY DEF OwnersOK, Exists
<1> HIDE DEF m
<1>7. CASE j = k
  BY <1>1, <1>5, <1>7 DEF Role
<1>8. CASE j # k
  BY <1>1, <1>5, <1>8 DEF OwnersOK, Exists
<1>9. QED
  BY <1>7, <1>8

-----------------------------------------------------------------------------
\* The queues and what was accepted for them

LEMMA TakenFirst ==
  ASSUME NEW S, NEW g \in Seq(S), NEW p \in Seq(S), p # <<>>
  PROVE  /\ g \o p = Append(g, Head(p)) \o Tail(p)
         /\ Head(p) \in S /\ Tail(p) \in Seq(S)
OBVIOUS

LEMMA FifoRemoved ==
  ASSUME FifoDelivery, NEW S \in SUBSET Code, Removes(S)
  PROVE  FifoDelivery'
BY DEF FifoDelivery, Removes, Exists, history

LEMMA FifoCreate ==
  ASSUME StoreInv, OriginOK, FifoDelivery, NEW w \in Worker, Create(w)
  PROVE  FifoDelivery'
<1> DEFINE q == req[w]
           k == q.code
           none == [r \in Role |-> <<>>]
<1>1. /\ q \in Request /\ k \in Code
      /\ \A j \in Code \ {k} : store'[j] = store[j]
      /\ Content(store'[k]) = Content(NewSession(0, q.cap))
      /\ sent' = [sent EXCEPT ![k] = none] /\ got' = [got EXCEPT ![k] = none]
  BY CreateWrites
<1>2. store'[k].pending = none
  BY <1>1 DEF Content, NewSession
<1>3. /\ sent'[k] = none /\ got'[k] = none
      /\ \A j \in Code \ {k} : sent'[j] = sent[j] /\ got'[j] = got[j]
  BY <1>1 DEF StoreInv, TypeOK
<1>4. ASSUME NEW j \in Code, store'[j] # NoSession, NEW r \in Role
      PROVE  sent'[j][r] = got'[j][r] \o store'[j].pending[r]
  <2>1. CASE j = k
    <3>1. sent'[j][r] = <<>> /\ got'[j][r] = <<>> /\ store'[j].pending[r] = <<>>
      BY <1>2, <1>3, <2>1
    <3>2. QED
      BY <3>1
  <2>2. CASE j # k
    BY <1>1, <1>3, <1>4, <2>2 DEF FifoDelivery, Exists
  <2>3. QED
    BY <2>1, <2>2
<1>5. QED
  BY <1>4 DEF FifoDelivery, Exists

LEMMA FifoCommit ==
  ASSUME StoreInv, FifoDelivery, NEW w \in Worker, Commit(w)
  PROVE  FifoDelivery'
<1> DEFINE q == req[w]
           k == q.code
           m == Mutated(store[k], q)
<1>1. /\ q \in Request /\ q.op # "peek" /\ k \in Code /\ store[k] \in Session
      /\ Accepts(store[k], q)
      /\ \A j \in Code \ {k} : store'[j] = store[j]
      /\ store'[k] = NoSession \/ store'[k].pending = m.pending
      /\ sent' = IF q.op = "enqueue"
                 THEN [sent EXCEPT ![k][Peer(q.role)] = Append(@, Letter(q))] ELSE sent
      /\ got' = IF q.op = "dequeue"
                THEN [got EXCEPT ![k][q.role] = Append(@, Head(store[k].pending[q.role]))]
                ELSE got
  BY CommitWrites DEF Content
<1>2. /\ q.role \in Role /\ Letter(q) \in Envelope
      /\ store[k].pending \in [Role -> Seq(Envelope)]
      /\ sent \in [Code -> [Role -> Seq(Envelope)]] /\ got \in [Code -> [Role -> Seq(Envelope)]]
  BY <1>1, RequestType DEF Session, StoreInv, TypeOK
<1>3. \A r \in Role : sent[k][r] = got[k][r] \o store[k].pending[r]
  BY <1>1, StoreAssumption DEF FifoDelivery, Exists, StoreAssumption
<1>4. /\ \A r \in Role : sent'[k][r] = got'[k][r] \o m.pending[r]
      /\ \A j \in Code \ {k} : sent'[j] = sent[j] /\ got'[j] = got[j]
  <2>1. CASE q.op = "enqueue"
    <3>1. PICK r \in Role : r = Peer(q.role)
      BY <1>1, RequestType
    <3>2. m.pending = [store[k].pending EXCEPT ![r] = Append(@, Letter(q))]
      BY <1>1, <2>1, <3>1 DEF Mutated, Session
    <3>3. sent' = [sent EXCEPT ![k][r] = Append(@, Letter(q))] /\ got' = got
      BY <1>1, <2>1, <3>1
    <3>4. Append(sent[k][r], Letter(q)) = got[k][r] \o Append(store[k].pending[r], Letter(q))
      <4>1. got[k][r] \in Seq(Envelope) /\ store[k].pending[r] \in Seq(Envelope)
            /\ Letter(q) \in Envelope /\ sent[k][r] = got[k][r] \o store[k].pending[r]
        BY <1>1, <1>2, <1>3
      <4>2. PICK g \in Seq(Envelope), p \in Seq(Envelope), e \in Envelope :
                   g = got[k][r] /\ p = store[k].pending[r] /\ e = Letter(q)
        BY <4>1
      <4>3. Append(g \o p, e) = g \o Append(p, e)
        OBVIOUS
      <4>4. QED
        BY <4>1, <4>2, <4>3
    <3>5. sent'[k] = [sent[k] EXCEPT ![r] = Append(@, Letter(q))]
          /\ \A j \in Code \ {k} : sent'[j] = sent[j]
      BY <1>1, <1>2, <3>3
    <3>6. ASSUME NEW i \in Role PROVE sent'[k][i] = got'[k][i] \o m.pending[i]
      <4>1. CASE i = r
        <5>1. sent'[k][i] = Append(sent[k][r], Letter(q))
          BY <1>1, <1>2, <3>5, <4>1
        <5>2. m.pending[i] = Append(store[k].pending[r], Letter(q))
          BY <1>1, <1>2, <3>2, <4>1
        <5>3. QED
          BY <3>3, <3>4, <4>1, <5>1, <5>2
      <4>2. CASE i # r
        <5>1. sent'[k][i] = sent[k][i] /\ m.pending[i] = store[k].pending[i]
          BY <1>1, <1>2, <3>2, <3>5, <3>6, <4>2
        <5>2. QED
          BY <1>3, <3>3, <3>6, <5>1
      <4>3. QED
        BY <4>1, <4>2
    <3>7. QED
      BY <3>3, <3>5, <3>6
  <2>2. CASE q.op = "dequeue"
    <3>1. PICK r \in Role : r = q.role
      BY <1>2
    <3>2. store[k].pending[r] # <<>>
      BY <1>1, <2>2, <3>1 DEF Accepts, MayDequeue
    <3>3. m.pending = [store[k].pending EXCEPT ![r] = Tail(@)]
      BY <1>1, <2>2, <3>1 DEF Mutated, Session
    <3>4. got' = [got EXCEPT ![k][r] = Append(@, Head(store[k].pending[r]))] /\ sent' = sent
      BY <1>1, <2>2, <3>1
    <3>5. /\ got[k][r] \in Seq(Envelope) /\ store[k].pending[r] \in Seq(Envelope)
          /\ sent[k][r] = got[k][r] \o store[k].pending[r]
      BY <1>1, <1>2, <1>3
    <3>6. sent[k][r] = Append(got[k][r], Head(store[k].pending[r])) \o Tail(store[k].pending[r])
      BY <3>2, <3>5, TakenFirst
    <3>7. PICK x : x = Head(store[k].pending[r])
      OBVIOUS
    <3>8. got'[k] = [got[k] EXCEPT ![r] = Append(@, x)]
          /\ \A j \in Code \ {k} : got'[j] = got[j]
      BY <1>1, <1>2, <3>4, <3>7
    <3>9. ASSUME NEW i \in Role PROVE sent'[k][i] = got'[k][i] \o m.pending[i]
      <4>1. CASE i = r
        <5>1. got'[k][i] = Append(got[k][r], x)
          BY <1>1, <1>2, <3>8, <4>1
        <5>2. m.pending[i] = Tail(store[k].pending[r])
          BY <1>1, <1>2, <3>3, <4>1
        <5>3. QED
          BY <3>4, <3>6, <3>7, <4>1, <5>1, <5>2
      <4>2. CASE i # r
        <5>1. got'[k][i] = got[k][i] /\ m.pending[i] = store[k].pending[i]
          BY <1>1, <1>2, <3>3, <3>8, <3>9, <4>2
        <5>2. QED
          BY <1>3, <3>4, <3>9, <5>1
      <4>3. QED
        BY <4>1, <4>2
    <3>10. QED
      BY <3>4, <3>8, <3>9
  <2>3. CASE q.op \in {"claim", "publish", "report"}
    <3>1. m.pending = store[k].pending
      BY <1>1, <2>3 DEF Mutated, Session
    <3>2. QED
      BY <1>1, <1>3, <2>3, <3>1
  <2>4. QED
    BY <1>1, <2>1, <2>2, <2>3, RequestType DEF Op
<1> HIDE DEF m
<1>5. ASSUME NEW j \in Code, store'[j] # NoSession, NEW r \in Role
      PROVE  sent'[j][r] = got'[j][r] \o store'[j].pending[r]
  <2>1. CASE j = k
    BY <1>1, <1>4, <1>5, <2>1
  <2>2. CASE j # k
    BY <1>1, <1>4, <1>5, <2>2 DEF FifoDelivery, Exists
  <2>3. QED
    BY <2>1, <2>2
<1>6. QED
  BY <1>5 DEF FifoDelivery, Exists

-----------------------------------------------------------------------------
\* Creation seconds and the clock

LEMMA DivMod ==
  ASSUME NEW t \in Int, NEW d \in Int, d > 0
  PROVE  t = d * (t \div d) + (t % d) /\ (t \div d) \in Int /\ (t % d) \in 0 .. (d - 1)
OBVIOUS

\* The clock's truncation to seconds never goes back.
LEMMA UnixSecondMonotone ==
  ASSUME NEW t \in Nat
  PROVE  UnixSecond(t) <= UnixSecond(t + 1) /\ UnixSecond(t) \in Int
<1> DEFINE d == SecondTicks
<1>1. d \in Int /\ d > 0
  BY StoreAssumption DEF StoreAssumption
<1> HIDE DEF d
<1>2. PICK a \in Int, x \in 0 .. (d - 1) : t = d * a + x /\ x = t % d
  <2>1. t \in Int
    OBVIOUS
  <2>2. t = d * (t \div d) + (t % d) /\ (t \div d) \in Int /\ (t % d) \in 0 .. (d - 1)
    BY <1>1, <2>1, DivMod
  <2>3. QED
    BY <2>2
<1>3. PICK c \in Int, y \in 0 .. (d - 1) : t + 1 = d * c + y /\ y = (t + 1) % d
  <2>1. PICK u \in Int : u = t + 1
    OBVIOUS
  <2>2. u = d * (u \div d) + (u % d) /\ (u \div d) \in Int /\ (u % d) \in 0 .. (d - 1)
    BY <1>1, <2>1, DivMod
  <2>3. QED
    BY <2>1, <2>2
<1>4. d * a \in Int /\ d * c \in Int
  BY <1>1
<1>5. c >= a
  <2>1. SUFFICES ASSUME c <= a - 1 PROVE FALSE
    BY <1>2, <1>3
  <2>2. d * c <= d * (a - 1)
    BY <1>1, <2>1
  <2>3. d * (a - 1) = d * a - d
    BY <1>1
  <2>4. QED
    BY <1>1, <1>2, <1>3, <1>4, <2>2, <2>3
<1>6. d * c >= d * a
  BY <1>1, <1>5
<1>7. t - x <= (t + 1) - y
  BY <1>1, <1>2, <1>3, <1>4, <1>6
<1>8. UnixSecond(t) = t - x
  BY <1>2 DEF UnixSecond, d
<1>9. UnixSecond(t + 1) = (t + 1) - y
  BY <1>3 DEF UnixSecond, d
<1>10. QED
  BY <1>1, <1>7, <1>8, <1>9

LEMMA ClockStep ==
  ASSUME StoreInv, [Next]_vars
  PROVE  /\ now \in Nat /\ now' \in Nat /\ now <= now'
         /\ UnixSecond(now) <= UnixSecond(now')
         /\ UnixSecond(now) \in Int /\ UnixSecond(now') \in Int
<1>1. now \in Nat
  BY DEF StoreInv, TypeOK
<1>2. now' = now \/ now' = now + 1
  <2>1. CASE \E w \in Worker : Work(w)
    <3>1. PICK w \in Worker : Work(w)
      BY <2>1
    <3>2. CASE ReadControl(w) \/ ReadTime(w) \/ CreateExists(w) \/ CreateRefused(w) \/ Create(w)
      BY <3>2 DEF ReadControl, ReadTime, CreateExists, CreateRefused, Create, redis
    <3>3. CASE FetchMissing(w) \/ Fetch(w) \/ DecideStale(w) \/ DecideAccept(w) \/ DecideReject(w)
      BY <3>3 DEF FetchMissing, Fetch, DecideStale, DecideAccept, DecideReject, redis
    <3>4. CASE Commit(w) \/ TxFailed(w) \/ RemoveWatched(w) \/ LoadFresh(w) \/ LoadStale(w) \/ Evict(w)
      BY <3>4 DEF Commit, TxFailed, RemoveWatched, LoadFresh, LoadStale, Evict, redis
    <3>5. QED
      BY <3>1, <3>2, <3>3, <3>4 DEF Work
  <2>2. CASE \E w \in Worker, q \in Request : Begin(w, q)
    BY <2>2 DEF Begin, redis
  <2>3. CASE SetDraining \/ Tick \/ UNCHANGED vars \/ \E k \in Code : Terminate(k)
    BY <2>3 DEF SetDraining, Tick, Terminate, vars, redis
  <2>4. QED
    BY <2>1, <2>2, <2>3 DEF Next
<1>3. QED
  BY <1>1, <1>2, UnixSecondMonotone

\* What CreatedOK says of one worker.
Dated(phase, s, t) ==
  /\ s # NoSession => s.created <= UnixSecond(t)
  /\ phase \in {"remove", "evict"} => AbsoluteExpiry(s) <= t

LEMMA StaleIsOver ==
  ASSUME NEW s \in Session, s.created <= UnixSecond(now), now \in Nat
  PROVE  WithinLifetime(s, now) <=> now < AbsoluteExpiry(s)
BY DEF WithinLifetime

\* A worker's own step dates the copy it takes.
LEMMA DatedMove ==
  ASSUME StoreInv, CreatedOK, NEW w \in Worker,
         Work(w) \/ \E q \in Request : Begin(w, q)
  PROVE  Dated(pc'[w], snap'[w], now)
<1>1. /\ pc \in [Worker -> Phase] /\ snap \in [Worker -> Session \cup {NoSession}]
      /\ store \in [Code -> Session \cup {NoSession}] /\ now \in Nat
      /\ snap[w] # NoSession => snap[w].created <= UnixSecond(now)
      /\ UnixSecond(now) \in Int
  BY UnixSecondMonotone DEF StoreInv, TypeOK, CreatedOK
<1>2. ASSUME Finish(w) \/ Retry(w) PROVE Dated(pc'[w], snap'[w], now)
  BY <1>1, <1>2 DEF Finish, Retry, Goto, Dated
<1>3. CASE ReadControl(w) \/ \E q \in Request : Begin(w, q)
  BY <1>1, <1>2, <1>3 DEF ReadControl, Begin, FirstPhase, Goto, Dated
<1>4. CASE ReadTime(w)
  <2>1. pc'[w] = "create" /\ snap'[w] = NewSession(UnixSecond(now), req[w].cap)
    BY <1>1, <1>4 DEF ReadTime, Goto
  <2>2. snap'[w].created = UnixSecond(now)
    BY <2>1 DEF NewSession
  <2>3. QED
    BY <1>1, <2>1, <2>2 DEF Dated
<1>5. CASE Fetch(w) \/ LoadStale(w)
  <2>1. PICK k \in Code : k = req[w].code
    BY <1>5, Serving DEF Fetch, LoadStale, At
  <2>2. /\ store[k] \in Session /\ store[k].created <= UnixSecond(now)
        /\ snap'[w] = store[k] /\ pc'[w] \in {"decide", "evict"}
        /\ pc'[w] = "evict" => ~WithinLifetime(store[k], now)
    BY <1>1, <1>5, <2>1 DEF Fetch, LoadStale, Goto, Exists, CreatedOK
  <2>3. AbsoluteExpiry(store[k]) \in Int
    BY <2>2, StoreAssumption DEF AbsoluteExpiry, Session, StoreAssumption
  <2>4. QED
    BY <1>1, <2>2, <2>3, StaleIsOver DEF Dated
<1>6. CASE DecideStale(w) \/ DecideAccept(w)
  <2>1. snap[w] \in Session
    BY <1>6, Serving DEF DecideStale, DecideAccept, At, Carries
  <2>2. snap[w].created <= UnixSecond(now) /\ AbsoluteExpiry(snap[w]) \in Int
    BY <1>1, <2>1, StoreAssumption DEF AbsoluteExpiry, Session, StoreAssumption
  <2>3. CASE DecideStale(w)
    BY <1>1, <2>1, <2>2, <2>3, StaleIsOver DEF DecideStale, Goto, Dated
  <2>4. CASE DecideAccept(w)
    <3>1. pc'[w] = "exec" /\ snap'[w].created = snap[w].created
      BY <1>1, <2>1, <2>4 DEF DecideAccept, Goto, Session
    <3>2. QED
      BY <2>2, <3>1 DEF Dated
  <2>5. QED
    BY <1>6, <2>3, <2>4
<1>7. CASE CreateExists(w) \/ CreateRefused(w) \/ Create(w) \/ FetchMissing(w) \/ DecideReject(w)
  BY <1>2, <1>7 DEF CreateExists, CreateRefused, Create, FetchMissing, DecideReject
<1>8. CASE Commit(w) \/ TxFailed(w) \/ RemoveWatched(w) \/ LoadFresh(w) \/ Evict(w)
  BY <1>2, <1>8 DEF Commit, TxFailed, RemoveWatched, LoadFresh, Evict
<1>9. QED
  BY <1>3, <1>4, <1>5, <1>6, <1>7, <1>8 DEF Work

LEMMA DatedLater ==
  ASSUME NEW phase, NEW s \in Session \cup {NoSession}, NEW t \in Nat, NEW u \in Nat, t <= u,
         UnixSecond(t) <= UnixSecond(u), UnixSecond(t) \in Int, UnixSecond(u) \in Int,
         phase \in {"remove", "evict"} => s \in Session, Dated(phase, s, t)
  PROVE  Dated(phase, s, u)
BY StoreAssumption DEF Dated, AbsoluteExpiry, Session, StoreAssumption

LEMMA CreatedStep ==
  ASSUME StoreInv, OriginOK, CreatedOK, [Next]_vars
  PROVE  CreatedOK'
<1>1. /\ now \in Nat /\ now' \in Nat /\ now <= now'
      /\ UnixSecond(now) <= UnixSecond(now')
      /\ UnixSecond(now) \in Int /\ UnixSecond(now') \in Int
  BY ClockStep
<1>2. ASSUME NEW v \in Worker
      PROVE  Dated(pc'[v], snap'[v], now)
  <2>1. Dated(pc[v], snap[v], now)
    BY DEF CreatedOK, Dated
  <2>2. CASE UNCHANGED <<pc[v], req[v], snap[v]>>
    BY <2>1, <2>2
  <2>3. CASE \E w \in Worker : Work(w) \/ \E q \in Request : Begin(w, q)
    BY <2>2, <2>3, OthersWait, DatedMove
  <2>4. CASE SetDraining \/ Tick \/ UNCHANGED vars \/ \E k \in Code : Terminate(k)
    BY <2>2, <2>4 DEF SetDraining, Tick, Terminate, vars, local
  <2>5. QED
    BY <2>3, <2>4 DEF Next
<1>3. StoreInv'
  BY NextStoreInv
<1>4. ASSUME NEW v \in Worker
      PROVE  Dated(pc'[v], snap'[v], now')
  <2>1. snap'[v] \in Session \cup {NoSession}
        /\ (pc'[v] \in {"remove", "evict"} => snap'[v] \in Session)
    BY <1>3 DEF StoreInv, TypeOK, WorkerOK, Carries
  <2>2. PICK phase, s, t : phase = pc'[v] /\ s = snap'[v] /\ t = now'
    OBVIOUS
  <2>3. Dated(phase, s, t)
    BY <1>1, <1>2, <2>1, <2>2, DatedLater
  <2>4. QED
    BY <2>2, <2>3
<1>5. ASSUME NEW k \in Code, store'[k] # NoSession
      PROVE  store'[k].created <= UnixSecond(now')
  <2>1. store'[k] \in Session
    BY <1>3, <1>5 DEF StoreInv, TypeOK
  <2>2. store'[k].created \in Nat
    BY <2>1 DEF Session
  <2>3. store'[k].created <= UnixSecond(now)
    <3>1. CASE \E S \in SUBSET Code : Removes(S)
      BY <1>5, <3>1 DEF Removes, CreatedOK, Exists
    <3>2. ASSUME NEW w \in Worker, Create(w) PROVE store'[k].created <= UnixSecond(now)
      <4>1. CASE k = req[w].code
        <5>1. snap[w] \in Session /\ snap[w] # NoSession
          BY <3>2, Serving, StoreAssumption DEF Create, At, Carries, StoreAssumption
        <5>2. QED
          BY <3>2, <4>1, <5>1, CreateWrites DEF CreatedOK
      <4>2. CASE k # req[w].code
        BY <1>5, <3>2, <4>2, CreateWrites DEF CreatedOK, Exists
      <4>3. QED
        BY <4>1, <4>2
    <3>3. ASSUME NEW w \in Worker, Commit(w) PROVE store'[k].created <= UnixSecond(now)
      <4>1. CASE k = req[w].code
        BY <1>5, <3>3, <4>1, CommitWrites, StoreAssumption DEF CreatedOK, Exists, StoreAssumption
      <4>2. CASE k # req[w].code
        BY <1>5, <3>3, <4>2, CommitWrites DEF CreatedOK, Exists
      <4>3. QED
        BY <4>1, <4>2
    <3>4. QED
      BY <3>1, <3>2, <3>3, SessionsChange
  <2>4. QED
    BY <1>1, <2>2, <2>3
<1>6. QED
  BY <1>4, <1>5 DEF CreatedOK, Dated, Exists

-----------------------------------------------------------------------------
\* The invariant and what it gives

LEMMA InitContentInv == Init => ContentInv
<1>1. SUFFICES ASSUME Init PROVE ContentInv
  OBVIOUS
<1>2. StoreInv
  BY <1>1, InitStoreInv
<1>3. OriginOK
  BY <1>1 DEF Init, OriginOK, At
<1>4. /\ \A k \in Code : ~Exists(k)
      /\ \A k \in Code, r \in Role : acked[k][r] = {}
  BY <1>1 DEF Init, Exists
<1>5. OwnersOK
  BY <1>4 DEF OwnersOK, Role
<1>6. CreatedOK
  BY <1>1, <1>4 DEF Init, CreatedOK
<1>7. FifoDelivery
  BY <1>4 DEF FifoDelivery
<1>8. QED
  BY <1>2, <1>3, <1>5, <1>6, <1>7 DEF ContentInv

LEMMA NextContentInv == ContentInv /\ [Next]_vars => ContentInv'
<1>1. SUFFICES ASSUME ContentInv, [Next]_vars PROVE ContentInv'
  OBVIOUS
<1>2. StoreInv /\ OriginOK /\ OwnersOK /\ CreatedOK /\ FifoDelivery
  BY <1>1 DEF ContentInv
<1>3. StoreInv' /\ OriginOK' /\ CreatedOK'
  BY <1>1, <1>2, NextStoreInv, OriginStep, CreatedStep
<1>4. OwnersOK' /\ FifoDelivery'
  BY <1>1, <1>2, SessionsChange, OwnersRemoved, OwnersCreate, OwnersCommit,
     FifoRemoved, FifoCreate, FifoCommit
<1>5. QED
  BY <1>3, <1>4 DEF ContentInv

\* Whatever the workers, the operator and the clock do, sessions have one owner
\* per role and account for every message, and stale copies stay stale.
THEOREM ContentInvariant == Spec => []ContentInv
BY InitContentInv, NextContentInv, PTL DEF Spec

\* At most one capability is ever told that it claimed a role of a session, and
\* none is told that it claimed both: claims race through script and EXEC.
THEOREM OneOwner == Spec => []SingleOwner
<1>1. ASSUME OwnersOK, NEW k \in Code, NEW r \in Role
      PROVE  Cardinality(acked[k][r]) <= 1
  <2>1. PICK c : acked[k][r] \subseteq {c}
    BY <1>1 DEF OwnersOK
  <2>2. IsFiniteSet({c}) /\ Cardinality({c}) = 1
    BY FS_Singleton
  <2>3. QED
    BY <2>1, <2>2, FS_Subset
<1>2. ContentInv => SingleOwner
  BY <1>1 DEF ContentInv, OwnersOK, SingleOwner
<1>3. QED
  BY <1>2, ContentInvariant, PTL

\* Concurrent enqueue and dequeue commits lose, duplicate and reorder nothing.
THEOREM Delivered == Spec => []FifoDelivery
<1>1. ContentInv => FifoDelivery
  BY DEF ContentInv
<1>2. QED
  BY <1>1, ContentInvariant, PTL

\* A worker that removes a session removes one that is past its lifetime, not
\* one that has replaced it since the worker looked.
THEOREM RemovalsAreStale == Spec => OnlyStaleRemoved
<1>1. ASSUME ContentInv, [Next]_vars, NEW w \in Worker, NEW k \in Code,
             pc[w] \in {"remove", "evict"}, pc'[w] # pc[w], Exists(k), store'[k] = NoSession
      PROVE  ~WithinLifetime(store[k], now)
  <2>1. StoreInv /\ CreatedOK
    BY <1>1 DEF ContentInv
  <2>2. Work(w)
    <3>1. CASE \E v \in Worker : Work(v) \/ \E q \in Request : Begin(v, q)
      BY <1>1, <2>1, <3>1, OthersWait DEF Begin, At
    <3>2. CASE SetDraining \/ Tick \/ UNCHANGED vars \/ \E j \in Code : Terminate(j)
      BY <1>1, <3>2 DEF SetDraining, Tick, Terminate, vars, local
    <3>3. QED
      BY <1>1, <3>1, <3>2 DEF Next
  <2>3. /\ store \in [Code -> Session \cup {NoSession}] /\ now \in Nat
        /\ req[w].code \in Code /\ snap[w] \in Session
    BY <1>1, <2>1, Serving DEF StoreInv, TypeOK, Carries
  <2>4. /\ snap[w].created <= UnixSecond(now) /\ AbsoluteExpiry(snap[w]) <= now
    BY <1>1, <2>1, <2>3, StoreAssumption DEF CreatedOK, StoreAssumption
  <2>5. ~WithinLifetime(snap[w], now)
    BY <2>3, <2>4, StoreAssumption DEF WithinLifetime, AbsoluteExpiry, Session, StoreAssumption
  <2>6. k = req[w].code /\ SameValue(snap[w], store[k])
    <3>1. CASE RemoveWatched(w)
      BY <1>1, <2>1, <2>3, <3>1, WatchesOwnKey DEF RemoveWatched, Clean, Delete, Exists
    <3>2. CASE Evict(w)
      <4>1. StillHolds(req[w].code, snap[w]) /\ Delete(req[w].code)
        BY <1>1, <3>2 DEF Evict, Exists
      <4>2. k = req[w].code
        BY <1>1, <2>3, <4>1 DEF Delete, Exists
      <4>3. QED
        BY <2>3, <4>1, <4>2 DEF StillHolds, SameValue, Session
    <3>3. CASE TxFailed(w)
      BY <1>1, <3>3 DEF TxFailed, redis, Exists
    <3>4. QED
      BY <1>1, <2>2, <3>1, <3>2, <3>3
         DEF Work, At, ReadControl, ReadTime, CreateExists, CreateRefused, Create,
             FetchMissing, Fetch, DecideStale, DecideAccept, DecideReject, Commit,
             LoadFresh, LoadStale
  <2>7. snap[w].created = store[k].created /\ store[k] \in Session
    BY <1>1, <2>3, <2>6 DEF SameValue, Session, Exists
  <2>8. QED
    BY <2>5, <2>7 DEF WithinLifetime, AbsoluteExpiry
<1>2. ContentInv /\ [Next]_vars =>
        \A w \in Worker, k \in Code :
          pc[w] \in {"remove", "evict"} /\ pc'[w] # pc[w] /\ Exists(k) /\ ~Exists(k)'
            => ~WithinLifetime(store[k], now)
  BY <1>1 DEF Exists
<1>3. QED
  BY <1>2, ContentInvariant, PTL DEF Spec, OnlyStaleRemoved

-----------------------------------------------------------------------------
\* The store implements the mailbox

LEMMA SameRoles == MB!Role = Role /\ \A r \in Role : MB!Peer(r) = Peer(r)
BY DEF MB!Role, Role, MB!Peer, Peer

LEMMA ContentIsBox ==
  ASSUME NEW s \in Session
  PROVE  /\ Content(s) \in MB!Box /\ Content(s) # NoSession
         /\ Content(s).owner = s.owner /\ Content(s).info = s.info
         /\ Content(s).reports = s.reports /\ Content(s).pending = s.pending
<1>1. Content(s) \in MB!Box
  BY SameRoles DEF Content, Session, MB!Box, MB!Envelope, Envelope
<1>2. QED
  BY <1>1, ContentAssumption DEF Content

\* What each mutation does to the content of a session.
LEMMA ContentClaim ==
  ASSUME NEW s \in Session, NEW q \in Request, q.op = "claim", NEW b, b = Content(s)
  PROVE  Content(Mutated(s, q)) = [b EXCEPT !.owner[q.role] = q.cap]
<1>1. PICK o, i, r, p : o = s.owner /\ i = s.info /\ r = s.reports /\ p = s.pending
  OBVIOUS
<1>2. b = [owner |-> o, info |-> i, reports |-> r, pending |-> p]
  BY <1>1 DEF Content
<1>3. PICK x, y, t : x = q.cap /\ y = q.role /\ t = [o EXCEPT ![y] = x]
  OBVIOUS
<1>4. Content(Mutated(s, q)) = [owner |-> t, info |-> i, reports |-> r, pending |-> p]
  BY <1>1, <1>3 DEF Mutated, Content, Session
<1>5. [b EXCEPT !.owner[y] = x] = [owner |-> t, info |-> i, reports |-> r, pending |-> p]
  BY <1>2, <1>3
<1>6. QED
  BY <1>3, <1>4, <1>5

LEMMA ContentPublish ==
  ASSUME NEW s \in Session, NEW q \in Request, q.op = "publish", NEW b, b = Content(s)
  PROVE  Content(Mutated(s, q)) = [b EXCEPT !.info = @ \cup {q.role}]
<1>1. PICK o, i, r, p : o = s.owner /\ i = s.info /\ r = s.reports /\ p = s.pending
  OBVIOUS
<1>2. b = [owner |-> o, info |-> i, reports |-> r, pending |-> p]
  BY <1>1 DEF Content
<1>3. PICK t : t = i \cup {q.role}
  OBVIOUS
<1>4. Content(Mutated(s, q)) = [owner |-> o, info |-> t, reports |-> r, pending |-> p]
  BY <1>1, <1>3 DEF Mutated, Content, Session
<1>5. [b EXCEPT !.info = @ \cup {q.role}] = [owner |-> o, info |-> t, reports |-> r, pending |-> p]
  BY <1>2, <1>3
<1>6. QED
  BY <1>3, <1>4, <1>5

LEMMA ContentReport ==
  ASSUME NEW s \in Session, NEW q \in Request, q.op = "report", NEW b, b = Content(s)
  PROVE  Content(Mutated(s, q)) = [b EXCEPT !.reports = @ \cup {q.role}]
<1>1. PICK o, i, r, p : o = s.owner /\ i = s.info /\ r = s.reports /\ p = s.pending
  OBVIOUS
<1>2. b = [owner |-> o, info |-> i, reports |-> r, pending |-> p]
  BY <1>1 DEF Content
<1>3. PICK t : t = r \cup {q.role}
  OBVIOUS
<1>4. Content(Mutated(s, q)) = [owner |-> o, info |-> i, reports |-> t, pending |-> p]
  BY <1>1, <1>3 DEF Mutated, Content, Session
<1>5. [b EXCEPT !.reports = @ \cup {q.role}] = [owner |-> o, info |-> i, reports |-> t, pending |-> p]
  BY <1>2, <1>3
<1>6. QED
  BY <1>3, <1>4, <1>5

LEMMA ContentEnqueue ==
  ASSUME NEW s \in Session, NEW q \in Request, q.op = "enqueue", NEW b, b = Content(s)
  PROVE  Content(Mutated(s, q)) = [b EXCEPT !.pending[Peer(q.role)] = Append(@, Letter(q))]
<1>1. PICK o, i, r, p : o = s.owner /\ i = s.info /\ r = s.reports /\ p = s.pending
  OBVIOUS
<1>2. b = [owner |-> o, info |-> i, reports |-> r, pending |-> p]
  BY <1>1 DEF Content
<1>3. PICK x, y, t : x = Letter(q) /\ y = Peer(q.role) /\ t = [p EXCEPT ![y] = Append(@, x)]
  OBVIOUS
<1>4. Content(Mutated(s, q)) = [owner |-> o, info |-> i, reports |-> r, pending |-> t]
  BY <1>1, <1>3 DEF Mutated, Content, Session
<1>5. [b EXCEPT !.pending[y] = Append(@, x)] = [owner |-> o, info |-> i, reports |-> r, pending |-> t]
  <2>1. PICK v : v = Append(p[y], x)
    OBVIOUS
  <2>2. [b EXCEPT !.pending[y] = v] = [owner |-> o, info |-> i, reports |-> r, pending |-> t]
    <3>1. t = [p EXCEPT ![y] = v]
      BY <1>3, <2>1
    <3>2. QED
      BY <1>2, <3>1
  <2>3. b.pending[y] = p[y]
    BY <1>2
  <2>4. [b EXCEPT !.pending[y] = Append(@, x)] = [b EXCEPT !.pending[y] = v]
    BY <2>1, <2>3
  <2>5. QED
    BY <2>2, <2>4
<1>6. QED
  BY <1>3, <1>4, <1>5

LEMMA ContentDequeue ==
  ASSUME NEW s \in Session, NEW q \in Request, q.op = "dequeue", NEW b, b = Content(s)
  PROVE  Content(Mutated(s, q)) = [b EXCEPT !.pending[q.role] = Tail(@)]
<1>1. PICK o, i, r, p : o = s.owner /\ i = s.info /\ r = s.reports /\ p = s.pending
  OBVIOUS
<1>2. b = [owner |-> o, info |-> i, reports |-> r, pending |-> p]
  BY <1>1 DEF Content
<1>3. PICK y, t : y = q.role /\ t = [p EXCEPT ![y] = Tail(@)]
  OBVIOUS
<1>4. Content(Mutated(s, q)) = [owner |-> o, info |-> i, reports |-> r, pending |-> t]
  BY <1>1, <1>3 DEF Mutated, Content, Session
<1>5. [b EXCEPT !.pending[y] = Tail(@)] = [owner |-> o, info |-> i, reports |-> r, pending |-> t]
  BY <1>2, <1>3
<1>6. QED
  BY <1>3, <1>4, <1>5

LEMMA RemovalVanishes ==
  ASSUME NEW S \in SUBSET Code, Removes(S)
  PROVE  MB!Vanish(S)
<1>1. \A k \in Code : Boxes'[k] = IF k \in S THEN NoSession ELSE Boxes[k]
  BY DEF Removes, Boxes, Exists
<1>2. QED
  BY <1>1 DEF MB!Vanish, Boxes

LEMMA CreateOpens ==
  ASSUME StoreInv, OriginOK, NEW w \in Worker, Create(w)
  PROVE  MB!Open(req[w].code, req[w].cap)
<1> DEFINE q == req[w]
           k == q.code
<1>1. /\ q \in Request /\ k \in Code /\ store[k] = NoSession
      /\ \A j \in Code \ {k} : store'[j] = store[j]
      /\ store'[k] \in Session /\ store'[k] # NoSession
      /\ Content(store'[k]) = Content(NewSession(0, q.cap))
  BY CreateWrites
<1>2. Content(NewSession(0, q.cap)) = MB!NewBox(q.cap)
  BY SameRoles DEF Content, NewSession, MB!NewBox
<1>3. Boxes[k] = NoSession /\ Boxes'[k] = MB!NewBox(q.cap)
  BY <1>1, <1>2 DEF Boxes, Exists
<1>4. \A j \in Code \ {k} : Boxes'[j] = Boxes[j]
  BY <1>1 DEF Boxes, Exists
<1>5. Boxes' = [Boxes EXCEPT ![k] = MB!NewBox(q.cap)]
  BY <1>3, <1>4 DEF Boxes
<1>6. QED
  BY <1>3, <1>5 DEF MB!Open

\* A commit is the mailbox operation its request names; the repeated claim of
\* an owner shows nothing, and a session saved after its deadline vanishes.
LEMMA CommitRefines ==
  ASSUME StoreInv, OwnersOK, NEW w \in Worker, Commit(w)
  PROVE  MB!Next \/ Boxes' = Boxes
<1>1. PICK q, k : q = req[w] /\ k = q.code
  OBVIOUS
<1>2. /\ q \in Request /\ q.op # "peek" /\ k \in Code /\ store[k] \in Session
      /\ Accepts(store[k], q)
      /\ \A j \in Code \ {k} : store'[j] = store[j]
      /\ \/ store'[k] = NoSession
         \/ store'[k] # NoSession /\ Content(store'[k]) = Content(Mutated(store[k], q))
  BY <1>1, CommitWrites
<1>3. PICK s, b : s \in Session /\ s = store[k] /\ b = Content(s)
  BY <1>2
<1>4. s # NoSession
  BY <1>3, StoreAssumption DEF StoreAssumption
<1>5. /\ Boxes[k] = b /\ b # NoSession
      /\ b.owner = s.owner /\ b.info = s.info /\ b.reports = s.reports /\ b.pending = s.pending
  BY <1>2, <1>3, <1>4, ContentIsBox DEF Boxes, Exists
<1>6. \A j \in Code \ {k} : Boxes'[j] = Boxes[j]
  BY <1>2 DEF Boxes, Exists
<1>7. CASE store'[k] = NoSession
  <2>1. \A j \in Code : Boxes'[j] = IF j \in {k} THEN NoSession ELSE Boxes[j]
    BY <1>2, <1>6, <1>7 DEF Boxes, Exists
  <2>2. MB!Vanish({k})
    BY <2>1 DEF MB!Vanish, Boxes
  <2>3. QED
    BY <1>2, <2>2 DEF MB!Next
<1>8. CASE store'[k] # NoSession
  <2>1. PICK m : m = Content(Mutated(s, q))
    OBVIOUS
  <2>2. Boxes'[k] = m
    BY <1>2, <1>3, <1>8, <2>1 DEF Boxes, Exists
  <2>3. Boxes' = [Boxes EXCEPT ![k] = m]
    BY <1>6, <2>2 DEF Boxes
  <2>4. /\ q.op \in Op /\ q.role \in Role /\ q.cap \in Capability /\ q.msg \in Msg
        /\ q.cap # NoOne /\ Peer(q.role) \in Role
        /\ q.role \in MB!Role /\ MB!Peer(q.role) = Peer(q.role)
    BY <1>2, RequestType, SameRoles, StoreAssumption DEF StoreAssumption
  <2>5. CASE q.op = "claim"
    <3>1. m = [b EXCEPT !.owner[q.role] = q.cap]
      BY <1>2, <1>3, <2>1, <2>5, ContentClaim
    <3>2. MayClaim(s, q) /\ s.owner["send"] # NoOne
      BY <1>2, <1>3, <1>4, <2>5 DEF Accepts, OwnersOK, Exists
    <3>3. CASE s.owner[q.role] = q.cap
      <4>1. PICK t : t = [s EXCEPT !.owner[q.role] = q.cap] /\ t = Mutated(s, q)
        BY <2>5 DEF Mutated
      <4>2. /\ t.owner = s.owner /\ t.info = s.info
            /\ t.reports = s.reports /\ t.pending = s.pending
        <5>1. PICK x, y : x = q.cap /\ y = q.role
          OBVIOUS
        <5>2. /\ t.owner = [s.owner EXCEPT ![y] = x] /\ t.info = s.info
              /\ t.reports = s.reports /\ t.pending = s.pending
          BY <1>3, <4>1, <5>1 DEF Session
        <5>3. s.owner \in [Role -> Capability \cup {NoOne}] /\ s.owner[y] = x /\ y \in Role
          BY <1>3, <2>4, <3>3, <5>1 DEF Session
        <5>4. QED
          BY <5>2, <5>3
      <4>3. m = b
        BY <1>3, <2>1, <4>1, <4>2 DEF Content
      <4>4. QED
        BY <1>5, <2>3, <4>3 DEF Boxes
    <3>4. CASE s.owner[q.role] # q.cap
      <4>1. /\ q.role = "recv" /\ s.owner["recv"] = NoOne /\ s.owner["send"] # q.cap
        BY <2>4, <3>2, <3>4 DEF MayClaim
      <4>2. MB!Join(k, q.cap)
        BY <1>2, <1>5, <2>3, <3>1, <4>1 DEF MB!Join
      <4>3. QED
        BY <1>2, <2>4, <4>2 DEF MB!Next
    <3>5. QED
      BY <3>3, <3>4
  <2>6. CASE q.op # "claim"
    <3>1. s.owner[q.role] = q.cap /\ MB!Owns(k, q.role, q.cap)
      BY <1>2, <1>3, <1>5, <2>6 DEF Accepts, Authenticates, MayEnqueue, MayDequeue, MB!Owns
    <3>2. CASE q.op = "publish"
      <4>1. m = [b EXCEPT !.info = @ \cup {q.role}]
        BY <1>2, <1>3, <2>1, <3>2, ContentPublish
      <4>2. MB!Publish(k, q.role, q.cap)
        BY <1>2, <1>5, <2>3, <3>1, <4>1 DEF MB!Publish
      <4>3. QED
        BY <1>2, <2>4, <4>2 DEF MB!Next
    <3>3. CASE q.op = "report"
      <4>1. m = [b EXCEPT !.reports = @ \cup {q.role}]
        BY <1>2, <1>3, <2>1, <3>3, ContentReport
      <4>2. MB!Report(k, q.role, q.cap)
        BY <1>2, <1>5, <2>3, <3>1, <4>1 DEF MB!Report
      <4>3. QED
        BY <1>2, <2>4, <4>2 DEF MB!Next
    <3>4. CASE q.op = "enqueue"
      <4>1. m = [b EXCEPT !.pending[Peer(q.role)] = Append(@, Letter(q))]
        BY <1>2, <1>3, <2>1, <3>4, ContentEnqueue
      <4>2. /\ Len(b.pending[Peer(q.role)]) < QueueMax
            /\ Letter(q) = [from |-> q.cap, msg |-> q.msg]
        BY <1>2, <1>3, <1>5, <3>4 DEF Accepts, MayEnqueue, Letter
      <4>3. MB!Send(k, q.role, q.cap, q.msg)
        BY <1>2, <1>5, <2>3, <2>4, <3>1, <4>1, <4>2 DEF MB!Send
      <4>4. QED
        BY <1>2, <2>4, <4>3 DEF MB!Next
    <3>5. CASE q.op = "dequeue"
      <4>1. m = [b EXCEPT !.pending[q.role] = Tail(@)]
        BY <1>2, <1>3, <2>1, <3>5, ContentDequeue
      <4>2. b.pending[q.role] # <<>>
        BY <1>2, <1>3, <1>5, <3>5 DEF Accepts, MayDequeue
      <4>3. MB!Receive(k, q.role, q.cap)
        BY <1>2, <1>5, <2>3, <3>1, <4>1, <4>2 DEF MB!Receive
      <4>4. QED
        BY <1>2, <2>4, <4>3 DEF MB!Next
    <3>6. QED
      BY <1>2, <2>4, <2>6, <3>2, <3>3, <3>4, <3>5 DEF Op
  <2>7. QED
    BY <2>5, <2>6
<1>9. QED
  BY <1>7, <1>8

LEMMA StepRefines == ContentInv /\ [Next]_vars => [MB!Next]_Boxes
<1>1. SUFFICES ASSUME ContentInv, [Next]_vars PROVE MB!Next \/ Boxes' = Boxes
  OBVIOUS
<1>2. StoreInv /\ OriginOK /\ OwnersOK
  BY <1>1 DEF ContentInv
<1>3. ASSUME NEW S \in SUBSET Code, Removes(S) PROVE MB!Next
  BY <1>3, RemovalVanishes DEF MB!Next
<1>4. ASSUME NEW w \in Worker, Create(w) PROVE MB!Next
  <2>1. MB!Open(req[w].code, req[w].cap)
    BY <1>2, <1>4, CreateOpens
  <2>2. req[w].code \in Code /\ req[w].cap \in Capability
    BY <1>2, <1>4, CreateWrites, RequestType
  <2>3. QED
    BY <2>1, <2>2 DEF MB!Next
<1>5. QED
  BY <1>1, <1>2, <1>3, <1>4, SessionsChange, CommitRefines

\* The store with its workers, leases, scripts and optimistic transactions
\* implements the mailbox: every step is one whole operation or shows nothing.
THEOREM StoreImplementsMailbox == Spec => ImplementsMailbox
<1>1. Init => MB!Init
  BY DEF Init, MB!Init, Boxes, Exists
<1>2. QED
  BY <1>1, StepRefines, ContentInvariant, PTL DEF Spec, ImplementsMailbox, MB!Spec

=============================================================================
