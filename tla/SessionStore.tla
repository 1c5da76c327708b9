----------------------------- MODULE SessionStore -----------------------------
(***************************************************************************)
(* The Redis-backed session store of the mailbox (session_store.go) with   *)
(* the claim path in front of it (mailbox.go) and the operator controls    *)
(* beside it (metrics.go, operator.go).                                    *)
(*                                                                         *)
(* A worker is one goroutine that serves one request: an HTTP handler or   *)
(* an in-process mailbox.  Every Redis round trip is one action, so        *)
(* requests interleave between GET, TIME and EXEC exactly where the code   *)
(* lets them; Lua scripts and MULTI/EXEC blocks are atomic.                *)
(*                                                                         *)
(* A message body, peer information and transfer statistics carry no       *)
(* content here: a message is a value of Msg, "info" and "reports" are the *)
(* roles that have stored theirs.                                          *)
(***************************************************************************)
EXTENDS Integers, Sequences, FiniteSets, Functions

CONSTANTS
  Worker,       \* goroutines that serve requests
  Code,         \* session identifiers
  Capability,   \* capability verifiers
  Msg,          \* message bodies
  Bytes,        \* encoded size of each message body
  Request,      \* the requests clients make
  Command,      \* the commands an operator may issue
  NoOne,        \* owner of an unclaimed role
  NoSession,    \* value of an absent Redis key
  NoRequest,    \* request of an idle worker
  MaxSessions,  \* effectiveMaxSessions
  TTL,          \* sliding lease, in clock ticks (milliseconds)
  MaxLifetime,  \* effectiveMaxLifetime, in clock ticks
  SecondTicks,  \* ticks in the second that Unix() truncates to
  QueueMax,     \* maxPendingMailboxMessagesPerRole
  BytesMax,     \* maxPendingMailboxBytesPerSession
  MaxTime,      \* bound: the clock stops here
  MaxSent       \* bound: messages accepted for one role of one session

Role == {"send", "recv"}
Peer(role) == IF role = "send" THEN "recv" ELSE "send"
Op == {"claim", "publish", "enqueue", "dequeue", "report", "peek"}
Envelope == [from: Capability, msg: Msg]

Session == [created: Nat,                 \* CreatedUnix, in ticks
            lease: Nat,                   \* expiry of the Redis key
            owner: [Role -> Capability \cup {NoOne}],
            info: SUBSET Role,
            reports: SUBSET Role,
            pending: [Role -> Seq(Envelope)]]

ASSUME StoreAssumption ==
  /\ IsFiniteSet(Code)
  /\ NoOne \notin Capability
  /\ NoSession \notin Session
  /\ NoRequest \notin Request
  /\ Request \subseteq [op: Op, code: Code, role: Role, cap: Capability, msg: Msg]
  /\ Command \subseteq {"terminate", "drain"}
  /\ Bytes \in [Msg -> Nat]
  /\ SecondTicks \in Nat \ {0}
  /\ TTL \in Nat \ {0}
  /\ MaxLifetime \in Nat /\ MaxLifetime > SecondTicks
  /\ {MaxSessions, QueueMax, BytesMax, MaxTime, MaxSent} \subseteq Nat

VARIABLES
  now,       \* Redis's clock; it does not step back
  store,     \* wormzy:v2:sessions:<code>, with the key's expiry as "lease"
  index,     \* wormzy:v2:active-sessions, the score of each member
  draining,  \* the operator's control record
  watching,  \* connections whose WATCH on a session key is still clean
  pc, req, snap,       \* each worker's next round trip, request and session copy
  acked, sent, got     \* history: acknowledged claims, accepted and
                       \* delivered messages of the current incarnation

redis == <<now, store, index, draining, watching>>
local == <<pc, req, snap>>
history == <<acked, sent, got>>
vars == <<redis, local, history>>

NotIndexed == 0   \* no member has this score: an expiry is after creation

Phase == {"idle", "control", "time", "create", "fetch", "decide", "exec",
          "remove", "load", "evict"}

TypeOK ==
  /\ now \in Nat
  /\ store \in [Code -> Session \cup {NoSession}]
  /\ index \in [Code -> Nat]
  /\ draining \in BOOLEAN
  /\ watching \in [Code -> SUBSET Worker]
  /\ pc \in [Worker -> Phase]
  /\ req \in [Worker -> Request \cup {NoRequest}]
  /\ snap \in [Worker -> Session \cup {NoSession}]
  /\ acked \in [Code -> [Role -> SUBSET Capability]]
  /\ sent \in [Code -> [Role -> Seq(Envelope)]]
  /\ got \in [Code -> [Role -> Seq(Envelope)]]

Init ==
  /\ now = SecondTicks
  /\ store = [k \in Code |-> NoSession]
  /\ index = [k \in Code |-> NotIndexed]
  /\ draining = FALSE
  /\ watching = [k \in Code |-> {}]
  /\ pc = [w \in Worker |-> "idle"]
  /\ req = [w \in Worker |-> NoRequest]
  /\ snap = [w \in Worker |-> NoSession]
  /\ acked = [k \in Code |-> [r \in Role |-> {}]]
  /\ sent = [k \in Code |-> [r \in Role |-> <<>>]]
  /\ got = [k \in Code |-> [r \in Role |-> <<>>]]

-----------------------------------------------------------------------------
\* Deadlines

\* Mutant of UnixSecond: the subtraction the wrong way round.
UnixSecondSwapped(t) == (t % SecondTicks) - t

UnixSecond(t) == t - (t % SecondTicks)
Earlier(a, b) == IF a <= b THEN a ELSE b

AbsoluteExpiry(s) == s.created + MaxLifetime
WithinLifetime(s, t) == s.created <= UnixSecond(t) /\ t < AbsoluteExpiry(s)
\* Mutant of RefreshExpiry: the sliding lease is not capped.
RefreshExpiryUncapped(s, t) == t + TTL

RefreshExpiry(s, t) == Earlier(t + TTL, AbsoluteExpiry(s))

-----------------------------------------------------------------------------
\* Session mutations: when mutate returns nil, and the session it leaves

NewSession(created, c) ==
  [created |-> created, lease |-> 0,
   owner |-> [r \in Role |-> IF r = "send" THEN c ELSE NoOne],
   info |-> {}, reports |-> {}, pending |-> [r \in Role |-> <<>>]]

Authenticates(s, q) == s.owner[q.role] = q.cap

QueueBytes(queue) == SumFunction([i \in DOMAIN queue |-> Bytes[queue[i].msg]])
PendingBytes(s) == QueueBytes(s.pending["send"]) + QueueBytes(s.pending["recv"])

\* Mutant of MayClaim: an already registered receiver is not looked at.
MayClaimReceiver(s, q) ==
  \/ s.owner[q.role] \in {q.cap, NoOne} /\ q.role = "send"
  \/ q.role = "recv" /\ s.owner["send"] \notin {NoOne, q.cap}

MayClaim(s, q) ==
  \/ s.owner[q.role] = q.cap
  \/ s.owner[q.role] = NoOne /\ q.role = "send"
  \/ s.owner[q.role] = NoOne /\ q.role = "recv" /\ s.owner["send"] \notin {NoOne, q.cap}

MayEnqueue(s, q) ==
  /\ Authenticates(s, q)
  /\ Len(s.pending[Peer(q.role)]) < QueueMax
  /\ PendingBytes(s) <= BytesMax - Bytes[q.msg]

MayDequeue(s, q) == Authenticates(s, q) /\ s.pending[q.role] # <<>>

Accepts(s, q) ==
  \/ q.op = "claim" /\ MayClaim(s, q)
  \/ q.op \in {"publish", "report"} /\ Authenticates(s, q)
  \/ q.op = "enqueue" /\ MayEnqueue(s, q)
  \/ q.op = "dequeue" /\ MayDequeue(s, q)

\* Errors the caller answers by trying again until its context ends.
Retries(s, q) ==
  \/ q.op = "dequeue" /\ Authenticates(s, q) /\ s.pending[q.role] = <<>>
  \/ q.op = "claim" /\ q.role = "recv" /\ ~MayClaim(s, q)

Letter(q) == [from |-> q.cap, msg |-> q.msg]

Mutated(s, q) ==
  CASE q.op = "claim"   -> [s EXCEPT !.owner[q.role] = q.cap]
    [] q.op = "publish" -> [s EXCEPT !.info = @ \cup {q.role}]
    [] q.op = "report"  -> [s EXCEPT !.reports = @ \cup {q.role}]
    [] q.op = "enqueue" -> [s EXCEPT !.pending[Peer(q.role)] = Append(@, Letter(q))]
    [] q.op = "dequeue" -> [s EXCEPT !.pending[q.role] = Tail(@)]

-----------------------------------------------------------------------------
\* Redis commands

Exists(k) == store[k] # NoSession
SameValue(s, t) == [s EXCEPT !.lease = 0] = [t EXCEPT !.lease = 0]

\* DEL key; ZREM index code.
Delete(k) ==
  /\ store' = [store EXCEPT ![k] = NoSession]
  /\ index' = [index EXCEPT ![k] = NotIndexed]
  /\ watching' = [watching EXCEPT ![k] = IF Exists(k) THEN {} ELSE @]

\* Mutant of Save: a refresh forgets the capacity index.
SaveUnindexed(k, s) ==
  /\ store' = [store EXCEPT ![k] = IF s.lease <= now THEN NoSession ELSE s]
  /\ watching' = [watching EXCEPT ![k] = {}]
  /\ UNCHANGED index

\* SET key; PEXPIREAT key, which deletes at once when the expiry has come;
\* ZADD index.
Save(k, s) ==
  /\ store' = [store EXCEPT ![k] = IF s.lease <= now THEN NoSession ELSE s]
  /\ index' = [index EXCEPT ![k] = s.lease]
  /\ watching' = [watching EXCEPT ![k] = {}]

\* ZREMRANGEBYSCORE index -inf now
Purged == [k \in Code |-> IF index[k] <= now THEN NotIndexed ELSE index[k]]
Indexed(ix) == {k \in Code : ix[k] # NotIndexed}

\* Keys die when the clock passes their expiry; their watchers notice.
Tick ==
  /\ now < MaxTime
  /\ now' = now + 1
  /\ store' = [k \in Code |-> IF Exists(k) /\ store[k].lease < now + 1
                              THEN NoSession ELSE store[k]]
  /\ watching' = [k \in Code |-> IF Exists(k) /\ store[k].lease < now + 1
                                 THEN {} ELSE watching[k]]
  /\ UNCHANGED <<index, draining, local, history>>

-----------------------------------------------------------------------------
\* Worker steps

At(w, phase) == pc[w] = phase
Goto(w, phase) == pc' = [pc EXCEPT ![w] = phase]

Finish(w) ==
  /\ Goto(w, "idle")
  /\ req' = [req EXCEPT ![w] = NoRequest]
  /\ snap' = [snap EXCEPT ![w] = NoSession]

\* Another round of the modify loop.
Retry(w) ==
  /\ Goto(w, "fetch")
  /\ snap' = [snap EXCEPT ![w] = NoSession]
  /\ UNCHANGED req

FirstPhase(q) == IF q.op = "peek" THEN "load"
                 ELSE IF q.op = "claim" /\ q.role = "send" THEN "control"
                 ELSE "fetch"

Begin(w, q) ==
  /\ At(w, "idle")
  /\ q.op = "enqueue" => Len(sent[q.code][Peer(q.role)]) < MaxSent
  /\ Goto(w, FirstPhase(q))
  /\ req' = [req EXCEPT ![w] = q]
  /\ UNCHANGED <<redis, snap, history>>

\* Claim reads the drain control before it registers a sender.
ReadControl(w) ==
  /\ At(w, "control")
  /\ \/ draining /\ Finish(w)
     \/ ~draining /\ Goto(w, "time") /\ UNCHANGED <<req, snap>>
  /\ UNCHANGED <<redis, history>>

\* createSenderSession: TIME, then the payload for the script.
ReadTime(w) ==
  /\ At(w, "time")
  /\ snap' = [snap EXCEPT ![w] = NewSession(UnixSecond(now), req[w].cap)]
  /\ Goto(w, "create")
  /\ UNCHANGED <<redis, req, history>>

\* mailboxSessionCreateScript
CreateExists(w) ==
  /\ At(w, "create") /\ Exists(req[w].code)
  /\ Retry(w)
  /\ UNCHANGED <<redis, history>>

CreateRefused(w) ==
  /\ At(w, "create") /\ ~Exists(req[w].code)
  /\ \/ Cardinality(Indexed(Purged)) >= MaxSessions
     \/ RefreshExpiry(snap[w], now) <= now
  /\ index' = Purged
  /\ Finish(w)
  /\ UNCHANGED <<now, store, draining, watching, history>>

Create(w) ==
  LET k == req[w].code
      expires == RefreshExpiry(snap[w], now)
  IN /\ At(w, "create") /\ ~Exists(k)
     /\ Cardinality(Indexed(Purged)) < MaxSessions
     /\ now < expires
     /\ store' = [store EXCEPT ![k] = [snap[w] EXCEPT !.lease = expires]]
     /\ index' = [Purged EXCEPT ![k] = expires]
     /\ acked' = [acked EXCEPT ![k] =
                    [r \in Role |-> IF r = "send" THEN {req[w].cap} ELSE {}]]
     /\ sent' = [sent EXCEPT ![k] = [r \in Role |-> <<>>]]
     /\ got' = [got EXCEPT ![k] = [r \in Role |-> <<>>]]
     /\ Finish(w)
     /\ UNCHANGED <<now, draining, watching>>

\* modify: WATCH and GET.
FetchMissing(w) ==
  /\ At(w, "fetch") /\ ~Exists(req[w].code)
  /\ Finish(w)
  /\ UNCHANGED <<redis, history>>

Fetch(w) ==
  LET k == req[w].code
  IN /\ At(w, "fetch") /\ Exists(k)
     /\ snap' = [snap EXCEPT ![w] = store[k]]
     /\ watching' = [watching EXCEPT ![k] = @ \cup {w}]
     /\ Goto(w, "decide")
     /\ UNCHANGED <<now, store, index, draining, req, history>>

\* modify: TIME, then mutate on the copy.
Unwatch(w) == watching' = [watching EXCEPT ![req[w].code] = @ \ {w}]

DecideStale(w) ==
  /\ At(w, "decide") /\ ~WithinLifetime(snap[w], now)
  /\ Goto(w, "remove")
  /\ UNCHANGED <<redis, req, snap, history>>

DecideAccept(w) ==
  /\ At(w, "decide") /\ WithinLifetime(snap[w], now)
  /\ Accepts(snap[w], req[w])
  /\ snap' = [snap EXCEPT ![w].lease = RefreshExpiry(snap[w], now)]
  /\ Goto(w, "exec")
  /\ UNCHANGED <<redis, req, history>>

DecideReject(w) ==
  /\ At(w, "decide") /\ WithinLifetime(snap[w], now)
  /\ ~Accepts(snap[w], req[w])
  /\ Finish(w) \/ (Retries(snap[w], req[w]) /\ Retry(w))
  /\ Unwatch(w)
  /\ UNCHANGED <<now, store, index, draining, history>>

\* Mutant of Clean: EXEC without WATCH.
CleanAlways(w) == TRUE

\* modify: MULTI ... EXEC
Clean(w) == w \in watching[req[w].code]

Commit(w) ==
  LET q == req[w]
      k == q.code
  IN /\ At(w, "exec") /\ Clean(w)
     /\ Save(k, Mutated(snap[w], q))
     /\ acked' = IF q.op = "claim" THEN [acked EXCEPT ![k][q.role] = @ \cup {q.cap}]
                 ELSE acked
     /\ sent' = IF q.op = "enqueue" THEN [sent EXCEPT ![k][Peer(q.role)] = Append(@, Letter(q))]
                ELSE sent
     /\ got' = IF q.op = "dequeue"
               THEN [got EXCEPT ![k][q.role] = Append(@, Head(snap[w].pending[q.role]))]
               ELSE got
     /\ Finish(w)
     /\ UNCHANGED <<now, draining>>

TxFailed(w) ==
  /\ pc[w] \in {"exec", "remove"} /\ ~Clean(w)
  /\ Retry(w)
  /\ UNCHANGED <<redis, history>>

RemoveWatched(w) ==
  /\ At(w, "remove") /\ Clean(w)
  /\ Delete(req[w].code)
  /\ Finish(w)
  /\ UNCHANGED <<now, draining, history>>

\* load: pipelined GET and TIME.  waitForPeer polls it, authenticate calls it
\* once; neither writes unless the session has outlived its lifetime.
LoadFresh(w) ==
  /\ At(w, "load")
  /\ Exists(req[w].code) => WithinLifetime(store[req[w].code], now)
  /\ Finish(w)
  /\ UNCHANGED <<redis, history>>

LoadStale(w) ==
  LET k == req[w].code
  IN /\ At(w, "load") /\ Exists(k) /\ ~WithinLifetime(store[k], now)
     /\ snap' = [snap EXCEPT ![w] = store[k]]
     /\ Goto(w, "evict")
     /\ UNCHANGED <<redis, req, history>>

\* Mutant of StillHolds: an unconditional DEL.
StillPresent(k, s) == Exists(k)

\* mailboxSessionDeleteIfValueScript
StillHolds(k, s) == Exists(k) /\ SameValue(store[k], s)

Evict(w) ==
  /\ At(w, "evict")
  /\ IF StillHolds(req[w].code, snap[w]) THEN Delete(req[w].code)
     ELSE UNCHANGED <<store, index, watching>>
  /\ Finish(w)
  /\ UNCHANGED <<now, draining, history>>

-----------------------------------------------------------------------------
\* Operator console

Terminate(k) ==
  /\ "terminate" \in Command
  /\ Exists(k) \/ index[k] # NotIndexed
  /\ Delete(k)
  /\ UNCHANGED <<now, draining, local, history>>

SetDraining ==
  /\ "drain" \in Command
  /\ draining' = ~draining
  /\ UNCHANGED <<now, store, index, watching, local, history>>

-----------------------------------------------------------------------------
Work(w) ==
  \/ ReadControl(w) \/ ReadTime(w)
  \/ CreateExists(w) \/ CreateRefused(w) \/ Create(w)
  \/ FetchMissing(w) \/ Fetch(w)
  \/ DecideStale(w) \/ DecideAccept(w) \/ DecideReject(w)
  \/ Commit(w) \/ TxFailed(w) \/ RemoveWatched(w)
  \/ LoadFresh(w) \/ LoadStale(w) \/ Evict(w)

Next ==
  \/ \E w \in Worker : Work(w) \/ \E q \in Request : Begin(w, q)
  \/ \E k \in Code : Terminate(k)
  \/ SetDraining
  \/ Tick

Spec == Init /\ [][Next]_vars

-----------------------------------------------------------------------------
\* Properties

\* Every message accepted for a role in this incarnation of a session is
\* either still pending or has been handed out, once, in the order accepted:
\* concurrent enqueue and dequeue commits neither lose, duplicate nor reorder.
FifoDelivery ==
  \A k \in Code : Exists(k) =>
    \A r \in Role : sent[k][r] = got[k][r] \o store[k].pending[r]

\* Over the whole life of a session at most one capability is ever told it
\* claimed a role, and no capability holds both: claims racing through the
\* create script and the modify loop cannot both succeed.
SingleOwner ==
  \A k \in Code :
    /\ \A r \in Role : Cardinality(acked[k][r]) <= 1
    /\ acked[k]["send"] \cap acked[k]["recv"] = {}

\* Refreshes never extend a session beyond its absolute lifetime, counted from
\* the creation second the sender's request read before the script ran.
LeaseWithinLifetime ==
  \A k \in Code : Exists(k) => store[k].lease <= AbsoluteExpiry(store[k])

Active == {k \in Code : Exists(k) /\ store[k].lease > now}

\* The capacity index knows the exact expiry of every session whose lease has
\* not run out, whichever of script, commit, eviction and termination ran last.
IndexCoversActive == \A k \in Active : index[k] = store[k].lease

\* A committed claim, publication or report of a session survives every later
\* step that leaves the session in place: no stale copy is written over it.
NoLostUpdate ==
  [][\A k \in Code : Exists(k) /\ Exists(k)' =>
       /\ store[k].created = store'[k].created
       /\ store[k].info \subseteq store'[k].info
       /\ store[k].reports \subseteq store'[k].reports
       /\ \A r \in Role : store[k].owner[r] \in {NoOne, store'[k].owner[r]}]_vars

\* A commit never shortens the lease an earlier commit granted, although each
\* computes its own from a clock reading taken before its EXEC.
LeaseNeverShrinks ==
  [][\A k \in Code : Exists(k) /\ Exists(k)' => store[k].lease <= store'[k].lease]_vars

\* Only the operator or the lapse of its own lease removes a session that is
\* within its absolute lifetime: neither the watched removal nor the
\* compare-and-delete script can hit a session that replaced the stale one.
OnlyStaleRemoved ==
  [][\A w \in Worker, k \in Code :
       pc[w] \in {"remove", "evict"} /\ pc'[w] # pc[w] /\ Exists(k) /\ ~Exists(k)'
         => ~WithinLifetime(store[k], now)]_vars

\* The store implements the mailbox it promises: seen through the content of
\* its sessions, every step is one whole mailbox operation or invisible.
Content(s) == [owner |-> s.owner, info |-> s.info, reports |-> s.reports,
               pending |-> s.pending]
Boxes == [k \in Code |-> IF Exists(k) THEN Content(store[k]) ELSE NoSession]
MB == INSTANCE Mailbox WITH NoBox <- NoSession, box <- Boxes
ImplementsMailbox == MB!Spec

\* The value of an absent key is not the content of a session either.
ASSUME ContentAssumption == NoSession \notin MB!Box
-----------------------------------------------------------------------------
\* The inductive invariant behind the proofs

\* What a worker in a phase carries between its round trips: its request q
\* and its session copy s, at time t.
Carries(phase, q, s, t) ==
  /\ phase # "idle" => q \in Request
  /\ phase \in {"create", "decide", "exec", "remove", "evict"} => s \in Session
  /\ phase = "create" => s.created <= t
  /\ phase \notin {"idle", "load", "evict"} => q.op # "peek"
  /\ phase = "exec" => /\ Accepts(s, q)
                       /\ s.lease <= AbsoluteExpiry(s)
                       /\ s.lease <= t + TTL

WorkerOK == \A w \in Worker : Carries(pc[w], req[w], snap[w], now)

\* A clean WATCH means the worker's copy is the session, and that the lease it
\* is about to grant is no shorter than the one in force.
WatchOK ==
  \A k \in Code : \A w \in watching[k] :
    /\ pc[w] \in {"decide", "exec", "remove"}
    /\ req[w].code = k
    /\ Exists(k)
    /\ SameValue(snap[w], store[k])
    /\ pc[w] = "exec" => store[k].lease <= snap[w].lease

LeaseOK ==
  \A k \in Code : Exists(k) =>
    /\ now <= store[k].lease
    /\ store[k].lease <= now + TTL
    /\ store[k].lease <= AbsoluteExpiry(store[k])

StoreInv == TypeOK /\ WorkerOK /\ WatchOK /\ LeaseOK /\ IndexCoversActive

\* A worker that may create a session is a sender's claim, for its capability.
OriginOK ==
  \A w \in Worker :
    /\ pc[w] \in {"control", "time", "create"} => req[w].op = "claim" /\ req[w].role = "send"
    /\ At(w, "create") => snap[w] = NewSession(snap[w].created, req[w].cap)

\* Whoever was told it claimed a role owns it as long as the session is there.
OwnersOK ==
  \A k \in Code :
    /\ \A r \in Role : \E c \in Capability \cup {NoOne} : acked[k][r] \subseteq {c}
    /\ acked[k]["send"] \cap acked[k]["recv"] = {}
    /\ Exists(k) => /\ store[k].owner["send"] \notin {NoOne, store[k].owner["recv"]}
                    /\ \A r \in Role : acked[k][r] \subseteq {store[k].owner[r]}

\* No creation second lies ahead, so what was found stale stays stale.
CreatedOK ==
  /\ \A k \in Code : Exists(k) => store[k].created <= UnixSecond(now)
  /\ \A w \in Worker : snap[w] # NoSession => snap[w].created <= UnixSecond(now)
  /\ \A w \in Worker : pc[w] \in {"remove", "evict"} => AbsoluteExpiry(snap[w]) <= now

ContentInv == StoreInv /\ OriginOK /\ OwnersOK /\ CreatedOK /\ FifoDelivery
=============================================================================
