------------------------------ MODULE HTTPMailbox ------------------------------
(***************************************************************************)
(* The public mailbox as its clients see it: mailbox_http_client.go on one *)
(* side, mailbox_http_server.go with the admission limits of               *)
(* mailbox_limits.go on the other, over the abstract Mailbox that          *)
(* SessionStore implements.                                                *)
(*                                                                         *)
(* A client makes one call at a time, in any order, and may give a call up *)
(* when its context ends; a call is one HTTP request, a long poll is a new *)
(* request after every answer 204.  A handler is the goroutine serving one *)
(* request, and outlives a call that was given up until the server notices *)
(* (r.Context) or the request is done.  Each Redis round trip and each     *)
(* critical section of the long-poll gate is one action.                   *)
(***************************************************************************)
EXTENDS Integers, Sequences, FiniteSets

CONSTANTS
  Client,       \* peer processes, each with a capability of its own
  RoleOf,       \* the role each client plays
  Addr,         \* the address mailboxClientIP finds for each client
  Code,         \* the session identifiers claimed, one in each instance
  Calls,        \* the calls each client makes
  Limit,        \* requests admitted per window, for each scope
  MaxPolls,     \* defaultMailboxLongPollLimit
  QueueMax,     \* maxPendingMailboxMessagesPerRole
  NoOne, NoBox, \* as in Mailbox
  MaxHandlers,  \* bound: requests served at a time
  MaxCalls,     \* bound: calls per client
  MaxAway,      \* bound: clients that give a call up
  MaxFaults,    \* bound: Redis failures and refusals on behalf of others
  MaxWindows    \* bound: rate windows that end

Role == {"send", "recv"}
Op == {"claim", "self", "wait", "send", "receive", "stats"}
Handler == 1 .. MaxHandlers
NoHandler == 0
Scope == {"claim-send-ip", "claim-recv-ip", "claim-recv-session", "claim-global",
          "authenticated-capability"}
Answer == {"ok", "again", "throttled", "denied", "unavailable"}
Stage == {"free", "attempt", "limit", "authenticate", "gate", "act", "poll",
          "release", "reply"}
NoMsg == 0
Msg == 1 .. MaxCalls

ASSUME HTTPAssumption ==
  /\ Client # {} /\ IsFiniteSet(Client) /\ NoOne \notin Client
  /\ Code # {}
  /\ RoleOf \in [Client -> Role]
  /\ Calls \in [Client -> SUBSET Op]
  /\ Limit \in [Scope -> Nat \ {0}]
  /\ {MaxPolls, QueueMax, MaxHandlers, MaxCalls, MaxAway, MaxFaults, MaxWindows} \subseteq Nat

VARIABLES
  box,       \* the store, as Mailbox describes it
  count,     \* the counter of each scope and identity in the current window
  active,    \* the long-poll gate: capabilities with a poll
  task,      \* what each handler serves, how far it is, its answer
  call,      \* what each client is doing, and the request it waits for
  done,      \* calls each client has begun
  joined,    \* clients that were told their code
  windows,   \* rate windows that have ended
  faults,    \* Redis failures and refusals on behalf of others, so far
  carried,   \* history: claims half counted when the window turned
  away,      \* history: clients that gave a call up or lost its connection
  failed,    \* history: clients that were given an error
  taken, got \* history: messages dequeued for, and received by, each client

server == <<box, count, active>>
history == <<carried, away, failed, taken, got>>
env == <<windows, faults>>
clients == <<call, done, joined>>
vars == <<server, task, clients, env, history>>

Store == INSTANCE Mailbox WITH Capability <- Client

Idle == [op |-> "none", at |-> "idle", via |-> NoHandler]
Vacant == [of |-> NoOne, op |-> "none", at |-> "free", todo |-> <<>>,
           say |-> "none", msg |-> NoMsg]

\* The identity a scope counts: an address, a session, a capability, or all.
Identity(scope, c) ==
  CASE scope \in {"claim-send-ip", "claim-recv-ip"} -> Addr[c]
    [] scope = "authenticated-capability" -> c
    [] OTHER -> "all"
Key == {<<s, Identity(s, c)>> : s \in Scope, c \in Client}

Task == [of: Client \cup {NoOne}, op: Op \cup {"none"}, at: Stage, todo: Seq(Scope),
         say: Answer \cup {"none"}, msg: Msg \cup {NoMsg}]

TypeOK ==
  /\ box \in [Code -> Store!Box \cup {NoBox}]
  /\ count \in [Key -> Nat] /\ \A k \in Key : count[k] <= Limit[k[1]] + 1
  /\ active \subseteq Client
  /\ task \in [Handler -> Task]
  /\ \A h \in Handler : task[h].at = "limit" => task[h].todo # <<>>
  /\ call \in [Client -> [op: Op \cup {"none"}, at: {"idle", "wait", "pause"},
                          via: Handler \cup {NoHandler}]]
  /\ done \in [Client -> 0 .. MaxCalls]
  /\ \A c \in Client : call[c].at # "idle" => call[c].op \in Op /\ done[c] # 0
  /\ joined \subseteq Client
  /\ windows \in 0 .. MaxWindows /\ faults \in 0 .. MaxFaults /\ carried \in 0 .. MaxHandlers
  /\ away \subseteq Client /\ failed \subseteq Client
  /\ taken \in [Client -> Seq(Msg)] /\ got \in [Client -> Seq(Msg)]

Init ==
  /\ Store!Init
  /\ count = [k \in Key |-> 0]
  /\ active = {}
  /\ task = [h \in Handler |-> Vacant]
  /\ call = [c \in Client |-> Idle]
  /\ done = [c \in Client |-> 0]
  /\ joined = {}
  /\ windows = 0 /\ faults = 0 /\ carried = 0
  /\ away = {} /\ failed = {}
  /\ taken = [c \in Client |-> <<>>] /\ got = [c \in Client |-> <<>>]

TheCode == CHOOSE k \in Code : TRUE
Owner(c) == Store!Owns(TheCode, RoleOf[c], c)
LongPoll(c, o) == o \in {"wait", "receive"} \/ (o = "claim" /\ RoleOf[c] = "recv")
Queue(c) == IF box[TheCode] = NoBox THEN <<>> ELSE box[TheCode].pending[RoleOf[c]]

-----------------------------------------------------------------------------
\* The client: doJSON, and doLongPollJSON around it

\* Mutant of ClaimScopes: the common budget is asked first.
ClaimScopesGlobalFirst(c) ==
  IF RoleOf[c] = "send" THEN <<"claim-global", "claim-send-ip">>
                        ELSE <<"claim-global", "claim-recv-ip", "claim-recv-session">>

\* Mutant of ClaimScopes: the common budget is not asked.
ClaimScopesNarrow(c) ==
  IF RoleOf[c] = "send" THEN <<"claim-send-ip">>
                        ELSE <<"claim-recv-ip", "claim-recv-session">>

\* allowClaim, before anything else is done for a claim.
ClaimScopes(c) ==
  IF RoleOf[c] = "send" THEN <<"claim-send-ip", "claim-global">>
                        ELSE <<"claim-recv-ip", "claim-recv-session", "claim-global">>

\* A request reaches the server; h serves it.
Post(c, o) ==
  \E h \in Handler :
    /\ task[h].at = "free" /\ \A g \in 1 .. h - 1 : task[g].at # "free"
    /\ task' = [task EXCEPT ![h] =
         [of |-> c, op |-> o, at |-> IF o = "claim" THEN "limit" ELSE "attempt",
          todo |-> IF o = "claim" THEN ClaimScopes(c) ELSE <<"authenticated-capability">>,
          say |-> "none", msg |-> IF o = "send" THEN done'[c] ELSE NoMsg]]
    /\ call' = [call EXCEPT ![c] = [op |-> o, at |-> "wait", via |-> h]]

\* A run claims its code first, and makes no other call unless that worked.
Begin(c, o) ==
  /\ call[c].at = "idle" /\ done[c] < MaxCalls /\ o \in Calls[c]
  /\ IF o = "claim" THEN done[c] = 0 ELSE c \in joined
  /\ done' = [done EXCEPT ![c] = @ + 1]
  /\ Post(c, o)
  /\ UNCHANGED <<server, joined, env, history>>

\* Mutant of Resume: only a claim is resumed.
ResumeClaims(c) ==
  /\ call[c].at = "pause" /\ call[c].op = "claim"
  /\ Post(c, call[c].op)
  /\ UNCHANGED <<server, done, joined, env, history>>

\* mailboxPollRetryDelay has passed.
Resume(c) ==
  /\ call[c].at = "pause"
  /\ Post(c, call[c].op)
  /\ UNCHANGED <<server, done, joined, env, history>>

\* The context of the call ends, the HTTP client's timeout, or the connection.
GiveUp(c) ==
  /\ call[c].at # "idle" /\ Cardinality(away \cup {c}) <= MaxAway
  /\ call' = [call EXCEPT ![c] = Idle]
  /\ away' = away \cup {c}
  /\ UNCHANGED <<server, task, done, joined, env, carried, failed, taken, got>>

-----------------------------------------------------------------------------
\* The handler

Waited(h) == call[task[h].of].via = h
Goto(h, stage) == task' = [task EXCEPT ![h].at = stage]

\* Mutant of Closing: an answer other than success skips the deferred release.
ClosingLeaky(h, say) == IF task[h].at = "poll" /\ say = "ok" THEN "release" ELSE "reply"

\* A handler that holds a slot of the gate gives it back before its answer,
\* which net/http flushes when the handler has returned.
Closing(h, say) == IF task[h].at = "poll" THEN "release" ELSE "reply"

Answers(h, say, m) ==
  task' = [task EXCEPT ![h].at = Closing(h, say), ![h].say = say, ![h].msg = m]

\* What follows the last counter of a group.
AfterScope(h, scope) ==
  CASE scope = "claim-global" -> IF RoleOf[task[h].of] = "send" THEN "act" ELSE "gate"
    [] scope = "authenticated-capability" ->
         IF LongPoll(task[h].of, task[h].op) THEN "gate" ELSE "act"
    [] OTHER -> "limit"

\* allow: the increment script.  A counter stays at one above its limit here.
Count(h) ==
  /\ task[h].at = "limit"
  /\ LET scope == Head(task[h].todo)
         key == <<scope, Identity(scope, task[h].of)>>
     IN /\ count' = [count EXCEPT ![key] = IF @ > Limit[scope] THEN @ ELSE @ + 1]
        /\ IF count'[key] <= Limit[scope]
           THEN task' = [task EXCEPT ![h].todo = Tail(@), ![h].at = AfterScope(h, scope)]
           ELSE Answers(h, "throttled", NoMsg)
  /\ UNCHANGED <<box, active, clients, env, history>>

Fault == faults < MaxFaults /\ faults' = faults + 1

\* authorizeMailboxOperation: the counters of the address and of everybody are
\* shared with clients outside the model, so they may be spent or not.
Attempt(h) ==
  /\ task[h].at = "attempt"
  /\ \/ Goto(h, "authenticate") /\ UNCHANGED faults
     \/ Fault /\ Answers(h, "throttled", NoMsg)
  /\ UNCHANGED <<server, clients, windows, history>>

\* authorizeMailboxIdentity: authenticate, then the capability's own counter.
Authenticate(h) ==
  /\ task[h].at = "authenticate"
  /\ IF Owner(task[h].of)
     THEN Goto(h, "limit")
     ELSE Answers(h, "denied", NoMsg)
  /\ UNCHANGED <<server, clients, env, history>>

\* Mutant of Admits: a second poll of a capability is let in.
AdmitsAgain(c) == Cardinality(active) < MaxPolls

Admits(c) == c \notin active /\ Cardinality(active) < MaxPolls

\* beginMailboxLongPoll
Acquire(h) ==
  /\ task[h].at = "gate"
  /\ LET c == task[h].of IN
     IF Admits(c) THEN active' = active \cup {c} /\ Goto(h, "poll")
                  ELSE Answers(h, "throttled", NoMsg) /\ UNCHANGED active
  /\ UNCHANGED <<box, count, clients, env, history>>

\* A commit whose reply from Redis is lost is answered as a failure.
Commits(h, m) == \/ Answers(h, "ok", m) /\ UNCHANGED faults
                 \/ Fault /\ Answers(h, "unavailable", NoMsg)

\* handleClaim for a sender, handleStoreSelf, handleSend, handleStats
ClaimSender(c) == Store!Open(TheCode, c)
StoreSelf(c) == Store!Publish(TheCode, RoleOf[c], c)
SendMessage(c, m) == Store!Send(TheCode, RoleOf[c], c, m)
ReportStats(c) == Store!Report(TheCode, RoleOf[c], c)

\* A call that does not wait: registerSender, updatePeerInfo, enqueue, recordStats.
Serve(h) ==
  /\ task[h].at = "act"
  /\ LET c == task[h].of IN
     \/ task[h].op = "claim" /\ ClaimSender(c)
     \/ task[h].op = "self" /\ StoreSelf(c)
     \/ task[h].op = "send" /\ SendMessage(c, task[h].msg)
     \/ task[h].op = "stats" /\ ReportStats(c)
  /\ Commits(h, NoMsg)
  /\ UNCHANGED <<count, active, clients, windows, history>>

\* The store refuses: the session is gone, or the peer's queue is full.
Refuse(h) ==
  /\ task[h].op # "claim"
  /\ \/ /\ task[h].at \in {"act", "poll"} /\ ~Owner(task[h].of)
        /\ Answers(h, "denied", NoMsg)
     \/ /\ task[h].at = "act" /\ task[h].op = "send" /\ Owner(task[h].of)
        /\ Len(box[TheCode].pending[Store!Peer(RoleOf[task[h].of])]) >= QueueMax
        /\ Answers(h, "unavailable", NoMsg)
  /\ UNCHANGED <<server, clients, env, history>>

\* dequeue commits.
Take(h) ==
  /\ task[h].at = "poll" /\ task[h].op = "receive"
  /\ LET c == task[h].of
         m == Head(Queue(c)).msg
     IN /\ Store!Receive(TheCode, RoleOf[c], c)
        /\ taken' = [taken EXCEPT ![c] = Append(@, m)]
        /\ Commits(h, m)
  /\ UNCHANGED <<count, active, clients, windows, carried, away, failed, got>>

\* registerReceiver commits.
Join(h) ==
  /\ task[h].at = "poll" /\ task[h].op = "claim"
  /\ Store!Join(TheCode, task[h].of)
  /\ Commits(h, NoMsg)
  /\ UNCHANGED <<count, active, clients, windows, history>>

\* waitForPeer finds the peer's information.
SeePeer(h) ==
  /\ task[h].at = "poll" /\ task[h].op = "wait" /\ Owner(task[h].of)
  /\ Store!Peer(RoleOf[task[h].of]) \in box[TheCode].info
  /\ Answers(h, "ok", NoMsg)
  /\ UNCHANGED <<server, clients, env, history>>

\* Mutant of Expires: the deadline is looked at after the commit as well.
ExpiresLate(h) == task[h].at \in {"poll", "release"} /\ task[h].op # "wait"

Expires(h) == task[h].at = "poll"

\* pollTimeout ends the wait: 204, and the client asks again.
PollTimeout(h) ==
  /\ Expires(h)
  /\ task' = [task EXCEPT ![h].at = "release", ![h].say = "again", ![h].msg = NoMsg]
  /\ UNCHANGED <<server, clients, env, history>>

Interruptible == {"attempt", "limit", "authenticate", "act", "poll"}

\* A Redis round trip fails before it had an effect.
RedisFails(h) ==
  /\ task[h].at \in Interruptible /\ Fault
  /\ Answers(h, "unavailable", NoMsg)
  /\ UNCHANGED <<server, clients, windows, history>>

\* r.Context is cancelled because the client is gone; the handler returns.
Notice(h) ==
  /\ task[h].at \in Interruptible /\ ~Waited(h)
  /\ Answers(h, "unavailable", NoMsg)
  /\ UNCHANGED <<server, clients, env, history>>

\* The deferred release.
Release(h) ==
  /\ task[h].at = "release"
  /\ active' = active \ {task[h].of}
  /\ Goto(h, "reply")
  /\ UNCHANGED <<box, count, clients, env, history>>

\* The answer reaches a client that waits for it, or nobody.
Reply(h) ==
  /\ task[h].at = "reply"
  /\ task' = [task EXCEPT ![h] = Vacant]
  /\ LET c == task[h].of
         say == task[h].say
     IN IF Waited(h)
        THEN /\ call' = [call EXCEPT ![c] = IF say = "again"
                           THEN [op |-> task[h].op, at |-> "pause", via |-> NoHandler]
                           ELSE Idle]
             /\ joined' = IF task[h].op = "claim" /\ say = "ok" THEN joined \cup {c} ELSE joined
             /\ failed' = IF say \in {"ok", "again"} THEN failed ELSE failed \cup {c}
             /\ got' = IF task[h].msg = NoMsg THEN got
                       ELSE [got EXCEPT ![c] = Append(@, task[h].msg)]
        ELSE UNCHANGED <<call, joined, failed, got>>
  /\ UNCHANGED <<server, done, env, carried, away, taken>>

-----------------------------------------------------------------------------
\* Beside the requests

\* Claims that every counter but the common one has admitted.
Pending == {h \in Handler : task[h].at = "limit" /\ Head(task[h].todo) = "claim-global"}

\* A rate window ends: every counter has a new key.
Turn ==
  /\ windows < MaxWindows
  /\ windows' = windows + 1
  /\ count' = [k \in Key |-> 0]
  /\ carried' = Cardinality(Pending)
  /\ UNCHANGED <<box, active, task, clients, faults, away, failed, taken, got>>

\* The session expires or is terminated.
Vanish ==
  /\ box[TheCode] # NoBox
  /\ Store!Vanish({TheCode})
  /\ UNCHANGED <<count, active, task, clients, env, history>>

-----------------------------------------------------------------------------
Poll(h) == Take(h) \/ Join(h) \/ SeePeer(h)
Step(h) == \/ Attempt(h) \/ Count(h) \/ Authenticate(h) \/ Acquire(h)
           \/ Serve(h) \/ Refuse(h) \/ Poll(h)
           \/ Notice(h) \/ Release(h) \/ Reply(h)

Next ==
  \/ \E c \in Client : (\E o \in Op : Begin(c, o)) \/ Resume(c) \/ GiveUp(c)
  \/ \E h \in Handler : Step(h) \/ PollTimeout(h) \/ RedisFails(h)
  \/ Turn \/ Vanish

Spec == Init /\ [][Next]_vars
PromptSpec == /\ Spec
              /\ \A h \in Handler : WF_vars(Step(h))
              /\ \A c \in Client : WF_vars(Resume(c))

-----------------------------------------------------------------------------
\* Properties

\* What the handler a client waits for has taken out of its queue.
InHand(c) ==
  LET h == call[c].via IN
  IF h # NoHandler /\ task[h].op = "receive" /\ task[h].msg # NoMsg
  THEN <<task[h].msg>> ELSE <<>>

Failing == {task[h].of : h \in {g \in Handler : task[g].say = "unavailable"}}

\* A client that gave no call up and is told of no failure has received, in
\* order, exactly the messages that left its queue: neither a long poll that
\* ends nor the next one loses any (dequeue, writeMailboxLongPollError,
\* doLongPollJSON).
NoSilentLoss ==
  \A c \in Client \ (away \cup failed \cup Failing) : taken[c] = got[c] \o InHand(c)

\* A client that never gave a call up never finds its own slot of the gate
\* taken, whatever its calls answered (the deferred release of
\* beginMailboxLongPoll, before the answer is flushed).
BusyOnlyIfAway ==
  \A h \in Handler : task[h].at = "gate" /\ task[h].of \in active => task[h].of \in away

\* While a client waits in a poll that the gate admitted, only that poll takes
\* a message of its queue; a poll it gave up earlier does not (acquire).
ServesPoller ==
  \A c \in Client, h \in Handler :
    taken'[c] # taken[c] /\ call[c].via = h /\ task[h].at = "poll"
      => task'[h].at = "release"
PollerIsServed == [][ServesPoller]_vars

\* The claims that the last counter before the common one has admitted in this
\* window, numbered for each address, or for the session.
Narrow == {"claim-send-ip", "claim-recv-session"}
Admitted == UNION {{k} \X {n \in 1 .. count[k] : n <= Limit[k[1]]} : k \in {l \in Key : l[1] \in Narrow}}

\* An address or a session that is over its own limit does not spend the
\* claims of everybody: what the global counter has counted was admitted by the
\* narrower counters of the same window, but for the claims that were between
\* the two when the window turned (allowClaim).
NarrowShieldsGlobal ==
  count[<<"claim-global", "all">>] <= carried + Cardinality(Admitted)

\* A client that waits for a message while one is queued comes out of its call.
MessageArrives ==
  \A c \in Client : (Queue(c) # <<>> /\ call[c].op = "receive" /\ c \notin away)
                      ~> (Queue(c) = <<>> \/ call[c].at = "idle" \/ c \in away)

-----------------------------------------------------------------------------
\* The inductive invariant behind the proofs

\* Counters a request may have yet to pass, from where it is in its group.
ToPass == {<<"claim-send-ip", "claim-global">>,
           <<"claim-recv-ip", "claim-recv-session", "claim-global">>,
           <<"claim-recv-session", "claim-global">>, <<"claim-global">>,
           <<"authenticated-capability">>}

\* A request has one answer, and a message in it only if it was dequeued.
Consistent(t) ==
  /\ t.at # "free" => t.of \in Client /\ t.op \in Op
  /\ t.at = "limit" => t.todo \in ToPass
  /\ t.at \in {"attempt", "authenticate"} => t.todo = <<"authenticated-capability">>
  /\ IF t.at \in {"release", "reply"}
     THEN t.say # "none" /\ (t.msg # NoMsg => t.op = "receive" /\ t.say = "ok")
     ELSE /\ t.say = "none"
          /\ t.op = "receive" => t.msg = NoMsg
          /\ t.op = "send" => t.msg # NoMsg

TaskOK == \A h \in Handler : Consistent(task[h])

\* Only a client that gave a call up has a request it does not wait for.
HandlerOK ==
  \A h \in Handler : task[h].at # "free" => Waited(h) \/ task[h].of \in away

CallOK ==
  \A c \in Client :
    IF call[c].at = "wait"
    THEN call[c].via \in Handler /\ task[call[c].via].at # "free" /\ task[call[c].via].of = c
    ELSE call[c].via = NoHandler

\* A slot of the gate belongs to one request of its client.
Holds(h) == task[h].at \in {"poll", "release"}
SlotOK ==
  /\ \A h \in Handler : Holds(h) => task[h].of \in active
  /\ \A g, h \in Handler : Holds(g) /\ Holds(h) /\ task[g].of = task[h].of => g = h
  /\ \A c \in active : \E h \in Handler : Holds(h) /\ task[h].of = c

\* The same with the claims that the common counter has yet to count.
ShieldInv ==
  /\ IsFiniteSet(Admitted)
  /\ count[<<"claim-global", "all">>] + Cardinality(Pending) <= carried + Cardinality(Admitted)

HTTPInv == TypeOK /\ TaskOK /\ HandlerOK /\ CallOK /\ SlotOK /\ NoSilentLoss
=============================================================================
