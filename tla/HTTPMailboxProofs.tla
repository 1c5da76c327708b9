-------------------------- MODULE HTTPMailboxProofs --------------------------
(***************************************************************************)
(* What HTTPMailbox keeps for any clients, limits and numbers of requests. *)
(***************************************************************************)
EXTENDS HTTPMailbox, FiniteSetTheorems, TLAPS

\* Everything that a step may change but the handlers.
Around ==
  /\ box \in [Code -> Store!Box \cup {NoBox}]
  /\ count \in [Key -> Nat] /\ \A k \in Key : count[k] <= Limit[k[1]] + 1
  /\ active \subseteq Client
  /\ call \in [Client -> [op: Op \cup {"none"}, at: {"idle", "wait", "pause"},
                          via: Handler \cup {NoHandler}]]
  /\ done \in [Client -> 0 .. MaxCalls]
  /\ \A c \in Client : call[c].at # "idle" => call[c].op \in Op /\ done[c] # 0
  /\ joined \subseteq Client
  /\ windows \in 0 .. MaxWindows /\ faults \in 0 .. MaxFaults /\ carried \in 0 .. MaxHandlers
  /\ away \subseteq Client /\ failed \subseteq Client
  /\ taken \in [Client -> Seq(Msg)] /\ got \in [Client -> Seq(Msg)]

LEMMA TypeStep == ASSUME TaskOK', Around', task' \in [Handler -> Task] PROVE TypeOK'
<1>1. \A h \in Handler : task'[h].at = "limit" => task'[h].todo # <<>>
  BY DEF TaskOK, Consistent, ToPass
<1>2. QED
  BY <1>1 DEF TypeOK, Around

\* What a step of the handler h does to the handlers, whichever it is.
LEMMA TaskStep ==
  ASSUME HTTPInv, NEW h \in Handler, task[h].at # "free",
         NEW r \in Task, Consistent(r), r.at # "free",
         r.of = task[h].of, r.op = task[h].op,
         task' = [task EXCEPT ![h] = r], UNCHANGED <<call, away>>
  PROVE  /\ task' \in [Handler -> Task] /\ TaskOK' /\ HandlerOK' /\ CallOK'
         /\ task'[h] = r /\ \A g \in Handler \ {h} : task'[g] = task[g]
<1>1. task \in [Handler -> Task]
  BY DEF HTTPInv, TypeOK
<1>2. /\ task' \in [Handler -> Task]
      /\ task'[h] = r /\ \A g \in Handler \ {h} : task'[g] = task[g]
  BY <1>1
<1>3. TaskOK'
  BY <1>2 DEF HTTPInv, TaskOK
<1>4. HandlerOK'
  BY <1>2 DEF HTTPInv, HandlerOK, Waited
<1>5. CallOK'
  BY <1>2 DEF HTTPInv, CallOK
<1>6. QED
  BY <1>2, <1>3, <1>4, <1>5

\* The gate is left alone, entered, or left.
LEMMA SlotStep ==
  ASSUME HTTPInv, NEW h \in Handler, NEW r, r.of = task[h].of,
         task'[h] = r, \A g \in Handler \ {h} : task'[g] = task[g],
         \/ active' = active /\ (r.at \in {"poll", "release"} <=> Holds(h))
         \/ /\ ~Holds(h) /\ r.at = "poll" /\ r.of \notin active
            /\ active' = active \cup {r.of}
         \/ /\ Holds(h) /\ r.at = "reply"
            /\ active' = active \ {r.of}
  PROVE  SlotOK'
<1>1. CASE active' = active /\ (r.at \in {"poll", "release"} <=> Holds(h))
  <2>1. \A g \in Handler : (Holds(g)' <=> Holds(g)) /\ task'[g].of = task[g].of
    BY <1>1 DEF Holds
  <2>2. QED
    BY <1>1, <2>1 DEF HTTPInv, SlotOK
<1>2. CASE ~Holds(h) /\ r.at = "poll" /\ r.of \notin active /\ active' = active \cup {r.of}
  <2>1. Holds(h)' /\ \A g \in Handler \ {h} : Holds(g)' <=> Holds(g)
    BY <1>2 DEF Holds
  <2>2. \A g \in Handler \ {h} : Holds(g) => task[g].of \in active /\ task[g].of # r.of
    BY <1>2 DEF HTTPInv, SlotOK
  <2>3. QED
    BY <1>2, <2>1, <2>2 DEF HTTPInv, SlotOK
<1>3. CASE Holds(h) /\ r.at = "reply" /\ active' = active \ {r.of}
  <2>1. ~Holds(h)' /\ \A g \in Handler \ {h} : Holds(g)' <=> Holds(g)
    BY <1>3 DEF Holds
  <2>2. \A g \in Handler \ {h} : Holds(g) => task[g].of # r.of
    BY <1>3 DEF HTTPInv, SlotOK
  <2>3. QED
    BY <1>3, <2>1, <2>2 DEF HTTPInv, SlotOK
<1>4. QED
  BY <1>1, <1>2, <1>3

\* A step that takes no message and keeps those in hand loses none.
LEMMA LossStep ==
  ASSUME HTTPInv, NEW h \in Handler, NEW r, r.of = task[h].of, r.op = task[h].op,
         task'[h] = r, \A g \in Handler \ {h} : task'[g] = task[g],
         r.op = "receive" => r.msg = task[h].msg,
         task[h].say = "unavailable" => r.say = "unavailable",
         UNCHANGED <<call, away, failed, taken, got>>
  PROVE  NoSilentLoss'
<1>1. Failing \subseteq Failing'
  BY DEF Failing
<1>2. \A c \in Client : InHand(c)' = InHand(c)
  <2>1. \A c \in Client : call[c].via # NoHandler => call[c].via \in Handler
    BY DEF HTTPInv, CallOK
  <2>2. QED
    BY <2>1 DEF InHand
<1>3. QED
  BY <1>1, <1>2 DEF HTTPInv, NoSilentLoss

\* A handler that goes on, without an answer yet.
LEMMA MoveStep ==
  ASSUME HTTPInv, Around', NEW h \in Handler, NEW r \in Task, Consistent(r),
         task[h].at \in {"attempt", "limit", "authenticate", "gate"},
         r.at \in {"limit", "authenticate", "gate", "act", "poll"},
         r.of = task[h].of, r.op = task[h].op, r.msg = task[h].msg,
         task' = [task EXCEPT ![h] = r], UNCHANGED <<call, away, failed, taken, got>>,
         \/ active' = active /\ r.at # "poll"
         \/ r.at = "poll" /\ r.of \notin active /\ active' = active \cup {r.of}
  PROVE  HTTPInv'
<1>1. task[h].at # "free" /\ r.at # "free" /\ ~Holds(h) /\ task[h].say = "none"
  BY DEF Holds, HTTPInv, TaskOK, Consistent
<1>2. /\ task' \in [Handler -> Task] /\ TaskOK' /\ HandlerOK' /\ CallOK'
      /\ task'[h] = r /\ \A g \in Handler \ {h} : task'[g] = task[g]
  BY <1>1, TaskStep
<1>3. SlotOK'
  BY <1>1, <1>2, SlotStep
<1>4. NoSilentLoss'
  BY <1>1, <1>2, LossStep
<1>5. TypeOK'
  BY <1>2, TypeStep
<1>6. QED
  BY <1>2, <1>3, <1>4, <1>5 DEF HTTPInv

\* A handler that has its answer, with no message in it.
LEMMA AnswerStep ==
  ASSUME HTTPInv, Around', NEW h \in Handler, NEW say \in Answer,
         task[h].at \notin {"free", "release", "reply"},
         task' = [task EXCEPT ![h].at = IF task[h].at = "poll" THEN "release" ELSE "reply",
                              ![h].say = say, ![h].msg = NoMsg],
         UNCHANGED <<active, call, away, failed, taken, got>>
  PROVE  HTTPInv'
<1> DEFINE r == [task[h] EXCEPT !.at = IF task[h].at = "poll" THEN "release" ELSE "reply",
                                !.say = say, !.msg = NoMsg]
<1>1. task[h] \in Task /\ task' = [task EXCEPT ![h] = r] /\ Consistent(task[h])
  BY DEF HTTPInv, TypeOK, TaskOK
<1>2. /\ r.of = task[h].of /\ r.op = task[h].op /\ r.say = say /\ r.msg = NoMsg
      /\ r.at = IF task[h].at = "poll" THEN "release" ELSE "reply"
      /\ r \in Task
  BY <1>1 DEF Task, Stage
<1> HIDE DEF r
<1>3. Consistent(r) /\ r.at # "free" /\ (r.op = "receive" => r.msg = task[h].msg)
      /\ task[h].say = "none" /\ (r.at \in {"poll", "release"} <=> Holds(h))
  BY <1>1, <1>2 DEF Consistent, Answer, Holds
<1>4. /\ task' \in [Handler -> Task] /\ TaskOK' /\ HandlerOK' /\ CallOK'
      /\ task'[h] = r /\ \A g \in Handler \ {h} : task'[g] = task[g]
  BY <1>1, <1>2, <1>3, TaskStep
<1>5. SlotOK'
  BY <1>2, <1>3, <1>4, SlotStep
<1>6. NoSilentLoss'
  BY <1>2, <1>3, <1>4, LossStep
<1>7. TypeOK'
  BY <1>4, TypeStep
<1>8. QED
  BY <1>4, <1>5, <1>6, <1>7 DEF HTTPInv

LEMMA QuietAnswer ==
  ASSUME HTTPInv, Around', NEW h \in Handler, NEW say \in Answer,
         task[h].at \notin {"free", "release", "reply"}, Answers(h, say, NoMsg),
         UNCHANGED <<active, call, away, failed, taken, got>>
  PROVE  HTTPInv'
BY AnswerStep DEF Answers, Closing

-----------------------------------------------------------------------------
\* The store keeps its type

LEMMA TheCodeType == TheCode \in Code
BY HTTPAssumption DEF HTTPAssumption, TheCode

LEMMA Queued ==
  ASSUME box \in [Code -> Store!Box \cup {NoBox}], box[TheCode] # NoBox, NEW r \in Role,
         NEW s \in Seq(Store!Envelope)
  PROVE  [box EXCEPT ![TheCode].pending[r] = s] \in [Code -> Store!Box \cup {NoBox}]
<1>1. TheCode \in Code /\ box[TheCode] \in Store!Box
  BY TheCodeType
<1>2. [box[TheCode] EXCEPT !.pending[r] = s] \in Store!Box
  BY <1>1 DEF Store!Box, Store!Role, Role
<1>3. QED
  BY <1>1, <1>2

LEMMA BoxStep ==
  ASSUME box \in [Code -> Store!Box \cup {NoBox}], NEW c \in Client, NEW r \in Role,
         NEW m,
         \/ Store!Open(TheCode, c)
         \/ Store!Publish(TheCode, r, c) \/ (Store!Send(TheCode, r, c, m) /\ m \in Msg)
         \/ Store!Receive(TheCode, r, c) \/ Store!Report(TheCode, r, c)
  PROVE  box' \in [Code -> Store!Box \cup {NoBox}]
<1> USE DEF Store!Role, Role
<1>1. TheCode \in Code
  BY TheCodeType
<1>2. ASSUME box[TheCode] # NoBox PROVE box[TheCode] \in Store!Box
  BY <1>1, <1>2
<1>3. CASE Store!Open(TheCode, c)
  <2>1. Store!NewBox(c) \in Store!Box
    BY DEF Store!NewBox, Store!Box
  <2>2. QED
    BY <1>1, <1>3, <2>1 DEF Store!Open
<1>4. CASE Store!Publish(TheCode, r, c)
  BY <1>1, <1>2, <1>4 DEF Store!Publish, Store!Owns, Store!Box
<1>5. CASE Store!Send(TheCode, r, c, m) /\ m \in Msg
  <2>1. [from |-> c, msg |-> m] \in Store!Envelope
    BY <1>5 DEF Store!Envelope
  <2>2. PICK q \in Role : q = Store!Peer(r)
    BY DEF Store!Peer
  <2>3. \A e \in Store!Envelope :
          Append(box[TheCode].pending[q], e) \in Seq(Store!Envelope)
    BY <1>2, <1>5 DEF Store!Send, Store!Owns, Store!Box
  <2>4. QED
    BY <1>5, <2>1, <2>2, <2>3, Queued DEF Store!Send, Store!Owns
<1>6. CASE Store!Receive(TheCode, r, c)
  <2>1. Tail(box[TheCode].pending[r]) \in Seq(Store!Envelope)
    BY <1>2, <1>6 DEF Store!Receive, Store!Owns, Store!Box
  <2>2. QED
    BY <1>6, <2>1, Queued DEF Store!Receive, Store!Owns
<1>7. CASE Store!Report(TheCode, r, c)
  BY <1>1, <1>2, <1>7 DEF Store!Report, Store!Owns, Store!Box
<1>8. QED
  BY <1>3, <1>4, <1>5, <1>6, <1>7

LEMMA JoinBox ==
  ASSUME box \in [Code -> Store!Box \cup {NoBox}], NEW c \in Client, Store!Join(TheCode, c)
  PROVE  box' \in [Code -> Store!Box \cup {NoBox}]
BY TheCodeType DEF Store!Join, Store!Box, Store!Role

-----------------------------------------------------------------------------
\* One lemma per action

LEMMA FaultType == ASSUME Around, Fault PROVE faults' \in 0 .. MaxFaults
<1>1. MaxFaults \in Nat
  BY HTTPAssumption DEF HTTPAssumption
<1>2. QED
  BY <1>1 DEF Around, Fault

LEMMA RealHandler == \A h \in Handler : h # NoHandler
BY DEF Handler, NoHandler

\* A handler and its task.
LEMMA TheTask ==
  ASSUME HTTPInv, NEW h \in Handler, task[h].at # "free"
  PROVE  /\ Around /\ task[h] \in Task /\ Consistent(task[h])
         /\ task[h].of \in Client /\ task[h].op \in Op
BY DEF HTTPInv, TypeOK, Around, TaskOK, Consistent

LEMMA ToPassTail ==
  ASSUME NEW t \in ToPass
  PROVE  /\ Head(t) \in Scope /\ Tail(t) \in Seq(Scope)
         /\ Head(t) \notin {"claim-global", "authenticated-capability"} => Tail(t) \in ToPass
<1> DEFINE send == <<"claim-send-ip", "claim-global">>
           recv == <<"claim-recv-ip", "claim-recv-session", "claim-global">>
           session == <<"claim-recv-session", "claim-global">>
           all == <<"claim-global">>
           own == <<"authenticated-capability">>
<1>1. send \in Seq(Scope) /\ Head(send) = "claim-send-ip" /\ Tail(send) = all
  BY DEF Scope
<1>2. recv \in Seq(Scope) /\ Head(recv) = "claim-recv-ip" /\ Tail(recv) = session
  BY DEF Scope
<1>3. session \in Seq(Scope) /\ Head(session) = "claim-recv-session" /\ Tail(session) = all
  BY DEF Scope
<1>4. all \in Seq(Scope) /\ Head(all) = "claim-global" /\ Tail(all) = <<>>
  BY DEF Scope
<1>5. own \in Seq(Scope) /\ Head(own) = "authenticated-capability" /\ Tail(own) = <<>>
  BY DEF Scope
<1>6. ToPass = {send, recv, session, all, own}
  BY DEF ToPass
<1>7. <<>> \in Seq(Scope)
  OBVIOUS
<1> HIDE DEF send, recv, session, all, own
<1>8. QED
  BY <1>1, <1>2, <1>3, <1>4, <1>5, <1>6, <1>7 DEF Scope

LEMMA ToPassType == ToPass \subseteq Seq(Scope)
BY DEF ToPass, Scope

LEMMA CountInv == ASSUME HTTPInv, NEW h \in Handler, Count(h) PROVE HTTPInv'
<1> DEFINE scope == Head(task[h].todo)
           key == <<scope, Identity(scope, task[h].of)>>
<1>1. /\ Around /\ task[h] \in Task /\ Consistent(task[h]) /\ task[h].of \in Client
      /\ task[h].todo \in ToPass /\ scope \in Scope /\ task[h].at = "limit"
  <2>1. task[h].at = "limit"
    BY DEF Count
  <2>2. /\ Around /\ task[h] \in Task /\ Consistent(task[h]) /\ task[h].of \in Client
        /\ task[h].todo \in ToPass
    BY <2>1, TheTask DEF Consistent
  <2>3. QED
    BY <2>1, <2>2, ToPassTail
<1>2. key \in Key /\ Limit[scope] \in Nat
  BY <1>1, HTTPAssumption DEF Key, HTTPAssumption
<1>3. Around'
  <2>1. \A k \in Key : count[k] \in Nat /\ count[k] <= Limit[k[1]] + 1
    BY <1>1 DEF Around
  <2>2. count' = [count EXCEPT ![key] = IF count[key] > Limit[scope] THEN count[key]
                                        ELSE count[key] + 1]
    BY DEF Count
  <2>3. key[1] = scope
    OBVIOUS
  <2> HIDE DEF key, scope
  <2>4. count' \in [Key -> Nat] /\ \A k \in Key : count'[k] <= Limit[k[1]] + 1
    BY <1>1, <1>2, <2>1, <2>2, <2>3 DEF Around
  <2>5. QED
    BY <1>1, <2>4 DEF Around, Count, clients, env, history
<1>4. CASE task' = [task EXCEPT ![h].todo = Tail(@), ![h].at = AfterScope(h, scope)]
  <2> DEFINE r == [task[h] EXCEPT !.todo = Tail(@), !.at = AfterScope(h, scope)]
  <2>1. /\ r.of = task[h].of /\ r.op = task[h].op /\ r.msg = task[h].msg /\ r.say = task[h].say
        /\ r.todo = Tail(task[h].todo) /\ r.at = AfterScope(h, scope)
        /\ task' = [task EXCEPT ![h] = r]
    BY <1>1, <1>4 DEF HTTPInv, TypeOK, Task
  <2>2. r.at \in {"act", "gate", "limit"} /\ (r.at = "limit" => r.todo \in ToPass)
    <3>1. CASE scope = "claim-global"
      BY <2>1, <3>1 DEF AfterScope
    <3>2. CASE scope = "authenticated-capability"
      BY <2>1, <3>2 DEF AfterScope
    <3>3. CASE scope \notin {"claim-global", "authenticated-capability"}
      BY <1>1, <2>1, <3>3, ToPassTail DEF AfterScope
    <3>4. QED
      BY <3>1, <3>2, <3>3
  <2>3. r \in Task
    BY <1>1, <2>1, <2>2, ToPassTail DEF Task, Stage
  <2> HIDE DEF r
  <2>4. Consistent(r)
    BY <1>1, <2>1, <2>2 DEF Consistent
  <2>5. UNCHANGED <<active, call, away, failed, taken, got>>
    BY DEF Count, clients, history
  <2>6. QED
    BY <1>1, <1>3, <2>1, <2>2, <2>3, <2>4, <2>5, MoveStep
<1>5. CASE Answers(h, "throttled", NoMsg)
  BY <1>1, <1>3, <1>5, QuietAnswer DEF Count, clients, history, Answer
<1>6. QED
  BY <1>4, <1>5 DEF Count

\* A step that only moves a handler to another stage.
LEMMA GotoInv ==
  ASSUME HTTPInv, Around', NEW h \in Handler, NEW stage \in {"limit", "authenticate", "poll"},
         Goto(h, stage), UNCHANGED <<call, away, failed, taken, got>>,
         \/ task[h].at = "attempt" /\ stage = "authenticate" /\ active' = active
         \/ task[h].at = "authenticate" /\ stage = "limit" /\ active' = active
         \/ /\ task[h].at = "gate" /\ stage = "poll" /\ task[h].of \notin active
            /\ active' = active \cup {task[h].of}
  PROVE  HTTPInv'
<1> DEFINE r == [task[h] EXCEPT !.at = stage]
<1>1. task[h] \in Task /\ Consistent(task[h])
  BY TheTask
<1>2. /\ r \in Task /\ r.at = stage /\ r.of = task[h].of /\ r.op = task[h].op
      /\ r.msg = task[h].msg /\ r.say = task[h].say /\ r.todo = task[h].todo
      /\ task' = [task EXCEPT ![h] = r]
  BY <1>1 DEF Task, Stage, Goto
<1> HIDE DEF r
<1>3. Consistent(r)
  BY <1>1, <1>2 DEF Consistent, ToPass
<1>4. QED
  BY <1>2, <1>3, MoveStep

LEMMA AttemptInv == ASSUME HTTPInv, NEW h \in Handler, Attempt(h) PROVE HTTPInv'
<1>1. Around /\ task[h].at = "attempt"
  BY TheTask DEF Attempt
<1>2. faults' \in 0 .. MaxFaults
  BY <1>1, FaultType DEF Attempt, Around
<1>3. Around'
  BY <1>1, <1>2 DEF Attempt, Around, server, clients, history
<1>4. UNCHANGED <<active, call, away, failed, taken, got>>
  BY DEF Attempt, server, clients, history
<1>5. QED
  BY <1>1, <1>3, <1>4, GotoInv, QuietAnswer DEF Attempt, Answer

LEMMA AuthenticateInv == ASSUME HTTPInv, NEW h \in Handler, Authenticate(h) PROVE HTTPInv'
<1>1. Around /\ task[h].at = "authenticate"
  BY TheTask DEF Authenticate
<1>2. Around'
  BY <1>1 DEF Authenticate, Around, server, clients, env, history
<1>3. UNCHANGED <<active, call, away, failed, taken, got>>
  BY DEF Authenticate, server, clients, history
<1>4. QED
  BY <1>1, <1>2, <1>3, GotoInv, QuietAnswer DEF Authenticate, Answer

LEMMA AcquireInv == ASSUME HTTPInv, NEW h \in Handler, Acquire(h) PROVE HTTPInv'
<1>1. Around /\ task[h].at = "gate" /\ task[h].of \in Client
  BY TheTask DEF Acquire
<1>2. Around'
  BY <1>1 DEF Acquire, Around, clients, env, history
<1>3. UNCHANGED <<call, away, failed, taken, got>>
  BY DEF Acquire, clients, history
<1>4. CASE Admits(task[h].of)
  BY <1>1, <1>2, <1>3, <1>4, GotoInv DEF Acquire, Admits
<1>5. CASE ~Admits(task[h].of)
  BY <1>1, <1>2, <1>3, <1>5, QuietAnswer DEF Acquire, Answer
<1>6. QED
  BY <1>4, <1>5

\* A commit and the answer to it, of a call that takes no message.
LEMMA CommitInv ==
  ASSUME HTTPInv, NEW h \in Handler, task[h].at \in {"act", "poll"}, Commits(h, NoMsg),
         box' \in [Code -> Store!Box \cup {NoBox}],
         UNCHANGED <<count, active, clients, windows, history>>
  PROVE  HTTPInv'
<1>1. Around
  BY TheTask
<1>2. faults' \in 0 .. MaxFaults
  BY <1>1, FaultType DEF Commits, Around
<1>3. Around'
  BY <1>1, <1>2 DEF Around, clients, history
<1>4. QED
  BY <1>3, QuietAnswer DEF Commits, clients, history, Answer

LEMMA ServeInv == ASSUME HTTPInv, NEW h \in Handler, Serve(h) PROVE HTTPInv'
<1>1. task[h].at = "act"
  BY DEF Serve
<1>2. /\ Around /\ task[h].of \in Client /\ RoleOf[task[h].of] \in Role
      /\ task[h].op = "send" => task[h].msg \in Msg
  BY <1>1, TheTask, HTTPAssumption DEF HTTPAssumption, Consistent, Task
<1>3. box \in [Code -> Store!Box \cup {NoBox}]
  BY <1>2 DEF Around
<1>4. box' \in [Code -> Store!Box \cup {NoBox}]
  <2> DEFINE c == task[h].of
             r == RoleOf[c]
             m == task[h].msg
  <2>1. \/ Store!Open(TheCode, c) \/ Store!Publish(TheCode, r, c)
        \/ (Store!Send(TheCode, r, c, m) /\ m \in Msg) \/ Store!Report(TheCode, r, c)
    BY <1>2 DEF Serve, ClaimSender, StoreSelf, SendMessage, ReportStats
  <2> HIDE DEF c, r, m
  <2>2. c \in Client /\ r \in Role
    BY <1>2 DEF c, r
  <2>3. QED
    BY <1>3, <2>1, <2>2, BoxStep
<1>5. QED
  BY <1>1, <1>4, CommitInv DEF Serve

LEMMA JoinInv == ASSUME HTTPInv, NEW h \in Handler, Join(h) PROVE HTTPInv'
<1>1. task[h].at = "poll"
  BY DEF Join
<1>2. Around /\ task[h].of \in Client
  BY <1>1, TheTask
<1>3. box' \in [Code -> Store!Box \cup {NoBox}]
  BY <1>2, JoinBox DEF Around, Join
<1>4. QED
  BY <1>1, <1>3, CommitInv DEF Join

\* A step that answers and changes nothing else of the server.
LEMMA PlainInv ==
  ASSUME HTTPInv, NEW h \in Handler, NEW say \in Answer,
         task[h].at \notin {"free", "release", "reply"},
         Answers(h, say, NoMsg), UNCHANGED <<server, clients, windows, history>>,
         faults' \in 0 .. MaxFaults
  PROVE  HTTPInv'
<1>1. Around
  BY TheTask
<1>2. Around'
  BY <1>1 DEF Around, server, clients, history
<1>3. QED
  BY <1>2, QuietAnswer DEF server, clients, history

LEMMA AnswerInv ==
  ASSUME HTTPInv, NEW h \in Handler,
         Refuse(h) \/ SeePeer(h) \/ PollTimeout(h) \/ RedisFails(h) \/ Notice(h)
  PROVE  HTTPInv'
<1>1. Around
  BY DEF HTTPInv, TypeOK, Around
<1>2. faults \in 0 .. MaxFaults
  BY <1>1 DEF Around
<1>3. CASE Refuse(h)
  BY <1>2, <1>3, PlainInv DEF Refuse, env, Answer
<1>4. CASE SeePeer(h)
  BY <1>2, <1>4, PlainInv DEF SeePeer, env, Answer
<1>5. CASE PollTimeout(h)
  BY <1>2, <1>5, PlainInv DEF PollTimeout, Expires, Answers, Closing, env, Answer
<1>6. CASE RedisFails(h)
  BY <1>1, <1>6, FaultType, PlainInv DEF RedisFails, Interruptible, Answer
<1>7. CASE Notice(h)
  BY <1>2, <1>7, PlainInv DEF Notice, Interruptible, env, Answer
<1>8. QED
  BY <1>3, <1>4, <1>5, <1>6, <1>7

LEMMA ReleaseInv == ASSUME HTTPInv, NEW h \in Handler, Release(h) PROVE HTTPInv'
<1> DEFINE r == [task[h] EXCEPT !.at = "reply"]
<1>1. task[h].at = "release" /\ Around /\ task[h] \in Task /\ Consistent(task[h])
  BY TheTask DEF Release
<1>2. /\ r \in Task /\ r.at = "reply" /\ r.of = task[h].of /\ r.op = task[h].op
      /\ r.msg = task[h].msg /\ r.say = task[h].say /\ r.todo = task[h].todo
      /\ task' = [task EXCEPT ![h] = r]
  BY <1>1 DEF Task, Stage, Release, Goto
<1> HIDE DEF r
<1>3. Consistent(r) /\ Holds(h)
  BY <1>1, <1>2 DEF Consistent, Holds
<1>4. UNCHANGED <<call, away, failed, taken, got>> /\ active' = active \ {r.of}
  BY <1>2 DEF Release, clients, history
<1>5. /\ task' \in [Handler -> Task] /\ TaskOK' /\ HandlerOK' /\ CallOK'
      /\ task'[h] = r /\ \A g \in Handler \ {h} : task'[g] = task[g]
  BY <1>1, <1>2, <1>3, <1>4, TaskStep
<1>6. SlotOK'
  BY <1>2, <1>3, <1>4, <1>5, SlotStep
<1>7. NoSilentLoss'
  BY <1>2, <1>4, <1>5, LossStep
<1>8. TypeOK'
  <2>1. Around'
    BY <1>1, <1>4 DEF Around, Release, clients, env, history
  <2>2. QED
    BY <1>5, <2>1, TypeStep
<1>9. QED
  BY <1>5, <1>6, <1>7, <1>8 DEF HTTPInv

LEMMA Tacked ==
  ASSUME NEW S, NEW s \in Seq(S), NEW x \in S
  PROVE  s \o <<>> = s /\ Append(s, x) = s \o <<x>>
OBVIOUS

\* Take: the one step that takes a message.
LEMMA TakeInv == ASSUME HTTPInv, NEW h \in Handler, Take(h) PROVE HTTPInv'
<1>0. task[h].of \in Client
  BY TheTask DEF Take
<1> PICK c \in Client : c = task[h].of
  BY <1>0
<1> DEFINE m == Head(Queue(c)).msg
<1>1. /\ task[h].at = "poll" /\ task[h].op = "receive" /\ Around
      /\ task[h] \in Task /\ Consistent(task[h]) /\ RoleOf[c] \in Role
  <2>1. task[h].at = "poll" /\ task[h].op = "receive"
    BY DEF Take
  <2>2. QED
    BY <2>1, TheTask, HTTPAssumption DEF HTTPAssumption
<1>2. m \in Msg
  <2>1. Store!Receive(TheCode, RoleOf[c], c)
    BY DEF Take
  <2>2. box[TheCode] \in Store!Box /\ box[TheCode] # NoBox /\ Queue(c) # <<>>
    BY <1>1, <2>1, TheCodeType DEF Store!Receive, Store!Owns, Around, Queue
  <2>3. Queue(c) \in Seq(Store!Envelope)
    BY <1>1, <2>2 DEF Queue, Store!Box, Store!Role, Role
  <2>4. Head(Queue(c)) \in Store!Envelope
    BY <2>2, <2>3
  <2>5. QED
    BY <2>4 DEF Store!Envelope
<1>3. /\ taken' = [taken EXCEPT ![c] = Append(taken[c], m)] /\ Commits(h, m)
      /\ UNCHANGED <<count, active, clients, windows, carried, away, failed, got>>
      /\ Store!Receive(TheCode, RoleOf[c], c)
  BY DEF Take
<1> HIDE DEF m
<1>4. PICK say \in {"ok", "unavailable"}, n \in {m, NoMsg} :
        Answers(h, say, n) /\ (say = "ok" <=> n = m)
  <2>1. m # NoMsg
    BY <1>2 DEF Msg, NoMsg
  <2>2. QED
    BY <1>3, <2>1 DEF Commits
<1> DEFINE r == [task[h] EXCEPT !.at = "release", !.say = say, !.msg = n]
<1>5. /\ r.of = c /\ r.op = "receive" /\ r.say = say /\ r.msg = n /\ r.at = "release"
      /\ r \in Task /\ task' = [task EXCEPT ![h] = r]
  BY <1>1, <1>2, <1>4 DEF Answers, Closing, Task, Stage, Answer
<1> HIDE DEF r
<1>6. Consistent(r) /\ Holds(h) /\ task[h].msg = NoMsg /\ task[h].say = "none" /\ task[h].at # "free"
  BY <1>1, <1>4, <1>5 DEF Consistent, Holds
<1>7. UNCHANGED <<active, call, away, failed, got>>
  BY <1>3 DEF clients
<1>8. /\ task' \in [Handler -> Task] /\ TaskOK' /\ HandlerOK' /\ CallOK'
      /\ task'[h] = r /\ \A g \in Handler \ {h} : task'[g] = task[g]
  BY <1>1, <1>5, <1>6, <1>7, TaskStep
<1>9. SlotOK'
  BY <1>5, <1>6, <1>7, <1>8, SlotStep
<1>10. taken \in [Client -> Seq(Msg)] /\ got \in [Client -> Seq(Msg)]
  BY <1>1 DEF Around
<1>11. NoSilentLoss'
  <2>1. SUFFICES ASSUME NEW d \in Client, d \notin away, d \notin failed, d \notin Failing'
                 PROVE  taken'[d] = got[d] \o InHand(d)'
    BY <1>7 DEF NoSilentLoss
  <2>2. Failing \subseteq Failing'
    BY <1>6, <1>8 DEF Failing
  <2>3. taken[d] = got[d] \o InHand(d)
    BY <2>1, <2>2 DEF HTTPInv, NoSilentLoss
  <2>4. CASE d = c
    <3>1. call[c].via = h
      BY <1>6, <2>1, <2>4 DEF HTTPInv, HandlerOK, Waited
    <3>2. say = "ok" /\ n = m
      BY <1>4, <1>5, <1>8, <2>1, <2>4 DEF Failing
    <3>3. InHand(d)' = <<m>> /\ InHand(d) = <<>>
      BY <1>2, <2>4, <1>5, <1>6, <1>7, <1>8, <3>1, <3>2
         DEF InHand, Msg, NoMsg, Handler, NoHandler
    <3>4. taken'[c] = Append(taken[c], m) /\ got[c] \in Seq(Msg)
      BY <1>3, <1>10
    <3>5. got[c] \o <<>> = got[c] /\ Append(got[c], m) = got[c] \o <<m>>
      BY <1>2, <3>4, Tacked
    <3>6. taken[c] = got[c]
      BY <2>3, <2>4, <3>3, <3>5
    <3>7. QED
      BY <2>4, <3>3, <3>4, <3>5, <3>6
  <2>5. CASE d # c
    <3>1. call[d].via # h
      BY <2>1, <2>5, RealHandler DEF HTTPInv, CallOK
    <3>2. InHand(d)' = InHand(d)
      <4>1. call[d].via # NoHandler => call[d].via \in Handler
        BY DEF HTTPInv, CallOK
      <4>2. QED
        BY <1>7, <1>8, <3>1, <4>1 DEF InHand
    <3>3. QED
      BY <1>3, <2>3, <2>5, <3>2
  <2>6. QED
    BY <2>4, <2>5
<1>12. Around'
  <2>1. box' \in [Code -> Store!Box \cup {NoBox}]
    BY <1>1, <1>3, BoxStep DEF Around
  <2>2. faults' \in 0 .. MaxFaults
    BY <1>1, <1>3, FaultType DEF Commits, Around
  <2>3. taken' \in [Client -> Seq(Msg)]
    BY <1>1, <1>2, <1>3, <1>10
  <2>4. QED
    BY <1>1, <1>3, <2>1, <2>2, <2>3 DEF Around, clients
<1>13. TypeOK'
  BY <1>8, <1>12, TypeStep
<1>14. QED
  BY <1>8, <1>9, <1>11, <1>13 DEF HTTPInv

LEMMA VacantType == Vacant \in Task /\ Consistent(Vacant)
BY DEF Vacant, Task, Stage, Consistent

\* Reply: the request is done.
LEMMA ReplyInv == ASSUME HTTPInv, NEW h \in Handler, Reply(h) PROVE HTTPInv'
<1>0. task[h].of \in Client
  BY TheTask DEF Reply
<1> PICK c \in Client : c = task[h].of
  BY <1>0
<1> DEFINE say == task[h].say
           m == task[h].msg
<1>1. /\ task[h].at = "reply" /\ Around /\ task[h] \in Task /\ Consistent(task[h])
      /\ task[h].op \in Op /\ say \in Answer \cup {"none"} /\ m \in Msg \cup {NoMsg}
  <2>1. task[h].at = "reply"
    BY DEF Reply
  <2>2. /\ Around /\ task[h] \in Task /\ Consistent(task[h])
        /\ task[h].op \in Op
    BY <2>1, TheTask
  <2>3. QED
    BY <2>1, <2>2 DEF Task
<1>2. task \in [Handler -> Task] /\ task' = [task EXCEPT ![h] = Vacant]
  BY DEF Reply, HTTPInv, TypeOK
<1>3. /\ task' \in [Handler -> Task] /\ task'[h] = Vacant
      /\ \A g \in Handler \ {h} : task'[g] = task[g]
  BY <1>2, VacantType
<1>4. TaskOK'
  BY <1>3, VacantType DEF HTTPInv, TaskOK
<1>5. SlotOK'
  <2>1. ~Holds(h) /\ ~Holds(h)' /\ active' = active
        /\ \A g \in Handler \ {h} : Holds(g)' <=> Holds(g)
    BY <1>1, <1>3 DEF Holds, Vacant, Reply, server
  <2>2. QED
    BY <1>3, <2>1 DEF HTTPInv, SlotOK
<1>6. /\ IF Waited(h)
         THEN /\ call' = [call EXCEPT ![c] = IF say = "again"
                            THEN [op |-> task[h].op, at |-> "pause", via |-> NoHandler]
                            ELSE Idle]
              /\ joined' \in {joined, joined \cup {c}}
              /\ failed' = IF say \in {"ok", "again"} THEN failed ELSE failed \cup {c}
              /\ got' = IF m = NoMsg THEN got ELSE [got EXCEPT ![c] = Append(@, m)]
         ELSE UNCHANGED <<call, joined, failed, got>>
      /\ UNCHANGED <<server, done, env, carried, away, taken>>
  BY DEF Reply
<1>7. /\ call \in [Client -> [op: Op \cup {"none"}, at: {"idle", "wait", "pause"},
                              via: Handler \cup {NoHandler}]]
      /\ taken \in [Client -> Seq(Msg)] /\ got \in [Client -> Seq(Msg)]
  BY <1>1 DEF Around
<1>8. /\ \A d \in Client \ {c} : call'[d] = call[d] /\ call[d].via # h
      /\ Waited(h) => call'[c].via = NoHandler /\ call'[c].at # "wait"
      /\ ~Waited(h) => call'[c] = call[c] /\ call[c].via # h /\ c \in away
  <2>1. \A d \in Client \ {c} : call[d].via # h
    BY RealHandler DEF HTTPInv, CallOK
  <2>2. \A d \in Client \ {c} : call'[d] = call[d]
    BY <1>6, <1>7
  <2>3. Waited(h) => call'[c].via = NoHandler /\ call'[c].at # "wait"
    BY <1>1, <1>6, <1>7 DEF Idle
  <2>4. ~Waited(h) => call'[c] = call[c] /\ call[c].via # h /\ c \in away
    BY <1>1, <1>6 DEF Waited, HTTPInv, HandlerOK
  <2>5. QED
    BY <2>1, <2>2, <2>3, <2>4
<1>9. HandlerOK'
  <2>1. SUFFICES ASSUME NEW g \in Handler \ {h}, task[g].at # "free", task[g].of \notin away
                 PROVE  call'[task[g].of].via = g
    BY <1>3, <1>6 DEF HandlerOK, Waited, Vacant
  <2>2. call[task[g].of].via = g /\ task[g].of \in Client
    BY <2>1, TheTask DEF HTTPInv, HandlerOK, Waited
  <2>3. task[g].of # c
    BY <1>8, <2>1, <2>2 DEF Waited
  <2>4. QED
    BY <1>8, <2>2, <2>3
<1>10. CallOK'
  BY <1>3, <1>8 DEF HTTPInv, CallOK
<1>11. NoSilentLoss'
  <2>1. SUFFICES ASSUME NEW d \in Client, d \notin away, d \notin failed', d \notin Failing'
                 PROVE  taken[d] = got'[d] \o InHand(d)'
    BY <1>6 DEF NoSilentLoss
  <2>2. \A g \in Handler \ {h} : task[g].say = "unavailable" => task[g].of \in Failing'
    BY <1>3 DEF Failing
  <2>3. CASE d # c
    <3>1. d \notin failed /\ d \notin Failing /\ got'[d] = got[d]
      BY <1>6, <1>7, <2>1, <2>2, <2>3 DEF Failing
    <3>2. call[d].via # NoHandler => call[d].via \in Handler \ {h}
      BY <1>8, <2>3 DEF HTTPInv, CallOK
    <3>3. InHand(d)' = InHand(d)
      BY <1>3, <1>8, <2>3, <3>2 DEF InHand
    <3>4. QED
      BY <2>1, <3>1, <3>3 DEF HTTPInv, NoSilentLoss
  <2>4. CASE d = c
    <3>1. Waited(h) /\ call[c].via = h
      BY <1>8, <2>1, <2>4 DEF Waited
    <3>2. say \in {"ok", "again"} /\ c \notin failed
      BY <1>6, <2>1, <2>4, <3>1
    <3>3. c \notin Failing
      BY <1>2, <2>1, <2>2, <2>4, <3>2 DEF Failing
    <3>4. taken[c] = got[c] \o InHand(c)
      BY <2>1, <2>4, <3>2, <3>3 DEF HTTPInv, NoSilentLoss
    <3>5. InHand(c)' = <<>>
      BY <1>8, <3>1 DEF InHand
    <3>6. CASE m = NoMsg
      BY <1>6, <1>7, <2>4, <3>1, <3>4, <3>5, <3>6 DEF InHand
    <3>7. CASE m # NoMsg
      <4>1. InHand(c) = <<m>>
        BY <1>1, <3>1, <3>7, RealHandler DEF InHand, Consistent
      <4>2. got'[c] = Append(got[c], m) /\ got[c] \in Seq(Msg) /\ m \in Msg
        BY <1>1, <1>6, <1>7, <3>1, <3>7
      <4>3. got[c] \o <<m>> = Append(got[c], m) /\ Append(got[c], m) \o <<>> = Append(got[c], m)
        BY <4>2
      <4>4. QED
        BY <2>4, <3>4, <3>5, <4>1, <4>2, <4>3
    <3>8. QED
      BY <3>6, <3>7
  <2>5. QED
    BY <2>3, <2>4
<1>12. Around'
  <2>1. call' \in [Client -> [op: Op \cup {"none"}, at: {"idle", "wait", "pause"},
                             via: Handler \cup {NoHandler}]]
    <3>1. \A v \in {[op |-> task[h].op, at |-> "pause", via |-> NoHandler], Idle} :
            v \in [op: Op \cup {"none"}, at: {"idle", "wait", "pause"}, via: Handler \cup {NoHandler}]
      BY <1>1 DEF Idle
    <3>2. QED
      BY <1>6, <1>7, <3>1
  <2>2. got' \in [Client -> Seq(Msg)]
    <3>1. m # NoMsg => Append(got[c], m) \in Seq(Msg)
      BY <1>1, <1>7
    <3>2. QED
      BY <1>6, <1>7, <3>1
  <2>3. joined' \subseteq Client /\ failed' \subseteq Client
    BY <1>1, <1>6 DEF Around
  <2>4. \A d \in Client : call'[d].at # "idle" => call'[d].op \in Op /\ done'[d] # 0
    <3>1. \A d \in Client : call[d].at # "idle" => call[d].op \in Op /\ done[d] # 0
      BY <1>1 DEF Around
    <3>2. Waited(h) => call[c].at # "idle"
      BY <1>1, RealHandler DEF Waited, HTTPInv, CallOK
    <3>3. call'[c].at # "idle" => call'[c].op \in Op /\ done[c] # 0
      BY <1>1, <1>6, <1>7, <1>8, <3>1, <3>2 DEF Idle
    <3>4. QED
      BY <1>6, <1>8, <3>1, <3>3
  <2>5. QED
    BY <1>1, <1>6, <2>1, <2>2, <2>3, <2>4 DEF Around, server, env
<1>13. TypeOK'
  BY <1>3, <1>4, <1>12, TypeStep
<1>14. QED
  BY <1>4, <1>5, <1>9, <1>10, <1>11, <1>13 DEF HTTPInv

\* Begin and Resume: a request arrives.
LEMMA PostInv ==
  ASSUME HTTPInv, NEW c \in Client, NEW o \in Op, call[c].at # "wait", Post(c, o),
         done' \in [Client -> 0 .. MaxCalls], done'[c] # 0,
         \A d \in Client \ {c} : done'[d] = done[d],
         UNCHANGED <<server, joined, env, history>>
  PROVE  HTTPInv'
<1>1. PICK h \in Handler :
        /\ task[h].at = "free"
        /\ task' = [task EXCEPT ![h] =
             [of |-> c, op |-> o, at |-> IF o = "claim" THEN "limit" ELSE "attempt",
              todo |-> IF o = "claim" THEN ClaimScopes(c)
                                      ELSE <<"authenticated-capability">>,
              say |-> "none", msg |-> IF o = "send" THEN done'[c] ELSE NoMsg]]
        /\ call' = [call EXCEPT ![c] = [op |-> o, at |-> "wait", via |-> h]]
  BY DEF Post
<1> DEFINE r == [of |-> c, op |-> o, at |-> IF o = "claim" THEN "limit" ELSE "attempt",
                 todo |-> IF o = "claim" THEN ClaimScopes(c)
                                         ELSE <<"authenticated-capability">>,
                 say |-> "none", msg |-> IF o = "send" THEN done'[c] ELSE NoMsg]
<1>2. /\ r.of = c /\ r.op = o /\ r.say = "none"
      /\ r.at = (IF o = "claim" THEN "limit" ELSE "attempt")
      /\ r.todo = (IF o = "claim" THEN ClaimScopes(c) ELSE <<"authenticated-capability">>)
      /\ r.msg = (IF o = "send" THEN done'[c] ELSE NoMsg)
      /\ r = [of |-> r.of, op |-> r.op, at |-> r.at, todo |-> r.todo, say |-> r.say, msg |-> r.msg]
  OBVIOUS
<1>posted. task' = [task EXCEPT ![h] = r]
  BY <1>1
<1> HIDE DEF r
<1>3. r.todo \in ToPass /\ r.msg \in Msg \cup {NoMsg}
  <2>1. done'[c] \in 0 .. MaxCalls
    OBVIOUS
  <2>2. r.msg \in Msg \cup {NoMsg}
    BY <1>2, <2>1 DEF Msg, NoMsg
  <2>3. r.todo \in ToPass
    BY <1>2 DEF ClaimScopes, ToPass
  <2>4. QED
    BY <2>2, <2>3
<1>4. r \in Task
  <2>1. r.todo \in Seq(Scope)
    BY <1>3, ToPassType
  <2>2. r.at \in Stage
    BY <1>2 DEF Stage
  <2>3. QED
    BY <1>2, <1>3, <2>1, <2>2 DEF Task
<1>5. Consistent(r)
  BY <1>2, <1>3 DEF Consistent, NoMsg
<1>6. task \in [Handler -> Task] /\ Around /\ Consistent(task[h])
  BY DEF HTTPInv, TypeOK, Around, TaskOK
<1>7. task' \in [Handler -> Task] /\ task'[h] = r /\ \A g \in Handler \ {h} : task'[g] = task[g]
  BY <1>posted, <1>4, <1>6
<1>8. /\ call'[c].via = h /\ call'[c].at = "wait"
      /\ \A d \in Client \ {c} : call'[d] = call[d] /\ call[d].via # h
      /\ call[c].via = NoHandler
  <2>1. call'[c].via = h /\ call'[c].at = "wait" /\ \A d \in Client \ {c} : call'[d] = call[d]
    BY <1>1, <1>6 DEF Around
  <2>2. \A d \in Client : call[d].via # h
    BY <1>1, RealHandler DEF HTTPInv, CallOK
  <2>3. QED
    BY <2>1, <2>2 DEF HTTPInv, CallOK
<1>9. UNCHANGED <<active, away, failed, taken, got>>
  BY DEF server, history
<1>10. TaskOK'
  BY <1>5, <1>7 DEF HTTPInv, TaskOK
<1>11. HandlerOK'
  <2>1. SUFFICES ASSUME NEW g \in Handler \ {h}, task[g].at # "free", task[g].of \notin away
                 PROVE  call'[task[g].of].via = g
    BY <1>2, <1>7, <1>8, <1>9 DEF HandlerOK, Waited
  <2>2. call[task[g].of].via = g /\ task[g].of \in Client
    BY <2>1, TheTask DEF HTTPInv, HandlerOK, Waited
  <2>3. task[g].of # c
    BY <1>8, <2>1, <2>2, RealHandler
  <2>4. QED
    BY <1>8, <2>2, <2>3
<1>12. CallOK'
  BY <1>2, <1>7, <1>8 DEF HTTPInv, CallOK
<1>13. SlotOK'
  <2>1. ~Holds(h) /\ ~Holds(h)' /\ \A g \in Handler \ {h} : Holds(g)' <=> Holds(g)
    BY <1>1, <1>2, <1>7 DEF Holds
  <2>2. QED
    BY <1>7, <1>9, <2>1 DEF HTTPInv, SlotOK
<1>14. NoSilentLoss'
  <2>1. Failing \subseteq Failing'
    BY <1>1, <1>6, <1>7 DEF Failing, Consistent
  <2>2. ASSUME NEW d \in Client PROVE InHand(d)' = InHand(d)
    <3>1. CASE d = c
      BY <1>2, <1>7, <1>8, <3>1 DEF InHand
    <3>2. CASE d # c
      <4>1. call[d].via # NoHandler => call[d].via \in Handler \ {h}
        BY <1>8, <3>2 DEF HTTPInv, CallOK
      <4>2. QED
        BY <1>7, <1>8, <3>2, <4>1 DEF InHand
    <3>3. QED
      BY <3>1, <3>2
  <2>3. QED
    BY <1>9, <2>1, <2>2 DEF HTTPInv, NoSilentLoss
<1>15. Around'
  <2>1. call' \in [Client -> [op: Op \cup {"none"}, at: {"idle", "wait", "pause"},
                             via: Handler \cup {NoHandler}]]
    BY <1>1, <1>6 DEF Around
  <2>2. \A d \in Client : call'[d].at # "idle" => call'[d].op \in Op /\ done'[d] # 0
    <3>1. \A d \in Client : call[d].at # "idle" => call[d].op \in Op /\ done[d] # 0
      BY <1>6 DEF Around
    <3>2. call'[c].op = o
      BY <1>1, <1>6 DEF Around
    <3>3. QED
      BY <1>8, <3>1, <3>2
  <2>3. QED
    BY <1>6, <2>1, <2>2 DEF Around, server, env, history
<1>16. TypeOK'
  BY <1>7, <1>10, <1>15, TypeStep
<1>17. QED
  BY <1>10, <1>11, <1>12, <1>13, <1>14, <1>16 DEF HTTPInv

LEMMA BeginInv == ASSUME HTTPInv, NEW c \in Client, NEW o \in Op, Begin(c, o) PROVE HTTPInv'
<1>1. done \in [Client -> 0 .. MaxCalls] /\ MaxCalls \in Nat
  BY HTTPAssumption DEF HTTPInv, TypeOK, HTTPAssumption
<1>2. done' \in [Client -> 0 .. MaxCalls] /\ done'[c] # 0
      /\ \A d \in Client \ {c} : done'[d] = done[d]
  BY <1>1 DEF Begin
<1>3. QED
  BY <1>2, PostInv DEF Begin

LEMMA ResumeInv == ASSUME HTTPInv, NEW c \in Client, Resume(c) PROVE HTTPInv'
<1>1. call[c].at = "pause" /\ Post(c, call[c].op) /\ done' = done
  BY DEF Resume
<1>2. call[c].op \in Op /\ done[c] # 0 /\ done \in [Client -> 0 .. MaxCalls]
  BY <1>1 DEF HTTPInv, TypeOK
<1>3. QED
  BY <1>1, <1>2, PostInv DEF Resume

LEMMA GiveUpInv == ASSUME HTTPInv, NEW c \in Client, GiveUp(c) PROVE HTTPInv'
<1>1. Around /\ task \in [Handler -> Task]
  BY DEF HTTPInv, TypeOK, Around
<1>2. /\ call' = [call EXCEPT ![c] = Idle] /\ away' = away \cup {c}
      /\ UNCHANGED <<server, task, done, joined, env, carried, failed, taken, got>>
  BY DEF GiveUp
<1>3. call'[c] = Idle /\ \A d \in Client \ {c} : call'[d] = call[d]
  BY <1>1, <1>2 DEF Around
<1>4. HandlerOK'
  <2>1. \A h \in Handler : task[h].at # "free" => task[h].of \in Client
    BY TheTask
  <2>2. QED
    BY <1>2, <1>3, <2>1 DEF HTTPInv, HandlerOK, Waited
<1>5. CallOK'
  BY <1>2, <1>3 DEF HTTPInv, CallOK, Idle
<1>6. TaskOK' /\ SlotOK'
  BY <1>2 DEF HTTPInv, TaskOK, SlotOK, Holds, server
<1>7. NoSilentLoss'
  <2>1. ASSUME NEW d \in Client \ {c} PROVE InHand(d)' = InHand(d)
    BY <1>2, <1>3 DEF InHand
  <2>2. Failing' = Failing
    BY <1>2 DEF Failing
  <2>3. QED
    BY <1>2, <2>1, <2>2 DEF HTTPInv, NoSilentLoss
<1>8. Around'
  <2>1. call' \in [Client -> [op: Op \cup {"none"}, at: {"idle", "wait", "pause"},
                             via: Handler \cup {NoHandler}]]
    BY <1>1, <1>2 DEF Around, Idle
  <2>2. \A d \in Client : call'[d].at # "idle" => call'[d].op \in Op /\ done'[d] # 0
    BY <1>1, <1>2, <1>3 DEF Around, Idle
  <2>3. QED
    BY <1>1, <1>2, <2>1, <2>2 DEF Around, server, env
<1>9. QED
  BY <1>1, <1>2, <1>4, <1>5, <1>6, <1>7, <1>8, TypeStep DEF HTTPInv

LEMMA TurnInv == ASSUME HTTPInv, Turn PROVE HTTPInv'
<1> DEFINE half == Pending
<1>1. Around /\ task \in [Handler -> Task] /\ MaxHandlers \in Nat /\ MaxWindows \in Nat
  BY HTTPAssumption DEF HTTPInv, TypeOK, Around, HTTPAssumption
<1>2. Cardinality(half) \in 0 .. MaxHandlers
  <2>1. IsFiniteSet(Handler) /\ Cardinality(Handler) = MaxHandlers
    BY <1>1, FS_Interval DEF Handler
  <2>2. half \subseteq Handler
    BY DEF Pending
  <2> HIDE DEF half
  <2>3. Cardinality(half) \in Nat /\ Cardinality(half) <= MaxHandlers
    BY <2>1, <2>2, FS_Subset, FS_CardinalityType
  <2>4. QED
    BY <1>1, <2>3
<1>3. /\ windows < MaxWindows /\ windows' = windows + 1
      /\ count' = [k \in Key |-> 0] /\ carried' = Cardinality(half)
      /\ UNCHANGED <<box, active, task, clients, faults, away, failed, taken, got>>
  BY DEF Turn
<1> HIDE DEF half
<1>4. \A k \in Key : Limit[k[1]] \in Nat
  BY HTTPAssumption DEF HTTPAssumption, Key
<1>5. count' \in [Key -> Nat] /\ \A k \in Key : count'[k] <= Limit[k[1]] + 1
  BY <1>3, <1>4
<1>6. windows' \in 0 .. MaxWindows /\ carried' \in 0 .. MaxHandlers
  BY <1>1, <1>2, <1>3 DEF Around
<1>7. Around'
  BY <1>1, <1>3, <1>5, <1>6 DEF Around, clients
<1>8. TaskOK' /\ HandlerOK' /\ CallOK' /\ SlotOK'
  BY <1>3 DEF HTTPInv, TaskOK, HandlerOK, Waited, CallOK, SlotOK, Holds, clients
<1>9. NoSilentLoss'
  BY <1>3 DEF HTTPInv, NoSilentLoss, InHand, Failing, clients
<1>10. QED
  BY <1>1, <1>3, <1>7, <1>8, <1>9, TypeStep DEF HTTPInv

LEMMA VanishInv == ASSUME HTTPInv, Vanish PROVE HTTPInv'
<1>1. Around /\ task \in [Handler -> Task]
  BY DEF HTTPInv, TypeOK, Around
<1>2. UNCHANGED <<count, active, task, clients, env, history>>
  BY DEF Vanish
<1>3. box' \in [Code -> Store!Box \cup {NoBox}]
  BY <1>1 DEF Vanish, Store!Vanish, Around
<1>4. Around'
  BY <1>1, <1>2, <1>3 DEF Around, clients, env, history
<1>5. TaskOK' /\ HandlerOK' /\ CallOK' /\ SlotOK'
  BY <1>2 DEF HTTPInv, TaskOK, HandlerOK, Waited, CallOK, SlotOK, Holds, clients, history
<1>6. NoSilentLoss'
  BY <1>2 DEF HTTPInv, NoSilentLoss, InHand, Failing, clients, history
<1>7. QED
  BY <1>1, <1>2, <1>4, <1>5, <1>6, TypeStep DEF HTTPInv

LEMMA InitInv == Init => HTTPInv
<1> SUFFICES ASSUME Init PROVE HTTPInv
  OBVIOUS
<1>1. {MaxPolls, QueueMax, MaxHandlers, MaxCalls, MaxAway, MaxFaults, MaxWindows} \subseteq Nat
      /\ Limit \in [Scope -> Nat \ {0}]
  BY HTTPAssumption DEF HTTPAssumption
<1>2. \A k \in Key : Limit[k[1]] \in Nat
  BY <1>1 DEF Key
<1>3. box \in [Code -> Store!Box \cup {NoBox}]
  BY DEF Init, Store!Init
<1>4. count \in [Key -> Nat] /\ \A k \in Key : count[k] <= Limit[k[1]] + 1
  BY <1>2 DEF Init
<1>5. \A h \in Handler : task[h] = Vacant
  BY DEF Init
<1>6. \A c \in Client : call[c] = Idle
  BY DEF Init
<1>7. task \in [Handler -> Task] /\ TaskOK /\ HandlerOK
  BY <1>5, VacantType DEF Init, TaskOK, HandlerOK, Vacant
<1>8. CallOK /\ SlotOK
  BY <1>5, <1>6 DEF Init, CallOK, SlotOK, Holds, Idle, Vacant
<1>9. /\ call \in [Client -> [op: Op \cup {"none"}, at: {"idle", "wait", "pause"},
                              via: Handler \cup {NoHandler}]]
      /\ \A c \in Client : call[c].at = "idle"
  BY <1>6 DEF Init, Idle
<1>10. /\ done \in [Client -> 0 .. MaxCalls]
       /\ taken \in [Client -> Seq(Msg)] /\ got \in [Client -> Seq(Msg)]
  BY <1>1 DEF Init
<1>11. TypeOK
  BY <1>1, <1>3, <1>4, <1>5, <1>7, <1>9, <1>10 DEF Init, TypeOK, Vacant
<1>12. NoSilentLoss
  BY <1>6 DEF Init, NoSilentLoss, InHand, Idle
<1>13. QED
  BY <1>7, <1>8, <1>11, <1>12 DEF HTTPInv

LEMMA NextInv == ASSUME HTTPInv, [Next]_vars PROVE HTTPInv'
<1>1. ASSUME NEW c \in Client, NEW o \in Op, Begin(c, o) PROVE HTTPInv'
  BY <1>1, BeginInv
<1>2. ASSUME NEW c \in Client, Resume(c) PROVE HTTPInv'
  BY <1>2, ResumeInv
<1>3. ASSUME NEW c \in Client, GiveUp(c) PROVE HTTPInv'
  BY <1>3, GiveUpInv
<1>4. ASSUME NEW h \in Handler, Step(h) \/ PollTimeout(h) \/ RedisFails(h) PROVE HTTPInv'
  BY <1>4, AttemptInv, CountInv, AuthenticateInv, AcquireInv, ServeInv, TakeInv, JoinInv,
     AnswerInv, ReleaseInv, ReplyInv
     DEF Step, Poll
<1>5. CASE Turn
  BY <1>5, TurnInv
<1>6. CASE Vanish
  BY <1>6, VanishInv
<1>7. CASE UNCHANGED vars
  BY <1>7 DEF vars, server, clients, env, history, HTTPInv, TypeOK, TaskOK, HandlerOK,
     Waited, CallOK, SlotOK, Holds, NoSilentLoss, InHand, Failing
<1>8. QED
  BY <1>1, <1>2, <1>3, <1>4, <1>5, <1>6, <1>7 DEF Next

-----------------------------------------------------------------------------
\* The invariant behind the properties holds: every request has one answer, a
\* client has one request it waits for, and a slot of the gate has one holder.
THEOREM HTTPInvariant == Spec => []HTTPInv
<1>1. QED
  BY InitInv, NextInv, PTL DEF Spec

\* Counters stop one above their limit, the queues and handlers hold what they
\* are meant to hold, for any clients, limits and number of requests.
THEOREM TypeCorrect == Spec => []TypeOK
<1>1. HTTPInv => TypeOK
  BY DEF HTTPInv
<1>2. QED
  BY <1>1, HTTPInvariant, PTL

\* No message that left a queue is lost behind the back of a client that gave
\* no call up and was told of no failure (dequeue, doLongPollJSON).
THEOREM NothingLost == Spec => []NoSilentLoss
<1>1. HTTPInv => NoSilentLoss
  BY DEF HTTPInv
<1>2. QED
  BY <1>1, HTTPInvariant, PTL

\* A client that gave no call up never meets its own slot of the gate: another
\* request of its own would be one it waits for as well.
THEOREM SlotReturned == Spec => []BusyOnlyIfAway
<1>1. ASSUME HTTPInv, NEW h \in Handler, task[h].at = "gate", task[h].of \in active,
             task[h].of \notin away
      PROVE  FALSE
  <2>1. PICK g \in Handler : Holds(g) /\ task[g].of = task[h].of
    BY <1>1 DEF HTTPInv, SlotOK
  <2>2. Waited(g) /\ Waited(h)
    BY <1>1, <2>1 DEF HTTPInv, HandlerOK, Holds
  <2>3. g = h
    BY <2>1, <2>2 DEF Waited
  <2>4. QED
    BY <1>1, <2>1, <2>3 DEF Holds
<1>2. HTTPInv => BusyOnlyIfAway
  BY <1>1 DEF BusyOnlyIfAway
<1>3. QED
  BY <1>2, HTTPInvariant, PTL

\* Only the poll a client waits in takes its messages, not one it gave up: the
\* gate has one slot per capability, and a poll holds it until it answers.
THEOREM OnlyPollerServed == Spec => PollerIsServed
<1>1. ASSUME HTTPInv, [Next]_vars PROVE ServesPoller
  <2>1. SUFFICES ASSUME NEW c \in Client, NEW h \in Handler, taken'[c] # taken[c],
                        call[c].via = h, task[h].at = "poll"
                 PROVE  task'[h].at = "release"
    BY DEF ServesPoller
  <2>2. PICK g \in Handler : Take(g)
    <3>1. ASSUME NEW d \in Client, (\E o \in Op : Begin(d, o)) \/ Resume(d) \/ GiveUp(d)
          PROVE  taken' = taken
      BY <3>1 DEF Begin, Resume, GiveUp, history
    <3>2. ASSUME NEW g \in Handler, Attempt(g) \/ Count(g) \/ Authenticate(g) \/ Acquire(g)
          PROVE  taken' = taken
      BY <3>2 DEF Attempt, Count, Authenticate, Acquire, history
    <3>3. ASSUME NEW g \in Handler, Serve(g) \/ Refuse(g) \/ Join(g) \/ SeePeer(g)
          PROVE  taken' = taken
      BY <3>3 DEF Serve, Refuse, Join, SeePeer, history
    <3>4. ASSUME NEW g \in Handler, Notice(g) \/ Release(g) \/ Reply(g) \/ PollTimeout(g)
                                    \/ RedisFails(g)
          PROVE  taken' = taken
      BY <3>4 DEF Notice, Release, Reply, PollTimeout, RedisFails, history
    <3>5. Turn \/ Vanish \/ UNCHANGED vars => taken' = taken
      BY DEF Turn, Vanish, vars, history
    <3>6. QED
      <4>1. taken' # taken
        BY <2>1
      <4>2. Next /\ ~Turn /\ ~Vanish
        BY <1>1, <3>5, <4>1
      <4>3. PICK g \in Handler : Step(g) \/ PollTimeout(g) \/ RedisFails(g)
        BY <3>1, <4>1, <4>2 DEF Next
      <4>4. QED
        BY <3>2, <3>3, <3>4, <4>1, <4>3 DEF Step, Poll
  <2>3. task \in [Handler -> Task] /\ taken \in [Client -> Seq(Msg)]
    BY <1>1 DEF HTTPInv, TypeOK
  <2>4. task[g].of = c
    BY <2>1, <2>2, <2>3 DEF Take
  <2>5. task[h].of = c
    BY <1>1, <2>1, RealHandler DEF HTTPInv, CallOK
  <2>6. g = h
    BY <1>1, <2>1, <2>2, <2>4, <2>5 DEF Take, Holds, HTTPInv, SlotOK
  <2>7. PICK m : Commits(h, m)
    BY <2>2, <2>6 DEF Take
  <2>8. PICK say, n : Answers(h, say, n)
    BY <2>7 DEF Commits
  <2>9. QED
    BY <2>1, <2>3, <2>8 DEF Answers, Closing
<1>2. QED
  BY <1>1, HTTPInvariant, PTL DEF Spec, PollerIsServed

-----------------------------------------------------------------------------
\* The claims everybody shares

Global == <<"claim-global", "all">>

LEMMA InAdmitted ==
  \A x : x \in Admitted <=>
           \E k \in Key : k[1] \in Narrow /\ \E n \in 1 .. count[k] : n <= Limit[k[1]] /\ x = <<k, n>>
BY DEF Admitted

LEMMA GlobalKey == Global \in Key
<1>1. PICK c : c \in Client
  BY HTTPAssumption DEF HTTPAssumption
<1>2. Identity("claim-global", c) = "all" /\ "claim-global" \in Scope
  BY DEF Identity, Scope
<1>3. QED
  BY <1>1, <1>2 DEF Key, Global

LEMMA PendingFinite == IsFiniteSet(Pending) /\ Cardinality(Pending) \in Nat
<1>1. MaxHandlers \in Nat
  BY HTTPAssumption DEF HTTPAssumption
<1>2. IsFiniteSet(Handler)
  BY <1>1, FS_Interval DEF Handler
<1>3. Pending \subseteq Handler
  BY DEF Pending
<1>4. IsFiniteSet(Pending)
  BY <1>2, <1>3, FS_Subset
<1>5. QED
  BY <1>4, FS_CardinalityType

\* The numbers the shield compares.
LEMMA ShieldTypes ==
  ASSUME HTTPInv, IsFiniteSet(Admitted)
  PROVE  /\ count[Global] \in Nat /\ carried \in Nat
         /\ Cardinality(Admitted) \in Nat /\ Cardinality(Pending) \in Nat
<1>1. count[Global] \in Nat
  BY GlobalKey DEF HTTPInv, TypeOK
<1>2. carried \in Nat
  <2>1. carried \in 0 .. MaxHandlers /\ MaxHandlers \in Nat
    BY HTTPAssumption DEF HTTPInv, TypeOK, HTTPAssumption
  <2>2. QED
    BY <2>1
<1>3. QED
  BY <1>1, <1>2, PendingFinite, FS_CardinalityType

\* No counter moves, and no claim comes to the common one.
LEMMA ShieldKept ==
  ASSUME HTTPInv, ShieldInv, UNCHANGED <<count, carried>>, Pending' \subseteq Pending
  PROVE  ShieldInv'
<1>1. Admitted' = Admitted
  BY DEF Admitted
<1>2. PICK a, b : a = Pending /\ b = Pending'
  OBVIOUS
<1>3. /\ IsFiniteSet(a) /\ IsFiniteSet(b) /\ b \subseteq a
      /\ Cardinality(a) \in Nat /\ Cardinality(b) \in Nat /\ Cardinality(b) <= Cardinality(a)
  <2>1. IsFiniteSet(a) /\ b \subseteq a
    BY <1>2, PendingFinite
  <2>2. IsFiniteSet(b) /\ Cardinality(b) <= Cardinality(a)
    BY <2>1, FS_Subset
  <2>3. QED
    BY <2>1, <2>2, FS_CardinalityType
<1>4. IsFiniteSet(Admitted) /\ count[Global] + Cardinality(a) <= carried + Cardinality(Admitted)
  BY <1>2 DEF ShieldInv, Global
<1>5. PICK g, c, d : g = count[Global] /\ c = carried /\ d = Cardinality(Admitted)
  OBVIOUS
<1>6. g \in Nat /\ c \in Nat /\ d \in Nat
  BY <1>4, <1>5, ShieldTypes
<1>7. g + Cardinality(b) <= c + d
  BY <1>3, <1>4, <1>5, <1>6
<1>8. Cardinality(Pending)' = Cardinality(b) /\ Cardinality(Admitted)' = d /\ IsFiniteSet(Admitted)'
  BY <1>1, <1>2, <1>4, <1>5
<1>9. QED
  BY <1>5, <1>7, <1>8 DEF ShieldInv, Global

\* The handler h is the only one that moves, and not to the common counter.
LEMMA PendingStep ==
  ASSUME HTTPInv, NEW h \in Handler,
         \A g \in Handler \ {h} : task'[g] = task[g],
         task'[h].at = "limit" => Head(task'[h].todo) # "claim-global"
  PROVE  Pending' = Pending \ {h}
BY DEF Pending

LEMMA ToPassNext ==
  ASSUME NEW t \in ToPass
  PROVE  /\ Head(t) \in Narrow => Head(Tail(t)) = "claim-global"
         /\ Head(t) = "claim-recv-ip" => Head(Tail(t)) = "claim-recv-session"
<1>1. CASE t = <<"claim-send-ip", "claim-global">> \/ t = <<"claim-recv-session", "claim-global">>
  BY <1>1
<1>2. CASE t = <<"claim-recv-ip", "claim-recv-session", "claim-global">>
  BY <1>2 DEF Narrow
<1>3. CASE t = <<"claim-global">> \/ t = <<"authenticated-capability">>
  BY <1>3 DEF Narrow
<1>4. QED
  BY <1>1, <1>2, <1>3 DEF ToPass

LEMMA PendingAnswer ==
  ASSUME HTTPInv, NEW h \in Handler, NEW say, NEW m, Answers(h, say, m)
  PROVE  Pending' = Pending \ {h}
<1>1. task \in [Handler -> Task]
  BY DEF HTTPInv, TypeOK
<1>2. task'[h].at \in {"release", "reply"} /\ \A g \in Handler \ {h} : task'[g] = task[g]
  BY <1>1 DEF Answers, Closing, Task
<1>3. QED
  BY <1>2, PendingStep

LEMMA PendingGoto ==
  ASSUME HTTPInv, NEW h \in Handler, NEW stage, Goto(h, stage),
         stage # "limit" \/ Head(task[h].todo) # "claim-global"
  PROVE  Pending' = Pending \ {h}
<1>1. task \in [Handler -> Task]
  BY DEF HTTPInv, TypeOK
<1>2. task'[h].at = stage /\ task'[h].todo = task[h].todo
      /\ \A g \in Handler \ {h} : task'[g] = task[g]
  BY <1>1 DEF Goto, Task
<1>3. QED
  BY <1>2, PendingStep

\* Every step but Count and Turn.
LEMMA PendingOthers ==
  ASSUME HTTPInv, NEW h \in Handler,
         \/ Attempt(h) \/ Authenticate(h) \/ Acquire(h) \/ Serve(h) \/ Refuse(h) \/ Poll(h)
         \/ Notice(h) \/ Release(h) \/ Reply(h) \/ PollTimeout(h) \/ RedisFails(h)
  PROVE  Pending' \subseteq Pending /\ UNCHANGED <<count, carried>>
<1>1. task \in [Handler -> Task] /\ Consistent(task[h])
  BY DEF HTTPInv, TypeOK, TaskOK
<1>2. CASE Attempt(h)
  <2>1. UNCHANGED <<count, carried>>
    BY <1>2 DEF Attempt, server, history
  <2>2. Goto(h, "authenticate") \/ Answers(h, "throttled", NoMsg)
    BY <1>2 DEF Attempt
  <2>3. QED
    BY <2>1, <2>2, PendingGoto, PendingAnswer
<1>3. CASE Authenticate(h)
  <2>1. UNCHANGED <<count, carried>>
    BY <1>3 DEF Authenticate, server, history
  <2>2. Goto(h, "limit") \/ Answers(h, "denied", NoMsg)
    BY <1>3 DEF Authenticate
  <2>3. Head(task[h].todo) = "authenticated-capability"
    BY <1>1, <1>3 DEF Authenticate, Consistent
  <2>4. QED
    BY <2>1, <2>2, <2>3, PendingGoto, PendingAnswer
<1>4. CASE Acquire(h)
  <2>1. UNCHANGED <<count, carried>>
    BY <1>4 DEF Acquire, history
  <2>2. Goto(h, "poll") \/ Answers(h, "throttled", NoMsg)
    BY <1>4 DEF Acquire
  <2>3. QED
    BY <2>1, <2>2, PendingGoto, PendingAnswer
<1>5. CASE Serve(h) \/ Poll(h)
  <2>1. UNCHANGED <<count, carried>>
    BY <1>5 DEF Serve, Poll, Take, Join, SeePeer, server, history
  <2>2. \E say, m : Answers(h, say, m)
    BY <1>5 DEF Serve, Poll, Take, Join, SeePeer, Commits
  <2>3. QED
    BY <2>1, <2>2, PendingAnswer
<1>6. CASE Refuse(h) \/ Notice(h) \/ RedisFails(h)
  <2>1. UNCHANGED <<count, carried>>
    BY <1>6 DEF Refuse, Notice, RedisFails, server, history
  <2>2. \E say, m : Answers(h, say, m)
    BY <1>6 DEF Refuse, Notice, RedisFails
  <2>3. QED
    BY <2>1, <2>2, PendingAnswer
<1>7. CASE Release(h)
  BY <1>7, PendingGoto DEF Release, history
<1>8. CASE PollTimeout(h)
  <2>1. task'[h].at = "release" /\ \A g \in Handler \ {h} : task'[g] = task[g]
    BY <1>1, <1>8 DEF PollTimeout, Task
  <2>2. QED
    BY <1>8, <2>1, PendingStep DEF PollTimeout, server, history
<1>9. CASE Reply(h)
  <2>1. task' = [task EXCEPT ![h] = Vacant] /\ UNCHANGED <<count, carried>>
    BY <1>9 DEF Reply, server
  <2>2. task'[h].at = "free" /\ \A g \in Handler \ {h} : task'[g] = task[g]
    BY <1>1, <2>1 DEF Vacant
  <2>3. QED
    BY <2>1, <2>2, PendingStep
<1>10. QED
  BY <1>2, <1>3, <1>4, <1>5, <1>6, <1>7, <1>8, <1>9

LEMMA PendingPost ==
  ASSUME HTTPInv, NEW c \in Client, NEW o \in Op, Post(c, o)
  PROVE  Pending' \subseteq Pending
<1>1. task \in [Handler -> Task]
  BY DEF HTTPInv, TypeOK
<1>2. PICK t : t = IF o = "claim" THEN ClaimScopes(c) ELSE <<"authenticated-capability">>
  OBVIOUS
<1>3. PICK h \in Handler : \E r : r.todo = t /\ task' = [task EXCEPT ![h] = r]
  BY <1>2 DEF Post
<1>4. PICK r : r.todo = t /\ task' = [task EXCEPT ![h] = r]
  BY <1>3
<1>5. Head(t) # "claim-global"
  BY <1>2 DEF ClaimScopes
<1>6. task'[h].todo = t /\ \A g \in Handler \ {h} : task'[g] = task[g]
  BY <1>1, <1>4
<1>7. Pending' = Pending \ {h}
  BY <1>5, <1>6, PendingStep
<1>8. QED
  BY <1>7

\* One more claim of a narrower counter waits for the common one.
LEMMA NarrowCount ==
  ASSUME HTTPInv, ShieldInv, NEW h \in Handler, h \notin Pending, Pending' = Pending \cup {h},
         NEW k \in Key, k[1] \in Narrow, count' = [count EXCEPT ![k] = count[k] + 1],
         count[k] + 1 <= Limit[k[1]], UNCHANGED carried
  PROVE  ShieldInv'
<1>1. count \in [Key -> Nat] /\ IsFiniteSet(Admitted)
  BY DEF HTTPInv, TypeOK, ShieldInv
<1>2. PICK a, b, e : a = Admitted /\ b = Admitted' /\ e = <<k, count[k] + 1>>
  OBVIOUS
<1>3. b = a \cup {e} /\ e \notin a
  <2>1. count[k] \in Nat /\ count'[k] = count[k] + 1 /\ \A l \in Key \ {k} : count'[l] = count[l]
    BY <1>1
  <2>2. e \notin a
    BY <1>2, <2>1, InAdmitted
  <2>3. \A x : x \in b <=>
          \E l \in Key : l[1] \in Narrow /\ \E n \in 1 .. count'[l] : n <= Limit[l[1]] /\ x = <<l, n>>
    BY <1>2 DEF Admitted
  <2>4. ASSUME NEW x \in a \cup {e} PROVE x \in b
    <3>1. CASE x = e
      <4>1. count[k] + 1 \in 1 .. count'[k]
        BY <2>1
      <4>2. QED
        BY <1>2, <2>3, <3>1, <4>1
    <3>2. CASE x \in a
      <4>1. PICK l \in Key : l[1] \in Narrow /\ \E n \in 1 .. count[l] : n <= Limit[l[1]] /\ x = <<l, n>>
        BY <1>2, <3>2, InAdmitted
      <4>2. PICK n \in 1 .. count[l] : n <= Limit[l[1]] /\ x = <<l, n>>
        BY <4>1
      <4>3. n \in 1 .. count'[l]
        BY <1>1, <2>1, <4>2
      <4>4. QED
        BY <2>3, <4>1, <4>2, <4>3
    <3>3. QED
      BY <2>4, <3>1, <3>2
  <2>5. ASSUME NEW x \in b PROVE x \in a \cup {e}
    <3>1. PICK l \in Key : l[1] \in Narrow /\ \E n \in 1 .. count'[l] : n <= Limit[l[1]] /\ x = <<l, n>>
      BY <2>3, <2>5
    <3>2. PICK n \in 1 .. count'[l] : n <= Limit[l[1]] /\ x = <<l, n>>
      BY <3>1
    <3>3. n \in 1 .. count[l] \/ (l = k /\ n = count[k] + 1)
      BY <1>1, <2>1, <3>2
    <3>4. QED
      BY <1>2, <3>1, <3>2, <3>3, InAdmitted
  <2>6. QED
    BY <2>2, <2>4, <2>5
<1>4. IsFiniteSet(b) /\ Cardinality(b) = Cardinality(a) + 1
  <2>1. IsFiniteSet(a)
    BY <1>1, <1>2
  <2>2. /\ IsFiniteSet(a \cup {e})
        /\ Cardinality(a \cup {e}) = IF e \in a THEN Cardinality(a) ELSE Cardinality(a) + 1
    BY <2>1, FS_AddElement
  <2>3. QED
    BY <1>3, <2>2
<1>5. Cardinality(Pending') = Cardinality(Pending) + 1
  BY PendingFinite, FS_AddElement
<1>6. count'[Global] = count[Global]
  <2>1. Global[1] = "claim-global" /\ k # Global
    BY DEF Global, Narrow
  <2>2. QED
    BY <1>1, <2>1, GlobalKey
<1>7. PICK g, c, d, n : g = count[Global] /\ c = carried /\ d = Cardinality(Admitted) /\ n = Cardinality(Pending)
  OBVIOUS
<1>8. g \in Nat /\ c \in Nat /\ d \in Nat /\ n \in Nat /\ g + n <= c + d
  BY <1>1, <1>7, ShieldTypes DEF ShieldInv, Global
<1>9. g + (n + 1) <= c + (d + 1)
  BY <1>8
<1>10. QED
  BY <1>2, <1>4, <1>5, <1>6, <1>7, <1>9 DEF ShieldInv, Global

\* A counter moves without an admission that counts.
LEMMA AdmittedSame ==
  ASSUME HTTPInv, NEW k \in Key, NEW n, count' = [count EXCEPT ![k] = n], n \in Nat,
         k[1] \in Narrow => count[k] >= Limit[k[1]] /\ n >= Limit[k[1]]
  PROVE  Admitted' = Admitted
<1>1. count \in [Key -> Nat] /\ \A l \in Key : Limit[l[1]] \in Nat
  <2>1. \A l \in Key : Limit[l[1]] \in Nat
    BY HTTPAssumption DEF HTTPAssumption, Key
  <2>2. QED
    BY <2>1 DEF HTTPInv, TypeOK
<1>2. count'[k] = n /\ \A l \in Key \ {k} : count'[l] = count[l]
  BY <1>1
<1>3. ASSUME NEW l \in Key, l[1] \in Narrow
      PROVE  {m \in 1 .. count'[l] : m <= Limit[l[1]]} = {m \in 1 .. count[l] : m <= Limit[l[1]]}
  <2>1. CASE l = k
    <3>1. PICK c, i : c = count[k] /\ i = Limit[k[1]]
      OBVIOUS
    <3>2. c \in Nat /\ i \in Nat /\ c >= i /\ n >= i
      BY <1>1, <1>3, <2>1, <3>1
    <3>3. {m \in 1 .. n : m <= i} = {m \in 1 .. c : m <= i}
      BY <3>2
    <3>4. QED
      BY <1>2, <2>1, <3>1, <3>3
  <2>2. CASE l # k
    BY <1>2, <2>2
  <2>3. QED
    BY <2>1, <2>2
<1>4. PICK b : b = Admitted'
  OBVIOUS
<1>5. \A x : x \in b <=> \E l \in Key : l[1] \in Narrow /\ x \in {l} \X {m \in 1 .. count'[l] : m <= Limit[l[1]]}
  BY <1>4 DEF Admitted
<1>6. \A x : x \in Admitted <=> \E l \in Key : l[1] \in Narrow /\ x \in {l} \X {m \in 1 .. count[l] : m <= Limit[l[1]]}
  BY DEF Admitted
<1>7. b = Admitted
  BY <1>3, <1>5, <1>6
<1>8. QED
  BY <1>4, <1>7

\* A claim leaves the handlers, and the common counter counts it at most once.
LEMMA ShieldDown ==
  ASSUME HTTPInv, ShieldInv, NEW h \in Handler, Pending' = Pending \ {h},
         UNCHANGED <<carried, Admitted>>, count'[Global] \in Nat,
         IF h \in Pending THEN count'[Global] <= count[Global] + 1
                          ELSE count'[Global] = count[Global]
  PROVE  ShieldInv'
<1>1. Cardinality(Pending') = IF h \in Pending THEN Cardinality(Pending) - 1 ELSE Cardinality(Pending)
  BY PendingFinite, FS_RemoveElement
<1>2. PICK g, f, c, d, n :
        /\ g = count[Global] /\ f = count'[Global] /\ c = carried
        /\ d = Cardinality(Admitted) /\ n = Cardinality(Pending)
  OBVIOUS
<1>3. IsFiniteSet(Admitted)
  BY DEF ShieldInv
<1>4. g \in Nat /\ f \in Nat /\ c \in Nat /\ d \in Nat /\ n \in Nat /\ g + n <= c + d
  BY <1>2, <1>3, ShieldTypes DEF ShieldInv, Global
<1>5. PICK m : m = Cardinality(Pending')
  OBVIOUS
<1>6. f + m <= c + d
  <2>1. CASE h \in Pending
    BY <1>1, <1>2, <1>4, <1>5, <2>1
  <2>2. CASE h \notin Pending
    BY <1>1, <1>2, <1>4, <1>5, <2>2
  <2>3. QED
    BY <2>1, <2>2
<1>7. QED
  BY <1>2, <1>3, <1>5, <1>6 DEF ShieldInv, Global

LEMMA CountShield ==
  ASSUME HTTPInv, ShieldInv, NEW h \in Handler, Count(h) PROVE ShieldInv'
<1>1. task[h].at = "limit" /\ UNCHANGED carried
  BY DEF Count, history
<1>2. /\ Around /\ task[h] \in Task /\ task[h].of \in Client /\ task[h].todo \in ToPass
      /\ task \in [Handler -> Task]
  BY <1>1, TheTask DEF Consistent, HTTPInv, TypeOK
<1>3. PICK todo, c : todo = task[h].todo /\ c = task[h].of
  OBVIOUS
<1>4. PICK scope : scope = Head(todo)
  OBVIOUS
<1>5. PICK k : k = <<scope, Identity(scope, c)>>
  OBVIOUS
<1>6. PICK n : n = IF count[k] > Limit[scope] THEN count[k] ELSE count[k] + 1
  OBVIOUS
<1>7. scope \in Scope /\ k \in Key /\ k[1] = scope /\ Limit[scope] \in Nat
  BY <1>2, <1>3, <1>4, <1>5, ToPassTail, HTTPAssumption DEF Key, HTTPAssumption
<1>8. count' = [count EXCEPT ![k] = n]
  BY <1>3, <1>4, <1>5, <1>6 DEF Count
<1>9. count \in [Key -> Nat] /\ n \in Nat /\ count'[k] = n
  BY <1>2, <1>6, <1>7, <1>8 DEF Around
<1>10. IF n <= Limit[scope]
       THEN task' = [task EXCEPT ![h].todo = Tail(todo), ![h].at = AfterScope(h, scope)]
       ELSE Answers(h, "throttled", NoMsg)
  BY <1>3, <1>4, <1>5, <1>9 DEF Count
<1>11. h \in Pending <=> scope = "claim-global"
  BY <1>1, <1>3, <1>4 DEF Pending
<1>12. /\ count'[Global] \in Nat
       /\ IF h \in Pending THEN count'[Global] <= count[Global] + 1 ELSE count'[Global] = count[Global]
  <2>1. CASE scope = "claim-global"
    <3>1. k = Global
      BY <1>5, <2>1 DEF Identity, Global
    <3>2. QED
      BY <1>6, <1>7, <1>9, <1>11, <2>1, <3>1
  <2>2. CASE scope # "claim-global"
    <3>1. k # Global
      BY <1>7, <2>2 DEF Global
    <3>2. QED
      BY <1>8, <1>9, <1>11, <2>2, <3>1, GlobalKey
  <2>3. QED
    BY <2>1, <2>2
<1>13. CASE n > Limit[scope]
  <2>1. Answers(h, "throttled", NoMsg)
    BY <1>7, <1>9, <1>10, <1>13
  <2>2. Pending' = Pending \ {h}
    BY <2>1, PendingAnswer
  <2>3. count[k] >= Limit[k[1]] /\ n >= Limit[k[1]]
    BY <1>6, <1>7, <1>9, <1>13
  <2>4. Admitted' = Admitted
    BY <1>7, <1>8, <1>9, <2>3, AdmittedSame
  <2>5. QED
    BY <1>1, <1>12, <2>2, <2>4, ShieldDown
<1>14. CASE n <= Limit[scope]
  <2>1. n = count[k] + 1
    BY <1>6, <1>7, <1>9, <1>14
  <2>2. /\ task'[h].todo = Tail(todo) /\ task'[h].at = AfterScope(h, scope)
        /\ \A g \in Handler \ {h} : task'[g] = task[g]
    BY <1>2, <1>10, <1>14 DEF Task
  <2>3. CASE scope \in Narrow
    <3>1. AfterScope(h, scope) = "limit"
      BY <2>3 DEF AfterScope, Narrow
    <3>2. Head(Tail(todo)) = "claim-global"
      BY <1>2, <1>3, <1>4, <2>3, ToPassNext
    <3>3. scope # "claim-global"
      BY <2>3 DEF Narrow
    <3>4. h \notin Pending /\ Pending' = Pending \cup {h}
      BY <1>11, <2>2, <3>1, <3>2, <3>3 DEF Pending
    <3>5. QED
      BY <1>1, <1>7, <1>8, <1>14, <2>1, <2>3, <3>4, NarrowCount
  <2>4. CASE scope \notin Narrow
    <3>1. task'[h].at = "limit" => Head(task'[h].todo) # "claim-global"
      <4>1. CASE scope \in {"claim-global", "authenticated-capability"}
        BY <2>2, <4>1 DEF AfterScope
      <4>2. CASE scope \notin {"claim-global", "authenticated-capability"}
        <5>1. scope = "claim-recv-ip"
          BY <1>7, <2>4, <4>2 DEF Scope, Narrow
        <5>2. Head(Tail(todo)) = "claim-recv-session"
          BY <1>2, <1>3, <1>4, <5>1, ToPassNext
        <5>3. QED
          BY <2>2, <5>2
      <4>3. QED
        BY <4>1, <4>2
    <3>2. Pending' = Pending \ {h}
      BY <2>2, <3>1, PendingStep
    <3>3. Admitted' = Admitted
      BY <1>7, <1>8, <1>9, <2>4, AdmittedSame
    <3>4. QED
      BY <1>1, <1>12, <3>2, <3>3, ShieldDown
  <2>5. QED
    BY <2>3, <2>4
<1>15. QED
  BY <1>7, <1>9, <1>13, <1>14

LEMMA NothingAdmitted ==
  ASSUME \A k \in Key : count[k] = 0
  PROVE  IsFiniteSet(Admitted) /\ Cardinality(Admitted) = 0
<1>1. Admitted = {}
  BY InAdmitted
<1>2. QED
  BY <1>1, FS_EmptySet

LEMMA TurnShield == ASSUME HTTPInv, ShieldInv, Turn PROVE ShieldInv'
<1>1. /\ carried' = Cardinality(Pending) /\ UNCHANGED task
      /\ \A k \in Key : count'[k] = 0
  BY DEF Turn
<1>2. Pending' = Pending
  BY <1>1 DEF Pending
<1>3. Admitted' = {}
  BY <1>1 DEF Admitted
<1>4. IsFiniteSet(Admitted') /\ Cardinality(Admitted') = 0
  BY <1>3, FS_EmptySet
<1>5. count'[Global] = 0
  BY <1>1, GlobalKey
<1>6. Cardinality(Pending) \in Nat
  BY PendingFinite
<1>7. QED
  BY <1>1, <1>2, <1>4, <1>5, <1>6 DEF ShieldInv, Global

LEMMA ShieldNext == ASSUME HTTPInv, ShieldInv, [Next]_vars PROVE ShieldInv'
<1>1. ASSUME NEW c \in Client, NEW o \in Op, Begin(c, o) PROVE ShieldInv'
  BY <1>1, PendingPost, ShieldKept DEF Begin, server, history
<1>2. ASSUME NEW c \in Client, Resume(c) PROVE ShieldInv'
  <2>1. call[c].op \in Op
    BY <1>2 DEF Resume, HTTPInv, TypeOK
  <2>2. QED
    BY <1>2, <2>1, PendingPost, ShieldKept DEF Resume, server, history
<1>3. ASSUME NEW c \in Client, GiveUp(c) PROVE ShieldInv'
  BY <1>3, ShieldKept DEF GiveUp, Pending, server
<1>4. ASSUME NEW h \in Handler, Step(h) \/ PollTimeout(h) \/ RedisFails(h) PROVE ShieldInv'
  BY <1>4, CountShield, PendingOthers, ShieldKept DEF Step
<1>5. CASE Turn
  BY <1>5, TurnShield
<1>6. CASE Vanish
  BY <1>6, ShieldKept DEF Vanish, Pending, history
<1>7. CASE UNCHANGED vars
  BY <1>7, ShieldKept DEF vars, server, history, Pending
<1>8. QED
  BY <1>1, <1>2, <1>3, <1>4, <1>5, <1>6, <1>7 DEF Next

LEMMA ShieldInit == Init => ShieldInv
<1> SUFFICES ASSUME Init PROVE ShieldInv
  OBVIOUS
<1>1. (\A k \in Key : count[k] = 0) /\ carried = 0 /\ count[Global] = 0
  BY GlobalKey DEF Init
<1>2. IsFiniteSet(Admitted) /\ Cardinality(Admitted) = 0
  BY <1>1, NothingAdmitted
<1>3. Pending = {}
  BY DEF Init, Pending, Vacant
<1>4. Cardinality(Pending) = 0
  BY <1>3, FS_EmptySet
<1>5. QED
  BY <1>1, <1>2, <1>4 DEF ShieldInv, Global

\* With the claims on their way to it, the common counter stays within what the
\* narrower counters have admitted.
THEOREM ShieldHolds == Spec => []ShieldInv
<1>1. QED
  BY ShieldInit, ShieldNext, HTTPInvariant, PTL DEF Spec

\* Whatever the limits and however claims, failures and the turn of a window
\* interleave, a refused address or session has not spent the claims of
\* everybody (allowClaim).
THEOREM EverybodyShielded == Spec => []NarrowShieldsGlobal
<1>1. ASSUME HTTPInv, ShieldInv PROVE NarrowShieldsGlobal
  <2>1. PICK g, c, d, n :
          /\ g = count[Global] /\ c = carried
          /\ d = Cardinality(Admitted) /\ n = Cardinality(Pending)
    OBVIOUS
  <2>2. g \in Nat /\ c \in Nat /\ d \in Nat /\ n \in Nat /\ g + n <= c + d
    BY <1>1, <2>1, ShieldTypes DEF ShieldInv, Global
  <2>3. g <= c + d
    BY <2>2
  <2>4. QED
    BY <2>1, <2>3 DEF NarrowShieldsGlobal, Global
<1>2. QED
  BY <1>1, HTTPInvariant, ShieldHolds, PTL
=============================================================================
