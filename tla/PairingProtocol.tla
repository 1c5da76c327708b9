---------------------------- MODULE PairingProtocol ----------------------------
(***************************************************************************)
(* Both peers from their claim to an established path: publication, PAKE,  *)
(* snapshot authentication, ICE signalling and, where ICE fails, the       *)
(* synchronised UPnP fallback before the legacy race.  Their only medium   *)
(* is a box of the abstract Mailbox, which SessionStore implements.        *)
(*                                                                         *)
(* Peer information is the state of its candidate list, and a digest is    *)
(* what it was taken of.  One sender and one receiver have claimed a code, *)
(* so their PAKE keys agree when the exchange completes.  Whether a path   *)
(* works and how long things take is left open.  Loopback mode, which      *)
(* skips ICE and UPnP, is left out.  A call that runs into its deadline    *)
(* may or may not have had its effect, and a dequeue abandoned by its      *)
(* caller may still take a message later.                                  *)
(***************************************************************************)
EXTENDS Naturals, Sequences, SequencesExt

CONSTANTS
  Code,         \* the session identifier both derive from the pairing code
  QueueMax,     \* messages the mailbox holds for one role
  MaxDeferred,  \* messages of other phases a peer keeps
  NoOne, NoBox

ASSUME PairingAssumption == QueueMax \in Nat /\ MaxDeferred \in Nat

VARIABLES
  pc,         \* where each peer's Run stands
  box,        \* the mailbox
  published,  \* the candidates each peer stored last
  known,      \* the candidates each peer uses for the other
  ready,      \* the digest in the readiness message a peer has accepted
  refreshed,  \* peers whose synchronisation succeeded
  deferred,   \* messages of other phases, oldest first
  have,       \* ICE messages each peer has accepted
  orphan,     \* peers with an abandoned dequeue in flight
  worker,     \* each peer's delayed UPnP attempt
  mapping,    \* each peer's port mapping on its gateway
  confused,   \* a peer met an unexpected message or a digest that differs
  disturbed   \* a deadline other than that of ICE passed, or the box vanished

exchange == <<known, ready, refreshed, have>>
upnp == <<worker, mapping>>
history == <<confused, disturbed>>
vars == <<pc, box, published, exchange, deferred, orphan, upnp, history>>

Peer == {"send", "recv"}
Other(p) == IF p = "send" THEN "recv" ELSE "send"

Candidates == {"none", "initial", "mapped"}
IceTypes == {"ice-auth", "ice-candidates"}
Message == [type: {"pake1", "pake2"} \cup IceTypes, digest: {"none"}]
           \cup [type: {"self-snapshot-auth", "legacy-candidates-ready"},
                 digest: Candidates \ {"none"}]

MB == INSTANCE Mailbox WITH Code <- {Code}, Capability <- Peer, Msg <- Message

Pairing == {"claim", "publish", "say1", "hear1", "reply", "hear2", "say2",
            "wait", "snapshot", "verify"}

Ice == {"auth", "candidates", "signal", "checks"}

Sync == {"store", "announce", "await", "refresh"}

TypeOK ==
  /\ pc \in [Peer -> Pairing \cup Ice \cup Sync
                     \cup {"stop", "ice", "join", "legacy", "end"}]
  /\ box \in [{Code} -> MB!Box \cup {NoBox}]
  /\ published \in [Peer -> Candidates] /\ known \in [Peer -> Candidates]
  /\ ready \in [Peer -> Candidates] /\ refreshed \subseteq Peer
  /\ deferred \in [Peer -> Seq(Message)]
  /\ \A p \in Peer : Len(deferred[p]) <= MaxDeferred
  /\ have \in [Peer -> SUBSET IceTypes]
  /\ orphan \subseteq Peer
  /\ worker \in [Peer -> {"none", "running", "done"}]
  /\ mapping \in [Peer -> {"none", "held", "left"}]
  /\ confused \in BOOLEAN /\ disturbed \in BOOLEAN

Init ==
  /\ pc = [p \in Peer |-> "claim"]
  /\ MB!Init
  /\ published = [p \in Peer |-> "none"]
  /\ known = [p \in Peer |-> "none"]
  /\ ready = [p \in Peer |-> "none"]
  /\ refreshed = {}
  /\ deferred = [p \in Peer |-> <<>>]
  /\ have = [p \in Peer |-> {}]
  /\ orphan = {}
  /\ worker = [p \in Peer |-> "none"]
  /\ mapping = [p \in Peer |-> "none"]
  /\ confused = FALSE /\ disturbed = FALSE

At(p, l) == pc[p] = l
Goto(p, l) == pc' = [pc EXCEPT ![p] = l]

Exists == box[Code] # NoBox
Queue(p) == box[Code].pending[p]

-----------------------------------------------------------------------------
\* Mailbox operations

\* A message that carries no digest, and one that does.
Plain(type) == [type |-> type, digest |-> "none"]

\* Mutant of Signed: the digest is left empty.
SignedEmpty(type, digest) == Plain(type)

Signed(type, digest) == [type |-> type, digest |-> digest]

\* In phase l, peer p sends m and goes on to phase next.
Say(p, l, m, next) ==
  /\ At(p, l)
  /\ MB!Send(Code, p, p, m)
  /\ Goto(p, next)
  /\ UNCHANGED <<published, exchange, deferred, orphan, upnp, history>>

PeerStored(p) == Exists /\ Other(p) \in box[Code].info

\* What receiveType waits for.
Accepts(p) ==
  CASE At(p, "verify") -> {"self-snapshot-auth"}
    [] At(p, "signal") -> IceTypes
    [] At(p, "await")  -> {"legacy-candidates-ready"}
    [] OTHER -> {}

Kept(p) == {i \in DOMAIN deferred[p] : deferred[p][i].type \in Accepts(p)}

\* receiveType returns m: the oldest deferred message of an accepted type, or
\* the head of the queue.
Accept(p, m) ==
  \/ /\ \E i \in Kept(p) :
          /\ \A j \in Kept(p) : i <= j
          /\ m = deferred[p][i]
          /\ deferred' = [deferred EXCEPT ![p] = RemoveAt(@, i)]
     /\ UNCHANGED box
  \/ /\ Kept(p) = {}
     /\ Exists /\ Queue(p) # <<>>
     /\ m = Head(Queue(p)).msg /\ m.type \in Accepts(p)
     /\ MB!Receive(Code, p, p)
     /\ UNCHANGED deferred

\* Mutant of Deferring: a message of another phase is dropped.
DeferringNothing(p, m) == deferred[p]

Deferring(p, m) == Append(deferred[p], m)

\* receiveType keeps a message of another phase and reads on.
Defer(p) ==
  /\ Accepts(p) # {} /\ Kept(p) = {}
  /\ Exists /\ Queue(p) # <<>>
  /\ LET m == Head(Queue(p)).msg
     IN /\ m.type \notin Accepts(p)
        /\ Len(deferred[p]) < MaxDeferred
        /\ deferred' = [deferred EXCEPT ![p] = Deferring(p, m)]
  /\ MB!Receive(Code, p, p)
  /\ UNCHANGED <<pc, published, exchange, orphan, upnp, history>>

-----------------------------------------------------------------------------
\* claimPairingCode and completeRendezvousExchange

Claim(p) ==
  /\ At(p, "claim")
  /\ IF p = "send" THEN MB!Open(Code, p) ELSE MB!Join(Code, p)
  /\ Goto(p, "publish")
  /\ UNCHANGED <<published, exchange, deferred, orphan, upnp, history>>

Store(p, candidates) ==
  /\ MB!Publish(Code, p, p)
  /\ published' = [published EXCEPT ![p] = candidates]

StoreSelf(p) ==
  /\ At(p, "publish")
  /\ Store(p, "initial")
  /\ Goto(p, IF p = "send" THEN "say1" ELSE "hear1")
  /\ UNCHANGED <<exchange, deferred, orphan, upnp, history>>

SayPake(p) ==
  \/ Say(p, "say1", Plain("pake1"), "hear1")
  \/ Say(p, "reply", Plain("pake1"), "hear2")
  \/ Say(p, "say2", Plain("pake2"), "wait")

\* PAKE takes whatever comes first, and an unexpected message ends the run.
Hear(p, l, type, next) ==
  /\ At(p, l)
  /\ Exists /\ Queue(p) # <<>>
  /\ MB!Receive(Code, p, p)
  /\ LET expected == Head(Queue(p)).msg.type = type
     IN /\ Goto(p, IF expected THEN next ELSE "end")
        /\ confused' = (confused \/ ~expected)
  /\ UNCHANGED <<published, exchange, deferred, orphan, upnp, disturbed>>

HearPake(p) ==
  \/ Hear(p, "hear1", "pake1", IF p = "send" THEN "say2" ELSE "reply")
  \/ Hear(p, "hear2", "pake2", "wait")

WaitPeer(p) ==
  /\ At(p, "wait") /\ PeerStored(p)
  /\ known' = [known EXCEPT ![p] = published[Other(p)]]
  /\ Goto(p, "snapshot")
  /\ UNCHANGED <<box, published, ready, refreshed, have, deferred, orphan, upnp, history>>

SaySnapshot(p) == Say(p, "snapshot", Signed("self-snapshot-auth", published[p]), "verify")

HearSnapshot(p) ==
  /\ At(p, "verify")
  /\ \E m \in Message :
       /\ Accept(p, m)
       /\ Goto(p, IF m.digest = known[p] THEN "auth" ELSE "end")
       /\ confused' = (confused \/ m.digest # known[p])
  /\ UNCHANGED <<published, exchange, orphan, upnp, disturbed>>

\* The deadline of pairing, or of the claim, passes, or a mailbox call fails.
PairingFails(p) ==
  /\ pc[p] \in Pairing
  /\ Goto(p, "end")
  /\ disturbed' = TRUE
  /\ UNCHANGED <<box, published, exchange, deferred, orphan, upnp, confused>>

-----------------------------------------------------------------------------
\* attemptICEQUICSession

SayIce(p) ==
  \/ Say(p, "auth", Plain("ice-auth"), "candidates")
  \/ Say(p, "candidates", Plain("ice-candidates"), "signal")

\* startUPnPFallback, which does nothing a second time
StartWorker(p) == worker' = [worker EXCEPT ![p] = IF @ = "none" THEN "running" ELSE @]

\* With both messages the connectivity checks and the UPnP delay start.
HearIce(p) ==
  /\ At(p, "signal")
  /\ \E m \in Message :
       /\ Accept(p, m)
       /\ have' = [have EXCEPT ![p] = @ \cup {m.type}]
  /\ IF have'[p] = IceTypes
     THEN Goto(p, "checks") /\ StartWorker(p)
     ELSE UNCHANGED <<pc, worker>>
  /\ UNCHANGED <<published, known, ready, refreshed, orphan, mapping, history>>

IceWorks(p) ==
  /\ At(p, "checks") /\ have[Other(p)] = IceTypes
  /\ Goto(p, "stop")
  /\ UNCHANGED <<box, published, exchange, deferred, orphan, upnp, history>>

\* No agent, no usable candidate, no working pair, no QUIC, or the ICE budget
\* spent.
IceFails(p) ==
  /\ pc[p] \in Ice
  /\ Goto(p, "join")
  /\ StartWorker(p)
  /\ UNCHANGED <<box, published, exchange, deferred, orphan, mapping, history>>

\* The budget runs out while a dequeue is under way.
IceAbandons(p) ==
  /\ At(p, "signal")
  /\ Goto(p, "join")
  /\ StartWorker(p)
  /\ orphan' = orphan \cup {p}
  /\ disturbed' = TRUE
  /\ UNCHANGED <<box, published, exchange, deferred, mapping, confused>>

\* The mailbox gives the abandoned call a message, which is lost, or ends it.
OrphanTakes(p) ==
  /\ p \in orphan
  /\ Exists /\ Queue(p) # <<>>
  /\ MB!Receive(Code, p, p)
  /\ orphan' = orphan \ {p}
  /\ UNCHANGED <<pc, published, exchange, deferred, upnp, history>>

OrphanEnds(p) ==
  /\ p \in orphan
  /\ orphan' = orphan \ {p}
  /\ UNCHANGED <<pc, box, published, exchange, deferred, upnp, history>>


-----------------------------------------------------------------------------
\* The delayed UPnP attempt

\* The attempt ends with or without a mapping, also when it has been cancelled.
Attempt(p) ==
  /\ worker[p] = "running"
  /\ worker' = [worker EXCEPT ![p] = "done"]
  /\ mapping' \in {mapping, [mapping EXCEPT ![p] = "held"]}
  /\ UNCHANGED <<pc, box, published, exchange, deferred, orphan, history>>

\* cleanupUPnPMapping gives up after two attempts.
Unmap(p) ==
  mapping' \in {[mapping EXCEPT ![p] = IF @ = "held" THEN m ELSE @] : m \in {"none", "left"}}

\* Mutant of Joined: the attempt is cancelled and not waited for.
JoinedNever(p) == TRUE

Joined(p) == worker[p] = "done"

\* stopAndCleanupUPnPFallback, once ICE has a path
Stop(p) ==
  /\ At(p, "stop") /\ Joined(p)
  /\ Unmap(p)
  /\ Goto(p, "ice")
  /\ UNCHANGED <<box, published, exchange, deferred, orphan, worker, history>>

\* Mutant of AfterSync: readiness is announced before the candidates are stored.
AfterSyncAnnounceFirst ==
  [join |-> "announce", announce |-> "store", store |-> "await"]

\* What follows each phase of synchronizeUPnPFallback.
AfterSync == [join |-> "store", store |-> "announce", announce |-> "await"]

Join(p) ==
  /\ At(p, "join") /\ Joined(p)
  /\ Goto(p, AfterSync.join)
  /\ UNCHANGED <<box, published, exchange, deferred, orphan, upnp, history>>

\* The candidates of updatedSelf.
Offer(p) == IF mapping[p] = "held" THEN "mapped" ELSE "initial"

StoreUpdated(p) ==
  /\ At(p, "store")
  /\ Store(p, Offer(p))
  /\ Goto(p, AfterSync.store)
  /\ UNCHANGED <<exchange, deferred, orphan, upnp, history>>

Announce(p) ==
  Say(p, "announce", Signed("legacy-candidates-ready", Offer(p)), AfterSync.announce)

HearReady(p) ==
  /\ At(p, "await")
  /\ \E m \in Message : Accept(p, m) /\ ready' = [ready EXCEPT ![p] = m.digest]
  /\ Goto(p, "refresh")
  /\ UNCHANGED <<published, known, refreshed, have, orphan, upnp, history>>

\* A refresh that does not match its digest keeps the initial candidates.
Refresh(p) ==
  /\ At(p, "refresh") /\ PeerStored(p)
  /\ IF published[Other(p)] = ready[p]
     THEN /\ known' = [known EXCEPT ![p] = ready[p]]
          /\ refreshed' = refreshed \cup {p}
          /\ UNCHANGED confused
     ELSE confused' = TRUE /\ UNCHANGED <<known, refreshed>>
  /\ Goto(p, "legacy")
  /\ UNCHANGED <<box, published, ready, have, deferred, orphan, upnp, disturbed>>

\* The deadline of the synchronisation passes, or a mailbox call fails.
SyncFails(p) ==
  /\ pc[p] \in Sync
  /\ Goto(p, "legacy")
  /\ disturbed' = TRUE
  /\ UNCHANGED <<box, published, exchange, deferred, orphan, upnp, confused>>

-----------------------------------------------------------------------------
\* The path is used, which LegacyRace and Transfer model, and Run returns.

EndIce(p) ==
  /\ At(p, "ice")
  /\ Goto(p, "end")
  /\ UNCHANGED <<box, published, exchange, deferred, orphan, upnp, history>>

\* The mapping of the selection is removed.
EndLegacy(p) ==
  /\ At(p, "legacy")
  /\ Unmap(p)
  /\ Goto(p, "end")
  /\ UNCHANGED <<box, published, exchange, deferred, orphan, worker, history>>

\* The session lapses or is terminated.
Vanish ==
  /\ Exists
  /\ MB!Vanish({Code})
  /\ disturbed' = TRUE
  /\ UNCHANGED <<pc, published, exchange, deferred, orphan, upnp, confused>>

Run(p) ==
  \/ Claim(p) \/ StoreSelf(p) \/ SayPake(p) \/ HearPake(p)
  \/ WaitPeer(p) \/ SaySnapshot(p) \/ HearSnapshot(p)
  \/ SayIce(p) \/ HearIce(p) \/ Stop(p) \/ Defer(p)
  \/ Join(p) \/ StoreUpdated(p) \/ Announce(p) \/ HearReady(p) \/ Refresh(p)
  \/ EndIce(p) \/ EndLegacy(p)

Next ==
  \/ \E p \in Peer :
       \/ Run(p) \/ Attempt(p) \/ IceWorks(p)
       \/ PairingFails(p) \/ IceFails(p) \/ SyncFails(p)
       \/ IceAbandons(p) \/ OrphanTakes(p) \/ OrphanEnds(p)
  \/ Vanish

Spec == Init /\ [][Next]_vars

\* A peer that can go on does, and a UPnP attempt ends within its own timeout.
PromptSpec == Spec /\ \A p \in Peer : WF_vars(Run(p)) /\ WF_vars(Attempt(p))

-----------------------------------------------------------------------------
\* Properties

\* However the peers' steps interleave, and whatever deadlines cut short: PAKE,
\* which takes the next message whatever it is, never meets one of another
\* phase, and no digest differs from what the mailbox returns, because each
\* peer stores before it announces and changes nothing until it is answered.
NeverConfused == ~confused

\* No run ends with a mapping it has not tried to remove, although the attempt
\* may finish at any point of the selection, or after it was cancelled.
NoMappingLeak == \A p \in Peer : At(p, "end") => mapping[p] # "held"

\* When both peers fall back, they synchronise without any deadline, although
\* one may announce while the other still awaits ICE messages that never come.
SyncCompletes ==
  (\A p \in Peer : pc[p] \in {"join"} \cup Sync) ~> (disturbed \/ refreshed = Peer)

-----------------------------------------------------------------------------
\* The inductive invariant behind the proofs

\* Who plays which part of the PAKE.
PartsOK == pc["send"] \notin {"reply", "hear2"} /\ pc["recv"] \notin {"say1", "say2"}

\* The sender opens the box.
ClaimOK == At("send", "claim") => ~Exists /\ pc["recv"] \in {"claim", "end"}

\* How far the delayed attempt of a peer is when the peer is in some phase, and
\* that a dequeue is abandoned only by ICE.
AttemptOK(p) ==
  /\ pc[p] \in Pairing => worker[p] = "none"
  /\ pc[p] \in Sync \cup {"ice", "legacy"} => worker[p] = "done"
  /\ worker[p] # "done" => mapping[p] = "none"
  /\ p \in orphan => pc[p] \in {"join"} \cup Sync \cup {"legacy", "end"}
  /\ pc[p] \in {"ice", "end"} => mapping[p] # "held" /\ worker[p] # "running"

\* What is sent to p before ICE, how much of it a peer in phase l has taken, and
\* how much of what goes to the other peer it has sent.
Script(p) == IF p = "send" THEN <<"pake1", "self-snapshot-auth">>
                           ELSE <<"pake1", "pake2", "self-snapshot-auth">>

Heard(p, l) ==
  CASE l \in {"claim", "publish", "say1", "hear1"} -> 0
    [] l \in {"reply", "hear2"} -> 1
    [] l \in {"say2", "wait", "snapshot", "verify"} -> Len(Script(p)) - 1
    [] OTHER -> Len(Script(p))

Said(p, l) ==
  CASE l \in {"claim", "publish", "say1", "reply"} -> 0
    [] l = "hear1" -> IF p = "send" THEN 1 ELSE 0
    [] l \in {"say2", "hear2"} -> 1
    [] l \in {"wait", "snapshot"} -> Len(Script(Other(p))) - 1
    [] OTHER -> Len(Script(Other(p)))

\* A queue holds what has been said of a script and not heard, then the rest.
Fits(queue, script, heard, said) ==
  /\ \A i \in DOMAIN queue :
       heard + i <= Len(script) => queue[i].msg.type = script[heard + i]
  /\ IF said < Len(script) THEN Len(queue) = said - heard ELSE Len(queue) >= said - heard

\* Of a peer that has ended it is not known how much it has said.
StreamOK(p) ==
  \E said \in 0..Len(Script(p)) :
    /\ ~At(Other(p), "end") => said = Said(Other(p), pc[Other(p)])
    /\ Heard(p, pc[p]) <= said
    /\ Exists => Fits(Queue(p), Script(p), Heard(p, pc[p]), said)

\* A peer changes its candidates when it has heard all of its script, and not
\* after it has announced them.
PublishedOK(p) ==
  /\ pc[p] \in (Pairing \ {"claim", "publish"}) \cup Ice \cup {"stop", "ice", "join", "store"}
       => published[p] = "initial"
  /\ At(p, "announce") => published[p] = Offer(p)
  /\ published[p] = "mapped" => pc[Other(p)] \notin Pairing \ {"verify"}
  /\ Exists /\ p \in box[Code].info => published[p] # "none"

Announced(p, digest) == pc[p] \in {"await", "refresh", "legacy", "end"} /\ published[p] = digest

\* What a digest that p has been sent was taken of.
DigestOK(p, m) ==
  /\ m.type = "self-snapshot-auth" => m.digest = "initial"
  /\ m.type = "legacy-candidates-ready" => Announced(Other(p), m.digest)

MailOK(p) ==
  /\ Exists => \A i \in DOMAIN Queue(p) : DigestOK(p, Queue(p)[i].msg)
  /\ \A i \in DOMAIN deferred[p] : DigestOK(p, deferred[p][i])
  /\ pc[p] \in Pairing => deferred[p] = <<>>
  /\ pc[p] \in {"snapshot", "verify"} => known[p] = "initial"
  /\ At(p, "refresh") => Announced(Other(p), ready[p])

PairingInv ==
  /\ TypeOK /\ PartsOK /\ ClaimOK /\ ~confused
  /\ \A p \in Peer : /\ AttemptOK(p) /\ PublishedOK(p) /\ MailOK(p)
                     /\ ~At(p, "end") => StreamOK(p)
=============================================================================
