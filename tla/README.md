# Wormzy in TLA+

Wormzy moves one file between two machines that share a pairing code. A public
mailbox introduces the peers, the peers look for a direct QUIC path and fall
back to a relay, and the file crosses the chosen path end to end encrypted.
This directory holds TLA+ specifications of the parts of that system whose
correctness depends on the order in which things happen, the TLC models that
check them on small instances, and TLAPS proofs of the invariants that matter
most.

Source paths below are relative to `src/`; `transport/` stands for
`internal/transport/`.

## The system

| component | code | state it keeps | operations |
|---|---|---|---|
| session store | `transport/session_store.go`, `mailbox.go` | one Redis record per pairing code (owners, peer information, queues, reports) with a lease; the index of active sessions | claim, publish, wait for peer, enqueue, dequeue, report; create and evict scripts |
| operator controls | `transport/metrics.go`, `operator.go` | drain record, aggregated metrics | drain, terminate, collect |
| HTTP mailbox | `transport/mailbox_http_server.go`, `mailbox_http_client.go`, `mailbox_limits.go`, `mailbox_capability.go` | fixed-window counters, long-poll gate | one request per store operation; long poll answered 204 after 25 s |
| pairing protocol | `transport/transport.go`, `mailbox_iface.go`, `authenticated_signaling.go`, `ice_path.go`, `progressive_upnp.go` | each peer's phase, deferred messages, PAKE key | publish, PAKE, snapshot authentication, ICE signalling, UPnP synchronisation |
| path selection | `transport/path_selection.go`, `relay_client.go` | provisional winner, timers, result channels, worker goroutines | accept and dial workers, relay attempts, drain of losers |
| relay server | `transport/relay_server.go` | live counters, waiting map, one handler per connection | admit, register, wait, pair, relay, close |
| transfer | `transport/transport.go`, `transfer_completion.go` | file on either side, chunk stream, receipt stream, lease goroutine | send, receive, verify, exchange receipts, report |
| UPnP mapping | `transport/upnp.go`, `upnp_discovery.go`, `progressive_upnp.go` | a mapping on the gateway and whether it is ours | delayed attempt, reconcile, close |
| legacy rendezvous server | `internal/rendezvous/rendezvous.go` | sessions with two roles | retired: `README.md:127` and `docs/relay_https.md:43` keep it for tests only |
| telemetry, STUN, factories, commands, UI | the rest | none that two actors share | pure functions and I/O |

How they interact: a peer process owns one mailbox (in-process Redis or HTTP)
and goes through claim, publish, PAKE, snapshot authentication, path selection
and transfer in that order. All coordination between the peers before a path
exists goes through the session store, which any number of requests modify
concurrently with optimistic transactions. The lease goroutine keeps using the
store during the transfer. The relay knows nothing of the mailbox: it matches
two connections that present the same derived identifiers in opposite roles.
The operator acts on the store's keys directly. Over HTTP every operation of
the store is one request, admitted by counters in Redis and, when it waits, by a
gate in the server process; a request goes on after its client has left. The
UPnP worker runs beside the pairing and leaves an entry on a gateway that other
runs, of this host and of others, use as well.

What is hard here: the store's read, clock reading and commit are three round
trips, and keys expire, are evicted, terminated and recreated in between; the
relay's handlers run concurrently, and a waiter's timer can fire just as its
partner arrives; both peers race several connections and must settle on one;
either side may vanish at any point and nothing of it must be held for ever. A
request over HTTP and a call to a gateway may take effect although the caller is
told that it failed, or is told nothing.

What makes each part correct:

* store: one owner per role for the life of a session; no committed update is
  lost to a stale copy; messages are handed out once and in order; limits hold
  under concurrency; leases only grow and never pass the absolute lifetime;
  the index knows every active session; only stale sessions are evicted; the
  whole refines a mailbox whose operations are atomic.
* HTTP mailbox: a long poll that ends, or the next one, loses no message behind
  the back of a client that was told of no failure; a client does not stand in
  its own way at the gate; narrow limits shield the wide ones.
* UPnP: a run leaves no mapping behind, and removes nobody else's.
* relay: counters are exact; the waiting map and the handlers agree; pairs are
  exclusive and match; a timer does not break a pair; nothing is held for ever.
* pairing: both peers end with the same key and the information the other
  published; no phase consumes another's message.
* path selection: at most one connection survives per peer, and it is the same
  one when no timer interferes; no worker blocks on a full channel.
* transfer: the sender reports success only if the receiver has the file it
  sent; a file is kept exactly when it was verified.

## Modules

`SessionStore` models the store with the claim path in front of it and the
operator beside it. A *worker* is a goroutine serving one request; it moves
through the phases in `pc` and each phase ends with one Redis round trip:

| action | code |
|---|---|
| `Begin` | a request arrives (`mailbox.go` methods, HTTP handlers) |
| `ReadControl` | `Claim` reads the drain control |
| `ReadTime`, `CreateExists`, `CreateRefused`, `Create` | `createSenderSession`: TIME, then the create script |
| `Fetch`, `FetchMissing` | `modify`: WATCH and GET |
| `DecideStale`, `DecideAccept`, `DecideReject` | `modify`: TIME, lifetime check, `mutate` on the copy |
| `Commit`, `TxFailed`, `RemoveWatched` | EXEC succeeding, EXEC failing, the watched removal |
| `LoadFresh`, `LoadStale`, `Evict` | `load` and the compare-and-delete script |
| `Terminate`, `SetDraining` | operator console |
| `Tick` | Redis's clock and key expiry |

`store[k]` is the record under a code with the expiry of its key as `lease`;
`index` the score of each member of the active set; `watching` the connections
whose WATCH on a key is still clean, so EXEC succeeds exactly if the key was
not touched since. `acked`, `sent` and `got` are history variables of the
current incarnation of a session. Message bodies, peer information and
statistics have no content: `info` and `reports` are the roles that stored
theirs. Abstractions: WATCH and the GET that follows it are one step (a write
in between would only fail the EXEC); Redis's clock does not step back;
`Cleanup` and `delete`, which no non-test code calls, do what `Terminate`
does; a receiver's poll of its claim is a `DecideReject` that retries, or a
finished request followed by a new one; the absolute lifetime is longer than
the second that creation times are truncated to, as its default is, so the
lifetime check before the create script never fails.

`Mailbox` is the abstract specification: boxes with atomic operations that may
vanish. `SessionStore!ImplementsMailbox` states the refinement, mapping each
record to its content without times.

`RelayServer` models `serve` and `handleConn`: one action is one section of a
handler between two blocking points, or one critical section of the mutex.
Every `select` may take any ready case. Durations are not modelled: a timer
may fire whenever its select is reached, which covers every duration. A peer's
retry is a second connection with the same registration. Closing both
connections of a pair is one step. The relayed streams, the activity timer and
the telemetry gauges are left out.

`PairingProtocol` models both peers' `Run` from the claim to an established
path, over a box of the abstract `Mailbox`, so the store's refinement is what
lets this module ignore WATCH and leases. `pc` is the phase of each peer:

| phases | code |
|---|---|
| `claim`, `publish` | `claimPairingCode`, the first `StoreSelf` |
| `say1` .. `say2` | `runPAKEOverMailbox`, two messages each way, from the plain `Receive` |
| `wait`, `snapshot`, `verify` | `WaitPeer`, the authenticated self-snapshots |
| `auth`, `candidates`, `signal`, `checks` | `attemptICEQUICSession` and its signalling |
| `join`, `store`, `announce`, `await`, `refresh` | `synchronizeUPnPFallback` |
| `stop` | `stopAndCleanupUPnPFallback` when ICE has a path |
| `ice`, `legacy`, `end` | the path in use, and the end of `Run` |

Candidate lists have three states, none, initial and with a mapping, and a
digest is the state it was taken of: two lists are equal exactly if their
digests are. `worker` and `mapping` are the delayed UPnP attempt and what it
left on the gateway. Mailbox calls with a deadline may fail at any point; a
dequeue that its caller has abandoned (`orphan`) may still take one message,
as a long poll does whose client is gone. `confused` and `disturbed` are
history. Left out: the cryptography (both peers claimed the same code, so their
keys agree), loopback mode, peers that lack a feature, the content of
candidates.

`LegacyRace` models `path_selection.go` on both peers at once. Direct
connections are named by dialer and number, relay attempts are numbered on each
side and `pairs` says which ones the relay has joined. Key confirmation is two
steps, because the responder is done one message before the initiator; a
connection may fail at any step. Each peer has accept and dial workers, relay
workers, the two result channels with their real capacities, a provisional
winner, and `finish`, which cancels, joins the workers and drains. `forced` is
history: a timer made the choice. Hole punching, candidate parsing, and the
order in which dials start are left out.

`Transfer` models both peers from the established connection to the return of
`Run`: the header and blocks of the file, its trailer, the reservation of a
destination name, verification, the exchange of receipts, the linger, the lease
goroutine, the report and the removal of what was not kept. A file is a
sequence of blocks and its digest is its content. The path is ICE or legacy
(`Legacy`), which decides whether it is closed after the report or before it;
neither closing tells the peer, whose QUIC idle timeout notices.
Bytes in flight when a connection is lost may be read or lost. `Interrupted`
covers local errors and deadlines; `quiet` is history: nothing has gone wrong.
The Noise handshake before the first byte is left out.

`HTTPMailbox` models the public mailbox: its client, its server and the
admission in front of the store, over a box of the abstract `Mailbox`.

| action | code |
|---|---|
| `Begin`, `Resume`, `GiveUp` | a call of the client, its repetition after 204, its context or connection ending |
| `Count` | `allow`, once per counter: the claim's own in the order of `allowClaim`, and the capability's |
| `Attempt`, `Authenticate` | `authorizeMailboxOperation`, `authorizeMailboxIdentity` |
| `Acquire`, `Release` | the critical sections of the long-poll gate; the release is deferred, so it precedes the flushing of the answer |
| `Serve`, `Take`, `Join`, `SeePeer`, `Refuse` | the store's operation commits, or refuses |
| `PollTimeout`, `RedisFails`, `Notice` | what else ends a request: the poll's deadline, an error, a client that is gone |
| `Reply` | the answer reaches the client that waits for it, or nobody |
| `Turn`, `Vanish` | a rate window ends; the session expires or is terminated |

`task[h]` is a request being served and `call[c]` says which request a client
waits for, so a request that was given up is one nobody waits for. A store
operation is one step, which is what the refinement of `SessionStore` to
`Mailbox` is for. Facts the model takes from the code around it: reading the
window's number and incrementing its counter are one step; the counters that an
address or everybody shares with clients outside the model may be spent or not
(`Attempt`); go-redis is used without `ContextTimeoutEnabled`, so the end of a
poll does not cut off an EXEC under way, and an EXEC whose reply is lost is
answered as unavailable although it committed (`Commits`); Go's HTTP client
does not repeat a POST on its own. The ICE signalling calls, whose budget is
shorter than the server's 25 s poll, are the practical case of a poll given up
whose successor finds the slot taken. Left out: JSON, methods and sizes,
capability encoding, proxy headers, the operator's endpoints.

`UPnPMapping` models `upnp.go` with the attempt and the cleanup of
`progressive_upnp.go`, for several runs that share gateways. The gateway is not
in the repository: it keeps one entry per external port, drops it when its lease
ends, refuses to overwrite an entry of another host and lets a host overwrite
its own; a call may have its effect at once or later although the caller is told
it failed. An entry carries its run's random description and is represented by
that run. Each SOAP call is one action. `Cancel` is the stop of the fallback or
the attempt's own timeout. A gateway reports an absent entry as an error, so
`Close` counts that as a failure and is tried again. Discovery and the checks of
the external address are one choice (`QueryUsable`, `QueryFails`). A process
that is killed leaves its entry to the lease, and is not an action.

`MCSessionStore`, `MCRelayServer`, `MCHTTPMailbox`, `MCPairingProtocol`,
`MCUPnPMapping`, `MCLegacyRace` and `MCTransfer` instantiate these for TLC;
`SessionStoreProofs`, `StoreRefinementProofs`, `RelayServerProofs`,
`HTTPMailboxProofs`, `UPnPMappingProofs`, `PairingProofs`, `LegacyRaceProofs`
and `TransferProofs` hold the theorems.

## Runs

| run | question | instance |
|---|---|---|
| `store_claims` | can claims race past each other, can a stale copy be written | 2 workers, 1 code, 2 senders, 3 would-be receivers (two of them also senders), clock to 3, terminate |
| `store_leases` | leases, index, admission, eviction | 2 workers, 2 codes, capacity 1, lease 2, lifetime 3, creation truncated to 2 ticks, clock to 6, terminate and drain |
| `store_mailbox` | order, loss, limits, incarnations, refinement | 2 workers, one code opened by two senders in turn, one receiver that only dequeues, two message sizes, 2 messages and 3 bytes per role, terminate |
| `relay` | the waiting map, pairs, counters, and whether losses spread and slots come back | a sender, two receivers with its registration and a stranger from two sources; live 2, per source 2, waiting 1, per source 1 |
| `http_loss` | messages, the gate, and who is served | a sender and a receiver, 3 handlers, 3 calls each, one client that gives up, one fault, a queue of 1 |
| `http_live` | claim limits over a window's end, and long polls that are resumed | as above with every call of the client, 2 handlers, 2 calls each, one window that ends, no fault |
| `pairing` | phases and digests (`NeverConfused`), leaked mappings (`NoMappingLeak`), fallback | the two peers; queues of 8, at most 2 deferred messages |
| `upnp` | mappings left behind or taken away | two runs of one host and one of another, one gateway, ports 1 and, for one run, 2; one failed call per run |
| `race` | do the peers choose the same connection, does one survive, does `finish` block | one dial each and one relay attempt each |
| `race_split` | is there no split brain | one dial each; *violated* |
| `transfer` | what success means, what is left on disk, whether failure spreads and both peers end | the empty file and a file of two blocks, two destination names, legacy path |
| `transfer_report` | does the receiver's report tell whether the file was accepted | *violated* |

Two workers are the smallest number with a conflict, and suffice for one:
every hazard of the store is one worker acting between two round trips of
another, and a worker serves any number of requests, so a third actor's effect
(expiry, operator, another client) is a step of the environment or of the same
second worker. The clock runs to a lease, a refresh and the absolute lifetime
where leases are the question, and only far enough for one expiry elsewhere.
`MaxTime` and `MaxSent` are the bounds of the store's model. In `relay` the
limit of two live places makes four connections compete, and a retry (the second
receiver) finds its predecessor waiting, paired or gone. Three handlers let a
poll that was given up meet its successor while the sender is served; three calls
are a claim, a message and a second message, or a claim and two polls. With one
fault a run of `upnp` loses the answer to its addition or to its cleanup; two
failures are what `NoStray` excuses, and its theorem is for any number. `QueueMax` and
`MaxDeferred` of `pairing` are limits of the code set to less than it allows
(16 and 16): the protocol sends fewer messages than 8 to one role, and never
has more than two of another phase in front of the one it waits for, so a
larger limit changes nothing, and a smaller one stops the fallback. Of files,
the empty one and the one of two different blocks tell apart a lost, an added, a
swapped and a changed block.

Store runs check deadlock: an idle worker can always begin. The others do not,
because a peer or a run that has ended, and a server with nothing left to do,
stops.

Two runs find a disagreement with what the repository says of itself.

* `transfer_report` (`ReportTellsFile`): `docs/OPERATOR-CONSOLE.md:52` calls the receiver's outcome
  authoritative "because it confirms whether the destination file was
  accepted". The receiver keeps the verified file before the receipts run, and
  an error in the receipts makes it report a failure without removing the file;
  the sender may by then have reported success. What does hold is
  `SentIsKept`: a sender that reports success has a receiver with the file.
* `race_split` (`NoSplitBrain`): the comment at `path_selection.go:622` gives the grace window as
  the way to avoid split brain. Each peer's window starts at its own first
  success, so one may fire while the preferred connection is being confirmed,
  and the peers settle on different connections. `UnforcedAgreement` says what
  does hold: without a timer they agree.

Narrower facts are not stated as properties. The purge of the index is
inclusive (`session_store.go:43`) while a key lives through the millisecond of
its expiry, so a session can leave the index, make room for another sender, and
be renewed by a commit in that millisecond; admission alone respects the
capacity. The drain control is read before the session is created, so a claim
already past the check creates its session in drain mode. The connections a
relay holds open stay within its limits (`OpenWithinLimits`), which follows from
`CountsExact` and is proved rather than run.

### Fairness

The safety runs assume none. The liveness runs have a `PromptSpec`, weak
fairness of the steps a goroutine can take on its own, with strong fairness
of the transfer's `LeaseEnd` because the lease goroutine's select can be
occupied by its ticker whenever the cancellation is ready. The idle timeout of a
QUIC connection counts as such a step: it is how a peer notices that the other
is gone. They assume nothing of the program's own timers and deadlines, the network
or a peer's willingness to send, so `DeadWaiterLeaves`, `PeerLossPropagates`,
`FailureSpreads`, `QuietEnds` and `SyncCompletes` rest on the code noticing. Where a timer is what ends a wait,
its fairness is the premise of the property: `TimersFire` in
`EverySlotReturned` and `EveryoneEnds`. The code arms each of those timers
before the wait it ends. `http_live` is fair to the server's handlers and to a
client's resumption after its retry delay, not to the poll's deadline or a
client's calls: `MessageArrives` needs the message to be found by the poll.

## Proofs

`SessionStoreProofs` proves `StoreInv` inductive for any workers, codes,
capabilities, requests and limits, from `StoreAssumption`. `TypeOK` alone is
not inductive for what matters: a worker between round trips carries a copy
and a request (`WorkerOK`); a clean WATCH means that copy *is* the record and
that the lease about to be granted is not shorter than the one in force
(`WatchOK`); and a lease lies between the clock, the clock plus the sliding
lease, and the absolute lifetime (`LeaseOK`). From these follow `TypeOK`,
`LeaseWithinLifetime`, `IndexCoversActive` and the action properties
`LeaseNeverShrinks` and `NoLostUpdate`. The step proof is by action; a lemma
per Redis command (save, delete, tick) carries the parts it can disturb.

`StoreRefinementProofs` proves what the sessions contain, and that the store
implements the mailbox. Its invariant `ContentInv` adds to `StoreInv` that only
a sender's claim creates a session (`OriginOK`), that whoever was told it owns a
role still does, with one owner per role and incarnation (`OwnersOK`), that no
creation second lies ahead of the clock, so a copy once found stale stays stale
(`CreatedOK`), and `FifoDelivery`. Every step removes sessions whole, creates one
or commits one (`SessionsChange`), and each part of the invariant is proved for
those three. `SingleOwner` and `OnlyStaleRemoved` follow, and so does
`ImplementsMailbox`: a creation is `Open`; a commit is the operation its request
names, or, as the repeated claim of an owner, nothing visible; an expiry, an
eviction, a termination and a commit after its own deadline are `Vanish`. The
arithmetic it needs of the clock is that truncation to seconds is monotone
(`UnixSecondMonotone`), for any number of ticks per second.

`RelayServerProofs` proves `RelayInv` inductive: besides `TypeOK` and
`SlotsHeld` it says in which phases a matched connection, a pair's owner and a
closed connection can be. `TypeCorrect`, `PairsDisjoint`, `PairSurvivesTimer`,
`CountsExact` and `OpenWithinLimits` follow; the counters need the cardinality
theorems because every handler adds or removes one member of the set they count.

`HTTPMailboxProofs` proves `HTTPInv` inductive for any clients, limits, handlers
and calls, from `HTTPAssumption`. A request carries a message only between its
dequeue and its answer (`TaskOK`); a request nobody waits for belongs to a client
that gave one up (`HandlerOK`), and a client waits for one request of its own
(`CallOK`); a slot of the gate has exactly one holder (`SlotOK`). `NoSilentLoss`
is part of the invariant; `BusyOnlyIfAway` follows because a second request of
the same client would have to be one it waits for as well, and `PollerIsServed`
because only the holder of the slot takes messages. Steps are grouped by what
they do to the request: go on, answer without a message, leave the gate; taking,
answering and posting have proofs of their own. `NarrowShieldsGlobal` compares
counters that are reset by windows. `Admitted` is the set of claims the narrower
counters let through, numbered within their window, so that a sum over clients is
a cardinality. `ShieldInv` adds that this set is finite and that the claims
between the narrower counters and the common one (`Pending`) are still covered;
what a window's end carries over are exactly those.

`UPnPMappingProofs` proves `MappingInv` inductive for any runs, hosts, gateways
and ports, with the code's two cleanup attempts (`UPnPAssumption`): an entry is
tended by its run, with one failure for each call of `Close` before the present
one, or its run has had two failures, or it was added late (`EntryOK`); what is
about to be deleted is what was checked or came since (`CheckedOK`).

`PairingProofs` proves `PairingInv` inductive for any limits of the queue and of
deferred messages. What makes `NeverConfused` true is the order of a peer's
messages, which `NeverConfused` does not mention: each role is sent a fixed
script before ICE (`Script`), a phase determines how much of it has been heard
(`Heard`) and said (`Said`), and a queue is the part in between followed by
messages of ICE and of the fallback (`StreamOK`, `Fits`). A peer that has ended
may have stopped anywhere in its script, so its count is existentially
quantified. For the digests, a peer that has announced candidates changes them
no more (`PublishedOK`, `Announced`), and every digest on its way, deferred or
accepted is of what its sender stores (`DigestOK`, `MailOK`). `AttemptOK`
relates the UPnP attempt to the phase of its run; `NoMappingLeak` is its last
line. A lemma for each kind of step (taking, posting, leaving a phase) serves the
actions that are instances of it.

`LegacyRaceProofs` proves `RaceInv` inductive for any number of dials on either
side and of relay attempts. Every open connection is in the hands of one worker,
one channel entry, or is the provisional or the chosen one (`OpenOK`,
`PassedOK`), and is handed on once (`OnceOK`); a peer that is done has joined its
workers and drained its channels (`DoneOK`), which gives `OneSurvivor`. The space
left in the result channel is at least the number of workers that have yet to
return (`RoomOK`), which gives `NoWorkerBlocks`. `UnforcedAgreement` needs that a
peer answers one connection only (`AnsweredOK`), that a confirmed dial was
answered (`WorkersOK`), and that without a timer only the preferred direction is
chosen (`CalmOK`).

`TransferProofs` proves `TransferInv` inductive for any files, blocks and
destination names, on either path. A trailer in flight tells what the sender
read (`StreamOK`), a file that passed verification is complete (`CompleteOK`),
and the presence of a receipt, or the step a peer has reached, tells what the
other has done (`ReceiptOK`, `StepOK`): the sender's success implies the file is
kept, the receiver's implies the sender's. `NoDebris` comes from `FileOK`, and
`NoClobber` from a case analysis of what may write the directory.

The proofs assume of the constants only what the `ASSUME`s of the modules say:
limits are natural numbers, sentinels such as `NoOne`, `NoConn` and `Absent` are not
members of the sets they stand outside of, there is a client and a code, and a
trailer has a length and is not a block of a file. Every invariant and every
action property of the passing runs is a theorem, and so is the refinement.

Model-checked only: the liveness properties `DeadWaiterLeaves`,
`PeerLossPropagates`, `EverySlotReturned`, `SyncCompletes`, `MessageArrives`,
`FailureSpreads`, `QuietEnds` and `EveryoneEnds`, because fairness and ENABLED
are out of the prover's reach, and the two disagreements, which are violated.

## What is left

To prove: that the components on top of the store implement abstractions of
their own, if one is stated. To model: the relayed streams of a pair, if a
question about them is found that does not turn on durations.

## Not modelled

* The relayed streams of a pair and their activity timer
  (`relay_server.go:225`): which of an activity and the idle timer comes first
  is a question of durations, and the model lets a timer fire at any time; that
  the pair then ends on both sides is in the model.
* The legacy rendezvous server: retired, kept in the repository for its tests,
  and spoken to by no client in it.
* Telemetry, statistics and the dashboard: aggregation and rendering of values
  that no decision depends on. `TerminateSession` and `SetDraining`, which the
  operator has beside them, are actions of `SessionStore`.
* STUN, SSDP discovery and SOAP, dialing, punching: requests on a socket with
  retries, whose outcome is left open wherever a modelled component uses it.
* Wire formats, code words, capability derivation, encryption and the Noise
  handshake: messages and keys are values here.
* Flag parsing, terminal rendering and the server commands' wiring.
