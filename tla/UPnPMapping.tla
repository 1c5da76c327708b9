----------------------------- MODULE UPnPMapping -----------------------------
(***************************************************************************)
(* The temporary port mapping of a run and its removal: mapUPnPPort,       *)
(* reconcileUPnPMapping and upnpMapping.Close in upnp.go,                  *)
(* cleanupUPnPMapping in progressive_upnp.go.                              *)
(*                                                                         *)
(* Several runs, on one host or on several, share the tables of the same   *)
(* gateways.  A gateway is not in the repository: it keeps one entry per   *)
(* external port, lets a host replace its own entries and refuses those of *)
(* another, drops entries when their lease ends, and may do what it was    *)
(* asked although the caller is told that it failed, at once or later.     *)
(* An entry carries the random description of the run that added it, so it *)
(* is represented by that run.  Each SOAP call is one action.              *)
(***************************************************************************)
EXTENDS Integers, Sequences

CONSTANTS
  Process,      \* runs of the program
  HostOf,       \* the machine each runs on
  Ports,        \* upnpExternalPortCandidates of each: external ports, in order
  Gateways,     \* the gateways discovered, in order
  Free,         \* no entry
  upnpCleanupAttempts,
  MaxFaults     \* bound: failed gateway calls of each run

Gateway == {Gateways[i] : i \in DOMAIN Gateways}
Port == UNION {{Ports[p][i] : i \in DOMAIN Ports[p]} : p \in Process}
Slot == Gateway \X Port
Phase == {"idle", "query", "add", "reconcile", "mapped", "match", "delete", "done"}

ASSUME UPnPAssumption ==
  /\ Free \notin Process
  /\ Gateways # <<>> /\ Gateways \in Seq(Gateway)
  /\ \A p \in Process : Ports[p] # <<>> /\ Ports[p] \in Seq(Port)
  /\ upnpCleanupAttempts = 2
  /\ MaxFaults \in Nat

VARIABLES
  table,      \* the entry of each external port of each gateway
  pc,         \* the call each run makes next, or where it is
  gw, port,   \* the gateway and the candidate it is at
  tries,      \* calls of Close, the running one included
  cancelled,  \* runs whose mapping worker was stopped
  pending,    \* additions a gateway has yet to carry out
  faults,     \* history: calls of each run that failed although they could do
              \* or did what they asked
  late,       \* history: runs one of whose additions was put off
  newcomers   \* history: for a run that closes its mapping, the runs that
              \* added an entry in its place since this Close began

at == <<pc, gw, port, tries>>
history == <<faults, late>>
vars == <<table, at, cancelled, pending, history, newcomers>>

TypeOK ==
  /\ table \in [Slot -> Process \cup {Free}]
  /\ pc \in [Process -> Phase]
  /\ gw \in [Process -> DOMAIN Gateways]
  /\ port \in [Process -> Nat \ {0}] /\ \A p \in Process : port[p] \in DOMAIN Ports[p]
  /\ tries \in [Process -> 0 .. upnpCleanupAttempts]
  /\ cancelled \subseteq Process
  /\ pending \subseteq Process \X Slot
  /\ faults \in [Process -> Nat]
  /\ late \subseteq Process
  /\ newcomers \in [Process -> SUBSET Process]

Init ==
  /\ table = [x \in Slot |-> Free]
  /\ pc = [p \in Process |-> "idle"]
  /\ gw = [p \in Process |-> 1] /\ port = [p \in Process |-> 1]
  /\ tries = [p \in Process |-> 0]
  /\ cancelled = {}
  /\ pending = {}
  /\ faults = [p \in Process |-> 0]
  /\ late = {}
  /\ newcomers = [p \in Process |-> {}]

At(p, phase) == pc[p] = phase
Goto(p, phase) == pc' = [pc EXCEPT ![p] = phase]
Place(p) == <<Gateways[gw[p]], Ports[p][port[p]]>>

-----------------------------------------------------------------------------
\* The gateway

\* AddPortMapping: an entry of another host stands.
Accepts(x, p) == \A q \in Process : table[x] = q => HostOf[q] = HostOf[p]

Put(x, p) ==
  /\ Accepts(x, p)
  /\ table' = [table EXCEPT ![x] = p]
  /\ newcomers' = [q \in Process |-> IF pc[q] \in {"match", "delete"} /\ Place(q) = x
                                       THEN newcomers[q] \cup {p} ELSE newcomers[q]]

Clear(x) == table' = [table EXCEPT ![x] = Free]

Fault(p) == faults[p] < MaxFaults /\ faults' = [faults EXCEPT ![p] = @ + 1]

Expire(x) ==
  /\ table[x] # Free
  /\ Clear(x)
  /\ UNCHANGED <<at, cancelled, pending, history, newcomers>>

AddsLate(p, x) ==
  /\ <<p, x>> \in pending
  /\ pending' = pending \ {<<p, x>>}
  /\ Put(x, p) \/ UNCHANGED <<table, newcomers>>
  /\ UNCHANGED <<at, cancelled, history>>

-----------------------------------------------------------------------------
\* The mapping worker

Discover(p) ==
  /\ At(p, "idle")
  /\ Goto(p, "query") \/ Goto(p, "done")
  /\ UNCHANGED <<table, gw, port, tries, cancelled, pending, history, newcomers>>

\* stop, from whatever ends the fallback, or the attempt's own timeout; the worker
\* is joined, not abandoned.
Cancel(p) ==
  /\ pc[p] \in {"idle", "query", "add", "reconcile"} /\ p \notin cancelled
  /\ cancelled' = cancelled \cup {p}
  /\ UNCHANGED <<table, at, pending, history, newcomers>>

NextGateway(p) ==
  IF gw[p] < Len(Gateways)
  THEN Goto(p, "query") /\ gw' = [gw EXCEPT ![p] = @ + 1] /\ port' = [port EXCEPT ![p] = 1]
  ELSE Goto(p, "done") /\ UNCHANGED <<gw, port>>

NextCandidate(p) ==
  IF port[p] < Len(Ports[p])
  THEN Goto(p, "add") /\ port' = [port EXCEPT ![p] = @ + 1] /\ UNCHANGED gw
  ELSE NextGateway(p)

\* GetExternalIPAddress and the checks of its answer.
QueryUsable(p) ==
  /\ At(p, "query") /\ p \notin cancelled
  /\ Goto(p, "add")
  /\ UNCHANGED <<table, gw, port, tries, cancelled, pending, history, newcomers>>

QueryFails(p) ==
  /\ At(p, "query")
  /\ NextGateway(p)
  /\ UNCHANGED <<table, tries, cancelled, pending, history, newcomers>>

AddSucceeds(p) ==
  /\ At(p, "add") /\ p \notin cancelled
  /\ Put(Place(p), p)
  /\ Goto(p, "mapped")
  /\ UNCHANGED <<gw, port, tries, cancelled, pending, history>>

\* Mutant of AfterFailedAdd: a failed call is taken to have done nothing.
AfterFailedAddNext(p) == NextCandidate(p)

AfterFailedAdd(p) == Goto(p, "reconcile") /\ UNCHANGED <<gw, port>>

AddRefused(p) ==
  /\ At(p, "add")
  /\ AfterFailedAdd(p)
  /\ UNCHANGED <<table, tries, cancelled, pending, history, newcomers>>

\* The answer is lost, or the context ends before it.
AddUnanswered(p) ==
  /\ At(p, "add") /\ Fault(p)
  /\ AfterFailedAdd(p)
  /\ \/ Put(Place(p), p) /\ UNCHANGED <<pending, late>>
     \/ /\ pending' = pending \cup {<<p, Place(p)>>}
        /\ late' = late \cup {p}
        /\ UNCHANGED <<table, newcomers>>
  /\ UNCHANGED <<tries, cancelled>>

\* The entry is there, with this run's description.
Reconciled(p) ==
  /\ At(p, "reconcile") /\ table[Place(p)] = p
  /\ Goto(p, "mapped")
  /\ UNCHANGED <<table, gw, port, tries, cancelled, pending, history, newcomers>>

\* It is not, or the gateway does not say.
NotReconciled(p) ==
  /\ At(p, "reconcile")
  /\ IF table[Place(p)] = p THEN Fault(p) ELSE UNCHANGED faults
  /\ IF p \in cancelled THEN Goto(p, "done") /\ UNCHANGED <<gw, port>> ELSE NextCandidate(p)
  /\ UNCHANGED <<table, tries, cancelled, pending, late, newcomers>>

-----------------------------------------------------------------------------
\* The cleanup

\* cleanupUPnPMapping's first call of Close.
Finish(p) ==
  /\ At(p, "mapped")
  /\ Goto(p, "match")
  /\ tries' = [tries EXCEPT ![p] = 1]
  /\ newcomers' = [newcomers EXCEPT ![p] = {}]
  /\ UNCHANGED <<table, gw, port, cancelled, pending, history>>

\* Mutant of Retry: the next call of Close trusts the check of this one.
RetryDelete(p) ==
  IF tries[p] < upnpCleanupAttempts
  THEN /\ Goto(p, "delete")
       /\ tries' = [tries EXCEPT ![p] = @ + 1]
       /\ newcomers' = [newcomers EXCEPT ![p] = {}]
  ELSE Goto(p, "done") /\ UNCHANGED <<tries, newcomers>>

\* Close failed.
Retry(p) ==
  IF tries[p] < upnpCleanupAttempts
  THEN /\ Goto(p, "match")
       /\ tries' = [tries EXCEPT ![p] = @ + 1]
       /\ newcomers' = [newcomers EXCEPT ![p] = {}]
  ELSE Goto(p, "done") /\ UNCHANGED <<tries, newcomers>>

MatchOwned(p) ==
  /\ At(p, "match") /\ table[Place(p)] = p
  /\ Goto(p, "delete")
  /\ UNCHANGED <<table, gw, port, tries, cancelled, pending, history, newcomers>>

\* Another entry has taken its place: the mapping counts as closed.
MatchOther(p) ==
  /\ At(p, "match") /\ table[Place(p)] \notin {p, Free}
  /\ Goto(p, "done")
  /\ UNCHANGED <<table, gw, port, tries, cancelled, pending, history, newcomers>>

\* The gateway has no such entry, which it reports as an error, or the call fails.
MatchFails(p) ==
  /\ At(p, "match")
  /\ IF table[Place(p)] = p THEN Fault(p) ELSE UNCHANGED faults
  /\ Retry(p)
  /\ UNCHANGED <<table, gw, port, cancelled, pending, late>>

\* DeletePortMapping names the port only.
DeleteSucceeds(p) ==
  /\ At(p, "delete") /\ table[Place(p)] # Free
  /\ Clear(Place(p))
  /\ Goto(p, "done")
  /\ UNCHANGED <<gw, port, tries, cancelled, pending, history, newcomers>>

DeleteUnanswered(p) ==
  /\ At(p, "delete") /\ table[Place(p)] # Free /\ Fault(p)
  /\ Clear(Place(p)) \/ UNCHANGED table
  /\ Retry(p)
  /\ UNCHANGED <<gw, port, cancelled, pending, late>>

DeleteAbsent(p) ==
  /\ At(p, "delete") /\ table[Place(p)] = Free
  /\ Retry(p)
  /\ UNCHANGED <<table, gw, port, cancelled, pending, history>>

-----------------------------------------------------------------------------
Map(p) == \/ Discover(p) \/ Cancel(p) \/ QueryUsable(p) \/ QueryFails(p)
          \/ AddSucceeds(p) \/ AddRefused(p) \/ AddUnanswered(p)
          \/ Reconciled(p) \/ NotReconciled(p)
Close(p) == \/ Finish(p) \/ MatchOwned(p) \/ MatchOther(p) \/ MatchFails(p)
            \/ DeleteSucceeds(p) \/ DeleteUnanswered(p) \/ DeleteAbsent(p)

Next ==
  \/ \E p \in Process : Map(p) \/ Close(p)
  \/ \E x \in Slot : Expire(x) \/ \E p \in Process : AddsLate(p, x)

Spec == Init /\ [][Next]_vars

-----------------------------------------------------------------------------
\* Properties

\* A run that is through leaves an entry of its own behind only if two of its
\* gateway calls failed, or one addition was carried out after the check that
\* would have found it: an addition whose answer is lost is found and removed,
\* and so is a mapping whose first removal fails, whatever else uses the tables
\* (reconcileUPnPMapping, cleanupUPnPMapping).
NoStray ==
  \A p \in Process : At(p, "done") /\ (\E x \in Slot : table[x] = p)
                       => faults[p] >= 2 \/ p \in late

\* A step of p that removes an entry.
Deletes(p) ==
  /\ At(p, "delete") /\ <<pc[p], tries[p]>>' # <<pc[p], tries[p]>>
  /\ table[Place(p)] # Free /\ table'[Place(p)] = Free

\* Removing a mapping spares every other run's entry that was there when the
\* call of Close began: one that replaced a mapping which had expired, or had
\* been overwritten, is lost only if it came between check and deletion.
SparesOthers ==
  \A p \in Process : Deletes(p) => table[Place(p)] \in {p} \cup newcomers[p]
DeleteSpares == [][SparesOthers]_vars

-----------------------------------------------------------------------------
\* The inductive invariant behind the proofs

LateOK == \A p \in Process, x \in Slot : <<p, x>> \in pending => p \in late

TriesOK == \A p \in Process : pc[p] \in {"match", "delete"} => tries[p] >= 1

\* What a run is about to delete: what it checked, or what came since.
CheckedOK ==
  \A p \in Process : At(p, "delete") => table[Place(p)] \in {p, Free} \cup newcomers[p]

\* A run still sees to its entry in x: each call of Close before this one failed.
Tended(p, x) ==
  /\ x = Place(p)
  /\ \/ At(p, "reconcile") /\ faults[p] >= 1
     \/ At(p, "mapped")
     \/ pc[p] \in {"match", "delete"} /\ faults[p] >= tries[p] - 1

EntryOK ==
  \A p \in Process, x \in Slot :
    table[x] = p => Tended(p, x) \/ faults[p] >= 2 \/ p \in late

MappingInv == TypeOK /\ LateOK /\ TriesOK /\ CheckedOK /\ EntryOK
=============================================================================
