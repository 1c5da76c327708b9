-------------------------- MODULE UPnPMappingProofs --------------------------
(***************************************************************************)
(* What UPnPMapping keeps for any runs, hosts, gateways and candidates.    *)
(***************************************************************************)
EXTENDS UPnPMapping, TLAPS

\* A run is always at a gateway and a candidate of its own.
LEMMA PlaceType ==
  ASSUME NEW p \in Process, gw[p] \in DOMAIN Gateways, port[p] \in DOMAIN Ports[p]
  PROVE  Place(p) \in Slot
BY DEF Place, Slot, Gateway, Port

LEMMA InitInv == Init => MappingInv
<1>1. SUFFICES ASSUME Init PROVE MappingInv
  OBVIOUS
<1>2. 1 \in DOMAIN Gateways /\ \A p \in Process : 1 \in DOMAIN Ports[p]
  BY UPnPAssumption DEF UPnPAssumption
<1>3. TypeOK
  BY <1>1, <1>2, UPnPAssumption DEF Init, TypeOK, Phase, UPnPAssumption
<1>4. LateOK /\ TriesOK /\ CheckedOK
  BY <1>1 DEF Init, LateOK, TriesOK, CheckedOK, At
<1>5. EntryOK
  BY <1>1, UPnPAssumption DEF Init, EntryOK, UPnPAssumption
<1>6. QED
  BY <1>3, <1>4, <1>5 DEF MappingInv

\* Where NextGateway and NextCandidate lead.
LEMMA NextCandidateStep ==
  ASSUME TypeOK, NEW p \in Process, NextCandidate(p) \/ NextGateway(p)
  PROVE  /\ pc' \in [Process -> Phase] /\ gw' \in [Process -> DOMAIN Gateways]
         /\ port' \in [Process -> Nat \ {0}]
         /\ \A q \in Process : port'[q] \in DOMAIN Ports[q]
         /\ pc'[p] \in {"add", "query", "done"}
         /\ \A q \in Process \ {p} : pc'[q] = pc[q] /\ gw'[q] = gw[q] /\ port'[q] = port[q]
<1>1. Len(Gateways) \in Nat /\ DOMAIN Gateways = 1 .. Len(Gateways)
  BY UPnPAssumption DEF UPnPAssumption
<1>2. \A q \in Process : /\ Len(Ports[q]) \in Nat /\ DOMAIN Ports[q] = 1 .. Len(Ports[q])
                         /\ 1 \in DOMAIN Ports[q]
  BY UPnPAssumption DEF UPnPAssumption
<1>3. ASSUME NEW phase \in {"add", "query", "done"}, Goto(p, phase),
             NEW g \in DOMAIN Gateways, gw' = [gw EXCEPT ![p] = g],
             NEW n \in DOMAIN Ports[p], port' = [port EXCEPT ![p] = n]
      PROVE  /\ pc' \in [Process -> Phase] /\ gw' \in [Process -> DOMAIN Gateways]
             /\ port' \in [Process -> Nat \ {0}]
             /\ \A q \in Process : port'[q] \in DOMAIN Ports[q]
             /\ pc'[p] \in {"add", "query", "done"}
             /\ \A q \in Process \ {p} : pc'[q] = pc[q] /\ gw'[q] = gw[q] /\ port'[q] = port[q]
  <2>1. n \in Nat \ {0}
    BY <1>2
  <2>2. phase \in Phase
    BY DEF Phase
  <2>3. QED
    BY <1>3, <2>1, <2>2 DEF Goto, TypeOK
<1>4. gw[p] \in DOMAIN Gateways /\ port[p] \in DOMAIN Ports[p]
      /\ gw = [gw EXCEPT ![p] = gw[p]] /\ port = [port EXCEPT ![p] = port[p]]
  BY DEF TypeOK
<1>5. CASE gw[p] < Len(Gateways) /\ NextGateway(p)
  <2>1. gw[p] + 1 \in DOMAIN Gateways
    BY <1>1, <1>4, <1>5
  <2>2. QED
    BY <1>2, <1>3, <1>5, <2>1 DEF NextGateway
<1>6. CASE ~(gw[p] < Len(Gateways)) /\ NextGateway(p)
  BY <1>3, <1>4, <1>6 DEF NextGateway
<1>7. CASE port[p] < Len(Ports[p]) /\ NextCandidate(p)
  <2>1. port[p] + 1 \in DOMAIN Ports[p]
    BY <1>2, <1>4, <1>7
  <2>2. QED
    BY <1>3, <1>4, <1>7, <2>1 DEF NextCandidate
<1>8. QED
  BY <1>5, <1>6, <1>7 DEF NextCandidate

\* What a step of run p has to show, if it leaves the other runs where they are
\* and adds no entry but its own to the tables.
LEMMA OwnStep ==
  ASSUME MappingInv, TypeOK', LateOK', NEW p \in Process,
         \A q \in Process \ {p} :
           /\ pc'[q] = pc[q] /\ gw'[q] = gw[q] /\ port'[q] = port[q] /\ tries'[q] = tries[q]
           /\ faults'[q] = faults[q] /\ newcomers[q] \subseteq newcomers'[q]
           /\ At(q, "delete") => table'[Place(q)] \in {table[Place(q)], Free} \cup newcomers'[q],
         late \subseteq late',
         \A x \in Slot : table'[x] \in {table[x], Free, p},
         pc'[p] \in {"match", "delete"} => tries'[p] >= 1,
         At(p, "delete")' => table'[Place(p)'] \in {p, Free} \cup newcomers'[p],
         \A x \in Slot : table'[x] = p => Tended(p, x)' \/ faults'[p] >= 2 \/ p \in late'
  PROVE  MappingInv'
<1>1. Free \notin Process
  BY UPnPAssumption DEF UPnPAssumption
<1>2. \A q \in Process \ {p} : Place(q)' = Place(q) /\ Place(q) \in Slot
  BY PlaceType DEF MappingInv, TypeOK, Place
<1>3. TriesOK'
  BY DEF MappingInv, TriesOK
<1>4. CheckedOK'
  BY <1>2 DEF MappingInv, CheckedOK, At
<1>5. EntryOK'
  <2>1. ASSUME NEW q \in Process \ {p}, NEW x \in Slot, table'[x] = q
        PROVE  Tended(q, x)' \/ faults'[q] >= 2 \/ q \in late'
    BY <2>1, <1>1, <1>2 DEF MappingInv, EntryOK, Tended, At
  <2>2. QED
    BY <2>1 DEF EntryOK
<1>6. QED
  BY <1>3, <1>4, <1>5 DEF MappingInv

\* Such a step that only moves p, outside its cleanup and away from no entry.
LEMMA Moves ==
  ASSUME MappingInv, NEW p \in Process, TypeOK',
         UNCHANGED <<table, tries, pending, history, newcomers>>,
         \A q \in Process \ {p} : pc'[q] = pc[q] /\ gw'[q] = gw[q] /\ port'[q] = port[q],
         pc[p] \in {"idle", "query", "add"} \/ (pc[p] = "reconcile" /\ table[Place(p)] # p),
         pc'[p] \notin {"match", "delete"}
  PROVE  MappingInv'
<1>1. \A q \in Process : Place(q) \in Slot
  BY PlaceType DEF MappingInv, TypeOK
<1>2. \A x \in Slot : table[x] = p => faults[p] >= 2 \/ p \in late
  BY <1>1 DEF MappingInv, EntryOK, Tended, At
<1>3. LateOK'
  BY DEF MappingInv, LateOK, history
<1>4. QED
  BY <1>1, <1>2, <1>3, OwnStep DEF history, At

LEMMA DiscoverInv == ASSUME MappingInv, NEW p \in Process, Discover(p) PROVE MappingInv'
<1>1. TypeOK'
  BY DEF MappingInv, TypeOK, Discover, Goto, Phase, history
<1>2. QED
  BY <1>1, Moves DEF MappingInv, TypeOK, Discover, Goto, At

LEMMA QueryUsableInv == ASSUME MappingInv, NEW p \in Process, QueryUsable(p) PROVE MappingInv'
<1>1. TypeOK'
  BY DEF MappingInv, TypeOK, QueryUsable, Goto, Phase, history
<1>2. QED
  BY <1>1, Moves DEF MappingInv, TypeOK, QueryUsable, Goto, At

LEMMA QueryFailsInv == ASSUME MappingInv, NEW p \in Process, QueryFails(p) PROVE MappingInv'
<1>1. TypeOK'
  BY NextCandidateStep DEF MappingInv, TypeOK, QueryFails, history
<1>2. QED
  BY <1>1, Moves, NextCandidateStep DEF MappingInv, QueryFails, At

LEMMA AddRefusedInv == ASSUME MappingInv, NEW p \in Process, AddRefused(p) PROVE MappingInv'
<1>1. TypeOK'
  BY DEF MappingInv, TypeOK, AddRefused, AfterFailedAdd, Goto, Phase, history
<1>2. QED
  BY <1>1, Moves DEF MappingInv, TypeOK, AddRefused, AfterFailedAdd, Goto, At

LEMMA CancelInv == ASSUME MappingInv, NEW p \in Process, Cancel(p) PROVE MappingInv'
BY DEF MappingInv, TypeOK, LateOK, TriesOK, CheckedOK, EntryOK, Tended, Place, At, Cancel,
       at, history

LEMMA ExpireInv == ASSUME MappingInv, NEW x \in Slot, Expire(x) PROVE MappingInv'
<1>1. Free \notin Process
  BY UPnPAssumption DEF UPnPAssumption
<1>2. TypeOK'
  BY DEF MappingInv, TypeOK, Expire, Clear, at, history
<1>3. \A y \in Slot : table'[y] \in {table[y], Free}
  BY DEF MappingInv, TypeOK, Expire, Clear
<1>4. \A p \in Process : Place(p) \in Slot /\ Place(p)' = Place(p)
  BY PlaceType DEF MappingInv, TypeOK, Expire, at, Place
<1>5. LateOK' /\ TriesOK'
  BY DEF MappingInv, LateOK, TriesOK, Expire, at, history
<1>6. CheckedOK'
  BY <1>3, <1>4 DEF MappingInv, CheckedOK, Expire, at, At
<1>7. EntryOK'
  BY <1>1, <1>3, <1>4 DEF MappingInv, EntryOK, Tended, Expire, at, history, At
<1>8. QED
  BY <1>2, <1>5, <1>6, <1>7 DEF MappingInv

\* What Put does to the tables and to the runs that close a mapping there.
LEMMA PutStep ==
  ASSUME TypeOK, NEW p \in Process, NEW x \in Slot, Put(x, p)
  PROVE  /\ table' \in [Slot -> Process \cup {Free}]
         /\ newcomers' \in [Process -> SUBSET Process]
         /\ table'[x] = p
         /\ \A y \in Slot : table'[y] = IF y = x THEN p ELSE table[y]
         /\ \A q \in Process :
              /\ newcomers[q] \subseteq newcomers'[q]
              /\ At(q, "delete") => table'[Place(q)] \in {table[Place(q)]} \cup newcomers'[q]
<1>1. \A q \in Process : Place(q) \in Slot
  BY PlaceType DEF TypeOK
<1>2. QED
  BY <1>1 DEF Put, TypeOK, At

LEMMA AddSucceedsInv == ASSUME MappingInv, NEW p \in Process, AddSucceeds(p) PROVE MappingInv'
<1>1. TypeOK /\ Place(p) \in Slot /\ Put(Place(p), p)
  BY PlaceType DEF MappingInv, TypeOK, AddSucceeds
<1>2. TypeOK'
  BY <1>1, PutStep DEF TypeOK, AddSucceeds, Goto, Phase, history
<1>3. LateOK'
  BY DEF MappingInv, LateOK, AddSucceeds, history
<1>4. /\ pc'[p] = "mapped" /\ Place(p)' = Place(p)
      /\ \A q \in Process \ {p} : pc'[q] = pc[q]
  BY <1>1 DEF TypeOK, AddSucceeds, Goto, Place
<1>5. \A x \in Slot : table'[x] = p => Tended(p, x)' \/ faults'[p] >= 2 \/ p \in late'
  BY <1>1, <1>4, PutStep DEF MappingInv, EntryOK, Tended, At, AddSucceeds, history
<1>6. QED
  BY <1>1, <1>2, <1>3, <1>4, <1>5, PutStep, OwnStep DEF AddSucceeds, history, At

LEMMA AddUnansweredInv ==
  ASSUME MappingInv, NEW p \in Process, AddUnanswered(p) PROVE MappingInv'
<1>1. TypeOK /\ Place(p) \in Slot
  BY PlaceType DEF MappingInv, TypeOK
<1>2. /\ pc' = [pc EXCEPT ![p] = "reconcile"] /\ faults' = [faults EXCEPT ![p] = @ + 1]
      /\ UNCHANGED <<gw, port, tries, cancelled>>
  BY DEF AddUnanswered, AfterFailedAdd, Goto, Fault
<1>3. /\ pc'[p] = "reconcile" /\ faults'[p] = faults[p] + 1 /\ faults[p] \in Nat
      /\ Place(p)' = Place(p)
      /\ \A q \in Process \ {p} : pc'[q] = pc[q] /\ faults'[q] = faults[q]
  BY <1>1, <1>2 DEF TypeOK, Place
<1>4. CASE Put(Place(p), p) /\ UNCHANGED <<pending, late>>
  <2>1. TypeOK' /\ LateOK'
    BY <1>1, <1>2, <1>4, PutStep DEF MappingInv, LateOK, TypeOK, Phase
  <2>2. \A x \in Slot : table'[x] = p => Tended(p, x)' \/ faults'[p] >= 2 \/ p \in late'
    BY <1>1, <1>3, <1>4, PutStep DEF MappingInv, EntryOK, Tended, At, AddUnanswered
  <2>3. QED
    BY <1>1, <1>2, <1>3, <1>4, <2>1, <2>2, PutStep, OwnStep DEF At
<1>5. CASE /\ pending' = pending \cup {<<p, Place(p)>>}
           /\ late' = late \cup {p}
           /\ UNCHANGED <<table, newcomers>>
  <2>1. TypeOK' /\ LateOK'
    BY <1>1, <1>2, <1>5 DEF MappingInv, LateOK, TypeOK, Phase
  <2>2. QED
    BY <1>1, <1>2, <1>3, <1>5, <2>1, OwnStep DEF At
<1>6. QED
  BY <1>4, <1>5 DEF AddUnanswered

LEMMA ReconciledInv == ASSUME MappingInv, NEW p \in Process, Reconciled(p) PROVE MappingInv'
<1>1. TypeOK /\ Place(p) \in Slot
  BY PlaceType DEF MappingInv, TypeOK
<1>2. TypeOK' /\ LateOK'
  BY DEF MappingInv, TypeOK, LateOK, Reconciled, Goto, Phase, history
<1>3. /\ pc'[p] = "mapped" /\ Place(p)' = Place(p)
      /\ \A q \in Process \ {p} : pc'[q] = pc[q]
  BY <1>1 DEF TypeOK, Reconciled, Goto, Place
<1>4. \A x \in Slot : table[x] = p => Tended(p, x)' \/ faults[p] >= 2 \/ p \in late
  BY <1>3 DEF MappingInv, EntryOK, Tended, At, Reconciled
<1>5. QED
  BY <1>1, <1>2, <1>3, <1>4, OwnStep DEF Reconciled, history, At

LEMMA NotReconciledInv ==
  ASSUME MappingInv, NEW p \in Process, NotReconciled(p) PROVE MappingInv'
<1>1. TypeOK /\ Place(p) \in Slot
  BY PlaceType DEF MappingInv, TypeOK
<1>2. /\ pc' \in [Process -> Phase] /\ gw' \in [Process -> DOMAIN Gateways]
      /\ port' \in [Process -> Nat \ {0}]
      /\ \A q \in Process : port'[q] \in DOMAIN Ports[q]
      /\ pc'[p] \in {"add", "query", "done"}
      /\ \A q \in Process \ {p} : pc'[q] = pc[q] /\ gw'[q] = gw[q] /\ port'[q] = port[q]
  <2>1. CASE p \in cancelled
    BY <1>1, <2>1 DEF NotReconciled, Goto, TypeOK, Phase
  <2>2. CASE p \notin cancelled
    BY <1>1, <2>2, NextCandidateStep DEF NotReconciled
  <2>3. QED
    BY <2>1, <2>2
<1>3. /\ faults' \in [Process -> Nat]
      /\ faults'[p] = IF table[Place(p)] = p THEN faults[p] + 1 ELSE faults[p]
      /\ \A q \in Process \ {p} : faults'[q] = faults[q]
  BY <1>1 DEF TypeOK, NotReconciled, Fault
<1>4. TypeOK' /\ LateOK'
  BY <1>1, <1>2, <1>3 DEF MappingInv, TypeOK, LateOK, NotReconciled
<1>5. \A x \in Slot : table[x] = p => faults'[p] >= 2 \/ p \in late
  BY <1>1, <1>3 DEF MappingInv, TypeOK, EntryOK, Tended, At, NotReconciled
<1>6. QED
  BY <1>1, <1>2, <1>3, <1>4, <1>5, OwnStep DEF NotReconciled, At

LEMMA AddsLateInv ==
  ASSUME MappingInv, NEW p \in Process, NEW x \in Slot, AddsLate(p, x) PROVE MappingInv'
<1>1. TypeOK /\ p \in late /\ Place(p)' = Place(p)
  BY DEF MappingInv, LateOK, AddsLate, at, Place
<1>2. CASE Put(x, p)
  <2>1. TypeOK' /\ LateOK'
    BY <1>1, <1>2, PutStep DEF MappingInv, TypeOK, LateOK, AddsLate, at, history
  <2>2. At(p, "delete") => table'[Place(p)] \in {p, Free} \cup newcomers'[p]
    BY <1>1, <1>2, PutStep DEF MappingInv, CheckedOK
  <2>3. QED
    BY <1>1, <1>2, <2>1, <2>2, PutStep, OwnStep DEF MappingInv, TriesOK, AddsLate, at, history, At
<1>3. CASE UNCHANGED <<table, newcomers>>
  <2>1. TypeOK' /\ LateOK'
    BY <1>1, <1>3 DEF MappingInv, TypeOK, LateOK, AddsLate, at, history
  <2>2. QED
    BY <1>1, <1>3, <2>1, OwnStep
       DEF MappingInv, TriesOK, CheckedOK, AddsLate, at, history, At
<1>4. QED
  BY <1>2, <1>3 DEF AddsLate

LEMMA FinishInv == ASSUME MappingInv, NEW p \in Process, Finish(p) PROVE MappingInv'
<1>1. TypeOK /\ Place(p) \in Slot /\ upnpCleanupAttempts = 2
  BY PlaceType, UPnPAssumption DEF MappingInv, TypeOK, UPnPAssumption
<1>2. /\ pc' = [pc EXCEPT ![p] = "match"] /\ tries' = [tries EXCEPT ![p] = 1]
      /\ newcomers' = [newcomers EXCEPT ![p] = {}]
      /\ UNCHANGED <<table, gw, port, cancelled, pending, faults, late>>
  BY DEF Finish, Goto, history
<1>3. TypeOK' /\ LateOK'
  BY <1>1, <1>2 DEF MappingInv, TypeOK, LateOK, Phase
<1>4. /\ pc'[p] = "match" /\ tries'[p] = 1 /\ faults[p] \in Nat /\ Place(p)' = Place(p)
      /\ \A q \in Process \ {p} : /\ pc'[q] = pc[q] /\ tries'[q] = tries[q]
                                  /\ newcomers'[q] = newcomers[q]
  BY <1>1, <1>2 DEF TypeOK, Place
<1>5. \A x \in Slot : table[x] = p => Tended(p, x)' \/ faults[p] >= 2 \/ p \in late
  BY <1>2, <1>4 DEF MappingInv, EntryOK, Tended, At, Finish
<1>6. QED
  BY <1>1, <1>2, <1>3, <1>4, <1>5, OwnStep DEF At

LEMMA MatchOwnedInv == ASSUME MappingInv, NEW p \in Process, MatchOwned(p) PROVE MappingInv'
<1>1. TypeOK /\ Place(p) \in Slot
  BY PlaceType DEF MappingInv, TypeOK
<1>2. TypeOK' /\ LateOK'
  BY DEF MappingInv, TypeOK, LateOK, MatchOwned, Goto, Phase, history
<1>3. /\ pc'[p] = "delete" /\ Place(p)' = Place(p)
      /\ \A q \in Process \ {p} : pc'[q] = pc[q]
  BY <1>1 DEF TypeOK, MatchOwned, Goto, Place
<1>4. \A x \in Slot : table[x] = p => Tended(p, x)' \/ faults[p] >= 2 \/ p \in late
  BY <1>3 DEF MappingInv, EntryOK, Tended, At, MatchOwned, history
<1>5. QED
  BY <1>1, <1>2, <1>3, <1>4, OwnStep DEF MappingInv, TriesOK, MatchOwned, history, At

LEMMA MatchOtherInv == ASSUME MappingInv, NEW p \in Process, MatchOther(p) PROVE MappingInv'
<1>1. TypeOK /\ Place(p) \in Slot
  BY PlaceType DEF MappingInv, TypeOK
<1>2. TypeOK' /\ LateOK'
  BY DEF MappingInv, TypeOK, LateOK, MatchOther, Goto, Phase, history
<1>3. pc'[p] = "done" /\ \A q \in Process \ {p} : pc'[q] = pc[q]
  BY <1>1 DEF TypeOK, MatchOther, Goto
<1>4. \A x \in Slot : table[x] = p => faults[p] >= 2 \/ p \in late
  BY DEF MappingInv, EntryOK, Tended, At, MatchOther
<1>5. QED
  BY <1>1, <1>2, <1>3, <1>4, OwnStep DEF MatchOther, history, At

\* What a failed Close does to its run and to no other.
LEMMA RetryStep ==
  ASSUME TypeOK, NEW p \in Process, tries[p] >= 1, Retry(p)
  PROVE  /\ pc' \in [Process -> Phase] /\ tries' \in [Process -> 0 .. upnpCleanupAttempts]
         /\ newcomers' \in [Process -> SUBSET Process]
         /\ \/ pc'[p] = "match" /\ tries'[p] = tries[p] + 1
            \/ pc'[p] = "done" /\ tries[p] = 2
         /\ \A q \in Process \ {p} : /\ pc'[q] = pc[q] /\ tries'[q] = tries[q]
                                     /\ newcomers'[q] = newcomers[q]
<1>1. upnpCleanupAttempts = 2 /\ tries[p] \in 0 .. 2
  BY UPnPAssumption DEF UPnPAssumption, TypeOK
<1>2. CASE tries[p] < upnpCleanupAttempts
  BY <1>1, <1>2 DEF Retry, Goto, TypeOK, Phase
<1>3. CASE ~(tries[p] < upnpCleanupAttempts)
  BY <1>1, <1>3 DEF Retry, Goto, TypeOK, Phase
<1>4. QED
  BY <1>2, <1>3

\* A failed Close keeps the invariant if the failure of a call counted, unless
\* the entry was not there.
LEMMA RetryInv ==
  ASSUME MappingInv, NEW p \in Process, pc[p] \in {"match", "delete"}, Retry(p),
         UNCHANGED <<gw, port, cancelled, pending, late>>,
         table' \in [Slot -> Process \cup {Free}],
         \A x \in Slot : table'[x] \in {table[x], Free},
         faults' \in [Process -> Nat],
         \A q \in Process \ {p} : faults'[q] = faults[q],
         faults'[p] >= faults[p],
         table'[Place(p)] = p => faults'[p] = faults[p] + 1
  PROVE  MappingInv'
<1>1. TypeOK /\ Place(p) \in Slot /\ Place(p)' = Place(p) /\ tries[p] >= 1
      /\ tries[p] \in Nat /\ faults[p] \in Nat /\ p # Free
  BY PlaceType, UPnPAssumption DEF MappingInv, TypeOK, TriesOK, Place, UPnPAssumption
<1>2. TypeOK' /\ LateOK'
  BY <1>1, RetryStep DEF MappingInv, TypeOK, LateOK
<1>3. ASSUME NEW x \in Slot, table'[x] = p
      PROVE  Tended(p, x)' \/ faults'[p] >= 2 \/ p \in late
  <2>1. table[x] = p
    BY <1>1, <1>3
  <2>2. CASE faults[p] >= 2 \/ p \in late
    BY <1>1, <2>2
  <2>3. CASE Tended(p, x)
    <3>1. x = Place(p) /\ faults[p] >= tries[p] - 1 /\ faults'[p] = faults[p] + 1
      BY <1>3, <2>3 DEF Tended, At
    <3>2. CASE pc'[p] = "match" /\ tries'[p] = tries[p] + 1
      BY <1>1, <3>1, <3>2 DEF Tended
    <3>3. CASE pc'[p] = "done" /\ tries[p] = 2
      BY <1>1, <3>1, <3>3
    <3>4. QED
      BY <1>1, <3>2, <3>3, RetryStep
  <2>4. QED
    BY <2>1, <2>2, <2>3 DEF MappingInv, EntryOK
<1>4. /\ pc'[p] \in {"match", "done"} /\ (pc'[p] = "match" => tries'[p] >= 1)
      /\ \A q \in Process \ {p} : /\ pc'[q] = pc[q] /\ tries'[q] = tries[q]
                                  /\ newcomers'[q] = newcomers[q]
  BY <1>1, RetryStep
<1>5. \A q \in Process : Place(q) \in Slot
  BY <1>1, PlaceType DEF TypeOK
<1>6. QED
  BY <1>2, <1>3, <1>4, <1>5, OwnStep DEF At

LEMMA MatchFailsInv == ASSUME MappingInv, NEW p \in Process, MatchFails(p) PROVE MappingInv'
BY RetryInv DEF MappingInv, TypeOK, MatchFails, Fault, At

LEMMA DeleteAbsentInv ==
  ASSUME MappingInv, NEW p \in Process, DeleteAbsent(p) PROVE MappingInv'
<1>1. p # Free
  BY UPnPAssumption DEF UPnPAssumption
<1>2. QED
  BY <1>1, RetryInv DEF MappingInv, TypeOK, DeleteAbsent, history, At

LEMMA DeleteUnansweredInv ==
  ASSUME MappingInv, NEW p \in Process, DeleteUnanswered(p) PROVE MappingInv'
<1>1. /\ table' \in [Slot -> Process \cup {Free}]
      /\ \A x \in Slot : table'[x] \in {table[x], Free}
  BY DEF MappingInv, TypeOK, DeleteUnanswered, Clear
<1>2. QED
  BY <1>1, RetryInv DEF MappingInv, TypeOK, DeleteUnanswered, Fault, At

LEMMA DeleteSucceedsInv ==
  ASSUME MappingInv, NEW p \in Process, DeleteSucceeds(p) PROVE MappingInv'
<1>1. TypeOK /\ Place(p) \in Slot /\ p # Free
  BY PlaceType, UPnPAssumption DEF MappingInv, TypeOK, UPnPAssumption
<1>2. /\ table' \in [Slot -> Process \cup {Free}] /\ table'[Place(p)] = Free
      /\ \A x \in Slot : table'[x] \in {table[x], Free}
  BY <1>1 DEF TypeOK, DeleteSucceeds, Clear
<1>3. TypeOK' /\ LateOK'
  BY <1>1, <1>2 DEF MappingInv, TypeOK, LateOK, DeleteSucceeds, Goto, Phase, history
<1>4. pc'[p] = "done" /\ \A q \in Process \ {p} : pc'[q] = pc[q]
  BY <1>1 DEF TypeOK, DeleteSucceeds, Goto
<1>5. \A x \in Slot : table'[x] = p => faults[p] >= 2 \/ p \in late
  BY <1>1, <1>2 DEF MappingInv, EntryOK, Tended
<1>6. \A q \in Process : Place(q) \in Slot
  BY <1>1, PlaceType DEF TypeOK
<1>7. QED
  BY <1>2, <1>3, <1>4, <1>5, <1>6, OwnStep DEF DeleteSucceeds, history, At

LEMMA NextInv == MappingInv /\ [Next]_vars => MappingInv'
<1>1. SUFFICES ASSUME MappingInv, [Next]_vars PROVE MappingInv'
  OBVIOUS
<1>2. ASSUME NEW p \in Process, Map(p) PROVE MappingInv'
  BY <1>1, <1>2, DiscoverInv, CancelInv, QueryUsableInv, QueryFailsInv, AddSucceedsInv,
     AddRefusedInv, AddUnansweredInv, ReconciledInv, NotReconciledInv DEF Map
<1>3. ASSUME NEW p \in Process, Close(p) PROVE MappingInv'
  BY <1>1, <1>3, FinishInv, MatchOwnedInv, MatchOtherInv, MatchFailsInv, DeleteSucceedsInv,
     DeleteUnansweredInv, DeleteAbsentInv DEF Close
<1>4. ASSUME NEW x \in Slot, Expire(x) PROVE MappingInv'
  BY <1>1, <1>4, ExpireInv
<1>5. ASSUME NEW x \in Slot, NEW p \in Process, AddsLate(p, x) PROVE MappingInv'
  BY <1>1, <1>5, AddsLateInv
<1>6. CASE UNCHANGED vars
  BY <1>1, <1>6 DEF vars, at, history, MappingInv, TypeOK, LateOK, TriesOK, CheckedOK, EntryOK,
     Tended, Place, At
<1>7. QED
  BY <1>1, <1>2, <1>3, <1>4, <1>5, <1>6 DEF Next

\* The inductive invariant: what a run that adds or removes an entry still has
\* to see to, and what its history says of every entry it no longer sees to.
THEOREM MappingInvariant == Spec => []MappingInv
BY InitInv, NextInv, PTL DEF Spec

\* One failed gateway call never leaves a mapping behind, whichever of the calls
\* of a run it is and whatever other runs and devices do to the tables.
THEOREM NothingLeftBehind == Spec => []NoStray
<1>1. MappingInv => NoStray
  BY DEF MappingInv, EntryOK, Tended, NoStray, At
<1>2. QED
  BY <1>1, MappingInvariant, PTL

\* A removal hits another run's entry only if that came after the check.
THEOREM OthersSpared == Spec => DeleteSpares
<1>1. MappingInv /\ [Next]_vars => [SparesOthers]_vars
  <2>1. ASSUME MappingInv, Next, NEW p \in Process, Deletes(p)
        PROVE  table[Place(p)] \in {p} \cup newcomers[p]
    BY <2>1 DEF MappingInv, CheckedOK, Deletes
  <2>2. QED
    BY <2>1 DEF SparesOthers
<1>2. QED
  BY <1>1, MappingInvariant, PTL DEF Spec, DeleteSpares
=============================================================================
