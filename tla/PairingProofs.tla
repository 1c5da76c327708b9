---------------------------- MODULE PairingProofs ----------------------------
(***************************************************************************)
(* What pairing keeps however its steps interleave, for any limits of the  *)
(* mailbox and of the deferred messages.                                   *)
(***************************************************************************)
EXTENDS PairingProtocol, TLAPS

LEMMA Peers ==
  /\ "send" \in Peer /\ "recv" \in Peer
  /\ \A p \in Peer : Other(p) \in Peer /\ Other(p) # p /\ Other(Other(p)) = p
  /\ \A p, q \in Peer : q # p => q = Other(p)
  /\ \A p \in Peer : MB!Peer(p) = Other(p)
BY DEF Peer, Other, MB!Peer

Label == Pairing \cup Ice \cup Sync \cup {"stop", "ice", "join", "legacy", "end"}

\* The number of messages of each script.
LEMMA Scripts ==
  ASSUME NEW p \in Peer
  PROVE  /\ p = "send" => /\ Len(Script(p)) = 2 /\ Script(p)[1] = "pake1"
                          /\ Script(p)[2] = "self-snapshot-auth"
         /\ p = "recv" => /\ Len(Script(p)) = 3 /\ Script(p)[1] = "pake1" /\ Script(p)[2] = "pake2"
                          /\ Script(p)[3] = "self-snapshot-auth"
         /\ Len(Script(p)) \in {2, 3} /\ Script(p)[Len(Script(p))] = "self-snapshot-auth"
         /\ Script(p)[1] = "pake1"
<1>1. CASE p = "send"
  BY <1>1 DEF Script
<1>2. CASE p = "recv"
  BY <1>2 DEF Script
<1>3. QED
  BY <1>1, <1>2 DEF Peer

\* Heard and Said, phase by phase.
LEMMA Turns ==
  ASSUME NEW p \in Peer
  PROVE  /\ \A l \in {"claim", "publish", "say1", "hear1"} : Heard(p, l) = 0
         /\ \A l \in {"reply", "hear2"} : Heard(p, l) = 1
         /\ \A l \in {"say2", "wait", "snapshot", "verify"} : Heard(p, l) = Len(Script(p)) - 1
         /\ \A l \in Label \ (Pairing \ {"verify"}) : Said(p, l) = Len(Script(Other(p)))
         /\ \A l \in Label \ Pairing : Heard(p, l) = Len(Script(p))
         /\ \A l \in {"claim", "publish", "say1", "reply"} : Said(p, l) = 0
         /\ Said(p, "hear1") = IF p = "send" THEN 1 ELSE 0
         /\ \A l \in {"say2", "hear2"} : Said(p, l) = 1
         /\ \A l \in {"wait", "snapshot"} : Said(p, l) = Len(Script(Other(p))) - 1
<1>1. /\ \A l \in {"claim", "publish", "say1", "hear1"} : Heard(p, l) = 0
      /\ \A l \in {"reply", "hear2"} : Heard(p, l) = 1
      /\ \A l \in {"say2", "wait", "snapshot", "verify"} : Heard(p, l) = Len(Script(p)) - 1
  BY DEF Heard
<1>2. /\ \A l \in {"claim", "publish", "say1", "reply"} : Said(p, l) = 0
      /\ Said(p, "hear1") = IF p = "send" THEN 1 ELSE 0
      /\ \A l \in {"say2", "hear2"} : Said(p, l) = 1
      /\ \A l \in {"wait", "snapshot"} : Said(p, l) = Len(Script(Other(p))) - 1
  BY DEF Said
<1>3. \A l \in Label \ (Pairing \ {"verify"}) : Said(p, l) = Len(Script(Other(p)))
  BY DEF Said, Label, Pairing, Ice, Sync
<1>4. \A l \in Label \ Pairing : Heard(p, l) = Len(Script(p))
  BY DEF Heard, Label, Pairing, Ice, Sync
<1>5. QED
  BY <1>1, <1>2, <1>3, <1>4

LEMMA TurnTypes ==
  ASSUME NEW p \in Peer, NEW l \in Label
  PROVE  /\ Heard(p, l) \in 0 .. Len(Script(p)) /\ Said(p, l) \in 0 .. Len(Script(Other(p)))
         /\ Said(p, l) = Len(Script(Other(p))) <=> l \notin Pairing \ {"verify"}
         /\ Heard(p, l) = Len(Script(p)) <=> l \notin Pairing
<1>1. Len(Script(p)) \in {2, 3} /\ Len(Script(Other(p))) \in {2, 3}
  BY Scripts, Peers
<1>2. CASE l \in Pairing
  <2>1. l \in {"claim", "publish", "say1", "hear1", "reply", "hear2", "say2", "wait", "snapshot", "verify"}
    BY <1>2 DEF Pairing
  <2>2. Heard(p, l) \in {0, 1, Len(Script(p)) - 1}
    BY <2>1, Turns
  <2>3. l # "verify" => Said(p, l) \in {0, 1, Len(Script(Other(p))) - 1}
    BY <2>1, Turns
  <2>4. l = "verify" => Said(p, l) = Len(Script(Other(p)))
    <3>1. "verify" \in Label \ (Pairing \ {"verify"})
      BY DEF Label, Pairing
    <3>2. QED
      BY <3>1, Turns
  <2>5. PICK m, n : m = Len(Script(p)) /\ n = Len(Script(Other(p)))
    OBVIOUS
  <2>6. Heard(p, l) \in 0 .. m /\ Heard(p, l) # m
    BY <1>1, <2>2, <2>5
  <2>7. Said(p, l) \in 0 .. n /\ (l # "verify" => Said(p, l) # n)
    BY <1>1, <2>3, <2>4, <2>5
  <2>8. QED
    BY <1>2, <2>4, <2>5, <2>6, <2>7
<1>3. CASE l \notin Pairing
  <2>1. Heard(p, l) = Len(Script(p)) /\ Said(p, l) = Len(Script(Other(p)))
    BY <1>3, Turns
  <2>2. QED
    BY <1>1, <1>3, <2>1
<1>4. QED
  BY <1>2, <1>3

-----------------------------------------------------------------------------
\* Queues and scripts

LEMMA FitsEmpty ==
  ASSUME NEW script, Len(script) \in Nat, Len(script) > 0 PROVE Fits(<<>>, script, 0, 0)
BY DEF Fits

\* The sender says the next message of its script, or one that comes after it.
LEMMA FitsSaid ==
  ASSUME NEW S, NEW q \in Seq(S), NEW script, Len(script) \in Nat, NEW h \in Nat, NEW s \in Nat,
         h <= s, s <= Len(script), Fits(q, script, h, s), NEW e, NEW t \in Nat,
         IF s < Len(script) THEN t = s + 1 /\ e.msg.type = script[t] ELSE t = s
  PROVE  Fits(Append(q, e), script, h, t) /\ h <= t /\ t <= Len(script)
<1>1. PICK a : a = Append(q, e)
  OBVIOUS
<1>2. /\ Len(q) \in Nat /\ Len(a) = Len(q) + 1 /\ DOMAIN a = 1 .. Len(q) + 1
      /\ DOMAIN q = 1 .. Len(q)
      /\ \A i \in 1 .. Len(q) : a[i] = q[i]
      /\ a[Len(q) + 1] = e
  BY <1>1
<1>3. IF s < Len(script) THEN Len(q) = s - h ELSE Len(q) >= s - h
  BY DEF Fits
<1>4. IF t < Len(script) THEN Len(a) = t - h ELSE Len(a) >= t - h
  BY <1>2, <1>3
<1>5. ASSUME NEW i \in DOMAIN a, h + i <= Len(script) PROVE a[i].msg.type = script[h + i]
  <2>1. CASE i \in DOMAIN q
    BY <1>2, <1>5, <2>1 DEF Fits
  <2>2. CASE i = Len(q) + 1
    <3>1. s < Len(script) /\ h + i = t
      BY <1>2, <1>3, <1>5, <2>2
    <3>2. QED
      BY <1>2, <2>2, <3>1
  <2>3. QED
    BY <1>2, <2>1, <2>2
<1>6. QED
  BY <1>1, <1>4, <1>5 DEF Fits

\* The receiver takes the next message of its script, or one that comes after it.
LEMMA FitsHeard ==
  ASSUME NEW S, NEW q \in Seq(S), q # <<>>, NEW script, Len(script) \in Nat,
         NEW h \in Nat, NEW s \in Nat, h <= s, s <= Len(script), Fits(q, script, h, s),
         NEW g \in Nat, IF h < Len(script) THEN g = h + 1 ELSE g = h
  PROVE  /\ Fits(Tail(q), script, g, s) /\ g <= s
         /\ h < Len(script) => Head(q).msg.type = script[h + 1]
<1>1. PICK a : a = Tail(q)
  OBVIOUS
<1>2. /\ Len(q) \in Nat /\ Len(q) > 0 /\ Len(a) = Len(q) - 1 /\ DOMAIN a = 1 .. Len(q) - 1
      /\ DOMAIN q = 1 .. Len(q)
      /\ \A i \in 1 .. Len(q) - 1 : a[i] = q[i + 1]
      /\ Head(q) = q[1]
  BY <1>1
<1>3. IF s < Len(script) THEN Len(q) = s - h ELSE Len(q) >= s - h
  BY DEF Fits
<1>4. g <= s /\ IF s < Len(script) THEN Len(a) = s - g ELSE Len(a) >= s - g
  <2>1. PICK n, m, k : n = Len(script) /\ m = Len(q) /\ k = Len(a)
    OBVIOUS
  <2>2. n \in Nat /\ m \in Nat /\ m > 0 /\ k = m - 1 /\ s <= n
    BY <1>2, <2>1
  <2>3. IF s < n THEN m = s - h ELSE m >= s - h
    BY <1>3, <2>1
  <2>4. IF h < n THEN g = h + 1 ELSE g = h
    BY <2>1
  <2>5. g <= s
    BY <2>2, <2>3, <2>4
  <2>6. IF s < n THEN k = s - g ELSE k >= s - g
    BY <2>2, <2>3, <2>4
  <2>7. QED
    BY <2>1, <2>5, <2>6
<1>5. ASSUME NEW i \in DOMAIN a, g + i <= Len(script) PROVE a[i].msg.type = script[g + i]
  <2>1. g = h + 1 /\ i + 1 \in DOMAIN q /\ h + (i + 1) = g + i
    <3>1. i \in Nat /\ i >= 1 /\ i + 1 \in DOMAIN q
      BY <1>2
    <3>2. h < Len(script)
      BY <1>5, <3>1
    <3>3. QED
      BY <3>1, <3>2
  <2>2. q[i + 1].msg.type = script[h + (i + 1)]
    BY <1>5, <2>1 DEF Fits
  <2>3. QED
    BY <1>2, <1>5, <2>1, <2>2
<1>6. h < Len(script) => Head(q).msg.type = script[h + 1]
  BY <1>2 DEF Fits
<1>7. QED
  BY <1>1, <1>4, <1>5, <1>6 DEF Fits

-----------------------------------------------------------------------------
\* What the operations of the mailbox do to the two queues

Boxed == [{Code} -> MB!Box \cup {NoBox}]

LEMMA BoxTypes ==
  ASSUME TypeOK
  PROVE  /\ box \in Boxed
         /\ Exists => /\ box[Code] \in MB!Box /\ box[Code].pending \in [Peer -> Seq(MB!Envelope)]
                      /\ box[Code].info \in SUBSET Peer
<1>1. box \in Boxed
  BY DEF TypeOK, Boxed
<1>2. Exists => box[Code] \in MB!Box
  BY <1>1 DEF Boxed, Exists
<1>3. QED
  BY <1>1, <1>2 DEF MB!Box, MB!Role, Peer

LEMMA SendEffect ==
  ASSUME TypeOK, NEW p \in Peer, NEW m \in Message, MB!Send(Code, p, p, m)
  PROVE  /\ Exists /\ box' \in Boxed /\ box'[Code].info = box[Code].info
         /\ box'[Code].pending[Other(p)] = Append(Queue(Other(p)), [from |-> p, msg |-> m])
         /\ box'[Code].pending[p] = Queue(p)
<1>1. Exists
  BY DEF MB!Send, MB!Owns, Exists
<1>2. PICK b, e, f, c :
        /\ b = box[Code] /\ e = [from |-> p, msg |-> m]
        /\ f = [b.pending EXCEPT ![Other(p)] = Append(b.pending[Other(p)], e)]
        /\ c = [b EXCEPT !.pending = f]
  OBVIOUS
<1>3. b \in MB!Box /\ b.pending \in [Peer -> Seq(MB!Envelope)] /\ box \in Boxed
  BY <1>1, <1>2, BoxTypes
<1>4. box' = [box EXCEPT ![Code] = c]
  BY <1>2, Peers DEF MB!Send
<1>5. e \in MB!Envelope
  BY <1>2 DEF MB!Envelope
<1>6. /\ f \in [Peer -> Seq(MB!Envelope)] /\ f[p] = b.pending[p]
      /\ f[Other(p)] = Append(b.pending[Other(p)], e)
  BY <1>2, <1>3, <1>5, Peers
<1>7. c \in MB!Box /\ c.pending = f /\ c.info = b.info
  BY <1>2, <1>3, <1>6 DEF MB!Box, MB!Role, Peer
<1>8. box'[Code] = c /\ box' \in Boxed
  BY <1>3, <1>4, <1>7 DEF Boxed
<1>9. QED
  BY <1>1, <1>2, <1>6, <1>7, <1>8 DEF Queue

LEMMA ReceiveEffect ==
  ASSUME TypeOK, NEW p \in Peer, MB!Receive(Code, p, p)
  PROVE  /\ Exists /\ box' \in Boxed /\ box'[Code].info = box[Code].info
         /\ Queue(p) # <<>> /\ box'[Code].pending[p] = Tail(Queue(p))
         /\ box'[Code].pending[Other(p)] = Queue(Other(p))
<1>1. Exists /\ Queue(p) # <<>>
  BY DEF MB!Receive, MB!Owns, Exists, Queue
<1>2. PICK b, f, c :
        /\ b = box[Code] /\ f = [b.pending EXCEPT ![p] = Tail(b.pending[p])]
        /\ c = [b EXCEPT !.pending = f]
  OBVIOUS
<1>3. b \in MB!Box /\ b.pending \in [Peer -> Seq(MB!Envelope)] /\ box \in Boxed
  BY <1>1, <1>2, BoxTypes
<1>4. box' = [box EXCEPT ![Code] = c]
  BY <1>2 DEF MB!Receive
<1>5. Tail(b.pending[p]) \in Seq(MB!Envelope)
  BY <1>1, <1>2, <1>3 DEF Queue
<1>6. /\ f \in [Peer -> Seq(MB!Envelope)] /\ f[p] = Tail(b.pending[p])
      /\ f[Other(p)] = b.pending[Other(p)]
  BY <1>2, <1>3, <1>5, Peers
<1>7. c \in MB!Box /\ c.pending = f /\ c.info = b.info
  BY <1>2, <1>3, <1>6 DEF MB!Box, MB!Role, Peer
<1>8. box'[Code] = c /\ box' \in Boxed
  BY <1>3, <1>4, <1>7 DEF Boxed
<1>9. QED
  BY <1>1, <1>2, <1>6, <1>7, <1>8 DEF Queue

LEMMA PublishEffect ==
  ASSUME TypeOK, NEW p \in Peer, MB!Publish(Code, p, p)
  PROVE  /\ Exists /\ box' \in Boxed /\ box'[Code].info = box[Code].info \cup {p}
         /\ box'[Code].pending = box[Code].pending
<1>1. Exists
  BY DEF MB!Publish, MB!Owns, Exists
<1>2. PICK b, c : b = box[Code] /\ c = [b EXCEPT !.info = b.info \cup {p}]
  OBVIOUS
<1>3. b \in MB!Box /\ box \in Boxed
  BY <1>1, <1>2, BoxTypes
<1>4. box' = [box EXCEPT ![Code] = c]
  BY <1>2 DEF MB!Publish
<1>5. c \in MB!Box /\ c.pending = b.pending /\ c.info = b.info \cup {p}
  BY <1>2, <1>3 DEF MB!Box, MB!Role, Peer
<1>6. box'[Code] = c /\ box' \in Boxed
  BY <1>3, <1>4, <1>5 DEF Boxed
<1>7. QED
  BY <1>1, <1>2, <1>5, <1>6

LEMMA OpenEffect ==
  ASSUME TypeOK, MB!Open(Code, "send")
  PROVE  /\ box' \in Boxed /\ box'[Code].info = {}
         /\ \A r \in Peer : box'[Code].pending[r] = <<>>
<1>1. PICK c : c = MB!NewBox("send")
  OBVIOUS
<1>2. box' = [box EXCEPT ![Code] = c] /\ box \in Boxed
  BY <1>1, BoxTypes DEF MB!Open
<1>3. c \in MB!Box /\ c.info = {} /\ \A r \in Peer : c.pending[r] = <<>>
  <2>1. <<>> \in Seq(MB!Envelope) /\ {} \in SUBSET MB!Role
    OBVIOUS
  <2>2. [r \in MB!Role |-> IF r = "send" THEN "send" ELSE NoOne] \in [MB!Role -> Peer \cup {NoOne}]
    BY Peers
  <2>3. [r \in MB!Role |-> <<>>] \in [MB!Role -> Seq(MB!Envelope)]
    BY <2>1
  <2>4. QED
    BY <1>1, <2>1, <2>2, <2>3 DEF MB!NewBox, MB!Box, MB!Role, Peer
<1>4. box'[Code] = c /\ box' \in Boxed
  BY <1>2, <1>3 DEF Boxed
<1>5. QED
  BY <1>3, <1>4

LEMMA JoinEffect ==
  ASSUME TypeOK, MB!Join(Code, "recv")
  PROVE  /\ Exists /\ box' \in Boxed /\ box'[Code].info = box[Code].info
         /\ box'[Code].pending = box[Code].pending
<1>1. Exists
  BY DEF MB!Join, Exists
<1>2. PICK b, f, c : /\ b = box[Code] /\ f = [b.owner EXCEPT !["recv"] = "recv"]
                     /\ c = [b EXCEPT !.owner = f]
  OBVIOUS
<1>3. b \in MB!Box /\ box \in Boxed
  BY <1>1, <1>2, BoxTypes
<1>4. box' = [box EXCEPT ![Code] = c]
  BY <1>2 DEF MB!Join
<1>5. c \in MB!Box /\ c.pending = b.pending /\ c.info = b.info
  <2>1. b.owner \in [MB!Role -> Peer \cup {NoOne}]
    BY <1>3 DEF MB!Box
  <2>2. f \in [MB!Role -> Peer \cup {NoOne}]
    BY <1>2, <2>1, Peers
  <2>3. QED
    BY <1>2, <1>3, <2>2 DEF MB!Box
<1>6. box'[Code] = c /\ box' \in Boxed
  BY <1>3, <1>4, <1>5 DEF Boxed
<1>7. QED
  BY <1>1, <1>2, <1>5, <1>6

LEMMA VanishEffect ==
  ASSUME TypeOK, MB!Vanish({Code}) PROVE box' \in Boxed /\ ~Exists'
BY DEF MB!Vanish, Boxed, Exists

-----------------------------------------------------------------------------
\* A step of p, which goes to phase l

\* What the other peer sees of it.
Moves(p, l) ==
  /\ pc' = [pc EXCEPT ![p] = l] /\ l \in Label
  /\ l \in Pairing \ {"verify"} => pc[p] \in Pairing \ {"verify"}
  /\ l \in Pairing => pc[p] \in Pairing
  /\ worker'[Other(p)] = worker[Other(p)] /\ mapping'[Other(p)] = mapping[Other(p)]
  /\ Other(p) \in orphan' => Other(p) \in orphan
  /\ published'[Other(p)] = published[Other(p)]
  /\ known'[Other(p)] = known[Other(p)] /\ ready'[Other(p)] = ready[Other(p)]
  /\ deferred'[Other(p)] = deferred[Other(p)]
  /\ Exists' /\ Other(p) \in box'[Code].info => Exists /\ Other(p) \in box[Code].info
  /\ \A d : Announced(p, d) => Announced(p, d)'

\* What p may make of the messages it has taken; d is what it defers.
Keeps(p, l, d) ==
  /\ d = deferred'[p] /\ \A i \in DOMAIN d : DigestOK(p, d[i])
  /\ l \in Pairing => d = <<>>
  /\ l \in {"snapshot", "verify"} => known'[p] = "initial"
  /\ l = "refresh" => \E e : e = ready'[p] /\ Announced(Other(p), e)

LEMMA Moved ==
  ASSUME TypeOK, NEW p \in Peer, NEW l, Moves(p, l)
  PROVE  pc'[p] = l /\ pc'[Other(p)] = pc[Other(p)] /\ pc' \in [Peer -> Label]
<1>1. pc \in [Peer -> Label]
  BY DEF TypeOK, Label
<1>2. QED
  BY <1>1, Peers DEF Moves

LEMMA DigestFrame ==
  ASSUME TypeOK, NEW p \in Peer, NEW l, Moves(p, l), NEW r \in Peer, NEW m, DigestOK(r, m)
  PROVE  DigestOK(r, m)'
<1>1. \A d : Announced(p, d) => Announced(p, d)'
  BY DEF Moves
<1>2. \A d : Announced(Other(p), d) => Announced(Other(p), d)'
  BY Moved DEF Moves, Announced
<1>3. r = p \/ r = Other(p)
  BY Peers
<1>4. Other(r) = p \/ Other(r) = Other(p)
  BY <1>3, Peers
<1>5. QED
  BY <1>1, <1>2, <1>4 DEF DigestOK

LEMMA OtherFrame ==
  ASSUME PairingInv, NEW p \in Peer, NEW l, Moves(p, l), NEW q, q = Other(p)
  PROVE  /\ AttemptOK(q)' /\ PublishedOK(q)'
         /\ \A i \in DOMAIN deferred'[q] : DigestOK(q, deferred'[q][i])
         /\ pc'[q] \in Pairing => deferred'[q] = <<>>
         /\ pc'[q] \in {"snapshot", "verify"} => known'[q] = "initial"
         /\ At(q, "refresh")' => Announced(p, ready[q])' /\ ready'[q] = ready[q]
<1>1. /\ q \in Peer /\ Other(q) = p /\ TypeOK /\ AttemptOK(q) /\ PublishedOK(q) /\ MailOK(q)
  BY Peers DEF PairingInv
<1>2. pc'[p] = l /\ pc'[q] = pc[q]
  BY <1>1, Moved
<1>3. AttemptOK(q)'
  BY <1>1, <1>2 DEF AttemptOK, Moves
<1>4. PublishedOK(q)'
  BY <1>1, <1>2 DEF PublishedOK, Moves, At, Offer
<1>5. deferred'[q] = deferred[q] /\ known'[q] = known[q] /\ ready'[q] = ready[q]
  BY DEF Moves
<1>6. At(q, "refresh")' => Announced(p, ready[q])'
  <2>1. PICK d : d = ready[q]
    OBVIOUS
  <2>2. At(q, "refresh")' => Announced(p, d)
    BY <1>1, <1>2, <2>1 DEF MailOK, At
  <2>3. At(q, "refresh")' => Announced(p, d)'
    BY <2>2 DEF Moves
  <2>4. ready[q]' = d
    BY <1>5, <2>1
  <2>5. QED
    BY <2>3, <2>4 DEF Announced
<1>7. QED
  BY <1>1, <1>2, <1>3, <1>4, <1>5, <1>6 DEF MailOK

\* The invariant holds again; c and e are the queues of p and of the other peer.
LEMMA Frame ==
  ASSUME PairingInv, NEW p \in Peer, NEW l, NEW d, Moves(p, l), Keeps(p, l, d),
         NEW q, q = Other(p), AttemptOK(p)', PublishedOK(p)', TypeOK', PartsOK', ClaimOK', ~confused',
         NEW c, c = box'[Code].pending[p], NEW e, e = box'[Code].pending[q],
         Exists' => \A i \in DOMAIN c : DigestOK(p, c[i].msg)',
         Exists' => \A i \in DOMAIN e : DigestOK(q, e[i].msg)',
         l # "end" => StreamOK(p)', pc[q] # "end" => StreamOK(q)'
  PROVE  PairingInv'
<1>1. TypeOK /\ q \in Peer /\ \A r \in Peer : r = p \/ r = q
  BY Peers DEF PairingInv
<1>2. pc'[p] = l /\ pc'[q] = pc[q]
  BY <1>1, Moved
<1>3. MailOK(p)'
  <2>1. \A i \in DOMAIN d : DigestOK(p, d[i])'
    BY <1>1, DigestFrame DEF Keeps
  <2>2. d = deferred'[p] /\ (l \in Pairing => d = <<>>)
    BY DEF Keeps
  <2>3. l = "refresh" => \E f : f = ready'[p] /\ Announced(q, f)'
    <3>1. ASSUME l = "refresh" PROVE \E f : f = ready'[p] /\ Announced(q, f)
      BY <3>1 DEF Keeps
    <3>2. \A f : Announced(q, f) => Announced(q, f)'
      BY <1>2 DEF Announced, Moves
    <3>3. QED
      BY <3>1, <3>2
  <2>4. l = "refresh" => Announced(q, ready[p])'
    BY <2>3 DEF Announced
  <2>5. Exists' => \A i \in DOMAIN box'[Code].pending[p] : DigestOK(p, box[Code].pending[p][i].msg)'
    BY DEF DigestOK, Announced
  <2>6. \A i \in DOMAIN deferred'[p] : DigestOK(p, deferred[p][i])'
    BY <2>1, <2>2 DEF DigestOK, Announced
  <2>7. QED
    BY <1>2, <2>2, <2>4, <2>5, <2>6 DEF MailOK, Keeps, At, Queue
<1>4. MailOK(q)' /\ AttemptOK(q)' /\ PublishedOK(q)'
  <2>1. /\ AttemptOK(q)' /\ PublishedOK(q)'
        /\ \A i \in DOMAIN deferred'[q] : DigestOK(q, deferred'[q][i])
        /\ pc'[q] \in Pairing => deferred'[q] = <<>>
        /\ pc'[q] \in {"snapshot", "verify"} => known'[q] = "initial"
        /\ At(q, "refresh")' => Announced(p, ready[q])' /\ ready'[q] = ready[q]
    BY OtherFrame
  <2>2. PICK f : f = deferred'[q]
    OBVIOUS
  <2>3. \A i \in DOMAIN f : DigestOK(q, f[i])'
    BY <1>1, <2>1, <2>2, DigestFrame
  <2>4. \A i \in DOMAIN deferred'[q] : DigestOK(q, deferred[q][i])'
    BY <2>2, <2>3 DEF DigestOK, Announced
  <2>5. Exists' => \A i \in DOMAIN box'[Code].pending[q] : DigestOK(q, box[Code].pending[q][i].msg)'
    BY DEF DigestOK, Announced
  <2>6. Other(q) = p
    BY Peers
  <2>7. QED
    BY <2>1, <2>4, <2>5, <2>6 DEF MailOK, Queue
<1>5. QED
  BY <1>1, <1>2, <1>3, <1>4 DEF PairingInv, At

\* p, which may take a message it had deferred, touches no queue.
LEMMA QuietStep ==
  ASSUME PairingInv, NEW p \in Peer, NEW l, NEW d, Moves(p, l), Keeps(p, l, d),
         AttemptOK(p)', PublishedOK(p)', TypeOK', PartsOK', ClaimOK', ~confused',
         l = "end" \/ (Heard(p, l) = Heard(p, pc[p]) /\ Said(p, l) = Said(p, pc[p])),
         pc[p] = "end" => l = "end",
         Exists' => Exists /\ \A r \in Peer : box'[Code].pending[r] = Queue(r)
  PROVE  PairingInv'
<1>1. PICK q : q = Other(p)
  OBVIOUS
<1>2. /\ q \in Peer /\ q # p /\ Other(q) = p /\ TypeOK
      /\ MailOK(p) /\ MailOK(q)
      /\ pc[p] # "end" => StreamOK(p)
      /\ pc[q] # "end" => StreamOK(q)
  BY <1>1, Peers DEF PairingInv, At
<1>3. pc'[p] = l /\ pc'[q] = pc[q]
  BY <1>1, <1>2, Moved
<1>4. PICK c, e : c = box'[Code].pending[p] /\ e = box'[Code].pending[q]
  OBVIOUS
<1>5. Exists' => /\ \A i \in DOMAIN c : DigestOK(p, c[i].msg)
                 /\ \A i \in DOMAIN e : DigestOK(q, e[i].msg)
  BY <1>2, <1>4 DEF MailOK
<1>6. /\ Exists' => \A i \in DOMAIN c : DigestOK(p, c[i].msg)'
      /\ Exists' => \A i \in DOMAIN e : DigestOK(q, e[i].msg)'
  BY <1>2, <1>5, DigestFrame
<1>7. Exists' => Exists /\ Queue(p)' = Queue(p) /\ Queue(q)' = Queue(q)
  BY <1>2 DEF Queue
<1>8. ASSUME l # "end" PROVE StreamOK(p)'
  <2>1. PICK s \in 0 .. Len(Script(p)) :
          /\ ~At(q, "end") => s = Said(q, pc[q])
          /\ Heard(p, pc[p]) <= s
          /\ Exists => Fits(Queue(p), Script(p), Heard(p, pc[p]), s)
    BY <1>1, <1>2, <1>8 DEF StreamOK
  <2>2. /\ ~At(q, "end")' => s = Said(q, pc'[q])
        /\ Heard(p, pc'[p]) <= s
        /\ Exists' => Fits(Queue(p)', Script(p), Heard(p, pc'[p]), s)
    BY <1>3, <1>7, <1>8, <2>1 DEF At
  <2>3. QED
    BY <1>1, <2>2 DEF StreamOK
<1>9. ASSUME pc[q] # "end" PROVE StreamOK(q)'
  <2>1. PICK s \in 0 .. Len(Script(q)) :
          /\ ~At(p, "end") => s = Said(p, pc[p])
          /\ Heard(q, pc[q]) <= s
          /\ Exists => Fits(Queue(q), Script(q), Heard(q, pc[q]), s)
    BY <1>2, <1>9 DEF StreamOK
  <2>2. /\ ~At(p, "end")' => s = Said(p, pc'[p])
        /\ Heard(q, pc'[q]) <= s
        /\ Exists' => Fits(Queue(q)', Script(q), Heard(q, pc'[q]), s)
    BY <1>3, <1>7, <2>1 DEF At
  <2>3. QED
    BY <1>2, <2>2 DEF StreamOK
<1>10. QED
  BY <1>1, <1>2, <1>4, <1>6, <1>8, <1>9, Frame

\* p takes the first message of its queue.
LEMMA TakeStep ==
  ASSUME PairingInv, NEW p \in Peer, NEW l, NEW d, Moves(p, l), Keeps(p, l, d),
         AttemptOK(p)', PublishedOK(p)', TypeOK', PartsOK', ~confused', l # "claim",
         MB!Receive(Code, p, p),
         l # "end" =>
           /\ IF Heard(p, pc[p]) < Len(Script(p)) THEN Heard(p, l) = Heard(p, pc[p]) + 1
                                                  ELSE Heard(p, l) = Heard(p, pc[p])
           /\ Said(p, l) = Said(p, pc[p]) /\ pc[p] # "end"
  PROVE  PairingInv'
<1>1. PICK q : q = Other(p)
  OBVIOUS
<1>2. /\ q \in Peer /\ q # p /\ Other(q) = p /\ TypeOK
      /\ MailOK(p) /\ MailOK(q)
      /\ pc[p] # "end" => StreamOK(p)
      /\ pc[q] # "end" => StreamOK(q)
  BY <1>1, Peers DEF PairingInv, At
<1>3. pc'[p] = l /\ pc'[q] = pc[q] /\ pc \in [Peer -> Label]
  BY <1>1, <1>2, Moved DEF TypeOK, Label
<1>4. PICK c, e : c = box'[Code].pending[p] /\ e = box'[Code].pending[q]
  OBVIOUS
<1>5. /\ Exists /\ Queue(p) # <<>> /\ c = Tail(Queue(p)) /\ e = Queue(q)
      /\ Queue(p) \in Seq(MB!Envelope)
  BY <1>1, <1>2, <1>4, ReceiveEffect, BoxTypes DEF Queue
<1>6. /\ \A i \in DOMAIN c : DigestOK(p, c[i].msg)
      /\ \A i \in DOMAIN e : DigestOK(q, e[i].msg)
  <2>1. PICK f : f = Queue(p)
    OBVIOUS
  <2>2. \A i \in DOMAIN c : i + 1 \in DOMAIN f /\ c[i] = f[i + 1]
    BY <1>5, <2>1
  <2>3. \A i \in DOMAIN f : DigestOK(p, f[i].msg)
    BY <1>2, <1>5, <2>1 DEF MailOK
  <2>4. \A i \in DOMAIN c : DigestOK(p, c[i].msg)
    BY <2>2, <2>3
  <2>5. QED
    BY <1>2, <1>5, <2>4 DEF MailOK
<1>7. /\ \A i \in DOMAIN c : DigestOK(p, c[i].msg)'
      /\ \A i \in DOMAIN e : DigestOK(q, e[i].msg)'
  BY <1>2, <1>6, DigestFrame
<1>8. ASSUME l # "end" PROVE StreamOK(p)'
  <2>1. PICK s \in 0 .. Len(Script(p)) :
          /\ ~At(q, "end") => s = Said(q, pc[q])
          /\ Heard(p, pc[p]) <= s
          /\ Exists => Fits(Queue(p), Script(p), Heard(p, pc[p]), s)
    BY <1>1, <1>2, <1>8 DEF StreamOK
  <2>2. PICK f, h, g : f = Queue(p) /\ h = Heard(p, pc[p]) /\ g = Heard(p, l)
    OBVIOUS
  <2>3. h \in Nat /\ g \in Nat /\ Len(Script(p)) \in Nat /\ s \in Nat /\ s <= Len(Script(p))
    <3>1. l \in Label /\ pc[p] \in Label /\ Len(Script(p)) \in {2, 3}
      BY <1>3, Scripts DEF Moves
    <3>2. h \in 0 .. Len(Script(p)) /\ g \in 0 .. Len(Script(p))
      BY <2>2, <3>1, TurnTypes
    <3>3. QED
      BY <3>1, <3>2
  <2>4. Fits(Tail(f), Script(p), g, s) /\ g <= s
    <3>1. f \in Seq(MB!Envelope) /\ f # <<>> /\ Fits(f, Script(p), h, s) /\ h <= s
      BY <1>5, <2>1, <2>2
    <3>2. IF h < Len(Script(p)) THEN g = h + 1 ELSE g = h
      BY <1>8, <2>2
    <3>3. QED
      BY <2>3, <3>1, <3>2, FitsHeard
  <2>5. Queue(p)' = Tail(f)
    BY <1>4, <1>5, <2>2 DEF Queue
  <2>6. /\ ~At(q, "end")' => s = Said(q, pc'[q])
        /\ Heard(p, pc'[p]) <= s
        /\ Fits(Queue(p)', Script(p), Heard(p, pc'[p]), s)
    BY <1>3, <2>1, <2>2, <2>4, <2>5 DEF At
  <2>7. QED
    BY <1>1, <2>6 DEF StreamOK
<1>9. ASSUME pc[q] # "end" PROVE StreamOK(q)'
  <2>1. PICK s \in 0 .. Len(Script(q)) :
          /\ ~At(p, "end") => s = Said(p, pc[p])
          /\ Heard(q, pc[q]) <= s
          /\ Exists => Fits(Queue(q), Script(q), Heard(q, pc[q]), s)
    BY <1>2, <1>9 DEF StreamOK
  <2>2. Queue(q)' = Queue(q)
    BY <1>4, <1>5 DEF Queue
  <2>3. /\ ~At(p, "end")' => s = Said(p, pc'[p])
        /\ Heard(q, pc'[q]) <= s
        /\ Fits(Queue(q)', Script(q), Heard(q, pc'[q]), s)
    BY <1>3, <1>5, <2>1, <2>2 DEF At
  <2>4. QED
    BY <1>2, <2>3 DEF StreamOK
<1>10. ClaimOK'
  BY <1>1, <1>2, <1>3, <1>5, Peers DEF PairingInv, ClaimOK, At, Peer
<1>11. QED
  BY <1>1, <1>2, <1>4, <1>7, <1>8, <1>9, <1>10, Frame

\* p sends the next message of a script, or one that comes after it.
LEMMA SayStep ==
  ASSUME PairingInv, NEW p \in Peer, NEW l, NEW d, Moves(p, l), Keeps(p, l, d),
         AttemptOK(p)', PublishedOK(p)', TypeOK', PartsOK', ~confused',
         l \notin {"claim", "end"}, pc[p] # "end",
         NEW m \in Message, MB!Send(Code, p, p, m), DigestOK(Other(p), m)',
         Heard(p, l) = Heard(p, pc[p]),
         IF Said(p, pc[p]) < Len(Script(Other(p)))
         THEN Said(p, l) = Said(p, pc[p]) + 1 /\ m.type = Script(Other(p))[Said(p, l)]
         ELSE Said(p, l) = Said(p, pc[p])
  PROVE  PairingInv'
<1>1. PICK q : q = Other(p)
  OBVIOUS
<1>2. /\ q \in Peer /\ q # p /\ Other(q) = p /\ TypeOK
      /\ MailOK(p) /\ MailOK(q)
      /\ StreamOK(p)
      /\ pc[q] # "end" => StreamOK(q)
  BY <1>1, Peers DEF PairingInv, At
<1>3. pc'[p] = l /\ pc'[q] = pc[q] /\ pc \in [Peer -> Label]
  BY <1>1, <1>2, Moved DEF TypeOK, Label
<1>4. PICK c, e, f, x :
        /\ c = box'[Code].pending[p] /\ e = box'[Code].pending[q] /\ f = Queue(q)
        /\ x = [from |-> p, msg |-> m]
  OBVIOUS
<1>5. Exists /\ c = Queue(p) /\ e = Append(f, x) /\ f \in Seq(MB!Envelope) /\ x.msg = m
  BY <1>1, <1>2, <1>4, SendEffect, BoxTypes DEF Queue
<1>6. \A i \in DOMAIN c : DigestOK(p, c[i].msg)
  BY <1>2, <1>5 DEF MailOK
<1>7. \A i \in DOMAIN c : DigestOK(p, c[i].msg)'
  BY <1>2, <1>6, DigestFrame
<1>8. \A i \in DOMAIN e : DigestOK(q, e[i].msg)'
  <2>1. \A i \in DOMAIN f : DigestOK(q, f[i].msg)
    BY <1>2, <1>4, <1>5 DEF MailOK
  <2>2. \A i \in DOMAIN f : DigestOK(q, f[i].msg)'
    BY <1>2, <2>1, DigestFrame
  <2>3. \A i \in DOMAIN e : e[i].msg = m \/ (i \in DOMAIN f /\ e[i] = f[i])
    BY <1>5
  <2>4. DigestOK(q, m)'
    BY <1>1
  <2>5. QED
    BY <2>2, <2>3, <2>4
<1>9. StreamOK(p)'
  <2>1. PICK s \in 0 .. Len(Script(p)) :
          /\ ~At(q, "end") => s = Said(q, pc[q])
          /\ Heard(p, pc[p]) <= s
          /\ Exists => Fits(Queue(p), Script(p), Heard(p, pc[p]), s)
    BY <1>1, <1>2 DEF StreamOK
  <2>2. Queue(p)' = Queue(p)
    BY <1>4, <1>5 DEF Queue
  <2>3. /\ ~At(q, "end")' => s = Said(q, pc'[q])
        /\ Heard(p, pc'[p]) <= s
        /\ Fits(Queue(p)', Script(p), Heard(p, pc'[p]), s)
    BY <1>3, <1>5, <2>1, <2>2 DEF At
  <2>4. QED
    BY <1>1, <2>3 DEF StreamOK
<1>10. ASSUME pc[q] # "end" PROVE StreamOK(q)'
  <2>1. PICK s \in 0 .. Len(Script(q)) :
          /\ ~At(p, "end") => s = Said(p, pc[p])
          /\ Heard(q, pc[q]) <= s
          /\ Exists => Fits(Queue(q), Script(q), Heard(q, pc[q]), s)
    BY <1>2, <1>10 DEF StreamOK
  <2>2. PICK h, t, z : h = Heard(q, pc[q]) /\ t = Said(p, l) /\ z = Script(q)
    OBVIOUS
  <2>3. /\ h \in Nat /\ t \in Nat /\ s \in Nat /\ Len(z) \in Nat /\ h <= s /\ s <= Len(z)
        /\ t \in 0 .. Len(Script(q))
    <3>1. l \in Label /\ pc[q] \in Label /\ Len(Script(q)) \in {2, 3}
      BY <1>2, <1>3, Scripts DEF Moves
    <3>2. h \in 0 .. Len(Script(q)) /\ t \in 0 .. Len(Script(q))
      BY <1>1, <1>2, <2>2, <3>1, TurnTypes
    <3>3. QED
      BY <2>1, <2>2, <3>1, <3>2
  <2>4. s = Said(p, pc[p])
    BY <2>1 DEF At
  <2>5. IF s < Len(z) THEN t = s + 1 /\ x.msg.type = z[t] ELSE t = s
    BY <1>1, <1>5, <2>2, <2>4
  <2>6. Fits(f, z, h, s)
    BY <1>4, <1>5, <2>1, <2>2
  <2>7. Fits(Append(f, x), z, h, t) /\ h <= t
    BY <1>5, <2>3, <2>5, <2>6, FitsSaid
  <2>8. Queue(q)' = Append(f, x)
    BY <1>4, <1>5 DEF Queue
  <2>9. /\ ~At(p, "end")' => t = Said(p, pc'[p])
        /\ Heard(q, pc'[q]) <= t
        /\ Fits(Queue(q)', Script(q), Heard(q, pc'[q]), t)
    BY <1>3, <2>2, <2>7, <2>8
  <2>10. QED
    BY <1>2, <2>3, <2>9 DEF StreamOK
<1>11. ClaimOK'
  BY <1>1, <1>2, <1>3, <1>5, Peers DEF PairingInv, ClaimOK, At, Peer
<1>12. QED
  BY <1>1, <1>2, <1>4, <1>7, <1>8, <1>9, <1>10, <1>11, Frame

LEMMA Inv ==
  ASSUME PairingInv, NEW p \in Peer
  PROVE  /\ TypeOK /\ PartsOK /\ ClaimOK /\ confused = FALSE
         /\ AttemptOK(p) /\ PublishedOK(p) /\ MailOK(p) /\ pc \in [Peer -> Label]
         /\ \A i \in DOMAIN deferred[p] : DigestOK(p, deferred[p][i])
BY DEF PairingInv, TypeOK, Label, MailOK

LEMMA PartsStep ==
  ASSUME PairingInv, NEW p \in Peer, NEW l, Moves(p, l), Exists' => Exists,
         p = "send" => l \notin {"reply", "hear2"}, p = "recv" => l \notin {"say1", "say2"},
         l = "claim" => pc[p] = "claim", pc[p] = "claim" => l \in {"claim", "end"},
         pc[p] = "end" => l = "end"
  PROVE  PartsOK' /\ ClaimOK'
<1>1. /\ PartsOK /\ ClaimOK /\ p \in {"send", "recv"} /\ pc'[p] = l /\ pc'[Other(p)] = pc[Other(p)]
      /\ Other(p) = IF p = "send" THEN "recv" ELSE "send"
  BY Inv, Moved DEF Peer, Other
<1>2. PartsOK'
  BY <1>1 DEF PartsOK
<1>3. ClaimOK'
  BY <1>1 DEF ClaimOK, At
<1>4. QED
  BY <1>2, <1>3

\* Before ICE, a message that a peer finds is the next one of its script.
LEMMA HeadExpected ==
  ASSUME PairingInv, NEW p \in Peer, pc[p] \in Pairing, Exists, Queue(p) # <<>>
  PROVE  Head(Queue(p)).msg.type = Script(p)[Heard(p, pc[p]) + 1]
<1>1. TypeOK /\ pc[p] \in Label /\ StreamOK(p)
  BY DEF PairingInv, TypeOK, Label, At, Pairing
<1>2. PICK s \in 0 .. Len(Script(p)) :
        Heard(p, pc[p]) <= s /\ Fits(Queue(p), Script(p), Heard(p, pc[p]), s)
  BY <1>1 DEF StreamOK
<1>3. PICK f, h, z : f = Queue(p) /\ h = Heard(p, pc[p]) /\ z = Script(p)
  OBVIOUS
<1>4. h \in Nat /\ s \in Nat /\ Len(z) \in Nat /\ h <= s /\ s <= Len(z) /\ h < Len(z)
  <2>1. h \in 0 .. Len(z) /\ h # Len(z) /\ Len(z) \in {2, 3}
    BY <1>1, <1>3, TurnTypes, Scripts
  <2>2. QED
    BY <1>2, <1>3, <2>1
<1>5. f \in Seq(MB!Envelope) /\ f # <<>> /\ Fits(f, z, h, s)
  BY <1>1, <1>2, <1>3, BoxTypes DEF Queue
<1>6. PICK g : g = h + 1
  OBVIOUS
<1>7. Head(f).msg.type = z[h + 1]
  <2>1. g \in Nat /\ IF h < Len(z) THEN g = h + 1 ELSE g = h
    BY <1>4, <1>6
  <2>2. QED
    BY <1>4, <1>5, <2>1, FitsHeard
<1>8. QED
  BY <1>3, <1>7

-----------------------------------------------------------------------------
\* The claim and the exchange

LEMMA ClaimStep ==
  ASSUME PairingInv, NEW p \in Peer, Claim(p) PROVE PairingInv'
<1>1. /\ TypeOK /\ PartsOK /\ ClaimOK /\ confused = FALSE
      /\ AttemptOK(p) /\ PublishedOK(p) /\ MailOK(p) /\ pc \in [Peer -> Label]
      /\ \A i \in DOMAIN deferred[p] : DigestOK(p, deferred[p][i])
  BY Inv
<1>2. /\ pc[p] = "claim" /\ pc' = [pc EXCEPT ![p] = "publish"]
      /\ UNCHANGED <<published, known, ready, refreshed, have, deferred, orphan>>
      /\ UNCHANGED <<worker, mapping, confused, disturbed>>
      /\ p = "send" => MB!Open(Code, "send")
      /\ p = "recv" => MB!Join(Code, "recv")
  BY DEF Claim, At, Goto, exchange, upnp, history, Peer
<1>3. box' \in Boxed /\ (p = "recv" => Exists) /\ (p = "send" => box'[Code].info = {})
      /\ (p = "recv" => box'[Code].info = box[Code].info /\ box'[Code].pending = box[Code].pending)
      /\ (p = "send" => \A r \in Peer : box'[Code].pending[r] = <<>>)
  BY <1>1, <1>2, OpenEffect, JoinEffect DEF Peer
<1>4. Moves(p, "publish")
  BY <1>1, <1>2, <1>3 DEF Moves, Announced, Label, Pairing, Peer
<1>5. PICK d : d = deferred[p]
  OBVIOUS
<1>6. Keeps(p, "publish", d)
  BY <1>1, <1>2, <1>5 DEF Keeps, MailOK, Pairing
<1>7. pc'[p] = "publish" /\ pc'[Other(p)] = pc[Other(p)] /\ pc' \in [Peer -> Label]
  BY <1>1, <1>4, Moved
<1>8. AttemptOK(p)' /\ PublishedOK(p)'
  BY <1>1, <1>2, <1>3, <1>7 DEF AttemptOK, PublishedOK, Pairing, Ice, Sync, At, Peer, Exists
<1>9. TypeOK' /\ ~confused'
  BY <1>1, <1>2, <1>3, <1>7 DEF TypeOK, Label, Boxed
<1>10. CASE p = "recv"
  <2>1. PartsOK' /\ ClaimOK'
    BY <1>1, <1>3, <1>7, <1>10 DEF PartsOK, ClaimOK, At, Other
  <2>2. Heard(p, "publish") = Heard(p, pc[p]) /\ Said(p, "publish") = Said(p, pc[p])
    BY <1>2, Turns
  <2>3. Exists' => Exists /\ \A r \in Peer : box'[Code].pending[r] = Queue(r)
    BY <1>3, <1>10 DEF Queue
  <2>4. QED
    BY <1>2, <1>4, <1>6, <1>8, <1>9, <2>1, <2>2, <2>3, QuietStep
<1>11. CASE p = "send"
  <2>1. PICK q : q = Other(p)
    OBVIOUS
  <2>2. q = "recv" /\ q \in Peer /\ Other(q) = p
    BY <1>11, <2>1, Peers DEF Other
  <2>3. PartsOK' /\ ClaimOK' /\ pc[q] \in {"claim", "end"}
    BY <1>1, <1>2, <1>7, <1>11, <2>1, <2>2 DEF PartsOK, ClaimOK, At
  <2>4. Len(Script(p)) = 2 /\ Len(Script(q)) = 3 /\ 0 \in 0 .. Len(Script(p)) /\ 0 \in 0 .. Len(Script(q))
    BY <1>11, <2>2, Scripts
  <2>5. /\ Heard(p, "publish") = 0 /\ Said(p, "publish") = 0
        /\ Heard(q, "claim") = 0 /\ Said(q, "claim") = 0
    BY <2>2, Turns
  <2>6. Queue(p)' = <<>> /\ Queue(q)' = <<>>
    BY <1>3, <1>11, <2>2 DEF Queue
  <2>7. Fits(<<>>, Script(p), 0, 0) /\ Fits(<<>>, Script(q), 0, 0)
    BY <2>4, FitsEmpty
  <2>8. StreamOK(p)'
    <3>1. /\ ~At(q, "end")' => 0 = Said(q, pc'[q])
          /\ Heard(p, pc'[p]) <= 0 /\ Fits(Queue(p)', Script(p), Heard(p, pc'[p]), 0)
      BY <1>7, <2>1, <2>3, <2>5, <2>6, <2>7 DEF At
    <3>2. QED
      BY <2>1, <2>4, <3>1 DEF StreamOK
  <2>9. ASSUME pc[q] # "end" PROVE StreamOK(q)'
    <3>1. /\ 0 = Said(p, pc'[p])
          /\ Heard(q, pc'[q]) <= 0 /\ Fits(Queue(q)', Script(q), Heard(q, pc'[q]), 0)
      BY <1>7, <2>1, <2>3, <2>5, <2>6, <2>7, <2>9
    <3>2. QED
      BY <2>2, <2>4, <3>1 DEF StreamOK
  <2>10. PICK c, e : c = box'[Code].pending[p] /\ e = box'[Code].pending[q]
    OBVIOUS
  <2>11. DOMAIN c = {} /\ DOMAIN e = {}
    BY <1>3, <1>11, <2>2, <2>10
  <2>12. QED
    BY <1>4, <1>6, <1>8, <1>9, <2>1, <2>3, <2>8, <2>9, <2>10, <2>11, Frame
<1>12. QED
  BY <1>10, <1>11 DEF Peer

LEMMA StoreSelfStep ==
  ASSUME PairingInv, NEW p \in Peer, StoreSelf(p) PROVE PairingInv'
<1>1. /\ TypeOK /\ PartsOK /\ ClaimOK /\ confused = FALSE
      /\ AttemptOK(p) /\ PublishedOK(p) /\ MailOK(p) /\ pc \in [Peer -> Label]
      /\ \A i \in DOMAIN deferred[p] : DigestOK(p, deferred[p][i])
  BY Inv
<1>2. PICK l : l = IF p = "send" THEN "say1" ELSE "hear1"
  OBVIOUS
<1>3. /\ pc[p] = "publish" /\ pc' = [pc EXCEPT ![p] = l] /\ MB!Publish(Code, p, p)
      /\ published' = [published EXCEPT ![p] = "initial"]
      /\ UNCHANGED <<known, ready, refreshed, have, deferred, orphan>>
      /\ UNCHANGED <<worker, mapping, confused, disturbed>>
  BY <1>2 DEF StoreSelf, Store, At, Goto, exchange, upnp, history
<1>4. /\ Exists /\ box' \in Boxed /\ box'[Code].info = box[Code].info \cup {p}
      /\ box'[Code].pending = box[Code].pending
  BY <1>1, <1>3, PublishEffect
<1>5. published'[p] = "initial" /\ published'[Other(p)] = published[Other(p)]
      /\ published' \in [Peer -> Candidates]
  BY <1>1, <1>3, Peers DEF TypeOK, Candidates
<1>6. Moves(p, l)
  BY <1>1, <1>2, <1>3, <1>4, <1>5, Peers DEF Moves, Announced, Label, Pairing
<1>7. PICK d : d = deferred[p]
  OBVIOUS
<1>8. Keeps(p, l, d)
  BY <1>1, <1>2, <1>3, <1>7 DEF Keeps, MailOK, Pairing
<1>9. pc'[p] = l /\ pc'[Other(p)] = pc[Other(p)] /\ pc' \in [Peer -> Label]
  BY <1>1, <1>6, Moved
<1>10. AttemptOK(p)' /\ PublishedOK(p)'
  BY <1>1, <1>2, <1>3, <1>5, <1>9 DEF AttemptOK, PublishedOK, Pairing, Ice, Sync, At
<1>11. TypeOK' /\ ~confused'
  BY <1>1, <1>3, <1>4, <1>5, <1>9 DEF TypeOK, Label, Boxed
<1>12. PartsOK' /\ ClaimOK'
  BY <1>2, <1>3, <1>4, <1>6, PartsStep
<1>13. Heard(p, l) = Heard(p, pc[p]) /\ Said(p, l) = Said(p, pc[p])
  BY <1>2, <1>3, Turns
<1>14. QED
  BY <1>2, <1>3, <1>4, <1>6, <1>8, <1>10, <1>11, <1>12, <1>13, QuietStep DEF Queue

\* What a step says and where it leads; the rest it leaves alone.
LEMMA SayFrame ==
  ASSUME PairingInv, NEW p \in Peer, NEW k, NEW l, NEW m \in Message, Say(p, k, m, l),
         <<k, l>> \in {<<"say1", "hear1">>, <<"reply", "hear2">>, <<"say2", "wait">>,
                       <<"snapshot", "verify">>, <<"auth", "candidates">>,
                       <<"candidates", "signal">>, <<"announce", "await">>},
         DigestOK(Other(p), m)',
         IF Said(p, k) < Len(Script(Other(p)))
         THEN Said(p, l) = Said(p, k) + 1 /\ m.type = Script(Other(p))[Said(p, l)]
         ELSE Said(p, l) = Said(p, k)
  PROVE  PairingInv'
<1>1. /\ TypeOK /\ PartsOK /\ ClaimOK /\ confused = FALSE
      /\ AttemptOK(p) /\ PublishedOK(p) /\ MailOK(p) /\ pc \in [Peer -> Label]
      /\ \A i \in DOMAIN deferred[p] : DigestOK(p, deferred[p][i])
  BY Inv
<1>2. /\ pc[p] = k /\ pc' = [pc EXCEPT ![p] = l] /\ MB!Send(Code, p, p, m)
      /\ UNCHANGED <<published, known, ready, refreshed, have, deferred, orphan>>
      /\ UNCHANGED <<worker, mapping, confused, disturbed>>
  BY DEF Say, At, Goto, exchange, upnp, history
<1>3. Exists /\ box' \in Boxed /\ box'[Code].info = box[Code].info
  BY <1>1, <1>2, SendEffect
<1>4. \/ k = "say1" /\ l = "hear1"
      \/ k = "reply" /\ l = "hear2"
      \/ k = "say2" /\ l = "wait"
      \/ k = "snapshot" /\ l = "verify"
      \/ k = "auth" /\ l = "candidates"
      \/ k = "candidates" /\ l = "signal"
      \/ k = "announce" /\ l = "await"
  OBVIOUS
<1>5. Moves(p, l)
  BY <1>1, <1>2, <1>3, <1>4 DEF Moves, Announced, Label, Pairing, Ice, Sync
<1>6. PICK d : d = deferred[p]
  OBVIOUS
<1>7. Keeps(p, l, d)
  BY <1>1, <1>2, <1>4, <1>6 DEF Keeps, MailOK, Pairing
<1>8. pc'[p] = l /\ pc'[Other(p)] = pc[Other(p)] /\ pc' \in [Peer -> Label]
  BY <1>1, <1>5, Moved
<1>9. AttemptOK(p)'
  BY <1>1, <1>2, <1>4, <1>8 DEF AttemptOK, Pairing, Ice, Sync
<1>10. PublishedOK(p)'
  BY <1>1, <1>2, <1>3, <1>4, <1>8 DEF PublishedOK, Pairing, Ice, Sync, At, Exists
<1>11. TypeOK' /\ ~confused'
  BY <1>1, <1>2, <1>3, <1>8 DEF TypeOK, Label, Boxed
<1>12. p = "send" \/ p = "recv"
  BY DEF Peer
<1>13. (p = "send" => l \notin {"reply", "hear2"}) /\ (p = "recv" => l \notin {"say1", "say2"})
  BY <1>1, <1>2, <1>4, <1>12 DEF PartsOK
<1>14. PartsOK' /\ ClaimOK'
  <2>1. Exists' => Exists
    BY <1>3
  <2>2. l = "claim" => pc[p] = "claim"
    BY <1>4
  <2>3. pc[p] = "claim" => l \in {"claim", "end"}
    BY <1>2, <1>4
  <2>4. pc[p] = "end" => l = "end"
    BY <1>2, <1>4
  <2>5. QED
    BY <1>5, <1>13, <2>1, <2>2, <2>3, <2>4, PartsStep
<1>15. Heard(p, l) = Heard(p, pc[p])
  <2>1. CASE k = "say1" \/ k = "reply" \/ k = "say2" \/ k = "snapshot"
    BY <1>2, <1>4, <2>1, Turns
  <2>2. CASE k \in {"auth", "candidates", "announce"}
    <3>1. k \in Label \ Pairing /\ l \in Label \ Pairing
      BY <1>4, <2>2 DEF Label, Pairing, Ice, Sync
    <3>2. QED
      BY <1>2, <3>1, Turns
  <2>3. QED
    BY <1>4, <2>1, <2>2
<1>16. l \notin {"claim", "end"} /\ pc[p] # "end"
  BY <1>2, <1>4
<1>17. QED
  BY <1>2, <1>5, <1>7, <1>9, <1>10, <1>11, <1>14, <1>15, <1>16, SayStep

LEMMA SayPakeStep ==
  ASSUME PairingInv, NEW p \in Peer, SayPake(p) PROVE PairingInv'
<1>1. PartsOK /\ (p = "send" \/ p = "recv") /\ Other(p) \in Peer
  BY Inv, Peers DEF Peer
<1>2. PICK m : m \in {Plain("pake1"), Plain("pake2")} /\
        \/ Say(p, "say1", m, "hear1") /\ m.type = "pake1"
        \/ Say(p, "reply", m, "hear2") /\ m.type = "pake1"
        \/ Say(p, "say2", m, "wait") /\ m.type = "pake2"
  BY DEF SayPake, Plain
<1>3. m \in Message /\ m.type \in {"pake1", "pake2"}
  BY <1>2 DEF Plain, Message
<1>4. DigestOK(Other(p), m)'
  BY <1>3 DEF DigestOK
<1>5. CASE Say(p, "say1", m, "hear1") /\ m.type = "pake1"
  <2>1. p = "send" /\ Other(p) = "recv"
    BY <1>1, <1>5 DEF PartsOK, Say, At, Other
  <2>2. Said(p, "say1") = 0 /\ Said(p, "hear1") = 1
    BY <2>1, Turns
  <2>3. Len(Script(Other(p))) = 3 /\ Script(Other(p))[1] = "pake1"
    BY <1>1, <2>1, Scripts
  <2>4. IF Said(p, "say1") < Len(Script(Other(p)))
        THEN Said(p, "hear1") = Said(p, "say1") + 1 /\ m.type = Script(Other(p))[Said(p, "hear1")]
        ELSE Said(p, "hear1") = Said(p, "say1")
    BY <1>5, <2>2, <2>3
  <2>5. QED
    BY <1>3, <1>4, <1>5, <2>4, SayFrame
<1>6. CASE Say(p, "reply", m, "hear2") /\ m.type = "pake1"
  <2>1. p = "recv" /\ Other(p) = "send"
    BY <1>1, <1>6 DEF PartsOK, Say, At, Other
  <2>2. Said(p, "reply") = 0 /\ Said(p, "hear2") = 1
    BY <2>1, Turns
  <2>3. Len(Script(Other(p))) = 2 /\ Script(Other(p))[1] = "pake1"
    BY <1>1, <2>1, Scripts
  <2>4. QED
    BY <1>3, <1>4, <1>6, <2>2, <2>3, SayFrame
<1>7. CASE Say(p, "say2", m, "wait") /\ m.type = "pake2"
  <2>1. p = "send" /\ Other(p) = "recv"
    BY <1>1, <1>7 DEF PartsOK, Say, At, Other
  <2>2. Len(Script(Other(p))) = 3 /\ Script(Other(p))[2] = "pake2"
    BY <1>1, <2>1, Scripts
  <2>3. Said(p, "say2") = 1 /\ Said(p, "wait") = 2
    <3>1. Said(p, "say2") = 1 /\ Said(p, "wait") = Len(Script(Other(p))) - 1
      BY Turns
    <3>2. QED
      BY <2>2, <3>1
  <2>4. QED
    BY <1>3, <1>4, <1>7, <2>2, <2>3, SayFrame
<1>8. QED
  BY <1>2, <1>5, <1>6, <1>7

LEMMA SaySnapshotStep ==
  ASSUME PairingInv, NEW p \in Peer, SaySnapshot(p) PROVE PairingInv'
<1>1. PublishedOK(p) /\ Other(p) \in Peer
  BY Inv, Peers
<1>2. PICK m : /\ m = Signed("self-snapshot-auth", published[p])
               /\ Say(p, "snapshot", m, "verify")
  BY DEF SaySnapshot
<1>3. published[p] = "initial"
  BY <1>1, <1>2 DEF PublishedOK, Say, At, Pairing
<1>4. m \in Message /\ m.type = "self-snapshot-auth" /\ m.digest = "initial"
  BY <1>2, <1>3 DEF Signed, Message, Candidates
<1>5. DigestOK(Other(p), m)'
  BY <1>4 DEF DigestOK
<1>6. PICK n : n = Len(Script(Other(p)))
  OBVIOUS
<1>7. n \in {2, 3} /\ Script(Other(p))[n] = "self-snapshot-auth"
  BY <1>1, <1>6, Scripts
<1>8. Said(p, "snapshot") = n - 1 /\ Said(p, "verify") = n
  <2>1. "verify" \in Label \ (Pairing \ {"verify"})
    BY DEF Label, Pairing
  <2>2. QED
    BY <1>6, <2>1, Turns
<1>9. IF Said(p, "snapshot") < n
      THEN Said(p, "verify") = Said(p, "snapshot") + 1 /\ m.type = Script(Other(p))[Said(p, "verify")]
      ELSE Said(p, "verify") = Said(p, "snapshot")
  BY <1>4, <1>7, <1>8
<1>10. QED
  BY <1>2, <1>4, <1>5, <1>6, <1>9, SayFrame

\* Once its script is said, a peer says what it likes.
LEMMA SaidAll ==
  ASSUME NEW p \in Peer, NEW k \in Label \ Pairing, NEW l \in Label \ Pairing
  PROVE  ~(Said(p, k) < Len(Script(Other(p)))) /\ Said(p, l) = Said(p, k) /\ Heard(p, l) = Heard(p, k)
<1>1. Said(p, k) = Len(Script(Other(p))) /\ Said(p, l) = Len(Script(Other(p)))
  BY Turns
<1>2. Heard(p, k) = Len(Script(p)) /\ Heard(p, l) = Len(Script(p))
  BY Turns
<1>3. Len(Script(Other(p))) \in {2, 3}
  BY Scripts, Peers
<1>4. QED
  BY <1>1, <1>2, <1>3

LEMMA SayIceStep ==
  ASSUME PairingInv, NEW p \in Peer, SayIce(p) PROVE PairingInv'
<1>1. PICK m, k, l :
        /\ m \in {Plain("ice-auth"), Plain("ice-candidates")}
        /\ Say(p, k, m, l)
        /\ (k = "auth" /\ l = "candidates") \/ (k = "candidates" /\ l = "signal")
  BY DEF SayIce
<1>2. m \in Message /\ m.type \in {"ice-auth", "ice-candidates"}
  BY <1>1 DEF Plain, Message, IceTypes
<1>3. DigestOK(Other(p), m)'
  BY <1>2 DEF DigestOK
<1>4. k \in Label \ Pairing /\ l \in Label \ Pairing
  BY <1>1 DEF Label, Pairing, Ice
<1>5. ~(Said(p, k) < Len(Script(Other(p)))) /\ Said(p, l) = Said(p, k)
  BY <1>4, SaidAll
<1>6. <<k, l>> \in {<<"say1", "hear1">>, <<"reply", "hear2">>, <<"say2", "wait">>,
                    <<"snapshot", "verify">>, <<"auth", "candidates">>,
                    <<"candidates", "signal">>, <<"announce", "await">>}
  BY <1>1
<1>7. QED
  BY <1>1, <1>2, <1>3, <1>5, <1>6, SayFrame

LEMMA AnnounceStep ==
  ASSUME PairingInv, NEW p \in Peer, Announce(p) PROVE PairingInv'
<1>1. /\ PublishedOK(p) /\ TypeOK /\ Other(p) \in Peer /\ Other(Other(p)) = p
      /\ pc \in [Peer -> Label]
  BY Inv, Peers
<1>2. PICK m : /\ m = Signed("legacy-candidates-ready", Offer(p))
               /\ Say(p, "announce", m, "await")
  BY DEF Announce, AfterSync
<1>3. published[p] = Offer(p) /\ published' = published /\ pc'[p] = "await"
  BY <1>1, <1>2 DEF PublishedOK, Say, At, Goto
<1>4. m \in Message /\ m.type = "legacy-candidates-ready" /\ m.digest = published[p]
  BY <1>2, <1>3 DEF Signed, Message, Candidates, Offer
<1>5. DigestOK(Other(p), m)'
  BY <1>1, <1>3, <1>4 DEF DigestOK, Announced
<1>6. "announce" \in Label \ Pairing /\ "await" \in Label \ Pairing
  BY DEF Label, Pairing, Sync
<1>7. ~(Said(p, "announce") < Len(Script(Other(p)))) /\ Said(p, "await") = Said(p, "announce")
  BY <1>6, SaidAll
<1>8. QED
  BY <1>2, <1>4, <1>5, <1>7, SayFrame

LEMMA HearPakeStep ==
  ASSUME PairingInv, NEW p \in Peer, HearPake(p) PROVE PairingInv'
<1>1. /\ TypeOK /\ PartsOK /\ ClaimOK /\ confused = FALSE
      /\ AttemptOK(p) /\ PublishedOK(p) /\ MailOK(p) /\ pc \in [Peer -> Label]
      /\ \A i \in DOMAIN deferred[p] : DigestOK(p, deferred[p][i])
  BY Inv
<1>2. PICK k, type, next :
        /\ Hear(p, k, type, next)
        /\ \/ k = "hear1" /\ type = "pake1" /\ next = IF p = "send" THEN "say2" ELSE "reply"
           \/ k = "hear2" /\ type = "pake2" /\ next = "wait"
  BY DEF HearPake
<1>3. /\ pc[p] = k /\ MB!Receive(Code, p, p) /\ Exists /\ Queue(p) # <<>>
      /\ UNCHANGED <<published, known, ready, refreshed, have, deferred, orphan>>
      /\ UNCHANGED <<worker, mapping, disturbed>>
  BY <1>2 DEF Hear, At, exchange, upnp
<1>4. box' \in Boxed /\ box'[Code].info = box[Code].info
  BY <1>1, <1>3, ReceiveEffect
<1>5. /\ p = "send" => k = "hear1" /\ next = "say2"
      /\ p = "recv" => (k = "hear1" /\ next = "reply") \/ (k = "hear2" /\ next = "wait")
      /\ p = "send" \/ p = "recv"
  BY <1>1, <1>2, <1>3 DEF PartsOK, Peer
<1>6. k \in Pairing
  BY <1>2 DEF Pairing
<1>7. Head(Queue(p)).msg.type = Script(p)[Heard(p, k) + 1]
  BY <1>3, <1>6, HeadExpected
<1>8. Head(Queue(p)).msg.type = type
  <2>1. CASE k = "hear1"
    <3>1. Heard(p, k) = 0 /\ Script(p)[1] = "pake1"
      BY <2>1, Turns, Scripts
    <3>2. QED
      BY <1>2, <1>7, <2>1, <3>1
  <2>2. CASE k = "hear2"
    <3>1. p = "recv"
      BY <1>5, <2>2
    <3>2. Heard(p, k) = 1 /\ Script(p)[2] = "pake2"
      BY <2>2, <3>1, Turns, Scripts
    <3>3. QED
      BY <1>2, <1>7, <2>2, <3>2
  <2>3. QED
    BY <1>2, <2>1, <2>2
<1>9. pc' = [pc EXCEPT ![p] = next] /\ confused' = FALSE
  <2>1. PICK h : h = (Head(Queue(p)).msg.type = type)
    OBVIOUS
  <2>2. h = TRUE
    BY <1>8, <2>1
  <2>3. pc' = [pc EXCEPT ![p] = IF h THEN next ELSE "end"] /\ confused' = (confused \/ ~h)
    BY <1>2, <2>1 DEF Hear, Goto
  <2>4. QED
    BY <1>1, <2>2, <2>3
<1>10. Moves(p, next)
  BY <1>1, <1>3, <1>4, <1>5, <1>9 DEF Moves, Announced, Label, Pairing
<1>11. PICK d : d = deferred[p]
  OBVIOUS
<1>12. Keeps(p, next, d)
  BY <1>1, <1>3, <1>5, <1>6, <1>11 DEF Keeps, MailOK, Pairing
<1>13. pc'[p] = next /\ pc'[Other(p)] = pc[Other(p)] /\ pc' \in [Peer -> Label]
  BY <1>1, <1>10, Moved
<1>14. AttemptOK(p)'
  BY <1>1, <1>3, <1>5, <1>13 DEF AttemptOK, Pairing, Ice, Sync
<1>15. PublishedOK(p)'
  BY <1>1, <1>3, <1>4, <1>5, <1>13 DEF PublishedOK, Pairing, Ice, Sync, At, Exists
<1>16. TypeOK' /\ ~confused'
  BY <1>1, <1>3, <1>4, <1>9, <1>13 DEF TypeOK, Label, Boxed
<1>17. PartsOK'
  BY <1>1, <1>5, <1>13 DEF PartsOK, Other
<1>18. /\ Heard(p, k) < Len(Script(p)) /\ Heard(p, next) = Heard(p, k) + 1
       /\ Said(p, next) = Said(p, k)
  <2>1. CASE p = "send"
    <3>1. k = "hear1" /\ next = "say2" /\ Len(Script(p)) = 2
      BY <1>5, <2>1, Scripts
    <3>2. Heard(p, "hear1") = 0 /\ Heard(p, "say2") = Len(Script(p)) - 1
      BY Turns
    <3>3. Said(p, "hear1") = 1 /\ Said(p, "say2") = 1
      BY <2>1, Turns
    <3>4. QED
      BY <3>1, <3>2, <3>3
  <2>2. CASE p = "recv"
    <3>1. Len(Script(p)) = 3 /\ Len(Script(Other(p))) = 2
      BY <2>2, Scripts, Peers DEF Other
    <3>2. /\ Heard(p, "hear1") = 0 /\ Heard(p, "reply") = 1
          /\ Heard(p, "hear2") = 1 /\ Heard(p, "wait") = Len(Script(p)) - 1
      BY Turns
    <3>3. /\ Said(p, "hear1") = 0 /\ Said(p, "reply") = 0
          /\ Said(p, "hear2") = 1 /\ Said(p, "wait") = Len(Script(Other(p))) - 1
      BY <2>2, Turns
    <3>4. CASE k = "hear1" /\ next = "reply"
      BY <3>1, <3>2, <3>3, <3>4
    <3>5. CASE k = "hear2" /\ next = "wait"
      BY <3>1, <3>2, <3>3, <3>5
    <3>6. QED
      BY <1>5, <2>2, <3>4, <3>5
  <2>3. QED
    BY <1>5, <2>1, <2>2
<1>19. next # "claim" /\ pc[p] # "end" /\ pc[p] = k
  BY <1>2, <1>3, <1>5
<1>20. QED
  BY <1>3, <1>10, <1>12, <1>14, <1>15, <1>16, <1>17, <1>18, <1>19, TakeStep

\* The cases in which p, at phase k, goes to phase l without the mailbox.
Leads(p, k, l) ==
  \/ l = "end" /\ k \in Pairing \cup {"ice", "legacy", "end"}
  \/ k = "wait" /\ l = "snapshot" /\ known'[p] = "initial"
  \/ k \in Ice /\ l \in {"stop", "join"}
  \/ k = "stop" /\ l = "ice"
  \/ k = "join" /\ l = "store"
  \/ k \in Sync /\ l = "legacy"
  \/ k = l /\ known'[p] = known[p] /\ (l # "announce" \/ mapping'[p] = mapping[p])

LEMMA IdleStep ==
  ASSUME PairingInv, NEW p \in Peer, NEW l, Leads(p, pc[p], l), pc' = [pc EXCEPT ![p] = l],
         UNCHANGED <<box, published, ready, deferred, confused>>,
         known'[Other(p)] = known[Other(p)],
         worker'[Other(p)] = worker[Other(p)], mapping'[Other(p)] = mapping[Other(p)],
         Other(p) \in orphan' => Other(p) \in orphan,
         AttemptOK(p)', TypeOK'
  PROVE  PairingInv'
<1>1. /\ TypeOK /\ PartsOK /\ ClaimOK /\ confused = FALSE
      /\ AttemptOK(p) /\ PublishedOK(p) /\ MailOK(p) /\ pc \in [Peer -> Label]
      /\ \A i \in DOMAIN deferred[p] : DigestOK(p, deferred[p][i])
  BY Inv
<1>2. PICK k : k = pc[p]
  OBVIOUS
<1>3. k \in Label /\ l \in Label
  BY <1>1, <1>2 DEF Leads, Label, Sync, Pairing
<1>4. Leads(p, k, l)
  BY <1>2
<1>5. /\ l \in Pairing \ {"verify"} => k \in Pairing \ {"verify"}
      /\ l \in Pairing => k \in Pairing
      /\ k \in {"await", "refresh", "legacy", "end"} => l \in {"await", "refresh", "legacy", "end"}
  BY <1>4 DEF Leads, Pairing, Ice, Sync
<1>6. Moves(p, l)
  <2>1. \A d : Announced(p, d) => Announced(p, d)'
    BY <1>1, <1>2, <1>5 DEF Announced
  <2>2. QED
    BY <1>2, <1>3, <1>5, <2>1 DEF Moves, Exists
<1>7. PICK d : d = deferred[p]
  OBVIOUS
<1>8. Keeps(p, l, d)
  <2>1. l \in {"snapshot", "verify"} => known'[p] = "initial"
    BY <1>1, <1>2, <1>4 DEF Leads, MailOK, Ice, Sync
  <2>2. l = "refresh" => k = "refresh"
    BY <1>4 DEF Leads
  <2>3. l = "refresh" => \E e : e = ready'[p] /\ Announced(Other(p), e)
    BY <1>1, <1>2, <2>2 DEF MailOK, At
  <2>4. l \in Pairing => d = <<>>
    BY <1>1, <1>2, <1>5, <1>7 DEF MailOK
  <2>5. QED
    BY <1>1, <1>7, <2>1, <2>3, <2>4 DEF Keeps
<1>9. pc'[p] = l /\ pc'[Other(p)] = pc[Other(p)] /\ pc' \in [Peer -> Label]
  BY <1>1, <1>6, Moved
<1>10. PublishedOK(p)'
  <2>1. PICK Early : Early = (Pairing \ {"claim", "publish"}) \cup Ice \cup {"stop", "ice", "join", "store"}
    OBVIOUS
  <2>2. l \in Early => k \in Early
    BY <1>4, <2>1 DEF Leads, Pairing, Ice, Sync
  <2>3. l \in Early => published'[p] = "initial"
    BY <1>1, <1>2, <2>1, <2>2 DEF PublishedOK
  <2>4. l = "announce" => k = "announce" /\ mapping'[p] = mapping[p]
    BY <1>4 DEF Leads
  <2>5. At(p, "announce")' => published'[p] = Offer(p)'
    BY <1>1, <1>2, <1>9, <2>4 DEF PublishedOK, At, Offer
  <2>6. published'[p] = "mapped" => pc'[Other(p)] \notin Pairing \ {"verify"}
    BY <1>1, <1>9 DEF PublishedOK
  <2>7. Exists' /\ p \in box'[Code].info => published'[p] # "none"
    BY <1>1 DEF PublishedOK, Exists
  <2>8. QED
    BY <1>9, <2>1, <2>3, <2>5, <2>6, <2>7 DEF PublishedOK
<1>11. ~confused'
  BY <1>1
<1>12. PartsOK' /\ ClaimOK'
  <2>1. /\ l \in {"reply", "hear2", "say1", "say2"} => l = k
        /\ l = "claim" => k = "claim"
        /\ k = "claim" => l \in {"claim", "end"}
        /\ k = "end" => l = "end"
    BY <1>4 DEF Leads, Ice, Sync
  <2>2. /\ p = "send" => l \notin {"reply", "hear2"}
        /\ p = "recv" => l \notin {"say1", "say2"}
    BY <1>1, <1>2, <2>1 DEF PartsOK
  <2>3. Exists' => Exists
    BY DEF Exists
  <2>4. QED
    BY <1>2, <1>6, <2>1, <2>2, <2>3, PartsStep
<1>13. l = "end" \/ (Heard(p, l) = Heard(p, pc[p]) /\ Said(p, l) = Said(p, pc[p]))
  <2>1. CASE k = "wait" /\ l = "snapshot"
    BY <1>2, <2>1, Turns
  <2>2. CASE k \in Label \ Pairing /\ l \in Label \ Pairing
    BY <1>2, <2>2, SaidAll
  <2>3. l = k \/ l = "end" \/ (k = "wait" /\ l = "snapshot") \/ (k \notin Pairing /\ l \notin Pairing)
    BY <1>4 DEF Leads, Pairing, Ice, Sync
  <2>4. QED
    BY <1>2, <1>3, <2>1, <2>2, <2>3
<1>14. pc[p] = "end" => l = "end"
  BY <1>2, <1>4 DEF Leads, Ice, Sync
<1>15. Exists' => Exists /\ \A r \in Peer : box'[Code].pending[r] = Queue(r)
  BY DEF Exists, Queue
<1>16. QED
  BY <1>6, <1>8, <1>10, <1>11, <1>12, <1>13, <1>14, <1>15, QuietStep

-----------------------------------------------------------------------------
\* Deadlines, the attempt, and the ends of a run

LEMMA PairingFailsStep ==
  ASSUME PairingInv, NEW p \in Peer, PairingFails(p) PROVE PairingInv'
<1>1. TypeOK /\ AttemptOK(p) /\ pc \in [Peer -> Label]
  BY Inv
<1>2. /\ pc[p] \in Pairing /\ pc' = [pc EXCEPT ![p] = "end"] /\ disturbed' = TRUE
      /\ UNCHANGED <<box, published, known, ready, refreshed, have, deferred, orphan>>
      /\ UNCHANGED <<worker, mapping, confused>>
  BY DEF PairingFails, Goto, exchange, upnp
<1>3. pc'[p] = "end" /\ pc' \in [Peer -> Label]
  BY <1>1, <1>2 DEF Label
<1>4. AttemptOK(p)'
  BY <1>1, <1>2, <1>3 DEF AttemptOK, Pairing, Sync
<1>5. TypeOK'
  BY <1>1, <1>2, <1>3 DEF TypeOK, Label
<1>6. Leads(p, pc[p], "end")
  BY <1>2 DEF Leads
<1>7. QED
  BY <1>2, <1>4, <1>5, <1>6, IdleStep

LEMMA WaitPeerStep ==
  ASSUME PairingInv, NEW p \in Peer, WaitPeer(p) PROVE PairingInv'
<1>1. /\ TypeOK /\ AttemptOK(p) /\ pc \in [Peer -> Label]
      /\ Other(p) \in Peer /\ Other(p) # p /\ Other(Other(p)) = p /\ PublishedOK(Other(p))
  BY Inv, Peers
<1>2. /\ pc[p] = "wait" /\ pc' = [pc EXCEPT ![p] = "snapshot"]
      /\ Exists /\ Other(p) \in box[Code].info
      /\ known' = [known EXCEPT ![p] = published[Other(p)]]
      /\ UNCHANGED <<box, published, ready, refreshed, have, deferred, orphan>>
      /\ UNCHANGED <<worker, mapping, confused, disturbed>>
  BY DEF WaitPeer, PeerStored, At, Goto, upnp, history
<1>3. published[Other(p)] = "initial"
  BY <1>1, <1>2 DEF PublishedOK, TypeOK, Candidates, Pairing
<1>4. /\ known'[p] = "initial" /\ known'[Other(p)] = known[Other(p)]
      /\ known' \in [Peer -> Candidates]
  BY <1>1, <1>2, <1>3 DEF TypeOK, Candidates
<1>5. pc'[p] = "snapshot" /\ pc' \in [Peer -> Label]
  BY <1>1, <1>2 DEF Label, Pairing
<1>6. AttemptOK(p)'
  BY <1>1, <1>2, <1>5 DEF AttemptOK, Pairing, Sync
<1>7. TypeOK'
  BY <1>1, <1>2, <1>4, <1>5 DEF TypeOK, Label
<1>8. Leads(p, pc[p], "snapshot")
  BY <1>2, <1>4 DEF Leads
<1>9. QED
  BY <1>2, <1>4, <1>6, <1>7, <1>8, IdleStep

LEMMA IceWorksStep ==
  ASSUME PairingInv, NEW p \in Peer, IceWorks(p) PROVE PairingInv'
<1>1. TypeOK /\ AttemptOK(p) /\ pc \in [Peer -> Label]
  BY Inv
<1>2. /\ pc[p] = "checks" /\ pc' = [pc EXCEPT ![p] = "stop"]
      /\ UNCHANGED <<box, published, known, ready, refreshed, have, deferred, orphan>>
      /\ UNCHANGED <<worker, mapping, confused, disturbed>>
  BY DEF IceWorks, At, Goto, exchange, upnp, history
<1>3. pc'[p] = "stop" /\ pc' \in [Peer -> Label]
  BY <1>1, <1>2 DEF Label
<1>4. AttemptOK(p)'
  BY <1>1, <1>2, <1>3 DEF AttemptOK, Pairing, Sync
<1>5. TypeOK'
  BY <1>1, <1>2, <1>3 DEF TypeOK, Label
<1>6. Leads(p, pc[p], "stop")
  BY <1>2 DEF Leads, Ice
<1>7. QED
  BY <1>2, <1>4, <1>5, <1>6, IdleStep

\* The attempt starts once.
LEMMA Started ==
  ASSUME TypeOK, NEW p \in Peer, StartWorker(p), UNCHANGED mapping
  PROVE  /\ worker' \in [Peer -> {"none", "running", "done"}]
         /\ worker'[Other(p)] = worker[Other(p)] /\ worker'[p] \in {"running", "done"}
         /\ worker'[p] # worker[p] => worker[p] = "none"
BY Peers DEF TypeOK, StartWorker

\* ICE ends, with a dequeue in flight or not.
LEMMA LeaveIce ==
  ASSUME PairingInv, NEW p \in Peer, pc[p] \in Ice, pc' = [pc EXCEPT ![p] = "join"],
         StartWorker(p), orphan' \in {orphan, orphan \cup {p}}, disturbed' \in {disturbed, TRUE},
         UNCHANGED <<box, published, known, ready, refreshed, have, deferred, mapping, confused>>
  PROVE  PairingInv'
<1>1. /\ TypeOK /\ AttemptOK(p) /\ pc \in [Peer -> Label]
      /\ Other(p) \in Peer /\ Other(p) # p
  BY Inv, Peers
<1>2. /\ worker' \in [Peer -> {"none", "running", "done"}]
      /\ worker'[Other(p)] = worker[Other(p)] /\ worker'[p] \in {"running", "done"}
      /\ worker'[p] # worker[p] => worker[p] = "none"
  BY <1>1, Started
<1>3. pc'[p] = "join" /\ pc' \in [Peer -> Label]
  BY <1>1 DEF Label
<1>4. AttemptOK(p)'
  BY <1>1, <1>2, <1>3 DEF AttemptOK, Pairing, Sync
<1>5. TypeOK'
  BY <1>1, <1>2, <1>3 DEF TypeOK, Label
<1>6. Leads(p, pc[p], "join")
  BY DEF Leads
<1>7. Other(p) \in orphan' => Other(p) \in orphan
  BY <1>1
<1>8. mapping'[Other(p)] = mapping[Other(p)] /\ known'[Other(p)] = known[Other(p)]
  OBVIOUS
<1>9. QED
  BY <1>2, <1>4, <1>5, <1>6, <1>7, <1>8, IdleStep

LEMMA IceEndsStep ==
  ASSUME PairingInv, NEW p \in Peer, IceFails(p) \/ IceAbandons(p) PROVE PairingInv'
<1>1. CASE IceFails(p)
  BY <1>1, LeaveIce DEF IceFails, Goto, exchange, history
<1>2. CASE IceAbandons(p)
  BY <1>2, LeaveIce DEF IceAbandons, At, Ice, Goto, exchange
<1>3. QED
  BY <1>1, <1>2

LEMMA OrphanEndsStep ==
  ASSUME PairingInv, NEW p \in Peer, OrphanEnds(p) PROVE PairingInv'
<1>1. /\ TypeOK /\ AttemptOK(p) /\ pc \in [Peer -> Label]
  BY Inv
<1>2. /\ orphan' = orphan \ {p} /\ pc' = pc
      /\ UNCHANGED <<box, published, known, ready, refreshed, have, deferred>>
      /\ UNCHANGED <<worker, mapping, confused, disturbed>>
  BY DEF OrphanEnds, exchange, upnp, history
<1>3. AttemptOK(p)'
  BY <1>1, <1>2 DEF AttemptOK
<1>4. TypeOK'
  BY <1>1, <1>2 DEF TypeOK
<1>5. Leads(p, pc[p], pc[p])
  BY <1>2 DEF Leads
<1>6. pc' = [pc EXCEPT ![p] = pc[p]]
  BY <1>1, <1>2
<1>7. QED
  BY <1>2, <1>3, <1>4, <1>5, <1>6, IdleStep

LEMMA AttemptStep ==
  ASSUME PairingInv, NEW p \in Peer, Attempt(p) PROVE PairingInv'
<1>1. /\ TypeOK /\ AttemptOK(p) /\ pc \in [Peer -> Label]
      /\ Other(p) \in Peer /\ Other(p) # p
  BY Inv, Peers
<1>2. /\ worker[p] = "running" /\ worker' = [worker EXCEPT ![p] = "done"] /\ pc' = pc
      /\ mapping' = mapping \/ mapping' = [mapping EXCEPT ![p] = "held"]
      /\ UNCHANGED <<box, published, known, ready, refreshed, have, deferred, orphan>>
      /\ UNCHANGED <<confused, disturbed>>
  BY DEF Attempt, exchange, history
<1>3. /\ worker'[p] = "done" /\ worker'[Other(p)] = worker[Other(p)]
      /\ mapping'[Other(p)] = mapping[Other(p)]
      /\ worker' \in [Peer -> {"none", "running", "done"}]
      /\ mapping' \in [Peer -> {"none", "held", "left"}]
  BY <1>1, <1>2 DEF TypeOK
<1>4. pc[p] \notin Pairing \cup Sync \cup {"ice", "legacy", "end"}
  BY <1>1, <1>2 DEF AttemptOK
<1>5. AttemptOK(p)'
  BY <1>1, <1>2, <1>3, <1>4 DEF AttemptOK
<1>6. TypeOK'
  BY <1>1, <1>2, <1>3 DEF TypeOK
<1>7. Leads(p, pc[p], pc[p])
  BY <1>2, <1>4 DEF Leads, Sync
<1>8. pc' = [pc EXCEPT ![p] = pc[p]]
  BY <1>1, <1>2
<1>9. QED
  BY <1>2, <1>3, <1>5, <1>6, <1>7, <1>8, IdleStep

\* After cleanupUPnPMapping nothing is held.
LEMMA Unmapped ==
  ASSUME TypeOK, NEW p \in Peer, Unmap(p)
  PROVE  /\ mapping' \in [Peer -> {"none", "held", "left"}]
         /\ mapping'[Other(p)] = mapping[Other(p)] /\ mapping'[p] # "held"
         /\ mapping[p] = "none" => mapping'[p] = "none"
<1>1. PICK m \in {"none", "left"} :
        mapping' = [mapping EXCEPT ![p] = IF mapping[p] = "held" THEN m ELSE mapping[p]]
  BY DEF Unmap
<1>2. QED
  BY <1>1, Peers DEF TypeOK

\* A peer cleans its mapping up and goes on.
LEMMA CleanUp ==
  ASSUME PairingInv, NEW p \in Peer, NEW l, pc' = [pc EXCEPT ![p] = l], Unmap(p),
         (pc[p] = "stop" /\ worker[p] = "done" /\ l = "ice") \/ (pc[p] = "legacy" /\ l = "end"),
         UNCHANGED <<box, published, known, ready, refreshed, have, deferred, orphan, worker>>,
         UNCHANGED <<confused, disturbed>>
  PROVE  PairingInv'
<1>1. /\ TypeOK /\ AttemptOK(p) /\ pc \in [Peer -> Label]
      /\ Other(p) \in Peer /\ Other(p) # p
  BY Inv, Peers
<1>2. /\ mapping' \in [Peer -> {"none", "held", "left"}]
      /\ mapping'[Other(p)] = mapping[Other(p)] /\ mapping'[p] # "held"
      /\ mapping[p] = "none" => mapping'[p] = "none"
  BY <1>1, Unmapped
<1>3. pc'[p] = l /\ pc' \in [Peer -> Label]
  BY <1>1 DEF Label
<1>4. AttemptOK(p)'
  BY <1>1, <1>2, <1>3 DEF AttemptOK, Pairing, Sync
<1>5. TypeOK'
  BY <1>1, <1>2, <1>3 DEF TypeOK, Label
<1>6. Leads(p, pc[p], l)
  BY DEF Leads
<1>7. QED
  BY <1>2, <1>4, <1>5, <1>6, IdleStep

LEMMA StopStep ==
  ASSUME PairingInv, NEW p \in Peer, Stop(p) PROVE PairingInv'
BY CleanUp DEF Stop, Joined, At, Goto, exchange, history

LEMMA EndLegacyStep ==
  ASSUME PairingInv, NEW p \in Peer, EndLegacy(p) PROVE PairingInv'
BY CleanUp DEF EndLegacy, At, Goto, exchange, history

\* A peer goes on without a change to anything but a deadline's mark.
LEMMA PassOn ==
  ASSUME PairingInv, NEW p \in Peer, NEW l, pc' = [pc EXCEPT ![p] = l],
         \/ pc[p] = "join" /\ worker[p] = "done" /\ l = "store"
         \/ pc[p] \in Sync /\ l = "legacy"
         \/ pc[p] = "ice" /\ l = "end",
         disturbed' \in {disturbed, TRUE},
         UNCHANGED <<box, published, known, ready, refreshed, have, deferred, orphan>>,
         UNCHANGED <<worker, mapping, confused>>
  PROVE  PairingInv'
<1>1. TypeOK /\ AttemptOK(p) /\ pc \in [Peer -> Label]
  BY Inv
<1>2. l \in {"store", "legacy", "end"}
  OBVIOUS
<1>3. pc'[p] = l /\ pc' \in [Peer -> Label]
  BY <1>1, <1>2 DEF Label, Sync
<1>4. AttemptOK(p)'
  BY <1>1, <1>2, <1>3 DEF AttemptOK, Pairing, Sync
<1>5. TypeOK'
  BY <1>1, <1>2, <1>3 DEF TypeOK, Label
<1>6. Leads(p, pc[p], l)
  BY DEF Leads
<1>7. QED
  BY <1>4, <1>5, <1>6, IdleStep

LEMMA JoinStep ==
  ASSUME PairingInv, NEW p \in Peer, Join(p) PROVE PairingInv'
BY PassOn DEF Join, AfterSync, Joined, At, Goto, exchange, upnp, history

LEMMA SyncFailsStep ==
  ASSUME PairingInv, NEW p \in Peer, SyncFails(p) PROVE PairingInv'
BY PassOn DEF SyncFails, Goto, exchange, upnp

LEMMA EndIceStep ==
  ASSUME PairingInv, NEW p \in Peer, EndIce(p) PROVE PairingInv'
BY PassOn DEF EndIce, At, Goto, exchange, upnp, history

-----------------------------------------------------------------------------
\* receiveType

LEMMA Removed ==
  ASSUME NEW S, NEW s \in Seq(S), NEW i \in DOMAIN s, NEW r, r = RemoveAt(s, i)
  PROVE  /\ r \in Seq(S) /\ Len(r) = Len(s) - 1
         /\ \A j \in DOMAIN r : r[j] = IF j < i THEN s[j] ELSE s[j + 1]
<1>1. i \in 1 .. Len(s) /\ Len(s) \in Nat
  OBVIOUS
<1>2. PICK a, b : a = SubSeq(s, 1, i - 1) /\ b = SubSeq(s, i + 1, Len(s))
  OBVIOUS
<1>3. r = a \o b
  BY <1>2 DEF RemoveAt
<1>4. a \in Seq(S) /\ Len(a) = i - 1 /\ \A j \in 1 .. i - 1 : a[j] = s[j]
  BY <1>1, <1>2
<1>5. b \in Seq(S) /\ Len(b) = Len(s) - i /\ \A j \in 1 .. Len(s) - i : b[j] = s[i + j]
  BY <1>1, <1>2
<1>6. r \in Seq(S) /\ Len(r) = Len(s) - 1
  BY <1>1, <1>3, <1>4, <1>5
<1>7. ASSUME NEW j \in DOMAIN r PROVE r[j] = IF j < i THEN s[j] ELSE s[j + 1]
  <2>1. j \in 1 .. Len(s) - 1
    BY <1>6, <1>7
  <2>2. CASE j < i
    <3>1. j \in 1 .. i - 1
      BY <1>1, <2>1, <2>2
    <3>2. r[j] = a[j]
      BY <1>3, <1>4, <1>5, <3>1
    <3>3. QED
      BY <1>4, <2>2, <3>1, <3>2
  <2>3. CASE ~(j < i)
    <3>1. PICK g, n : g = j - (i - 1) /\ n = Len(s)
      OBVIOUS
    <3>2. g \in 1 .. n - i /\ i + g = j + 1 /\ j = (i - 1) + g
      <4>1. i \in 1 .. n /\ n \in Nat /\ j \in 1 .. n - 1
        BY <1>1, <2>1, <3>1
      <4>2. QED
        BY <2>3, <3>1, <4>1
    <3>3. r[j] = b[g]
      <4>1. g \in 1 .. Len(b) /\ j = Len(a) + g
        BY <1>4, <1>5, <3>1, <3>2
      <4>2. a \in Seq(S) /\ b \in Seq(S) /\ r = a \o b
        BY <1>3, <1>4, <1>5
      <4>3. QED
        BY <4>1, <4>2
    <3>4. QED
      BY <1>5, <2>3, <3>1, <3>2, <3>3
  <2>4. QED
    BY <2>2, <2>3
<1>8. QED
  BY <1>6, <1>7

\* What is left of the deferred messages of p.
Rest(p, d) ==
  /\ d = deferred'[p] /\ deferred' \in [Peer -> Seq(Message)]
  /\ Len(d) <= Len(deferred[p]) /\ deferred'[Other(p)] = deferred[Other(p)]
  /\ \A i \in DOMAIN d : DigestOK(p, d[i])

\* A message comes from the deferred ones, which a peer does not have before
\* ICE, or from the queue.
LEMMA Accepted ==
  ASSUME PairingInv, NEW p \in Peer, NEW m \in Message, Accept(p, m)
  PROVE  /\ DigestOK(p, m) /\ m.type \in Accepts(p)
         /\ \E d : Rest(p, d) /\ (deferred[p] = <<>> => d = <<>>)
         /\ \/ UNCHANGED box /\ pc[p] \notin Pairing
            \/ MB!Receive(Code, p, p)
<1>1. /\ TypeOK /\ MailOK(p) /\ deferred \in [Peer -> Seq(Message)]
      /\ Other(p) \in Peer /\ Other(p) # p
      /\ \A i \in DOMAIN deferred[p] : DigestOK(p, deferred[p][i])
  BY Inv, Peers DEF TypeOK
<1>2. CASE UNCHANGED box /\ \E i \in Kept(p) :
             m = deferred[p][i] /\ deferred' = [deferred EXCEPT ![p] = RemoveAt(@, i)]
  <2>1. PICK i \in Kept(p) :
          m = deferred[p][i] /\ deferred' = [deferred EXCEPT ![p] = RemoveAt(deferred[p], i)]
    BY <1>2
  <2>2. PICK s, d : s = deferred[p] /\ d = RemoveAt(s, i)
    OBVIOUS
  <2>3. i \in DOMAIN s /\ s[i].type \in Accepts(p) /\ s \in Seq(Message) /\ m = s[i]
    BY <1>1, <2>1, <2>2 DEF Kept
  <2>4. /\ d \in Seq(Message) /\ Len(d) = Len(s) - 1
        /\ \A j \in DOMAIN d : d[j] = IF j < i THEN s[j] ELSE s[j + 1]
    BY <2>2, <2>3, Removed
  <2>5. \A j \in DOMAIN s : DigestOK(p, s[j])
    BY <1>1, <2>2
  <2>6. ASSUME NEW j \in DOMAIN d PROVE DigestOK(p, d[j])
    <3>1. j \in DOMAIN s /\ j + 1 \in DOMAIN s
      BY <2>3, <2>4, <2>6
    <3>2. d[j] = s[j] \/ d[j] = s[j + 1]
      BY <2>4, <2>6
    <3>3. QED
      BY <2>5, <3>1, <3>2
  <2>7. deferred'[p] = d /\ deferred' \in [Peer -> Seq(Message)]
        /\ deferred'[Other(p)] = deferred[Other(p)]
    BY <1>1, <2>1, <2>2, <2>4
  <2>8. Len(d) <= Len(deferred[p]) /\ deferred[p] # <<>>
    BY <2>2, <2>3, <2>4
  <2>9. Rest(p, d)
    BY <2>6, <2>7, <2>8 DEF Rest
  <2>10. DigestOK(p, m) /\ m.type \in Accepts(p)
    BY <2>3, <2>5
  <2>11. pc[p] \notin Pairing
    BY <1>1, <2>8 DEF MailOK
  <2>12. QED
    BY <1>2, <2>8, <2>9, <2>10, <2>11
<1>3. CASE /\ Exists /\ Queue(p) # <<>>
           /\ m = Head(Queue(p)).msg /\ m.type \in Accepts(p)
           /\ MB!Receive(Code, p, p) /\ UNCHANGED deferred
  <2>1. PICK f, d : f = Queue(p) /\ d = deferred[p]
    OBVIOUS
  <2>2. f \in Seq(MB!Envelope) /\ f # <<>>
    BY <1>1, <1>3, <2>1, BoxTypes DEF Queue
  <2>3. 1 \in DOMAIN f /\ Head(f) = f[1]
    BY <2>2
  <2>4. \A i \in DOMAIN f : DigestOK(p, f[i].msg)
    BY <1>1, <1>3, <2>1 DEF MailOK
  <2>5. DigestOK(p, m)
    BY <1>3, <2>1, <2>3, <2>4
  <2>6. d \in Seq(Message) /\ Len(d) <= Len(deferred[p])
    BY <1>1, <2>1
  <2>7. Rest(p, d)
    BY <1>1, <1>3, <2>1, <2>6 DEF Rest
  <2>8. QED
    BY <1>3, <2>1, <2>5, <2>7
<1>4. QED
  BY <1>2, <1>3 DEF Accept

\* What follows when p has accepted m.
LEMMA AcceptStep ==
  ASSUME PairingInv, NEW p \in Peer, NEW l, NEW m \in Message, Accept(p, m),
         pc' = [pc EXCEPT ![p] = l],
         UNCHANGED <<published, known, refreshed, orphan, mapping, disturbed>>, confused' = FALSE,
         \/ pc[p] = "verify" /\ l = "auth" /\ UNCHANGED <<worker, ready>>
         \/ pc[p] = "signal" /\ l = "signal" /\ UNCHANGED <<worker, ready>>
         \/ pc[p] = "signal" /\ l = "checks" /\ StartWorker(p) /\ UNCHANGED ready
         \/ /\ pc[p] = "await" /\ l = "refresh" /\ UNCHANGED worker
            /\ ready' = [ready EXCEPT ![p] = m.digest],
         have' \in [Peer -> SUBSET IceTypes]
  PROVE  PairingInv'
<1>1. /\ TypeOK /\ PartsOK /\ ClaimOK /\ confused = FALSE
      /\ AttemptOK(p) /\ PublishedOK(p) /\ MailOK(p) /\ pc \in [Peer -> Label]
      /\ Other(p) \in Peer /\ Other(p) # p
  BY Inv, Peers
<1>2. /\ DigestOK(p, m) /\ m.type \in Accepts(p)
      /\ \E d : Rest(p, d) /\ (deferred[p] = <<>> => d = <<>>)
      /\ (UNCHANGED box /\ pc[p] \notin Pairing) \/ MB!Receive(Code, p, p)
  BY Accepted
<1>3. PICK d : Rest(p, d) /\ (deferred[p] = <<>> => d = <<>>)
  BY <1>2
<1>4. PICK k : k = pc[p]
  OBVIOUS
<1>5. \/ k = "verify" /\ l = "auth"
      \/ k = "signal" /\ l \in {"signal", "checks"}
      \/ k = "await" /\ l = "refresh"
  BY <1>4
<1>6. box' \in Boxed /\ box'[Code].info = box[Code].info /\ (Exists' => Exists)
  BY <1>1, <1>2, ReceiveEffect, BoxTypes DEF Exists
<1>7. /\ worker' \in [Peer -> {"none", "running", "done"}]
      /\ worker'[Other(p)] = worker[Other(p)]
      /\ worker'[p] # worker[p] => worker[p] = "none" /\ worker'[p] = "running" /\ l = "checks"
  <2>1. CASE StartWorker(p) /\ l = "checks"
    BY <1>1, <2>1 DEF TypeOK, StartWorker
  <2>2. CASE UNCHANGED worker
    BY <1>1, <2>2 DEF TypeOK
  <2>3. QED
    BY <2>1, <2>2
<1>8. ready' \in [Peer -> Candidates] /\ ready'[Other(p)] = ready[Other(p)]
      /\ (l = "refresh" => ready'[p] = m.digest)
  <2>1. m.digest \in Candidates
    BY DEF Message, Candidates
  <2>2. QED
    BY <1>1, <2>1 DEF TypeOK
<1>9. Moves(p, l)
  <2>1. \A e : Announced(p, e) => Announced(p, e)'
    BY <1>1, <1>4, <1>5 DEF Announced
  <2>2. deferred'[Other(p)] = deferred[Other(p)]
    BY <1>3 DEF Rest
  <2>3. l \in Label /\ l \notin Pairing
    BY <1>5 DEF Label, Pairing, Ice, Sync
  <2>4. QED
    BY <1>6, <1>7, <1>8, <2>1, <2>2, <2>3 DEF Moves
<1>10. Keeps(p, l, d)
  <2>1. l = "refresh" => \E e : e = ready'[p] /\ Announced(Other(p), e)
    <3>1. ASSUME l = "refresh" PROVE m.type = "legacy-candidates-ready"
      BY <1>2, <1>4, <1>5, <3>1 DEF Accepts, At
    <3>2. QED
      BY <1>2, <1>8, <3>1 DEF DigestOK
  <2>2. l \notin Pairing
    BY <1>5 DEF Pairing
  <2>3. l \notin {"snapshot", "verify"}
    BY <1>5
  <2>4. QED
    BY <1>3, <2>1, <2>2, <2>3 DEF Keeps, Rest
<1>11. pc'[p] = l /\ pc'[Other(p)] = pc[Other(p)] /\ pc' \in [Peer -> Label]
  BY <1>1, <1>9, Moved
<1>12. AttemptOK(p)'
  BY <1>1, <1>4, <1>5, <1>7, <1>11 DEF AttemptOK, Pairing, Sync
<1>13. PublishedOK(p)'
  BY <1>1, <1>4, <1>5, <1>6, <1>11 DEF PublishedOK, Pairing, Ice, Sync, At, Exists
<1>14. TypeOK' /\ ~confused'
  <2>1. deferred' \in [Peer -> Seq(Message)]
    BY <1>3 DEF Rest
  <2>2. \A r \in Peer : Len(deferred'[r]) <= MaxDeferred
    <3>1. \A r \in Peer : r = p \/ r = Other(p)
      BY Peers
    <3>2. Len(deferred'[Other(p)]) <= MaxDeferred
      BY <1>1, <1>3 DEF Rest, TypeOK
    <3>3. Len(deferred'[p]) <= MaxDeferred
      <4>1. Len(d) \in Nat /\ Len(deferred[p]) \in Nat /\ MaxDeferred \in Nat /\ d = deferred'[p]
        BY <1>1, <1>3, <2>1, PairingAssumption DEF Rest, TypeOK
      <4>2. Len(d) <= Len(deferred[p]) /\ Len(deferred[p]) <= MaxDeferred
        BY <1>1, <1>3 DEF Rest, TypeOK
      <4>3. QED
        BY <4>1, <4>2
    <3>4. QED
      BY <3>1, <3>2, <3>3
  <2>3. QED
    BY <1>1, <1>6, <1>7, <1>8, <1>11, <2>1, <2>2 DEF TypeOK, Label, Boxed
<1>15. PartsOK' /\ ClaimOK'
  <2>1. l \notin {"reply", "hear2", "say1", "say2", "claim"} /\ k \notin {"claim", "end"}
    BY <1>5
  <2>2. QED
    BY <1>4, <1>6, <1>9, <2>1, PartsStep
<1>16. CASE UNCHANGED box /\ pc[p] \notin Pairing
  <2>1. k \in Label \ Pairing /\ l \in Label \ Pairing
    BY <1>1, <1>4, <1>5, <1>16 DEF Label, Pairing, Ice, Sync
  <2>2. Heard(p, l) = Heard(p, pc[p]) /\ Said(p, l) = Said(p, pc[p])
    BY <1>4, <2>1, SaidAll
  <2>3. Exists' => Exists /\ \A r \in Peer : box'[Code].pending[r] = Queue(r)
    BY <1>16 DEF Exists, Queue
  <2>4. pc[p] = "end" => l = "end"
    BY <1>4, <1>5
  <2>5. QED
    BY <1>9, <1>10, <1>12, <1>13, <1>14, <1>15, <2>2, <2>3, <2>4, QuietStep
<1>17. CASE MB!Receive(Code, p, p)
  <2>1. PICK n : n = Len(Script(p))
    OBVIOUS
  <2>2. /\ IF Heard(p, k) < n THEN Heard(p, l) = Heard(p, k) + 1 ELSE Heard(p, l) = Heard(p, k)
        /\ Said(p, l) = Said(p, k)
    <3>1. n \in {2, 3}
      BY <2>1, Scripts
    <3>2. CASE k = "verify" /\ l = "auth"
      <4>1. "auth" \in Label \ Pairing
        BY DEF Label, Pairing, Ice
      <4>2. Heard(p, "auth") = n /\ Heard(p, "verify") = n - 1
        BY <2>1, <4>1, Turns
      <4>3. "verify" \in Label \ (Pairing \ {"verify"}) /\ "auth" \in Label \ (Pairing \ {"verify"})
        BY <4>1 DEF Label, Pairing
      <4>4. Said(p, "auth") = Said(p, "verify")
        BY <4>3, Turns
      <4>5. QED
        BY <3>1, <3>2, <4>2, <4>4
    <3>3. CASE ~(k = "verify" /\ l = "auth")
      <4>1. k \in Label \ Pairing /\ l \in Label \ Pairing
        BY <1>5, <3>3 DEF Label, Pairing, Ice, Sync
      <4>2. Heard(p, k) = n /\ Heard(p, l) = n
        BY <2>1, <4>1, Turns
      <4>3. Said(p, l) = Said(p, k)
        BY <4>1, SaidAll
      <4>4. QED
        BY <3>1, <4>2, <4>3
    <3>4. QED
      BY <3>2, <3>3
  <2>3. l # "claim" /\ l # "end" /\ pc[p] # "end"
    BY <1>4, <1>5
  <2>4. QED
    BY <1>4, <1>9, <1>10, <1>12, <1>13, <1>14, <1>15, <1>17, <2>1, <2>2, <2>3, TakeStep
<1>18. QED
  BY <1>2, <1>16, <1>17

LEMMA HearSnapshotStep ==
  ASSUME PairingInv, NEW p \in Peer, HearSnapshot(p) PROVE PairingInv'
<1>1. /\ TypeOK /\ MailOK(p) /\ confused = FALSE
  BY Inv
<1>2. PICK m \in Message :
        /\ Accept(p, m)
        /\ pc' = [pc EXCEPT ![p] = IF m.digest = known[p] THEN "auth" ELSE "end"]
        /\ confused' = (confused \/ m.digest # known[p])
  BY DEF HearSnapshot, Goto
<1>3. /\ pc[p] = "verify"
      /\ UNCHANGED <<published, known, ready, refreshed, have, orphan, worker, mapping, disturbed>>
  BY DEF HearSnapshot, At, exchange, upnp
<1>4. DigestOK(p, m) /\ m.type \in Accepts(p)
  BY <1>2, Accepted
<1>5. m.digest = "initial" /\ known[p] = "initial"
  BY <1>1, <1>3, <1>4 DEF Accepts, At, DigestOK, MailOK
<1>6. PICK h : h = (m.digest = known[p])
  OBVIOUS
<1>7. h = TRUE
  BY <1>5, <1>6
<1>8. pc' = [pc EXCEPT ![p] = IF h THEN "auth" ELSE "end"] /\ confused' = (confused \/ ~h)
  BY <1>2, <1>6
<1>9. pc' = [pc EXCEPT ![p] = "auth"] /\ confused' = FALSE
  BY <1>1, <1>7, <1>8
<1>10. have' \in [Peer -> SUBSET IceTypes]
  BY <1>1, <1>3 DEF TypeOK
<1>11. QED
  BY <1>2, <1>3, <1>9, <1>10, AcceptStep

LEMMA HearIceStep ==
  ASSUME PairingInv, NEW p \in Peer, HearIce(p) PROVE PairingInv'
<1>1. TypeOK /\ confused = FALSE /\ pc \in [Peer -> Label]
  BY Inv
<1>2. PICK m \in Message : Accept(p, m) /\ have' = [have EXCEPT ![p] = have[p] \cup {m.type}]
  BY DEF HearIce
<1>3. /\ pc[p] = "signal"
      /\ UNCHANGED <<published, known, ready, refreshed, orphan, mapping, confused, disturbed>>
      /\ (pc' = [pc EXCEPT ![p] = "checks"] /\ StartWorker(p)) \/ UNCHANGED <<pc, worker>>
  BY DEF HearIce, At, Goto, history
<1>4. m.type \in IceTypes
  BY <1>2, <1>3, Accepted DEF Accepts, At
<1>5. have' \in [Peer -> SUBSET IceTypes]
  BY <1>1, <1>2, <1>4 DEF TypeOK
<1>6. CASE pc' = [pc EXCEPT ![p] = "checks"] /\ StartWorker(p)
  BY <1>1, <1>2, <1>3, <1>5, <1>6, AcceptStep
<1>7. CASE UNCHANGED <<pc, worker>>
  <2>1. pc' = [pc EXCEPT ![p] = "signal"]
    BY <1>1, <1>3, <1>7
  <2>2. QED
    BY <1>1, <1>2, <1>3, <1>5, <1>7, <2>1, AcceptStep
<1>8. QED
  BY <1>3, <1>6, <1>7

LEMMA HearReadyStep ==
  ASSUME PairingInv, NEW p \in Peer, HearReady(p) PROVE PairingInv'
<1>1. TypeOK /\ confused = FALSE
  BY Inv
<1>2. PICK m \in Message : Accept(p, m) /\ ready' = [ready EXCEPT ![p] = m.digest]
  BY DEF HearReady
<1>3. /\ pc[p] = "await" /\ pc' = [pc EXCEPT ![p] = "refresh"]
      /\ UNCHANGED <<published, known, refreshed, have, orphan, worker, mapping>>
      /\ UNCHANGED <<confused, disturbed>>
  BY DEF HearReady, At, Goto, upnp, history
<1>4. have' \in [Peer -> SUBSET IceTypes]
  BY <1>1, <1>3 DEF TypeOK
<1>5. QED
  BY <1>1, <1>2, <1>3, <1>4, AcceptStep

\* Past its script, a peer or its orphan takes a message and stays where it is.
LEMMA StayStep ==
  ASSUME PairingInv, NEW p \in Peer, NEW d, MB!Receive(Code, p, p), UNCHANGED pc,
         pc[p] \notin Pairing, d = deferred'[p], deferred'[Other(p)] = deferred[Other(p)],
         \A i \in DOMAIN d : DigestOK(p, d[i]), deferred' \in [Peer -> Seq(Message)],
         \A r \in Peer : Len(deferred'[r]) <= MaxDeferred,
         orphan' \in {orphan, orphan \ {p}},
         UNCHANGED <<published, known, ready, refreshed, have, worker, mapping>>,
         UNCHANGED <<confused, disturbed>>
  PROVE  PairingInv'
<1>1. /\ TypeOK /\ PartsOK /\ ClaimOK /\ confused = FALSE
      /\ AttemptOK(p) /\ PublishedOK(p) /\ MailOK(p) /\ pc \in [Peer -> Label]
  BY Inv
<1>2. PICK l : l = pc[p]
  OBVIOUS
<1>3. Exists /\ box' \in Boxed /\ box'[Code].info = box[Code].info
  BY <1>1, ReceiveEffect
<1>4. Moves(p, l)
  <2>1. \A e : Announced(p, e) => Announced(p, e)'
    BY DEF Announced
  <2>2. pc' = [pc EXCEPT ![p] = l] /\ l \in Label
    BY <1>1, <1>2
  <2>3. QED
    BY <1>2, <1>3, <2>1, <2>2 DEF Moves
<1>5. Keeps(p, l, d)
  <2>1. l \notin Pairing /\ l \notin {"snapshot", "verify"}
    BY <1>2 DEF Pairing
  <2>2. l = "refresh" => \E e : e = ready'[p] /\ Announced(Other(p), e)
    BY <1>1, <1>2 DEF MailOK, At
  <2>3. QED
    BY <2>1, <2>2 DEF Keeps
<1>6. AttemptOK(p)'
  BY <1>1 DEF AttemptOK
<1>7. PublishedOK(p)'
  BY <1>1, <1>3 DEF PublishedOK, At, Offer, Exists
<1>8. TypeOK' /\ ~confused'
  BY <1>1, <1>3 DEF TypeOK, Boxed
<1>9. PartsOK'
  BY <1>1 DEF PartsOK
<1>10. l # "end" =>
         /\ IF Heard(p, pc[p]) < Len(Script(p)) THEN Heard(p, l) = Heard(p, pc[p]) + 1
                                                ELSE Heard(p, l) = Heard(p, pc[p])
         /\ Said(p, l) = Said(p, pc[p]) /\ pc[p] # "end"
  <2>1. l \in Label \ Pairing
    BY <1>1, <1>2
  <2>2. Heard(p, l) = Len(Script(p)) /\ Len(Script(p)) \in {2, 3}
    BY <2>1, Turns, Scripts
  <2>3. ~(Heard(p, l) < Len(Script(p)))
    BY <2>2
  <2>4. QED
    BY <1>2, <2>3
<1>11. l # "claim"
  BY <1>2 DEF Pairing
<1>12. QED
  BY <1>4, <1>5, <1>6, <1>7, <1>8, <1>9, <1>10, <1>11, TakeStep

LEMMA OrphanTakesStep ==
  ASSUME PairingInv, NEW p \in Peer, OrphanTakes(p) PROVE PairingInv'
<1>1. /\ TypeOK /\ AttemptOK(p)
      /\ \A i \in DOMAIN deferred[p] : DigestOK(p, deferred[p][i])
  BY Inv
<1>2. /\ p \in orphan /\ MB!Receive(Code, p, p) /\ orphan' = orphan \ {p}
      /\ UNCHANGED <<pc, published, known, ready, refreshed, have, deferred>>
      /\ UNCHANGED <<worker, mapping, confused, disturbed>>
  BY DEF OrphanTakes, exchange, upnp, history
<1>3. pc[p] \notin Pairing
  BY <1>1, <1>2 DEF AttemptOK, Sync, Pairing
<1>4. PICK d : d = deferred[p]
  OBVIOUS
<1>5. \A i \in DOMAIN d : DigestOK(p, d[i])
  BY <1>1, <1>4
<1>6. /\ deferred' \in [Peer -> Seq(Message)] /\ d = deferred'[p]
      /\ \A r \in Peer : Len(deferred'[r]) <= MaxDeferred
  BY <1>1, <1>2, <1>4 DEF TypeOK
<1>7. QED
  BY <1>2, <1>3, <1>5, <1>6, StayStep

\* Before ICE there is nothing to defer.
LEMMA DeferStep ==
  ASSUME PairingInv, NEW p \in Peer, Defer(p) PROVE PairingInv'
<1>1. /\ TypeOK /\ MailOK(p) /\ deferred \in [Peer -> Seq(Message)]
      /\ Other(p) \in Peer /\ Other(p) # p
      /\ \A i \in DOMAIN deferred[p] : DigestOK(p, deferred[p][i])
  BY Inv, Peers DEF TypeOK
<1>2. PICK m : /\ m = Head(Queue(p)).msg /\ m.type \notin Accepts(p)
               /\ Len(deferred[p]) < MaxDeferred
               /\ deferred' = [deferred EXCEPT ![p] = Append(deferred[p], m)]
  BY DEF Defer, Deferring
<1>3. /\ Accepts(p) # {} /\ Exists /\ Queue(p) # <<>> /\ MB!Receive(Code, p, p)
      /\ UNCHANGED <<pc, published, known, ready, refreshed, have, orphan>>
      /\ UNCHANGED <<worker, mapping, confused, disturbed>>
  BY DEF Defer, exchange, upnp, history
<1>4. pc[p] \in {"verify", "signal", "await"}
  BY <1>3 DEF Accepts, At
<1>5. pc[p] # "verify"
  <2>1. SUFFICES ASSUME pc[p] = "verify" PROVE FALSE
    OBVIOUS
  <2>2. m.type = Script(p)[Heard(p, "verify") + 1]
    BY <1>2, <1>3, <2>1, HeadExpected DEF Pairing
  <2>3. Heard(p, "verify") = Len(Script(p)) - 1
    BY Turns
  <2>4. PICK n : n = Len(Script(p))
    OBVIOUS
  <2>5. n \in {2, 3} /\ Script(p)[n] = "self-snapshot-auth"
    BY <2>4, Scripts
  <2>6. Heard(p, "verify") + 1 = n
    BY <2>3, <2>4, <2>5
  <2>7. m.type = "self-snapshot-auth"
    BY <2>2, <2>5, <2>6
  <2>8. QED
    BY <1>2, <2>1, <2>7 DEF Accepts, At
<1>6. pc[p] \notin Pairing
  BY <1>4, <1>5 DEF Pairing
<1>7. m \in Message /\ DigestOK(p, m)
  <2>1. PICK f : f = Queue(p)
    OBVIOUS
  <2>2. f \in Seq(MB!Envelope) /\ f # <<>>
    BY <1>1, <1>3, <2>1, BoxTypes DEF Queue
  <2>3. 1 \in DOMAIN f /\ Head(f) = f[1] /\ f[1] \in MB!Envelope
    BY <2>2
  <2>4. \A i \in DOMAIN f : DigestOK(p, f[i].msg)
    BY <1>1, <1>3, <2>1 DEF MailOK
  <2>5. m = f[1].msg
    BY <1>2, <2>1, <2>3
  <2>6. QED
    BY <2>3, <2>4, <2>5 DEF MB!Envelope
<1>8. PICK s, d : s = deferred[p] /\ d = Append(s, m)
  OBVIOUS
<1>9. /\ s \in Seq(Message) /\ d \in Seq(Message) /\ Len(d) = Len(s) + 1
      /\ \A i \in DOMAIN d : d[i] = m \/ (i \in DOMAIN s /\ d[i] = s[i])
  BY <1>1, <1>7, <1>8
<1>10. \A i \in DOMAIN d : DigestOK(p, d[i])
  <2>1. \A i \in DOMAIN s : DigestOK(p, s[i])
    BY <1>1, <1>8
  <2>2. QED
    BY <1>7, <1>9, <2>1
<1>11. /\ deferred' \in [Peer -> Seq(Message)] /\ d = deferred'[p]
       /\ deferred'[Other(p)] = deferred[Other(p)]
  BY <1>1, <1>2, <1>8, <1>9
<1>12. \A r \in Peer : Len(deferred'[r]) <= MaxDeferred
  <2>1. \A r \in Peer : r = p \/ r = Other(p)
    BY Peers
  <2>2. Len(deferred'[Other(p)]) <= MaxDeferred
    BY <1>1, <1>11 DEF TypeOK
  <2>3. Len(d) <= MaxDeferred
    <3>1. Len(s) \in Nat /\ MaxDeferred \in Nat /\ Len(s) < MaxDeferred
      BY <1>2, <1>8, <1>9, PairingAssumption
    <3>2. QED
      BY <1>9, <3>1
  <2>4. QED
    BY <1>11, <2>1, <2>2, <2>3
<1>13. QED
  BY <1>3, <1>6, <1>10, <1>11, <1>12, StayStep

-----------------------------------------------------------------------------
\* The synchronised fallback

LEMMA StoreUpdatedStep ==
  ASSUME PairingInv, NEW p \in Peer, StoreUpdated(p) PROVE PairingInv'
<1>1. /\ TypeOK /\ PartsOK /\ ClaimOK /\ confused = FALSE
      /\ AttemptOK(p) /\ PublishedOK(p) /\ MailOK(p) /\ pc \in [Peer -> Label]
      /\ \A i \in DOMAIN deferred[p] : DigestOK(p, deferred[p][i])
      /\ Other(p) \in Peer /\ Other(p) # p /\ Other(Other(p)) = p
  BY Inv, Peers
<1>2. PICK o : o = Offer(p)
  OBVIOUS
<1>3. /\ pc[p] = "store" /\ pc' = [pc EXCEPT ![p] = "announce"] /\ MB!Publish(Code, p, p)
      /\ published' = [published EXCEPT ![p] = o]
      /\ UNCHANGED <<known, ready, refreshed, have, deferred, orphan>>
      /\ UNCHANGED <<worker, mapping, confused, disturbed>>
  BY <1>2 DEF StoreUpdated, Store, AfterSync, At, Goto, exchange, upnp, history
<1>4. /\ Exists /\ box' \in Boxed /\ box'[Code].info = box[Code].info \cup {p}
      /\ box'[Code].pending = box[Code].pending
  BY <1>1, <1>3, PublishEffect
<1>5. /\ o \in {"initial", "mapped"} /\ published'[p] = o
      /\ published'[Other(p)] = published[Other(p)] /\ published' \in [Peer -> Candidates]
  BY <1>1, <1>2, <1>3 DEF TypeOK, Candidates, Offer
<1>6. Moves(p, "announce")
  BY <1>1, <1>3, <1>4, <1>5 DEF Moves, Announced, Label, Sync, Pairing
<1>7. PICK d : d = deferred[p]
  OBVIOUS
<1>8. Keeps(p, "announce", d)
  BY <1>1, <1>3, <1>7 DEF Keeps, Pairing
<1>9. pc'[p] = "announce" /\ pc'[Other(p)] = pc[Other(p)] /\ pc' \in [Peer -> Label]
  BY <1>1, <1>6, Moved
<1>10. AttemptOK(p)'
  BY <1>1, <1>3, <1>9 DEF AttemptOK, Pairing, Sync
<1>11. pc[Other(p)] \notin Pairing \ {"verify"}
  <2>1. CASE pc[Other(p)] = "end"
    BY <2>1 DEF Pairing
  <2>2. CASE pc[Other(p)] # "end"
    <3>1. StreamOK(p)
      BY <1>3 DEF PairingInv, At
    <3>2. PICK s \in 0 .. Len(Script(p)) :
            s = Said(Other(p), pc[Other(p)]) /\ Heard(p, "store") <= s
      BY <1>3, <2>2, <3>1 DEF StreamOK, At
    <3>3. "store" \in Label \ Pairing
      BY DEF Label, Sync, Pairing
    <3>4. Heard(p, "store") = Len(Script(p)) /\ Len(Script(p)) \in {2, 3}
      BY <3>3, Turns, Scripts
    <3>5. Said(Other(p), pc[Other(p)]) = Len(Script(p))
      BY <3>2, <3>4
    <3>6. QED
      BY <1>1, <3>5, TurnTypes
  <2>3. QED
    BY <2>1, <2>2
<1>12. PublishedOK(p)'
  <2>1. Offer(p)' = o
    BY <1>2, <1>3 DEF Offer
  <2>2. QED
    BY <1>5, <1>9, <1>11, <2>1 DEF PublishedOK, Pairing, Ice, At
<1>13. TypeOK' /\ ~confused'
  BY <1>1, <1>3, <1>4, <1>5, <1>9 DEF TypeOK, Label, Boxed
<1>14. PartsOK' /\ ClaimOK'
  BY <1>3, <1>4, <1>6, PartsStep
<1>15. Heard(p, "announce") = Heard(p, pc[p]) /\ Said(p, "announce") = Said(p, pc[p])
  <2>1. "store" \in Label \ Pairing /\ "announce" \in Label \ Pairing
    BY DEF Label, Sync, Pairing
  <2>2. QED
    BY <1>3, <2>1, SaidAll
<1>16. QED
  BY <1>3, <1>4, <1>6, <1>8, <1>10, <1>12, <1>13, <1>14, <1>15, QuietStep DEF Queue

\* What the other peer announced is what it has stored.
LEMMA RefreshStep ==
  ASSUME PairingInv, NEW p \in Peer, Refresh(p) PROVE PairingInv'
<1>1. /\ TypeOK /\ MailOK(p) /\ AttemptOK(p) /\ pc \in [Peer -> Label]
      /\ Other(p) \in Peer /\ Other(p) # p
  BY Inv, Peers
<1>2. /\ pc[p] = "refresh" /\ pc' = [pc EXCEPT ![p] = "legacy"]
      /\ UNCHANGED <<box, published, ready, have, deferred, orphan, worker, mapping, disturbed>>
  BY DEF Refresh, At, Goto, upnp
<1>3. published[Other(p)] = ready[p]
  BY <1>1, <1>2 DEF MailOK, At, Announced
<1>4. /\ known' = [known EXCEPT ![p] = ready[p]] /\ refreshed' = refreshed \cup {p}
      /\ UNCHANGED confused
  BY <1>3 DEF Refresh
<1>5. known'[Other(p)] = known[Other(p)] /\ known' \in [Peer -> Candidates]
  BY <1>1, <1>4 DEF TypeOK
<1>6. pc'[p] = "legacy" /\ pc' \in [Peer -> Label]
  BY <1>1, <1>2 DEF Label
<1>7. AttemptOK(p)'
  BY <1>1, <1>2, <1>6 DEF AttemptOK, Pairing, Sync
<1>8. TypeOK'
  BY <1>1, <1>2, <1>4, <1>5, <1>6 DEF TypeOK, Label
<1>9. Leads(p, pc[p], "legacy")
  BY <1>2 DEF Leads, Sync
<1>10. QED
  BY <1>2, <1>4, <1>5, <1>7, <1>8, <1>9, IdleStep

-----------------------------------------------------------------------------
\* The invariant and what follows from it

\* The box vanishes, or nothing happens.
LEMMA LoseBox ==
  ASSUME PairingInv, UNCHANGED <<pc, published, known, ready, refreshed, have, deferred>>,
         UNCHANGED <<orphan, worker, mapping, confused>>, disturbed' \in {disturbed, TRUE},
         box' \in Boxed, UNCHANGED box \/ ~Exists'
  PROVE  PairingInv'
<1>1. PICK p : p = "send"
  OBVIOUS
<1>2. /\ p \in Peer /\ TypeOK /\ PartsOK /\ ClaimOK /\ confused = FALSE
      /\ AttemptOK(p) /\ PublishedOK(p) /\ MailOK(p) /\ pc \in [Peer -> Label]
      /\ \A i \in DOMAIN deferred[p] : DigestOK(p, deferred[p][i])
  BY <1>1, Inv, Peers
<1>3. PICK l, d : l = pc[p] /\ d = deferred[p]
  OBVIOUS
<1>4. Exists' => Exists /\ UNCHANGED box
  BY DEF Exists
<1>5. Moves(p, l)
  <2>1. \A e : Announced(p, e) => Announced(p, e)'
    BY DEF Announced
  <2>2. pc' = [pc EXCEPT ![p] = l] /\ l \in Label
    BY <1>2, <1>3
  <2>3. QED
    BY <1>3, <1>4, <2>1, <2>2 DEF Moves
<1>6. Keeps(p, l, d)
  BY <1>2, <1>3 DEF Keeps, MailOK, At
<1>7. AttemptOK(p)'
  BY <1>2 DEF AttemptOK
<1>8. PublishedOK(p)'
  BY <1>2, <1>4 DEF PublishedOK, At, Offer
<1>9. TypeOK' /\ ~confused'
  BY <1>2 DEF TypeOK, Boxed
<1>10. PartsOK' /\ ClaimOK'
  BY <1>2, <1>4 DEF PartsOK, ClaimOK, At
<1>11. Exists' => Exists /\ \A r \in Peer : box'[Code].pending[r] = Queue(r)
  BY <1>4 DEF Queue
<1>12. QED
  BY <1>2, <1>3, <1>5, <1>6, <1>7, <1>8, <1>9, <1>10, <1>11, QuietStep

LEMMA RunInv ==
  ASSUME PairingInv, NEW p \in Peer, Run(p) PROVE PairingInv'
<1>1. CASE Claim(p) \/ StoreSelf(p) \/ SayPake(p) \/ HearPake(p)
  BY <1>1, ClaimStep, StoreSelfStep, SayPakeStep, HearPakeStep
<1>2. CASE WaitPeer(p) \/ SaySnapshot(p) \/ HearSnapshot(p)
  BY <1>2, WaitPeerStep, SaySnapshotStep, HearSnapshotStep
<1>3. CASE SayIce(p) \/ HearIce(p) \/ Stop(p) \/ Defer(p)
  BY <1>3, SayIceStep, HearIceStep, StopStep, DeferStep
<1>4. CASE Join(p) \/ StoreUpdated(p) \/ Announce(p) \/ HearReady(p) \/ Refresh(p)
  BY <1>4, JoinStep, StoreUpdatedStep, AnnounceStep, HearReadyStep, RefreshStep
<1>5. CASE EndIce(p) \/ EndLegacy(p)
  BY <1>5, EndIceStep, EndLegacyStep
<1>6. QED
  BY <1>1, <1>2, <1>3, <1>4, <1>5 DEF Run

LEMMA NextInv ==
  ASSUME PairingInv, [Next]_vars PROVE PairingInv'
<1>1. TypeOK
  BY DEF PairingInv
<1>2. ASSUME NEW p \in Peer,
             \/ Run(p) \/ Attempt(p) \/ IceWorks(p)
             \/ PairingFails(p) \/ IceFails(p) \/ SyncFails(p)
             \/ IceAbandons(p) \/ OrphanTakes(p) \/ OrphanEnds(p)
      PROVE  PairingInv'
  BY <1>2, RunInv, AttemptStep, IceWorksStep, PairingFailsStep, IceEndsStep, SyncFailsStep,
     OrphanTakesStep, OrphanEndsStep
<1>3. CASE Vanish
  <2>1. box' \in Boxed /\ ~Exists'
    BY <1>1, <1>3, VanishEffect DEF Vanish
  <2>2. /\ UNCHANGED <<pc, published, known, ready, refreshed, have, deferred>>
        /\ UNCHANGED <<orphan, worker, mapping, confused>> /\ disturbed' \in {disturbed, TRUE}
    BY <1>3 DEF Vanish, exchange, upnp
  <2>3. QED
    BY <2>1, <2>2, LoseBox
<1>4. CASE UNCHANGED vars
  <2>1. /\ UNCHANGED <<pc, published, known, ready, refreshed, have, deferred>>
        /\ UNCHANGED <<orphan, worker, mapping, confused, disturbed, box>>
    BY <1>4 DEF vars, exchange, upnp, history
  <2>2. box' \in Boxed
    BY <1>1, <2>1, BoxTypes
  <2>3. QED
    BY <2>1, <2>2, LoseBox
<1>5. QED
  BY <1>2, <1>3, <1>4 DEF Next

LEMMA InitInv ==
  ASSUME Init PROVE PairingInv
<1>1. /\ pc = [p \in Peer |-> "claim"] /\ pc["send"] = "claim" /\ pc["recv"] = "claim"
      /\ box = [c \in {Code} |-> NoBox] /\ ~Exists
      /\ \A p \in Peer : /\ pc[p] = "claim" /\ published[p] = "none" /\ deferred[p] = <<>>
                         /\ worker[p] = "none" /\ mapping[p] = "none"
      /\ orphan = {} /\ confused = FALSE
  BY Peers DEF Init, MB!Init, Exists
<1>2. TypeOK
  <2>1. <<>> \in Seq(Message) /\ Len(<<>>) <= MaxDeferred
    BY PairingAssumption
  <2>2. pc \in [Peer -> Label] /\ deferred \in [Peer -> Seq(Message)] /\ box \in Boxed
    BY <1>1, <2>1 DEF Init, Label, Pairing, Boxed
  <2>3. \A p \in Peer : Len(deferred[p]) <= MaxDeferred
    BY <1>1, <2>1
  <2>4. QED
    BY <1>1, <2>2, <2>3 DEF Init, TypeOK, Label, Boxed, Candidates
<1>3. PartsOK /\ ClaimOK
  BY <1>1 DEF PartsOK, ClaimOK
<1>4. ASSUME NEW p \in Peer PROVE AttemptOK(p) /\ PublishedOK(p) /\ MailOK(p) /\ StreamOK(p)
  <2>1. AttemptOK(p) /\ PublishedOK(p) /\ MailOK(p)
    BY <1>1, <1>4, Peers DEF AttemptOK, PublishedOK, MailOK, At, Pairing, Ice, Sync
  <2>2. Heard(p, "claim") = 0 /\ Said(Other(p), "claim") = 0 /\ 0 \in 0 .. Len(Script(p))
    BY <1>4, Turns, Peers, Scripts
  <2>3. StreamOK(p)
    BY <1>1, <1>4, <2>2, Peers DEF StreamOK
  <2>4. QED
    BY <2>1, <2>3
<1>5. QED
  BY <1>1, <1>2, <1>3, <1>4 DEF PairingInv

\* However the steps of the two peers, their deadlines, abandoned dequeues and
\* attempts interleave, a queue holds what its sender has said of its script
\* and its reader has not taken, and digests are of what is stored.
THEOREM PairingInvariant == Spec => []PairingInv
<1>1. Init => PairingInv
  BY InitInv
<1>2. PairingInv /\ [Next]_vars => PairingInv'
  BY NextInv
<1>3. QED
  BY <1>1, <1>2, PTL DEF Spec

\* Phases, queues, candidates, deferred messages and the attempt keep their
\* types, and a peer never defers more than its limit.
THEOREM PairingTypes == Spec => []TypeOK
<1>1. ASSUME PairingInv PROVE TypeOK
  BY <1>1 DEF PairingInv
<1>2. QED
  BY <1>1, PairingInvariant, PTL

\* PAKE never meets a message of another phase, and no digest differs from the
\* candidates it is compared with, whatever deadlines cut short.
THEOREM PhasesAgree == Spec => []NeverConfused
<1>1. ASSUME PairingInv PROVE NeverConfused
  BY <1>1 DEF PairingInv, NeverConfused
<1>2. QED
  BY <1>1, PairingInvariant, PTL

\* A run that has ended has tried to remove its mapping, whenever its attempt
\* finished.
THEOREM MappingsRemoved == Spec => []NoMappingLeak
<1>1. ASSUME PairingInv PROVE NoMappingLeak
  BY <1>1 DEF PairingInv, AttemptOK, NoMappingLeak, At
<1>2. QED
  BY <1>1, PairingInvariant, PTL
=============================================================================
