------------------------------- MODULE Mailbox -------------------------------
(***************************************************************************)
(* What the mailbox promises its two peers, with no storage in sight: a    *)
(* pairing code names at most one box, the box belongs to one sender and   *)
(* at most one receiver capability, and every operation acts on the whole  *)
(* box in one step.  A box may vanish at any time (lease, absolute         *)
(* lifetime or operator), never lose part of its content.                  *)
(* SessionStore is shown to implement this specification.                  *)
(***************************************************************************)
EXTENDS Naturals, Sequences

CONSTANTS
  Code,        \* opaque session identifiers derived from pairing codes
  Capability,  \* bearer capabilities, one per peer process
  Msg,         \* message bodies
  QueueMax,    \* messages one role may have pending
  NoOne,       \* owner of an unclaimed role
  NoBox        \* value of a code with no box

VARIABLE box

Role == {"send", "recv"}
Peer(role) == IF role = "send" THEN "recv" ELSE "send"
Envelope == [from: Capability, msg: Msg]

Box == [owner: [Role -> Capability \cup {NoOne}],
        info: SUBSET Role,
        reports: SUBSET Role,
        pending: [Role -> Seq(Envelope)]]

NewBox(c) == [owner |-> [r \in Role |-> IF r = "send" THEN c ELSE NoOne],
              info |-> {}, reports |-> {}, pending |-> [r \in Role |-> <<>>]]

Owns(k, r, c) == box[k] # NoBox /\ box[k].owner[r] = c

Init == box = [k \in Code |-> NoBox]

Open(k, c) == /\ box[k] = NoBox
              /\ box' = [box EXCEPT ![k] = NewBox(c)]

Join(k, c) == /\ box[k] # NoBox
              /\ box[k].owner["recv"] = NoOne
              /\ box[k].owner["send"] # c
              /\ box' = [box EXCEPT ![k].owner["recv"] = c]

Publish(k, r, c) == /\ Owns(k, r, c)
                    /\ box' = [box EXCEPT ![k].info = @ \cup {r}]

Send(k, r, c, m) ==
  /\ Owns(k, r, c)
  /\ Len(box[k].pending[Peer(r)]) < QueueMax
  /\ box' = [box EXCEPT ![k].pending[Peer(r)] =
                          Append(@, [from |-> c, msg |-> m])]

Receive(k, r, c) == /\ Owns(k, r, c)
                    /\ box[k].pending[r] # <<>>
                    /\ box' = [box EXCEPT ![k].pending[r] = Tail(@)]

Report(k, r, c) == /\ Owns(k, r, c)
                   /\ box' = [box EXCEPT ![k].reports = @ \cup {r}]

Vanish(S) == box' = [k \in Code |-> IF k \in S THEN NoBox ELSE box[k]]

Next ==
  \/ \E k \in Code, c \in Capability :
       \/ Open(k, c)
       \/ Join(k, c)
       \/ \E r \in Role : \/ Publish(k, r, c)
                          \/ \E m \in Msg : Send(k, r, c, m)
                          \/ Receive(k, r, c)
                          \/ Report(k, r, c)
  \/ \E S \in SUBSET Code : Vanish(S)

Spec == Init /\ [][Next]_box
=============================================================================
