--------------------------- MODULE MCSessionStore ---------------------------
(***************************************************************************)
(* Small instances of SessionStore.  Each request set aims a run at one    *)
(* part of the store; every request may be made by any worker, any number  *)
(* of times and concurrently with itself, which is what a retrying client  *)
(* looks like to the store.                                                *)
(***************************************************************************)
EXTENDS SessionStore, TLC

CONSTANTS k1, k2, a, b, c, m1, m2

Req(op, code, role, cap, msg) ==
  [op |-> op, code |-> code, role |-> role, cap |-> cap, msg |-> msg]

Workers == Permutations(Worker)

\* Message sizes: one of each fits the byte limit of 3, two of m2 do not.
MCBytes == [m \in Msg |-> IF m = m1 THEN 1 ELSE 2]

\* Two senders and two receivers contend for one code; a also presents its
\* sender capability as a receiver.  Publications show lost claims.
ClaimRequests ==
  {Req("claim", k1, "send", x, m1) : x \in {a, b}}
    \cup {Req("claim", k1, "recv", x, m1) : x \in {a, b, c}}
    \cup {Req("publish", k1, "send", a, m1), Req("report", k1, "recv", c, m1)}

\* Two codes share the capacity while leases run, refresh and lapse.
LeaseRequests ==
  {Req("claim", k, "send", a, m1) : k \in {k1, k2}}
    \cup {Req("publish", k1, "send", a, m1), Req("peek", k1, "send", a, m1)}

\* Two senders succeed each other under one code and share a receiver; each
\* keeps sending with the capability of its own, perhaps gone, session, in
\* messages of two sizes.
MailboxRequests ==
  {Req("claim", k1, "send", x, m1) : x \in {a, c}}
    \cup {Req("enqueue", k1, "send", a, m) : m \in {m1, m2}}
    \cup {Req("enqueue", k1, "send", c, m1)}
    \cup {Req(op, k1, "recv", b, m1) : op \in {"claim", "dequeue"}}
=============================================================================
