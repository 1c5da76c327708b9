---------------------------- MODULE MCHTTPMailbox ----------------------------
(***************************************************************************)
(* Instance of HTTPMailbox for TLC: one sender and one receiver.           *)
(***************************************************************************)
EXTENDS HTTPMailbox

CONSTANTS sender, receiver

TheClients == {sender, receiver}
TheRoles == [c \in TheClients |-> IF c = sender THEN "send" ELSE "recv"]
TheAddrs == [c \in TheClients |-> "home"]
TheCalls == [c \in TheClients |-> IF c = sender THEN {"claim", "self", "send"}
                                  ELSE {"claim", "wait", "receive", "stats"}]
Messages == [c \in TheClients |-> IF c = sender THEN {"claim", "send"}
                                  ELSE {"claim", "receive"}]
TheLimits == [s \in Scope |->
                IF s \in {"claim-send-ip", "claim-recv-session"} THEN 1 ELSE 2]
MessageLimits == [s \in Scope |-> IF s = "authenticated-capability" THEN 3 ELSE 2]
=============================================================================
