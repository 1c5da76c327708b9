---------------------------- MODULE MCRelayServer ----------------------------
(***************************************************************************)
(* Small instances of RelayServer: a sender and a receiver of one session, *)
(* a second receiver, which the cfg makes a retry of the first or a        *)
(* stranger with another token, and a stranger with a session of its own.  *)
(***************************************************************************)
EXTENDS RelayServer

CONSTANTS s1, r1, r2, x1, ip1, ip2, j1, j2, t1, t2,
          Token2  \* the token of r2

MCSourceOf == [c \in Conn |-> IF c = s1 THEN ip1 ELSE ip2]

Registers(s, t, r) == [session |-> s, token |-> t, role |-> r]

MCHello ==
  [c \in Conn |-> CASE c = s1 -> Registers(j1, t1, "send")
                    [] c = r1 -> Registers(j1, t1, "recv")
                    [] c = r2 -> Registers(j1, Token2, "recv")
                    [] c = x1 -> Registers(j2, t2, "recv")]
=============================================================================
