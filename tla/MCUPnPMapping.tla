---------------------------- MODULE MCUPnPMapping ----------------------------
(***************************************************************************)
(* Instance of UPnPMapping for TLC: two runs of one host and one of        *)
(* another want the same external port of a gateway; one of them has a     *)
(* second candidate.                                                       *)
(***************************************************************************)
EXTENDS UPnPMapping

CONSTANTS p1, p2, q1

TheProcesses == {p1, p2, q1}
TheHosts == [p \in TheProcesses |-> IF p = q1 THEN "other" ELSE "home"]
ThePorts == [p \in TheProcesses |-> IF p = p2 THEN <<1, 2>> ELSE <<1>>]
TheGateways == <<"router">>
=============================================================================
