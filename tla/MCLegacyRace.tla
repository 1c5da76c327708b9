----------------------------- MODULE MCLegacyRace -----------------------------
(***************************************************************************)
(* Small instances of LegacyRace: the cfgs give the number of dials of     *)
(* each peer and of relay attempts.                                        *)
(***************************************************************************)
EXTENDS LegacyRace

CONSTANTS SendDials, RecvDials

MCDials == [p \in Peer |-> IF p = "send" THEN SendDials ELSE RecvDials]
=============================================================================
