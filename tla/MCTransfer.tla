------------------------------ MODULE MCTransfer ------------------------------
(***************************************************************************)
(* Small instances of Transfer: an empty file and a file of two different  *)
(* blocks; the cfgs give the destination names.                            *)
(***************************************************************************)
EXTENDS Transfer

CONSTANTS a, b

MCFile == {<<>>, <<a, b>>}
=============================================================================
