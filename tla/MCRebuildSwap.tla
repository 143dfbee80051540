------------------------------ MODULE MCRebuildSwap ------------------------------
(***************************************************************************)
(* Small instances of RebuildSwap for TLC: a list of one BIN is less than  *)
(* half of one of three.                                                   *)
(***************************************************************************)
EXTENDS RebuildSwap

MCSizes == {1, 3}
=================================================================================
