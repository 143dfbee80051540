-------------------------------- MODULE MCRelocate --------------------------------
(***************************************************************************)
(* Small instances of Relocate: three folders.                             *)
(***************************************************************************)
EXTENDS Relocate

CONSTANTS home, away, third

ThreePlaces == {home, away, third}
AllFaults   == {"reader", "edit", "unlink"}
===================================================================================
