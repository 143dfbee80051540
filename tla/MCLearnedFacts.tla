----------------------------- MODULE MCLearnedFacts ------------------------------
(***************************************************************************)
(* A small instance of LearnedFacts: one field, two values for it, a       *)
(* conflict inside the database and a source whose licence is not settled. *)
(***************************************************************************)
EXTENDS LearnedFacts

CONSTANTS field, v1, v2, conflict, binlist

OneSubject  == {field}
MCValues    == {v1, v2}
MCLocal     == {conflict}
OneExternal == {binlist}
NoSource    == {}
==================================================================================
