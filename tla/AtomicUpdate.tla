------------------------------ MODULE AtomicUpdate ------------------------------
(***************************************************************************)
(* What an update promises whoever reads the database: during an update    *)
(* the path holds the release it held before or the release being          *)
(* installed, never anything else; outside an update it does not change.   *)
(***************************************************************************)
CONSTANTS
  Releases,   \* the versions that can be installed
  NoDatabase  \* nothing is installed

VARIABLES
  db,        \* the release the database path holds
  updating,  \* an update is under way
  kept,      \* the release the update started from
  target     \* the release the update installs

vars == <<db, updating, kept, target>>

Stored == Releases \cup {NoDatabase}

TypeOK ==
  /\ db \in Stored
  /\ updating \in BOOLEAN
  /\ kept \in Stored
  /\ target \in Stored

Init ==
  /\ db \in Stored
  /\ updating = FALSE
  /\ kept = db
  /\ target = NoDatabase

\* An update to release r begins.
Begin(r) ==
  /\ ~updating
  /\ updating' = TRUE
  /\ kept' = db
  /\ target' = r
  /\ UNCHANGED db

\* In one step, the new release takes the old one's place.
Commit ==
  /\ updating
  /\ db = kept
  /\ db' = target
  /\ UNCHANGED <<updating, kept, target>>

\* In one step, the old release is back.
Undo ==
  /\ updating
  /\ db' = kept
  /\ UNCHANGED <<updating, kept, target>>

\* The update ends, whatever it has done so far, or its process does.
End ==
  /\ updating
  /\ updating' = FALSE
  /\ kept' = db
  /\ target' = NoDatabase
  /\ UNCHANGED db

Next == (\E r \in Releases : Begin(r)) \/ Commit \/ Undo \/ End

Spec == Init /\ [][Next]_vars
=================================================================================
