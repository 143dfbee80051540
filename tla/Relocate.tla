-------------------------------- MODULE Relocate --------------------------------
(***************************************************************************)
(* DatabaseService.move_to and the settings page that calls it: the        *)
(* database is copied to another folder, the copy is verified and opened,  *)
(* the original is deleted, and then the setting that names the folder is  *)
(* saved and every other service is told.                                  *)
(*                                                                         *)
(* Workers read and write through the manager meanwhile, any call may fail *)
(* and the application may end at any point.  The page is not there before *)
(* a database is, so there is always one to move.                          *)
(***************************************************************************)
EXTENDS Integers

CONSTANTS
  Places,     \* folders that can hold the database
  Home,       \* the one it is in at first
  Faults,     \* "reader": a worker's session may be open when a move begins;
              \* "edit": a worker may write during a move;
              \* "unlink": the original may refuse to be deleted
  None,       \* no file, no log, no open manager, no reader
  Torn,       \* a file that is not a whole database
  MaxEdits    \* bound on committed edits

ASSUME PlaceAssumption == Home \in Places /\ None \notin Places
ASSUME FaultAssumption == Faults \subseteq {"reader", "edit", "unlink"}
ASSUME FileAssumption == None \notin Int /\ Torn \notin Int /\ None # Torn
ASSUME BoundAssumption == MaxEdits \in Nat

\* The contents of a database: how many of the committed edits it has.
Contents == 0 .. MaxEdits

VARIABLES
  faults,     \* which of Faults can happen; it never changes
  file,       \* per place: the contents of the main file there
  log,        \* per place: what the file would hold with its log folded in
  manager,    \* where the manager has the database open
  reader,     \* where a worker has a session open
  service,    \* DatabaseService._database_path
  others,     \* the path that backups, updates, rebuilds and statistics use
  setting,    \* database_directory, as saved
  pc, origin, target, \* the step of a move, from where, and where to
  committed   \* history: edits committed so far

vars == <<faults, file, log, manager, reader, service, others, setting, pc, origin, target, committed>>

TypeOK ==
  /\ faults \subseteq Faults
  /\ file \in [Places -> Contents \cup {None, Torn}]
  /\ log \in [Places -> Contents \cup {None}]
  /\ manager \in Places \cup {None} /\ reader \in Places \cup {None}
  /\ service \in Places /\ others \in Places /\ setting \in Places
  /\ pc \in {"idle", "closed", "copied", "verified", "opened", "moved", "saved",
             "down", "setup"}
  /\ origin \in Places /\ target \in Places
  /\ committed \in Contents
  \* nothing is open while the copy is made
  /\ pc \in {"closed", "copied", "verified", "down", "setup"} => manager = None

\* What opening place q would show.
Shown(q) == IF file[q] \in Contents /\ log[q] # None THEN log[q] ELSE file[q]

\* Folding the log of q in, unless a session still needs it.
Folded(q)   == IF log[q] # None /\ file[q] \in Contents
                 THEN [file EXCEPT ![q] = log[q]] ELSE file
Unlogged(q) == [log EXCEPT ![q] = None]

\* DatabaseManager.close: the checkpoint has no effect under an open session.
Closes(q) ==
  IF q = None \/ reader = q
    THEN UNCHANGED <<file, log>>
    ELSE file' = Folded(q) /\ log' = Unlogged(q)

Running == pc \notin {"down", "setup"}

--------------------------------------------------------------------------------
\* Workers

\* A transaction of a page or a worker.
Edit ==
  /\ manager # None /\ committed < MaxEdits
  /\ pc = "idle" \/ "edit" \in faults
  /\ file[manager] \in Contents
  /\ committed' = committed + 1
  /\ log' = [log EXCEPT ![manager] = Shown(manager) + 1]
  /\ UNCHANGED <<faults, file, manager, reader, service, others, setting, pc, origin, target>>

ReaderBegins ==
  /\ "reader" \in faults /\ manager # None /\ reader = None
  /\ reader' = manager
  /\ UNCHANGED <<faults, file, log, manager, service, others, setting, pc, origin, target, committed>>

\* The last connection to a database folds its log in.
ReaderEnds ==
  /\ reader # None
  /\ IF manager = reader
       THEN UNCHANGED <<file, log>>
       ELSE file' = Folded(reader) /\ log' = Unlogged(reader)
  /\ reader' = None
  /\ UNCHANGED <<faults, manager, service, others, setting, pc, origin, target, committed>>

--------------------------------------------------------------------------------
\* move_to

Close(place) ==
  /\ pc = "idle" /\ place # service
  /\ Closes(manager)
  /\ manager' = None
  /\ origin' = service /\ target' = place
  /\ pc' = "closed"
  /\ UNCHANGED <<faults, reader, service, others, setting, committed>>

\* shutil.copy2 of the main file; the copy may turn out damaged.
Copy ==
  /\ pc = "closed"
  /\ \E copy \in {file[service], Torn} : file' = [file EXCEPT ![target] = copy]
  /\ pc' = "copied"
  /\ UNCHANGED <<faults, log, manager, reader, service, others, setting, origin, target, committed>>

\* copy2 raises part of the way through; the original is opened again.
CopyFails ==
  /\ pc = "closed"
  /\ \E left \in {None, Torn} : file' = [file EXCEPT ![target] = left]
  /\ manager' = service
  /\ pc' = "idle"
  /\ UNCHANGED <<faults, log, reader, service, others, setting, origin, target, committed>>

\* Mutated form of Verify: the copy is not looked at.
VerifySkipped ==
  /\ pc = "copied"
  /\ pc' = "verified"
  /\ UNCHANGED <<faults, file, log, manager, reader, service, others, setting, origin, target, committed>>

Verify ==
  /\ pc = "copied" /\ file[target] # Torn
  /\ pc' = "verified"
  /\ UNCHANGED <<faults, file, log, manager, reader, service, others, setting, origin, target, committed>>

\* The DatabaseError passes by the handler that opens the original again.
VerifyFails ==
  /\ pc = "copied" /\ file[target] = Torn
  /\ file' = [file EXCEPT ![target] = None]
  /\ pc' = "idle"
  /\ UNCHANGED <<faults, log, manager, reader, service, others, setting, origin, target, committed>>

OpenCopy ==
  /\ pc = "verified"
  /\ service' = target
  /\ manager' = target
  /\ pc' = "opened"
  /\ UNCHANGED <<faults, file, log, reader, others, setting, origin, target, committed>>

\* The original and its sidecars.
DeleteOriginal ==
  /\ pc = "opened"
  /\ file' = [file EXCEPT ![origin] = None]
  /\ log' = Unlogged(origin)
  /\ pc' = "moved"
  /\ UNCHANGED <<faults, manager, reader, service, others, setting, origin, target, committed>>

\* unlink raises: the copy stays in use, the page reports a failure and stops.
DeleteFails ==
  /\ "unlink" \in faults /\ pc = "opened"
  /\ Closes(manager)
  /\ pc' = "idle"
  /\ UNCHANGED <<faults, manager, reader, service, others, setting, origin, target, committed>>

--------------------------------------------------------------------------------
\* The page, after move_to

Save ==
  /\ pc = "moved"
  /\ setting' = service
  /\ pc' = "saved"
  /\ UNCHANGED <<faults, file, log, manager, reader, service, others, origin, target, committed>>

\* apply_database_path: the manager is closed and opened again.
Apply ==
  /\ pc = "saved"
  /\ others' = service
  /\ Closes(manager)
  /\ pc' = "idle"
  /\ UNCHANGED <<faults, manager, reader, service, setting, origin, target, committed>>

--------------------------------------------------------------------------------
\* The application

\* It ends, at any point; a copy that was under way stays as it is.
Stop ==
  /\ Running
  /\ file' \in {file} \cup (IF pc = "closed" THEN {[file EXCEPT ![target] = Torn]} ELSE {})
  /\ pc' = "down"
  /\ manager' = None /\ reader' = None
  /\ UNCHANGED <<faults, log, service, others, setting, origin, target, committed>>

\* The database the setting names is opened and verified, or the first-run
\* setup begins.
Start ==
  /\ pc = "down"
  /\ service' = setting /\ others' = setting
  /\ IF file[setting] \in Contents
       THEN pc' = "idle" /\ manager' = setting
       ELSE pc' = "setup" /\ manager' = None
  /\ UNCHANGED <<faults, file, log, reader, setting, origin, target, committed>>

Init ==
  /\ faults \in SUBSET Faults
  /\ file = [q \in Places |-> IF q = Home THEN 0 ELSE None]
  /\ log = [q \in Places |-> None]
  /\ manager = Home /\ reader = None
  /\ service = Home /\ others = Home /\ setting = Home
  /\ pc = "idle" /\ origin = Home /\ target = Home
  /\ committed = 0

Next ==
  \/ Edit \/ ReaderBegins \/ ReaderEnds
  \/ \E place \in Places : Close(place)
  \/ Copy \/ CopyFails \/ Verify \/ VerifyFails \/ OpenCopy
  \/ DeleteOriginal \/ DeleteFails
  \/ Save \/ Apply
  \/ Stop \/ Start

Spec == Init /\ [][Next]_vars

--------------------------------------------------------------------------------
\* Properties

\* No worker reads or writes while the database is moved, and an original can
\* be deleted.
Quiet == faults = {}

\* As long as nothing else touches the files, every committed edit can be read
\* at some place, whatever step a move failed at or was cut off in.
NothingLost ==
  Quiet => \E q \in Places : Shown(q) \in Contents /\ Shown(q) = committed

\* There is a whole copy of the database at some place.
WholeSomewhere == \E q \in Places : file[q] \in Contents

\* The manager never has a copy open that is not whole.
OpenIsWhole == manager # None => file[manager] \in Contents

\* On the same condition, once the setting names the new place the database is
\* open there with every edit, and the copy it was moved from is gone.  (A copy
\* that an earlier move left at a third place may still be there.)
MovedWhole ==
  Quiet /\ pc = "saved" =>
    /\ manager = setting /\ Shown(setting) = committed
    /\ file[origin] \notin Contents

\* A move costs nothing: no edit, no whole copy, and nothing that is torn is opened.
MoveIsSafe == NothingLost /\ WholeSomewhere /\ OpenIsWhole /\ MovedWhole
==================================================================================
