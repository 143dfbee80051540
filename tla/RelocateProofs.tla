----------------------------- MODULE RelocateProofs -----------------------------
(***************************************************************************)
(* Proofs about Relocate, for any number of folders and edits: MoveIsSafe  *)
(* is an invariant.                                                        *)
(***************************************************************************)
EXTENDS Relocate, TLAPS

--------------------------------------------------------------------------------
\* The inductive invariant

\* Nothing on disk is ahead of what was committed.
Bounded ==
  \A q \in Places :
    /\ file[q] \in Contents => file[q] <= committed
    /\ log[q] # None => log[q] <= committed

\* The two ends of a move, and which of them is in service.
Ends ==
  /\ pc \in {"closed", "copied", "verified"} => service = origin /\ target # origin
  /\ pc \in {"opened", "moved", "saved"} => service = target /\ target # origin
  /\ pc = "saved" => setting = service

\* The manager has the database in service open or nothing.
OpenInService ==
  /\ manager \in {None, service}
  /\ pc \in {"opened", "moved", "saved"} => manager = service

\* The database in service is whole, and so is a copy that was verified.  Once
\* the first-run setup has begun nothing happens, and some place has a whole one.
WholeInService ==
  /\ pc # "setup" => file[service] \in Contents
  /\ pc = "copied" => file[target] \in Contents \cup {Torn}
  /\ pc = "verified" => file[target] \in Contents
  /\ pc \in {"down", "setup"} => reader = None
  /\ pc = "setup" => WholeSomewhere

\* While nothing else touches the files, a log is only left by the database
\* that is in service and named by the setting, and not once a move begins.
QuietLogs ==
  /\ reader = None
  /\ \A q \in Places : log[q] # None =>
       /\ q = service /\ setting = service
       /\ pc = "down" \/ (pc = "idle" /\ manager # None)

\* On the same condition, how far the copies, and the setting, have come.
QuietMove ==
  /\ pc \in {"idle", "closed", "copied", "verified"} => setting = service
  /\ pc \in {"opened", "moved"} => setting = origin
  /\ pc = "copied" => file[target] \in {Torn, file[service]}
  /\ pc = "verified" => file[target] = file[service]
  /\ pc \in {"moved", "saved"} => file[origin] \notin Contents

\* On the same condition, the database in service has every edit, and so has
\* the one a start would open.
QuietEdits ==
  /\ pc # "setup" => Shown(service) = committed
  /\ file[setting] \in Contents => Shown(setting) = committed
  /\ NothingLost

\* What holds whatever the workers do, and what holds while they rest.
Safe == TypeOK /\ Bounded /\ Ends /\ OpenInService /\ WholeInService

Inv == Safe /\ (Quiet => QuietLogs /\ QuietMove /\ QuietEdits)

--------------------------------------------------------------------------------
\* Lemmas about the files

USE PlaceAssumption, FileAssumption, BoundAssumption

\* Folding a log in keeps every whole file whole and changes no other.
LEMMA FoldedFiles ==
  ASSUME TypeOK, Bounded, NEW q \in Places
  PROVE  /\ Folded(q) \in [Places -> Contents \cup {None, Torn}]
         /\ Unlogged(q) \in [Places -> Contents \cup {None}]
         /\ \A p \in Places : /\ file[p] \in Contents <=> Folded(q)[p] \in Contents
                              /\ file[p] \notin Contents => Folded(q)[p] = file[p]
                              /\ Folded(q)[p] \in Contents => Folded(q)[p] <= committed
                              /\ Unlogged(q)[p] # None => Unlogged(q)[p] <= committed
                              /\ p # q => Folded(q)[p] = file[p]
BY DEF TypeOK, Bounded, Folded, Unlogged, Contents

\* So does closing the manager, wherever it has the database open.
LEMMA ClosedFiles ==
  ASSUME TypeOK, Bounded, NEW q \in Places \cup {None}, Closes(q)
  PROVE  /\ file' \in [Places -> Contents \cup {None, Torn}]
         /\ log' \in [Places -> Contents \cup {None}]
         /\ \A p \in Places : /\ file[p] \in Contents <=> file'[p] \in Contents
                              /\ file[p] \notin Contents => file'[p] = file[p]
                              /\ file'[p] \in Contents => file'[p] <= committed
                              /\ log'[p] # None => log'[p] <= committed
                              /\ p # q => file'[p] = file[p]
<1>1. CASE UNCHANGED <<file, log>>
  BY <1>1 DEF TypeOK, Bounded
<1>2. CASE q \in Places /\ file' = Folded(q) /\ log' = Unlogged(q)
  BY <1>2, FoldedFiles
<1> QED  BY <1>1, <1>2 DEF Closes

--------------------------------------------------------------------------------
\* What holds whatever the workers do

\* Every step keeps the types, and the file in service whole.
LEMMA SafeStep == Safe /\ [Next]_vars => Safe'
<1> SUFFICES ASSUME Safe, [Next]_vars PROVE Safe'
  OBVIOUS
<1> USE DEF Safe, TypeOK, Bounded, Ends, OpenInService, WholeInService, WholeSomewhere
<1>1. CASE Edit
  <2>1. Shown(manager) \in 0 .. committed  BY <1>1 DEF Edit, Shown, Contents
  <2> QED  BY <1>1, <2>1 DEF Edit, Contents
<1>2. CASE ReaderBegins
  BY <1>2 DEF ReaderBegins
<1>3. CASE ReaderEnds
  BY <1>3, FoldedFiles DEF ReaderEnds
<1>4. ASSUME NEW place \in Places, Close(place) PROVE Safe'
  BY <1>4, ClosedFiles DEF Close
<1>5. CASE Copy
  <2>1. PICK copy \in {file[service], Torn} : file' = [file EXCEPT ![target] = copy]
    BY <1>5 DEF Copy
  <2>2. file[service] \in Contents /\ file[service] <= committed
    BY <1>5 DEF Copy
  <2>3. copy \in Contents \cup {Torn} /\ (copy \in Contents => copy <= committed)
    BY <2>2 DEF Contents
  <2> QED  BY <1>5, <2>1, <2>3 DEF Copy
<1>6. CASE CopyFails
  BY <1>6 DEF CopyFails, Contents
<1>7. CASE Verify
  BY <1>7 DEF Verify
<1>8. CASE VerifyFails
  BY <1>8 DEF VerifyFails, Contents
<1>9. CASE OpenCopy
  BY <1>9 DEF OpenCopy
<1>10. CASE DeleteOriginal
  BY <1>10 DEF DeleteOriginal, Unlogged, Contents
<1>11. CASE DeleteFails
  BY <1>11, ClosedFiles DEF DeleteFails
<1>12. CASE Save
  BY <1>12 DEF Save
<1>13. CASE Apply
  BY <1>13, ClosedFiles DEF Apply
<1>14. CASE Stop
  BY <1>14 DEF Stop, Running, Contents
<1>15. CASE Start
  BY <1>15 DEF Start
<1>16. CASE UNCHANGED vars
  BY <1>16 DEF vars
<1> QED
  BY <1>1, <1>2, <1>3, <1>4, <1>5, <1>6, <1>7, <1>8, <1>9, <1>10, <1>11, <1>12,
     <1>13, <1>14, <1>15, <1>16 DEF Next

--------------------------------------------------------------------------------
\* What holds while nothing else touches the files

\* Folding a log in does not change what opening a place would show.
LEMMA FoldedShows ==
  ASSUME TypeOK, NEW q \in Places, file' = Folded(q), log' = Unlogged(q),
         NEW p \in Places
  PROVE  Shown(p)' = Shown(p) /\ (p # q => log'[p] = log[p]) /\ log'[q] = None
BY DEF TypeOK, Folded, Unlogged, Shown, Contents

\* With no reader, closing the manager leaves no log where it had the database
\* open, and shows what there was before.
LEMMA ClosedShows ==
  ASSUME TypeOK, reader = None, NEW q \in Places \cup {None}, Closes(q)
  PROVE  /\ \A p \in Places : /\ Shown(p)' = Shown(p)
                              /\ p # q => log'[p] = log[p] /\ file'[p] = file[p]
         /\ q # None => log'[q] = None
<1>1. CASE q = None
  BY <1>1 DEF Closes, Shown, TypeOK
<1>2. CASE q \in Places
  <2>1. file' = Folded(q) /\ log' = Unlogged(q)  BY <1>2 DEF Closes
  <2>2. \A p \in Places : p # q => file'[p] = file[p]
    BY <2>1, <1>2 DEF Folded, TypeOK
  <2> QED  BY <1>2, <2>1, <2>2, FoldedShows
<1> QED  BY <1>1, <1>2

\* Every step of a move, and every restart, keeps every edit.
LEMMA QuietStep == Inv /\ [Next]_vars => (Quiet => QuietLogs /\ QuietMove /\ QuietEdits)'
<1> SUFFICES ASSUME Inv, [Next]_vars, Quiet'
             PROVE  (QuietLogs /\ QuietMove /\ QuietEdits)'
  OBVIOUS
<1>0. Quiet /\ faults = {}
  BY DEF Next, vars, Edit, ReaderBegins, ReaderEnds, Close, Copy, CopyFails, Verify,
         VerifyFails, OpenCopy, DeleteOriginal, DeleteFails, Save, Apply, Stop, Start, Quiet
<1> USE <1>0 DEF Inv, Safe, TypeOK, Ends, OpenInService, WholeInService,
                 QuietLogs, QuietMove, QuietEdits
<1>1. CASE Edit
  <2>1. pc = "idle" /\ manager = service /\ setting = service  BY <1>1 DEF Edit
  <2>2. Shown(service)' = committed'  BY <1>1, <2>1 DEF Edit, Shown, Contents
  <2> QED  BY <1>1, <2>1, <2>2 DEF Edit, NothingLost, Contents
<1>2. ~ReaderBegins /\ ~ReaderEnds /\ ~DeleteFails
  BY DEF ReaderBegins, ReaderEnds, DeleteFails
<1>3. ASSUME NEW place \in Places, Close(place)
      PROVE  (QuietLogs /\ QuietMove /\ QuietEdits)'
  BY <1>3, ClosedShows, ClosedFiles DEF Close, NothingLost
<1>4. CASE Copy
  <2>1. PICK copy \in {file[service], Torn} : file' = [file EXCEPT ![target] = copy]
    BY <1>4 DEF Copy
  <2>2. \A q \in Places : q # target => Shown(q)' = Shown(q)
    BY <1>4, <2>1 DEF Copy, Shown
  <2> QED  BY <1>4, <2>1, <2>2 DEF Copy, NothingLost, Contents
<1>5. CASE CopyFails
  <2>1. \A q \in Places : q # target => Shown(q)' = Shown(q)
    BY <1>5 DEF CopyFails, Shown
  <2> QED  BY <1>5, <2>1 DEF CopyFails, NothingLost
<1>6. CASE Verify
  BY <1>6 DEF Verify, Shown, NothingLost
<1>7. CASE VerifyFails
  <2>1. \A q \in Places : q # target => Shown(q)' = Shown(q)
    BY <1>7 DEF VerifyFails, Shown
  <2> QED  BY <1>7, <2>1 DEF VerifyFails, NothingLost
<1>8. CASE OpenCopy
  BY <1>8 DEF OpenCopy, Shown, NothingLost
<1>9. CASE DeleteOriginal
  <2>1. \A q \in Places : q # origin => Shown(q)' = Shown(q)
    BY <1>9 DEF DeleteOriginal, Unlogged, Shown
  <2> QED  BY <1>9, <2>1 DEF DeleteOriginal, Unlogged, NothingLost, Contents
<1>10. CASE Save
  BY <1>10 DEF Save, Shown, NothingLost
<1>11. CASE Apply
  BY <1>11, ClosedShows, ClosedFiles DEF Apply, NothingLost
<1>12. CASE Stop
  <2>1. \A q \in Places : q # target \/ pc # "closed" => Shown(q)' = Shown(q)
    BY <1>12 DEF Stop, Shown
  <2> QED  BY <1>12, <2>1 DEF Stop, Running, NothingLost, Contents
<1>13. CASE Start
  BY <1>13 DEF Start, Shown, NothingLost
<1>14. CASE UNCHANGED vars
  BY <1>14 DEF vars, Shown, NothingLost
<1> QED
  BY <1>1, <1>2, <1>3, <1>4, <1>5, <1>6, <1>7, <1>8, <1>9, <1>10, <1>11, <1>12,
     <1>13, <1>14 DEF Next

--------------------------------------------------------------------------------
\* The theorems

\* The invariant is inductive.
LEMMA Invariant == Spec => []Inv
<1>1. Init => Inv
  BY DEF Init, Inv, Safe, TypeOK, Bounded, Ends, OpenInService, WholeInService, Quiet,
         QuietLogs, QuietMove, QuietEdits, NothingLost, Shown, Contents
<1>2. Inv /\ [Next]_vars => Inv'
  BY SafeStep, QuietStep DEF Inv
<1> QED  BY <1>1, <1>2, PTL DEF Spec

\* Every variable has its type in every reachable state, and nothing is open
\* while the copy is made.
THEOREM TypeCorrect == Spec => []TypeOK
<1>1. Inv => TypeOK  BY DEF Inv, Safe
<1> QED  BY <1>1, Invariant, PTL

\* A move of the database, however often it fails or is cut off, leaves a whole
\* copy, opens nothing that is torn and, while nothing else touches the files,
\* loses no edit and ends in the place the setting names.
THEOREM MovesAreSafe == Spec => []MoveIsSafe
<1>1. Inv => MoveIsSafe
  <2> SUFFICES ASSUME Inv PROVE MoveIsSafe
    OBVIOUS
  <2> USE DEF Inv, Safe, TypeOK, Ends, OpenInService, WholeInService
  <2>1. NothingLost  BY DEF QuietEdits, NothingLost
  <2>2. WholeSomewhere  BY DEF WholeSomewhere
  <2>3. OpenIsWhole
    <3>1. pc # "setup" \/ manager = None  OBVIOUS
    <3> QED  BY <3>1 DEF OpenIsWhole
  <2>4. MovedWhole  BY DEF MovedWhole, QuietMove, QuietEdits
  <2> QED  BY <2>1, <2>2, <2>3, <2>4 DEF MoveIsSafe
<1> QED  BY <1>1, Invariant, PTL
================================================================================
