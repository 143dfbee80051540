---------------------------- MODULE RebuildSwapProofs ----------------------------
(***************************************************************************)
(* Theorems about RebuildSwap, for every set of sizes and every bound on   *)
(* rebuilds and on maintenance writes.                                     *)
(***************************************************************************)
EXTENDS RebuildSwap, TLAPS

USE SizeAssumption, BoundAssumption, NoneAssumption

--------------------------------------------------------------------------------
\* Files

\* Other edits change nothing else of a database.
LEMMA EditsOf ==
  ASSUME NEW f \in Db, NEW e \in 0 .. MaxEdits
  PROVE  /\ [f EXCEPT !.edits = e] \in Db
         /\ [f EXCEPT !.edits = e].edits = e
         /\ [f EXCEPT !.edits = e].build = f.build
         /\ [f EXCEPT !.edits = e].whole = f.whole
         /\ [f EXCEPT !.edits = e] # NoFile
BY DEF Db

\* The edits it has change nothing.
LEMMA SameEdits ==
  ASSUME NEW f \in Db
  PROVE  [f EXCEPT !.edits = f.edits] = f
BY DEF Db

\* The last edits count.
LEMMA EditedTwice ==
  ASSUME NEW f \in Db, NEW e \in 0 .. MaxEdits, NEW d \in 0 .. MaxEdits
  PROVE  [[f EXCEPT !.edits = e] EXCEPT !.edits = d] = [f EXCEPT !.edits = d]
BY DEF Db

\* What stays in a log of which a part is folded.
LEMMA LogLeft ==
  ASSUME NEW e \in Nat, NEW w \in Nat, NEW f \in Nat, e <= f, f <= e + w, e + w <= MaxEdits
  PROVE  /\ e + w - f \in 0 .. MaxEdits
         /\ f + (e + w - f) = e + w
         /\ e + w - f > 0 => w > 0
OBVIOUS

\* A file that was torn is one.
LEMMA TornIsFile ==
  ASSUME NEW f \in Db
  PROVE  Torn(f) \in Db
BY DEF Db, Torn

\* A copy is a file of the same build, and the same file if it was left alone.
LEMMA CopyIsFile ==
  ASSUME NEW f \in Db, NEW g \in CopyOf(f)
  PROVE  /\ g \in Db /\ g # NoFile /\ g.build = f.build
         /\ ~stirred => g = f
<1>1. Torn(f) \in Db /\ Torn(f).build = f.build
  BY DEF Db, Torn
<1>2. f # NoFile /\ Torn(f) # NoFile
  BY <1>1
<1> QED
  BY <1>1, <1>2 DEF CopyOf

\* What sessions see of a database, and that it is the file itself when the
\* log is empty.
LEMMA ContentsFacts ==
  ASSUME TypeOK
  PROVE  /\ live = NoFile => Contents = NoFile
         /\ live # NoFile =>
              /\ Contents \in Db /\ Contents # NoFile
              /\ live \in Db /\ live.edits \in Nat /\ wal \in Nat
              /\ Contents.edits = live.edits + wal
              /\ Contents.build = live.build
              /\ Contents.whole = live.whole
         /\ wal = 0 => Contents = live
<1>1. CASE live = NoFile
  BY <1>1 DEF Contents
<1>2. CASE live # NoFile
  <2>1. live \in Db
    BY <1>2 DEF TypeOK
  <2>2. live.edits \in 0 .. MaxEdits
    BY <2>1 DEF Db
  <2>3. live.edits + wal \in 0 .. MaxEdits
    BY <1>2, <2>2 DEF TypeOK
  <2>4. Contents = [live EXCEPT !.edits = live.edits + wal]
    BY <1>2 DEF Contents
  <2>5. wal = 0 => live.edits + wal = live.edits
    BY <2>2
  <2>6. wal \in Nat /\ live.edits \in Nat
    BY <2>2 DEF TypeOK
  <2>7. wal = 0 => Contents = live
    BY <2>1, <2>4, <2>5, SameEdits
  <2> QED
    BY <1>2, <2>1, <2>3, <2>4, <2>6, <2>7, EditsOf
<1> QED
  BY <1>1, <1>2

--------------------------------------------------------------------------------
\* Type correctness

\* The steps at which the outgoing log has been removed.
Emptied == {"replace", "reopen", "r_replace", "r_exchange", "r_reopen"}

\* A session never sees more than was committed; while files are exchanged
\* the manager is closed, and once the log is gone nothing writes.
Order ==
  /\ reader # NoReader => live # NoFile /\ reader <= live.edits + wal
  /\ pc \in Emptied => wal = 0 /\ reader = NoReader
  /\ pc \in SwapSteps \cup Emptied => ~open
  /\ pc \in RebuildSteps \cup RollbackSteps => up /\ target \in Db /\ target.whole
  /\ pc = "verify" => candidate \in {target, Torn(target)}
  /\ pc \in {"close", "keep", "keeping", "clear", "replace"} => candidate = target
  /\ pc \in {"r_close", "r_copy", "r_copying", "r_clear", "r_replace"} => previous = target
  /\ pc \in {"reopen", "r_exchange", "r_reopen"} => live = target
  /\ pc \in {"keeping", "r_copying"} => live # NoFile

TypeInv == TypeOK /\ Order

\* What Close does to the file and its log.
LEMMA CloseFacts ==
  ASSUME TypeInv, NEW next, Close(next)
  PROVE  /\ live' \in Db \cup {NoFile} /\ wal' \in 0 .. MaxEdits
         /\ live = NoFile => live' = NoFile /\ wal' = wal
         /\ live # NoFile =>
              /\ live' \in Db /\ live' # NoFile
              /\ live'.edits + wal' = live.edits + wal
              /\ live'.build = live.build /\ live'.whole = live.whole
              /\ live'.edits + wal' <= MaxEdits
              /\ wal' > 0 => wal > 0
         /\ Contents' = Contents
         /\ current' = Contents /\ current' \in Db \cup {NoFile}
         /\ cut' \in BOOLEAN
         /\ ~cut' => wal' = 0 \/ live = NoFile
         /\ open' = FALSE /\ wasOpen' = open /\ pc' = next
<1> USE DEF TypeInv
<1> DEFINE seen   == live.edits + wal
           folded == IF reader = NoReader THEN seen
                     ELSE IF reader < live.edits THEN live.edits ELSE reader
<1>1. current' = Contents /\ open' = FALSE /\ wasOpen' = open /\ pc' = next
  BY DEF Close
<1>2. current' \in Db \cup {NoFile}
  BY <1>1, ContentsFacts
<1>3. CASE open /\ live # NoFile
  <2>1. /\ live' = [live EXCEPT !.edits = folded]
        /\ wal' = seen - folded
        /\ cut' = (folded < seen)
    BY <1>3 DEF Close
  <2>1a. wal' = seen - folded
    BY <1>3 DEF Close
  <2>2. live \in Db /\ live.edits \in 0 .. MaxEdits /\ wal \in 0 .. MaxEdits
    BY <1>3 DEF TypeOK, Db
  <2>3. seen \in 0 .. MaxEdits
    BY <1>3, <2>2 DEF TypeOK
  <2>4. reader \in 0 .. MaxEdits \cup {NoReader} /\ (reader # NoReader => reader <= seen)
    BY DEF TypeOK, Order
  <2>5. folded \in 0 .. MaxEdits /\ folded <= seen /\ live.edits <= folded
    <3>1. CASE reader = NoReader
      BY <2>2, <2>3, <3>1
    <3>2. CASE reader # NoReader
      <4>1. reader \in 0 .. MaxEdits /\ reader <= seen
        BY <2>4, <3>2
      <4>2. CASE reader < live.edits
        BY <2>2, <2>3, <3>2, <4>2
      <4>3. CASE ~(reader < live.edits)
        BY <2>2, <2>3, <3>2, <4>1, <4>3
      <4> QED
        BY <4>2, <4>3
    <3> QED
      BY <3>1, <3>2
  <2> HIDE DEF folded
  <2>6. /\ live' \in Db /\ live' # NoFile /\ live'.edits = folded
        /\ live'.build = live.build /\ live'.whole = live.whole
    BY <2>1, <2>2, <2>5, EditsOf
  <2>7. wal' \in 0 .. MaxEdits /\ folded + wal' = seen /\ (wal' > 0 => wal > 0)
    <3>1. folded \in Nat /\ live.edits \in Nat /\ wal \in Nat /\ live.edits <= folded
      BY <2>2, <2>5
    <3>2. folded <= live.edits + wal /\ live.edits + wal <= MaxEdits
      BY <2>3, <2>5
    <3>3. wal' = live.edits + wal - folded
      BY <2>1a, <3>1
    <3> QED
      BY <3>1, <3>2, <3>3, LogLeft
  <2>8. cut' \in BOOLEAN /\ (~cut' => wal' = 0)
    <3>1. folded \in Int /\ seen \in Int
      BY <2>3, <2>5
    <3>2. CASE folded < seen
      BY <2>1, <3>2
    <3>3. CASE ~(folded < seen)
      BY <2>1, <2>5, <3>1, <3>3
    <3> QED
      BY <3>2, <3>3
  <2>9. Contents' = Contents
    <3>1. Contents' = [live' EXCEPT !.edits = live'.edits + wal']
      BY <2>6 DEF Contents
    <3>2. Contents = [live EXCEPT !.edits = seen]
      BY <1>3 DEF Contents
    <3>3. live'.edits + wal' = seen
      BY <2>6, <2>7
    <3>4. [live' EXCEPT !.edits = seen] = [live EXCEPT !.edits = seen]
      BY <2>1, <2>2, <2>3, <2>5, EditedTwice
    <3> QED
      BY <3>1, <3>2, <3>3, <3>4
  <2> QED
    BY <1>1, <1>2, <1>3, <2>3, <2>6, <2>7, <2>8, <2>9
<1>4. CASE ~(open /\ live # NoFile)
  <2>1. live' = live /\ wal' = wal /\ cut' = (wal > 0)
    BY <1>4 DEF Close
  <2>2. wal \in 0 .. MaxEdits
    BY DEF TypeOK
  <2>3. cut' \in BOOLEAN /\ (~cut' => wal' = 0)
    <3>1. CASE wal > 0
      BY <2>1, <3>1
    <3>2. CASE ~(wal > 0)
      BY <2>1, <2>2, <3>2
    <3> QED
      BY <3>1, <3>2
  <2>4. Contents' = Contents
    BY <2>1 DEF Contents
  <2> QED
    BY <1>1, <1>2, <2>1, <2>3, <2>4 DEF TypeOK
<1> QED
  BY <1>3, <1>4

\* The types hold.
LEMMA TypeInvariant == Spec => []TypeInv
<1>1. Init => TypeInv
  <2> SUFFICES ASSUME Init PROVE TypeInv
    OBVIOUS
  <2>1. live \in Db \cup {NoFile} /\ (live # NoFile => live.edits = 0)
    BY DEF Init
  <2>2. 0 \in 0 .. MaxEdits /\ 0 \in 0 .. MaxBuilds
    OBVIOUS
  <2>3. live # NoFile => live.edits + wal <= MaxEdits
    BY <2>1 DEF Init
  <2>4. /\ up \in BOOLEAN /\ open \in BOOLEAN /\ wasOpen \in BOOLEAN
        /\ allowed \in BOOLEAN /\ cut \in BOOLEAN /\ leftover \in BOOLEAN
        /\ stirred \in BOOLEAN
    BY DEF Init
  <2>5. TypeOK
    BY <2>1, <2>2, <2>3, <2>4 DEF Init, TypeOK
  <2> QED
    BY <2>5 DEF Init, TypeInv, Order, SwapSteps, RebuildSteps, RollbackSteps, Emptied
<1>2. TypeInv /\ [Next]_vars => TypeInv'
  <2> SUFFICES ASSUME TypeInv, [Next]_vars
               PROVE  TypeInv'
    OBVIOUS
  <2> USE DEF TypeInv
  <2> DEFINE Steps == RebuildSteps \cup RollbackSteps
  <2>0. /\ wal \in Nat /\ MaxEdits \in Nat
        /\ live # NoFile => live \in Db /\ live.edits \in Nat
    BY DEF TypeOK, Db
  <2>1. CASE Edit
    <3>1. /\ wal' = wal + 1 /\ logOf' = live.build /\ live # NoFile
          /\ live.edits + wal < MaxEdits
          /\ UNCHANGED <<up, pc, built, open, wasOpen, live, reader, candidate, previous,
                         superseded, outcome, allowed, current, target, cut, leftover,
                         stirred>>
      BY <2>1 DEF Edit
    <3>2. wal' \in 0 .. MaxEdits /\ live.edits + wal' <= MaxEdits
      BY <2>0, <3>1
    <3>3. logOf' \in 0 .. MaxBuilds
      BY <2>0, <3>1 DEF Db
    <3>4. TypeOK'
      BY <3>1, <3>2, <3>3 DEF TypeOK
    <3>5. reader # NoReader => reader <= live.edits + wal'
      <4>1. reader # NoReader => reader \in Nat
        BY DEF TypeOK
      <4> QED
        BY <2>0, <3>1, <4>1 DEF Order
    <3>6. pc \notin Emptied
      BY <2>1 DEF Edit, Order, SwapSteps
    <3> QED
      BY <3>1, <3>4, <3>5, <3>6 DEF Order, Torn
  <2>2. CASE ReaderBegins
    <3>1. /\ reader' = live.edits + wal /\ live # NoFile /\ open
          /\ UNCHANGED <<up, pc, built, open, wasOpen, live, wal, candidate, previous,
                         superseded, outcome, history>>
      BY <2>2 DEF ReaderBegins
    <3>2. reader' \in 0 .. MaxEdits
      BY <2>0, <3>1 DEF TypeOK
    <3>3. TypeOK'
      BY <3>1, <3>2 DEF TypeOK, history
    <3>4. reader' <= live.edits + wal
      BY <2>0, <3>1
    <3> QED
      BY <3>1, <3>3, <3>4 DEF Order, Torn, history
  <2>3. CASE ReaderEnds
    <3>1. /\ reader' = NoReader /\ reader # NoReader
          /\ UNCHANGED <<up, pc, built, open, wasOpen, candidate, previous, superseded,
                         outcome, allowed, current, target, logOf, cut, leftover>>
          /\ stirred' \in BOOLEAN
          /\ \/ live' = live /\ wal' = wal
             \/ live' = Contents /\ wal' = 0
      BY <2>3 DEF ReaderEnds, TypeOK
    <3>2. pc \notin Emptied
      BY <3>1 DEF Order
    <3>3. /\ live' \in Db \cup {NoFile} /\ wal' \in 0 .. MaxEdits
          /\ live' # NoFile => live'.edits + wal' <= MaxEdits
          /\ live # NoFile => live' # NoFile
      <4>1. CASE live' = live /\ wal' = wal
        BY <4>1 DEF TypeOK
      <4>2. CASE live' = Contents /\ wal' = 0
        BY <2>0, <4>2, ContentsFacts DEF TypeOK
      <4> QED
        BY <3>1, <4>1, <4>2
    <3>4. TypeOK'
      BY <3>1, <3>3 DEF TypeOK
    <3> QED
      BY <3>1, <3>2, <3>3, <3>4 DEF Order, Torn, Emptied
  <2>4. CASE Elsewhere
    <3>1. /\ open' = ~open /\ live' = Contents /\ wal' = 0 /\ pc = "idle"
          /\ reader = NoReader
          /\ UNCHANGED <<up, pc, built, wasOpen, reader, candidate, previous,
                         superseded, outcome, history>>
      BY <2>4 DEF Elsewhere, At
    <3>2. /\ live' \in Db \cup {NoFile} /\ wal' \in 0 .. MaxEdits
          /\ live' # NoFile => live'.edits + wal' <= MaxEdits
      BY <2>0, <3>1, ContentsFacts DEF TypeOK
    <3>3. open' \in BOOLEAN
      BY <3>1
    <3>4. TypeOK'
      BY <3>1, <3>2, <3>3 DEF TypeOK, history
    <3> QED
      BY <3>1, <3>4 DEF Order, RebuildSteps, RollbackSteps, SwapSteps, Emptied
  <2>5. CASE \E size \in Sizes, allow \in BOOLEAN : StartRebuild(size, allow)
    <3>1. PICK size \in Sizes, allow \in BOOLEAN : StartRebuild(size, allow)
      BY <2>5
    <3>2. built' \in 0 .. MaxBuilds /\ target' \in Db /\ target'.whole
      BY <3>1 DEF StartRebuild, TypeOK, Db
    <3>3. TypeOK'
      BY <3>1, <3>2 DEF StartRebuild, TypeOK, At, RebuildSteps
    <3> QED
      BY <3>1, <3>2, <3>3 DEF StartRebuild, At, Order, RebuildSteps, RollbackSteps,
                              SwapSteps, Emptied
  <2>6. CASE \E size \in Sizes : RefuseRebuild(size)
    BY <2>6 DEF RefuseRebuild, At, TypeOK, Order, history, Torn
  <2>7. CASE Build
    <3>1. target \in Db /\ Torn(target) \in Db
      BY <2>7, TornIsFile DEF Build, At, Order, RebuildSteps
    <3>2. TypeOK'
      BY <2>7, <3>1 DEF Build, At, TypeOK, history, RebuildSteps
    <3> QED
      BY <2>7, <3>2 DEF Build, At, Order, history, RebuildSteps, RollbackSteps,
                        SwapSteps, Emptied, Torn
  <2>8. CASE VerifyCandidate
    <3>1. target \in Db /\ candidate \in {target, Torn(target)} /\ candidate.whole
      BY <2>8 DEF VerifyCandidate, At, Order, RebuildSteps
    <3>2. candidate = target
      <4>1. ~Torn(target).whole
        BY <3>1 DEF Torn, Db
      <4> QED
        BY <3>1, <4>1
    <3> QED
      BY <2>8, <3>2 DEF VerifyCandidate, At, TypeOK, Order, history, RebuildSteps,
                        RollbackSteps, SwapSteps, Emptied
  <2>9. CASE CloseForInstall \/ CloseForRollback
    <3>1. PICK next \in {"keep", "r_copy"} :
            /\ Close(next)
            /\ next = "keep" => pc = "close"
            /\ next = "r_copy" => pc = "r_close"
      BY <2>9 DEF CloseForInstall, CloseForRollback, At
    <3>2. UNCHANGED <<up, built, reader, candidate, previous, superseded, outcome,
                      allowed, target, logOf, leftover, stirred>>
      BY <2>9 DEF CloseForInstall, CloseForRollback
    <3>3. /\ live' \in Db \cup {NoFile} /\ wal' \in 0 .. MaxEdits
          /\ current' \in Db \cup {NoFile} /\ cut' \in BOOLEAN
          /\ open' = FALSE /\ wasOpen' = open /\ pc' = next
          /\ live = NoFile => live' = NoFile
          /\ live # NoFile => /\ live' # NoFile
                             /\ live'.edits + wal' = live.edits + wal
                             /\ live'.edits + wal' <= MaxEdits
      BY <3>1, CloseFacts
    <3>4. wasOpen' \in BOOLEAN /\ open' \in BOOLEAN
      BY <3>3 DEF TypeOK
    <3>5. live' # NoFile => live'.edits + wal' <= MaxEdits
      BY <3>3
    <3>6. pc' \in RebuildSteps \cup RollbackSteps
      BY <3>1, <3>3 DEF RebuildSteps, RollbackSteps
    <3>7. TypeOK'
      BY <3>2, <3>3, <3>4, <3>5, <3>6 DEF TypeOK
    <3> QED
      BY <3>1, <3>2, <3>3, <3>7 DEF Order, RebuildSteps, RollbackSteps, SwapSteps, Emptied
  <2>10. CASE KeepPrevious
    <3>1. live # NoFile => Torn(live) \in Db
      BY <2>0, TornIsFile
    <3>2. TypeOK'
      BY <2>10, <3>1 DEF KeepPrevious, At, TypeOK, history, RebuildSteps
    <3> QED
      BY <2>10, <3>2 DEF KeepPrevious, At, Order, history, RebuildSteps, RollbackSteps,
                         SwapSteps, Emptied
  <2>11. CASE Kept
    <3>0. live \in Db
      BY <2>0, <2>11 DEF Kept, At, Order
    <3>1. TypeOK'
      <4>1. previous' \in Db
        BY <2>11, <3>0, CopyIsFile DEF Kept
      <4> QED
        BY <2>11, <4>1 DEF Kept, At, TypeOK, history, RebuildSteps
    <3> QED
      BY <2>11, <3>1 DEF Kept, At, Order, history, RebuildSteps, RollbackSteps,
                         SwapSteps, Emptied
  <2>12. CASE ClearForCandidate \/ ClearForPrevious
    <3>1. TypeOK'
      BY <2>0, <2>12 DEF ClearForCandidate, ClearForPrevious, ClearSidecars, At, TypeOK,
                         history, RebuildSteps, RollbackSteps
    <3> QED
      BY <2>12, <3>1 DEF ClearForCandidate, ClearForPrevious, ClearSidecars, At, Order,
                         history, RebuildSteps, RollbackSteps, SwapSteps, Emptied
  <2>13. CASE InstallCandidate \/ InstallPrevious
    <3>1. /\ live' = target /\ target \in Db /\ target.edits \in 0 .. MaxEdits /\ wal = 0
          /\ reader = NoReader
      BY <2>13 DEF InstallCandidate, InstallPrevious, Replace, At, Order, Db,
                   RebuildSteps, RollbackSteps, Emptied
    <3>2. TypeOK'
      BY <2>13, <3>1 DEF InstallCandidate, InstallPrevious, Replace, TypeOK,
                         history, RebuildSteps, RollbackSteps
    <3> QED
      BY <2>13, <3>1, <3>2 DEF InstallCandidate, InstallPrevious, Replace, At, Order,
                         history, RebuildSteps, RollbackSteps, SwapSteps, Emptied
  <2>14. CASE ReopenRebuilt \/ ReopenRolledBack
    <3>1. TypeOK'
      BY <2>14 DEF ReopenRebuilt, ReopenRolledBack, Reopen, At, TypeOK, history
    <3> QED
      BY <2>14, <3>1 DEF ReopenRebuilt, ReopenRolledBack, Reopen, At, Order, history,
                         RebuildSteps, RollbackSteps, SwapSteps, Emptied
  <2>15. CASE StartRollback
    <3>1. leftover' \in BOOLEAN
      BY <2>15 DEF StartRollback
    <3>2. TypeOK'
      BY <2>15, <3>1 DEF StartRollback, At, TypeOK, RollbackSteps
    <3>3. target' \in Db /\ target'.whole
      BY <2>15 DEF StartRollback, TypeOK
    <3> QED
      BY <2>15, <3>2, <3>3 DEF StartRollback, At, Order, RebuildSteps, RollbackSteps,
                               SwapSteps, Emptied
  <2>16. CASE RefuseRollback
    BY <2>16 DEF RefuseRollback, At, TypeOK, Order, history, Torn
  <2>17. CASE Supersede
    <3>1. live # NoFile => Torn(live) \in Db
      BY <2>0, TornIsFile
    <3>2. TypeOK'
      BY <2>17, <3>1 DEF Supersede, At, TypeOK, history, RollbackSteps
    <3> QED
      BY <2>17, <3>2 DEF Supersede, At, Order, history, RebuildSteps, RollbackSteps,
                         SwapSteps, Emptied
  <2>18. CASE Superseded
    <3>0. live \in Db
      BY <2>0, <2>18 DEF Superseded, At, Order
    <3>1. TypeOK'
      <4>1. superseded' \in Db
        BY <2>18, <3>0, CopyIsFile DEF Superseded
      <4> QED
        BY <2>18, <4>1 DEF Superseded, At, TypeOK, history, RollbackSteps
    <3> QED
      BY <2>18, <3>1 DEF Superseded, At, Order, history, RebuildSteps, RollbackSteps,
                         SwapSteps, Emptied
  <2>19. CASE Exchange
    <3>1. TypeOK'
      BY <2>19 DEF Exchange, At, TypeOK, history, RollbackSteps
    <3> QED
      BY <2>19, <3>1 DEF Exchange, At, Order, history, RebuildSteps, RollbackSteps,
                         SwapSteps, Emptied
  <2>20. CASE BuildFails
    <3>1. TypeOK'
      BY <2>20 DEF BuildFails, TypeOK, history
    <3> QED
      BY <2>20, <3>1 DEF BuildFails, Order, history, RebuildSteps, RollbackSteps,
                         SwapSteps, Emptied
  <2>21. CASE SwapFails
    <3>1. open' \in BOOLEAN
      BY <2>21 DEF SwapFails
    <3>2. TypeOK'
      BY <2>21, <3>1 DEF SwapFails, TypeOK, history
    <3> QED
      BY <2>21, <3>2 DEF SwapFails, Order, history, RebuildSteps, RollbackSteps,
                         SwapSteps, Emptied
  <2>22. CASE Stop
    <3>1. TypeOK'
      BY <2>22 DEF Stop, TypeOK, history
    <3> QED
      BY <2>22, <3>1 DEF Stop, Order, history, RebuildSteps, RollbackSteps,
                         SwapSteps, Emptied
  <2>23. CASE Start
    <3>1. open' \in BOOLEAN
      BY <2>23 DEF Start
    <3>2. TypeOK'
      BY <2>23, <3>1 DEF Start, TypeOK, history
    <3>3. pc \notin RebuildSteps \cup RollbackSteps
      BY <2>23 DEF Start, Order
    <3> QED
      BY <2>23, <3>2, <3>3 DEF Start, Order, history, RebuildSteps, RollbackSteps,
                         SwapSteps, Emptied
  <2>24. CASE UNCHANGED vars
    BY <2>24 DEF vars, TypeOK, Order, Torn
  <2> QED
    BY <2>1, <2>2, <2>3, <2>4, <2>5, <2>6, <2>7, <2>8, <2>9, <2>10, <2>11, <2>12,
       <2>13, <2>14, <2>15, <2>16, <2>17, <2>18, <2>19, <2>20, <2>21, <2>22, <2>23,
       <2>24 DEF Next, Use, Rebuild, Rollback
<1> QED
  BY <1>1, <1>2, PTL DEF Spec

\* The values every step gives the state (rebuild(), rollback(), close() and
\* the sessions around them) have the types of TypeOK.
THEOREM TypeCorrect == Spec => []TypeOK
<1>1. TypeInv => TypeOK
  BY DEF TypeInv
<1> QED
  BY <1>1, TypeInvariant, PTL

--------------------------------------------------------------------------------
\* What a swap has in hand

\* f is at least g if it is g, or has later writes than g.
LEMMA AtLeastFacts ==
  /\ \A f \in Db \cup {NoFile} : AtLeast(f, f)
  /\ \A f \in Db \cup {NoFile} : AtLeast(f, NoFile) <=> f = NoFile
  /\ \A f \in Db, g \in Db, e \in 0 .. MaxEdits :
       AtLeast(f, g) /\ e >= f.edits => AtLeast([f EXCEPT !.edits = e], g)
<1>1. ASSUME NEW f \in Db
      PROVE  AtLeast(f, f) /\ f # NoFile /\ f.edits \in Nat
  BY <1>1 DEF AtLeast, Db
<1>2. ASSUME NEW f \in Db, NEW g \in Db, NEW e \in 0 .. MaxEdits,
             AtLeast(f, g), e >= f.edits
      PROVE  AtLeast([f EXCEPT !.edits = e], g)
  <2>1. /\ f.edits >= g.edits /\ f = [g EXCEPT !.edits = f.edits]
        /\ f.edits \in 0 .. MaxEdits /\ g.edits \in 0 .. MaxEdits /\ g # NoFile
    BY <1>1, <1>2 DEF AtLeast, Db
  <2>2. PICK h \in Db : h = [f EXCEPT !.edits = e]
    BY EditsOf
  <2>3. h.edits = e /\ h # NoFile
    BY <2>2, EditsOf
  <2>4. h = [g EXCEPT !.edits = e]
    BY <2>1, <2>2, EditedTwice
  <2>5. e >= g.edits
    BY <1>2, <2>1
  <2>6. AtLeast(h, g)
    BY <2>3, <2>4, <2>5 DEF AtLeast
  <2> QED
    BY <2>2, <2>6
<1>3. AtLeast(NoFile, NoFile)
  BY DEF AtLeast
<1> QED
  BY <1>1, <1>2, <1>3 DEF AtLeast

\* Until the log is removed the working database is the one that was closed, or
\* that one with what open sessions committed since; if it was folded completely,
\* so is the file.  From then on a complete copy of that file is where the
\* operation keeps it, if nothing changed the file while it was copied.
Holds ==
  /\ pc \in {"keep", "keeping", "clear", "r_copy", "r_copying", "r_clear"} =>
       /\ AtLeast(Contents, current)
       /\ ~cut => AtLeast(live, current)
  /\ pc \in {"replace", "r_replace"} /\ ~cut => AtLeast(live, current)
  /\ pc \in {"clear", "replace", "reopen"} /\ ~cut /\ ~stirred /\ current # NoFile =>
       AtLeast(previous, current)
  /\ pc \in {"r_clear", "r_replace", "r_exchange"} /\ ~cut /\ ~stirred
       /\ current # NoFile => AtLeast(superseded, current)
  /\ pc = "r_reopen" /\ ~cut /\ ~stirred /\ current # NoFile => AtLeast(previous, current)

SwapInv == LiveWhole /\ LogBelongs /\ Holds

\* The steps between the close and the removal of the log.
Closed == {"keep", "keeping", "clear", "r_copy", "r_copying", "r_clear"}

\* Every step keeps what the swap relies on.
LEMMA SwapInvStep ==
  ASSUME TypeInv, TypeInv', SwapInv, [Next]_vars
  PROVE  SwapInv'
<1> USE DEF SwapInv
<1>0. /\ wal \in Nat
      /\ live # NoFile => live \in Db
      /\ wal = 0 => Contents = live
      /\ live = NoFile => Contents = NoFile
      /\ live # NoFile => Contents \in Db /\ Contents # NoFile
                          /\ Contents.whole = live.whole /\ Contents.build = live.build
  BY ContentsFacts DEF TypeInv, TypeOK
<1>a. wal' = 0 => Contents' = live'
  <2>1. CASE live' = NoFile
    BY <2>1 DEF Contents
  <2>2. CASE live' # NoFile
    <3>1. live' \in Db
      BY <2>2 DEF TypeInv, TypeOK
    <3>2. wal' = 0 => live'.edits + wal' = live'.edits
      BY <3>1 DEF Db
    <3>3. [live' EXCEPT !.edits = live'.edits] = live'
      BY <3>1, SameEdits
    <3> QED
      BY <2>2, <3>2, <3>3 DEF Contents
  <2> QED
    BY <2>1, <2>2
<1>b. (live' = live /\ wal' = wal) => Contents' = Contents
  BY DEF Contents
<1>c. /\ current \in Db \cup {NoFile} /\ live \in Db \cup {NoFile}
      /\ live # NoFile => live.edits \in 0 .. MaxEdits /\ live.edits + wal \in 0 .. MaxEdits
  <2>1. live # NoFile => live.edits \in 0 .. MaxEdits
    BY <1>0 DEF Db
  <2> QED
    BY <1>0, <2>1 DEF TypeInv, TypeOK
<1>1. CASE Edit
  <2>1. /\ wal' = wal + 1 /\ logOf' = live.build /\ live # NoFile /\ live' = live
        /\ UNCHANGED <<pc, previous, superseded, current, cut, stirred>>
        /\ live.edits + wal < MaxEdits
    BY <1>1 DEF Edit
  <2>2. LiveWhole' /\ LogBelongs'
    BY <2>1 DEF LiveWhole, LogBelongs
  <2>3. AtLeast(Contents, current) => AtLeast(Contents, current)'
    <3>1. CASE current = NoFile
      BY <1>0, <1>c, <2>1, <3>1, AtLeastFacts
    <3>2. CASE current # NoFile
      <4>1. PICK e \in 0 .. MaxEdits : e = live.edits + wal'
        BY <1>0, <1>c, <2>1
      <4>2. PICK c \in Db : c = Contents
        BY <1>0, <2>1
      <4>3. c = [live EXCEPT !.edits = live.edits + wal] /\ c.edits = live.edits + wal
        BY <2>1, <4>2, ContentsFacts DEF Contents, TypeInv
      <4>4. Contents' = [live EXCEPT !.edits = e]
        BY <2>1, <4>1 DEF Contents
      <4>5. Contents' = [c EXCEPT !.edits = e]
        BY <1>0, <1>c, <2>1, <4>1, <4>3, <4>4, EditedTwice
      <4>6. e >= c.edits
        BY <1>0, <1>c, <2>1, <4>1, <4>3
      <4>7. AtLeast(c, current) => AtLeast([c EXCEPT !.edits = e], current)
        BY <1>c, <3>2, <4>6, AtLeastFacts
      <4> QED
        BY <2>1, <4>2, <4>5, <4>7
    <3> QED
      BY <3>1, <3>2
  <2> QED
    BY <2>1, <2>2, <2>3 DEF Holds
<1>2. CASE ReaderBegins
  <2>1. UNCHANGED <<pc, live, wal, previous, superseded, current, logOf, cut, stirred>>
    BY <1>2 DEF ReaderBegins, history
  <2> QED
    BY <1>b, <2>1 DEF LiveWhole, LogBelongs, Holds
<1>3. CASE ReaderEnds
  <2>1. /\ UNCHANGED <<pc, previous, superseded, current, logOf, cut>>
        /\ stirred => stirred'
        /\ \/ live' = live /\ wal' = wal
           \/ live' = Contents /\ wal' = 0
        /\ reader # NoReader
    BY <1>3 DEF ReaderEnds
  <2>2. pc \notin Emptied
    BY <2>1 DEF TypeInv, Order
  <2>3. CASE live' = live /\ wal' = wal
    BY <1>b, <2>1, <2>3 DEF LiveWhole, LogBelongs, Holds
  <2>4. CASE live' = Contents /\ wal' = 0
    <3>1. Contents' = Contents
      BY <1>a, <2>4
    <3>2. LiveWhole' /\ LogBelongs'
      BY <1>0, <2>4 DEF LiveWhole, LogBelongs
    <3>3. AtLeast(Contents, current) => AtLeast(Contents, current)' /\ AtLeast(live, current)'
      BY <2>1, <2>4, <3>1
    <3> QED
      BY <2>1, <2>2, <3>2, <3>3 DEF Holds, Emptied
  <2> QED
    BY <2>1, <2>3, <2>4
<1>4. CASE Elsewhere
  <2>1. live' = Contents /\ wal' = 0 /\ pc' = "idle"
    BY <1>4 DEF Elsewhere, At
  <2> QED
    BY <1>0, <2>1 DEF LiveWhole, LogBelongs, Holds
<1>5. CASE \/ \E size \in Sizes, allow \in BOOLEAN : StartRebuild(size, allow)
           \/ \E size \in Sizes : RefuseRebuild(size)
           \/ Build \/ VerifyCandidate \/ StartRollback \/ RefuseRollback
           \/ BuildFails \/ SwapFails \/ Stop \/ Start
  <2>1. UNCHANGED <<live, wal, logOf>>
    BY <1>5 DEF StartRebuild, RefuseRebuild, Build, VerifyCandidate, StartRollback,
                RefuseRollback, BuildFails, SwapFails, Stop, Start, history
  <2>2. pc' \in {"idle", "build", "verify", "close", "r_close"}
    <3>1. CASE Start
      <4>1. pc \notin RebuildSteps \cup RollbackSteps /\ pc' = pc
        BY <3>1 DEF Start, TypeInv, Order
      <4> QED
        BY <4>1 DEF TypeInv, TypeOK
    <3> QED
      BY <1>5, <3>1 DEF StartRebuild, RefuseRebuild, Build, VerifyCandidate,
           StartRollback, RefuseRollback, BuildFails, SwapFails, Stop, At
  <2> QED
    BY <2>1, <2>2 DEF LiveWhole, LogBelongs, Holds
<1>6. CASE CloseForInstall \/ CloseForRollback
  <2>1. PICK next \in {"keep", "r_copy"} : Close(next)
    BY <1>6 DEF CloseForInstall, CloseForRollback
  <2>2. logOf' = logOf
    BY <1>6 DEF CloseForInstall, CloseForRollback
  <2>3. /\ live = NoFile => live' = NoFile /\ wal' = wal
        /\ live # NoFile => /\ live' # NoFile
                            /\ live'.build = live.build /\ live'.whole = live.whole
                            /\ wal' > 0 => wal > 0
        /\ Contents' = Contents /\ current' = Contents
        /\ ~cut' => wal' = 0 \/ live = NoFile
        /\ pc' = next
    BY <2>1, CloseFacts
  <2>4. wal' \in Nat /\ (live = NoFile => ~(wal > 0))
    BY DEF TypeInv, TypeOK, LogBelongs
  <2>5. ~cut' => wal' = 0
    BY <1>0, <2>3, <2>4
  <2>6. AtLeast(Contents, current)'
    BY <1>0, <1>c, <2>3, AtLeastFacts
  <2>7. ~cut' => AtLeast(live, current)'
    <3>1. ~cut' => live' = Contents'
      BY <1>a, <2>5
    <3> QED
      BY <2>6, <3>1
  <2>8. LiveWhole' /\ LogBelongs'
    BY <2>2, <2>3, <2>4 DEF LiveWhole, LogBelongs
  <2>9. pc' \in {"keep", "r_copy"}
    BY <2>1, <2>3
  <2> QED
    BY <2>6, <2>7, <2>8, <2>9 DEF Holds
<1>7. CASE KeepPrevious \/ Kept
  <2>1. /\ UNCHANGED <<live, wal, current, logOf, cut, stirred>>
        /\ \/ pc = "keep" /\ live = NoFile /\ pc' = "clear"
           \/ pc = "keep" /\ pc' = "keeping"
           \/ pc = "keeping" /\ pc' = "clear" /\ previous' \in CopyOf(live)
    BY <1>7 DEF KeepPrevious, Kept, At, history
  <2>2. pc = "keeping" => live # NoFile
    BY DEF TypeInv, Order
  <2>3. pc = "keeping" /\ pc' = "clear" /\ ~stirred => previous' = live
    BY <1>0, <2>1, <2>2, CopyIsFile
  <2>4. LiveWhole' /\ LogBelongs'
    BY <2>1 DEF LiveWhole, LogBelongs
  <2>5. pc' = "clear" /\ ~cut /\ ~stirred /\ current # NoFile => AtLeast(previous, current)'
    <3>1. CASE live = NoFile
      BY <1>0, <1>c, <2>1, <2>2, <3>1, AtLeastFacts DEF Holds, AtLeast
    <3>2. CASE live # NoFile
      BY <2>1, <2>3, <3>2 DEF Holds
    <3> QED  BY <3>1, <3>2
  <2> QED
    BY <1>b, <2>1, <2>4, <2>5 DEF Holds
<1>8. CASE Supersede \/ Superseded
  <2>1. /\ UNCHANGED <<live, wal, current, logOf, cut, stirred>>
        /\ \/ pc = "r_copy" /\ live = NoFile /\ pc' = "r_clear"
           \/ pc = "r_copy" /\ pc' = "r_copying"
           \/ pc = "r_copying" /\ pc' = "r_clear" /\ superseded' \in CopyOf(live)
    BY <1>8 DEF Supersede, Superseded, At, history
  <2>2. pc = "r_copying" => live # NoFile
    BY DEF TypeInv, Order
  <2>3. pc = "r_copying" /\ pc' = "r_clear" /\ ~stirred => superseded' = live
    BY <1>0, <2>1, <2>2, CopyIsFile
  <2>4. LiveWhole' /\ LogBelongs'
    BY <2>1 DEF LiveWhole, LogBelongs
  <2>5. pc' = "r_clear" /\ ~cut /\ ~stirred /\ current # NoFile =>
          AtLeast(superseded, current)'
    <3>1. CASE live = NoFile
      BY <1>0, <1>c, <2>1, <2>2, <3>1, AtLeastFacts DEF Holds, AtLeast
    <3>2. CASE live # NoFile
      BY <2>1, <2>3, <3>2 DEF Holds
    <3> QED  BY <3>1, <3>2
  <2> QED
    BY <1>b, <2>1, <2>4, <2>5 DEF Holds
<1>9. CASE ClearForCandidate \/ ClearForPrevious
  <2>1. /\ UNCHANGED <<live, current, logOf, cut, stirred, previous, superseded>>
        /\ wal' = 0
        /\ \/ pc = "clear" /\ pc' = "replace"
           \/ pc = "r_clear" /\ pc' = "r_replace"
    BY <1>9 DEF ClearForCandidate, ClearForPrevious, ClearSidecars, At, history
  <2> QED
    BY <1>0, <2>1 DEF LiveWhole, LogBelongs, Holds
<1>10. CASE InstallCandidate \/ InstallPrevious
  <2>1. /\ UNCHANGED <<wal, current, logOf, cut, stirred, previous, superseded>>
        /\ \/ pc = "replace" /\ pc' = "reopen"
           \/ pc = "r_replace" /\ pc' = "r_exchange"
    BY <1>10 DEF InstallCandidate, InstallPrevious, Replace, At, history
  <2>2. wal = 0 /\ live' = target /\ target.whole
    BY <1>10 DEF InstallCandidate, InstallPrevious, Replace, At, TypeInv, Order,
                 Emptied, RebuildSteps, RollbackSteps
  <2> QED
    BY <2>1, <2>2 DEF LiveWhole, LogBelongs, Holds
<1>11. CASE Exchange
  <2>1. /\ UNCHANGED <<live, wal, current, logOf, cut, stirred>>
        /\ pc = "r_exchange" /\ pc' = "r_reopen"
        /\ superseded # NoFile => previous' = superseded
    BY <1>11 DEF Exchange, At, history
  <2>2. current # NoFile /\ AtLeast(superseded, current) => superseded # NoFile
    BY DEF AtLeast
  <2> QED
    BY <2>1, <2>2 DEF LiveWhole, LogBelongs, Holds
<1>12. CASE ReopenRebuilt \/ ReopenRolledBack
  <2>1. UNCHANGED <<live, wal, logOf>> /\ pc' = "idle"
    BY <1>12 DEF ReopenRebuilt, ReopenRolledBack, Reopen, history
  <2> QED
    BY <2>1 DEF LiveWhole, LogBelongs, Holds
<1>13. CASE UNCHANGED vars
  BY <1>13 DEF vars, LiveWhole, LogBelongs, Holds, Contents
<1> QED
  BY <1>1, <1>2, <1>3, <1>4, <1>5, <1>6, <1>7, <1>8, <1>9, <1>10, <1>11, <1>12, <1>13
  DEF Next, Use, Rebuild, Rollback

\* What the swap relies on holds.
LEMMA SwapInvariant == Spec => []SwapInv
<1>1. Init => SwapInv
  <2> SUFFICES ASSUME Init PROVE SwapInv
    OBVIOUS
  <2>1. live # NoFile => live.whole
    BY DEF Init
  <2>2. wal = 0 /\ pc = "idle"
    BY DEF Init
  <2> QED
    BY <2>1, <2>2 DEF SwapInv, LiveWhole, LogBelongs, Holds
<1>2. TypeInv /\ TypeInv' /\ SwapInv /\ [Next]_vars => SwapInv'
  BY SwapInvStep
<1> QED
  BY <1>1, <1>2, TypeInvariant, PTL DEF Spec

\* At no step of a rebuild or a rollback, and after no failure or stop, does
\* the working path hold a file whose copy or build did not finish.
THEOREM LiveStaysWhole == Spec => []LiveWhole
<1>1. SwapInv => LiveWhole
  BY DEF SwapInv
<1> QED
  BY <1>1, SwapInvariant, PTL

\* install_database and close() never leave one database's log beside another.
THEOREM LogStaysWithItsFile == Spec => []LogBelongs
<1>1. SwapInv => LogBelongs
  BY DEF SwapInv
<1> QED
  BY <1>1, SwapInvariant, PTL

--------------------------------------------------------------------------------
\* How operations end

\* The steps that return to idle, and the result they report.
LEMMA Endings ==
  ASSUME TypeInv, [Next]_vars, pc # "idle", pc' = "idle"
  PROVE  \/ ReopenRebuilt /\ pc = "reopen" /\ outcome' = "rebuilt"
         \/ ReopenRolledBack /\ pc = "r_reopen" /\ outcome' = "rolled_back"
         \/ BuildFails /\ pc \notin SwapSteps /\ outcome' = "failed"
         \/ SwapFails /\ outcome' = "failed"
         \/ Stop /\ outcome' = "none"
<1>1. Next
  BY DEF vars
<1>2. CASE \/ Use \/ Start
           \/ \E size \in Sizes, allow \in BOOLEAN : StartRebuild(size, allow)
           \/ \E size \in Sizes : RefuseRebuild(size)
           \/ Build \/ VerifyCandidate \/ CloseForInstall \/ KeepPrevious \/ Kept
           \/ ClearForCandidate \/ InstallCandidate
           \/ StartRollback \/ RefuseRollback \/ CloseForRollback
           \/ Supersede \/ Superseded \/ ClearForPrevious \/ InstallPrevious
           \/ Exchange
  <2>1. pc' = pc \/ pc' # "idle"
    BY <1>2 DEF Use, Edit, ReaderBegins, ReaderEnds, Elsewhere, Start, StartRebuild,
         RefuseRebuild, Build, VerifyCandidate, CloseForInstall, Close, KeepPrevious, Kept,
         ClearForCandidate, InstallCandidate, StartRollback, RefuseRollback,
         CloseForRollback, Supersede, Superseded, ClearForPrevious, InstallPrevious,
         Exchange, ClearSidecars, Replace, At
  <2> QED
    BY <2>1
<1>3. CASE ReopenRebuilt \/ ReopenRolledBack \/ BuildFails \/ SwapFails \/ Stop
  BY <1>3 DEF ReopenRebuilt, ReopenRolledBack, Reopen, BuildFails, SwapFails, Stop, At,
              SwapSteps, RebuildSteps, RollbackSteps
<1> QED
  BY <1>1, <1>2, <1>3 DEF Next, Rebuild, Rollback

\* rebuild() and rollback() return with the two databases exchanged, the replaced
\* one with at least every write committed before close(), unless a session open
\* then kept it from folding the log or folded it into the file during the copy.
THEOREM SwapsExchange == Spec => SwapExchanges
<1>1. TypeInv /\ SwapInv /\ [Next]_vars =>
        [Ends("rebuilt") \/ Ends("rolled_back") =>
           /\ live' = target
           /\ (current # NoFile /\ ~cut /\ ~stirred) => AtLeast(previous', current)]_vars
  <2> SUFFICES ASSUME TypeInv, SwapInv, [Next]_vars,
                      Ends("rebuilt") \/ Ends("rolled_back")
               PROVE  /\ live' = target
                      /\ (current # NoFile /\ ~cut /\ ~stirred) =>
                           AtLeast(previous', current)
    OBVIOUS
  <2>1. CASE Ends("rebuilt")
    <3>1. ReopenRebuilt /\ pc = "reopen"
      BY <2>1, Endings DEF Ends
    <3>2. live' = live /\ previous' = previous
      BY <3>1 DEF ReopenRebuilt, Reopen
    <3> QED
      BY <3>1, <3>2 DEF TypeInv, Order, SwapInv, Holds
  <2>2. CASE Ends("rolled_back")
    <3>1. ReopenRolledBack /\ pc = "r_reopen"
      BY <2>2, Endings DEF Ends
    <3>2. live' = live /\ previous' = previous
      BY <3>1 DEF ReopenRolledBack, Reopen
    <3> QED
      BY <3>1, <3>2 DEF TypeInv, Order, SwapInv, Holds
  <2> QED
    BY <2>1, <2>2
<1> QED
  BY <1>1, TypeInvariant, SwapInvariant, PTL DEF Spec, SwapExchanges

\* A swap that fails or is killed leaves the database that was closed, with at
\* least every write committed before close(), or the one being installed.
THEOREM FailureIsSafe == Spec => FailureKeepsDatabase
<1>1. TypeInv /\ SwapInv /\ [Next]_vars =>
        [(pc \in SwapSteps /\ pc' = "idle" /\ ~cut) =>
           (AtLeast(Contents', current) \/ live' = target)]_vars
  <2> SUFFICES ASSUME TypeInv, SwapInv, [Next]_vars,
                      pc \in SwapSteps, pc' = "idle", ~cut
               PROVE  AtLeast(Contents', current) \/ live' = target
    OBVIOUS
  <2>1. SwapFails \/ Stop
    BY Endings DEF SwapSteps, RebuildSteps, RollbackSteps
  <2>2. live' = live /\ wal' = wal
    BY <2>1 DEF SwapFails, Stop
  <2>3. Contents' = Contents
    BY <2>2 DEF Contents
  <2>4. CASE pc \in {"replace", "r_replace"}
    <3>1. AtLeast(live, current) /\ wal = 0
      BY <2>4 DEF SwapInv, Holds, TypeInv, Order, Emptied
    <3>2. Contents = live
      BY <3>1, ContentsFacts DEF TypeInv
    <3> QED
      BY <2>3, <3>1, <3>2
  <2>5. CASE pc = "r_exchange"
    BY <2>2, <2>5 DEF TypeInv, Order
  <2>6. CASE pc \in Closed
    BY <2>3, <2>6 DEF SwapInv, Holds, Closed
  <2> QED
    BY <2>4, <2>5, <2>6 DEF SwapSteps, RebuildSteps, RollbackSteps, Closed
<1> QED
  BY <1>1, TypeInvariant, SwapInvariant, PTL DEF Spec, FailureKeepsDatabase

--------------------------------------------------------------------------------
\* How much a rebuild may drop

\* The list was measured against the database that was open when the rebuild
\* began; that one is closed, and its size is what the operation remembers.
ShrinkInv ==
  /\ (pc \in {"build", "verify", "close"} /\ open /\ ~allowed /\ live # NoFile)
       => 2 * target.size >= live.size
  /\ (pc \in {"keep", "keeping", "clear", "replace", "reopen"}
        /\ wasOpen /\ ~allowed /\ current # NoFile)
       => 2 * target.size >= current.size

\* What sessions see has the size of the file.
LEMMA ContentsSize ==
  ASSUME TypeOK, live # NoFile
  PROVE  Contents.size = live.size
BY DEF TypeOK, Db, Contents

\* Every step keeps what a refusal to shrink relies on.
LEMMA ShrinkInvStep ==
  ASSUME TypeInv, ShrinkInv, [Next]_vars
  PROVE  ShrinkInv'
<1> DEFINE Counted == {"build", "verify", "close"}
           Swapped == {"keep", "keeping", "clear", "replace", "reopen"}
<1>1. CASE \E size \in Sizes, allow \in BOOLEAN : StartRebuild(size, allow)
  <2>1. PICK size \in Sizes, allow \in BOOLEAN : StartRebuild(size, allow)
    BY <1>1
  <2>2. /\ open /\ ~allow /\ live # NoFile => 2 * size >= live.size
        /\ target'.size = size /\ allowed' = allow /\ pc' = "build"
        /\ open' = open /\ live' = live
    BY <2>1 DEF StartRebuild
  <2> QED
    BY <2>2 DEF ShrinkInv
<1>2. CASE CloseForInstall
  <2>1. /\ pc = "close" /\ pc' = "keep" /\ wasOpen' = open /\ current' = Contents
        /\ allowed' = allowed /\ target' = target
    BY <1>2 DEF CloseForInstall, Close, At
  <2>2. current' # NoFile => live # NoFile /\ current'.size = live.size
    BY <2>1, ContentsFacts, ContentsSize DEF TypeInv
  <2> QED
    BY <2>1, <2>2 DEF ShrinkInv
<1>3. CASE ReaderEnds
  <2>1. /\ UNCHANGED <<pc, open, wasOpen, allowed, current, target>>
        /\ open => live' = live
    BY <1>3 DEF ReaderEnds
  <2> QED
    BY <2>1 DEF ShrinkInv
<1>4. CASE Edit \/ ReaderBegins \/ Build \/ VerifyCandidate \/ UNCHANGED vars
  <2>1. /\ UNCHANGED <<open, wasOpen, live, allowed, current, target>>
        /\ pc' = pc \/ (pc \in Counted /\ pc' \in Counted)
    BY <1>4 DEF Edit, ReaderBegins, Build, VerifyCandidate, At, history, vars
  <2> QED
    BY <2>1 DEF ShrinkInv
<1>5. CASE KeepPrevious \/ Kept \/ ClearForCandidate \/ InstallCandidate
  <2>1. /\ UNCHANGED <<wasOpen, allowed, current, target>>
        /\ pc \in Swapped /\ pc' \in Swapped
    BY <1>5 DEF KeepPrevious, Kept, ClearForCandidate, InstallCandidate, ClearSidecars,
                Replace, At, history
  <2> QED
    BY <2>1 DEF ShrinkInv
<1>6. CASE \/ Elsewhere \/ \E size \in Sizes : RefuseRebuild(size)
           \/ ReopenRebuilt \/ Rollback \/ BuildFails \/ SwapFails \/ Stop \/ Start
  <2>1. CASE Start
    <3>1. pc \notin RebuildSteps /\ pc' = pc
      BY <2>1 DEF Start, TypeInv, Order
    <3> QED
      BY <3>1 DEF ShrinkInv, RebuildSteps
  <2>2. CASE ~Start
    <3>1. pc' \notin Counted \cup Swapped
      BY <1>6, <2>2 DEF Elsewhere, RefuseRebuild, ReopenRebuilt, Reopen, Rollback,
           StartRollback, RefuseRollback, CloseForRollback, Close, Supersede, Superseded,
           ClearForPrevious, ClearSidecars, InstallPrevious, Replace, Exchange,
           ReopenRolledBack, BuildFails, SwapFails, Stop, At
    <3> QED
      BY <3>1 DEF ShrinkInv
  <2> QED
    BY <2>1, <2>2
<1> QED
  BY <1>1, <1>2, <1>3, <1>4, <1>5, <1>6 DEF Next, Use, Rebuild

\* What a refusal to shrink relies on holds.
LEMMA ShrinkInvariant == Spec => []ShrinkInv
<1>1. Init => ShrinkInv
  BY DEF Init, ShrinkInv
<1>2. TypeInv /\ ShrinkInv /\ [Next]_vars => ShrinkInv'
  BY ShrinkInvStep
<1> QED
  BY <1>1, <1>2, TypeInvariant, PTL DEF Spec

\* rebuild() ends with a database less than half the size of the open one it
\* replaced only if the caller passed allow_shrink.
THEOREM ShrinksAreAllowed == Spec => ShrinkIsAllowed
<1>1. TypeInv /\ ShrinkInv /\ [Next]_vars =>
        [(Ends("rebuilt") /\ wasOpen /\ current # NoFile /\ 2 * target.size < current.size)
           => allowed]_vars
  <2> SUFFICES ASSUME TypeInv, ShrinkInv, [Next]_vars, Ends("rebuilt"),
                      wasOpen, current # NoFile, 2 * target.size < current.size
               PROVE  allowed
    OBVIOUS
  <2>1. pc = "reopen"
    BY Endings DEF Ends
  <2>2. target.size \in Int /\ current.size \in Int
    <3>1. target \in Db /\ current \in Db
      BY <2>1 DEF TypeInv, TypeOK, Order, RebuildSteps
    <3>2. target.size \in Sizes /\ current.size \in Sizes
      BY <3>1 DEF Db
    <3>3. Sizes \subseteq Int
      OBVIOUS
    <3> QED
      BY <3>2, <3>3
  <2>3. ~allowed => 2 * target.size >= current.size
    BY <2>1 DEF ShrinkInv
  <2> QED
    BY <2>2, <2>3
<1> QED
  BY <1>1, TypeInvariant, ShrinkInvariant, PTL DEF Spec, ShrinkIsAllowed

--------------------------------------------------------------------------------
\* What a rollback keeps

\* The copy of the database being rolled back from: none before it is made, no whole one
\* while it is made, and a copy of the same build from then until the two are exchanged,
\* a whole one if the file was left alone.
CopyInv ==
  /\ pc \in {"r_close", "r_copy"} /\ ~leftover => superseded = NoFile
  /\ pc = "r_copying" => superseded # NoFile /\ ~superseded.whole
  /\ pc \in {"r_clear", "r_replace"} /\ live # NoFile /\ ~stirred =>
       superseded # NoFile /\ superseded.build = live.build /\ superseded.whole = live.whole
  /\ pc = "r_exchange" => previous = live

\* The sessions and the writes of the pages change neither a build nor the copies.
LEMMA UseKeepsBuild ==
  ASSUME TypeInv, Use
  PROVE  /\ UNCHANGED <<pc, previous, superseded, leftover>>
         /\ live = NoFile => live' = NoFile
         /\ live # NoFile => live' # NoFile /\ live'.build = live.build
                           /\ live'.whole = live.whole
         /\ pc = "r_exchange" => live' = live
         /\ stirred => stirred'
<1>1. CASE Edit \/ ReaderBegins
  BY <1>1 DEF Edit, ReaderBegins, history
<1>2. CASE ReaderEnds \/ Elsewhere
  <2>1. /\ UNCHANGED <<pc, previous, superseded, leftover>>
        /\ stirred => stirred'
        /\ live' \in {live, Contents}
        /\ pc = "r_exchange" => FALSE
    <3>1. CASE ReaderEnds
      <4>1. /\ UNCHANGED <<pc, previous, superseded, leftover>>
            /\ stirred => stirred'
            /\ live' \in {live, Contents} /\ reader # NoReader
        BY <3>1 DEF ReaderEnds
      <4> QED  BY <4>1 DEF TypeInv, Order, Emptied
    <3>2. CASE Elsewhere
      BY <3>2 DEF Elsewhere, At, history
    <3> QED  BY <1>2, <3>1, <3>2
  <2> QED  BY <2>1, ContentsFacts DEF TypeInv
<1> QED  BY <1>1, <1>2 DEF Use

\* Every step keeps what a rollback relies on.
LEMMA CopyInvStep ==
  ASSUME TypeInv, CopyInv, [Next]_vars
  PROVE  CopyInv'
<1> DEFINE Copying == {"r_close", "r_copy", "r_copying", "r_clear", "r_replace", "r_exchange"}
<1>1. CASE Use
  BY <1>1, UseKeepsBuild DEF CopyInv
<1>2. CASE \/ Rebuild \/ RefuseRollback \/ Exchange \/ ReopenRolledBack \/ BuildFails
           \/ SwapFails \/ Stop \/ Start
  <2>1. pc' \notin Copying
    <3>2. CASE Rebuild
      BY <3>2 DEF Rebuild, StartRebuild, RefuseRebuild, Build, VerifyCandidate,
           CloseForInstall, Close, KeepPrevious, Kept, ClearForCandidate, ClearSidecars,
           InstallCandidate, Replace, ReopenRebuilt, Reopen, At
    <3>3. CASE \/ RefuseRollback \/ Exchange \/ ReopenRolledBack \/ BuildFails
               \/ SwapFails \/ Stop
      BY <3>3 DEF RefuseRollback, Exchange, ReopenRolledBack, Reopen, BuildFails, SwapFails,
           Stop, At
    <3>4. CASE Start
      BY <3>4 DEF Start, TypeInv, Order, RollbackSteps
    <3> QED  BY <1>2, <3>2, <3>3, <3>4
  <2> QED  BY <2>1 DEF CopyInv
<1>3. CASE StartRollback
  BY <1>3 DEF StartRollback, CopyInv
<1>4. CASE CloseForRollback
  BY <1>4 DEF CloseForRollback, Close, At, CopyInv
<1>5. CASE Supersede
  <2>1. live # NoFile => Torn(live) \in Db /\ ~Torn(live).whole /\ Torn(live) # NoFile
    BY TornIsFile DEF TypeInv, TypeOK, Db, Torn
  <2> QED  BY <1>5, <2>1 DEF Supersede, At, CopyInv
<1>6. CASE Superseded
  <2>1. live \in Db
    BY <1>6 DEF Superseded, At, TypeInv, TypeOK, Order
  <2>2. ~stirred => superseded' = live
    BY <1>6, <2>1, CopyIsFile DEF Superseded
  <2>3. superseded' # NoFile
    BY <1>6, <2>1, CopyIsFile DEF Superseded
  <2>4. UNCHANGED <<live, stirred>> /\ pc' = "r_clear"
    BY <1>6 DEF Superseded, history
  <2> QED  BY <2>2, <2>3, <2>4 DEF CopyInv
<1>7. CASE ClearForPrevious
  BY <1>7 DEF ClearForPrevious, ClearSidecars, At, CopyInv, history
<1>8. CASE InstallPrevious
  BY <1>8 DEF InstallPrevious, Replace, At, CopyInv
<1>9. CASE UNCHANGED vars
  BY <1>9 DEF vars, CopyInv
<1> QED
  BY <1>1, <1>2, <1>3, <1>4, <1>5, <1>6, <1>7, <1>8, <1>9 DEF Next, Rollback

\* What a rollback relies on holds.
LEMMA CopyInvariant == Spec => []CopyInv
<1>1. Init => CopyInv
  BY DEF Init, CopyInv
<1>2. TypeInv /\ CopyInv /\ [Next]_vars => CopyInv'
  BY CopyInvStep
<1> QED
  BY <1>1, <1>2, TypeInvariant, PTL DEF Spec

\* A step keeps every build of which it keeps some complete file.
LEMMA BuildsKept ==
  ASSUME \A f \in {live, previous, superseded} : f # NoFile /\ f.whole =>
           \E g \in {live', previous', superseded'} :
             g # NoFile /\ g.whole /\ g.build = f.build
  PROVE  Builds \subseteq Builds'
BY DEF Builds, WholeFiles

\* No step of rollback(), and no failure or crash in it, loses the last complete copy of
\* a build, unless an earlier rollback had left its copy in staging or a session wrote to
\* the file while it was copied.
THEOREM RollbacksKeepBoth == Spec => RollbackKeepsBoth
<1>1. ASSUME TypeInv, CopyInv, [Next]_vars, pc \in RollbackSteps, ~leftover,
             ~stirred
      PROVE  Builds \subseteq Builds'
  <2>1. CASE Use
    <3>1. \A f \in {live, previous, superseded} : f # NoFile /\ f.whole =>
            \E g \in {live', previous', superseded'} :
              g # NoFile /\ g.whole /\ g.build = f.build
      BY <1>1, <2>1, UseKeepsBuild
    <3> QED  BY <3>1, BuildsKept
  <2>2. CASE \/ Rebuild \/ StartRollback \/ RefuseRollback \/ Start
    BY <1>1, <2>2 DEF Rebuild, StartRebuild, RefuseRebuild, Build, VerifyCandidate,
       CloseForInstall, KeepPrevious, Kept, ClearForCandidate, ClearSidecars,
       InstallCandidate, Replace, ReopenRebuilt, Reopen, StartRollback, RefuseRollback,
       Start, At, TypeInv, Order, RollbackSteps
  <2>3. CASE ClearForPrevious \/ ReopenRolledBack \/ BuildFails \/ SwapFails \/ Stop
             \/ UNCHANGED vars
    <3>1. UNCHANGED <<live, previous, superseded>>
      BY <2>3 DEF ClearForPrevious, ClearSidecars, ReopenRolledBack, Reopen, BuildFails,
         SwapFails, Stop, vars
    <3> QED  BY <3>1 DEF Builds, WholeFiles
  <2>4. CASE CloseForRollback
    <3>1. Close("r_copy") /\ UNCHANGED <<previous, superseded>>
      BY <2>4 DEF CloseForRollback
    <3>2. live # NoFile => live' # NoFile /\ live'.build = live.build
                          /\ live'.whole = live.whole
      BY <1>1, <3>1, CloseFacts DEF TypeInv, TypeOK, Db
    <3> QED  BY <3>1, <3>2, BuildsKept
  <2>5. CASE Supersede
    <3>1. superseded = NoFile /\ UNCHANGED <<live, previous>>
      BY <1>1, <2>5 DEF Supersede, At, CopyInv
    <3> QED  BY <3>1, BuildsKept
  <2>6. CASE Superseded
    <3>1. superseded # NoFile /\ ~superseded.whole /\ UNCHANGED <<live, previous>>
      BY <1>1, <2>6 DEF Superseded, At, CopyInv
    <3> QED  BY <3>1, BuildsKept
  <2>7. CASE InstallPrevious
    <3>1. /\ UNCHANGED <<previous, superseded>>
          /\ live # NoFile =>
               superseded # NoFile /\ superseded.build = live.build
               /\ superseded.whole = live.whole
      BY <1>1, <2>7 DEF InstallPrevious, Replace, At, CopyInv
    <3> QED  BY <3>1, BuildsKept
  <2>8. CASE Exchange
    <3>1. /\ previous = live /\ live' = live
          /\ superseded # NoFile => previous' = superseded
          /\ superseded = NoFile => previous' = previous
      BY <1>1, <2>8 DEF Exchange, At, CopyInv
    <3> QED  BY <3>1, BuildsKept
  <2> QED
    BY <1>1, <2>1, <2>2, <2>3, <2>4, <2>5, <2>6, <2>7, <2>8 DEF Next, Rollback
<1>2. TypeInv /\ CopyInv /\ [Next]_vars =>
        [(pc \in RollbackSteps /\ ~leftover /\ ~stirred) => Builds \subseteq Builds']_vars
  BY <1>1
<1> QED
  BY <1>2, TypeInvariant, CopyInvariant, PTL DEF Spec, RollbackKeepsBoth
================================================================================
