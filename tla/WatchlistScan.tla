------------------------------ MODULE WatchlistScan ------------------------------
(***************************************************************************)
(* WatchlistService and ChangeDetectionService: each item of a watchlist   *)
(* keeps a snapshot of its target, and a scan reports how the installed    *)
(* database differs from it and takes a new one.                           *)
(*                                                                         *)
(* A scan is three steps with nothing held in between: it reads the items, *)
(* looks their targets up, and records the alerts and the new snapshots in *)
(* one transaction.  A scan runs on the worker that installed a database   *)
(* and on the one behind "Check for changes now", next to an interface     *)
(* that adds and removes items and to databases being installed.           *)
(***************************************************************************)
EXTENDS Integers, FiniteSets, FiniteSetsExt

CONSTANTS
  Scanners,
  Lists,
  Targets,      \* what can be watched: a BIN, an institution, a country
  Versions,     \* the comparable state of a target that is in the database
  Absences,     \* {Absent} if targets can be missing from a database, else {}
  Absent,
  Unread,       \* no snapshot
  Missing,      \* there is no database at the path
  Nothing,
  Crossed,      \* scans may have mixed the item up with another, or with each other
  MaxItems      \* bound on the items

States   == Versions \cup Absences
Snapshot == [of : Targets, state : States]
Item     == [list : Lists, target : Targets, snapshot : Snapshot \cup {Unread}]
Ids      == 1 .. MaxItems

ASSUME NoneAssumption ==
  /\ Absences \subseteq {Absent} /\ Absent \notin Versions
  /\ Unread \notin Snapshot \cup States /\ Crossed \notin States \cup {Unread} /\ Nothing \notin Item \cup {{}}
  /\ Missing \notin [Targets -> States]
ASSUME BoundAssumption == MaxItems \in Nat \ {0}

VARIABLES
  db,       \* the installed database
  items,    \* watchlist_items, by row id
  adding,   \* an item whose snapshot is taken and whose row is not written
  scan,     \* per scanner: where it is, and what it has read
  told      \* history: per item, the state its owner knows of, while that can be followed

vars == <<db, items, adding, scan, told>>

Resting == [pc |-> "idle", before |-> <<>>, index |-> <<>>, after |-> <<>>]

Used     == {i \in Ids : items[i] # Nothing}
Watching(t) == {i \in Used : items[i].target = t}
Scanning == \E p \in Scanners : scan[p].pc # "idle"

\* ChangeDetectionService.snapshot, of a database that may not be there.
Captured(t) == IF db = Missing THEN Unread ELSE [of |-> t, state |-> db[t]]
StateIn(snapshot) == IF snapshot = Unread THEN Unread ELSE snapshot.state

--------------------------------------------------------------------------------
\* Databases

Install(new) ==
  /\ db' = new
  /\ UNCHANGED <<items, adding, scan, told>>

\* The database is moved elsewhere, or deleted.
Vanish ==
  /\ db' = Missing
  /\ UNCHANGED <<items, adding, scan, told>>

--------------------------------------------------------------------------------
\* The interface

\* add_item: the snapshot first ...
Capture(l, t) ==
  /\ adding = Nothing
  /\ adding' = [list |-> l, target |-> t, snapshot |-> Captured(t)]
  /\ UNCHANGED <<db, items, scan, told>>

\* The key SQLite gives a new row: one more than the largest in use.
NextId == IF Used = {} THEN 1 ELSE Max(Used) + 1

\* A scan under way has read the target, or an item that had the key.
ReadBy(p, i, t) == \E u \in DOMAIN scan[p].index : u = t \/ scan[p].index[u] = i

\* ... and then the row, unless the target is on the list already.
Insert ==
  /\ adding # Nothing /\ NextId \in Ids
  /\ \A i \in Used : items[i].list # adding.list \/ items[i].target # adding.target
  /\ items' = [items EXCEPT ![NextId] = adding]
  /\ told' = [told EXCEPT ![NextId] =
                IF \E p \in Scanners : ReadBy(p, NextId, adding.target) THEN Crossed
                ELSE StateIn(adding.snapshot)]
  /\ adding' = Nothing
  /\ UNCHANGED <<db, scan>>

InsertRefused ==
  /\ adding # Nothing
  /\ \E i \in Used : items[i].list = adding.list /\ items[i].target = adding.target
  /\ adding' = Nothing
  /\ UNCHANGED <<db, items, scan, told>>

\* remove_item, or delete with all the items of a list.
RemoveItems(ids) ==
  /\ ids # {}
  /\ items' = [i \in Ids |-> IF i \in ids THEN Nothing ELSE items[i]]
  /\ told' = [i \in Ids |-> IF i \in ids THEN Unread ELSE told[i]]
  /\ UNCHANGED <<db, adding, scan>>

--------------------------------------------------------------------------------
\* A scan

\* What a scan that begins may mix up: the items of a target that another item watches,
\* or another scan has read.
Mixed(p) ==
  {i \in Used :
     \/ \E j \in Used \ {i} : items[j].target = items[i].target
     \/ \E q \in Scanners \ {p} : items[i].target \in DOMAIN scan[q].before}

\* The items: a target on two lists has the snapshot of the first row and the
\* row id of the last.
Read(p) ==
  /\ scan[p].pc = "idle" /\ Used # {}
  /\ LET watched == {t \in Targets : Watching(t) # {}} IN
       scan' = [scan EXCEPT ![p] =
         [pc     |-> "read",
          before |-> [t \in watched |-> items[Min(Watching(t))].snapshot],
          index  |-> [t \in watched |-> Max(Watching(t))],
          after  |-> <<>>]]
  /\ told' = [i \in Ids |-> IF i \in Mixed(p) THEN Crossed ELSE told[i]]
  /\ UNCHANGED <<db, items, adding>>

\* The targets are looked up through one connection.
Look(p) ==
  /\ scan[p].pc = "read" /\ db # Missing
  /\ scan' = [scan EXCEPT ![p].pc = "looked",
                          ![p].after = [t \in DOMAIN scan[p].before |-> Captured(t)]]
  /\ UNCHANGED <<db, items, adding, told>>

\* "Change detection skipped": nothing to record.
Skip(p) ==
  /\ scan[p].pc = "read" /\ db = Missing
  /\ scan' = [scan EXCEPT ![p] = Resting]
  /\ UNCHANGED <<db, items, adding, told>>

\* Mutated form of Differs: a target that comes back is not reported.
DiffersUnlessAdded(before, after) ==
  before # Unread /\ before.state # after.state /\ before.state # Absent

\* _compare: a target that is absent is a removal whatever it was before.
Differs(before, after) ==
  before # Unread /\ (before.state # after.state \/ after.state = Absent)

\* The events of scanner p.
Alerts(p) ==
  {[item |-> scan[p].index[t], target |-> t, to |-> scan[p].after[t].state] :
     t \in {u \in DOMAIN scan[p].after : Differs(scan[p].before[u], scan[p].after[u])}}

\* What becomes of row i once p has refreshed the snapshots.
Fresh(p, i) == {t \in DOMAIN scan[p].after : scan[p].index[t] = i}

\* Mutated form of Refreshed: a snapshot is taken once and kept.
RefreshedNot(p) ==
  [i \in Ids |->
     IF items[i] = Nothing \/ Fresh(p, i) = {} \/ items[i].snapshot # Unread THEN items[i]
     ELSE [items[i] EXCEPT !.snapshot = scan[p].after[CHOOSE t \in Fresh(p, i) : TRUE]]]

\* The snapshots, stored by row id; a row that is gone is passed over.
Refreshed(p) ==
  [i \in Ids |->
     IF items[i] = Nothing \/ Fresh(p, i) = {} THEN items[i]
     ELSE [items[i] EXCEPT !.snapshot = scan[p].after[CHOOSE t \in Fresh(p, i) : TRUE]]]

\* _record.
Record(p) ==
  /\ scan[p].pc = "looked"
  /\ \A a \in Alerts(p) : items[a.item] # Nothing
  /\ items' = Refreshed(p)
  /\ told' = [i \in Ids |->
                LET said == {a \in Alerts(p) : a.item = i} IN
                IF told[i] = Crossed THEN Crossed
                ELSE IF said # {} THEN (CHOOSE a \in said : TRUE).to
                ELSE IF told[i] = Unread /\ items[i] # Nothing /\ Fresh(p, i) # {}
                       THEN items'[i].snapshot.state
                       ELSE told[i]]
  /\ scan' = [scan EXCEPT ![p] = Resting]
  /\ UNCHANGED <<db, adding>>

\* An event of a row that is gone breaks its foreign key: all is rolled back.
RecordFails(p) ==
  /\ scan[p].pc = "looked"
  /\ \E a \in Alerts(p) : items[a.item] = Nothing
  /\ scan' = [scan EXCEPT ![p] = Resting]
  /\ UNCHANGED <<db, items, adding, told>>

\* The application ends and starts again.
Stop ==
  /\ Scanning \/ adding # Nothing
  /\ scan' = [p \in Scanners |-> Resting]
  /\ adding' = Nothing
  /\ UNCHANGED <<db, items, told>>

Init ==
  /\ db \in [Targets -> States]
  /\ items = [i \in Ids |-> Nothing]
  /\ adding = Nothing
  /\ scan = [p \in Scanners |-> Resting]
  /\ told = [i \in Ids |-> Unread]

Next ==
  \/ \E new \in [Targets -> States] : Install(new)
  \/ Vanish
  \/ \E l \in Lists, t \in Targets : Capture(l, t)
  \/ Insert \/ InsertRefused
  \/ \E i \in Used : RemoveItems({i})
  \/ \E l \in Lists : RemoveItems({i \in Used : items[i].list = l})
  \/ \E p \in Scanners : Read(p) \/ Look(p) \/ Skip(p) \/ Record(p) \/ RecordFails(p)
  \/ Stop

Spec == Init /\ [][Next]_vars

--------------------------------------------------------------------------------
\* Properties

\* No alert tells the owner of an item that its target is in a state the owner
\* knew of already, targets that are absent aside, and items that are crossed: of a
\* target on several lists, under two scans at once, or written while a scan that had
\* read their target or their key was under way.  What crosses one item harms no other.
ValueReportedOnce ==
  [][\A p \in Scanners : Record(p) =>
       \A a \in Alerts(p) :
         told[a.item] = Crossed \/ a.to = Absent \/ a.to # told[a.item]]_vars

\* scan_for_changes: "Diff every watched target and record what changed": after
\* a scan the owner of every item it covered knows the state it found, but for the
\* items that are crossed: of a target on two lists, one of the lists is not told.
NothingMissed ==
  [][\A p \in Scanners : Record(p) =>
       \A i \in Used : items[i].target \in DOMAIN scan[p].after =>
         told[i] = Crossed \/ told'[i] = scan[p].after[items[i].target].state]_vars
================================================================================
