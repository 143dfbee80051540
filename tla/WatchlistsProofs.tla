---------------------------- MODULE WatchlistsProofs ----------------------------
(***************************************************************************)
(* Proofs about Watchlists, for any lists, targets, states and bounds:     *)
(* PageIsStored, ValueReportedOnce and NothingMissed, whatever is scanned, *)
(* added and removed at once.                                              *)
(***************************************************************************)
EXTENDS Watchlists, WellFoundedInduction, TLAPS

USE WatchlistsAssumption, NoneAssumption, BoundAssumption

--------------------------------------------------------------------------------
\* The page

PageFields == {"visible", "current", "unread", "items", "events", "due"}

IsPage(q) == q = [f \in PageFields |-> q[f]]

\* The dialog that adds an item is not open over the page of the watchlists.
PageInv ==
  /\ named \in [Lists -> Names \cup {NoName}]
  /\ IsPage(page)
  /\ page.visible \in BOOLEAN
  /\ adding # Nothing => ~page.visible
  /\ PageIsStored

--------------------------------------------------------------------------------
\* The page shows what is stored

\* The names of the lists have a least one.
LEMMA FirstByName ==
  ASSUME NEW names \in [Lists -> Names \cup {NoName}], Existing(names) # {}
  PROVE  \E m \in Existing(names) : \A o \in Existing(names) : names[m] <= names[o]
<1> DEFINE T == {names[m] : m \in Existing(names)}
<1>0. \A m \in Existing(names) : names[m] \in Nat
  BY DEF Existing
<1>1. T \in SUBSET Nat /\ T # {}
  BY <1>0
<1>2. PICK x \in T : \A y \in T : <<y, x>> \notin OpToRel(<, Nat)
  BY <1>1, NatLessThanWellFounded, WFMin, Zenon
<1>3. \A y \in T : ~(y < x)
  BY <1>1, <1>2, Zenon DEF OpToRel
<1>4. PICK m \in Existing(names) : names[m] = x
  BY <1>2
<1>5. ASSUME NEW o \in Existing(names)  PROVE names[m] <= names[o]
  <2>1. names[o] \in T
    OBVIOUS
  <2>2. ~(names[o] < x) /\ x \in Nat /\ names[o] \in Nat
    BY <1>0, <1>1, <1>2, <1>3, <2>1
  <2> QED  BY <1>4, <2>2
<1> QED  BY <1>4, <1>5

\* To load the page again keeps the list it shows.
LEMMA ChosenIsKept ==
  ASSUME NEW names \in [Lists -> Names \cup {NoName}], NEW l
  PROVE  Chosen(Chosen(l, names), names) = Chosen(l, names)
<1>1. CASE l \in Existing(names)
  BY <1>1 DEF Chosen
<1>2. CASE l \notin Existing(names) /\ Existing(names) = {}
  BY <1>2 DEF Chosen
<1>3. CASE l \notin Existing(names) /\ Existing(names) # {}
  <2>1. \E m \in Existing(names) : \A o \in Existing(names) : names[m] <= names[o]
    BY <1>3, FirstByName
  <2>2. Chosen(l, names) \in Existing(names)
    BY <1>3, <2>1, Zenon DEF Chosen
  <2> QED  BY <2>2, Zenon DEF Chosen
<1> QED  BY <1>1, <1>2, <1>3

\* What the page shows after _reload.
LEMMA LoadedPage ==
  ASSUME IsPage(page), NEW l, NEW names, NEW rows, NEW log
  PROVE  LET q == Loaded(l, names, rows, log) IN
         /\ IsPage(q)
         /\ q.visible = page.visible
         /\ q.current = Chosen(l, names)
         /\ q.items = ItemsOf(Chosen(l, names), rows)
         /\ q.events = EventsOf(Chosen(l, names), log)
         /\ q.unread = UnreadIn(log)
BY DEF IsPage, PageFields, Loaded

\* A page that has just been loaded shows what is stored.
LEMMA LoadedIsStored ==
  ASSUME PageInv, NEW l, page' = Loaded(l, named', items', events'),
         named' \in [Lists -> Names \cup {NoName}], adding' # Nothing => ~page.visible
  PROVE  PageInv'
<1>1. /\ IsPage(page')
      /\ page'.visible = page.visible
      /\ page'.current = Chosen(l, named')
      /\ page'.items = ItemsOf(Chosen(l, named'), items')
      /\ page'.events = EventsOf(Chosen(l, named'), events')
      /\ page'.unread = UnreadIn(events')
  BY LoadedPage DEF PageInv
<1>2. Chosen(page'.current, named') = page'.current
  BY <1>1, ChosenIsKept
<1>3. PageIsStored'
  BY <1>1, <1>2 DEF PageIsStored
<1>4. IsPage(page)'
  BY <1>1 DEF IsPage
<1> QED  BY <1>1, <1>3, <1>4 DEF PageInv

\* A step that leaves what is stored and the page alone, and opens no dialog over it.
LEMMA PageUntouched ==
  ASSUME PageInv, UNCHANGED <<wvars, items>>, adding' # Nothing => ~page.visible
  PROVE  PageInv'
<1>1. PageIsStored'
  BY DEF PageInv, PageIsStored, wvars
<1> QED  BY <1>1 DEF PageInv, IsPage, wvars

\* The page at the start.
LEMMA PageInit == WatchlistsInit => PageInv
<1> SUFFICES ASSUME WatchlistsInit  PROVE PageInv
  OBVIOUS
<1>1. IsPage(NoPage) /\ NoPage.visible = FALSE
  BY DEF NoPage, IsPage, PageFields
<1>2. named \in [Lists -> Names \cup {NoName}]
  BY DEF WatchlistsInit
<1> QED  BY <1>1, <1>2 DEF WatchlistsInit, Init, PageInv, PageIsStored

\* A step of a scan, or a database that is installed, as the page sees it.
LEMMA ScanStepsSpareItems ==
  ASSUME \/ \E new \in [Targets -> States] : Install(new)
         \/ Vanish \/ InsertRefused
         \/ \E p \in Scanners : Read(p) \/ Look(p) \/ Skip(p) \/ RecordFails(p)
  PROVE  items' = items /\ (adding' # Nothing => adding # Nothing)
BY DEF Install, Vanish, InsertRefused, Read, Look, Skip, RecordFails

\* Every step keeps the page what is stored.
LEMMA PageStep ==
  ASSUME PageInv, [WatchlistsNext]_<<vars, wvars>>
  PROVE  PageInv'
<1> USE DEF OnPage, Idle
<1>1. ASSUME \/ \E new \in [Targets -> States] : Install(new)
             \/ Vanish \/ InsertRefused
             \/ \E p \in Scanners : Read(p) \/ Look(p) \/ Skip(p) \/ RecordFails(p),
             UNCHANGED wvars
      PROVE  PageInv'
  <2>1. items' = items /\ (adding' # Nothing => adding # Nothing)
    BY <1>1, ScanStepsSpareItems
  <2> QED  BY <1>1, <2>1, PageUntouched DEF PageInv
<1>2. ASSUME Insert, UNCHANGED wvars
      PROVE  PageInv'
  <2>1. ~page.visible /\ adding' = Nothing /\ page' = page /\ named' = named
    BY <1>2 DEF Insert, PageInv, wvars
  <2> QED  BY <2>1 DEF PageInv, PageIsStored, IsPage
<1>3. ASSUME NEW p \in Scanners, RecordEvents(p)
      PROVE  PageInv'
  <2>1. /\ page' = [page EXCEPT !.due = page.visible]
        /\ named' = named /\ adding' = adding
    BY <1>3 DEF RecordEvents, Record
  <2>2. IsPage(page') /\ page'.visible = page.visible /\ page'.due = page.visible
    BY <2>1 DEF PageInv, IsPage, PageFields
  <2>3. IsPage(page)' /\ PageIsStored'
    BY <2>2 DEF IsPage, PageIsStored
  <2> QED  BY <2>1, <2>2, <2>3 DEF PageInv
<1>4. CASE ShowPage
  <2> DEFINE q == Loaded(page.current, named, items, events)
  <2>1. /\ page' = [q EXCEPT !.visible = TRUE]
        /\ adding' = Nothing
        /\ UNCHANGED <<named, items, events>>
    BY <1>4 DEF ShowPage, vars
  <2>2. /\ IsPage(q)
        /\ q.current = Chosen(page.current, named)
        /\ q.items = ItemsOf(Chosen(page.current, named), items)
        /\ q.events = EventsOf(Chosen(page.current, named), events)
        /\ q.unread = UnreadIn(events)
    BY LoadedPage DEF PageInv
  <2>3. Chosen(q.current, named) = q.current
    BY <2>2, ChosenIsKept DEF PageInv
  <2> HIDE DEF q
  <2>4. /\ IsPage(page')
        /\ page'.visible = TRUE
        /\ page'.current = q.current /\ page'.items = q.items
        /\ page'.events = q.events /\ page'.unread = q.unread
    BY <2>1, <2>2 DEF IsPage, PageFields
  <2>5. IsPage(page)' /\ PageIsStored'
    BY <2>1, <2>2, <2>3, <2>4 DEF IsPage, PageIsStored
  <2> QED  BY <2>1, <2>4, <2>5 DEF PageInv
<1>5. CASE LeavePage
  <2>1. /\ page'.visible = FALSE /\ page' = Hidden
        /\ UNCHANGED <<named, adding>>
    BY <1>5 DEF LeavePage, Hidden, vars
  <2>2. IsPage(page)' /\ PageIsStored'
    BY <2>1 DEF Hidden, IsPage, PageFields, PageIsStored
  <2> QED  BY <2>1, <2>2 DEF PageInv
<1>6. CASE DeliverReload
  <2>1. /\ page' = Loaded(page.current, named', items', events')
        /\ adding' = Nothing /\ named' = named
    BY <1>6 DEF DeliverReload, vars
  <2> QED  BY <2>1, LoadedIsStored DEF PageInv
<1>7. CASE Acknowledge
  <2>1. /\ page' = Loaded(page.current, named', items', events')
        /\ adding' = Nothing /\ named' = named
    BY <1>7 DEF Acknowledge, vars
  <2> QED  BY <2>1, LoadedIsStored DEF PageInv
<1>8. CASE Delete
  <2>1. /\ page' = Loaded(Nothing, named', items', events')
        /\ named' = [named EXCEPT ![page.current] = NoName]
        /\ adding' = Nothing
    BY <1>8 DEF Delete, RemoveItems, vars
  <2>2. named' \in [Lists -> Names \cup {NoName}]
    BY <2>1 DEF PageInv
  <2> QED  BY <2>1, <2>2, LoadedIsStored
<1>9. CASE StopPage
  <2>1. page' = NoPage /\ adding' = Nothing /\ named' = named
    BY <1>9 DEF StopPage, Stop
  <2>2. IsPage(NoPage) /\ NoPage.visible = FALSE
    BY DEF NoPage, IsPage, PageFields
  <2> QED  BY <2>1, <2>2 DEF PageInv, IsPage, PageIsStored
<1>10. ASSUME NEW l \in Lists, Select(l)
       PROVE  PageInv'
  <2>1. /\ page' = [page EXCEPT !.current = l, !.items = ItemsOf(l, items),
                                 !.events = EventsOf(l, events)]
        /\ l \in Existing(named) /\ page.visible
        /\ adding' = Nothing
        /\ UNCHANGED <<named, items, events>>
    BY <1>10 DEF Select, vars
  <2>2. /\ IsPage(page') /\ page'.visible = page.visible /\ page'.due = page.due
        /\ page'.current = l /\ page'.items = ItemsOf(l, items)
        /\ page'.events = EventsOf(l, events) /\ page'.unread = page.unread
    BY <2>1 DEF PageInv, IsPage, PageFields
  <2>3. Chosen(l, named) = l
    BY <2>1 DEF Chosen
  <2>4. ~page.due => page.unread = UnreadIn(events)
    BY <2>1 DEF PageInv, PageIsStored
  <2>5. IsPage(page)' /\ PageIsStored'
    BY <2>1, <2>2, <2>3, <2>4 DEF IsPage, PageIsStored
  <2> QED  BY <2>1, <2>2, <2>5 DEF PageInv
<1>11. ASSUME NEW l \in Lists, NEW name \in Names, Create(l, name)
       PROVE  PageInv'
  <2>1. /\ named' = [named EXCEPT ![l] = name]
        /\ page' = IF page.visible THEN Loaded(l, named', items', events') ELSE page
        /\ adding' = Nothing
    BY <1>11 DEF Create, vars
  <2>2. named' \in [Lists -> Names \cup {NoName}]
    BY <2>1 DEF PageInv
  <2>3. CASE page.visible
    BY <2>1, <2>2, <2>3, LoadedIsStored
  <2>4. CASE ~page.visible
    BY <2>1, <2>2, <2>4 DEF PageInv, IsPage, PageIsStored
  <2> QED  BY <2>3, <2>4
<1>12. ASSUME NEW name \in Names, Rename(name)
       PROVE  PageInv'
  <2>1. /\ page' = Loaded(page.current, named', items', events')
        /\ named' = [named EXCEPT ![page.current] = name]
        /\ adding' = Nothing
    BY <1>12 DEF Rename, vars
  <2>2. named' \in [Lists -> Names \cup {NoName}]
    BY <2>1 DEF PageInv
  <2> QED  BY <2>1, <2>2, LoadedIsStored
<1>13. ASSUME NEW l \in Lists, NEW t \in Targets, AddFromResult(l, t)
       PROVE  PageInv'
  BY <1>13, PageUntouched DEF AddFromResult, Capture
<1>14. ASSUME NEW i \in Used, RemoveItem(i)
       PROVE  PageInv'
  <2>1. /\ page' = Loaded(page.current, named', items', events')
        /\ adding' = Nothing /\ named' = named
    BY <1>14 DEF RemoveItem, RemoveItems
  <2> QED  BY <2>1, LoadedIsStored DEF PageInv
<1>15. CASE UNCHANGED <<vars, wvars>>
  BY <1>15, PageUntouched DEF vars, PageInv
<1> QED
  BY <1>1, <1>2, <1>3, <1>4, <1>5, <1>6, <1>7, <1>8, <1>9, <1>10, <1>11, <1>12, <1>13,
     <1>14, <1>15 DEF WatchlistsNext

\* What the page of the watchlists shows is what is stored, whatever is done on it, on
\* other pages, or by any number of scans, in any order (_reload, _load_detail).
THEOREM PageAgrees == WatchlistsSpec => []PageIsStored
<1>1. PageInv /\ [WatchlistsNext]_<<vars, wvars>> => PageInv'
  BY PageStep
<1>2. PageInv => PageIsStored
  BY DEF PageInv
<1> QED  BY PageInit, <1>1, <1>2, PTL DEF WatchlistsSpec

--------------------------------------------------------------------------------
\* Scans

PartialMaps(S) == UNION {[D -> S] : D \in SUBSET Targets}

ScanState ==
  [pc : {"idle", "read", "looked"}, before : PartialMaps(Snapshot \cup {Unread}),
   index : PartialMaps(Ids), after : PartialMaps(Snapshot)]

ScanTypes ==
  /\ db \in [Targets -> States] \cup {Missing}
  /\ items \in [Ids -> Item \cup {Nothing}]
  /\ adding \in Item \cup {Nothing}
  /\ scan \in [Scanners -> ScanState]
  /\ told \in [Ids -> States \cup {Unread, Crossed}]

\* The items that are followed.
Followed == {i \in Used : told[i] # Crossed}

\* The owner of such an item knows the state in its snapshot.
Known == \A i \in Followed : told[i] = StateIn(items[i].snapshot)

\* A scan under way has read of such an item what is stored; it has the key for no
\* other target, and no other scan has read its own.
Current ==
  \A p \in Scanners :
    /\ DOMAIN scan[p].index = DOMAIN scan[p].before
    /\ scan[p].pc = "looked" => DOMAIN scan[p].after = DOMAIN scan[p].before
    /\ \A i \in Followed :
         /\ items[i].target \in DOMAIN scan[p].before =>
              /\ scan[p].index[items[i].target] = i
              /\ scan[p].before[items[i].target] = items[i].snapshot
              /\ \A q \in Scanners \ {p} : items[i].target \notin DOMAIN scan[q].before
         /\ \A t \in DOMAIN scan[p].index : scan[p].index[t] = i => t = items[i].target

ScanInv == ScanTypes /\ Known /\ Current

--------------------------------------------------------------------------------
\* What a scan reads and records

\* A function on some targets, by its values.
LEMMA PartialMap ==
  ASSUME NEW S, NEW f \in PartialMaps(S)
  PROVE  DOMAIN f \subseteq Targets /\ \A t \in DOMAIN f : f[t] \in S
BY DEF PartialMaps

\* A function on some targets is one of the partial ones.
LEMMA MapIsPartial ==
  ASSUME NEW S, NEW D \in SUBSET Targets, NEW f \in [D -> S]
  PROVE  f \in PartialMaps(S)
BY DEF PartialMaps

\* The fields of a scan.
LEMMA ScanFields ==
  ASSUME ScanTypes, NEW p \in Scanners
  PROVE  /\ scan[p] \in ScanState
         /\ DOMAIN scan[p].before \subseteq Targets
         /\ \A t \in DOMAIN scan[p].before : scan[p].before[t] \in Snapshot \cup {Unread}
         /\ \A t \in DOMAIN scan[p].index : scan[p].index[t] \in Ids
         /\ \A t \in DOMAIN scan[p].after : scan[p].after[t] \in Snapshot
<1>1. scan[p] \in ScanState
  BY DEF ScanTypes
<1>2. /\ scan[p].before \in PartialMaps(Snapshot \cup {Unread})
      /\ scan[p].index \in PartialMaps(Ids)
      /\ scan[p].after \in PartialMaps(Snapshot)
  BY <1>1 DEF ScanState
<1> QED  BY <1>1, <1>2, PartialMap

\* A scan that rests is one.
LEMMA RestingIsScan == Resting \in ScanState
<1>1. \A S : <<>> \in PartialMaps(S)
  <2> TAKE S
  <2>1. <<>> \in [{} -> S]
    OBVIOUS
  <2> QED  BY <2>1 DEF PartialMaps
<1> QED  BY <1>1 DEF Resting, ScanState

\* A snapshot of a target, when there is a database.
LEMMA CapturedIsSnapshot ==
  ASSUME ScanTypes, NEW t \in Targets
  PROVE  /\ Captured(t) \in Snapshot \cup {Unread}
         /\ db # Missing => Captured(t) \in Snapshot
BY DEF ScanTypes, Captured, Snapshot

\* Of one number, the least and the greatest.
LEMMA OnlyOne ==
  ASSUME NEW i \in Nat
  PROVE  Min({i}) = i /\ Max({i}) = i
BY DEF Min, Max

\* Numbers up to a bound have a least and a greatest one.
LEMMA Ends ==
  ASSUME NEW S \in SUBSET Ids, S # {}
  PROVE  Min(S) \in S /\ Max(S) \in S
<1> DEFINE T == {MaxItems - x : x \in S}
<1>1. S \in SUBSET Nat /\ \A x \in S : x <= MaxItems /\ MaxItems - x \in Nat
  BY DEF Ids
<1>2. T \in SUBSET Nat /\ T # {}
  BY <1>1
<1>3. \E x \in S : \A y \in S : x <= y
  <2>1. PICK x \in S : \A y \in S : <<y, x>> \notin OpToRel(<, Nat)
    BY <1>1, NatLessThanWellFounded, WFMin, Zenon
  <2>2. \A y \in S : ~(y < x)
    BY <1>1, <2>1, Zenon DEF OpToRel
  <2> QED  BY <1>1, <2>2
<1>4. \E x \in S : \A y \in S : x >= y
  <2>1. PICK t \in T : \A u \in T : <<u, t>> \notin OpToRel(<, Nat)
    BY <1>2, NatLessThanWellFounded, WFMin, Zenon
  <2>2. \A u \in T : ~(u < t)
    BY <1>2, <2>1, Zenon DEF OpToRel
  <2>3. PICK x \in S : t = MaxItems - x
    BY <2>1
  <2>4. ASSUME NEW y \in S PROVE x >= y
    <3>1. ~(MaxItems - y < MaxItems - x)
      BY <2>2, <2>3
    <3> QED  BY <1>1, <3>1
  <2> QED  BY <2>4
<1> HIDE DEF T
<1>5. Min(S) \in S
  BY <1>3 DEF Min
<1>6. Max(S) \in S
  BY <1>4 DEF Max
<1> QED  BY <1>5, <1>6

\* The row of a followed item that a scan refreshes, from its own target.
LEMMA FreshRow ==
  ASSUME ScanInv, NEW p \in Scanners, scan[p].pc = "looked", NEW i \in Followed
  PROVE  /\ Fresh(p, i) # {} <=> items[i].target \in DOMAIN scan[p].after
         /\ Fresh(p, i) # {} =>
              /\ Fresh(p, i) = {items[i].target}
              /\ scan[p].index[items[i].target] = i
              /\ scan[p].before[items[i].target] = items[i].snapshot
              /\ scan[p].after[items[i].target] \in Snapshot
<1>1. /\ DOMAIN scan[p].after = DOMAIN scan[p].before
      /\ DOMAIN scan[p].index = DOMAIN scan[p].before
      /\ items[i].target \in DOMAIN scan[p].before =>
           /\ scan[p].index[items[i].target] = i
           /\ scan[p].before[items[i].target] = items[i].snapshot
      /\ \A t \in DOMAIN scan[p].index : scan[p].index[t] = i => t = items[i].target
  BY DEF ScanInv, Current
<1>2. \A t \in Fresh(p, i) : t = items[i].target /\ t \in DOMAIN scan[p].after
  BY <1>1 DEF Fresh
<1>3. items[i].target \in DOMAIN scan[p].after => items[i].target \in Fresh(p, i)
  BY <1>1 DEF Fresh
<1>4. \A t \in DOMAIN scan[p].after : scan[p].after[t] \in Snapshot
  BY ScanFields DEF ScanInv
<1> QED  BY <1>1, <1>2, <1>3, <1>4

\* An alert is of a row that is refreshed.
LEMMA AlertOf ==
  ASSUME ScanInv, NEW p \in Scanners, scan[p].pc = "looked", NEW a \in Alerts(p)
  PROVE  /\ a.target \in DOMAIN scan[p].after
         /\ a.item = scan[p].index[a.target] /\ a.item \in Ids
         /\ a.to = scan[p].after[a.target].state /\ a.to \in States
         /\ Differs(scan[p].before[a.target], scan[p].after[a.target])
         /\ a.target \in Fresh(p, a.item)
<1>1. PICK t \in DOMAIN scan[p].after :
        /\ a = [item |-> scan[p].index[t], target |-> t, to |-> scan[p].after[t].state]
        /\ Differs(scan[p].before[t], scan[p].after[t])
  BY DEF Alerts
<1>2. scan[p].index[t] \in Ids /\ scan[p].after[t] \in Snapshot
  BY <1>1, ScanFields DEF ScanInv, Current
<1> QED  BY <1>1, <1>2 DEF Snapshot, Fresh

\* After a scan the owner of a followed item it covers knows the state it found, and
\* what is known of the others stays.
LEMMA Recorded ==
  ASSUME ScanInv, NEW p \in Scanners, Record(p), NEW i \in Followed
  PROVE  /\ Fresh(p, i) = {} => items'[i] = items[i] /\ told'[i] = told[i]
         /\ Fresh(p, i) # {} =>
              /\ items'[i] = [items[i] EXCEPT !.snapshot = scan[p].after[items[i].target]]
              /\ told'[i] = scan[p].after[items[i].target].state
<1> DEFINE t == items[i].target
           said == {a \in Alerts(p) : a.item = i}
<1>1. scan[p].pc = "looked" /\ items' = Refreshed(p) /\ i \in Ids /\ items[i] # Nothing
      /\ told[i] # Crossed
  BY DEF Record, Followed, Used
<1>2. told'[i] = IF said # {} THEN (CHOOSE a \in said : TRUE).to
                 ELSE IF told[i] = Unread /\ Fresh(p, i) # {} THEN items'[i].snapshot.state
                 ELSE told[i]
  BY <1>1 DEF Record
<1>3. ASSUME NEW a \in said
      PROVE  Fresh(p, i) # {} /\ a.target \in Fresh(p, i)
  BY <1>1, AlertOf
<1>4. CASE Fresh(p, i) = {}
  <2>1. said = {}
    BY <1>3, <1>4
  <2>2. items'[i] = items[i]
    BY <1>1, <1>4 DEF Refreshed
  <2> QED  BY <1>2, <1>4, <2>1, <2>2
<1>5. CASE Fresh(p, i) # {}
  <2>1. /\ Fresh(p, i) = {t}
        /\ scan[p].index[t] = i /\ scan[p].before[t] = items[i].snapshot
        /\ scan[p].after[t] \in Snapshot
    BY <1>1, <1>5, FreshRow
  <2>2. items'[i] = [items[i] EXCEPT !.snapshot = scan[p].after[t]]
    BY <1>1, <1>5, <2>1 DEF Refreshed
  <2>3. items'[i].snapshot = scan[p].after[t]
    BY <1>1, <2>2 DEF ScanInv, ScanTypes, Item
  <2>4. told[i] = StateIn(scan[p].before[t])
    BY <2>1 DEF ScanInv, Known
  <2>5. CASE said # {}
    <3>1. \A a \in said : a.to = scan[p].after[t].state
      BY <1>1, <1>3, <2>1, AlertOf
    <3> QED  BY <1>2, <1>5, <2>2, <2>5, <3>1
  <2>6. CASE said = {}
    <3>1. ~Differs(scan[p].before[t], scan[p].after[t])
      <4>1. SUFFICES ASSUME Differs(scan[p].before[t], scan[p].after[t])
                     PROVE  FALSE
        OBVIOUS
      <4>2. t \in DOMAIN scan[p].after
        BY <2>1 DEF Fresh
      <4>3. [item |-> scan[p].index[t], target |-> t, to |-> scan[p].after[t].state] \in Alerts(p)
        BY <4>1, <4>2 DEF Alerts
      <4> QED  BY <2>1, <2>6, <4>3
    <3>2. CASE scan[p].before[t] = Unread
      BY <1>2, <1>5, <2>2, <2>3, <2>4, <2>6, <3>2 DEF StateIn
    <3>3. CASE scan[p].before[t] # Unread
      <4>1. told[i] = scan[p].after[t].state
        BY <2>4, <3>1, <3>3 DEF StateIn, Differs
      <4>2. told[i] # Unread
        BY <2>1, <4>1 DEF Snapshot
      <4> QED  BY <1>2, <1>5, <2>2, <2>6, <4>1, <4>2
    <3> QED  BY <3>2, <3>3
  <2> QED  BY <2>5, <2>6
<1> QED  BY <1>4, <1>5

--------------------------------------------------------------------------------
\* The invariant of scans

\* Nothing was reported at the start.
LEMMA ScanInit == WatchlistsInit => ScanInv
<1> SUFFICES ASSUME WatchlistsInit  PROVE ScanInv
  OBVIOUS
<1> USE DEF WatchlistsInit, Init
<1>1. ScanTypes
  BY RestingIsScan DEF ScanTypes
<1>2. Followed = {}
  BY DEF Followed, Used
<1>3. Current
  BY <1>2 DEF Current, Resting
<1> QED  BY <1>1, <1>2, <1>3 DEF ScanInv, Known

\* What is followed stays so, or is given up, and its row and the scans stay.
LEMMA FewerKeep ==
  ASSUME ScanInv, ScanTypes', scan' = scan,
         \A i \in Followed' : i \in Followed /\ items'[i] = items[i] /\ told'[i] = told[i]
  PROVE  ScanInv'
<1>1. Known'
  BY DEF ScanInv, Known
<1>2. Current'
  BY DEF ScanInv, Current
<1> QED  BY <1>1, <1>2 DEF ScanInv

\* An item is added, and followed unless a scan under way has read its target or key.
LEMMA InsertKeeps ==
  ASSUME ScanInv, Insert
  PROVE  ScanInv'
<1> DEFINE n == NextId
           read == \E p \in Scanners : ReadBy(p, n, adding.target)
<1>1. /\ n \in Ids /\ adding \in Item /\ adding # Nothing
      /\ items' = [items EXCEPT ![n] = adding]
      /\ told' = [told EXCEPT ![n] = IF read THEN Crossed ELSE StateIn(adding.snapshot)]
      /\ adding' = Nothing /\ db' = db /\ scan' = scan
  BY DEF Insert, ScanInv, ScanTypes
<1> HIDE DEF n, read
<1>2. ScanTypes'
  <2>1. StateIn(adding.snapshot) \in States \cup {Unread}
    BY <1>1 DEF StateIn, Item, Snapshot
  <2> QED  BY <1>1, <2>1 DEF ScanInv, ScanTypes
<1>3. ASSUME NEW i \in Followed', i # n
      PROVE  i \in Followed /\ items'[i] = items[i] /\ told'[i] = told[i]
  BY <1>1, <1>3 DEF Followed, Used, ScanInv, ScanTypes
<1>4. n \in Followed' => /\ ~read /\ items'[n] = adding /\ told'[n] = StateIn(adding.snapshot)
  BY <1>1 DEF Followed, ScanInv, ScanTypes
<1>5. Known'
  BY <1>3, <1>4 DEF ScanInv, Known
<1>6. ASSUME NEW p \in Scanners, ~read
      PROVE  /\ adding.target \notin DOMAIN scan[p].index
             /\ \A t \in DOMAIN scan[p].index : scan[p].index[t] # n
  BY <1>6 DEF read, ReadBy
<1>7. ASSUME NEW p \in Scanners, NEW i \in Followed'
      PROVE  /\ items'[i].target \in DOMAIN scan[p].before =>
                  /\ scan[p].index[items'[i].target] = i
                  /\ scan[p].before[items'[i].target] = items'[i].snapshot
                  /\ \A q \in Scanners \ {p} : items'[i].target \notin DOMAIN scan[q].before
             /\ \A t \in DOMAIN scan[p].index : scan[p].index[t] = i => t = items'[i].target
  <2>1. CASE i = n
    <3>1. ~read /\ items'[i].target = adding.target
      BY <1>4, <1>7, <2>1
    <3>2. DOMAIN scan[p].index = DOMAIN scan[p].before
      BY DEF ScanInv, Current
    <3> QED  BY <1>6, <2>1, <3>1, <3>2
  <2>2. CASE i # n
    BY <1>3, <1>7, <2>2 DEF ScanInv, Current
  <2> QED  BY <2>1, <2>2
<1>8. Current'
  BY <1>1, <1>7 DEF ScanInv, Current
<1> QED  BY <1>2, <1>5, <1>8 DEF ScanInv

\* Items are removed, also during a scan.
LEMMA RemovalKeeps ==
  ASSUME ScanInv, NEW ids, RemoveItems(ids)
  PROVE  ScanInv'
<1>1. /\ items' = [i \in Ids |-> IF i \in ids THEN Nothing ELSE items[i]]
      /\ told' = [i \in Ids |-> IF i \in ids THEN Unread ELSE told[i]]
      /\ UNCHANGED <<db, adding, scan>>
  BY DEF RemoveItems
<1>2. ScanTypes'
  BY <1>1 DEF ScanInv, ScanTypes
<1>3. \A i \in Followed' : i \in Followed /\ items'[i] = items[i] /\ told'[i] = told[i]
  BY <1>1 DEF Followed, Used
<1> QED  BY <1>1, <1>2, <1>3, FewerKeep

\* What the items are is read from their rows; those that share a target, or that
\* another scan has read, are given up.
LEMMA ReadKeeps ==
  ASSUME ScanInv, NEW p \in Scanners, Read(p)
  PROVE  ScanInv'
<1> DEFINE watched == {t \in Targets : Watching(t) # {}}
           before  == [t \in watched |-> items[Min(Watching(t))].snapshot]
           index   == [t \in watched |-> Max(Watching(t))]
           state   == [pc |-> "read", before |-> before, index |-> index, after |-> <<>>]
<1>1. /\ scan' = [scan EXCEPT ![p] = state] /\ UNCHANGED <<db, items, adding>>
      /\ told' = [i \in Ids |-> IF i \in Mixed(p) THEN Crossed ELSE told[i]]
  BY DEF Read
<1>2. ASSUME NEW t \in watched
      PROVE  Min(Watching(t)) \in Watching(t) /\ Max(Watching(t)) \in Watching(t)
  <2>1. Watching(t) \in SUBSET Ids /\ Watching(t) # {}
    BY <1>2 DEF Watching, Used
  <2> QED  BY <2>1, Ends
<1>3. \A t \in watched : /\ before[t] = items[Min(Watching(t))].snapshot
                         /\ index[t] \in Used /\ items[index[t]].target = t
  BY <1>2 DEF Watching
<1>4. state \in ScanState
  <2>1. \A t \in watched : before[t] \in Snapshot \cup {Unread} /\ index[t] \in Ids
    <3>1. \A i \in Used : i \in Ids /\ items[i].snapshot \in Snapshot \cup {Unread}
      BY DEF Used, ScanInv, ScanTypes, Item
    <3> QED  BY <1>2, <3>1 DEF Watching
  <2>2. before \in [watched -> Snapshot \cup {Unread}] /\ index \in [watched -> Ids]
    BY <2>1
  <2>3. watched \in SUBSET Targets
    OBVIOUS
  <2> HIDE DEF watched, before, index
  <2>4. /\ before \in PartialMaps(Snapshot \cup {Unread}) /\ index \in PartialMaps(Ids)
    BY <2>2, <2>3, MapIsPartial
  <2>5. <<>> \in PartialMaps(Snapshot)
    BY RestingIsScan DEF Resting, ScanState
  <2> QED  BY <2>4, <2>5 DEF ScanState
<1>5. ScanTypes'
  <2>1. told' \in [Ids -> States \cup {Unread, Crossed}]
    BY <1>1 DEF ScanInv, ScanTypes
  <2> HIDE DEF state
  <2> QED  BY <1>1, <1>4, <2>1 DEF ScanInv, ScanTypes
<1>6. \A i \in Followed' : /\ i \in Followed /\ told'[i] = told[i] /\ i \notin Mixed(p)
                           /\ items'[i] = items[i]
  BY <1>1 DEF Followed, Used
<1>7. Known'
  BY <1>6 DEF ScanInv, Known
<1>8. ASSUME NEW i \in Followed'
      PROVE  /\ items[i].target \in watched => /\ index[items[i].target] = i
                                               /\ before[items[i].target] = items[i].snapshot
             /\ \A t \in watched : index[t] = i => t = items[i].target
             /\ \A q \in Scanners \ {p} : items[i].target \notin DOMAIN scan[q].before
  <2>1. i \in Used /\ i \in Nat /\ i \notin Mixed(p)
    BY <1>6 DEF Followed, Used, Ids
  <2>2. /\ \A j \in Used \ {i} : items[j].target # items[i].target
        /\ \A q \in Scanners \ {p} : items[i].target \notin DOMAIN scan[q].before
    BY <2>1 DEF Mixed
  <2>3. Watching(items[i].target) = {i}
    BY <2>1, <2>2 DEF Watching
  <2>4. Min(Watching(items[i].target)) = i /\ Max(Watching(items[i].target)) = i
    BY <2>1, <2>3, OnlyOne
  <2> QED  BY <1>3, <2>2, <2>4
<1>9. \A q \in Scanners : scan'[q] = IF q = p THEN state ELSE scan[q]
  BY <1>1 DEF ScanInv, ScanTypes
<1>10. /\ state.pc = "read" /\ state.before = before /\ state.index = index
       /\ DOMAIN before = watched /\ DOMAIN index = watched
  OBVIOUS
<1> HIDE DEF state, watched, before, index
<1>11. ASSUME NEW q \in Scanners
       PROVE  /\ DOMAIN scan'[q].index = DOMAIN scan'[q].before
              /\ scan'[q].pc = "looked" => DOMAIN scan'[q].after = DOMAIN scan'[q].before
              /\ \A i \in Followed' :
                   /\ items'[i].target \in DOMAIN scan'[q].before =>
                        /\ scan'[q].index[items'[i].target] = i
                        /\ scan'[q].before[items'[i].target] = items'[i].snapshot
                        /\ \A o \in Scanners \ {q} : items'[i].target \notin DOMAIN scan'[o].before
                   /\ \A t \in DOMAIN scan'[q].index : scan'[q].index[t] = i => t = items'[i].target
  <2>1. CASE q = p
    <3>1. /\ scan'[q].pc = "read" /\ scan'[q].before = before /\ scan'[q].index = index
          /\ \A o \in Scanners \ {q} : scan'[o] = scan[o]
      BY <1>9, <1>10, <2>1
    <3> QED  BY <1>6, <1>8, <1>10, <2>1, <3>1
  <2>2. CASE q # p
    <3>1. scan'[q] = scan[q]
      BY <1>9, <2>2
    <3>2. \A i \in Followed' : items'[i].target \notin DOMAIN scan[q].before
      BY <1>6, <1>8, <2>2
    <3> QED  BY <1>6, <3>1, <3>2 DEF ScanInv, Current
  <2> QED  BY <2>1, <2>2
<1>12. Current'
  BY <1>11 DEF Current
<1> QED  BY <1>5, <1>7, <1>12 DEF ScanInv

\* The targets that were read are looked up.
LEMMA LookKeeps ==
  ASSUME ScanInv, NEW p \in Scanners, Look(p)
  PROVE  ScanInv'
<1> DEFINE after == [t \in DOMAIN scan[p].before |-> Captured(t)]
<1>1. /\ scan' = [scan EXCEPT ![p].pc = "looked", ![p].after = after]
      /\ scan[p].pc = "read" /\ db # Missing
      /\ UNCHANGED <<db, items, adding, told>>
  BY DEF Look
<1>2. after \in PartialMaps(Snapshot)
  <2>1. DOMAIN scan[p].before \in SUBSET Targets
    BY ScanFields DEF ScanInv
  <2>2. after \in [DOMAIN scan[p].before -> Snapshot]
    BY <1>1, <2>1, CapturedIsSnapshot DEF ScanInv
  <2> HIDE DEF after
  <2> QED  BY <2>1, <2>2, MapIsPartial
<1>3. DOMAIN after = DOMAIN scan[p].before
  OBVIOUS
<1> HIDE DEF after
<1>4. /\ scan \in [Scanners -> ScanState]
      /\ scan'[p] \in ScanState /\ scan'[p].pc = "looked" /\ scan'[p].after = after
      /\ scan'[p].before = scan[p].before /\ scan'[p].index = scan[p].index
      /\ \A q \in Scanners : q # p => scan'[q] = scan[q]
      /\ scan' \in [Scanners -> ScanState]
  BY <1>1, <1>2, ZenonT(60) DEF ScanInv, ScanTypes, ScanState
<1>5. ScanTypes'
  BY <1>1, <1>4 DEF ScanInv, ScanTypes
<1>6. Followed' = Followed
  BY <1>1 DEF Followed, Used
<1>7. Known'
  BY <1>1, <1>6 DEF ScanInv, Known
<1>8. \A q \in Scanners : scan'[q].before = scan[q].before /\ scan'[q].index = scan[q].index
  BY <1>4
<1>9. \A q \in Scanners : scan'[q].pc = "looked" => DOMAIN scan'[q].after = DOMAIN scan'[q].before
  BY <1>3, <1>4 DEF ScanInv, Current
<1>10. ASSUME NEW q \in Scanners
       PROVE  /\ DOMAIN scan'[q].index = DOMAIN scan'[q].before
              /\ \A i \in Followed :
                   /\ items[i].target \in DOMAIN scan'[q].before =>
                        /\ scan'[q].index[items[i].target] = i
                        /\ scan'[q].before[items[i].target] = items[i].snapshot
                        /\ \A o \in Scanners \ {q} : items[i].target \notin DOMAIN scan'[o].before
                   /\ \A t \in DOMAIN scan'[q].index : scan'[q].index[t] = i => t = items[i].target
  BY <1>8 DEF ScanInv, Current
<1>11. items' = items
  BY <1>1
<1>12. Current'
  BY <1>6, <1>9, <1>10, <1>11 DEF Current
<1> QED  BY <1>5, <1>7, <1>12 DEF ScanInv

\* A scan that ends without recording, and the end of the application.
LEMMA RestingKeeps ==
  ASSUME ScanInv, UNCHANGED <<db, items, told>>, adding' \in {adding, Nothing},
         scan' \in [Scanners -> ScanState],
         \A q \in Scanners : scan'[q] = scan[q] \/ scan'[q] = Resting
  PROVE  ScanInv'
<1>1. ScanTypes'
  BY DEF ScanInv, ScanTypes
<1>2. Followed' = Followed
  BY DEF Followed, Used
<1>3. Known'
  BY <1>2 DEF ScanInv, Known
<1>4. /\ Resting.pc = "idle" /\ DOMAIN Resting.before = {} /\ DOMAIN Resting.index = {}
  BY DEF Resting
<1>5. \A q \in Scanners : \A t : t \notin DOMAIN scan[q].before => t \notin DOMAIN scan'[q].before
  BY <1>4
<1>6. ASSUME NEW q \in Scanners
      PROVE  /\ DOMAIN scan'[q].index = DOMAIN scan'[q].before
             /\ scan'[q].pc = "looked" => DOMAIN scan'[q].after = DOMAIN scan'[q].before
             /\ \A i \in Followed :
                  /\ items[i].target \in DOMAIN scan'[q].before =>
                       /\ scan'[q].index[items[i].target] = i
                       /\ scan'[q].before[items[i].target] = items[i].snapshot
                       /\ \A o \in Scanners \ {q} : items[i].target \notin DOMAIN scan'[o].before
                  /\ \A t \in DOMAIN scan'[q].index : scan'[q].index[t] = i => t = items[i].target
  <2>1. CASE scan'[q] = Resting
    BY <1>4, <2>1
  <2>2. CASE scan'[q] = scan[q]
    BY <1>5, <2>2 DEF ScanInv, Current
  <2> QED  BY <2>1, <2>2
<1>7. Current'
  BY <1>2, <1>6 DEF Current
<1> QED  BY <1>1, <1>3, <1>7 DEF ScanInv

\* The alerts and the new snapshots are recorded.
LEMMA RecordKeeps ==
  ASSUME ScanInv, NEW p \in Scanners, Record(p)
  PROVE  ScanInv'
<1>1. /\ scan[p].pc = "looked" /\ items' = Refreshed(p)
      /\ scan' = [scan EXCEPT ![p] = Resting] /\ UNCHANGED <<db, adding>>
  BY DEF Record
<1>2. ASSUME NEW i \in Ids
      PROVE  /\ items'[i] \in Item \cup {Nothing}
             /\ items'[i] = Nothing <=> items[i] = Nothing
             /\ items[i] # Nothing => items'[i].target = items[i].target
  <2>1. items[i] \in Item \cup {Nothing}
    BY DEF ScanInv, ScanTypes
  <2>2. CASE items[i] = Nothing \/ Fresh(p, i) = {}
    BY <1>1, <2>1, <2>2 DEF Refreshed
  <2>3. CASE ~(items[i] = Nothing \/ Fresh(p, i) = {})
    <3>1. PICK t \in Fresh(p, i) : t = CHOOSE u \in Fresh(p, i) : TRUE
      BY <2>3
    <3>2. scan[p].after[t] \in Snapshot
      BY <3>1, ScanFields DEF Fresh, ScanInv
    <3>3. items'[i] = [items[i] EXCEPT !.snapshot = scan[p].after[t]]
      BY <1>1, <2>3, <3>1 DEF Refreshed
    <3> QED  BY <2>1, <2>3, <3>2, <3>3 DEF Item
  <2> QED  BY <2>2, <2>3
<1>3. ASSUME NEW i \in Ids
      PROVE  /\ told'[i] \in States \cup {Unread, Crossed}
             /\ told[i] = Crossed => told'[i] = Crossed
  <2> DEFINE said == {a \in Alerts(p) : a.item = i}
  <2>1. told'[i] = IF told[i] = Crossed THEN Crossed
                   ELSE IF said # {} THEN (CHOOSE a \in said : TRUE).to
                   ELSE IF told[i] = Unread /\ items[i] # Nothing /\ Fresh(p, i) # {}
                        THEN items'[i].snapshot.state
                   ELSE told[i]
    BY DEF Record
  <2>2. told[i] \in States \cup {Unread, Crossed}
    BY DEF ScanInv, ScanTypes
  <2>3. \A a \in said : a.to \in States
    BY <1>1, AlertOf
  <2>4. CASE said # {}
    <3>1. PICK a \in said : a = CHOOSE b \in said : TRUE
      BY <2>4
    <3> QED  BY <2>1, <2>2, <2>3, <2>4, <3>1
  <2>5. CASE items[i] # Nothing /\ Fresh(p, i) # {}
    <3>1. PICK t \in Fresh(p, i) : t = CHOOSE u \in Fresh(p, i) : TRUE
      BY <2>5
    <3>2. scan[p].after[t] \in Snapshot
      BY <3>1, ScanFields DEF Fresh, ScanInv
    <3>3. items'[i] = [items[i] EXCEPT !.snapshot = scan[p].after[t]]
      BY <1>1, <2>5, <3>1 DEF Refreshed
    <3>4. items[i] \in Item
      BY <2>5 DEF ScanInv, ScanTypes
    <3>5. items'[i].snapshot.state \in States
      BY <3>2, <3>3, <3>4 DEF Item, Snapshot
    <3>6. CASE said = {}
      BY <2>1, <2>2, <3>5, <3>6
    <3> QED  BY <2>4, <3>6
  <2>6. CASE said = {} /\ ~(items[i] # Nothing /\ Fresh(p, i) # {})
    BY <2>1, <2>2, <2>6
  <2> QED  BY <2>4, <2>5, <2>6
<1>4. Followed' \subseteq Followed
  BY <1>2, <1>3 DEF Followed, Used
<1>5. ScanTypes'
  <2>1. scan' \in [Scanners -> ScanState]
    BY <1>1, RestingIsScan DEF ScanInv, ScanTypes
  <2>2. items' = [i \in Ids |-> items'[i]] /\ told' = [i \in Ids |-> told'[i]]
    BY DEF Record, Refreshed
  <2>3. items' \in [Ids -> Item \cup {Nothing}] /\ told' \in [Ids -> States \cup {Unread, Crossed}]
    BY <1>2, <1>3, <2>2
  <2> QED  BY <1>1, <2>1, <2>3 DEF ScanInv, ScanTypes
<1>6. ASSUME NEW i \in Followed
      PROVE  told'[i] = StateIn(items'[i].snapshot)
  <2>1. items[i] \in Item
    BY DEF Followed, Used, ScanInv, ScanTypes
  <2>2. CASE Fresh(p, i) = {}
    BY <2>2, Recorded DEF ScanInv, Known
  <2>3. CASE Fresh(p, i) # {}
    <3> DEFINE s == scan[p].after[items[i].target]
    <3>1. items'[i] = [items[i] EXCEPT !.snapshot = s] /\ told'[i] = s.state
      BY <2>3, Recorded
    <3>2. s \in Snapshot
      BY <1>1, <2>3, FreshRow
    <3> HIDE DEF s
    <3> QED  BY <2>1, <3>1, <3>2 DEF Item, Snapshot, StateIn
  <2> QED  BY <2>2, <2>3
<1>7. Known'
  BY <1>4, <1>6 DEF Known
<1>8. /\ Resting.pc = "idle" /\ DOMAIN Resting.before = {} /\ DOMAIN Resting.index = {}
  BY DEF Resting
<1>9. \A q \in Scanners : scan'[q] = IF q = p THEN Resting ELSE scan[q]
  BY <1>1 DEF ScanInv, ScanTypes
<1>10. ASSUME NEW q \in Scanners \ {p}, NEW i \in Followed,
              items[i].target \in DOMAIN scan[q].before
       PROVE  items'[i] = items[i]
  <2>1. items[i].target \notin DOMAIN scan[p].before
    BY <1>10 DEF ScanInv, Current
  <2>2. DOMAIN scan[p].after = DOMAIN scan[p].before
    BY <1>1 DEF ScanInv, Current
  <2>3. Fresh(p, i) = {}
    BY <1>1, <2>1, <2>2, FreshRow
  <2> QED  BY <2>3, Recorded
<1>11. ASSUME NEW q \in Scanners
       PROVE  /\ DOMAIN scan'[q].index = DOMAIN scan'[q].before
              /\ scan'[q].pc = "looked" => DOMAIN scan'[q].after = DOMAIN scan'[q].before
              /\ \A i \in Followed' :
                   /\ items'[i].target \in DOMAIN scan'[q].before =>
                        /\ scan'[q].index[items'[i].target] = i
                        /\ scan'[q].before[items'[i].target] = items'[i].snapshot
                        /\ \A o \in Scanners \ {q} : items'[i].target \notin DOMAIN scan'[o].before
                   /\ \A t \in DOMAIN scan'[q].index : scan'[q].index[t] = i => t = items'[i].target
  <2>1. CASE q = p
    BY <1>8, <1>9, <2>1
  <2>2. CASE q # p
    <3>1. scan'[q] = scan[q]
      BY <1>9, <2>2
    <3>2. \A o \in Scanners : \A t : t \notin DOMAIN scan[o].before => t \notin DOMAIN scan'[o].before
      BY <1>8, <1>9
    <3>3. \A i \in Followed' : i \in Followed /\ items'[i].target = items[i].target
      BY <1>2, <1>4 DEF Followed, Used
    <3>4. /\ DOMAIN scan[q].index = DOMAIN scan[q].before
          /\ scan[q].pc = "looked" => DOMAIN scan[q].after = DOMAIN scan[q].before
      BY DEF ScanInv, Current
    <3>5. ASSUME NEW i \in Followed'
          PROVE  /\ items[i].target \in DOMAIN scan[q].before =>
                      /\ scan[q].index[items[i].target] = i
                      /\ scan[q].before[items[i].target] = items'[i].snapshot
                      /\ \A o \in Scanners \ {q} : items[i].target \notin DOMAIN scan[o].before
                 /\ \A t \in DOMAIN scan[q].index : scan[q].index[t] = i => t = items[i].target
      BY <1>10, <2>2, <3>3, <3>5 DEF ScanInv, Current
    <3> QED  BY <3>1, <3>2, <3>3, <3>4, <3>5
  <2> QED  BY <2>1, <2>2
<1>12. Current'
  BY <1>11 DEF Current
<1> QED  BY <1>5, <1>7, <1>12 DEF ScanInv

\* What a step of the whole does to the scans and the items.
LEMMA WhatHappens ==
  ASSUME [WatchlistsNext]_<<vars, wvars>>
  PROVE  \/ \E new \in [Targets -> States] : Install(new)
         \/ Vanish \/ Insert \/ InsertRefused \/ Stop \/ UNCHANGED vars
         \/ \E ids : RemoveItems(ids)
         \/ \E l \in Lists, t \in Targets : Capture(l, t)
         \/ \E p \in Scanners : Read(p) \/ Look(p) \/ Skip(p) \/ Record(p) \/ RecordFails(p)
BY DEF WatchlistsNext, RecordEvents, ShowPage, LeavePage, DeliverReload, Acknowledge, Delete,
       StopPage, Select, Create, Rename, AddFromResult, RemoveItem

\* Every step of the scan keeps what was reported.
LEMMA ScanStep ==
  ASSUME ScanInv, [WatchlistsNext]_<<vars, wvars>>
  PROVE  ScanInv'
<1>1. ASSUME NEW new \in [Targets -> States], Install(new)
      PROVE  ScanInv'
  <2>1. ScanTypes' /\ Followed' = Followed
    BY <1>1 DEF Install, ScanInv, ScanTypes, Followed, Used
  <2> QED  BY <1>1, <2>1, FewerKeep DEF Install
<1>2. CASE Vanish
  <2>1. ScanTypes' /\ Followed' = Followed
    BY <1>2 DEF Vanish, ScanInv, ScanTypes, Followed, Used
  <2> QED  BY <1>2, <2>1, FewerKeep DEF Vanish
<1>3. CASE Insert
  BY <1>3, InsertKeeps
<1>4. CASE InsertRefused
  BY <1>4, RestingKeeps DEF InsertRefused, ScanInv, ScanTypes
<1>5. CASE Stop
  <2>1. scan' \in [Scanners -> ScanState]
    BY <1>5, RestingIsScan DEF Stop
  <2> QED  BY <1>5, <2>1, RestingKeeps DEF Stop
<1>6. CASE UNCHANGED vars
  BY <1>6, RestingKeeps DEF vars, ScanInv, ScanTypes
<1>7. ASSUME NEW ids, RemoveItems(ids)
      PROVE  ScanInv'
  BY <1>7, RemovalKeeps
<1>8. ASSUME NEW l \in Lists, NEW t \in Targets, Capture(l, t)
      PROVE  ScanInv'
  <2>1. Captured(t) \in Snapshot \cup {Unread}
    BY CapturedIsSnapshot DEF ScanInv
  <2>2. adding' = [list |-> l, target |-> t, snapshot |-> Captured(t)]
        /\ UNCHANGED <<db, items, scan, told>>
    BY <1>8 DEF Capture
  <2>3. adding' \in Item
    BY <2>1, <2>2 DEF Item
  <2>4. ScanTypes' /\ Followed' = Followed
    BY <2>2, <2>3 DEF ScanInv, ScanTypes, Followed, Used
  <2> QED  BY <2>2, <2>4, FewerKeep
<1>9. ASSUME NEW p \in Scanners, Read(p) \/ Look(p) \/ Skip(p) \/ Record(p) \/ RecordFails(p)
      PROVE  ScanInv'
  <2>1. CASE Skip(p) \/ RecordFails(p)
    <3>1. scan' = [scan EXCEPT ![p] = Resting] /\ UNCHANGED <<db, items, adding, told>>
      BY <2>1 DEF Skip, RecordFails
    <3>2. scan' \in [Scanners -> ScanState]
      BY <3>1, RestingIsScan DEF ScanInv, ScanTypes
    <3>3. \A q \in Scanners : scan'[q] = scan[q] \/ scan'[q] = Resting
      BY <3>1 DEF ScanInv, ScanTypes
    <3> QED  BY <3>1, <3>2, <3>3, RestingKeeps
  <2> QED  BY <1>9, <2>1, ReadKeeps, LookKeeps, RecordKeeps
<1> QED
  BY <1>1, <1>2, <1>3, <1>4, <1>5, <1>6, <1>7, <1>8, <1>9, WhatHappens

--------------------------------------------------------------------------------
\* What is reported

\* No scan tells the owner of an item that is not crossed of a state that is known
\* already, whatever other scans, lists, additions and removals there are (_compare,
\* _record).
THEOREM ValuesAreReportedOnce == WatchlistsSpec => ValueReportedOnce
<1>1. ASSUME ScanInv
      PROVE  \A p \in Scanners : Record(p) =>
               \A a \in Alerts(p) :
                 told[a.item] = Crossed \/ a.to = Absent \/ a.to # told[a.item]
  <2>1. SUFFICES ASSUME NEW p \in Scanners, Record(p), NEW a \in Alerts(p),
                        told[a.item] # Crossed
                 PROVE  a.to = Absent \/ a.to # told[a.item]
    OBVIOUS
  <2>2. scan[p].pc = "looked" /\ items[a.item] # Nothing
    BY <2>1 DEF Record
  <2>3. /\ a.item \in Followed
        /\ a.target \in Fresh(p, a.item)
        /\ a.to = scan[p].after[a.target].state
        /\ Differs(scan[p].before[a.target], scan[p].after[a.target])
    BY <1>1, <2>1, <2>2, AlertOf DEF Followed, Used
  <2>4. scan[p].before[a.target] = items[a.item].snapshot
    BY <1>1, <2>2, <2>3, FreshRow
  <2>5. told[a.item] = StateIn(scan[p].before[a.target])
    BY <1>1, <2>3, <2>4 DEF ScanInv, Known
  <2> QED  BY <2>3, <2>5 DEF Differs, StateIn
<1>2. ScanInv /\ [WatchlistsNext]_<<vars, wvars>> => ScanInv'
  BY ScanStep
<1>3. ScanInv /\ [WatchlistsNext]_<<vars, wvars>> =>
        [\A p \in Scanners : Record(p) =>
           \A a \in Alerts(p) :
             told[a.item] = Crossed \/ a.to = Absent \/ a.to # told[a.item]]_vars
  BY <1>1
<1> QED  BY ScanInit, <1>2, <1>3, PTL DEF WatchlistsSpec, ValueReportedOnce

\* After a scan that recorded, the owner of every item it covered that is not crossed
\* knows the state it found, likewise (scan_for_changes).
THEOREM NothingIsMissed == WatchlistsSpec => NothingMissed
<1>1. ASSUME ScanInv
      PROVE  \A p \in Scanners : Record(p) =>
               \A i \in Used : items[i].target \in DOMAIN scan[p].after =>
                 told[i] = Crossed \/ told'[i] = scan[p].after[items[i].target].state
  <2>1. SUFFICES ASSUME NEW p \in Scanners, Record(p), NEW i \in Used,
                        items[i].target \in DOMAIN scan[p].after, told[i] # Crossed
                 PROVE  told'[i] = scan[p].after[items[i].target].state
    OBVIOUS
  <2>2. scan[p].pc = "looked" /\ i \in Followed
    BY <2>1 DEF Record, Followed
  <2>3. Fresh(p, i) # {}
    BY <1>1, <2>1, <2>2, FreshRow
  <2> QED  BY <1>1, <2>1, <2>2, <2>3, Recorded
<1>2. ScanInv /\ [WatchlistsNext]_<<vars, wvars>> => ScanInv'
  BY ScanStep
<1>3. ScanInv /\ [WatchlistsNext]_<<vars, wvars>> =>
        [\A p \in Scanners : Record(p) =>
           \A i \in Used : items[i].target \in DOMAIN scan[p].after =>
             told[i] = Crossed \/ told'[i] = scan[p].after[items[i].target].state]_vars
  BY <1>1
<1> QED  BY ScanInit, <1>2, <1>3, PTL DEF WatchlistsSpec, NothingMissed
================================================================================
