------------------------------- MODULE Watchlists -------------------------------
(***************************************************************************)
(* The watchlists themselves and the page that shows them, around the      *)
(* scans of WatchlistScan.                                                 *)
(*                                                                         *)
(* The page shows one list at a time: its items, the changes recorded for  *)
(* it, and how many changes of all lists are unread.  It loads these again *)
(* when it is shown, after each of its own actions, and when it is told    *)
(* that a scan or an installation is over.  Lists are also created, and    *)
(* items added, from the pages of results, by a modal dialog.              *)
(***************************************************************************)
EXTENDS WatchlistScan, Sequences, SequencesExt

CONSTANTS
  Pairs,     \* what the user puts on which list: <<list, target>>
  Names,     \* of lists, up to case; in the order of the list on the page
  NoName,    \* the list is not there
  MaxEvents  \* bound on the changes that are recorded

ASSUME WatchlistsAssumption ==
  /\ Pairs \subseteq Lists \X Targets /\ MaxEvents \in Nat
  /\ Names \subseteq Nat /\ NoName \notin Names

VARIABLES
  named,   \* watchlists, by row id: the name
  events,  \* watchlist_events: [item, list, target, to, read]
  page     \* what it shows, and whether a reload of it is on its way

wvars == <<named, events, page>>

Existing(names) == {l \in Lists : names[l] # NoName}
Free(name, but) == \A l \in Lists \ but : named[l] # name

\* The handlers of the interface run one at a time.
Idle    == adding = Nothing
OnPage  == Idle /\ page.visible

UnreadIn(log) == Cardinality({k \in DOMAIN log : ~log[k].read})

--------------------------------------------------------------------------------
\* _reload

\* The list that was current, or the first by name.
Chosen(l, names) ==
  IF l \in Existing(names) THEN l
  ELSE IF Existing(names) = {} THEN Nothing
  ELSE CHOOSE m \in Existing(names) : \A o \in Existing(names) : names[m] <= names[o]

\* _load_detail
ItemsOf(l, rows) == {i \in Ids : rows[i] # Nothing /\ rows[i].list = l}
EventsOf(l, log) == SelectSeq(log, LAMBDA e : e.list = l)

\* Mutated form of Loaded: the row that is selected already is not selected again.
LoadedOnce(l, names, rows, log) ==
  [page EXCEPT !.current = Chosen(l, names), !.unread = UnreadIn(log), !.due = FALSE,
               !.items = IF Chosen(l, names) = page.current THEN @ ELSE ItemsOf(Chosen(l, names), rows),
               !.events = IF Chosen(l, names) = page.current THEN @ ELSE EventsOf(Chosen(l, names), log)]

Loaded(l, names, rows, log) ==
  [page EXCEPT !.current = Chosen(l, names), !.unread = UnreadIn(log), !.due = FALSE,
               !.items = ItemsOf(Chosen(l, names), rows),
               !.events = EventsOf(Chosen(l, names), log)]

ShowPage ==
  /\ Idle /\ ~page.visible
  /\ page' = [Loaded(page.current, named, items, events) EXCEPT !.visible = TRUE]
  /\ UNCHANGED <<vars, named, events>>

\* What a hidden page holds is loaded again before it is seen.
Hidden == [visible |-> FALSE, current |-> page.current, unread |-> 0, items |-> {}, events |-> <<>>,
           due |-> FALSE]

LeavePage ==
  /\ OnPage
  /\ page' = Hidden
  /\ UNCHANGED <<vars, named, events>>

\* _on_selected
Select(l) ==
  /\ OnPage /\ l \in Existing(named) /\ l # page.current
  /\ page' = [page EXCEPT !.current = l, !.items = ItemsOf(l, items), !.events = EventsOf(l, events)]
  /\ UNCHANGED <<vars, named, events>>

--------------------------------------------------------------------------------
\* Lists

\* On the page, which then shows it, or from the dialog of another one.
Create(l, name) ==
  /\ Idle /\ l \notin Existing(named) /\ Free(name, {})
  /\ named' = [named EXCEPT ![l] = name]
  /\ page' = IF page.visible THEN Loaded(l, named', items, events) ELSE page
  /\ UNCHANGED <<vars, events>>

Rename(name) ==
  /\ OnPage /\ page.current # Nothing /\ Free(name, {page.current})
  /\ named' = [named EXCEPT ![page.current] = name]
  /\ page' = Loaded(page.current, named', items, events)
  /\ UNCHANGED <<vars, events>>

\* With its items and their changes, while a scan may be under way.
Delete ==
  /\ OnPage /\ page.current # Nothing
  /\ named' = [named EXCEPT ![page.current] = NoName]
  /\ events' = SelectSeq(events, LAMBDA e : e.list # page.current)
  /\ IF ItemsOf(page.current, items) = {} THEN UNCHANGED vars
     ELSE RemoveItems(ItemsOf(page.current, items))
  /\ page' = Loaded(Nothing, named', items', events')

--------------------------------------------------------------------------------
\* Items and their changes

AddFromResult(l, t) ==
  /\ ~page.visible /\ l \in Existing(named) /\ <<l, t>> \in Pairs
  /\ Capture(l, t)
  /\ UNCHANGED wvars

\* What was recorded for the item goes with it.
RemoveItem(i) ==
  /\ OnPage /\ i \in page.items
  /\ RemoveItems({i})
  /\ events' = SelectSeq(events, LAMBDA e : e.item # i)
  /\ page' = Loaded(page.current, named, items', events')
  /\ UNCHANGED named

EventOf(a) ==
  [item |-> a.item, list |-> items[a.item].list, target |-> a.target, to |-> a.to, read |-> FALSE]

\* The page is told of the end of a scan, by its own worker or by the window.
RecordEvents(p) ==
  /\ Record(p)
  /\ Len(events) + Cardinality(Alerts(p)) <= MaxEvents
  /\ events' = events \o SetToSeq({EventOf(a) : a \in Alerts(p)})
  /\ page' = [page EXCEPT !.due = page.visible]
  /\ UNCHANGED named

DeliverReload ==
  /\ Idle /\ page.due
  /\ page' = Loaded(page.current, named, items, events)
  /\ UNCHANGED <<vars, named, events>>

\* "Mark all read": of every list, also what the page does not show.
Acknowledge ==
  /\ OnPage /\ page.unread > 0
  /\ events' = [k \in DOMAIN events |-> [events[k] EXCEPT !.read = TRUE]]
  /\ page' = Loaded(page.current, named, items, events')
  /\ UNCHANGED <<vars, named>>

--------------------------------------------------------------------------------
NoPage == [visible |-> FALSE, current |-> Nothing, unread |-> 0, items |-> {}, events |-> <<>>,
           due |-> FALSE]

StopPage ==
  /\ Stop
  /\ page' = NoPage
  /\ UNCHANGED <<named, events>>

WatchlistsInit ==
  Init /\ named = [l \in Lists |-> NoName] /\ events = <<>> /\ page = NoPage

WatchlistsNext ==
  \/ /\ \/ \E new \in [Targets -> States] : Install(new)
        \/ Vanish
        \/ Insert \/ InsertRefused
        \/ \E p \in Scanners : Read(p) \/ Look(p) \/ Skip(p) \/ RecordFails(p)
     /\ UNCHANGED wvars
  \/ \E p \in Scanners : RecordEvents(p)
  \/ ShowPage \/ LeavePage \/ DeliverReload \/ Acknowledge \/ Delete \/ StopPage
  \/ \E l \in Lists : Select(l)
  \/ \E l \in Lists, name \in Names : Create(l, name)
  \/ \E name \in Names : Rename(name)
  \/ \E l \in Lists, t \in Targets : AddFromResult(l, t)
  \/ \E i \in Used : RemoveItem(i)

WatchlistsSpec == WatchlistsInit /\ [][WatchlistsNext]_<<vars, wvars>>

--------------------------------------------------------------------------------
\* What the page shows is what is stored, for the list it shows and in the number of
\* unread changes, whatever was done on it, on other pages or by a scan, once it has
\* been told that the scan is over (_reload, _on_scanned, on_database_changed).
PageIsStored ==
  page.visible /\ ~page.due =>
    /\ page.current = Chosen(page.current, named)
    /\ page.items = ItemsOf(page.current, items)
    /\ page.events = EventsOf(page.current, events)
    /\ page.unread = UnreadIn(events)
================================================================================
