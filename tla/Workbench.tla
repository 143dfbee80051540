-------------------------------- MODULE Workbench --------------------------------
(***************************************************************************)
(* The pages that look things up, and what runs behind them.               *)
(*                                                                         *)
(* Handlers run one at a time on the GUI thread; every read of the         *)
(* database is a worker on the pool, whose answer comes back through the   *)
(* event queue and is applied by a later handler.  In between, the user    *)
(* may have asked for something else, the database may have been replaced  *)
(* and the window may have been closed.                                    *)
(*                                                                         *)
(* A channel is <<page, part>>: what a worker's answer is shown in.        *)
(***************************************************************************)
EXTENDS Naturals, Sequences, FiniteSets, SequencesExt

CONSTANTS
  Bins,         \* what is typed into the BIN field
  Known,        \* of these, the ones the database has a record for
  Invalid,      \* of these, the ones that are no BIN
  Names,        \* what is typed into an institution field
  MatchesOf,    \* per name, the institutions it finds, best first
  Institutions,
  Filters,      \* what a filter bar can be set to
  Offered,      \* per institution, the filters its BINs offer
  Browsers,     \* the pages with an institution view: bank_lookup, institutions
  Texts,        \* what is typed into the palette and into the advanced search
  Labels,       \* the version strings a database can carry
  LabelOf,      \* per database content, its version string
  Visits,       \* the sets of pages that one behaviour uses
  Parts,        \* the parts of an institution's page that are followed
  Threads,      \* the size of the pool
  JobKinds,     \* what the maintenance pages have the pool do
  Keep,         \* max_history
  HardCap,      \* HISTORY_HARD_CAP
  MaxActs,      \* per set of pages, bound on what the user does
  MaxContents,  \* bound on the databases that there are one after the other
  None

ASSUME WorkbenchAssumption ==
  /\ Threads \in Nat \ {0} /\ HardCap \in Nat \ {0} /\ Keep \in Nat
  /\ MaxActs \in [Visits -> Nat] /\ MaxContents \in Nat \ {0}
  /\ Known \subseteq Bins /\ Invalid \subseteq Bins \ Known /\ None \notin Bins
  /\ Browsers \subseteq {"bank_lookup", "institutions"}
  /\ LabelOf \in [1 .. MaxContents -> Labels]
  /\ \A n \in Names : MatchesOf[n] \in Seq(Institutions)
  /\ \A i \in Institutions : Offered[i] \subseteq Filters

VARIABLES
  visited,    \* the pages that this behaviour uses
  jobs,       \* the workers on the pool, in the order they were submitted
  inbox,      \* the event queue of the GUI thread
  bin,        \* the BIN lookup page
  inst,       \* per browser, its page
  ana,        \* the analytics page, with the cache of its service
  gauges,     \* what the administration page has measured, by the database measured
  palette,    \* the command palette
  history,    \* the searches in the user store, newest first
  recents,    \* the searches in the state file, newest first
  remember,   \* remember_search_history
  db,         \* what the manager has open, and whether it has
  life,       \* "running", "draining" on the way out, "closed"
  acts,       \* what the user did
  lapsed      \* history variable: the channels with an answer overtaken or missing

kept  == <<history, recents, remember>>
vars  == <<visited, jobs, inbox, bin, inst, ana, gauges, palette, kept, db, life, acts, lapsed>>

--------------------------------------------------------------------------------
\* The pool

BinSearch == <<"bin", "lookup">>
Opinion   == <<"bin", "reading">>
Advanced  == <<"bin", "advanced">>
Snapshot  == <<"analytics", "snapshot">>
Suggest   == <<"palette", "suggest">>
Health    == <<"admin", "health">>
Quality   == <<"admin", "quality">>
Gauges    == {Health, Quality}

\* What an institution page asks for when an institution is selected, in this order.
Asked(part) == IF part \in Parts THEN <<part>> ELSE <<>>

PartsOf(p) ==
  IF p = "bank_lookup"
  THEN Asked("stats") \o Asked("options") \o Asked("portfolio") \o Asked("rows")
  ELSE Asked("stats") \o Asked("portfolio") \o Asked("options") \o Asked("distributions")
         \o Asked("rows")

Request(ch, of, by) == [ch |-> ch, of |-> of, by |-> by]
Nothing == Request(<<>>, None, None)
Unread  == [content |-> 0, hit |-> FALSE]

\* A worker: its request, whether its token is set, whether it has started, what it
\* saw of the database, and whether the BIN page still holds it as its worker; a
\* maintenance job also has its place in its code and what it has noted.
Worker(request, held) ==
  [want |-> request, cancelled |-> FALSE, begun |-> FALSE, saw |-> Unread, held |-> held,
   at |-> "start", note |-> None]

Submit(requests) == jobs' = jobs \o [k \in DOMAIN requests |-> Worker(requests[k], FALSE)]

\* Mutated form of Cancelled: only what is running.
CancelledRunning(j) == [j EXCEPT !.cancelled = @ \/ j.begun]

Cancelled(j) == [j EXCEPT !.cancelled = TRUE]
Released(j)  == [j EXCEPT !.held = FALSE]

Each(Op(_), queue) == [k \in DOMAIN queue |-> Op(queue[k])]

Pending(ch) ==
  \/ \E k \in DOMAIN jobs : jobs[k].want.ch = ch
  \/ \E k \in DOMAIN inbox : inbox[k].want.ch = ch

Overtaken(chs) == lapsed \cup {ch \in chs : Pending(ch)}

\* Something the user does while the window is open.
Acting(page) ==
  /\ life = "running" /\ acts < MaxActs[visited] /\ page \in visited
  /\ acts' = acts + 1

--------------------------------------------------------------------------------
\* What is remembered of the searches

Newest(entries, n) == SubSeq(entries, 1, IF Len(entries) < n THEN Len(entries) ELSE n)

Without(entries, entry) == SelectSeq(entries, LAMBDA e : e # entry)

Recorded(entries, entry, enabled) ==
  IF ~enabled \/ Keep = 0 THEN entries
  ELSE Newest(<<entry>> \o Without(entries, entry), IF Keep < HardCap THEN Keep ELSE HardCap)

\* The state file has no switch: a limit of nothing is all that stops it.
Noted(entries, text) == Newest(<<text>> \o Without(entries, text), Keep)

SearchOf(kind, text) == [kind |-> kind, text |-> text]

--------------------------------------------------------------------------------
\* The BIN lookup page

NoBin ==
  [screen |-> "idle", query |-> None, card |-> None, reading |-> None, asking |-> FALSE,
   criteria |-> None, rows |-> None]

\* A new search cancels the one the page holds.
Superseded(j) == [j EXCEPT !.cancelled = @ \/ j.held, !.held = FALSE]

\* Mutated form of SearchPool: the new worker is held when the held one is cancelled.
SearchPoolLate(q) ==
  IF db.open THEN Each(Superseded, Append(jobs, Worker(Request(BinSearch, q, None), TRUE)))
  ELSE jobs

SearchPool(q) ==
  IF db.open THEN Append(Each(Superseded, jobs), Worker(Request(BinSearch, q, None), TRUE))
  ELSE Each(LAMBDA j : [j EXCEPT !.cancelled = @ \/ j.held], jobs)

SearchBin(q) ==
  /\ Acting("bin")
  /\ bin' = [bin EXCEPT !.query = q, !.reading = None, !.asking = FALSE,
                        !.screen = IF db.open THEN "loading" ELSE "error"]
  /\ jobs' = SearchPool(q)
  /\ lapsed' = Overtaken({BinSearch, Opinion})
  /\ UNCHANGED <<visited, gauges, inbox, inst, ana, palette, kept, db, life>>

\* The search that is running is not cancelled.
ClearBin ==
  /\ Acting("bin")
  /\ bin' = [bin EXCEPT !.query = None, !.card = None, !.reading = None, !.asking = FALSE,
                        !.screen = "idle"]
  /\ lapsed' = Overtaken({BinSearch, Opinion})
  /\ UNCHANGED <<visited, gauges, jobs, inbox, inst, ana, palette, kept, db, life>>

CheckBinlist ==
  /\ Acting("bin")
  /\ bin.query # None /\ ~bin.asking
  /\ bin' = [bin EXCEPT !.asking = TRUE]
  /\ Submit(<<Request(Opinion, bin.query, None)>>)
  /\ lapsed' = Overtaken({Opinion})
  /\ UNCHANGED <<visited, gauges, inbox, inst, ana, palette, kept, db, life>>

\* What is remembered is decided when the search is asked for.
RunAdvanced(t) ==
  /\ Acting("bin")
  /\ db.open
  /\ bin' = [bin EXCEPT !.criteria = t]
  /\ Submit(<<Request(Advanced, t, remember)>>)
  /\ lapsed' = Overtaken({Advanced})
  /\ UNCHANGED <<visited, gauges, inbox, inst, ana, palette, kept, db, life>>

ResultScreen(outcome) ==
  CASE outcome = "found" -> "result" [] outcome = "failed" -> "error" [] OTHER -> "empty"

OnBinResult(m) ==
  /\ m.want.ch = BinSearch
  /\ bin' = [bin EXCEPT !.screen = ResultScreen(m.outcome),
                        !.card = IF m.outcome = "found" THEN m.want.of ELSE @]
  /\ history' = IF m.outcome = "found"
                THEN Recorded(history, SearchOf("bin", m.want.of), remember) ELSE history
  /\ jobs' = Each(Released, jobs)
  /\ UNCHANGED <<visited, gauges, inst, ana, palette, recents, remember>>

\* Shown beside whatever is on the page by now.
OnExternalReading(m) ==
  /\ m.want.ch = Opinion
  /\ bin' = [bin EXCEPT !.asking = FALSE,
                        !.reading = IF m.outcome = "found" THEN m.want.of ELSE None]
  /\ UNCHANGED <<visited, gauges, jobs, inst, ana, palette, kept>>

OnAdvancedResult(m) ==
  /\ m.want.ch = Advanced
  /\ bin' = [bin EXCEPT !.rows = IF m.outcome = "found" THEN m.want.of ELSE @]
  /\ UNCHANGED <<visited, gauges, jobs, inst, ana, palette, kept>>

--------------------------------------------------------------------------------
\* The pages with an institution view

NoInst(p) ==
  [screen |-> "idle", query |-> None, matches |-> {}, current |-> None, filters |-> None,
   bar |-> None, shown |-> [part \in Range(PartsOf(p)) |-> Nothing]]

Named(p) == <<p, "search">>
PartChannels(p) == {<<p, part>> : part \in Range(PartsOf(p))}

SearchName(p, n) ==
  /\ Acting(p)
  /\ inst' = [inst EXCEPT ![p].query = n, ![p].screen = IF db.open THEN "loading" ELSE "error"]
  /\ Submit(IF db.open THEN <<Request(Named(p), n, None)>> ELSE <<>>)
  /\ lapsed' = Overtaken({Named(p)})
  /\ UNCHANGED <<visited, gauges, inbox, bin, ana, palette, kept, db, life>>

ClearName(p) ==
  /\ Acting(p)
  /\ inst' = [inst EXCEPT ![p].query = None, ![p].matches = {}, ![p].current = None,
                          ![p].screen = "idle"]
  /\ lapsed' = Overtaken({Named(p)})
  /\ UNCHANGED <<visited, gauges, jobs, inbox, bin, ana, palette, kept, db, life>>

\* Mutated form of Selected: the filters of the last institution stay.
SelectedFiltered(page, i, matches) ==
  [page EXCEPT !.matches = matches \cup {i}, !.current = i, !.screen = "result"]

\* The filter bar keeps what it is set to.
Selected(page, i, matches) ==
  [page EXCEPT !.matches = matches \cup {i}, !.current = i, !.filters = None, !.screen = "result"]

SelectionRequests(p, i) ==
  [k \in DOMAIN PartsOf(p) |-> Request(<<p, PartsOf(p)[k]>>, i, None)]

SelectInstitution(p, i) ==
  /\ Acting(p)
  /\ i \in inst[p].matches \/ db.open
  /\ inst' = [inst EXCEPT ![p] = Selected(@, i, @.matches)]
  /\ Submit(SelectionRequests(p, i))
  /\ lapsed' = Overtaken(PartChannels(p))
  /\ UNCHANGED <<visited, gauges, inbox, bin, ana, palette, kept, db, life>>

RowsRequest(p, filters) == Request(<<p, "rows">>, inst[p].current, filters)

\* What can be chosen is what the last answer to "options" put in the bar.
SetFilter(p, f) ==
  /\ Acting(p)
  /\ inst[p].screen = "result"
  /\ inst[p].shown["options"] # Nothing
  /\ f \in Offered[inst[p].shown["options"].of] \cup {None} /\ f # inst[p].bar
  /\ inst' = [inst EXCEPT ![p].bar = f, ![p].filters = f]
  /\ Submit(<<RowsRequest(p, f)>>)
  /\ lapsed' = Overtaken({<<p, "rows">>})
  /\ UNCHANGED <<visited, gauges, inbox, bin, ana, palette, kept, db, life>>

\* The bank page notes the name in the state file, whatever the privacy setting; the
\* institution page records it among the BIN searches, which is the default kind.
OnMatches(p, m) ==
  /\ m.want.ch = Named(p)
  /\ IF m.outcome = "found"
     THEN /\ inst' = [inst EXCEPT ![p] = Selected(@, Head(MatchesOf[m.want.of]),
                                                  Range(MatchesOf[m.want.of]))]
          /\ Submit(SelectionRequests(p, Head(MatchesOf[m.want.of])))
          /\ recents' = IF p = "bank_lookup" THEN Noted(recents, m.want.of) ELSE recents
          /\ history' = IF p = "institutions"
                        THEN Recorded(history, SearchOf("bin", m.want.of), remember) ELSE history
     ELSE /\ inst' = [inst EXCEPT ![p].screen = ResultScreen(m.outcome)]
          /\ UNCHANGED <<jobs, recents, history>>
  /\ UNCHANGED <<visited, gauges, bin, ana, palette, remember>>

OnOptions(p, m) ==
  /\ m.want.ch = <<p, "options">> /\ m.outcome = "found"
  /\ inst' = [inst EXCEPT ![p].shown["options"] = m.want,
                          ![p].bar = IF @ \in Offered[m.want.of] THEN @ ELSE None]
  /\ UNCHANGED <<visited, gauges, jobs, bin, ana, palette, kept>>

OnPart(p, m) ==
  /\ \E part \in Range(PartsOf(p)) \ {"options"} :
       /\ m.want.ch = <<p, part>> /\ m.outcome = "found"
       /\ inst' = [inst EXCEPT ![p].shown[part] = m.want]
  /\ UNCHANGED <<visited, gauges, jobs, bin, ana, palette, kept>>

\* Only the rows have a handler for a failure.
OnPartFailed(p, m) ==
  /\ m.want.ch \in PartChannels(p) /\ m.outcome # "found"
  /\ inst' = [inst EXCEPT ![p].screen = IF m.want.ch = <<p, "rows">> THEN "error" ELSE @]
  /\ UNCHANGED <<visited, gauges, jobs, bin, ana, palette, kept>>

--------------------------------------------------------------------------------
\* The analytics page and the cache of its service

NoCache == [f \in Filters \cup {None} |-> [label |-> None, content |-> 0]]
NoAna == [loading |-> FALSE, filter |-> None, shown |-> Nothing, content |-> 0, cache |-> NoCache]

Version == IF db.open THEN LabelOf[db.content] ELSE None

\* A load that is asked for during another is dropped.
LoadRequests(page) ==
  IF page.loading THEN <<>> ELSE <<Request(Snapshot, Version, page.filter)>>

RefreshAnalytics ==
  /\ Acting("analytics")
  /\ db.open
  /\ Submit(LoadRequests(ana))
  /\ ana' = [ana EXCEPT !.loading = TRUE]
  /\ lapsed' = Overtaken({Snapshot})
  /\ UNCHANGED <<visited, gauges, inbox, bin, inst, palette, kept, db, life>>

ScopeAnalytics(f) ==
  /\ Acting("analytics")
  /\ f # ana.filter
  /\ \E page \in {[ana EXCEPT !.filter = f]} :
       /\ Submit(LoadRequests(page))
       /\ ana' = [page EXCEPT !.loading = TRUE]
  /\ lapsed' = Overtaken({Snapshot})
  /\ UNCHANGED <<visited, gauges, inbox, bin, inst, palette, kept, db, life>>

OnSnapshot(m) ==
  /\ m.want.ch = Snapshot
  /\ ana' = [ana EXCEPT !.loading = FALSE, !.shown = m.want, !.content = m.saw.content]
  /\ UNCHANGED <<visited, gauges, jobs, bin, inst, palette, kept>>

\* The administration page measures the database again, its health only when it is
\* not busy.
Measures(idle) ==
  IF "health" \notin visited THEN <<>>
  ELSE (IF idle THEN <<Request(Health, None, None)>> ELSE <<>>) \o <<Request(Quality, None, None)>>

\* The whole window is told of a new database: the pages that display something they
\* ask the pool for ask again.
Reload(open, idle) ==
  /\ Submit(IF open THEN LoadRequests(ana) \o Measures(idle) ELSE <<>>)
  /\ ana' = [ana EXCEPT !.cache = NoCache, !.loading = @ \/ open]
  /\ bin' = [bin EXCEPT !.asking = FALSE]

--------------------------------------------------------------------------------
\* The gauges of the administration page

\* A service that finds the database closed reports that there is no figure.
OnGauge(m) ==
  /\ m.want.ch \in Gauges
  /\ gauges' = [gauges EXCEPT ![m.want.ch] = m.saw.content]
  /\ UNCHANGED <<visited, jobs, bin, inst, ana, palette, kept>>

--------------------------------------------------------------------------------
\* The command palette: None stands for a text too short to be searched.

NoPalette == [open |-> FALSE, text |-> None, timer |-> FALSE, dynamic |-> None]

OpenPalette ==
  /\ Acting("palette")
  /\ ~palette.open
  /\ palette' = [palette EXCEPT !.open = TRUE, !.text = None, !.dynamic = None]
  /\ lapsed' = Overtaken({Suggest})
  /\ UNCHANGED <<visited, gauges, jobs, inbox, bin, inst, ana, kept, db, life>>

TypeText(t) ==
  /\ Acting("palette")
  /\ palette.open /\ t # palette.text
  /\ palette' = [palette EXCEPT !.text = t, !.timer = @ \/ t # None,
                                !.dynamic = IF t = None THEN None ELSE @]
  /\ lapsed' = Overtaken({Suggest})
  /\ UNCHANGED <<visited, gauges, jobs, inbox, bin, inst, ana, kept, db, life>>

Debounced ==
  /\ life = "running" /\ palette.timer
  /\ palette' = [palette EXCEPT !.timer = FALSE]
  /\ Submit(IF palette.text # None /\ db.open
                  THEN <<Request(Suggest, palette.text, None)>> ELSE <<>>)
  /\ lapsed' = Overtaken({Suggest}) \cup (IF db.open THEN {} ELSE {Suggest})
  /\ UNCHANGED <<visited, gauges, inbox, bin, inst, ana, kept, db, life, acts>>

ClosePalette ==
  /\ Acting("palette")
  /\ palette.open
  /\ palette' = [palette EXCEPT !.open = FALSE]
  /\ UNCHANGED <<visited, gauges, jobs, inbox, bin, inst, ana, kept, db, life, lapsed>>

OnSuggestions(m) ==
  /\ m.want.ch = Suggest
  /\ palette' = [palette EXCEPT !.dynamic = IF m.outcome = "found" THEN m.want.of ELSE @]
  /\ UNCHANGED <<visited, gauges, jobs, bin, inst, ana, kept>>

--------------------------------------------------------------------------------
\* The settings page

SetRemember ==
  /\ Acting("settings")
  /\ remember' = ~remember
  /\ UNCHANGED <<visited, gauges, jobs, inbox, bin, inst, ana, palette, history, recents, db, life, lapsed>>

ClearHistory ==
  /\ Acting("settings")
  /\ recents' = <<>>
  /\ UNCHANGED <<visited, gauges, jobs, inbox, bin, inst, ana, palette, history, remember, db, life, lapsed>>

--------------------------------------------------------------------------------
\* The worker threads

Answered(want, outcome, saw) == [want |-> want, outcome |-> outcome, saw |-> saw]

CachedFor(want) ==
  /\ want.ch = Snapshot
  /\ ana.cache[want.by].content # 0
  /\ ana.cache[want.by].label = want.of

Seen(want) ==
  IF CachedFor(want) THEN [content |-> ana.cache[want.by].content, hit |-> TRUE]
  ELSE [content |-> IF db.open THEN db.content ELSE 0, hit |-> FALSE]

\* Mutated form of Hears: nothing is connected to a worker's cancelled signal.
HearsNothing(want) == FALSE

\* Who asked is told that the worker was cancelled: only the Updates page listens.
Hears(want) == want.ch[2] = "install"

\* Workers are started in the order they were submitted; one whose token is set by
\* then ends without a result.
Start(k) ==
  /\ life # "closed"
  /\ ~jobs[k].begun /\ \A i \in 1 .. k - 1 : jobs[i].begun
  /\ k <= Threads
  /\ jobs' = IF jobs[k].cancelled THEN RemoveAt(jobs, k)
             ELSE [jobs EXCEPT ![k].begun = TRUE, ![k].saw = Seen(jobs[k].want)]
  /\ inbox' = IF jobs[k].cancelled /\ Hears(jobs[k].want)
              THEN Append(inbox, Answered(jobs[k].want, "cancelled", Unread)) ELSE inbox
  /\ UNCHANGED <<visited, gauges, bin, inst, ana, palette, kept, db, life, acts, lapsed>>

Outcomes(want, saw) ==
  CASE want.ch = Opinion      -> {"found", "none", "failed"}
    [] want.ch = Snapshot     -> {"found"}
    [] want.ch = BinSearch /\ want.of \in Invalid -> {"invalid"}
    [] want.ch \notin {Opinion, Snapshot} /\ saw.content = 0 /\ want.of \notin Invalid -> {"failed"}
    [] OTHER ->
         {IF \/ want.ch = BinSearch /\ want.of \notin Known
             \/ want.ch[2] = "search" /\ MatchesOf[want.of] = <<>>
          THEN "none" ELSE "found"}

\* An advanced search is recorded, and a snapshot is cached, on the worker's thread.
Finish(k) ==
  /\ life # "closed"
  /\ jobs[k].begun /\ jobs[k].want.ch[2] \notin JobKinds
  /\ jobs' = RemoveAt(jobs, k)
  /\ \E outcome \in Outcomes(jobs[k].want, jobs[k].saw) :
       /\ inbox' = Append(inbox, Answered(jobs[k].want, outcome, jobs[k].saw))
       /\ history' = IF jobs[k].want.ch = Advanced /\ outcome = "found"
                     THEN Recorded(history, SearchOf("advanced", jobs[k].want.of), jobs[k].want.by)
                     ELSE history
  /\ ana' = IF jobs[k].want.ch = Snapshot /\ ~jobs[k].saw.hit /\ jobs[k].saw.content # 0
            THEN [ana EXCEPT !.cache[jobs[k].want.by] =
                               [label |-> jobs[k].want.of, content |-> jobs[k].saw.content]]
            ELSE ana
  /\ UNCHANGED <<visited, gauges, bin, inst, palette, recents, remember, db, life, acts, lapsed>>

Handle(m) ==
  \/ OnBinResult(m) \/ OnExternalReading(m) \/ OnAdvancedResult(m)
  \/ \E p \in Browsers : OnMatches(p, m) \/ OnOptions(p, m) \/ OnPart(p, m) \/ OnPartFailed(p, m)
  \/ OnSnapshot(m) \/ OnSuggestions(m) \/ OnGauge(m)

Missing(m) == m.outcome = "failed" \/ (m.want.ch = Snapshot /\ m.saw.content = 0)

\* What an answer overtakes: the parts of the institution that it selects.
Disturbed(m) == UNION {PartChannels(p) : p \in {q \in Browsers : m.want.ch = Named(q)}}

Deliver ==
  /\ life = "running"
  /\ inbox # <<>>
  /\ inbox' = Tail(inbox)
  /\ Handle(Head(inbox))
  /\ lapsed' = Overtaken(Disturbed(Head(inbox)))
                 \cup (IF Missing(Head(inbox)) THEN {Head(inbox).want.ch} ELSE {})
  /\ UNCHANGED <<db, life, acts>>

--------------------------------------------------------------------------------
\* The way out: shutdown_workers, then the stores are closed

CloseWindow ==
  /\ life = "running"
  /\ life' = "draining"
  /\ jobs' = Each(Cancelled, jobs)
  /\ UNCHANGED <<visited, gauges, inbox, bin, inst, ana, palette, kept, db, acts, lapsed>>

\* The pool has drained, or five seconds have passed: what still runs reports to
\* objects that are gone.
Teardown ==
  /\ life = "draining"
  /\ life' = "closed"
  /\ jobs' = <<>> /\ inbox' = <<>>
  /\ db' = [db EXCEPT !.open = FALSE]
  /\ UNCHANGED <<visited, gauges, bin, inst, ana, palette, kept, acts, lapsed>>

--------------------------------------------------------------------------------
Init ==
  /\ visited \in Visits
  /\ jobs = <<>> /\ inbox = <<>>
  /\ bin = NoBin /\ inst = [p \in Browsers |-> NoInst(p)]
  /\ ana = NoAna /\ gauges = [ch \in Gauges |-> 0] /\ palette = NoPalette
  /\ history = <<>> /\ recents = <<>> /\ remember = TRUE
  /\ db = [open |-> TRUE, content |-> 2]
  /\ life = "running" /\ acts = 0 /\ lapsed = {}

\* What the pages, the pool and the event loop do; Maintenance adds its own.
Lookups ==
  \/ \E q \in Bins : SearchBin(q)
  \/ ClearBin \/ CheckBinlist
  \/ \E t \in Texts : RunAdvanced(t)
  \/ \E p \in Browsers :
       \/ \E n \in Names : SearchName(p, n)
       \/ ClearName(p)
       \/ \E i \in Institutions : SelectInstitution(p, i)
       \/ \E f \in Filters \cup {None} : SetFilter(p, f)
  \/ RefreshAnalytics \/ \E f \in Filters \cup {None} : ScopeAnalytics(f)
  \/ OpenPalette \/ ClosePalette \/ \E t \in Texts \cup {None} : TypeText(t)
  \/ Debounced
  \/ SetRemember \/ ClearHistory
  \/ \E k \in DOMAIN jobs : Start(k) \/ Finish(k)
  \/ Deliver
  \/ CloseWindow \/ Teardown

--------------------------------------------------------------------------------
\* A maintenance job is on the pool, or the window has yet to hear how it ended.
Maintained ==
  \/ \E k \in DOMAIN jobs : jobs[k].want.ch[2] \in JobKinds
  \/ \E k \in DOMAIN inbox : inbox[k].want.ch[2] \in JobKinds

Quiet(ch) == life = "running" /\ ch \notin lapsed /\ ~Pending(ch)

\* Asked for one after the other, the answers on the screen belong together: as long as
\* no answer was overtaken by another request on its channel or failed to come, what a
\* page shows once nothing is on its way is the answer to what it last asked, for the
\* institution, the filter and the database that it names.
ShownTogether ==
  /\ Quiet(BinSearch) /\ bin.screen = "result" => bin.card = bin.query
  /\ Quiet(BinSearch) /\ bin.query = None => bin.screen = "idle"
  /\ Quiet(Opinion) => bin.reading \in {None, bin.query}
  /\ Quiet(Advanced) => bin.rows = bin.criteria
  /\ \A p \in Browsers :
       inst[p].screen = "result" =>
         \A part \in Range(PartsOf(p)) :
           Quiet(<<p, part>>) =>
             /\ inst[p].shown[part].of = inst[p].current
             /\ part = "rows" => inst[p].shown[part].by = inst[p].filters
  /\ Quiet(Snapshot) /\ ana.shown # Nothing =>
       /\ ana.shown.by = ana.filter
       /\ db.open /\ ~Maintained => ana.content = db.content
  /\ \A ch \in Gauges :
       Quiet(ch) /\ gauges[ch] # 0 /\ db.open /\ ~Maintained => gauges[ch] = db.content
  /\ Quiet(Suggest) /\ palette.open /\ ~palette.timer => palette.dynamic \in {None, palette.text}

\* No page says for ever that it is loading, whatever is asked for meanwhile and even
\* when the database is taken away under the worker: the worker of the last search is
\* never the one that a search cancels.
Settles ==
  /\ bin.screen = "loading" ~> bin.screen # "loading" \/ life # "running"
  /\ \A p \in Browsers :
       inst[p].screen = "loading" ~> inst[p].screen # "loading" \/ life # "running"
  /\ ana.loading ~> ~ana.loading \/ life # "running"

\* Once the window is closed no worker begins to read the database: what had not started
\* ends at its token.  Those that run are the first ones on the pool, so that none of its
\* places comes to run that did not.
ClosingStartsNothing ==
  [][life = "draining" =>
       \A k \in DOMAIN jobs' : jobs'[k].begun => k \in DOMAIN jobs /\ jobs[k].begun]_vars
================================================================================
