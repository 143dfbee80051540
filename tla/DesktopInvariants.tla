--------------------------- MODULE DesktopInvariants ---------------------------
(***************************************************************************)
(* What the proofs about the window show to be inductive, and what a step  *)
(* of it can do to the pool, the queue and the pages.                      *)
(***************************************************************************)
EXTENDS Updates

\* A sequence, of whatever it holds.
IsSeq(s) == s \in Seq(Range(s))

--------------------------------------------------------------------------------
\* The pool and the event queue

IsJob(j) ==
  j = [want |-> j.want, cancelled |-> j.cancelled, begun |-> j.begun, saw |-> j.saw,
       held |-> j.held, at |-> j.at, note |-> j.note]

\* A worker that is in the middle of its code has begun it, and replaces the file or
\* copies it; only the search of the BIN page is held.
JobOK(j) ==
  /\ IsJob(j)
  /\ j.at # "start" => j.begun /\ j.want.ch[2] \in Replacing \cup {"backup"}
  /\ j.at = "open" => j.want.ch[2] \in Swaps \cup {"install"}
  /\ j.held => j.want.ch = BinSearch

JobsOK(js)   == IsSeq(js) /\ \A k \in DOMAIN js : JobOK(js[k])
MessageOK(m) == m.outcome = "shrinks" => m.want.ch[2] = "rebuild"
QueueOK(ms)  == IsSeq(ms) /\ \A k \in DOMAIN ms : MessageOK(ms[k])

\* While the window is open, only a search and an install are ever cancelled.
CancelOK == life = "running" => \A k \in DOMAIN jobs : jobs[k].cancelled => jobs[k].want.ch \in {BinSearch, Install}

Pool ==
  /\ JobsOK(jobs) /\ QueueOK(inbox) /\ CancelOK
  /\ life = "closed" => jobs = <<>> /\ inbox = <<>>

\* What the pages ask the pool for, the jobs of the maintenance pages aside.
LookupKinds ==
  {"lookup", "reading", "advanced", "snapshot", "suggest", "health", "quality", "search",
   "stats", "options", "portfolio", "distributions", "rows"}

\* Those of the pages, the gauges of the administration page aside.
PageKinds == LookupKinds \ {"health", "quality"}

Asks(requests, kinds) == IsSeq(requests) /\ \A k \in DOMAIN requests : requests[k].ch[2] \in kinds

\* A worker stays where it is, and has seen what it had, or what there is to be seen.
Same(i, j) ==
  /\ j.want = i.want /\ j.at = i.at /\ j.note = i.note /\ (i.begun => j.begun)
  /\ j.saw \in {i.saw, Seen(i.want)}

NewJob(j) == ~j.begun /\ ~j.cancelled /\ j.at = "start" /\ j.saw = Unread

\* A worker only begins when those before it have.
InTurn == \A i \in DOMAIN jobs : jobs'[i].begun = jobs[i].begun \/ \A h \in 1 .. i - 1 : jobs[h].begun

\* Whatever was on the pool is, at the same place; what is new has not begun.
Extended(kinds) ==
  /\ JobsOK(jobs') /\ CancelOK'
  /\ Len(jobs) <= Len(jobs')
  /\ \A i \in DOMAIN jobs : Same(jobs[i], jobs'[i])
  /\ InTurn
  /\ \A i \in DOMAIN jobs' \ DOMAIN jobs : NewJob(jobs'[i]) /\ jobs'[i].want.ch[2] \in kinds

--------------------------------------------------------------------------------
\* What a page asks the pool for

Five == {"stats", "options", "portfolio", "rows", "distributions"}

\* The administration page asks for its gauges.
GaugeKinds == {"health", "quality"}

\* A worker ends, and the window is told unless its token was set before it began.
Dropped(k) ==
  /\ k \in DOMAIN jobs
  /\ jobs' = RemoveAt(jobs, k)
  /\ jobs[k].at = "start"
  /\ \/ /\ inbox' = inbox
        /\ jobs[k].cancelled /\ ~Hears(jobs[k].want)
     \/ \E outcome, saw :
          /\ inbox' = Append(inbox, Answered(jobs[k].want, outcome, saw))
          /\ outcome # "shrinks"

\* The window goes away, and the pool with it.
Emptied == jobs' = <<>> /\ inbox' = <<>> /\ life' = "closed" /\ db' = [db EXCEPT !.open = FALSE]

--------------------------------------------------------------------------------
\* What the maintenance pages and the Updates page have the pool do

JobOrUpdate == Checks \cup {"backup"} \cup Replacing \cup {"check"}

\* A job goes on, at a place where a job of its kind can be.
GoesOn(k) ==
  \E place, note :
    /\ Goes(k, place, note) /\ inbox' = inbox
    /\ jobs[k].want.ch[2] \in Replacing \cup {"backup"}
    /\ place = "open" => jobs[k].want.ch[2] \in Swaps \cup {"install"}
    /\ place # "start"

\* A job ends, and the window is told.
EndsWith(k) ==
  \E outcome :
    /\ Ends(k, outcome)
    /\ outcome = "shrinks" => jobs[k].want.ch[2] = "rebuild"
    /\ jobs[k].want.ch[2] \in JobOrUpdate

MaintenanceKinds == Checks \cup {"backup", "restore", "rebuild", "rollback"}

UpdateKinds == {"check", "install"}

SlotRequests(slots) ==
  [k \in DOMAIN slots |-> IF slots[k] = "install" THEN InstallRequest(updates) ELSE CheckRequest("user")]

\* What the report page does to the pool: it asks for the values of its filters.
ReportActs ==
  \/ ShowReports
  \/ \E type \in Range(ReportTypes) : SetType(type)
  \/ \E f \in Filters \cup {None} : SetReportFilter(f)
  \/ \E name \in TemplateNames : SaveTemplate(name)
  \/ \E t \in templates : LoadTemplate(t) \/ DeleteTemplate(t)

--------------------------------------------------------------------------------
\* What is on the disk, and what the manager has open

IsFile(f)   == f = [content |-> f.content, sound |-> f.sound, writer |-> f.writer]
IsBackup(b) == b = [id |-> b.id, content |-> b.content, whole |-> b.whole]

DiskOK ==
  /\ db = [open |-> db.open, content |-> db.content]
  /\ IsFile(file)
  /\ DOMAIN staged = {".incoming", ".restore-tmp"}
  /\ \A name \in DOMAIN staged : staged[name] # None => IsFile(staged[name])
  /\ IsSeq(backups) /\ \A i \in DOMAIN backups : IsBackup(backups[i])

--------------------------------------------------------------------------------
\* What is open is what is installed

\* A job has replaced the file, and its manager or the window is still to open it.
Reopening ==
  \/ \E k \in DOMAIN jobs : jobs[k].at = "open"
  \/ \E k \in DOMAIN inbox : inbox[k].want.ch[2] = "restore" /\ inbox[k].outcome = "found"

OpenInv == db.open /\ db.content # file.content => Reopening

--------------------------------------------------------------------------------
\* The Report Centre

IsReport(r) ==
  r = [seen |-> r.seen, type |-> r.type, filter |-> r.filter, enabled |-> r.enabled,
       offered |-> r.offered, building |-> r.building, loaded |-> r.loaded]

\* A template that was loaded while nothing was on its way is what the page is set to.
AsLoaded(r) ==
  /\ r.type = r.loaded.type
  /\ r.filter = IF r.loaded.filter \in r.offered THEN r.loaded.filter ELSE None

LoadedInv ==
  /\ starts \in Nat /\ IsReport(report)
  /\ report.loaded # None =>
       /\ report.seen
       /\ Values \notin lapsed => ~Pending(Values) /\ AsLoaded(report)

--------------------------------------------------------------------------------
\* The Updates page

Page(checking, installing, offer, enabled, action, wired) ==
  [checking |-> checking, installing |-> installing, offer |-> offer, enabled |-> enabled,
   action |-> action, wired |-> wired]

IsPage(p) == p = Page(p.checking, p.installing, p.offer, p.enabled, p.action, p.wired)

\* The banner is changed, and a check is over.
Acted(p, v, a) == [p EXCEPT !.checking = v, !.action = a]

\* A check has been answered.
Settled(r, c, o, n, a) == [r EXCEPT !.checking = c, !.offer = o, !.enabled = n, !.action = a]

--------------------------------------------------------------------------------
\* The slots of the banner's button, and the page after an answer

\* The slots that the banner's button has been connected to, each once.
Wiring(w) ==
  /\ IsSeq(w)
  /\ \A i \in DOMAIN w : w[i] \in {"install", "retry"}
  /\ \A i, j \in DOMAIN w : w[i] = w[j] => i = j

PageOK(p) == IsPage(p) /\ Wiring(p.wired)

\* The page once the answer of a check or of an install has been handled, and what it
\* may begin at once.
Told(page, ch) ==
  /\ PageOK(page)
  /\ \/ ch = Check /\ page.checking = FALSE /\ page.installing = updates.installing
     \/ ch = Install /\ page.installing = FALSE /\ page.checking = updates.checking

Onwards(page) ==
  \/ updates' = page /\ Extended(LookupKinds) /\ tangled' = tangled
  \/ Begin(Installing(page), <<InstallRequest(page)>>, Tail(inbox)) /\ CanInstall(page)
  \/ Begin(Checking(page), <<CheckRequest("user")>>, Tail(inbox)) /\ page.checking = FALSE

\* What the page is stays a page, with each slot wired at most once.
PageInv == PageOK(updates) /\ tangled \in BOOLEAN

--------------------------------------------------------------------------------
\* One install and one check at a time

\* A request is on its way, and it is the only one on its channel.
Sent(ch, js, ms) ==
  \/ \E i \in DOMAIN js : js[i].want.ch = ch
  \/ \E i \in DOMAIN ms : ms[i].want.ch = ch

Single(ch, js, ms) ==
  /\ \A i, j \in DOMAIN js : js[i].want.ch = ch /\ js[j].want.ch = ch => i = j
  /\ \A i, j \in DOMAIN ms : ms[i].want.ch = ch /\ ms[j].want.ch = ch => i = j
  /\ \A i \in DOMAIN js, j \in DOMAIN ms : ~(js[i].want.ch = ch /\ ms[j].want.ch = ch)

OneIn(ch, js, ms, flag) == Single(ch, js, ms) /\ flag = Sent(ch, js, ms)

\* A step of the rest of the window leaves the one request of the Updates page there is.
Aside(ch) ==
  \/ \E K : /\ Extended(K) /\ ch[2] \notin K
            /\ \/ inbox' = inbox
               \/ inbox # <<>> /\ inbox' = Tail(inbox) /\ Head(inbox).want.ch # ch
  \/ \E k \in DOMAIN jobs : GoesOn(k) \/ EndsWith(k) \/ Dropped(k)

BothOne(p, js, ms) ==
  OneIn(Install, js, ms, p.installing) /\ OneIn(Check, js, ms, p.checking)

\* The page knows of the one install and of the one check that there are.
OneInv == life = "running" => BothOne(updates, jobs, inbox)

--------------------------------------------------------------------------------
\* What is installed is whole

\* A job that replaces the installed file.
Replaces(j) == j.want.ch[2] \in Replacing

\* What was asked for leaves at most one job that replaces the file, if there was at most one.
Joined ==
  /\ \E K : Extended(K)
  /\ \/ \A i \in DOMAIN jobs' \ DOMAIN jobs : ~Replaces(jobs'[i])
     \/ /\ \A k \in DOMAIN jobs : ~Replaces(jobs[k])
        /\ \A i, j \in DOMAIN jobs' \ DOMAIN jobs : Replaces(jobs'[i]) /\ Replaces(jobs'[j]) => i = j

\* No two snapshots have the same name.
NamedOnce(bs) == \A i, j \in DOMAIN bs : bs[i].id = bs[j].id => i = j

\* Every snapshot was there before, as whole as it is, or has a name that is new.
Kin(ids) ==
  \A i \in DOMAIN backups' :
    \/ \E j \in DOMAIN backups : /\ backups'[i].id = backups[j].id
                                 /\ backups[j].whole => backups'[i].whole
    \/ backups'[i].id \notin ids

\* How a job changes the snapshots: a new one, one that is complete, or one gone.
Rewritten ==
  \/ backups' = backups
  \/ \E b : b.id \notin UsedIds /\ backups' = <<b>> \o backups
  \/ \E i \in DOMAIN backups : \E b : /\ b.id = backups[i].id /\ b.whole = file.sound
                                      /\ backups' = <<b>> \o RemoveAt(backups, i)
  \/ \E i \in DOMAIN backups : backups' = RemoveAt(backups, i)
  \/ backups' = Newest(backups, Retention)

\* One job at a time replaces the file.
Alone(js) == \A i, j \in DOMAIN js : Replaces(js[i]) /\ Replaces(js[j]) => i = j

StagingOf(j) == IF j.want.ch[2] = "restore" THEN ".restore-tmp" ELSE ".incoming"

\* What the job is about to put in the place of the file is whole.
Ready(j, bs, prev, st) ==
  /\ j.want.ch[2] = "restore" /\ j.at = "copy" =>
       \A i \in DOMAIN bs : bs[i].id = j.want.of => bs[i].whole = TRUE
  /\ j.want.ch[2] = "rollback" /\ j.at \in {"close", "keep", "copy"} => prev.whole = TRUE
  /\ Replaces(j) /\ j.at = "replace" /\ st[StagingOf(j)] # None =>
       st[StagingOf(j)].sound = TRUE /\ st[StagingOf(j)].writer = j.want

WholeInv ==
  /\ NamedOnce(backups)
  /\ tangled = FALSE =>
       /\ Alone(jobs)
       /\ file.sound = TRUE /\ file.writer = None
       /\ \A k \in DOMAIN jobs : Ready(jobs[k], backups, previous, staged)

\* The job that replaces the file is ready for its next step.
GoesReady(k) ==
  \/ \E outcome : Ends(k, outcome)
  \/ \E place, note :
       Goes(k, place, note) /\ Ready(jobs'[k], backups', previous', staged')

--------------------------------------------------------------------------------
\* The last whole snapshot

\* A job that writes a snapshot, and one that has written it and is to prune.
Writes(j) == j.want.ch[2] = "backup" /\ j.at = "copying"
Prunes(j) == j.want.ch[2] = "backup" /\ j.at = "pruning"
Saves(j)  == Writes(j) \/ Prunes(j)

\* Every snapshot above the one at w is whole or still being written.
Above(js, bs, w) ==
  \A i \in 1 .. w - 1 :
    \/ bs[i].whole = TRUE
    \/ \E k \in DOMAIN js : Writes(js[k]) /\ js[k].note = bs[i].id

\* Every job that saves has a snapshot of its own, which is whole once it is to prune,
\* and no leftover of an earlier run is above it.
SavedInv ==
  tangled = FALSE =>
    /\ \A k, l \in DOMAIN jobs :
         Saves(jobs[k]) /\ Saves(jobs[l]) /\ jobs[k].note = jobs[l].note => k = l
    /\ \A k \in DOMAIN jobs, i \in DOMAIN backups :
         Writes(jobs[k]) /\ backups[i].id = jobs[k].note => backups[i].whole = FALSE
    /\ \A k \in DOMAIN jobs, i \in DOMAIN backups :
         Prunes(jobs[k]) /\ backups[i].id = jobs[k].note =>
           backups[i].whole = TRUE /\ Above(jobs, backups, i)

\* Snapshots went, and the others are in the order they were: q says where each was.
Thinned(q) ==
  /\ \A i \in DOMAIN backups' : q[i] \in DOMAIN backups /\ backups'[i] = backups[q[i]]
  /\ \A w \in DOMAIN backups' : \A i \in 1 .. w - 1 :
       i \in DOMAIN backups' /\ q[i] \in 1 .. q[w] - 1

\* The workers that have begun are the first ones on the pool.
First == \A k \in DOMAIN jobs : jobs[k].begun => \A i \in 1 .. k - 1 : jobs[i].begun

\* On the way out, those that have not are cancelled.
Stopped == life = "draining" => \A k \in DOMAIN jobs : jobs[k].begun \/ jobs[k].cancelled

DrainInv == First /\ Stopped

\* What is asked for, told and begun, in any order.
MaintenanceActs ==
  \/ \E p \in Pages :
       \/ \E kind \in Checks \cup {"backup"} : StartJob(p, kind)
       \/ \E b \in Range(backups) : StartRestore(p, b)
  \/ \E kind \in JobKinds : PaletteCommand(kind)
  \/ StartRebuild \/ StartRollback \/ RefreshListStatus \/ GatherLearning
  \/ \E i \in DOMAIN backups : DeleteBackup(i)
  \/ ShowAdmin

UpdateActs ==
  \/ \E by \in {"user", "timer"} : CheckForUpdates(by)
  \/ InstallUpdate \/ BannerAction \/ CancelInstall

--------------------------------------------------------------------------------
\* What the pages show

\* What is shown in a page, and asked for again whenever that page is.
LookupChannels ==
  {BinSearch, Opinion, Advanced, Snapshot, Suggest} \cup Gauges
    \cup {<<p, part>> : p \in Browsers, part \in Five}

\* What is asked for on a channel and has not been answered, and what of the database
\* was seen for it.
Wants(ch, js, ms) ==
  {js[k].want : k \in {i \in DOMAIN js : js[i].want.ch = ch}}
    \cup {ms[k].want : k \in {i \in DOMAIN ms : ms[i].want.ch = ch}}

Sights(ch, js, ms) ==
  {js[k].saw.content : k \in {i \in DOMAIN js : js[i].want.ch = ch}}
    \cup {ms[k].saw.content : k \in {i \in DOMAIN ms : ms[i].want.ch = ch}}

\* What a list of requests asks for on a channel.
Sought(ch, requests) == {requests[k] : k \in {i \in DOMAIN requests : requests[i].ch = ch}}

--------------------------------------------------------------------------------
\* How a step reaches the pages

pages == <<bin, inst, ana, gauges, palette>>

\* What is no lookup.
WorkKinds == (MaintenanceKinds \cup UpdateKinds) \cup {"values"}

\* The answer of a job that has replaced the file.
Replaced(m) == m.want.ch[2] \in Replacing /\ m.outcome = "found"

\* No answer to a lookup is handled.
Unheard ==
  \/ inbox' = inbox
  \/ /\ inbox # <<>> /\ inbox' = Tail(inbox)
     /\ Head(inbox).want.ch[2] \notin LookupKinds /\ ~Replaced(Head(inbox))

\* A step beside the pages: of what they show, only the gauges may be asked for.
Elsewhere ==
  /\ UNCHANGED <<visited, pages>>
  /\ \/ Extended(WorkKinds) /\ Unheard
     \/ Extended(GaugeKinds) /\ "health" \in visited /\ Unheard
     \/ \E k \in DOMAIN jobs : Start(k) \/ Work(k) \/ UpdateWork(k)

\* The window hears of a database that was replaced: it is told, or has not been.
Reloads ==
  /\ inbox # <<>> /\ inbox' = Tail(inbox) /\ Head(inbox).want.ch[2] \in Replacing
  /\ UNCHANGED <<visited, inst, gauges, palette>>
  /\ \/ \E open, idle :
          /\ Reload(open, idle)
          /\ Overtaken(Reloaded) \subseteq lapsed'
          /\ ~open => Reloaded \subseteq lapsed'
          /\ ~idle => Health \in lapsed'
     \/ UNCHANGED <<jobs, bin, ana>> /\ Reloaded \subseteq lapsed'

\* What the user asks of the pages.
PageActs ==
  \/ \E q \in Bins : SearchBin(q)
  \/ ClearBin \/ CheckBinlist
  \/ \E t \in Texts : RunAdvanced(t)
  \/ \E p \in Browsers :
       \/ \E n \in Names : SearchName(p, n)
       \/ ClearName(p)
       \/ \E i \in Institutions : SelectInstitution(p, i)
       \/ \E f \in Filters \cup {None} : SetFilter(p, f)
  \/ RefreshAnalytics \/ \E f \in Filters \cup {None} : ScopeAnalytics(f)
  \/ OpenPalette \/ ClosePalette \/ \E t \in Texts \cup {None} : TypeText(t)
  \/ Debounced

--------------------------------------------------------------------------------
\* What a page shows, and what it has asked for

\* The fields of the pages.
IsBin(b) ==
  b = [screen |-> b.screen, query |-> b.query, card |-> b.card, reading |-> b.reading,
       asking |-> b.asking, criteria |-> b.criteria, rows |-> b.rows]

IsInst(p, g) ==
  /\ g = [screen |-> g.screen, query |-> g.query, matches |-> g.matches, current |-> g.current,
          filters |-> g.filters, bar |-> g.bar, shown |-> g.shown]
  /\ DOMAIN g.shown = Range(PartsOf(p))

IsAna(a) ==
  /\ a = [loading |-> a.loading, filter |-> a.filter, shown |-> a.shown, content |-> a.content,
          cache |-> a.cache]
  /\ DOMAIN a.cache = Filters \cup {None} /\ a.filter \in Filters \cup {None}
  /\ a.loading \in BOOLEAN

IsPalette(t) ==
  /\ t = [open |-> t.open, text |-> t.text, timer |-> t.timer, dynamic |-> t.dynamic]
  /\ t.timer \in BOOLEAN

PagesOK ==
  /\ IsBin(bin) /\ IsAna(ana) /\ IsPalette(palette)
  /\ DOMAIN inst = Browsers /\ \A p \in Browsers : IsInst(p, inst[p])
  /\ DOMAIN gauges = Gauges

\* Every answer that is on its way is to what the page has asked last, and once none is,
\* the page shows that answer, or none.
SearchOK(b, W) ==
  /\ \A r \in W : r.of = b.query /\ r.of # None
  /\ b.screen = "result" => b.card = b.query
  /\ b.query = None => b.screen = "idle"

OpinionOK(b, W)  == (\A r \in W : r.of = b.query) /\ b.reading \in {None, b.query}
AdvancedOK(b, W) == (\A r \in W : r.of = b.criteria) /\ (W = {} => b.rows = b.criteria)

Answers(r, g, part) == r.of = g.current /\ (part = "rows" => r.by = g.filters)

PartOK(g, part, W) ==
  g.screen = "result" =>
    /\ \A r \in W : Answers(r, g, part)
    /\ W = {} => Answers(g.shown[part], g, part)

AnaOK(a, W) ==
  /\ \A r \in W : r.by = a.filter
  /\ a.loading = TRUE => W # {}
  /\ a.shown # Nothing => (W = {} => a.shown.by = a.filter) /\ a.content # 0

PaletteOK(t, W) ==
  /\ \A r \in W : r.of = t.text
  /\ t.text = None => t.dynamic = None
  /\ W = {} /\ t.timer = FALSE => t.dynamic \in {None, t.text}

Belongs(ch, b, i, a, t, W) ==
  /\ ch = BinSearch => SearchOK(b, W)
  /\ ch = Opinion => OpinionOK(b, W)
  /\ ch = Advanced => AdvancedOK(b, W)
  /\ \A p \in Browsers : \A part \in Range(PartsOf(p)) : ch = <<p, part>> => PartOK(i[p], part, W)
  /\ ch = Snapshot => AnaOK(a, W)
  /\ ch = Suggest => PaletteOK(t, W)

AskedFor(ch) == Belongs(ch, bin, inst, ana, palette, Wants(ch, jobs, inbox))

--------------------------------------------------------------------------------
\* What a step leaves of it

\* What is shown on a channel stays.
PartAlike(g, h, part) ==
  /\ g.screen = "result" /\ h.current = g.current /\ h.shown[part] = g.shown[part]
  /\ part = "rows" => h.filters = g.filters

Alike(ch) ==
  /\ ch = BinSearch => bin'.screen = bin.screen /\ bin'.query = bin.query /\ bin'.card = bin.card
  /\ ch = Opinion => bin'.query = bin.query /\ bin'.reading = bin.reading
  /\ ch = Advanced => bin'.criteria = bin.criteria /\ bin'.rows = bin.rows
  /\ \A p \in Browsers : \A part \in Range(PartsOf(p)) :
       ch = <<p, part>> /\ inst'[p].screen = "result" => PartAlike(inst[p], inst'[p], part)
  /\ ch = Snapshot => /\ ana'.loading = ana.loading /\ ana'.filter = ana.filter
                      /\ ana'.shown = ana.shown /\ ana'.content = ana.content
  /\ ch = Suggest => /\ palette'.text = palette.text /\ palette'.timer = palette.timer
                     /\ palette'.dynamic = palette.dynamic

\* So does what is waited for there, but that a search may have been cancelled.
Steady(ch) ==
  /\ Wants(ch, jobs', inbox') \subseteq Wants(ch, jobs, inbox)
  /\ ch # BinSearch => Wants(ch, jobs, inbox) \subseteq Wants(ch, jobs', inbox')

\* A step leaves the pages, and what belongs together on them.
Onward == PagesOK' /\ \A ch \in LookupChannels \ lapsed' : AskedFor(ch) => AskedFor(ch)'

\* One page changes.
Others(p) == DOMAIN inst' = Browsers /\ \A o \in Browsers \ {p} : inst'[o] = inst[o]

\* A load that is under way is the one that is waited for, or else one is asked for.
LoadWaits(page) ==
  /\ \A ch : ch # Snapshot => Steady(ch)
  /\ page.loading = FALSE =>
       Wants(Snapshot, jobs', inbox')
         = Wants(Snapshot, jobs, inbox) \cup {Request(Snapshot, Version, page.filter)}

\* What is seen for a channel is what was, or what there is to be seen for its requests.
Looks(ch) ==
  Sights(ch, jobs', inbox') \subseteq
    (Sights(ch, jobs, inbox) \cup {0}) \cup {Seen(r).content : r \in Wants(ch, jobs, inbox)}

\* What is waited for once the pages were told.
ReloadWaits(open, idle) ==
  /\ \A ch \in LookupChannels :
       /\ Wants(ch, jobs, inbox) \subseteq Wants(ch, jobs', inbox')
       /\ Sights(ch, jobs', inbox') \subseteq Sights(ch, jobs, inbox) \cup {0}
       /\ ch \notin Reloaded => Steady(ch)
  /\ open /\ ana.loading = FALSE =>
       Wants(Snapshot, jobs', inbox')
         = Wants(Snapshot, jobs, inbox) \cup {Request(Snapshot, Version, ana.filter)}
  /\ "health" \notin visited =>
       \A ch \in Gauges : Wants(ch, jobs', inbox') = Wants(ch, jobs, inbox)
  /\ "health" \in visited /\ open =>
       /\ Wants(Quality, jobs', inbox') # {}
       /\ idle => Wants(Health, jobs', inbox') # {}

\* What a worker can answer to what is shown in a page, a search and a reading aside.
Replied(m) == m.want.ch \in LookupChannels \ {BinSearch, Opinion} => m.outcome \in {"found", "failed"}

Replies == \A k \in DOMAIN inbox : Replied(inbox[k])

\* The first message is handled.
Handling(m) ==
  /\ Pool /\ PagesOK /\ life = "running" /\ life' = life
  /\ inbox # <<>> /\ inbox' = Tail(inbox) /\ m = Head(inbox)
  /\ Replied(m) /\ (Missing(m) => m.want.ch \in lapsed')

--------------------------------------------------------------------------------
\* What is shown belongs together, at every step

\* While the window is open, what is shown is what was asked for last, or that is on its way,
\* on every channel where nothing was overtaken or has failed.
ShownInv ==
  life = "running" => PagesOK /\ Replies /\ \A ch \in LookupChannels \ lapsed : AskedFor(ch)

\* At the start the pages are empty.
Blank ==
  /\ bin = NoBin /\ inst = [p \in Browsers |-> NoInst(p)] /\ ana = NoAna /\ palette = NoPalette
  /\ gauges = [ch \in Gauges |-> 0] /\ jobs = <<>> /\ inbox = <<>>

--------------------------------------------------------------------------------
\* What is measured is what is installed

\* The file was replaced, and a job or the window is still to tell the pages of it.
Notice ==
  \/ \E k \in DOMAIN jobs : jobs[k].at = "open"
  \/ \E k \in DOMAIN inbox : Replaced(inbox[k])

Current == {0, file.content}

\* What a page holds of what was seen of the database.
Held(ch) == IF ch = Snapshot THEN ana.content ELSE gauges[ch]

Fresh(ch) ==
  /\ Sights(ch, jobs, inbox) \subseteq Current
  /\ Wants(ch, jobs, inbox) = {} => Held(ch) \in Current

CacheOK  == \A f \in DOMAIN ana.cache : ana.cache[f].content \in Current
NoGauges == \A ch \in Gauges : gauges[ch] = 0 /\ Wants(ch, jobs, inbox) = {}

\* Unless the pages are still to be told, what they hold and what their workers saw is of
\* the file that is installed, or of none.
FreshInv ==
  life = "running" =>
    /\ "health" \notin visited => NoGauges
    /\ ~Notice => /\ Snapshot \notin lapsed => CacheOK
                  /\ \A ch \in Reloaded \ lapsed : Fresh(ch)

\* A page holds what it held and still waits for what it waited for, or it holds what a
\* worker saw; so it is with the cache.
Carried(ch) ==
  /\ Looks(ch)
  /\ \/ Held(ch)' = Held(ch) /\ Wants(ch, jobs, inbox) \subseteq Wants(ch, jobs', inbox')
     \/ Held(ch)' \in Sights(ch, jobs, inbox)

CacheCarried ==
  \A f \in DOMAIN ana'.cache :
    \/ f \in DOMAIN ana.cache /\ ana'.cache[f].content = ana.cache[f].content
    \/ ana'.cache[f].content \in Sights(Snapshot, jobs, inbox)

GaugesLeft ==
  "health" \notin visited /\ NoGauges =>
    \A ch \in Gauges : gauges'[ch] = gauges[ch] /\ Wants(ch, jobs', inbox') = {}

Carries == visited' = visited /\ (\A ch \in Reloaded : Carried(ch)) /\ CacheCarried /\ GaugesLeft

================================================================================
