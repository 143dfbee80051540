--------------------------------- MODULE Updates ---------------------------------
(***************************************************************************)
(* The Updates page, in the same window: it checks for a release, offers   *)
(* it and has the pool install it.  The check is also asked for by the     *)
(* palette and by a timer at the start, so both may be under way at once.  *)
(*                                                                         *)
(* UpdateInstall follows the worker that installs through every failure;   *)
(* here it takes only the steps that the rest of the window can see.       *)
(***************************************************************************)
EXTENDS Reports

CONSTANT Providers    \* the sources of the database that are enabled

VARIABLE updates    \* the page

desktop == <<window, updates>>

Check   == <<"updates", "check">>
Install == <<"updates", "install">>

\* offer is what the last check found, action what the banner's button promises, and
\* wired the slots that its signal has been connected to: nothing disconnects them.
NoUpdates ==
  [checking |-> FALSE, installing |-> FALSE, offer |-> None, enabled |-> FALSE,
   action |-> None, wired |-> <<>>]

Beside == <<visited, gauges, inst, palette, kept, life, busy, armed, starts, rvars>>

\* Connected again, a slot that returns early changes nothing.
Wired(page, slot) ==
  [page EXCEPT !.wired = IF slot \in Range(@) THEN @ ELSE Append(@, slot)]

--------------------------------------------------------------------------------
\* What the page begins

CanCheck(page) == ~page.checking

\* Mutated form of CanInstall: whatever runs.
CanInstallAgain(page) == page.offer # None

CanInstall(page) == page.offer # None /\ ~page.installing

Checking(page)   == [page EXCEPT !.checking = TRUE]
Installing(page) == [page EXCEPT !.installing = TRUE, !.enabled = FALSE]

CheckRequest(by)     == Request(Check, None, by)
InstallRequest(page) == Request(Install, page.offer, None)

\* Pages, requests for the pool, and whether two jobs now replace the file.
Begin(page, requests, queue) ==
  /\ updates' = page
  /\ Submit(requests)
  /\ tangled' = (tangled \/ (UnderwayIn(Replacing, queue) /\ \E r \in Range(requests) : r.ch = Install))

CheckForUpdates(by) ==
  /\ Acting("updates")
  /\ CanCheck(updates)
  /\ Begin(Checking(updates), <<CheckRequest(by)>>, inbox)
  /\ UNCHANGED <<Beside, inbox, bin, ana, db, lapsed, onDisk>>

InstallUpdate ==
  /\ Acting("updates")
  /\ updates.enabled /\ CanInstall(updates)
  /\ Begin(Installing(updates), <<InstallRequest(updates)>>, inbox)
  /\ UNCHANGED <<Beside, inbox, bin, ana, db, lapsed, onDisk>>

\* The slots that do something, of the two that can be, in the order they were connected.
Runs(page, k) ==
  IF /\ k \in DOMAIN page.wired
     /\ IF page.wired[k] = "install" THEN CanInstall(page) ELSE CanCheck(page)
  THEN <<page.wired[k]>> ELSE <<>>

Effective(page) == Runs(page, 1) \o Runs(page, 2)

After(page, slots) ==
  [page EXCEPT !.installing = @ \/ "install" \in slots, !.enabled = @ /\ "install" \notin slots,
               !.checking = @ \/ "retry" \in slots]

\* Whatever the button says, every slot that was ever connected runs.
BannerAction ==
  /\ Acting("updates")
  /\ updates.action # None
  /\ \E slots \in {Effective(updates)} :
       Begin(After(updates, Range(slots)),
             [k \in DOMAIN slots |-> IF slots[k] = "install" THEN InstallRequest(updates)
                                    ELSE CheckRequest("user")], inbox)
  /\ UNCHANGED <<Beside, inbox, bin, ana, db, lapsed, onDisk>>

\* Only the token is set: the page waits for the worker to say that it was cancelled.
CancelInstall ==
  /\ Acting("updates")
  /\ updates.installing
  /\ jobs' = [k \in DOMAIN jobs |-> IF jobs[k].want.ch = Install THEN Cancelled(jobs[k]) ELSE jobs[k]]
  /\ UNCHANGED <<Beside, inbox, bin, ana, db, lapsed, onDisk, tangled, updates>>

--------------------------------------------------------------------------------
\* The worker threads

\* The first provider that answers decides; all of them unreachable, or not available,
\* is the only way of being offline.
FetchManifest(says) ==
  IF \E p \in DOMAIN says : says[p] = "answers" THEN "answers"
  ELSE IF \E p \in DOMAIN says : says[p] = "fails" THEN "failed"
  ELSE "offline"

\* A release that this build cannot install is reported like one that is not newer.
Verdict(installable, newer) == IF installable /\ newer THEN "newer" ELSE "other"

FinishCheck(k) ==
  /\ At(k, "check", "start")
  /\ \E says \in [Providers -> {"answers", "offline", "fails"}] :
       IF FetchManifest(says) = "answers"
       THEN \E installable, newer \in BOOLEAN : Ends(k, Verdict(installable, newer))
       ELSE Ends(k, FetchManifest(says))
  /\ UNCHANGED <<Behind, db, onDisk>>

\* The token is polled until the package has been fetched, proved and expanded.
FetchPackage(k) ==
  /\ At(k, "install", "start")
  /\ \/ /\ jobs[k].cancelled
        /\ Ends(k, "cancelled")
        /\ UNCHANGED made
     \/ /\ Ends(k, "failed")
        /\ UNCHANGED made
     \/ /\ made < MaxContents
        /\ made' = made + 1
        /\ Goes(k, "close", [new |-> made + 1, was |-> FALSE, kept |-> NoFile])
        /\ UNCHANGED inbox
  /\ UNCHANGED <<Behind, db, file, backups, previous, staged>>

\* Then the steps of install_database, which every installation takes.
CloseForInstall(k) ==
  /\ At(k, "install", "close")
  /\ db' = [db EXCEPT !.open = FALSE]
  /\ Goes(k, "copy", [jobs[k].note EXCEPT !.was = db.open])
  /\ UNCHANGED <<Behind, inbox, onDisk>>

OpenInstalled(k) ==
  /\ At(k, "install", "open")
  /\ db' = Opened
  /\ Ends(k, "found")
  /\ UNCHANGED <<Behind, onDisk>>

UpdateWork(k) == FinishCheck(k) \/ FetchPackage(k) \/ CloseForInstall(k) \/ OpenInstalled(k)

--------------------------------------------------------------------------------
\* What the page does when a worker has ended

Answer(page, m) ==
  IF m.outcome = "newer"
  THEN [Wired(page, "install") EXCEPT !.checking = FALSE, !.offer = "newer", !.enabled = TRUE,
                                      !.action = "install"]
  ELSE [page EXCEPT !.checking = FALSE, !.offer = "other", !.enabled = FALSE,
                    !.action = IF m.want.by = "timer" THEN @ ELSE None]

\* The buttons of an install that runs are enabled again, and its banner goes.
OnChecked(m) ==
  /\ m.want.ch = Check /\ m.outcome \in {"newer", "other"}
  /\ \E page \in {Answer(updates, m)} :
       IF m.outcome = "newer" /\ "auto" \in visited /\ CanInstall(page)
       THEN Begin(Installing(page), <<InstallRequest(page)>>, Tail(inbox))
       ELSE Begin(page, <<>>, Tail(inbox))
  /\ UNCHANGED <<bin, ana, lapsed, acts>>

\* A failure that the user is told of can be tried again from the dialog.
OnCheckFailed(m) ==
  /\ m.want.ch = Check /\ m.outcome \in {"offline", "failed"}
  /\ \E page \in {IF m.outcome = "offline"
                  THEN [Wired(updates, "retry") EXCEPT !.checking = FALSE, !.action = "retry"]
                  ELSE [updates EXCEPT !.checking = FALSE, !.action = None]} :
       \/ Begin(page, <<>>, Tail(inbox)) /\ UNCHANGED acts
       \/ /\ m.outcome = "failed" /\ m.want.by = "user"
          /\ Acting("updates")
          /\ Begin(Checking(page), <<CheckRequest("user")>>, Tail(inbox))
  /\ UNCHANGED <<bin, ana, lapsed>>

\* The buttons are enabled for whatever the last check found by now.
Ended(page) == [page EXCEPT !.installing = FALSE, !.enabled = page.offer # None, !.action = None]

OnInstalled(m) ==
  /\ m.want.ch = Install /\ m.outcome = "found"
  /\ updates' = [Ended(updates) EXCEPT !.enabled = FALSE]
  /\ Reload(db.open, ~busy["admin"])
  /\ lapsed' = Overtaken(Reloaded) \cup (IF db.open THEN {} ELSE Reloaded)
                 \cup (IF busy["admin"] THEN {Health} ELSE {})
  /\ UNCHANGED <<acts, tangled>>

OnInstallFailed(m) ==
  /\ m.want.ch = Install /\ m.outcome = "failed"
  /\ \E page \in {Ended(updates)} :
       \/ Begin(page, <<>>, Tail(inbox)) /\ UNCHANGED acts
       \/ /\ Acting("updates")
          /\ CanInstall(page)
          /\ Begin(Installing(page), <<InstallRequest(page)>>, Tail(inbox))
  /\ UNCHANGED <<bin, ana, lapsed>>

OnCancelled(m) ==
  /\ m.want.ch = Install /\ m.outcome = "cancelled"
  /\ Begin(Ended(updates), <<>>, Tail(inbox))
  /\ UNCHANGED <<bin, ana, lapsed, acts>>

DeliverUpdate ==
  /\ life = "running"
  /\ inbox # <<>>
  /\ inbox' = Tail(inbox)
  /\ \E m \in {Head(inbox)} :
       \/ OnChecked(m) \/ OnCheckFailed(m)
       \/ OnInstalled(m) \/ OnInstallFailed(m) \/ OnCancelled(m)
  /\ UNCHANGED <<Beside, db, onDisk>>

--------------------------------------------------------------------------------
DesktopInit == WindowInit /\ updates = NoUpdates

DesktopNext ==
  \/ /\ WindowNext
     /\ updates' = IF starts' # starts THEN NoUpdates ELSE updates
  \/ \E by \in {"user", "timer"} : CheckForUpdates(by)
  \/ InstallUpdate \/ BannerAction \/ CancelInstall
  \/ \E k \in DOMAIN jobs : UpdateWork(k) /\ UNCHANGED <<rvars, updates>>
  \/ DeliverUpdate

DesktopSpec ==
  /\ DesktopInit /\ [][DesktopNext]_desktop
  /\ Fairness /\ WF_window(DeliverValues)
  /\ WF_desktop(\E k \in DOMAIN jobs : UpdateWork(k) /\ UNCHANGED <<rvars, updates>>)
  /\ WF_desktop(DeliverUpdate)

--------------------------------------------------------------------------------
Count(ch) == Cardinality({k \in DOMAIN jobs : jobs[k].want.ch = ch})
               + Cardinality({k \in DOMAIN inbox : inbox[k].want.ch = ch})

\* There is never more than one install, nor more than one check, and the page knows of
\* the one that there is, however often "Install now" and "Try again" were connected and
\* whatever the dialogs, the palette and the timer ask for in between: Cancel always
\* reaches the worker that installs.
OneInstall ==
  life = "running" =>
    /\ Count(Install) = IF updates.installing THEN 1 ELSE 0
    /\ Count(Check) = IF updates.checking THEN 1 ELSE 0

\* A page that began a job is told of its end, whichever way it ends: done, failed,
\* refused, or cancelled before the pool had begun it.
BusyEnds ==
  /\ \A p \in Pages : busy[p] ~> ~busy[p] \/ life # "running"
  /\ updates.checking ~> ~updates.checking \/ life # "running"
  /\ updates.installing ~> ~updates.installing \/ life # "running"
================================================================================
