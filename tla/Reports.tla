--------------------------------- MODULE Reports ---------------------------------
(***************************************************************************)
(* The Report Centre, in the same window: a report is defined by a type    *)
(* and filters, and the definition can be saved as a template.  What the   *)
(* filters can be set to is asked of the database when the page is first   *)
(* shown, and comes back like every answer.  The templates are in the user *)
(* store and survive the process.                                          *)
(***************************************************************************)
EXTENDS Maintenance

CONSTANTS
  ReportTypes,    \* the first one is what the page starts with
  Scoped,         \* of these, the one that the filters apply to
  FilterValues,   \* per database content, what the filters can be set to
  TemplateNames,  \* up to case
  MaxTemplates    \* bound on the templates that are saved

ASSUME ReportsAssumption ==
  /\ ReportTypes \in Seq(STRING) /\ Scoped \in Range(ReportTypes)
  /\ FilterValues \in [1 .. MaxContents -> SUBSET Filters]
  /\ MaxTemplates \in Nat

VARIABLES
  report,     \* the page
  templates   \* the saved definitions: [id, name, type, filter]

rvars  == <<report, templates>>
window == <<all, rvars>>

Values == <<"reports", "values">>

\* Nothing of the page survives the process.
NoReport ==
  [seen |-> FALSE, type |-> Head(ReportTypes), filter |-> None, enabled |-> TRUE,
   offered |-> {}, building |-> FALSE, loaded |-> None]

Unbuilt == <<visited, gauges, inbox, bin, inst, ana, palette, kept, db, life, mvars>>

--------------------------------------------------------------------------------
\* on_first_show; a later visit lists the templates and the reports again.
ShowReports ==
  /\ Acting("reports")
  /\ ~report.seen
  /\ report' = [report EXCEPT !.seen = TRUE]
  /\ Submit(IF db.open THEN <<Request(Values, None, None)>> ELSE <<>>)
  /\ UNCHANGED <<Unbuilt, lapsed, templates>>

\* The combo boxes are filled again, which sets them to "All".
DeliverValues ==
  /\ life = "running"
  /\ inbox # <<>> /\ Head(inbox).want.ch = Values
  /\ inbox' = Tail(inbox)
  /\ report' = IF Head(inbox).outcome = "found"
               THEN [report EXCEPT !.offered = FilterValues[Head(inbox).saw.content], !.filter = None]
               ELSE report
  /\ UNCHANGED <<visited, gauges, jobs, bin, inst, ana, palette, kept, db, life, acts, lapsed,
                 mvars, templates>>

\* Only one type of report has filters that the user can set.
Typed(page, type) ==
  IF type = page.type THEN page ELSE [page EXCEPT !.type = type, !.enabled = (type = Scoped)]

SetType(type) ==
  /\ Acting("reports") /\ report.seen
  /\ type # report.type
  /\ report' = [Typed(report, type) EXCEPT !.loaded = None]
  /\ UNCHANGED <<Unbuilt, jobs, lapsed, templates>>

SetReportFilter(f) ==
  /\ Acting("reports") /\ report.seen
  /\ report.enabled /\ f \in report.offered \cup {None} /\ f # report.filter
  /\ report' = [report EXCEPT !.filter = f, !.loaded = None]
  /\ UNCHANGED <<Unbuilt, jobs, lapsed, templates>>

--------------------------------------------------------------------------------
\* Templates

Ids == {t.id : t \in templates}

\* Saved under a name that is there, up to case, the definition replaces what it names.
SaveTemplate(name) ==
  /\ Acting("reports") /\ report.seen
  /\ Cardinality(templates) < MaxTemplates \/ \E t \in templates : t.name = name
  /\ \E id \in {IF \E t \in templates : t.name = name
                THEN (CHOOSE t \in templates : t.name = name).id
                ELSE CHOOSE n \in 1 .. Cardinality(Ids) + 1 : n \notin Ids} :
       templates' = {t \in templates : t.name # name}
                      \cup {[id |-> id, name |-> name, type |-> report.type, filter |-> report.filter]}
  /\ UNCHANGED <<Unbuilt, jobs, lapsed, report>>

\* Mutated form of Loaded: a filter that the template does not set is left alone.
LoadedOver(page, t) ==
  [Typed(page, t.type) EXCEPT !.filter = IF t.filter \in page.offered THEN t.filter ELSE @,
                              !.loaded = t]

\* What is not offered is set to "All".
Loaded(page, t) ==
  [Typed(page, t.type) EXCEPT !.filter = IF t.filter \in page.offered THEN t.filter ELSE None,
                              !.loaded = t]

LoadTemplate(t) ==
  /\ Acting("reports") /\ report.seen
  /\ report' = Loaded(report, t)
  /\ lapsed' = Overtaken({Values})
  /\ UNCHANGED <<Unbuilt, jobs, templates>>

DeleteTemplate(t) ==
  /\ Acting("reports") /\ report.seen
  /\ templates' = templates \ {t}
  /\ UNCHANGED <<Unbuilt, jobs, lapsed, report>>

--------------------------------------------------------------------------------
\* Preview and "Generate and export"

\* The buttons are disabled, and the number of rows that may be exported is asked of
\* a method that SearchService does not have: the error leaves the slot, nothing
\* catches it there, and Qt ends the process.
Build ==
  /\ Acting("reports") /\ report.seen
  /\ ~report.building /\ db.open
  /\ report' = [report EXCEPT !.building = TRUE]
  /\ life' = "closed"
  /\ jobs' = <<>> /\ inbox' = <<>>
  /\ db' = [db EXCEPT !.open = FALSE]
  /\ UNCHANGED <<visited, gauges, bin, inst, ana, palette, kept, lapsed, mvars, templates>>

--------------------------------------------------------------------------------
WindowInit == MInit /\ report = NoReport /\ templates = {}

WindowNext ==
  \/ /\ Next
     /\ report' = IF starts' # starts THEN NoReport ELSE report
     /\ UNCHANGED templates
  \/ ShowReports \/ DeliverValues
  \/ \E type \in Range(ReportTypes) : SetType(type)
  \/ \E f \in Filters \cup {None} : SetReportFilter(f)
  \/ \E name \in TemplateNames : SaveTemplate(name)
  \/ \E t \in templates : LoadTemplate(t) \/ DeleteTemplate(t)
  \/ Build

--------------------------------------------------------------------------------
\* A template that was loaded is what the page is set to, in its type and in every
\* filter the database offers, until the user changes something; unless the filter
\* values were still on their way, which reset what was loaded before them.
LoadedIsSaved ==
  report.loaded # None /\ Quiet(Values) =>
    /\ report.type = report.loaded.type
    /\ report.filter = IF report.loaded.filter \in report.offered THEN report.loaded.filter ELSE None
================================================================================
