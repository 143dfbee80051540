--------------------------------- MODULE Exports ---------------------------------
(***************************************************************************)
(* What leaves the application as a file: the record of a BIN, a table of  *)
(* them, and the reports that are built from either and rendered in five   *)
(* formats or previewed.  A file is made of what is on the screen, or of   *)
(* a query that is run again for it.                                       *)
(*                                                                         *)
(* The wording of a file is left out, except where it says when something  *)
(* holds, how much of it is missing, and how wide a column of the PDF is.  *)
(***************************************************************************)
EXTENDS Lookup

CONSTANTS
  NameWords,    \* per institution, the lengths of the words of its name
  HeaderWords,  \* per column of a table, those of its heading
  PageWidths,   \* what a page leaves for a table, in characters
  CellPadding,  \* in characters
  RowCaps,      \* the bounds on the rows of a report
  PreviewRows,  \* the rows of a preview
  SearchCap,    \* the most rows of a search that are read for a file
  PortfolioCap, \* and of a portfolio
  SampleRows    \* the rows of a table that its columns are measured on

ASSUME ExportsAssumption ==
  /\ PageWidths \subseteq Nat \ {0} /\ CellPadding \in Nat \ {0}
  /\ RowCaps \subseteq Nat \ {0} /\ PreviewRows \in Nat \ {0}
  /\ SearchCap \in Nat \ {0} /\ PortfolioCap \in Nat \ {0} /\ SampleRows \in Nat \ {0}
  /\ \A i \in Institutions : NameWords[i] \in Seq(Nat) \ {<<>>}
  /\ HeaderWords \in [{"bin", "standing", "institution"} -> Seq(Nat) \ {<<>>}]

RecordFormats == {"json", "csv", "txt"}
ReportFormats == {"json", "csv", "txt", "pdf", "xlsx"}

FirstRows(s, n) == SubSeq(s, 1, Min({Len(s), n}))
Positions(s, Test(_)) == {k \in DOMAIN s : Test(s[k])}

--------------------------------------------------------------------------------
\* The record of a BIN

IssuesNow(l) == l.current /\ IsIssuing(l)

\* ended_label: whatever does not issue now has stopped, also what never issued.
SaysStopped(l) == ~IssuesNow(l)

\* to_field_pairs: what it says of institutions.
FieldPairs(links) ==
  [issuer |-> NamesOf(Issuers(links)), formers |-> Formers(links),
   parent |-> LET parents == {k \in DOMAIN links : links[k].kind = "parent"}
              IN IF parents = {} THEN Unknown ELSE links[Min(parents)].inst]

\* Only the text says when a relationship stopped in words, and the CSV lists none.
RecordFile(fmt, links) ==
  [pairs |-> FieldPairs(links),
   listed |-> IF fmt = "csv" THEN {} ELSE ToSet(links),
   stopped |-> IF fmt = "txt" THEN {links[k] : k \in Positions(links, SaysStopped)} ELSE {}]

SaveRecord(fmt) ==
  /\ shown.op = "lookup" /\ shown.found
  /\ shown' = [op |-> "record", fmt |-> fmt, links |-> ToSet(shown.winner.links),
               file |-> RecordFile(fmt, shown.winner.links)]
  /\ UNCHANGED <<bins, ranges, related>>

--------------------------------------------------------------------------------
\* Tables

RowsOf(links) ==
  LET order == BinsInOrder(DOMAIN links)
  IN [k \in DOMAIN order |-> RowOf(order[k], links[order[k]])]

\* all_rows: the portfolio, whatever filter and page the table is on.
PortfolioRows(i) ==
  LET ids == Contributing(i)
  IN FirstRows(RowsOf([p \in InScope(ids, "any") |-> LinksOf(p, ids)]), PortfolioCap)

\* export_rows: the query is run again for all of it.
SearchRows(s) == FirstRows(RowsOf([p \in TableOf(s) |-> Primary(p)]), SearchCap)

SavePortfolio ==
  /\ shown.op = "portfolio"
  /\ shown' = [op |-> "table", rows |-> PortfolioRows(shown.inst), cap |-> PortfolioCap,
               total |-> shown.heading.total]
  /\ UNCHANGED <<bins, ranges, related>>

SaveSearch ==
  /\ shown.op = "search"
  /\ shown' = [op |-> "table", rows |-> SearchRows(shown.search), cap |-> SearchCap,
               total |-> Cardinality(shown.table)]
  /\ UNCHANGED <<bins, ranges, related>>

--------------------------------------------------------------------------------
\* Reports: the content is assembled first, without a format

Content(type, sections, rows, total, notes) ==
  [type |-> type, sections |-> sections, rows |-> rows, total |-> total, notes |-> notes]

Note(of, all) == [of |-> of, all |-> all]

\* One relationship is not worth a section of its own.
BinContent(links) ==
  Content("bin_record",
          IF Len(links) > 1 THEN [k \in DOMAIN links |-> <<links[k].kind, links[k].inst>>] ELSE <<>>,
          <<>>, 0, {})

\* What is cut is not noted, and the total is of the institution alone.
InstitutionContent(i, cap) ==
  Content("institution_profile", <<>>, FirstRows(PortfolioRows(i), cap), Stats(i), {})

SearchContent(s, cap) ==
  LET rows == FirstRows(SearchRows(s), cap)
      total == Cardinality(TableOf(s))
  IN Content("search_results", <<>>, rows, total,
             IF total > Len(rows) THEN {Note(Len(rows), total)} ELSE {})

\* What a format keeps: the sections and rows that are in the file, the notes, and how
\* long a value of a row may be before it is cut.
Rendering(pairs, content, limit) ==
  [sections |-> pairs, rows |-> content.rows, notes |-> content.notes, limit |-> limit]

Unlimited == 0
CellLimit == 42

\* Each section of the JSON is a dictionary: of two rows with one label the last stays.
InJson(content) ==
  LET pairs == content.sections
      last == {j \in DOMAIN pairs : \A i \in j + 1 .. Len(pairs) : pairs[i][1] # pairs[j][1]}
  IN Rendering({pairs[k] : k \in last}, content, Unlimited)

InCsv(content)  == Rendering(ToSet(content.sections), content, Unlimited)
InXlsx(content) == Rendering(ToSet(content.sections), content, Unlimited)
InText(content) == Rendering(ToSet(content.sections), content, 28)
InPdf(content)  == Rendering(ToSet(content.sections), content, CellLimit)

Rendered(fmt, content) ==
  CASE fmt = "json" -> InJson(content)
    [] fmt = "csv"  -> InCsv(content)
    [] fmt = "txt"  -> InText(content)
    [] fmt = "pdf"  -> InPdf(content)
    [] fmt = "xlsx" -> InXlsx(content)

ContentOf(cap) ==
  CASE shown.op = "lookup"    -> BinContent(shown.winner.links)
    [] shown.op = "portfolio" -> InstitutionContent(shown.inst, cap)
    [] shown.op = "search"    -> SearchContent(shown.search, cap)

Reportable == shown.op \in {"portfolio", "search"} \/ (shown.op = "lookup" /\ shown.found)

Generate(fmt, cap) ==
  /\ Reportable
  /\ \E content \in {ContentOf(cap)} :
       shown' = [op |-> "report", fmt |-> fmt, content |-> content, file |-> Rendered(fmt, content)]
  /\ UNCHANGED <<bins, ranges, related>>

\* Mutated form of PreviewNotes: the notes of the content are not taken over.
PreviewNotesOwn(content) ==
  IF Len(content.rows) > PreviewRows THEN {Note(PreviewRows, Len(content.rows))} ELSE {}

PreviewNotes(content) ==
  content.notes \cup IF Len(content.rows) > PreviewRows
                     THEN {Note(PreviewRows, Len(content.rows))} ELSE {}

Preview(cap) ==
  /\ Reportable
  /\ \E content \in {ContentOf(cap)} :
       shown' = [op |-> "report", fmt |-> "txt", content |-> content,
                 file |-> InText([content EXCEPT !.rows = FirstRows(@, PreviewRows),
                                                 !.notes = PreviewNotes(content)])]
  /\ UNCHANGED <<bins, ranges, related>>

--------------------------------------------------------------------------------
\* The columns of the PDF

Columns == <<"bin", "standing", "institution">>

\* The words of a cell, by their lengths.
CellWords(row, column) ==
  CASE column = "bin"         -> <<6 + Len(row.bin)>>
    [] column = "standing"    -> IF row.current THEN <<7>> ELSE <<10>>
    [] column = "institution" -> IF row.inst = Unknown THEN <<7>> ELSE NameWords[row.inst]

\* With a space between two words.
TextLength(words) ==
  LET upTo[k \in 0 .. Len(words)] == IF k = 0 THEN -1 ELSE upTo[k - 1] + words[k] + 1
  IN upTo[Len(words)]

CellsOf(rows, column) == {HeaderWords[column]} \cup {CellWords(rows[k], column) : k \in DOMAIN rows}

\* What the columns are measured on.
Sample(rows) == FirstRows(rows, SampleRows)

\* The width of the longest value of a column, and of the longest word in it.
Desired(rows) ==
  [c \in DOMAIN Columns |->
     Min({CellLimit, Max({TextLength(cell) : cell \in CellsOf(rows, Columns[c])})}) + CellPadding]
Floors(rows) ==
  [c \in DOMAIN Columns |->
     Min({CellLimit, Max(UNION {ToSet(cell) : cell \in CellsOf(rows, Columns[c])})}) + CellPadding]

\* Of the three columns, those given.
Total(widths, columns) ==
  LET part(c) == IF c \in columns THEN widths[c] ELSE 0 IN part(1) + part(2) + part(3)

\* Mutated form of Pinned: a column is pinned, but not given back what it needs.
PinnedOnce(s, desired, floors, available) ==
  LET free == DOMAIN desired \ s.pinned
      room == available - Total(floors, s.pinned)
      flexible == Total(desired, free)
  IN IF s.done \/ free = {} \/ room <= 0 THEN [s EXCEPT !.done = TRUE]
     ELSE [pinned |-> s.pinned, room |-> room, flexible |-> flexible, done |-> TRUE]

\* One pass: the columns that are not pinned share what is left in proportion, and
\* those that would get less than their longest word are pinned to it.
Pinned(s, desired, floors, available) ==
  LET free == DOMAIN desired \ s.pinned
      room == available - Total(floors, s.pinned)
      flexible == Total(desired, free)
      short == {c \in free : desired[c] * room < floors[c] * flexible}
  IN IF s.done \/ free = {} \/ room <= 0 THEN [s EXCEPT !.done = TRUE]
     ELSE [pinned |-> s.pinned \cup short, room |-> room, flexible |-> flexible,
           done |-> short = {}]

\* A pass for each column.
Unpinned == [pinned |-> {}, room |-> 0, flexible |-> 1, done |-> FALSE]
Passed(desired, floors, available) ==
  LET pass(s) == Pinned(s, desired, floors, available) IN pass(pass(pass(Unpinned)))

\* _column_widths, in parts of "unit"; what overflows even so is scaled down, which
\* makes the total the unit.
ColumnWidths(desired, floors, available) ==
  IF Total(desired, DOMAIN desired) <= available
  THEN [unit |-> Len(desired),
        widths |-> [c \in DOMAIN desired |->
                      desired[c] * Len(desired) + available - Total(desired, DOMAIN desired)]]
  ELSE LET s == Passed(desired, floors, available)
           widths == [c \in DOMAIN desired |-> IF c \in s.pinned THEN floors[c] * s.flexible
                                               ELSE desired[c] * s.room]
       IN IF Total(widths, DOMAIN widths) <= available * s.flexible
          THEN [unit |-> s.flexible, widths |-> widths]
          ELSE [unit |-> Total(widths, DOMAIN widths),
                widths |-> [c \in DOMAIN widths |-> widths[c] * available]]

\* A table is laid out when the PDF of a report has one.
LayOut(available) ==
  /\ shown.op = "report" /\ shown.fmt = "pdf" /\ shown.content.rows # <<>>
  /\ \E measured \in {Sample(shown.content.rows)} :
     \E desired \in {Desired(measured)}, floors \in {Floors(measured)} :
       shown' = [op |-> "layout", available |-> available, floors |-> floors,
                 laid |-> ColumnWidths(desired, floors, available)]
  /\ UNCHANGED <<bins, ranges, related>>

--------------------------------------------------------------------------------
Saves ==
  \/ \E fmt \in RecordFormats : SaveRecord(fmt)
  \/ SavePortfolio \/ SaveSearch
  \/ \E fmt \in ReportFormats, cap \in RowCaps : Generate(fmt, cap)
  \/ \E cap \in RowCaps : Preview(cap)
  \/ \E available \in PageWidths : LayOut(available)

--------------------------------------------------------------------------------
\* What a file has: every BIN the figures on the screen count, once, and every
\* relationship of a record, or a note that says how much of what it has.  Cut without a
\* note are a table of more rows than its query is ever asked for, then exactly there;
\* the profile of an institution; and the JSON report of a record with two relationships
\* of a kind, which keeps the last (export_rows, all_rows, build_search_report, preview,
\* _render_json).
NothingCutSilently ==
  /\ shown.op = "table" =>
       /\ Len(shown.rows) = Min({shown.total, shown.cap})
       /\ \A j, k \in DOMAIN shown.rows : shown.rows[j].bin = shown.rows[k].bin => j = k
  /\ shown.op = "report" =>
       LET all == shown.content.rows
           pairs == shown.content.sections
       IN /\ shown.content.type = "search_results" =>
               \/ Len(all) = shown.content.total
               \/ Note(Len(all), shown.content.total) \in shown.file.notes
          /\ \/ shown.file.rows = all
             \/ Note(Len(shown.file.rows), Len(all)) \in shown.file.notes
          /\ \A k \in DOMAIN pairs :
               \/ pairs[k] \in shown.file.sections
               \/ shown.fmt = "json" /\ \E j \in DOMAIN pairs \ {k} : pairs[j][1] = pairs[k][1]
  /\ shown.op = "record" =>
       \A l \in shown.links :
         WasIssuing(l) => l.inst \in shown.file.pairs.issuer \cup shown.file.pairs.formers

\* "Never below the width their longest single word needs": the columns of the PDF fill
\* no more than the page, and when the longest words that were measured fit side by side
\* no column is narrower than its own; the rows below the sample are not measured, and a
\* longer word of theirs may be broken (_column_widths).
ColumnsFit ==
  shown.op = "layout" =>
    /\ Total(shown.laid.widths, DOMAIN Columns) <= shown.available * shown.laid.unit
    /\ Total(shown.floors, DOMAIN Columns) <= shown.available =>
         \A c \in DOMAIN Columns : shown.floors[c] * shown.laid.unit <= shown.laid.widths[c]
================================================================================
