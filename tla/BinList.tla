-------------------------------- MODULE BinList --------------------------------
(***************************************************************************)
(* The personal BIN list: the files it consists of, seeded from those that *)
(* ship with the application, and the reader that turns their lines into   *)
(* records.                                                                *)
(*                                                                         *)
(* A file is read line by line.  Directives change how what follows a      *)
(* header is understood, a header starts a section with columns of its     *)
(* own, and a row becomes a record, replaces the record it restates, or is *)
(* reported as a problem.  What the lines say is open: every file that can *)
(* be put together from Lines is read.                                     *)
(***************************************************************************)
EXTENDS Integers, Sequences, FiniteSets

CONSTANTS
  Datasets,     \* the files that ship with the application
  Lines,        \* the lines a file may have
  Sidecars,     \* the directives a file may have beside it
  Known,        \* KNOWN_COLUMNS
  Spellings,    \* COLUMN_ALIASES: other names of columns
  MaxLines,     \* bound on the lines of a file
  MaxFiles      \* bound on the files

MinBin  == 6    \* _MIN_BIN_LENGTH
LongBin == 8    \* _LONG_BIN_LENGTH
TooLong == 9    \* _TOO_LONG

\* A cell is digits, or a word: a column name, the name of a bank, nothing.
Blank     == [word |-> "", digits |-> <<>>]
Word(w)   == [word |-> w, digits |-> <<>>]
Number(d) == [word |-> "", digits |-> d]
Damaged   == Word("5E+11")     \* what a spreadsheet leaves of a long number

Trusts == {"high", "low"}      \* a declared confidence

IsCell(c) == c = [word |-> c.word, digits |-> c.digits] /\ c.digits \in Seq(0 .. 9)

ASSUME LineAssumption ==
  \A x \in Lines : \/ x.kind = "directive"
                   \/ /\ x.kind = "content" /\ DOMAIN x.cells \subseteq Nat
                      /\ \A k \in DOMAIN x.cells : IsCell(x.cells[k])
ASSUME FilesAssumption ==
  IsFiniteSet(Datasets) /\ MaxLines \in Nat \ {0} /\ MaxFiles \in Nat \ {0}

VARIABLES
  folder,     \* the user's copies of the datasets
  deleted,    \* history: the datasets the user deleted
  reader,     \* the file being read: its columns, directives and settings
  report,     \* the records and what was counted
  rows        \* history: the rows that were no headers, and how they were read

listVars == <<folder, deleted, reader, report, rows>>

NoReader == [state |-> "idle", file |-> 0, line |-> 0, columns |-> <<>>,
             directives |-> <<>>, pad |-> FALSE, asked |-> FALSE, trust |-> "high", headers |-> 0]
NoReport == [records |-> <<>>, problems |-> 0, duplicates |-> 0, padded |-> 0, unnamed |-> 0]

ListTypeOK ==
  /\ folder \in [Datasets -> {"shipped", "edited", "absent"}]
  /\ deleted \subseteq Datasets
  /\ reader.state \in {"idle", "reading", "refused"}
  /\ reader.file \in 0 .. MaxFiles /\ reader.line \in 0 .. MaxLines
  /\ reader.pad \in BOOLEAN /\ reader.trust \in Trusts
  /\ \A k \in DOMAIN report.records :
       LET r == report.records[k] IN
       /\ Len(r.bin) \in MinBin .. LongBin
       /\ r.trust \in Trusts /\ r.bank \notin {"", Damaged.word}

--------------------------------------------------------------------------------
\* The files

\* seed_datasets, at every look at the default list: what is not there is copied.
Seed ==
  /\ reader.state = "idle" /\ \E d \in Datasets : folder[d] = "absent"
  /\ folder' = [d \in Datasets |-> IF folder[d] = "absent" THEN "shipped" ELSE folder[d]]
  /\ UNCHANGED <<deleted, reader, report, rows>>

\* A copy that fails leaves the files before it.
SeedFails(d) ==
  /\ reader.state = "idle" /\ folder[d] = "absent"
  /\ folder' = [folder EXCEPT ![d] = "shipped"]
  /\ UNCHANGED <<deleted, reader, report, rows>>

Edit(d) ==
  /\ reader.state = "idle" /\ folder[d] = "shipped"
  /\ folder' = [folder EXCEPT ![d] = "edited"]
  /\ UNCHANGED <<deleted, reader, report, rows>>

Delete(d) ==
  /\ reader.state = "idle" /\ folder[d] # "absent"
  /\ folder' = [folder EXCEPT ![d] = "absent"]
  /\ deleted' = deleted \cup {d}
  /\ UNCHANGED <<reader, report, rows>>

\* list_sources: the list itself and the copies that are there.
Sources == 1 + Cardinality({d \in Datasets : folder[d] # "absent"})

--------------------------------------------------------------------------------
\* Cells, columns, settings

Zeros(d, n) == [k \in 1 .. n |-> IF k <= n - Len(d) THEN 0 ELSE d[k - (n - Len(d))]]

\* normalise_bin: the digits of a BIN, or none if the cell holds none.
BinOf(cell, pad) ==
  IF cell.digits = <<>> \/ Len(cell.digits) >= TooLong THEN <<>>
  ELSE IF Len(cell.digits) < MinBin
    THEN IF pad THEN Zeros(cell.digits, MinBin) ELSE <<>>
  ELSE IF pad /\ Len(cell.digits) = LongBin - 1 THEN Zeros(cell.digits, LongBin)
  ELSE cell.digits

\* canonical_column: "emetteur" is the bank.
Canonical(word) == IF word \in DOMAIN Spellings THEN Spellings[word] ELSE word

\* The column a header cell names: a directive beats the alias table.
ColumnOf(cell, directives) ==
  LET name == Canonical(cell.word) IN
  IF name \in DOMAIN directives /\ name \notin {"confidence", "pad"}
    THEN directives[name] ELSE name

\* resolve_columns refuses the file.
Unreadable(cells, directives) ==
  LET names == {ColumnOf(cells[k], directives) : k \in DOMAIN cells} \ {""} IN
  ~(names \subseteq Known) \/ "bin" \notin names

\* starts_a_new_section: digits where the BIN goes are data; otherwise two cells
\* and half of them have to read as column names.
NewSection(cells, columns, directives) ==
  LET at     == {k \in DOMAIN columns : columns[k] = "bin"}
      filled == {k \in DOMAIN cells : cells[k] # Blank}
      named  == {k \in filled : Canonical(cells[k].word) \in Known \cup DOMAIN directives}
      first  == CHOOSE k \in at : \A j \in at : k <= j IN
  /\ ~(first \in DOMAIN cells /\ cells[first].digits # <<>>)
  /\ Cardinality(named) >= 2 /\ 2 * Cardinality(named) >= Cardinality(filled)

\* _row_values: the first cell under a column that is not blank.
ValueOf(cells, columns, name) ==
  LET at == {k \in DOMAIN columns \cap DOMAIN cells : columns[k] = name /\ cells[k] # Blank} IN
  IF at = {} THEN Blank ELSE cells[CHOOSE k \in at : \A j \in at : k <= j]

\* file_pads_short_bins: what the file declares, or what the caller asked for.
PadOf(directives, asked) == IF "pad" \in DOMAIN directives THEN directives["pad"] = "yes" ELSE asked

\* file_confidence.
TrustOf(directives) == IF "confidence" \in DOMAIN directives THEN directives["confidence"] ELSE "high"

\* Directives that name no column that exists, or no confidence, are refused.
Refused(directives) ==
  \/ "pad" \in DOMAIN directives /\ directives["pad"] \notin {"yes", "no"}
  \/ "confidence" \in DOMAIN directives /\ directives["confidence"] \notin Trusts

--------------------------------------------------------------------------------
\* Reading

\* Mutated form of Opened: what the file before declared stays in force.
OpenedLeaking(from, sidecar) ==
  [NoReader EXCEPT !.state = "reading", !.file = from.file + 1, !.asked = from.asked,
                   !.directives = sidecar, !.trust = TrustOf(sidecar),
                   !.pad = from.pad \/ PadOf(sidecar, from.asked), !.headers = from.headers,
                   !.columns = from.columns]

Opened(from, sidecar) ==
  [NoReader EXCEPT !.state = "reading", !.file = from.file + 1, !.asked = from.asked,
                   !.directives = sidecar, !.trust = TrustOf(sidecar),
                   !.pad = PadOf(sidecar, from.asked), !.headers = from.headers]

\* read_bin_list, at its first file.
Begin(asked, sidecar) ==
  /\ reader.state = "idle" /\ Sources <= MaxFiles
  /\ reader' = IF Refused(sidecar) THEN [NoReader EXCEPT !.state = "refused"]
               ELSE Opened([NoReader EXCEPT !.asked = asked], sidecar)
  /\ report' = NoReport /\ rows' = <<>>
  /\ UNCHANGED <<folder, deleted>>

ReadDirective(line) ==
  /\ reader.state = "reading" /\ reader.line < MaxLines /\ line.kind = "directive"
  /\ reader' = [reader EXCEPT !.line = @ + 1,
                  !.directives = [name \in DOMAIN @ \cup {Canonical(line.name)} |->
                                    IF name = Canonical(line.name) THEN line.value ELSE @[name]]]
  /\ UNCHANGED <<folder, deleted, report, rows>>

IsHeader(cells) ==
  reader.columns # <<>> => NewSection(cells, reader.columns, reader.directives)

\* A header: its columns, and the settings declared so far.  What is not understood
\* refuses the whole list.
ReadHeader(line) ==
  /\ reader.state = "reading" /\ reader.line < MaxLines /\ line.kind = "content"
  /\ IsHeader(line.cells) = TRUE
  /\ reader' =
       IF Unreadable(line.cells, reader.directives) \/ Refused(reader.directives)
         THEN [NoReader EXCEPT !.state = "refused"]
         ELSE [reader EXCEPT
                 !.line = @ + 1, !.headers = IF reader.columns = <<>> THEN @ + 1 ELSE @,
                 !.columns = [k \in DOMAIN line.cells |->
                                ColumnOf(line.cells[k], reader.directives)],
                 !.trust = TrustOf(reader.directives),
                 !.pad   = PadOf(reader.directives, reader.asked)]
  /\ UNCHANGED <<folder, deleted, report, rows>>

\* _row_record: the record of a row; no BIN if the row is a problem.
RecordOf(cells) ==
  LET bank == ValueOf(cells, reader.columns, "bank") IN
  [bin   |-> BinOf(ValueOf(cells, reader.columns, "bin"), reader.pad),
   bank  |-> IF bank \in {Blank, Damaged} THEN "unnamed"
             ELSE IF bank.digits # <<>> THEN "numbered" ELSE bank.word,
   trust |-> reader.trust]

\* _fact_key: the rows that assert the same.
SameFact(r, s) == r.bin = s.bin /\ r.bank = s.bank

\* Mutated form of Recorded: the first row stands.
RecordedFirst(records, r) ==
  IF \E k \in DOMAIN records : SameFact(records[k], r) THEN records ELSE Append(records, r)

\* The row that restates another takes its place.
Recorded(records, r) ==
  IF \E k \in DOMAIN records : SameFact(records[k], r)
    THEN [k \in DOMAIN records |-> IF SameFact(records[k], r) THEN r ELSE records[k]]
    ELSE Append(records, r)

ReadRow(line) ==
  /\ reader.state = "reading" /\ reader.line < MaxLines /\ line.kind = "content"
  /\ ~IsHeader(line.cells)
  /\ \E r \in {RecordOf(line.cells)} :
       /\ report' =
            IF r.bin = <<>> THEN [report EXCEPT !.problems = @ + 1]
            ELSE [report EXCEPT
                    !.records = Recorded(@, r),
                    !.duplicates = @ + (IF Len(Recorded(report.records, r)) = Len(report.records)
                                          THEN 1 ELSE 0),
                    !.padded = @ + (IF r.bin # ValueOf(line.cells, reader.columns, "bin").digits
                                      THEN 1 ELSE 0),
                    !.unnamed = @ + (IF r.bank = "unnamed" THEN 1 ELSE 0)]
       /\ rows' = Append(rows, [record |-> r, file |-> reader.file,
                                digits |-> ValueOf(line.cells, reader.columns, "bin").digits,
                                says |-> reader.directives, asked |-> reader.asked])
  /\ reader' = [reader EXCEPT !.line = @ + 1]
  /\ UNCHANGED <<folder, deleted>>

NextFile(sidecar) ==
  /\ reader.state = "reading" /\ reader.file < Sources
  /\ reader' = IF Refused(sidecar) THEN [NoReader EXCEPT !.state = "refused"]
               ELSE Opened(reader, sidecar)
  /\ UNCHANGED <<folder, deleted, report, rows>>

\* The list is read: refused without a header or without a record.
End ==
  /\ reader.state = "reading" /\ reader.file = Sources
  /\ reader' = IF reader.headers = 0 \/ report.records = <<>>
                 THEN [NoReader EXCEPT !.state = "refused"] ELSE NoReader
  /\ UNCHANGED <<folder, deleted, report, rows>>

GiveUp ==
  /\ reader.state = "refused"
  /\ reader' = NoReader /\ report' = NoReport /\ rows' = <<>>
  /\ UNCHANGED <<folder, deleted>>

ListInit ==
  /\ folder = [d \in Datasets |-> "absent"] /\ deleted = {}
  /\ reader = NoReader /\ report = NoReport /\ rows = <<>>

ListNext ==
  \/ Seed \/ \E d \in Datasets : SeedFails(d) \/ Edit(d) \/ Delete(d)
  \/ \E asked \in BOOLEAN, s \in Sidecars : Begin(asked, s)
  \/ \E x \in Lines : ReadDirective(x) \/ ReadHeader(x) \/ ReadRow(x)
  \/ \E s \in Sidecars : NextFile(s)
  \/ End \/ GiveUp

ListSpec == ListInit /\ [][ListNext]_listVars

--------------------------------------------------------------------------------
\* Properties

\* What was read so far, row by row, without the reader's bookkeeping: of the rows
\* that assert the same fact the last one counts, in the place of the first.
Facts == {k \in DOMAIN rows : rows[k].record.bin # <<>>}

Restates(j, k) == SameFact(rows[j].record, rows[k].record)
FirstOf(k) == \A j \in Facts : Restates(j, k) => j >= k
LastOf(k)  == \A j \in Facts : Restates(j, k) => j <= k

\* The facts, each by the first row that asserts it, in the order of these rows.
Firsts   == {k \in Facts : FirstOf(k)}
Place(k) == Cardinality({j \in Firsts : j <= k})

\* Every row is accounted for, and the records are the facts: a correction further
\* down, or in another file, replaces what it corrects, where that was, and nothing
\* else does (_read_one).
LastWordCounts ==
  /\ Len(report.records) = Cardinality(Firsts)
  /\ \A k \in Firsts, j \in Facts :
       Restates(j, k) /\ LastOf(j) => report.records[Place(k)] = rows[j].record
  /\ Len(rows) = Len(report.records) + report.problems + report.duplicates

\* No BIN is made up: digits are changed only where some have to be missing, and a
\* directive of the file that the row is in is about lost zeros or the caller says
\* that they were lost (normalise_bin, file_pads_short_bins).
NoDigitsMadeUp ==
  \A k \in Facts :
    LET r == rows[k] IN
    r.record.bin # r.digits =>
      /\ Len(r.digits) \in 1 .. MinBin - 1 \cup {LongBin - 1}
      /\ "pad" \in DOMAIN r.says \/ r.asked
================================================================================
