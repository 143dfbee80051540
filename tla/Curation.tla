------------------------------- MODULE Curation -------------------------------
(***************************************************************************)
(* How records enter the curated tables: the importers and the staging     *)
(* pipeline, IngestService, which finds or creates the institution a row   *)
(* names and merges what it says of a BIN, and DedupeService, which makes  *)
(* two institutions one.                                                   *)
(*                                                                         *)
(* Each of them works in a session of its own: what it writes counts once  *)
(* it commits, and what it has read of an institution stays as it was read *)
(* (sessions are opened with expire_on_commit=False).                      *)
(*                                                                         *)
(* One field stands for those of CONFLICT_FIELDS, one identifier for the   *)
(* website and the SWIFT/BIC.  Addresses, claims and archived source rows, *)
(* which are only ever added, are left out.                                *)
(***************************************************************************)
EXTENDS Integers, Sequences, FiniteSets, FiniteSetsExt

CONSTANTS
  Names,        \* spellings of institution names, told apart by squash()
  Norm,         \* name_normalizer.normalized_form of each
  Core,         \* name_normalizer.core_form of each: less suffixes, stopwords
  Words,        \* how many words a spelling has
  Lead,         \* the leading word, by which pairs are brought together
  Likeness,     \* [Names -> [Names -> 0 .. 96]]: similarity of unequal cores
  Countries, Sites, Bins, Values,
  BadBin,       \* digits that are no BIN
  None,
  Files,        \* the sources: sequences of rows
  BatchSize,    \* rows per commit
  MaxWeakBlock, \* pairs of a larger block are not compared
  MaxInst,      \* bound on the institutions
  MaxSessions   \* bound on the sessions

Forms == {Norm[n] : n \in Names} \cup {Core[n] : n \in Names}
Ids   == 1 .. MaxInst
Roles == {"issuer", "former_issuer", "parent"}

Row == [bin : Bins \cup {BadBin}, value : Values \cup {None}, conf : 1 .. 100,
        name : Names \cup {None}, alias : Names \cup {None}, legal : Names \cup {None},
        country : Countries \cup {None}, site : Sites \cup {None},
        parent : Names \cup {None}, role : {"issuer", "former_issuer"}, high : BOOLEAN]

Institution == [name : Names, norm : Forms, legal : Forms \cup {None},
                country : Countries \cup {None}, site : Sites \cup {None},
                aliases : SUBSET Forms, parent : Ids \cup {None}]

ASSUME NameAssumption ==
  /\ DOMAIN Norm = Names /\ DOMAIN Core = Names /\ DOMAIN Lead = Names
  /\ Words \in [Names -> Nat] /\ Likeness \in [Names -> [Names -> 0 .. 96]]
  /\ \A n, m \in Names : Norm[n] = Norm[m] => Core[n] = Core[m]
ASSUME RowAssumption  == Files \subseteq Seq(Row)
ASSUME NoneAssumption ==
  /\ None \notin Names /\ None \notin Countries /\ None \notin Sites /\ None \notin Values
  /\ None \notin Forms /\ None \notin Ids /\ None \notin Institution
  /\ BadBin \notin Bins
ASSUME BoundAssumption ==
  BatchSize \in Nat \ {0} /\ MaxInst \in Nat /\ MaxSessions \in Nat /\ MaxWeakBlock \in Nat

VARIABLES
  db,        \* the tables, as the session in progress sees them
  saved,     \* the tables, as committed
  session,   \* the session in progress
  opened     \* how many sessions there have been

vars == <<db, saved, session, opened>>

NoSession ==
  [kind |-> "none", file |-> <<>>, at |-> 0, cache |-> <<>>, seen |-> <<>>,
   pairs |-> {}, dry |-> FALSE]

TypeOK ==
  /\ \A d \in {db, saved} :
       /\ d.inst \in [Ids -> Institution \cup {None}]
       /\ DOMAIN d.bins \subseteq Bins
       /\ \A b \in DOMAIN d.bins : d.bins[b] \in [value : Values \cup {None}, conf : 1 .. 100]
       /\ d.told \subseteq Bins \X Values \X Values
       /\ d.links \subseteq [bin : Bins, inst : Ids, role : Roles, current : BOOLEAN]
       /\ \A x \in d.links : x.bin \in DOMAIN d.bins /\ d.inst[x.inst] # None
       \* uq_bin_institution_role
       /\ \A x, y \in d.links : x.bin = y.bin /\ x.inst = y.inst /\ x.role = y.role => x = y
       /\ d.ranges \in [Bins \X (Ids \cup {None}) -> Nat]
       \* uq_bin_range, which does not count rows without an institution
       /\ \A b \in Bins, i \in Ids : d.ranges[<<b, i>>] <= (IF d.inst[i] = None THEN 0 ELSE 1)
       /\ d.staged \in Seq([row : Row, status : {"received", "resolved", "conflicted",
                                                 "rejected", "promoted"}])
  /\ session.kind \in {"none", "import", "stage", "promote", "dedupe"}
  /\ session.kind = "none" => session = NoSession /\ db = saved
  /\ opened \in 0 .. MaxSessions

\* f once k is mapped to x.
Put(f, k, x) == [y \in DOMAIN f \cup {k} |-> IF y = k THEN x ELSE f[y]]

Live(d) == {i \in Ids : d.inst[i] # None}

--------------------------------------------------------------------------------
\* Names and scores, in hundredths

Similarity(n, m) ==
  IF Norm[n] = Norm[m] THEN 100 ELSE IF Core[n] = Core[m] THEN 97 ELSE Likeness[n][m]

Differ(c, e) == c # None /\ e # None /\ c # e
Agree(c, e)  == c # None /\ c = e

\* NameNormalizer.match: what x and y have in common.
Score(x, y, shared, alias) ==
  LET name == IF alias THEN 100 ELSE Similarity(x.name, y.name)
      base == IF Differ(x.country, y.country) THEN (name * 55) \div 100 ELSE name
  IN Min({100, base + (IF shared THEN 4 ELSE 0) + (IF Agree(x.site, y.site) THEN 4 ELSE 0)})

\* has_corroboration: a strong identifier, or two weaker signals.
Corroborated(x, y, shared, alias) ==
  \/ shared \/ Agree(x.site, y.site)
  \/ alias /\ Agree(x.country, y.country)

CanMerge(x, y, shared, alias) ==
  Score(x, y, shared, alias) >= 92 /\ Corroborated(x, y, shared, alias)

--------------------------------------------------------------------------------
\* Institutions

\* What the session shows of institution i: what it read first, if it did.
CountryShown(d, s, i) ==
  IF i \in DOMAIN s.seen THEN s.seen[i].country ELSE d.inst[i].country

Shown(d, s, i) == [d.inst[i] EXCEPT !.country = CountryShown(d, s, i)]

AliasesShown(d, s, i) ==
  IF i \in DOMAIN s.seen /\ s.seen[i].aliases # None THEN s.seen[i].aliases
  ELSE d.inst[i].aliases

\* s once it has read the institutions ids.
Seeing(d, s, ids) ==
  [s EXCEPT !.seen = [i \in DOMAIN s.seen \cup ids |->
     [country |-> CountryShown(d, s, i),
      aliases |-> IF i \in ids THEN AliasesShown(d, s, i) ELSE s.seen[i].aliases]]]

FormsOf(S) == {Norm[n] : n \in S \ {None}}

\* _alias_candidates and the rows with the same normalized name.
Candidates(d, who) ==
  LET keys == FormsOf({who.name, who.alias}) IN
  {i \in Live(d) : d.inst[i].norm \in keys \/ d.inst[i].aliases \cap keys # {}}

\* Mutated form of Accepts: a row that names no country matches nothing.
AcceptsKnown(d, s, i, who) ==
  LET x == Shown(d, s, i) IN
  \/ /\ d.inst[i].name = who.name \/ Norm[who.name] \in AliasesShown(d, s, i)
     /\ Agree(who.country, d.inst[i].country) \/ Agree(who.site, x.site)
  \/ CanMerge(who, x, FALSE, FALSE)

\* _pick_institution would accept institution i for who.
Accepts(d, s, i, who) ==
  LET x == Shown(d, s, i)
      unknown == who.country = None \/ d.inst[i].country = None IN
  \/ /\ d.inst[i].name = who.name \/ Norm[who.name] \in AliasesShown(d, s, i)
     /\ unknown \/ Agree(who.country, d.inst[i].country) \/ Agree(who.site, x.site)
  \/ CanMerge(who, x, FALSE, FALSE)

\* The first of those with the highest score.
Picked(d, s, who) ==
  LET fit  == {i \in Candidates(d, who) : Accepts(d, s, i, who)}
      mark(i) == Score(who, Shown(d, s, i), FALSE, FALSE) IN
  IF fit = {} THEN None
  ELSE Min({i \in fit : \A j \in fit : mark(j) <= mark(i)})

Filled(old, new) == IF old = None THEN new ELSE old

\* _is_fuller_name: the same name, spelled out.
Fuller(n, m) == n # m /\ Core[n] = Core[m] /\ Words[n] > Words[m]

\* _legal_aliases, of an institution as it stands.
LegalAliases(legal, name) == IF legal \in {None, Norm[name]} THEN {} ELSE {legal}

\* _enrich_institution, and the aliases added after it: blanks are filled, and
\* a fuller spelling is shown in place of the shorter one.
Enriched(x, who, withLegal) ==
  LET fuller == Fuller(who.name, x.name)
      name   == IF fuller THEN who.name ELSE x.name
      legal  == Filled(x.legal, IF who.legal = None THEN None ELSE Norm[who.legal])
      said   == IF who.legal = None THEN legal ELSE Norm[who.legal] IN
  [x EXCEPT !.name = name, !.legal = legal,
            !.site = Filled(@, who.site), !.country = Filled(@, who.country),
            !.aliases = @ \cup FormsOf({who.alias})
                          \cup (IF fuller THEN {Norm[x.name]} ELSE {})
                          \cup (IF withLegal THEN LegalAliases(said, name) ELSE {})]

Created(who) ==
  [name |-> who.name, norm |-> Norm[who.name],
   legal |-> IF who.legal = None THEN None ELSE Norm[who.legal],
   country |-> who.country, site |-> who.site, parent |-> None,
   aliases |-> FormsOf({who.alias})
                 \cup (IF Core[who.name] # Norm[who.name] THEN {Core[who.name]} ELSE {})
                 \cup LegalAliases(IF who.legal = None THEN None ELSE Norm[who.legal], who.name)]

NextId(d) == IF Live(d) = {} THEN 1 ELSE Max(Live(d)) + 1

CacheKey(who) == <<Norm[who.name], who.country>>

\* ensure_institution on a cache hit ...
Cached(d, s, who, i) ==
  [db |-> [d EXCEPT !.inst[i] = Enriched(@, who, TRUE)], session |-> s, id |-> i]

\* ... with an institution that is accepted, or with none: one is created.
Found(d, s, who, i, id) ==
  [db |-> [d EXCEPT !.inst[id] = IF i = None THEN Created(who) ELSE Enriched(@, who, FALSE)],
   session |-> [Seeing(d, s, Candidates(d, who)) EXCEPT !.cache = Put(@, CacheKey(who), id)],
   id |-> id]

PickedOrNew(d, s, who, i) == Found(d, s, who, i, IF i = None THEN NextId(d) ELSE i)

\* ensure_institution: the tables, the session and the institution.
Ensured(d, s, who) ==
  IF CacheKey(who) \in DOMAIN s.cache THEN Cached(d, s, who, s.cache[CacheKey(who)])
  ELSE PickedOrNew(d, s, who, Picked(d, s, who))

--------------------------------------------------------------------------------
\* BINs

\* Bin.has_current_issuer.
HasCurrentIssuer(d, b) == \E x \in d.links : x.bin = b /\ x.role = "issuer" /\ x.current

\* Mutated form of Superseding: the past may overrule the present.
SupersedingAlways(d, row) ==
  \/ row.conf > d.bins[row.bin].conf
  \/ row.conf = d.bins[row.bin].conf /\ ~HasCurrentIssuer(d, row.bin)

\* A claim that disagrees replaces the value of a record.
Superseding(d, row) ==
  /\ row.role = "issuer"
  /\ \/ row.conf > d.bins[row.bin].conf
     \/ row.conf = d.bins[row.bin].conf /\ ~HasCurrentIssuer(d, row.bin)

\* Mutated form of BinMerged: a disagreement is settled and not recorded.
BinMergedUntold(d, row) ==
  LET b == row.bin IN
  IF b \notin DOMAIN d.bins
    THEN [d EXCEPT !.bins = Put(@, b, [value |-> row.value, conf |-> row.conf])]
  ELSE IF row.value = None \/ d.bins[b].value = row.value THEN d
  ELSE IF d.bins[b].value = None THEN [d EXCEPT !.bins[b].value = row.value]
  ELSE IF Superseding(d, row)
    THEN [d EXCEPT !.bins[b] = [value |-> row.value, conf |-> row.conf]]
  ELSE [d EXCEPT !.told = @ \cup {<<b, d.bins[b].value, row.value>>}]

\* A new record, or _merge_bin: blanks are filled, disagreements recorded.
BinMerged(d, row) ==
  LET b == row.bin IN
  IF b \notin DOMAIN d.bins
    THEN [d EXCEPT !.bins = Put(@, b, [value |-> row.value, conf |-> row.conf])]
  ELSE IF row.value = None \/ d.bins[b].value = row.value THEN d
  ELSE IF d.bins[b].value = None THEN [d EXCEPT !.bins[b].value = row.value]
  ELSE [d EXCEPT !.told = @ \cup {<<b, d.bins[b].value, row.value>>},
                 !.bins[b] = IF Superseding(d, row)
                               THEN [value |-> row.value, conf |-> row.conf] ELSE @]

\* _link: once per BIN, institution and role; a link that is there stays as it is.
Linked(d, b, i, role, current) ==
  IF i = None \/ \E x \in d.links : x.bin = b /\ x.inst = i /\ x.role = role THEN d
  ELSE [d EXCEPT !.links = @ \cup {[bin |-> b, inst |-> i, role |-> role, current |-> current]}]

\* _ensure_range.
Ranged(d, row, i) ==
  IF row.high /\ d.ranges[<<row.bin, i>>] = 0
    THEN [d EXCEPT !.ranges[<<row.bin, i>>] = 1] ELSE d

\* The row as a parent is looked up: by its name and the country of the row.
ParentOf(row) ==
  [name |-> row.parent, alias |-> None, legal |-> None, country |-> row.country, site |-> None]

Issuer(d, s, row) ==
  IF row.name = None THEN [db |-> d, session |-> s, id |-> None] ELSE Ensured(d, s, row)

Parent(own, row) ==
  IF row.parent = None THEN [own EXCEPT !.id = None]
  ELSE Ensured(own.db, own.session, ParentOf(row))

Adopted(d, own, up) ==
  IF up = None \/ own = None \/ up = own THEN d ELSE [d EXCEPT !.inst[own].parent = up]

\* History: what the rows have said.
Remembered(d, row, own) ==
  [d EXCEPT !.asserted = @ \cup (IF own = None THEN {} ELSE {<<row.bin, row.role, own>>}),
            !.offered  = @ \cup (IF row.value = None THEN {}
                                 ELSE {<<row.bin, row.value, row.role>>})]

\* The record, its links and its range, once own and up are known.
Written(d, row, own, up) ==
  Remembered(Ranged(Linked(Linked(BinMerged(Adopted(d, own, up), row),
                                  row.bin, own, row.role, row.role = "issuer"),
                           row.bin, IF up = own THEN None ELSE up, "parent", TRUE),
                    row, own), row, own)

Completed(own, up, row) ==
  [db |-> Written(up.db, row, own.id, up.id), session |-> up.session]

WithIssuer(own, row) == Completed(own, Parent(own, row), row)

\* IngestService.ingest: the tables and the session after one row.
Ingested(d, s, row) ==
  IF row.bin = BadBin THEN [db |-> d, session |-> s] ELSE WithIssuer(Issuer(d, s, row), row)

\* scalar_one_or_none finds two ranges of one span and no institution.
Breaks(d, row) ==
  /\ row.bin # BadBin /\ row.high /\ row.name = None
  /\ d.ranges[<<row.bin, None>>] > 1

--------------------------------------------------------------------------------
\* Two institutions become one

\* The blocks of _blocking_keys two institutions share.
SameBlock(d, a, b) ==
  LET lead(i) == {j \in Live(d) : Lead[d.inst[j].name] = Lead[d.inst[i].name]} IN
  \/ Core[d.inst[a].name] = Core[d.inst[b].name]
  \/ b \in lead(a) /\ Cardinality(lead(a)) <= MaxWeakBlock

SharedBins(d, a, b) ==
  \E x, y \in d.links : x.inst = a /\ y.inst = b /\ x.bin = y.bin

\* _score: the countries as the session shows them.
Duplicates(d, s, a, b) ==
  CanMerge(Shown(d, s, a), Shown(d, s, b), SharedBins(d, a, b),
           Norm[d.inst[b].name] \in d.inst[a].aliases)

\* What the session has read of a pair once it has compared it.
Compared(d, s, a, b) ==
  [s EXCEPT !.pairs = @ \ {<<a, b>>},
            !.seen  = [i \in DOMAIN @ \cup {a, b} |->
              IF i \in DOMAIN @ THEN @[i]
              ELSE [country |-> d.inst[i].country, aliases |-> None]]]

\* The aliases of b that a is left with: deleting b deletes those that the
\* session once read as its own, moved or not.
AliasesMoved(d, s, b) ==
  IF b \in DOMAIN s.seen /\ s.seen[b].aliases # None
    THEN d.inst[b].aliases \ s.seen[b].aliases ELSE d.inst[b].aliases

\* Mutated form of LinksMoved: the links of b go with it.
LinksMovedNot(links, a, b) == {x \in links : x.inst # b}

\* The links of b, moved to a unless it has the same one.
LinksMoved(links, a, b) ==
  {x \in links : x.inst # b}
    \cup {[x EXCEPT !.inst = a] : x \in {y \in links : y.inst = b
             /\ \A z \in links : z.inst # a \/ z.bin # y.bin \/ z.role # y.role}}

\* _merge: b becomes part of a.  Its ranges are left without an institution.
Merged(d, s, a, b) ==
  LET x == d.inst[a]
      y == d.inst[b] IN
  [d EXCEPT
     !.inst = [i \in Ids |->
       CASE i = b -> None
         [] i = a -> [x EXCEPT !.legal = Filled(@, y.legal), !.site = Filled(@, y.site),
                               !.country = Filled(@, y.country),
                               !.parent = IF @ = b THEN a ELSE @,
                               !.aliases = @ \cup AliasesMoved(d, s, b) \cup {Norm[y.name]}]
         [] OTHER -> IF d.inst[i] # None /\ d.inst[i].parent = b
                       THEN [d.inst[i] EXCEPT !.parent = a] ELSE d.inst[i]],
     !.links  = LinksMoved(@, a, b),
     !.ranges = [k \in DOMAIN @ |-> CASE k[2] = b -> 0
                                      [] k[2] = None -> @[k] + @[<<k[1], b>>]
                                      [] OTHER -> @[k]],
     !.asserted = {<<t[1], t[2], IF t[3] = b THEN a ELSE t[3]>> : t \in @}]

--------------------------------------------------------------------------------
\* Sessions

Open(kind, file, dry) ==
  /\ session.kind = "none" /\ opened < MaxSessions
  /\ session' = [NoSession EXCEPT !.kind = kind, !.file = file, !.dry = dry]
  /\ opened' = opened + 1
  /\ UNCHANGED saved

Close == session' = NoSession

\* BaseImporter.run, row by row.
StartImport(f) == Open("import", f, FALSE) /\ UNCHANGED db

ImportRow ==
  /\ session.kind = "import" /\ session.at < Len(session.file)
  /\ NextId(db) + 1 \in Ids
  /\ ~Breaks(db, session.file[session.at + 1])
  /\ \E done \in {Ingested(db, session, session.file[session.at + 1])} :
       db' = done.db /\ session' = [done.session EXCEPT !.at = @ + 1]
  /\ saved' = IF session'.at % BatchSize = 0 \/ session'.at = Len(session.file)
                THEN db' ELSE saved
  /\ UNCHANGED opened

\* The pairs of a pass, the earlier of the two to be kept.
Pairs(d) ==
  {p \in Live(d) \X Live(d) : p[1] < p[2] /\ SameBlock(d, p[1], p[2])}

\* The pass that ends an import, in its session.
ThenDedupe ==
  /\ session.kind = "import" /\ session.at = Len(session.file)
  /\ session' = [session EXCEPT !.kind = "dedupe", !.pairs = Pairs(db)]
  /\ UNCHANGED <<db, saved, opened>>

\* import --no-dedupe, or the end of a staged import.
EndImport ==
  /\ session.kind = "import" /\ session.at = Len(session.file)
  /\ Close /\ UNCHANGED <<db, saved, opened>>

\* cmd_dedupe.
StartDedupe(dry) ==
  /\ session.kind = "none" /\ opened < MaxSessions
  /\ Cardinality(Live(db)) > 1
  /\ session' = [NoSession EXCEPT !.kind = "dedupe", !.dry = dry, !.pairs = Pairs(db)]
  /\ opened' = opened + 1
  /\ UNCHANGED <<db, saved>>

Gone(s, d, p) == d.inst[p[1]] = None \/ d.inst[p[2]] = None

\* deduplicate_institutions, one pair: merged, or left for a review.
ComparePair(p) ==
  /\ session.kind = "dedupe" /\ p \in session.pairs
  /\ LET a == p[1]
         b == p[2] IN
       IF Gone(session, db, p)
         THEN /\ session' = [session EXCEPT !.pairs = @ \ {p}]
              /\ UNCHANGED db
         ELSE /\ session' = Compared(db, session, a, b)
              /\ db' = IF Duplicates(db, session', a, b) /\ ~session.dry
                         THEN Merged(db, session', a, b) ELSE db
  /\ UNCHANGED <<saved, opened>>

EndDedupe ==
  /\ session.kind = "dedupe" /\ session.pairs = {}
  /\ Close /\ saved' = db /\ UNCHANGED <<db, opened>>

\* StagingService.receive: the rows of a source, nothing validated yet.
StartStaging(f) ==
  /\ Open("stage", f, FALSE)
  /\ db' = [db EXCEPT !.staged =
       @ \o [k \in 1 .. Len(f) |-> [row |-> f[k], status |-> "received"]]]

\* Institutions of the country of a row, all of them if it names none.
InCountry(d, ids, row) ==
  IF row.country = None THEN ids ELSE {i \in ids : d.inst[i].country = row.country}

\* _scored_candidates: those at 0.55 and more that carry a key of the name.
Strong(d, row) ==
  {i \in Live(d) : /\ \/ d.inst[i].norm \in {Norm[row.name], Core[row.name]}
                     \/ Lead[d.inst[i].name] = Lead[row.name]
                  /\ CanMerge(row, d.inst[i], FALSE, FALSE)}

\* InstitutionResolver.resolve: does the name stand for several institutions?
Ambiguous(d, row) ==
  LET legal == InCountry(d, {i \in Live(d) : d.inst[i].legal = Norm[row.legal]}, row)
      same  == InCountry(d, {i \in Live(d) : d.inst[i].norm = Norm[row.name]}, row)
      alias == InCountry(d, {i \in Live(d) : Norm[row.name] \in d.inst[i].aliases}, row) IN
  /\ ~(row.legal # None /\ Cardinality(legal) = 1)
  /\ \/ Cardinality(same) > 1
     \/ same = {} /\ Cardinality(alias) # 1 /\ Cardinality(Strong(d, row)) > 1

\* What process makes of a row: rejected, held, or ready.  Digits that are no BIN
\* stand for everything _validate refuses.
Verdict(d, row) ==
  IF row.bin = BadBin THEN "rejected"
  ELSE IF row.name # None /\ Ambiguous(d, row) THEN "conflicted" ELSE "resolved"

\* process: every row of the batch, against the tables before any is promoted.
Process ==
  /\ session.kind = "stage"
  /\ db' = [db EXCEPT !.staged = [k \in DOMAIN @ |->
       LET x == db.staged[k] IN
       IF x.status = "received" THEN [x EXCEPT !.status = Verdict(db, x.row)] ELSE x]]
  /\ session' = [session EXCEPT !.kind = "promote"]
  /\ UNCHANGED <<saved, opened>>

Ready == {k \in DOMAIN db.staged : db.staged[k].status = "resolved"}

\* promote, one row: ingested whatever it was resolved to.
PromoteRow ==
  /\ session.kind = "promote" /\ Ready # {}
  /\ NextId(db) + 1 \in Ids
  /\ \E k \in {Min(Ready)} :
       /\ ~Breaks(db, db.staged[k].row)
       /\ \E done \in {Ingested(db, session, db.staged[k].row)} :
            /\ db' = [done.db EXCEPT !.staged[k].status = "promoted"]
            /\ session' = done.session
  /\ UNCHANGED <<saved, opened>>

EndStaging ==
  /\ session.kind = "promote" /\ Ready = {}
  /\ Close /\ saved' = db /\ UNCHANGED <<db, opened>>

\* clear, of staged rows that are done with.
Clear ==
  /\ session.kind = "none" /\ db.staged # <<>>
  /\ db' = [db EXCEPT !.staged = <<>>] /\ saved' = db'
  /\ UNCHANGED <<session, opened>>

\* An error, a cancellation or a crash: what is not committed is gone.
Fail ==
  /\ session.kind # "none"
  /\ Close /\ db' = saved /\ UNCHANGED <<saved, opened>>

Empty ==
  [inst |-> [i \in Ids |-> None], bins |-> <<>>, told |-> {}, links |-> {},
   ranges |-> [k \in Bins \X (Ids \cup {None}) |-> 0], staged |-> <<>>,
   asserted |-> {}, offered |-> {}]

Init == db = Empty /\ saved = Empty /\ session = NoSession /\ opened = 0

Next ==
  \/ \E f \in Files : StartImport(f) \/ StartStaging(f)
  \/ \E dry \in BOOLEAN : StartDedupe(dry)
  \/ ImportRow \/ ThenDedupe \/ EndImport
  \/ \E p \in session.pairs : ComparePair(p)
  \/ EndDedupe \/ Process \/ PromoteRow \/ EndStaging \/ Clear \/ Fail

Spec == Init /\ [][Next]_vars

--------------------------------------------------------------------------------
\* Properties

\* Whatever is merged into what, a BIN keeps every institution and role a row
\* gave it: the survivor of the merges stands in for those that are gone.
LinksFollow ==
  \A t \in db.asserted : \E x \in db.links : x.bin = t[1] /\ x.role = t[2] /\ x.inst = t[3]

\* No source is silently overruled: a value a row gave a BIN is the one shown,
\* or a recorded disagreement names it.
EveryValueTold ==
  \A t \in db.offered :
    \/ db.bins[t[1]].value = t[2]
    \/ \E c \in db.told : c[1] = t[1] /\ t[2] \in {c[2], c[3]}

\* A committed value that a present-tense row gave is never replaced by one that
\* only rows about the past have given, however many rows of a batch come between.
\* (A rollback does take a value back to an older one: that was never committed.)
PastNeverRules ==
  [][\A b \in DOMAIN saved.bins :
       /\ b \in DOMAIN saved'.bins /\ saved'.bins[b].value # saved.bins[b].value
       /\ <<b, saved.bins[b].value, "issuer">> \in saved'.offered
       => <<b, saved'.bins[b].value, "issuer">> \in saved'.offered]_vars

\* Reading a source again changes nothing of what is modelled: a row that was just
\* ingested, ingested again by a later session, leaves every table here as it is.  The
\* archive of source rows, which is left out, grows by one each time
\* (_archive_source_row).
AgainIsNothing ==
  [][(session.kind = "import" /\ session'.kind = "import" /\ session'.at > session.at) =>
       LET row == session.file[session'.at] IN
       ~Breaks(db', row) => Ingested(db', NoSession, row).db = db']_vars
================================================================================
