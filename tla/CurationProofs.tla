----------------------------- MODULE CurationProofs -----------------------------
(***************************************************************************)
(* Proofs about how records come to be, and about how they are answered.   *)
(* About Curation, for any sources, names and likenesses of names, and any *)
(* number of institutions and sessions: the types, LinksFollow,            *)
(* EveryValueTold and PastNeverRules.  About BinList, for any lines,       *)
(* sidecars and datasets, and files of any length: the types,              *)
(* LastWordCounts and NoDigitsMadeUp.  About Lookup, Exports and           *)
(* Assessment, for any package and whatever is wrong with its file: what   *)
(* an answer, a portfolio, a search, a saved file and an assessment say    *)
(* (LookupInv).                                                            *)
(***************************************************************************)
EXTENDS
  Curation, BinList, Assessment, WellFoundedInduction, SequenceTheorems, FiniteSetTheorems, TLAPS

--------------------------------------------------------------------------------
\* The tables

Maps(S, T) == UNION {[D -> T] : D \in SUBSET S}

Link      == [bin : Bins, inst : Ids, role : Roles, current : BOOLEAN]
Record    == [value : Values \cup {None}, conf : 1 .. 100]
Statuses  == {"received", "resolved", "conflicted", "rejected", "promoted"}
StagedRow == [row : Row, status : Statuses]

Tables ==
  [inst : [Ids -> Institution \cup {None}], bins : Maps(Bins, Record),
   told : SUBSET (Bins \X Values \X Values), links : SUBSET Link,
   ranges : [Bins \X (Ids \cup {None}) -> Nat], staged : Seq(StagedRow),
   asserted : SUBSET (Bins \X Roles \X Ids), offered : SUBSET (Bins \X Values \X Roles)]

LinksLive(d)   == \A x \in d.links : x.bin \in DOMAIN d.bins /\ d.inst[x.inst] # None
LinksUnique(d) == \A x, y \in d.links :
                    x.bin = y.bin /\ x.inst = y.inst /\ x.role = y.role => x = y
RangesBound(d) == \A b \in Bins, i \in Ids :
                    d.ranges[<<b, i>>] <= (IF d.inst[i] = None THEN 0 ELSE 1)

\* LinksFollow and EveryValueTold, of the tables d.
Followed(d) == \A t \in d.asserted :
                 \E x \in d.links : x.bin = t[1] /\ x.role = t[2] /\ x.inst = t[3]
Told(d) == \A t \in d.offered :
             /\ t[1] \in DOMAIN d.bins
             /\ \/ d.bins[t[1]].value = t[2]
                \/ \E c \in d.told : c[1] = t[1] /\ t[2] \in {c[2], c[3]}

Sound(d) == /\ d \in Tables /\ LinksLive(d) /\ LinksUnique(d) /\ RangesBound(d)
            /\ Followed(d) /\ Told(d)

\* e says at least what d says, and what d said is only overruled by an issuer's row.
Succeeds(d, e) ==
  /\ d.offered \subseteq e.offered
  /\ \A b \in DOMAIN d.bins :
       /\ b \in DOMAIN e.bins
       /\ \/ d.bins[b].value = None \/ e.bins[b].value = d.bins[b].value
          \/ <<b, e.bins[b].value, "issuer">> \in e.offered

\* Only institutions are added and changed.
Grown(d, e) ==
  /\ e \in Tables
  /\ e.bins = d.bins /\ e.told = d.told /\ e.links = d.links /\ e.ranges = d.ranges
  /\ e.staged = d.staged /\ e.asserted = d.asserted /\ e.offered = d.offered
  /\ \A i \in Ids : d.inst[i] # None => e.inst[i] # None

\* A function into T is one into T of its own domain.
LEMMA MapsForm ==
  ASSUME NEW S, NEW T, NEW f
  PROVE  f \in Maps(S, T) <=> (DOMAIN f \subseteq S /\ f \in [DOMAIN f -> T])
<1>1. ASSUME f \in Maps(S, T)  PROVE DOMAIN f \subseteq S /\ f \in [DOMAIN f -> T]
  BY <1>1 DEF Maps
<1>2. ASSUME DOMAIN f \subseteq S, f \in [DOMAIN f -> T]  PROVE f \in Maps(S, T)
  BY <1>2 DEF Maps
<1> QED BY <1>1, <1>2

\* The empty map.
LEMMA NoEntries ==
  ASSUME NEW S, NEW T
  PROVE  <<>> \in Maps(S, T) /\ DOMAIN <<>> = {}
<1>1. DOMAIN <<>> = {}
  OBVIOUS
<1>2. <<>> = [x \in {} |-> x]
  OBVIOUS
<1>3. <<>> \in [{} -> T]
  BY <1>2
<1> QED BY <1>1, <1>3, MapsForm

\* A map with an entry more, or another.
LEMMA DomainOfPut ==
  ASSUME NEW f, NEW k, NEW x
  PROVE  DOMAIN Put(f, k, x) = DOMAIN f \cup {k}
BY DEF Put

\* A map with an entry more is a map.
LEMMA PutType ==
  ASSUME NEW S, NEW T, NEW f \in Maps(S, T), NEW k \in S, NEW x \in T
  PROVE  Put(f, k, x) \in Maps(S, T)
<1>1. DOMAIN f \subseteq S /\ f \in [DOMAIN f -> T]
  BY MapsForm
<1>2. Put(f, k, x) \in [DOMAIN f \cup {k} -> T]
  BY <1>1 DEF Put
<1>3. DOMAIN Put(f, k, x) = DOMAIN f \cup {k}
  BY DomainOfPut, Zenon
<1>4. DOMAIN Put(f, k, x) \subseteq S
  BY <1>1, <1>3
<1>5. Put(f, k, x) \in [DOMAIN Put(f, k, x) -> T]
  BY <1>2, <1>3
<1> QED BY <1>4, <1>5, MapsForm

--------------------------------------------------------------------------------
\* Identifiers and scores

\* The largest of some identifiers.
LEMMA MaxOfIds ==
  ASSUME NEW S \in SUBSET Ids, S # {}
  PROVE  Max(S) \in S /\ \A y \in S : y <= Max(S)
<1> USE BoundAssumption
<1> DEFINE T == {MaxInst - i : i \in S}
<1>0. \A i \in S : i \in Nat /\ MaxInst - i \in Nat
  BY DEF Ids
<1>1. T \in SUBSET Nat /\ T # {}
  BY <1>0
<1>2. PICK x \in T : \A y \in T : <<y, x>> \notin OpToRel(<, Nat)
  BY <1>1, NatLessThanWellFounded, WFMin, Zenon
<1>3. \A y \in T : ~(y < x)
  BY <1>1, <1>2, Zenon DEF OpToRel
<1>4. PICK i \in S : x = MaxInst - i
  BY <1>2
<1>5. \A j \in S : i >= j
  <2> TAKE j \in S
  <2>1. ~(MaxInst - j < x)
    BY <1>3
  <2>2. i \in Nat /\ j \in Nat
    BY DEF Ids
  <2> QED BY <1>4, <2>1, <2>2
<1>6. Max(S) \in S /\ \A y \in S : Max(S) >= y
  BY <1>5 DEF Max
<1>7. \A y \in S : y \in Int
  BY DEF Ids
<1> QED BY <1>6, <1>7

\* The least of them.
LEMMA MinOfIds ==
  ASSUME NEW S \in SUBSET Ids, S # {}
  PROVE  Min(S) \in S
<1>1. S \in SUBSET Nat
  BY BoundAssumption DEF Ids
<1>2. PICK x \in S : \A y \in S : <<y, x>> \notin OpToRel(<, Nat)
  BY <1>1, NatLessThanWellFounded, WFMin, Zenon
<1>3. \A y \in S : ~(y < x)
  BY <1>1, <1>2, Zenon DEF OpToRel
<1>4. \A y \in S : x <= y
  BY <1>1, <1>3
<1> QED BY <1>4 DEF Min

\* A new identifier is no live one, and the next new one is the one after it.
LEMMA NewIds ==
  ASSUME NEW d \in Tables, NEW e \in Tables, NextId(d) \in Ids,
         Live(e) = Live(d) \cup {NextId(d)}
  PROVE  d.inst[NextId(d)] = None /\ NextId(e) = NextId(d) + 1
<1> DEFINE n == NextId(d)
<1>1. Live(d) \in SUBSET Ids /\ Live(e) \in SUBSET Ids /\ Live(e) # {}
  BY DEF Live
<1>2. \A y \in Live(d) : y < n
  <2>1. CASE Live(d) = {}
    BY <2>1
  <2>2. CASE Live(d) # {}
    <3>1. Max(Live(d)) \in Live(d) /\ \A y \in Live(d) : y <= Max(Live(d))
      BY <1>1, <2>2, MaxOfIds
    <3>2. n = Max(Live(d)) + 1
      BY <2>2 DEF NextId
    <3> QED BY <1>1, <3>1, <3>2 DEF Ids
  <2> QED BY <2>1, <2>2
<1>3. d.inst[n] = None
  <2>1. n \notin Live(d)
    BY <1>1, <1>2 DEF Ids
  <2> QED BY <2>1 DEF Live
<1>4. Max(Live(e)) \in Live(e) /\ \A y \in Live(e) : y <= Max(Live(e))
  BY <1>1, MaxOfIds
<1>5. Max(Live(e)) = n
  <2>0. n \in Live(e) /\ n \in Int /\ (\A y \in Live(d) : y \in Int /\ y <= n)
    BY <1>1, <1>2 DEF Ids
  <2>1. \A y \in Live(e) : y \in Int /\ y <= n
    BY <2>0
  <2>2. n <= Max(Live(e)) /\ Max(Live(e)) <= n /\ Max(Live(e)) \in Int
    BY <1>4, <2>0, <2>1, Zenon
  <2> QED BY <2>0, <2>2
<1>6. NextId(e) = n + 1
  BY <1>1, <1>5 DEF NextId
<1> QED BY <1>3, <1>6

\* A score is a percentage.
LEMMA ScoreRange ==
  ASSUME NEW x, NEW y, x.name \in Names, y.name \in Names,
         NEW shared \in BOOLEAN, NEW alias \in BOOLEAN
  PROVE  Score(x, y, shared, alias) \in 0 .. 100
<1> DEFINE name == IF alias THEN 100 ELSE Similarity(x.name, y.name)
           base == IF Differ(x.country, y.country) THEN (name * 55) \div 100 ELSE name
           c    == base + (IF shared THEN 4 ELSE 0)
           b    == c + (IF Agree(x.site, y.site) THEN 4 ELSE 0)
<1>0. Likeness[x.name][y.name] \in 0 .. 96
  BY NameAssumption
<1>1. name \in 0 .. 100
  <2>1. Similarity(x.name, y.name) \in 0 .. 100
    BY <1>0 DEF Similarity
  <2> QED BY <2>1
<1> HIDE DEF name
<1>2. base \in 0 .. 100
  <2>1. (name * 55) \div 100 \in 0 .. 100
    BY <1>1
  <2> QED BY <1>1, <2>1
<1> HIDE DEF base
<1>3. b \in Nat
  BY <1>2
<1> HIDE DEF b
<1>4. Min({100, b}) \in {100, b} /\ Min({100, b}) <= 100
  <2>1. \E v \in {100, b} : \A w \in {100, b} : v <= w
    BY <1>3
  <2>2. Min({100, b}) \in {100, b} /\ \A w \in {100, b} : Min({100, b}) <= w
    BY <2>1 DEF Min
  <2> QED BY <2>2
<1>5. Score(x, y, shared, alias) = Min({100, b})
  BY DEF Score, name, base, b
<1> QED BY <1>3, <1>4, <1>5

--------------------------------------------------------------------------------
\* Institutions

\* What says who an institution is: a row that names one, or its parent.
Naming(who) ==
  /\ who.name \in Names /\ who.alias \in Names \cup {None} /\ who.legal \in Names \cup {None}
  /\ who.country \in Countries \cup {None} /\ who.site \in Sites \cup {None}

\* What a row says of its issuer, and of the parent of the issuer.
LEMMA RowsName ==
  ASSUME NEW row \in Row
  PROVE  /\ row.name # None => Naming(row)
         /\ row.parent # None => Naming(ParentOf(row))
BY DEF Row, Naming, ParentOf

\* Normalised names and cores are forms of names.
LEMMA FormTypes ==
  /\ \A n \in Names : Norm[n] \in Forms /\ Core[n] \in Forms
  /\ \A S \in SUBSET (Names \cup {None}) : FormsOf(S) \in SUBSET Forms
BY DEF Forms, FormsOf

\* Legal names are kept as forms.
LEMMA LegalAliasesType ==
  ASSUME NEW legal \in Forms \cup {None}, NEW name
  PROVE  LegalAliases(legal, name) \in SUBSET Forms
BY DEF LegalAliases

\* What is created is an institution.
LEMMA CreatedType ==
  ASSUME NEW who, Naming(who)
  PROVE  Created(who) \in Institution
<1> DEFINE legal == IF who.legal = None THEN None ELSE Norm[who.legal]
           aliases == FormsOf({who.alias})
                        \cup (IF Core[who.name] # Norm[who.name] THEN {Core[who.name]} ELSE {})
                        \cup LegalAliases(legal, who.name)
<1>1. legal \in Forms \cup {None}
  BY FormTypes DEF Naming
<1>2. LegalAliases(legal, who.name) \in SUBSET Forms
  BY <1>1, LegalAliasesType, Zenon
<1>3. FormsOf({who.alias}) \in SUBSET Forms
  BY FormTypes DEF Naming
<1>4. aliases \in SUBSET Forms
  BY <1>2, <1>3, FormTypes DEF Naming
<1>5. Created(who) =
        [name |-> who.name, norm |-> Norm[who.name], legal |-> legal,
         country |-> who.country, site |-> who.site, parent |-> None, aliases |-> aliases]
  BY DEF Created
<1> HIDE DEF legal, aliases
<1> QED BY <1>1, <1>4, <1>5, FormTypes DEF Naming, Institution

\* What was empty is filled, what was not stays.
LEMMA FilledType ==
  ASSUME NEW S, NEW old \in S \cup {None}, NEW new \in S \cup {None}
  PROVE  Filled(old, new) \in S \cup {None}
BY DEF Filled

\* An institution that is enriched is one still.
LEMMA EnrichedType ==
  ASSUME NEW x \in Institution, NEW who, Naming(who), NEW w \in BOOLEAN
  PROVE  Enriched(x, who, w) \in Institution
<1> DEFINE fuller == Fuller(who.name, x.name)
           name   == IF fuller THEN who.name ELSE x.name
           heard  == IF who.legal = None THEN None ELSE Norm[who.legal]
           legal  == Filled(x.legal, heard)
           said   == IF who.legal = None THEN legal ELSE Norm[who.legal]
           site   == Filled(x.site, who.site)
           country == Filled(x.country, who.country)
           more   == FormsOf({who.alias})
                       \cup (IF fuller THEN {Norm[x.name]} ELSE {})
                       \cup (IF w THEN LegalAliases(said, name) ELSE {})
<1>0. /\ x.name \in Names /\ x.norm \in Forms /\ x.legal \in Forms \cup {None}
      /\ x.country \in Countries \cup {None} /\ x.site \in Sites \cup {None}
      /\ x.aliases \in SUBSET Forms /\ x.parent \in Ids \cup {None}
  BY DEF Institution
<1>1. name \in Names
  BY <1>0 DEF Naming
<1>2. heard \in Forms \cup {None}
  BY FormTypes DEF Naming
<1> HIDE DEF heard
<1>3. legal \in Forms \cup {None}
  BY <1>0, <1>2, FilledType, Zenon
<1>4. said \in Forms \cup {None}
  BY <1>3, FormTypes DEF Naming
<1>5. site \in Sites \cup {None}
  BY <1>0, FilledType, Zenon DEF Naming
<1>6. country \in Countries \cup {None}
  BY <1>0, FilledType, Zenon DEF Naming
<1>7. more \in SUBSET Forms
  <2>1. LegalAliases(said, name) \in SUBSET Forms
    BY <1>4, LegalAliasesType, Zenon
  <2>2. FormsOf({who.alias}) \in SUBSET Forms
    BY FormTypes DEF Naming
  <2> QED BY <1>0, <2>1, <2>2, FormTypes
<1>8. Enriched(x, who, w) =
        [x EXCEPT !.name = name, !.legal = legal, !.site = site, !.country = country,
                  !.aliases = x.aliases \cup FormsOf({who.alias})
                                \cup (IF fuller THEN {Norm[x.name]} ELSE {})
                                \cup (IF w THEN LegalAliases(said, name) ELSE {})]
  BY DEF Enriched, heard
<1>9. Enriched(x, who, w) =
        [x EXCEPT !.name = name, !.legal = legal, !.site = site, !.country = country,
                  !.aliases = x.aliases \cup more]
  BY <1>8, ZenonT(60)
<1> HIDE DEF name, legal, site, country, more
<1> QED BY <1>0, <1>1, <1>3, <1>5, <1>6, <1>7, <1>9 DEF Institution

--------------------------------------------------------------------------------
\* The institution of a row is found, or created

Seen == Maps(Ids, [country : Countries \cup {None}, aliases : (SUBSET Forms) \cup {None}])
Keys == Forms \X (Countries \cup {None})

Sessions ==
  [kind : {"none", "import", "stage", "promote", "dedupe"}, file : Seq(Row), at : Nat,
   cache : Maps(Keys, Ids), seen : Seen, pairs : SUBSET (Ids \X Ids), dry : BOOLEAN]

\* What a session that reads rows remembers is there.
CacheLive(d, s) == \A k \in DOMAIN s.cache : d.inst[s.cache[k]] # None

SameTask(s, t) ==
  t.kind = s.kind /\ t.file = s.file /\ t.at = s.at /\ t.pairs = s.pairs /\ t.dry = s.dry

\* What a session sees of an institution bears the name it has in the tables.
LEMMA ShownType ==
  ASSUME NEW d \in Tables, NEW s \in Sessions, NEW i \in Ids, d.inst[i] # None
  PROVE  Shown(d, s, i).name = d.inst[i].name /\ d.inst[i] \in Institution
<1>1. d.inst[i] \in Institution
  BY DEF Tables
<1> QED BY <1>1 DEF Shown, Institution

\* What it sees of its aliases are forms.
LEMMA AliasesShownType ==
  ASSUME NEW d \in Tables, NEW s \in Sessions, NEW i \in Ids, d.inst[i] # None
  PROVE  AliasesShown(d, s, i) \in SUBSET Forms
<1>1. d.inst[i] \in Institution
  BY DEF Tables
<1>2. s.seen \in Seen
  BY DEF Sessions
<1>3. s.seen \in [DOMAIN s.seen -> [country : Countries \cup {None},
                                     aliases : (SUBSET Forms) \cup {None}]]
  BY <1>2, MapsForm, Zenon DEF Seen
<1>4. ASSUME i \in DOMAIN s.seen  PROVE s.seen[i].aliases \in (SUBSET Forms) \cup {None}
  <2>1. s.seen[i] \in [country : Countries \cup {None}, aliases : (SUBSET Forms) \cup {None}]
    BY <1>3, <1>4, Zenon
  <2> QED BY <2>1
<1>5. d.inst[i].aliases \in SUBSET Forms
  BY <1>1 DEF Institution
<1>6. CASE i \in DOMAIN s.seen /\ s.seen[i].aliases # None
  <2>1. AliasesShown(d, s, i) = s.seen[i].aliases
    BY <1>6 DEF AliasesShown
  <2>2. s.seen[i].aliases \in SUBSET Forms
    BY <1>4, <1>6
  <2> QED BY <2>1, <2>2
<1>7. CASE ~(i \in DOMAIN s.seen /\ s.seen[i].aliases # None)
  <2>1. AliasesShown(d, s, i) = d.inst[i].aliases
    BY <1>7 DEF AliasesShown
  <2> QED BY <1>5, <2>1
<1> QED BY <1>6, <1>7

\* A session that looks at live institutions has the same task and the same cache.
LEMMA SeeingType ==
  ASSUME NEW d \in Tables, NEW s \in Sessions, NEW ids \in SUBSET Live(d)
  PROVE  /\ Seeing(d, s, ids) \in Sessions
         /\ SameTask(s, Seeing(d, s, ids))
         /\ Seeing(d, s, ids).cache = s.cache
<1> DEFINE T == [country : Countries \cup {None}, aliases : (SUBSET Forms) \cup {None}]
           one(i) == [country |-> CountryShown(d, s, i),
                      aliases |-> IF i \in ids THEN AliasesShown(d, s, i) ELSE s.seen[i].aliases]
           seen == [i \in DOMAIN s.seen \cup ids |-> one(i)]
<1>0. s.seen \in Seen /\ ids \subseteq Ids
  BY DEF Sessions, Live
<1>1. DOMAIN s.seen \subseteq Ids /\ s.seen \in [DOMAIN s.seen -> T]
  BY <1>0, MapsForm, Zenon DEF Seen
<1>2. ASSUME NEW i \in DOMAIN s.seen \cup ids  PROVE one(i) \in T
  <2>1. i \in DOMAIN s.seen =>
          s.seen[i].country \in Countries \cup {None} /\ s.seen[i].aliases \in (SUBSET Forms) \cup {None}
    <3> SUFFICES ASSUME i \in DOMAIN s.seen
                 PROVE  /\ s.seen[i].country \in Countries \cup {None}
                        /\ s.seen[i].aliases \in (SUBSET Forms) \cup {None}
      OBVIOUS
    <3>1. s.seen[i] \in T
      BY <1>1, Zenon
    <3> QED BY <3>1
  <2>2. CountryShown(d, s, i) \in Countries \cup {None}
    <3>1. i \notin DOMAIN s.seen => d.inst[i] \in Institution
      BY <1>0, <1>2 DEF Tables, Live
    <3>2. i \notin DOMAIN s.seen => d.inst[i].country \in Countries \cup {None}
      BY <3>1 DEF Institution
    <3> QED BY <2>1, <3>2 DEF CountryShown
  <2>3. i \in ids => AliasesShown(d, s, i) \in SUBSET Forms
    BY <1>0, AliasesShownType DEF Live
  <2>4. (IF i \in ids THEN AliasesShown(d, s, i) ELSE s.seen[i].aliases) \in (SUBSET Forms) \cup {None}
    BY <1>2, <2>1, <2>3
  <2> QED BY <2>2, <2>4
<1>3. DOMAIN seen = DOMAIN s.seen \cup ids
  OBVIOUS
<1>4. Seeing(d, s, ids) = [s EXCEPT !.seen = seen]
  BY DEF Seeing
<1>5. seen \in [DOMAIN s.seen \cup ids -> T]
  <2> HIDE DEF one, T
  <2> QED BY <1>2
<1> HIDE DEF seen
<1>6. seen \in Seen
  BY <1>0, <1>1, <1>3, <1>5, MapsForm, Zenon DEF Seen
<1> QED BY <1>4, <1>6 DEF Sessions, SameTask

\* The institution that is picked is one of those that are there.
LEMMA PickedIsLive ==
  ASSUME NEW d \in Tables, NEW s \in Sessions, NEW who, Naming(who)
  PROVE  Picked(d, s, who) = None \/ Picked(d, s, who) \in Live(d)
<1> DEFINE fit == {i \in Candidates(d, who) : Accepts(d, s, i, who)}
           mark(i) == Score(who, Shown(d, s, i), FALSE, FALSE)
           top == {i \in fit : \A j \in fit : mark(j) <= mark(i)}
<1>1. fit \subseteq Live(d) /\ Live(d) \subseteq Ids
  BY DEF Candidates, Live
<1>2. \A i \in fit : mark(i) \in 0 .. 100
  <2> TAKE i \in fit
  <2>1. i \in Ids /\ d.inst[i] # None
    BY <1>1 DEF Live
  <2>2. Shown(d, s, i).name \in Names
    BY <2>1, ShownType DEF Institution
  <2> QED BY <2>2, ScoreRange DEF Naming
<1>3. CASE fit = {}
  BY <1>3 DEF Picked
<1>4. CASE fit # {}
  <2> DEFINE T == {100 - mark(i) : i \in fit}
  <2> HIDE DEF fit, mark
  <2>1. T \in SUBSET Nat /\ T # {}
    BY <1>2, <1>4
  <2>2. PICK x \in T : \A y \in T : <<y, x>> \notin OpToRel(<, Nat)
    BY <2>1, NatLessThanWellFounded, WFMin, Zenon
  <2>3. \A y \in T : ~(y < x)
    BY <2>1, <2>2, Zenon DEF OpToRel
  <2>4. PICK i \in fit : x = 100 - mark(i)
    BY <2>2
  <2>5. \A j \in fit : mark(j) <= mark(i)
    <3> TAKE j \in fit
    <3>1. ~(100 - mark(j) < x)
      BY <2>3
    <3>2. mark(i) \in 0 .. 100 /\ mark(j) \in 0 .. 100
      BY <1>2
    <3> QED BY <2>4, <3>1, <3>2
  <2>6. i \in top
    BY <2>5
  <2>7. top # {} /\ top \subseteq fit
    BY <2>6
  <2> DEFINE S == top
  <2>8. S \in SUBSET Ids /\ S # {}
    BY <1>1, <2>7
  <2> HIDE DEF S
  <2>9. Min(S) \in S
    BY <2>8, MinOfIds
  <2>10. Picked(d, s, who) = Min(S)
    BY <1>4 DEF Picked, fit, mark, S
  <2> QED BY <1>1, <2>7, <2>9, <2>10 DEF S
<1> QED BY <1>3, <1>4

\* One institution is written.
LEMMA OneWritten ==
  ASSUME NEW d \in Tables, NEW id \in Ids, NEW x \in Institution,
         NEW e, e = [d EXCEPT !.inst[id] = x]
  PROVE  /\ Grown(d, e)
         /\ e.inst[id] # None
         /\ Live(e) = Live(d) \cup {id}
<1>1. e = [d EXCEPT !.inst = [d.inst EXCEPT ![id] = x]]
  OBVIOUS
<1>2. /\ e.bins = d.bins /\ e.told = d.told /\ e.links = d.links /\ e.ranges = d.ranges
      /\ e.staged = d.staged /\ e.asserted = d.asserted /\ e.offered = d.offered
      /\ e.inst = [d.inst EXCEPT ![id] = x]
  BY <1>1 DEF Tables
<1>3. d.inst \in [Ids -> Institution \cup {None}]
  BY DEF Tables
<1>4. e.inst \in [Ids -> Institution \cup {None}]
  BY <1>2, <1>3
<1>5. e \in Tables
  BY <1>1, <1>2, <1>4 DEF Tables
<1>6. e.inst[id] = x /\ \A i \in Ids : i # id => e.inst[i] = d.inst[i]
  BY <1>2, <1>3
<1>7. x # None
  BY NoneAssumption
<1>8. Live(e) = Live(d) \cup {id}
  BY <1>6, <1>7 DEF Live
<1> QED BY <1>2, <1>5, <1>6, <1>7, <1>8 DEF Grown

\* What has grown twice has grown.
LEMMA GrownAgain ==
  ASSUME NEW d, NEW e, NEW f, Grown(d, e), Grown(e, f)
  PROVE  Grown(d, f)
BY DEF Grown

\* What ensure_institution leaves: r, given the tables d and the session s.
Ensuring(d, s, r) ==
  /\ Grown(d, r.db)
  /\ NextId(r.db) \in {NextId(d), NextId(d) + 1}
  /\ r.session \in Sessions /\ SameTask(s, r.session) /\ CacheLive(r.db, r.session)

\* It leaves an institution that is there.
LEMMA EnsuredIsLive ==
  ASSUME NEW d \in Tables, NEW s \in Sessions, NEW who, Naming(who), CacheLive(d, s),
         NextId(d) \in Ids, NEW r, r = Ensured(d, s, who)
  PROVE  Ensuring(d, s, r) /\ r.id \in Ids /\ r.db.inst[r.id] # None
<1> DEFINE key == CacheKey(who)
<1>0. key \in Keys
  BY FormTypes DEF CacheKey, Keys, Naming
<1>1. DOMAIN s.cache \subseteq Keys /\ s.cache \in [DOMAIN s.cache -> Ids] /\ s.cache \in Maps(Keys, Ids)
  BY MapsForm DEF Sessions
<1>2. CASE key \in DOMAIN s.cache
  <2> DEFINE i == s.cache[key]
             x == Enriched(d.inst[i], who, TRUE)
             e == [d EXCEPT !.inst[i] = x]
  <2>1. r = Cached(d, s, who, i)
    BY <1>2 DEF Ensured
  <2>2. r.db = e /\ r.session = s /\ r.id = i
    BY <2>1 DEF Cached
  <2>3. i \in Ids /\ d.inst[i] # None
    BY <1>1, <1>2 DEF CacheLive
  <2> HIDE DEF i, key
  <2>4. d.inst[i] \in Institution
    BY <2>3 DEF Tables
  <2>5. x \in Institution
    BY <2>4, EnrichedType
  <2> HIDE DEF x
  <2>6. Grown(d, e) /\ e.inst[i] # None /\ Live(e) = Live(d) \cup {i}
    BY <2>3, <2>5, OneWritten
  <2>7. Live(e) = Live(d)
    BY <2>3, <2>6 DEF Live
  <2>8. NextId(e) = NextId(d)
    BY <2>7 DEF NextId
  <2>9. CacheLive(e, s)
    BY <1>1, <2>6 DEF CacheLive, Grown
  <2> HIDE DEF e
  <2> QED BY <2>2, <2>3, <2>6, <2>8, <2>9 DEF Ensuring, SameTask
<1>3. CASE key \notin DOMAIN s.cache
  <2> DEFINE i  == Picked(d, s, who)
             id == IF i = None THEN NextId(d) ELSE i
             x  == IF i = None THEN Created(who) ELSE Enriched(d.inst[id], who, FALSE)
             e  == [d EXCEPT !.inst[id] = x]
             t  == Seeing(d, s, Candidates(d, who))
  <2>1. r = Found(d, s, who, i, id)
    BY <1>3 DEF Ensured, PickedOrNew
  <2>2. r.db = e /\ r.session = [t EXCEPT !.cache = Put(t.cache, key, id)] /\ r.id = id
    BY <2>1 DEF Found
  <2>3. i = None \/ i \in Live(d)
    BY PickedIsLive
  <2>4. t \in Sessions /\ SameTask(s, t) /\ t.cache = s.cache
    <3>1. Candidates(d, who) \in SUBSET Live(d)
      BY DEF Candidates
    <3> QED BY <3>1, SeeingType
  <2> HIDE DEF i, t
  <2>5. id \in Ids
    BY <2>3 DEF Live
  <2>6. x \in Institution
    <3>1. i # None => d.inst[id] \in Institution
      BY <2>3, <2>5 DEF Live, Tables
    <3> QED BY <3>1, CreatedType, EnrichedType
  <2>7. NextId(e) \in {NextId(d), NextId(d) + 1}
    <3>1. Grown(d, e) /\ Live(e) = Live(d) \cup {id}
      <4> HIDE DEF id, x
      <4> QED BY <2>5, <2>6, OneWritten
    <3>2. CASE i = None
      <4>1. e \in Tables /\ Live(e) = Live(d) \cup {NextId(d)}
        BY <3>1, <3>2 DEF Grown
      <4> HIDE DEF e
      <4> QED BY <4>1, NewIds
    <3>3. CASE i # None
      <4>1. Live(e) = Live(d)
        BY <2>3, <3>1, <3>3
      <4> HIDE DEF e
      <4> QED BY <4>1 DEF NextId
    <3> QED BY <3>2, <3>3
  <2> HIDE DEF id, x, key
  <2>8. Grown(d, e) /\ e.inst[id] # None
    BY <2>5, <2>6, OneWritten
  <2> DEFINE c == Put(t.cache, key, id)
  <2>9. /\ c \in Maps(Keys, Ids) /\ DOMAIN c = DOMAIN s.cache \cup {key} /\ c[key] = id
        /\ \A k \in DOMAIN s.cache : k # key => c[k] = s.cache[k]
    <3>1. c = Put(s.cache, key, id)
      BY <2>4
    <3>2. s.cache \in Maps(Keys, Ids) /\ key \in Keys /\ id \in Ids
      BY <1>0, <1>1, <2>5 DEF key
    <3> HIDE DEF c
    <3>3. c \in Maps(Keys, Ids)
      BY <3>1, <3>2, PutType, Zenon
    <3> QED BY <3>1, <3>3 DEF Put
  <2> HIDE DEF c, e
  <2>10. r.session \in Sessions /\ SameTask(s, r.session) /\ r.session.cache = c
    BY <2>2, <2>4, <2>9 DEF Sessions, SameTask, c
  <2>11. CacheLive(e, r.session)
    <3> SUFFICES ASSUME NEW k \in DOMAIN c  PROVE e.inst[c[k]] # None
      BY <2>10 DEF CacheLive
    <3>1. CASE k = key
      BY <2>8, <2>9, <3>1
    <3>2. CASE k # key
      <4>1. k \in DOMAIN s.cache /\ c[k] = s.cache[k]
        BY <2>9, <3>2
      <4>2. s.cache[k] \in Ids /\ d.inst[s.cache[k]] # None
        BY <1>1, <4>1 DEF CacheLive
      <4> QED BY <2>8, <4>1, <4>2 DEF Grown
    <3> QED BY <3>1, <3>2
  <2> QED BY <2>2, <2>5, <2>7, <2>8, <2>10, <2>11 DEF Ensuring
<1> QED BY <1>2, <1>3

\* There may be none ...
Placed(d, id) == id \in Ids \cup {None} /\ (id # None => d.inst[id] # None)

\* ... of a row that names none, and the issuer is still there once the parent is.
LEMMA InstitutionsOfRow ==
  ASSUME NEW d \in Tables, NEW s \in Sessions, NEW row \in Row, CacheLive(d, s),
         NextId(d) + 1 \in Ids, NextId(d) \in Ids,
         NEW own, own = Issuer(d, s, row), NEW up, up = Parent(own, row)
  PROVE  /\ Ensuring(d, s, own) /\ Placed(own.db, own.id)
         /\ Grown(d, up.db) /\ Placed(up.db, own.id) /\ Placed(up.db, up.id)
         /\ up.session \in Sessions /\ SameTask(s, up.session) /\ CacheLive(up.db, up.session)
<1>0. Grown(d, d)
  BY DEF Grown
<1>1. Ensuring(d, s, own) /\ Placed(own.db, own.id)
  <2>1. CASE row.name = None
    <3>1. own.db = d /\ own.session = s /\ own.id = None
      BY <2>1 DEF Issuer
    <3> QED BY <1>0, <3>1 DEF Ensuring, Placed, SameTask
  <2>2. CASE row.name # None
    <3>1. own = Ensured(d, s, row) /\ Naming(row)
      BY <2>2, RowsName DEF Issuer
    <3>2. Ensuring(d, s, own) /\ own.id \in Ids /\ own.db.inst[own.id] # None
      BY <3>1, EnsuredIsLive
    <3> QED BY <3>2 DEF Placed
  <2> QED BY <2>1, <2>2
<1>2. own.db \in Tables /\ NextId(own.db) \in Ids /\ own.session \in Sessions
      /\ CacheLive(own.db, own.session) /\ Grown(d, own.db) /\ SameTask(s, own.session)
  BY <1>1 DEF Ensuring, Grown
<1>3. CASE row.parent = None
  <2>1. up = [own EXCEPT !.id = None]
    BY <1>3 DEF Parent
  <2>2. up.db = own.db /\ up.session = own.session /\ up.id = None
    <3>1. own = [db |-> own.db, session |-> own.session, id |-> own.id]
      BY DEF Issuer, Ensured, Cached, PickedOrNew, Found
    <3> QED BY <2>1, <3>1
  <2> QED BY <1>1, <1>2, <2>2 DEF Placed
<1>4. CASE row.parent # None
  <2>1. up = Ensured(own.db, own.session, ParentOf(row)) /\ Naming(ParentOf(row))
    BY <1>4, RowsName DEF Parent
  <2>2. Ensuring(own.db, own.session, up) /\ up.id \in Ids /\ up.db.inst[up.id] # None
    BY <1>2, <2>1, EnsuredIsLive
  <2>3. Grown(own.db, up.db) /\ Grown(d, up.db)
    BY <1>2, <2>2, GrownAgain DEF Ensuring
  <2>4. Placed(up.db, own.id) /\ Placed(up.db, up.id)
    BY <1>1, <2>2, <2>3 DEF Placed, Grown
  <2> QED BY <1>1, <1>2, <2>2, <2>3, <2>4 DEF Ensuring, SameTask
<1> QED BY <1>3, <1>4

--------------------------------------------------------------------------------
\* What a row writes

\* The tables but for the institutions' data, and which of them there are.
SameInst(d, e) == \A i \in Ids : (e.inst[i] = None) <=> (d.inst[i] = None)

\* To adopt an institution takes nothing from the tables.
LEMMA AdoptedKeeps ==
  ASSUME NEW d \in Tables, NEW own, NEW up, Placed(d, own), Placed(d, up),
         NEW e, e = Adopted(d, own, up)
  PROVE  Grown(d, e) /\ SameInst(d, e)
<1>0. Grown(d, d) /\ SameInst(d, d)
  BY DEF Grown, SameInst
<1>1. CASE up = None \/ own = None \/ up = own
  BY <1>0, <1>1 DEF Adopted
<1>2. CASE ~(up = None \/ own = None \/ up = own)
  <2> DEFINE x == [d.inst[own] EXCEPT !.parent = up]
  <2>1. e = [d EXCEPT !.inst[own] = x]
    BY <1>2 DEF Adopted
  <2>2. own \in Ids /\ up \in Ids /\ d.inst[own] # None
    BY <1>2 DEF Placed
  <2>3. d.inst[own] \in Institution
    BY <2>2 DEF Tables
  <2>4. x \in Institution
    BY <2>2, <2>3 DEF Institution
  <2> HIDE DEF x
  <2>5. Grown(d, e) /\ Live(e) = Live(d) \cup {own}
    BY <2>1, <2>2, <2>4, OneWritten
  <2>6. SameInst(d, e)
    BY <2>2, <2>5 DEF SameInst, Live
  <2> QED BY <2>5, <2>6
<1> QED BY <1>1, <1>2

\* What a row does to the record of its BIN.
Settles(d, e, row) ==
  LET b == row.bin IN
  /\ DOMAIN e.bins = DOMAIN d.bins \cup {b}
  /\ d.told \subseteq e.told
  /\ \A c \in DOMAIN d.bins : c # b => e.bins[c] = d.bins[c]
  /\ row.value # None =>
       \/ e.bins[b].value = row.value
       \/ \E c \in e.told : c[1] = b /\ c[3] = row.value
  /\ b \in DOMAIN d.bins /\ d.bins[b].value # None /\ e.bins[b].value # d.bins[b].value =>
       /\ row.role = "issuer" /\ row.value # None /\ e.bins[b].value = row.value
       /\ \E c \in e.told : c[1] = b /\ c[2] = d.bins[b].value

\* A BIN that is written settles the word of its row: it is shown, or told of.
LEMMA BinMergedSettles ==
  ASSUME NEW d \in Tables, NEW row \in Row, row.bin \in Bins,
         NEW e, e = BinMerged(d, row)
  PROVE  /\ e \in Tables /\ Settles(d, e, row)
         /\ e.inst = d.inst /\ e.links = d.links /\ e.ranges = d.ranges
         /\ e.staged = d.staged /\ e.asserted = d.asserted /\ e.offered = d.offered
<1> DEFINE b    == row.bin
           said == [value |-> row.value, conf |-> row.conf]
<1>0. d.bins \in Maps(Bins, Record) /\ d.told \in SUBSET (Bins \X Values \X Values)
  BY DEF Tables
<1>1. DOMAIN d.bins \subseteq Bins /\ d.bins \in [DOMAIN d.bins -> Record]
  BY <1>0, MapsForm
<1>2. said \in Record /\ row.value \in Values \cup {None}
  BY DEF Record, Row
<1>3. CASE b \notin DOMAIN d.bins
  <2> DEFINE bs == Put(d.bins, b, said)
  <2>1. e = [d EXCEPT !.bins = bs]
    BY <1>3 DEF BinMerged
  <2>2. e = [d EXCEPT !.told = d.told, !.bins = bs]
    BY <2>1 DEF Tables
  <2>3. /\ bs \in Maps(Bins, Record) /\ DOMAIN bs = DOMAIN d.bins \cup {b}
        /\ bs[b] = said /\ \A y \in DOMAIN d.bins : y # b => bs[y] = d.bins[y]
    <3> HIDE DEF said
    <3>1. bs \in Maps(Bins, Record)
      BY <1>0, <1>2, PutType, Zenon
    <3> QED BY <3>1 DEF Put
  <2> HIDE DEF bs
  <2>4. /\ e \in Tables /\ e.bins = bs /\ e.told = d.told
        /\ e.inst = d.inst /\ e.links = d.links /\ e.ranges = d.ranges
        /\ e.staged = d.staged /\ e.asserted = d.asserted /\ e.offered = d.offered
    BY <1>0, <2>2, <2>3 DEF Tables
  <2>5. Settles(d, e, row)
    BY <1>3, <2>3, <2>4 DEF Settles
  <2> QED BY <2>4, <2>5
<1>4. CASE b \in DOMAIN d.bins /\ (row.value = None \/ d.bins[b].value = row.value)
  <2>1. e = d
    BY <1>4 DEF BinMerged
  <2>2. Settles(d, e, row)
    BY <1>4, <2>1 DEF Settles
  <2> QED BY <2>1, <2>2
<1>5. CASE b \in DOMAIN d.bins /\ row.value # None /\ d.bins[b].value = None
  <2> DEFINE filled == [d.bins[b] EXCEPT !.value = row.value]
             bs   == [d.bins EXCEPT ![b] = filled]
  <2>1. e = [d EXCEPT !.bins[b].value = row.value]
    BY <1>5 DEF BinMerged
  <2>2. e = [d EXCEPT !.told = d.told, !.bins = bs]
    BY <2>1 DEF Tables
  <2>3. d.bins[b] \in Record
    BY <1>1, <1>5
  <2>4. filled \in Record /\ filled.value = row.value
    BY <1>2, <2>3 DEF Record
  <2> HIDE DEF filled
  <2>5. /\ DOMAIN bs = DOMAIN d.bins /\ bs \in [DOMAIN d.bins -> Record]
        /\ bs[b] = filled /\ \A y \in DOMAIN d.bins : y # b => bs[y] = d.bins[y]
    BY <1>1, <1>5, <2>4
  <2> HIDE DEF bs
  <2>6. bs \in Maps(Bins, Record)
    BY <1>1, <2>5, MapsForm
  <2>7. /\ e \in Tables /\ e.bins = bs /\ e.told = d.told
        /\ e.inst = d.inst /\ e.links = d.links /\ e.ranges = d.ranges
        /\ e.staged = d.staged /\ e.asserted = d.asserted /\ e.offered = d.offered
    BY <1>0, <2>2, <2>6 DEF Tables
  <2>8. Settles(d, e, row)
    BY <1>5, <2>4, <2>5, <2>7 DEF Settles
  <2> QED BY <2>7, <2>8
<1>6. CASE /\ b \in DOMAIN d.bins /\ row.value # None
           /\ d.bins[b].value # None /\ d.bins[b].value # row.value
  <2> DEFINE now  == IF Superseding(d, row) THEN said ELSE d.bins[b]
             bs == [d.bins EXCEPT ![b] = now]
             told == d.told \cup {<<b, d.bins[b].value, row.value>>}
  <2>1. e = [d EXCEPT !.told = told, !.bins[b] = now]
    BY <1>6 DEF BinMerged
  <2>2. e = [d EXCEPT !.told = told, !.bins = bs]
    BY <2>1 DEF Tables
  <2>3. d.bins[b] \in Record
    BY <1>1, <1>6
  <2>4. now \in Record /\ now.value \in {row.value, d.bins[b].value}
        /\ (now.value # d.bins[b].value => row.role = "issuer")
    BY <1>2, <2>3 DEF Superseding
  <2> HIDE DEF now
  <2>5. /\ DOMAIN bs = DOMAIN d.bins /\ bs \in [DOMAIN d.bins -> Record]
        /\ bs[b] = now /\ \A y \in DOMAIN d.bins : y # b => bs[y] = d.bins[y]
    BY <1>1, <1>6, <2>4
  <2>6. told \in SUBSET (Bins \X Values \X Values)
    <3>1. d.bins[b].value \in Values /\ row.value \in Values
      BY <1>2, <1>6, <2>3 DEF Record
    <3> QED BY <1>0, <3>1
  <2> DEFINE c == <<b, d.bins[b].value, row.value>>
  <2>7. c \in told /\ d.told \subseteq told /\ c[1] = b /\ c[2] = d.bins[b].value /\ c[3] = row.value
    OBVIOUS
  <2> HIDE DEF bs, told, c
  <2>8. bs \in Maps(Bins, Record)
    BY <1>1, <2>5, MapsForm
  <2>9. /\ e \in Tables /\ e.bins = bs /\ e.told = told
        /\ e.inst = d.inst /\ e.links = d.links /\ e.ranges = d.ranges
        /\ e.staged = d.staged /\ e.asserted = d.asserted /\ e.offered = d.offered
    BY <2>2, <2>6, <2>8 DEF Tables
  <2>10. Settles(d, e, row)
    BY <1>6, <2>4, <2>5, <2>7, <2>9 DEF Settles
  <2> QED BY <2>9, <2>10
<1> QED BY <1>3, <1>4, <1>5, <1>6

\* What a link that a row asks for changes.
LinkAsked(d, e, b, i, role) ==
  /\ e \in Tables /\ e.inst = d.inst /\ e.bins = d.bins /\ e.told = d.told
  /\ e.ranges = d.ranges
  /\ e.staged = d.staged /\ e.asserted = d.asserted /\ e.offered = d.offered
  /\ d.links \subseteq e.links
  /\ i # None => \E x \in e.links : x.bin = b /\ x.role = role /\ x.inst = i
  /\ \A x \in e.links : x \in d.links \/ (x.bin = b /\ x.inst = i /\ i # None)
  /\ LinksUnique(d) => LinksUnique(e)

\* The link of a row is there, once.
LEMMA LinkedOnce ==
  ASSUME NEW d \in Tables, NEW b \in Bins, NEW i \in Ids \cup {None}, NEW role \in Roles,
         NEW current \in BOOLEAN, NEW e, e = Linked(d, b, i, role, current)
  PROVE  LinkAsked(d, e, b, i, role)
<1> USE DEF LinkAsked
<1>1. CASE i = None \/ \E x \in d.links : x.bin = b /\ x.inst = i /\ x.role = role
  <2>1. e = d
    BY <1>1 DEF Linked
  <2> QED BY <1>1, <2>1
<1>2. CASE ~(i = None \/ \E x \in d.links : x.bin = b /\ x.inst = i /\ x.role = role)
  <2> DEFINE l == [bin |-> b, inst |-> i, role |-> role, current |-> current]
  <2>1. e = [d EXCEPT !.links = d.links \cup {l}]
    BY <1>2 DEF Linked
  <2>2. l \in Link /\ l.bin = b /\ l.inst = i /\ l.role = role
    BY <1>2 DEF Link
  <2> HIDE DEF l
  <2> DEFINE links == d.links \cup {l}
  <2>a. links \in SUBSET Link /\ e = [d EXCEPT !.links = links]
    BY <2>1, <2>2 DEF Tables
  <2> HIDE DEF links
  <2>b. /\ e \in Tables /\ e.inst = d.inst /\ e.bins = d.bins /\ e.told = d.told
        /\ e.ranges = d.ranges
        /\ e.staged = d.staged /\ e.asserted = d.asserted /\ e.offered = d.offered
        /\ e.links = links
    BY <2>a DEF Tables
  <2>3. /\ e \in Tables /\ e.inst = d.inst /\ e.bins = d.bins /\ e.told = d.told
        /\ e.ranges = d.ranges
        /\ e.staged = d.staged /\ e.asserted = d.asserted /\ e.offered = d.offered
        /\ e.links = d.links \cup {l}
    BY <2>b DEF links
  <2>4. LinksUnique(d) => LinksUnique(e)
    <3> SUFFICES ASSUME LinksUnique(d), NEW x \in e.links, NEW y \in e.links,
                        x.bin = y.bin, x.inst = y.inst, x.role = y.role
                 PROVE  x = y
      BY DEF LinksUnique
    <3>1. CASE x \in d.links /\ y \in d.links
      BY <3>1 DEF LinksUnique
    <3>2. CASE x = l
      BY <1>2, <2>2, <2>3, <3>2
    <3>3. CASE y = l
      BY <1>2, <2>2, <2>3, <3>3
    <3> QED BY <2>3, <3>1, <3>2, <3>3
  <2> QED BY <1>2, <2>2, <2>3, <2>4
<1> QED BY <1>1, <1>2

\* To write a range leaves all but the ranges.
LEMMA RangedKeeps ==
  ASSUME NEW d \in Tables, NEW row \in Row, row.bin \in Bins, NEW i, Placed(d, i),
         RangesBound(d), NEW e, e = Ranged(d, row, i)
  PROVE  /\ e \in Tables /\ e.inst = d.inst /\ e.bins = d.bins /\ e.told = d.told
         /\ e.links = d.links
         /\ e.staged = d.staged /\ e.asserted = d.asserted /\ e.offered = d.offered
         /\ RangesBound(e)
<1>1. CASE ~(row.high /\ d.ranges[<<row.bin, i>>] = 0)
  BY <1>1 DEF Ranged
<1>2. CASE row.high /\ d.ranges[<<row.bin, i>>] = 0
  <2> DEFINE k == <<row.bin, i>>
             rs == [d.ranges EXCEPT ![k] = 1]
  <2>1. e = [d EXCEPT !.ranges = rs]
    BY <1>2 DEF Ranged
  <2>2. d.ranges \in [Bins \X (Ids \cup {None}) -> Nat] /\ k \in Bins \X (Ids \cup {None})
    BY DEF Tables, Placed
  <2>3. rs \in [Bins \X (Ids \cup {None}) -> Nat]
        /\ rs[k] = 1 /\ \A m \in Bins \X (Ids \cup {None}) : m # k => rs[m] = d.ranges[m]
    BY <2>2
  <2> HIDE DEF rs
  <2>4. /\ e \in Tables /\ e.inst = d.inst /\ e.bins = d.bins /\ e.told = d.told
        /\ e.links = d.links /\ e.ranges = rs
        /\ e.staged = d.staged /\ e.asserted = d.asserted /\ e.offered = d.offered
    BY <2>1, <2>3 DEF Tables
  <2>5. ASSUME NEW b \in Bins, NEW j \in Ids
        PROVE  e.ranges[<<b, j>>] <= (IF e.inst[j] = None THEN 0 ELSE 1)
    <3>1. CASE b = row.bin /\ j = i
      <4>1. i # None /\ e.inst[j] # None
        BY <2>4, <3>1, NoneAssumption DEF Placed
      <4> QED BY <2>3, <2>4, <3>1, <4>1
    <3>2. CASE ~(b = row.bin /\ j = i)
      <4>1. rs[<<b, j>>] = d.ranges[<<b, j>>]
        BY <2>3, <3>2
      <4> QED BY <2>4, <4>1 DEF RangesBound
    <3> QED BY <3>1, <3>2
  <2> QED BY <2>4, <2>5 DEF RangesBound
<1> QED BY <1>1, <1>2

\* What a row that is written leaves: the tables sound, and e after d.
LEMMA WrittenIsSound ==
  ASSUME NEW d, Sound(d), NEW row \in Row, row.bin \in Bins, NEW own, NEW up,
         Placed(d, own), Placed(d, up), NEW e, e = Written(d, row, own, up)
  PROVE  Sound(e) /\ Succeeds(d, e) /\ e.staged = d.staged /\ SameInst(d, e)
<1> DEFINE b  == row.bin
           d1 == Adopted(d, own, up)
           d2 == BinMerged(d1, row)
           d3 == Linked(d2, b, own, row.role, row.role = "issuer")
           above == IF up = own THEN None ELSE up
           d4 == Linked(d3, b, above, "parent", TRUE)
           d5 == Ranged(d4, row, own)
<1>0. e = Remembered(d5, row, own)
  BY DEF Written
<1>a. d \in Tables /\ LinksLive(d) /\ LinksUnique(d) /\ RangesBound(d) /\ Followed(d) /\ Told(d)
  BY DEF Sound
<1>b. row.role \in Roles /\ (row.role = "issuer") \in BOOLEAN /\ row.value \in Values \cup {None}
  BY DEF Row, Roles
<1>c. own \in Ids \cup {None} /\ above \in Ids \cup {None} /\ up \in Ids \cup {None}
  BY DEF Placed
<1>1. Grown(d, d1) /\ SameInst(d, d1) /\ d1 \in Tables
  <2> HIDE DEF d1
  <2>1. Grown(d, d1) /\ SameInst(d, d1)
    BY <1>a, AdoptedKeeps DEF d1
  <2> QED BY <2>1 DEF Grown
<1> HIDE DEF d1
<1>2. /\ d2 \in Tables /\ Settles(d1, d2, row)
      /\ d2.inst = d1.inst /\ d2.links = d1.links /\ d2.ranges = d1.ranges
      /\ d2.staged = d1.staged /\ d2.asserted = d1.asserted /\ d2.offered = d1.offered
  BY <1>1, BinMergedSettles
<1> HIDE DEF d2
<1>3. LinkAsked(d2, d3, b, own, row.role)
  <2> DEFINE now == row.role = "issuer"
  <2>1. d3 = Linked(d2, b, own, row.role, now) /\ now \in BOOLEAN
    OBVIOUS
  <2> HIDE DEF now, d3, b
  <2>2. b \in Bins
    BY DEF b
  <2> QED BY <1>b, <1>c, <1>2, <2>1, <2>2, LinkedOnce
<1> HIDE DEF d3
<1>4. LinkAsked(d3, d4, b, above, "parent")
  <2>1. "parent" \in Roles /\ TRUE \in BOOLEAN /\ d3 \in Tables /\ b \in Bins
    BY <1>3 DEF Roles, LinkAsked
  <2>2. d4 = Linked(d3, b, above, "parent", TRUE)
    OBVIOUS
  <2> HIDE DEF above, d4, b
  <2> QED BY <1>c, <2>1, <2>2, LinkedOnce
<1> HIDE DEF d4
<1> USE DEF LinkAsked
<1>5. RangesBound(d4)
  <2>1. d4.ranges = d.ranges /\ \A i \in Ids : (d4.inst[i] = None) <=> (d.inst[i] = None)
    BY <1>1, <1>2, <1>3, <1>4 DEF Grown, SameInst
  <2> QED BY <1>a, <2>1 DEF RangesBound
<1>6. Placed(d4, own)
  BY <1>1, <1>2, <1>3, <1>4 DEF Placed, SameInst
<1>7. /\ d5 \in Tables /\ d5.inst = d4.inst /\ d5.bins = d4.bins /\ d5.told = d4.told
      /\ d5.links = d4.links
      /\ d5.staged = d4.staged /\ d5.asserted = d4.asserted /\ d5.offered = d4.offered
      /\ RangesBound(d5)
  BY <1>4, <1>5, <1>6, RangedKeeps
<1> HIDE DEF d5
<1>8. /\ e.inst = d5.inst /\ e.bins = d5.bins /\ e.told = d5.told /\ e.links = d5.links
      /\ e.ranges = d5.ranges /\ e.staged = d5.staged
      /\ e.asserted = d5.asserted \cup (IF own = None THEN {} ELSE {<<b, row.role, own>>})
      /\ e.offered = d5.offered \cup (IF row.value = None THEN {} ELSE {<<b, row.value, row.role>>})
      /\ e \in Tables
  <2> DEFINE asserted == d5.asserted \cup (IF own = None THEN {} ELSE {<<b, row.role, own>>})
             offered == d5.offered \cup
                          (IF row.value = None THEN {} ELSE {<<b, row.value, row.role>>})
  <2>1. e = [d5 EXCEPT !.asserted = asserted, !.offered = offered]
    BY <1>0 DEF Remembered
  <2>2. asserted \in SUBSET (Bins \X Roles \X Ids)
    BY <1>7, <1>b, <1>c DEF Tables
  <2>3. offered \in SUBSET (Bins \X Values \X Roles)
    BY <1>7, <1>b DEF Tables
  <2> HIDE DEF asserted, offered
  <2>4. /\ e.inst = d5.inst /\ e.bins = d5.bins /\ e.told = d5.told /\ e.links = d5.links
        /\ e.ranges = d5.ranges /\ e.staged = d5.staged
        /\ e.asserted = asserted /\ e.offered = offered /\ e \in Tables
    BY <1>7, <2>1, <2>2, <2>3 DEF Tables
  <2> QED BY <2>4 DEF asserted, offered
<1>9. SameInst(d, e) /\ e.staged = d.staged
  BY <1>1, <1>2, <1>3, <1>4, <1>7, <1>8 DEF SameInst, Grown
<1>10. /\ DOMAIN e.bins = DOMAIN d.bins \cup {b} /\ Settles(d, e, row)
  BY <1>1, <1>2, <1>3, <1>4, <1>7, <1>8 DEF Settles, Grown
<1>11. LinksLive(e)
  <2> SUFFICES ASSUME NEW x \in e.links  PROVE x.bin \in DOMAIN e.bins /\ e.inst[x.inst] # None
    BY DEF LinksLive
  <2>1. x \in d.links \/ (x.bin = b /\ x.inst = own /\ own # None)
                      \/ (x.bin = b /\ x.inst = above /\ above # None)
    BY <1>1, <1>2, <1>3, <1>4, <1>7, <1>8 DEF Grown
  <2>2. CASE x \in d.links
    <3>1. x.bin \in DOMAIN d.bins /\ d.inst[x.inst] # None /\ x.inst \in Ids
      BY <1>a, <2>2 DEF LinksLive, Tables, Link
    <3> QED BY <1>9, <1>10, <3>1 DEF SameInst
  <2>3. CASE x.bin = b /\ x.inst = own /\ own # None
    BY <1>9, <1>10, <2>3 DEF Placed, SameInst
  <2>4. CASE x.bin = b /\ x.inst = above /\ above # None
    BY <1>9, <1>10, <2>4 DEF Placed, SameInst
  <2> QED BY <2>1, <2>2, <2>3, <2>4
<1>12. LinksUnique(e)
  BY <1>a, <1>1, <1>2, <1>3, <1>4, <1>7, <1>8 DEF LinksUnique, Grown
<1>13. RangesBound(e)
  BY <1>7, <1>8 DEF RangesBound
<1>14. Followed(e)
  <2>1. d.links \subseteq e.links /\ d3.links \subseteq e.links /\ e.asserted =
          d.asserted \cup (IF own = None THEN {} ELSE {<<b, row.role, own>>})
    BY <1>1, <1>2, <1>3, <1>4, <1>7, <1>8 DEF Grown
  <2> SUFFICES ASSUME NEW t \in e.asserted
               PROVE  \E x \in e.links : x.bin = t[1] /\ x.role = t[2] /\ x.inst = t[3]
    BY DEF Followed
  <2>2. CASE t \in d.asserted
    BY <1>a, <2>1, <2>2 DEF Followed
  <2>3. CASE own # None /\ t = <<b, row.role, own>>
    <3>1. t[1] = b /\ t[2] = row.role /\ t[3] = own
      BY <2>3
    <3> QED BY <1>3, <2>1, <2>3, <3>1
  <2> QED BY <2>1, <2>2, <2>3
<1>15. e.offered = d.offered \cup (IF row.value = None THEN {} ELSE {<<b, row.value, row.role>>})
       /\ d.told \subseteq e.told
  BY <1>1, <1>2, <1>3, <1>4, <1>7, <1>8, <1>10 DEF Grown, Settles
<1>16. Told(e)
  <2> SUFFICES ASSUME NEW t \in e.offered
               PROVE  /\ t[1] \in DOMAIN e.bins
                      /\ \/ e.bins[t[1]].value = t[2]
                         \/ \E c \in e.told : c[1] = t[1] /\ t[2] \in {c[2], c[3]}
    BY DEF Told
  <2>1. CASE t \in d.offered
    <3>1. t \in Bins \X Values \X Roles
      BY <1>a, <2>1 DEF Tables
    <3>2. t[2] # None
      BY <3>1, NoneAssumption
    <3>3. /\ t[1] \in DOMAIN d.bins
          /\ \/ d.bins[t[1]].value = t[2]
             \/ \E c \in d.told : c[1] = t[1] /\ t[2] \in {c[2], c[3]}
      BY <1>a, <2>1 DEF Told
    <3>4. t[1] \in DOMAIN e.bins
      BY <1>10, <3>3
    <3>5. CASE \E c \in d.told : c[1] = t[1] /\ t[2] \in {c[2], c[3]}
      BY <1>15, <3>4, <3>5
    <3>6. CASE d.bins[t[1]].value = t[2] /\ e.bins[t[1]].value # t[2]
      <4>1. t[1] = b
        BY <1>10, <3>3, <3>6 DEF Settles
      <4>2. \E c \in e.told : c[1] = b /\ c[2] = d.bins[b].value
        BY <1>10, <3>2, <3>3, <3>6, <4>1 DEF Settles
      <4> QED BY <3>4, <3>6, <4>1, <4>2
    <3> QED BY <3>3, <3>4, <3>5, <3>6
  <2>2. CASE row.value # None /\ t = <<b, row.value, row.role>>
    <3>1. t[1] = b /\ t[2] = row.value
      BY <2>2
    <3>2. \/ e.bins[b].value = row.value
          \/ \E c \in e.told : c[1] = b /\ c[3] = row.value
      BY <1>10, <2>2 DEF Settles
    <3> QED BY <1>10, <3>1, <3>2
  <2> QED BY <1>15, <2>1, <2>2
<1>17. Succeeds(d, e)
  <2>1. d.offered \subseteq e.offered
    BY <1>15
  <2> SUFFICES ASSUME NEW c \in DOMAIN d.bins
               PROVE  /\ c \in DOMAIN e.bins
                      /\ \/ d.bins[c].value = None \/ e.bins[c].value = d.bins[c].value
                         \/ <<c, e.bins[c].value, "issuer">> \in e.offered
    BY <2>1 DEF Succeeds
  <2>2. CASE c # b
    BY <1>10, <2>2 DEF Settles
  <2>3. CASE c = b
    <3>1. CASE d.bins[b].value # None /\ e.bins[b].value # d.bins[b].value
      <4>1. row.role = "issuer" /\ row.value # None /\ e.bins[b].value = row.value
        BY <1>10, <2>3, <3>1 DEF Settles
      <4> QED BY <1>10, <1>15, <2>3, <4>1
    <3> QED BY <1>10, <2>3, <3>1
  <2> QED BY <2>2, <2>3
<1> QED BY <1>8, <1>9, <1>11, <1>12, <1>13, <1>14, <1>16, <1>17 DEF Sound

\* What comes after what comes after.
LEMMA SucceedsAgain ==
  ASSUME NEW c, NEW d \in Tables, NEW e, Succeeds(c, d), Succeeds(d, e)
  PROVE  Succeeds(c, e)
<1>1. c.offered \subseteq e.offered
  BY DEF Succeeds
<1>2. ASSUME NEW b \in DOMAIN c.bins
      PROVE  /\ b \in DOMAIN e.bins
             /\ \/ c.bins[b].value = None \/ e.bins[b].value = c.bins[b].value
                \/ <<b, e.bins[b].value, "issuer">> \in e.offered
  <2>1. /\ b \in DOMAIN d.bins /\ d.offered \subseteq e.offered
        /\ \/ c.bins[b].value = None \/ d.bins[b].value = c.bins[b].value
           \/ <<b, d.bins[b].value, "issuer">> \in d.offered
    BY DEF Succeeds
  <2>2. /\ b \in DOMAIN e.bins
        /\ \/ d.bins[b].value = None \/ e.bins[b].value = d.bins[b].value
           \/ <<b, e.bins[b].value, "issuer">> \in e.offered
    BY <2>1 DEF Succeeds
  <2>3. <<b, d.bins[b].value, "issuer">> \in d.offered => d.bins[b].value # None
    <3>1. d.offered \subseteq Bins \X Values \X Roles
      BY DEF Tables
    <3> QED BY <3>1, NoneAssumption
  <2>4. CASE e.bins[b].value = d.bins[b].value
    BY <2>1, <2>2, <2>4
  <2> QED BY <2>1, <2>2, <2>3, <2>4
<1> QED BY <1>1, <1>2 DEF Succeeds

\* Nothing that happened is lost where nothing happens.
LEMMA SucceedsItself == \A d : Succeeds(d, d)
BY DEF Succeeds

\* Identifiers are given from 1 on.
LEMMA NextIdIsPositive ==
  ASSUME NEW d \in Tables
  PROVE  NextId(d) \in Nat \ {0}
<1>1. Live(d) \in SUBSET Ids
  BY DEF Live
<1>2. CASE Live(d) = {}
  BY <1>2 DEF NextId
<1>3. CASE Live(d) # {}
  <2>1. Max(Live(d)) \in Ids
    BY <1>1, <1>3, MaxOfIds
  <2> QED BY <1>3, <2>1 DEF NextId, Ids
<1> QED BY <1>2, <1>3

\* A row is ingested.
LEMMA IngestedIsSound ==
  ASSUME NEW d, Sound(d), NEW s \in Sessions, CacheLive(d, s), NEW row \in Row,
         NextId(d) + 1 \in Ids, NEW r, r = Ingested(d, s, row)
  PROVE  /\ Sound(r.db) /\ Succeeds(d, r.db) /\ r.db.staged = d.staged
         /\ r.session \in Sessions /\ SameTask(s, r.session) /\ CacheLive(r.db, r.session)
<1>0. d \in Tables /\ NextId(d) \in Ids
  <2>1. d \in Tables
    BY DEF Sound
  <2> QED BY <2>1, NextIdIsPositive, BoundAssumption DEF Ids
<1>1. CASE row.bin = BadBin
  <2>1. r.db = d /\ r.session = s
    BY <1>1 DEF Ingested
  <2> QED BY <2>1, SucceedsItself DEF SameTask
<1>2. CASE row.bin # BadBin
  <2> DEFINE own == Issuer(d, s, row)
             up  == Parent(own, row)
             e   == Written(up.db, row, own.id, up.id)
  <2>1. r = [db |-> e, session |-> up.session]
    BY <1>2 DEF Ingested, WithIssuer, Completed
  <2>2. r.db = e /\ r.session = up.session
    BY <2>1
  <2>3. row.bin \in Bins
    BY <1>2 DEF Row
  <2>4. /\ Grown(d, up.db) /\ Placed(up.db, own.id) /\ Placed(up.db, up.id)
        /\ up.session \in Sessions /\ SameTask(s, up.session) /\ CacheLive(up.db, up.session)
    <3> HIDE DEF own, up
    <3>1. own = Issuer(d, s, row) /\ up = Parent(own, row)
      BY Zenon DEF own, up
    <3> QED BY <1>0, <3>1, InstitutionsOfRow
  <2> HIDE DEF own, up
  <2>5. Sound(up.db) /\ Succeeds(d, up.db)
    <3>1. up.db \in Tables
      BY <2>4 DEF Grown
    <3>2. LinksLive(up.db)
      <4>1. \A x \in d.links : x.inst \in Ids
        BY <1>0 DEF Tables, Link
      <4> QED BY <2>4, <4>1 DEF Sound, LinksLive, Grown
    <3>3. LinksUnique(up.db)
      BY <2>4 DEF Sound, LinksUnique, Grown
    <3>4. RangesBound(up.db)
      <4> SUFFICES ASSUME NEW b \in Bins, NEW i \in Ids
                   PROVE  up.db.ranges[<<b, i>>] <= (IF up.db.inst[i] = None THEN 0 ELSE 1)
        BY DEF RangesBound
      <4>1. up.db.ranges[<<b, i>>] = d.ranges[<<b, i>>]
        BY <2>4 DEF Grown
      <4>2. d.ranges[<<b, i>>] <= (IF d.inst[i] = None THEN 0 ELSE 1)
        BY DEF Sound, RangesBound
      <4>3. d.ranges[<<b, i>>] \in Nat
        BY <1>0 DEF Tables
      <4>4. d.inst[i] # None => up.db.inst[i] # None
        BY <2>4 DEF Grown
      <4> QED BY <4>1, <4>2, <4>3, <4>4
    <3>5. Followed(up.db) /\ Told(up.db)
      BY <2>4 DEF Sound, Followed, Told, Grown
    <3>6. Succeeds(d, up.db)
      BY <2>4 DEF Succeeds, Grown
    <3> QED BY <3>1, <3>2, <3>3, <3>4, <3>5, <3>6 DEF Sound
  <2>6. Sound(e) /\ Succeeds(up.db, e) /\ e.staged = up.db.staged /\ SameInst(up.db, e)
    BY <2>3, <2>4, <2>5, WrittenIsSound
  <2> HIDE DEF e
  <2>7. Succeeds(d, e)
    BY <2>4, <2>5, <2>6, SucceedsAgain DEF Grown
  <2>8. CacheLive(e, up.session)
    <3>1. \A k \in DOMAIN up.session.cache : up.session.cache[k] \in Ids
      <4>1. up.session.cache \in [DOMAIN up.session.cache -> Ids]
        BY <2>4, MapsForm DEF Sessions
      <4> QED BY <4>1
    <3> QED BY <2>4, <2>6, <3>1 DEF CacheLive, SameInst
  <2> QED BY <2>2, <2>4, <2>6, <2>7, <2>8 DEF Grown
<1> QED BY <1>1, <1>2

--------------------------------------------------------------------------------
\* Two institutions become one

\* The links of the one that goes follow it, and none comes twice.
LEMMA MovedLinks ==
  ASSUME NEW links \in SUBSET Link, NEW a \in Ids, NEW b \in Ids, a # b,
         NEW moved, moved = LinksMoved(links, a, b)
  PROVE  /\ moved \in SUBSET Link
         /\ \A x \in moved : x.inst # b /\ \E y \in links : /\ y.bin = x.bin /\ y.role = x.role
                                                           /\ x.inst \in {y.inst, a}
         /\ \A y \in links : \E x \in moved : /\ x.bin = y.bin /\ x.role = y.role
                                              /\ x.inst = (IF y.inst = b THEN a ELSE y.inst)
         /\ (\A x, y \in links : x.bin = y.bin /\ x.inst = y.inst /\ x.role = y.role => x = y) =>
              (\A x, y \in moved : x.bin = y.bin /\ x.inst = y.inst /\ x.role = y.role => x = y)
<1> DEFINE kept  == {x \in links : x.inst # b}
           going == {y \in links : y.inst = b
                       /\ \A z \in links : z.inst # a \/ z.bin # y.bin \/ z.role # y.role}
           at(x) == [x EXCEPT !.inst = a]
<1>0. moved = kept \cup {at(x) : x \in going}
  BY DEF LinksMoved
<1>1. \A x \in links : /\ at(x) \in Link /\ at(x).bin = x.bin /\ at(x).role = x.role
                       /\ at(x).inst = a
  BY DEF Link
<1> HIDE DEF at
<1>2. moved \in SUBSET Link
  BY <1>0, <1>1
<1>3. ASSUME NEW x \in moved
      PROVE  x.inst # b /\ \E y \in links : /\ y.bin = x.bin /\ y.role = x.role
                                            /\ x.inst \in {y.inst, a}
  BY <1>0, <1>1
<1>4. ASSUME NEW y \in links
      PROVE  \E x \in moved : /\ x.bin = y.bin /\ x.role = y.role
                              /\ x.inst = (IF y.inst = b THEN a ELSE y.inst)
  <2>1. CASE y.inst # b
    BY <1>0, <2>1
  <2>2. CASE y \in going
    BY <1>0, <1>1, <2>2
  <2>3. CASE y.inst = b /\ y \notin going
    <3>1. PICK z \in links : z.inst = a /\ z.bin = y.bin /\ z.role = y.role
      BY <2>3
    <3> QED BY <1>0, <2>3, <3>1
  <2> QED BY <2>1, <2>2, <2>3
<1>5. ASSUME \A x, y \in links : x.bin = y.bin /\ x.inst = y.inst /\ x.role = y.role => x = y,
             NEW x \in moved, NEW y \in moved, x.bin = y.bin, x.inst = y.inst, x.role = y.role
      PROVE  x = y
  <2>1. CASE x \in kept /\ y \in kept
    BY <1>5, <2>1
  <2>2. ASSUME NEW m \in going, NEW z \in kept, z.bin = m.bin, z.role = m.role, z.inst = a
        PROVE  FALSE
    BY <2>2
  <2>3. CASE x \in kept /\ y \notin kept
    <3>1. PICK m \in going : y = at(m)
      BY <1>0, <2>3
    <3> QED BY <1>1, <1>5, <2>2, <2>3, <3>1
  <2>4. CASE x \notin kept /\ y \in kept
    <3>1. PICK m \in going : x = at(m)
      BY <1>0, <2>4
    <3> QED BY <1>1, <1>5, <2>2, <2>4, <3>1
  <2>5. CASE x \notin kept /\ y \notin kept
    <3>1. PICK m \in going : x = at(m)
      BY <1>0, <2>5
    <3>2. PICK n \in going : y = at(n)
      BY <1>0, <2>5
    <3>3. m = n
      BY <1>1, <1>5, <3>1, <3>2
    <3> QED BY <3>1, <3>2, <3>3
  <2> QED BY <2>1, <2>3, <2>4, <2>5
<1> QED BY <1>2, <1>3, <1>4, <1>5

\* What a merge of b into a changes.
MergeOf(d, e, a, b) ==
  /\ e \in Tables /\ e.bins = d.bins /\ e.told = d.told /\ e.staged = d.staged
  /\ e.offered = d.offered /\ e.links = LinksMoved(d.links, a, b)
  /\ e.asserted = {<<t[1], t[2], IF t[3] = b THEN a ELSE t[3]>> : t \in d.asserted}
  /\ \A i \in Ids : (e.inst[i] = None) <=> (i = b \/ d.inst[i] = None)
  /\ \A c \in Bins, i \in Ids :
       e.ranges[<<c, i>>] = (IF i = b THEN 0 ELSE d.ranges[<<c, i>>])

\* What a merge does, table by table.
LEMMA MergedFields ==
  ASSUME NEW d \in Tables, NEW s, NEW a \in Live(d), NEW b \in Live(d), a # b,
         NEW e, e = Merged(d, s, a, b)
  PROVE  MergeOf(d, e, a, b)
<1> DEFINE x == d.inst[a]
           y == d.inst[b]
           kept == [x EXCEPT !.legal = Filled(x.legal, y.legal), !.site = Filled(x.site, y.site),
                             !.country = Filled(x.country, y.country),
                             !.parent = IF x.parent = b THEN a ELSE x.parent,
                             !.aliases = x.aliases \cup AliasesMoved(d, s, b) \cup {Norm[y.name]}]
           child(i) == IF d.inst[i] # None /\ d.inst[i].parent = b
                         THEN [d.inst[i] EXCEPT !.parent = a] ELSE d.inst[i]
           inst == [i \in Ids |-> CASE i = b -> None [] i = a -> kept [] OTHER -> child(i)]
           rs == [k \in DOMAIN d.ranges |->
                        CASE k[2] = b -> 0
                          [] k[2] = None -> d.ranges[k] + d.ranges[<<k[1], b>>]
                          [] OTHER -> d.ranges[k]]
           asserted == {<<t[1], t[2], IF t[3] = b THEN a ELSE t[3]>> : t \in d.asserted}
           links == LinksMoved(d.links, a, b)
<1>1. e = [d EXCEPT !.inst = inst, !.links = links, !.ranges = rs, !.asserted = asserted]
  BY DEF Merged
<1>2. a \in Ids /\ b \in Ids /\ d.inst \in [Ids -> Institution \cup {None}]
      /\ x \in Institution /\ y \in Institution
  BY DEF Live, Tables
<1>3. kept \in Institution
  <2>1. /\ x.legal \in Forms \cup {None} /\ y.legal \in Forms \cup {None}
        /\ x.site \in Sites \cup {None} /\ y.site \in Sites \cup {None}
        /\ x.country \in Countries \cup {None} /\ y.country \in Countries \cup {None}
        /\ x.parent \in Ids \cup {None} /\ x.aliases \in SUBSET Forms /\ y.aliases \in SUBSET Forms
        /\ y.name \in Names
    BY <1>2 DEF Institution
  <2> DEFINE legal == Filled(x.legal, y.legal)
             site == Filled(x.site, y.site)
             country == Filled(x.country, y.country)
             parent == IF x.parent = b THEN a ELSE x.parent
             aliases == x.aliases \cup AliasesMoved(d, s, b) \cup {Norm[y.name]}
  <2>2. legal \in Forms \cup {None}
    BY <2>1, FilledType, Zenon
  <2>3. site \in Sites \cup {None}
    BY <2>1, FilledType, Zenon
  <2>4. country \in Countries \cup {None}
    BY <2>1, FilledType, Zenon
  <2>5. parent \in Ids \cup {None}
    BY <1>2, <2>1
  <2>6. aliases \in SUBSET Forms
    <3>1. AliasesMoved(d, s, b) \in SUBSET Forms
      BY <2>1 DEF AliasesMoved
    <3> QED BY <2>1, <3>1, FormTypes
  <2>7. kept = [x EXCEPT !.legal = legal, !.site = site, !.country = country,
                         !.parent = parent, !.aliases = aliases]
    OBVIOUS
  <2> HIDE DEF legal, site, country, parent, aliases, kept
  <2> QED BY <1>2, <2>2, <2>3, <2>4, <2>5, <2>6, <2>7 DEF Institution
<1> HIDE DEF kept
<1>4. ASSUME NEW i \in Ids
      PROVE  child(i) \in Institution \cup {None} /\ (child(i) = None <=> d.inst[i] = None)
  <2>1. CASE d.inst[i] # None /\ d.inst[i].parent = b
    <3>1. d.inst[i] \in Institution
      BY <1>2, <2>1
    <3>2. [d.inst[i] EXCEPT !.parent = a] \in Institution
      BY <1>2, <3>1 DEF Institution
    <3> QED BY <2>1, <3>2, NoneAssumption
  <2>2. CASE ~(d.inst[i] # None /\ d.inst[i].parent = b)
    <3>1. child(i) = d.inst[i]
      BY <2>2
    <3> QED BY <1>2, <3>1
  <2> QED BY <2>1, <2>2
<1> HIDE DEF child
<1>5. inst \in [Ids -> Institution \cup {None}]
  BY <1>3, <1>4
<1>6. \A i \in Ids : (inst[i] = None) <=> (i = b \/ d.inst[i] = None)
  <2> TAKE i \in Ids
  <2>1. kept # None /\ d.inst[a] # None
    BY <1>3, NoneAssumption DEF Live
  <2> QED BY <1>4, <2>1
<1>7. d.ranges \in [Bins \X (Ids \cup {None}) -> Nat]
  BY DEF Tables
<1>8. ASSUME NEW k \in Bins \X (Ids \cup {None})
      PROVE  /\ rs[k] \in Nat
             /\ k[2] = b => rs[k] = 0
             /\ k[2] # b /\ k[2] # None => rs[k] = d.ranges[k]
  <2>1. d.ranges[k] \in Nat /\ d.ranges[<<k[1], b>>] \in Nat
    BY <1>2, <1>7
  <2>2. k \in DOMAIN d.ranges
    BY <1>7
  <2>3. b # None
    BY <1>2, NoneAssumption
  <2>4. CASE k[2] = b
    BY <2>2, <2>3, <2>4
  <2>5. CASE k[2] # b /\ k[2] = None
    BY <2>1, <2>2, <2>5
  <2>6. CASE k[2] # b /\ k[2] # None
    BY <2>1, <2>2, <2>6
  <2> QED BY <2>4, <2>5, <2>6
<1>9. rs \in [Bins \X (Ids \cup {None}) -> Nat]
  <2>1. DOMAIN rs = Bins \X (Ids \cup {None})
    BY <1>7
  <2>2. rs = [k \in DOMAIN rs |-> rs[k]]
    OBVIOUS
  <2> HIDE DEF rs
  <2> QED BY <1>8, <2>1, <2>2
<1>10. asserted \in SUBSET (Bins \X Roles \X Ids)
  BY <1>2 DEF Tables
<1>11. links \in SUBSET Link
  <2>1. d.links \in SUBSET Link
    BY DEF Tables
  <2> QED BY <1>2, <2>1, MovedLinks
<1>12. \A c \in Bins, i \in Ids : rs[<<c, i>>] = (IF i = b THEN 0 ELSE d.ranges[<<c, i>>])
  <2> TAKE c \in Bins, i \in Ids
  <2> HIDE DEF rs
  <2> DEFINE k == <<c, i>>
  <2>1. k \in Bins \X (Ids \cup {None}) /\ k[2] = i /\ i # None
    BY NoneAssumption
  <2> HIDE DEF k
  <2>2. rs[k] = (IF i = b THEN 0 ELSE d.ranges[k])
    BY <1>8, <2>1
  <2> QED BY <2>2 DEF k
<1> HIDE DEF inst, links, rs, asserted
<1>13. /\ e \in Tables /\ e.bins = d.bins /\ e.told = d.told /\ e.staged = d.staged
       /\ e.offered = d.offered /\ e.links = links /\ e.asserted = asserted
       /\ e.inst = inst /\ e.ranges = rs
  BY <1>1, <1>5, <1>9, <1>10, <1>11 DEF Tables
<1> QED BY <1>6, <1>12, <1>13 DEF links, asserted, MergeOf

\* A merge loses nothing that was said.
LEMMA MergedIsSound ==
  ASSUME NEW d, Sound(d), NEW s, NEW a \in Live(d), NEW b \in Live(d), a # b,
         NEW e, e = Merged(d, s, a, b)
  PROVE  Sound(e) /\ Succeeds(d, e)
<1>0. d \in Tables /\ LinksLive(d) /\ LinksUnique(d) /\ RangesBound(d) /\ Followed(d) /\ Told(d)
  BY DEF Sound
<1>m. MergeOf(d, e, a, b)
  BY <1>0, MergedFields
<1>1. /\ e \in Tables /\ e.bins = d.bins /\ e.told = d.told /\ e.staged = d.staged
      /\ e.offered = d.offered /\ e.links = LinksMoved(d.links, a, b)
      /\ e.asserted = {<<t[1], t[2], IF t[3] = b THEN a ELSE t[3]>> : t \in d.asserted}
      /\ \A i \in Ids : (e.inst[i] = None) <=> (i = b \/ d.inst[i] = None)
      /\ \A c \in Bins, i \in Ids :
           e.ranges[<<c, i>>] = (IF i = b THEN 0 ELSE d.ranges[<<c, i>>])
  BY <1>m DEF MergeOf
<1>2. a \in Ids /\ b \in Ids /\ d.inst[a] # None /\ d.links \in SUBSET Link
  BY <1>0 DEF Live, Tables
<1>3. /\ \A x \in e.links : x.inst # b /\ \E y \in d.links : /\ y.bin = x.bin /\ y.role = x.role
                                                             /\ x.inst \in {y.inst, a}
      /\ \A y \in d.links : \E x \in e.links : /\ x.bin = y.bin /\ x.role = y.role
                                               /\ x.inst = (IF y.inst = b THEN a ELSE y.inst)
      /\ (\A x, y \in d.links : x.bin = y.bin /\ x.inst = y.inst /\ x.role = y.role => x = y) =>
           (\A x, y \in e.links : x.bin = y.bin /\ x.inst = y.inst /\ x.role = y.role => x = y)
  BY <1>1, <1>2, MovedLinks
<1>4. LinksLive(e)
  <2> SUFFICES ASSUME NEW x \in e.links  PROVE x.bin \in DOMAIN e.bins /\ e.inst[x.inst] # None
    BY DEF LinksLive
  <2>1. PICK y \in d.links : y.bin = x.bin /\ x.inst \in {y.inst, a}
    BY <1>3
  <2>2. y.bin \in DOMAIN d.bins /\ d.inst[y.inst] # None /\ y.inst \in Ids
    BY <1>0, <1>2 DEF LinksLive, Link
  <2>3. x.inst \in Ids /\ d.inst[x.inst] # None /\ x.inst # b
    BY <1>2, <1>3, <2>1, <2>2
  <2> QED BY <1>1, <2>1, <2>2, <2>3
<1>5. LinksUnique(e)
  BY <1>0, <1>3 DEF LinksUnique
<1>6. RangesBound(e)
  <2> SUFFICES ASSUME NEW c \in Bins, NEW i \in Ids
               PROVE  e.ranges[<<c, i>>] <= (IF e.inst[i] = None THEN 0 ELSE 1)
    BY DEF RangesBound
  <2>1. d.ranges[<<c, i>>] <= (IF d.inst[i] = None THEN 0 ELSE 1)
    BY <1>0 DEF RangesBound
  <2>2. e.ranges[<<c, i>>] = (IF i = b THEN 0 ELSE d.ranges[<<c, i>>])
        /\ ((e.inst[i] = None) <=> (i = b \/ d.inst[i] = None))
    BY <1>1
  <2> QED BY <2>1, <2>2
<1>7. Followed(e)
  <2> SUFFICES ASSUME NEW u \in e.asserted
               PROVE  \E x \in e.links : x.bin = u[1] /\ x.role = u[2] /\ x.inst = u[3]
    BY DEF Followed
  <2>1. PICK t \in d.asserted : u = <<t[1], t[2], IF t[3] = b THEN a ELSE t[3]>>
    BY <1>1
  <2>2. u[1] = t[1] /\ u[2] = t[2] /\ u[3] = (IF t[3] = b THEN a ELSE t[3])
    BY <2>1
  <2>3. PICK y \in d.links : y.bin = t[1] /\ y.role = t[2] /\ y.inst = t[3]
    BY <1>0 DEF Followed
  <2> QED BY <1>3, <2>2, <2>3
<1>8. Told(e) /\ Succeeds(d, e)
  BY <1>0, <1>1 DEF Told, Succeeds
<1> QED BY <1>1, <1>4, <1>5, <1>6, <1>7, <1>8 DEF Sound

\* Rows come to be staged, and are judged.
LEMMA StagedIsSound ==
  ASSUME NEW d, Sound(d), NEW staged \in Seq(StagedRow), NEW e, e = [d EXCEPT !.staged = staged]
  PROVE  Sound(e) /\ Succeeds(d, e) /\ e.staged = staged /\ e.inst = d.inst
<1>1. /\ e \in Tables /\ e.inst = d.inst /\ e.bins = d.bins /\ e.told = d.told
      /\ e.links = d.links /\ e.ranges = d.ranges /\ e.staged = staged
      /\ e.asserted = d.asserted /\ e.offered = d.offered
  BY DEF Sound, Tables
<1> QED BY <1>1 DEF Sound, LinksLive, LinksUnique, RangesBound, Followed, Told, Succeeds

\* Nothing is wrong with the empty tables.
LEMMA EmptyIsSound == Sound(Empty)
<1>1. <<>> \in Maps(Bins, Record) /\ DOMAIN <<>> = {}
  BY NoEntries
<1>2. Empty.inst \in [Ids -> Institution \cup {None}] /\ \A i \in Ids : Empty.inst[i] = None
  BY DEF Empty
<1>3. Empty.ranges \in [Bins \X (Ids \cup {None}) -> Nat]
      /\ \A b \in Bins, i \in Ids : Empty.ranges[<<b, i>>] = 0
  BY DEF Empty
<1>4. Empty \in Tables
  BY <1>1 DEF Empty, Tables
<1>5. Empty.links = {} /\ Empty.asserted = {} /\ Empty.offered = {}
  BY DEF Empty
<1> QED BY <1>2, <1>3, <1>4, <1>5
        DEF Sound, LinksLive, LinksUnique, RangesBound, Followed, Told

--------------------------------------------------------------------------------
\* The invariant

(***************************************************************************)
(* The session in progress: what it has found is there, the two of a pair  *)
(* are two, and nothing is left uncommitted where a session ends.          *)
(***************************************************************************)
SessionInv ==
  /\ session \in Sessions
  /\ session.kind \in {"import", "stage", "promote"} => CacheLive(db, session)
  /\ \A p \in session.pairs : p[1] # p[2]
  /\ session.at <= Len(session.file)
  /\ session.kind = "import" /\ session.at = Len(session.file) => db = saved
  /\ session.kind = "none" => session = NoSession /\ db = saved
  /\ opened \in 0 .. MaxSessions

CurationInv == Sound(db) /\ Sound(saved) /\ Succeeds(saved, db) /\ SessionInv

\* What a step keeps, and what it may do to what is committed.
Kept == CurationInv' /\ Succeeds(saved, saved')

\* A session that has read nothing is one, and has nothing in its cache.
LEMMA NoSessionType ==
  ASSUME NEW kind \in {"none", "import", "stage", "promote", "dedupe"},
         NEW file \in Seq(Row), NEW dry \in BOOLEAN,
         NEW pairs \in SUBSET (Ids \X Ids), NEW at \in Nat,
         NEW s, s = [kind |-> kind, file |-> file, at |-> at, cache |-> <<>>, seen |-> <<>>,
                     pairs |-> pairs, dry |-> dry]
  PROVE  s \in Sessions /\ \A d : CacheLive(d, s)
<1>1. <<>> \in Maps(Keys, Ids) /\ <<>> \in Seen /\ DOMAIN <<>> = {}
  BY NoEntries DEF Seen
<1>2. s.cache = <<>>
  OBVIOUS
<1>3. s \in Sessions
  BY <1>1 DEF Sessions
<1> QED BY <1>1, <1>2, <1>3 DEF CacheLive

\* A session that ends, with nothing left uncommitted.
LEMMA Closed ==
  ASSUME CurationInv, Close, db' = saved', Sound(db)', opened' = opened, Succeeds(saved, saved')
  PROVE  Kept
<1>1. session' = [kind |-> "none", file |-> <<>>, at |-> 0, cache |-> <<>>, seen |-> <<>>,
                  pairs |-> {}, dry |-> FALSE]
  BY DEF Close, NoSession
<1>2. session' \in Sessions
  <2>1. /\ "none" \in {"none", "import", "stage", "promote", "dedupe"} /\ <<>> \in Seq(Row)
        /\ {} \in SUBSET (Ids \X Ids) /\ 0 \in Nat /\ FALSE \in BOOLEAN
    OBVIOUS
  <2> QED BY <1>1, <2>1, NoSessionType
<1>3. session'.kind = "none" /\ session'.at = 0 /\ session'.file = <<>> /\ session'.pairs = {}
  BY <1>1
<1>4. SessionInv'
  BY <1>2, <1>3 DEF SessionInv, CurationInv, Close
<1>5. Succeeds(saved, db)' /\ Sound(saved)'
  BY SucceedsItself
<1> QED BY <1>4, <1>5 DEF CurationInv, Kept

\* A session that begins.
LEMMA SessionOpened ==
  ASSUME CurationInv, session.kind = "none", opened < MaxSessions, opened' = opened + 1,
         saved' = saved, Sound(db)', Succeeds(db, db'),
         NEW kind \in {"import", "stage", "dedupe"}, NEW file \in Seq(Row), NEW dry \in BOOLEAN,
         NEW pairs \in SUBSET (Ids \X Ids), \A p \in pairs : p[1] # p[2],
         session' = [kind |-> kind, file |-> file, at |-> 0, cache |-> <<>>, seen |-> <<>>,
                     pairs |-> pairs, dry |-> dry],
         kind = "import" => db' = db
  PROVE  Kept
<1>1. session' \in Sessions /\ CacheLive(db', session')
  BY NoSessionType
<1>2. /\ session'.kind = kind /\ session'.at = 0 /\ session'.file = file
      /\ session'.pairs = pairs
  OBVIOUS
<1>3. db = saved
  BY DEF CurationInv, SessionInv
<1>4. opened' \in 0 .. MaxSessions
  BY BoundAssumption DEF CurationInv, SessionInv
<1>5. SessionInv'
  BY <1>1, <1>2, <1>3, <1>4 DEF SessionInv
<1>6. Sound(saved)' /\ Succeeds(saved, db)' /\ Succeeds(saved, saved')
  BY <1>3, SucceedsItself DEF CurationInv
<1> QED BY <1>5, <1>6 DEF CurationInv, Kept

\* How a session is opened.
LEMMA OpenSession ==
  ASSUME NEW kind \in {"import", "stage", "dedupe"}, NEW file \in Seq(Row), NEW dry \in BOOLEAN,
         Open(kind, file, dry)
  PROVE  /\ session.kind = "none" /\ opened < MaxSessions /\ opened' = opened + 1 /\ saved' = saved
         /\ session' = [kind |-> kind, file |-> file, at |-> 0, cache |-> <<>>, seen |-> <<>>,
                        pairs |-> {}, dry |-> dry]
BY DEF Open, NoSession

\* What is compared are two different institutions.
LEMMA PairsAreTwo ==
  ASSUME NEW d \in Tables
  PROVE  Pairs(d) \in SUBSET (Ids \X Ids) /\ \A p \in Pairs(d) : p[1] # p[2]
<1>1. Live(d) \subseteq Ids
  BY DEF Live
<1>2. \A p \in Pairs(d) : p \in Ids \X Ids /\ p[1] < p[2]
  BY <1>1 DEF Pairs
<1>3. \A p \in Ids \X Ids : p[1] < p[2] => p[1] # p[2]
  BY DEF Ids
<1> QED BY <1>2, <1>3

\* One lemma for each step: an import is started.
LEMMA StartImportKeeps ==
  ASSUME CurationInv, NEW f \in Files, StartImport(f)
  PROVE  Kept
<1>1. f \in Seq(Row)
  BY RowAssumption
<1>2. Open("import", f, FALSE) /\ db' = db
  BY DEF StartImport
<1>3. /\ session.kind = "none" /\ opened < MaxSessions /\ opened' = opened + 1 /\ saved' = saved
      /\ session' = [kind |-> "import", file |-> f, at |-> 0, cache |-> <<>>, seen |-> <<>>,
                     pairs |-> {}, dry |-> FALSE]
  BY <1>1, <1>2, OpenSession
<1>4. Sound(db)' /\ Succeeds(db, db')
  BY <1>2, SucceedsItself DEF CurationInv
<1>5. {} \in SUBSET (Ids \X Ids) /\ \A p \in {} : p[1] # p[2]
  OBVIOUS
<1> QED BY <1>1, <1>2, <1>3, <1>4, <1>5, SessionOpened

\* A staging is started.
LEMMA StartStagingKeeps ==
  ASSUME CurationInv, NEW f \in Files, StartStaging(f)
  PROVE  Kept
<1> DEFINE received == [k \in 1 .. Len(f) |-> [row |-> f[k], status |-> "received"]]
<1>1. f \in Seq(Row)
  BY RowAssumption
<1>2. Open("stage", f, FALSE) /\ db' = [db EXCEPT !.staged = db.staged \o received]
  BY DEF StartStaging
<1>3. /\ session.kind = "none" /\ opened < MaxSessions /\ opened' = opened + 1 /\ saved' = saved
      /\ session' = [kind |-> "stage", file |-> f, at |-> 0, cache |-> <<>>, seen |-> <<>>,
                     pairs |-> {}, dry |-> FALSE]
  BY <1>1, <1>2, OpenSession
<1>4. Sound(db)' /\ Succeeds(db, db')
  <2>1. \A k \in 1 .. Len(f) : [row |-> f[k], status |-> "received"] \in StagedRow
    BY <1>1 DEF StagedRow, Statuses
  <2>2. received \in Seq(StagedRow)
    <3>1. Len(f) \in Nat
      BY <1>1
    <3> QED BY <2>1, <3>1
  <2>3. db.staged \in Seq(StagedRow) /\ Sound(db)
    BY DEF CurationInv, Sound, Tables
  <2> HIDE DEF received
  <2>4. db.staged \o received \in Seq(StagedRow)
    BY <2>2, <2>3
  <2> QED BY <1>2, <2>3, <2>4, StagedIsSound
<1>5. {} \in SUBSET (Ids \X Ids) /\ \A p \in {} : p[1] # p[2]
  OBVIOUS
<1> QED BY <1>1, <1>3, <1>4, <1>5, SessionOpened

\* A deduplication is started.
LEMMA StartDedupeKeeps ==
  ASSUME CurationInv, NEW dry \in BOOLEAN, StartDedupe(dry)
  PROVE  Kept
<1>1. /\ session.kind = "none" /\ opened < MaxSessions /\ opened' = opened + 1
      /\ saved' = saved /\ db' = db
      /\ session' = [kind |-> "dedupe", file |-> <<>>, at |-> 0, cache |-> <<>>, seen |-> <<>>,
                     pairs |-> Pairs(db), dry |-> dry]
  BY DEF StartDedupe, NoSession
<1>2. Pairs(db) \in SUBSET (Ids \X Ids) /\ \A p \in Pairs(db) : p[1] # p[2]
  <2>1. db \in Tables
    BY DEF CurationInv, Sound
  <2> QED BY <2>1, PairsAreTwo
<1>3. Sound(db)' /\ Succeeds(db, db') /\ <<>> \in Seq(Row)
  BY <1>1, SucceedsItself DEF CurationInv
<1> QED BY <1>1, <1>2, <1>3, SessionOpened

\* A row of a file is ingested, and a batch committed.
LEMMA ImportRowKeeps ==
  ASSUME CurationInv, ImportRow
  PROVE  Kept
<1> DEFINE row  == session.file[session.at + 1]
           done == Ingested(db, session, row)
<1>1. /\ session.kind = "import" /\ session.at < Len(session.file) /\ NextId(db) + 1 \in Ids
      /\ db' = done.db /\ session' = [done.session EXCEPT !.at = done.session.at + 1]
      /\ saved' = db' \/ (saved' = saved /\ session'.at # Len(session.file))
      /\ opened' = opened
  BY DEF ImportRow
<1>2. /\ session \in Sessions /\ CacheLive(db, session) /\ Sound(db) /\ db \in Tables
      /\ session.file \in Seq(Row) /\ session.at \in Nat
      /\ Succeeds(saved, db) /\ Sound(saved)
  BY <1>1 DEF CurationInv, SessionInv, Sessions, Sound
<1>3. row \in Row
  BY <1>1, <1>2
<1>4. /\ Sound(done.db) /\ Succeeds(db, done.db)
      /\ done.session \in Sessions /\ SameTask(session, done.session)
      /\ CacheLive(done.db, done.session)
  <2> HIDE DEF row, done
  <2>1. done = Ingested(db, session, row)
    BY Zenon DEF done
  <2> QED BY <1>1, <1>2, <1>3, <2>1, IngestedIsSound
<1> HIDE DEF done
<1>5. /\ session' \in Sessions /\ session'.kind = "import" /\ session'.file = session.file
      /\ session'.at = session.at + 1 /\ session'.pairs = session.pairs
      /\ session'.cache = done.session.cache
  BY <1>1, <1>2, <1>4 DEF Sessions, SameTask
<1>6. Succeeds(saved, db')
  BY <1>1, <1>2, <1>4, SucceedsAgain
<1>7. SessionInv'
  <2>1. CacheLive(db', session')
    BY <1>1, <1>4, <1>5 DEF CacheLive
  <2>2. session'.at <= Len(session'.file)
    BY <1>1, <1>2, <1>5
  <2> QED BY <1>1, <1>5, <2>1, <2>2 DEF SessionInv, CurationInv
<1>8. Sound(saved)' /\ Succeeds(saved, db)' /\ Succeeds(saved, saved')
  BY <1>1, <1>2, <1>4, <1>6, SucceedsItself
<1> QED BY <1>1, <1>4, <1>7, <1>8 DEF CurationInv, Kept

\* An import goes on to deduplicate.
LEMMA ThenDedupeKeeps ==
  ASSUME CurationInv, ThenDedupe
  PROVE  Kept
<1>1. /\ session' = [session EXCEPT !.kind = "dedupe", !.pairs = Pairs(db)]
      /\ db' = db /\ saved' = saved /\ opened' = opened
  BY DEF ThenDedupe
<1>2. Pairs(db) \in SUBSET (Ids \X Ids) /\ \A p \in Pairs(db) : p[1] # p[2]
  <2>1. db \in Tables
    BY DEF CurationInv, Sound
  <2> QED BY <2>1, PairsAreTwo
<1>3. session \in Sessions
  BY DEF CurationInv, SessionInv
<1>4. /\ session' \in Sessions /\ session'.kind = "dedupe" /\ session'.pairs = Pairs(db)
      /\ session'.at = session.at /\ session'.file = session.file
  BY <1>1, <1>2, <1>3 DEF Sessions
<1>5. SessionInv'
  BY <1>1, <1>2, <1>4 DEF SessionInv, CurationInv
<1> QED BY <1>1, <1>5, SucceedsItself DEF CurationInv, Kept

\* A session ends, and what it wrote is committed.
LEMMA EndsKeep ==
  ASSUME CurationInv, EndImport \/ EndDedupe \/ EndStaging
  PROVE  Kept
<1>1. ASSUME EndImport PROVE Kept
  <2>1. db' = saved' /\ db' = db /\ saved' = saved /\ opened' = opened /\ Close
    BY <1>1 DEF EndImport, CurationInv, SessionInv
  <2> QED BY <2>1, Closed, SucceedsItself DEF CurationInv
<1>2. ASSUME EndDedupe \/ EndStaging PROVE Kept
  <2>1. db' = saved' /\ db' = db /\ opened' = opened /\ Close
    BY <1>2 DEF EndDedupe, EndStaging
  <2>2. Sound(db)' /\ Succeeds(saved, saved')
    BY <2>1 DEF CurationInv
  <2> QED BY <2>1, <2>2, Closed
<1> QED BY <1>1, <1>2

\* A session fails, and what it did not commit is taken back.
LEMMA FailKeeps ==
  ASSUME CurationInv, Fail
  PROVE  Kept
<1>1. db' = saved' /\ saved' = saved /\ opened' = opened /\ Close
  BY DEF Fail
<1>2. Sound(db)' /\ Succeeds(saved, saved')
  BY <1>1, SucceedsItself DEF CurationInv
<1> QED BY <1>1, <1>2, Closed

\* The staging is cleared.
LEMMA ClearKeeps ==
  ASSUME CurationInv, Clear
  PROVE  Kept
<1>1. /\ session.kind = "none" /\ db' = [db EXCEPT !.staged = <<>>] /\ saved' = db'
      /\ session' = session /\ opened' = opened
  BY DEF Clear
<1>2. Sound(db)' /\ Succeeds(db, db')
  <2>1. <<>> \in Seq(StagedRow) /\ Sound(db)
    BY DEF CurationInv
  <2> QED BY <1>1, <2>1, StagedIsSound
<1>3. db = saved /\ SessionInv
  BY <1>1 DEF CurationInv, SessionInv
<1>4. SessionInv'
  BY <1>1, <1>3 DEF SessionInv
<1> QED BY <1>1, <1>2, <1>3, <1>4, SucceedsItself DEF CurationInv, Kept

\* Rows of the staging are judged.
LEMMA ProcessKeeps ==
  ASSUME CurationInv, Process
  PROVE  Kept
<1> DEFINE judged(x) == IF x.status = "received" THEN [x EXCEPT !.status = Verdict(db, x.row)] ELSE x
           staged == [k \in DOMAIN db.staged |-> judged(db.staged[k])]
<1>1. /\ session.kind = "stage" /\ session' = [session EXCEPT !.kind = "promote"]
      /\ db' = [db EXCEPT !.staged = staged] /\ saved' = saved /\ opened' = opened
  BY DEF Process
<1>2. db.staged \in Seq(StagedRow) /\ Sound(db) /\ session \in Sessions /\ CacheLive(db, session)
  BY <1>1 DEF CurationInv, Sound, Tables, SessionInv
<1>3. \A x \in StagedRow : judged(x) \in StagedRow
  BY DEF StagedRow, Statuses, Verdict
<1> HIDE DEF judged
<1>4. staged \in Seq(StagedRow)
  <2>1. DOMAIN db.staged = 1 .. Len(db.staged) /\ Len(db.staged) \in Nat
    BY <1>2
  <2>2. \A k \in 1 .. Len(db.staged) : judged(db.staged[k]) \in StagedRow
    BY <1>2, <1>3
  <2> QED BY <2>1, <2>2
<1> HIDE DEF staged
<1>5. Sound(db)' /\ Succeeds(db, db') /\ db'.inst = db.inst
  BY <1>1, <1>2, <1>4, StagedIsSound
<1>6. /\ session' \in Sessions /\ session'.kind = "promote" /\ session'.cache = session.cache
      /\ session'.at = session.at /\ session'.file = session.file /\ session'.pairs = session.pairs
  BY <1>1, <1>2 DEF Sessions
<1>7. CacheLive(db', session')
  BY <1>2, <1>5, <1>6 DEF CacheLive
<1>8. SessionInv'
  BY <1>1, <1>6, <1>7 DEF SessionInv, CurationInv
<1>9. Succeeds(saved, db)'
  <2>1. db \in Tables
    BY <1>2 DEF Sound
  <2> QED BY <1>1, <1>5, <2>1, SucceedsAgain DEF CurationInv
<1> QED BY <1>1, <1>5, <1>8, <1>9, SucceedsItself DEF CurationInv, Kept

\* A row of the staging is promoted.
LEMMA PromoteRowKeeps ==
  ASSUME CurationInv, PromoteRow
  PROVE  Kept
<1>1. PICK k \in {Min(Ready)} :
        LET done == Ingested(db, session, db.staged[k].row) IN
        /\ session.kind = "promote" /\ NextId(db) + 1 \in Ids /\ Ready # {}
        /\ db' = [done.db EXCEPT !.staged[k].status = "promoted"]
        /\ session' = done.session /\ saved' = saved /\ opened' = opened
  BY DEF PromoteRow
<1> DEFINE row  == db.staged[k].row
           done == Ingested(db, session, row)
<1>2. /\ session \in Sessions /\ CacheLive(db, session) /\ Sound(db) /\ db \in Tables
      /\ Succeeds(saved, db) /\ Sound(saved) /\ db.staged \in Seq(StagedRow)
  BY <1>1 DEF CurationInv, SessionInv, Sound, Tables
<1>3. k \in DOMAIN db.staged
  <2>1. Ready \in SUBSET Nat
    BY <1>2 DEF Ready
  <2>2. Min(Ready) \in Ready
    <3>1. PICK x \in Ready : \A y \in Ready : <<y, x>> \notin OpToRel(<, Nat)
      BY <1>1, <2>1, NatLessThanWellFounded, WFMin, Zenon
    <3>2. \A y \in Ready : ~(y < x)
      BY <2>1, <3>1, Zenon DEF OpToRel
    <3>3. \A y \in Ready : x <= y
      BY <2>1, <3>2
    <3> QED BY <3>3 DEF Min
  <2> QED BY <2>2 DEF Ready
<1>4. row \in Row
  <2>1. db.staged[k] \in StagedRow
    BY <1>2, <1>3
  <2> QED BY <2>1 DEF StagedRow
<1>5. /\ Sound(done.db) /\ Succeeds(db, done.db) /\ done.db.staged = db.staged
      /\ done.session \in Sessions /\ SameTask(session, done.session)
      /\ CacheLive(done.db, done.session)
  <2> HIDE DEF row, done
  <2>1. done = Ingested(db, session, row)
    BY Zenon DEF done
  <2> QED BY <1>1, <1>2, <1>4, <2>1, IngestedIsSound
<1>6. db' = [done.db EXCEPT !.staged[k].status = "promoted"] /\ session' = done.session
  BY <1>1
<1> HIDE DEF row, done
<1> DEFINE x == [db.staged[k] EXCEPT !.status = "promoted"]
           staged == [db.staged EXCEPT ![k] = x]
<1>7. db' = [done.db EXCEPT !.staged = staged]
  BY <1>5, <1>6
<1>8. staged \in Seq(StagedRow)
  <2>1. db.staged[k] \in StagedRow
    BY <1>2, <1>3
  <2>2. x \in StagedRow
    BY <2>1 DEF StagedRow, Statuses
  <2> HIDE DEF x
  <2> QED BY <1>2, <1>3, <2>2
<1> HIDE DEF staged
<1>9. Sound(db)' /\ Succeeds(done.db, db') /\ db'.inst = done.db.inst
  BY <1>5, <1>7, <1>8, StagedIsSound
<1>10. Succeeds(saved, db')
  <2>1. done.db \in Tables
    BY <1>5 DEF Sound
  <2>2. Succeeds(saved, done.db)
    BY <1>2, <1>5, SucceedsAgain
  <2> QED BY <1>9, <2>1, <2>2, SucceedsAgain
<1>11. SessionInv'
  <2>1. CacheLive(db', session')
    BY <1>5, <1>6, <1>9 DEF CacheLive
  <2> QED BY <1>1, <1>5, <1>6, <2>1 DEF SessionInv, CurationInv, SameTask
<1> QED BY <1>1, <1>2, <1>9, <1>10, <1>11, SucceedsItself DEF CurationInv, Kept

\* Two institutions are compared, and merged when they are one.
LEMMA ComparePairKeeps ==
  ASSUME CurationInv, NEW p \in session.pairs, ComparePair(p)
  PROVE  Kept
<1> DEFINE a == p[1]
           b == p[2]
<1>1. /\ session.kind = "dedupe" /\ saved' = saved /\ opened' = opened
      /\ \/ /\ session' = [session EXCEPT !.pairs = session.pairs \ {p}] /\ db' = db
         \/ /\ session' = Compared(db, session, a, b)
            /\ db.inst[a] # None /\ db.inst[b] # None
            /\ db' = db \/ db' = Merged(db, session', a, b)
  BY DEF ComparePair, Gone
<1>2. session \in Sessions /\ Sound(db) /\ db \in Tables /\ Sound(saved) /\ Succeeds(saved, db)
  BY DEF CurationInv, SessionInv, Sound
<1>3. a \in Ids /\ b \in Ids /\ a # b
  BY <1>2 DEF Sessions, CurationInv, SessionInv
<1> HIDE DEF a, b
<1>4. /\ session' \in Sessions /\ session'.kind = "dedupe" /\ session'.at = session.at
      /\ session'.file = session.file /\ session'.pairs \subseteq session.pairs
  <2>1. CASE session' = [session EXCEPT !.pairs = session.pairs \ {p}]
    BY <1>1, <1>2, <2>1 DEF Sessions
  <2>2. CASE session' = Compared(db, session, a, b) /\ db.inst[a] # None /\ db.inst[b] # None
    <3> DEFINE T == [country : Countries \cup {None}, aliases : (SUBSET Forms) \cup {None}]
               one(i) == IF i \in DOMAIN session.seen THEN session.seen[i]
                         ELSE [country |-> db.inst[i].country, aliases |-> None]
               seen == [i \in DOMAIN session.seen \cup {a, b} |-> one(i)]
               pairs == session.pairs \ {<<a, b>>}
    <3>1. session' = [session EXCEPT !.pairs = pairs, !.seen = seen]
      BY <2>2 DEF Compared
    <3>2. session.seen \in Seen
      BY <1>2 DEF Sessions
    <3>3. DOMAIN session.seen \subseteq Ids /\ session.seen \in [DOMAIN session.seen -> T]
      BY <3>2, MapsForm, Zenon DEF Seen
    <3>4. ASSUME NEW i \in DOMAIN session.seen \cup {a, b}  PROVE one(i) \in T
      <4>1. CASE i \in DOMAIN session.seen
        <5>1. session.seen[i] \in T
          BY <3>3, <4>1, Zenon
        <5> QED BY <4>1, <5>1
      <4>2. CASE i \notin DOMAIN session.seen
        <5>1. db.inst[i] \in Institution
          BY <1>2, <1>3, <2>2, <3>4, <4>2 DEF Tables
        <5> QED BY <4>2, <5>1 DEF Institution
      <4> QED BY <4>1, <4>2
    <3>5. DOMAIN seen = DOMAIN session.seen \cup {a, b}
      OBVIOUS
    <3>6. seen \in [DOMAIN session.seen \cup {a, b} -> T]
      <4> HIDE DEF one, T
      <4> QED BY <3>4
    <3> HIDE DEF seen
    <3>7. seen \in [DOMAIN seen -> T] /\ DOMAIN seen \subseteq Ids
      BY <1>3, <3>3, <3>5, <3>6
    <3>8. seen \in Seen
      BY <3>7, MapsForm, Zenon DEF Seen
    <3> QED BY <1>1, <1>2, <3>1, <3>8 DEF Sessions
  <2> QED BY <1>1, <2>1, <2>2
<1>5. Sound(db') /\ Succeeds(db, db')
  <2>1. CASE db' = db
    BY <1>2, <2>1, SucceedsItself
  <2>2. CASE db' = Merged(db, session', a, b) /\ db.inst[a] # None /\ db.inst[b] # None
    <3>1. a \in Live(db) /\ b \in Live(db)
      BY <1>3, <2>2 DEF Live
    <3> QED BY <1>2, <1>3, <2>2, <3>1, MergedIsSound
  <2> QED BY <1>1, <2>1, <2>2
<1>6. SessionInv'
  BY <1>1, <1>4 DEF SessionInv, CurationInv
<1>7. Succeeds(saved, db')
  BY <1>2, <1>5, SucceedsAgain
<1> QED BY <1>1, <1>2, <1>5, <1>6, <1>7, SucceedsItself DEF CurationInv, Kept

\* Every step keeps the invariant, and succeeds what was committed.
LEMMA StepKeeps ==
  ASSUME CurationInv, [Next]_vars
  PROVE  Kept
<1>1. ASSUME UNCHANGED vars  PROVE Kept
  <2>1. db' = db /\ saved' = saved /\ session' = session /\ opened' = opened
    BY <1>1 DEF vars
  <2>2. CurationInv'
    BY <2>1 DEF CurationInv, SessionInv
  <2> QED BY <2>1, <2>2, SucceedsItself DEF Kept
<1>2. ASSUME Next  PROVE Kept
  BY <1>2, StartImportKeeps, StartStagingKeeps, StartDedupeKeeps, ImportRowKeeps, ThenDedupeKeeps,
     EndsKeep, ComparePairKeeps, ProcessKeeps, PromoteRowKeeps, ClearKeeps, FailKeeps DEF Next
<1> QED BY <1>1, <1>2

\* The invariant holds from the start, and whatever is done.
LEMMA CurationInvariant == Spec => []CurationInv
<1>1. Init => CurationInv
  <2> SUFFICES ASSUME Init  PROVE CurationInv
    OBVIOUS
  <2>1. db = Empty /\ saved = Empty /\ session = NoSession /\ opened = 0
    BY DEF Init
  <2>2. session = [kind |-> "none", file |-> <<>>, at |-> 0, cache |-> <<>>, seen |-> <<>>,
                   pairs |-> {}, dry |-> FALSE]
    BY <2>1 DEF NoSession
  <2>3. session \in Sessions
    <3>1. /\ "none" \in {"none", "import", "stage", "promote", "dedupe"} /\ <<>> \in Seq(Row)
          /\ {} \in SUBSET (Ids \X Ids) /\ 0 \in Nat /\ FALSE \in BOOLEAN
      OBVIOUS
    <3> QED BY <2>2, <3>1, NoSessionType
  <2>4. session.kind = "none" /\ session.at = 0 /\ session.file = <<>> /\ session.pairs = {}
    BY <2>2
  <2>5. SessionInv
    BY <2>1, <2>3, <2>4, BoundAssumption DEF SessionInv
  <2> QED BY <2>1, <2>5, EmptyIsSound, SucceedsItself DEF CurationInv
<1>2. CurationInv /\ [Next]_vars => CurationInv'
  BY StepKeeps DEF Kept
<1> QED BY <1>1, <1>2, PTL DEF Spec

--------------------------------------------------------------------------------
\* The theorems

\* The types hold: links name institutions and records that are there, at most
\* once in each role, however rows are ingested and institutions merged.
THEOREM CurationTypes == Spec => []TypeOK
<1>1. CurationInv => TypeOK
  <2> SUFFICES ASSUME CurationInv  PROVE TypeOK
    OBVIOUS
  <2>1. ASSUME NEW d \in {db, saved}
        PROVE  /\ d.inst \in [Ids -> Institution \cup {None}]
               /\ DOMAIN d.bins \subseteq Bins
               /\ \A b \in DOMAIN d.bins : d.bins[b] \in [value : Values \cup {None}, conf : 1 .. 100]
               /\ d.told \subseteq Bins \X Values \X Values
               /\ d.links \subseteq [bin : Bins, inst : Ids, role : Roles, current : BOOLEAN]
               /\ \A x \in d.links : x.bin \in DOMAIN d.bins /\ d.inst[x.inst] # None
               /\ \A x, y \in d.links : x.bin = y.bin /\ x.inst = y.inst /\ x.role = y.role => x = y
               /\ d.ranges \in [Bins \X (Ids \cup {None}) -> Nat]
               /\ \A b \in Bins, i \in Ids : d.ranges[<<b, i>>] <= (IF d.inst[i] = None THEN 0 ELSE 1)
               /\ d.staged \in Seq([row : Row, status : {"received", "resolved", "conflicted",
                                                         "rejected", "promoted"}])
    <3>1. Sound(d)
      BY DEF CurationInv
    <3>2. d \in Tables /\ LinksLive(d) /\ LinksUnique(d) /\ RangesBound(d)
      BY <3>1 DEF Sound
    <3>3. d.bins \in Maps(Bins, Record)
      BY <3>2 DEF Tables
    <3>4. DOMAIN d.bins \subseteq Bins /\ \A b \in DOMAIN d.bins : d.bins[b] \in Record
      <4>1. DOMAIN d.bins \subseteq Bins /\ d.bins \in [DOMAIN d.bins -> Record]
        BY <3>3, MapsForm
      <4> QED BY <4>1
    <3> QED BY <3>2, <3>4
            DEF Tables, Record, Link, StagedRow, Statuses, LinksLive, LinksUnique, RangesBound
  <2>2. /\ session.kind \in {"none", "import", "stage", "promote", "dedupe"}
        /\ session.kind = "none" => session = NoSession /\ db = saved
        /\ opened \in 0 .. MaxSessions
    BY DEF CurationInv, SessionInv, Sessions
  <2> QED BY <2>1, <2>2 DEF TypeOK
<1> QED BY <1>1, CurationInvariant, PTL

\* Whatever is merged into what, a BIN keeps every institution and role a row gave it.
THEOREM LinksAlwaysFollow == Spec => []LinksFollow
<1>1. CurationInv => LinksFollow
  BY DEF CurationInv, Sound, Followed, LinksFollow
<1> QED BY <1>1, CurationInvariant, PTL

\* A value a row gave a BIN is the one shown, or a recorded disagreement names it.
THEOREM EveryValueIsTold == Spec => []EveryValueTold
<1>1. CurationInv => EveryValueTold
  BY DEF CurationInv, Sound, Told, EveryValueTold
<1> QED BY <1>1, CurationInvariant, PTL

\* What is committed is never overruled by rows that only tell the past.
THEOREM PastNeverOverrules == Spec => PastNeverRules
<1>1. CurationInv /\ [Next]_vars =>
        (\A b \in DOMAIN saved.bins :
           /\ b \in DOMAIN saved'.bins /\ saved'.bins[b].value # saved.bins[b].value
           /\ <<b, saved.bins[b].value, "issuer">> \in saved'.offered
           => <<b, saved'.bins[b].value, "issuer">> \in saved'.offered)
  <2> SUFFICES ASSUME CurationInv, [Next]_vars, NEW b \in DOMAIN saved.bins,
                      saved'.bins[b].value # saved.bins[b].value,
                      <<b, saved.bins[b].value, "issuer">> \in saved'.offered
               PROVE  <<b, saved'.bins[b].value, "issuer">> \in saved'.offered
    OBVIOUS
  <2>1. Succeeds(saved, saved') /\ Sound(saved)'
    BY StepKeeps DEF Kept, CurationInv
  <2>2. saved'.offered \subseteq Bins \X Values \X Roles
    BY <2>1 DEF Sound, Tables
  <2>3. saved.bins[b].value # None
    BY <2>2, NoneAssumption
  <2> QED BY <2>1, <2>3 DEF Succeeds
<1> QED BY <1>1, CurationInvariant, PTL DEF Spec, PastNeverRules

--------------------------------------------------------------------------------
\* What a row of a list file gives

Digits == 0 .. 9

\* A function on the first numbers is a sequence.
LEMMA SeqOfFunction ==
  ASSUME NEW S, NEW n \in Nat, NEW f \in [1 .. n -> S]
  PROVE  f \in Seq(S) /\ Len(f) = n
<1>1. \A i \in 1 .. n : f[i] \in S
  OBVIOUS
<1>2. [i \in 1 .. n |-> f[i]] \in Seq(S)
  BY <1>1, IsASeq
<1>3. f = [i \in 1 .. n |-> f[i]]
  OBVIOUS
<1>4. f \in Seq(S)
  BY <1>2, <1>3
<1> QED  BY <1>4, LenProperties

\* There is a first place among any.
LEMMA FirstPlace ==
  ASSUME NEW T \in SUBSET Nat, T # {}
  PROVE  \E k \in T : \A j \in T : k <= j
<1>1. PICK k \in T : \A j \in T : ~(<<j, k>> \in OpToRel(<, Nat))
  BY NatLessThanWellFounded, WFMin
<1>2. \A j \in T : ~(j < k)
  BY <1>1 DEF OpToRel
<1> QED  BY <1>2

\* What stands under a column is a cell of the row, or nothing.
LEMMA ValueIsCell ==
  ASSUME NEW cells, DOMAIN cells \subseteq Nat, \A k \in DOMAIN cells : IsCell(cells[k]),
         NEW columns, NEW name
  PROVE  IsCell(ValueOf(cells, columns, name))
<1> DEFINE at == {k \in DOMAIN columns \cap DOMAIN cells : columns[k] = name /\ cells[k] # Blank}
<1>1. IsCell(Blank)
  <2>1. <<>> \in Seq(0 .. 9)
    BY EmptySeq
  <2> QED  BY <2>1, Zenon DEF Blank, IsCell
<1>2. ASSUME at # {} PROVE (CHOOSE k \in at : \A j \in at : k <= j) \in at
  <2>1. at \in SUBSET Nat
    OBVIOUS
  <2>2. \E k \in at : \A j \in at : k <= j
    BY <1>2, <2>1, FirstPlace
  <2> QED  BY <2>2
<1>3. ASSUME at # {} PROVE IsCell(cells[CHOOSE k \in at : \A j \in at : k <= j])
  BY <1>2, <1>3
<1>4. ValueOf(cells, columns, name)
        = IF at = {} THEN Blank ELSE cells[CHOOSE k \in at : \A j \in at : k <= j]
  BY DEF ValueOf
<1> HIDE DEF at
<1> QED  BY <1>1, <1>3, <1>4

\* Zeros are put in front of digits that are too few.
LEMMA ZerosAreDigits ==
  ASSUME NEW d \in Seq(Digits), NEW n \in Nat, Len(d) <= n
  PROVE  Zeros(d, n) \in Seq(Digits) /\ Len(Zeros(d, n)) = n
<1>1. Len(d) \in Nat /\ DOMAIN d = 1 .. Len(d) /\ \A k \in 1 .. Len(d) : d[k] \in Digits
  BY LenProperties, ElementOfSeq
<1>2. ASSUME NEW k \in 1 .. n PROVE (IF k <= n - Len(d) THEN 0 ELSE d[k - (n - Len(d))]) \in Digits
  BY <1>1, <1>2 DEF Digits
<1>3. Zeros(d, n) \in [1 .. n -> Digits]
  BY <1>2 DEF Zeros
<1> QED  BY <1>3, SeqOfFunction

\* A BIN has six to eight digits, and they are those of the cell unless some have to be
\* missing and the file is one that has lost its zeros.
LEMMA BinOfCell ==
  ASSUME NEW cell, IsCell(cell), NEW pad \in BOOLEAN, NEW b, b = BinOf(cell, pad)
  PROVE  /\ b # <<>> => Len(b) \in MinBin .. LongBin
         /\ b # <<>> /\ b # cell.digits =>
              pad /\ Len(cell.digits) \in 1 .. MinBin - 1 \cup {LongBin - 1}
<1>1. PICK d \in Seq(Digits) : d = cell.digits
  BY DEF IsCell, Digits
<1>2. PICK n \in Nat : n = Len(d) /\ (d # <<>> => n > 0)
  BY EmptySeq, LenProperties
<1>3. b = IF d = <<>> \/ n >= TooLong THEN <<>>
          ELSE IF n < MinBin THEN IF pad THEN Zeros(d, MinBin) ELSE <<>>
          ELSE IF pad /\ n = LongBin - 1 THEN Zeros(d, LongBin) ELSE d
  BY <1>1, <1>2 DEF BinOf
<1>4. CASE d = <<>> \/ n >= 9
  BY <1>3, <1>4 DEF TooLong
<1>5. CASE d # <<>> /\ n < 6
  <2>1. Len(Zeros(d, 6)) = 6
    <3>1. Len(d) <= 6
      BY <1>2, <1>5
    <3> QED  BY <3>1, ZerosAreDigits
  <2>2. b = IF pad THEN Zeros(d, 6) ELSE <<>>
    BY <1>2, <1>3, <1>5 DEF TooLong, MinBin
  <2>3. Len(d) \in 1 .. MinBin - 1
    <3>1. n \in 1 .. MinBin - 1
      BY <1>2, <1>5 DEF MinBin
    <3> QED  BY <1>2, <3>1
  <2>4. 6 \in MinBin .. LongBin
    BY DEF MinBin, LongBin
  <2> QED  BY <1>1, <2>1, <2>2, <2>3, <2>4
<1>6. CASE d # <<>> /\ n >= 6 /\ n < 9
  <2>1. n = 7 => Len(Zeros(d, 8)) = 8
    <3>1. n = 7 => Len(d) <= 8
      BY <1>2
    <3> QED  BY <3>1, ZerosAreDigits
  <2>2. b = IF pad /\ n = 7 THEN Zeros(d, 8) ELSE d
    BY <1>2, <1>3, <1>6 DEF TooLong, MinBin, LongBin
  <2>3. n \in MinBin .. LongBin /\ 8 \in MinBin .. LongBin
    BY <1>6 DEF MinBin, LongBin
  <2>4. n = 7 => Len(d) = LongBin - 1
    BY <1>2 DEF LongBin
  <2> QED  BY <1>1, <1>2, <2>1, <2>2, <2>3, <2>4
<1> QED  BY <1>2, <1>4, <1>5, <1>6

\* What a row records.
IsRecord(r) ==
  /\ r = [bin |-> r.bin, bank |-> r.bank, trust |-> r.trust]
  /\ r.trust \in Trusts /\ r.bank \notin {"", Damaged.word}

\* The record of a row: in shape, with a BIN of a length there is, and with digits of its
\* own only where zeros were lost.
LEMMA RecordOfRow ==
  ASSUME NEW cells, DOMAIN cells \subseteq Nat, \A k \in DOMAIN cells : IsCell(cells[k]),
         reader.pad \in BOOLEAN, reader.trust \in Trusts,
         NEW r, r = RecordOf(cells),
         NEW digits, digits = ValueOf(cells, reader.columns, "bin").digits
  PROVE  /\ IsRecord(r)
         /\ r.bin # <<>> => Len(r.bin) \in MinBin .. LongBin
         /\ r.bin # <<>> /\ r.bin # digits =>
              reader.pad /\ Len(digits) \in 1 .. MinBin - 1 \cup {LongBin - 1}
<1>1. PICK cell : cell = ValueOf(cells, reader.columns, "bin") /\ IsCell(cell)
  BY ValueIsCell
<1>2. PICK bank : bank = ValueOf(cells, reader.columns, "bank") /\ IsCell(bank)
  BY ValueIsCell
<1>3. r = [bin |-> BinOf(cell, reader.pad),
           bank |-> IF bank \in {Blank, Damaged} THEN "unnamed"
                    ELSE IF bank.digits # <<>> THEN "numbered" ELSE bank.word,
           trust |-> reader.trust]
  BY <1>1, <1>2 DEF RecordOf
<1>4. /\ r.bin # <<>> => Len(r.bin) \in MinBin .. LongBin
      /\ r.bin # <<>> /\ r.bin # digits =>
           reader.pad /\ Len(digits) \in 1 .. MinBin - 1 \cup {LongBin - 1}
  BY <1>1, <1>3, BinOfCell
<1>5. r.bank \notin {"", Damaged.word}
  <2>1. Damaged.word = "5E+11"
    BY Zenon DEF Damaged, Word
  <2>2. "unnamed" \notin {"", "5E+11"} /\ "numbered" \notin {"", "5E+11"}
    BY Zenon
  <2>3. CASE bank \in {Blank, Damaged}
    BY <1>3, <2>1, <2>2, <2>3
  <2>4. CASE bank \notin {Blank, Damaged} /\ bank.digits # <<>>
    BY <1>3, <2>1, <2>2, <2>4
  <2>5. CASE bank \notin {Blank, Damaged} /\ bank.digits = <<>>
    <3>1. bank = [word |-> bank.word, digits |-> <<>>]
      BY <1>2, <2>5 DEF IsCell
    <3>2. bank.word # "" /\ bank.word # "5E+11"
      BY <2>5, <3>1, Zenon DEF Blank, Damaged, Word
    <3>3. r.bank = bank.word
      BY <1>3, <2>5
    <3> QED  BY <2>1, <3>2, <3>3, Zenon
  <2> QED  BY <2>3, <2>4, <2>5
<1>6. r = [bin |-> r.bin, bank |-> r.bank, trust |-> r.trust] /\ r.trust \in Trusts
  BY <1>3
<1> QED  BY <1>4, <1>5, <1>6 DEF IsRecord

--------------------------------------------------------------------------------
\* The rows and the records of a list

\* The records are the facts: each record is where the row that first asserts its fact
\* is among these rows, and says what the last one says.
RecordsPlaced ==
  /\ Len(report.records) = Cardinality(Firsts)
  /\ \A p \in DOMAIN report.records : \E k \in Firsts : Place(k) = p
  /\ \A k \in Firsts : /\ Place(k) \in DOMAIN report.records
                       /\ SameFact(report.records[Place(k)], rows[k].record)
  /\ \A j \in Facts : \E k \in Firsts : Restates(j, k)
  /\ \A k \in Firsts, j \in Facts :
       Restates(j, k) /\ LastOf(j) => report.records[Place(k)] = rows[j].record

\* A sequence with one more element.
LEMMA OneMore ==
  ASSUME NEW S, NEW s \in Seq(S), NEW x, NEW t, t = Append(s, x)
  PROVE  /\ t \in Seq(S \cup {x}) /\ Len(t) = Len(s) + 1 /\ Len(s) \in Nat
         /\ DOMAIN s = 1 .. Len(s) /\ DOMAIN t = DOMAIN s \cup {Len(s) + 1}
         /\ \A k \in DOMAIN s : t[k] = s[k] /\ k < Len(s) + 1
         /\ t[Len(s) + 1] = x /\ Len(s) + 1 \notin DOMAIN s
<1>1. s \in Seq(S \cup {x})
  BY SeqMonotonic
<1>2. /\ t \in Seq(S \cup {x}) /\ Len(t) = Len(s) + 1
      /\ \A i \in 1 .. Len(s) + 1 : t[i] = IF i <= Len(s) THEN s[i] ELSE x
  BY <1>1, AppendProperties
<1>3. PICK n \in Nat : n = Len(s)
  BY LenProperties
<1>4. DOMAIN s = 1 .. n /\ DOMAIN t = 1 .. n + 1
  BY <1>2, <1>3, LenProperties
<1>5. 1 .. n + 1 = 1 .. n \cup {n + 1} /\ n + 1 \notin 1 .. n
  OBVIOUS
<1>6. \A i \in 1 .. n + 1 : t[i] = IF i <= n THEN s[i] ELSE x
  BY <1>2, <1>3
<1>7. (\A k \in 1 .. n : t[k] = s[k] /\ k < n + 1) /\ t[n + 1] = x
  <2>1. /\ \A k \in 1 .. n : k \in 1 .. n + 1 /\ k <= n /\ k < n + 1
        /\ n + 1 \in 1 .. n + 1 /\ ~(n + 1 <= n)
    OBVIOUS
  <2> QED  BY <1>6, <2>1
<1> QED  BY <1>2, <1>3, <1>4, <1>5, <1>7

\* A row that is a problem changes nothing.
LEMMA ProblemPlaced ==
  ASSUME RecordsPlaced, NEW S, rows \in Seq(S), NEW x, rows' = Append(rows, x), x.record.bin = <<>>,
         report'.records = report.records
  PROVE  RecordsPlaced'
<1>1. /\ DOMAIN rows' = DOMAIN rows \cup {Len(rows) + 1}
      /\ \A k \in DOMAIN rows : rows'[k] = rows[k]
      /\ rows'[Len(rows) + 1] = x
  BY OneMore
<1>2. Facts' = Facts /\ Facts \subseteq DOMAIN rows
  BY <1>1 DEF Facts
<1>3. \A j, k \in Facts : Restates(j, k)' <=> Restates(j, k)
  BY <1>1, <1>2 DEF Restates
<1>4. \A k \in Facts : (FirstOf(k)' <=> FirstOf(k)) /\ (LastOf(k)' <=> LastOf(k))
  BY <1>2, <1>3 DEF FirstOf, LastOf
<1>5. Firsts' = Firsts /\ Firsts \subseteq Facts
  BY <1>2, <1>4 DEF Firsts
<1>6. \A k : Place(k)' = Place(k)
  BY <1>5 DEF Place
<1> QED  BY <1>1, <1>2, <1>3, <1>4, <1>5, <1>6 DEF RecordsPlaced

\* A row that asserts something is a fact, and what was said before is as it was.
LEMMA NewFact ==
  ASSUME NEW S, rows \in Seq(S), NEW x, rows' = Append(rows, x), x.record.bin # <<>>,
         NEW n, n = Len(rows) + 1
  PROVE  /\ n \in Nat /\ n \notin Facts /\ Facts' = Facts \cup {n}
         /\ \A k \in Facts : k \in Nat /\ k < n /\ rows'[k] = rows[k]
         /\ rows'[n] = x
         /\ \A j, k \in Facts : Restates(j, k)' <=> Restates(j, k)
         /\ Firsts \subseteq Facts
<1>1. /\ Len(rows) \in Nat /\ DOMAIN rows = 1 .. Len(rows)
      /\ DOMAIN rows' = DOMAIN rows \cup {n}
      /\ \A k \in DOMAIN rows : rows'[k] = rows[k] /\ k < n
      /\ rows'[n] = x /\ n \notin DOMAIN rows
  BY OneMore
<1>2. n \in Nat /\ DOMAIN rows \subseteq Nat
  BY <1>1
<1>3. Facts \subseteq DOMAIN rows /\ Facts' = Facts \cup {n}
  BY <1>1 DEF Facts
<1> QED  BY <1>1, <1>2, <1>3 DEF Restates, Firsts

\* The facts are finitely many.
LEMMA FactsAreFinite ==
  ASSUME NEW S, rows \in Seq(S)
  PROVE  IsFiniteSet(Firsts) /\ Firsts \subseteq Facts /\ Facts \subseteq 1 .. Len(rows)
<1>1. DOMAIN rows = 1 .. Len(rows) /\ Len(rows) \in Nat
  BY LenProperties
<1>2. Firsts \subseteq Facts /\ Facts \subseteq 1 .. Len(rows)
  BY <1>1 DEF Firsts, Facts
<1>3. IsFiniteSet(1 .. Len(rows))
  BY <1>1, FS_Interval
<1> QED  BY <1>2, <1>3, FS_Subset

\* The records with r in the place of those that assert the same.
Restated(records, r) ==
  [k \in DOMAIN records |-> IF SameFact(records[k], r) THEN r ELSE records[k]]

\* A row that restates a record takes its place.
LEMMA RestatedPlaced ==
  ASSUME RecordsPlaced, NEW S, rows \in Seq(S), NEW x, rows' = Append(rows, x), x.record.bin # <<>>,
         NEW p \in DOMAIN report.records, SameFact(report.records[p], x.record),
         report'.records = Restated(report.records, x.record),
         Len(report'.records) = Len(report.records)
  PROVE  RecordsPlaced'
<1>1. PICK n : n = Len(rows) + 1
  OBVIOUS
<1>2. /\ n \in Nat /\ n \notin Facts /\ Facts' = Facts \cup {n}
      /\ \A k \in Facts : k \in Nat /\ k < n /\ rows'[k] = rows[k]
      /\ rows'[n] = x /\ Firsts \subseteq Facts
      /\ \A j, k \in Facts : Restates(j, k)' <=> Restates(j, k)
  BY <1>1, NewFact
<1>3. PICK f \in Firsts : Place(f) = p /\ SameFact(rows[f].record, x.record)
  <2>1. PICK f \in Firsts : Place(f) = p
    BY DEF RecordsPlaced
  <2>2. SameFact(report.records[p], rows[f].record)
    BY <2>1 DEF RecordsPlaced
  <2> QED  BY <2>1, <2>2 DEF SameFact
<1>4. Restates(f, n)' /\ Restates(n, f)'
  BY <1>2, <1>3 DEF Restates, SameFact
<1>5. ~FirstOf(n)' /\ \A k \in Facts : FirstOf(k)' <=> FirstOf(k)
  <2>1. ~FirstOf(n)'
    BY <1>2, <1>3, <1>4 DEF FirstOf
  <2>2. ASSUME NEW k \in Facts PROVE FirstOf(k)' <=> FirstOf(k)
    <3>1. n >= k
      BY <1>2, <2>2
    <3> QED  BY <1>2, <2>2, <3>1 DEF FirstOf
  <2> QED  BY <2>1, <2>2
<1>6. Firsts' = Firsts
  BY <1>2, <1>5 DEF Firsts
<1>7. \A k : Place(k)' = Place(k)
  BY <1>6 DEF Place
<1>8. \A k \in Firsts : /\ Place(k)' \in DOMAIN report'.records
                       /\ SameFact(report'.records[Place(k)'], rows'[k].record)
  BY <1>2, <1>7, ZenonT(60) DEF RecordsPlaced, SameFact, Restated
<1>9. \A j \in Facts' : \E k \in Firsts : Restates(j, k)'
  BY <1>2, <1>3, <1>4 DEF RecordsPlaced
<1>10. ASSUME NEW k \in Firsts, NEW j \in Facts', Restates(j, k)', LastOf(j)'
       PROVE  report'.records[Place(k)'] = rows'[j].record
  <2>1. CASE Restates(n, k)'
    <3>1. Restates(n, j)'
      BY <1>10, <2>1 DEF Restates, SameFact
    <3>2. n <= j
      BY <1>2, <1>10, <3>1 DEF LastOf
    <3>3. j = n
      BY <1>2, <1>10, <3>2
    <3>4. SameFact(report.records[Place(k)], x.record)
      <4>1. SameFact(report.records[Place(k)], rows[k].record)
        BY <1>10 DEF RecordsPlaced
      <4>2. SameFact(x.record, rows[k].record)
        BY <1>2, <1>10, <2>1 DEF Restates
      <4> QED  BY <4>1, <4>2 DEF SameFact
    <3> QED  BY <1>2, <1>7, <1>10, <3>3, <3>4 DEF RecordsPlaced, Restated
  <2>2. CASE ~Restates(n, k)'
    <3>1. j \in Facts
      BY <1>2, <1>10, <2>2
    <3>2. Restates(j, k) /\ LastOf(j)
      BY <1>2, <1>10, <3>1 DEF LastOf
    <3>3. ~SameFact(report.records[Place(k)], x.record)
      <4>1. SameFact(report.records[Place(k)], rows[k].record)
        BY <1>10 DEF RecordsPlaced
      <4>2. ~SameFact(x.record, rows[k].record)
        BY <1>2, <1>10, <2>2 DEF Restates
      <4> QED  BY <4>1, <4>2 DEF SameFact
    <3>4. Place(k)' = Place(k) /\ Place(k) \in DOMAIN report.records /\ rows'[j] = rows[j]
      BY <1>2, <1>7, <1>10, <3>1 DEF RecordsPlaced
    <3>5. report.records[Place(k)] = rows[j].record
      BY <1>10, <3>1, <3>2 DEF RecordsPlaced
    <3>6. report'.records[Place(k)] = report.records[Place(k)]
      BY <3>3, <3>4 DEF Restated
    <3> QED  BY <3>4, <3>5, <3>6
  <2> QED  BY <2>1, <2>2
<1>11. Len(report'.records) = Cardinality(Firsts') /\ DOMAIN report'.records = DOMAIN report.records
  BY <1>6 DEF RecordsPlaced
<1>12. \A q \in DOMAIN report'.records : \E k \in Firsts' : Place(k)' = q
  BY <1>6, <1>7, <1>11 DEF RecordsPlaced
<1> QED  BY <1>6, <1>8, <1>9, <1>10, <1>11, <1>12 DEF RecordsPlaced

\* A row that asserts something new is the last of the facts.
LEMMA NewPlaced ==
  ASSUME RecordsPlaced, NEW S, rows \in Seq(S), NEW x, rows' = Append(rows, x), x.record.bin # <<>>,
         NEW R, report.records \in Seq(R),
         \A p \in DOMAIN report.records : ~SameFact(report.records[p], x.record),
         report'.records = Append(report.records, x.record)
  PROVE  RecordsPlaced'
<1>1. PICK n : n = Len(rows) + 1
  OBVIOUS
<1>2. /\ n \in Nat /\ n \notin Facts /\ Facts' = Facts \cup {n}
      /\ \A k \in Facts : k \in Nat /\ k < n /\ rows'[k] = rows[k]
      /\ rows'[n] = x /\ Firsts \subseteq Facts
      /\ \A j, k \in Facts : Restates(j, k)' <=> Restates(j, k)
  BY <1>1, NewFact
<1>3. \A j \in Facts : ~Restates(j, n)' /\ ~Restates(n, j)'
  <2>1. ASSUME NEW j \in Facts PROVE ~SameFact(rows[j].record, x.record)
    <3>1. PICK k \in Firsts : Restates(j, k)
      BY <2>1 DEF RecordsPlaced
    <3>2. ~SameFact(report.records[Place(k)], x.record)
      BY DEF RecordsPlaced
    <3> QED  BY <3>1, <3>2 DEF RecordsPlaced, Restates, SameFact
  <2> QED  BY <1>2, <2>1 DEF Restates, SameFact
<1>4. FirstOf(n)' /\ \A k \in Facts : FirstOf(k)' <=> FirstOf(k)
  BY <1>2, <1>3 DEF FirstOf
<1>5. Firsts' = Firsts \cup {n} /\ n \notin Firsts
  BY <1>2, <1>4 DEF Firsts
<1>6. Cardinality(Firsts') = Cardinality(Firsts) + 1 /\ Cardinality(Firsts) \in Nat
  BY <1>5, FactsAreFinite, FS_AddElement, FS_CardinalityType
<1>7. \A k \in Firsts : Place(k)' = Place(k)
  <2>1. ASSUME NEW k \in Firsts PROVE {j \in Firsts' : j <= k} = {j \in Firsts : j <= k}
    BY <1>2, <1>5, <2>1
  <2> QED  BY <2>1 DEF Place
<1>8. Place(n)' = Cardinality(Firsts) + 1
  <2>1. {j \in Firsts' : j <= n} = Firsts'
    BY <1>2, <1>5
  <2> QED  BY <1>6, <2>1 DEF Place
<1>9. /\ Len(report'.records) = Len(report.records) + 1 /\ Len(report.records) \in Nat
      /\ DOMAIN report'.records = DOMAIN report.records \cup {Len(report.records) + 1}
      /\ \A k \in DOMAIN report.records : report'.records[k] = report.records[k]
      /\ report'.records[Len(report.records) + 1] = x.record
  BY OneMore
<1>10. /\ Place(n)' \in DOMAIN report'.records /\ report'.records[Place(n)'] = x.record
       /\ Place(n)' = Len(report.records) + 1
  BY <1>8, <1>9 DEF RecordsPlaced
<1>11. \A k \in Firsts' : /\ Place(k)' \in DOMAIN report'.records
                         /\ SameFact(report'.records[Place(k)'], rows'[k].record)
  <2>1. ASSUME NEW k \in Firsts
        PROVE  /\ Place(k)' \in DOMAIN report'.records
               /\ SameFact(report'.records[Place(k)'], rows'[k].record)
    <3>1. Place(k) \in DOMAIN report.records /\ SameFact(report.records[Place(k)], rows[k].record)
      BY <2>1 DEF RecordsPlaced
    <3>2. report'.records[Place(k)'] = report.records[Place(k)] /\ rows'[k] = rows[k]
      BY <1>2, <1>7, <1>9, <2>1, <3>1
    <3> QED  BY <1>7, <1>9, <2>1, <3>1, <3>2
  <2>2. SameFact(report'.records[Place(n)'], rows'[n].record)
    BY <1>2, <1>10 DEF SameFact
  <2> QED  BY <1>5, <1>10, <2>1, <2>2
<1>12. \A j \in Facts' : \E k \in Firsts' : Restates(j, k)'
  <2>1. Restates(n, n)'
    BY DEF Restates, SameFact
  <2>2. ASSUME NEW j \in Facts PROVE \E k \in Firsts' : Restates(j, k)'
    <3>1. PICK k \in Firsts : Restates(j, k)
      BY <2>2 DEF RecordsPlaced
    <3> QED  BY <1>2, <1>5, <2>2, <3>1
  <2> QED  BY <1>2, <1>5, <2>1, <2>2
<1>13. ASSUME NEW k \in Firsts', NEW j \in Facts', Restates(j, k)', LastOf(j)'
       PROVE  report'.records[Place(k)'] = rows'[j].record
  <2>1. CASE k = n
    BY <1>2, <1>3, <1>10, <1>13, <2>1
  <2>2. CASE k \in Firsts
    <3>1. j \in Facts
      BY <1>2, <1>3, <1>13, <2>2
    <3>2. Restates(j, k) /\ LastOf(j)
      BY <1>2, <1>13, <2>2, <3>1 DEF LastOf
    <3>3. report.records[Place(k)] = rows[j].record /\ Place(k) \in DOMAIN report.records
      BY <2>2, <3>1, <3>2 DEF RecordsPlaced
    <3>4. report'.records[Place(k)'] = report.records[Place(k)] /\ rows'[j] = rows[j]
      BY <1>2, <1>7, <1>9, <2>2, <3>1, <3>3
    <3> QED  BY <3>3, <3>4
  <2> QED  BY <1>5, <2>1, <2>2
<1>14. \A q \in DOMAIN report'.records : \E k \in Firsts' : Place(k)' = q
  BY <1>5, <1>7, <1>9, <1>10 DEF RecordsPlaced
<1>15. Len(report'.records) = Cardinality(Firsts')
  BY <1>6, <1>9 DEF RecordsPlaced
<1> QED  BY <1>11, <1>12, <1>13, <1>14, <1>15 DEF RecordsPlaced

--------------------------------------------------------------------------------
\* The reader of list files

FolderInv == folder \in [Datasets -> {"shipped", "edited", "absent"}] /\ deleted \subseteq Datasets

IsReader(r) ==
  r = [state |-> r.state, file |-> r.file, line |-> r.line, columns |-> r.columns,
       directives |-> r.directives, pad |-> r.pad, asked |-> r.asked, trust |-> r.trust,
       headers |-> r.headers]

\* What the reader was told about lost zeros is in force for one file only.
PadTold(r) == r.pad = TRUE => "pad" \in DOMAIN r.directives \/ r.asked = TRUE

ReaderOK(r) ==
  /\ IsReader(r) /\ PadTold(r)
  /\ r.state \in {"idle", "reading", "refused"}
  /\ r.file \in 0 .. MaxFiles /\ r.line \in 0 .. MaxLines
  /\ r.pad \in BOOLEAN /\ r.asked \in BOOLEAN /\ r.trust \in Trusts

ReaderInv == ReaderOK(reader) /\ (reader.state = "reading" => Sources <= MaxFiles)

\* What directives say about lost zeros.
LEMMA PadIsTold ==
  ASSUME NEW directives, NEW asked \in BOOLEAN
  PROVE  /\ PadOf(directives, asked) \in BOOLEAN
         /\ PadOf(directives, asked) = TRUE => "pad" \in DOMAIN directives \/ asked = TRUE
BY Zenon DEF PadOf

\* What they say about confidence, unless they are refused.
LEMMA TrustIsOne ==
  ASSUME NEW directives, ~Refused(directives)
  PROVE  TrustOf(directives) \in Trusts
BY Zenon DEF Refused, TrustOf, Trusts

\* The files are finitely many.
LEMMA SourcesCounted == Sources \in Nat
<1>1. IsFiniteSet({d \in Datasets : folder[d] # "absent"})
  BY FilesAssumption, FS_Subset
<1> QED  BY <1>1, FS_CardinalityType DEF Sources

\* Nobody reads.
LEMMA IdleReader ==
  ASSUME NEW r, r = NoReader
  PROVE  ReaderOK(r) /\ r.state = "idle"
<1>1. PICK directives : directives = <<>>
  OBVIOUS
<1>2. r = [state |-> "idle", file |-> 0, line |-> 0, columns |-> <<>>, directives |-> directives,
           pad |-> FALSE, asked |-> FALSE, trust |-> "high", headers |-> 0]
  BY <1>1 DEF NoReader
<1>3. r.pad = FALSE /\ r.asked = FALSE /\ r.state = "idle" /\ r.trust = "high"
  BY <1>2
<1>4. r.file = 0 /\ r.line = 0 /\ r.headers = 0
  BY <1>2
<1>5. IsReader(r)
  BY <1>2 DEF IsReader
<1>6. PadTold(r)
  BY <1>3 DEF PadTold
<1>7. r.file \in 0 .. MaxFiles /\ r.line \in 0 .. MaxLines
  BY <1>4, FilesAssumption
<1> QED  BY <1>3, <1>5, <1>6, <1>7 DEF ReaderOK, Trusts

\* The list is refused.
LEMMA RefusedReader ==
  ASSUME NEW r, r = [NoReader EXCEPT !.state = "refused"]
  PROVE  ReaderOK(r) /\ r.state = "refused"
<1>1. r = [state |-> "refused", file |-> 0, line |-> 0, columns |-> <<>>, directives |-> <<>>,
           pad |-> FALSE, asked |-> FALSE, trust |-> "high", headers |-> 0]
  BY DEF NoReader
<1>2. r.pad = FALSE /\ r.asked = FALSE /\ r.state = "refused" /\ r.trust = "high"
  BY <1>1
<1>3. r.file = 0 /\ r.line = 0 /\ r.headers = 0
  BY <1>1
<1>4. IsReader(r)
  BY <1>1 DEF IsReader
<1>5. PadTold(r)
  BY <1>2 DEF PadTold
<1>6. r.file \in 0 .. MaxFiles /\ r.line \in 0 .. MaxLines
  BY <1>3, FilesAssumption
<1> QED  BY <1>2, <1>4, <1>5, <1>6 DEF ReaderOK, Trusts

\* A file is opened with what is said beside it, and with nothing of the file before.
LEMMA OpenedReader ==
  ASSUME NEW from, NEW sidecar, ~Refused(sidecar), from.asked \in BOOLEAN, from.file \in Nat,
         from.file + 1 \in 0 .. MaxFiles, NEW r, r = Opened(from, sidecar)
  PROVE  ReaderOK(r)
<1>1. PICK pad \in BOOLEAN :
        pad = PadOf(sidecar, from.asked) /\ (pad = TRUE => "pad" \in DOMAIN sidecar \/ from.asked = TRUE)
  BY PadIsTold
<1>2. PICK trust \in Trusts : trust = TrustOf(sidecar)
  BY TrustIsOne
<1>3. r = [state |-> "reading", file |-> from.file + 1, line |-> 0, columns |-> <<>>,
           directives |-> sidecar, pad |-> pad, asked |-> from.asked, trust |-> trust,
           headers |-> from.headers]
  BY <1>1, <1>2 DEF Opened, NoReader
<1>4. PadTold(r)
  BY <1>1, <1>3 DEF PadTold
<1> QED  BY <1>3, <1>4, FilesAssumption DEF ReaderOK, IsReader

\* A directive adds to what is said.
LEMMA DirectiveStays ==
  ASSUME ReaderInv, NEW line \in Lines, ReadDirective(line)
  PROVE  ReaderInv'
<1> DEFINE directives == [name \in DOMAIN reader.directives \cup {Canonical(line.name)} |->
                            IF name = Canonical(line.name) THEN line.value
                            ELSE reader.directives[name]]
<1>1. reader' = [reader EXCEPT !.line = @ + 1, !.directives = directives]
  BY DEF ReadDirective
<1>2. DOMAIN reader.directives \subseteq DOMAIN directives
  OBVIOUS
<1> HIDE DEF directives
<1>3. reader' = [state |-> reader.state, file |-> reader.file, line |-> reader.line + 1,
                 columns |-> reader.columns, directives |-> directives, pad |-> reader.pad,
                 asked |-> reader.asked, trust |-> reader.trust, headers |-> reader.headers]
  BY <1>1 DEF ReaderInv, ReaderOK, IsReader
<1>4. reader.line + 1 \in 0 .. MaxLines
  BY FilesAssumption DEF ReadDirective, ReaderInv, ReaderOK
<1>5. PadTold(reader')
  BY <1>2, <1>3 DEF PadTold, ReaderInv, ReaderOK
<1>6. Sources' = Sources
  BY DEF ReadDirective, Sources
<1> QED  BY <1>3, <1>4, <1>5, <1>6 DEF ReaderInv, ReaderOK, IsReader

\* A header puts in force what is said above it.
LEMMA HeaderStays ==
  ASSUME ReaderInv, NEW line \in Lines, ReadHeader(line)
  PROVE  ReaderInv'
<1>1. Sources' = Sources
  BY DEF ReadHeader, Sources
<1>2. CASE Unreadable(line.cells, reader.directives) \/ Refused(reader.directives)
  BY <1>2, RefusedReader DEF ReadHeader, ReaderInv
<1>3. CASE ~Refused(reader.directives) /\ ~Unreadable(line.cells, reader.directives)
  <2>1. PICK pad \in BOOLEAN :
          /\ pad = PadOf(reader.directives, reader.asked)
          /\ pad = TRUE => "pad" \in DOMAIN reader.directives \/ reader.asked = TRUE
    BY PadIsTold DEF ReaderInv, ReaderOK
  <2>2. PICK trust \in Trusts : trust = TrustOf(reader.directives)
    BY <1>3, TrustIsOne
  <2>3. PICK columns, headers :
          reader' = [reader EXCEPT !.line = @ + 1, !.headers = headers, !.columns = columns,
                                   !.trust = trust, !.pad = pad]
    BY <1>3, <2>1, <2>2 DEF ReadHeader
  <2>4. reader' = [state |-> reader.state, file |-> reader.file, line |-> reader.line + 1,
                   columns |-> columns, directives |-> reader.directives, pad |-> pad,
                   asked |-> reader.asked, trust |-> trust, headers |-> headers]
    BY <2>3 DEF ReaderInv, ReaderOK, IsReader
  <2>5. reader.line + 1 \in 0 .. MaxLines
    BY FilesAssumption DEF ReadHeader, ReaderInv, ReaderOK
  <2>6. PadTold(reader')
    BY <2>1, <2>4 DEF PadTold
  <2> QED  BY <1>1, <2>4, <2>5, <2>6 DEF ReaderInv, ReaderOK, IsReader
<1> QED  BY <1>2, <1>3

\* A row is read on the way.
LEMMA RowLeavesReader ==
  ASSUME ReaderInv, NEW line \in Lines, ReadRow(line)
  PROVE  ReaderInv'
<1>1. Sources' = Sources
  BY DEF ReadRow, Sources
<1>2. reader' = [state |-> reader.state, file |-> reader.file, line |-> reader.line + 1,
                 columns |-> reader.columns, directives |-> reader.directives, pad |-> reader.pad,
                 asked |-> reader.asked, trust |-> reader.trust, headers |-> reader.headers]
  BY DEF ReadRow, ReaderInv, ReaderOK, IsReader
<1>3. reader.line + 1 \in 0 .. MaxLines
  BY FilesAssumption DEF ReadRow, ReaderInv, ReaderOK
<1>4. PadTold(reader')
  BY <1>2 DEF PadTold, ReaderInv, ReaderOK
<1> QED  BY <1>1, <1>2, <1>3, <1>4 DEF ReaderInv, ReaderOK, IsReader

\* Every step of the reader and of the user leaves the reader and the files in order.
LEMMA ReaderStays ==
  ASSUME FolderInv, ReaderInv, [ListNext]_listVars
  PROVE  FolderInv' /\ ReaderInv'
<1>1. CASE \E d \in Datasets : SeedFails(d) \/ Edit(d) \/ Delete(d)
  <2>1. PICK d \in Datasets : SeedFails(d) \/ Edit(d) \/ Delete(d)
    BY <1>1
  <2>2. reader' = reader /\ reader.state = "idle"
    BY <2>1 DEF SeedFails, Edit, Delete
  <2>3. FolderInv'
    BY <2>1 DEF FolderInv, SeedFails, Edit, Delete
  <2> QED  BY <2>2, <2>3 DEF ReaderInv
<1>2. CASE Seed
  <2>1. reader' = reader /\ reader.state = "idle"
    BY <1>2 DEF Seed
  <2>2. FolderInv'
    BY <1>2 DEF FolderInv, Seed
  <2> QED  BY <2>1, <2>2 DEF ReaderInv
<1>3. ASSUME NEW asked \in BOOLEAN, NEW sidecar \in Sidecars, Begin(asked, sidecar)
      PROVE  FolderInv' /\ ReaderInv'
  <2>1. FolderInv' /\ Sources' = Sources /\ Sources <= MaxFiles
    BY <1>3 DEF Begin, FolderInv, Sources
  <2>2. CASE Refused(sidecar)
    BY <1>3, <2>1, <2>2, RefusedReader DEF Begin, ReaderInv
  <2>3. CASE ~Refused(sidecar)
    <3>1. PICK from : from = [NoReader EXCEPT !.asked = asked]
      OBVIOUS
    <3>2. from.asked = asked /\ from.file = 0
      BY <3>1 DEF NoReader
    <3>3. reader' = Opened(from, sidecar)
      BY <1>3, <2>3, <3>1 DEF Begin
    <3>4. 0 + 1 \in 0 .. MaxFiles
      BY FilesAssumption
    <3>5. ReaderOK(reader')
      BY <2>3, <3>2, <3>3, <3>4, OpenedReader
    <3> QED  BY <2>1, <3>5 DEF ReaderInv
  <2> QED  BY <2>2, <2>3
<1>4. ASSUME NEW sidecar \in Sidecars, NextFile(sidecar)
      PROVE  FolderInv' /\ ReaderInv'
  <2>1. FolderInv' /\ Sources' = Sources /\ Sources <= MaxFiles /\ reader.file < Sources
    BY <1>4 DEF NextFile, FolderInv, Sources, ReaderInv
  <2>2. CASE Refused(sidecar)
    BY <1>4, <2>1, <2>2, RefusedReader DEF NextFile, ReaderInv
  <2>3. CASE ~Refused(sidecar)
    <3>1. reader.file + 1 \in 0 .. MaxFiles /\ reader.file \in Nat
      BY <2>1, SourcesCounted, FilesAssumption DEF ReaderInv, ReaderOK
    <3>2. ReaderOK(reader')
      BY <1>4, <2>3, <3>1, OpenedReader DEF NextFile, ReaderInv, ReaderOK
    <3> QED  BY <2>1, <3>2 DEF ReaderInv
  <2> QED  BY <2>2, <2>3
<1>5. ASSUME NEW x \in Lines, ReadDirective(x) \/ ReadHeader(x) \/ ReadRow(x)
      PROVE  FolderInv' /\ ReaderInv'
  <2>1. FolderInv'
    BY <1>5 DEF ReadDirective, ReadHeader, ReadRow, FolderInv
  <2> QED  BY <1>5, <2>1, DirectiveStays, HeaderStays, RowLeavesReader
<1>6. CASE End \/ GiveUp
  <2>1. FolderInv'
    BY <1>6 DEF End, GiveUp, FolderInv
  <2>2. reader' = NoReader \/ reader' = [NoReader EXCEPT !.state = "refused"]
    BY <1>6 DEF End, GiveUp
  <2> QED  BY <2>1, <2>2, IdleReader, RefusedReader DEF ReaderInv
<1>7. CASE UNCHANGED listVars
  BY <1>7 DEF listVars, FolderInv, ReaderInv, Sources
<1> QED  BY <1>1, <1>2, <1>3, <1>4, <1>5, <1>6, <1>7 DEF ListNext

--------------------------------------------------------------------------------
\* What was read

ReportInv ==
  /\ report = [records |-> report.records, problems |-> report.problems,
               duplicates |-> report.duplicates, padded |-> report.padded,
               unnamed |-> report.unnamed]
  /\ report.problems \in Nat /\ report.duplicates \in Nat
  /\ Len(rows) = Len(report.records) + report.problems + report.duplicates
  /\ \E S : report.records \in Seq(S)
  /\ \E S : rows \in Seq(S)
  /\ \A k \in DOMAIN report.records :
       /\ IsRecord(report.records[k])
       /\ Len(report.records[k].bin) \in MinBin .. LongBin

ListInv == FolderInv /\ ReaderInv /\ ReportInv /\ NoDigitsMadeUp /\ RecordsPlaced

\* Nothing has been read.
LEMMA NothingRead ==
  ASSUME report' = NoReport, rows' = <<>>
  PROVE  ReportInv' /\ NoDigitsMadeUp' /\ RecordsPlaced'
<1>1. /\ <<>> \in Seq({}) /\ Len(<<>>) = 0 /\ DOMAIN <<>> = {}
  BY EmptySeq
<1>2. report' = [records |-> <<>>, problems |-> 0, duplicates |-> 0, padded |-> 0, unnamed |-> 0]
  BY DEF NoReport
<1>3. Facts' = {} /\ Firsts' = {}
  BY <1>1 DEF Facts, Firsts
<1>4. Cardinality(Firsts') = 0
  BY <1>3, FS_EmptySet
<1>5. ReportInv'
  BY <1>1, <1>2 DEF ReportInv
<1> QED  BY <1>1, <1>2, <1>3, <1>4, <1>5 DEF NoDigitsMadeUp, RecordsPlaced

\* A row that asserts what records say takes their place.
LEMMA RestatedRow ==
  ASSUME NEW S, NEW records \in Seq(S), NEW r,
         NEW p \in DOMAIN records, SameFact(records[p], r)
  PROVE  /\ Recorded(records, r) = Restated(records, r)
         /\ Restated(records, r) \in Seq(S \cup {r})
         /\ Len(Restated(records, r)) = Len(records)
         /\ \A k \in DOMAIN Restated(records, r) :
              Restated(records, r)[k] = r \/ \E j \in DOMAIN records : Restated(records, r)[k] = records[j]
<1>1. PICK n \in Nat : n = Len(records) /\ DOMAIN records = 1 .. n /\ \A k \in 1 .. n : records[k] \in S
  BY LenProperties, ElementOfSeq
<1>2. Recorded(records, r) = Restated(records, r)
  BY DEF Recorded, Restated
<1>3. Restated(records, r) \in [1 .. n -> S \cup {r}]
  BY <1>1 DEF Restated
<1>4. Restated(records, r) \in Seq(S \cup {r}) /\ Len(Restated(records, r)) = n
  BY <1>3, SeqOfFunction
<1>5. \A k \in DOMAIN Restated(records, r) :
        Restated(records, r)[k] = r \/ \E j \in DOMAIN records : Restated(records, r)[k] = records[j]
  BY DEF Restated
<1> QED  BY <1>1, <1>2, <1>4, <1>5

\* Any other row is put behind them.
LEMMA NewRow ==
  ASSUME NEW S, NEW records \in Seq(S), NEW r, NEW t, t = Append(records, r)
  PROVE  /\ t \in Seq(S \cup {r}) /\ Len(t) = Len(records) + 1
         /\ \A k \in DOMAIN t : t[k] = r \/ \E j \in DOMAIN records : t[k] = records[j]
<1>1. /\ t \in Seq(S \cup {r}) /\ Len(t) = Len(records) + 1
      /\ DOMAIN t = DOMAIN records \cup {Len(records) + 1}
      /\ \A k \in DOMAIN records : t[k] = records[k]
      /\ t[Len(records) + 1] = r
  BY OneMore
<1> QED  BY <1>1

\* A row is read.
LEMMA RowRead ==
  ASSUME ListInv, NEW line \in Lines, ReadRow(line)
  PROVE  ReportInv' /\ NoDigitsMadeUp' /\ RecordsPlaced'
<1> DEFINE digits == ValueOf(line.cells, reader.columns, "bin").digits
<1>1. PICK r : r = RecordOf(line.cells)
  OBVIOUS
<1>2. PICK x : x = [record |-> r, file |-> reader.file, digits |-> digits,
                    says |-> reader.directives, asked |-> reader.asked]
  OBVIOUS
<1>3. rows' = Append(rows, x)
  BY <1>1, <1>2 DEF ReadRow
<1> DEFINE padded  == report.padded + (IF r.bin # digits THEN 1 ELSE 0)
           unnamed == report.unnamed + (IF r.bank = "unnamed" THEN 1 ELSE 0)
<1>4. report' = IF r.bin = <<>> THEN [report EXCEPT !.problems = @ + 1]
                 ELSE [report EXCEPT
                   !.records = Recorded(@, r),
                   !.duplicates = @ + (IF Len(Recorded(report.records, r)) = Len(report.records)
                                         THEN 1 ELSE 0),
                   !.padded = padded, !.unnamed = unnamed]
  BY <1>1 DEF ReadRow
<1> HIDE DEF padded, unnamed
<1>5. /\ IsRecord(r)
      /\ r.bin # <<>> => Len(r.bin) \in MinBin .. LongBin
      /\ r.bin # <<>> /\ r.bin # digits =>
           reader.pad /\ Len(digits) \in 1 .. MinBin - 1 \cup {LongBin - 1}
  <2>1. DOMAIN line.cells \subseteq Nat /\ \A k \in DOMAIN line.cells : IsCell(line.cells[k])
    BY LineAssumption DEF ReadRow
  <2>2. reader.pad \in BOOLEAN /\ reader.trust \in Trusts
    BY DEF ListInv, ReaderInv, ReaderOK
  <2> QED  BY <1>1, <2>1, <2>2, RecordOfRow
<1>6. x.record = r /\ x.digits = digits /\ x.says = reader.directives /\ x.asked = reader.asked
  BY <1>2
<1> HIDE DEF digits
<1>7. PICK S : rows \in Seq(S)
  BY DEF ListInv, ReportInv
<1>8. PICK R : report.records \in Seq(R)
  BY DEF ListInv, ReportInv
<1>9. /\ Len(rows') = Len(rows) + 1 /\ Len(rows) \in Nat /\ rows' \in Seq(S \cup {x})
      /\ DOMAIN rows' = DOMAIN rows \cup {Len(rows) + 1}
      /\ \A k \in DOMAIN rows : rows'[k] = rows[k]
      /\ rows'[Len(rows) + 1] = x
  BY <1>3, <1>7, OneMore
<1>10. NoDigitsMadeUp'
  <2>1. ASSUME NEW k \in Facts', k \in DOMAIN rows, rows'[k].record.bin # rows'[k].digits
        PROVE  /\ Len(rows'[k].digits) \in 1 .. MinBin - 1 \cup {LongBin - 1}
               /\ "pad" \in DOMAIN rows'[k].says \/ rows'[k].asked
    <3>1. k \in Facts /\ rows'[k] = rows[k]
      BY <1>9, <2>1 DEF Facts
    <3> QED  BY <2>1, <3>1 DEF ListInv, NoDigitsMadeUp
  <2>2. ASSUME r.bin # <<>>, r.bin # digits
        PROVE  /\ Len(digits) \in 1 .. MinBin - 1 \cup {LongBin - 1}
               /\ "pad" \in DOMAIN reader.directives \/ reader.asked
    <3>1. reader.pad = TRUE
      BY <1>5, <2>2 DEF ListInv, ReaderInv, ReaderOK
    <3> QED  BY <1>5, <2>2, <3>1 DEF ListInv, ReaderInv, ReaderOK, PadTold
  <2>3. ASSUME NEW k \in Facts', rows'[k].record.bin # rows'[k].digits
        PROVE  /\ Len(rows'[k].digits) \in 1 .. MinBin - 1 \cup {LongBin - 1}
               /\ "pad" \in DOMAIN rows'[k].says \/ rows'[k].asked
    <3>1. CASE k \in DOMAIN rows
      BY <2>1, <2>3, <3>1
    <3>2. CASE k = Len(rows) + 1
      <4>1. rows'[k] = x /\ r.bin # <<>>
        BY <1>6, <1>9, <2>3, <3>2 DEF Facts
      <4> QED  BY <1>6, <2>2, <2>3, <4>1
    <3> QED  BY <1>9, <2>3, <3>1, <3>2 DEF Facts
  <2> QED  BY <2>3 DEF NoDigitsMadeUp
<1>11. CASE r.bin = <<>>
  <2>1. report' = [report EXCEPT !.problems = @ + 1]
    BY <1>11, <1>4
  <2>2. report' = [records |-> report.records, problems |-> report.problems + 1,
                   duplicates |-> report.duplicates, padded |-> report.padded,
                   unnamed |-> report.unnamed]
    BY <2>1 DEF ListInv, ReportInv
  <2>3. RecordsPlaced'
    BY <1>3, <1>6, <1>7, <1>11, <2>2, ProblemPlaced DEF ListInv
  <2>4. Len(report.records) \in Nat
    BY <1>8, LenProperties
  <2>5. ReportInv'
    BY <1>9, <2>2, <2>4 DEF ListInv, ReportInv
  <2> QED  BY <1>10, <2>3, <2>5
<1>12. CASE r.bin # <<>>
  <2>1. report' = [report EXCEPT
            !.records = Recorded(@, r),
            !.duplicates = @ + (IF Len(Recorded(report.records, r)) = Len(report.records)
                                  THEN 1 ELSE 0),
            !.padded = padded, !.unnamed = unnamed]
    BY <1>12, <1>4
  <2>2. PICK t : t = Recorded(report.records, r)
    OBVIOUS
  <2>3. report' = [records |-> t, problems |-> report.problems,
                   duplicates |-> report.duplicates
                                    + (IF Len(t) = Len(report.records) THEN 1 ELSE 0),
                   padded |-> padded, unnamed |-> unnamed]
    BY <2>1, <2>2 DEF ListInv, ReportInv
  <2>4. /\ t \in Seq(R \cup {r})
        /\ \A k \in DOMAIN t : t[k] = r \/ \E j \in DOMAIN report.records : t[k] = report.records[j]
        /\ \/ /\ \E k \in DOMAIN report.records : SameFact(report.records[k], r)
              /\ t = Restated(report.records, r)
              /\ Len(t) = Len(report.records)
           \/ /\ \A k \in DOMAIN report.records : ~SameFact(report.records[k], r)
              /\ t = Append(report.records, r) /\ Len(t) = Len(report.records) + 1
    <3>1. CASE \E k \in DOMAIN report.records : SameFact(report.records[k], r)
      <4>1. PICK p \in DOMAIN report.records : SameFact(report.records[p], r)
        BY <3>1
      <4>2. PICK u : u = Restated(report.records, r)
        OBVIOUS
      <4>3. /\ t = u /\ u \in Seq(R \cup {r}) /\ Len(u) = Len(report.records)
            /\ \A k \in DOMAIN u : u[k] = r \/ \E j \in DOMAIN report.records : u[k] = report.records[j]
        BY <1>8, <2>2, <4>1, <4>2, RestatedRow, ZenonT(60)
      <4> QED  BY <3>1, <4>2, <4>3
    <3>2. CASE \A k \in DOMAIN report.records : ~SameFact(report.records[k], r)
      <4>1. PICK u : u = Append(report.records, r)
        OBVIOUS
      <4>2. /\ u = Recorded(report.records, r) /\ u \in Seq(R \cup {r}) /\ Len(u) = Len(report.records) + 1
            /\ \A k \in DOMAIN u : u[k] = r \/ \E j \in DOMAIN report.records : u[k] = report.records[j]
        <5>1. u = Recorded(report.records, r)
          BY <3>2, <4>1 DEF Recorded
        <5>2. /\ u \in Seq(R \cup {r}) /\ Len(u) = Len(report.records) + 1
              /\ \A k \in DOMAIN u : u[k] = r \/ \E j \in DOMAIN report.records : u[k] = report.records[j]
          BY <1>8, <4>1, NewRow
        <5> QED  BY <5>1, <5>2
      <4> QED  BY <2>2, <3>2, <4>1, <4>2
    <3> QED  BY <3>1, <3>2
  <2>5. report'.records = t
    BY <2>3
  <2>6. RecordsPlaced'
    BY <1>3, <1>6, <1>7, <1>8, <1>12, <2>4, <2>5, RestatedPlaced, NewPlaced DEF ListInv
  <2>7. \A k \in DOMAIN t : IsRecord(t[k]) /\ Len(t[k].bin) \in MinBin .. LongBin
    BY <1>5, <1>12, <2>4 DEF ListInv, ReportInv
  <2>8. Len(report.records) \in Nat
    BY <1>8, LenProperties
  <2>9. /\ report'.problems \in Nat /\ report'.duplicates \in Nat
        /\ Len(rows') = Len(t) + report'.problems + report'.duplicates
    <3>1. /\ report'.problems = report.problems
          /\ report'.duplicates = report.duplicates + (IF Len(t) = Len(report.records) THEN 1 ELSE 0)
      BY <2>3
    <3>2. /\ report.problems \in Nat /\ report.duplicates \in Nat
          /\ Len(rows) = Len(report.records) + report.problems + report.duplicates
      BY DEF ListInv, ReportInv
    <3>3. Len(t) = Len(report.records) \/ Len(t) = Len(report.records) + 1
      BY <2>4
    <3>4. Len(rows') = Len(rows) + 1
      BY <1>9
    <3>5. CASE Len(t) = Len(report.records)
      BY <2>8, <3>1, <3>2, <3>4, <3>5
    <3>6. CASE Len(t) = Len(report.records) + 1
      BY <2>8, <3>1, <3>2, <3>4, <3>6, SMTT(30)
    <3> QED  BY <3>3, <3>5, <3>6
  <2>10. ReportInv'
    BY <1>9, <2>3, <2>4, <2>5, <2>7, <2>9 DEF ReportInv
  <2> QED  BY <1>10, <2>6, <2>10
<1> QED  BY <1>11, <1>12

\* Every step leaves what was read in order.
LEMMA ListStays ==
  ASSUME ListInv, [ListNext]_listVars
  PROVE  ListInv'
<1>1. FolderInv' /\ ReaderInv'
  BY ReaderStays DEF ListInv
<1>2. ASSUME report' = report, rows' = rows
      PROVE  ReportInv' /\ NoDigitsMadeUp' /\ RecordsPlaced'
  <2>1. \A j, k : Restates(j, k)' <=> Restates(j, k)
    BY <1>2 DEF Restates
  <2>2. Facts' = Facts
    BY <1>2 DEF Facts
  <2>3. Firsts' = Firsts
    BY <2>1, <2>2 DEF Firsts, FirstOf
  <2>4. \A k : Place(k)' = Place(k)
    BY <2>3 DEF Place
  <2>5. \A k : LastOf(k)' <=> LastOf(k)
    BY <2>1, <2>2 DEF LastOf
  <2>6. RecordsPlaced'
    BY <1>2, <2>1, <2>2, <2>3, <2>4, <2>5 DEF ListInv, RecordsPlaced
  <2>7. NoDigitsMadeUp'
    BY <1>2, <2>2 DEF ListInv, NoDigitsMadeUp
  <2> QED  BY <1>2, <2>6, <2>7 DEF ListInv, ReportInv
<1>3. CASE (\E d \in Datasets : SeedFails(d) \/ Edit(d) \/ Delete(d)) \/ Seed
  BY <1>1, <1>2, <1>3 DEF SeedFails, Edit, Delete, Seed, ListInv
<1>4. CASE \E asked \in BOOLEAN, s \in Sidecars : Begin(asked, s)
  BY <1>1, <1>4, NothingRead DEF Begin, ListInv
<1>5. CASE \E s \in Sidecars : NextFile(s)
  BY <1>1, <1>2, <1>5 DEF NextFile, ListInv
<1>6. CASE \E x \in Lines : ReadDirective(x) \/ ReadHeader(x)
  BY <1>1, <1>2, <1>6 DEF ReadDirective, ReadHeader, ListInv
<1>7. CASE \E x \in Lines : ReadRow(x)
  BY <1>1, <1>7, RowRead DEF ListInv
<1>8. CASE End
  BY <1>1, <1>2, <1>8 DEF End, ListInv
<1>9. CASE GiveUp
  BY <1>1, <1>9, NothingRead DEF GiveUp, ListInv
<1>10. CASE UNCHANGED listVars
  BY <1>1, <1>2, <1>10 DEF listVars, ListInv
<1> QED  BY <1>3, <1>4, <1>5, <1>6, <1>7, <1>8, <1>9, <1>10 DEF ListNext

\* At the start there is nothing.
LEMMA ListHolds == ListInit => ListInv
<1> SUFFICES ASSUME ListInit PROVE ListInv
  OBVIOUS
<1>1. FolderInv
  BY DEF ListInit, FolderInv
<1>2. ReaderInv
  BY IdleReader DEF ListInit, ReaderInv
<1>3. /\ <<>> \in Seq({}) /\ Len(<<>>) = 0 /\ DOMAIN <<>> = {}
  BY EmptySeq
<1>4. report = [records |-> <<>>, problems |-> 0, duplicates |-> 0, padded |-> 0, unnamed |-> 0]
  BY DEF ListInit, NoReport
<1>5. rows = <<>> /\ Facts = {} /\ Firsts = {} /\ Cardinality({}) = 0
  BY <1>3, FS_EmptySet DEF ListInit, Facts, Firsts
<1>6. ReportInv
  BY <1>3, <1>4, <1>5 DEF ReportInv
<1>7. NoDigitsMadeUp /\ RecordsPlaced
  BY <1>3, <1>4, <1>5 DEF NoDigitsMadeUp, RecordsPlaced
<1> QED  BY <1>1, <1>2, <1>6, <1>7 DEF ListInv

\* The folder, the reader and the records it makes keep their types: a BIN is six to
\* eight digits long, and every record names a bank or says that it has none.
THEOREM ListTypes == ListSpec => []ListTypeOK
<1>1. ListInv => ListTypeOK
  BY DEF ListInv, FolderInv, ReaderInv, ReaderOK, ReportInv, IsRecord, ListTypeOK
<1> QED  BY <1>1, ListHolds, ListStays, PTL DEF ListSpec

\* The last row that asserts a fact is the one that counts, in the place of the first,
\* and every row is a record, a restatement or a problem.
THEOREM LastWordsCount == ListSpec => []LastWordCounts
<1>1. ListInv => LastWordCounts
  BY DEF ListInv, ReportInv, RecordsPlaced, LastWordCounts
<1> QED  BY <1>1, ListHolds, ListStays, PTL DEF ListSpec

\* Digits are changed only where a file or the caller says that zeros were lost.
THEOREM NothingIsMadeUp == ListSpec => []NoDigitsMadeUp
<1>1. ListInv => NoDigitsMadeUp
  BY DEF ListInv
<1> QED  BY <1>1, ListHolds, ListStays, PTL DEF ListSpec

--------------------------------------------------------------------------------
\* Sorting

\* The order of tuples, in terms of their lengths.
LEMMA LexicalForm ==
  ASSUME NEW a \in Seq(Int), NEW b \in Seq(Int)
  PROVE  \E na, nb \in Nat :
           /\ DOMAIN a = 1 .. na /\ \A k \in 1 .. na : a[k] \in Int
           /\ DOMAIN b = 1 .. nb /\ \A k \in 1 .. nb : b[k] \in Int
           /\ Len(a) = na /\ Len(b) = nb
           /\ Lexical(a, b) <=> \E k \in 1 .. nb : /\ k <= na + 1
                                                   /\ \A j \in 1 .. k - 1 : a[j] = b[j]
                                                   /\ k <= na => a[k] < b[k]
<1>1. PICK na \in Nat : na = Len(a)
  BY LenProperties
<1>2. PICK nb \in Nat : nb = Len(b)
  BY LenProperties
<1>3. DOMAIN a = 1 .. na /\ \A k \in 1 .. na : a[k] \in Int
  BY <1>1, LenProperties, ElementOfSeq
<1>4. DOMAIN b = 1 .. nb /\ \A k \in 1 .. nb : b[k] \in Int
  BY <1>2, LenProperties, ElementOfSeq
<1> QED  BY <1>1, <1>2, <1>3, <1>4 DEF Lexical

\* Nothing comes before itself.
LEMMA LexicalStrict ==
  ASSUME NEW a \in Seq(Int)
  PROVE  ~Lexical(a, a)
<1>1. PICK na, nb \in Nat :
           /\ DOMAIN a = 1 .. na /\ \A k \in 1 .. na : a[k] \in Int
           /\ DOMAIN a = 1 .. nb /\ \A k \in 1 .. nb : a[k] \in Int
           /\ Len(a) = na /\ Len(a) = nb
           /\ Lexical(a, a) <=> \E k \in 1 .. nb : /\ k <= na + 1
                                                   /\ \A j \in 1 .. k - 1 : a[j] = a[j]
                                                   /\ k <= na => a[k] < a[k]
  BY LexicalForm
<1> QED  BY <1>1

\* Of two tuples that differ, one comes before the other.
LEMMA LexicalTotal ==
  ASSUME NEW a \in Seq(Int), NEW b \in Seq(Int), a # b
  PROVE  Lexical(a, b) \/ Lexical(b, a)
<1>1. PICK na, nb \in Nat :
           /\ DOMAIN a = 1 .. na /\ \A k \in 1 .. na : a[k] \in Int
           /\ DOMAIN b = 1 .. nb /\ \A k \in 1 .. nb : b[k] \in Int
           /\ Len(a) = na /\ Len(b) = nb
           /\ Lexical(a, b) <=> \E k \in 1 .. nb : /\ k <= na + 1
                                                   /\ \A j \in 1 .. k - 1 : a[j] = b[j]
                                                   /\ k <= na => a[k] < b[k]
  BY LexicalForm
<1>2. \/ Lexical(b, a)
      \/ ~\E k \in 1 .. na : /\ k <= nb + 1 /\ \A j \in 1 .. k - 1 : b[j] = a[j]
                             /\ k <= nb => b[k] < a[k]
  BY <1>1 DEF Lexical
<1> DEFINE T == {k \in 1 .. na : k <= nb /\ a[k] # b[k]}
<1>3. CASE T # {}
  <2>1. T \in SUBSET Nat
    OBVIOUS
  <2>2. PICK k \in T : \A j \in T : k <= j
    BY <1>3, <2>1, FirstPlace
  <2>3. k \in 1 .. na /\ k \in 1 .. nb /\ a[k] # b[k]
    OBVIOUS
  <2>4. \A j \in 1 .. k - 1 : j \in 1 .. na /\ j <= nb /\ j \notin T
    BY <2>2, <2>3
  <2>5. \A j \in 1 .. k - 1 : a[j] = b[j]
    BY <2>4
  <2>6. a[k] < b[k] \/ b[k] < a[k]
    BY <1>1, <2>3
  <2> HIDE DEF T
  <2> QED  BY <1>1, <1>2, <2>3, <2>5, <2>6
<1>4. CASE T = {}
  <2>1. \A k \in 1 .. na : k <= nb => a[k] = b[k]
    BY <1>4
  <2> HIDE DEF T
  <2>2. CASE na < nb
    <3>1. na + 1 \in 1 .. nb /\ \A j \in 1 .. (na + 1) - 1 : a[j] = b[j]
      BY <2>1, <2>2
    <3> QED  BY <1>1, <3>1
  <2>3. CASE nb < na
    <3>1. nb + 1 \in 1 .. na /\ \A j \in 1 .. (nb + 1) - 1 : b[j] = a[j]
      BY <2>1, <2>3
    <3>2. nb + 1 <= nb + 1 /\ ~(nb + 1 <= nb)
      OBVIOUS
    <3> QED  BY <1>2, <3>1, <3>2
  <2>4. CASE na = nb
    <3>1. \A k \in 1 .. Len(a) : a[k] = b[k]
      BY <1>1, <2>1, <2>4
    <3> QED  BY <1>1, <2>4, <3>1, SeqEqual
  <2> QED  BY <2>2, <2>3, <2>4
<1> QED  BY <1>3, <1>4

\* What comes before what comes before comes before.
LEMMA LexicalTransitive ==
  ASSUME NEW a \in Seq(Int), NEW b \in Seq(Int), NEW c \in Seq(Int),
         Lexical(a, b), Lexical(b, c)
  PROVE  Lexical(a, c)
<1>1. PICK na \in Nat : na = Len(a) /\ DOMAIN a = 1 .. na /\ \A k \in 1 .. na : a[k] \in Int
  BY LenProperties, ElementOfSeq
<1>2. PICK nb \in Nat : nb = Len(b) /\ DOMAIN b = 1 .. nb /\ \A k \in 1 .. nb : b[k] \in Int
  BY LenProperties, ElementOfSeq
<1>3. PICK nc \in Nat : nc = Len(c) /\ DOMAIN c = 1 .. nc /\ \A k \in 1 .. nc : c[k] \in Int
  BY LenProperties, ElementOfSeq
<1>4. PICK k \in 1 .. nb : /\ k <= na + 1 /\ \A j \in 1 .. k - 1 : a[j] = b[j]
                           /\ k <= na => a[k] < b[k]
  BY <1>1, <1>2 DEF Lexical
<1>5. PICK m \in 1 .. nc : /\ m <= nb + 1 /\ \A j \in 1 .. m - 1 : b[j] = c[j]
                           /\ m <= nb => b[m] < c[m]
  BY <1>2, <1>3 DEF Lexical
<1>6. SUFFICES \E i \in 1 .. nc : /\ i <= na + 1 /\ \A j \in 1 .. i - 1 : a[j] = c[j]
                                  /\ i <= na => a[i] < c[i]
  BY <1>1, <1>3 DEF Lexical
<1>7. CASE k <= m
  <2>1. k \in 1 .. nc /\ \A j \in 1 .. k - 1 : a[j] = c[j]
    <3>1. \A j \in 1 .. k - 1 : j \in 1 .. m - 1
      BY <1>7
    <3> QED  BY <1>4, <1>5, <1>7, <3>1
  <2>2. ASSUME k <= na PROVE a[k] < c[k]
    <3>1. a[k] \in Int /\ b[k] \in Int /\ c[k] \in Int /\ a[k] < b[k]
      BY <1>1, <1>2, <1>3, <1>4, <2>1, <2>2
    <3>2. CASE k = m
      <4>1. b[k] < c[k]
        BY <1>5, <3>2
      <4> QED  BY <3>1, <4>1
    <3>3. CASE k < m
      <4>1. b[k] = c[k]
        BY <1>5, <3>3
      <4> QED  BY <3>1, <4>1
    <3> QED  BY <1>7, <3>2, <3>3
  <2> QED  BY <1>4, <2>1, <2>2
<1>8. CASE m < k
  <2>1. m <= na + 1 /\ m <= nb /\ m <= na /\ m \in 1 .. k - 1
    BY <1>4, <1>8
  <2>2. a[m] = b[m] /\ b[m] < c[m]
    BY <1>4, <1>5, <2>1
  <2>3. \A j \in 1 .. m - 1 : j \in 1 .. k - 1
    BY <1>8
  <2>4. \A j \in 1 .. m - 1 : a[j] = c[j]
    BY <1>4, <1>5, <2>3
  <2>5. a[m] < c[m]
    BY <2>2
  <2> QED  BY <2>1, <2>4, <2>5
<1> QED  BY <1>7, <1>8

\* A key that tells the elements of S apart.
IsKey(key, S) == key \in [S -> Seq(Int)] /\ \A x, y \in S : key[x] = key[y] => x = y

\* What has a key of its own is sorted: each element stands in one place, and what
\* stands first comes before the rest.
LEMMA SortedAll ==
  ASSUME NEW S, IsFiniteSet(S), NEW key, IsKey(key, S)
  PROVE  /\ Sorted(key) \in Seq(S) /\ Len(Sorted(key)) = Cardinality(S)
         /\ Cardinality(S) \in Nat /\ DOMAIN Sorted(key) = 1 .. Cardinality(S)
         /\ \A k \in 1 .. Cardinality(S) : Sorted(key)[k] \in S
         /\ \A x \in S : \E k \in 1 .. Cardinality(S) : Sorted(key)[k] = x
         /\ \A i, j \in 1 .. Cardinality(S) :
              i < j => /\ Lexical(key[Sorted(key)[i]], key[Sorted(key)[j]])
                       /\ Sorted(key)[i] # Sorted(key)[j]
<1> DEFINE n == Cardinality(S)
           s == Sorted(key)
           Below(x) == {y \in S : Lexical(key[y], key[x])}
<1>0. key \in [S -> Seq(Int)] /\ \A x, y \in S : key[x] = key[y] => x = y
  BY DEF IsKey
<1>1. n \in Nat /\ DOMAIN key = S
  BY FS_CardinalityType DEF IsKey
<1>2. ASSUME NEW x \in S
      PROVE  IsFiniteSet(Below(x)) /\ Cardinality(Below(x)) \in 0 .. n - 1
  <2>1. Below(x) \in SUBSET (S \ {x})
    BY <1>0, LexicalStrict
  <2>2. IsFiniteSet(S \ {x}) /\ Cardinality(S \ {x}) = n - 1
    BY FS_RemoveElement
  <2>3. IsFiniteSet(Below(x)) /\ Cardinality(Below(x)) <= n - 1
    BY <2>1, <2>2, FS_Subset
  <2> QED  BY <1>1, <2>3, FS_CardinalityType
<1> HIDE DEF Below
<1>3. ASSUME NEW x \in S, NEW y \in S, Lexical(key[x], key[y])
      PROVE  Cardinality(Below(x)) < Cardinality(Below(y))
  <2>1. x \notin Below(x)
    BY <1>0, LexicalStrict DEF Below
  <2>2. Below(x) \cup {x} \in SUBSET Below(y)
    BY <1>0, <1>3, LexicalTransitive DEF Below
  <2>3. Cardinality(Below(x) \cup {x}) = Cardinality(Below(x)) + 1
    BY <1>2, <2>1, FS_AddElement
  <2>4. Cardinality(Below(x) \cup {x}) <= Cardinality(Below(y))
    BY <1>2, <2>2, FS_Subset
  <2>5. Cardinality(Below(x)) \in Int /\ Cardinality(Below(y)) \in Int
    BY <1>1, <1>2
  <2> QED  BY <2>3, <2>4, <2>5
<1>4. ASSUME NEW x \in S, NEW y \in S, Cardinality(Below(x)) = Cardinality(Below(y))
      PROVE  x = y
  <2>1. key[x] \in Seq(Int) /\ key[y] \in Seq(Int)
    BY <1>0
  <2>2. Cardinality(Below(x)) \in Int /\ Cardinality(Below(y)) \in Int
    BY <1>1, <1>2
  <2>3. ASSUME Lexical(key[x], key[y]) PROVE FALSE
    <3>1. Cardinality(Below(x)) < Cardinality(Below(y))
      BY <1>3, <2>3
    <3> QED  BY <1>4, <2>2, <3>1
  <2>4. ASSUME Lexical(key[y], key[x]) PROVE FALSE
    <3>1. Cardinality(Below(y)) < Cardinality(Below(x))
      BY <1>3, <2>4
    <3> QED  BY <1>4, <2>2, <3>1
  <2>5. key[x] = key[y]
    BY <2>1, <2>3, <2>4, LexicalTotal
  <2> QED  BY <1>0, <2>5
<1>5. \A k \in 1 .. n : \E x \in S : Cardinality(Below(x)) = k - 1
  <2> DEFINE r == [x \in S |-> Cardinality(Below(x))]
  <2>1. r \in Injection(S, 0 .. n - 1)
    BY <1>2, <1>4 DEF Injection, IsInjective
  <2>2. IsFiniteSet(0 .. n - 1) /\ Cardinality(0 .. n - 1) = n
    <3>1. 0 \in Int /\ n - 1 \in Int /\ (n - 1) - 0 + 1 = n /\ n >= 0
      BY <1>1
    <3>2. CASE n = 0
      <4>1. 0 .. n - 1 = {}
        BY <3>2
      <4> QED  BY <3>2, <4>1, FS_EmptySet
    <3>3. CASE n > 0
      BY <3>1, <3>3, FS_Interval
    <3> QED  BY <3>1, <3>2, <3>3
  <2>3. r \in Surjection(S, 0 .. n - 1)
    BY <2>1, <2>2, FS_Injection
  <2>4. \A k \in 0 .. n - 1 : \E x \in S : r[x] = k
    BY <2>3 DEF Surjection
  <2>5. \A k \in 0 .. n - 1 : \E x \in S : Cardinality(Below(x)) = k
    BY <2>4
  <2>6. \A k \in 1 .. n : k - 1 \in 0 .. n - 1
    BY <1>1
  <2> QED  BY <2>5, <2>6
<1> HIDE DEF n
<1>6. s = [k \in 1 .. n |-> CHOOSE x \in S : Cardinality(Below(x)) = k - 1]
  BY <1>1 DEF Sorted, Before, Below, n
<1>7. \A k \in 1 .. n : s[k] \in S /\ Cardinality(Below(s[k])) = k - 1
  BY <1>5, <1>6
<1> HIDE DEF s
<1>8. s \in [1 .. n -> S]
  BY <1>6, <1>7
<1>9. s \in Seq(S) /\ Len(s) = n
  BY <1>1, <1>8, SeqOfFunction
<1>10. ASSUME NEW x \in S PROVE \E k \in 1 .. n : s[k] = x
  <2>1. PICK k \in 1 .. n : k = Cardinality(Below(x)) + 1
    BY <1>1, <1>2
  <2>2. Cardinality(Below(s[k])) = Cardinality(Below(x))
    BY <1>1, <1>2, <1>7, <2>1
  <2>3. s[k] = x
    BY <1>4, <1>7, <2>2
  <2> QED  BY <2>3
<1>11. ASSUME NEW i \in 1 .. n, NEW j \in 1 .. n, i < j
       PROVE  Lexical(key[s[i]], key[s[j]]) /\ s[i] # s[j]
  <2>1. s[i] \in S /\ s[j] \in S /\ s[i] # s[j]
    BY <1>1, <1>7, <1>11
  <2>2. key[s[i]] \in Seq(Int) /\ key[s[j]] \in Seq(Int) /\ key[s[i]] # key[s[j]]
    BY <1>0, <2>1
  <2>3. ~Lexical(key[s[j]], key[s[i]])
    <3>1. SUFFICES ASSUME Lexical(key[s[j]], key[s[i]]) PROVE FALSE
      OBVIOUS
    <3>2. Cardinality(Below(s[j])) < Cardinality(Below(s[i]))
      BY <1>3, <2>1, <3>1
    <3> QED  BY <1>1, <1>7, <1>11, <3>2
  <2> QED  BY <2>1, <2>2, <2>3, LexicalTotal
<1>12. DOMAIN s = 1 .. n
  BY <1>6
<1> QED  BY <1>1, <1>7, <1>9, <1>10, <1>11, <1>12 DEF n, s

--------------------------------------------------------------------------------
\* What a prefix is worth

\* The sums that the value of a tuple of digits is made of.
SumsOf(p, sum) == sum = [k \in 0 .. Width |-> IF k = 0 THEN 0 ELSE sum[k - 1] * Base + p[k]]

\* There are such sums, as long as one wants them.
LEMMA SumsExist ==
  ASSUME NEW p \in [1 .. Width -> 0 .. Base - 1]
  PROVE  \E sum : SumsOf(p, sum)
<1> USE LookupAssumption
<1> DEFINE Upto(m, f) == f = [k \in 0 .. m |-> IF k = 0 THEN 0 ELSE f[k - 1] * Base + p[k]]
           T == {m \in Nat : ~\E f : Upto(m, f)}
<1>1. SUFFICES T = {}
  BY DEF SumsOf
<1>2. SUFFICES ASSUME T # {} PROVE FALSE
  OBVIOUS
<1>3. PICK m \in T : \A j \in T : m <= j
  <2>1. T \in SUBSET Nat
    OBVIOUS
  <2> HIDE DEF T
  <2> QED  BY <1>2, <2>1, FirstPlace
<1>4. CASE m = 0
  <2> DEFINE f == [k \in 0 .. 0 |-> 0]
  <2>1. Upto(0, f)
    <3>1. \A k \in 0 .. 0 : k = 0
      OBVIOUS
    <3>2. f = [k \in 0 .. 0 |-> IF k = 0 THEN 0 ELSE f[k - 1] * Base + p[k]]
      BY <3>1
    <3> QED  BY <3>2
  <2> QED  BY <1>4, <2>1
<1>5. CASE m # 0
  <2>1. m - 1 \in Nat /\ ~(m <= m - 1)
    BY <1>5
  <2>2. m - 1 \notin T
    BY <1>3, <2>1
  <2>3. PICK f : Upto(m - 1, f)
    BY <2>1, <2>2
  <2> DEFINE g == [k \in 0 .. m |-> IF k = m THEN f[m - 1] * Base + p[m] ELSE f[k]]
  <2>4. \A k \in 0 .. m : g[k] = IF k = 0 THEN 0 ELSE g[k - 1] * Base + p[k]
    <3> TAKE k \in 0 .. m
    <3>1. CASE k = m
      <4>1. k - 1 \in 0 .. m /\ k - 1 # m
        BY <1>5, <3>1
      <4> QED  BY <1>5, <3>1, <4>1
    <3>2. CASE k # m /\ k # 0
      <4>1. k \in 0 .. m - 1 /\ k - 1 \in 0 .. m /\ k - 1 # m
        BY <3>2
      <4>2. f[k] = f[k - 1] * Base + p[k]
        BY <2>3, <3>2, <4>1
      <4> QED  BY <3>2, <4>1, <4>2
    <3>3. CASE k # m /\ k = 0
      <4>1. k \in 0 .. m - 1
        BY <3>3
      <4>2. f[k] = 0
        BY <2>3, <3>3, <4>1
      <4> QED  BY <3>3, <4>2
    <3> QED  BY <3>1, <3>2, <3>3
  <2>5. g = [k \in 0 .. m |-> IF k = 0 THEN 0 ELSE g[k - 1] * Base + p[k]]
    <3> HIDE DEF g
    <3>1. DOMAIN g = 0 .. m /\ g = [k \in 0 .. m |-> g[k]]
      BY DEF g
    <3> QED  BY <2>4, <3>1
  <2>6. Upto(m, g)
    BY <2>5
  <2> QED  BY <2>6
<1> QED  BY <1>4, <1>5

\* The value of a tuple of digits.
LEMMA ValueIsSum ==
  ASSUME NEW p \in [1 .. Width -> 0 .. Base - 1]
  PROVE  \E sum \in [0 .. Width -> Nat] :
           /\ sum[0] = 0 /\ \A k \in 1 .. Width : sum[k] = sum[k - 1] * Base + p[k]
           /\ Value(p) = sum[Width]
<1> USE LookupAssumption
<1>1. Len(p) = Width
  BY SeqOfFunction
<1> DEFINE sum == CHOOSE s : s = [k \in 0 .. Width |-> IF k = 0 THEN 0 ELSE s[k - 1] * Base + p[k]]
<1>2. Value(p) = sum[Width]
  BY <1>1 DEF Value
<1>3. sum = [k \in 0 .. Width |-> IF k = 0 THEN 0 ELSE sum[k - 1] * Base + p[k]]
  BY SumsExist DEF SumsOf
<1> HIDE DEF sum
<1>4. sum[0] = 0 /\ \A k \in 1 .. Width : sum[k] = sum[k - 1] * Base + p[k]
  <2>1. 0 \in 0 .. Width /\ \A k \in 1 .. Width : k \in 0 .. Width /\ k # 0
    OBVIOUS
  <2> QED  BY <1>3, <2>1
<1>5. \A k \in 0 .. Width : sum[k] \in Nat
  <2> DEFINE T == {k \in 0 .. Width : sum[k] \notin Nat}
  <2>1. SUFFICES ASSUME T # {} PROVE FALSE
    OBVIOUS
  <2>2. T \in SUBSET Nat
    OBVIOUS
  <2>3. PICK k \in T : \A j \in T : k <= j
    BY <2>1, <2>2, FirstPlace
  <2>4. k # 0
    BY <1>4
  <2>5. k \in 1 .. Width /\ k - 1 \in 0 .. Width /\ ~(k <= k - 1)
    BY <2>4
  <2>6. sum[k - 1] \in Nat
    BY <2>3, <2>5
  <2>7. p[k] \in Nat /\ Base \in Nat
    BY <2>5
  <2>8. sum[k - 1] * Base \in Nat
    BY <2>6, <2>7
  <2>9. sum[k] \in Nat
    BY <1>4, <2>5, <2>7, <2>8
  <2> QED  BY <2>9
<1>6. sum \in [0 .. Width -> Nat]
  BY <1>3, <1>5
<1> QED  BY <1>2, <1>4, <1>6

\* A digit more is worth the base.
LEMMA ScaledUp ==
  ASSUME NEW x \in Nat, NEW y \in Nat, NEW b \in Nat, x < y
  PROVE  x * b + b <= y * b
<1>1. PICK d \in Nat : d = y - (x + 1)
  OBVIOUS
<1>2. y * b = x * b + b + d * b
  <2>1. y = (x + 1) + d
    BY <1>1
  <2>2. ((x + 1) + d) * b = (x + 1) * b + d * b
    OBVIOUS
  <2>3. (x + 1) * b = x * b + b
    OBVIOUS
  <2> QED  BY <2>1, <2>2, <2>3
<1>3. d * b \in Nat /\ x * b \in Nat
  OBVIOUS
<1> QED  BY <1>2, <1>3

\* What is worth less in the first digit that differs is worth less.
LEMMA ValueOrder ==
  ASSUME NEW a \in [1 .. Width -> 0 .. Base - 1], NEW b \in [1 .. Width -> 0 .. Base - 1],
         NEW i \in 1 .. Width, a[i] < b[i], \A j \in 1 .. i - 1 : a[j] = b[j]
  PROVE  Value(a) < Value(b)
<1> USE LookupAssumption
<1>1. PICK s \in [0 .. Width -> Nat] :
         /\ s[0] = 0 /\ \A k \in 1 .. Width : s[k] = s[k - 1] * Base + a[k]
         /\ Value(a) = s[Width]
  BY ValueIsSum
<1>2. PICK t \in [0 .. Width -> Nat] :
         /\ t[0] = 0 /\ \A k \in 1 .. Width : t[k] = t[k - 1] * Base + b[k]
         /\ Value(b) = t[Width]
  BY ValueIsSum
<1>3. \A k \in 0 .. i - 1 : s[k] = t[k]
  <2> DEFINE T == {k \in 0 .. i - 1 : s[k] # t[k]}
  <2>1. SUFFICES ASSUME T # {} PROVE FALSE
    OBVIOUS
  <2>2. T \in SUBSET Nat
    OBVIOUS
  <2>3. PICK k \in T : \A j \in T : k <= j
    BY <2>1, <2>2, FirstPlace
  <2>4. k # 0
    BY <1>1, <1>2
  <2>5. k \in 1 .. Width /\ k - 1 \in 0 .. i - 1 /\ ~(k <= k - 1) /\ k \in 1 .. i - 1
    BY <2>4
  <2>6. s[k - 1] = t[k - 1] /\ a[k] = b[k]
    BY <2>3, <2>5
  <2>7. s[k] = t[k]
    BY <1>1, <1>2, <2>5, <2>6
  <2> QED  BY <2>7
<1>4. \A k \in i .. Width : s[k] < t[k]
  <2> DEFINE T == {k \in i .. Width : ~(s[k] < t[k])}
  <2>1. SUFFICES ASSUME T # {} PROVE FALSE
    OBVIOUS
  <2>2. T \in SUBSET Nat
    OBVIOUS
  <2>3. PICK k \in T : \A j \in T : k <= j
    BY <2>1, <2>2, FirstPlace
  <2>4. k \in 1 .. Width /\ k - 1 \in 0 .. Width
    OBVIOUS
  <2>5. /\ s[k] = s[k - 1] * Base + a[k] /\ t[k] = t[k - 1] * Base + b[k]
        /\ s[k - 1] \in Nat /\ t[k - 1] \in Nat
        /\ a[k] \in 0 .. Base - 1 /\ b[k] \in 0 .. Base - 1
    BY <1>1, <1>2, <2>4
  <2>6. PICK x \in Nat, y \in Nat : x = s[k - 1] * Base /\ y = t[k - 1] * Base
    <3>1. \A m \in Nat : m * Base \in Nat
      OBVIOUS
    <3> QED  BY <2>5, <3>1
  <2>7. CASE k = i
    <3>1. s[k - 1] = t[k - 1]
      BY <1>3, <2>7
    <3>2. s[k] < t[k]
      BY <2>5, <2>6, <2>7, <3>1
    <3> QED  BY <3>2
  <2>8. CASE k # i
    <3>1. k - 1 \in i .. Width /\ ~(k <= k - 1)
      BY <2>8
    <3>2. s[k - 1] < t[k - 1]
      BY <2>3, <3>1
    <3>3. x + Base <= y
      BY <2>5, <2>6, <3>2, ScaledUp
    <3>4. s[k] < t[k]
      <4>1. s[k] = x + a[k] /\ t[k] = y + b[k]
        BY <2>5, <2>6
      <4>2. PICK e \in 0 .. Base - 1, h \in 0 .. Base - 1 : e = a[k] /\ h = b[k]
        BY <2>5
      <4>3. x + e < y + h
        BY <3>3
      <4> QED  BY <4>1, <4>2, <4>3
    <3> QED  BY <3>4
  <2> QED  BY <2>7, <2>8
<1>5. Width \in i .. Width
  OBVIOUS
<1> QED  BY <1>1, <1>2, <1>4, <1>5

\* The value of a tuple of digits is a number.
LEMMA ValueIsNumber ==
  ASSUME NEW p \in [1 .. Width -> 0 .. Base - 1]
  PROVE  Value(p) \in Nat
<1>1. PICK sum \in [0 .. Width -> Nat] : Value(p) = sum[Width]
  BY ValueIsSum
<1>2. Width \in 0 .. Width
  BY LookupAssumption
<1> QED  BY <1>1, <1>2

\* What is nowhere worth more is worth no more.
LEMMA ValueMonotone ==
  ASSUME NEW a \in [1 .. Width -> 0 .. Base - 1], NEW b \in [1 .. Width -> 0 .. Base - 1],
         \A j \in 1 .. Width : a[j] <= b[j]
  PROVE  Value(a) <= Value(b)
<1> USE LookupAssumption
<1> DEFINE T == {j \in 1 .. Width : a[j] # b[j]}
<1>0. Value(a) \in Nat /\ Value(b) \in Nat
  BY ValueIsNumber
<1>1. CASE T = {}
  <2>1. \A j \in 1 .. Width : a[j] = b[j]
    BY <1>1
  <2>2. a = b
    BY <2>1
  <2> QED  BY <1>0, <2>2
<1>2. CASE T # {}
  <2>1. T \in SUBSET Nat
    OBVIOUS
  <2>2. PICK i \in T : \A j \in T : i <= j
    BY <1>2, <2>1, FirstPlace
  <2>3. \A j \in 1 .. i - 1 : a[j] = b[j]
    <3> TAKE j \in 1 .. i - 1
    <3>1. j \in 1 .. Width /\ ~(i <= j)
      OBVIOUS
    <3> QED  BY <2>2, <3>1
  <2>4. i \in 1 .. Width /\ a[i] \in 0 .. Base - 1 /\ b[i] \in 0 .. Base - 1
        /\ a[i] # b[i] /\ a[i] <= b[i]
    OBVIOUS
  <2>5. a[i] < b[i]
    BY <2>4
  <2>6. Value(a) < Value(b)
    BY <2>3, <2>4, <2>5, ValueOrder
  <2> QED  BY <1>0, <2>6
<1> QED  BY <1>1, <1>2

Prefix == Seq(0 .. Base - 1)

\* A prefix that is filled up with a digit.
LEMMA PaddedDigits ==
  ASSUME NEW p \in Prefix, NEW d \in 0 .. Base - 1
  PROVE  /\ Padded(p, d) \in [1 .. Width -> 0 .. Base - 1]
         /\ \A k \in 1 .. Width : Padded(p, d)[k] = IF k <= Len(p) THEN p[k] ELSE d
<1>1. PICK n \in Nat : n = Len(p) /\ \A k \in 1 .. n : p[k] \in 0 .. Base - 1
  BY LenProperties, ElementOfSeq DEF Prefix
<1> QED  BY <1>1, LookupAssumption DEF Padded

\* The least and the greatest digit.
LEMMA ExtremeDigits == 0 \in 0 .. Base - 1 /\ Base - 1 \in 0 .. Base - 1
BY LookupAssumption

\* A prefix covers the numbers from Low to High, one at least.
LEMMA SpanOfPrefix ==
  ASSUME NEW p \in Prefix
  PROVE  Low(p) \in Nat /\ High(p) \in Nat /\ Low(p) <= High(p)
<1>1. PICK a \in [1 .. Width -> 0 .. Base - 1] :
         a = Padded(p, 0) /\ \A k \in 1 .. Width : a[k] = IF k <= Len(p) THEN p[k] ELSE 0
  BY PaddedDigits, ExtremeDigits
<1>2. PICK b \in [1 .. Width -> 0 .. Base - 1] :
         b = Padded(p, Base - 1) /\ \A k \in 1 .. Width : b[k] = IF k <= Len(p) THEN p[k] ELSE Base - 1
  BY PaddedDigits, ExtremeDigits
<1>3. \A k \in 1 .. Width : a[k] <= b[k]
  <2> TAKE k \in 1 .. Width
  <2>1. a[k] \in 0 .. Base - 1 /\ b[k] \in 0 .. Base - 1
    OBVIOUS
  <2> QED  BY <1>1, <1>2, <2>1, LookupAssumption
<1>4. Value(a) <= Value(b)
  BY <1>3, ValueMonotone
<1>5. Value(a) \in Nat /\ Value(b) \in Nat
  BY ValueIsNumber
<1> QED  BY <1>1, <1>2, <1>4, <1>5 DEF Low, High

\* Of the prefixes of one length, up to the width, only the prefix itself covers it.
LEMMA CoveredByItself ==
  ASSUME NEW p \in Prefix, NEW q \in Prefix, Len(p) = Len(q), Len(q) <= Width,
         Covers(p, Low(q))
  PROVE  p = q
<1> USE LookupAssumption
<1>1. PICK n \in Nat : n = Len(p) /\ n = Len(q)
  BY LenProperties DEF Prefix
<1>2. \A k \in 1 .. n : p[k] \in 0 .. Base - 1 /\ q[k] \in 0 .. Base - 1
  BY <1>1, ElementOfSeq DEF Prefix
<1> DEFINE T == {j \in 1 .. n : p[j] # q[j]}
<1>3. CASE T = {}
  <2>1. \A j \in 1 .. Len(p) : p[j] = q[j]
    BY <1>1, <1>3
  <2> QED  BY <2>1, SeqEqual DEF Prefix
<1>4. CASE T # {}
  <2>1. T \in SUBSET Nat
    OBVIOUS
  <2>2. PICK i \in T : \A j \in T : i <= j
    BY <1>4, <2>1, FirstPlace
  <2>3. \A j \in 1 .. i - 1 : p[j] = q[j]
    <3> TAKE j \in 1 .. i - 1
    <3>1. j \in 1 .. n /\ ~(i <= j)
      OBVIOUS
    <3> QED  BY <2>2, <3>1
  <2>4. i \in 1 .. n /\ i \in 1 .. Width /\ p[i] # q[i]
    BY <1>1
  <2>5. PICK a \in [1 .. Width -> 0 .. Base - 1] :
           a = Padded(p, 0) /\ \A k \in 1 .. Width : a[k] = IF k <= Len(p) THEN p[k] ELSE 0
    BY PaddedDigits, ExtremeDigits
  <2>6. PICK b \in [1 .. Width -> 0 .. Base - 1] :
           b = Padded(p, Base - 1)
           /\ \A k \in 1 .. Width : b[k] = IF k <= Len(p) THEN p[k] ELSE Base - 1
    BY PaddedDigits, ExtremeDigits
  <2>7. PICK c \in [1 .. Width -> 0 .. Base - 1] :
           c = Padded(q, 0) /\ \A k \in 1 .. Width : c[k] = IF k <= Len(q) THEN q[k] ELSE 0
    BY PaddedDigits, ExtremeDigits
  <2>8. \A j \in 1 .. i : j \in 1 .. Width /\ a[j] = p[j] /\ b[j] = p[j] /\ c[j] = q[j]
    <3> TAKE j \in 1 .. i
    <3>1. j \in 1 .. Width /\ j <= n
      BY <2>4
    <3> QED  BY <1>1, <2>5, <2>6, <2>7, <3>1
  <2>9. \A j \in 1 .. i - 1 : a[j] = c[j] /\ b[j] = c[j] /\ c[j] = a[j]
    <3> TAKE j \in 1 .. i - 1
    <3>1. j \in 1 .. i
      OBVIOUS
    <3> QED  BY <2>3, <2>8, <3>1
  <2>10. i \in 1 .. i /\ a[i] = p[i] /\ b[i] = p[i] /\ c[i] = q[i]
    BY <2>4, <2>8
  <2>11. Value(a) \in Nat /\ Value(b) \in Nat /\ Value(c) \in Nat
    BY ValueIsNumber
  <2>12. Value(a) <= Value(c) /\ Value(c) <= Value(b)
    BY <2>5, <2>6, <2>7 DEF Covers, Low, High
  <2>13. CASE p[i] < q[i]
    <3>1. b[i] < c[i] /\ \A j \in 1 .. i - 1 : b[j] = c[j]
      BY <2>9, <2>10, <2>13
    <3>2. Value(b) < Value(c)
      BY <2>4, <3>1, ValueOrder
    <3> QED  BY <2>11, <2>12, <3>2
  <2>14. CASE q[i] < p[i]
    <3>1. c[i] < a[i] /\ \A j \in 1 .. i - 1 : c[j] = a[j]
      BY <2>9, <2>10, <2>14
    <3>2. Value(c) < Value(a)
      BY <2>4, <3>1, ValueOrder
    <3> QED  BY <2>11, <2>12, <3>2
  <2>15. p[i] < q[i] \/ q[i] < p[i]
    BY <1>2, <2>4, SMTT(30)
  <2> QED  BY <2>13, <2>14, <2>15
<1> QED  BY <1>3, <1>4

--------------------------------------------------------------------------------
\* Relationships

LinkRecord ==
  [inst : Institutions, kind : Kinds, current : BOOLEAN, primary : BOOLEAN, from : Nat, conf : Int]
RangeRecord ==
  [low : Nat, high : Nat, account : BOOLEAN, current : BOOLEAN,
   inst : Institutions \cup {Unknown}, from : Nat, conf : Int]

\* The relationships of an assignment: one of a kind with an institution.
SoundLinks(set) ==
  /\ set \subseteq LinkForms /\ IsFiniteSet(set)
  /\ \A l, m \in set : l.inst = m.inst /\ l.kind = m.kind => l = m

\* What a relationship and a range of a package are.
LEMMA FormRecords == LinkForms \subseteq LinkRecord /\ RangeForms \subseteq RangeRecord
BY FormsAssumption DEF LinkRecord, RangeRecord

\* The rank of a kind tells it.
LEMMA KindRanks ==
  ASSUME NEW j \in Kinds, NEW k \in Kinds
  PROVE  KindRank[j] \in Int /\ (KindRank[j] = KindRank[k] => j = k)
BY DEF Kinds, KindRank

\* An institution is a number, and not that of nobody.
LEMMA InstitutionIsNumber ==
  ASSUME NEW i \in Institutions
  PROVE  i \in Nat /\ i # Unknown
BY LookupAssumption

\* A tuple of two numbers.
LEMMA PairOfInts ==
  ASSUME NEW a \in Int, NEW b \in Int
  PROVE  <<a, b>> \in Seq(Int)
OBVIOUS

\* A tuple of four.
LEMMA FourInts ==
  ASSUME NEW a \in Int, NEW b \in Int, NEW c \in Int, NEW d \in Int
  PROVE  <<a, b, c, d>> \in Seq(Int)
OBVIOUS

\* A record lists its relationships, each once.
LEMMA LinksListed ==
  ASSUME NEW links, SoundLinks(links)
  PROVE  /\ LinksInOrder(links) \in Seq(LinkRecord)
         /\ \A l \in links : \E k \in DOMAIN LinksInOrder(links) : LinksInOrder(links)[k] = l
         /\ \A k \in DOMAIN LinksInOrder(links) : LinksInOrder(links)[k] \in links
         /\ (LinksInOrder(links) = <<>>) <=> (links = {})
<1> DEFINE key == [l \in links |-> <<Late(l.current), Late(l.primary), KindRank[l.kind], l.inst>>]
<1>1. links \subseteq LinkRecord /\ IsFiniteSet(links)
  BY FormRecords DEF SoundLinks
<1>2. ASSUME NEW l \in links
      PROVE  /\ Late(l.current) \in Int /\ Late(l.primary) \in Int /\ KindRank[l.kind] \in Int
             /\ l.inst \in Int /\ l.kind \in Kinds
  <2>1. l.inst \in Institutions /\ l.kind \in Kinds
    BY <1>1 DEF LinkRecord
  <2>2. Late(l.current) \in Int /\ Late(l.primary) \in Int
    BY DEF Late
  <2>3. KindRank[l.kind] \in Int
    BY <2>1, KindRanks
  <2> QED  BY <2>1, <2>2, <2>3, InstitutionIsNumber
<1>3. \A l \in links : key[l] \in Seq(Int)
  BY <1>2, FourInts
<1>4. key \in [links -> Seq(Int)]
  BY <1>3
<1>5. ASSUME NEW l \in links, NEW m \in links, key[l] = key[m] PROVE l = m
  <2>1. KindRank[l.kind] = KindRank[m.kind] /\ l.inst = m.inst
    BY <1>5
  <2>2. l.kind = m.kind
    BY <1>2, <2>1, KindRanks
  <2> QED  BY <2>1, <2>2 DEF SoundLinks
<1>6. IsKey(key, links)
  BY <1>4, <1>5 DEF IsKey
<1>7. LinksInOrder(links) = Sorted(key)
  BY DEF LinksInOrder
<1> HIDE DEF key
<1>8. /\ Sorted(key) \in Seq(links) /\ Len(Sorted(key)) = Cardinality(links)
      /\ Cardinality(links) \in Nat /\ DOMAIN Sorted(key) = 1 .. Cardinality(links)
      /\ \A k \in 1 .. Cardinality(links) : Sorted(key)[k] \in links
      /\ \A l \in links : \E k \in 1 .. Cardinality(links) : Sorted(key)[k] = l
  BY <1>1, <1>6, SortedAll
<1>9. Sorted(key) \in Seq(LinkRecord)
  BY <1>1, <1>8
<1>10. (Sorted(key) = <<>>) <=> (links = {})
  <2>1. (Sorted(key) = <<>>) <=> (Cardinality(links) = 0)
    BY <1>8, EmptySeq
  <2>2. (Cardinality(links) = 0) <=> (links = {})
    BY <1>1, FS_EmptySet
  <2> QED  BY <2>1, <2>2
<1> QED  BY <1>7, <1>8, <1>9, <1>10

\* Who issues now, by a list of relationships.
NowIn(links) == {k \in DOMAIN links : links[k].current /\ IsIssuing(links[k])}

\* The current issuers of a record: each is one of its relationships, no institution is
\* among them twice, and each that issues now is.
LEMMA IssuersForm ==
  ASSUME NEW links \in Seq(LinkRecord)
  PROVE  /\ Len(Issuers(links)) \in Nat /\ DOMAIN Issuers(links) = 1 .. Len(Issuers(links))
         /\ \A m \in DOMAIN Issuers(links) : \E k \in NowIn(links) : links[k] = Issuers(links)[m]
         /\ \A i, j \in DOMAIN Issuers(links) :
              Issuers(links)[i].inst = Issuers(links)[j].inst => i = j
         /\ \A k \in NowIn(links) : \E m \in DOMAIN Issuers(links) :
              Issuers(links)[m].inst = links[k].inst
<1> DEFINE first == {k \in NowIn(links) : \A j \in NowIn(links) : links[j].inst = links[k].inst => k <= j}
           S == {links[k] : k \in first}
           key == [l \in S |-> <<Late(l.primary), l.inst>>]
<1>1. PICK n \in Nat : n = Len(links) /\ DOMAIN links = 1 .. n /\ \A k \in 1 .. n : links[k] \in LinkRecord
  BY LenProperties, ElementOfSeq
<1>2. first \subseteq 1 .. n /\ NowIn(links) \subseteq 1 .. n
  BY <1>1 DEF NowIn
<1>3. IsFiniteSet(S)
  <2> DEFINE f == [k \in first |-> links[k]]
  <2>1. IsFiniteSet(1 .. n)
    BY FS_Interval
  <2>2. IsFiniteSet(first)
    BY <1>2, <2>1, FS_Subset
  <2>3. f \in Surjection(first, S)
    BY DEF Surjection
  <2> HIDE DEF f, S
  <2> QED  BY <2>2, <2>3, FS_Surjection
<1>4. ASSUME NEW l \in S PROVE Late(l.primary) \in Int /\ l.inst \in Int
  <2>1. l \in LinkRecord
    BY <1>1, <1>2
  <2>2. l.inst \in Institutions
    BY <2>1 DEF LinkRecord
  <2> QED  BY <2>2, InstitutionIsNumber DEF Late
<1>5. ASSUME NEW l \in S, NEW m \in S, l.inst = m.inst PROVE l = m
  <2>1. PICK i \in first : l = links[i]
    OBVIOUS
  <2>2. PICK j \in first : m = links[j]
    OBVIOUS
  <2>3. i <= j /\ j <= i
    BY <1>5, <2>1, <2>2
  <2>4. i \in Nat /\ j \in Nat
    BY <1>2
  <2> QED  BY <2>1, <2>2, <2>3, <2>4
<1>6. IsKey(key, S)
  <2> HIDE DEF S
  <2>1. \A l \in S : key[l] \in Seq(Int)
    BY <1>4, PairOfInts
  <2>2. \A l, m \in S : key[l] = key[m] => l.inst = m.inst
    OBVIOUS
  <2>3. key \in [S -> Seq(Int)]
    BY <2>1
  <2> QED  BY <1>5, <2>2, <2>3 DEF IsKey
<1>7. Issuers(links) = Sorted(key)
  BY DEF Issuers, NowIn
<1> HIDE DEF key
<1>8. PICK count \in Nat :
        /\ DOMAIN Sorted(key) = 1 .. count /\ Len(Sorted(key)) = count
        /\ \A k \in 1 .. count : Sorted(key)[k] \in S
        /\ \A l \in S : \E k \in 1 .. count : Sorted(key)[k] = l
        /\ \A i, j \in 1 .. count : i < j => Sorted(key)[i] # Sorted(key)[j]
  <2> HIDE DEF S
  <2> QED  BY <1>3, <1>6, SortedAll
<1>9. \A m \in DOMAIN Issuers(links) : \E k \in NowIn(links) : links[k] = Issuers(links)[m]
  BY <1>7, <1>8
<1>10. ASSUME NEW i \in DOMAIN Issuers(links), NEW j \in DOMAIN Issuers(links),
              Issuers(links)[i].inst = Issuers(links)[j].inst
       PROVE  i = j
  <2>1. i \in 1 .. count /\ j \in 1 .. count /\ Sorted(key)[i] = Sorted(key)[j]
    BY <1>5, <1>7, <1>8, <1>10
  <2> QED  BY <1>8, <2>1
<1>11. ASSUME NEW k \in NowIn(links)
       PROVE  \E m \in DOMAIN Issuers(links) : Issuers(links)[m].inst = links[k].inst
  <2> DEFINE T == {j \in NowIn(links) : links[j].inst = links[k].inst}
  <2>1. T \in SUBSET Nat /\ T # {}
    BY <1>2
  <2>2. PICK j \in T : \A m \in T : j <= m
    BY <2>1, FirstPlace
  <2>3. j \in first
    BY <2>2
  <2>4. links[j] \in S
    BY <2>3
  <2>5. PICK m \in DOMAIN Issuers(links) : Issuers(links)[m] = links[j]
    BY <1>7, <1>8, <2>4
  <2> QED  BY <2>5
<1> QED  BY <1>7, <1>8, <1>9, <1>10, <1>11

\* Who issues now, by their institutions.
LEMMA IssuersListed ==
  ASSUME NEW links \in Seq(LinkRecord)
  PROVE  /\ \A i \in NamesOf(Issuers(links)) : \E k \in NowIn(links) : links[k].inst = i
         /\ \A k \in NowIn(links) : links[k].inst \in NamesOf(Issuers(links))
<1>1. ASSUME NEW i \in NamesOf(Issuers(links)) PROVE \E k \in NowIn(links) : links[k].inst = i
  <2>1. PICK m \in DOMAIN Issuers(links) : i = Issuers(links)[m].inst
    BY DEF NamesOf
  <2> QED  BY <2>1, IssuersForm
<1>2. ASSUME NEW k \in NowIn(links) PROVE links[k].inst \in NamesOf(Issuers(links))
  BY IssuersForm DEF NamesOf
<1> QED  BY <1>1, <1>2

\* The least of some numbers.
LEMMA MinOfNumbers ==
  ASSUME NEW T \in SUBSET Nat, T # {}
  PROVE  Min(T) \in T /\ \A j \in T : Min(T) <= j
<1>1. \E k \in T : \A j \in T : k <= j
  BY FirstPlace
<1> QED  BY <1>1 DEF Min

\* The address shown is that of an institution with a relationship that holds.
LEMMA AttributedHolds ==
  ASSUME NEW links \in Seq(LinkRecord), Attributed(links) # Unknown
  PROVE  \E k \in DOMAIN links : links[k].inst = Attributed(links) /\ links[k].current
<1> DEFINE now == {k \in DOMAIN links : links[k].current}
           primary == {k \in now : links[k].primary}
<1>1. PICK n \in Nat : DOMAIN links = 1 .. n
  BY LenProperties
<1>2. now \in SUBSET Nat /\ primary \in SUBSET Nat
  BY <1>1
<1>3. Attributed(links) = IF primary # {} THEN links[Min(primary)].inst
                          ELSE IF now # {} THEN links[Min(now)].inst ELSE Unknown
  BY DEF Attributed
<1>4. CASE primary # {}
  <2>1. Min(primary) \in primary
    BY <1>2, <1>4, MinOfNumbers
  <2> QED  BY <1>3, <1>4, <2>1
<1>5. CASE primary = {} /\ now # {}
  <2>1. Min(now) \in now
    BY <1>2, <1>5, MinOfNumbers
  <2> QED  BY <1>3, <1>5, <2>1
<1> QED  BY <1>3, <1>4, <1>5

--------------------------------------------------------------------------------
\* Candidates

\* What a package holds.
PackageOK ==
  /\ DOMAIN bins \subseteq Assigned
  /\ \A p \in DOMAIN bins : SoundLinks(bins[p])
  /\ ranges \in Seq(RangeForms)

\* A candidate; that an assignment shows an address it is entitled to is part of it.
Candidate ==
  {c \in [row : Nat, prefix : Prefix, low : Nat, high : Nat, strategy : DOMAIN Specificity,
          links : Seq(LinkRecord), current : BOOLEAN, place : Institutions \cup {Unknown}] :
     c.row = 0 => c.place = Attributed(c.links)}

\* Prefixes are what is assigned and what is asked.
LEMMA PrefixesAsked == Assigned \subseteq Prefix /\ Queries \subseteq Prefix
BY LookupAssumption DEF Prefix

\* A strategy has a specificity.
LEMMA StrategyKnown ==
  ASSUME NEW stored, NEW asked
  PROVE  Strategy(stored, asked) \in DOMAIN Specificity
BY DEF Strategy, Specificity

\* Whose address is shown is an institution, or nobody.
LEMMA AttributedKnown ==
  ASSUME NEW links \in Seq(LinkRecord)
  PROVE  Attributed(links) \in Institutions \cup {Unknown}
<1>1. CASE Attributed(links) = Unknown
  BY <1>1
<1>2. CASE Attributed(links) # Unknown
  <2>1. PICK k \in DOMAIN links : links[k].inst = Attributed(links)
    BY <1>2, AttributedHolds
  <2>2. links[k] \in LinkRecord
    <3>1. k \in 1 .. Len(links)
      BY <2>1, LenProperties
    <3> QED  BY <3>1, ElementOfSeq
  <2> QED  BY <2>1, <2>2 DEF LinkRecord
<1> QED  BY <1>1, <1>2

\* An assignment as a candidate.
LEMMA BinCandidateType ==
  ASSUME PackageOK, NEW q \in Prefix, NEW p \in DOMAIN bins
  PROVE  /\ BinCandidate(p, q) \in Candidate
         /\ BinCandidate(p, q).row = 0 /\ BinCandidate(p, q).prefix = p
         /\ BinCandidate(p, q).strategy = Strategy(Len(p), Len(q))
         /\ BinCandidate(p, q).links = LinksInOrder(bins[p])
<1>1. PICK links \in Seq(LinkRecord) : links = LinksInOrder(bins[p])
  BY LinksListed DEF PackageOK
<1>2. p \in Prefix
  BY PrefixesAsked DEF PackageOK
<1>3. Low(p) \in Nat /\ High(p) \in Nat
  BY <1>2, SpanOfPrefix
<1>4. Attributed(links) \in Institutions \cup {Unknown}
  BY AttributedKnown
<1>5. PICK st \in DOMAIN Specificity : st = Strategy(Len(p), Len(q))
  BY StrategyKnown
<1>6. BinCandidate(p, q) =
        [row |-> 0, prefix |-> p, low |-> Low(p), high |-> High(p), strategy |-> st,
         links |-> links, current |-> links = <<>> \/ \E k \in DOMAIN links : links[k].current,
         place |-> Attributed(links)]
  BY <1>1, <1>5 DEF BinCandidate
<1>7. PICK b \in BOOLEAN : b = (links = <<>> \/ \E k \in DOMAIN links : links[k].current)
  OBVIOUS
<1>8. BinCandidate(p, q) =
        [row |-> 0, prefix |-> p, low |-> Low(p), high |-> High(p), strategy |-> st,
         links |-> links, current |-> b, place |-> Attributed(links)]
  BY <1>6, <1>7
<1> QED  BY <1>1, <1>2, <1>3, <1>4, <1>5, <1>8 DEF Candidate

\* A range as a candidate.
LEMMA RangeCandidateType ==
  ASSUME PackageOK, NEW q \in Prefix, NEW k \in DOMAIN ranges
  PROVE  /\ RangeCandidate(k, q) \in Candidate
         /\ RangeCandidate(k, q).row = k /\ k # 0 /\ ranges[k] \in RangeForms
         /\ RangeCandidate(k, q).low = ranges[k].low /\ RangeCandidate(k, q).high = ranges[k].high
         /\ RangeCandidate(k, q).prefix = q
         /\ RangeCandidate(k, q).strategy =
              IF ranges[k].account THEN "account_range" ELSE "broader_range"
<1>1. k \in 1 .. Len(ranges) /\ ranges \in Seq(RangeForms)
  BY LenProperties DEF PackageOK
<1>2. PICK r \in RangeForms : r = ranges[k]
  BY <1>1, ElementOfSeq
<1>3. r \in RangeRecord /\ k \in Nat /\ k # 0
  BY <1>1, FormRecords
<1>4. /\ r.low \in Nat /\ r.high \in Nat /\ r.current \in BOOLEAN
      /\ r.inst \in Institutions \cup {Unknown} /\ r.from \in Nat /\ r.conf \in Int
  BY <1>3 DEF RangeRecord
<1>5. PICK links \in Seq(LinkRecord) : links =
        IF r.inst = Unknown THEN <<>>
        ELSE <<[inst |-> r.inst, kind |-> "issuer", current |-> r.current, primary |-> TRUE,
                from |-> r.from, conf |-> r.conf]>>
  <2>1. CASE r.inst = Unknown
    <3>1. <<>> \in Seq(LinkRecord)
      OBVIOUS
    <3> QED  BY <2>1, <3>1
  <2>2. CASE r.inst # Unknown
    <3>1. PICK l \in LinkRecord :
            l = [inst |-> r.inst, kind |-> "issuer", current |-> r.current, primary |-> TRUE,
                 from |-> r.from, conf |-> r.conf]
      BY <1>4, <2>2 DEF LinkRecord, Kinds
    <3>2. <<l>> \in Seq(LinkRecord)
      OBVIOUS
    <3> QED  BY <2>2, <3>1, <3>2
  <2> QED  BY <2>1, <2>2
<1>6. PICK st \in DOMAIN Specificity : st = IF r.account THEN "account_range" ELSE "broader_range"
  BY DEF Specificity
<1>7. RangeCandidate(k, q) =
        [row |-> k, prefix |-> q, low |-> r.low, high |-> r.high, strategy |-> st,
         links |-> links, current |-> r.current, place |-> r.inst]
  BY <1>2, <1>5, <1>6 DEF RangeCandidate
<1> QED  BY <1>2, <1>3, <1>4, <1>5, <1>6, <1>7 DEF Candidate

\* What contains the query: its assignments and its ranges.
LEMMA ContainingForm ==
  ASSUME NEW q, NEW c
  PROVE  c \in Containing(q) <=>
           \/ \E p \in DOMAIN bins : Covers(p, Low(q)) /\ Len(p) <= Len(q) /\ c = BinCandidate(p, q)
           \/ \E k \in DOMAIN ranges : /\ ranges[k].low <= Low(q) /\ Low(q) <= ranges[k].high
                                       /\ c = RangeCandidate(k, q)
BY DEF Containing, AssignedAt, AllocatedAt

\* There are finitely many of them.
LEMMA ContainingFinite ==
  ASSUME PackageOK, NEW q
  PROVE  IsFiniteSet(Containing(q))
<1> DEFINE P == {s \in DOMAIN bins : Covers(s, Low(q)) /\ Len(s) <= Len(q)}
           K == {j \in DOMAIN ranges : ranges[j].low <= Low(q) /\ Low(q) <= ranges[j].high}
           A == {BinCandidate(p, q) : p \in P}
           B == {RangeCandidate(k, q) : k \in K}
<1>1. IsFiniteSet(P)
  BY LookupAssumption, FS_Subset DEF PackageOK
<1>2. IsFiniteSet(K)
  <2>1. PICK n \in Nat : DOMAIN ranges = 1 .. n
    BY LenProperties DEF PackageOK
  <2>2. IsFiniteSet(1 .. n)
    BY FS_Interval
  <2> QED  BY <2>1, <2>2, FS_Subset
<1> HIDE DEF P, K
<1>3. IsFiniteSet(A)
  <2> DEFINE f == [p \in P |-> BinCandidate(p, q)]
  <2>1. f \in Surjection(P, A)
    BY DEF Surjection
  <2> HIDE DEF f, A
  <2> QED  BY <1>1, <2>1, FS_Surjection
<1>4. IsFiniteSet(B)
  <2> DEFINE f == [k \in K |-> RangeCandidate(k, q)]
  <2>1. f \in Surjection(K, B)
    BY DEF Surjection
  <2> HIDE DEF f, B
  <2> QED  BY <1>2, <2>1, FS_Surjection
<1>5. Containing(q) = A \cup B
  BY DEF Containing, AssignedAt, AllocatedAt, P, K
<1> HIDE DEF A, B
<1> QED  BY <1>3, <1>4, <1>5, FS_Union

\* Five numbers before a sequence.
LEMMA FiveFirst ==
  ASSUME NEW t \in Seq(Int), Len(t) = 5, NEW p \in Seq(Int)
  PROVE  /\ t \o p \in Seq(Int) /\ Len(t \o p) = 5 + Len(p)
         /\ \A k \in 1 .. 5 : (t \o p)[k] = t[k]
         /\ \A k \in 1 .. Len(p) : (t \o p)[5 + k] = p[k]
<1>1. PICK n \in Nat : n = Len(p)
  BY LenProperties
<1>2. /\ t \o p \in Seq(Int) /\ Len(t \o p) = Len(t) + Len(p)
      /\ \A k \in 1 .. Len(t) + Len(p) :
           (t \o p)[k] = IF k <= Len(t) THEN t[k] ELSE p[k - Len(t)]
  BY ConcatProperties
<1>3. \A k \in 1 .. 5 + n : (t \o p)[k] = IF k <= 5 THEN t[k] ELSE p[k - 5]
  BY <1>1, <1>2
<1>4. \A k \in 1 .. n : 5 + k \in 1 .. 5 + n /\ ~(5 + k <= 5) /\ (5 + k) - 5 = k
  OBVIOUS
<1> QED  BY <1>1, <1>2, <1>3, <1>4

\* A tuple of five.
LEMMA FiveInts ==
  ASSUME NEW a \in Int, NEW b \in Int, NEW c \in Int, NEW d \in Int, NEW e \in Int
  PROVE  /\ <<a, b, c, d, e>> \in Seq(Int) /\ Len(<<a, b, c, d, e>>) = 5
         /\ <<a, b, c, d, e>>[1] = a /\ <<a, b, c, d, e>>[2] = b
         /\ <<a, b, c, d, e>>[5] = e
OBVIOUS

\* The key of a candidate starts with its rank and its span, and has its row in the fifth
\* place.
LEMMA SortKeyForm ==
  ASSUME NEW c \in Candidate
  PROVE  /\ SortKey(c) \in Seq(Int) /\ Rank(c) \in Nat /\ SortKey(c)[1] = 0 - Rank(c)
         /\ SortKey(c)[2] = Span(c) /\ Span(c) \in Int
         /\ SortKey(c)[5] = c.row /\ Len(SortKey(c)) = 5 + Len(c.prefix)
         /\ \A k \in 1 .. Len(c.prefix) : SortKey(c)[5 + k] = c.prefix[k]
<1>1. /\ c.row \in Nat /\ c.prefix \in Prefix /\ c.low \in Nat /\ c.high \in Nat
      /\ c.strategy \in DOMAIN Specificity
  BY DEF Candidate
<1>2. Rank(c) \in Nat
  BY <1>1 DEF Rank, Specificity
<1>3. Span(c) \in Int /\ Late(c.current) \in Int
  BY <1>1 DEF Span, Late
<1>4. c.prefix \in Seq(Int)
  BY <1>1, LookupAssumption DEF Prefix
<1>5. PICK r \in Int, s \in Int, l \in Int : r = 0 - Rank(c) /\ s = Span(c) /\ l = Late(c.current)
  BY <1>2, <1>3
<1>6. PICK low \in Int, row \in Int : low = c.low /\ row = c.row
  BY <1>1
<1>7. PICK t : /\ t = <<r, s, l, low, row>> /\ t \in Seq(Int) /\ Len(t) = 5
               /\ t[1] = r /\ t[2] = s /\ t[5] = row
  <2>1. /\ <<r, s, l, low, row>> \in Seq(Int) /\ Len(<<r, s, l, low, row>>) = 5
        /\ <<r, s, l, low, row>>[1] = r /\ <<r, s, l, low, row>>[2] = s
        /\ <<r, s, l, low, row>>[5] = row
    BY FiveInts
  <2> QED  BY <2>1
<1>8. SortKey(c) = t \o c.prefix
  BY <1>5, <1>6, <1>7 DEF SortKey
<1>9. /\ t \o c.prefix \in Seq(Int) /\ Len(t \o c.prefix) = 5 + Len(c.prefix)
      /\ \A k \in 1 .. 5 : (t \o c.prefix)[k] = t[k]
      /\ \A k \in 1 .. Len(c.prefix) : (t \o c.prefix)[5 + k] = c.prefix[k]
  BY <1>4, <1>7, FiveFirst
<1>10. SortKey(c)[1] = 0 - Rank(c) /\ SortKey(c)[2] = Span(c) /\ SortKey(c)[5] = c.row
  <2>1. 1 \in 1 .. 5 /\ 2 \in 1 .. 5 /\ 5 \in 1 .. 5
    OBVIOUS
  <2>2. SortKey(c)[1] = t[1] /\ SortKey(c)[2] = t[2] /\ SortKey(c)[5] = t[5]
    BY <1>8, <1>9, <2>1
  <2> QED  BY <1>5, <1>6, <1>7, <2>2
<1>11. /\ SortKey(c) \in Seq(Int) /\ Len(SortKey(c)) = 5 + Len(c.prefix)
       /\ \A k \in 1 .. Len(c.prefix) : SortKey(c)[5 + k] = c.prefix[k]
  BY <1>8, <1>9
<1> QED  BY <1>2, <1>3, <1>10, <1>11

\* The key tells the row and the prefix of a candidate.
LEMMA SortKeyTells ==
  ASSUME NEW c \in Candidate, NEW d \in Candidate, SortKey(c) = SortKey(d)
  PROVE  c.row = d.row /\ c.prefix = d.prefix
<1>1. c.row = d.row
  BY SortKeyForm
<1>2. c.prefix \in Prefix /\ d.prefix \in Prefix
  BY DEF Candidate
<1>3. PICK m \in Nat, n \in Nat : m = Len(c.prefix) /\ n = Len(d.prefix)
  BY <1>2, LenProperties DEF Prefix
<1>4. Len(SortKey(c)) = 5 + Len(c.prefix) /\ Len(SortKey(d)) = 5 + Len(d.prefix)
  BY SortKeyForm
<1>5. m = n
  BY <1>3, <1>4
<1>6. \A k \in 1 .. n : c.prefix[k] = d.prefix[k]
  <2>1. \A k \in 1 .. Len(c.prefix) : SortKey(c)[5 + k] = c.prefix[k]
    BY SortKeyForm
  <2>2. \A k \in 1 .. Len(d.prefix) : SortKey(d)[5 + k] = d.prefix[k]
    BY SortKeyForm
  <2> QED  BY <1>3, <1>5, <2>1, <2>2
<1>7. \A k \in 1 .. Len(c.prefix) : c.prefix[k] = d.prefix[k]
  BY <1>3, <1>5, <1>6
<1>8. c.prefix = d.prefix
  BY <1>2, <1>3, <1>5, <1>7, SeqEqual DEF Prefix
<1> QED  BY <1>1, <1>8

\* Of two candidates the more specific one has the lesser key, and of two as specific
\* the narrower one.
LEMMA FirstIsSpecific ==
  ASSUME NEW c \in Candidate, NEW d \in Candidate, Lexical(SortKey(c), SortKey(d))
  PROVE  Rank(d) <= Rank(c) /\ (Rank(d) = Rank(c) => Span(c) <= Span(d))
<1>1. PICK a \in Seq(Int), b \in Seq(Int) : a = SortKey(c) /\ b = SortKey(d)
  BY SortKeyForm
<1>2. PICK na, nb \in Nat :
           /\ DOMAIN a = 1 .. na /\ \A k \in 1 .. na : a[k] \in Int
           /\ DOMAIN b = 1 .. nb /\ \A k \in 1 .. nb : b[k] \in Int
           /\ Len(a) = na /\ Len(b) = nb
           /\ Lexical(a, b) <=> \E k \in 1 .. nb : /\ k <= na + 1
                                                   /\ \A j \in 1 .. k - 1 : a[j] = b[j]
                                                   /\ k <= na => a[k] < b[k]
  BY LexicalForm
<1>3. PICK k \in 1 .. nb : /\ k <= na + 1 /\ \A j \in 1 .. k - 1 : a[j] = b[j]
                           /\ k <= na => a[k] < b[k]
  BY <1>1, <1>2
<1>4. Rank(c) \in Nat /\ Rank(d) \in Nat /\ a[1] = 0 - Rank(c) /\ b[1] = 0 - Rank(d)
  BY <1>1, SortKeyForm
<1>5. na >= 5
  <2>1. PICK m \in Nat : m = Len(c.prefix)
    BY LenProperties DEF Candidate, Prefix
  <2>2. na = 5 + m
    BY <1>1, <1>2, <2>1, SortKeyForm
  <2> QED  BY <2>1, <2>2
<1>6. a[1] <= b[1]
  <2>1. CASE k = 1
    BY <1>3, <1>4, <1>5, <2>1
  <2>2. CASE k # 1
    <3>1. 1 \in 1 .. k - 1
      BY <2>2
    <3>2. a[1] = b[1]
      BY <1>3, <3>1
    <3> QED  BY <1>4, <3>2
  <2> QED  BY <2>1, <2>2
<1>7. a[2] = Span(c) /\ b[2] = Span(d) /\ Span(c) \in Int /\ Span(d) \in Int
  BY <1>1, SortKeyForm
<1>8. ASSUME a[1] = b[1] PROVE a[2] <= b[2]
  <2>1. CASE k = 1
    BY <1>3, <1>4, <1>5, <1>8, <2>1
  <2>2. CASE k = 2
    BY <1>3, <1>5, <1>7, <2>2
  <2>3. CASE k \notin {1, 2}
    <3>1. 2 \in 1 .. k - 1
      BY <2>3
    <3>2. a[2] = b[2]
      BY <1>3, <3>1
    <3> QED  BY <1>7, <3>2
  <2> QED  BY <2>1, <2>2, <2>3
<1> QED  BY <1>4, <1>6, <1>7, <1>8

\* What contains a query are candidates, and their keys tell them apart.
LEMMA CandidatesKeyed ==
  ASSUME PackageOK, NEW q \in Prefix
  PROVE  /\ Containing(q) \subseteq Candidate
         /\ IsKey([c \in Containing(q) |-> SortKey(c)], Containing(q))
<1>1. ASSUME NEW c \in Containing(q)
      PROVE  /\ c \in Candidate
             /\ \/ c.row = 0 /\ \E p \in DOMAIN bins : c = BinCandidate(p, q) /\ c.prefix = p
                \/ c.row # 0 /\ c = RangeCandidate(c.row, q)
  <2>1. CASE \E p \in DOMAIN bins : c = BinCandidate(p, q)
    <3>1. PICK p \in DOMAIN bins : c = BinCandidate(p, q)
      BY <2>1
    <3> QED  BY <3>1, BinCandidateType
  <2>2. CASE \E k \in DOMAIN ranges : c = RangeCandidate(k, q)
    <3>1. PICK k \in DOMAIN ranges : c = RangeCandidate(k, q)
      BY <2>2
    <3> QED  BY <3>1, RangeCandidateType
  <2>3. \/ \E p \in DOMAIN bins : c = BinCandidate(p, q)
        \/ \E k \in DOMAIN ranges : c = RangeCandidate(k, q)
    BY ContainingForm
  <2> QED  BY <2>1, <2>2, <2>3
<1> DEFINE key == [c \in Containing(q) |-> SortKey(c)]
<1>2. key \in [Containing(q) -> Seq(Int)]
  BY <1>1, SortKeyForm
<1>3. ASSUME NEW c \in Containing(q), NEW d \in Containing(q), key[c] = key[d] PROVE c = d
  <2>1. c \in Candidate /\ d \in Candidate /\ SortKey(c) = SortKey(d)
    BY <1>1, <1>3
  <2>2. c.row = d.row /\ c.prefix = d.prefix
    BY <2>1, SortKeyTells
  <2> QED  BY <1>1, <2>2
<1>4. Containing(q) \subseteq Candidate
  BY <1>1
<1> HIDE DEF key
<1>5. IsKey(key, Containing(q))
  BY <1>2, <1>3 DEF IsKey
<1> QED  BY <1>4, <1>5 DEF key

\* Candidates are ranked: whatever contains the query is among them, and none is more
\* specific than one before it, or as specific and narrower.
LEMMA RankedForm ==
  ASSUME PackageOK, NEW q \in Prefix
  PROVE  /\ Ranked(q) \in Seq(Candidate) /\ Ranked(q) \in Seq(Containing(q))
         /\ Containing(q) \subseteq Candidate
         /\ Len(Ranked(q)) \in Nat /\ DOMAIN Ranked(q) = 1 .. Len(Ranked(q))
         /\ \A c \in Containing(q) : \E k \in 1 .. Len(Ranked(q)) : Ranked(q)[k] = c
         /\ \A i, j \in 1 .. Len(Ranked(q)) : i <= j =>
              /\ Rank(Ranked(q)[j]) <= Rank(Ranked(q)[i])
              /\ Rank(Ranked(q)[j]) = Rank(Ranked(q)[i])
                   => Span(Ranked(q)[i]) <= Span(Ranked(q)[j])
<1> DEFINE S == Containing(q)
           key == [c \in S |-> SortKey(c)]
           order == Sorted(key)
<1>1. Containing(q) \subseteq Candidate /\ IsKey(key, S) /\ IsFiniteSet(S)
  BY CandidatesKeyed, ContainingFinite
<1>2. \A c \in S : key[c] = SortKey(c)
  OBVIOUS
<1>3. Ranked(q) = order
  BY DEF Ranked
<1> HIDE DEF S, key
<1>4. PICK n \in Nat :
        /\ order \in Seq(S) /\ Len(order) = n /\ DOMAIN order = 1 .. n
        /\ \A k \in 1 .. n : order[k] \in S
        /\ \A x \in S : \E k \in 1 .. n : order[k] = x
        /\ \A i, j \in 1 .. n : i < j => Lexical(key[order[i]], key[order[j]])
  BY <1>1, SortedAll
<1> HIDE DEF order
<1>5. \A k \in 1 .. n : order[k] \in Candidate
  BY <1>1, <1>4 DEF S
<1>6. ASSUME NEW i \in 1 .. n, NEW j \in 1 .. n, i <= j
      PROVE  /\ Rank(order[j]) <= Rank(order[i])
             /\ Rank(order[j]) = Rank(order[i]) => Span(order[i]) <= Span(order[j])
  <2>1. CASE i = j
    BY <1>5, <2>1, SortKeyForm
  <2>2. CASE i # j
    <3>1. Lexical(key[order[i]], key[order[j]])
      BY <1>4, <1>6, <2>2
    <3>2. Lexical(SortKey(order[i]), SortKey(order[j]))
      BY <1>2, <1>4, <3>1
    <3> QED  BY <1>5, <3>2, FirstIsSpecific
  <2> QED  BY <2>1, <2>2
<1>7. order \in Seq(Candidate)
  BY <1>1, <1>4 DEF S
<1> QED  BY <1>1, <1>3, <1>4, <1>6, <1>7 DEF S

\* The winner contains the query, and nothing that does is more specific, or as specific
\* and narrower.
LEMMA WinnerIsFirst ==
  ASSUME PackageOK, NEW q \in Prefix, Ranked(q) # <<>>
  PROVE  /\ Head(Ranked(q)) \in Containing(q) /\ Head(Ranked(q)) \in Candidate
         /\ \A c \in Containing(q) :
              /\ Rank(c) <= Rank(Head(Ranked(q)))
              /\ Rank(c) = Rank(Head(Ranked(q))) => Span(Head(Ranked(q))) <= Span(c)
<1>1. PICK order : /\ order = Ranked(q) /\ order \in Seq(Containing(q)) /\ Len(order) \in Nat
                   /\ Containing(q) \subseteq Candidate
                   /\ \A c \in Containing(q) : \E k \in 1 .. Len(order) : order[k] = c
                   /\ \A i, j \in 1 .. Len(order) : i <= j =>
                        /\ Rank(order[j]) <= Rank(order[i])
                        /\ Rank(order[j]) = Rank(order[i]) => Span(order[i]) <= Span(order[j])
  BY RankedForm
<1>2. Len(order) # 0
  BY <1>1, EmptySeq
<1>3. 1 \in 1 .. Len(order) /\ Head(order) = order[1]
  BY <1>1, <1>2
<1>4. order[1] \in Containing(q)
  BY <1>1, <1>3, ElementOfSeq
<1>5. ASSUME NEW c \in Containing(q)
      PROVE  /\ Rank(c) <= Rank(order[1])
             /\ Rank(c) = Rank(order[1]) => Span(order[1]) <= Span(c)
  <2>1. PICK k \in 1 .. Len(order) : order[k] = c
    BY <1>1
  <2> QED  BY <1>1, <1>3, <2>1
<1> QED  BY <1>1, <1>3, <1>4, <1>5

--------------------------------------------------------------------------------
\* Answers

\* What an answer consists of.
LEMMA AnswerForm ==
  ASSUME NEW q
  PROVE  /\ Answer(q).op = "lookup" /\ Answer(q).query = q
         /\ Answer(q).found =>
              /\ Ranked(q) # <<>> /\ Answer(q).winner = Head(Ranked(q))
              /\ Answer(q).place = Head(Ranked(q)).place
              /\ Answer(q).issuers = IF Head(Ranked(q)).links = <<>> THEN {}
                                     ELSE NamesOf(Issuers(Head(Ranked(q)).links))
BY DEF Answer, NoAnswer

\* PresentOnly, of a result.
PresentIn(r) ==
  r.op = "lookup" /\ r.found =>
    LET links == {r.winner.links[k] : k \in DOMAIN r.winner.links} IN
    /\ \A i \in r.issuers : \E l \in links : l.inst = i /\ l.current /\ IsIssuing(l)
    /\ r.winner.row = 0 /\ r.place # Unknown
         => \E l \in links : l.inst = r.place /\ l.current
    /\ r.issuers = {} => \A l \in links : ~(l.current /\ IsIssuing(l))

\* An answer presents nobody from the past.
LEMMA AnswerIsPresent ==
  ASSUME PackageOK, NEW q \in Prefix
  PROVE  PresentIn(Answer(q))
<1>1. PICK r : r = Answer(q)
  OBVIOUS
<1>2. SUFFICES ASSUME r.found PROVE PresentIn(r)
  BY <1>1 DEF PresentIn
<1>3. Ranked(q) # <<>>
  BY <1>1, <1>2, AnswerForm
<1>4. PICK w \in Candidate : w = Head(Ranked(q))
  BY <1>3, WinnerIsFirst
<1>5. /\ r.winner = w /\ r.place = w.place
      /\ r.issuers = IF w.links = <<>> THEN {} ELSE NamesOf(Issuers(w.links))
  BY <1>1, <1>2, <1>4, AnswerForm
<1>6. w.links \in Seq(LinkRecord) /\ (w.row = 0 => w.place = Attributed(w.links))
  BY DEF Candidate
<1> DEFINE links == {w.links[k] : k \in DOMAIN w.links}
<1>7. ASSUME NEW i \in r.issuers PROVE \E l \in links : l.inst = i /\ l.current /\ IsIssuing(l)
  <2>1. i \in NamesOf(Issuers(w.links))
    BY <1>5
  <2>2. PICK k \in NowIn(w.links) : w.links[k].inst = i
    BY <1>6, <2>1, IssuersListed
  <2> QED  BY <2>2 DEF NowIn
<1>8. ASSUME w.row = 0, r.place # Unknown PROVE \E l \in links : l.inst = r.place /\ l.current
  <2>1. PICK k \in DOMAIN w.links : w.links[k].inst = r.place /\ w.links[k].current
    BY <1>5, <1>6, <1>8, AttributedHolds
  <2> QED  BY <2>1
<1>9. ASSUME r.issuers = {}, NEW l \in links PROVE ~(l.current /\ IsIssuing(l))
  <2>1. PICK k \in DOMAIN w.links : l = w.links[k]
    OBVIOUS
  <2>2. w.links # <<>>
    BY <2>1
  <2>3. NamesOf(Issuers(w.links)) = {}
    BY <1>5, <1>9, <2>2
  <2>4. k \notin NowIn(w.links)
    BY <1>6, <2>3, IssuersListed
  <2> QED  BY <2>1, <2>4 DEF NowIn
<1> QED  BY <1>5, <1>7, <1>8, <1>9 DEF PresentIn

\* RootNeverOverrides, of a result.
RootIn(r) ==
  r.op = "lookup" /\ r.found =>
    LET q == r.query
        w == r.winner
        accounts == {k \in AllocatedAt(q) : ranges[k].account}
    IN /\ q \in DOMAIN bins /\ q # <<>> /\ Len(q) <= Width => w.row = 0 /\ w.prefix = q
       /\ w.row # 0 =>
            /\ \A k \in accounts : ranges[w.row].account
            /\ ~ranges[w.row].account => \A p \in AssignedAt(q) : Len(p) < Len(q)
            /\ \A k \in AllocatedAt(q) : ranges[k].account = ranges[w.row].account
                 => Span(w) <= ranges[k].high - ranges[k].low + 1
       /\ w.row = 0 /\ w.prefix = <<>> => accounts = {}
       /\ w.row = 0 /\ Len(w.prefix) < Len(q) =>
            /\ AllocatedAt(q) = {}
            /\ \A p \in AssignedAt(q) : Span(w) <= High(p) - Low(p) + 1

\* How specific the strategies are.
LEMMA Specificities ==
  /\ Specificity["root_prefix"] = 2 /\ Specificity["broader_range"] = 3
  /\ Specificity["exact_6"] = 4 /\ Specificity["account_range"] = 5
  /\ Specificity["exact_assigned"] = 6 /\ Specificity["exact_8"] = 6
BY DEF Specificity

\* The rank of an assignment, which its length against the query's decides.
LEMMA RankOfBin ==
  ASSUME PackageOK, NEW q \in Prefix, NEW p \in AssignedAt(q)
  PROVE  /\ BinCandidate(p, q) \in Containing(q)
         /\ BinCandidate(p, q).row = 0 /\ BinCandidate(p, q).prefix = p
         /\ Span(BinCandidate(p, q)) = High(p) - Low(p) + 1
         /\ Len(p) # Len(q) => Rank(BinCandidate(p, q)) = 2
         /\ Len(p) = Len(q) => Rank(BinCandidate(p, q)) \in {4, 6}
         /\ Len(p) = Len(q) /\ p = <<>> => Rank(BinCandidate(p, q)) = 4
         /\ Len(p) = Len(q) /\ p # <<>> => Rank(BinCandidate(p, q)) = 6
<1>1. p \in DOMAIN bins /\ p \in Prefix
  BY PrefixesAsked DEF AssignedAt, PackageOK
<1>2. PICK n \in Nat, m \in Nat : n = Len(p) /\ m = Len(q)
  BY <1>1, LenProperties DEF Prefix
<1>3. PICK c : c = BinCandidate(p, q)
  OBVIOUS
<1>4. c \in Containing(q) /\ c.row = 0 /\ c.prefix = p /\ c.strategy = Strategy(n, m)
  BY <1>1, <1>2, <1>3, BinCandidateType, ContainingForm DEF AssignedAt
<1>5. Span(c) = High(p) - Low(p) + 1
  <2>1. c.low = Low(p) /\ c.high = High(p)
    BY <1>3 DEF BinCandidate
  <2> QED  BY <2>1 DEF Span
<1>6. p = <<>> <=> n = 0
  BY <1>1, <1>2, EmptySeq DEF Prefix
<1>7. n # m => Rank(c) = 2
  BY <1>4, Specificities DEF Rank, Strategy
<1>8. n = m /\ n = 0 => Rank(c) = 4
  <2>1. ~(0 >= Width)
    BY LookupAssumption
  <2> QED  BY <1>4, <2>1, Specificities DEF Rank, Strategy
<1>9. n = m /\ n # 0 => Rank(c) = 6
  BY <1>4, Specificities DEF Rank, Strategy
<1> QED  BY <1>2, <1>3, <1>4, <1>5, <1>6, <1>7, <1>8, <1>9

\* The rank of a range, which its kind decides.
LEMMA RankOfRange ==
  ASSUME PackageOK, NEW q \in Prefix, NEW k \in AllocatedAt(q)
  PROVE  /\ RangeCandidate(k, q) \in Containing(q)
         /\ RangeCandidate(k, q).row = k /\ k # 0 /\ ranges[k].account \in BOOLEAN
         /\ Span(RangeCandidate(k, q)) = ranges[k].high - ranges[k].low + 1
         /\ ranges[k].account => Rank(RangeCandidate(k, q)) = 5
         /\ ~ranges[k].account => Rank(RangeCandidate(k, q)) = 3
<1>1. k \in DOMAIN ranges
  BY DEF AllocatedAt
<1>2. PICK c : c = RangeCandidate(k, q)
  OBVIOUS
<1>3. /\ c \in Containing(q) /\ c.row = k /\ k # 0 /\ ranges[k] \in RangeForms
      /\ c.low = ranges[k].low /\ c.high = ranges[k].high
      /\ c.strategy = IF ranges[k].account THEN "account_range" ELSE "broader_range"
  BY <1>1, <1>2, RangeCandidateType, ContainingForm DEF AllocatedAt
<1>4. ranges[k].account \in BOOLEAN
  BY <1>3, FormRecords DEF RangeRecord
<1>5. Span(c) = ranges[k].high - ranges[k].low + 1
  BY <1>3 DEF Span
<1>6. ranges[k].account => Rank(c) = 5
  BY <1>3, Specificities DEF Rank
<1>7. ~ranges[k].account => Rank(c) = 3
  BY <1>3, Specificities DEF Rank
<1> QED  BY <1>2, <1>3, <1>4, <1>5, <1>6, <1>7

\* An answer is the most specific there is.
LEMMA AnswerIsSpecific ==
  ASSUME PackageOK, NEW q \in Prefix
  PROVE  RootIn(Answer(q))
<1>1. PICK r : r = Answer(q)
  OBVIOUS
<1>2. SUFFICES ASSUME r.found PROVE RootIn(r)
  BY <1>1 DEF RootIn
<1>3. Ranked(q) # <<>>
  BY <1>1, <1>2, AnswerForm
<1>4. PICK w \in Candidate : /\ w = Head(Ranked(q)) /\ w \in Containing(q)
                             /\ \A c \in Containing(q) :
                                  /\ Rank(c) <= Rank(w)
                                  /\ Rank(c) = Rank(w) => Span(w) <= Span(c)
  BY <1>3, WinnerIsFirst
<1>5. r.winner = w /\ r.query = q
  BY <1>1, <1>2, <1>4, AnswerForm
<1>6. \/ \E p \in AssignedAt(q) : w = BinCandidate(p, q)
      \/ \E k \in AllocatedAt(q) : w = RangeCandidate(k, q)
  BY <1>4, ContainingForm DEF AssignedAt, AllocatedAt
<1> DEFINE accounts == {k \in AllocatedAt(q) : ranges[k].account}
<1>7. ASSUME q \in DOMAIN bins, q # <<>>, Len(q) <= Width
      PROVE  w.row = 0 /\ w.prefix = q
  <2>1. q \in AssignedAt(q)
    <3>1. Low(q) \in Nat /\ High(q) \in Nat /\ Low(q) <= High(q)
      BY SpanOfPrefix
    <3>2. PICK n \in Nat : n = Len(q)
      BY LenProperties DEF Prefix
    <3> QED  BY <1>7, <3>1, <3>2 DEF AssignedAt, Covers
  <2>2. BinCandidate(q, q) \in Containing(q) /\ Rank(BinCandidate(q, q)) = 6
    BY <1>7, <2>1, RankOfBin
  <2>3. 6 <= Rank(w)
    BY <1>4, <2>2
  <2>4. ~ \E k \in AllocatedAt(q) : w = RangeCandidate(k, q)
    BY <2>3, RankOfRange
  <2>5. PICK p \in AssignedAt(q) : w = BinCandidate(p, q)
    BY <1>6, <2>4
  <2>6. Len(p) = Len(q) /\ w.row = 0 /\ w.prefix = p
    BY <2>3, <2>5, RankOfBin
  <2>7. p \in Prefix /\ p \in DOMAIN bins /\ Covers(p, Low(q))
    BY PrefixesAsked DEF AssignedAt, PackageOK
  <2>8. p = q
    BY <1>7, <2>6, <2>7, CoveredByItself
  <2> QED  BY <2>6, <2>8
<1>8. ASSUME NEW k \in AllocatedAt(q), w = RangeCandidate(k, q)
      PROVE  /\ w.row # 0
             /\ \A j \in accounts : ranges[w.row].account
             /\ ~ranges[w.row].account => \A p \in AssignedAt(q) : Len(p) < Len(q)
             /\ \A j \in AllocatedAt(q) : ranges[j].account = ranges[w.row].account
                  => Span(w) <= ranges[j].high - ranges[j].low + 1
  <2>1. /\ w.row = k /\ k # 0 /\ ranges[k].account \in BOOLEAN
        /\ ranges[k].account => Rank(w) = 5
        /\ ~ranges[k].account => Rank(w) = 3
    BY <1>8, RankOfRange
  <2>2. ASSUME NEW j \in accounts, ~ranges[k].account PROVE FALSE
    <3>1. RangeCandidate(j, q) \in Containing(q) /\ Rank(RangeCandidate(j, q)) = 5
      BY <2>2, RankOfRange
    <3> QED  BY <1>4, <2>1, <2>2, <3>1
  <2>3. ASSUME NEW p \in AssignedAt(q), ~ranges[k].account PROVE Len(p) < Len(q)
    <3>1. BinCandidate(p, q) \in Containing(q)
      BY RankOfBin
    <3>2. Rank(BinCandidate(p, q)) <= 3
      BY <1>4, <2>1, <2>3, <3>1
    <3>3. Len(p) # Len(q)
      BY <3>2, RankOfBin
    <3>4. p \in Prefix /\ Len(p) <= Len(q)
      BY PrefixesAsked DEF AssignedAt, PackageOK
    <3>5. Len(p) \in Nat /\ Len(q) \in Nat
      BY <3>4, LenProperties DEF Prefix
    <3> QED  BY <3>3, <3>4, <3>5
  <2>4. ASSUME NEW j \in AllocatedAt(q), ranges[j].account = ranges[k].account
        PROVE  Span(w) <= ranges[j].high - ranges[j].low + 1
    <3>1. /\ RangeCandidate(j, q) \in Containing(q)
          /\ Span(RangeCandidate(j, q)) = ranges[j].high - ranges[j].low + 1
          /\ ranges[j].account => Rank(RangeCandidate(j, q)) = 5
          /\ ~ranges[j].account => Rank(RangeCandidate(j, q)) = 3
      BY RankOfRange
    <3>2. Rank(RangeCandidate(j, q)) = Rank(w)
      BY <2>1, <2>4, <3>1
    <3> QED  BY <1>4, <3>1, <3>2
  <2> QED  BY <2>1, <2>2, <2>3, <2>4
<1>9. ASSUME NEW p \in AssignedAt(q), w = BinCandidate(p, q)
      PROVE  /\ w.row = 0
             /\ w.prefix = <<>> => accounts = {}
             /\ Len(w.prefix) < Len(q) =>
                  /\ AllocatedAt(q) = {}
                  /\ \A s \in AssignedAt(q) : Span(w) <= High(s) - Low(s) + 1
  <2>1. w.row = 0 /\ w.prefix = p
    BY <1>9, RankOfBin
  <2>2. Len(p) \in Nat /\ Len(q) \in Nat
    BY PrefixesAsked, LenProperties DEF AssignedAt, PackageOK, Prefix
  <2>3. ASSUME p = <<>>, NEW k \in accounts PROVE FALSE
    <3>1. Rank(w) \in {2, 4}
      BY <1>9, <2>3, RankOfBin
    <3>2. RangeCandidate(k, q) \in Containing(q) /\ Rank(RangeCandidate(k, q)) = 5
      BY <2>3, RankOfRange
    <3> QED  BY <1>4, <3>1, <3>2
  <2>4. ASSUME Len(p) < Len(q)
        PROVE  /\ AllocatedAt(q) = {}
               /\ \A s \in AssignedAt(q) : Span(w) <= High(s) - Low(s) + 1
    <3>1. Rank(w) = 2
      <4>1. Len(p) # Len(q)
        BY <2>2, <2>4
      <4> QED  BY <1>9, <4>1, RankOfBin
    <3>2. ASSUME NEW k \in AllocatedAt(q) PROVE FALSE
      <4>1. RangeCandidate(k, q) \in Containing(q) /\ Rank(RangeCandidate(k, q)) \in {3, 5}
        BY RankOfRange
      <4> QED  BY <1>4, <3>1, <4>1
    <3>3. ASSUME NEW s \in AssignedAt(q) PROVE Span(w) <= High(s) - Low(s) + 1
      <4>1. /\ BinCandidate(s, q) \in Containing(q)
            /\ Span(BinCandidate(s, q)) = High(s) - Low(s) + 1
            /\ Rank(BinCandidate(s, q)) \in {2, 4, 6}
        BY RankOfBin
      <4>2. Rank(BinCandidate(s, q)) = Rank(w)
        BY <1>4, <3>1, <4>1
      <4> QED  BY <1>4, <4>1, <4>2
    <3> QED  BY <3>2, <3>3
  <2> QED  BY <2>1, <2>3, <2>4
<1> HIDE DEF accounts
<1>10. w.row # 0 =>
         /\ \A k \in accounts : ranges[w.row].account
         /\ ~ranges[w.row].account => \A p \in AssignedAt(q) : Len(p) < Len(q)
         /\ \A k \in AllocatedAt(q) : ranges[k].account = ranges[w.row].account
              => Span(w) <= ranges[k].high - ranges[k].low + 1
  BY <1>6, <1>8, <1>9
<1>11. /\ w.row = 0 /\ w.prefix = <<>> => accounts = {}
       /\ w.row = 0 /\ Len(w.prefix) < Len(q) =>
            /\ AllocatedAt(q) = {}
            /\ \A p \in AssignedAt(q) : Span(w) <= High(p) - Low(p) + 1
  BY <1>6, <1>8, <1>9
<1> QED  BY <1>5, <1>7, <1>10, <1>11 DEF RootIn, accounts

--------------------------------------------------------------------------------
\* Conflicts

\* The order of pairs.
LEMMA PairsInOrder ==
  ASSUME NEW a \in Int, NEW b \in Int, NEW c \in Int, NEW d \in Int,
         Lexical(<<a, b>>, <<c, d>>)
  PROVE  a < c \/ (a = c /\ b < d)
<1>1. DOMAIN <<c, d>> = 1 .. 2 /\ Len(<<a, b>>) = 2
  OBVIOUS
<1>2. PICK k \in 1 .. 2 : /\ \A j \in 1 .. k - 1 : <<a, b>>[j] = <<c, d>>[j]
                          /\ k <= 2 => <<a, b>>[k] < <<c, d>>[k]
  BY <1>1 DEF Lexical
<1>3. CASE k = 1
  BY <1>2, <1>3
<1>4. CASE k = 2
  <2>1. 1 \in 1 .. k - 1
    BY <1>4
  <2>2. <<a, b>>[1] = <<c, d>>[1] /\ <<a, b>>[2] < <<c, d>>[2]
    BY <1>2, <1>4, <2>1
  <2> QED  BY <2>2
<1> QED  BY <1>3, <1>4

\* What has a first element is that and the rest.
LEMMA HeadAndTail ==
  ASSUME NEW S, NEW s \in Seq(S), s # <<>>
  PROVE  <<Head(s)>> \o Tail(s) = s
<1>1. /\ Head(s) \in S /\ Tail(s) \in Seq(S) /\ Len(Tail(s)) = Len(s) - 1
      /\ \A i \in 1 .. Len(Tail(s)) : Tail(s)[i] = s[i + 1]
  BY HeadTailProperties
<1>2. PICK n \in Nat : n = Len(s) /\ n # 0 /\ Head(s) = s[1]
  BY LenProperties, EmptySeq
<1>3. PICK h : h = <<Head(s)>> /\ h \in Seq(S) /\ Len(h) = 1 /\ h[1] = s[1]
  <2>1. <<Head(s)>> \in Seq(S) /\ Len(<<Head(s)>>) = 1 /\ <<Head(s)>>[1] = Head(s)
    BY <1>1
  <2> QED  BY <1>2, <2>1
<1>4. PICK t \in Seq(S) : t = Tail(s) /\ Len(t) = n - 1 /\ \A i \in 1 .. n - 1 : t[i] = s[i + 1]
  BY <1>1, <1>2
<1>5. /\ h \o t \in Seq(S) /\ Len(h \o t) = Len(h) + Len(t)
      /\ \A i \in 1 .. Len(h) + Len(t) : (h \o t)[i] = IF i <= Len(h) THEN h[i] ELSE t[i - Len(h)]
  BY <1>3, <1>4, ConcatProperties
<1>6. Len(h \o t) = n /\ \A i \in 1 .. n : (h \o t)[i] = IF i <= 1 THEN h[i] ELSE t[i - 1]
  BY <1>3, <1>4, <1>5
<1>7. ASSUME NEW i \in 1 .. n PROVE (h \o t)[i] = s[i]
  <2>1. CASE i = 1
    BY <1>3, <1>6, <2>1
  <2>2. CASE i # 1
    <3>1. i - 1 \in 1 .. n - 1 /\ ~(i <= 1) /\ (i - 1) + 1 = i
      BY <2>2
    <3> QED  BY <1>4, <1>6, <3>1
  <2> QED  BY <2>1, <2>2
<1>8. h \o t = s
  BY <1>2, <1>5, <1>6, <1>7, SeqEqual
<1> QED  BY <1>3, <1>4, <1>8

\* The issuer that a place names.
NowOf(c) == {c.links[k] : k \in NowIn(c.links)}

\* What a claim says of its relationship and of its allocation.
LEMMA ClaimSays ==
  ASSUME NEW l, NEW c
  PROVE  /\ ClaimOf(l, c).inst = l.inst /\ ClaimOf(l, c).spec = Rank(c)
         /\ ClaimOf(l, c).span = Span(c) /\ ClaimOf(l, c).from = l.from
         /\ ClaimOf(l, c).conf = Figure(l)
BY DEF ClaimOf

\* The claims on an answer: each is of an institution that issues now, no institution has
\* two, and they start with the first allocation that names one.
ClaimsListed(claims, all) ==
  /\ Len(claims) \in Nat /\ DOMAIN claims = 1 .. Len(claims)
  /\ \A n \in 1 .. Len(claims) : \E k \in 1 .. Len(all) : \E l \in NowOf(all[k]) :
       claims[n] = ClaimOf(l, all[k])
  /\ \A m, n \in 1 .. Len(claims) : claims[m].inst = claims[n].inst => m = n
  /\ \A k \in 1 .. Len(all) : NowOf(all[k]) # {} =>
       Len(claims) >= 1 /\ \E j \in 1 .. k : claims[1].spec = Rank(all[j])
  /\ Len(Issuers(all[1].links)) >= 2 =>
       /\ Len(claims) >= 2
       /\ \A n \in 1 .. 2 : \E l \in NowOf(all[1]) : claims[n] = ClaimOf(l, all[1])

\* That is what Claims lists.
LEMMA ClaimsForm ==
  ASSUME NEW all \in Seq(Candidate), all # <<>>, NEW claims, claims = Claims(all)
  PROVE  ClaimsListed(claims, all)
<1> DEFINE issuers == [k \in DOMAIN all |-> Issuers(all[k].links)]
           Places == UNION {{k} \X DOMAIN issuers[k] : k \in DOMAIN all}
           new == {x \in Places : \A k \in 1 .. x[1] - 1 :
                                   issuers[x[1]][x[2]].inst \notin NamesOf(issuers[k])}
           order == Sorted([x \in new |-> x])
<1>1. PICK N \in Nat : N = Len(all) /\ DOMAIN all = 1 .. N /\ N # 0
  BY LenProperties, EmptySeq
<1>2. \A k \in 1 .. N : all[k] \in Candidate /\ all[k].links \in Seq(LinkRecord)
  BY <1>1, ElementOfSeq DEF Candidate
<1>3. claims = [n \in DOMAIN order |-> ClaimOf(issuers[order[n][1]][order[n][2]], all[order[n][1]])]
  BY DEF Claims
<1>4. \A k \in 1 .. N :
        /\ issuers[k] = Issuers(all[k].links)
        /\ Len(issuers[k]) \in Nat /\ DOMAIN issuers[k] = 1 .. Len(issuers[k])
        /\ \A m \in DOMAIN issuers[k] : issuers[k][m] \in NowOf(all[k])
        /\ \A i, j \in DOMAIN issuers[k] : issuers[k][i].inst = issuers[k][j].inst => i = j
        /\ NowOf(all[k]) # {} => 1 \in DOMAIN issuers[k]
        /\ NowOf(all[k]) = {} => NamesOf(issuers[k]) = {}
  <2> TAKE k \in 1 .. N
  <2>1. PICK links \in Seq(LinkRecord) : links = all[k].links /\ issuers[k] = Issuers(links)
    BY <1>1, <1>2
  <2> HIDE DEF issuers
  <2> DEFINE own == issuers[k]
  <2>2. /\ Len(own) \in Nat /\ DOMAIN own = 1 .. Len(own)
        /\ \A m \in DOMAIN own : \E j \in NowIn(links) : links[j] = own[m]
        /\ \A i, j \in DOMAIN own : own[i].inst = own[j].inst => i = j
        /\ \A j \in NowIn(links) : \E m \in DOMAIN own : own[m].inst = links[j].inst
    <3> HIDE DEF own
    <3>1. own = Issuers(links)
      BY <2>1 DEF own
    <3> QED  BY <3>1, IssuersForm
  <2> HIDE DEF own
  <2>3. PICK now : now = NowOf(all[k]) /\ now = {links[j] : j \in NowIn(links)}
    BY <2>1 DEF NowOf
  <2>4. ASSUME now # {} PROVE 1 \in DOMAIN own
    <3>1. PICK j \in NowIn(links) : TRUE
      BY <2>3, <2>4
    <3>2. PICK m \in 1 .. Len(own) : TRUE
      BY <2>2, <3>1
    <3> QED  BY <2>2, <3>2
  <2>5. ASSUME now = {} PROVE NamesOf(own) = {}
    <3>1. NowIn(links) = {}
      BY <2>3, <2>5
    <3>2. DOMAIN own = {}
      BY <2>2, <3>1
    <3> QED  BY <3>2 DEF NamesOf
  <2>6. \A m \in DOMAIN own : own[m] \in now
    BY <2>2, <2>3
  <2> QED  BY <2>1, <2>2, <2>3, <2>4, <2>5, <2>6 DEF own
<1>5. \A x \in Places : x[1] \in 1 .. N /\ x[2] \in DOMAIN issuers[x[1]] /\ x = <<x[1], x[2]>>
  BY <1>1
<1>6. \A k \in 1 .. N : \A m \in DOMAIN issuers[k] : <<k, m>> \in Places
  BY <1>1
<1>7. IsFiniteSet(Places)
  <2> DEFINE P == {{k} \X DOMAIN issuers[k] : k \in 1 .. N}
             f == [k \in 1 .. N |-> {k} \X DOMAIN issuers[k]]
  <2>1. IsFiniteSet(P)
    <3>1. f \in Surjection(1 .. N, P)
      BY DEF Surjection
    <3>2. IsFiniteSet(1 .. N)
      BY FS_Interval
    <3> HIDE DEF f, P
    <3> QED  BY <3>1, <3>2, FS_Surjection
  <2>2. \A s \in P : IsFiniteSet(s)
    <3> TAKE s \in P
    <3>1. PICK k \in 1 .. N : s = {k} \X DOMAIN issuers[k]
      OBVIOUS
    <3>2. IsFiniteSet({k})
      BY FS_Singleton
    <3>3. IsFiniteSet(DOMAIN issuers[k])
      <4>1. PICK m \in Nat : DOMAIN issuers[k] = 1 .. m
        BY <1>4
      <4>2. IsFiniteSet(1 .. m)
        BY FS_Interval
      <4> QED  BY <4>1, <4>2
    <3> QED  BY <3>1, <3>2, <3>3, FS_Product
  <2>3. Places = UNION P
    BY <1>1
  <2> HIDE DEF P, Places
  <2> QED  BY <2>1, <2>2, <2>3, FS_UNION
<1> HIDE DEF Places, issuers
<1>8. IsFiniteSet(new) /\ new \subseteq Places
  BY <1>7, FS_Subset
<1>9. \A x \in new : /\ x[1] \in 1 .. N /\ x[2] \in DOMAIN issuers[x[1]] /\ x = <<x[1], x[2]>>
                     /\ x[1] \in Int /\ x[2] \in Int /\ x[2] >= 1
  BY <1>4, <1>5, <1>8
<1>10. \A x \in new : \A k \in 1 .. x[1] - 1 :
         issuers[x[1]][x[2]].inst \notin NamesOf(issuers[k])
  OBVIOUS
<1>11. ASSUME NEW k \in 1 .. N, NEW m \in DOMAIN issuers[k],
              \A j \in 1 .. k - 1 : issuers[k][m].inst \notin NamesOf(issuers[j])
       PROVE  <<k, m>> \in new
  BY <1>6, <1>11
<1> HIDE DEF new
<1>12. IsKey([x \in new |-> x], new)
  <2>1. \A x \in new : x \in Seq(Int)
    BY <1>9, PairOfInts
  <2> QED  BY <2>1 DEF IsKey
<1>13. PICK count \in Nat :
         /\ DOMAIN order = 1 .. count
         /\ \A n \in 1 .. count : order[n] \in new
         /\ \A x \in new : \E n \in 1 .. count : order[n] = x
         /\ \A i, j \in 1 .. count : i < j => Lexical(order[i], order[j]) /\ order[i] # order[j]
  <2> DEFINE key == [x \in new |-> x]
  <2>1. \A x \in new : key[x] = x
    OBVIOUS
  <2> HIDE DEF key
  <2>2. /\ DOMAIN Sorted(key) = 1 .. Cardinality(new) /\ Cardinality(new) \in Nat
        /\ \A n \in 1 .. Cardinality(new) : Sorted(key)[n] \in new
        /\ \A x \in new : \E n \in 1 .. Cardinality(new) : Sorted(key)[n] = x
        /\ \A i, j \in 1 .. Cardinality(new) :
              i < j => /\ Lexical(key[Sorted(key)[i]], key[Sorted(key)[j]])
                       /\ Sorted(key)[i] # Sorted(key)[j]
    <3>1. IsKey(key, new)
      BY <1>12 DEF key
    <3> QED  BY <1>8, <3>1, SortedAll
  <2>3. \A i, j \in 1 .. Cardinality(new) : i < j => Lexical(Sorted(key)[i], Sorted(key)[j])
    BY <2>1, <2>2
  <2>4. order = Sorted(key)
    BY DEF key
  <2> QED  BY <2>2, <2>3, <2>4
<1> HIDE DEF order
<1>14. claims = [n \in 1 .. count |-> ClaimOf(issuers[order[n][1]][order[n][2]], all[order[n][1]])]
  BY <1>3, <1>13
<1>15. Len(claims) = count /\ DOMAIN claims = 1 .. count
  <2> DEFINE S == {ClaimOf(issuers[order[n][1]][order[n][2]], all[order[n][1]]) : n \in 1 .. count}
  <2>1. claims \in [1 .. count -> S]
    BY <1>14
  <2> HIDE DEF S
  <2> QED  BY <1>14, <2>1, SeqOfFunction
<1>16. ASSUME NEW n \in 1 .. count
       PROVE  /\ order[n][1] \in 1 .. N /\ order[n][2] \in DOMAIN issuers[order[n][1]]
              /\ claims[n] = ClaimOf(issuers[order[n][1]][order[n][2]], all[order[n][1]])
              /\ issuers[order[n][1]][order[n][2]] \in NowOf(all[order[n][1]])
              /\ order[n] = <<order[n][1], order[n][2]>> /\ order[n] \in new
  BY <1>4, <1>9, <1>13, <1>14
<1>17. ASSUME NEW i \in 1 .. count, NEW j \in 1 .. count, i <= j
       PROVE  order[i][1] <= order[j][1]
  <2>1. CASE i = j
    BY <1>16, <2>1
  <2>2. CASE i # j
    <3>1. Lexical(order[i], order[j])
      BY <1>13, <1>17, <2>2
    <3>2. Lexical(<<order[i][1], order[i][2]>>, <<order[j][1], order[j][2]>>)
      BY <1>16, <3>1
    <3>3. /\ order[i][1] \in Int /\ order[i][2] \in Int
          /\ order[j][1] \in Int /\ order[j][2] \in Int
      BY <1>9, <1>13
    <3> QED  BY <3>2, <3>3, PairsInOrder
  <2> QED  BY <2>1, <2>2
<1>18. \A n \in 1 .. count : \E k \in 1 .. N : \E l \in NowOf(all[k]) : claims[n] = ClaimOf(l, all[k])
  BY <1>16
<1>19. ASSUME NEW m \in 1 .. count, NEW n \in 1 .. count, claims[m].inst = claims[n].inst
       PROVE  m = n
  <2> DEFINE a == order[m]
             b == order[n]
  <2>1. issuers[a[1]][a[2]].inst = issuers[b[1]][b[2]].inst
    BY <1>16, <1>19, ClaimSays, SMTT(30)
  <2>2. /\ a[1] \in 1 .. N /\ a[2] \in DOMAIN issuers[a[1]]
        /\ b[1] \in 1 .. N /\ b[2] \in DOMAIN issuers[b[1]]
    BY <1>16
  <2>3. ASSUME a[1] < b[1] PROVE FALSE
    <3>1. a[1] \in 1 .. b[1] - 1
      BY <2>2, <2>3
    <3>2. issuers[b[1]][b[2]].inst \notin NamesOf(issuers[a[1]])
      BY <1>10, <1>16, <3>1
    <3> QED  BY <2>1, <2>2, <3>2 DEF NamesOf
  <2>4. ASSUME b[1] < a[1] PROVE FALSE
    <3>1. b[1] \in 1 .. a[1] - 1
      BY <2>2, <2>4
    <3>2. issuers[a[1]][a[2]].inst \notin NamesOf(issuers[b[1]])
      BY <1>10, <1>16, <3>1
    <3> QED  BY <2>1, <2>2, <3>2 DEF NamesOf
  <2>5. a[1] = b[1]
    BY <2>2, <2>3, <2>4
  <2>6. a[2] = b[2]
    BY <1>4, <2>1, <2>2, <2>5, SMTT(30)
  <2>7. order[m] = order[n]
    BY <1>16, <2>5, <2>6
  <2>8. ~(m < n) /\ ~(n < m)
    BY <1>13, <2>7
  <2> QED  BY <2>8
<1>20. ASSUME NEW k \in 1 .. N, NowOf(all[k]) # {}
       PROVE  count >= 1 /\ \E j \in 1 .. k : claims[1].spec = Rank(all[j])
  <2> DEFINE T == {j \in 1 .. N : NowOf(all[j]) # {}}
  <2>0. k \in T
    BY <1>20
  <2>1. T \in SUBSET Nat /\ T # {}
    <3>1. \A j \in T : j \in Nat
      OBVIOUS
    <3> HIDE DEF T
    <3> QED  BY <2>0, <3>1
  <2>2. PICK j \in 1 .. N : /\ NowOf(all[j]) # {}
                            /\ \A i \in 1 .. N : NowOf(all[i]) # {} => j <= i
    <3>1. \A j \in T : j \in 1 .. N /\ NowOf(all[j]) # {}
      OBVIOUS
    <3>2. \A i \in 1 .. N : NowOf(all[i]) # {} => i \in T
      OBVIOUS
    <3> HIDE DEF T
    <3>3. PICK j \in T : \A i \in T : j <= i
      BY <2>1, FirstPlace
    <3> QED  BY <3>1, <3>2, <3>3
  <2>3. j \in 1 .. N /\ j <= k /\ 1 \in DOMAIN issuers[j]
    BY <1>4, <1>20, <2>2
  <2>4. \A i \in 1 .. j - 1 : NamesOf(issuers[i]) = {}
    <3> TAKE i \in 1 .. j - 1
    <3>1. i \in 1 .. N /\ ~(j <= i)
      BY <2>3
    <3> QED  BY <1>4, <2>2, <3>1
  <2>5. <<j, 1>> \in new
    BY <1>11, <2>3, <2>4
  <2>6. PICK p \in 1 .. count : order[p] = <<j, 1>>
    BY <1>13, <2>5
  <2>7. 1 \in 1 .. count /\ 1 <= p
    OBVIOUS
  <2>8. order[1][1] <= j
    BY <1>17, <2>6, <2>7
  <2>9. order[1][1] \in 1 .. k
    BY <1>16, <2>3, <2>7, <2>8
  <2>10. claims[1].spec = Rank(all[order[1][1]])
    BY <1>16, <2>7, ClaimSays
  <2> QED  BY <2>7, <2>9, <2>10
<1>21. ASSUME Len(Issuers(all[1].links)) >= 2
       PROVE  /\ count >= 2
              /\ \A n \in 1 .. 2 : \E l \in NowOf(all[1]) : claims[n] = ClaimOf(l, all[1])
  <2>1. 1 \in 1 .. N
    BY <1>1
  <2>2. 1 \in DOMAIN issuers[1] /\ 2 \in DOMAIN issuers[1]
    BY <1>4, <1>21, <2>1
  <2>3. <<1, 1>> \in new /\ <<1, 2>> \in new
    BY <1>11, <2>1, <2>2
  <2>4. PICK p \in 1 .. count : order[p] = <<1, 1>>
    BY <1>13, <2>3
  <2>5. PICK r \in 1 .. count : order[r] = <<1, 2>>
    BY <1>13, <2>3
  <2>6. p # r
    BY <2>4, <2>5
  <2>7. PICK m \in 1 .. count : m >= 2 /\ order[m][1] = 1
    <3>1. p >= 2 \/ r >= 2
      BY <2>6
    <3> QED  BY <2>4, <2>5, <3>1
  <2>8. count >= 2
    BY <2>7
  <2>9. ASSUME NEW n \in 1 .. 2 PROVE \E l \in NowOf(all[1]) : claims[n] = ClaimOf(l, all[1])
    <3>1. n \in 1 .. count /\ n <= m
      BY <2>7, <2>8
    <3>2. order[n][1] <= 1
      BY <1>17, <2>7, <3>1
    <3>3. order[n][1] = 1
      BY <1>16, <3>1, <3>2
    <3> QED  BY <1>16, <3>1, <3>3
  <2> QED  BY <2>8, <2>9
<1> QED  BY <1>1, <1>15, <1>18, <1>19, <1>20, <1>21 DEF ClaimsListed

\* What a claim leads to, after the best of those before it.
Champion(claims, best, n) ==
  IF n = 1 THEN 1
  ELSE IF best[n - 1] = Undecided
          \/ Ground(claims[best[n - 1]], claims[n]) = "unresolved" THEN Undecided
  ELSE IF FirstWins(claims[best[n - 1]], claims[n]) THEN best[n - 1] ELSE n

\* There is a best of the claims so far, as far as one looks.
LEMMA BestExists ==
  ASSUME NEW claims, NEW count \in Nat
  PROVE  \E best : best = [n \in 1 .. count |-> Champion(claims, best, n)]
<1> DEFINE Upto(m, f) == f = [n \in 1 .. m |-> Champion(claims, f, n)]
           T == {m \in Nat : ~\E f : Upto(m, f)}
<1>1. SUFFICES T = {}
  OBVIOUS
<1>2. SUFFICES ASSUME T # {} PROVE FALSE
  OBVIOUS
<1>3. PICK m \in T : \A j \in T : m <= j
  <2>1. T \in SUBSET Nat
    OBVIOUS
  <2> HIDE DEF T
  <2> QED  BY <1>2, <2>1, FirstPlace
<1>4. CASE m = 0
  <2> DEFINE f == [n \in 1 .. 0 |-> 0]
  <2>1. \A n \in 1 .. 0 : FALSE
    OBVIOUS
  <2>2. f = [n \in 1 .. 0 |-> Champion(claims, f, n)]
    BY <2>1
  <2> QED  BY <1>4, <2>2
<1>5. CASE m # 0
  <2>1. m - 1 \in Nat /\ ~(m <= m - 1)
    BY <1>5
  <2>2. m - 1 \notin T
    BY <1>3, <2>1
  <2>3. PICK f : Upto(m - 1, f)
    BY <2>1, <2>2
  <2> DEFINE g == [n \in 1 .. m |-> IF n = m THEN Champion(claims, f, m) ELSE f[n]]
  <2>4. ASSUME NEW n \in 1 .. m PROVE g[n] = Champion(claims, g, n)
    <3>1. n # 1 => n - 1 \in 1 .. m /\ n - 1 # m
      OBVIOUS
    <3>2. n # 1 => g[n - 1] = f[n - 1]
      BY <3>1
    <3>3. Champion(claims, g, n) = Champion(claims, f, n)
      <4> HIDE DEF g
      <4> QED  BY <3>2 DEF Champion
    <3>4. CASE n = m
      BY <3>3, <3>4
    <3>5. CASE n # m
      <4>1. n \in 1 .. m - 1
        BY <3>5
      <4>2. f[n] = Champion(claims, f, n)
        BY <2>3, <4>1
      <4> QED  BY <3>3, <3>5, <4>2
    <3> QED  BY <3>4, <3>5
  <2>5. DOMAIN g = 1 .. m /\ g = [n \in 1 .. m |-> g[n]]
    OBVIOUS
  <2> HIDE DEF g
  <2>6. Upto(m, g)
    BY <2>4, <2>5
  <2> QED  BY <2>6
<1> QED  BY <1>4, <1>5

\* Whether the claims are settled.
LEMMA SettledForm ==
  ASSUME NEW claims, NEW count \in Nat, count >= 1, DOMAIN claims = 1 .. count, Len(claims) = count
  PROVE  \E best : /\ \A n \in 1 .. count : best[n] = Champion(claims, best, n)
                   /\ Settled(claims) <=> best[count] # Undecided
<1> DEFINE best == CHOOSE f : f = [n \in 1 .. count |-> Champion(claims, f, n)]
<1>1. Settled(claims) <=> claims # <<>> /\ best[count] # Undecided
  BY DEF Settled, Champion
<1>2. best = [n \in 1 .. count |-> Champion(claims, best, n)]
  BY BestExists
<1>3. claims # <<>>
  <2>1. 1 \in DOMAIN claims
    OBVIOUS
  <2> QED  BY <2>1
<1> HIDE DEF best
<1>4. \A n \in 1 .. count : best[n] = Champion(claims, best, n)
  BY <1>2
<1> QED  BY <1>1, <1>3, <1>4

\* When nothing separates the first two claims, nothing is settled.
LEMMA FirstTwoUnsettled ==
  ASSUME NEW claims, NEW count \in Nat, count >= 2, DOMAIN claims = 1 .. count, Len(claims) = count,
         Ground(claims[1], claims[2]) = "unresolved"
  PROVE  ~Settled(claims)
<1>1. PICK best : /\ \A n \in 1 .. count : best[n] = Champion(claims, best, n)
                  /\ Settled(claims) <=> best[count] # Undecided
  BY SettledForm
<1> DEFINE T == {n \in 2 .. count : best[n] # Undecided}
<1>2. SUFFICES ASSUME T # {} PROVE FALSE
  BY <1>1
<1>3. PICK n \in 2 .. count : best[n] # Undecided /\ \A j \in 2 .. count : best[j] # Undecided => n <= j
  <2>1. \A j \in T : j \in Nat /\ j \in 2 .. count /\ best[j] # Undecided
    OBVIOUS
  <2>2. \A j \in 2 .. count : best[j] # Undecided => j \in T
    OBVIOUS
  <2> HIDE DEF T
  <2>3. PICK j \in T : \A i \in T : j <= i
    BY <1>2, <2>1, FirstPlace
  <2> QED  BY <2>1, <2>2, <2>3
<1> HIDE DEF T
<1>4. n \in 1 .. count /\ n # 1 /\ best[n] = Champion(claims, best, n)
  BY <1>1
<1>5. CASE n = 2
  <2>1. 1 \in 1 .. count /\ best[1] = Champion(claims, best, 1)
    BY <1>1
  <2>2. best[1] = 1
    BY <2>1 DEF Champion
  <2>3. best[2] = Undecided
    BY <1>4, <1>5, <2>2 DEF Champion
  <2> QED  BY <1>3, <1>5, <2>3
<1>6. CASE n # 2
  <2>1. n - 1 \in 2 .. count /\ ~(n <= n - 1)
    BY <1>6
  <2>2. best[n - 1] = Undecided
    BY <1>3, <2>1
  <2> QED  BY <1>3, <1>4, <2>2 DEF Champion
<1> QED  BY <1>5, <1>6

\* When nothing is settled two claims as specific as the first are not separated.
LEMMA UnsettledPair ==
  ASSUME NEW claims, NEW count \in Nat, count >= 1, DOMAIN claims = 1 .. count, Len(claims) = count,
         \A n \in 1 .. count : claims[n].spec \in Int /\ claims[n].spec <= claims[1].spec,
         ~Settled(claims)
  PROVE  \E a, b \in 1 .. count : /\ a # b
                                  /\ claims[a].spec = claims[1].spec /\ claims[b].spec = claims[1].spec
<1>1. PICK best : /\ \A n \in 1 .. count : best[n] = Champion(claims, best, n)
                  /\ best[count] = Undecided
  BY SettledForm
<1> DEFINE Good(n) == best[n] \in 1 .. n /\ claims[best[n]].spec = claims[1].spec
           T == {n \in 1 .. count : ~Good(n)}
<1>2. count \in 1 .. count /\ 1 \in 1 .. count
  OBVIOUS
<1>3. ~Good(count)
  BY <1>1 DEF Undecided
<1>4. PICK n \in 1 .. count : ~Good(n) /\ \A j \in 1 .. count : ~Good(j) => n <= j
  <2>1. \A j \in T : j \in Nat /\ j \in 1 .. count /\ ~Good(j)
    OBVIOUS
  <2>2. \A j \in 1 .. count : ~Good(j) => j \in T
    OBVIOUS
  <2> HIDE DEF T, Good
  <2>3. T # {}
    BY <1>2, <1>3, <2>2
  <2>4. PICK j \in T : \A i \in T : j <= i
    BY <2>1, <2>3, FirstPlace
  <2> QED  BY <2>1, <2>2, <2>4
<1> HIDE DEF T
<1>5. n # 1
  <2>1. best[1] = 1
    BY <1>1, <1>2 DEF Champion
  <2>2. Good(1)
    BY <2>1
  <2> QED  BY <1>4, <2>2
<1>6. n - 1 \in 1 .. count /\ ~(n <= n - 1)
  BY <1>5
<1>7. Good(n - 1)
  BY <1>4, <1>6
<1>8. PICK b \in 1 .. n - 1 : b = best[n - 1] /\ claims[b].spec = claims[1].spec
  BY <1>7
<1>9. b \in 1 .. count /\ b # n /\ b # Undecided /\ b \in 1 .. n
  BY <1>6, <1>8 DEF Undecided
<1>10. best[n] = IF Ground(claims[b], claims[n]) = "unresolved" THEN Undecided
                 ELSE IF FirstWins(claims[b], claims[n]) THEN b ELSE n
  BY <1>1, <1>5, <1>8, <1>9 DEF Champion
<1>11. claims[n].spec \in Int /\ claims[1].spec \in Int /\ claims[n].spec <= claims[1].spec
  BY <1>2
<1>12. SUFFICES claims[n].spec = claims[1].spec
  BY <1>8, <1>9
<1>13. SUFFICES ASSUME claims[n].spec < claims[1].spec PROVE FALSE
  BY <1>11
<1>14. Ground(claims[b], claims[n]) = "more_specific"
  BY <1>8, <1>11, <1>13 DEF Ground
<1>15. FirstWins(claims[b], claims[n])
  BY <1>8, <1>11, <1>13, <1>14 DEF FirstWins
<1>16. best[n] = b
  BY <1>10, <1>14, <1>15
<1> QED  BY <1>4, <1>8, <1>9, <1>16

\* ConflictShown, of a result.
ConflictIn(r) ==
  r.op = "lookup" /\ r.found =>
    LET now == IssuersNow(r.winner)
        level == {r.others[k] : k \in {j \in DOMAIN r.others : Rank(r.others[j]) = Rank(r.winner)}}
        all == now \cup UNION {IssuersNow(c) : c \in level}
    IN /\ (\A a, b \in now : a # b => Inseparable(a, b)) /\ (\E a, b \in now : a.inst # b.inst)
            => r.level = "conflicted"
       /\ r.level = "conflicted" => \E a, b \in all : a.inst # b.inst

\* What an answer says of a conflict.
LEMMA AnswerLevel ==
  ASSUME NEW q, Answer(q).found
  PROVE  /\ Ranked(q) # <<>> /\ Answer(q).winner = Head(Ranked(q))
         /\ Answer(q).others = Tail(Ranked(q))
         /\ Answer(q).level = "conflicted" <=>
              /\ Head(Ranked(q)).links # <<>>
              /\ Conflicting(Head(Ranked(q)), Tail(Ranked(q))) # {}
<1> DEFINE order == Ranked(q)
           w == Head(order)
           ls == Tail(order)
<1>1. order # <<>>
  BY DEF Answer, NoAnswer
<1>2. CASE w.links = <<>>
  <2>1. Answer(q).level = "unknown" /\ Answer(q).winner = w /\ Answer(q).others = ls
    BY <1>1, <1>2 DEF Answer, NoAnswer
  <2> QED  BY <1>1, <1>2, <2>1
<1>3. CASE w.links # <<>>
  <2>1. Answer(q).level = Confidence(w, ls).level /\ Answer(q).winner = w /\ Answer(q).others = ls
    BY <1>1, <1>3 DEF Answer, NoAnswer
  <2>2. \A score : Level(score) # "conflicted"
    BY DEF Level
  <2>3. Confidence(w, ls).level = "conflicted" <=> Conflicting(w, ls) # {}
    BY <2>2 DEF Confidence
  <2> QED  BY <1>1, <1>3, <2>1, <2>3
<1> QED  BY <1>2, <1>3

\* Nobody but further issuers of the winner and issuers of an allocation as specific is a
\* rival, so that either is there to be named.
LEMMA RivalsNamed ==
  ASSUME NEW all \in Seq(Candidate), all # <<>>
  PROVE  /\ Len(Issuers(Head(all).links)) >= 2 => Rivals(Head(all), Tail(all)) # {}
         /\ Rivals(Head(all), Tail(all)) # {} =>
              \E k \in 1 .. Len(all) : Rank(all[k]) = Rank(Head(all)) /\ NowOf(all[k]) # {}
<1>1. PICK n \in Nat : n = Len(all) /\ n # 0 /\ Head(all) = all[1]
  BY LenProperties, EmptySeq
<1>2. /\ Tail(all) \in Seq(Candidate) /\ Len(Tail(all)) = n - 1
      /\ \A i \in 1 .. n - 1 : Tail(all)[i] = all[i + 1]
  BY <1>1, HeadTailProperties
<1>3. DOMAIN Tail(all) = 1 .. n - 1
  BY <1>2, LenProperties
<1>4. \A k \in 1 .. n : all[k].links \in Seq(LinkRecord)
  BY <1>1, ElementOfSeq DEF Candidate
<1>5. \A k \in 1 .. n : NowOf(all[k]) = {} => NamesOf(Issuers(all[k].links)) = {}
  <2> TAKE k \in 1 .. n
  <2>1. SUFFICES ASSUME NowOf(all[k]) = {} PROVE NamesOf(Issuers(all[k].links)) = {}
    OBVIOUS
  <2>2. NowIn(all[k].links) = {}
    BY <2>1 DEF NowOf
  <2>3. PICK links \in Seq(LinkRecord) : links = all[k].links
    BY <1>4
  <2> QED  BY <2>2, <2>3, IssuersListed
<1> DEFINE own == Issuers(Head(all).links)
<1>6. Len(own) \in Nat /\ DOMAIN own = 1 .. Len(own)
  <2>1. PICK links \in Seq(LinkRecord) : links = Head(all).links
    BY <1>1, <1>4
  <2> QED  BY <2>1, IssuersForm
<1>7. Rivals(Head(all), Tail(all)) =
        {own[k].inst : k \in 2 .. Len(own)}
          \cup UNION {NamesOf(Issuers(Tail(all)[k].links)) \ NamesOf(own) :
                        k \in {j \in DOMAIN Tail(all) : Rank(Tail(all)[j]) = Rank(Head(all))}}
  BY DEF Rivals
<1> HIDE DEF own
<1>8. ASSUME Len(own) >= 2 PROVE Rivals(Head(all), Tail(all)) # {}
  <2>1. 2 \in 2 .. Len(own)
    BY <1>6, <1>8
  <2> QED  BY <1>7, <2>1, ZenonT(60)
<1>9. ASSUME Rivals(Head(all), Tail(all)) # {}
      PROVE  \E k \in 1 .. n : Rank(all[k]) = Rank(all[1]) /\ NowOf(all[k]) # {}
  <2>1. CASE \E k \in 2 .. Len(own) : TRUE
    <3>1. 1 \in DOMAIN own
      BY <1>6, <2>1
    <3>2. NamesOf(own) # {}
      BY <3>1 DEF NamesOf
    <3>3. 1 \in 1 .. n /\ NowOf(all[1]) # {}
      BY <1>1, <1>5, <3>2 DEF own
    <3> QED  BY <3>3
  <2>2. CASE ~\E k \in 2 .. Len(own) : TRUE
    <3>1. PICK j \in 1 .. n - 1 :
            /\ Rank(Tail(all)[j]) = Rank(Head(all)) /\ NamesOf(Issuers(Tail(all)[j].links)) # {}
      BY <1>3, <1>7, <1>9, <2>2
    <3>2. j + 1 \in 1 .. n /\ Tail(all)[j] = all[j + 1]
      BY <1>2
    <3>3. Rank(all[j + 1]) = Rank(all[1]) /\ NowOf(all[j + 1]) # {}
      BY <1>1, <1>5, <3>1, <3>2
    <3> QED  BY <3>2, <3>3
  <2> QED  BY <2>1, <2>2
<1> QED  BY <1>1, <1>8, <1>9 DEF own

\* An answer says that it conflicts when nothing separates the issuers of what answers, and
\* only when two institutions can be named for it.
LEMMA AnswerConflicts ==
  ASSUME PackageOK, NEW q \in Prefix
  PROVE  ConflictIn(Answer(q))
<1>1. SUFFICES ASSUME Answer(q).found PROVE ConflictIn(Answer(q))
  BY DEF ConflictIn
<1>2. PICK all \in Seq(Candidate) : all = Ranked(q)
  BY RankedForm
<1>3. PICK r : r = Answer(q) /\ r.winner = Head(all) /\ r.others = Tail(all) /\ all # <<>>
               /\ (r.level = "conflicted" <=>
                     Head(all).links # <<>> /\ Conflicting(Head(all), Tail(all)) # {})
  BY <1>1, <1>2, AnswerLevel
<1>4. PICK N \in Nat : N = Len(all) /\ DOMAIN all = 1 .. N /\ N # 0 /\ Head(all) = all[1]
  BY <1>3, LenProperties, EmptySeq
<1>5. /\ \A k \in 1 .. N : all[k].links \in Seq(LinkRecord) /\ Rank(all[k]) \in Int
      /\ \A k \in 1 .. N : Rank(all[k]) <= Rank(all[1])
  <2>1. ASSUME NEW k \in 1 .. N PROVE all[k].links \in Seq(LinkRecord) /\ Rank(all[k]) \in Int
    <3>1. all[k] \in Candidate
      BY <1>4, ElementOfSeq
    <3>2. all[k].strategy \in DOMAIN Specificity
      BY <3>1 DEF Candidate
    <3>3. Rank(all[k]) \in Int
      BY <3>2 DEF Rank, Specificity
    <3> QED  BY <3>1, <3>3 DEF Candidate
  <2>2. \A i, j \in 1 .. N : i <= j => Rank(all[j]) <= Rank(all[i])
    BY <1>2, <1>4, RankedForm
  <2> QED  BY <1>4, <2>1, <2>2
<1>6. PICK claims : claims = Claims(all)
  OBVIOUS
<1>7. PICK count \in Nat : count = Len(claims) /\ DOMAIN claims = 1 .. count
  BY <1>3, <1>6, ClaimsForm DEF ClaimsListed
<1>8. /\ \A n \in 1 .. count : \E k \in 1 .. N : \E l \in NowOf(all[k]) :
           claims[n] = ClaimOf(l, all[k])
      /\ \A m, n \in 1 .. count : claims[m].inst = claims[n].inst => m = n
      /\ \A k \in 1 .. N : NowOf(all[k]) # {} =>
           count >= 1 /\ \E j \in 1 .. k : claims[1].spec = Rank(all[j])
      /\ Len(Issuers(all[1].links)) >= 2 =>
           /\ count >= 2
           /\ \A n \in 1 .. 2 : \E l \in NowOf(all[1]) : claims[n] = ClaimOf(l, all[1])
  <2>1. ClaimsListed(claims, all)
    BY <1>3, <1>6, ClaimsForm
  <2> QED  BY <1>4, <1>7, <2>1 DEF ClaimsListed
<1>9. Claims(<<Head(all)>> \o Tail(all)) = claims
  BY <1>3, <1>6, HeadAndTail
<1>10. /\ IssuersNow(r.winner) = NowOf(all[1])
       /\ \A c : IssuersNow(c) = NowOf(c)
  <2>1. \A c : IssuersNow(c) = NowOf(c)
    BY DEF IssuersNow, NowOf, NowIn
  <2> QED  BY <1>3, <1>4, <2>1
<1>11. /\ \A k \in 1 .. N - 1 : r.others[k] = all[k + 1]
       /\ DOMAIN r.others = 1 .. N - 1
  <2>1. /\ r.others \in Seq(Candidate) /\ Len(r.others) = N - 1
        /\ \A i \in 1 .. N - 1 : r.others[i] = all[i + 1]
    BY <1>3, <1>4, HeadTailProperties
  <2> QED  BY <2>1, LenProperties
<1>12. ASSUME \A a, b \in NowOf(all[1]) : a # b => Inseparable(a, b),
              NEW a \in NowOf(all[1]), NEW b \in NowOf(all[1]), a.inst # b.inst
       PROVE  r.level = "conflicted"
  <2>1. PICK links \in Seq(LinkRecord) : links = all[1].links
    BY <1>4, <1>5
  <2>2. PICK j \in NowIn(links), k \in NowIn(links) : links[j] = a /\ links[k] = b
    BY <1>12, <2>1 DEF NowOf
  <2>3. Len(Issuers(links)) >= 2
    <3>1. PICK len \in Nat : len = Len(Issuers(links)) /\ DOMAIN Issuers(links) = 1 .. len
      BY IssuersForm
    <3>6. \A i \in NowIn(links) : \E m \in DOMAIN Issuers(links) :
            Issuers(links)[m].inst = links[i].inst
      BY IssuersForm
    <3>2. \A i \in NowIn(links) : \E m \in 1 .. len : Issuers(links)[m].inst = links[i].inst
      BY <3>1, <3>6
    <3>4. PICK m \in 1 .. len : Issuers(links)[m].inst = a.inst
      BY <2>2, <3>2
    <3>5. PICK n \in 1 .. len : Issuers(links)[n].inst = b.inst
      BY <2>2, <3>2
    <3>3. m # n
      BY <1>12, <3>4, <3>5
    <3> QED  BY <3>1, <3>3
  <2>4. count >= 2 /\ \A n \in 1 .. 2 : \E l \in NowOf(all[1]) : claims[n] = ClaimOf(l, all[1])
    BY <1>8, <2>1, <2>3
  <2>5. PICK x \in NowOf(all[1]) : claims[1] = ClaimOf(x, all[1])
    BY <2>4
  <2>6. PICK y \in NowOf(all[1]) : claims[2] = ClaimOf(y, all[1])
    BY <2>4
  <2>7. x # y
    <3>1. 1 \in 1 .. count /\ 2 \in 1 .. count /\ 1 # 2
      BY <1>7, <2>4
    <3>2. claims[1].inst # claims[2].inst
      BY <1>8, <3>1
    <3> QED  BY <2>5, <2>6, <3>2
  <2>8. Inseparable(x, y)
    BY <1>12, <2>7
  <2>9. x \in LinkRecord /\ y \in LinkRecord
    <3>1. \A i \in NowIn(links) : links[i] \in LinkRecord
      BY <2>1, LenProperties, ElementOfSeq DEF NowIn
    <3>2. NowOf(all[1]) = {links[i] : i \in NowIn(links)}
      BY <2>1 DEF NowOf
    <3> QED  BY <2>5, <2>6, <3>1, <3>2
  <2>10. Figure(x) \in Int /\ Figure(y) \in Int
    BY <2>9 DEF LinkRecord, Figure
  <2>11. Ground(claims[1], claims[2]) = "unresolved"
    <3>1. /\ claims[1].spec = claims[2].spec /\ claims[1].span = claims[2].span
          /\ claims[1].from = x.from /\ claims[2].from = y.from
          /\ claims[1].conf = Figure(x) /\ claims[2].conf = Figure(y)
      BY <2>5, <2>6, ClaimSays
    <3>2. claims[1].conf - claims[2].conf \in 1 - Margin .. Margin - 1
      <4>1. PICK f, g \in Int : f = Figure(x) /\ g = Figure(y)
        BY <2>10
      <4>2. f - g \in Int /\ f - g < 15 /\ g - f < 15
        BY <2>8, <4>1 DEF Inseparable, Margin
      <4>3. f - g \in 1 - 15 .. 15 - 1
        <5>1. g - f = 0 - (f - g)
          OBVIOUS
        <5>2. PICK d \in Int : d = f - g /\ d < 15 /\ 0 - d < 15
          BY <4>2, <5>1
        <5> QED  BY <5>2
      <4>4. Margin = 15
        BY DEF Margin
      <4> QED  BY <3>1, <4>1, <4>3, <4>4
    <3>3. x.from = y.from \/ x.from = Unknown \/ y.from = Unknown
      BY <2>8 DEF Inseparable
    <3> QED  BY <3>1, <3>2, <3>3 DEF Ground
  <2>12. ~Settled(claims)
    BY <1>7, <2>4, <2>11, FirstTwoUnsettled
  <2>13. Rivals(Head(all), Tail(all)) # {}
    BY <1>3, <1>4, <2>1, <2>3, RivalsNamed
  <2>14. Conflicting(Head(all), Tail(all)) # {}
    BY <1>9, <2>12, <2>13 DEF Conflicting
  <2>15. Head(all).links # <<>>
    <3>1. j \in DOMAIN links
      BY <2>2 DEF NowIn
    <3>2. links # <<>>
      BY <3>1
    <3> QED  BY <1>4, <2>1, <3>2
  <2> QED  BY <1>3, <2>14, <2>15
<1>13. ASSUME r.level = "conflicted"
       PROVE  \E i, j \in 1 .. N : /\ Rank(all[i]) = Rank(all[1]) /\ Rank(all[j]) = Rank(all[1])
                                   /\ \E a \in NowOf(all[i]), b \in NowOf(all[j]) : a.inst # b.inst
  <2>1. Rivals(Head(all), Tail(all)) # {} /\ ~Settled(claims)
    BY <1>3, <1>9, <1>13 DEF Conflicting
  <2>2. PICK k \in 1 .. N : Rank(all[k]) = Rank(all[1]) /\ NowOf(all[k]) # {}
    BY <1>3, <1>4, <2>1, RivalsNamed
  <2>3. count >= 1 /\ \E j \in 1 .. k : claims[1].spec = Rank(all[j])
    BY <1>8, <2>2
  <2>4. claims[1].spec = Rank(all[1])
    <3>1. PICK j \in 1 .. k : claims[1].spec = Rank(all[j])
      BY <2>3
    <3>2. j \in 1 .. N /\ j <= k
      OBVIOUS
    <3>3. Rank(all[k]) <= Rank(all[j]) /\ Rank(all[j]) <= Rank(all[1])
      BY <1>2, <1>4, <1>5, <3>2, RankedForm
    <3>4. Rank(all[j]) \in Int /\ Rank(all[1]) \in Int
      BY <1>4, <1>5, <3>2
    <3> QED  BY <2>2, <3>1, <3>3, <3>4
  <2>5. \A n \in 1 .. count : claims[n].spec \in Int /\ claims[n].spec <= claims[1].spec
    <3> TAKE n \in 1 .. count
    <3>1. PICK i \in 1 .. N : \E l \in NowOf(all[i]) : claims[n] = ClaimOf(l, all[i])
      BY <1>8
    <3>2. claims[n].spec = Rank(all[i])
      BY <3>1, ClaimSays
    <3> QED  BY <1>5, <2>4, <3>2
  <2>6. PICK m \in 1 .. count, n \in 1 .. count :
          m # n /\ claims[m].spec = claims[1].spec /\ claims[n].spec = claims[1].spec
    BY <1>7, <2>1, <2>3, <2>5, UnsettledPair
  <2>7. claims[m].inst # claims[n].inst
    BY <1>8, <2>6
  <2>8. PICK i \in 1 .. N : \E l \in NowOf(all[i]) : claims[m] = ClaimOf(l, all[i])
    BY <1>8
  <2>9. PICK a \in NowOf(all[i]) : claims[m] = ClaimOf(a, all[i])
    BY <2>8
  <2>10. PICK j \in 1 .. N : \E l \in NowOf(all[j]) : claims[n] = ClaimOf(l, all[j])
    BY <1>8
  <2>11. PICK b \in NowOf(all[j]) : claims[n] = ClaimOf(b, all[j])
    BY <2>10
  <2>12. a.inst # b.inst /\ Rank(all[i]) = Rank(all[1]) /\ Rank(all[j]) = Rank(all[1])
    BY <2>4, <2>6, <2>7, <2>9, <2>11, ClaimSays
  <2> QED  BY <2>9, <2>11, <2>12
<1> DEFINE level == {r.others[k] : k \in {j \in DOMAIN r.others : Rank(r.others[j]) = Rank(r.winner)}}
           named == NowOf(all[1]) \cup UNION {NowOf(c) : c \in level}
<1>14. ASSUME NEW i \in 1 .. N, Rank(all[i]) = Rank(all[1]) PROVE NowOf(all[i]) \subseteq named
  <2>1. CASE i = 1
    BY <2>1
  <2>2. CASE i # 1
    <3>1. i - 1 \in 1 .. N - 1 /\ (i - 1) + 1 = i
      BY <2>2
    <3>2. r.others[i - 1] = all[i] /\ i - 1 \in DOMAIN r.others
      BY <1>11, <3>1
    <3>3. all[i] \in level
      BY <1>3, <1>4, <1>14, <3>2
    <3> HIDE DEF level
    <3> QED  BY <3>3
  <2> QED  BY <2>1, <2>2
<1>15. UNION {IssuersNow(c) : c \in level} = UNION {NowOf(c) : c \in level}
  <2> HIDE DEF level
  <2> QED  BY <1>10
<1> HIDE DEF named
<1>16. r.level = "conflicted" => \E a, b \in named : a.inst # b.inst
  <2>1. SUFFICES ASSUME r.level = "conflicted" PROVE \E a, b \in named : a.inst # b.inst
    OBVIOUS
  <2>2. PICK i \in 1 .. N, j \in 1 .. N :
          /\ Rank(all[i]) = Rank(all[1]) /\ Rank(all[j]) = Rank(all[1])
          /\ \E a \in NowOf(all[i]), b \in NowOf(all[j]) : a.inst # b.inst
    BY <1>13, <2>1
  <2> QED  BY <1>14, <2>2
<1>17. named = IssuersNow(r.winner) \cup UNION {IssuersNow(c) : c \in level}
  BY <1>10, <1>15 DEF named
<1>18. (\A a, b \in IssuersNow(r.winner) : a # b => Inseparable(a, b))
         /\ (\E a, b \in IssuersNow(r.winner) : a.inst # b.inst) => r.level = "conflicted"
  BY <1>10, <1>12
<1>19. ConflictIn(r)
  BY <1>16, <1>17, <1>18 DEF ConflictIn
<1> QED  BY <1>3, <1>19

--------------------------------------------------------------------------------
\* Portfolios and searches

\* Assignments in the order of their prefixes: each of them once.
LEMMA BinsListed ==
  ASSUME PackageOK, NEW set \in SUBSET DOMAIN bins
  PROVE  /\ IsFiniteSet(set) /\ Cardinality(set) \in Nat
         /\ BinsInOrder(set) \in Seq(set) /\ Len(BinsInOrder(set)) = Cardinality(set)
         /\ DOMAIN BinsInOrder(set) = 1 .. Cardinality(set)
         /\ \A k \in 1 .. Cardinality(set) : BinsInOrder(set)[k] \in set
         /\ \A p \in set : \E k \in 1 .. Cardinality(set) : BinsInOrder(set)[k] = p
         /\ \A i, j \in 1 .. Cardinality(set) : i < j => BinsInOrder(set)[i] # BinsInOrder(set)[j]
<1> DEFINE key == [p \in set |-> p]
<1>1. IsFiniteSet(set)
  BY LookupAssumption, FS_Subset DEF PackageOK
<1>2. \A p \in set : p \in Seq(Int)
  BY PrefixesAsked, LookupAssumption DEF PackageOK, Prefix
<1>3. IsKey(key, set)
  BY <1>2 DEF IsKey
<1>4. BinsInOrder(set) = Sorted(key)
  BY DEF BinsInOrder
<1> HIDE DEF key
<1> QED  BY <1>1, <1>3, <1>4, SortedAll

\* The lesser of two numbers.
LEMMA MinOfTwo ==
  ASSUME NEW a \in Nat, NEW b \in Nat
  PROVE  Min({a, b}) \in {a, b} /\ Min({a, b}) <= a /\ Min({a, b}) <= b
<1>1. {a, b} \in SUBSET Nat /\ {a, b} # {}
  OBVIOUS
<1> QED  BY <1>1, MinOfNumbers

\* What a page lists is in the scope it is a page of.
LEMMA PageElements ==
  ASSUME PackageOK, NEW set \in SUBSET DOMAIN bins, NEW n \in Nat, n >= 1
  PROVE  \A k \in DOMAIN PageAt(set, n) : PageAt(set, n)[k] \in set
<1>1. PICK order \in Seq(set), c \in Nat :
        /\ order = BinsInOrder(set) /\ Len(order) = c
        /\ \A k \in 1 .. c : order[k] \in set
  BY BinsListed
<1>2. PICK size \in Nat : size = PageSize /\ size >= 1
  BY LookupAssumption
<1>3. PICK first \in Nat : first = (n - 1) * PageSize + 1 /\ first >= 1
  <2>1. \A a, b \in Nat : a * b \in Nat
    OBVIOUS
  <2>2. n - 1 \in Nat
    OBVIOUS
  <2>3. (n - 1) * size \in Nat
    BY <2>1, <2>2
  <2> QED  BY <1>2, <2>3
<1>4. PICK last \in Nat : last = Min({Len(order), first + PageSize - 1}) /\ last <= c
  <2>1. first + PageSize - 1 \in Nat
    BY <1>2, <1>3
  <2> QED  BY <1>1, <2>1, MinOfTwo
<1>5. PageAt(set, n) = SubSeq(order, first, last)
  BY <1>1, <1>3, <1>4 DEF PageAt
<1>6. \A i \in first .. last : order[i] \in set
  <2> TAKE i \in first .. last
  <2>1. i \in 1 .. c
    BY <1>3, <1>4
  <2> QED  BY <1>1, <2>1
<1>7. PICK page \in Seq(set) : page = PageAt(set, n)
  <2>1. first \in Int /\ last \in Int
    OBVIOUS
  <2>2. SubSeq(order, first, last) \in Seq(set)
    BY <1>6, <2>1, SubSeqProperties
  <2> QED  BY <1>5, <2>2
<1>8. \A k \in 1 .. Len(page) : page[k] \in set
  BY ElementOfSeq
<1>9. DOMAIN page = 1 .. Len(page)
  BY LenProperties
<1> QED  BY <1>7, <1>8, <1>9

\* PortfolioAgrees, of a result.
PortfolioIn(r) ==
  r.op = "portfolio" =>
    /\ r.standing = "any" => r.total = r.heading.total
    /\ r.standing = "current" => /\ r.total = r.heading.current
                                 /\ \A k \in DOMAIN r.rows : r.rows[k].current

\* What the standings select.
LEMMA ScopeOfStanding ==
  ASSUME NEW ids, NEW standing
  PROVE  /\ InScope(ids, standing) \in SUBSET DOMAIN bins
         /\ standing = "any" => InScope(ids, standing) = Held(ids)
         /\ standing = "current" => /\ InScope(ids, standing) = HeldNow(ids)
                                    /\ \A p \in InScope(ids, standing) :
                                         \E l \in LinksOf(p, ids) : l.current
<1>1. ASSUME standing = "any" PROVE InScope(ids, standing) = Held(ids)
  BY <1>1 DEF InScope, Held
<1>2. ASSUME standing = "current"
      PROVE  InScope(ids, standing) = {p \in DOMAIN bins : \E l \in LinksOf(p, ids) : l.current}
  BY <1>2 DEF InScope
<1> QED  BY <1>1, <1>2 DEF InScope, HeldNow, Held

\* A page agrees with the figures above it.
LEMMA PageAgrees ==
  ASSUME PackageOK, NEW i \in Institutions, NEW standing, NEW n \in Nat, n >= 1,
         BankPage(i, standing, n)
  PROVE  /\ shown'.op = "portfolio" /\ shown'.inst = i
         /\ shown'.heading.total = Cardinality(Held(Contributing(i)))
         /\ PortfolioIn(shown')
<1> DEFINE ids == Contributing(i)
           items == InScope(ids, standing)
           page == PageAt(items, n)
<1>1. PICK r : /\ r = shown' /\ r.op = "portfolio" /\ r.inst = i /\ r.standing = standing
               /\ r.total = Cardinality(items) /\ r.heading = Portfolio(i)
               /\ r.rows = [k \in DOMAIN page |-> RowOf(page[k], LinksOf(page[k], ids))]
  BY DEF BankPage
<1>2. r.heading.total = Cardinality(Held(ids)) /\ r.heading.current = Cardinality(HeldNow(ids))
  BY <1>1 DEF Portfolio
<1>3. ASSUME standing = "current", NEW k \in DOMAIN r.rows PROVE r.rows[k].current
  <2>1. k \in DOMAIN page /\ r.rows[k] = RowOf(page[k], LinksOf(page[k], ids))
    BY <1>1, <1>3
  <2>2. page[k] \in items
    BY <2>1, ScopeOfStanding, PageElements
  <2>3. \E l \in LinksOf(page[k], ids) : l.current
    BY <1>3, <2>2, ScopeOfStanding
  <2> HIDE DEF page, ids
  <2> QED  BY <2>1, <2>3 DEF RowOf
<1> HIDE DEF ids, page
<1>4. standing = "any" => items = Held(ids)
  BY ScopeOfStanding
<1>5. standing = "current" => items = HeldNow(ids)
  BY ScopeOfStanding
<1> QED  BY <1>1, <1>2, <1>3, <1>4, <1>5 DEF PortfolioIn, ids

\* ChartCoversTable, of a result.
ChartIn(r) ==
  r.op = "search" /\ r.search.mode # "similar"
  /\ (r.search.mode = "contains" /\ r.search.term # Unknown =>
        Matches[r.search.term].displayed \subseteq Matches[r.search.term].contains)
    => /\ r.table \subseteq r.chart
       /\ r.search.region = Unknown /\ r.search.mode = "contains" => r.chart = r.table

\* The institution that a row names is one of its relationships'.
LEMMA RowNames ==
  ASSUME NEW p, NEW links, links \subseteq LinkRecord, RowOf(p, links).inst # Unknown
  PROVE  \E l \in links : l.inst = RowOf(p, links).inst
<1>1. links # {} /\ RowOf(p, links).inst = Min({l.inst : l \in links})
  BY DEF RowOf
<1>2. \A l \in links : l.inst \in Nat
  BY InstitutionIsNumber DEF LinkRecord
<1>3. {l.inst : l \in links} \in SUBSET Nat /\ {l.inst : l \in links} # {}
  BY <1>1, <1>2
<1>4. Min({l.inst : l \in links}) \in {l.inst : l \in links}
  BY <1>3, MinOfNumbers
<1> QED  BY <1>1, <1>4

\* A search for any part of a name, anywhere, is charted as it is listed.
LEMMA SearchIsCharted ==
  ASSUME NEW s \in Searches, s.region = Unknown, s.mode = "contains",
         s.term # Unknown => Matches[s.term].displayed \subseteq Matches[s.term].contains
  PROVE  ChartOf(s) = TableOf(s)
<1>1. ByRegion(s) = DOMAIN bins
  BY DEF ByRegion
<1>2. CASE s.term = Unknown
  BY <1>1, <1>2 DEF ChartOf, TableOf, ByName
<1>3. CASE s.term # Unknown
  <2>1. Matches[s.term].contains \cup Matches[s.term].displayed = Matches[s.term].contains
    BY <1>3
  <2>2. ByName(s) = LinkedTo(Matches[s.term].contains)
    BY <1>3, <2>1 DEF ByName
  <2> QED  BY <1>1, <1>3, <2>2 DEF ChartOf, TableOf
<1> QED  BY <1>2, <1>3

\* The charts of a search count what its table lists.
LEMMA SearchIsCovered ==
  ASSUME PackageOK, NEW s \in Searches, Search(s)
  PROVE  /\ shown'.op = "search" /\ shown'.search = s /\ shown'.table = TableOf(s)
         /\ ChartIn(shown')
<1>1. PICK r : /\ r = shown' /\ r.op = "search" /\ r.search = s
               /\ r.table = TableOf(s) /\ r.chart = ChartOf(s)
  BY DEF Search
<1>2. SUFFICES ASSUME s.mode # "similar",
                      s.mode = "contains" /\ s.term # Unknown =>
                        Matches[s.term].displayed \subseteq Matches[s.term].contains,
                      NEW p \in TableOf(s)
               PROVE  p \in ChartOf(s)
  BY <1>1, SearchIsCharted DEF ChartIn
<1>3. p \in DOMAIN bins /\ p \in ByName(s) /\ p \in ByRegion(s)
  BY DEF TableOf, ByName, ByRegion, LinkedTo
<1>4. ASSUME s.term # Unknown PROVE p \in LinkedTo(Matches[s.term].contains)
  <2> DEFINE found == Matches[s.term][s.mode]
                      \cup IF s.mode = "contains" THEN Matches[s.term].displayed ELSE {}
  <2>1. p \in LinkedTo(found)
    BY <1>3, <1>4 DEF ByName
  <2>2. s.mode \in {"exact", "prefix", "contains"} /\ s.term \in DOMAIN Matches
    BY <1>2, <1>4, SearchAssumption
  <2>3. Matches[s.term].exact \cup Matches[s.term].prefix \subseteq Matches[s.term].contains
    BY <2>2, SearchAssumption
  <2>4. found \subseteq Matches[s.term].contains
    BY <1>2, <1>4, <2>2, <2>3
  <2> HIDE DEF found
  <2> QED  BY <2>1, <2>4 DEF LinkedTo, LinksOf
<1>5. ASSUME s.region # Unknown
      PROVE  p \in LinkedTo({i \in Institutions : s.region \in ToSet(Regions[i])})
  <2>1. PICK i : /\ i = RowOf(p, Primary(p)).inst /\ i # Unknown
                 /\ Regions[i] # <<>> /\ Regions[i][1] = s.region
    BY <1>3, <1>5 DEF ByRegion
  <2>2. bins[p] \subseteq LinkRecord
    BY <1>3, FormRecords DEF PackageOK, SoundLinks
  <2>3. PICK l \in Primary(p) : l.inst = i
    BY <2>1, <2>2, RowNames DEF Primary
  <2>4. l \in bins[p] /\ l \in LinkRecord
    BY <2>2, <2>3 DEF Primary
  <2>5. i \in Institutions
    BY <2>3, <2>4 DEF LinkRecord
  <2>6. Regions[i] \in Seq(Nat)
    BY <2>5, SearchAssumption
  <2>7. 1 \in DOMAIN Regions[i]
    BY <2>1, <2>6, EmptySeq, LenProperties
  <2>8. s.region \in ToSet(Regions[i])
    BY <2>1, <2>7 DEF ToSet
  <2> QED  BY <1>3, <2>3, <2>4, <2>5, <2>8 DEF LinkedTo, LinksOf
<1> QED  BY <1>3, <1>4, <1>5 DEF ChartOf

--------------------------------------------------------------------------------
\* Figures

\* What can be wrong with a file.
Defect ==
  [sound : BOOLEAN, unindexed : 0 .. Expected, aliases : Nat, names : Nat,
   links : SUBSET [bin : Seq(Nat), inst : Nat, current : BOOLEAN], rows : Nat,
   conflicts : Nat, missing : [Fields -> SUBSET Seq(Nat)]]
FiniteDefect == {d \in Defect : IsFiniteSet(d.links)}

\* FiguresAgree, of a result.
FiguresIn(r) ==
  r.op = "assessment" =>
    LET h == r.health
        resolved == r.quality.institution_resolution.numerator
    IN /\ Cardinality({p \in DOMAIN bins : Issuers(LinksInOrder(bins[p])) # <<>>}) <= resolved
       /\ h.grade \in {"fair", "poor"} => h.failing # {}
       /\ r.quality.missing_country_rate.numerator = h.missing["country"]
       /\ r.repaired =>
            /\ h.orphans = 0
            /\ resolved <= h.linked /\ h.linked <= h.records
            /\ resolved + r.quality.missing_institution_rate.numerator = h.records

\* What an assessment is of.
AssessedKnown(r) == r.op = "assessment" => r.of \in FiniteDefect

\* The greater of two numbers.
LEMMA MaxOfTwo ==
  ASSUME NEW a \in Int, NEW b \in Int
  PROVE  Max({a, b}) = IF a >= b THEN a ELSE b
<1>1. \E x \in {a, b} : \A y \in {a, b} : x >= y
  OBVIOUS
<1>2. Max({a, b}) \in {a, b} /\ \A y \in {a, b} : Max({a, b}) >= y
  BY <1>1 DEF Max
<1> QED  BY <1>2

\* A product of integers is one.
LEMMA ProductOfInts == \A a, b \in Int : a * b \in Int
OBVIOUS

\* There are fields.
LEMMA FieldsCounted == Cardinality(Fields) \in Nat /\ Cardinality(Fields) > 0
<1>1. IsFiniteSet({"network"}) /\ IsFiniteSet({"country"}) /\ IsFiniteSet({"card type"})
      /\ IsFiniteSet({"funding type"}) /\ IsFiniteSet({"currency"})
  BY FS_Singleton
<1>2. IsFiniteSet({"network"} \cup {"country"})
  BY <1>1, FS_Union
<1>3. IsFiniteSet(({"network"} \cup {"country"}) \cup {"card type"})
  BY <1>1, <1>2, FS_Union
<1>4. IsFiniteSet((({"network"} \cup {"country"}) \cup {"card type"}) \cup {"funding type"})
  BY <1>1, <1>3, FS_Union
<1>5. IsFiniteSet(((({"network"} \cup {"country"}) \cup {"card type"}) \cup {"funding type"})
                    \cup {"currency"})
  BY <1>1, <1>4, FS_Union
<1>6. ((({"network"} \cup {"country"}) \cup {"card type"}) \cup {"funding type"}) \cup {"currency"}
        = Fields
  BY DEF Fields
<1>7. IsFiniteSet(Fields)
  BY <1>5, <1>6
<1>8. Fields # {}
  BY DEF Fields
<1>9. Cardinality(Fields) \in Nat /\ Cardinality(Fields) # 0
  BY <1>7, <1>8, FS_CardinalityType, FS_EmptySet
<1> QED  BY <1>9

\* There are finitely many records, and the unit of a score is a number.
LEMMA RecordsCounted ==
  ASSUME PackageOK
  PROVE  IsFiniteSet(DOMAIN bins) /\ Records \in Nat /\ Ones \in Nat /\ Ones >= 1 /\ Unit \in Nat
<1>1. IsFiniteSet(DOMAIN bins) /\ Records \in Nat
  BY LookupAssumption, FS_Subset, FS_CardinalityType DEF PackageOK, Records
<1>2. Ones \in Nat /\ Ones >= 1
  BY <1>1, MaxOfTwo DEF Ones
<1>3. \A a, b, c \in Nat : (a * b) * c \in Nat
  OBVIOUS
<1>4. Unit \in Nat
  BY <1>2, <1>3, FieldsCounted, AssessmentAssumption DEF Unit
<1> QED  BY <1>1, <1>2, <1>4

\* A share of something is a number.
LEMMA ShareCounted ==
  ASSUME PackageOK, NEW n \in Int, NEW d \in Nat, d # 0
  PROVE  Share(n, d) \in Int
<1>1. Unit \div d \in Int
  <2>1. PICK u \in Nat : u = Unit
    BY RecordsCounted
  <2>2. u \div d \in Int
    OBVIOUS
  <2> QED  BY <2>1, <2>2
<1> QED  BY <1>1, ProductOfInts DEF Share

\* A set of links counts.
LEMMA LinksCounted ==
  ASSUME PackageOK, NEW d \in FiniteDefect
  PROVE  /\ IsFiniteSet(LinkedBins(d)) /\ IsFiniteSet(Resolved(d))
         /\ Cardinality(LinkedBins(d)) \in Nat /\ Cardinality(Resolved(d)) \in Nat
         /\ Resolved(d) \subseteq LinkedBins(d)
         /\ Orphans(d) \in Nat
         /\ \A f \in Fields : Missing(d)[f] \in Nat
<1>1. IsFiniteSet(d.links) /\ IsFiniteSet(DOMAIN bins)
  BY RecordsCounted DEF FiniteDefect
<1>2. IsFiniteSet({l.bin : l \in d.links})
  <2> DEFINE f == [l \in d.links |-> l.bin]
  <2>1. f \in Surjection(d.links, {l.bin : l \in d.links})
    BY DEF Surjection
  <2> QED  BY <1>1, <2>1, FS_Surjection
<1>3. IsFiniteSet({p \in DOMAIN bins : bins[p] # {}})
  BY <1>1, FS_Subset
<1>4. IsFiniteSet(LinkedBins(d))
  BY <1>2, <1>3, FS_Union DEF LinkedBins
<1>5. Resolved(d) \subseteq LinkedBins(d)
  BY DEF Resolved, LinkedBins
<1>6. IsFiniteSet(Resolved(d))
  BY <1>4, <1>5, FS_Subset
<1>7. Orphans(d) \in Nat
  <2>1. \A S \in SUBSET d.links : Cardinality(S) \in Nat
    BY <1>1, FS_Subset, FS_CardinalityType
  <2>2. /\ Cardinality({l \in d.links : l.bin \notin DOMAIN bins}) \in Nat
        /\ Cardinality({l \in d.links : l.inst = Unknown}) \in Nat
    BY <2>1
  <2>3. d.rows \in Nat
    BY DEF FiniteDefect, Defect
  <2> QED  BY <2>2, <2>3 DEF Orphans
<1>8. ASSUME NEW f \in Fields PROVE Missing(d)[f] \in Nat
  <2>1. IsFiniteSet(d.missing[f] \cap DOMAIN bins)
    BY <1>1, FS_Subset
  <2>2. Cardinality(d.missing[f] \cap DOMAIN bins) \in Nat
    BY <2>1, FS_CardinalityType
  <2> QED  BY <2>2 DEF Missing
<1>9. Cardinality(LinkedBins(d)) \in Nat /\ Cardinality(Resolved(d)) \in Nat
  BY <1>4, <1>6, FS_CardinalityType
<1> QED  BY <1>4, <1>5, <1>6, <1>7, <1>8, <1>9

\* A score is a number.
LEMMA RatioCounted ==
  ASSUME PackageOK, NEW bad \in Int, NEW total \in Nat, NEW per \in Nat
  PROVE  RatioScore(bad, total, per) \in Int
<1>1. PICK u \in Nat : u = Unit
  BY RecordsCounted
<1>2. ASSUME total > 0 PROVE Max({0, Unit - bad * per * (Unit \div total)}) \in Int
  <2>1. u \div total \in Int
    BY <1>2
  <2>2. bad * per \in Int
    BY ProductOfInts
  <2>3. PICK x \in Int : x = bad * per * (u \div total)
    BY <2>1, <2>2, ProductOfInts
  <2>4. u - x \in Int
    OBVIOUS
  <2> QED  BY <1>1, <2>3, <2>4, MaxOfTwo
<1> QED  BY <1>1, <1>2 DEF RatioScore

\* The scores are numbers.
LEMMA ScoresCounted ==
  ASSUME PackageOK, NEW d \in FiniteDefect
  PROVE  \A k \in Checks : Scores(d)[k] \in Int
<1>1. Unit \in Nat /\ Records \in Nat /\ Ones \in Nat
  BY RecordsCounted
<1>2. /\ d.unindexed \in Int /\ d.aliases \in Int /\ d.conflicts \in Int
  BY AssessmentAssumption DEF FiniteDefect, Defect
<1>3. Scores(d)["integrity"] \in Int
  BY <1>1 DEF Scores
<1>4. Scores(d)["indexes"] \in Int
  <2>1. Share(d.unindexed, Expected) \in Int
    BY <1>2, ShareCounted, AssessmentAssumption
  <2> QED  BY <1>1, <2>1 DEF Scores
<1>5. Scores(d)["duplicates"] \in Int
  BY <1>1, <1>2, RatioCounted DEF Scores
<1>6. Scores(d)["orphans"] \in Int
  BY <1>1, LinksCounted, RatioCounted DEF Scores
<1>7. Scores(d)["conflicts"] \in Int
  BY <1>1, <1>2, RatioCounted DEF Scores
<1>8. Scores(d)["relationships"] \in Int
  <2>1. Relationships(d) \in Int
    BY <1>1, LinksCounted, ShareCounted DEF Relationships
  <2> QED  BY <2>1 DEF Scores
<1>9. Scores(d)["completeness"] \in Int
  <2> DEFINE kept(f) == Unit - Share(Missing(d)[f], Records)
  <2>1. ASSUME Records # 0, NEW f \in Fields PROVE kept(f) \in Int
    <3>1. Share(Missing(d)[f], Records) \in Int
      BY <1>1, <2>1, LinksCounted, ShareCounted
    <3> QED  BY <1>1, <3>1
  <2>2. Completeness(d) = IF Records = 0 THEN 0
                          ELSE (kept("network") + kept("country") + kept("card type")
                                  + kept("funding type") + kept("currency")) \div Cardinality(Fields)
    BY DEF Completeness
  <2> HIDE DEF kept
  <2>3. ASSUME Records # 0 PROVE Completeness(d) \in Int
    <3>4. /\ kept("network") \in Int /\ kept("country") \in Int /\ kept("card type") \in Int
          /\ kept("funding type") \in Int /\ kept("currency") \in Int
      BY <2>1, <2>3 DEF Fields
    <3>5. PICK a \in Int, b \in Int, c \in Int, e \in Int, f \in Int :
            /\ kept("network") = a /\ kept("country") = b /\ kept("card type") = c
            /\ kept("funding type") = e /\ kept("currency") = f
      BY <3>4, Zenon
    <3>1. PICK s \in Int : s = a + b + c + e + f
      OBVIOUS
    <3>6. Completeness(d) = s \div Cardinality(Fields)
      BY <2>2, <2>3, <3>1, <3>5, Zenon
    <3>2. PICK n \in Nat : n = Cardinality(Fields) /\ n > 0
      BY FieldsCounted
    <3>3. s \div n \in Int
      BY <3>2
    <3> QED  BY <3>2, <3>3, <3>6
  <2>4. Completeness(d) \in Int
    <3>1. CASE Records = 0
      <4>1. Completeness(d) = 0
        BY <2>2, <3>1, Zenon
      <4> QED  BY <4>1
    <3>2. CASE Records # 0
      BY <2>3, <3>2
    <3> QED  BY <3>1, <3>2
  <2> QED  BY <2>4 DEF Scores
<1> QED  BY <1>3, <1>4, <1>5, <1>6, <1>7, <1>8, <1>9 DEF Checks

\* When every check passes the grade is good.
LEMMA PassingIsGood ==
  ASSUME PackageOK, NEW s, \A k \in Checks : s[k] \in Int, Failing(s) = {}
  PROVE  Grade(Weighed(s), Everything) \notin {"fair", "poor"}
<1>1. PICK u \in Nat : u = Unit
  BY RecordsCounted
<1>2. \A k \in Checks : s[k] * 100 >= 85 * u
  BY <1>1 DEF Failing, Reaches
<1>3. PICK a \in Int, b \in Int, c \in Int, e \in Int, f \in Int, g \in Int, h \in Int :
        /\ a = s["integrity"] /\ b = s["indexes"] /\ c = s["duplicates"] /\ e = s["orphans"]
        /\ f = s["conflicts"] /\ g = s["relationships"] /\ h = s["completeness"]
  BY DEF Checks
<1>4. /\ a * 100 >= 85 * u /\ b * 100 >= 85 * u /\ c * 100 >= 85 * u /\ e * 100 >= 85 * u
      /\ f * 100 >= 85 * u /\ g * 100 >= 85 * u /\ h * 100 >= 85 * u
  BY <1>2, <1>3 DEF Checks
<1>5. Weighed(s) = 30 * a + 20 * b + 10 * c + 10 * e + 6 * f + 15 * g + 10 * h
  BY <1>3 DEF Weighed, Weights
<1>6. Everything = 30 * u + 20 * u + 10 * u + 10 * u + 6 * u + 15 * u + 10 * u
  BY <1>1 DEF Everything, Weighed, Weights, Checks
<1>7. (30 * a + 20 * b + 10 * c + 10 * e + 6 * f + 15 * g + 10 * h) * 100
        >= 85 * (30 * u + 20 * u + 10 * u + 10 * u + 6 * u + 15 * u + 10 * u)
  BY <1>4
<1>8. Reaches(Weighed(s), Everything, 85)
  BY <1>5, <1>6, <1>7 DEF Reaches
<1> QED  BY <1>8 DEF Grade

\* Who issues a BIN resolves it.
LEMMA IssuedIsResolved ==
  ASSUME PackageOK, NEW d \in FiniteDefect
  PROVE  Cardinality({p \in DOMAIN bins : Issuers(LinksInOrder(bins[p])) # <<>>})
           <= Cardinality(Resolved(d))
<1>1. ASSUME NEW p \in DOMAIN bins, Issuers(LinksInOrder(bins[p])) # <<>>
      PROVE  \E l \in bins[p] : l.current
  <2>1. SoundLinks(bins[p])
    BY DEF PackageOK
  <2>2. PICK links \in Seq(LinkRecord) : links = LinksInOrder(bins[p])
    BY <2>1, LinksListed
  <2>3. PICK n \in Nat : n = Len(Issuers(links)) /\ DOMAIN Issuers(links) = 1 .. n
    BY IssuersForm
  <2>4. n # 0
    BY <1>1, <2>2, <2>3, IssuersForm
  <2>5. 1 \in DOMAIN Issuers(links)
    BY <2>3, <2>4
  <2>6. PICK k \in NowIn(links) : links[k] = Issuers(links)[1]
    BY <2>5, IssuersForm
  <2>7. k \in DOMAIN links /\ links[k].current
    BY <2>6 DEF NowIn
  <2>8. links[k] \in bins[p]
    BY <2>1, <2>2, <2>7, LinksListed
  <2> QED  BY <2>7, <2>8
<1>2. {p \in DOMAIN bins : Issuers(LinksInOrder(bins[p])) # <<>>} \subseteq Resolved(d)
  BY <1>1 DEF Resolved
<1> QED  BY <1>2, LinksCounted, FS_Subset

\* What orphans leave behind.
LEMMA RepairedForm ==
  ASSUME PackageOK, NEW d \in FiniteDefect
  PROVE  /\ Repaired(d) \in FiniteDefect
         /\ Orphans(Repaired(d)) = 0
         /\ LinkedBins(Repaired(d)) \subseteq DOMAIN bins
<1> DEFINE left == {l \in d.links : l.bin \in DOMAIN bins /\ l.inst # Unknown}
           e == [d EXCEPT !.links = left, !.rows = 0]
<1>1. Repaired(d) = e
  BY DEF Repaired, FiniteDefect, Defect
<1>2. e.links = left /\ e.rows = 0 /\ e \in Defect
  BY DEF FiniteDefect, Defect
<1>3. IsFiniteSet(left)
  BY FS_Subset DEF FiniteDefect
<1>4. e \in FiniteDefect
  BY <1>2, <1>3 DEF FiniteDefect
<1> HIDE DEF e
<1>5. {l \in e.links : l.bin \notin DOMAIN bins} = {} /\ {l \in e.links : l.inst = Unknown} = {}
  BY <1>2
<1>6. Orphans(e) = 0
  <2>1. Cardinality({}) = 0
    BY FS_EmptySet
  <2>2. Orphans(e) = Cardinality({}) + Cardinality({}) + 0
    BY <1>2, <1>5 DEF Orphans
  <2> QED  BY <2>1, <2>2
<1>7. LinkedBins(e) \subseteq DOMAIN bins
  BY <1>2 DEF LinkedBins
<1> QED  BY <1>1, <1>4, <1>6, <1>7

\* An assessment agrees with itself.
LEMMA AssessmentAgrees ==
  ASSUME PackageOK, NEW d \in FiniteDefect, NEW repaired \in BOOLEAN,
         repaired => Orphans(d) = 0 /\ LinkedBins(d) \subseteq DOMAIN bins
  PROVE  FiguresIn(Assessment(d, repaired)) /\ AssessedKnown(Assessment(d, repaired))
<1>0. PICK r : r = Assessment(d, repaired)
  OBVIOUS
<1>1. /\ r = Assessment(d, repaired) /\ r.op = "assessment" /\ r.of = d
      /\ r.health = HealthOf(d) /\ r.quality = QualityOf(d) /\ r.repaired = repaired
  BY <1>0 DEF Assessment
<1>2. /\ r.health.records = Records /\ r.health.orphans = Orphans(d)
      /\ r.health.linked = Cardinality(LinkedBins(d)) /\ r.health.missing = Missing(d)
      /\ r.health.grade = Grade(Weighed(Scores(d)), Everything)
      /\ r.health.failing = Failing(Scores(d))
  BY <1>1 DEF HealthOf
<1>3. /\ r.quality.institution_resolution.numerator = Cardinality(Resolved(d))
      /\ r.quality.missing_country_rate.numerator = Missing(d)["country"]
      /\ r.quality.missing_institution_rate.numerator =
           Max({0, Records - Cardinality(Resolved(d))})
  BY <1>1 DEF QualityOf, Metric
<1>4. r.health.grade \in {"fair", "poor"} => r.health.failing # {}
  BY <1>2, ScoresCounted, PassingIsGood
<1>5. Cardinality({p \in DOMAIN bins : Issuers(LinksInOrder(bins[p])) # <<>>})
        <= Cardinality(Resolved(d))
  BY IssuedIsResolved
<1>6. ASSUME repaired
      PROVE  /\ Cardinality(Resolved(d)) <= Cardinality(LinkedBins(d))
             /\ Cardinality(LinkedBins(d)) <= Records
             /\ Cardinality(Resolved(d)) + Max({0, Records - Cardinality(Resolved(d))}) = Records
  <2>1. PICK x \in Nat : x = Cardinality(Resolved(d))
    BY LinksCounted
  <2>2. x <= Cardinality(LinkedBins(d)) /\ Cardinality(LinkedBins(d)) \in Nat
    BY <2>1, LinksCounted, FS_Subset
  <2>3. Cardinality(LinkedBins(d)) <= Records /\ Records \in Nat
    BY <1>6, RecordsCounted, FS_Subset DEF Records
  <2>4. Records - x >= 0 /\ Records - x \in Int
    BY <2>2, <2>3
  <2>5. Max({0, Records - x}) = Records - x
    BY <2>4, MaxOfTwo
  <2> QED  BY <2>1, <2>2, <2>3, <2>5
<1>7. FiguresIn(r)
  BY <1>1, <1>2, <1>3, <1>4, <1>5, <1>6 DEF FiguresIn
<1>8. AssessedKnown(r)
  BY <1>1 DEF AssessedKnown
<1> QED  BY <1>1, <1>7, <1>8

--------------------------------------------------------------------------------
\* Tables and reports

IsList(s) == s \in Seq({s[k] : k \in DOMAIN s})

\* What is numbered from one is a list.
LEMMA ListOfPlaces ==
  ASSUME NEW n \in Nat, NEW s, DOMAIN s = 1 .. n, s = [k \in 1 .. n |-> s[k]]
  PROVE  IsList(s) /\ Len(s) = n
<1> DEFINE S == {s[k] : k \in DOMAIN s}
<1>1. s \in [1 .. n -> S]
  OBVIOUS
<1> HIDE DEF S
<1>2. s \in Seq(S) /\ Len(s) = n
  BY <1>1, SeqOfFunction
<1> QED  BY <1>2 DEF IsList, S

\* A sequence is a list.
LEMMA SeqIsList ==
  ASSUME NEW S, NEW s \in Seq(S)
  PROVE  IsList(s)
<1>1. PICK n \in Nat : n = Len(s) /\ DOMAIN s = 1 .. n
  BY LenProperties
<1>2. s = [k \in 1 .. n |-> s[k]]
  BY <1>1
<1> QED  BY <1>1, <1>2, ListOfPlaces

\* The first rows of a list: so many, or all.
LEMMA FirstRowsForm ==
  ASSUME NEW s, IsList(s), NEW n \in Nat
  PROVE  /\ IsList(FirstRows(s, n)) /\ Len(s) \in Nat /\ Len(FirstRows(s, n)) <= Len(s)
         /\ Len(FirstRows(s, n)) \in Nat
         /\ Len(s) <= n => FirstRows(s, n) = s
         /\ Len(s) > n => Len(FirstRows(s, n)) = n
         /\ \A k \in DOMAIN FirstRows(s, n) : \E j \in DOMAIN s : FirstRows(s, n)[k] = s[j]
<1> DEFINE S == {s[k] : k \in DOMAIN s}
<1>1. s \in Seq(S)
  BY DEF IsList
<1> HIDE DEF S
<1>2. PICK c \in Nat : c = Len(s)
  BY <1>1, LenProperties
<1>3. PICK m \in Nat : m = Min({Len(s), n}) /\ m \in {c, n} /\ m <= c /\ m <= n
  BY <1>2, MinOfTwo
<1>4. FirstRows(s, n) = SubSeq(s, 1, m)
  BY <1>3 DEF FirstRows
<1>5. \A i \in 1 .. m : s[i] \in S
  <2> TAKE i \in 1 .. m
  <2>1. i \in 1 .. Len(s)
    BY <1>2, <1>3
  <2> QED  BY <1>1, <2>1, ElementOfSeq
<1>6. 1 \in Int /\ m \in Int
  OBVIOUS
<1>7. /\ SubSeq(s, 1, m) \in Seq(S)
      /\ Len(SubSeq(s, 1, m)) = IF 1 <= m THEN m - 1 + 1 ELSE 0
  BY <1>5, <1>6, SubSeqProperties
<1>8. Len(SubSeq(s, 1, m)) = m
  BY <1>7
<1>9. ASSUME c <= n PROVE SubSeq(s, 1, m) = s
  <2>1. m = Len(s)
    BY <1>2, <1>3, <1>9
  <2> QED  BY <1>1, <2>1, SubSeqFull
<1>10. ASSUME c > n PROVE m = n
  BY <1>3, <1>10
<1>11. IsList(SubSeq(s, 1, m))
  BY <1>7, SeqIsList
<1>12. \A k \in DOMAIN SubSeq(s, 1, m) : \E j \in DOMAIN s : SubSeq(s, 1, m)[k] = s[j]
  <2>1. \A k \in DOMAIN SubSeq(s, 1, m) : SubSeq(s, 1, m)[k] \in S
    BY <1>7, ElementOfSeq, LenProperties
  <2> QED  BY <2>1 DEF S
<1> QED  BY <1>2, <1>3, <1>4, <1>8, <1>9, <1>10, <1>11, <1>12

\* The rows of a table: one for each assignment.
LEMMA RowsListed ==
  ASSUME PackageOK, NEW f, DOMAIN f \in SUBSET DOMAIN bins
  PROVE  /\ IsList(RowsOf(f)) /\ Len(RowsOf(f)) = Cardinality(DOMAIN f)
         /\ Cardinality(DOMAIN f) \in Nat
         /\ {RowsOf(f)[k].bin : k \in DOMAIN RowsOf(f)} = DOMAIN f
<1> DEFINE order == BinsInOrder(DOMAIN f)
<1>1. PICK n \in Nat :
        /\ n = Cardinality(DOMAIN f) /\ DOMAIN order = 1 .. n
        /\ \A k \in 1 .. n : order[k] \in DOMAIN f
        /\ \A p \in DOMAIN f : \E k \in 1 .. n : order[k] = p
  BY BinsListed
<1>2. PICK list : /\ list = RowsOf(f) /\ DOMAIN list = 1 .. n
                  /\ list = [k \in 1 .. n |-> RowOf(order[k], f[order[k]])]
  BY <1>1 DEF RowsOf
<1>3. list = [k \in 1 .. n |-> list[k]]
  BY <1>2
<1>4. IsList(list) /\ Len(list) = n
  BY <1>2, <1>3, ListOfPlaces
<1>5. \A k \in 1 .. n : list[k].bin = order[k]
  BY <1>2 DEF RowOf
<1> HIDE DEF order
<1>6. {list[k].bin : k \in DOMAIN list} = DOMAIN f
  <2>1. \A k \in DOMAIN list : list[k].bin \in DOMAIN f
    BY <1>1, <1>2, <1>5
  <2>2. \A p \in DOMAIN f : \E k \in DOMAIN list : list[k].bin = p
    BY <1>1, <1>2, <1>5
  <2> QED  BY <2>1, <2>2
<1> QED  BY <1>1, <1>2, <1>4, <1>6

\* The first rows are where they were.
LEMMA FirstRowsPlaces ==
  ASSUME NEW s, IsList(s), NEW n \in Nat
  PROVE  /\ Len(FirstRows(s, n)) = Min({Len(s), n})
         /\ \A k \in DOMAIN FirstRows(s, n) : k \in DOMAIN s /\ FirstRows(s, n)[k] = s[k]
<1> DEFINE S == {s[k] : k \in DOMAIN s}
<1>1. s \in Seq(S)
  BY DEF IsList
<1> HIDE DEF S
<1>2. PICK c \in Nat : c = Len(s) /\ DOMAIN s = 1 .. c
  BY <1>1, LenProperties
<1>3. PICK m \in Nat : m = Min({Len(s), n}) /\ m <= c
  BY <1>2, MinOfTwo
<1>4. FirstRows(s, n) = SubSeq(s, 1, m)
  BY <1>3 DEF FirstRows
<1>5. \A i \in 1 .. m : s[i] \in S
  <2> TAKE i \in 1 .. m
  <2>1. i \in 1 .. Len(s)
    BY <1>2, <1>3
  <2> QED  BY <1>1, <2>1, ElementOfSeq
<1>6. 1 \in Int /\ m \in Int
  OBVIOUS
<1>7. /\ SubSeq(s, 1, m) \in Seq(S)
      /\ Len(SubSeq(s, 1, m)) = IF 1 <= m THEN m - 1 + 1 ELSE 0
      /\ \A i \in 1 .. m - 1 + 1 : SubSeq(s, 1, m)[i] = s[1 + i - 1]
  BY <1>5, <1>6, SubSeqProperties
<1>8. Len(SubSeq(s, 1, m)) = m /\ \A i \in 1 .. m : SubSeq(s, 1, m)[i] = s[i]
  BY <1>7
<1>9. DOMAIN SubSeq(s, 1, m) = 1 .. m
  BY <1>7, <1>8, LenProperties
<1>10. \A k \in 1 .. m : k \in DOMAIN s
  BY <1>2, <1>3
<1>11. PICK first : first = SubSeq(s, 1, m)
  OBVIOUS
<1>12. /\ Len(first) = m /\ DOMAIN first = 1 .. m
       /\ \A k \in 1 .. m : k \in DOMAIN s /\ first[k] = s[k]
  BY <1>8, <1>9, <1>10, <1>11
<1> QED  BY <1>3, <1>4, <1>11, <1>12

\* Each BIN has one place.
OneEach(table) == \A j, k \in DOMAIN table : table[j].bin = table[k].bin => j = k

\* No BIN is in a table twice.
LEMMA RowsDiffer ==
  ASSUME PackageOK, NEW f, DOMAIN f \in SUBSET DOMAIN bins
  PROVE  OneEach(RowsOf(f))
<1> DEFINE order == BinsInOrder(DOMAIN f)
<1>1. PICK n \in Nat :
        /\ DOMAIN order = 1 .. n
        /\ \A i, j \in 1 .. n : i < j => order[i] # order[j]
  BY BinsListed
<1>2. PICK list : /\ list = RowsOf(f) /\ DOMAIN list = 1 .. n
                  /\ list = [k \in 1 .. n |-> RowOf(order[k], f[order[k]])]
  BY <1>1 DEF RowsOf
<1>3. \A k \in 1 .. n : list[k].bin = order[k]
  BY <1>2 DEF RowOf
<1> HIDE DEF order
<1>4. ASSUME NEW j \in 1 .. n, NEW k \in 1 .. n, order[j] = order[k] PROVE j = k
  <2>1. ~(j < k) /\ ~(k < j)
    BY <1>1, <1>4
  <2> QED  BY <2>1
<1> QED  BY <1>2, <1>3, <1>4 DEF OneEach

\* A table cut at a number of rows: so many of the rows, or all, and none twice.
LEMMA RowsCut ==
  ASSUME PackageOK, NEW f, DOMAIN f \in SUBSET DOMAIN bins, NEW cap \in Nat
  PROVE  /\ IsList(FirstRows(RowsOf(f), cap)) /\ Cardinality(DOMAIN f) \in Nat
         /\ Len(FirstRows(RowsOf(f), cap)) = Min({Cardinality(DOMAIN f), cap})
         /\ OneEach(FirstRows(RowsOf(f), cap))
<1>1. PICK list : /\ list = RowsOf(f) /\ IsList(list) /\ Len(list) = Cardinality(DOMAIN f)
                  /\ OneEach(list)
  BY RowsListed, RowsDiffer
<1>2. PICK first : /\ first = FirstRows(list, cap) /\ IsList(first)
                   /\ Len(first) = Min({Len(list), cap})
                   /\ \A k \in DOMAIN first : k \in DOMAIN list /\ first[k] = list[k]
  <2>1. IsList(FirstRows(list, cap))
    BY <1>1, FirstRowsForm
  <2>2. /\ Len(FirstRows(list, cap)) = Min({Len(list), cap})
        /\ \A k \in DOMAIN FirstRows(list, cap) : k \in DOMAIN list /\ FirstRows(list, cap)[k] = list[k]
    BY <1>1, FirstRowsPlaces
  <2> QED  BY <2>1, <2>2
<1>3. OneEach(first)
  BY <1>1, <1>2 DEF OneEach
<1> QED  BY <1>1, <1>2, <1>3, RowsListed

\* A row names a BIN, and an institution or none.
KnownRow(row)   == row.bin \in Prefix /\ row.inst \in Institutions \cup {Unknown}
KnownRows(table) == IsList(table) /\ \A k \in DOMAIN table : KnownRow(table[k])

\* The rows of a table are such rows.
LEMMA RowsKnown ==
  ASSUME PackageOK, NEW f, DOMAIN f \in SUBSET DOMAIN bins, \A p \in DOMAIN f : f[p] \subseteq bins[p]
  PROVE  KnownRows(RowsOf(f))
<1> DEFINE order == BinsInOrder(DOMAIN f)
<1>1. PICK n \in Nat : DOMAIN order = 1 .. n /\ \A k \in 1 .. n : order[k] \in DOMAIN f
  BY BinsListed
<1>2. PICK list : list = RowsOf(f) /\ list = [k \in 1 .. n |-> RowOf(order[k], f[order[k]])]
  BY <1>1 DEF RowsOf
<1> HIDE DEF order
<1>3. ASSUME NEW k \in 1 .. n PROVE KnownRow(list[k])
  <2>1. PICK p \in DOMAIN f : p = order[k] /\ list[k] = RowOf(p, f[p])
    BY <1>1, <1>2
  <2>2. f[p] \subseteq LinkRecord
    BY FormRecords DEF PackageOK, SoundLinks
  <2>3. list[k].bin = p /\ p \in Prefix
    BY <2>1, PrefixesAsked DEF RowOf, PackageOK
  <2>4. list[k].inst \in Institutions \cup {Unknown}
    <3>1. CASE list[k].inst # Unknown
      BY <2>1, <2>2, <3>1, RowNames DEF LinkRecord
    <3> QED  BY <3>1
  <2> QED  BY <2>3, <2>4 DEF KnownRow
<1> QED  BY <1>2, <1>3, RowsListed DEF KnownRows

\* The first of such rows are such rows.
LEMMA FirstRowsKnown ==
  ASSUME NEW table, KnownRows(table), NEW n \in Nat
  PROVE  KnownRows(FirstRows(table, n))
<1>1. IsList(table) /\ \A k \in DOMAIN table : KnownRow(table[k])
  BY DEF KnownRows
<1> QED  BY <1>1, FirstRowsForm DEF KnownRows

\* No rows are.
LEMMA NoRowsKnown == KnownRows(<<>>)
<1>1. <<>> \in Seq({}) /\ \A k \in DOMAIN <<>> : FALSE
  OBVIOUS
<1>2. IsList(<<>>)
  BY <1>1, SeqIsList
<1> QED  BY <1>1, <1>2 DEF KnownRows

\* What is known of the result that a file is made of.
ShownKnown ==
  /\ shown.op = "lookup" /\ shown.found => shown.winner.links \in Seq(LinkRecord)
  /\ shown.op = "portfolio"
       => shown.heading.total = Cardinality(Held(ReachedFrom(shown.inst, related)))
  /\ shown.op = "search" => shown.table = TableOf(shown.search)
  /\ shown.op = "report" => KnownRows(shown.content.rows)

\* NothingCutSilently: of a table, of a report and of a record.
TableIn(r) ==
  r.op = "table" => Len(r.rows) = Min({r.total, r.cap}) /\ OneEach(r.rows)
ReportIn(r) ==
  r.op = "report" =>
    LET all == r.content.rows
        pairs == r.content.sections
    IN /\ r.content.type = "search_results" =>
            \/ Len(all) = r.content.total
            \/ Note(Len(all), r.content.total) \in r.file.notes
       /\ \/ r.file.rows = all
          \/ Note(Len(r.file.rows), Len(all)) \in r.file.notes
       /\ \A k \in DOMAIN pairs :
            \/ pairs[k] \in r.file.sections
            \/ r.fmt = "json" /\ \E j \in DOMAIN pairs \ {k} : pairs[j][1] = pairs[k][1]
RecordIn(r) ==
  r.op = "record" =>
    \A l \in r.links : WasIssuing(l) => l.inst \in r.file.pairs.issuer \cup r.file.pairs.formers

\* The saved table of a portfolio has all of it, up to the cap.
LEMMA PortfolioIsWhole ==
  ASSUME PackageOK, ShownKnown, SavePortfolio
  PROVE  shown'.op = "table" /\ TableIn(shown')
<1> DEFINE ids == Contributing(shown.inst)
           f == [p \in InScope(ids, "any") |-> LinksOf(p, ids)]
<1>1. PICK r : /\ r = shown' /\ r.op = "table" /\ r.rows = PortfolioRows(shown.inst)
               /\ r.total = shown.heading.total /\ r.cap = PortfolioCap
  BY DEF SavePortfolio
<1>2. DOMAIN f = Held(ids) /\ DOMAIN f \in SUBSET DOMAIN bins
  BY ScopeOfStanding
<1>3. r.total = Cardinality(DOMAIN f)
  BY <1>1, <1>2 DEF ShownKnown, SavePortfolio, Contributing
<1>4. r.rows = FirstRows(RowsOf(f), PortfolioCap)
  BY <1>1 DEF PortfolioRows
<1> HIDE DEF f
<1>5. PortfolioCap \in Nat
  BY ExportsAssumption
<1>6. Len(r.rows) = Min({r.total, r.cap}) /\ OneEach(r.rows)
  BY <1>1, <1>2, <1>3, <1>4, <1>5, RowsCut
<1> QED  BY <1>1, <1>6 DEF TableIn

\* A search is run again for its file: what it found is in it, up to the cap.
LEMMA SearchRowsListed ==
  ASSUME PackageOK, NEW s
  PROVE  /\ KnownRows(SearchRows(s)) /\ OneEach(SearchRows(s))
         /\ Len(SearchRows(s)) = Min({Cardinality(TableOf(s)), SearchCap})
         /\ Cardinality(TableOf(s)) \in Nat
<1> DEFINE f == [p \in TableOf(s) |-> Primary(p)]
<1>1. DOMAIN f = TableOf(s) /\ DOMAIN f \in SUBSET DOMAIN bins
  BY DEF TableOf, ByName, LinkedTo
<1>2. SearchRows(s) = FirstRows(RowsOf(f), SearchCap)
  BY DEF SearchRows
<1>3. \A p \in DOMAIN f : f[p] \subseteq bins[p]
  BY DEF Primary
<1> HIDE DEF f
<1>4. SearchCap \in Nat
  BY ExportsAssumption
<1>5. KnownRows(FirstRows(RowsOf(f), SearchCap))
  BY <1>1, <1>3, <1>4, RowsKnown, FirstRowsKnown
<1> QED  BY <1>1, <1>2, <1>4, <1>5, RowsCut

\* The saved table of a search has all of it, up to the cap.
LEMMA SearchIsWhole ==
  ASSUME PackageOK, ShownKnown, SaveSearch
  PROVE  shown'.op = "table" /\ TableIn(shown')
<1>1. PICK r : /\ r = shown' /\ r.op = "table" /\ r.rows = SearchRows(shown.search)
               /\ r.total = Cardinality(shown.table) /\ r.cap = SearchCap
  BY DEF SaveSearch
<1>2. shown.table = TableOf(shown.search)
  BY DEF ShownKnown, SaveSearch
<1>3. r.total = Cardinality(TableOf(shown.search))
  BY <1>1, <1>2
<1>4. Len(r.rows) = Min({r.total, r.cap}) /\ OneEach(r.rows)
  BY <1>1, <1>3, SearchRowsListed
<1> QED  BY <1>1, <1>4 DEF TableIn

\* A record names whoever issued it, as an issuer or as a former one.
LEMMA RecordIsWhole ==
  ASSUME PackageOK, ShownKnown, NEW fmt, SaveRecord(fmt)
  PROVE  shown'.op = "record" /\ RecordIn(shown')
<1>1. PICK links \in Seq(LinkRecord) : links = shown.winner.links
  BY DEF ShownKnown, SaveRecord
<1>2. PICK r : r = shown' /\ r.op = "record" /\ r.links = ToSet(links) /\ r.file = RecordFile(fmt, links)
  BY <1>1 DEF SaveRecord
<1>3. r.file.pairs.issuer = NamesOf(Issuers(links)) /\ r.file.pairs.formers = Formers(links)
  BY <1>2 DEF RecordFile, FieldPairs
<1>4. ASSUME NEW l \in r.links, WasIssuing(l)
      PROVE  l.inst \in r.file.pairs.issuer \cup r.file.pairs.formers
  <2>1. PICK k \in DOMAIN links : l = links[k]
    BY <1>2 DEF ToSet
  <2>2. CASE IsIssuing(l) /\ l.current
    <3>1. k \in NowIn(links)
      BY <2>1, <2>2 DEF NowIn
    <3>2. l.inst \in NamesOf(Issuers(links))
      BY <2>1, <3>1, IssuersListed
    <3> QED  BY <1>3, <3>2
  <2>3. CASE ~(IsIssuing(l) /\ l.current)
    <3>1. l.inst \in Formers(links)
      BY <1>4, <2>1, <2>3 DEF Formers
    <3> QED  BY <1>3, <3>1
  <2> QED  BY <2>2, <2>3
<1> QED  BY <1>2, <1>4 DEF RecordIn

\* The content of a report: lists, and a note of what a search leaves out.
ContentRight(content) ==
  /\ KnownRows(content.rows) /\ IsList(content.sections)
  /\ content.type = "search_results" =>
       \/ Len(content.rows) = content.total
       \/ Note(Len(content.rows), content.total) \in content.notes

\* The empty list.
LEMMA EmptyIsList == IsList(<<>>)
<1>1. <<>> \in Seq({})
  OBVIOUS
<1> QED  BY <1>1, SeqIsList

\* What a report is made of is right.
LEMMA ContentIsRight ==
  ASSUME PackageOK, ShownKnown, Reportable, NEW cap \in RowCaps
  PROVE  ContentRight(ContentOf(cap))
<1>1. cap \in Nat
  BY ExportsAssumption
<1>2. CASE shown.op = "lookup"
  <2>1. PICK links \in Seq(LinkRecord) : links = shown.winner.links
    BY <1>2 DEF ShownKnown, Reportable
  <2>2. PICK n \in Nat : n = Len(links) /\ DOMAIN links = 1 .. n
    BY LenProperties
  <2>3. PICK pairs : pairs = IF Len(links) > 1 THEN [k \in DOMAIN links |-> <<links[k].kind, links[k].inst>>]
                             ELSE <<>>
    OBVIOUS
  <2>4. IsList(pairs)
    <3>1. CASE Len(links) > 1
      <4>1. DOMAIN pairs = 1 .. n /\ pairs = [k \in 1 .. n |-> pairs[k]]
        BY <2>2, <2>3, <3>1
      <4> QED  BY <4>1, ListOfPlaces
    <3>2. CASE ~(Len(links) > 1)
      BY <2>3, <3>2, EmptyIsList
    <3> QED  BY <3>1, <3>2
  <2>5. ContentOf(cap) = Content("bin_record", pairs, <<>>, 0, {})
    BY <1>2, <2>1, <2>3 DEF ContentOf, BinContent
  <2> QED  BY <2>4, <2>5, NoRowsKnown DEF ContentRight, Content
<1>3. CASE shown.op = "portfolio"
  <2> DEFINE ids == Contributing(shown.inst)
             f == [p \in InScope(ids, "any") |-> LinksOf(p, ids)]
  <2>1. DOMAIN f \in SUBSET DOMAIN bins
    BY ScopeOfStanding
  <2>2. PortfolioRows(shown.inst) = FirstRows(RowsOf(f), PortfolioCap)
    BY DEF PortfolioRows
  <2>3. KnownRows(PortfolioRows(shown.inst))
    <3>1. \A p \in DOMAIN f : f[p] \subseteq bins[p]
      BY DEF LinksOf
    <3> HIDE DEF f
    <3>2. PortfolioCap \in Nat
      BY ExportsAssumption
    <3>3. KnownRows(RowsOf(f))
      BY <2>1, <3>1, RowsKnown
    <3> QED  BY <2>2, <3>2, <3>3, FirstRowsKnown
  <2>4. KnownRows(FirstRows(PortfolioRows(shown.inst), cap))
    BY <1>1, <2>3, FirstRowsKnown
  <2>5. ContentOf(cap) = Content("institution_profile", <<>>, FirstRows(PortfolioRows(shown.inst), cap),
                                 Stats(shown.inst), {})
    BY <1>3 DEF ContentOf, InstitutionContent
  <2> QED  BY <2>4, <2>5, EmptyIsList DEF ContentRight, Content
<1>4. CASE shown.op = "search"
  <2> DEFINE s == shown.search
  <2>1. PICK all : all = SearchRows(s) /\ KnownRows(all) /\ IsList(all)
    BY SearchRowsListed DEF KnownRows
  <2>2. PICK total \in Nat : total = Cardinality(TableOf(s)) /\ Len(all) \in Nat /\ Len(all) <= total
    <3>1. SearchCap \in Nat
      BY ExportsAssumption
    <3>2. PICK total \in Nat : total = Cardinality(TableOf(s)) /\ Len(all) = Min({total, SearchCap})
      BY <2>1, SearchRowsListed
    <3>3. Min({total, SearchCap}) \in {total, SearchCap} /\ Min({total, SearchCap}) <= total
      BY <3>1, <3>2, MinOfTwo
    <3> QED  BY <3>1, <3>2, <3>3
  <2>3. PICK list : list = FirstRows(all, cap) /\ KnownRows(list) /\ Len(list) \in Nat /\ Len(list) <= total
    <3>1. PICK list : list = FirstRows(all, cap) /\ KnownRows(list) /\ Len(list) \in Nat /\ Len(list) <= Len(all)
      BY <1>1, <2>1, FirstRowsForm, FirstRowsKnown
    <3> QED  BY <2>2, <3>1
  <2>4. PICK notes : notes = IF total > Len(list) THEN {Note(Len(list), total)} ELSE {}
    OBVIOUS
  <2>5. ContentOf(cap) = Content("search_results", <<>>, list, total, notes)
    BY <1>4, <2>1, <2>2, <2>3, <2>4 DEF ContentOf, SearchContent
  <2>6. Len(list) = total \/ Note(Len(list), total) \in notes
    BY <2>3, <2>4
  <2> QED  BY <2>3, <2>5, <2>6, EmptyIsList DEF ContentRight, Content
<1> QED  BY <1>2, <1>3, <1>4 DEF Reportable

\* A file keeps the rows and the notes of its content, and its sections, except that
\* JSON keeps the last of those with one label.
LEMMA FormatKeeps ==
  ASSUME NEW content, IsList(content.sections), NEW fmt \in ReportFormats
  PROVE  /\ Rendered(fmt, content).rows = content.rows
         /\ Rendered(fmt, content).notes = content.notes
         /\ \A k \in DOMAIN content.sections :
              \/ content.sections[k] \in Rendered(fmt, content).sections
              \/ fmt = "json" /\ \E j \in DOMAIN content.sections \ {k} :
                                   content.sections[j][1] = content.sections[k][1]
<1> DEFINE pairs == content.sections
<1>1. PICK n \in Nat : n = Len(pairs) /\ DOMAIN pairs = 1 .. n
  BY LenProperties DEF IsList
<1>2. CASE fmt = "json"
  <2> DEFINE last == {j \in DOMAIN pairs : \A i \in j + 1 .. Len(pairs) : pairs[i][1] # pairs[j][1]}
  <2>1. Rendered(fmt, content) = InJson(content)
    BY <1>2 DEF Rendered
  <2>2. /\ InJson(content).rows = content.rows /\ InJson(content).notes = content.notes
        /\ InJson(content).sections = {pairs[k] : k \in last}
    BY DEF InJson, Rendering
  <2>3. ASSUME NEW k \in DOMAIN pairs, k \notin last
        PROVE  \E j \in DOMAIN pairs \ {k} : pairs[j][1] = pairs[k][1]
    <3>1. PICK j \in k + 1 .. n : pairs[j][1] = pairs[k][1]
      BY <1>1, <2>3
    <3>2. j \in DOMAIN pairs \ {k}
      BY <1>1, <2>3
    <3> QED  BY <3>1, <3>2
  <2> QED  BY <1>2, <2>1, <2>2, <2>3
<1>3. CASE fmt # "json"
  <2>1. Rendered(fmt, content) \in
          {Rendering(ToSet(pairs), content, Unlimited), Rendering(ToSet(pairs), content, 28),
           Rendering(ToSet(pairs), content, CellLimit)}
    BY <1>3 DEF Rendered, InCsv, InXlsx, InText, InPdf, ReportFormats
  <2>2. /\ Rendered(fmt, content).rows = content.rows /\ Rendered(fmt, content).notes = content.notes
        /\ Rendered(fmt, content).sections = ToSet(pairs)
    BY <2>1 DEF Rendering
  <2>3. \A k \in DOMAIN pairs : pairs[k] \in ToSet(pairs)
    BY DEF ToSet
  <2> QED  BY <2>2, <2>3
<1> QED  BY <1>2, <1>3

\* A report is whole, or says what it leaves out.
LEMMA GeneratedIsWhole ==
  ASSUME PackageOK, ShownKnown, NEW fmt \in ReportFormats, NEW cap \in RowCaps,
         Generate(fmt, cap)
  PROVE  shown'.op = "report" /\ ReportIn(shown') /\ KnownRows(shown'.content.rows)
<1>1. PICK content : content = ContentOf(cap) /\ ContentRight(content)
  BY ContentIsRight DEF Generate
<1>2. PICK r : /\ r = shown' /\ r.op = "report" /\ r.fmt = fmt /\ r.content = content
               /\ r.file = Rendered(fmt, content)
  BY <1>1 DEF Generate
<1>3. IsList(content.sections)
  BY <1>1 DEF ContentRight
<1>4. /\ r.file.rows = content.rows /\ r.file.notes = content.notes
      /\ \A k \in DOMAIN content.sections :
           \/ content.sections[k] \in r.file.sections
           \/ fmt = "json" /\ \E j \in DOMAIN content.sections \ {k} :
                                content.sections[j][1] = content.sections[k][1]
  BY <1>2, <1>3, FormatKeeps
<1> QED  BY <1>1, <1>2, <1>4 DEF ReportIn, ContentRight

\* A preview is whole, or says so.
LEMMA PreviewSaysSo ==
  ASSUME PackageOK, ShownKnown, NEW cap \in RowCaps, Preview(cap)
  PROVE  shown'.op = "report" /\ ReportIn(shown') /\ KnownRows(shown'.content.rows)
<1>1. PICK content : content = ContentOf(cap) /\ ContentRight(content)
  BY ContentIsRight DEF Preview
<1>2. PICK r : /\ r = shown' /\ r.op = "report" /\ r.content = content
               /\ r.file = InText([content EXCEPT !.rows = FirstRows(@, PreviewRows),
                                                  !.notes = PreviewNotes(content)])
  BY <1>1 DEF Preview
<1>3. /\ DOMAIN content = {"type", "sections", "rows", "total", "notes"}
  BY <1>1 DEF ContentOf, BinContent, InstitutionContent, SearchContent, Content, Preview, Reportable
<1>4. /\ r.file.rows = FirstRows(content.rows, PreviewRows) /\ r.file.notes = PreviewNotes(content)
      /\ r.file.sections = ToSet(content.sections)
  BY <1>2, <1>3 DEF InText, Rendering
<1>5. PreviewRows \in Nat /\ IsList(content.rows)
  BY <1>1, ExportsAssumption DEF ContentRight, KnownRows
<1>6. \/ r.file.rows = content.rows
      \/ Note(Len(r.file.rows), Len(content.rows)) \in r.file.notes
  <2>1. CASE Len(content.rows) <= PreviewRows
    BY <1>4, <1>5, <2>1, FirstRowsForm
  <2>2. CASE Len(content.rows) > PreviewRows
    <3>1. Len(r.file.rows) = PreviewRows
      BY <1>4, <1>5, <2>2, FirstRowsForm
    <3>2. Note(PreviewRows, Len(content.rows)) \in r.file.notes
      BY <1>4, <2>2 DEF PreviewNotes
    <3> QED  BY <3>1, <3>2
  <2>3. Len(content.rows) \in Nat
    BY <1>5, FirstRowsForm
  <2> QED  BY <1>5, <2>1, <2>2, <2>3
<1>7. content.notes \subseteq r.file.notes
  BY <1>4 DEF PreviewNotes
<1>8. \A k \in DOMAIN content.sections : content.sections[k] \in r.file.sections
  BY <1>4 DEF ToSet
<1> QED  BY <1>1, <1>2, <1>6, <1>7, <1>8 DEF ReportIn, ContentRight

--------------------------------------------------------------------------------
\* The columns of the PDF

\* Widths of the three columns.
Widths == [1 .. 3 -> Nat \ {0}]

\* The part of a pinned column, and that of one which shares what is left.
Taken(s, floors, c)   == IF c \in s.pinned THEN floors[c] ELSE 0
Wanted(s, desired, c) == IF c \in s.pinned THEN 0 ELSE desired[c]

\* What is known after a pass: if it was the last one, what the pinned columns leave is
\* shared by the others, and none of them is short of its longest word.
Shares(s, desired, floors, available) ==
  \/ s.pinned = 1 .. 3
  \/ /\ s.room = available - (Taken(s, floors, 1) + Taken(s, floors, 2) + Taken(s, floors, 3))
     /\ s.flexible = Wanted(s, desired, 1) + Wanted(s, desired, 2) + Wanted(s, desired, 3)
     /\ \A c \in 1 .. 3 \ s.pinned : desired[c] * s.room >= floors[c] * s.flexible
PassRecord == [pinned : SUBSET (1 .. 3), room : Int, flexible : Nat, done : BOOLEAN]

\* What a pass leaves behind.
LEMMA PassForm ==
  \A P \in SUBSET (1 .. 3), r \in Int, n \in Nat, b \in BOOLEAN :
    [pinned |-> P, room |-> r, flexible |-> n, done |-> b] \in PassRecord
BY DEF PassRecord

\* A pass that is not the last one pins another column.
LEMMA PassPins ==
  ASSUME NEW d \in Widths, NEW f \in Widths, NEW a \in Nat, NEW s \in PassRecord
  PROVE  /\ Pinned(s, d, f, a) \in PassRecord
         /\ s.pinned \subseteq Pinned(s, d, f, a).pinned
         /\ ~Pinned(s, d, f, a).done =>
              ~s.done /\ \E c \in 1 .. 3 : c \in Pinned(s, d, f, a).pinned /\ c \notin s.pinned
         /\ f[1] + f[2] + f[3] <= a /\ s.flexible >= 1
              /\ (s.done => Shares(s, d, f, a))
              => /\ Pinned(s, d, f, a).flexible >= 1
                 /\ (Pinned(s, d, f, a).done => Shares(Pinned(s, d, f, a), d, f, a))
<1> DEFINE free == DOMAIN d \ s.pinned
           room == a - Total(f, s.pinned)
           flexible == Total(d, free)
           short == {c \in free : d[c] * room < f[c] * flexible}
           t == [pinned |-> s.pinned \cup short, room |-> room, flexible |-> flexible, done |-> short = {}]
           p == Pinned(s, d, f, a)
<1>1. p = IF s.done \/ free = {} \/ room <= 0 THEN [s EXCEPT !.done = TRUE] ELSE t
  BY DEF Pinned
<1>2. /\ DOMAIN d = 1 .. 3 /\ \A c \in 1 .. 3 : d[c] \in Nat \ {0} /\ f[c] \in Nat \ {0}
      /\ d[1] \in Nat /\ d[1] >= 1 /\ d[2] \in Nat /\ d[2] >= 1 /\ d[3] \in Nat /\ d[3] >= 1
      /\ f[1] \in Nat /\ f[1] >= 1 /\ f[2] \in Nat /\ f[2] >= 1 /\ f[3] \in Nat /\ f[3] >= 1
  BY DEF Widths
<1>3. room = a - (Taken(s, f, 1) + Taken(s, f, 2) + Taken(s, f, 3))
  BY DEF Total, Taken
<1>4. flexible = Wanted(s, d, 1) + Wanted(s, d, 2) + Wanted(s, d, 3)
  <2>1. \A c \in 1 .. 3 : c \in free <=> c \notin s.pinned
    BY <1>2
  <2> HIDE DEF free
  <2> QED  BY <2>1 DEF Total, Wanted
<1>5. room \in Int /\ flexible \in Nat
  BY <1>2, <1>3, <1>4 DEF Taken, Wanted
<1>6. s.pinned \subseteq 1 .. 3 /\ s.done \in BOOLEAN /\ s.room \in Int /\ s.flexible \in Nat
  BY DEF PassRecord
<1>7. free = 1 .. 3 \ s.pinned
  BY <1>2
<1> HIDE DEF room, flexible, free
<1>8. CASE s.done \/ free = {} \/ room <= 0
  <2>1. p = [s EXCEPT !.done = TRUE]
    BY <1>1, <1>8
  <2>2. /\ p \in PassRecord /\ p.pinned = s.pinned /\ p.done
        /\ p.room = s.room /\ p.flexible = s.flexible
    BY <2>1 DEF PassRecord
  <2>3. ASSUME f[1] + f[2] + f[3] <= a, s.done => Shares(s, d, f, a) PROVE Shares(p, d, f, a)
    <3>1. CASE s.done
      BY <2>2, <2>3, <3>1 DEF Shares, Taken, Wanted
    <3>2. CASE free = {}
      BY <1>6, <1>7, <2>2, <3>2 DEF Shares
    <3>3. CASE room <= 0 /\ free # {}
      <4>1. 1 \notin s.pinned \/ 2 \notin s.pinned \/ 3 \notin s.pinned
        BY <1>7, <3>3
      <4> QED  BY <1>2, <1>3, <2>3, <3>3, <4>1 DEF Taken
    <3> QED  BY <1>8, <3>1, <3>2, <3>3
  <2> HIDE DEF p
  <2> QED  BY <2>2, <2>3 DEF p
<1>9. CASE ~(s.done \/ free = {} \/ room <= 0)
  <2>1. p = t /\ short \subseteq 1 .. 3
    BY <1>1, <1>7, <1>9
  <2>2. /\ p.pinned = s.pinned \cup short /\ p.room = room /\ p.flexible = flexible
        /\ p.done = (short = {})
    BY <2>1
  <2>3. p \in PassRecord
    <3> HIDE DEF short
    <3>1. s.pinned \cup short \in SUBSET (1 .. 3) /\ (short = {}) \in BOOLEAN
      BY <1>6, <2>1
    <3>2. PICK b \in BOOLEAN : b = (short = {})
      BY <3>1
    <3>3. t = [pinned |-> s.pinned \cup short, room |-> room, flexible |-> flexible, done |-> b]
      BY <3>2
    <3> QED  BY <1>5, <2>1, <3>1, <3>3, PassForm
  <2>4. short # {} => \E c \in 1 .. 3 : c \in p.pinned /\ c \notin s.pinned
    BY <1>7, <2>2
  <2>5. flexible >= 1
    <3>1. 1 \notin s.pinned \/ 2 \notin s.pinned \/ 3 \notin s.pinned
      BY <1>7, <1>9
    <3> QED  BY <1>2, <1>4, <3>1 DEF Wanted
  <2>6. ASSUME short = {} PROVE Shares(p, d, f, a)
    <3>1. p.pinned = s.pinned
      BY <2>2, <2>6
    <3>2. ASSUME NEW c \in 1 .. 3 \ s.pinned PROVE d[c] * p.room >= f[c] * p.flexible
      <4>1. ~(d[c] * room < f[c] * flexible)
        BY <1>7, <2>6, <3>2
      <4>2. d[c] * room \in Int /\ f[c] * flexible \in Int
        BY <1>2, <1>5, <3>2, ProductOfInts
      <4> QED  BY <2>2, <4>1, <4>2
    <3>3. \A c \in 1 .. 3 : Taken(p, f, c) = Taken(s, f, c) /\ Wanted(p, d, c) = Wanted(s, d, c)
      BY <3>1 DEF Taken, Wanted
    <3> QED  BY <1>3, <1>4, <2>2, <3>1, <3>2, <3>3 DEF Shares
  <2> HIDE DEF p, short
  <2> QED  BY <1>9, <2>2, <2>3, <2>4, <2>5, <2>6 DEF p, short
<1> QED  BY <1>8, <1>9

\* Three passes are enough: then no column is short of its longest word, if all of those
\* fit side by side.
LEMMA PassesEnough ==
  ASSUME NEW d \in Widths, NEW f \in Widths, NEW a \in Nat
  PROVE  /\ Passed(d, f, a) \in PassRecord
         /\ f[1] + f[2] + f[3] <= a => Passed(d, f, a).flexible >= 1 /\ Shares(Passed(d, f, a), d, f, a)
<1>0. {} \in SUBSET (1 .. 3) /\ 0 \in Int /\ 1 \in Nat /\ FALSE \in BOOLEAN
  OBVIOUS
<1>1. PICK s \in PassRecord : s = Unpinned /\ s.flexible = 1 /\ ~s.done
  BY <1>0, PassForm DEF Unpinned
<1>2. PICK u \in PassRecord : u = Pinned(s, d, f, a)
  BY PassPins
<1>3. PICK v \in PassRecord : v = Pinned(u, d, f, a)
  BY PassPins
<1>4. PICK w \in PassRecord : w = Pinned(v, d, f, a)
  BY PassPins
<1>5. Passed(d, f, a) = w
  BY <1>1, <1>2, <1>3, <1>4 DEF Passed
<1>6. ASSUME f[1] + f[2] + f[3] <= a PROVE w.flexible >= 1 /\ Shares(w, d, f, a)
  <2>1. u.flexible >= 1 /\ (u.done => Shares(u, d, f, a))
    BY <1>1, <1>2, <1>6, PassPins
  <2>2. v.flexible >= 1 /\ (v.done => Shares(v, d, f, a))
    BY <1>3, <1>6, <2>1, PassPins
  <2>3. w.flexible >= 1 /\ (w.done => Shares(w, d, f, a))
    BY <1>4, <1>6, <2>2, PassPins
  <2>4. ASSUME ~w.done PROVE w.pinned = 1 .. 3
    <3>1. PICK x \in 1 .. 3 : x \in w.pinned /\ x \notin v.pinned
      BY <1>4, <2>4, PassPins
    <3>2. ~v.done /\ v.pinned \subseteq w.pinned
      BY <1>4, <2>4, PassPins
    <3>3. PICK y \in 1 .. 3 : y \in v.pinned /\ y \notin u.pinned
      BY <1>3, <3>2, PassPins
    <3>4. ~u.done /\ u.pinned \subseteq v.pinned
      BY <1>3, <3>2, PassPins
    <3>5. PICK z \in 1 .. 3 : z \in u.pinned
      BY <1>2, <3>4, PassPins
    <3>6. w.pinned \subseteq 1 .. 3
      BY DEF PassRecord
    <3>7. x # y /\ x # z /\ y # z
      BY <3>1, <3>3, <3>4, <3>5
    <3>8. \A c \in 1 .. 3 : c = x \/ c = y \/ c = z
      BY <3>7
    <3>9. y \in w.pinned /\ z \in w.pinned
      BY <3>2, <3>3, <3>4, <3>5
    <3> QED  BY <3>1, <3>6, <3>8, <3>9
  <2> QED  BY <2>3, <2>4 DEF Shares
<1> QED  BY <1>5, <1>6

\* A sum is multiplied part by part.
LEMMA Distributes ==
  \A a, b, c, d \in Int : (a + b + c) * d = a * d + b * d + c * d
OBVIOUS

\* A greater number has a greater multiple.
LEMMA ProductGrows ==
  \A a, b \in Int, n \in Nat : a <= b => a * n <= b * n
OBVIOUS

\* The factors of a product may be turned.
LEMMA ProductTurns ==
  \A a, b \in Int : a * b = b * a
OBVIOUS

\* The total of three columns.
LEMMA TotalOfAll ==
  ASSUME NEW w
  PROVE  Total(w, 1 .. 3) = w[1] + w[2] + w[3]
BY DEF Total

\* ColumnsFit, of the widths of three columns.
Fits(laid, f, a) ==
  /\ Total(laid.widths, 1 .. 3) <= a * laid.unit
  /\ Total(f, 1 .. 3) <= a => \A c \in 1 .. 3 : f[c] * laid.unit <= laid.widths[c]

\* Columns that fit as they are have the surplus.
LEMMA SurplusFits ==
  ASSUME NEW d \in Widths, NEW f \in Widths, NEW a \in Nat, \A c \in 1 .. 3 : f[c] <= d[c],
         Total(d, DOMAIN d) <= a
  PROVE  Fits(ColumnWidths(d, f, a), f, a)
<1>1. DOMAIN d = 1 .. 3 /\ Len(d) = 3 /\ \A c \in 1 .. 3 : d[c] \in Nat /\ f[c] \in Nat
  <2>1. d \in [1 .. 3 -> Nat]
    BY DEF Widths
  <2>2. Len(d) = 3
    BY <2>1, SeqOfFunction
  <2> QED  BY <2>1, <2>2 DEF Widths
<1>2. PICK T \in Nat : T = Total(d, DOMAIN d) /\ T = d[1] + d[2] + d[3] /\ T <= a
  BY <1>1, TotalOfAll
<1>3. PICK w : w = [c \in 1 .. 3 |-> d[c] * 3 + a - T]
  OBVIOUS
<1>4. ColumnWidths(d, f, a) = [unit |-> 3, widths |-> w]
  BY <1>1, <1>2, <1>3 DEF ColumnWidths
<1>5. Total(w, 1 .. 3) = w[1] + w[2] + w[3]
  BY TotalOfAll
<1>6. w[1] + w[2] + w[3] = a * 3
  BY <1>1, <1>2, <1>3
<1>7. ASSUME NEW c \in 1 .. 3 PROVE f[c] * 3 <= w[c]
  BY <1>1, <1>2, <1>3
<1>8. w[1] + w[2] + w[3] <= a * 3
  BY <1>6
<1> QED  BY <1>4, <1>5, <1>7, <1>8 DEF Fits

\* What the columns get after the passes, in parts of what they shared.
Given(s, d, f) == [c \in 1 .. 3 |-> IF c \in s.pinned THEN f[c] * s.flexible ELSE d[c] * s.room]

\* If all longest words fit, no column is short of its own and the page is not exceeded.
LEMMA SharesFit ==
  ASSUME NEW d \in Widths, NEW f \in Widths, NEW a \in Nat, NEW s \in PassRecord,
         f[1] + f[2] + f[3] <= a, Shares(s, d, f, a)
  PROVE  /\ Given(s, d, f)[1] + Given(s, d, f)[2] + Given(s, d, f)[3] <= a * s.flexible
         /\ \A c \in 1 .. 3 : f[c] * s.flexible <= Given(s, d, f)[c]
<1> DEFINE w == Given(s, d, f)
           L == s.flexible
           R == s.room
           p(c) == Taken(s, f, c)
           q(c) == Wanted(s, d, c)
<1>1. L \in Nat /\ R \in Int
  BY DEF PassRecord
<1>2. \A c \in 1 .. 3 : d[c] \in Nat /\ f[c] \in Nat /\ p(c) \in Nat /\ q(c) \in Nat
  BY DEF Widths, Taken, Wanted
<1>3. \A c \in 1 .. 3 : w[c] = IF c \in s.pinned THEN f[c] * L ELSE d[c] * R
  BY DEF Given
<1>4. \A c \in 1 .. 3 : f[c] * L \in Int /\ d[c] * R \in Int /\ p(c) * L \in Int /\ q(c) * R \in Int
  BY <1>1, <1>2, ProductOfInts
<1> HIDE DEF w, L, R
<1>5. CASE s.pinned = 1 .. 3
  <2>1. \A c \in 1 .. 3 : w[c] = f[c] * L
    BY <1>3, <1>5
  <2>2. f[1] * L + f[2] * L + f[3] * L = (f[1] + f[2] + f[3]) * L
    <3>1. f[1] \in Int /\ f[2] \in Int /\ f[3] \in Int /\ L \in Int
      BY <1>1, <1>2
    <3> QED  BY <3>1, Distributes
  <2>3. (f[1] + f[2] + f[3]) * L <= a * L
    <3>1. f[1] + f[2] + f[3] \in Int /\ a \in Int
      BY <1>2
    <3> QED  BY <1>1, <3>1, ProductGrows
  <2>4. w[1] + w[2] + w[3] <= a * L
    <3>1. w[1] = f[1] * L /\ w[2] = f[2] * L /\ w[3] = f[3] * L
      BY <2>1
    <3> QED  BY <2>2, <2>3, <3>1
  <2>5. \A c \in 1 .. 3 : f[c] * L <= w[c]
    BY <1>4, <2>1
  <2> QED  BY <2>4, <2>5 DEF w, L
<1>6. CASE s.pinned # 1 .. 3
  <2>1. /\ R = a - (p(1) + p(2) + p(3)) /\ L = q(1) + q(2) + q(3)
        /\ \A c \in 1 .. 3 \ s.pinned : d[c] * R >= f[c] * L
    BY <1>6 DEF Shares, R, L
  <2>2. \A c \in 1 .. 3 : w[c] = p(c) * L + q(c) * R
    <3> TAKE c \in 1 .. 3
    <3>1. 0 * L = 0 /\ 0 * R = 0
      BY <1>1
    <3>2. CASE c \in s.pinned
      <4>1. p(c) = f[c] /\ q(c) = 0 /\ w[c] = f[c] * L
        BY <1>3, <3>2 DEF Taken, Wanted
      <4> QED  BY <1>4, <3>1, <4>1
    <3>3. CASE c \notin s.pinned
      <4>1. p(c) = 0 /\ q(c) = d[c] /\ w[c] = d[c] * R
        BY <1>3, <3>3 DEF Taken, Wanted
      <4> QED  BY <1>4, <3>1, <4>1
    <3> QED  BY <3>2, <3>3
  <2> HIDE DEF p, q
  <2>3. PICK P \in Int, Q \in Int : P = p(1) + p(2) + p(3) /\ Q = q(1) + q(2) + q(3)
    BY <1>2
  <2>4. w[1] + w[2] + w[3] = P * L + Q * R
    <3>1. P * L = p(1) * L + p(2) * L + p(3) * L
      <4>1. p(1) \in Int /\ p(2) \in Int /\ p(3) \in Int /\ L \in Int
        BY <1>1, <1>2
      <4> QED  BY <2>3, <4>1, Distributes
    <3>2. Q * R = q(1) * R + q(2) * R + q(3) * R
      <4>1. q(1) \in Int /\ q(2) \in Int /\ q(3) \in Int /\ R \in Int
        BY <1>1, <1>2
      <4> QED  BY <2>3, <4>1, Distributes
    <3>3. /\ w[1] = p(1) * L + q(1) * R /\ w[2] = p(2) * L + q(2) * R
          /\ w[3] = p(3) * L + q(3) * R
      BY <2>2
    <3>4. /\ p(1) * L \in Int /\ q(1) * R \in Int /\ p(2) * L \in Int /\ q(2) * R \in Int
          /\ p(3) * L \in Int /\ q(3) * R \in Int
      BY <1>4
    <3> QED  BY <3>1, <3>2, <3>3, <3>4
  <2>5. P * L + Q * R = a * L
    <3>1. Q = L /\ R = a - P
      BY <2>1, <2>3
    <3>2. L * (a - P) = a * L - P * L
      BY <1>1, <2>3
    <3>3. P * L \in Int /\ a * L \in Int
      BY <1>1, <2>3, ProductOfInts
    <3> QED  BY <3>1, <3>2, <3>3
  <2>6. a * L \in Int
    BY <1>1, ProductOfInts
  <2>7. w[1] + w[2] + w[3] <= a * L
    BY <2>4, <2>5, <2>6
  <2>8. \A c \in 1 .. 3 : f[c] * L <= w[c]
    <3> TAKE c \in 1 .. 3
    <3>1. CASE c \in s.pinned
      BY <1>3, <1>4, <3>1
    <3>2. CASE c \notin s.pinned
      <4>1. w[c] = d[c] * R /\ d[c] * R >= f[c] * L
        BY <1>3, <2>1, <3>2
      <4> QED  BY <1>4, <4>1
    <3> QED  BY <3>1, <3>2
  <2> QED  BY <2>7, <2>8 DEF w, L
<1> QED  BY <1>5, <1>6

\* _column_widths keeps to the page, and to the longest words if they fit.
LEMMA WidthsFit ==
  ASSUME NEW d \in Widths, NEW f \in Widths, NEW a \in Nat, \A c \in 1 .. 3 : f[c] <= d[c]
  PROVE  Fits(ColumnWidths(d, f, a), f, a)
<1>1. CASE Total(d, DOMAIN d) <= a
  BY <1>1, SurplusFits
<1>2. CASE ~(Total(d, DOMAIN d) <= a)
  <2>1. PICK s \in PassRecord : s = Passed(d, f, a)
    BY PassesEnough
  <2>2. PICK w : w = Given(s, d, f)
    OBVIOUS
  <2>3. DOMAIN d = 1 .. 3 /\ DOMAIN w = 1 .. 3 /\ \A c \in 1 .. 3 : d[c] \in Nat /\ f[c] \in Nat
    BY <2>2 DEF Widths, Given
  <2>4. s.flexible \in Nat /\ s.room \in Int
    BY DEF PassRecord
  <2>5. \A c \in 1 .. 3 : w[c] \in Int
    <3> TAKE c \in 1 .. 3
    <3>1. w[c] = IF c \in s.pinned THEN f[c] * s.flexible ELSE d[c] * s.room
      BY <2>2 DEF Given
    <3>2. f[c] * s.flexible \in Int /\ d[c] * s.room \in Int
      BY <2>3, <2>4, ProductOfInts
    <3> QED  BY <3>1, <3>2
  <2>6. PICK sum \in Int : sum = Total(w, 1 .. 3) /\ sum = w[1] + w[2] + w[3]
    BY <2>5, TotalOfAll
  <2>7. PICK down : down = [c \in 1 .. 3 |-> w[c] * a]
    OBVIOUS
  <2>8. ColumnWidths(d, f, a) = IF sum <= a * s.flexible THEN [unit |-> s.flexible, widths |-> w]
                                ELSE [unit |-> sum, widths |-> down]
    <3>1. w = [c \in DOMAIN d |-> IF c \in s.pinned THEN f[c] * s.flexible ELSE d[c] * s.room]
      BY <2>2, <2>3 DEF Given
    <3>2. down = [c \in DOMAIN w |-> w[c] * a]
      BY <2>3, <2>7
    <3>3. sum = Total(w, DOMAIN w)
      BY <2>3, <2>6
    <3> QED  BY <1>2, <2>1, <3>1, <3>2, <3>3 DEF ColumnWidths
  <2>9. ASSUME Total(f, 1 .. 3) <= a
        PROVE  sum <= a * s.flexible /\ \A c \in 1 .. 3 : f[c] * s.flexible <= w[c]
    <3>1. f[1] + f[2] + f[3] <= a
      BY <2>9, TotalOfAll
    <3>2. Shares(s, d, f, a)
      BY <2>1, <3>1, PassesEnough
    <3> QED  BY <2>2, <2>6, <3>1, <3>2, SharesFit
  <2>10. CASE sum <= a * s.flexible
    <3>1. ColumnWidths(d, f, a) = [unit |-> s.flexible, widths |-> w]
      BY <2>8, <2>10
    <3> QED  BY <2>6, <2>9, <2>10, <3>1 DEF Fits
  <2>11. CASE ~(sum <= a * s.flexible)
    <3>1. ColumnWidths(d, f, a) = [unit |-> sum, widths |-> down]
      BY <2>8, <2>11
    <3>2. ~(Total(f, 1 .. 3) <= a)
      BY <2>9, <2>11
    <3>3. Total(down, 1 .. 3) = down[1] + down[2] + down[3]
      BY TotalOfAll
    <3>4. down[1] = w[1] * a /\ down[2] = w[2] * a /\ down[3] = w[3] * a
      BY <2>7
    <3>5. w[1] \in Int /\ w[2] \in Int /\ w[3] \in Int /\ a \in Int
      BY <2>5
    <3>6. down[1] + down[2] + down[3] = sum * a
      BY <2>6, <3>4, <3>5, Distributes
    <3>7. sum * a = a * sum /\ a * sum \in Int
      BY <3>5, ProductTurns, ProductOfInts
    <3>8. Total(down, 1 .. 3) <= a * sum
      BY <3>3, <3>6, <3>7
    <3> QED  BY <3>1, <3>2, <3>8 DEF Fits
  <2> QED  BY <2>10, <2>11
<1> QED  BY <1>1, <1>2

\* A cell has words, which have lengths.
Texts == Seq(Nat) \ {<<>>}

\* The lengths that the text of a cell is made of.
LengthsExist(words) ==
  \E upTo : upTo = [k \in 0 .. Len(words) |-> IF k = 0 THEN -1 ELSE upTo[k - 1] + words[k] + 1]

\* There are such lengths, as long as one wants them.
LEMMA TextsHaveLengths ==
  ASSUME NEW words \in Texts
  PROVE  LengthsExist(words)
<1>1. PICK n \in Nat : n = Len(words)
  BY LenProperties DEF Texts
<1> DEFINE Upto(m, f) == f = [k \in 0 .. m |-> IF k = 0 THEN -1 ELSE f[k - 1] + words[k] + 1]
           T == {m \in Nat : ~\E f : Upto(m, f)}
<1>2. SUFFICES T = {}
  BY <1>1 DEF LengthsExist
<1>3. SUFFICES ASSUME T # {} PROVE FALSE
  OBVIOUS
<1>4. PICK m \in T : \A j \in T : m <= j
  <2>1. T \in SUBSET Nat
    OBVIOUS
  <2> HIDE DEF T
  <2> QED  BY <1>3, <2>1, FirstPlace
<1>5. CASE m = 0
  <2> DEFINE f == [k \in 0 .. 0 |-> -1]
  <2>1. Upto(0, f)
    <3>1. \A k \in 0 .. 0 : k = 0
      OBVIOUS
    <3>2. f = [k \in 0 .. 0 |-> IF k = 0 THEN -1 ELSE f[k - 1] + words[k] + 1]
      BY <3>1
    <3> QED  BY <3>2
  <2> QED  BY <1>5, <2>1
<1>6. CASE m # 0
  <2>1. m - 1 \in Nat /\ ~(m <= m - 1)
    BY <1>6
  <2>2. m - 1 \notin T
    BY <1>4, <2>1
  <2>3. PICK f : Upto(m - 1, f)
    BY <2>1, <2>2
  <2> DEFINE g == [k \in 0 .. m |-> IF k = m THEN f[m - 1] + words[m] + 1 ELSE f[k]]
  <2>4. \A k \in 0 .. m : g[k] = IF k = 0 THEN -1 ELSE g[k - 1] + words[k] + 1
    <3> TAKE k \in 0 .. m
    <3>1. CASE k = m
      <4>1. k - 1 \in 0 .. m /\ k - 1 # m
        BY <1>6, <3>1
      <4> QED  BY <1>6, <3>1, <4>1
    <3>2. CASE k # m /\ k # 0
      <4>1. k \in 0 .. m - 1 /\ k - 1 \in 0 .. m /\ k - 1 # m
        BY <3>2
      <4>2. f[k] = f[k - 1] + words[k] + 1
        BY <2>3, <3>2, <4>1
      <4> QED  BY <3>2, <4>1, <4>2
    <3>3. CASE k # m /\ k = 0
      <4>1. k \in 0 .. m - 1
        BY <3>3
      <4>2. f[k] = -1
        BY <2>3, <3>3, <4>1
      <4> QED  BY <3>3, <4>2
    <3> QED  BY <3>1, <3>2, <3>3
  <2>5. g = [k \in 0 .. m |-> IF k = 0 THEN -1 ELSE g[k - 1] + words[k] + 1]
    <3> HIDE DEF g
    <3>1. DOMAIN g = 0 .. m /\ g = [k \in 0 .. m |-> g[k]]
      BY DEF g
    <3> QED  BY <2>4, <3>1
  <2>6. Upto(m, g)
    BY <2>5
  <2> QED  BY <2>6
<1> QED  BY <1>5, <1>6

\* A text is no shorter than its words.
LEMMA TextCoversWords ==
  ASSUME NEW words \in Texts
  PROVE  TextLength(words) \in Nat /\ \A w \in ToSet(words) : w \in Nat /\ w <= TextLength(words)
<1>1. PICK n \in Nat : n = Len(words) /\ DOMAIN words = 1 .. n
  BY LenProperties DEF Texts
<1>2. \A k \in 1 .. n : words[k] \in Nat
  BY <1>1, ElementOfSeq DEF Texts
<1>3. n >= 1
  <2>1. n # 0
    BY <1>1, EmptySeq DEF Texts
  <2> QED  BY <2>1
<1> DEFINE upTo == CHOOSE f : f = [k \in 0 .. Len(words) |-> IF k = 0 THEN -1 ELSE f[k - 1] + words[k] + 1]
<1>4. TextLength(words) = upTo[n]
  BY <1>1 DEF TextLength
<1>5. upTo = [k \in 0 .. n |-> IF k = 0 THEN -1 ELSE upTo[k - 1] + words[k] + 1]
  BY <1>1, TextsHaveLengths DEF LengthsExist
<1> HIDE DEF upTo
<1>6. upTo[0] = -1 /\ \A k \in 1 .. n : upTo[k] = upTo[k - 1] + words[k] + 1
  <2>1. 0 \in 0 .. n /\ \A k \in 1 .. n : k \in 0 .. n /\ k # 0
    OBVIOUS
  <2> QED  BY <1>5, <2>1
<1> DEFINE Right(k) ==
      upTo[k] \in Int /\ upTo[k] >= -1 /\ \A j \in 1 .. k : words[j] <= upTo[k]
    T == {k \in 0 .. n : ~Right(k)}
<1>7. T = {}
  <2>1. SUFFICES ASSUME T # {} PROVE FALSE
    OBVIOUS
  <2>2. T \in SUBSET Nat
    OBVIOUS
  <2>3. PICK k \in T : \A j \in T : k <= j
    <3> HIDE DEF T
    <3> QED  BY <2>1, <2>2, FirstPlace
  <2>4. k # 0
    <3>1. Right(0)
      BY <1>6
    <3> QED  BY <2>3, <3>1
  <2>5. k \in 1 .. n /\ k - 1 \in 0 .. n /\ ~(k <= k - 1)
    BY <2>4
  <2>6. Right(k - 1)
    BY <2>3, <2>5
  <2>7. upTo[k] = upTo[k - 1] + words[k] + 1 /\ words[k] \in Nat
    BY <1>2, <1>6, <2>5
  <2>8. \A j \in 1 .. k : words[j] <= upTo[k]
    <3> TAKE j \in 1 .. k
    <3>1. CASE j = k
      BY <2>6, <2>7, <3>1
    <3>2. CASE j # k
      <4>1. j \in 1 .. k - 1 /\ j \in 1 .. n
        BY <2>5, <3>2
      <4>2. words[j] <= upTo[k - 1] /\ words[j] \in Nat
        BY <1>2, <2>6, <4>1
      <4> QED  BY <2>6, <2>7, <4>2
    <3> QED  BY <3>1, <3>2
  <2>9. Right(k)
    BY <2>6, <2>7, <2>8
  <2> QED  BY <2>3, <2>9
<1>8. Right(n)
  BY <1>7
<1>9. upTo[n] \in Nat
  <2>1. words[1] <= upTo[n] /\ words[1] \in Nat
    BY <1>2, <1>3, <1>8
  <2> QED  BY <1>8, <2>1
<1>10. ASSUME NEW w \in ToSet(words) PROVE w \in Nat /\ w <= upTo[n]
  <2>1. PICK k \in 1 .. n : w = words[k]
    BY <1>1 DEF ToSet
  <2> QED  BY <1>2, <1>8, <2>1
<1> QED  BY <1>4, <1>9, <1>10

\* The greatest of finitely many numbers.
LEMMA MaxOfNumbers ==
  ASSUME NEW S \in SUBSET Nat, S # {}, IsFiniteSet(S)
  PROVE  Max(S) \in S /\ \A y \in S : y <= Max(S)
<1> DEFINE Above(x) == {y \in S : y > x}
           T == {Cardinality(Above(x)) : x \in S}
<1>1. \A x \in S : IsFiniteSet(Above(x)) /\ Cardinality(Above(x)) \in Nat
  <2> TAKE x \in S
  <2>1. Above(x) \in SUBSET S
    OBVIOUS
  <2> QED  BY <2>1, FS_Subset, FS_CardinalityType
<1>2. T \in SUBSET Nat /\ T # {}
  BY <1>1
<1>3. PICK t \in T : \A j \in T : t <= j
  <2> HIDE DEF T
  <2> QED  BY <1>2, FirstPlace
<1>4. PICK x \in S : t = Cardinality(Above(x))
  BY <1>3
<1>5. ASSUME NEW y \in S PROVE x >= y
  <2>1. SUFFICES ASSUME y > x PROVE FALSE
    OBVIOUS
  <2>2. x \in Nat /\ y \in Nat
    OBVIOUS
  <2>3. Above(y) \in SUBSET (Above(x) \ {y})
    <3>1. \A z \in S : z \in Nat
      OBVIOUS
    <3>2. ASSUME NEW z \in S, z > y PROVE z > x /\ z # y
      BY <2>1, <2>2, <3>1, <3>2
    <3> QED  BY <3>2
  <2>4. y \in Above(x)
    BY <2>1
  <2>5. IsFiniteSet(Above(x) \ {y}) /\ Cardinality(Above(x) \ {y}) = Cardinality(Above(x)) - 1
    <3> HIDE DEF Above
    <3> QED  BY <1>1, <2>4, FS_RemoveElement
  <2>6. Cardinality(Above(y)) <= Cardinality(Above(x)) - 1
    <3> HIDE DEF Above
    <3> QED  BY <2>3, <2>5, FS_Subset
  <2>7. Cardinality(Above(x)) <= Cardinality(Above(y))
    BY <1>3, <1>4
  <2>8. Cardinality(Above(x)) \in Int /\ Cardinality(Above(y)) \in Int
    BY <1>1
  <2> HIDE DEF Above
  <2> QED  BY <2>6, <2>7, <2>8
<1>6. Max(S) \in S /\ \A y \in S : Max(S) >= y
  BY <1>5 DEF Max
<1> QED  BY <1>6

\* The cells of a table have words.
LEMMA CellsHaveWords ==
  ASSUME NEW row, KnownRow(row), NEW column \in {"bin", "standing", "institution"}
  PROVE  CellWords(row, column) \in Texts
<1>1. \A n \in Nat : <<n>> \in Texts
  <2> TAKE n \in Nat
  <2>1. <<n>> \in Seq(Nat) /\ <<n>> # <<>>
    OBVIOUS
  <2> QED  BY <2>1 DEF Texts
<1>2. CASE column = "bin"
  <2>1. Len(row.bin) \in Nat
    BY LenProperties DEF KnownRow, Prefix
  <2>2. 6 + Len(row.bin) \in Nat
    BY <2>1
  <2>3. CellWords(row, column) = <<6 + Len(row.bin)>>
    BY <1>2 DEF CellWords
  <2> QED  BY <1>1, <2>2, <2>3
<1>3. CASE column = "standing"
  <2>1. CellWords(row, column) = IF row.current THEN <<7>> ELSE <<10>>
    BY <1>3 DEF CellWords
  <2>2. CellWords(row, column) \in {<<7>>, <<10>>} /\ 7 \in Nat /\ 10 \in Nat
    BY <2>1
  <2> QED  BY <1>1, <2>2
<1>4. CASE column = "institution"
  <2>1. CellWords(row, column) = IF row.inst = Unknown THEN <<7>> ELSE NameWords[row.inst]
    BY <1>4 DEF CellWords
  <2>2. row.inst # Unknown => NameWords[row.inst] \in Texts
    BY ExportsAssumption DEF KnownRow, Texts
  <2>3. <<7>> \in Texts
    BY <1>1
  <2> QED  BY <2>1, <2>2, <2>3
<1> QED  BY <1>2, <1>3, <1>4

\* There are finitely many of them.
LEMMA CellsFinite ==
  ASSUME NEW table, KnownRows(table),
         NEW column \in {"bin", "standing", "institution"}
  PROVE  IsFiniteSet(CellsOf(table, column)) /\ CellsOf(table, column) \in SUBSET Texts
         /\ CellsOf(table, column) # {}
<1> DEFINE f == [k \in DOMAIN table |-> CellWords(table[k], column)]
           C == {CellWords(table[k], column) : k \in DOMAIN table}
<1>1. PICK n \in Nat : DOMAIN table = 1 .. n
  BY LenProperties DEF IsList, KnownRows
<1>2. IsFiniteSet(DOMAIN table)
  BY <1>1, FS_Interval
<1>3. f \in Surjection(DOMAIN table, C)
  BY DEF Surjection
<1>4. IsFiniteSet(C)
  <2> HIDE DEF f, C
  <2> QED  BY <1>2, <1>3, FS_Surjection
<1>5. C \in SUBSET Texts
  BY CellsHaveWords DEF KnownRows
<1>6. HeaderWords[column] \in Texts
  BY ExportsAssumption DEF Texts
<1>7. CellsOf(table, column) = {HeaderWords[column]} \cup C
  BY DEF CellsOf
<1> HIDE DEF C
<1>8. IsFiniteSet({HeaderWords[column]} \cup C)
  BY <1>4, FS_Singleton, FS_Union
<1> QED  BY <1>5, <1>6, <1>7, <1>8

\* The longest value of a column is no shorter than the longest word in it.
LEMMA LongestCoversWords ==
  ASSUME NEW C \in SUBSET Texts, C # {}, IsFiniteSet(C)
  PROVE  LET longest == Max({TextLength(cell) : cell \in C})
             word == Max(UNION {ToSet(cell) : cell \in C})
         IN  longest \in Nat /\ word \in Nat /\ word <= longest
<1> DEFINE L == {TextLength(cell) : cell \in C}
           S == {ToSet(cell) : cell \in C}
<1>1. L \in SUBSET Nat /\ L # {}
  BY TextCoversWords
<1>2. IsFiniteSet(L)
  <2> DEFINE f == [cell \in C |-> TextLength(cell)]
  <2>1. f \in Surjection(C, L)
    BY DEF Surjection
  <2> HIDE DEF f, L
  <2> QED  BY <2>1, FS_Surjection
<1>3. IsFiniteSet(S)
  <2> DEFINE f == [cell \in C |-> ToSet(cell)]
  <2>1. f \in Surjection(C, S)
    BY DEF Surjection
  <2> HIDE DEF f, S
  <2> QED  BY <2>1, FS_Surjection
<1>4. ASSUME NEW cell \in C PROVE IsFiniteSet(ToSet(cell)) /\ ToSet(cell) # {}
  <2>1. PICK n \in Nat : n = Len(cell) /\ DOMAIN cell = 1 .. n
    BY LenProperties DEF Texts
  <2>2. n >= 1
    <3>1. n # 0
      BY <2>1, EmptySeq DEF Texts
    <3> QED  BY <3>1
  <2>3. 1 \in DOMAIN cell
    BY <2>1, <2>2
  <2>4. IsFiniteSet(DOMAIN cell)
    BY <2>1, FS_Interval
  <2>5. cell \in Surjection(DOMAIN cell, ToSet(cell))
    <3>1. cell = [k \in DOMAIN cell |-> cell[k]]
      BY DEF Texts
    <3> QED  BY <3>1 DEF Surjection, ToSet
  <2>6. IsFiniteSet(ToSet(cell))
    BY <2>4, <2>5, FS_Surjection
  <2>7. ToSet(cell) # {}
    BY <2>3 DEF ToSet
  <2> QED  BY <2>6, <2>7
<1>5. IsFiniteSet(UNION S)
  <2>1. \A T \in S : IsFiniteSet(T)
    BY <1>4
  <2> HIDE DEF S
  <2> QED  BY <1>3, <2>1, FS_UNION
<1>6. UNION S \in SUBSET Nat /\ UNION S # {}
  BY <1>4, TextCoversWords
<1>7. Max(L) \in L /\ \A y \in L : y <= Max(L)
  <2> HIDE DEF L
  <2> QED  BY <1>1, <1>2, MaxOfNumbers
<1>8. Max(UNION S) \in UNION S
  <2> HIDE DEF S
  <2> QED  BY <1>5, <1>6, MaxOfNumbers
<1>9. PICK cell \in C : Max(UNION S) \in ToSet(cell)
  BY <1>8
<1>10. Max(UNION S) \in Nat /\ Max(UNION S) <= TextLength(cell) /\ TextLength(cell) \in Nat
  BY <1>9, TextCoversWords
<1>11. TextLength(cell) <= Max(L) /\ Max(L) \in Nat
  BY <1>1, <1>7
<1>12. Max(UNION S) <= Max(L)
  <2> HIDE DEF L, S
  <2> QED  BY <1>10, <1>11
<1> QED  BY <1>10, <1>11, <1>12

\* The widths that are asked for, and the least ones.
LEMMA WidthsAsked ==
  ASSUME NEW table, KnownRows(table)
  PROVE  /\ Desired(table) \in Widths /\ Floors(table) \in Widths
         /\ \A c \in 1 .. 3 : Floors(table)[c] <= Desired(table)[c]
<1>1. DOMAIN Columns = 1 .. 3 /\ \A c \in 1 .. 3 : Columns[c] \in {"bin", "standing", "institution"}
  BY DEF Columns
<1> DEFINE longest(c) == Max({TextLength(cell) : cell \in CellsOf(table, Columns[c])})
           word(c) == Max(UNION {ToSet(cell) : cell \in CellsOf(table, Columns[c])})
<1>2. \A c \in 1 .. 3 : longest(c) \in Nat /\ word(c) \in Nat /\ word(c) <= longest(c)
  <2> TAKE c \in 1 .. 3
  <2>1. PICK C : C = CellsOf(table, Columns[c]) /\ C \in SUBSET Texts /\ C # {} /\ IsFiniteSet(C)
    BY <1>1, CellsFinite
  <2> QED  BY <2>1, LongestCoversWords
<1>3. /\ Desired(table) = [c \in 1 .. 3 |-> Min({CellLimit, longest(c)}) + CellPadding]
      /\ Floors(table) = [c \in 1 .. 3 |-> Min({CellLimit, word(c)}) + CellPadding]
  BY <1>1 DEF Desired, Floors
<1> HIDE DEF longest, word
<1>4. CellPadding \in Nat /\ CellPadding >= 1 /\ CellLimit \in Nat
  BY ExportsAssumption DEF CellLimit
<1>5. ASSUME NEW c \in 1 .. 3
      PROVE  /\ Min({CellLimit, longest(c)}) \in Nat /\ Min({CellLimit, word(c)}) \in Nat
             /\ Min({CellLimit, word(c)}) <= Min({CellLimit, longest(c)})
  <2>1. PICK l \in Nat, w \in Nat : l = longest(c) /\ w = word(c) /\ w <= l
    BY <1>2
  <2>2. /\ Min({CellLimit, l}) \in {CellLimit, l} /\ Min({CellLimit, w}) \in {CellLimit, w}
        /\ Min({CellLimit, w}) <= CellLimit /\ Min({CellLimit, w}) <= w
    BY <1>4, MinOfTwo
  <2> QED  BY <1>4, <2>1, <2>2
<1>6. \A c \in 1 .. 3 : /\ Desired(table)[c] \in Nat \ {0} /\ Floors(table)[c] \in Nat \ {0}
                        /\ Floors(table)[c] <= Desired(table)[c]
  <2> TAKE c \in 1 .. 3
  <2>1. PICK l \in Nat, w \in Nat :
          l = Min({CellLimit, longest(c)}) /\ w = Min({CellLimit, word(c)}) /\ w <= l
    BY <1>5
  <2>2. Desired(table)[c] = l + CellPadding /\ Floors(table)[c] = w + CellPadding
    BY <1>3, <2>1
  <2> QED  BY <1>4, <2>1, <2>2
<1>7. Desired(table) \in Widths /\ Floors(table) \in Widths
  BY <1>3, <1>6 DEF Widths
<1> QED  BY <1>6, <1>7

\* ColumnsFit, of a result.
ColumnsIn(r) == r.op = "layout" => Fits(r.laid, r.floors, r.available)

\* A table of known rows is laid out on the page.
LEMMA LaidOutFits ==
  ASSUME NEW available \in PageWidths, LayOut(available),
         KnownRows(shown.content.rows)
  PROVE  shown'.op = "layout" /\ ColumnsIn(shown')
<1> DEFINE measured == Sample(shown.content.rows)
<1>1. PICK d \in Widths, f \in Widths :
        d = Desired(measured) /\ f = Floors(measured) /\ \A c \in 1 .. 3 : f[c] <= d[c]
  <2>1. SampleRows \in Nat
    BY ExportsAssumption
  <2>2. KnownRows(measured)
    BY <2>1, FirstRowsKnown DEF Sample
  <2> QED  BY <2>2, WidthsAsked
<1>2. PICK r : /\ r = shown' /\ r.op = "layout" /\ r.available = available /\ r.floors = f
               /\ r.laid = ColumnWidths(d, f, available)
  BY <1>1 DEF LayOut
<1>3. available \in Nat
  BY ExportsAssumption
<1>4. Fits(ColumnWidths(d, f, available), f, available)
  BY <1>1, <1>3, WidthsFit
<1> QED  BY <1>2, <1>4 DEF ColumnsIn

--------------------------------------------------------------------------------
\* The invariant

ShownRight ==
  ConflictIn(shown) /\ PresentIn(shown) /\ RootIn(shown) /\ PortfolioIn(shown) /\ ChartIn(shown)
OutputRight ==
  /\ TableIn(shown) /\ ReportIn(shown) /\ RecordIn(shown) /\ ColumnsIn(shown)
  /\ FiguresIn(shown) /\ AssessedKnown(shown)

LookupInv == PackageOK /\ ShownRight /\ ShownKnown /\ OutputRight

\* The results that something is said of.
Telling == {"lookup", "portfolio", "search", "table", "report", "record", "layout", "assessment"}

\* Of the others nothing is.
LEMMA OtherResults ==
  ASSUME shown'.op \notin Telling
  PROVE  ShownRight' /\ ShownKnown' /\ OutputRight'
BY DEF Telling, ShownRight, ShownKnown, OutputRight, ConflictIn, PresentIn, RootIn, PortfolioIn,
       ChartIn, TableIn, ReportIn, RecordIn, ColumnsIn, FiguresIn, AssessedKnown

\* While the package changes nothing is shown, and it stays one.
LEMMA PackageKeeps ==
  ASSUME PackageOK, Package
  PROVE  PackageOK' /\ shown'.op \notin Telling
<1>1. shown' = Nothing
  BY DEF Package, Assign, Relate, Allocate
<1>2. shown'.op \notin Telling
  BY <1>1 DEF Nothing, Telling
<1>3. ASSUME NEW p \in Assigned, Assign(p) PROVE PackageOK'
  <2>1. DOMAIN bins' = DOMAIN bins \cup {p} /\ ranges' = ranges
    BY <1>3 DEF Assign
  <2>2. \A s \in DOMAIN bins' : bins'[s] = {} \/ (s \in DOMAIN bins /\ bins'[s] = bins[s])
    BY <1>3 DEF Assign
  <2>3. SoundLinks({})
    BY FS_EmptySet DEF SoundLinks
  <2> QED  BY <2>1, <2>2, <2>3 DEF PackageOK
<1>4. ASSUME NEW p \in Assigned, NEW l \in LinkForms, Relate(p, l) PROVE PackageOK'
  <2>1. /\ p \in DOMAIN bins /\ DOMAIN bins' = DOMAIN bins /\ ranges' = ranges
        /\ bins'[p] = bins[p] \cup {l} /\ \A s \in DOMAIN bins \ {p} : bins'[s] = bins[s]
        /\ \A m \in bins[p] : <<m.inst, m.kind>> # <<l.inst, l.kind>>
    BY <1>4 DEF Relate
  <2>2. bins[p] \subseteq LinkForms /\ IsFiniteSet(bins[p])
        /\ \A k, m \in bins[p] : k.inst = m.inst /\ k.kind = m.kind => k = m
    BY <2>1 DEF PackageOK, SoundLinks
  <2>3. IsFiniteSet(bins[p] \cup {l})
    BY <2>2, FS_AddElement
  <2>4. SoundLinks(bins[p] \cup {l})
    <3>1. \A m \in bins[p] : ~(m.inst = l.inst /\ m.kind = l.kind)
      BY <2>1
    <3> QED  BY <2>2, <2>3, <3>1 DEF SoundLinks
  <2> QED  BY <2>1, <2>4 DEF PackageOK
<1>5. ASSUME NEW r \in RangeForms, Allocate(r) PROVE PackageOK'
  <2>1. bins' = bins /\ ranges' = Append(ranges, r)
    BY <1>5 DEF Allocate
  <2>2. Append(ranges, r) \in Seq(RangeForms)
    BY AppendProperties DEF PackageOK
  <2> QED  BY <2>1, <2>2 DEF PackageOK
<1> QED  BY <1>2, <1>3, <1>4, <1>5 DEF Package

\* An answer that is shown.
LEMMA LookupKeeps ==
  ASSUME PackageOK, NEW q \in Queries, Lookup(q)
  PROVE  ShownRight' /\ ShownKnown' /\ OutputRight'
<1>1. q \in Prefix
  BY PrefixesAsked
<1>2. PICK r : r = Answer(q) /\ r.op = "lookup" /\ ConflictIn(r) /\ PresentIn(r) /\ RootIn(r)
  BY <1>1, AnswerForm, AnswerConflicts, AnswerIsPresent, AnswerIsSpecific
<1>3. shown' = r /\ bins' = bins /\ ranges' = ranges
  BY <1>2 DEF Lookup
<1>4. ASSUME r.found PROVE r.winner.links \in Seq(LinkRecord)
  <2>1. Ranked(q) # <<>> /\ r.winner = Head(Ranked(q))
    BY <1>2, <1>4, AnswerForm
  <2>2. r.winner \in Candidate
    BY <1>1, <2>1, WinnerIsFirst
  <2> QED  BY <2>2 DEF Candidate
<1>5. ConflictIn(shown)' /\ PresentIn(shown)' /\ RootIn(shown)'
  <2>1. \A v : AssignedAt(v)' = AssignedAt(v) /\ AllocatedAt(v)' = AllocatedAt(v)
    BY <1>3 DEF AssignedAt, AllocatedAt
  <2>2. RootIn(shown)'
    BY <1>2, <1>3, <2>1 DEF RootIn
  <2> QED  BY <1>2, <1>3, <2>2 DEF ConflictIn, PresentIn
<1>6. PortfolioIn(shown)' /\ ChartIn(shown)' /\ OutputRight'
  BY <1>2, <1>3 DEF PortfolioIn, ChartIn, OutputRight, TableIn, ReportIn, RecordIn, ColumnsIn, FiguresIn, AssessedKnown
<1>7. ShownKnown'
  BY <1>2, <1>3, <1>4 DEF ShownKnown
<1> QED  BY <1>5, <1>6, <1>7 DEF ShownRight

\* A page of a portfolio.
LEMMA BankPageKeeps ==
  ASSUME PackageOK, NEW i \in Institutions, NEW standing, NEW n \in Nat, n >= 1,
         BankPage(i, standing, n)
  PROVE  ShownRight' /\ ShownKnown' /\ OutputRight'
<1>1. PICK r : /\ r = shown' /\ r.op = "portfolio" /\ r.inst = i
               /\ r.heading.total = Cardinality(Held(ReachedFrom(i, related)))
               /\ PortfolioIn(r)
  BY PageAgrees DEF Contributing
<1>2. bins' = bins /\ related' = related
  BY DEF BankPage
<1>3. ShownKnown'
  BY <1>1, <1>2 DEF ShownKnown, Held, LinksOf
<1>4. ShownRight'
  BY <1>1 DEF ShownRight, ConflictIn, PresentIn, RootIn, PortfolioIn, ChartIn
<1>5. OutputRight'
  BY <1>1 DEF OutputRight, TableIn, ReportIn, RecordIn, ColumnsIn, FiguresIn, AssessedKnown
<1> QED  BY <1>3, <1>4, <1>5

\* The result of a search.
LEMMA SearchKeeps ==
  ASSUME PackageOK, NEW s \in Searches, Search(s)
  PROVE  ShownRight' /\ ShownKnown' /\ OutputRight'
<1>1. PICK r : r = shown' /\ r.op = "search" /\ r.search = s /\ r.table = TableOf(s) /\ ChartIn(r)
  BY SearchIsCovered
<1>2. bins' = bins
  BY DEF Search
<1>3. TableOf(s)' = TableOf(s)
  BY <1>2 DEF TableOf, ByName, ByRegion, LinkedTo, LinksOf, Primary
<1>4. ShownKnown'
  BY <1>1, <1>3 DEF ShownKnown
<1>5. ShownRight'
  BY <1>1 DEF ShownRight, ConflictIn, PresentIn, RootIn, PortfolioIn, ChartIn
<1>6. OutputRight'
  BY <1>1 DEF OutputRight, TableIn, ReportIn, RecordIn, ColumnsIn, FiguresIn, AssessedKnown
<1> QED  BY <1>4, <1>5, <1>6

\* Every file is made of what is known of the result.
LEMMA SavesKeep ==
  ASSUME PackageOK, ShownKnown, Saves
  PROVE  ShownRight' /\ ShownKnown' /\ OutputRight'
<1>1. ASSUME shown'.op = "table", TableIn(shown')
      PROVE  ShownRight' /\ ShownKnown' /\ OutputRight'
  BY <1>1 DEF ShownRight, ShownKnown, OutputRight, ConflictIn, PresentIn, RootIn, PortfolioIn,
              ChartIn, TableIn, ReportIn, RecordIn, ColumnsIn, FiguresIn, AssessedKnown
<1>2. ASSUME shown'.op = "report", ReportIn(shown'), KnownRows(shown'.content.rows)
      PROVE  ShownRight' /\ ShownKnown' /\ OutputRight'
  BY <1>2 DEF ShownRight, ShownKnown, OutputRight, ConflictIn, PresentIn, RootIn, PortfolioIn,
              ChartIn, TableIn, ReportIn, RecordIn, ColumnsIn, FiguresIn, AssessedKnown
<1>3. ASSUME shown'.op = "record", RecordIn(shown')
      PROVE  ShownRight' /\ ShownKnown' /\ OutputRight'
  BY <1>3 DEF ShownRight, ShownKnown, OutputRight, ConflictIn, PresentIn, RootIn, PortfolioIn,
              ChartIn, TableIn, ReportIn, RecordIn, ColumnsIn, FiguresIn, AssessedKnown
<1>4. CASE \E fmt \in RecordFormats : SaveRecord(fmt)
  BY <1>3, <1>4, RecordIsWhole
<1>5. CASE SavePortfolio
  BY <1>1, <1>5, PortfolioIsWhole
<1>6. CASE SaveSearch
  BY <1>1, <1>6, SearchIsWhole
<1>7. CASE \E fmt \in ReportFormats, cap \in RowCaps : Generate(fmt, cap)
  BY <1>2, <1>7, GeneratedIsWhole
<1>8. CASE \E cap \in RowCaps : Preview(cap)
  BY <1>2, <1>8, PreviewSaysSo
<1>9. CASE \E available \in PageWidths : LayOut(available)
  <2>1. PICK available \in PageWidths : LayOut(available)
    BY <1>9
  <2>2. KnownRows(shown.content.rows)
    BY <2>1 DEF LayOut, ShownKnown
  <2>3. shown'.op = "layout" /\ ColumnsIn(shown')
    BY <2>1, <2>2, LaidOutFits
  <2> QED  BY <2>3 DEF ShownRight, ShownKnown, OutputRight, ConflictIn, PresentIn, RootIn, PortfolioIn,
                       ChartIn, TableIn, ReportIn, RecordIn, ColumnsIn, FiguresIn, AssessedKnown
<1> QED  BY <1>4, <1>5, <1>6, <1>7, <1>8, <1>9 DEF Saves

\* An assessment that is shown.
LEMMA FiguresKeep ==
  ASSUME PackageOK, NEW d \in FiniteDefect, NEW repaired \in BOOLEAN,
         repaired => Orphans(d) = 0 /\ LinkedBins(d) \subseteq DOMAIN bins,
         shown' = Assessment(d, repaired), bins' = bins
  PROVE  ShownRight' /\ ShownKnown' /\ OutputRight'
<1>1. PICK r : r = Assessment(d, repaired) /\ FiguresIn(r) /\ AssessedKnown(r)
  BY AssessmentAgrees
<1>2. r.op = "assessment" /\ shown' = r
  BY <1>1 DEF Assessment
<1>3. FiguresIn(shown)' /\ AssessedKnown(shown)'
  BY <1>1, <1>2 DEF FiguresIn, AssessedKnown
<1>4. ShownRight' /\ ShownKnown'
  BY <1>2 DEF ShownRight, ShownKnown, ConflictIn, PresentIn, RootIn, PortfolioIn, ChartIn
<1>5. TableIn(shown)' /\ ReportIn(shown)' /\ RecordIn(shown)' /\ ColumnsIn(shown)'
  BY <1>2 DEF TableIn, ReportIn, RecordIn, ColumnsIn
<1> QED  BY <1>3, <1>4, <1>5 DEF OutputRight

\* The health of the file, as it is.
LEMMA AssessKeeps ==
  ASSUME PackageOK, NEW d \in Defects, Assess(d)
  PROVE  ShownRight' /\ ShownKnown' /\ OutputRight'
<1>1. d \in FiniteDefect
  BY AssessmentAssumption DEF FiniteDefect, Defect
<1>2. shown' = Assessment(d, FALSE) /\ bins' = bins
  BY DEF Assess
<1> QED  BY <1>1, <1>2, FiguresKeep

\* And after what belongs to nothing is removed.
LEMMA OrphansGo ==
  ASSUME PackageOK, OutputRight, RemoveOrphans
  PROVE  ShownRight' /\ ShownKnown' /\ OutputRight'
<1>1. shown.of \in FiniteDefect
  BY DEF OutputRight, AssessedKnown, RemoveOrphans
<1>2. PICK d \in FiniteDefect :
        d = Repaired(shown.of) /\ Orphans(d) = 0 /\ LinkedBins(d) \subseteq DOMAIN bins
  BY <1>1, RepairedForm
<1>3. shown' = Assessment(d, TRUE) /\ bins' = bins
  BY <1>2 DEF RemoveOrphans
<1> QED  BY <1>2, <1>3, FiguresKeep

\* Nothing is stored and nothing is shown at the start.
LEMMA NothingYet == LookupInit => LookupInv
<1> SUFFICES ASSUME LookupInit PROVE LookupInv
  OBVIOUS
<1>1. PackageOK
  <2>1. <<>> \in Seq(RangeForms)
    OBVIOUS
  <2> QED  BY <2>1 DEF LookupInit, PackageOK
<1>2. shown.op \notin Telling
  BY DEF LookupInit, Nothing, Telling
<1>3. ShownRight /\ ShownKnown /\ OutputRight
  BY <1>2 DEF Telling, ShownRight, ShownKnown, OutputRight, ConflictIn, PresentIn, RootIn, PortfolioIn,
              ChartIn, TableIn, ReportIn, RecordIn, ColumnsIn, FiguresIn, AssessedKnown
<1> QED  BY <1>1, <1>3 DEF LookupInv

\* No step breaks it.
LEMMA LookupStays == LookupInv /\ [AssessmentNext]_lookupVars => LookupInv'
<1> SUFFICES ASSUME LookupInv, [AssessmentNext]_lookupVars PROVE LookupInv'
  OBVIOUS
<1>0. PackageOK /\ ShownRight /\ ShownKnown /\ OutputRight
  BY DEF LookupInv
<1>1. ASSUME bins' = bins, ranges' = ranges PROVE PackageOK'
  BY <1>0, <1>1 DEF PackageOK
<1>2. CASE Package
  BY <1>0, <1>2, PackageKeeps, OtherResults DEF LookupInv
<1>3. ASSUME NEW q \in Queries, Lookup(q) PROVE LookupInv'
  BY <1>0, <1>1, <1>3, LookupKeeps DEF LookupInv, Lookup
<1>4. ASSUME NEW i \in Institutions, NEW standing, NEW n \in 1 .. Cardinality(Assigned),
             BankPage(i, standing, n)
      PROVE  LookupInv'
  <2>1. Cardinality(Assigned) \in Nat
    BY LookupAssumption, FS_CardinalityType
  <2>2. n \in Nat /\ n >= 1
    BY <2>1
  <2>3. bins' = bins /\ ranges' = ranges
    BY <1>4 DEF BankPage
  <2> QED  BY <1>0, <1>1, <1>4, <2>2, <2>3, BankPageKeeps DEF LookupInv
<1>5. ASSUME NEW s \in Searches, Search(s) PROVE LookupInv'
  BY <1>0, <1>1, <1>5, SearchKeeps DEF LookupInv, Search
<1>6. ASSUME NEW term \in DOMAIN Matches, BankSearch(term) PROVE LookupInv'
  <2>1. shown'.op = "banks" /\ bins' = bins /\ ranges' = ranges
    BY <1>6 DEF BankSearch
  <2> QED  BY <1>0, <1>1, <2>1, OtherResults DEF LookupInv, Telling
<1>7. CASE Leave
  <2>1. shown'.op = "none" /\ bins' = bins /\ ranges' = ranges
    BY <1>7 DEF Leave, Nothing
  <2> QED  BY <1>0, <1>1, <2>1, OtherResults DEF LookupInv, Telling
<1>8. CASE Saves
  <2>1. bins' = bins /\ ranges' = ranges
    BY <1>8 DEF Saves, SaveRecord, SavePortfolio, SaveSearch, Generate, Preview, LayOut
  <2> QED  BY <1>0, <1>1, <1>8, <2>1, SavesKeep DEF LookupInv
<1>9. CASE RemoveOrphans
  <2>1. bins' = bins /\ ranges' = ranges
    BY <1>9 DEF RemoveOrphans
  <2> QED  BY <1>0, <1>1, <1>9, <2>1, OrphansGo DEF LookupInv
<1>10. ASSUME NEW d \in Defects, Assess(d) PROVE LookupInv'
  <2>1. bins' = bins /\ ranges' = ranges
    BY <1>10 DEF Assess
  <2> QED  BY <1>0, <1>1, <1>10, <2>1, AssessKeeps DEF LookupInv
<1>11. CASE UNCHANGED lookupVars
  <2>1. bins' = bins /\ ranges' = ranges /\ related' = related /\ shown' = shown
    BY <1>11 DEF lookupVars
  <2>2. PackageOK'
    BY <1>1, <2>1
  <2>3. ShownRight'
    <3>1. \A v : AssignedAt(v)' = AssignedAt(v) /\ AllocatedAt(v)' = AllocatedAt(v)
      BY <2>1 DEF AssignedAt, AllocatedAt
    <3>2. RootIn(shown) => RootIn(shown)'
      BY <2>1, <3>1 DEF RootIn
    <3> QED  BY <1>0, <2>1, <3>2 DEF ShownRight, ConflictIn, PresentIn, PortfolioIn, ChartIn
  <2>4. OutputRight'
    BY <1>0, <2>1 DEF OutputRight, TableIn, ReportIn, RecordIn, ColumnsIn, FiguresIn, AssessedKnown
  <2>5. ShownKnown'
    BY <1>0, <2>1, ZenonT(60) DEF ShownKnown, Held, LinksOf, TableOf, ByName, ByRegion, LinkedTo, Primary
  <2> QED  BY <2>2, <2>3, <2>4, <2>5 DEF LookupInv
<1>12. CASE LookupNext
  <2>1. CASE \E i \in Institutions, standing \in {"any", "current", "ended"},
                n \in 1 .. Cardinality(Assigned) : BankPage(i, standing, n)
    BY <1>4, <2>1
  <2> QED  BY <1>2, <1>3, <1>5, <1>6, <1>7, <1>12, <2>1 DEF LookupNext
<1> QED  BY <1>8, <1>9, <1>10, <1>11, <1>12 DEF AssessmentNext

\* Whatever the package holds: what is shown is right of it, and so is what is saved.
THEOREM LookupHolds == AssessmentSpec => []LookupInv
BY NothingYet, LookupStays, PTL DEF AssessmentSpec

--------------------------------------------------------------------------------
\* What is answered, and what leaves the application

\* An answer presents as the issuer, or as the address, only who is one now: issuer_name
\* and _to_record pass over a relationship that has ended.
THEOREM NobodyFromThePast == AssessmentSpec => []PresentOnly
<1>1. LookupInv => PresentOnly
  BY DEF LookupInv, ShownRight, ConflictIn, PresentIn, PresentOnly, Answered
<1> QED  BY <1>1, LookupHolds, PTL

\* What answers is, of all that covers the query, the first in the order of sort_key: the
\* assignment asked for, an account range, the root asked for, a range, an assignment; and
\* the narrowest of its kind, however many there are and whatever they name.
THEOREM MostSpecificAnswers == AssessmentSpec => []RootNeverOverrides
<1>1. LookupInv => RootNeverOverrides
  BY DEF LookupInv, ShownRight, RootIn, RootNeverOverrides, Answered
<1> QED  BY <1>1, LookupHolds, PTL

\* The figures of a portfolio and its table agree (build, _scope), whatever belongs to
\* the group.
THEOREM PortfoliosAgree == AssessmentSpec => []PortfolioAgrees
<1>1. LookupInv => PortfolioAgrees
  BY DEF LookupInv, ShownRight, PortfolioIn, PortfolioAgrees
<1> QED  BY <1>1, LookupHolds, PTL

\* The charts of a search count what its table lists, and no more when it looks for any
\* part of a name and for no region (scope_condition, _build).
THEOREM ChartsCoverTables == AssessmentSpec => []ChartCoversTable
<1>1. LookupInv => ChartCoversTable
  BY DEF LookupInv, ShownRight, ChartIn, ChartCoversTable
<1> QED  BY <1>1, LookupHolds, PTL

\* A saved table has all of what it is made of, or exactly as much as its query is asked
\* for; a report, its preview and a record have all, or say how much (export_rows,
\* all_rows, build_search_report, preview); whatever the caps.
THEOREM NoSilentCut == AssessmentSpec => []NothingCutSilently
<1>1. LookupInv => NothingCutSilently
  BY DEF LookupInv, OutputRight, TableIn, OneEach, ReportIn, RecordIn, NothingCutSilently
<1> QED  BY <1>1, LookupHolds, PTL

\* Institutions that nothing separates are shown to conflict, and an answer that says so
\* can name two (_disagreements, _settle, combine), however many allocations and
\* relationships there are.
THEOREM ConflictsAreShown == AssessmentSpec => []ConflictShown
<1>1. LookupInv => ConflictShown
  BY DEF LookupInv, ShownRight, ConflictIn, ConflictShown, Answered
<1> QED  BY <1>1, LookupHolds, PTL

\* The figures of an assessment agree with each other and with what a lookup answers,
\* and after the orphans have gone they make up the whole (evaluate, remove_orphans).
THEOREM FiguresAlwaysAgree == AssessmentSpec => []FiguresAgree
<1>1. LookupInv => FiguresAgree
  BY DEF LookupInv, OutputRight, FiguresIn, FiguresAgree
<1> QED  BY <1>1, LookupHolds, PTL

\* A column of the PDF is never narrower than the longest word of its sample, as long as
\* those of all columns fit side by side, and the table never wider than its page
\* (_column_widths), whatever the names, the headings and the size of the sample.
THEOREM ColumnsAlwaysFit == AssessmentSpec => []ColumnsFit
<1>1. LookupInv => ColumnsFit
  <2>1. DOMAIN Columns = 1 .. 3
    BY DEF Columns
  <2> QED  BY <2>1 DEF LookupInv, OutputRight, ColumnsIn, Fits, ColumnsFit
<1> QED  BY <1>1, LookupHolds, PTL
================================================================================
