--------------------------------- MODULE Lookup ---------------------------------
(***************************************************************************)
(* What the application answers from the reference database: the issuer of *)
(* a BIN, the portfolio of an institution, and a search with its chart.    *)
(*                                                                         *)
(* The database is only read: which assignments, ranges and relationships  *)
(* a package holds is open.  A prefix is written as the digits after its   *)
(* first six, so that <<>> is a six-digit root and a sequence of Width     *)
(* digits an assignment of eight.  An institution is a number, in the      *)
(* order of both row ids and names.                                        *)
(***************************************************************************)
EXTENDS Integers, Sequences, FiniteSets, SequencesExt, FiniteSetsExt

CONSTANTS
  Base,         \* the number of digits
  Width,        \* RANGE_WIDTH, in digits after the root
  Assigned,     \* the prefixes a package may hold
  Queries,      \* the prefixes that are looked up
  Institutions, \* row ids
  LinkForms,    \* the relationships a package may hold
  RangeForms,   \* the ranges a package may hold
  Relations,    \* the group structures: sets of <<institution, related>>
  Regions,      \* per institution, the regions of its addresses, oldest first
  Matches,      \* per search term, the institutions each way of matching finds
  Searches,     \* the searches: a term, a way of matching and a region
  MaxLinks,     \* bound on the relationships of a package
  MaxRanges,    \* bound on its ranges
  PageSize

MaxDepth == 4   \* MAX_DEPTH
Margin   == 15  \* CONFIDENCE_MARGIN, in hundredths
Unknown  == 0   \* no institution, no date, no region
NoFigure == -1  \* no confidence recorded

Kinds == {"issuer", "program_issuer", "former_issuer", "parent", "processor"}

ASSUME LookupAssumption ==
  /\ Base \in Nat \ {0} /\ Width \in Nat \ {0} /\ PageSize \in Nat \ {0}
  /\ Assigned \cup Queries \subseteq Seq(0 .. Base - 1) /\ IsFiniteSet(Assigned)
  /\ Institutions \subseteq Nat \ {Unknown}
ASSUME FormsAssumption ==
  /\ LinkForms \subseteq [inst : Institutions, kind : Kinds, current : BOOLEAN,
                          primary : BOOLEAN, from : Nat, conf : Int]
  /\ RangeForms \subseteq [low : Nat, high : Nat, account : BOOLEAN, current : BOOLEAN,
                           inst : Institutions \cup {Unknown}, from : Nat, conf : Int]
  /\ \A r \in RangeForms : r.low <= r.high
\* A name that is the term, or begins with it, contains it.
ASSUME SearchAssumption ==
  /\ Regions \in [Institutions -> Seq(Nat)]
  /\ \A n \in DOMAIN Matches : Matches[n].exact \cup Matches[n].prefix \subseteq Matches[n].contains
  /\ \A s \in Searches : /\ s.mode \in {"exact", "prefix", "contains", "similar"}
                         /\ s.term # Unknown => s.term \in DOMAIN Matches

VARIABLES
  bins,      \* the assignments and the relationships of each
  ranges,    \* the allocated ranges, in the order of their rows
  related,   \* <<institution, related>> of an inheriting kind
  shown      \* the result on the screen

lookupVars == <<bins, ranges, related, shown>>

Nothing == [op |-> "none"]

--------------------------------------------------------------------------------
\* Prefixes and the spans they cover at the padding width

Padded(p, d) == [k \in 1 .. Width |-> IF k <= Len(p) THEN p[k] ELSE d]
Value(p) ==
  LET sum[k \in 0 .. Len(p)] == IF k = 0 THEN 0 ELSE sum[k - 1] * Base + p[k] IN sum[Len(p)]

\* normalize: a prefix longer than the width is cut at it.
Low(p)  == Value(Padded(p, 0))
High(p) == Value(Padded(p, Base - 1))

Covers(p, v) == Low(p) <= v /\ v <= High(p)

Extends(q, p) == Len(p) <= Len(q) /\ \A k \in DOMAIN p : p[k] = q[k]

--------------------------------------------------------------------------------
\* Relationships

IsIssuing(l)  == l.kind \in {"issuer", "program_issuer"}
WasIssuing(l) == IsIssuing(l) \/ l.kind = "former_issuer"

KindRank == [former_issuer |-> 1, issuer |-> 2, parent |-> 3, processor |-> 4,
             program_issuer |-> 5]
Late(b) == IF b THEN 0 ELSE 1   \* what holds sorts first

\* The order of tuples and of strings.
Lexical(a, b) ==
  \E k \in DOMAIN b : /\ k <= Len(a) + 1 /\ \A j \in 1 .. k - 1 : a[j] = b[j]
                      /\ k <= Len(a) => a[k] < b[k]

\* The elements that have a key, in the order of their keys: each has as many before
\* it as have smaller ones.
Before(key, x) == Cardinality({y \in DOMAIN key : Lexical(key[y], key[x])})
Sorted(key) ==
  [k \in 1 .. Cardinality(DOMAIN key) |-> CHOOSE x \in DOMAIN key : Before(key, x) = k - 1]

\* The order in which a record lists its relationships.
LinksInOrder(links) ==
  Sorted([l \in links |-> <<Late(l.current), Late(l.primary), KindRank[l.kind], l.inst>>])

\* CurrentIssuers: once for each institution, the primary one first.
Issuers(links) ==
  LET now == {k \in DOMAIN links : links[k].current /\ IsIssuing(links[k])}
      first == {k \in now : \A j \in now : links[j].inst = links[k].inst => k <= j}
  IN Sorted([l \in {links[k] : k \in first} |-> <<Late(l.primary), l.inst>>])

NamesOf(links) == {links[k].inst : k \in DOMAIN links}

\* former_issuers: issued once, does not now.
Formers(links) ==
  {links[k].inst : k \in {j \in DOMAIN links :
     WasIssuing(links[j]) /\ ~(IsIssuing(links[j]) /\ links[j].current)}}

\* Mutated form of Attributed: an ended relationship will do.
AttributedAnyway(links) == IF links = <<>> THEN Unknown ELSE links[1].inst

\* Whose address and country a BIN carries: a relationship that has ended
\* supplies neither.
Attributed(links) ==
  LET now == {k \in DOMAIN links : links[k].current}
      primary == {k \in now : links[k].primary}
  IN IF primary # {} THEN links[Min(primary)].inst
     ELSE IF now # {} THEN links[Min(now)].inst ELSE Unknown

--------------------------------------------------------------------------------
\* Candidates: every allocation said to contain the query

\* Mutated form of Strategy: what contains the query is as good as a match.
StrategyOfRoot(stored, asked) == IF stored >= Width THEN "exact_8" ELSE "exact_assigned"

Strategy(stored, asked) ==
  IF stored # asked THEN "root_prefix"
  ELSE IF stored >= Width THEN "exact_8"
  ELSE IF stored = 0 THEN "exact_6" ELSE "exact_assigned"

Specificity ==
  [none |-> 0, root_prefix |-> 2, broader_range |-> 3, exact_6 |-> 4,
   account_range |-> 5, exact_assigned |-> 6, exact_8 |-> 6]

\* base_score of the evidence a strategy establishes, in hundredths.
BaseScore ==
  [none |-> 30, root_prefix |-> 76, broader_range |-> 76, exact_6 |-> 97,
   account_range |-> 93, exact_assigned |-> 97, exact_8 |-> 97]

BinCandidate(p, q) ==
  LET links == LinksInOrder(bins[p]) IN
  [row |-> 0, prefix |-> p, low |-> Low(p), high |-> High(p),
   strategy |-> Strategy(Len(p), Len(q)), links |-> links,
   current |-> links = <<>> \/ \E k \in DOMAIN links : links[k].current,
   place |-> Attributed(links)]

\* A range is one relationship, of an issuer, and shows that issuer's address.
RangeCandidate(k, q) ==
  LET r == ranges[k] IN
  [row |-> k, prefix |-> q, low |-> r.low, high |-> r.high,
   strategy |-> IF r.account THEN "account_range" ELSE "broader_range",
   links |-> IF r.inst = Unknown THEN <<>>
             ELSE <<[inst |-> r.inst, kind |-> "issuer", current |-> r.current,
                     primary |-> TRUE, from |-> r.from, conf |-> r.conf]>>,
   current |-> r.current, place |-> r.inst]

Span(c) == c.high - c.low + 1
Rank(c) == Specificity[c.strategy]

AssignedAt(q)  == {p \in DOMAIN bins : Covers(p, Low(q)) /\ Len(p) <= Len(q)}
AllocatedAt(q) == {k \in DOMAIN ranges : ranges[k].low <= Low(q) /\ Low(q) <= ranges[k].high}

Containing(q) ==
  {BinCandidate(p, q) : p \in AssignedAt(q)} \cup {RangeCandidate(k, q) : k \in AllocatedAt(q)}

\* sort_key; among equals the ranges come as the query listed them.  (Assignments of
\* the same span that contain the query begin alike.)
SortKey(c) == <<0 - Rank(c), Span(c), Late(c.current), c.low, c.row>> \o c.prefix
Ranked(q)  == Sorted([c \in Containing(q) |-> SortKey(c)])

\* children_of: they never answer, but the result says that they exist.
Children(q) ==
  {p \in DOMAIN bins : Low(q) <= Low(p) /\ High(p) <= High(q) /\ Len(p) > Len(q)}

--------------------------------------------------------------------------------
\* Conflicts

\* Mutated form of Rivals: an allocation has one issuer.
RivalsElsewhere(winner, losers) ==
  UNION {NamesOf(Issuers(losers[k].links)) \ NamesOf(Issuers(winner.links)) :
           k \in {j \in DOMAIN losers : Rank(losers[j]) = Rank(winner)}}

\* Who contradicts the winner: further issuers of the same allocation, and the
\* issuers of an allocation as specific.  A broader one contradicts nobody.
Rivals(winner, losers) ==
  LET own == Issuers(winner.links) IN
  {own[k].inst : k \in 2 .. Len(own)}
    \cup UNION {NamesOf(Issuers(losers[k].links)) \ NamesOf(own) :
                  k \in {j \in DOMAIN losers : Rank(losers[j]) = Rank(winner)}}

\* What is not recorded counts as half.
Figure(l) == IF l.conf = NoFigure THEN 50 ELSE l.conf

ClaimOf(l, c) ==
  [inst |-> l.inst, spec |-> Rank(c), span |-> Span(c), from |-> l.from, conf |-> Figure(l)]

\* The claims in the order they are weighed, one for each institution: who has been
\* named by an allocation before is passed over.
Claims(all) ==
  LET issuers == [k \in DOMAIN all |-> Issuers(all[k].links)]
      new == {x \in UNION {{k} \X DOMAIN issuers[k] : k \in DOMAIN all} :
                \A k \in 1 .. x[1] - 1 : issuers[x[1]][x[2]].inst \notin NamesOf(issuers[k])}
      order == Sorted([x \in new |-> x])
  IN [n \in DOMAIN order |-> ClaimOf(issuers[order[n][1]][order[n][2]], all[order[n][1]])]

\* _compare: the first ground that separates the two.
Ground(a, b) ==
  IF a.spec # b.spec THEN "more_specific"
  ELSE IF a.from # Unknown /\ b.from # Unknown /\ a.from # b.from THEN "later_effective_date"
  ELSE IF a.span # b.span THEN "narrower_range"
  ELSE IF a.conf - b.conf \notin 1 - Margin .. Margin - 1 THEN "better_evidenced"
  ELSE "unresolved"

FirstWins(a, b) ==
  CASE Ground(a, b) = "more_specific"        -> a.spec > b.spec
    [] Ground(a, b) = "later_effective_date" -> a.from > b.from
    [] Ground(a, b) = "narrower_range"       -> a.span < b.span
    [] OTHER                                 -> a.conf > b.conf

\* resolve: pairwise, and the first pair nothing separates ends it.
Undecided == 0
Settled(claims) ==
  LET best[n \in DOMAIN claims] ==
        IF n = 1 THEN 1
        ELSE IF best[n - 1] = Undecided
                \/ Ground(claims[best[n - 1]], claims[n]) = "unresolved" THEN Undecided
        ELSE IF FirstWins(claims[best[n - 1]], claims[n]) THEN best[n - 1] ELSE n
  IN claims # <<>> /\ best[Len(claims)] # Undecided

Conflicting(winner, losers) ==
  IF Rivals(winner, losers) = {} \/ Settled(Claims(<<winner>> \o losers)) THEN {}
  ELSE Rivals(winner, losers)

--------------------------------------------------------------------------------
\* Confidence, in hundredths

Clamped(n) == Max({0, Min({99, n})})

\* score_relationship: the record's own figure caps what the engine makes of it.
ScoreOf(winner, losers, l) ==
  LET backing == Cardinality({k \in DOMAIN losers : l.inst \in NamesOf(losers[k].links)})
      graded == BaseScore[winner.strategy] + Min({4, 2 * backing})
                - (IF IsIssuing(l) THEN 0 ELSE 12)
                - (IF l.current /\ winner.current THEN 0 ELSE 10)
                - (IF Rank(winner) <= Specificity["root_prefix"] THEN 8 ELSE 0)
  IN Clamped(IF l.conf = NoFigure THEN graded ELSE Min({graded, Max({5, l.conf})}))

Level(score) ==
  IF score >= 95 THEN "verified" ELSE IF score >= 82 THEN "high"
  ELSE IF score >= 60 THEN "medium" ELSE IF score > 0 THEN "low" ELSE "unknown"

\* combine: as good as the best relationship, unless two answers are shown.
Confidence(winner, losers) ==
  LET best == Max({ScoreOf(winner, losers, winner.links[k]) : k \in DOMAIN winner.links})
  IN [score |-> best,
      level |-> IF Conflicting(winner, losers) # {} THEN "conflicted" ELSE Level(best)]

--------------------------------------------------------------------------------
\* The answer

NoAnswer(q) ==
  [op |-> "lookup", query |-> q, found |-> FALSE, winner |-> [strategy |-> "none"],
   others |-> <<>>, issuers |-> {}, formers |-> {}, place |-> Unknown, rivals |-> {}, score |-> 0,
   level |-> "unknown", beneath |-> Cardinality(Children(q))]

\* An allocation that names nobody is reported as that: nothing is borrowed
\* from a broader one.
Answer(q) ==
  LET order == Ranked(q)
      winner == Head(order)
      losers == Tail(order)
      found == [NoAnswer(q) EXCEPT !.found = TRUE, !.winner = winner, !.others = losers,
                                   !.place = winner.place]
  IN IF order = <<>> THEN NoAnswer(q)
     ELSE IF winner.links = <<>> THEN found
     ELSE [found EXCEPT !.issuers = NamesOf(Issuers(winner.links)),
                        !.formers = Formers(winner.links),
                        !.rivals = Conflicting(winner, losers),
                        !.score = Confidence(winner, losers).score,
                        !.level = Confidence(winner, losers).level]

Lookup(q) ==
  /\ shown = Nothing
  /\ shown' = Answer(q)
  /\ UNCHANGED <<bins, ranges, related>>

--------------------------------------------------------------------------------
\* Portfolios

\* contributing_ids: breadth first, to a depth that a cycle cannot pass.
ReachedFrom(i, pairs) ==
  LET Step(s, depth) ==
        LET next == {p[2] : p \in {r \in pairs : r[1] \in s.frontier}} \ s.found
        IN [found |-> s.found \cup next, frontier |-> next]
  IN FoldLeft(Step, [found |-> {i}, frontier |-> {i}], [k \in 1 .. MaxDepth |-> k]).found
Contributing(i) == ReachedFrom(i, related)

LinksOf(p, ids) == {l \in bins[p] : l.inst \in ids}
Held(ids) == {p \in DOMAIN bins : LinksOf(p, ids) # {}}
HeldNow(ids) == {p \in Held(ids) : \E l \in LinksOf(p, ids) : l.current}

\* Mutated form of Portfolio: every relationship counts.
PortfolioOfLinks(i) ==
  LET ids == Contributing(i)
      count(set) == FoldSet(LAMBDA p, n : n + Cardinality(LinksOf(p, ids)), 0, set)
  IN [total |-> count(Held(ids)), current |-> count(HeldNow(ids)), extended |-> 0,
      ranges |-> 0]

\* build: a BIN reached through two institutions is one BIN.
Portfolio(i) ==
  LET ids == Contributing(i) IN
  [total |-> Cardinality(Held(ids)), current |-> Cardinality(HeldNow(ids)),
   extended |-> Cardinality({p \in Held(ids) : Len(p) >= Width}),
   ranges |-> Cardinality({k \in DOMAIN ranges : ranges[k].inst \in ids})]

\* institution_bin_stats: the institution's own assignments only.
Stats(i) == Cardinality(Held({i}))

\* _scope: standing is a matter of the relationship, not of the row.
InScope(ids, standing) ==
  {p \in DOMAIN bins : \E l \in LinksOf(p, ids) :
     standing \in {"any", IF l.current THEN "current" ELSE "ended"}}

\* primary_link_subquery: the institution, the standing and the kind of a row
\* are each picked from the relationships on their own.
RowOf(p, links) ==
  [bin |-> p, inst |-> IF links = {} THEN Unknown ELSE Min({l.inst : l \in links}),
   current |-> \E l \in links : l.current,
   kind |-> IF links = {} THEN 0 ELSE Min({KindRank[l.kind] : l \in links})]

\* One page: ordered by the BIN, which no two rows share.
BinsInOrder(set) == Sorted([p \in set |-> p])
PageAt(set, n) ==
  LET order == BinsInOrder(set)
      first == (n - 1) * PageSize + 1
  IN SubSeq(order, first, Min({Len(order), first + PageSize - 1}))
PageCount(set) == Max({1, (Cardinality(set) + PageSize - 1) \div PageSize})

BankPage(i, standing, n) ==
  LET ids == Contributing(i)
      items == InScope(ids, standing)
  IN /\ shown = Nothing /\ n <= PageCount(items)
     /\ shown' = [op |-> "portfolio", inst |-> i, standing |-> standing, page |-> n,
                  total |-> Cardinality(items), heading |-> Portfolio(i), own |-> Stats(i),
                  rows |-> LET page == PageAt(items, n)
                           IN [k \in DOMAIN page |-> RowOf(page[k], LinksOf(page[k], ids))]]
     /\ UNCHANGED <<bins, ranges, related>>

--------------------------------------------------------------------------------
\* Searches

Primary(p) == {l \in bins[p] : l.primary}
LinkedTo(insts) == {p \in DOMAIN bins : LinksOf(p, insts) # {}}

\* _institution_condition: a name is matched the way the search says, and one
\* that contains the term as it is displayed will do.
ByName(s) ==
  IF s.term = Unknown THEN DOMAIN bins
  ELSE LinkedTo(Matches[s.term][s.mode]
                \cup IF s.mode = "contains" THEN Matches[s.term].displayed ELSE {})

\* _geography_conditions: the oldest address of the institution the row names.
ByRegion(s) ==
  IF s.region = Unknown THEN DOMAIN bins
  ELSE {p \in DOMAIN bins : LET i == RowOf(p, Primary(p)).inst IN
          i # Unknown /\ Regions[i] # <<>> /\ Regions[i][1] = s.region}

\* search: the rows of the result table.
TableOf(s) == ByName(s) \cap ByRegion(s)

\* Mutated form of ChartOf: a name is matched exactly.
ChartOfExact(s) ==
  (IF s.term = Unknown THEN DOMAIN bins ELSE LinkedTo(Matches[s.term].exact))
  \cap (IF s.region = Unknown THEN DOMAIN bins
        ELSE LinkedTo({i \in Institutions : s.region \in ToSet(Regions[i])}))

\* scope_condition: what the charts count for the same search.
ChartOf(s) ==
  (IF s.term = Unknown THEN DOMAIN bins ELSE LinkedTo(Matches[s.term].contains))
  \cap (IF s.region = Unknown THEN DOMAIN bins
        ELSE LinkedTo({i \in Institutions : s.region \in ToSet(Regions[i])}))

\* The bars by region count a BIN for each primary relationship it has.
Bars(set) ==
  LET oldest(i) == IF Regions[i] = <<>> THEN Unknown ELSE Regions[i][1]
      places == UNION {ToSet(Regions[i]) : i \in Institutions} \ {Unknown}
  IN [r \in places |-> FoldSet(LAMBDA p, n : n + Cardinality({l \in Primary(p) : oldest(l.inst) = r}),
                               0, set)]

Search(s) ==
  /\ shown = Nothing
  /\ shown' = [op |-> "search", search |-> s, table |-> TableOf(s), chart |-> ChartOf(s),
               bars |-> Bars(ChartOf(s))]
  /\ UNCHANGED <<bins, ranges, related>>

--------------------------------------------------------------------------------
\* Institutions by name

\* The rank of a match: the name itself, another name, its beginning, a part.
MatchRank(i, n) ==
  CASE i \in n.exact -> 0 [] i \in n.alias -> 2 [] i \in n.prefix -> 3
    [] i \in n.contains -> 5 [] OTHER -> 6

BankSearch(term) ==
  /\ shown = Nothing
  /\ LET n == Matches[term]
         found == n.exact \cup n.alias \cup n.contains \cup n.displayed
     IN shown' = [op |-> "banks",
                  matches |-> Sorted([i \in found |-> <<MatchRank(i, n), i>>]),
                  counts |-> [i \in found |->
                    FoldSet(LAMBDA p, k : k + Cardinality(LinksOf(p, {i})), 0, DOMAIN bins)]]
  /\ UNCHANGED <<bins, ranges, related>>

--------------------------------------------------------------------------------
\* What a package holds

LinkCount == FoldSet(LAMBDA p, n : n + Cardinality(bins[p]), 0, DOMAIN bins)

Assign(p) ==
  /\ shown = Nothing /\ p \in Assigned \ DOMAIN bins
  /\ bins' = [s \in DOMAIN bins \cup {p} |-> IF s = p THEN {} ELSE bins[s]]
  /\ UNCHANGED <<ranges, related, shown>>

\* One relationship of a kind between an assignment and an institution.
Relate(p, l) ==
  /\ shown = Nothing /\ LinkCount < MaxLinks /\ p \in DOMAIN bins
  /\ \A m \in bins[p] : <<m.inst, m.kind>> # <<l.inst, l.kind>>
  /\ bins' = [bins EXCEPT ![p] = @ \cup {l}]
  /\ UNCHANGED <<ranges, related, shown>>

Allocate(r) ==
  /\ shown = Nothing /\ Len(ranges) < MaxRanges
  /\ r \notin ToSet(ranges)
  /\ ranges' = Append(ranges, r)
  /\ UNCHANGED <<bins, related, shown>>

\* The result is left for another one, or another package is installed.
Leave ==
  /\ shown # Nothing /\ shown' = Nothing
  /\ UNCHANGED <<bins, ranges, related>>

LookupInit ==
  /\ bins = [p \in {} |-> {}]
  /\ ranges = <<>>
  /\ related \in Relations
  /\ shown = Nothing

Package ==
  \/ \E p \in Assigned : Assign(p) \/ \E l \in LinkForms : Relate(p, l)
  \/ \E r \in RangeForms : Allocate(r)

LookupNext ==
  \/ Package
  \/ \E q \in Queries : Lookup(q)
  \/ \E i \in Institutions, standing \in {"any", "current", "ended"}, n \in 1 .. Cardinality(Assigned) :
       BankPage(i, standing, n)
  \/ \E s \in Searches : Search(s)
  \/ \E term \in DOMAIN Matches : BankSearch(term)
  \/ Leave

LookupSpec == LookupInit /\ [][LookupNext]_lookupVars

--------------------------------------------------------------------------------
\* Properties

Answered == shown.op = "lookup" /\ shown.found

Inseparable(a, b) ==
  /\ a.from = b.from \/ Unknown \in {a.from, b.from}
  /\ Figure(a) - Figure(b) < Margin /\ Figure(b) - Figure(a) < Margin

IssuersNow(c) ==
  {c.links[k] : k \in {j \in DOMAIN c.links : c.links[j].current /\ IsIssuing(c.links[j])}}

\* When institutions that nothing separates are recorded as current issuers of
\* the allocation that answers, the answer says that they conflict; and an
\* answer that says so can name two of them, on allocations as specific
\* (_disagreements, _settle, combine).
ConflictShown ==
  Answered =>
    LET now == IssuersNow(shown.winner)
        level == {shown.others[k] : k \in {j \in DOMAIN shown.others :
                                             Rank(shown.others[j]) = Rank(shown.winner)}}
        all == now \cup UNION {IssuersNow(c) : c \in level}
    IN /\ (\A a, b \in now : a # b => Inseparable(a, b)) /\ (\E a, b \in now : a.inst # b.inst)
            => shown.level = "conflicted"
       /\ shown.level = "conflicted" => \E a, b \in all : a.inst # b.inst

\* What answers is the first there is of: the assignment that was asked for, if it
\* is longer than a root; the narrowest account range; the root that was asked for;
\* the narrowest issuer range; the narrowest assignment.  So no root overrides an
\* account range or a longer assignment, but an assignment asked for with a digit
\* too many is overridden by any range that covers it (sort_key, _strategy_for).
RootNeverOverrides ==
  Answered =>
    LET q == shown.query
        w == shown.winner
        accounts == {k \in AllocatedAt(q) : ranges[k].account}
    IN /\ q \in DOMAIN bins /\ q # <<>> /\ Len(q) <= Width => w.row = 0 /\ w.prefix = q
       /\ w.row # 0 =>
            /\ \A k \in accounts : ranges[w.row].account
            /\ ~ranges[w.row].account => \A p \in AssignedAt(q) : Len(p) < Len(q)
            /\ \A k \in AllocatedAt(q) : ranges[k].account = ranges[w.row].account
                 => Span(w) <= ranges[k].high - ranges[k].low + 1
       /\ w.row = 0 /\ w.prefix = <<>> => accounts = {}
       /\ w.row = 0 /\ Len(w.prefix) < Len(q) =>
            /\ AllocatedAt(q) = {}
            /\ \A p \in AssignedAt(q) : Span(w) <= High(p) - Low(p) + 1

\* Nobody from the past is presented as the present: who is named as issuer
\* issues now, and an assignment shows no address of an institution whose
\* relationships with it have all ended (issuer_name, _to_record).
PresentOnly ==
  Answered =>
    LET links == {shown.winner.links[k] : k \in DOMAIN shown.winner.links} IN
    /\ \A i \in shown.issuers : \E l \in links : l.inst = i /\ l.current /\ IsIssuing(l)
    /\ shown.winner.row = 0 /\ shown.place # Unknown
         => \E l \in links : l.inst = shown.place /\ l.current
    /\ shown.issuers = {} => \A l \in links : ~(l.current /\ IsIssuing(l))

\* The figures above a portfolio and the table beneath it agree, on all of it
\* and on what is current, whatever the structure of the group (build, _scope).
PortfolioAgrees ==
  shown.op = "portfolio" =>
    /\ shown.standing = "any" => shown.total = shown.heading.total
    /\ shown.standing = "current" =>
         /\ shown.total = shown.heading.current
         /\ \A k \in DOMAIN shown.rows : shown.rows[k].current

\* The charts of a search count every BIN its table lists, and no others if a name is
\* looked for by any part of it and no region is; the charts look for it that way,
\* and for any address, in every search.  (Similar names, and names that contain the
\* term only as they are displayed, are the table's alone: scope_condition, _build.)
ChartCoversTable ==
  shown.op = "search" /\ shown.search.mode # "similar"
  /\ (shown.search.mode = "contains" /\ shown.search.term # Unknown =>
        Matches[shown.search.term].displayed \subseteq Matches[shown.search.term].contains)
    => /\ shown.table \subseteq shown.chart
       /\ shown.search.region = Unknown /\ shown.search.mode = "contains"
            => shown.chart = shown.table

\* "Every allocation that legitimately contains *digits*", and nothing that
\* says something of a part of what was asked only (candidates).
AnswerContainsQuery ==
  Answered =>
    IF shown.winner.row = 0 THEN Extends(shown.query, shown.winner.prefix)
    ELSE shown.winner.low <= Low(shown.query) /\ High(shown.query) <= shown.winner.high
================================================================================
