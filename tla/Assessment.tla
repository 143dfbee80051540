------------------------------- MODULE Assessment -------------------------------
(***************************************************************************)
(* The figures about a database that the administration page, the command  *)
(* line and the health report show: DatabaseHealthService scores seven     *)
(* checks and grades their weighted mean, DataQualityService counts what a *)
(* release is published with, and remove_orphans deletes rows whose parent *)
(* no longer exists.                                                       *)
(*                                                                         *)
(* The assignments, relationships and ranges are those of the package;     *)
(* what else can be wrong with its file is a defect:                       *)
(*   [sound, unindexed, aliases, names, links, rows, conflicts, missing].  *)
(* Floating-point scores are multiples of 1/Unit.                          *)
(***************************************************************************)
EXTENDS Exports

CONSTANTS
  Defects,   \* what is wrong with the files that are assessed
  Expected   \* the indexes a database should have

Fields == {"network", "country", "card type", "funding type", "currency"}

ASSUME AssessmentAssumption ==
  /\ Expected \in Nat \ {0}
  /\ Defects \subseteq
       [sound : BOOLEAN, unindexed : 0 .. Expected, aliases : Nat, names : Nat,
        links : SUBSET [bin : Seq(Nat), inst : Nat, current : BOOLEAN], rows : Nat,
        conflicts : Nat, missing : [Fields -> SUBSET Seq(Nat)]]
  /\ \A d \in Defects : IsFiniteSet(d.links)

Checks == {"integrity", "indexes", "duplicates", "orphans", "conflicts", "relationships",
           "completeness"}

\* In tenths.
Weights ==
  [integrity |-> 30, indexes |-> 20, duplicates |-> 10, orphans |-> 10, conflicts |-> 6,
   relationships |-> 15, completeness |-> 10]

Records == Cardinality(DOMAIN bins)
Ones    == Max({Records, 1})
Unit    == Ones * Cardinality(Fields) * Expected

Share(n, d) == n * (Unit \div d)

--------------------------------------------------------------------------------
\* What is counted

\* A link of the table bin_institutions is counted by its bin_id, also when no such
\* BIN is left; any current relationship answers for its BIN.
LinkedBins(d) == {p \in DOMAIN bins : bins[p] # {}} \cup {l.bin : l \in d.links}
Resolved(d)   == {p \in DOMAIN bins : \E l \in bins[p] : l.current}
                   \cup {l.bin : l \in {m \in d.links : m.current}}

\* The links that have lost their BIN, and those that have lost their institution: one
\* that has lost both is counted twice.
Orphans(d) ==
  Cardinality({l \in d.links : l.bin \notin DOMAIN bins})
    + Cardinality({l \in d.links : l.inst = Unknown}) + d.rows

Missing(d) == [f \in Fields |-> Cardinality(d.missing[f] \cap DOMAIN bins)]

--------------------------------------------------------------------------------
\* Health

\* Full marks for no defect, falling to none as the defects reach one in "per".
RatioScore(bad, total, per) ==
  IF bad <= 0 THEN Unit
  ELSE IF total <= 0 THEN 0 ELSE Max({0, Unit - bad * per * (Unit \div total)})

Completeness(d) ==
  LET kept(f) == Unit - Share(Missing(d)[f], Records)
  IN IF Records = 0 THEN 0
     ELSE (kept("network") + kept("country") + kept("card type") + kept("funding type")
             + kept("currency")) \div Cardinality(Fields)

\* A share of the records, which dangling links can take beyond the whole.
Relationships(d) == IF Records = 0 THEN 0 ELSE Share(Cardinality(LinkedBins(d)), Records)

Scores(d) ==
  [integrity     |-> IF d.sound THEN Unit ELSE 0,
   indexes       |-> Unit - Share(d.unindexed, Expected),
   duplicates    |-> RatioScore(d.aliases, Records, 1000),
   orphans       |-> RatioScore(Orphans(d), Ones, 500),
   conflicts     |-> RatioScore(d.conflicts, Ones, 50),
   relationships |-> Relationships(d),
   completeness  |-> Completeness(d)]

Weighed(scores) ==
  LET part(k) == Weights[k] * scores[k]
  IN part("integrity") + part("indexes") + part("duplicates") + part("orphans")
       + part("conflicts") + part("relationships") + part("completeness")
Everything == Weighed([k \in Checks |-> Unit])

\* from_score: a score is at least so many hundredths of the whole.
Reaches(score, whole, percent) == score * 100 >= percent * whole

Grade(score, whole) ==
  IF Reaches(score, whole, 95) THEN "excellent" ELSE IF Reaches(score, whole, 85) THEN "good"
  ELSE IF Reaches(score, whole, 70) THEN "fair" ELSE "poor"

\* "Needs attention": the checks that did not pass.
Failing(scores) == {k \in Checks : ~Reaches(scores[k], Unit, 85)}

HealthOf(d) ==
  [records |-> Records, orphans |-> Orphans(d), linked |-> Cardinality(LinkedBins(d)),
   missing |-> Missing(d), grade |-> Grade(Weighed(Scores(d)), Everything),
   failing |-> Failing(Scores(d))]

--------------------------------------------------------------------------------
\* Quality

Metric(n, d) == [numerator |-> n, denominator |-> d]

QualityOf(d) ==
  [institution_resolution |-> Metric(Cardinality(Resolved(d)), Records),
   extended_coverage |-> Metric(Cardinality({p \in DOMAIN bins : Len(p) >= Width}), Records),
   root_coverage |-> Metric(Cardinality({p \in DOMAIN bins : p = <<>>}), Records),
   country_coverage |-> Metric(Records - Missing(d)["country"], Records),
   network_coverage |-> Metric(Records - Missing(d)["network"], Records),
   current_coverage |-> Metric(Cardinality(Resolved(d)), Cardinality(LinkedBins(d))),
   range_coverage |-> Metric(Cardinality(Positions(ranges, LAMBDA r : r.account)), Len(ranges)),
   duplicate_institution_rate |-> Metric(d.names, Cardinality(Institutions)),
   conflict_rate |-> Metric(d.conflicts, Records),
   missing_institution_rate |-> Metric(Max({0, Records - Cardinality(Resolved(d))}), Records),
   missing_country_rate |-> Metric(Missing(d)["country"], Records)]

--------------------------------------------------------------------------------
Assessment(d, repaired) ==
  [op |-> "assessment", of |-> d, repaired |-> repaired, health |-> HealthOf(d), quality |-> QualityOf(d)]

Assess(d) ==
  /\ shown = Nothing
  /\ shown' = Assessment(d, FALSE)
  /\ UNCHANGED <<bins, ranges, related>>

\* Mutated form of Repaired: a link is deleted with its BIN only.
RepairedHalf(d) ==
  [d EXCEPT !.links = {l \in @ : l.bin \in DOMAIN bins}, !.rows = 0]

\* remove_orphans: a link goes when either end has gone; so do the addresses, aliases
\* and ranges of an institution that has.
Repaired(d) ==
  [d EXCEPT !.links = {l \in @ : l.bin \in DOMAIN bins /\ l.inst # Unknown}, !.rows = 0]

\* The health is assessed again after it.
RemoveOrphans ==
  /\ shown.op = "assessment"
  /\ shown' = Assessment(Repaired(shown.of), TRUE)
  /\ UNCHANGED <<bins, ranges, related>>

AssessmentNext ==
  \/ LookupNext \/ Saves \/ RemoveOrphans
  \/ \E d \in Defects : Assess(d)

AssessmentSpec == LookupInit /\ [][AssessmentNext]_lookupVars

--------------------------------------------------------------------------------
\* The figures that are shown side by side agree with each other and with what a
\* lookup answers: every BIN whose lookup names an issuer is counted as resolved, a
\* grade below "good" names a check that failed, the two services agree on what is
\* missing; and once orphans have been removed none is counted, nothing resolves that
\* is not linked, no more is linked than there is, and what is resolved and what is
\* missing make up the whole (evaluate, _check_relationships, remove_orphans).
FiguresAgree ==
  shown.op = "assessment" =>
    LET h == shown.health
        resolved == shown.quality.institution_resolution.numerator
    IN /\ Cardinality({p \in DOMAIN bins : Issuers(LinksInOrder(bins[p])) # <<>>}) <= resolved
       /\ h.grade \in {"fair", "poor"} => h.failing # {}
       /\ shown.quality.missing_country_rate.numerator = h.missing["country"]
       /\ shown.repaired =>
            /\ h.orphans = 0
            /\ resolved <= h.linked /\ h.linked <= h.records
            /\ resolved + shown.quality.missing_institution_rate.numerator = h.records
================================================================================
