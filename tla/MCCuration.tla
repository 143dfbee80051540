------------------------------- MODULE MCCuration -------------------------------
(***************************************************************************)
(* Small instances of Curation: spellings of one bank, in two countries    *)
(* and in none, over two BINs.                                             *)
(***************************************************************************)
EXTENDS Curation

\* "Nord Bank", "Nord Bank Ltd", "Nord Bank plc", its abbreviation, and a bank
\* whose name begins alike.
MCNames    == {"nord", "nordltd", "nordplc", "nb", "nordic"}
MCNorm     == [n \in MCNames |-> IF n = "nb" THEN "nb." ELSE n \o "."]
MCCore     == [n \in MCNames |-> IF n \in {"nord", "nordltd", "nordplc"} THEN "nord." ELSE n \o "."]
MCWords    == [n \in MCNames |-> IF n \in {"nordltd", "nordplc"} THEN 3 ELSE IF n = "nb" THEN 1 ELSE 2]
MCLead     == [n \in MCNames |-> IF n = "nb" THEN "nb" ELSE "nord"]
MCLikeness == [n \in MCNames |-> [m \in MCNames |-> IF "nordic" \in {n, m} THEN 90 ELSE 40]]

Plain == [bin |-> "b1", value |-> "v1", conf |-> 80, name |-> "nord", alias |-> None,
          legal |-> None, country |-> None, site |-> None, parent |-> None,
          role |-> "issuer", high |-> FALSE]

\* One BIN named three ways, the last two from different countries.
Spellings ==
  <<[Plain EXCEPT !.high = TRUE],
    [Plain EXCEPT !.name = "nordltd", !.country = "us", !.high = TRUE],
    [Plain EXCEPT !.name = "nordplc", !.country = "gb", !.high = TRUE, !.value = "v2"]>>

\* What was, what is, and what is better known.
Standing ==
  <<[Plain EXCEPT !.role = "former_issuer", !.name = "nordic", !.conf = 90, !.value = None],
    [Plain EXCEPT !.country = "us", !.value = "v1"],
    [Plain EXCEPT !.role = "former_issuer", !.name = "nordic", !.conf = 95, !.value = "v2"],
    [Plain EXCEPT !.conf = 95, !.value = "v2", !.country = "us", !.parent = "nordic"]>>

\* An abbreviation that says what it abbreviates, a site, no issuer, no BIN.
Aliases ==
  <<[Plain EXCEPT !.name = "nb", !.alias = "nord", !.bin = "b2"],
    [Plain EXCEPT !.name = "nordltd", !.legal = "nordplc", !.site = "site", !.parent = "nb"],
    [Plain EXCEPT !.name = "nordic", !.site = "site", !.bin = "b2", !.value = "v2", !.conf = 85],
    [Plain EXCEPT !.name = None, !.high = TRUE, !.value = None],
    [Plain EXCEPT !.bin = "none"]>>

\* What was outweighs what is, and a batch that says otherwise may be rolled back.
Outweighed ==
  <<[Plain EXCEPT !.role = "former_issuer", !.conf = 95, !.value = "v2"],
    Plain, [Plain EXCEPT !.conf = 99], [Plain EXCEPT !.bin = "b2"]>>

MCFiles == {Spellings, Standing, Aliases, Outweighed}
================================================================================
