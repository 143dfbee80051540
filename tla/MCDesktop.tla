-------------------------------- MODULE MCDesktop --------------------------------
(***************************************************************************)
(* A small instance of the window: Workbench, Maintenance, Reports and     *)
(* Updates.                                                                *)
(***************************************************************************)
EXTENDS Updates

CONSTANTS b1, b2, b3, n1, n2, i1, i2, f1, l1

MCMatchesOf == [n \in {n1, n2} |-> IF n = n1 THEN <<i1, i2>> ELSE <<>>]
MCOffered   == [i \in {i1, i2} |-> IF i = i1 THEN {f1} ELSE {}]
MCReportTypes == <<"health", "search">>
MCFilterValues == [c \in 1 .. MaxContents |-> {f1}]
MCLabelOf   == [c \in 1 .. MaxContents |-> l1]

\* What one behaviour uses: pages, and the jobs and switches of the maintenance pages.
MCVisits ==
  {{"bin", "settings"}, {"bin", "database", "restore"},
   {"bank_lookup"}, {"bank_lookup", "database", "restore"}, {"institutions", "settings"},
   {"analytics", "database", "rebuild"}, {"analytics", "admin", "backup", "restore"},
   {"palette", "admin", "verify", "vacuum"}, {"database", "reindex", "rollback", "rebuild", "learn"},
   {"admin", "palette", "backup", "delete"},
   {"database", "admin", "restore", "kill"}, {"admin", "backup", "restore", "kill"},
   {"database", "admin", "backup"},
   {"database", "admin", "restore", "rebuild"}, {"database", "rebuild", "list", "kill"},
   {"admin", "health", "restore", "verify"}, {"database", "health", "rebuild"},
   {"reports"}, {"reports", "admin", "restore", "kill"},
   {"updates"}, {"updates", "auto", "analytics"}, {"updates", "database", "rebuild"}}

\* Two acts where pages with many answers meet something else and where two pages
\* replace the file, three everywhere else, more on the small pages alone.
MCMaxActs ==
  [v \in MCVisits |->
     CASE v = {"reports"} -> 5
       [] v = {"updates"} -> 4
       [] \/ v \cap (Browsers \cup {"health", "updates"}) # {} /\ Cardinality(v) > 1
          \/ "restore" \in v /\ v \cap {"bin", "rebuild"} # {} -> 2
       [] OTHER -> 3]
================================================================================
