-------------------------------- MODULE MCLookup --------------------------------
(***************************************************************************)
(* Small instances of Lookup: two digits, two of them after the root.      *)
(***************************************************************************)
EXTENDS Assessment

MCAssigned == {<<>>, <<0, 0>>, <<0, 1, 0>>}
MCQueries  == {<<>>, <<0>>, <<0, 0>>, <<0, 0, 1>>, <<0, 1, 0>>, <<0, 1, 1>>, <<1, 1>>}

\* A root, and no prefix longer than the padding width.
MCRootAssigned == {<<>>, <<0, 0>>}
MCRootQueries  == {<<>>, <<0>>}

Issues(i, primary, from, conf) ==
  [inst |-> i, kind |-> "issuer", current |-> TRUE, primary |-> primary, from |-> from, conf |-> conf]
Ended(i) ==
  [inst |-> i, kind |-> "issuer", current |-> FALSE, primary |-> TRUE, from |-> 1, conf |-> 90]
Former(i) ==
  [inst |-> i, kind |-> "former_issuer", current |-> FALSE, primary |-> FALSE, from |-> 0, conf |-> NoFigure]
Processes(i) ==
  [inst |-> i, kind |-> "processor", current |-> TRUE, primary |-> FALSE, from |-> 0, conf |-> 60]

MCLinkForms ==
  {Issues(1, TRUE, 1, 90), Issues(2, FALSE, 1, 80), Issues(2, TRUE, 2, 60), Issues(1, FALSE, 0, 70),
   Ended(1), Former(1), Former(2), Processes(2)}

Allocated(low, high, account, i, current) ==
  [low |-> low, high |-> high, account |-> account, inst |-> i, current |-> current,
   from |-> 0, conf |-> 90]

MCRangeForms ==
  {Allocated(0, 3, FALSE, 2, TRUE), Allocated(0, 0, TRUE, 1, TRUE), Allocated(0, 1, TRUE, 2, FALSE)}

\* A sound file; one whose links have lost a BIN, an institution or both, with a field
\* missing; and one that is corrupt, has lost an index and has conflicts.
Fine == [f \in Fields |-> {}]
Dangling(p, i, current) == [bin |-> p, inst |-> i, current |-> current]
MCDefects ==
  {[sound |-> TRUE, unindexed |-> 0, aliases |-> 0, names |-> 0, links |-> {}, rows |-> 0,
    conflicts |-> 0, missing |-> Fine],
   [sound |-> TRUE, unindexed |-> 0, aliases |-> 0, names |-> 1,
    links |-> {Dangling(<<9>>, 1, TRUE), Dangling(<<>>, Unknown, FALSE), Dangling(<<9>>, Unknown, TRUE)},
    rows |-> 1, conflicts |-> 0, missing |-> [Fine EXCEPT !["country"] = {<<>>, <<0, 0>>}]],
   [sound |-> FALSE, unindexed |-> 1, aliases |-> 1, names |-> 0, links |-> {}, rows |-> 0,
    conflicts |-> 1, missing |-> [Fine EXCEPT !["currency"] = {<<>>}]],
   [sound |-> FALSE, unindexed |-> 0, aliases |-> 0, names |-> 0, links |-> {}, rows |-> 0,
    conflicts |-> 0, missing |-> Fine]}

MCNameWords == <<<<4, 12>>, <<9>>>>
MCHeaderWords == [bin |-> <<3>>, standing |-> <<8>>, institution |-> <<6>>]

MCRelations == {{}, {<<1, 2>>, <<2, 1>>}}
MCRegions == <<<<1, 2>>, <<2>>>>
MCNames ==
  <<[exact |-> {}, prefix |-> {1}, contains |-> {1}, displayed |-> {1}, alias |-> {2}, similar |-> {1, 2}],
    [exact |-> {2}, prefix |-> {2}, contains |-> {1, 2}, displayed |-> {2}, alias |-> {}, similar |-> {2}]>>
MCSearches ==
  [term : {1, 2}, mode : {"exact", "prefix", "contains"}, region : {0, 2}]
    \cup [term : {0}, mode : {"contains"}, region : {1, 2}]
================================================================================
