---------------------------- MODULE MCWatchlistScan ----------------------------
(***************************************************************************)
(* A small instance of WatchlistScan and Watchlists.                       *)
(***************************************************************************)
EXTENDS Watchlists, TLC

CONSTANTS hook, mine, theirs, bin, bank, v1

OneScanner  == {hook}
TwoLists    == {mine, theirs}
TwoTargets  == {bin, bank}
OneVersion  == {v1}
MayBeAbsent == {Absent}

MCPairs == {<<mine, bin>>, <<theirs, bank>>}

\* The lists exchanged, with what is put on them.
Swap ==
  {p \in Permutations({mine, theirs, bin, bank}) :
     \/ \A x \in DOMAIN p : p[x] = x
     \/ p[mine] = theirs /\ p[theirs] = mine /\ p[bin] = bank /\ p[bank] = bin}
================================================================================
