SPECIFICATION WatchlistsSpec
CONSTANTS
  hook = hook
  mine = mine
  theirs = theirs
  bin = bin
  bank = bank
  v1 = v1
  Scanners <- OneScanner
  Lists <- TwoLists
  Targets <- TwoTargets
  Versions <- OneVersion
  Absences <- MayBeAbsent
  Absent = Absent
  Unread = Unread
  Missing = Missing
  Nothing = Nothing
  Crossed = Crossed
  MaxItems = 2
  Pairs <- MCPairs
  Names = {1, 2}
  NoName = 0
  MaxEvents = 2
 
PROPERTY ValueReportedOnce
PROPERTY NothingMissed
SYMMETRY Swap
