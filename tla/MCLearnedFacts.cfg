SPECIFICATION Spec
CONSTANTS
  field = field
  v1 = v1
  v2 = v2
  conflict = conflict
  binlist = binlist
  Subjects <- OneSubject
  Values <- MCValues
  Local <- MCLocal
  External <- OneExternal
  Verified <- NoSource
  AutoApply = TRUE
  Blank = Blank
  Gone = Gone
  Nothing = Nothing
  MaxFacts = 2
  MaxRebuilds = 1
INVARIANT LedgerSound
PROPERTY DecisionsStand
