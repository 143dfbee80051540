SPECIFICATION Spec
CONSTANTS
  None = None
  BadBin = "none"
  Names <- MCNames
  Norm <- MCNorm
  Core <- MCCore
  Words <- MCWords
  Lead <- MCLead
  Likeness <- MCLikeness
  Countries = {"us", "gb"}
  Sites = {"site"}
  Bins = {"b1", "b2"}
  Values = {"v1", "v2"}
  Files <- MCFiles
  BatchSize = 2
  MaxWeakBlock = 3
  MaxInst = 9
  MaxSessions = 3
INVARIANT LinksFollow
INVARIANT EveryValueTold
PROPERTY PastNeverRules
PROPERTY AgainIsNothing
CHECK_DEADLOCK FALSE
