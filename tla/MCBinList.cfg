SPECIFICATION ListSpec
CONSTANTS
  Datasets <- MCDatasets
  Lines <- MCLines
  Sidecars <- MCSidecars
  Known <- MCKnown
  Spellings <- MCSpellings
  MaxLines = 3
  MaxFiles = 2
INVARIANT LastWordCounts
INVARIANT NoDigitsMadeUp
