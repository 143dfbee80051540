SPECIFICATION FairFetchSpec
CONSTANTS
  LastEdition = 3
  Size <- MCSize
  RangeSupport = {TRUE, FALSE}
  WithChecksum = TRUE
  MaxStops = 3
INVARIANT ArrivesWhole
PROPERTY ResumeMakesProgress
CHECK_DEADLOCK FALSE
