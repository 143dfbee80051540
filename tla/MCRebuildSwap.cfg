SPECIFICATION Spec
CONSTANTS
  Sizes <- MCSizes
  MaxBuilds = 2
  MaxEdits = 2
  NoFile = NoFile
  NoReader = NoReader
INVARIANT LogBelongs
PROPERTY RollbackKeepsBoth
