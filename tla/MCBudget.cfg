SPECIFICATION Spec
CONSTANTS
  app = app
  cli = cli
  Procs <- BothProcs
  Worlds <- MCWorlds
  Limit = 2
  Window = 3
  LastTick = 6
  MaxClaims = 4
SYMMETRY Symmetry
INVARIANT AllowanceKept
CHECK_DEADLOCK FALSE
PROPERTY PenaltyHonoured
