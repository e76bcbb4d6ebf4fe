CONSTANTS
  MaxClaims = 2
  MaxEnvs = 3
  MaxPin = 2
  Disturbances <- AllDisturbances
  MaxDisturbances = 2
SPECIFICATION Spec
CHECK_DEADLOCK FALSE
INVARIANTS
  RowTellsGuest GuestsOwned StopSparesLease
\* Also true here, as invariants: TypeOK, OneHolder, ReplacementsChain.
