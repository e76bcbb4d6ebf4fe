CONSTANTS
  MaxClaims = 2
  MaxEnvs = 3
  MaxPin = 2
  Disturbances <- Wakes
  MaxDisturbances = 2
SPECIFICATION Spec
CHECK_DEADLOCK FALSE
INVARIANT ReplacedStaysExpired
