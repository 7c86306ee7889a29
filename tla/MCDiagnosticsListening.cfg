\* The listening status among two other checks.
CONSTANTS
  Checks <- ThreeChecks
  MaxRetries = 1
SPECIFICATION Spec
INVARIANT ListeningFailureIsHarmless
CHECK_DEADLOCK FALSE
