SPECIFICATION Spec
CONSTANTS
  Req = {r1, r2}
  Browser = {b1}
  MaxCodes = 2
  MaxTime = 2
  MaxAttempts = 2
  Budget = 2
  Window = 2
  FailMax = 2
  FailWindow = 1
  Cooldown = 1
  Lifetime = 2
SYMMETRY Symmetry
CHECK_DEADLOCK FALSE
INVARIANTS CapHolds EndsOnce CountedGuessesBounded FailuresBounded
PROPERTIES ImplementsLife
