SPECIFICATION GatesSpec
CONSTANTS
  Vouching = {"google"}
  Settings <- MCSettings
  Token <- MCToken
  PublicPaths <- MCPublic
  OptionalPaths <- MCOptional
  Targets <- MCTargets
  Forged <- MCForged
  Headers <- MCHeaders
CHECK_DEADLOCK FALSE
INVARIANTS GatesTypeOK PublicAsServed DoorsAgree WhoEntersIsProven FlowsAreServed NothingIsPretended
