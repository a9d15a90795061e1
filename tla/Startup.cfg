SPECIFICATION StartupSpec
CONSTANTS
  Process = {p1, p2}
  MaxStarts = 3
  MaxAttempts = 2
  Migrations = 2
  Names = {name, address}
  Emails = {address}
  Stranger = stranger
  Absent = absent
  Empty = empty
CHECK_DEADLOCK FALSE
INVARIANTS SecretsAgree ServesMigrated SeedStaysTogether
PROPERTIES StartEnds ClosingEnds
