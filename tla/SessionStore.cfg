SPECIFICATION Spec
CONSTANTS
  Uid = {u1, u2, u3}
  User = {ann}
  Anon = Anon
  Req = {r1, r2}
  NoRow = NoRow
  NoCopy = NoCopy
  MaxAge = 2
  AnonymousMaxAge = 1
  MaxTime = 2
CHECK_DEADLOCK FALSE
SYMMETRY Symmetry
INVARIANTS RevokedStaysRevoked OwnerNeverChanges
PROPERTIES UseNeverExtends ImplementsLife
