SPECIFICATION Spec
CONSTANTS
  User = {ann, bob}
  Ident = {i1, i2, i3}
  Address = {a1}
  Sub = {g1}
  Link = {l1}
  Req = {r1, r2}
  NoRow = NoRow
  None = None
  AllowUsername = FALSE
  MaxEra = 1
SYMMETRY Symmetry
INVARIANTS OlderWaysWereInFlight PrimaryUnlessFailed
PROPERTIES ConfirmedNeverYields ImplementsOwnership
