SPECIFICATION Spec
CONSTANTS
  Ident = {i1, i2, i3}
  Address = {a1, a2, a3}
  Link = {l1, l2}
  Req = {r1, r2}
  NoRow = NoRow
  None = None
  MaxSealed = 3
SYMMETRY Symmetry
INVARIANTS PrimaryIsVerified StrayLinksWereInFlight
PROPERTIES ConsumedAlive
