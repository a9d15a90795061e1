SPECIFICATION Spec
CONSTANTS
  Sid = {s1, s2, s3}
  Pat = {p1}
  Link = {l1, l2}
  Req = {r1, r2}
  NoRow = NoRow
  None = None
  MaxVersion = 2
SYMMETRY Symmetry
INVARIANTS SurvivorsWereInFlight
PROPERTIES RecoveryIsFinal
