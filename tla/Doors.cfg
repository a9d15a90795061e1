SPECIFICATION Spec
CONSTANTS
  Addr = {a1, a2}
  Req = {r1, r2}
  None = None
  MaxRestarts = 1
SYMMETRY Symmetry
INVARIANTS StaleAnswersPredateRules WhoPassesStood WhoIsTurnedAwayFell
