SPECIFICATION Spec
CONSTANTS
  Ask = {account_remove, pat_create}
  TwoWays = {account_remove}
  Counted = {code, password}
  Provider = {provider}
  Req = {r1, r2}
  None = None
  Window = 1
  FailuresMax = 1
  MaxTime = 1
  MaxAnswers = 2
SYMMETRY Symmetry
INVARIANTS WrongAnswersAreBounded
PROPERTIES ActionsWereConfirmed LastAnswerIsRecent
