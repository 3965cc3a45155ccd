SPECIFICATION Spec
CONSTANTS
  MaxCalls = 3
  MaxConns = 4
INVARIANTS TypeOK AnswersMatch NothingPending CarriedOut
CHECK_DEADLOCK FALSE
