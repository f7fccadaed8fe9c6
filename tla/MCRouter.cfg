SPECIFICATION SomeSpec
CONSTANTS
  Requests = {r1, r2}
  Sent <- MCAll
  MaxConns = 1
CHECK_DEADLOCK FALSE
INVARIANTS
  TableIsEnforced
  AnswerTellsOutcome
 
