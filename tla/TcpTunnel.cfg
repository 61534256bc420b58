SPECIFICATION Spec
CONSTANTS
  e1 = e1
  e2 = e2
  Endpoints = {e1, e2}
  MaxRequests = 4
INVARIANTS AnswersOwnRequest AnsweredInOrder ConfigAnswerIsLate EndsMatch
PROPERTIES SetConfigReturns
CHECK_DEADLOCK FALSE
