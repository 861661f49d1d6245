\* Up to three attempts.
CONSTANT MaxRetries = 3
SPECIFICATION Spec
INVARIANTS
  TypeOK
  TextIsFromThisAttempt
  ResultIsTheLastAttempts
PROPERTIES
  Returns
CHECK_DEADLOCK FALSE
