\* Two retries: the first backoff is at its ceiling, the second would be above.
CONSTANTS
  MaxRetries = 2
  RequestTimeout = 2
  SubmitTimeout = 3
  RetryBaseDelay = 2
  MaxWait = 4
  Call <- MCCalls

SPECIFICATION LiveSpec

INVARIANTS
  TypeOK
  GivesUpForAReason
  TotalWaitIsBounded

PROPERTIES
  CallReturns
  ImplementsSubmission
