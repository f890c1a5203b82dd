SPECIFICATION FairSpec
CONSTANTS
  Callers = {c1, c2}
  Retries = 2
  RetryBase = 2
  RetryMax = 1
  RetryAfters = {0, 2}
  Burst = 1
  Window = 2
INVARIANTS TypeOK RateBudget RetryAfterHonoured
PROPERTIES ImplementsCall CallsReturn
