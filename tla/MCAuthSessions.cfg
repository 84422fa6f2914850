\* Four requests, two errors or crashes, a clock read twice in a second and at the
\* beginning of the next; a token lives one second.
CONSTANTS
  MaxRequests = 4
  PerSecond = 2
  MaxTime = 2
  Lifetime = 2
  MaxFailures = 2
SPECIFICATION FairSpec
INVARIANTS
  TypeOK
  RegisteredOnce
  RotationAtomic
  OneExchangePerRow
  SessionsIndependent
PROPERTY EveryRequestEnds
CHECK_DEADLOCK FALSE
