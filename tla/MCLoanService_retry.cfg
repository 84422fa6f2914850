\* A replica may crash once.
CONSTANTS
  r1 = r1  r2 = r2  r3 = r3  a1 = a1  a2 = a2
  Requests = {r1, r2, r3}
  Applicants = {a1}
  Keys = {k1}
  EmptyKey = EmptyKey
  NoKey = NoKey
  NoApplicant = NoApplicant
  NoLoan = NoLoan
  MaxFaults = 0
  MaxCrashes = 1
  MaxExpiries = 0
SPECIFICATION Spec
INVARIANT RetryReplays
CHECK_DEADLOCK FALSE
