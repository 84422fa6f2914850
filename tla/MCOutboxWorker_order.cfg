\* One replica, one failed publication, the LIMIT of the code.
CONSTANTS
  w1 = w1  w2 = w2
  Loans = {1}
  Workers = {w1}
  Stampings <- AnyStamping
  BatchLimit = 10
  Outages = {{}}
  MaxFaults = 1
  MaxCrashes = 0
SPECIFICATION Spec
INVARIANT SubmittedFirst
CHECK_DEADLOCK FALSE
