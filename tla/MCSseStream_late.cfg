\* One connection, and nothing fails.
CONSTANTS
  Here = Here
  Elsewhere = Elsewhere
  MaxUpdates = 3
  MaxNoise = 0
  MaxFaults = 0
SPECIFICATION FairSpec
PROPERTY LateSubscriberSettles
CHECK_DEADLOCK FALSE
