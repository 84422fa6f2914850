\* One Redis publication fails.
CONSTANTS
  p1 = p1  p2 = p2
  Partitions = {p1, p2}
  MaxRecords = 2
  Poison <- NoPoison
  NoRecord = NoRecord
  MaxFaults = 1
  MaxCrashes = 0
  MaxStops = 0
  MaxLapses = 0
SPECIFICATION Spec
INVARIANT CommittedIsBridged
CHECK_DEADLOCK FALSE
