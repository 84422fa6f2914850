\* Two partitions, an unreadable record, two failing calls, a crash, a shutdown, and a lost
\* membership.
CONSTANTS
  p1 = p1  p2 = p2
  Partitions = {p1, p2}
  MaxRecords = 2
  Poison <- OnePoison
  NoRecord = NoRecord
  MaxFaults = 2
  MaxCrashes = 1
  MaxStops = 1
  MaxLapses = 1
SPECIFICATION FairSpec
INVARIANTS
  TypeOK
  LossesAreExplained
  ReplaysAreExplained
PROPERTIES
  EventuallyBridged
  StopIsHeeded
  ImplementsChannel
CHECK_DEADLOCK FALSE
