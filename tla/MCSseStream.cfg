\* Another loan's event, and three of the five things that go wrong.
CONSTANTS
  Here = Here
  Elsewhere = Elsewhere
  MaxUpdates = 2
  MaxNoise = 1
  MaxFaults = 3
SPECIFICATION FairSpec
INVARIANTS
  TypeOK
  StartsCurrent
  NothingMissed
  ResumeTakesReplay
  OrderIsKept
PROPERTY LiveUpdatesArrive
CHECK_DEADLOCK FALSE
