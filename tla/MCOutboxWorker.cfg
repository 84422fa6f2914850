\* Two replicas, batches smaller than the backlog, a failure, a crash, and a topic
\* that may be missing.
CONSTANTS
  w1 = w1  w2 = w2
  Loans = {1, 2}
  Workers = {w1, w2}
  Stampings <- AnyStamping
  BatchLimit = 2
  Outages = {{}, {"submitted"}}
  MaxFaults = 1
  MaxCrashes = 1
SPECIFICATION FairSpec
INVARIANTS
  TypeOK
  SentIsPublished
  WorkersDisjoint
  CopiesAreExplained
PROPERTIES
  ImplementsFeed
  EventuallySent
CHECK_DEADLOCK FALSE
