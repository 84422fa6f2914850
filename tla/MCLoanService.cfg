\* Two applicants who may send the same key: an I/O error, a crash, an expiry.
CONSTANTS
  r1 = r1  r2 = r2  r3 = r3  a1 = a1  a2 = a2
  Requests = {r1, r2, r3}
  Applicants = {a1, a2}
  Keys = {k1}
  EmptyKey = EmptyKey
  NoKey = NoKey
  NoApplicant = NoApplicant
  NoLoan = NoLoan
  MaxFaults = 1
  MaxCrashes = 1
  MaxExpiries = 1
SPECIFICATION Spec
SYMMETRY Symmetry
INVARIANTS
  TypeOK
  UniqueKey
  SameKeySameLoan
  AnsweredIsStored
  OutboxAtomic
  StoreAgrees
  RetryReplaysWhenCalm
  WaitsForRunner
PROPERTY ImplementsIntake
CHECK_DEADLOCK FALSE
