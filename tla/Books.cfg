SPECIFICATION FairSpec
CONSTANTS
  a = a
  b = b
  Symbols <- MCSymbols
  Streams <- MCStreams
  Home <- MCHome
  MaxRetries = 1
  MaxChanges = 2
  MaxFaults <- MCFaults
INVARIANTS
  TypeOK
  BookIsExact
  SnapshotRequested
PROPERTIES
  NeverGoesBack
  SnapshotArrives
CHECK_DEADLOCK FALSE
