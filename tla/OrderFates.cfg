SPECIFICATION FairSpec
CONSTANTS
  Orders = {o1}
  Symbols = {s1}
  SymbolOf <- MCSymbolOf
  MaxFaults <- MCFaults
INVARIANT TypeOK
PROPERTIES
  KeepsPromise
  FatesLearned
  CancelsResolved
CHECK_DEADLOCK FALSE
