SPECIFICATION Spec
CONSTANTS
  a = a
  b = b
  c = c
  Symbols <- MCSymbols
  Discarded <- MCDiscarded
  PerStream = 2
  MaxFaults <- MCNoFaults
INVARIANT
  TokenFirst
CHECK_DEADLOCK FALSE
