SPECIFICATION FairSpec
CONSTANTS
  a = a
  b = b
  c = c
  Symbols <- MCSymbols
  Discarded <- MCDiscarded
  PerStream = 2
  MaxFaults <- MCExpiry
PROPERTIES
  PublicTokenRefreshed
CHECK_DEADLOCK FALSE
