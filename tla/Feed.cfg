SPECIFICATION FairSpec
CONSTANTS
  a = a
  b = b
  c = c
  Symbols <- MCSymbols
  Discarded <- MCDiscarded
  PerStream = 2
  MaxFaults <- MCFaults
INVARIANTS
  TypeOK
  DownloadAsked
  EverySymbolServed
  NoSymbolForgotten
  NoForeignSymbol
PROPERTIES
  EventuallySubscribed
CHECK_DEADLOCK FALSE
