SPECIFICATION FairSpec
CONSTANTS
  PingInterval = 5
  LogonTimeout = 2
  IdleTimeout = 3
  RetryLogon = TRUE
  MaxStep = 2
  Horizon = 6
  MaxLosses = 2
INVARIANTS
  TypeOK
  KeptAlive
  HandshakeBounded
PROPERTIES
  SparesWelcome
  Reconnects
  MarketDataGivesUp
CHECK_DEADLOCK FALSE
