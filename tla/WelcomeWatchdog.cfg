SPECIFICATION FairSpec
CONSTANTS
  PingInterval = 5
  LogonTimeout = 2
  IdleTimeout = 3
  RetryLogon = FALSE
  MaxStep = 2
  Horizon = 6
  MaxLosses = 1
PROPERTIES
  WelcomeWatchdog
CHECK_DEADLOCK FALSE
