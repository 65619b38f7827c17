CONSTANTS
  a1 = a1
  a2 = a2
  Addrs <- MCAddrs
  BadAddrs <- MCBadAddrs
  MaxSocks <- MCMaxSocks
  MaxClients <- MCMaxClients
  MaxCalls <- MCMaxCalls
  BindAfterStart = TRUE
SPECIFICATION Spec
PROPERTY StopEndsAcceptLoops
CHECK_DEADLOCK FALSE
