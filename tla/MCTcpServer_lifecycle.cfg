CONSTANTS
  a1 = a1
  a2 = a2
  Addrs <- MCAddrs
  BadAddrs <- MCBadAddrs
  MaxSocks <- MCMaxSocks
  MaxClients <- MCMaxClients
  MaxCalls <- MCMaxCalls
  BindAfterStart = FALSE
SPECIFICATION Spec
INVARIANT TypeOK LoopsOnTrackedSockets
PROPERTY StopEndsAcceptLoops 
CHECK_DEADLOCK FALSE
