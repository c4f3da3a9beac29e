SPECIFICATION Spec
CONSTANTS
  MaxSlots = 1
  MaxFds = 1
  ConnectTimeOut = 1
  ActiveTimeOut = 1
  FrameLen = 1
  DataLen = 1
  Backlog = 1
  MaxIn = 1
  MaxOut = 1
  MaxClock = 1
  MaxListeners = 0
  MaxClients = 1
  MaxOps = 2
  Asserts = TRUE
INVARIANT
  ConnectAsserted
