SPECIFICATION FairSpec
CONSTANTS
  MaxSlots = 2
  MaxFds = 2
  ConnectTimeOut = 1
  ActiveTimeOut = 1
  FrameLen = 1
  Space = 1
  MaxIn = 0
  MaxOut = 0
  MaxBacklog = 1
  MaxClock = 1
  MaxListeners = 0
  MaxClients = 2
  SysFail = TRUE
PROPERTIES
  ClosedIsReleased
  SilentIsClosed
