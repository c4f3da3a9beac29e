SPECIFICATION FairSpec
CONSTANTS
  MaxSlots = 1
  MaxFds = 1
  ConnectTimeOut = 1
  ActiveTimeOut = 1
  FrameLen = 2
  Space = 2
  MaxIn = 4
  MaxOut = 3
  MaxBacklog = 1
  MaxClock = 2
  MaxListeners = 0
  MaxClients = 1
  SysFail = FALSE
INVARIANTS
  NoStrandedInput
  NoStrandedOutput
  RecvListExact
  EpollConsistent
PROPERTIES
  InputIsRead
  FrameIsDelivered
