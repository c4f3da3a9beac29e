SPECIFICATION Spec
CONSTANTS
  MaxSlots = 2
  MaxFds = 3
  ConnectTimeOut = 1
  ActiveTimeOut = 1
  FrameLen = 1
  DataLen = 2
  Backlog = 1
  MaxIn = 1
  MaxOut = 2
  MaxClock = 1
  MaxListeners = 2
  MaxClients = 1
  MaxOps = 2
  Asserts = TRUE
INVARIANTS
  NothingStranded
  SocketOwnership
  BacklogExact
  OperationsMatch
PROPERTY
  ImplementsLifecycle
