SPECIFICATION Spec
CONSTANTS
  MaxSlots = 2
  MaxFds = 3
  ConnectTimeOut = 0
  ActiveTimeOut = 0
  FrameLen = 1
  Space = 1
  MaxIn = 1
  MaxOut = 1
  MaxBacklog = 1
  MaxClock = 0
  MaxListeners = 1
  MaxClients = 2
  SysFail = TRUE
INVARIANTS
  TypeOK
  SlotPartition
  FreeSlotsDrained
  NoStrandedSlot
  EventsCurrent
  FdOwnership
PROPERTY
  ImplementsLifecycle
