SPECIFICATION Spec
CONSTANTS
  MaxSlots = 3
  MaxFds = 1
  max = 2
  Nodes <- SlotNodes
  Null = Null
INVARIANT
  ListsSound
PROPERTY
  ImplementsSocketMgr
