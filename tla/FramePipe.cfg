SPECIFICATION FairSpec
CONSTANTS
  Cap = 3
  Overhead = 1
  HeaderLen = 2
  Base = 2
  MaxFrame = 3
  WireMax = 2
  MaxFlight = 4
INVARIANTS
  StreamsSound
  StaysUp
PROPERTIES
  ImplementsChannel
  FramesArrive
