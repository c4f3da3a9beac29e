SPECIFICATION TimerFairSpec
CONSTANTS
  Delays = {0, 2}
  Early = 1
  MaxNow = 4
  MaxTimers = 4
INVARIANT
  MapsAgree
PROPERTIES
  GoesOffInOrder
  GoesOff
