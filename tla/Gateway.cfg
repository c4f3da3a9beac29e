SPECIFICATION Spec
CONSTANTS
  s1 = s1
  s2 = s2
  s3 = s3
  Slots = {s1, s2, s3}
  NoHandle = NoHandle
  MaxTick = 0
  Services = {"watchdog.", "game", "login"}
  Watchdog = "watchdog."
SYMMETRY Symmetry
INVARIANTS
  RegistrySound
  BindingKnown
PROPERTY
  HeardInOrder
  GoneIsTold
