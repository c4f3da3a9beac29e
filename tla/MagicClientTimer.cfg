SPECIFICATION Spec
CONSTANTS
  s1 = s1
  s2 = s2
  Slots = {s1, s2}
  NoHandle = NoHandle
  MaxTick = 1
INVARIANT
  RegExpects
