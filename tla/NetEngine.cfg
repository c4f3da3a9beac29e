SPECIFICATION FairSpec
CONSTANTS
  s1 = s1
  s2 = s2
  s3 = s3
  Slots = {s1, s2, s3}
  MaxTick = 0
  NoHandle = NoHandle
  c1 = c1
  c2 = c2
  v1 = v1
  v2 = v2
  Clients = {c1, c2}
  Servers = {v1, v2}
  Nobody = Nobody
  ReConnectCount = 1
INVARIANTS
  ObjectsAgree
  NobodyForgotten
PROPERTIES
  CallbacksInOrder
  ConnectsAgain
