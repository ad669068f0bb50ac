SPECIFICATION Spec
CONSTANTS
  o1 = o1
  o2 = o2
  c1 = c1
  u1 = u1
  u2 = u2
  s1 = s1
  NoRecord = NoRecord
  Object = {o1, o2}
  Content = {c1}
  User = {u1, u2}
  Restricted = {o2}
  Managed = {o2}
  Stream = {s1}
  ContentOf <- MCContentOf
  OwnerOf <- MCOwnerOf
  Parts <- MCParts
  MaxCrashes = 1
INVARIANTS TypeOK KeepsContent NoOrphans WholeUploads
PROPERTIES RightsHeld
CHECK_DEADLOCK FALSE
