SPECIFICATION Spec
CONSTANTS
  c1 = c1  c2 = c2
  a1 = a1  a2 = a2
  Call = {c1, c2}
  Reaper = Reaper
  Address = {a1, a2}
  Setups <- BothSetups
  Id = {i1, i2}
  None = None
  MaxIdle = 1
  MaxStreams = 2
  MaxLost = 1
SYMMETRY IdSymmetry
INVARIANTS
  CountersAreExact
  VictimsAreUnused
  PoolAndTasksAgree
