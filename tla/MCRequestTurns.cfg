SPECIFICATION Spec
CONSTANTS
  r1 = r1  r2 = r2  r3 = r3  r4 = r4  r5 = r5
  a1 = a1  a2 = a2  a3 = a3
  k1 = k1  k2 = k2  k3 = k3
  Request = {r1, r2, r3, r4, r5}
  Address = {a1, a2, a3}
  AddressOf <- FiveAddressOf
  UrgencyOf <- FiveUrgencyOf
  Key = {k1, k2, k3}
  Waker = {w1}
  Poller = {p1}
  NoKey = NoKey
  NoWaker = NoWaker
  Vacant = Vacant
  MaxTotal = 2
  MaxPerAddress = 1
  MaxQueued = 2
  PromotionsBeforeAging = 1
  CounterMax = 2
  MaxSeq = 4
SYMMETRY Symmetric
PROPERTIES
  NoSpuriousCapacity
  ImplementsAdmission
