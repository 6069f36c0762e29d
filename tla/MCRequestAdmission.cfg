SPECIFICATION FairSpec
CONSTANTS
  r1 = r1  r2 = r2  r3 = r3  r4 = r4  r5 = r5
  a1 = a1  a2 = a2
  Request = {r1, r2, r3, r4, r5}
  Address = {a1, a2}
  AddressOf <- FiveAddressOf
  UrgencyOf <- FiveUrgencyOf
  MaxTotal = 2
  MaxPerAddress = 1
  MaxQueued = 2
PROPERTIES
  NoStarvation
