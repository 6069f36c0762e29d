SPECIFICATION Spec
CONSTANTS
  c1 = c1  c2 = c2  c3 = c3
  a1 = a1  a2 = a2
  Call = {c1, c2, c3}
  Address = {a1, a2}
  AddressOf <- ThreeAddressOf
  CoalescesWith <- OneCoalesces
  Sem = {s1, s2, s3}
  Note = {n1, n2}
  None = None
  MaxTotal = 2
  MaxPerAddress = 1
SYMMETRY ObjectSymmetry
INVARIANTS
  LimitsHold
  StrandedOnlyByBounce
