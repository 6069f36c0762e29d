SPECIFICATION Spec
CONSTANTS
  o1 = o1
  o2 = o2
  p1 = p1
  Origin = {o1, o2}
  Secure = {o1}
  Proxy = {p1}
  Direct = Direct
  None = None
  Config <- Clients
  MaxAuths = 1
  MaxAttempts = 3
INVARIANTS
  RebuildIsSound
  AttemptsAreCounted
  AdmissionIsClean
  CredentialsStayHome
CHECK_DEADLOCK FALSE
