SPECIFICATION Spec
CONSTANTS
    k1 = k1
    k2 = k2
    alice = alice
    c1 = c1
    c2 = c2
    NoAuth = NoAuth
    Denominator = 10
    Keys = {k1, k2}
    Host <- MCHost
    Callers = {c1, c2}
    Scenario <- MCScenario
CHECK_DEADLOCK FALSE
INVARIANTS
  HitIsRight
  StoreIsSound
  InvalidationHolds
