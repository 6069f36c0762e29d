SPECIFICATION Spec
CONSTANT MaxRoutes = 3
INVARIANTS
  ReturnIsClean
PROPERTIES
  DialSettles
CHECK_DEADLOCK FALSE
