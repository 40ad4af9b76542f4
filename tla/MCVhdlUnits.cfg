SPECIFICATION Spec
CONSTANT Sources <- MCSources
INVARIANTS
  AssociationsAreKept
  BodiesReachTheirUnits
CHECK_DEADLOCK FALSE
