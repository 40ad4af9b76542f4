SPECIFICATION Spec
CONSTANTS
  CommandLines <- Projects
  SystemFunctions <- MCSystemFunctions
INVARIANTS
  PortsAreComplete
  NamesMeanTheirDeclarations
  SymbolsResolve
  DelaysAreScaled
  AmsUnitsAreMarked
CHECK_DEADLOCK FALSE
