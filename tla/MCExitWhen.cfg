SPECIFICATION Spec
CONSTANTS
  Constructs <- ExitConstructs
  MaxEvents = 9
PROPERTIES
  DoesWhatItMeans
CHECK_DEADLOCK FALSE
