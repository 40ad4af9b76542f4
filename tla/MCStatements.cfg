SPECIFICATION Spec
CONSTANTS
  Constructs <- MCConstructs
  MaxEvents = 9
PROPERTIES
  DoesWhatItMeans
CHECK_DEADLOCK FALSE
