SPECIFICATION Spec
CONSTANTS
  N = 3
  Refs <- MCRefs
  NoRef = NoRef
  Bounds = {"0", "n"}
  Template = Template
  Designs <- MCDesigns
INVARIANTS
  ShapesAreKept
CHECK_DEADLOCK FALSE
