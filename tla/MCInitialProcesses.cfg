SPECIFICATION HifSpec
CONSTANTS
    Objects <- MCObjects
    Designs <- MCDesigns
INVARIANT TypeOK
PROPERTIES
    ImplementsVerilog
    ProcessesProceed
    NoTriggerBeforeStart
\* A module of initial blocks only stops.
CHECK_DEADLOCK FALSE
