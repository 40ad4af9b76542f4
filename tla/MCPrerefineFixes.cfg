SPECIFICATION Spec
CONSTANTS
    Decls = {"o", "q", "x"}
    Assigns = {"a", "b", "c"}
    Watchers = {"w"}
    Designs <- MCDesigns
INVARIANTS
    TypeOK
    PortsAreAssignedByProcesses
    MadeProcessesWakeOnReads
    ReplacedPortsAreFixed
    TemporariesAreBlocking
