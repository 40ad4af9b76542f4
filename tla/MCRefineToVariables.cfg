CONSTANTS
    i = i  x = x  y = y  z = z
    p = p  q = q  l = l  w = w
    Decls <- MCDecls
    Acts <- MCActs
    Designs <- MCDesigns
SPECIFICATION Step3Spec
INVARIANTS
    RefineTypeOK
    ConesComputeTheirTarget
    ConeCallsAcyclic
    AccessesRefreshed
    ListsNameRoots
    WakesOnRoots
    KeptDriversAreConstant
    ShadowWritesPublished
    WatchersSeeSignals
    ShadowedNetsPublished
    ShadowReadersRefreshed
PROPERTIES
    DriversAreReplaced
    Step3Termination
