SPECIFICATION Spec
CONSTANTS
    Decls = {"a", "b"}
    Parts <- MCParts
    BitsOf <- MCBitsOf
    Whole = "all"
    None = "none"
    Tokens = {"t1", "t2", "t3"}
    Places = {"p"}
    Scopes = {"module", "loop"}
    Designs <- MCDesigns
INVARIANTS
    TypeOK
    ReadersKeepTheirDrivers
    GraphFollowsParts
    SplitSignalsResolve
