SPECIFICATION Spec
CONSTANTS
    Units <- MCUnits
    Names = {"y", "n"}
    InstNames = {"k", "l", "m"}
    Designs <- MCDesigns
INVARIANTS
    TypeOK
    LeftoverIsUninstantiated
PROPERTY Termination
