CONSTANTS
    i = i  x = x  y = y  z = z
    p = p  q = q  l = l  w = w
    Decls <- MCDecls
    Acts <- MCActs
    Designs <- WaitConditionDesigns
SPECIFICATION Step3Spec
PROPERTY Termination
