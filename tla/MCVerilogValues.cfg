CONSTANTS
    IntWidth = 4
    Vectors <- MCVectors
    Parameters <- MCParameters
    Genvars <- MCGenvars
    NewBit = "0"
    Valuations <- MCValuations
    Sources <- MCSources
SPECIFICATION Spec
INVARIANTS ValuesKeepTheirMeaning SlicesFollowTheirVector
CHECK_DEADLOCK FALSE
