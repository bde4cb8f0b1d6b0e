CONSTANTS
    Ells = {1, 2, 3, 4, 5, 6, 7, 8}
    SizesOf <- MCSizesOf
    WordBits = 8
    Vec = {v, w}
    Memory <- MCMemory
    Values = {1, 2}
    IndexLists <- MCIndexLists
    MaxCost = 6
SPECIFICATION Spec
CHECK_DEADLOCK FALSE
INVARIANT TypeOK
INVARIANT PaddingIsZero
PROPERTY ArithmeticIsExact
PROPERTY LoadNeverLies
