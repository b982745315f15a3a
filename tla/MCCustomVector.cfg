CONSTANTS
    Vectors = {v1, v2}
    Buffers = {b1, b2, b3}
    Values = {x, y}
    Raw = Raw
    NULL = NULL
    MaxCapacity = 4
SYMMETRY Symmetry
SPECIFICATION Spec
INVARIANTS TypeOK LifetimesBalanceWithoutThrows StorageIndependent OnlyCopyAssignLeaks
PROPERTY OthersUntouched
