CONSTANTS
    Vectors = {v1, v2}
    Buffers = {b1, b2, b3, b4}
    Values = {x, y}
    Raw = Raw
    NULL = NULL
    MaxCapacity = 4
SPECIFICATION Spec
INVARIANT LifetimesBalance
