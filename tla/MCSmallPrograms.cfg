SPECIFICATION Spec
CONSTANTS
    BufferSize = 3
    MaxRequest = 4
    Sources = {s1, s2}
    Garbage = garbage
    Pointers = {p1, p2, p3}
    Objects = {o1, o2, o3}
    Null = Null
    Absent = Absent
    MaxConnections = 5
    Attempts = 6
    MaxCalls = 5
    Texts = {"", "x"}
    Temps = {50, 60}
    Displays = {"phone", "window"}
    Colors <- MCColors
    Sprites <- MCSprites
    Messages <- MCMessages
    MaxBalls = 4
    Word = 64
    KSteps <- MCKSteps
    N = 3
    BookPrices = {1, 2}
    BookVolumes <- MCBookVolumes
    MaxPlaced = 3
    MaxSize = 3
    MaxInt = 6
    Symbols = {1, 2}
    Leaves <- MCLeaves
INVARIANTS
    SocketsInOrder
    OwnedOnce
    SlotsAccounted
    PromisesKept
    StructuresAgree
PROPERTY
    ServersEnd
CHECK_DEADLOCK FALSE
