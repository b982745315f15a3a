CONSTANTS
    Threads = {t1, t2}
    Handles = {h1, h2, h3}
    Objects = {o1}
    Blocks = {b1}
    NULL = NULL
    MaxCount = 5
SPECIFICATION FairSpec
PROPERTIES EventuallyReclaimed ImplementsOwnership
