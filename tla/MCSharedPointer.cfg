CONSTANTS
    Threads = {t1, t2}
    Handles = {h1, h2, h3}
    Objects = {o1, o2}
    Blocks = {b1, b2}
    NULL = NULL
    MaxCount = 5
SYMMETRY Symmetry
SPECIFICATION Spec
INVARIANTS IInv CountIsSharers NoUseAfterFree NoLeak
PROPERTY CountReported
