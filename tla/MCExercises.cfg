SPECIFICATION Spec
CONSTANTS
    Inputs <- MCInputs
    RangeMax = 4
INVARIANTS
    TestsPass
    AnswersRight
CHECK_DEADLOCK FALSE
