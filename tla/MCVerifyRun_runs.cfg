\* With every finding judged the command has nothing to do, and nobody starts it.
CHECK_DEADLOCK FALSE
SPECIFICATION FairSpec
CONSTANTS
    Finding <- MCFinding
    Opinion <- MCOpinion
    null = null
    scrap = scrap
    noArray = noArray
    Provider = "gemini"
    Rpm = 2
    Batch = 2
    Attempts = 6
    TimeStep = 10
INVARIANTS
    JudgedInOrder
    OwnVerdict
    RateKept
    TransientRetried
PROPERTIES
    RunEnds
    ImplementsStore
