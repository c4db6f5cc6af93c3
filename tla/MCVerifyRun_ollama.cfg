\* With every finding judged the command has nothing to do, and nobody starts it.
CHECK_DEADLOCK FALSE
SPECIFICATION Spec
CONSTANTS
    Finding <- MCFinding
    Opinion <- MCOpinion
    null = null
    scrap = scrap
    noArray = noArray
    Provider = "ollama"
    Rpm = 0
    Batch = 2
    Attempts = 6
    TimeStep = 10
INVARIANTS
    TransientRetried
