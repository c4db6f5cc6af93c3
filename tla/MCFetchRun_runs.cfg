SPECIFICATION FairSpec
CONSTANTS
    Repo <- MCRepo
    Kind <- MCKind
    Workers = 2
    Limit = 0
    Quota = 2
    MaxFaults = 2
INVARIANTS
    TypeOK
    MarksTellTheTruth
    StopIsClean
    CompleteRunLosesNothing
PROPERTIES
    RunsEnd
    EveryReadmeFetched
