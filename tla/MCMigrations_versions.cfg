SPECIFICATION FairSpec
CONSTANTS
    MaxKills = 3
INVARIANTS
    TypeOK
    StampTellsTheTruth
PROPERTIES
    RowsKept
    UpgradeReachesHead
