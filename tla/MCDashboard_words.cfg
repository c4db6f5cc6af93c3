SPECIFICATION FairSpec
CONSTANTS
    Readme <- MCReadme
    Blocks <- MCBlocks
    Piece <- MCPiece
    Lower <- MCLower
    Knows <- MCKnows
    Noise <- MCNoise
    Org <- MCOrg
    OrgOf <- MCOrgOf
    none = none
    START = 1
    STEP = 2
    Bounded = TRUE
INVARIANTS
    RowsStandInReadme
    RowsSumUpHits
    ScannedCoversList
PROPERTIES
    EveryRowReached
