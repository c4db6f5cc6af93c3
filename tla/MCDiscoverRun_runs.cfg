SPECIFICATION FairSpec
CONSTANTS
    Org <- MCOrg
    Repo <- MCRepo
    OrgOf <- MCOrgOf
    Rules <- MCRules
    Defaults <- MCDefaults
    Unset = Unset
    Versions <- MCVersions
    absent = absent
    AtGitHub <- MCAtGitHub
    PageSize = 1
    Workers = 2
    Broken = {3}
    MaxChanges = 1
    MaxFaults = 1
INVARIANTS
    TypeOK
    PointsExact
    CompleteRunMissesNothing
    RowsInScope
PROPERTIES
    IdsStand
    TableCatchesUp
