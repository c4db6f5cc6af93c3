SPECIFICATION FairSpec
CONSTANTS
    wil = wil
    teh = teh
    aks = aks
    hve = hve
    Token <- MCToken
    Snapshot <- MCSnapshot
    Finding <- MCFinding
    SnapOf <- MCSnapOf
    Score <- MCScore
    TokenOf <- MCTokenOf
    ContextRule <- MCContextRule
    SnippetRule <- MCSnippetRule
    Proc = {p1}
    Limits = {0, 1}
    Batch = 1
    Unanswerable = {wil}
    MaxInterventions = 3
INVARIANTS
    TypeOK
    ConfirmedIffTypo
    RejectionExplained
PROPERTIES
    VerdictsStand
    ImplementsLifecycle
    EverySnapshotChecked
    EveryFindingSettled
