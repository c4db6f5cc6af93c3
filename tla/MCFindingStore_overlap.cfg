SPECIFICATION Spec
CONSTANTS
    wil = wil
    teh = teh
    aks = aks
    hve = hve
    Token <- MCToken
    Snapshot <- MCSnapshot2
    Finding <- MCFinding2
    SnapOf <- MCSnapOf2
    Score <- MCScore2
    TokenOf <- MCTokenOf2
    ContextRule <- MCContextRule2
    SnippetRule <- MCSnippetRule2
    Proc = {p1, p2}
    Limits = {0}
    Batch = 2
    Unanswerable = {}
    MaxInterventions = 1
SYMMETRY MCSymmetry
INVARIANTS
    RowsFollowChecks
    DecisionHasEvidence
