SPECIFICATION Spec
CONSTANTS
    wil = wil
    teh = teh
    aks = aks
    hve = hve
    Token <- MCToken
    Snapshot <- MCSnapshot2
    Finding <- MCFinding2
    SnapOf <- MCSnapOf2
    Score <- MCScore2
    TokenOf <- MCTokenOf2
    ContextRule <- MCContextRule2
    SnippetRule <- MCSnippetRule2
    Proc = {p1}
    Limits = {0}
    Batch = 1
    Unanswerable = {}
    MaxInterventions = 0
INVARIANTS
    FailingFindingsRejected
