SPECIFICATION FairSpec
CONSTANTS
    Repo = {r1, r2}
    NoAsset = NoAsset
    Flaky = {"restore", "command", "save", "timeout"}
    MaxFaults = 2
INVARIANTS
    TypeOK
    NothingHalfDone
    SavedIsPublished
PROPERTIES
    ProgressKept
    EverythingPublished
