SPECIFICATION Spec
CONSTANTS
    Repo = {r1, r2}
    NoAsset = NoAsset
    Flaky = {"restore"}
    MaxFaults = 1
PROPERTIES
    ProgressPersists
