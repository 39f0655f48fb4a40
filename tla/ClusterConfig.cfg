SPECIFICATION FairSpec
CONSTANTS
    Cluster = {c1, c2}
    Namespaced = {n1}
    Services = {s1}
    Retries = 2
    OkResponses = 2
    MaxRuns = 1
    MaxChanges = 4
    MaxEdits = 2
INVARIANTS
    ConfiguredMeansApplied
    OutcomeIsTrue
    PatchesAreCaused
PROPERTIES
    KeepsEdits
    AddressIsSet
CHECK_DEADLOCK FALSE
