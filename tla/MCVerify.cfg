CONSTANTS
    Controls <- MCControls
    OUs = {"research", "archive"}
    Policies = {"automat-1"}
    Stubs = {"AT", "IR"}
    Dated = {"AT"}
    Buckets <- MCBuckets
    Stores <- MCStores
    Profiles <- MCProfiles
    Obligation <- MCObligation
    Files <- MCFiles
    Threshold = 3
    MaxKey = 3
    MaxCommands = 2
    MaxFaults = 2
    MaxLost = 1
SPECIFICATION Spec
INVARIANTS
    VerdictIsTrue
    NeverOverstates
PROPERTY
    MirrorsOnlyGrow
