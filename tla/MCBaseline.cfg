SPECIFICATION FairSpec
CONSTANTS
    r1 = r1
    r2 = r2
    east = east
    west = west
    policy = policy
    Runs = {r1, r2}
    Unlucky = {r2}
    Asked <- const_All
    Enable <- const_Enable
    Disable <- const_Disable
    Stubs <- const_Stubs
    Found <- const_Found
    MaxPolls = 2
INVARIANTS
    DoneMeansInForce
PROPERTIES
    FreezesOnlyFinished
    AloneCompletes
CHECK_DEADLOCK FALSE
