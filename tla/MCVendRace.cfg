SPECIFICATION FairSpec
CONSTANTS
    r1 = r1
    r2 = r2
    lab = lab
    workload = workload
    ou = ou
    None = None
    Root = Root
    Outside = Outside
    Runs = {r1, r2}
    Foreign = {}
    Emails = {lab}
    Names = {workload}
    OUs = {ou}
    Inputs <- const_Inputs
    Unlucky = {r1}
    Movable = {}
    Leftover = FALSE
    MaxPolls = 2
INVARIANTS
    TypeOK
    PlacedStaysPlaced
    EffectsLeaveARecord
PROPERTIES
    EveryRunEnds
    RerunCompletes
CHECK_DEADLOCK FALSE
