SPECIFICATION FairSpec
CONSTANTS
    auto = auto
    admin = admin
    user = user
    east = east
    west = west
    Unrestricted = Unrestricted
    Actions = {1, 2, 3, 4, 5, 6}
    ServiceOf <- const_ServiceOf
    Regions = {east, west}
    Principals = {auto, admin, user}
    Automation = auto
    Admin = admin
    PortRule = "PORTS"
    PortSlots <- const_PortSlots
    Values = {0, 1, 2, 3}
    Artifacts <- const_Artifacts
    Baseline = "protection"
    Shipped <- const_Shipped
    Logical <- const_Logical
    MaxInputs = 4
    MaxSignatures = 2
    MaxExempt = 2
    MaxPath = 2
    Docs <- const_Docs
    OverrideFiles <- const_OverrideFiles
    Body = 1
    Envelope = 1
    Usable = 8
    MaxPolicies = 4
INVARIANTS
    PoliciesDenyExactly
    RulesPermitExactly
    ConflictsAreReal
    GroupsAreComponents
    ReadBackIsWhatBinds
PROPERTIES
    CompileEnds
