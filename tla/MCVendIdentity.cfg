SPECIFICATION Spec
CONSTANTS
    r1 = r1
    r2 = r2
    foreign = foreign
    lab = lab
    team = team
    workload = workload
    sandbox = sandbox
    ou = ou
    otherOU = otherOU
    None = None
    Root = Root
    Outside = Outside
    Runs = {r1, r2}
    Foreign = {foreign}
    Emails = {lab, team}
    Names = {workload, sandbox}
    OUs = {ou, otherOU}
    Inputs <- const_Inputs
    Unlucky = {r2}
    Movable = {foreign, r1}
    Leftover = TRUE
    MaxPolls = 1
INVARIANTS
    SameAddressSameAccount
PROPERTIES
    OnlyNamedAccountsMove
CHECK_DEADLOCK FALSE
