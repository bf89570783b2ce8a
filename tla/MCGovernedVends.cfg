SPECIFICATION MCSpecVends
CONSTANTS
  a1 = a1
  a2 = a2
  v1 = v1
  v2 = v2
  v3 = v3
  r1 = r1
  r2 = r2
  r3 = r3
  ou = ou
  control = control
  protect = protect
  floor = floor
  Root = Root
  NoRun = NoRun
  Vends = {v1, v2, v3}
  Reclaims = {}
  Accounts = {a1, a2}
  OUs = {ou}
  Names = {control, protect, floor}
  Documents <- MCDocuments
  Of <- MCOf
  OUOf <- MCOUOf
  Specs <- MCSpecs
  Compiled <- MCCompiled
  Institutional = {protect, floor}
  Movable = {a2}
  Unlucky = {v2}
  Quota = 2
INVARIANTS
  TypeOK
  CarriesWhatItCompiled
PROPERTIES
  ForeignUntouched
  VendsSucceed
CHECK_DEADLOCK FALSE
