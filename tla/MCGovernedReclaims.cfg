SPECIFICATION MCSpec
CONSTANTS
  a1 = a1
  a2 = a2
  v1 = v1
  v2 = v2
  v3 = v3
  r1 = r1
  r2 = r2
  r3 = r3
  ou = ou
  control = control
  protect = protect
  floor = floor
  Root = Root
  NoRun = NoRun
  Vends = {v2}
  Reclaims = {r1, r2, r3}
  Accounts = {a1, a2}
  OUs = {ou}
  Names = {control, protect, floor}
  Documents <- MCDocuments
  Of <- MCOf
  OUOf <- MCOUOf
  Specs <- MCSpecs
  Compiled <- MCCompiled
  Institutional = {floor}
  Movable = {}
  Unlucky = {r1}
  Quota = 2
INVARIANTS
  Governed
  BareBeforeClose
PROPERTIES
  OnlyLateSiblingsStripped
  ReclaimsClose
CHECK_DEADLOCK FALSE
