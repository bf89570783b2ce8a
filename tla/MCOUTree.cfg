SPECIFICATION MCSpec
CONSTANTS
  v1 = v1
  v2 = v2
  l1 = l1
  a1 = a1
  lab = lab
  team = team
  old = old
  attic = attic
  People = People
  Vends = {v1, v2}
  Lists = {l1}
  Accounts = {a1}
  Names = {lab, team, old, attic}
  Found <- const_Found
  Inputs <- const_Inputs
  Base <- const_Base
  Unlucky = {v2}
  Creatable = {team}
  Renamable = {old, attic}
  Deletable = {old}
  Moves <- const_Moves
  MaxOUDepth = 2
  MaxByPeople = 3
  MaxCommands = 2
INVARIANTS
  TypeOK
  SamePathSameOU
  NoHalfPath
  NoFalseAlarm
  ListedOnce
  PlanHolds
PROPERTIES
  CommandsEnd
CHECK_DEADLOCK FALSE
