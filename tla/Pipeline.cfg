CONSTANTS
  ep = ep  conn = conn  tvpc = tvpc  tsub = tsub  tep = tep  vol = vol  srv = srv
  na = na  nb = nb  nc = nc  nd = nd
  Edits = {e1, e2}
  Files = {"res", "frag", "oth"}
  Family <- MCFamily
  Model = "res"
  Fragment = "frag"
  MaxMishaps = 1
  Declared <- MCDeclared
  Task <- MCTask
  Orders <- MCOrders
  SubBlocks = 2
  Works <- MCWorks
  SlotBudget = 2
  Leftovers <- MCLeftovers
  InsideOf <- MCInsideOf
  ReapOrder <- MCReapOrder
  Nested = {conn}
  LeftVpcs = {tvpc}
  LeftSubnets = {tsub}
  LocalSelections <- MCSelections
  MaxLadder = 2
  Shards = {0, 1}
  Sessions = 2
  PerSession = 2
  MaxMisses = 1
  Emitters = {e1, e2}
  PerLifecycle = 2
  FlushEvery = 2
  MaxOutages = 1
  MaxClock = 1
  subnet = subnet  peering = peering
  vS = vS  vA = vA  vB = vB  net = net  none = none  grp = grp
  b0 = b0  b1 = b1
  NoGroup = none
  Lifecycles <- MCLifecycles
  Program <- MCProgram
  Vpcs <- MCVpcs
  InVpc <- MCInVpc
  BudgetOf <- MCBudgetOf
  UsedBefore <- MCUsedBefore
  Cap = 3
  Residents = 1
SPECIFICATION PipelineSpec
INVARIANTS TypeOK UnaddressedWithinCap ExitClean
INVARIANTS EditsSound PlanSound ForecastSound LeftForAReason RecordsKept
PROPERTIES LifecyclesEnd StopReclaims
\* Every stretch comes to an end.
CHECK_DEADLOCK FALSE
