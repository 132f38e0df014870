CONSTANTS
  subnet = subnet  peering = peering
  vS = vS  vA = vA  vB = vB  net = net  none = none  grp = grp
  b0 = b0  b1 = b1
  NoGroup = none
  Lifecycles <- MCLifecycles
  Program <- PolledProgram
  Vpcs <- MCVpcs
  InVpc <- MCInVpc
  BudgetOf <- MCBudgetOf
  UsedBefore <- MCUsedBefore
  Cap = 3
  Residents = 1
SPECIFICATION Spec
INVARIANT VpcsWithinCap
CHECK_DEADLOCK FALSE
