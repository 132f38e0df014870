CONSTANTS
  srv = srv  grp = grp  vol = vol  sub = sub  gw = gw  vpc = vpc  key = key
  osub = osub  ovpc = ovpc  hex = hex  bare = bare  lg = lg
  Items <- MCItems
  Kind <- MCKind
  Owner <- MCOwner
  Nature <- MCNature
  Holds <- MCHolds
  Accounts <- MCConvergedAccounts
  Modes <- MCModes
  Rounds = 3
  Attempts = 2
  MaxTrouble = 1
SPECIFICATION SweepSpec
INVARIANTS ConvergedHarmless
CHECK_DEADLOCK FALSE
