CONSTANTS
  r1 = r1  r2 = r2  s1 = s1  s2 = s2  c1 = c1
  Live <- MCLive
  Sim <- MCSim
  Forced <- MCForced
  Peak <- MCPeak
  CapVpcs = 3
  Scenarios <- MCScenarios
  q1 = q1  q2 = q2  x1 = x1  w1 = w1  w2 = w2
  srv = srv  grp = grp  vol = vol  sub = sub  gw = gw  vpc = vpc  key = key
  osub = osub  ovpc = ovpc  hex = hex  bare = bare  lg = lg
  Requests = {q1, q2}
  Outside = {x1}
  Workers = {w1, w2}
  Seconds = {1}
  Gates <- MCGates
  MaxWorkerFaults = 1
  Schedules <- MCSchedules
  Windows <- MCWindows
  MaxTime = 4
  MaxCronFaults = 2
  Offsets <- MCOffsets
  Grace = 2
  MaxWall = 5
  MaxLate = 2
  MaxLosses = 2
  Items <- MCItems
  Kind <- MCKind
  Owner <- MCOwner
  Nature <- MCNature
  Holds <- MCHolds
  Accounts <- MCAccounts
  Modes <- MCModes
  Rounds = 3
  Attempts = 2
  MaxTrouble = 1
SPECIFICATION PlatformSpec
INVARIANTS PlatformTypeOK Reservations EndSweepAlone ClaimedOnce SweptInTheEnd
INVARIANTS WindowLaunchedOnce LateAlertKept SweepHonest
PROPERTIES RecordsSettle OthersSpared WorkIsServed
\* Requests, windows and rounds are bounded: every part comes to an end.
CHECK_DEADLOCK FALSE
