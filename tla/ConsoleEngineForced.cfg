CONSTANTS
  r1 = r1
  r2 = r2
  s1 = s1
  s2 = s2
  c1 = c1
  Live <- MCLive
  Sim <- MCSim
  Forced <- MCForced
  Peak <- MCPeak
  CapVpcs = 3
  Scenarios <- MCForcedScenarios
SPECIFICATION ConsoleSpec
INVARIANTS SweepSparesRuns
CHECK_DEADLOCK FALSE
