\* As VpcSemaphore.cfg, with crashes also between the truncation of the state
\* file and its write.
CONSTANTS
  Procs = {p1, p2, p3}
  NoProc = NoProc
  Cap = 2
  Residents = 1
  MaxHold = 1
  MaxTokens = 1
  CrashTears = TRUE
SPECIFICATION Spec
INVARIANT SlotCap
CHECK_DEADLOCK FALSE
