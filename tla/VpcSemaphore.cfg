\* Three processes share two slots (a cap of 3 with one resident VPC); each may
\* own two tokens at a time and be granted two in all.  Crashes fall anywhere
\* but inside _write.  The system stops when every process is dead.
CONSTANTS
  Procs = {p1, p2, p3}
  NoProc = NoProc
  Cap = 3
  Residents = 1
  MaxHold = 2
  MaxTokens = 2
  CrashTears = FALSE
SPECIFICATION FairSpec
INVARIANTS TypeOK SlotCap LedgerExact
PROPERTIES PoolSpec NeverWedged
CHECK_DEADLOCK FALSE
