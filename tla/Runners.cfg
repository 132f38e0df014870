\* The dynamic scheduler: a cap of 3 and one shared VPC, two slots for three
\* lifecycles.  The native runner: three VPCs, two threads.  The waves: a pool of
\* two threads.
CONSTANTS
  sc1 = sc1  sc2 = sc2  sc3 = sc3  adopter = adopter  free = free
  n1 = n1  n2 = n2  n3 = n3  n4 = n4
  Nodes <- MCNodes
  SlotNodes <- MCSlotNodes
  Heavy <- MCHeavy
  Rank <- MCRank
  Workers = {w1, w2, w3}
  NoNode = NoNode
  NoWorker = NoWorker
  Cap = 3
  SharedVpcs = 1
  Selections <- MCSelections
  NativeThreads = {t1, t2}
  VpcLimit = 3
  MaxPolls = 2
  LeafSets <- MCLeafSets
  PoolSize = 2
  LimitLo = 1
  LimitStart = 2
  MaxAdjusts = 2
  Steps <- MCSteps
  MaxTries = 3
  Rungs = 2
  MaxRounds = 3
  MaxRefires = 1
  p1 = p1  p2 = p2  stopA = stopA  stopB = stopB  nobody = nobody
SPECIFICATION RunnersSpec
INVARIANTS TypeOK CapSafe RunOnce SharedWhileRunning CapKept MadeOnce PassedIsReady
PROPERTIES PoolSpec RunnersEnd SkipEnds
\* A run comes to its end.
CHECK_DEADLOCK FALSE
