\* A cap of 3 that the three shared VPCs (main, vpc#a, vpc#b) use up: no slot.
CONSTANTS
  sc1 = sc1  sc2 = sc2  sc3 = sc3  adopter = adopter  free = free
  Nodes <- MCNodes
  SlotNodes <- MCSlotNodes
  Heavy <- MCHeavy
  Rank <- MCRank
  Workers = {w1, w2, w3}
  NoNode = NoNode
  NoWorker = NoWorker
  Cap = 3
  SharedVpcs = 3
SPECIFICATION FairSpec
PROPERTY AllRun
CHECK_DEADLOCK FALSE
