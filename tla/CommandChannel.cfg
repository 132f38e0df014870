CONSTANTS
  w1 = w1  w2 = w2  lcA = lcA  lcB = lcB  nobody = nobody
  Workers = {w1, w2}
  Lifecycles = {lcA, lcB}
  Nobody = nobody
  Stores = {"db", "local"}
  MaxRows = 2
SYMMETRY Alike
SPECIFICATION Spec
INVARIANTS TypeOK AppliedOnce AckMeansSkipped
PROPERTIES AbortObeyed
CHECK_DEADLOCK FALSE
