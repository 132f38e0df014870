CONSTANTS
  w1 = w1  w2 = w2  lcA = lcA  lcB = lcB  nobody = nobody
  Workers = {w1, w2}
  Lifecycles = {lcA, lcB}
  Nobody = nobody
  Stores = {"local"}
  MaxRows = 2
SPECIFICATION Spec
INVARIANTS LeftWaitIsSkipped
CHECK_DEADLOCK FALSE
