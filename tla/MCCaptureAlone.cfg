\* A run ends: there is nothing left to do after it.
CHECK_DEADLOCK FALSE
SPECIFICATION Spec
CONSTANTS
  w1 = w1
  w2 = w2
  m = m
  Main = m
  Worker <- MCWorker
  Steps <- MCAlone
  Timed <- MCAloneTimed
  MaxInterrupts = 1
INVARIANT NothingOutlives
