\* A run ends: there is nothing left to do after it.
CHECK_DEADLOCK FALSE
SPECIFICATION FairSpec
CONSTANTS
  w1 = w1
  w2 = w2
  m = m
  Main = m
  Worker <- MCWorker
  Steps <- MCSteps
  Timed <- MCTimed
  MaxInterrupts = 1
INVARIANTS StoppedIsGone CompleteOutput NoneEscapes
PROPERTY CapturesEnd
