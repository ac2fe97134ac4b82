\* The comments at the comparisons, against what they do.
\* All threads may wait for states nobody will set.
CONSTANTS
  Threads = {t1, t2}
  NoThread = NoThread
  Top = 2
  Width = 2
  Numbers <- SomeNumbers
  Handled <- SomeResults
  Ops <- SomeOps
SPECIFICATION Spec
PROPERTY ComparesInStep
CHECK_DEADLOCK FALSE
