\* Two threads and every kind of operation, under fairness.
\* All threads may wait for states nobody will set.
CONSTANTS
  Threads = {t1, t2}
  NoThread = NoThread
  Top = 2
  Width = 2
  Numbers <- SomeNumbers
  Handled <- SomeResults
  Ops <- SomeOps
SPECIFICATION FairSpec
INVARIANTS
  IInv
PROPERTIES
  LockedComparesInStep
  ImplementsCell
  WaitEnds
CHECK_DEADLOCK FALSE
