\* Three threads on a device that comes and goes.
CONSTANTS
  Threads = {t1, t2, t3}
  Results <- SomeResults
SPECIFICATION Spec
INVARIANTS
  CallsAreBacked
  OnlyTheRaceIsMissed
SYMMETRY Symmetric
