\* Words of two bits, so that they wrap and are changed and changed back while
\* a loop of another thread is under way; every call that changes a word is a
\* loop.  One timer for two functions, two works, a delay below a tick and one
\* of two.  Three threads under a lock of each kind: one that wakes, or takes the
\* lock from, two that sleep.
CONSTANTS
  Width = 2
  Threads = {t1, t2}
  Loops = {"add_return", "exchange", "test_and_set", "test_and_clear"}
  Ops <- SomeOps
  Timers = {c1}
  Functions = {f1, f2}
  NULL = NULL
  Works = {w1, w2}
  Usecs = {3, 25}
  UsecPerSec = 20
  Hz = 2
  Kthreads = {k1, k2, k3}
SPECIFICATION FairSpec
INVARIANTS
  ServiceTypes
  DelIsFinal
PROPERTIES
  ImplementsCell
  ImplementsMonitor
  CallsReturn
  WorkIsServed
CHECK_DEADLOCK FALSE
