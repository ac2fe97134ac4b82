\* Three entries, pages of two bytes, lists of up to four bytes and uio_size
\* counting to four, so that a second range wraps it: every load in up to
\* three segments, its slices and its enumerations between any calls on the
\* list.
CONSTANTS
  Threads = {t1, t2}
  NoThread = NoThread
  MaxVecs = 3
  Sizes = {0, 3}
  PageSize = 2
  WordSize = 5
SYMMETRY Symmetric
SPECIFICATION Spec
INVARIANTS
  MappedIsListed
  OneSpace
  NothingLeaks
  PagesTile
  ReadsInside
  MapIsExact
  WalkIsExact
PROPERTY GivenBackOnce
