\* Two threads with three entries or objects, two lists, two nodes, one handle
\* and four pages: enough for a call of one thread to be overtaken by whole
\* calls of another, and for lists to have a middle.
CONSTANTS
  Threads = {a1, a2}
  Lists = {a1, a2}
  Nodes = {a1, a2}
  NoThread = NoThread
  NoNode = NoNode
  NULL = NULL
  Entries = {e1, e2, e3}
  Objects = {e1, e2, e3}
  Poison = Poison
  Reserved_list = Reserved_list
  Data = Data
  MaxCall = 2
  Types = {"dir", "int32", "string", "text", "seqfile"}
  MaxText = 2
  Handles = {h1}
  Pages = {1, 2, 3, 4}
  MaxArray = 3
  MaxWired = 2
  Letter = 17
  MaxString = 2
  Devices = {1, 2}
  TimeWidth = 4
  ByteBase = 4
  HighBytes = {0, 1, 128, 170, 255}
  FieldByte = 3
SYMMETRY Symmetric
SPECIFICATION Spec
INVARIANTS
  LibraryTypes
  LinksAgree
  NoHandlerOnGone
  SizeTold
  NothingKept
  AlgorithmsAgree
PROPERTIES
  ImplementsStack
  ImplementsSequences
CHECK_DEADLOCK FALSE
