\* A directory and a node in it, and one user.
CONSTANTS
  Nodes = {n1, n2}
  NoNode = NoNode
  Types = {"dir", "int32", "string", "text", "seqfile"}
  Threads = {t1}
  MaxText = 2
SPECIFICATION Spec
INVARIANT ModeIsSimulated
CHECK_DEADLOCK FALSE
