\* Two cards, loads and unloads; a system may be shut down for good.
CONSTANT Devices = {d1, d2}
SPECIFICATION Spec
INVARIANTS
  IInv
  LeavesNothing
  CoreIsBacked
  DriverIsUp
CHECK_DEADLOCK FALSE
