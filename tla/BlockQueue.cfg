\* Three bios of every shape over two fbios: all interleavings and errors.
CONSTANTS
  Bios = {b1, b2, b3}
  Fbios = {f1, f2}
  Requests <- SomeRequests
  MapErrors <- AnyMapErrors
  DeviceErrors <- AnyDeviceErrors
  NoBio = NoBio
  NoFbio = NoFbio
  NoThread = NoThread
  Submitter = Submitter
SPECIFICATION Spec
INVARIANTS
  IInv
  OneOwner
  NothingLeftBehind
  NothingLeaks
  HonestAnswer
PROPERTIES
  ImplementsService
SYMMETRY Symmetric
