\* The claim of the comment at error_exit, against what the code does.
CONSTANTS
  Bios = {b1, b2}
  Fbios = {f1}
  Requests <- FewRequests
  MapErrors <- AnyMapErrors
  DeviceErrors <- OneDeviceError
  NoBio = NoBio
  NoFbio = NoFbio
  NoThread = NoThread
  Submitter = Submitter
SPECIFICATION Spec
INVARIANT ShortageIsRetried
