\* Two bios over one fbio under fairness: every wait ends, and the abstract
\* service is implemented, its fairness included.
CONSTANTS
  Bios = {b1, b2}
  Fbios = {f1}
  Requests <- FewRequests
  MapErrors <- AnyMapErrors
  DeviceErrors <- OneDeviceError
  NoBio = NoBio
  NoFbio = NoFbio
  NoThread = NoThread
  Submitter = Submitter
SPECIFICATION FairSpec
PROPERTIES
  DestroyEnds
  ImplementsFairService
