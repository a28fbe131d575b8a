SPECIFICATION Spec
CONSTANTS
  r1 = r1
  r2 = r2
  r3 = r3
  Request = {r1, r2, r3}
  NoRequest = NoRequest
  Device = {"cpu", "cuda"}
  Crossing = FALSE
  UniflowFault = {"volume", "client", "abort", "cancel"}
  Overlap = FALSE
  GlooFault = {"volume", "client", "timeout", "reset"}
  Process = {"p", "q"}
  Name = {"k"}
  Part = {1, 2}
  Racing = FALSE
  ShmFault = {"volume", "client"}
  Groups = {0, 1, 2}
  Concurrent = FALSE
  NixlFault = {"volume", "abandon"}
SYMMETRY Requests
INVARIANTS PublishedPairsMeet TransfersReach HandshakesAreOwned TakesItsOwn ActiveIsHeld
PROPERTIES GetSeesLatest
CHECK_DEADLOCK FALSE
