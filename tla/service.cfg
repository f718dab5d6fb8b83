\* Two events of one signal_id, sent and sent again; an endpoint that is
\* silent or talks nonsense, a worker that ends, crashes.
SPECIFICATION FairSpec
CONSTANTS
  none = none
  e1 = e1
  e2 = e2
  q1 = q1
  Event = {e1, e2}
  SidOf <- OneSid
  Request = {q1}
  BeatEvery = 1
  Stale = 2
  Faults = {"silent", "garbled", "disk", "crash"}
INVARIANTS
  TypeOK
  HealthyMeansTrading
  AckedIsStored
PROPERTIES
  QueuedOnce
  StartupEnds
  ShutdownEnds
  AcceptedIsDecided
