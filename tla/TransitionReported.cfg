CONSTANTS
  p1 = p1  p2 = p2  p3 = p3
  Process = {p1, p2, p3}
  Content = {"acl", "other"}
  NoPolicy = "none"
  N = 2
  Batch <- TwoVersions
  Unit = {"u1", "u2"}
  Device = {"router"}
  Snapshot = {"first"}
  NoSnapshot = "none"
  Free = "free"
  Session = {"s1", "s2"}
  Interface = {}
  Cpu = {0}
  FlapCount = 4
  FlapWindow = 1
  Readings <- PeerReadings
  Window = 2
  NoSample = NoSample
  MaxObserved = 1
  MaxIncidents = 1
  Neighbor = {"peer"}
  PeerState = {"established", "down"}
  MaxSampled = 2
  Cap = 2
  MaxSamples = 2
SPECIFICATION PersistenceSpec
CONSTRAINT Bounded
INVARIANTS
  TransitionReported
