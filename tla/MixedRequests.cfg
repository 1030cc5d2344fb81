CONSTANTS
  t1 = t1  c1 = c1  c2 = c2  o1 = o1
  i1 = i1  i2 = i2  i3 = i3  i4 = i4
  cpu = cpu  peer1 = peer1  peer2 = peer2
  k1 = k1  k2 = k2
  NoRow = NoRow
  Nobody = Nobody
  NoState = NoState
  Session <- MCSession
  TelemetrySession = {t1}
  CollectorSession = {c1, c2}
  OperatorSession = {o1}
  Fingerprint = {cpu, peer1}
  BgpFingerprint = {peer1}
  Registered = {cpu, peer1}
  Incident = {i1, i2, i3}
  CollectionId = {k1, k2}
  MaxTime = 2
  MaxRequests = 4
SYMMETRY CollectorSymmetry
SPECIFICATION Spec
INVARIANTS
  TypeOK
  OneOpenPerFingerprint
  RowsChronological
  IdleHoldsNothing
  SuppressedMeansStale
  StoredWhole
  EstablishedHasNoOpenIncident
PROPERTIES
  FollowsLifecycle
  LatestStateAdvances
  ReplayChangesNothing
