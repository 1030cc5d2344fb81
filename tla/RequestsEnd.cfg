CONSTANTS
  t1 = t1  c1 = c1  c2 = c2  o1 = o1
  i1 = i1  i2 = i2  i3 = i3  i4 = i4
  cpu = cpu  peer1 = peer1  peer2 = peer2
  k1 = k1  k2 = k2
  NoRow = NoRow
  Nobody = Nobody
  NoState = NoState
  Session <- MCSession
  TelemetrySession = {t1}
  CollectorSession = {c1}
  OperatorSession = {o1}
  Fingerprint = {peer1, peer2}
  BgpFingerprint = {peer1, peer2}
  Registered = {peer1, peer2}
  Incident = {i1, i2, i3, i4}
  CollectionId = {k1}
  MaxTime = 2
  MaxRequests = 3
SPECIFICATION FairSpec
PROPERTIES
  RequestsEnd
