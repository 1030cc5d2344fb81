CONSTANTS
  s1 = s1  s2 = s2  r1 = r1  r2 = r2
  router1 = router1  router2 = router2
  acl1 = acl1  acl2 = acl2
  i1 = i1  i2 = i2  i3 = i3  i4 = i4
  cisco = cisco  arista = arista  frr = frr
  NoRow = NoRow
  Nobody = Nobody
  NoDevice = NoDevice
  FRR = frr
  Session <- MCSession
  SubmitSession = {s1, s2}
  RegisterSession = {}
  Device = {router1}
  LabRouters <- MCOneRouter
  SubmitVendor = {cisco}
  Fingerprint = {acl1}
  PolicyFingerprint <- MCFirstRouterPolicy
  Incident = {i1}
  MaxTime = 3
  MaxRequests = 3
SPECIFICATION Spec
INVARIANTS
  NoIntegrityErrorEscapes
