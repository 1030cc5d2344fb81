CONSTANTS
  s1 = s1  s2 = s2  r1 = r1  r2 = r2
  router1 = router1  router2 = router2
  acl1 = acl1  acl2 = acl2
  i1 = i1  i2 = i2  i3 = i3  i4 = i4
  cisco = cisco  arista = arista  frr = frr
  NoRow = NoRow
  Nobody = Nobody
  NoDevice = NoDevice
  FRR = frr
  Session <- MCSession
  SubmitSession = {s1, s2}
  RegisterSession = {r1, r2}
  Device = {router1, router2}
  LabRouters <- MCTwoRouters
  SubmitVendor = {cisco}
  Fingerprint = {acl1}
  PolicyFingerprint <- MCFirstRouterPolicy
  Incident = {i1}
  MaxTime = 2
  MaxRequests = 3
SPECIFICATION FairSpec
INVARIANTS
  TypeOK
  StoredWhole
  LabRegisteredTogether
PROPERTIES
  DeviceIdentityFixed
  RequestsEnd
