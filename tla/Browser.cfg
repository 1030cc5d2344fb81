CONSTANTS
  i1 = i1
  g1 = g1  g2 = g2
  p1 = p1  p2 = p2
  bgp = bgp
  NoRow = NoRow
  NoRequest = NoRequest
  Incident = {i1}
  Fingerprint = {bgp}
  Get = {g1, g2}
  NoDevice = "none"
  RequestId = {1, 2}
  MaxFailures = 1
  MaxWorkspaceFailures = 1
  MaxRefreshes = 1
  CycleId = {1, 2}
  Post = {p1, p2}
  MaxTime = 2
  MaxCount = 2
  MaxClicks = 3
  MaxCollections = 2
  Device = {"d1", "d2"}
  MaxVersion = 1
  MaxSubmits = 0
SYMMETRY RequestSymmetry
SPECIFICATION BrowserSpec
INVARIANTS
  BrowserTypeOK
  OneResolveInFlight
  WaitingMeansRequested
  
PROPERTIES
  NeverOlderAgain
