CONSTANTS
  i1 = i1
  g1 = g1  g2 = g2
  p1 = p1  p2 = p2
  bgp = bgp
  NoRow = NoRow
  NoRequest = NoRequest
  Incident = {i1}
  Fingerprint = {bgp}
  Get = {g1, g2}
  NoDevice = "none"
  RequestId = {1, 2}
  MaxFailures = 1
  MaxWorkspaceFailures = 1
  MaxRefreshes = 1
  CycleId = {1, 2}
  Post = {p1}
  MaxTime = 2
  MaxCount = 1
  MaxClicks = 2
  MaxCollections = 1
  Device = {"d1"}
  MaxVersion = 0
  MaxSubmits = 2
SPECIFICATION BrowserFairSpec
INVARIANTS
  OneSubmission
PROPERTIES
  PagesSettle
