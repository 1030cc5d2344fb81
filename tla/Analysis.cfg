CONSTANTS
  InterfaceName = {"ge1", "ge2"}
  AclName = {"ACL", "101"}
  NeighborIp = {1, 2}
  None = None
  Corpora <- MCCorpora
  Required <- ExternalIn
  InterfaceFact = {"UP", "DOWN", "UNKNOWN", "MISSING"}
  BgpFact = {"IDLE", "CONNECT", "ESTABLISHED", "MISSING"}
  AddressFact = {"declared", "other", "unobserved"}
  RouteFact = {"absent", "unobserved"}
  PathFact = {"present"}
  ProbeFact = {"lost"}
  FlapCount = 3
  FlapWindow = 2
  FlapInterface = {"eth1"}
  FlapMaxTime = 4
  MaxFlapSamples = 5
  OutageNeighbor = {"peer"}
  OutageCpu = {90, 91}
  OutageMaxTime = 2
  MaxOutageSamples = 4
SPECIFICATION AnalysisSpec
INVARIANTS
  TextsAsWritten
  
  ConfidenceMatchesEvidence
  FlapsCounted
PROPERTIES
  LosingNeverConfirms
  RulesFollowObservations
CHECK_DEADLOCK FALSE
