CONSTANTS
  OwnRun = {"demo", "smoke", "e2e"}
  OwnScript <- OfItsName
  SharedRun = {"s1", "s2"}
  Nobody = "nobody"
  MaxStackFaults = 2
  MaxRestarts = 1
  MaxInterrupts = 2
  MaxLostRequests = 2
  MaxHealthPolls = 3
  Router = {"leaf"}
  Host = {"host"}
  Order <- LeafThenHost
  Starts <- ThreeFabrics
  MaxFabricChanges = 1
  MaxCommandFaults = 1
SPECIFICATION ScriptsSpec
INVARIANTS
  ScriptsTypeOK
  
  
  
PROPERTIES
  PassesOnItsOwn
  ScenarioEnds
CHECK_DEADLOCK FALSE
