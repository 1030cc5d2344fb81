------------------------------ MODULE MCScripts ------------------------------
(***************************************************************************)
(* Small instances of the scripts around the platform: the three that run  *)
(* it in Docker Compose, the link-failure scenario of the lab, the         *)
(* collector of its operational state, and the telemetry simulator.  They  *)
(* share no state, so one is explored at a time while the others rest      *)
(* where they begin.                                                       *)
(***************************************************************************)
EXTENDS Naturals, Sequences

CONSTANTS OwnRun, OwnScript, SharedRun, Nobody, MaxStackFaults, MaxRestarts, MaxInterrupts, MaxLostRequests,
          MaxHealthPolls, Router, Host, Order, Starts, MaxFabricChanges, MaxCommandFaults

VARIABLES
  script,  \* the one that is explored
  stack, port, stackStep, phase, result, seen, cleaned, faults,
  link, fabric, runtime, pc, part, observed, problems, failure, injected, restored, before,
  phases, exit, interrupts,
  samples, incidents, scenario, step, kept, outcome, issued, lost,
  mode, fact, since, registered, latest, at, command, read, changes,
  collectPc, stored, collectExit, commandFaults

stackVars == <<stack, port, stackStep, phase, result, seen, cleaned, faults>>
labVars == <<link, fabric, runtime, pc, part, observed, problems, failure, injected, restored,
             before, phases, exit, interrupts>>
suiteVars == <<samples, incidents, scenario, step, kept, outcome, issued, lost>>
collectVars == <<mode, fact, since, registered, latest, at, command, read, changes,
                 collectPc, stored, collectExit, commandFaults>>
all == <<script, stackVars, labVars, suiteVars, collectVars>>

(* Runs on a project of their own, and smoke tests of the default project. *)
StackRun == OwnRun \cup SharedRun

ScriptOf == [r \in StackRun |-> IF r \in OwnRun THEN OwnScript[r] ELSE "smoke"]
ProjectOf == [r \in StackRun |-> IF r \in OwnRun THEN r ELSE "meta-rne-smoke"]

Stacks == INSTANCE StackScripts WITH
  Run <- StackRun, Raises <- {"smoke", "e2e"}, MaxFaults <- MaxStackFaults, step <- stackStep

(* One of each. *)
OfItsName == [r \in {"demo", "smoke", "e2e"} |-> r]

Lab == INSTANCE LabFailureScenario

(* One collection of the fabric. *)
Collection == INSTANCE Collector WITH
  MaxChanges <- MaxFabricChanges, MaxFaults <- MaxCommandFaults,
  pc <- collectPc, kept <- stored, exit <- collectExit, faults <- commandFaults

(* Fabrics where all is well, a link is down, or the interfaces are gone:  *)
(* they are the values of Starts, so they do not use the instance.         *)
Fabric(interface, session, route, ping) ==
  [x \in ((Router \cup Host) \X {"interface"}) \cup (Router \X {"session", "route"}) \cup (Host \X {"ping"}) |->
     CASE x[2] = "interface" -> interface [] x[2] = "session" -> session
       [] x[2] = "route" -> route [] OTHER -> ping]

WellFabric == Fabric("UP", "Established", "ecmp", "all")
ThreeFabrics == {WellFabric, Fabric("LOWERLAYERDOWN", "Idle", "single", "some"),
                 Fabric("gone", "Active", "inactive", "none")}
LeafThenHost == <<"leaf", "host">>

FullSuite == <<"normal", "cpuHigh", "cpuUpdate", "linkFlap", "bgpDown", "allAnomalies", "resolvedRecurrence">>

(* Two simulators whose requests all arrive. *)
Together == INSTANCE TelemetryScenarios WITH
  Interface <- {"ge1"}, Neighbor <- {"peer"}, Cpu <- {50, 95}, MaxTime <- 10, FlapCount <- 4, FlapWindow <- 6,
  Simulator <- {"s1", "s2"}, RunIdOf <- [s \in {"s1", "s2"} |-> s], Suite <- FullSuite,
  MaxLost <- 0, MaxHealth <- 1

(* One whose requests may be lost. *)
Alone == INSTANCE TelemetryScenarios WITH
  Interface <- {"ge1"}, Neighbor <- {"peer"}, Cpu <- {50, 95}, MaxTime <- 10, FlapCount <- 4, FlapWindow <- 6,
  Simulator <- {"s1"}, RunIdOf <- [s \in {"s1"} |-> s], Suite <- FullSuite,
  MaxLost <- MaxLostRequests, MaxHealth <- MaxHealthPolls

ASSUME ScriptsAssumption ==
  /\ OwnRun \cap SharedRun = {} /\ "meta-rne-smoke" \notin OwnRun /\ OwnScript \in [OwnRun -> Stacks!Script]
  /\ Stacks!ScriptConstants /\ Lab!ScenarioConstants
  /\ Together!RuleConstants /\ Together!SimulatorConstants /\ Together!SuiteConstants
  /\ Alone!SimulatorConstants /\ Collection!CollectorConstants

ScriptsInit ==
  /\ script \in {"stacks", "smokes", "lab", "together", "alone", "collect"}
  /\ Stacks!Init
  /\ \A p \in DOMAIN stack :
       script # (IF p = "meta-rne-smoke" THEN "smokes" ELSE "stacks") => stack[p] = Stacks!Gone
  /\ Lab!Init
  /\ IF script = "together" THEN Together!Init ELSE Alone!Init
  /\ Collection!Init
  /\ script # "collect" => mode = "collect" /\ fact = WellFabric /\ registered = {}

RunsStacks(A) == script = "stacks" /\ A /\ UNCHANGED <<script, labVars, suiteVars, collectVars>>
RunsSmokes(A) == script = "smokes" /\ A /\ UNCHANGED <<script, labVars, suiteVars, collectVars>>
RunsLab(A) == script = "lab" /\ A /\ UNCHANGED <<script, stackVars, suiteVars, collectVars>>
RunsTogether(A) == script = "together" /\ A /\ UNCHANGED <<script, stackVars, labVars, collectVars>>
RunsAlone(A) == script = "alone" /\ A /\ UNCHANGED <<script, stackVars, labVars, collectVars>>
RunsCollection(A) == script = "collect" /\ A /\ UNCHANGED <<script, stackVars, labVars, suiteVars>>

ScriptsNext ==
  \/ \E r \in OwnRun : RunsStacks(Stacks!Proceed(r))
  \/ \E r \in SharedRun : RunsSmokes(Stacks!Proceed(r))
  \/ RunsLab(Lab!Next)
  \/ RunsTogether(Together!Next) \/ RunsAlone(Alone!Next)
  \/ RunsCollection(Collection!Next)

(* The lab script runs: its commands time out and its polls have           *)
(* deadlines.  Nothing is assumed of the fabric, and no error or interrupt *)
(* need ever happen.                                                       *)
ScriptsSpec == ScriptsInit /\ [][ScriptsNext]_all /\ WF_all(RunsLab(Lab!Step))

-----------------------------------------------------------------------------
(* Every variable of the scripts has its type. *)
ScriptsTypeOK == Lab!TypeOK /\ Collection!TypeOK /\ Stacks!TypeOK

(* A run that ends leaves nothing of its project unless it says so, and    *)
(* what is announced is there.                                             *)
EndsAsReported == Stacks!NothingLeft /\ Stacks!VerifiedMeansGone /\ Stacks!AnnouncedMeansReady

(* A smoke test passes on its own submissions. *)
PassesOnItsOwn == [][Stacks!PassesAlone]_all

(* The link of the lab is put back, or the exit code of the scenario says  *)
(* that it may not be; and a collection says of the lab only what was so,  *)
(* leaves nothing out, and its exit code says what is stored.              *)
LabAsReported ==
  /\ Lab!NotLeftDown /\ Lab!CodesTellTheTruth
  /\ Collection!SaysWhatWasSo /\ Collection!NothingLeftOut /\ Collection!CodesTellWhatIsStored

(* The scenario ends, whatever the fabric does. *)
ScenarioEnds == script = "lab" => Lab!Ends

(* Scenarios fail for lost requests only, and what passed is stored. *)
SuitesAsReported ==
  /\ script = "together" => Together!FailsOnlyForLoss
  /\ script = "alone" => Alone!PassedMeansStored /\ Alone!MeasuredSuite
=============================================================================
