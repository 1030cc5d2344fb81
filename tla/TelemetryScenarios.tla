------------------------- MODULE TelemetryScenarios -------------------------
(***************************************************************************)
(* The telemetry simulator against the API.  A simulator runs a suite of   *)
(* scenarios, each a fixed sequence of requests and of demands on their    *)
(* answers, on a device of its own; several simulators share a server.     *)
(* The server evaluates the rules on the samples of a device and keeps     *)
(* incidents; a request is one transaction.  A request may be lost, before *)
(* the server has executed it or after.  Time is counted in 10 seconds     *)
(* from BASE_TIMESTAMP.                                                    *)
(***************************************************************************)
EXTENDS RuleEngine

CONSTANTS
  Simulator,
  RunIdOf,    \* the run id of each simulator
  Suite,      \* the names of the scenarios it runs, in order
  MaxLost,    \* bound on the lost requests
  MaxHealth   \* bound on the polls of /health

SimulatorConstants ==
  /\ DOMAIN RunIdOf = Simulator
  /\ MaxLost \in Nat /\ MaxHealth \in Nat \ {0}
  /\ Cardinality(Interface) = 1 /\ Cardinality(Neighbor) = 1

Port == CHOOSE i \in Interface : TRUE
Peer == CHOOSE n \in Neighbor : TRUE

Anything == {"anything"}

-----------------------------------------------------------------------------
(* The requests of the scenarios.                                          *)
Configure == [op |-> "configure"]

Telemetry(at, cpu, link, bgp, expect) ==
  [op |-> "submit", expect |-> expect,
   sample |-> [at |-> at, reading |-> [cpu   |-> cpu,
                                       links |-> [i \in Interface |-> link],
                                       bgp   |-> [n \in Neighbor |-> bgp]]]]

CpuAt(at, expect) == Telemetry(at, 95, "absent", "absent", expect)
LinkAt(at, link, expect) == Telemetry(at, 50, link, "absent", expect)
BgpAt(at, cpu, bgp, expect) == Telemetry(at, cpu, "absent", bgp, expect)

(* _require_one_open_incident: of rule, the count-th observation. *)
OneOpen(rule, count) == [op |-> "oneOpen", rule |-> rule, count |-> count]

NoneStored == [op |-> "none"]
AllThree == [op |-> "allThree"]
Resolve == [op |-> "resolve"]
Recurred == [op |-> "recurred"]

Scenario == [
  normal   |-> <<Configure, LinkAt(1, "absent", {}), NoneStored>>,
  cpuHigh  |-> <<Configure, CpuAt(1, Anything), CpuAt(4, {"CPU_HIGH"}), OneOpen("CPU_HIGH", 1)>>,
  cpuUpdate |-> <<Configure, CpuAt(1, Anything), CpuAt(4, Anything), OneOpen("CPU_HIGH", 1),
                  CpuAt(7, {"CPU_HIGH"}), OneOpen("CPU_HIGH", 2)>>,
  linkFlap |-> <<Configure, LinkAt(1, "up", Anything), LinkAt(2, "down", Anything),
                 LinkAt(3, "up", Anything), LinkAt(4, "down", Anything),
                 LinkAt(5, "up", {"LINK_FLAP"}), OneOpen("LINK_FLAP", 1)>>,
  bgpDown  |-> <<Configure, BgpAt(1, 50, "established", Anything),
                 BgpAt(4, 50, "down", {"BGP_DOWN"}), OneOpen("BGP_DOWN", 1)>>,
  allAnomalies |-> <<Configure, LinkAt(1, "up", Anything), LinkAt(2, "down", Anything),
                     LinkAt(3, "up", Anything), LinkAt(4, "down", Anything),
                     BgpAt(5, 95, "established", Anything),
                     Telemetry(6, 95, "up", "down", {"CPU_HIGH", "LINK_FLAP", "BGP_DOWN"}),
                     AllThree>>,
  resolvedRecurrence |-> <<Configure, CpuAt(1, Anything), CpuAt(4, Anything), OneOpen("CPU_HIGH", 1),
                           Resolve, CpuAt(10, {"CPU_HIGH"}), Recurred>>]

SuiteConstants == \A n \in DOMAIN Suite : Suite[n] \in DOMAIN Scenario

(* derive_device_id *)
DeviceId(run, name) == <<run, name>>

VARIABLES
  samples,    \* the stored samples of each device, in the order of the rules
  incidents,  \* the incidents, in the order they were created
  scenario,   \* where each simulator is in the suite, 0 while it waits for /health
  step,       \* and in its scenario
  kept,       \* the incident its scenario remembers, 0 for none
  outcome,    \* of the scenarios so far
  issued,     \* requests issued
  lost        \* requests lost

server == <<samples, incidents>>
vars == <<server, scenario, step, kept, outcome, issued, lost>>

Devices == {DeviceId(RunIdOf[s], Suite[n]) : s \in Simulator, n \in DOMAIN Suite}

Init ==
  /\ samples = [d \in Devices |-> <<>>] /\ incidents = <<>>
  /\ scenario = [s \in Simulator |-> 0] /\ step = [s \in Simulator |-> 1]
  /\ kept = [s \in Simulator |-> 0]
  /\ outcome = [s \in Simulator |-> <<>>] /\ issued = [s \in Simulator |-> 0]
  /\ lost = 0

-----------------------------------------------------------------------------
(* The server *)

(* The sample takes its place after those of its instant; the rules see    *)
(* what is not later.                                                      *)
Seen(d, x) == Append(SelectSeq(samples[d], LAMBDA y : y.at <= x.at), x)
Stored(d, x) == Seen(d, x) \o SelectSeq(samples[d], LAMBDA y : y.at > x.at)

Rules(d, x) == {a[1] : a \in Evaluate(Seen(d, x))}

OpenOf(d, rule) ==
  {i \in DOMAIN incidents : /\ incidents[i].device = d /\ incidents[i].rule = rule
                            /\ incidents[i].status = "OPEN"}

(* An observation older than the OPEN incident fails the whole request. *)
Accepts(d, x) ==
  \A rule \in Rules(d, x) : \A i \in OpenOf(d, rule) : incidents[i].seen <= x.at

(* upsert_open_incident, for the rules that fire. *)
Upserted(d, x) ==
  LET fired == Rules(d, x)
      refreshed == [i \in DOMAIN incidents |->
        IF \E rule \in fired : i \in OpenOf(d, rule)
        THEN [incidents[i] EXCEPT !.seen = x.at, !.count = @ + 1] ELSE incidents[i]]
      new == SetToSeq({rule \in fired : OpenOf(d, rule) = {}})
  IN refreshed \o [k \in DOMAIN new |->
       [device |-> d, rule |-> new[k], status |-> "OPEN", created |-> x.at, seen |-> x.at, count |-> 1]]

Submitted(d, x) ==
  IF Accepts(d, x)
  THEN samples' = [samples EXCEPT ![d] = Stored(d, x)] /\ incidents' = Upserted(d, x)
  ELSE UNCHANGED server

(* Resolution is stamped by the server's clock, later than every sample. *)
Resolved(i) ==
  /\ incidents' = [incidents EXCEPT ![i].status = "RESOLVED"]
  /\ UNCHANGED samples

-----------------------------------------------------------------------------
(* A simulator *)

Running(s) == scenario[s] \in DOMAIN Suite
Name(s) == Suite[scenario[s]]
Device(s) == DeviceId(RunIdOf[s], Name(s))
Request(s) == Scenario[Name(s)][step[s]]
Done(s) == scenario[s] = Len(Suite) + 1

(* wait_for_health *)
Health(s) ==
  /\ scenario[s] = 0 /\ issued[s] < MaxHealth
  /\ issued' = [issued EXCEPT ![s] = @ + 1]
  /\ scenario' \in {scenario, [scenario EXCEPT ![s] = 1]}
  /\ UNCHANGED <<server, step, kept, outcome, lost>>

(* The deadline has passed: nothing is run. *)
GiveUp(s) ==
  /\ scenario[s] = 0
  /\ scenario' = [scenario EXCEPT ![s] = Len(Suite) + 1]
  /\ UNCHANGED <<server, step, kept, outcome, issued, lost>>

(* execute_scenario: the first demand that fails ends a scenario, and the  *)
(* suite goes on with the next.                                            *)
Report(s, passed) ==
  /\ outcome' = [outcome EXCEPT ![s] = Append(@, passed)]
  /\ scenario' = [scenario EXCEPT ![s] = @ + 1]
  /\ step' = [step EXCEPT ![s] = 1]
  /\ kept' = [kept EXCEPT ![s] = 0]

Demand(s, ok, keep) ==
  IF ok /\ step[s] < Len(Scenario[Name(s)])
  THEN /\ step' = [step EXCEPT ![s] = @ + 1]
       /\ kept' = [kept EXCEPT ![s] = keep]
       /\ UNCHANGED <<outcome, scenario>>
  ELSE Report(s, ok)

Issue(s, op) ==
  /\ Running(s) /\ Request(s).op = op
  /\ issued' = [issued EXCEPT ![s] = @ + 1]

ConfigureDevice(s) ==
  /\ Issue(s, "configure")
  /\ Demand(s, TRUE, 0)
  /\ UNCHANGED <<server, lost>>

SubmitTelemetry(s) ==
  LET x == Request(s).sample IN
  /\ Issue(s, "submit")
  /\ Submitted(Device(s), x)
  /\ Demand(s, Accepts(Device(s), x) /\ Request(s).expect \in {Anything, Rules(Device(s), x)}, kept[s])
  /\ UNCHANGED lost

(* GET /incidents and the demands on it. *)
Mine(s) == {i \in DOMAIN incidents : incidents[i].device = Device(s)}

(* What was kept from an earlier demand must be the same incident, seen    *)
(* again since.                                                            *)
RequireOneOpen(s) ==
  LET found == OpenOf(Device(s), Request(s).rule)
      i == CHOOSE j \in found : TRUE
  IN /\ Issue(s, "oneOpen")
     /\ IF Cardinality(found) # 1 THEN Report(s, FALSE)
        ELSE Demand(s, incidents[i].count = Request(s).count /\ kept[s] \in {0, i}, i)
     /\ UNCHANGED <<server, lost>>

RequireNone(s) ==
  /\ Issue(s, "none")
  /\ Demand(s, Mine(s) = {}, 0)
  /\ UNCHANGED <<server, lost>>

RequireAllThree(s) ==
  /\ Issue(s, "allThree")
  /\ Demand(s, \A rule \in {"CPU_HIGH", "LINK_FLAP", "BGP_DOWN"} :
                 /\ Cardinality(OpenOf(Device(s), rule)) = 1
                 /\ \A i \in OpenOf(Device(s), rule) : incidents[i].count = 1, 0)
  /\ UNCHANGED <<server, lost>>

ResolveIncident(s) ==
  /\ Issue(s, "resolve")
  /\ IF incidents[kept[s]].status = "OPEN" THEN Resolved(kept[s]) ELSE UNCHANGED server
  /\ Demand(s, TRUE, kept[s])
  /\ UNCHANGED lost

RequireRecurrence(s) ==
  /\ Issue(s, "recurred")
  /\ Demand(s, /\ Cardinality(Mine(s)) = 2 /\ kept[s] \in Mine(s)
               /\ incidents[kept[s]].status = "RESOLVED"
               /\ \A i \in Mine(s) \ {kept[s]} : incidents[i].status = "OPEN" /\ incidents[i].count = 1, 0)
  /\ UNCHANGED <<server, lost>>

(* Faulty variant: a lost request is passed over. *)
LosePassing(s) ==
  /\ Running(s) /\ lost < MaxLost /\ lost' = lost + 1
  /\ issued' = [issued EXCEPT ![s] = @ + 1]
  /\ Demand(s, TRUE, kept[s])
  /\ UNCHANGED server

(* The connection breaks: the client never retries, and cannot tell        *)
(* whether the server has executed the request.                            *)
Lose(s) ==
  /\ Running(s) /\ lost < MaxLost /\ lost' = lost + 1
  /\ issued' = [issued EXCEPT ![s] = @ + 1]
  /\ \/ UNCHANGED server
     \/ Request(s).op = "submit" /\ Submitted(Device(s), Request(s).sample)
     \/ Request(s).op = "resolve" /\ Resolved(kept[s])
  /\ Report(s, FALSE)

Next ==
  \E s \in Simulator :
    \/ Health(s) \/ GiveUp(s) \/ Lose(s)
    \/ ConfigureDevice(s) \/ SubmitTelemetry(s) \/ RequireOneOpen(s) \/ RequireNone(s)
    \/ RequireAllThree(s) \/ ResolveIncident(s) \/ RequireRecurrence(s)

Spec == Init /\ [][Next]_vars

-----------------------------------------------------------------------------
(* How the scenarios end in the report. *)
PassedScenarios(s) == {n \in DOMAIN outcome[s] : outcome[s][n]}

Count(seq, P(_)) == Cardinality({i \in DOMAIN seq : P(seq[i])})

Submits(name) == Count(Scenario[name], LAMBDA r : r.op = "submit")

(* Demands are not made of the simulator's own requests: a scenario that   *)
(* is reported as passed has stored every sample it has, and the incidents *)
(* of its device are exactly those the rules find in them.                 *)
PassedMeansStored ==
  \A s \in Simulator : \A n \in PassedScenarios(s) :
    LET d == DeviceId(RunIdOf[s], Suite[n])
        rules == {incidents[i].rule : i \in {j \in DOMAIN incidents : incidents[j].device = d}}
    IN /\ Len(samples[d]) = Submits(Suite[n])
       /\ rules = UNION {Scenario[Suite[n]][k].expect :
                           k \in {j \in DOMAIN Scenario[Suite[n]] :
                                    /\ Scenario[Suite[n]][j].op = "submit"
                                    /\ Scenario[Suite[n]][j].expect # Anything}}

(* "Repeated runs never contaminate telemetry history, cause unexpected    *)
(* UPDATED outcomes, or trigger confusing incident recurrence": a scenario *)
(* only fails if one of the requests was lost.                             *)
FailsOnlyForLoss ==
  lost = 0 => \A s \in Simulator : PassedScenarios(s) = DOMAIN outcome[s]

(* A full suite that passes has issued 39 requests after /health and left  *)
(* 9 incidents of its own.                                                 *)
MeasuredSuite ==
  \A s \in Simulator :
    Len(Suite) = 7 /\ Cardinality(PassedScenarios(s)) = 7 =>
      /\ issued[s] \in 40..39 + MaxHealth
      /\ Count(incidents, LAMBDA i : i.device[1] = RunIdOf[s]) = 9
=============================================================================
