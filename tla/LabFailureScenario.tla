------------------------- MODULE LabFailureScenario -------------------------
(***************************************************************************)
(* The link-failure scenario of the lab: a script takes one link of a      *)
(* running fabric down, waits for routing to notice, always puts the link  *)
(* back and says with its exit code what it leaves behind.  The fabric     *)
(* converges on its own; commands and queries fail; the container runtime  *)
(* restarts and the operator interrupts at any point.                      *)
(***************************************************************************)
EXTENDS Naturals, Sequences

CONSTANTS
  MaxRestarts,    \* bound on the restarts of the container runtime
  MaxInterrupts   \* bound on the operator's interrupts

ScenarioConstants == {MaxRestarts, MaxInterrupts} \subseteq Nat

Passed == 0
ScenarioFailed == 1
Refused == 2
BaselineUnhealthy == 3
RuntimeRestarted == 4
RecoveryFailed == 5
InternalError == 6

NoCode == 7
NoRuntime == MaxRestarts + 1

Aspect == {"bgp", "leaf1", "leaf2"}   \* the session of the link, the next hops of two leaves
Parts == <<"bgp", "leaf1", "leaf2", "reachability">>

VARIABLES
  link,      \* leaf-1 eth1: "up", "down", or "gone" with its container
  fabric,    \* what routing has made of it
  runtime,   \* restarts so far
  pc,        \* where the script is
  part,      \* the part of an inspection it is at
  observed,  \* the aspects a poll has seen
  problems,  \* an inspection has found some
  failure,   \* the exit code of the failure kept so far, or NoCode
  injected, restored,   \* _injected, _restore_ok
  before,    \* the runtime seen in the preflight, or NoRuntime
  phases,    \* the phases reported
  exit,      \* the exit code, or NoCode
  interrupts

lab == <<link, fabric, runtime>>
vars == <<lab, pc, part, observed, problems, failure, injected, restored, before,
          phases, exit, interrupts>>

Init ==
  /\ link = "up" /\ fabric = [a \in Aspect |-> "healthy"] /\ runtime = 0
  /\ pc = "preflight" /\ part = 1 /\ observed = {} /\ problems = FALSE
  /\ failure = NoCode /\ injected = FALSE /\ restored = FALSE
  /\ before = NoRuntime /\ phases = <<>> /\ exit = NoCode /\ interrupts = 0

-----------------------------------------------------------------------------
(* The lab *)

Healthy == [up |-> "healthy", down |-> "degraded", gone |-> "lost"]

(* Routing follows the link, one aspect at a time. *)
Converge ==
  /\ \E a \in Aspect : fabric' = [fabric EXCEPT ![a] = Healthy[link]]
  /\ UNCHANGED <<link, runtime, pc, part, observed, problems, failure, injected, restored,
                 before, phases, exit, interrupts>>

(* Docker or the virtual machine restarts, and the links of the lab are gone. *)
Restart ==
  /\ runtime < MaxRestarts
  /\ runtime' = runtime + 1
  /\ link' = "gone" /\ fabric' = [a \in Aspect |-> "lost"]
  /\ UNCHANGED <<pc, part, observed, problems, failure, injected, restored, before,
                 phases, exit, interrupts>>

(* What a query may return: a command that fails or times out reads as a   *)
(* missing session, or as no next hop.  Each host has a path over either   *)
(* spine.                                                                  *)
Answers(p) ==
  IF p = "reachability" THEN (IF link = "gone" THEN {} ELSE {"healthy"}) \cup {"missing"}
  ELSE {fabric[p], "missing"}

-----------------------------------------------------------------------------
(* The script *)

Phase(name) == phases' = Append(phases, name)

Goto(label) == pc' = label

Inspect(label) == Goto(label) /\ part' = 1 /\ problems' = FALSE

(* Inventory, server and topology are checked before anything is read. *)
Preflight ==
  /\ pc = "preflight"
  /\ \/ /\ \E code \in {Refused, InternalError} : failure' = code
        /\ before' \in {NoRuntime, runtime}
        /\ Goto("finish") /\ UNCHANGED <<phases, part, problems>>
     \/ /\ link # "gone"
        /\ before' = runtime
        /\ Phase("BASELINE") /\ Inspect("baseline") /\ UNCHANGED failure
  /\ UNCHANGED <<lab, observed, injected, restored, exit, interrupts>>

(* One part of an inspection is read; expected are the answers that pass. *)
Look(label, expected) ==
  /\ pc = label /\ part <= Len(Parts)
  /\ \E answer \in Answers(Parts[part]) : problems' = (problems \/ answer \notin expected[Parts[part]])
  /\ part' = part + 1
  /\ UNCHANGED <<lab, pc, observed, failure, injected, restored, before, phases, exit, interrupts>>

HealthyAnswers == [p \in Aspect \cup {"reachability"} |-> {"healthy"}]

(* While degraded, "not Established" is all that is asked of the session. *)
DegradedAnswers == [
  bgp |-> {"degraded", "lost", "missing"}, leaf1 |-> {"degraded"}, leaf2 |-> {"degraded"},
  reachability |-> {"healthy"}]

Judge(label) == pc = label /\ part > Len(Parts)

Baseline ==
  /\ Judge("baseline")
  /\ IF problems THEN failure' = BaselineUnhealthy /\ Goto("finish")
     ELSE Goto("inject") /\ UNCHANGED failure
  /\ UNCHANGED <<lab, part, observed, problems, injected, restored, before, phases, exit, interrupts>>

(* The monitor's thread cannot be started. *)
NoMonitor ==
  /\ pc = "inject"
  /\ failure' = InternalError /\ Goto("finish")
  /\ UNCHANGED <<lab, part, observed, problems, injected, restored, before, phases, exit, interrupts>>

Down == IF link = "gone" THEN "gone" ELSE "down"
Up == IF link = "gone" THEN "gone" ELSE "up"

(* Faulty variant: the injection is remembered once the command has worked. *)
InjectThenMark ==
  /\ pc = "inject"
  /\ \/ /\ link # "gone" /\ link' = Down /\ injected' = TRUE
        /\ Goto("poll") /\ observed' = {} /\ Phase("FAILURE_INJECTED") /\ UNCHANGED failure
     \/ /\ link' \in {link, Down} /\ failure' = ScenarioFailed
        /\ Goto("restore") /\ Phase("FAILURE_INJECTED") /\ UNCHANGED <<observed, injected>>
  /\ UNCHANGED <<fabric, runtime, part, problems, restored, before, exit, interrupts>>

(* _inject: marked first; a command that fails or raises may have worked. *)
Inject ==
  /\ pc = "inject"
  /\ injected' = TRUE
  /\ \/ /\ link # "gone" /\ link' = Down
        /\ Goto("poll") /\ observed' = {} /\ Phase("FAILURE_INJECTED") /\ UNCHANGED failure
     \/ /\ link' \in {link, Down} /\ failure' = ScenarioFailed
        /\ Goto("restore") /\ Phase("FAILURE_INJECTED") /\ UNCHANGED observed
     \/ /\ link' \in {link, Down} /\ failure' = InternalError
        /\ Goto("restore") /\ UNCHANGED <<phases, observed>>
  /\ UNCHANGED <<fabric, runtime, part, problems, restored, before, exit, interrupts>>

(* _poll: a check that held once is not asked again. *)
Poll(label, a, expected) ==
  /\ pc = label /\ a \notin observed
  /\ Answers(a) \cap expected[a] # {}
  /\ observed' = observed \cup {a}
  /\ UNCHANGED <<lab, pc, part, problems, failure, injected, restored, before, phases, exit, interrupts>>

(* Faulty variant: the poll has no deadline. *)
PolledUnbounded(label) == pc = label /\ observed = Aspect

(* All checks have held, or the deadline has passed. *)
Polled(label) == pc = label

DegradedPolled ==
  /\ Polled("poll")
  /\ Phase("DEGRADED")
  /\ Goto("degraded") /\ part' = 1 /\ problems' = (observed # Aspect)
  /\ UNCHANGED <<lab, observed, failure, injected, restored, before, exit, interrupts>>

Degraded ==
  /\ Judge("degraded")
  /\ failure' = IF problems THEN ScenarioFailed ELSE failure
  /\ Goto("restore")
  /\ UNCHANGED <<lab, part, observed, problems, injected, restored, before, phases, exit, interrupts>>

(* _restore_if_injected, in the finally block.  A command that fails or    *)
(* raises may have worked.                                                 *)
Restore ==
  /\ pc = "restore"
  /\ observed' = {}
  /\ IF ~injected THEN Goto("finish") /\ UNCHANGED <<link, restored, failure, phases>>
     ELSE /\ Phase("RESTORING")
          /\ \/ /\ link # "gone" /\ link' = "up" /\ restored' = TRUE
                /\ Goto(IF interrupts > 0 THEN "killed" ELSE "pollUp") /\ UNCHANGED failure
             \/ /\ link' \in {link, Up} /\ failure' = RecoveryFailed
                /\ Goto(IF interrupts > 0 THEN "killed" ELSE "finish") /\ UNCHANGED restored
  /\ UNCHANGED <<fabric, runtime, part, problems, injected, before, exit, interrupts>>

RecoveryPolled ==
  /\ Polled("pollUp")
  /\ Goto("recovery") /\ part' = 1 /\ problems' = (observed # Aspect)
  /\ UNCHANGED <<lab, observed, failure, injected, restored, before, phases, exit, interrupts>>

(* A recovery failure outranks what was found while degraded. *)
Recovery ==
  /\ Judge("recovery")
  /\ IF problems THEN failure' = RecoveryFailed /\ UNCHANGED phases
     ELSE Phase("RECOVERED") /\ UNCHANGED failure
  /\ Goto("finish")
  /\ UNCHANGED <<lab, part, observed, problems, injected, restored, before, exit, interrupts>>

(* A query raises: its output is not what the parsers expect. *)
Raise ==
  /\ \/ pc \in {"poll", "degraded"} /\ Goto("restore")
     \/ pc \in {"pollUp", "recovery"} /\ Goto("finish")
     \/ pc = "baseline" /\ Goto("finish")
  /\ failure' = InternalError
  /\ UNCHANGED <<lab, part, observed, problems, injected, restored, before, phases, exit, interrupts>>

ExitCode(restarted) ==
  LET code == IF failure = NoCode THEN Passed ELSE failure
  IN IF restarted /\ code \in {Passed, ScenarioFailed} THEN RuntimeRestarted ELSE code

(* _finish: the runtime is read again, if it can be. *)
Finish ==
  /\ pc = "finish"
  /\ \E after \in {runtime, NoRuntime} :
       exit' = ExitCode(before # NoRuntime /\ after # NoRuntime /\ after # before)
  /\ phases' = IF exit' = Passed THEN phases ELSE Append(phases, "FAILED")
  /\ Goto("done")
  /\ UNCHANGED <<lab, part, observed, problems, failure, injected, restored, before, interrupts>>

(* Ctrl-C: only the finally block still runs. *)
Interrupt ==
  /\ pc \notin {"done", "killed"} /\ interrupts < MaxInterrupts
  /\ interrupts' = interrupts + 1
  /\ IF pc \in {"inject", "poll", "degraded"} /\ injected THEN Goto("restore") ELSE Goto("killed")
  /\ failure' = IF pc = "restore" THEN RecoveryFailed ELSE failure
  /\ UNCHANGED <<lab, part, observed, problems, injected, restored, before, phases, exit>>

Step ==
  \/ Preflight
  \/ Look("baseline", HealthyAnswers) \/ Baseline
  \/ Inject
  \/ \E a \in Aspect : Poll("poll", a, DegradedAnswers) \/ Poll("pollUp", a, HealthyAnswers)
  \/ DegradedPolled \/ Look("degraded", DegradedAnswers) \/ Degraded
  \/ Restore
  \/ RecoveryPolled \/ Look("recovery", HealthyAnswers) \/ Recovery
  \/ Finish

Next == Step \/ NoMonitor \/ Raise \/ Converge \/ Restart \/ Interrupt

Spec == Init /\ [][Next]_vars

-----------------------------------------------------------------------------
TypeOK ==
  /\ link \in {"up", "down", "gone"}
  /\ fabric \in [Aspect -> {"healthy", "degraded", "lost"}]
  /\ runtime \in 0..MaxRestarts /\ before \in 0..NoRuntime
  /\ pc \in {"preflight", "baseline", "inject", "poll", "degraded", "restore", "pollUp",
             "recovery", "finish", "done", "killed"}
  /\ part \in 1..Len(Parts) + 1 /\ observed \subseteq Aspect
  /\ problems \in BOOLEAN /\ injected \in BOOLEAN /\ restored \in BOOLEAN
  /\ failure \in ScenarioFailed..NoCode /\ exit \in Passed..NoCode
  /\ interrupts \in 0..MaxInterrupts

Reported(phase) == \E i \in DOMAIN phases : phases[i] = phase

(* "5 recovery failed: the lab may be left degraded": the link is never    *)
(* left down under another code, and an interrupted script leaves it down  *)
(* only if it was interrupted while it restored, or could not restore.     *)
NotLeftDown ==
  link = "down" /\ pc \in {"done", "killed"} => failure = RecoveryFailed

(* "2, 3 nothing was injected"; what ended well, failed only in between or *)
(* saw a restart has been watched recovering; and only a run that reached  *)
(* every phase passes.                                                     *)
CodesTellTheTruth ==
  pc = "done" =>
    /\ exit \in {Refused, BaselineUnhealthy} => ~injected /\ ~Reported("RESTORING")
    /\ exit \in {Passed, ScenarioFailed, RuntimeRestarted} => restored /\ Reported("RECOVERED")
    /\ exit = Passed => phases = <<"BASELINE", "FAILURE_INJECTED", "DEGRADED", "RESTORING", "RECOVERED">>
    /\ exit = RecoveryFailed => injected /\ ~Reported("RECOVERED")
    /\ exit = RuntimeRestarted => runtime # before

(* The script ends, whatever the fabric does. *)
Ends == <>(pc \in {"done", "killed"})
=============================================================================
