---------------------------- MODULE ScriptsProofs ----------------------------
(***************************************************************************)
(* Theorems about the scripts around the platform, for any bounds on what  *)
(* goes wrong: the link-failure scenario and the collection of the lab's   *)
(* state report what was so, the scripts that run the platform leave what  *)
(* they say they leave, and smoke tests of one project do not pass on the  *)
(* work of each other.                                                     *)
(***************************************************************************)
EXTENDS MCScripts, TLAPS

LEMMA ScriptsAreTheirParts ==
  /\ ScriptsSpec => Lab!Spec
  /\ ScriptsSpec => Collection!Spec
  /\ ScriptsSpec => Stacks!Spec
<1>1. ScriptsInit => Lab!Init /\ Collection!Init /\ Stacks!Init
  BY DEF ScriptsInit
<1>2. [ScriptsNext]_all => [Lab!Next]_(Lab!vars)
  BY DEF ScriptsNext, RunsStacks, RunsSmokes, RunsLab, RunsTogether, RunsAlone, RunsCollection,
         all, labVars, Lab!vars, Lab!lab
<1>3. [ScriptsNext]_all => [Collection!Next]_(Collection!vars)
  BY DEF ScriptsNext, RunsStacks, RunsSmokes, RunsLab, RunsTogether, RunsAlone, RunsCollection,
         all, collectVars, Collection!vars
<1>4. [ScriptsNext]_all => [Stacks!Next]_(Stacks!vars)
  BY DEF ScriptsNext, RunsStacks, RunsSmokes, RunsLab, RunsTogether, RunsAlone, RunsCollection,
         all, stackVars, Stacks!vars, Stacks!Next, StackRun
<1> QED BY <1>1, <1>2, <1>3, <1>4, PTL DEF ScriptsSpec, Lab!Spec, Collection!Spec, Stacks!Spec

-----------------------------------------------------------------------------
(* The link-failure scenario. *)

Names == {"BASELINE", "FAILURE_INJECTED", "DEGRADED", "RESTORING", "RECOVERED", "FAILED"}

(* Nothing but a restore that was not seen to work leaves the link down,   *)
(* and an injection that may have happened is marked.                      *)
LinkOK ==
  /\ pc \in {"preflight", "baseline", "inject"} => ~injected
  /\ pc \in {"poll", "degraded", "restore"} => injected
  /\ pc \in {"pollUp", "recovery"} => injected /\ restored
  /\ link = "down" => \/ pc \in {"poll", "degraded", "restore"}
                      \/ pc \in {"finish", "done", "killed"} /\ failure = Lab!RecoveryFailed

(* The failure that is kept tells how far the script came. *)
FailureOK ==
  /\ failure # Lab!RuntimeRestarted
  /\ pc \in {"preflight", "baseline", "inject", "poll", "degraded"} => failure = Lab!NoCode
  /\ failure \in {Lab!Refused, Lab!BaselineUnhealthy} =>
       ~injected /\ pc \in {"finish", "done", "killed"}
  /\ failure = Lab!RecoveryFailed => injected /\ pc \in {"finish", "done", "killed"}
  /\ pc \in {"finish", "done"} /\ failure \in {Lab!NoCode, Lab!ScenarioFailed} =>
       restored /\ Lab!Reported("RECOVERED")

AllPhases == <<"BASELINE", "FAILURE_INJECTED", "DEGRADED", "RESTORING", "RECOVERED">>

Reached(k) == Len(phases) = k /\ \A i \in 1..k : phases[i] = AllPhases[i]

(* What was reported: every phase so far, unless something failed. *)
PhasesOK ==
  /\ phases \in Seq(Names)
  /\ Lab!Reported("RESTORING") => injected
  /\ Lab!Reported("RECOVERED") => pc \in {"finish", "done", "killed"} /\ failure # Lab!RecoveryFailed
  /\ pc = "preflight" => Reached(0)
  /\ pc \in {"baseline", "inject"} => Reached(1)
  /\ pc = "poll" => Reached(2)
  /\ pc = "degraded" \/ (pc = "restore" /\ failure = Lab!NoCode /\ interrupts = 0) => Reached(3)
  /\ pc \in {"pollUp", "recovery"} /\ failure = Lab!NoCode => Reached(4)
  /\ pc = "finish" /\ failure = Lab!NoCode => Reached(5)

RuntimeOK ==
  /\ before # Lab!NoRuntime => before <= runtime
  /\ pc # "done" => exit = Lab!NoCode
  /\ pc = "done" => exit \in {Lab!Passed, Lab!RuntimeRestarted, failure}
  /\ exit = Lab!Passed => Reached(5)
  /\ exit \in {Lab!Passed, Lab!RuntimeRestarted} => failure \in {Lab!NoCode, Lab!ScenarioFailed}
  /\ exit = Lab!RuntimeRestarted => before < runtime
  /\ pc = "done" => exit # Lab!NoCode

LabInvariant == Lab!TypeOK /\ LinkOK /\ FailureOK /\ PhasesOK /\ RuntimeOK

LEMMA ReportedAfter ==
  ASSUME phases \in Seq(Names), NEW name \in Names, phases' = Append(phases, name)
  PROVE  /\ phases' \in Seq(Names)
         /\ \A x : Lab!Reported(x)' <=> Lab!Reported(x) \/ x = name
<1>1. /\ phases' \in Seq(Names) /\ DOMAIN phases = 1..Len(phases) /\ DOMAIN phases' = 1..Len(phases) + 1
      /\ phases'[Len(phases) + 1] = name
      /\ \A i \in DOMAIN phases : phases'[i] = phases[i]
  OBVIOUS
<1>2. Len(phases) \in Nat
  OBVIOUS
<1> QED BY <1>1, <1>2 DEF Lab!Reported

LEMMA ReportedKept ==
  ASSUME phases' = phases
  PROVE  \A x : Lab!Reported(x)' <=> Lab!Reported(x)
BY DEF Lab!Reported

LEMMA LabConstants == MaxRestarts \in Nat /\ MaxInterrupts \in Nat /\ Len(Lab!Parts) = 4
BY ScriptsAssumption DEF Lab!ScenarioConstants, Lab!Parts

LEMMA ReachedNext ==
  ASSUME phases \in Seq(Names), NEW k \in 0..4, phases' = Append(phases, AllPhases[k + 1]), Reached(k)
  PROVE  Reached(k + 1)'
<1>1. /\ Len(phases') = k + 1 /\ phases'[k + 1] = AllPhases[k + 1]
      /\ \A i \in 1..k : phases'[i] = phases[i]
  BY DEF Reached
<1>2. \A i \in 1..k + 1 : i \in 1..k \/ i = k + 1
  OBVIOUS
<1> HIDE DEF AllPhases
<1> QED BY <1>1, <1>2 DEF Reached

LEMMA ReachedKept ==
  ASSUME phases' = phases, NEW k, Reached(k)
  PROVE  Reached(k)'
BY DEF Reached

(* The phases one by one. *)
LEMMA PhasesInOrder ==
  /\ AllPhases[1] = "BASELINE" /\ AllPhases[2] = "FAILURE_INJECTED" /\ AllPhases[3] = "DEGRADED"
  /\ AllPhases[4] = "RESTORING" /\ AllPhases[5] = "RECOVERED"
BY DEF AllPhases

LEMMA ReachedAll ==
  ASSUME phases \in Seq(Names), Reached(5)
  PROVE  phases = AllPhases
<1>1. phases \in [1..5 -> Names] /\ AllPhases \in [1..5 -> Names]
  BY DEF Reached, AllPhases, Names
<1>2. \A i \in 1..5 : phases[i] = AllPhases[i]
  BY DEF Reached
<1> HIDE DEF AllPhases
<1> QED BY <1>1, <1>2

LEMMA LabBegins == Lab!Init => LabInvariant
<1> SUFFICES ASSUME Lab!Init PROVE LabInvariant
  OBVIOUS
<1>1. Lab!TypeOK
  <2>1. link \in {"up", "down", "gone"} /\ fabric \in [Lab!Aspect -> {"healthy", "degraded", "lost"}]
    BY DEF Lab!Init
  <2>2. runtime \in 0..MaxRestarts /\ before \in 0..Lab!NoRuntime /\ interrupts \in 0..MaxInterrupts
    BY LabConstants DEF Lab!Init, Lab!NoRuntime
  <2>3. part \in 1..Len(Lab!Parts) + 1 /\ observed \subseteq Lab!Aspect
    BY LabConstants DEF Lab!Init
  <2>4. problems \in BOOLEAN /\ injected \in BOOLEAN /\ restored \in BOOLEAN
    BY DEF Lab!Init
  <2>5. failure \in Lab!ScenarioFailed..Lab!NoCode /\ exit \in Lab!Passed..Lab!NoCode
    BY DEF Lab!Init, Lab!NoCode, Lab!ScenarioFailed, Lab!Passed
  <2>6. pc = "preflight"
    BY DEF Lab!Init
  <2> QED BY <2>1, <2>2, <2>3, <2>4, <2>5, <2>6 DEF Lab!TypeOK
<1>2. LinkOK /\ FailureOK /\ RuntimeOK
  BY DEF Lab!Init, LinkOK, FailureOK, RuntimeOK, Lab!NoCode, Lab!Passed, Lab!RuntimeRestarted, Lab!Refused,
     Lab!BaselineUnhealthy, Lab!RecoveryFailed, Lab!NoRuntime
<1>3. \A x : ~Lab!Reported(x)
  BY DEF Lab!Init, Lab!Reported
<1>4. PhasesOK
  BY <1>3 DEF Lab!Init, PhasesOK, Reached, Lab!NoCode
<1> QED BY <1>1, <1>2, <1>4 DEF LabInvariant

(* The steps of the scenario. *)
LEMMA LabTypeKept ==
  ASSUME Lab!TypeOK, Lab!Next
  PROVE  Lab!TypeOK'
<1> USE LabConstants DEF Lab!Passed, Lab!ScenarioFailed, Lab!Refused, Lab!BaselineUnhealthy, Lab!RuntimeRestarted,
          Lab!RecoveryFailed, Lab!InternalError, Lab!NoCode, Lab!NoRuntime
<1>1. CASE Lab!Preflight
  <2>1. /\ failure' \in {failure, Lab!Refused, Lab!InternalError} /\ before' \in {Lab!NoRuntime, runtime}
        /\ pc' \in {"finish", "baseline"} /\ part' \in {part, 1} /\ problems' \in {problems, FALSE}
    BY <1>1 DEF Lab!Preflight, Lab!Phase, Lab!Goto, Lab!Inspect
  <2>2. UNCHANGED <<link, fabric, runtime, observed, injected, restored, exit, interrupts>>
    BY <1>1 DEF Lab!Preflight, Lab!lab
  <2>3. before' \in 0..Lab!NoRuntime /\ failure' \in Lab!ScenarioFailed..Lab!NoCode
    BY <2>1 DEF Lab!TypeOK
  <2>4. problems' \in BOOLEAN
    BY <2>1, Zenon DEF Lab!TypeOK
  <2> QED BY <2>1, <2>2, <2>3, <2>4 DEF Lab!TypeOK
<1>2. ASSUME NEW label, NEW expected, Lab!Look(label, expected) PROVE Lab!TypeOK'
  BY <1>2 DEF Lab!TypeOK, Lab!Look, Lab!lab
<1>3. CASE Lab!Baseline
  BY <1>3 DEF Lab!TypeOK, Lab!Baseline, Lab!Judge, Lab!Goto, Lab!lab
<1>4. CASE Lab!Inject
  BY <1>4 DEF Lab!TypeOK, Lab!Inject, Lab!Goto, Lab!Phase, Lab!Down, Lab!lab
<1>5. ASSUME NEW label, NEW a \in Lab!Aspect, NEW expected, Lab!Poll(label, a, expected) PROVE Lab!TypeOK'
  BY <1>5 DEF Lab!TypeOK, Lab!Poll, Lab!lab
<1>6. CASE Lab!DegradedPolled
  BY <1>6 DEF Lab!TypeOK, Lab!DegradedPolled, Lab!Polled, Lab!Phase, Lab!Goto, Lab!lab
<1>7. CASE Lab!Degraded
  BY <1>7 DEF Lab!TypeOK, Lab!Degraded, Lab!Judge, Lab!Goto, Lab!lab
<1>8. CASE Lab!Restore
  <2>1. /\ link' \in {link, "up", "gone"} /\ failure' \in {failure, Lab!RecoveryFailed}
        /\ pc' \in {"finish", "killed", "pollUp"} /\ observed' = {}
    BY <1>8 DEF Lab!Restore, Lab!Phase, Lab!Goto, Lab!Up
  <2>2. restored' \in {restored, TRUE}
    BY <1>8 DEF Lab!Restore
  <2>3. UNCHANGED <<fabric, runtime, part, problems, injected, before, exit, interrupts>>
    BY <1>8 DEF Lab!Restore
  <2>4. restored' \in BOOLEAN
    BY <2>2, Zenon DEF Lab!TypeOK
  <2> QED BY <2>1, <2>3, <2>4 DEF Lab!TypeOK
<1>9. CASE Lab!RecoveryPolled
  BY <1>9 DEF Lab!TypeOK, Lab!RecoveryPolled, Lab!Polled, Lab!Goto, Lab!lab
<1>10. CASE Lab!Recovery
  BY <1>10 DEF Lab!TypeOK, Lab!Recovery, Lab!Judge, Lab!Goto, Lab!Phase, Lab!lab
<1>11. CASE Lab!Finish
  BY <1>11 DEF Lab!TypeOK, Lab!Finish, Lab!ExitCode, Lab!Goto, Lab!lab
<1>12. CASE Lab!NoMonitor
  BY <1>12 DEF Lab!TypeOK, Lab!NoMonitor, Lab!Goto, Lab!lab
<1>13. CASE Lab!Raise
  BY <1>13 DEF Lab!TypeOK, Lab!Raise, Lab!Goto, Lab!lab
<1>14. CASE Lab!Converge
  BY <1>14 DEF Lab!TypeOK, Lab!Converge, Lab!Healthy, Lab!lab
<1>15. CASE Lab!Restart
  BY <1>15 DEF Lab!TypeOK, Lab!Restart, Lab!lab
<1>16. CASE Lab!Interrupt
  BY <1>16 DEF Lab!TypeOK, Lab!Interrupt, Lab!Goto, Lab!lab
<1> QED BY <1>1, <1>2, <1>3, <1>4, <1>5, <1>6, <1>7, <1>8, <1>9, <1>10, <1>11, <1>12, <1>13, <1>14, <1>15, <1>16 DEF Lab!Next, Lab!Step

(* What is known at each place is kept by every step. *)
LEMMA LabKept ==
  ASSUME LabInvariant, Lab!Next
  PROVE  LabInvariant'
<1> USE LabConstants DEF Lab!Passed, Lab!ScenarioFailed, Lab!Refused, Lab!BaselineUnhealthy, Lab!RuntimeRestarted,
          Lab!RecoveryFailed, Lab!InternalError, Lab!NoCode, Lab!NoRuntime
<1>0. Lab!TypeOK /\ Lab!TypeOK' /\ LinkOK /\ FailureOK /\ PhasesOK /\ RuntimeOK
  BY LabTypeKept DEF LabInvariant
<1>1. CASE Lab!Preflight
  <2>1. phases' = phases \/ phases' = Append(phases, "BASELINE")
    BY <1>1 DEF Lab!Preflight, Lab!Phase, Lab!Goto, Lab!Inspect, Lab!lab
  <2>2. /\ phases' = phases => \A x : Lab!Reported(x)' <=> Lab!Reported(x)
        /\ phases' = phases => \A k : Reached(k) => Reached(k)'
        /\ phases' = Append(phases, "BASELINE") =>
             phases' \in Seq(Names) /\ \A x : Lab!Reported(x)' <=> Lab!Reported(x) \/ x = "BASELINE"
        /\ phases' = Append(phases, "BASELINE") /\ Reached(0) => Reached(1)'
    BY <1>0, ReportedKept, ReportedAfter, ReachedKept, ReachedNext, PhasesInOrder DEF PhasesOK, Names
  <2>3. LinkOK'
    BY <1>0, <1>1 DEF LinkOK, FailureOK, Lab!TypeOK, Lab!Preflight, Lab!Phase, Lab!Goto, Lab!Inspect, Lab!lab
  <2>4. FailureOK'
    BY <1>0, <1>1, <2>1, <2>2 DEF FailureOK, LinkOK, PhasesOK, Lab!Preflight, Lab!Phase, Lab!Goto, Lab!Inspect, Lab!lab
  <2>5. PhasesOK'
    BY <1>0, <1>1, <2>1, <2>2 DEF PhasesOK, FailureOK, LinkOK, Lab!Preflight, Lab!Phase, Lab!Goto, Lab!Inspect, Lab!lab
  <2>6. RuntimeOK'
    BY <1>0, <1>1, <2>1, <2>2 DEF RuntimeOK, FailureOK, PhasesOK, Lab!TypeOK, Lab!Preflight, Lab!Phase, Lab!Goto, Lab!Inspect, Lab!lab
  <2> QED BY <1>0, <2>3, <2>4, <2>5, <2>6 DEF LabInvariant
<1>2. ASSUME NEW label, NEW expected, Lab!Look(label, expected) PROVE LabInvariant'
  <2>2. phases' = phases /\ \A x : Lab!Reported(x)' <=> Lab!Reported(x)
    BY <1>2, ReportedKept DEF Lab!Look, Lab!lab
  <2>1. \A k : Reached(k) => Reached(k)'
    BY <2>2, ReachedKept
  <2>3. LinkOK'
    BY <1>0, <1>2 DEF LinkOK, FailureOK, Lab!TypeOK, Lab!Look, Lab!lab
  <2>4. FailureOK'
    BY <1>0, <1>2, <2>1, <2>2 DEF FailureOK, LinkOK, PhasesOK, Lab!Look, Lab!lab
  <2>5. PhasesOK'
    BY <1>0, <1>2, <2>1, <2>2 DEF PhasesOK, FailureOK, LinkOK, Lab!Look, Lab!lab
  <2>6. RuntimeOK'
    BY <1>0, <1>2, <2>1, <2>2 DEF RuntimeOK, FailureOK, PhasesOK, Lab!TypeOK, Lab!Look, Lab!lab
  <2> QED BY <1>0, <2>3, <2>4, <2>5, <2>6 DEF LabInvariant
<1>3. CASE Lab!Baseline
  <2>2. phases' = phases /\ \A x : Lab!Reported(x)' <=> Lab!Reported(x)
    BY <1>3, ReportedKept DEF Lab!Baseline, Lab!Judge, Lab!Goto, Lab!lab
  <2>1. \A k : Reached(k) => Reached(k)'
    BY <2>2, ReachedKept
  <2>3. LinkOK'
    BY <1>0, <1>3 DEF LinkOK, FailureOK, Lab!TypeOK, Lab!Baseline, Lab!Judge, Lab!Goto, Lab!lab
  <2>4. FailureOK'
    BY <1>0, <1>3, <2>1, <2>2 DEF FailureOK, LinkOK, PhasesOK, Lab!Baseline, Lab!Judge, Lab!Goto, Lab!lab
  <2>5. PhasesOK'
    BY <1>0, <1>3, <2>1, <2>2 DEF PhasesOK, FailureOK, LinkOK, Lab!Baseline, Lab!Judge, Lab!Goto, Lab!lab
  <2>6. RuntimeOK'
    BY <1>0, <1>3, <2>1, <2>2 DEF RuntimeOK, FailureOK, PhasesOK, Lab!TypeOK, Lab!Baseline, Lab!Judge, Lab!Goto, Lab!lab
  <2> QED BY <1>0, <2>3, <2>4, <2>5, <2>6 DEF LabInvariant
<1>4. CASE Lab!Inject
  <2>1. phases' = phases \/ phases' = Append(phases, "FAILURE_INJECTED")
    BY <1>4 DEF Lab!Inject, Lab!Goto, Lab!Phase, Lab!Down, Lab!lab
  <2>2. /\ phases' = phases => \A x : Lab!Reported(x)' <=> Lab!Reported(x)
        /\ phases' = phases => \A k : Reached(k) => Reached(k)'
        /\ phases' = Append(phases, "FAILURE_INJECTED") =>
             phases' \in Seq(Names) /\ \A x : Lab!Reported(x)' <=> Lab!Reported(x) \/ x = "FAILURE_INJECTED"
        /\ phases' = Append(phases, "FAILURE_INJECTED") /\ Reached(1) => Reached(2)'
    BY <1>0, ReportedKept, ReportedAfter, ReachedKept, ReachedNext, PhasesInOrder DEF PhasesOK, Names
  <2>3. LinkOK'
    BY <1>0, <1>4 DEF LinkOK, FailureOK, Lab!TypeOK, Lab!Inject, Lab!Goto, Lab!Phase, Lab!Down, Lab!lab
  <2>4. FailureOK'
    BY <1>0, <1>4, <2>1, <2>2 DEF FailureOK, LinkOK, PhasesOK, Lab!Inject, Lab!Goto, Lab!Phase, Lab!Down, Lab!lab
  <2>5. PhasesOK'
    BY <1>0, <1>4, <2>1, <2>2 DEF PhasesOK, FailureOK, LinkOK, Lab!Inject, Lab!Goto, Lab!Phase, Lab!Down, Lab!lab
  <2>6. RuntimeOK'
    BY <1>0, <1>4, <2>1, <2>2 DEF RuntimeOK, FailureOK, PhasesOK, Lab!TypeOK, Lab!Inject, Lab!Goto, Lab!Phase, Lab!Down, Lab!lab
  <2> QED BY <1>0, <2>3, <2>4, <2>5, <2>6 DEF LabInvariant
<1>5. ASSUME NEW label, NEW a \in Lab!Aspect, NEW expected, Lab!Poll(label, a, expected) PROVE LabInvariant'
  <2>2. phases' = phases /\ \A x : Lab!Reported(x)' <=> Lab!Reported(x)
    BY <1>5, ReportedKept DEF Lab!Poll, Lab!lab
  <2>1. \A k : Reached(k) => Reached(k)'
    BY <2>2, ReachedKept
  <2>3. LinkOK'
    BY <1>0, <1>5 DEF LinkOK, FailureOK, Lab!TypeOK, Lab!Poll, Lab!lab
  <2>4. FailureOK'
    BY <1>0, <1>5, <2>1, <2>2 DEF FailureOK, LinkOK, PhasesOK, Lab!Poll, Lab!lab
  <2>5. PhasesOK'
    BY <1>0, <1>5, <2>1, <2>2 DEF PhasesOK, FailureOK, LinkOK, Lab!Poll, Lab!lab
  <2>6. RuntimeOK'
    BY <1>0, <1>5, <2>1, <2>2 DEF RuntimeOK, FailureOK, PhasesOK, Lab!TypeOK, Lab!Poll, Lab!lab
  <2> QED BY <1>0, <2>3, <2>4, <2>5, <2>6 DEF LabInvariant
<1>6. CASE Lab!DegradedPolled
  <2>1. phases' = phases \/ phases' = Append(phases, "DEGRADED")
    BY <1>6 DEF Lab!DegradedPolled, Lab!Polled, Lab!Phase, Lab!Goto, Lab!lab
  <2>2. /\ phases' = phases => \A x : Lab!Reported(x)' <=> Lab!Reported(x)
        /\ phases' = phases => \A k : Reached(k) => Reached(k)'
        /\ phases' = Append(phases, "DEGRADED") =>
             phases' \in Seq(Names) /\ \A x : Lab!Reported(x)' <=> Lab!Reported(x) \/ x = "DEGRADED"
        /\ phases' = Append(phases, "DEGRADED") /\ Reached(2) => Reached(3)'
    BY <1>0, ReportedKept, ReportedAfter, ReachedKept, ReachedNext, PhasesInOrder DEF PhasesOK, Names
  <2>3. LinkOK'
    BY <1>0, <1>6 DEF LinkOK, FailureOK, Lab!TypeOK, Lab!DegradedPolled, Lab!Polled, Lab!Phase, Lab!Goto, Lab!lab
  <2>4. FailureOK'
    BY <1>0, <1>6, <2>1, <2>2 DEF FailureOK, LinkOK, PhasesOK, Lab!DegradedPolled, Lab!Polled, Lab!Phase, Lab!Goto, Lab!lab
  <2>5. PhasesOK'
    BY <1>0, <1>6, <2>1, <2>2 DEF PhasesOK, FailureOK, LinkOK, Lab!DegradedPolled, Lab!Polled, Lab!Phase, Lab!Goto, Lab!lab
  <2>6. RuntimeOK'
    BY <1>0, <1>6, <2>1, <2>2 DEF RuntimeOK, FailureOK, PhasesOK, Lab!TypeOK, Lab!DegradedPolled, Lab!Polled, Lab!Phase, Lab!Goto, Lab!lab
  <2> QED BY <1>0, <2>3, <2>4, <2>5, <2>6 DEF LabInvariant
<1>7. CASE Lab!Degraded
  <2>2. phases' = phases /\ \A x : Lab!Reported(x)' <=> Lab!Reported(x)
    BY <1>7, ReportedKept DEF Lab!Degraded, Lab!Judge, Lab!Goto, Lab!lab
  <2>1. \A k : Reached(k) => Reached(k)'
    BY <2>2, ReachedKept
  <2>3. LinkOK'
    BY <1>0, <1>7 DEF LinkOK, FailureOK, Lab!TypeOK, Lab!Degraded, Lab!Judge, Lab!Goto, Lab!lab
  <2>4. FailureOK'
    BY <1>0, <1>7, <2>1, <2>2 DEF FailureOK, LinkOK, PhasesOK, Lab!Degraded, Lab!Judge, Lab!Goto, Lab!lab
  <2>5. PhasesOK'
    BY <1>0, <1>7, <2>1, <2>2 DEF PhasesOK, FailureOK, LinkOK, Lab!Degraded, Lab!Judge, Lab!Goto, Lab!lab
  <2>6. RuntimeOK'
    BY <1>0, <1>7, <2>1, <2>2 DEF RuntimeOK, FailureOK, PhasesOK, Lab!TypeOK, Lab!Degraded, Lab!Judge, Lab!Goto, Lab!lab
  <2> QED BY <1>0, <2>3, <2>4, <2>5, <2>6 DEF LabInvariant
<1>8. CASE Lab!Restore
  <2>1. phases' = phases \/ phases' = Append(phases, "RESTORING")
    BY <1>8 DEF Lab!Restore, Lab!Goto, Lab!Phase, Lab!Up, Lab!lab
  <2>2. /\ phases' = phases => \A x : Lab!Reported(x)' <=> Lab!Reported(x)
        /\ phases' = phases => \A k : Reached(k) => Reached(k)'
        /\ phases' = Append(phases, "RESTORING") =>
             phases' \in Seq(Names) /\ \A x : Lab!Reported(x)' <=> Lab!Reported(x) \/ x = "RESTORING"
        /\ phases' = Append(phases, "RESTORING") /\ Reached(3) => Reached(4)'
    BY <1>0, ReportedKept, ReportedAfter, ReachedKept, ReachedNext, PhasesInOrder DEF PhasesOK, Names
  <2>3. LinkOK'
    BY <1>0, <1>8 DEF LinkOK, FailureOK, Lab!TypeOK, Lab!Restore, Lab!Goto, Lab!Phase, Lab!Up, Lab!lab
  <2>4. FailureOK'
    BY <1>0, <1>8, <2>1, <2>2 DEF FailureOK, LinkOK, PhasesOK, Lab!Restore, Lab!Goto, Lab!Phase, Lab!Up, Lab!lab
  <2>7. interrupts \in Nat
    BY <1>0 DEF Lab!TypeOK
  <2>5. PhasesOK'
    BY <1>0, <1>8, <2>1, <2>2, <2>7 DEF PhasesOK, FailureOK, LinkOK, Lab!Restore, Lab!Goto, Lab!Phase, Lab!Up, Lab!lab
  <2>6. RuntimeOK'
    BY <1>0, <1>8, <2>1, <2>2 DEF RuntimeOK, FailureOK, PhasesOK, Lab!TypeOK, Lab!Restore, Lab!Goto, Lab!Phase, Lab!Up, Lab!lab
  <2> QED BY <1>0, <2>3, <2>4, <2>5, <2>6 DEF LabInvariant
<1>9. CASE Lab!RecoveryPolled
  <2>2. phases' = phases /\ \A x : Lab!Reported(x)' <=> Lab!Reported(x)
    BY <1>9, ReportedKept DEF Lab!RecoveryPolled, Lab!Polled, Lab!Goto, Lab!lab
  <2>1. \A k : Reached(k) => Reached(k)'
    BY <2>2, ReachedKept
  <2>3. LinkOK'
    BY <1>0, <1>9 DEF LinkOK, FailureOK, Lab!TypeOK, Lab!RecoveryPolled, Lab!Polled, Lab!Goto, Lab!lab
  <2>4. FailureOK'
    BY <1>0, <1>9, <2>1, <2>2 DEF FailureOK, LinkOK, PhasesOK, Lab!RecoveryPolled, Lab!Polled, Lab!Goto, Lab!lab
  <2>5. PhasesOK'
    BY <1>0, <1>9, <2>1, <2>2 DEF PhasesOK, FailureOK, LinkOK, Lab!RecoveryPolled, Lab!Polled, Lab!Goto, Lab!lab
  <2>6. RuntimeOK'
    BY <1>0, <1>9, <2>1, <2>2 DEF RuntimeOK, FailureOK, PhasesOK, Lab!TypeOK, Lab!RecoveryPolled, Lab!Polled, Lab!Goto, Lab!lab
  <2> QED BY <1>0, <2>3, <2>4, <2>5, <2>6 DEF LabInvariant
<1>10. CASE Lab!Recovery
  <2>1. phases' = phases \/ phases' = Append(phases, "RECOVERED")
    BY <1>10 DEF Lab!Recovery, Lab!Judge, Lab!Goto, Lab!Phase, Lab!lab
  <2>2. /\ phases' = phases => \A x : Lab!Reported(x)' <=> Lab!Reported(x)
        /\ phases' = phases => \A k : Reached(k) => Reached(k)'
        /\ phases' = Append(phases, "RECOVERED") =>
             phases' \in Seq(Names) /\ \A x : Lab!Reported(x)' <=> Lab!Reported(x) \/ x = "RECOVERED"
        /\ phases' = Append(phases, "RECOVERED") /\ Reached(4) => Reached(5)'
    BY <1>0, ReportedKept, ReportedAfter, ReachedKept, ReachedNext, PhasesInOrder DEF PhasesOK, Names
  <2>3. LinkOK'
    BY <1>0, <1>10 DEF LinkOK, FailureOK, Lab!TypeOK, Lab!Recovery, Lab!Judge, Lab!Goto, Lab!Phase, Lab!lab
  <2>4. FailureOK'
    BY <1>0, <1>10, <2>1, <2>2 DEF FailureOK, LinkOK, PhasesOK, Lab!Recovery, Lab!Judge, Lab!Goto, Lab!Phase, Lab!lab
  <2>5. PhasesOK'
    BY <1>0, <1>10, <2>1, <2>2 DEF PhasesOK, FailureOK, LinkOK, Lab!Recovery, Lab!Judge, Lab!Goto, Lab!Phase, Lab!lab
  <2>6. RuntimeOK'
    BY <1>0, <1>10, <2>1, <2>2 DEF RuntimeOK, FailureOK, PhasesOK, Lab!TypeOK, Lab!Recovery, Lab!Judge, Lab!Goto, Lab!Phase, Lab!lab
  <2> QED BY <1>0, <2>3, <2>4, <2>5, <2>6 DEF LabInvariant
<1>11. CASE Lab!Finish
  <2>1. phases' = phases \/ phases' = Append(phases, "FAILED")
    BY <1>11 DEF Lab!Finish, Lab!ExitCode, Lab!Goto, Lab!lab
  <2>2. /\ phases' = phases => \A x : Lab!Reported(x)' <=> Lab!Reported(x)
        /\ phases' = phases => \A k : Reached(k) => Reached(k)'
        /\ phases' = Append(phases, "FAILED") =>
             phases' \in Seq(Names) /\ \A x : Lab!Reported(x)' <=> Lab!Reported(x) \/ x = "FAILED"
    BY <1>0, ReportedKept, ReportedAfter, ReachedKept, ReachedNext, PhasesInOrder DEF PhasesOK, Names
  <2>3. LinkOK'
    BY <1>0, <1>11 DEF LinkOK, FailureOK, Lab!TypeOK, Lab!Finish, Lab!ExitCode, Lab!Goto, Lab!lab
  <2>4. FailureOK'
    BY <1>0, <1>11, <2>1, <2>2 DEF FailureOK, LinkOK, PhasesOK, Lab!Finish, Lab!ExitCode, Lab!Goto, Lab!lab
  <2>5. PhasesOK'
    BY <1>0, <1>11, <2>1, <2>2 DEF PhasesOK, FailureOK, LinkOK, Lab!Finish, Lab!ExitCode, Lab!Goto, Lab!lab
  <2>6. RuntimeOK'
    BY <1>0, <1>11, <2>1, <2>2 DEF RuntimeOK, FailureOK, PhasesOK, Lab!TypeOK, Lab!Finish, Lab!ExitCode, Lab!Goto, Lab!lab
  <2> QED BY <1>0, <2>3, <2>4, <2>5, <2>6 DEF LabInvariant
<1>12. CASE Lab!NoMonitor
  <2>2. phases' = phases /\ \A x : Lab!Reported(x)' <=> Lab!Reported(x)
    BY <1>12, ReportedKept DEF Lab!NoMonitor, Lab!Goto, Lab!lab
  <2>1. \A k : Reached(k) => Reached(k)'
    BY <2>2, ReachedKept
  <2>3. LinkOK'
    BY <1>0, <1>12 DEF LinkOK, FailureOK, Lab!TypeOK, Lab!NoMonitor, Lab!Goto, Lab!lab
  <2>4. FailureOK'
    BY <1>0, <1>12, <2>1, <2>2 DEF FailureOK, LinkOK, PhasesOK, Lab!NoMonitor, Lab!Goto, Lab!lab
  <2>5. PhasesOK'
    BY <1>0, <1>12, <2>1, <2>2 DEF PhasesOK, FailureOK, LinkOK, Lab!NoMonitor, Lab!Goto, Lab!lab
  <2>6. RuntimeOK'
    BY <1>0, <1>12, <2>1, <2>2 DEF RuntimeOK, FailureOK, PhasesOK, Lab!TypeOK, Lab!NoMonitor, Lab!Goto, Lab!lab
  <2> QED BY <1>0, <2>3, <2>4, <2>5, <2>6 DEF LabInvariant
<1>13. CASE Lab!Raise
  <2>2. phases' = phases /\ \A x : Lab!Reported(x)' <=> Lab!Reported(x)
    BY <1>13, ReportedKept DEF Lab!Raise, Lab!Goto, Lab!lab
  <2>1. \A k : Reached(k) => Reached(k)'
    BY <2>2, ReachedKept
  <2>3. LinkOK'
    BY <1>0, <1>13 DEF LinkOK, FailureOK, Lab!TypeOK, Lab!Raise, Lab!Goto, Lab!lab
  <2>4. FailureOK'
    BY <1>0, <1>13, <2>1, <2>2 DEF FailureOK, LinkOK, PhasesOK, Lab!Raise, Lab!Goto, Lab!lab
  <2>5. PhasesOK'
    BY <1>0, <1>13, <2>1, <2>2 DEF PhasesOK, FailureOK, LinkOK, Lab!Raise, Lab!Goto, Lab!lab
  <2>6. RuntimeOK'
    BY <1>0, <1>13, <2>1, <2>2 DEF RuntimeOK, FailureOK, PhasesOK, Lab!TypeOK, Lab!Raise, Lab!Goto, Lab!lab
  <2> QED BY <1>0, <2>3, <2>4, <2>5, <2>6 DEF LabInvariant
<1>14. CASE Lab!Converge
  <2>2. phases' = phases /\ \A x : Lab!Reported(x)' <=> Lab!Reported(x)
    BY <1>14, ReportedKept DEF Lab!Converge, Lab!Healthy, Lab!lab
  <2>1. \A k : Reached(k) => Reached(k)'
    BY <2>2, ReachedKept
  <2>3. LinkOK'
    BY <1>0, <1>14 DEF LinkOK, FailureOK, Lab!TypeOK, Lab!Converge, Lab!Healthy, Lab!lab
  <2>4. FailureOK'
    BY <1>0, <1>14, <2>1, <2>2 DEF FailureOK, LinkOK, PhasesOK, Lab!Converge, Lab!Healthy, Lab!lab
  <2>5. PhasesOK'
    BY <1>0, <1>14, <2>1, <2>2 DEF PhasesOK, FailureOK, LinkOK, Lab!Converge, Lab!Healthy, Lab!lab
  <2>6. RuntimeOK'
    BY <1>0, <1>14, <2>1, <2>2 DEF RuntimeOK, FailureOK, PhasesOK, Lab!TypeOK, Lab!Converge, Lab!Healthy, Lab!lab
  <2> QED BY <1>0, <2>3, <2>4, <2>5, <2>6 DEF LabInvariant
<1>15. CASE Lab!Restart
  <2>2. phases' = phases /\ \A x : Lab!Reported(x)' <=> Lab!Reported(x)
    BY <1>15, ReportedKept DEF Lab!Restart, Lab!lab
  <2>1. \A k : Reached(k) => Reached(k)'
    BY <2>2, ReachedKept
  <2>3. LinkOK'
    BY <1>0, <1>15 DEF LinkOK, FailureOK, Lab!TypeOK, Lab!Restart, Lab!lab
  <2>4. FailureOK'
    BY <1>0, <1>15, <2>1, <2>2 DEF FailureOK, LinkOK, PhasesOK, Lab!Restart, Lab!lab
  <2>5. PhasesOK'
    BY <1>0, <1>15, <2>1, <2>2 DEF PhasesOK, FailureOK, LinkOK, Lab!Restart, Lab!lab
  <2>6. RuntimeOK'
    BY <1>0, <1>15, <2>1, <2>2 DEF RuntimeOK, FailureOK, PhasesOK, Lab!TypeOK, Lab!Restart, Lab!lab
  <2> QED BY <1>0, <2>3, <2>4, <2>5, <2>6 DEF LabInvariant
<1>16. CASE Lab!Interrupt
  <2>2. phases' = phases /\ \A x : Lab!Reported(x)' <=> Lab!Reported(x)
    BY <1>16, ReportedKept DEF Lab!Interrupt, Lab!Goto, Lab!lab
  <2>1. \A k : Reached(k) => Reached(k)'
    BY <2>2, ReachedKept
  <2>3. LinkOK'
    BY <1>0, <1>16 DEF LinkOK, FailureOK, Lab!TypeOK, Lab!Interrupt, Lab!Goto, Lab!lab
  <2>4. FailureOK'
    BY <1>0, <1>16, <2>1, <2>2 DEF FailureOK, LinkOK, PhasesOK, Lab!Interrupt, Lab!Goto, Lab!lab
  <2>7. interrupts \in Nat
    BY <1>0 DEF Lab!TypeOK
  <2>5. PhasesOK'
    BY <1>0, <1>16, <2>1, <2>2, <2>7 DEF PhasesOK, FailureOK, LinkOK, Lab!Interrupt, Lab!Goto, Lab!lab
  <2>6. RuntimeOK'
    BY <1>0, <1>16, <2>1, <2>2 DEF RuntimeOK, FailureOK, PhasesOK, Lab!TypeOK, Lab!Interrupt, Lab!Goto, Lab!lab
  <2> QED BY <1>0, <2>3, <2>4, <2>5, <2>6 DEF LabInvariant
<1> QED BY <1>0, <1>1, <1>2, <1>3, <1>4, <1>5, <1>6, <1>7, <1>8, <1>9, <1>10, <1>11, <1>12, <1>13, <1>14, <1>15, <1>16 DEF Lab!Next, Lab!Step

LEMMA LabReports ==
  ASSUME LabInvariant
  PROVE  Lab!NotLeftDown /\ Lab!CodesTellTheTruth
<1> USE DEF Lab!Passed, Lab!ScenarioFailed, Lab!Refused, Lab!BaselineUnhealthy, Lab!RuntimeRestarted,
        Lab!RecoveryFailed, Lab!InternalError, Lab!NoCode, Lab!NoRuntime
<1>0. Lab!TypeOK /\ LinkOK /\ FailureOK /\ PhasesOK /\ RuntimeOK
  BY DEF LabInvariant
<1>1. Lab!NotLeftDown
  BY <1>0 DEF LinkOK, Lab!NotLeftDown
<1>2. ASSUME pc = "done"
      PROVE  /\ exit \in {Lab!Refused, Lab!BaselineUnhealthy} => ~injected /\ ~Lab!Reported("RESTORING")
             /\ exit \in {Lab!Passed, Lab!ScenarioFailed, Lab!RuntimeRestarted} => restored /\ Lab!Reported("RECOVERED")
             /\ exit = Lab!Passed => phases = AllPhases
             /\ exit = Lab!RecoveryFailed => injected /\ ~Lab!Reported("RECOVERED")
             /\ exit = Lab!RuntimeRestarted => runtime # before
  <2>1. exit = failure \/ (exit \in {Lab!Passed, Lab!RuntimeRestarted} /\ failure \in {Lab!NoCode, Lab!ScenarioFailed})
    BY <1>0, <1>2 DEF RuntimeOK
  <2>2. exit # Lab!NoCode
    BY <1>0, <1>2 DEF RuntimeOK
  <2>3. exit \in {Lab!Refused, Lab!BaselineUnhealthy} => ~injected /\ ~Lab!Reported("RESTORING")
    BY <1>0, <2>1, <2>2 DEF FailureOK, PhasesOK
  <2>4. exit \in {Lab!Passed, Lab!ScenarioFailed, Lab!RuntimeRestarted} => restored /\ Lab!Reported("RECOVERED")
    BY <1>0, <1>2, <2>1, <2>2 DEF FailureOK, RuntimeOK
  <2>5. exit = Lab!Passed => phases = AllPhases
    BY <1>0, ReachedAll DEF RuntimeOK, PhasesOK
  <2>6. exit = Lab!RecoveryFailed => injected /\ ~Lab!Reported("RECOVERED")
    BY <1>0, <2>1 DEF FailureOK, PhasesOK
  <2>7. exit = Lab!RuntimeRestarted => runtime # before
    BY <1>0, LabConstants DEF RuntimeOK, Lab!TypeOK
  <2> QED BY <2>3, <2>4, <2>5, <2>6, <2>7
<1>3. Lab!CodesTellTheTruth
  BY <1>2 DEF Lab!CodesTellTheTruth, AllPhases
<1> QED BY <1>1, <1>3

-----------------------------------------------------------------------------
(* The collection of the lab's state. *)

(* Every command that was run has returned what was so at some moment, or  *)
(* failed; the nodes that were passed have answered everything, and none   *)
(* of them listed a route twice.                                           *)
ReadsOK ==
  /\ \A x \in Collection!Fact : fact[x] \in since[x] /\ since[x] \subseteq Collection!Values[x[2]]
  /\ \A q \in Collection!Query :
       read[q] \in {"pending", "unavailable"} \cup since[<<q[1], Collection!AspectOf[q[2]]>>]
  /\ \A i \in 1..at - 1 : \A q \in Collection!Query :
       q[1] = Order[i] => read[q] # "pending" /\ (q[2] = "routes" => read[q] # "twice")
  /\ at <= Len(Order) => \A k \in 1..command - 1 :
       read[<<Order[at], Collection!Commands(Order[at])[k]>>] # "pending"
  /\ commandFaults = 0 => \A q \in Collection!Query : read[q] # "unavailable"

(* A snapshot is of every node; one that is stored has no anomaly of a     *)
(* device that is not registered.                                          *)
StorageOK ==
  /\ collectPc = "done" <=> collectExit # Collection!NoCode
  /\ Collection!Snapshot => at = Len(Order) + 1
  /\ collectPc = "ingest" \/ collectExit \in {Collection!NotRegistered, Collection!Rejected} => mode = "ingest" /\ ~stored
  /\ stored => collectPc \in {"print", "done"} /\ at = Len(Order) + 1 /\ Collection!Anomalous \subseteq registered
  /\ mode = "ingest" /\ (collectPc = "print" \/ collectExit \in {Collection!Complete, Collection!Incomplete}) => stored
  /\ collectExit = Collection!Complete => Collection!IsComplete

CollectionInvariant == Collection!TypeOK /\ ReadsOK /\ StorageOK

LEMMA CollectionConstants ==
  /\ Router \cap Host = {} /\ Collection!Node = Router \cup Host
  /\ Len(Order) \in Nat /\ DOMAIN Order = 1..Len(Order)
  /\ \A i \in 1..Len(Order) : Order[i] \in Collection!Node
  /\ \A n \in Collection!Node : \E i \in 1..Len(Order) : Order[i] = n
  /\ \A i, j \in 1..Len(Order) : Order[i] = Order[j] => i = j
  /\ Starts \subseteq Collection!Fabrics
  /\ MaxFabricChanges \in Nat /\ MaxCommandFaults \in Nat
<1>1. Collection!CollectorConstants
  BY ScriptsAssumption
<1>2. Order \in Seq(Collection!Node)
  BY <1>1 DEF Collection!CollectorConstants
<1>3. Len(Order) \in Nat /\ DOMAIN Order = 1..Len(Order) /\ \A i \in 1..Len(Order) : Order[i] \in Collection!Node
  BY <1>2
<1> QED BY <1>1, <1>3 DEF Collection!CollectorConstants, Collection!Node

(* A query is one of the three commands of its node. *)
LEMMA QueriesAreCommands ==
  /\ \A n \in Collection!Node :
       /\ Len(Collection!Commands(n)) = 3
       /\ \A k \in 1..3 : <<n, Collection!Commands(n)[k]>> \in Collection!Query
       /\ \A j, k \in 1..3 : Collection!Commands(n)[j] = Collection!Commands(n)[k] => j = k
       /\ \A k \in 1..3 : Collection!Commands(n)[k] = "routes" => k = 3
  /\ \A q \in Collection!Query :
       q[1] \in Collection!Node /\ \E k \in 1..3 : q = <<q[1], Collection!Commands(q[1])[k]>>
<1> USE CollectionConstants
<1>1. ASSUME NEW n \in Router
      PROVE  /\ n \in Collection!Node
             /\ Collection!Commands(n) = <<"interfaces", "bgp", "routes">>
  BY DEF Collection!Commands
<1>2. ASSUME NEW n \in Host
      PROVE  /\ n \in Collection!Node
             /\ Collection!Commands(n) = <<"link", "addr", "ping">>
  BY DEF Collection!Commands
<1>3. ASSUME NEW n \in Collection!Node
      PROVE  /\ Len(Collection!Commands(n)) = 3
             /\ \A k \in 1..3 : <<n, Collection!Commands(n)[k]>> \in Collection!Query
             /\ \A j, k \in 1..3 : Collection!Commands(n)[j] = Collection!Commands(n)[k] => j = k
             /\ \A k \in 1..3 : Collection!Commands(n)[k] = "routes" => k = 3
  <2>1. CASE n \in Router
    BY <1>1, <2>1 DEF Collection!Query
  <2>2. CASE n \in Host
    BY <1>2, <2>2 DEF Collection!Query
  <2> QED BY <2>1, <2>2
<1>4. ASSUME NEW q \in Collection!Query
      PROVE  q[1] \in Collection!Node /\ \E k \in 1..3 : q = <<q[1], Collection!Commands(q[1])[k]>>
  <2>1. CASE q \in Router \X {"interfaces", "bgp", "routes"}
    <3>1. PICK n \in Router, c \in {"interfaces", "bgp", "routes"} : q = <<n, c>>
      BY <2>1
    <3>2. q[1] = n /\ Collection!Commands(n) = <<"interfaces", "bgp", "routes">> /\ n \in Collection!Node
      BY <3>1, <1>1
    <3>3. \E k \in 1..3 : Collection!Commands(n)[k] = c
      BY <3>2
    <3> QED BY <3>1, <3>2, <3>3
  <2>2. CASE q \in Host \X {"link", "addr", "ping"}
    <3>1. PICK n \in Host, c \in {"link", "addr", "ping"} : q = <<n, c>>
      BY <2>2
    <3>2. q[1] = n /\ Collection!Commands(n) = <<"link", "addr", "ping">> /\ n \in Collection!Node
      BY <3>1, <1>2
    <3>3. \E k \in 1..3 : Collection!Commands(n)[k] = c
      BY <3>2
    <3> QED BY <3>1, <3>2, <3>3
  <2> QED BY <2>1, <2>2 DEF Collection!Query
<1> QED BY <1>3, <1>4

(* Every query reads a fact, whose values are not the marks of a query     *)
(* that has no answer.                                                     *)
LEMMA QueriesReadFacts ==
  /\ \A q \in Collection!Query : <<q[1], Collection!AspectOf[q[2]]>> \in Collection!Fact
  /\ \A x \in Collection!Fact : x[2] \in DOMAIN Collection!Values
  /\ \A a \in DOMAIN Collection!Values :
       /\ Collection!Values[a] \subseteq Collection!Value
       /\ "pending" \notin Collection!Values[a] /\ "unavailable" \notin Collection!Values[a]
       /\ "twice" \in Collection!Values[a] => a = "route"
  /\ \A q \in Collection!Query : Collection!AspectOf[q[2]] = "route" <=> q[2] = "routes"
<1> DEFINE A == {"interface", "session", "route", "ping"}
<1>1. DOMAIN Collection!Values = A
  BY DEF Collection!Values
<1>2. \A a \in A : Collection!Values[a] \subseteq Collection!Value
  BY <1>1 DEF Collection!Value
<1>3. \A a \in A : "pending" \notin Collection!Values[a] /\ "unavailable" \notin Collection!Values[a]
                   /\ ("twice" \in Collection!Values[a] => a = "route")
  BY DEF Collection!Values
<1>4. \A x \in Collection!Fact : x[2] \in A
  BY DEF Collection!Fact
<1>5. \A q \in Collection!Query :
        /\ <<q[1], Collection!AspectOf[q[2]]>> \in Collection!Fact
        /\ Collection!AspectOf[q[2]] = "route" <=> q[2] = "routes"
  BY DEF Collection!Query, Collection!Fact, Collection!AspectOf, Collection!Node
<1> QED BY <1>1, <1>2, <1>3, <1>4, <1>5

LEMMA CollectionBegins == Collection!Init => CollectionInvariant
<1> SUFFICES ASSUME Collection!Init PROVE CollectionInvariant
  OBVIOUS
<1> USE CollectionConstants, QueriesReadFacts
<1>1. fact \in Collection!Fabrics /\ since = [x \in Collection!Fact |-> {fact[x]}]
  BY DEF Collection!Init
<1>2. \A x \in Collection!Fact : fact[x] \in Collection!Values[x[2]] /\ fact[x] \in Collection!Value
  BY <1>1 DEF Collection!Fabrics
<1>3. since \in [Collection!Fact -> SUBSET Collection!Value]
  BY <1>1, <1>2
<1>4. read = [q \in Collection!Query |-> "pending"] /\ at = 1 /\ command = 1
  BY DEF Collection!Init
<1>5. ReadsOK
  <2>1. \A x \in Collection!Fact : fact[x] \in since[x] /\ since[x] \subseteq Collection!Values[x[2]]
    BY <1>1, <1>2
  <2>2. \A q \in Collection!Query : read[q] = "pending"
    BY <1>4
  <2>3. 1..at - 1 = {} /\ 1..command - 1 = {}
    BY <1>4
  <2> QED BY <2>1, <2>2, <2>3 DEF ReadsOK
<1>6. Collection!TypeOK
  <2>1. read \in [Collection!Query -> Collection!Value \cup {"pending", "unavailable"}]
    BY <1>4
  <2>2. at \in 1..Len(Order) + 1 /\ command \in 1..3
    BY <1>4
  <2>3. stored \in BOOLEAN /\ registered \subseteq Router
    BY Zenon DEF Collection!Init
  <2>4. collectExit \in Collection!Complete..Collection!NoCode /\ changes \in 0..MaxFabricChanges
        /\ commandFaults \in 0..MaxCommandFaults
    BY DEF Collection!Init, Collection!Complete, Collection!NoCode
  <2>5. mode \in {"collect", "ingest"} /\ latest = "older" /\ collectPc = "begin"
    BY DEF Collection!Init
  <2> QED BY <1>1, <1>3, <2>1, <2>2, <2>3, <2>4, <2>5 DEF Collection!TypeOK
<1>7. StorageOK
  BY DEF Collection!Init, StorageOK, Collection!Snapshot, Collection!Complete, Collection!Incomplete,
         Collection!NoCode, Collection!NotRegistered, Collection!Rejected
<1> QED BY <1>5, <1>6, <1>7 DEF CollectionInvariant

(* What one command of a node does to what has been read. *)
LEMMA RunReads ==
  ASSUME Collection!TypeOK, Collection!Run
  PROVE  LET n == Order[at]
             q == <<n, Collection!Commands(n)[command]>>
         IN /\ collectPc = "collect" /\ at \in 1..Len(Order) /\ n \in Collection!Node /\ q \in Collection!Query
            /\ \/ read' = [read EXCEPT ![q] = fact[<<n, Collection!AspectOf[q[2]]>>]] /\ commandFaults' = commandFaults
               \/ read' = [read EXCEPT ![q] = "unavailable"] /\ commandFaults' = commandFaults + 1
                  /\ commandFaults < MaxCommandFaults
            /\ \/ command < 3 /\ command' = command + 1 /\ UNCHANGED <<collectPc, at, collectExit>>
               \/ command = 3 /\ read'[q] = "twice" /\ collectPc' = "done" /\ collectExit' = Collection!Error
                  /\ UNCHANGED <<at, command>>
               \/ command = 3 /\ read'[q] # "twice" /\ at' = at + 1 /\ command' = 1
                  /\ UNCHANGED <<collectPc, collectExit>>
            /\ UNCHANGED <<mode, fact, since, registered, latest, stored, changes>>
<1> DEFINE n == Order[at]
           q == <<n, Collection!Commands(n)[command]>>
<1>1. at \in 1..Len(Order) + 1 /\ command \in 1..3 /\ collectPc = "collect" /\ at <= Len(Order)
  BY DEF Collection!TypeOK, Collection!Run
<1>2. at \in 1..Len(Order)
  BY <1>1, CollectionConstants
<1>3. n \in Collection!Node
  BY <1>2, CollectionConstants
<1>4. q \in Collection!Query /\ Len(Collection!Commands(n)) = 3
  BY <1>1, <1>3, QueriesAreCommands
<1>5. \/ read' = [read EXCEPT ![q] = fact[<<n, Collection!AspectOf[q[2]]>>]] /\ commandFaults' = commandFaults
      \/ read' = [read EXCEPT ![q] = "unavailable"] /\ commandFaults' = commandFaults + 1
         /\ commandFaults < MaxCommandFaults
  BY DEF Collection!Run, Collection!Failure
<1>6. \/ command < 3 /\ command' = command + 1 /\ UNCHANGED <<collectPc, at, collectExit>>
      \/ command = 3 /\ read'[q] = "twice" /\ collectPc' = "done" /\ collectExit' = Collection!Error
         /\ UNCHANGED <<at, command>>
      \/ command = 3 /\ read'[q] # "twice" /\ at' = at + 1 /\ command' = 1
         /\ UNCHANGED <<collectPc, collectExit>>
  <2>1. /\ command < Len(Collection!Commands(n)) => command' = command + 1 /\ UNCHANGED <<collectPc, at, collectExit>>
        /\ ~(command < Len(Collection!Commands(n))) /\ read'[q] = "twice" =>
             Collection!End(Collection!Error) /\ UNCHANGED <<at, command>>
        /\ ~(command < Len(Collection!Commands(n))) /\ read'[q] # "twice" =>
             at' = at + 1 /\ command' = 1 /\ UNCHANGED <<collectPc, collectExit>>
    BY Zenon DEF Collection!Run
  <2> QED BY <1>1, <1>4, <2>1 DEF Collection!End
<1>7. UNCHANGED <<mode, fact, since, registered, latest, stored, changes>>
  BY DEF Collection!Run
<1> QED BY <1>1, <1>2, <1>3, <1>4, <1>5, <1>6, <1>7

LEMMA RunKeeps ==
  ASSUME CollectionInvariant, Collection!Run
  PROVE  CollectionInvariant'
<1> DEFINE n == Order[at]
           q == <<n, Collection!Commands(n)[command]>>
<1> USE DEF Collection!Complete, Collection!Incomplete, Collection!Error, Collection!NotRegistered,
            Collection!Rejected, Collection!Interrupted, Collection!NoCode
<1>0. Collection!TypeOK /\ ReadsOK /\ StorageOK
  BY DEF CollectionInvariant
<1>1. collectPc = "collect" /\ at \in 1..Len(Order) /\ n \in Collection!Node /\ q \in Collection!Query
  BY <1>0, RunReads
<1>2. \/ read' = [read EXCEPT ![q] = fact[<<n, Collection!AspectOf[q[2]]>>]] /\ commandFaults' = commandFaults
      \/ read' = [read EXCEPT ![q] = "unavailable"] /\ commandFaults' = commandFaults + 1
         /\ commandFaults < MaxCommandFaults
  BY <1>0, RunReads
<1>3. \/ command < 3 /\ command' = command + 1 /\ UNCHANGED <<collectPc, at, collectExit>>
      \/ command = 3 /\ read'[q] = "twice" /\ collectPc' = "done" /\ collectExit' = Collection!Error
         /\ UNCHANGED <<at, command>>
      \/ command = 3 /\ read'[q] # "twice" /\ at' = at + 1 /\ command' = 1
         /\ UNCHANGED <<collectPc, collectExit>>
  BY <1>0, RunReads
<1>4. UNCHANGED <<mode, fact, since, registered, latest, stored, changes>>
  BY <1>0, RunReads
<1>5. read \in [Collection!Query -> Collection!Value \cup {"pending", "unavailable"}] /\ command \in 1..3
      /\ commandFaults \in 0..MaxCommandFaults /\ at \in 1..Len(Order) + 1
  BY <1>0 DEF Collection!TypeOK
<1>6. /\ <<n, Collection!AspectOf[q[2]]>> \in Collection!Fact
      /\ fact[<<n, Collection!AspectOf[q[2]]>>] \in since[<<n, Collection!AspectOf[q[2]]>>]
      /\ since[<<n, Collection!AspectOf[q[2]]>>] \subseteq Collection!Value
      /\ "pending" \notin since[<<n, Collection!AspectOf[q[2]]>>]
      /\ "unavailable" \notin since[<<n, Collection!AspectOf[q[2]]>>]
  <2>1. q[1] = n /\ <<q[1], Collection!AspectOf[q[2]]>> \in Collection!Fact
    BY <1>1, QueriesReadFacts
  <2> QED BY <1>0, <2>1, QueriesReadFacts DEF ReadsOK
<1>7. /\ read'[q] = "unavailable" \/ read'[q] \in since[<<n, Collection!AspectOf[q[2]]>>]
      /\ read'[q] # "pending"
      /\ \A r \in Collection!Query : r # q => read'[r] = read[r]
      /\ read' \in [Collection!Query -> Collection!Value \cup {"pending", "unavailable"}]
  BY <1>1, <1>2, <1>5, <1>6
<1>8. Collection!TypeOK'
  <2>1. at' \in 1..Len(Order) + 1 /\ command' \in 1..3
    BY <1>1, <1>3, <1>5, CollectionConstants
  <2>2. commandFaults' \in 0..MaxCommandFaults
    BY <1>2, <1>5, CollectionConstants
  <2>3. collectPc' \in {"begin", "collect", "ingest", "print", "done"}
        /\ collectExit' \in Collection!Complete..Collection!NoCode
    BY <1>0, <1>3 DEF Collection!TypeOK
  <2> QED BY <1>0, <1>4, <1>7, <2>1, <2>2, <2>3 DEF Collection!TypeOK
<1>9. ReadsOK'
  <2>1. \A x \in Collection!Fact : fact'[x] \in since'[x] /\ since'[x] \subseteq Collection!Values[x[2]]
    BY <1>0, <1>4 DEF ReadsOK
  <2>2. ASSUME NEW r \in Collection!Query
        PROVE  read'[r] \in {"pending", "unavailable"} \cup since'[<<r[1], Collection!AspectOf[r[2]]>>]
    BY <1>0, <1>4, <1>7 DEF ReadsOK
  <2>3. ASSUME NEW i \in 1..at' - 1, NEW r \in Collection!Query, r[1] = Order[i]
        PROVE  read'[r] # "pending" /\ (r[2] = "routes" => read'[r] # "twice")
    <3>1. CASE i \in 1..at - 1
      <4>1. r # q
        BY <1>1, <2>3, <3>1, CollectionConstants
      <4> QED BY <1>0, <1>7, <2>3, <3>1, <4>1 DEF ReadsOK
    <3>2. CASE i \notin 1..at - 1
      <4>1. i = at /\ command = 3 /\ read'[q] # "twice"
        BY <1>1, <1>3, <3>2, CollectionConstants
      <4>2. PICK k \in 1..3 : r = <<n, Collection!Commands(n)[k]>>
        BY <2>3, <4>1, QueriesAreCommands
      <4>3. CASE k = 3
        BY <1>7, <4>1, <4>2, <4>3
      <4>4. CASE k \in 1..command - 1
        <5>3. k # command /\ command \in 1..3 /\ k # 3
          BY <1>5, <4>1, <4>4
        <5>1. Collection!Commands(n)[k] # Collection!Commands(n)[command] /\ Collection!Commands(n)[k] # "routes"
          BY <1>1, <5>3, QueriesAreCommands
        <5>2. read[r] # "pending"
          BY <1>0, <1>1, <4>2, <4>4, CollectionConstants DEF ReadsOK
        <5> QED BY <1>7, <4>2, <5>1, <5>2
      <4> QED BY <4>1, <4>3, <4>4
    <3> QED BY <3>1, <3>2
  <2>4. ASSUME at' <= Len(Order), NEW k \in 1..command' - 1
        PROVE  read'[<<Order[at'], Collection!Commands(Order[at'])[k]>>] # "pending"
    <3>1. at' = at /\ k \in 1..command
      BY <1>3, <1>5, <2>4
    <3>2. CASE k = command
      BY <1>7, <3>1, <3>2
    <3>3. CASE k \in 1..command - 1
      <4>3. k \in 1..3 /\ k # command
        BY <1>5, <3>3
      <4>4. Collection!Commands(n)[k] # Collection!Commands(n)[command]
        BY <1>1, <1>5, <4>3, QueriesAreCommands
      <4>1. <<n, Collection!Commands(n)[k]>> \in Collection!Query /\ <<n, Collection!Commands(n)[k]>> # q
        BY <1>1, <4>3, <4>4, QueriesAreCommands
      <4>2. read[<<n, Collection!Commands(n)[k]>>] # "pending"
        BY <1>0, <1>1, <3>3, CollectionConstants DEF ReadsOK
      <4> QED BY <1>7, <3>1, <4>1, <4>2
    <3> QED BY <1>5, <3>1, <3>2, <3>3
  <2>5. ASSUME commandFaults' = 0, NEW r \in Collection!Query PROVE read'[r] # "unavailable"
    <3>1. commandFaults = 0 /\ read' = [read EXCEPT ![q] = fact[<<n, Collection!AspectOf[q[2]]>>]]
      BY <1>2, <1>5, <2>5, CollectionConstants
    <3>2. read[r] # "unavailable"
      BY <1>0, <3>1 DEF ReadsOK
    <3> QED BY <1>5, <1>6, <3>1, <3>2
  <2> QED BY <2>1, <2>2, <2>3, <2>4, <2>5 DEF ReadsOK
<1>10. StorageOK'
  <2>1. at # Len(Order) + 1
    BY <1>1, CollectionConstants
  <2>2. ~stored /\ collectExit = Collection!NoCode
    BY <1>0, <1>1, <2>1 DEF StorageOK
  <2> QED BY <1>1, <1>3, <1>4, <2>2 DEF StorageOK, Collection!Snapshot
<1> QED BY <1>8, <1>9, <1>10 DEF CollectionInvariant

(* What has been read, and what follows from it, is kept where nothing is  *)
(* read.                                                                   *)
LEMMA ReadsKept ==
  ASSUME ReadsOK, UNCHANGED <<fact, since, at, command, read, commandFaults>>
  PROVE  ReadsOK'
BY DEF ReadsOK

LEMMA SeenKept ==
  ASSUME read' = read
  PROVE  Collection!Anomalous' = Collection!Anomalous /\ (Collection!IsComplete' <=> Collection!IsComplete)
<1>1. \A n, facet : Collection!Unavailable(n, facet)' <=> Collection!Unavailable(n, facet)
  BY DEF Collection!Unavailable, Collection!Unlisted
<1>2. \A n, facet : Collection!Observed(n, facet)' = Collection!Observed(n, facet)
  BY DEF Collection!Observed
<1> QED BY <1>1, <1>2 DEF Collection!Anomalous, Collection!IsComplete

LEMMA CollectionKept ==
  ASSUME CollectionInvariant, Collection!Next
  PROVE  CollectionInvariant'
<1> USE CollectionConstants DEF Collection!Complete, Collection!Incomplete, Collection!Error,
        Collection!NotRegistered, Collection!Rejected, Collection!Interrupted, Collection!NoCode
<1>0. Collection!TypeOK /\ ReadsOK /\ StorageOK
  BY DEF CollectionInvariant
<1>1. CASE Collection!Refuse
  <2>1. UNCHANGED <<fact, since, registered, at, command, read, changes, commandFaults>>
    BY <1>1 DEF Collection!Refuse, Collection!End
  <2>2. ReadsOK' /\ Collection!Anomalous' = Collection!Anomalous /\ (Collection!IsComplete' <=> Collection!IsComplete)
    BY <1>0, <2>1, ReadsKept, SeenKept
  <2>3. collectPc' \in {"begin", "collect", "ingest", "print", "done"}
        /\ collectExit' \in Collection!Complete..Collection!NoCode
    BY <1>0, <1>1 DEF Collection!TypeOK, Collection!Refuse, Collection!End
  <2>4. mode' = mode /\ latest' \in {"older", "newer", "conflicting"}
    BY <1>0, <1>1 DEF Collection!TypeOK, Collection!Refuse, Collection!End
  <2>5. stored' \in BOOLEAN
    BY <1>0, <1>1, Zenon DEF Collection!TypeOK, Collection!Refuse, Collection!End
  <2>6. Collection!TypeOK'
    BY <1>0, <2>1, <2>3, <2>4, <2>5 DEF Collection!TypeOK
  <2>7. StorageOK'
    BY <1>0, <1>1, <2>1, <2>2 DEF StorageOK, Collection!Snapshot, Collection!TypeOK, Collection!Refuse, Collection!End
  <2> QED BY <2>2, <2>6, <2>7 DEF CollectionInvariant
<1>2. CASE Collection!Begin
  <2>1. UNCHANGED <<fact, since, registered, at, command, read, changes, commandFaults>>
    BY <1>2 DEF Collection!Begin
  <2>2. ReadsOK' /\ Collection!Anomalous' = Collection!Anomalous /\ (Collection!IsComplete' <=> Collection!IsComplete)
    BY <1>0, <2>1, ReadsKept, SeenKept
  <2>3. collectPc' \in {"begin", "collect", "ingest", "print", "done"}
        /\ collectExit' \in Collection!Complete..Collection!NoCode
    BY <1>0, <1>2 DEF Collection!TypeOK, Collection!Begin
  <2>4. mode' = mode /\ latest' \in {"older", "newer", "conflicting"}
    BY <1>0, <1>2 DEF Collection!TypeOK, Collection!Begin
  <2>5. stored' \in BOOLEAN
    BY <1>0, <1>2, Zenon DEF Collection!TypeOK, Collection!Begin
  <2>6. Collection!TypeOK'
    BY <1>0, <2>1, <2>3, <2>4, <2>5 DEF Collection!TypeOK
  <2>7. StorageOK'
    BY <1>0, <1>2, <2>1, <2>2 DEF StorageOK, Collection!Snapshot, Collection!TypeOK, Collection!Begin
  <2> QED BY <2>2, <2>6, <2>7 DEF CollectionInvariant
<1>3. CASE Collection!Assemble
  <2>1. UNCHANGED <<fact, since, registered, at, command, read, changes, commandFaults>>
    BY <1>3 DEF Collection!Assemble
  <2>2. ReadsOK' /\ Collection!Anomalous' = Collection!Anomalous /\ (Collection!IsComplete' <=> Collection!IsComplete)
    BY <1>0, <2>1, ReadsKept, SeenKept
  <2>3. collectPc' \in {"begin", "collect", "ingest", "print", "done"}
        /\ collectExit' \in Collection!Complete..Collection!NoCode
    BY <1>0, <1>3 DEF Collection!TypeOK, Collection!Assemble
  <2>4. mode' = mode /\ latest' \in {"older", "newer", "conflicting"}
    BY <1>0, <1>3 DEF Collection!TypeOK, Collection!Assemble
  <2>5. stored' \in BOOLEAN
    BY <1>0, <1>3, Zenon DEF Collection!TypeOK, Collection!Assemble
  <2>6. Collection!TypeOK'
    BY <1>0, <2>1, <2>3, <2>4, <2>5 DEF Collection!TypeOK
  <2>7. StorageOK'
    BY <1>0, <1>3, <2>1, <2>2 DEF StorageOK, Collection!Snapshot, Collection!TypeOK, Collection!Assemble
  <2> QED BY <2>2, <2>6, <2>7 DEF CollectionInvariant
<1>4. CASE Collection!Ingest
  <2>1. UNCHANGED <<fact, since, registered, at, command, read, changes, commandFaults>>
    BY <1>4 DEF Collection!Ingest, Collection!End
  <2>2. ReadsOK' /\ Collection!Anomalous' = Collection!Anomalous /\ (Collection!IsComplete' <=> Collection!IsComplete)
    BY <1>0, <2>1, ReadsKept, SeenKept
  <2>3. collectPc' \in {"begin", "collect", "ingest", "print", "done"}
        /\ collectExit' \in Collection!Complete..Collection!NoCode
    BY <1>0, <1>4 DEF Collection!TypeOK, Collection!Ingest, Collection!End
  <2>4. mode' = mode /\ latest' \in {"older", "newer", "conflicting"}
    BY <1>0, <1>4 DEF Collection!TypeOK, Collection!Ingest, Collection!End
  <2>5. stored' \in BOOLEAN
    BY <1>0, <1>4, Zenon DEF Collection!TypeOK, Collection!Ingest, Collection!End
  <2>6. Collection!TypeOK'
    BY <1>0, <2>1, <2>3, <2>4, <2>5 DEF Collection!TypeOK
  <2>7. StorageOK'
    BY <1>0, <1>4, <2>1, <2>2 DEF StorageOK, Collection!Snapshot, Collection!TypeOK, Collection!Ingest, Collection!End
  <2> QED BY <2>2, <2>6, <2>7 DEF CollectionInvariant
<1>5. CASE Collection!Output
  <2>1. UNCHANGED <<fact, since, registered, at, command, read, changes, commandFaults>>
    BY <1>5 DEF Collection!Output, Collection!End
  <2>2. ReadsOK' /\ Collection!Anomalous' = Collection!Anomalous /\ (Collection!IsComplete' <=> Collection!IsComplete)
    BY <1>0, <2>1, ReadsKept, SeenKept
  <2>3. collectPc' \in {"begin", "collect", "ingest", "print", "done"}
        /\ collectExit' \in Collection!Complete..Collection!NoCode
    BY <1>0, <1>5 DEF Collection!TypeOK, Collection!Output, Collection!End
  <2>4. mode' = mode /\ latest' \in {"older", "newer", "conflicting"}
    BY <1>0, <1>5 DEF Collection!TypeOK, Collection!Output, Collection!End
  <2>5. stored' \in BOOLEAN
    BY <1>0, <1>5, Zenon DEF Collection!TypeOK, Collection!Output, Collection!End
  <2>6. Collection!TypeOK'
    BY <1>0, <2>1, <2>3, <2>4, <2>5 DEF Collection!TypeOK
  <2>7. StorageOK'
    BY <1>0, <1>5, <2>1, <2>2 DEF StorageOK, Collection!Snapshot, Collection!TypeOK, Collection!Output, Collection!End
  <2> QED BY <2>2, <2>6, <2>7 DEF CollectionInvariant
<1>6. CASE Collection!Raise
  <2>1. UNCHANGED <<fact, since, registered, at, command, read, changes, commandFaults>>
    BY <1>6 DEF Collection!Raise, Collection!End
  <2>2. ReadsOK' /\ Collection!Anomalous' = Collection!Anomalous /\ (Collection!IsComplete' <=> Collection!IsComplete)
    BY <1>0, <2>1, ReadsKept, SeenKept
  <2>3. collectPc' \in {"begin", "collect", "ingest", "print", "done"}
        /\ collectExit' \in Collection!Complete..Collection!NoCode
    BY <1>0, <1>6 DEF Collection!TypeOK, Collection!Raise, Collection!End
  <2>4. mode' = mode /\ latest' \in {"older", "newer", "conflicting"}
    BY <1>0, <1>6 DEF Collection!TypeOK, Collection!Raise, Collection!End
  <2>5. stored' \in BOOLEAN
    BY <1>0, <1>6, Zenon DEF Collection!TypeOK, Collection!Raise, Collection!End
  <2>6. Collection!TypeOK'
    BY <1>0, <2>1, <2>3, <2>4, <2>5 DEF Collection!TypeOK
  <2>7. StorageOK'
    BY <1>0, <1>6, <2>1, <2>2 DEF StorageOK, Collection!Snapshot, Collection!TypeOK, Collection!Raise, Collection!End
  <2> QED BY <2>2, <2>6, <2>7 DEF CollectionInvariant
<1>7. CASE Collection!Interrupt
  <2>1. UNCHANGED <<fact, since, registered, at, command, read, changes, commandFaults>>
    BY <1>7 DEF Collection!Interrupt, Collection!End
  <2>2. ReadsOK' /\ Collection!Anomalous' = Collection!Anomalous /\ (Collection!IsComplete' <=> Collection!IsComplete)
    BY <1>0, <2>1, ReadsKept, SeenKept
  <2>3. collectPc' \in {"begin", "collect", "ingest", "print", "done"}
        /\ collectExit' \in Collection!Complete..Collection!NoCode
    BY <1>0, <1>7 DEF Collection!TypeOK, Collection!Interrupt, Collection!End
  <2>4. mode' = mode /\ latest' \in {"older", "newer", "conflicting"}
    BY <1>0, <1>7 DEF Collection!TypeOK, Collection!Interrupt, Collection!End
  <2>5. stored' \in BOOLEAN
    BY <1>0, <1>7, Zenon DEF Collection!TypeOK, Collection!Interrupt, Collection!End
  <2>6. Collection!TypeOK'
    BY <1>0, <2>1, <2>3, <2>4, <2>5 DEF Collection!TypeOK
  <2>7. StorageOK'
    BY <1>0, <1>7, <2>1, <2>2 DEF StorageOK, Collection!Snapshot, Collection!TypeOK, Collection!Interrupt, Collection!End
  <2> QED BY <2>2, <2>6, <2>7 DEF CollectionInvariant
<1>8. CASE Collection!Overtaken
  <2>1. UNCHANGED <<fact, since, registered, at, command, read, changes, commandFaults>>
    BY <1>8 DEF Collection!Overtaken
  <2>2. ReadsOK' /\ Collection!Anomalous' = Collection!Anomalous /\ (Collection!IsComplete' <=> Collection!IsComplete)
    BY <1>0, <2>1, ReadsKept, SeenKept
  <2>3. collectPc' \in {"begin", "collect", "ingest", "print", "done"}
        /\ collectExit' \in Collection!Complete..Collection!NoCode
    BY <1>0, <1>8 DEF Collection!TypeOK, Collection!Overtaken
  <2>4. mode' = mode /\ latest' \in {"older", "newer", "conflicting"}
    BY <1>0, <1>8 DEF Collection!TypeOK, Collection!Overtaken
  <2>5. stored' \in BOOLEAN
    BY <1>0, <1>8, Zenon DEF Collection!TypeOK, Collection!Overtaken
  <2>6. Collection!TypeOK'
    BY <1>0, <2>1, <2>3, <2>4, <2>5 DEF Collection!TypeOK
  <2>7. StorageOK'
    BY <1>0, <1>8, <2>1, <2>2 DEF StorageOK, Collection!Snapshot, Collection!TypeOK, Collection!Overtaken
  <2> QED BY <2>2, <2>6, <2>7 DEF CollectionInvariant
<1>9. CASE Collection!Change
  <2>12. PICK x \in Collection!Fact : \E v \in Collection!Values[x[2]] :
           fact' = [fact EXCEPT ![x] = v] /\ since' = [since EXCEPT ![x] = @ \cup {v}]
    BY <1>9 DEF Collection!Change
  <2>1. PICK v \in Collection!Values[x[2]] :
          fact' = [fact EXCEPT ![x] = v] /\ since' = [since EXCEPT ![x] = @ \cup {v}]
    BY <2>12
  <2>2. /\ UNCHANGED <<mode, registered, latest, collectPc, at, command, read, stored, collectExit, commandFaults>>
        /\ changes < MaxFabricChanges /\ changes' = changes + 1
    BY <1>9 DEF Collection!Change
  <2>3. /\ fact \in [Collection!Fact -> Collection!Value]
        /\ \A y \in Collection!Fact : fact[y] \in Collection!Values[y[2]]
        /\ since \in [Collection!Fact -> SUBSET Collection!Value]
    BY <1>0 DEF Collection!TypeOK, Collection!Fabrics
  <2>4. v \in Collection!Value
    BY QueriesReadFacts
  <2>5. fact' \in Collection!Fabrics
    <3>1. fact' \in [Collection!Fact -> Collection!Value]
      BY <2>1, <2>3, <2>4
    <3>2. \A y \in Collection!Fact : fact'[y] \in Collection!Values[y[2]]
      BY <2>1, <2>3
    <3> QED BY <3>1, <3>2 DEF Collection!Fabrics
  <2>6. since' \in [Collection!Fact -> SUBSET Collection!Value]
    BY <2>1, <2>3, <2>4
  <2>7. changes' \in 0..MaxFabricChanges
    BY <1>0, <2>2 DEF Collection!TypeOK
  <2>8. Collection!TypeOK'
    BY <1>0, <2>2, <2>5, <2>6, <2>7 DEF Collection!TypeOK
  <2>9. \A y \in Collection!Fact :
          /\ fact'[y] \in since'[y] /\ since'[y] \subseteq Collection!Values[y[2]]
          /\ since[y] \subseteq since'[y]
    BY <1>0, <2>1, <2>3 DEF ReadsOK
  <2>10. ReadsOK'
    <3>1. ASSUME NEW q \in Collection!Query
          PROVE  read[q] \in {"pending", "unavailable"} \cup since'[<<q[1], Collection!AspectOf[q[2]]>>]
      BY <1>0, <2>9, QueriesReadFacts DEF ReadsOK
    <3> QED BY <1>0, <2>2, <2>9, <3>1 DEF ReadsOK
  <2>11. StorageOK'
    BY <1>0, <2>2, SeenKept DEF StorageOK, Collection!Snapshot
  <2> QED BY <2>8, <2>10, <2>11 DEF CollectionInvariant
<1>10. CASE Collection!Run
  BY <1>10, RunKeeps
<1> QED BY <1>1, <1>2, <1>3, <1>4, <1>5, <1>6, <1>7, <1>8, <1>9, <1>10 DEF Collection!Next, Collection!Step

(* Where every node has been asked, every command has its answer.          *)
LEMMA AllAnswered ==
  ASSUME CollectionInvariant, at = Len(Order) + 1, NEW q \in Collection!Query
  PROVE  /\ read[q] = "unavailable" \/ read[q] \in since[<<q[1], Collection!AspectOf[q[2]]>>]
         /\ since[<<q[1], Collection!AspectOf[q[2]]>>] \subseteq Collection!Values[Collection!AspectOf[q[2]]]
         /\ read[q] # "pending" /\ (q[2] = "routes" => read[q] # "twice")
<1>1. PICK i \in 1..Len(Order) : Order[i] = q[1]
  BY CollectionConstants, QueriesAreCommands
<1>2. i \in 1..at - 1
  BY CollectionConstants
<1> QED BY <1>1, <1>2, QueriesReadFacts DEF CollectionInvariant, ReadsOK

LEMMA FacetsHaveSources ==
  ASSUME NEW n \in Collection!Node, NEW facet \in Collection!Facets(n)
  PROVE  LET c == Collection!Source(n, facet)
         IN /\ c \in Collection!Sources(n, facet) /\ <<n, c>> \in Collection!Query
            /\ Collection!Values[Collection!AspectOf[c]] \ {"twice"} \subseteq DOMAIN Collection!Normal[facet]
            /\ "twice" \in Collection!Values[Collection!AspectOf[c]] => c = "routes"
<1> DEFINE c == Collection!Source(n, facet)
<1>1. CASE n \in Router
  <2>1. c = facet /\ facet \in {"interfaces", "bgp", "routes"} /\ Collection!Sources(n, facet) = {facet}
    BY <1>1 DEF Collection!Source, Collection!Facets, Collection!Sources
  <2>2. Collection!Values[Collection!AspectOf[c]] \ {"twice"} \subseteq DOMAIN Collection!Normal[facet]
    BY <2>1 DEF Collection!Values, Collection!AspectOf, Collection!Normal, Collection!OperState,
                Collection!SessionState, Collection!NextHops
  <2>3. "twice" \in Collection!Values[Collection!AspectOf[c]] => c = "routes"
    BY <2>1 DEF Collection!Values, Collection!AspectOf
  <2> QED BY <1>1, <2>1, <2>2, <2>3 DEF Collection!Query
<1>2. CASE n \in Host
  <2>0. n \notin Router
    BY <1>2, CollectionConstants
  <2>1. \/ facet = "interfaces" /\ c = "link" /\ Collection!Sources(n, facet) = {"link", "addr"}
        \/ facet = "reachability" /\ c = "ping" /\ Collection!Sources(n, facet) = {"ping"}
    BY <2>0 DEF Collection!Source, Collection!Facets, Collection!Sources
  <2>2. Collection!Values[Collection!AspectOf[c]] \ {"twice"} \subseteq DOMAIN Collection!Normal[facet]
    BY <2>1 DEF Collection!Values, Collection!AspectOf, Collection!Normal, Collection!OperState
  <2>3. "twice" \notin Collection!Values[Collection!AspectOf[c]]
    BY <2>1 DEF Collection!Values, Collection!AspectOf
  <2> QED BY <1>2, <2>1, <2>2, <2>3 DEF Collection!Query
<1> QED BY <1>1, <1>2, CollectionConstants

LEMMA CollectionReports ==
  ASSUME CollectionInvariant
  PROVE  Collection!SaysWhatWasSo /\ Collection!NothingLeftOut /\ Collection!CodesTellWhatIsStored
<1>0. ReadsOK /\ StorageOK /\ (Collection!Snapshot => at = Len(Order) + 1)
  BY DEF CollectionInvariant, StorageOK
<1>1. ASSUME Collection!Snapshot, NEW n \in Collection!Node, NEW facet \in Collection!Facets(n),
             ~Collection!Unavailable(n, facet)
      PROVE  \E v \in Collection!Since(n, facet) \cap DOMAIN Collection!Normal[facet] :
               Collection!Observed(n, facet) = Collection!Normal[facet][v]
  <2> DEFINE c == Collection!Source(n, facet)
  <2>1. c \in Collection!Sources(n, facet) /\ <<n, c>> \in Collection!Query
    BY FacetsHaveSources
  <2>2. read[<<n, c>>] # "unavailable"
    BY <1>1, <2>1 DEF Collection!Unavailable
  <2>3. /\ read[<<n, c>>] \in since[<<n, Collection!AspectOf[c]>>]
        /\ since[<<n, Collection!AspectOf[c]>>] \subseteq Collection!Values[Collection!AspectOf[c]]
        /\ c = "routes" => read[<<n, c>>] # "twice"
    <3> DEFINE q == <<n, c>>
    <3>1. q \in Collection!Query /\ q[1] = n /\ q[2] = c
      BY <2>1
    <3> HIDE DEF q
    <3>2. /\ read[q] = "unavailable" \/ read[q] \in since[<<q[1], Collection!AspectOf[q[2]]>>]
          /\ since[<<q[1], Collection!AspectOf[q[2]]>>] \subseteq Collection!Values[Collection!AspectOf[q[2]]]
          /\ q[2] = "routes" => read[q] # "twice"
      BY <1>0, <1>1, <3>1, AllAnswered
    <3> QED BY <2>2, <3>1, <3>2 DEF q
  <2>4. read[<<n, c>>] \in DOMAIN Collection!Normal[facet]
    BY <2>3, FacetsHaveSources
  <2> QED BY <2>3, <2>4 DEF Collection!Since, Collection!Observed
<1>2. ASSUME Collection!Snapshot, commandFaults = 0, NEW n \in Collection!Node, NEW facet \in Collection!Facets(n),
             Collection!Unavailable(n, facet)
      PROVE  facet = "interfaces" /\ n \in Host /\ "gone" \in Collection!Since(n, facet)
             /\ Collection!Since(n, facet) # {"gone"}
  <2>1. \A c \in Collection!Sources(n, facet) : <<n, c>> \in Collection!Query
    BY CollectionConstants DEF Collection!Sources, Collection!Facets, Collection!Query
  <2>2. facet = "interfaces" /\ Collection!Unlisted(n)
    BY <1>0, <1>2, <2>1 DEF ReadsOK, Collection!Unavailable
  <2>3. n \in Host /\ n \notin Router /\ read[<<n, "link">>] = "gone" /\ read[<<n, "addr">>] # "gone"
    BY <2>2, CollectionConstants DEF Collection!Unlisted
  <2> DEFINE q == <<n, "link">>
             r == <<n, "addr">>
  <2>4. /\ q \in Collection!Query /\ q[1] = n /\ q[2] = "link"
        /\ r \in Collection!Query /\ r[1] = n /\ r[2] = "addr"
    BY <2>3 DEF Collection!Query
  <2>5. read[q] = "gone" /\ read[r] # "gone"
    BY <2>3
  <2>6. Collection!Since(n, facet) = since[<<n, "interface">>]
    <3>1. Collection!Source(n, facet) = "link"
      BY <2>2, <2>3 DEF Collection!Source
    <3>2. Collection!AspectOf["link"] = "interface"
      BY DEF Collection!AspectOf
    <3> QED BY <3>1, <3>2 DEF Collection!Since
  <2> HIDE DEF q, r
  <2>7. read[q] \in since[<<n, "interface">>] /\ read[r] \in since[<<n, "interface">>]
    <3>1. /\ read[q] = "unavailable" \/ read[q] \in since[<<q[1], Collection!AspectOf[q[2]]>>]
          /\ read[r] = "unavailable" \/ read[r] \in since[<<r[1], Collection!AspectOf[r[2]]>>]
      BY <1>0, <1>2, <2>4, AllAnswered
    <3>2. Collection!AspectOf["link"] = "interface" /\ Collection!AspectOf["addr"] = "interface"
      BY DEF Collection!AspectOf
    <3>3. read[q] # "unavailable" /\ read[r] # "unavailable"
      BY <1>0, <1>2, <2>4 DEF ReadsOK
    <3> QED BY <2>4, <3>1, <3>2, <3>3
  <2> QED BY <2>2, <2>3, <2>5, <2>6, <2>7
<1>3. ASSUME collectPc = "done", collectExit = Collection!Complete, NEW q \in Collection!Query
      PROVE  Collection!IsComplete /\ read[q] \in Collection!Value \ {"twice"}
  <2>1. Collection!IsComplete /\ at = Len(Order) + 1
    BY <1>0, <1>3 DEF StorageOK, Collection!Snapshot
  <2>2. read[q] # "unavailable"
    <3>1. CASE q \in Router \X {"interfaces", "bgp", "routes"}
      <4>1. PICK n \in Router, c \in {"interfaces", "bgp", "routes"} : q = <<n, c>>
        BY <3>1
      <4>2. n \in Collection!Node /\ c \in Collection!Facets(n) /\ c \in Collection!Sources(n, c)
        BY CollectionConstants DEF Collection!Facets, Collection!Sources
      <4> QED BY <2>1, <4>1, <4>2 DEF Collection!IsComplete, Collection!Unavailable
    <3>2. CASE q \in Host \X {"link", "addr", "ping"}
      <4>1. PICK n \in Host, c \in {"link", "addr", "ping"} : q = <<n, c>>
        BY <3>2
      <4>2. \E facet \in Collection!Facets(n) : c \in Collection!Sources(n, facet)
        BY CollectionConstants DEF Collection!Facets, Collection!Sources
      <4> QED BY <2>1, <4>1, <4>2, CollectionConstants DEF Collection!IsComplete, Collection!Unavailable
    <3> QED BY <3>1, <3>2 DEF Collection!Query
  <2>3. /\ read[q] \in Collection!Values[Collection!AspectOf[q[2]]]
        /\ q[2] = "routes" => read[q] # "twice"
    BY <2>1, <2>2, AllAnswered
  <2>4. Collection!AspectOf[q[2]] \in DOMAIN Collection!Values /\ (Collection!AspectOf[q[2]] = "route" <=> q[2] = "routes")
    BY QueriesReadFacts DEF Collection!Query, Collection!AspectOf, Collection!Values
  <2> QED BY <2>1, <2>3, <2>4, QueriesReadFacts
<1>4. Collection!CodesTellWhatIsStored
  <2>1. collectPc = "done" /\ collectExit = Collection!Complete => Collection!IsComplete
    BY <1>0 DEF StorageOK
  <2> QED BY <1>0, <1>3, <2>1 DEF StorageOK, Collection!CodesTellWhatIsStored
<1> QED BY <1>1, <1>2, <1>4 DEF Collection!SaysWhatWasSo, Collection!NothingLeftOut

LEMMA LabAlways == ScriptsSpec => []LabInvariant
<1>1. LabInvariant /\ [Lab!Next]_(Lab!vars) => LabInvariant'
  <2>1. ASSUME LabInvariant, Lab!vars' = Lab!vars PROVE LabInvariant'
    BY <2>1 DEF Lab!vars, Lab!lab, LabInvariant, Lab!TypeOK, LinkOK, FailureOK, PhasesOK, RuntimeOK, Reached, Lab!Reported
  <2> QED BY <2>1, LabKept
<1> QED BY <1>1, LabBegins, ScriptsAreTheirParts, PTL DEF Lab!Spec

LEMMA CollectionAlways == ScriptsSpec => []CollectionInvariant
<1>1. CollectionInvariant /\ [Collection!Next]_(Collection!vars) => CollectionInvariant'
  <2>1. ASSUME CollectionInvariant, Collection!vars' = Collection!vars PROVE CollectionInvariant'
    <3>1. /\ UNCHANGED <<mode, fact, since, registered, latest, collectPc, at, command, read, stored>>
          /\ UNCHANGED <<collectExit, changes, commandFaults>>
      BY <2>1 DEF Collection!vars
    <3>2. ReadsOK'
      BY <2>1, <3>1, ReadsKept DEF CollectionInvariant
    <3>3. Collection!TypeOK'
      BY <2>1, <3>1 DEF CollectionInvariant, Collection!TypeOK
    <3>4. StorageOK'
      BY <2>1, <3>1, SeenKept DEF CollectionInvariant, StorageOK, Collection!Snapshot
    <3> QED BY <3>2, <3>3, <3>4 DEF CollectionInvariant
  <2> QED BY <2>1, CollectionKept
<1> QED BY <1>1, CollectionBegins, ScriptsAreTheirParts, PTL DEF Collection!Spec

(* However often the container runtime restarts and the operator           *)
(* interrupts, whatever the size of the fabric, its changes and the        *)
(* commands that fail: the scenario puts the link back or says that it may *)
(* not be, and a collection says of the lab only what was so, leaves       *)
(* nothing out, and its exit code says what is stored.                     *)
THEOREM LabReportedTruly == ScriptsSpec => []LabAsReported
<1>1. LabInvariant /\ CollectionInvariant => LabAsReported
  BY LabReports, CollectionReports DEF LabAsReported
<1> QED BY <1>1, LabAlways, CollectionAlways, PTL

-----------------------------------------------------------------------------
(* The scripts that run the platform. *)

LEMMA StackConstants ==
  /\ ScriptOf \in [StackRun -> Stacks!Script] /\ Stacks!Project = {ProjectOf[r] : r \in StackRun}
  /\ \A r, q \in StackRun : ProjectOf[r] = ProjectOf[q] => r = q \/ (ScriptOf[r] = "smoke" /\ ScriptOf[q] = "smoke")
  /\ Nobody \notin StackRun \cup {"earlier"} /\ "earlier" \notin StackRun
  /\ MaxStackFaults \in Nat
BY ScriptsAssumption DEF Stacks!ScriptConstants, Stacks!Project

(* The scripts step by step. *)
LEMMA StepsInOrder ==
  /\ Len(Stacks!Steps["demo"]) = 5 /\ Len(Stacks!Steps["smoke"]) = 16 /\ Len(Stacks!Steps["e2e"]) = 13
  /\ \A i \in 1..5 : LET a == Stacks!Steps["demo"][i] IN
       (i = 1 <=> a = "checkPorts") /\ (i = 2 <=> a = "up") /\ (i = 3 <=> a = "apiReady")
       /\ (i = 4 <=> a = "frontendReady") /\ (i = 5 <=> a = "simulate")
  /\ \A i \in 1..16 : LET a == Stacks!Steps["smoke"][i] IN
       /\ (i = 1 <=> a = "config") /\ (i = 2 <=> a = "preclean") /\ (i = 3 <=> a = "up")
       /\ (i \in {4, 12} <=> a = "healthy") /\ (i \in {5, 13} <=> a = "health") /\ (i = 6 <=> a = "alembic")
       /\ (i = 7 <=> a = "post1") /\ (i = 8 <=> a = "get1") /\ (i = 9 <=> a = "post2")
       /\ (i \in {10, 14} <=> a = "get2") /\ (i = 11 <=> a = "restart")
       /\ (i = 15 <=> a = "post3") /\ (i = 16 <=> a = "get3")
  /\ \A i \in 1..13 : LET a == Stacks!Steps["e2e"][i] IN
       /\ (i = 1 <=> a = "reserve") /\ (i = 2 <=> a = "release") /\ (i = 3 <=> a = "up")
       /\ a \in {"reserve", "release", "up", "healthy", "health", "seedBaseline", "state", "build",
                  "preview", "phase1", "seedDegraded", "diagnosis", "phase2"}
<1> USE DEF Stacks!Steps
<1>1. /\ Stacks!Steps["demo"] = <<"checkPorts", "up", "apiReady", "frontendReady", "simulate">>
      /\ Stacks!Steps["smoke"] = <<"config", "preclean", "up", "healthy", "health", "alembic", "post1", "get1",
              "post2", "get2", "restart", "healthy", "health", "get2", "post3", "get3">>
      /\ Stacks!Steps["e2e"] = <<"reserve", "release", "up", "healthy", "health", "seedBaseline", "state", "build",
              "preview", "phase1", "seedDegraded", "diagnosis", "phase2">>
  OBVIOUS
<1> HIDE DEF Stacks!Steps
<1>2. Len(Stacks!Steps["demo"]) = 5 /\ Len(Stacks!Steps["smoke"]) = 16 /\ Len(Stacks!Steps["e2e"]) = 13
  BY <1>1
<1> QED BY <1>1, <1>2

(* What a step of run r does to the runs. *)
RunFrame(r) ==
  /\ stackStep' \in [StackRun -> Nat \ {0}] /\ \A q \in StackRun : stackStep'[q] <= Len(Stacks!Steps[ScriptOf[q]])
  /\ phase' \in [StackRun -> {"steps", "cleanup", "verify", "ended"}]
  /\ result' \in [StackRun -> {"none", "passed", "failed", "raised", "stopped"}]
  /\ cleaned' \in [StackRun -> {"no", "ok", "failed"}]
  /\ \A q \in StackRun \ {r} :
       stackStep'[q] = stackStep[q] /\ phase'[q] = phase[q] /\ result'[q] = result[q] /\ cleaned'[q] = cleaned[q]

(* Where a run that leaves its steps goes. *)
LEMMA Leaves ==
  ASSUME Stacks!TypeOK, NEW r \in StackRun, NEW how \in {"passed", "failed", "raised"}, Stacks!Leave(r, how)
  PROVE  /\ RunFrame(r)
         /\ result'[r] = how /\ stackStep'[r] = stackStep[r] /\ cleaned'[r] = cleaned[r]
         /\ phase'[r] = IF Stacks!InProject(r) /\ (ScriptOf[r] = "demo" => how = "failed") THEN "cleanup" ELSE "ended"
<1> DEFINE place == IF Stacks!InProject(r) /\ (ScriptOf[r] = "demo" => how = "failed") THEN "cleanup" ELSE "ended"
<1>1. result' = [result EXCEPT ![r] = how] /\ phase' = [phase EXCEPT ![r] = place] /\ UNCHANGED <<stackStep, cleaned>>
  BY DEF Stacks!Leave
<1>2. place \in {"cleanup", "ended"}
  OBVIOUS
<1> HIDE DEF place
<1>3. result'[r] = how /\ phase'[r] = place /\ stackStep'[r] = stackStep[r] /\ cleaned'[r] = cleaned[r]
  BY <1>1 DEF Stacks!TypeOK
<1>4. RunFrame(r)
  BY <1>1, <1>2 DEF RunFrame, Stacks!TypeOK
<1> QED BY <1>3, <1>4 DEF place

LEMMA StepsCounted == \A r \in StackRun : Len(Stacks!Steps[ScriptOf[r]]) \in {5, 13, 16}
<1>1. \A c \in Stacks!Script : Len(Stacks!Steps[c]) \in {5, 13, 16}
  <2>1. Len(Stacks!Steps["demo"]) = 5 /\ Len(Stacks!Steps["smoke"]) = 16 /\ Len(Stacks!Steps["e2e"]) = 13
    BY StepsInOrder
  <2> QED BY <2>1 DEF Stacks!Script
<1>2. \A r \in StackRun : ScriptOf[r] \in Stacks!Script
  BY StackConstants
<1> QED BY <1>1, <1>2, Zenon

LEMMA Advances ==
  ASSUME Stacks!TypeOK, NEW r \in StackRun, Stacks!Advance(r)
  PROVE  /\ RunFrame(r) /\ cleaned'[r] = cleaned[r]
         /\ \/ /\ stackStep[r] < Len(Stacks!Steps[ScriptOf[r]]) /\ stackStep'[r] = stackStep[r] + 1
               /\ phase'[r] = phase[r] /\ result'[r] = result[r]
            \/ /\ stackStep[r] = Len(Stacks!Steps[ScriptOf[r]]) /\ stackStep'[r] = stackStep[r]
               /\ result'[r] = "passed"
               /\ phase'[r] = IF Stacks!InProject(r) /\ ScriptOf[r] # "demo" THEN "cleanup" ELSE "ended"
<1>0. /\ stackStep \in [StackRun -> Nat \ {0}] /\ stackStep[r] <= Len(Stacks!Steps[ScriptOf[r]])
      /\ Len(Stacks!Steps[ScriptOf[r]]) \in Nat
  BY StepsCounted DEF Stacks!TypeOK
<1>1. CASE stackStep[r] < Len(Stacks!Steps[ScriptOf[r]])
  <2>1. stackStep' = [stackStep EXCEPT ![r] = @ + 1] /\ UNCHANGED <<phase, result, cleaned>>
    BY <1>1 DEF Stacks!Advance
  <2>2. \A q \in StackRun : stackStep'[q] <= Len(Stacks!Steps[ScriptOf[q]])
    BY <1>0, <1>1, <2>1 DEF Stacks!TypeOK
  <2>3. stackStep'[r] = stackStep[r] + 1 /\ \A q \in StackRun \ {r} : stackStep'[q] = stackStep[q]
    BY <1>0, <2>1
  <2>4. stackStep' \in [StackRun -> Nat \ {0}]
    BY <1>0, <2>1
  <2> QED BY <1>1, <2>1, <2>2, <2>3, <2>4 DEF RunFrame, Stacks!TypeOK
<1>2. CASE ~(stackStep[r] < Len(Stacks!Steps[ScriptOf[r]]))
  <2>1. Stacks!Leave(r, "passed")
    BY <1>2 DEF Stacks!Advance
  <2>2. /\ RunFrame(r)
        /\ result'[r] = "passed" /\ stackStep'[r] = stackStep[r] /\ cleaned'[r] = cleaned[r]
        /\ phase'[r] = IF Stacks!InProject(r) /\ (ScriptOf[r] = "demo" => "passed" = "failed") THEN "cleanup" ELSE "ended"
    BY <2>1, Leaves
  <2> QED BY <1>0, <1>2, <2>2
<1> QED BY <1>1, <1>2

LEMMA EffectIsStack ==
  ASSUME Stacks!TypeOK, NEW r \in StackRun
  PROVE  /\ Stacks!World(r) \in Stacks!Stack /\ Stacks!Gone \in Stacks!Stack
         /\ Stacks!Effect(r) \in Stacks!Stack
         /\ [Stacks!Effect(r) EXCEPT !.containers = "some"] \in Stacks!Stack
         /\ [Stacks!World(r) EXCEPT !.containers = "none"] \in Stacks!Stack
<1>1. Stacks!World(r) \in Stacks!Stack
  BY StackConstants DEF Stacks!World, Stacks!TypeOK
<1>2. Stacks!Gone \in Stacks!Stack
  BY DEF Stacks!Gone, Stacks!Stack
<1>3. PICK w \in Stacks!Stack : w = Stacks!World(r)
  BY <1>1
<1>4. Append(w.posts, r) \in Seq(StackRun \cup {"earlier"}) /\ w.volume \in StackRun \cup {Nobody, "earlier"}
  BY DEF Stacks!Stack
<1>5. [w EXCEPT !.containers = "up", !.volume = IF @ = Nobody THEN r ELSE @] \in Stacks!Stack
  BY DEF Stacks!Stack
<1>6. [w EXCEPT !.posts = Append(@, r)] \in Stacks!Stack
  BY <1>4 DEF Stacks!Stack
<1>7. \A x \in {"demo", "baseline", "degraded"} : [w EXCEPT !.seeded = x] \in Stacks!Stack
  BY DEF Stacks!Stack
<1>8. Stacks!Effect(r) \in Stacks!Stack
  BY <1>3, <1>5, <1>6, <1>7 DEF Stacks!Effect
<1>9. \A v \in Stacks!Stack : \A x \in {"some", "none"} : [v EXCEPT !.containers = x] \in Stacks!Stack
  BY DEF Stacks!Stack
<1> QED BY <1>1, <1>2, <1>8, <1>9

(* What happens to the project of a run: nothing, a teardown, or, by the   *)
(* step the run is at, a start, a submission or a seed.                    *)
WorldStep(r, w, v) ==
  \/ v = w
  \/ v = Stacks!Gone
  \/ v = [w EXCEPT !.containers = "none"]
  \/ /\ phase[r] = "steps" /\ Stacks!At(r) = "up" /\ (phase'[r] # "steps" \/ stackStep'[r] = stackStep[r] + 1)
     /\ v \in {Stacks!Effect(r), [Stacks!Effect(r) EXCEPT !.containers = "some"]}
  \/ phase[r] = "steps" /\ Stacks!At(r) # "up" /\ w.containers = "up" /\ v = Stacks!Effect(r)

(* Every step of a run is of that shape. *)
PlaceFrame(r) ==
  /\ port' \in [StackRun -> {"free", "held", "taken", "bound"}]
  /\ seen' \in [StackRun -> StackRun \cup {Nobody, "earlier"}]
  /\ \A q \in StackRun \ {r} : port'[q] = port[q] /\ seen'[q] = seen[q]

LEMMA Concludes ==
  ASSUME Stacks!TypeOK, NEW r \in StackRun, NEW ok, Stacks!Conclude(r, ok)
  PROVE  RunFrame(r)
<1>1. CASE ok
  BY <1>1, Advances DEF Stacks!Conclude
<1>2. CASE ~ok
  BY <1>2, Leaves DEF Stacks!Conclude
<1> QED BY <1>1, <1>2

LEMMA WorldSet ==
  ASSUME Stacks!TypeOK, NEW r \in StackRun
  PROVE  /\ UNCHANGED stack => stack' = [stack EXCEPT ![ProjectOf[r]] = Stacks!World(r)]
         /\ ProjectOf[r] \in Stacks!Project /\ stack \in [Stacks!Project -> Stacks!Stack]
BY StackConstants DEF Stacks!TypeOK, Stacks!World

LEMMA Proceeds ==
  ASSUME Stacks!TypeOK, NEW r \in StackRun, Stacks!Proceed(r)
  PROVE  /\ RunFrame(r) /\ PlaceFrame(r)
         /\ \E v \in Stacks!Stack :
              stack' = [stack EXCEPT ![ProjectOf[r]] = v] /\ WorldStep(r, Stacks!World(r), v)
         /\ Stacks!TypeOK'
<1> DEFINE w == Stacks!World(r)
           Becomes(v) == stack' = [stack EXCEPT ![ProjectOf[r]] = v]
           Moved == \E v \in Stacks!Stack : Becomes(v) /\ WorldStep(r, w, v)
           Shape == RunFrame(r) /\ PlaceFrame(r) /\ Moved
<1>0. /\ w \in Stacks!Stack /\ Stacks!Gone \in Stacks!Stack /\ Stacks!Effect(r) \in Stacks!Stack
      /\ [Stacks!Effect(r) EXCEPT !.containers = "some"] \in Stacks!Stack
      /\ [w EXCEPT !.containers = "none"] \in Stacks!Stack
  BY EffectIsStack
<1>a. UNCHANGED stack => Moved
  BY <1>0, WorldSet DEF WorldStep
<1>b. \A v : Stacks!SetWorld(r, v) <=> Becomes(v)
  BY DEF Stacks!SetWorld
<1>c. \A v \in Stacks!Torn(w) : Becomes(v) => Moved
  BY <1>0 DEF Stacks!Torn, WorldStep
<1>d. Becomes(Stacks!Gone) => Moved
  BY <1>0 DEF WorldStep
<1>e. phase[r] = "steps" /\ Stacks!At(r) # "up" /\ w.containers = "up" /\ Becomes(Stacks!Effect(r)) => Moved
  BY <1>0 DEF WorldStep
<1>f. /\ phase[r] = "steps" /\ Stacks!At(r) = "up" /\ (phase'[r] # "steps" \/ stackStep'[r] = stackStep[r] + 1)
      /\ Becomes(Stacks!Effect(r)) \/ Becomes([Stacks!Effect(r) EXCEPT !.containers = "some"])
      => Moved
  BY <1>0 DEF WorldStep
<1>g. UNCHANGED <<port, seen>> => PlaceFrame(r)
  BY DEF PlaceFrame, Stacks!TypeOK
<1>h. ASSUME NEW x \in {"free", "held", "taken", "bound"}, port' = [port EXCEPT ![r] = x], seen' = seen
      PROVE  PlaceFrame(r)
  BY <1>h DEF PlaceFrame, Stacks!TypeOK
<1>i. UNCHANGED <<stackStep, phase, result, cleaned>> => RunFrame(r)
  BY DEF RunFrame, Stacks!TypeOK
<1>j. ASSUME NEW x \in {"verify", "ended"}, NEW y \in {"none", "passed", "failed", "raised", "stopped"},
             NEW z \in {"no", "ok", "failed"}, phase' = [phase EXCEPT ![r] = x], stackStep' = stackStep,
             result' = [result EXCEPT ![r] = y], cleaned' = [cleaned EXCEPT ![r] = z]
      PROVE  RunFrame(r)
  BY <1>j DEF RunFrame, Stacks!TypeOK
<1>k. /\ result[r] \in {"none", "passed", "failed", "raised", "stopped"}
      /\ result = [result EXCEPT ![r] = result[r]] /\ cleaned = [cleaned EXCEPT ![r] = cleaned[r]]
      /\ cleaned[r] \in {"no", "ok", "failed"} /\ phase = [phase EXCEPT ![r] = phase[r]]
  BY DEF Stacks!TypeOK
<1>1. ASSUME Stacks!Contact(r) PROVE Shape
  <2>1. RunFrame(r)
    BY <1>1, Concludes, Leaves DEF Stacks!Contact
  <2>2. Moved
    BY <1>1, <1>a, <1>b, <1>e DEF Stacks!Contact, Stacks!Answering
  <2>3. PlaceFrame(r)
    <3>1. w.volume \in StackRun \cup {Nobody, "earlier"}
      BY <1>0 DEF Stacks!Stack
    <3>2. port' = port /\ seen' \in {seen, [seen EXCEPT ![r] = w.volume]}
      BY <1>1 DEF Stacks!Contact
    <3> QED BY <3>1, <3>2 DEF PlaceFrame, Stacks!TypeOK
  <2> QED BY <2>1, <2>2, <2>3
<1>2. ASSUME Stacks!Command(r) PROVE Shape
  BY <1>2, <1>a, <1>g, Concludes DEF Stacks!Command
<1>3. ASSUME Stacks!CheckPorts(r) PROVE Shape
  BY <1>3, <1>a, <1>g, Concludes DEF Stacks!CheckPorts
<1>4. ASSUME Stacks!Reserve(r) PROVE Shape
  BY <1>4, <1>a, <1>h, Advances DEF Stacks!Reserve
<1>5. ASSUME Stacks!Release(r) PROVE Shape
  BY <1>5, <1>a, <1>h, Advances DEF Stacks!Release
<1>6. ASSUME Stacks!Up(r) PROVE Shape
  <2>1. CASE port[r] = "taken"
    <3>1. /\ Becomes([Stacks!Effect(r) EXCEPT !.containers = "some"]) /\ UNCHANGED <<port, seen>>
          /\ Stacks!Leave(r, "failed") /\ phase[r] = "steps" /\ Stacks!At(r) = "up"
      BY <1>6, <2>1, <1>b DEF Stacks!Up
    <3>2. RunFrame(r) /\ phase'[r] \in {"cleanup", "ended"}
      BY <3>1, Leaves
    <3> QED BY <3>1, <3>2, <1>f, <1>g
  <2>2. CASE port[r] # "taken"
    <3>1. /\ Becomes(Stacks!Effect(r)) /\ seen' = seen
          /\ Stacks!Advance(r) /\ phase[r] = "steps" /\ Stacks!At(r) = "up"
      BY <1>6, <2>2, <1>b DEF Stacks!Up
    <3>2. RunFrame(r) /\ (phase'[r] \in {"cleanup", "ended"} \/ stackStep'[r] = stackStep[r] + 1)
      BY <3>1, Advances
    <3>3. \E x \in {"held", "bound"} : port' = [port EXCEPT ![r] = x]
      BY <1>6, <2>2 DEF Stacks!Up
    <3> QED BY <3>1, <3>2, <3>3, <1>f, <1>h
  <2> QED BY <2>1, <2>2
<1>7. ASSUME Stacks!Preview(r) PROVE Shape
  <2>1. /\ stack' = stack /\ seen' = seen /\ \E x \in {"taken", "bound"} : port' = [port EXCEPT ![r] = x]
        /\ Stacks!Advance(r) \/ Stacks!Leave(r, "failed")
    BY <1>7 DEF Stacks!Preview
  <2> QED BY <2>1, <1>a, <1>h, Advances, Leaves
<1>8. ASSUME Stacks!TakePort(r) PROVE Shape
  BY <1>8, <1>a, <1>h, <1>i DEF Stacks!TakePort
<1>9. ASSUME Stacks!Fault(r) PROVE Shape
  <2>1. PICK how \in {"failed", "raised"} : Stacks!Leave(r, how)
    BY <1>9 DEF Stacks!Fault, Stacks!Raised
  <2>2. RunFrame(r) /\ phase'[r] \in {"cleanup", "ended"}
    BY <2>1, Leaves
  <2>3. /\ phase[r] = "steps" /\ UNCHANGED <<port, seen>>
        /\ \/ UNCHANGED stack
           \/ Stacks!At(r) = "up" /\ Becomes([Stacks!Effect(r) EXCEPT !.containers = "some"])
           \/ w.containers = "up" /\ Becomes(Stacks!Effect(r))
    BY <1>9, <1>b DEF Stacks!Fault, Stacks!Answering
  <2> QED BY <2>2, <2>3, <1>a, <1>e, <1>f, <1>g
<1>10. ASSUME Stacks!Preclean(r) PROVE Shape
  <2>1. UNCHANGED <<port, seen>> /\ Stacks!Advance(r) /\ (Becomes(Stacks!Gone) \/ \E v \in Stacks!Torn(w) : Becomes(v))
    BY <1>10, <1>b DEF Stacks!Preclean
  <2> QED BY <2>1, <1>c, <1>d, <1>g, Advances
<1>11. ASSUME Stacks!Cleanup(r) PROVE Shape
  <2>1. /\ Becomes(Stacks!Gone) /\ UNCHANGED <<port, seen, stackStep>> /\ cleaned' = [cleaned EXCEPT ![r] = "ok"]
        /\ \E x \in {"verify", "ended"} : phase' = [phase EXCEPT ![r] = x]
        /\ \E y \in {"none", "passed", "failed", "raised", "stopped"} : result' = [result EXCEPT ![r] = y]
    BY <1>11, <1>b, <1>k DEF Stacks!Cleanup, Stacks!End
  <2> QED BY <2>1, <1>d, <1>g, <1>j
<1>12. ASSUME Stacks!CleanupFails(r) PROVE Shape
  <2>1. /\ \E v \in Stacks!Torn(w) : Becomes(v)
        /\ UNCHANGED <<port, seen, stackStep>> /\ cleaned' = [cleaned EXCEPT ![r] = "failed"]
    BY <1>12, <1>b DEF Stacks!CleanupFails
  <2>2. /\ \E x \in {"verify", "ended"} : phase' = [phase EXCEPT ![r] = x]
        /\ \E y \in {"none", "passed", "failed", "raised", "stopped"} : result' = [result EXCEPT ![r] = y]
    <3>0. ScriptOf[r] \in {"demo", "smoke", "e2e"}
      BY StackConstants DEF Stacks!Script
    <3>1. CASE ScriptOf[r] = "demo"
      BY <1>12, <1>k, <3>1 DEF Stacks!CleanupFails, Stacks!End
    <3>2. CASE ScriptOf[r] = "smoke"
      BY <1>12, <1>k, <3>2 DEF Stacks!CleanupFails, Stacks!End
    <3>3. CASE ScriptOf[r] = "e2e"
      BY <1>12, <1>k, <3>3 DEF Stacks!CleanupFails, Stacks!End
    <3> QED BY <3>0, <3>1, <3>2, <3>3
  <2> QED BY <2>1, <2>2, <1>c, <1>g, <1>j
<1>13. ASSUME Stacks!Verify(r) PROVE Shape
  <2>1. /\ UNCHANGED <<stack, port, seen, stackStep, cleaned>> /\ phase' = [phase EXCEPT ![r] = "ended"]
        /\ \E y \in {"none", "passed", "failed", "raised", "stopped"} : result' = [result EXCEPT ![r] = y]
    BY <1>13, <1>k DEF Stacks!Verify, Stacks!End
  <2> QED BY <2>1, <1>a, <1>g, <1>j, <1>k
<1>14. ASSUME Stacks!Stop(r) PROVE Shape
  <2>1. /\ UNCHANGED <<port, seen, stackStep, phase>> /\ phase[r] = "ended"
        /\ result' = [result EXCEPT ![r] = "stopped"]
        /\ \E z \in {"ok", "failed"} : cleaned' = [cleaned EXCEPT ![r] = z]
        /\ Becomes(Stacks!Gone) \/ \E v \in Stacks!Torn(w) : Becomes(v)
    BY <1>14, <1>b DEF Stacks!Stop
  <2>2. phase' = [phase EXCEPT ![r] = "ended"]
    BY <2>1, <1>k
  <2> QED BY <2>1, <2>2, <1>c, <1>d, <1>g, <1>j
<1>15. Shape
  BY <1>1, <1>2, <1>3, <1>4, <1>5, <1>6, <1>7, <1>8, <1>9, <1>10, <1>11, <1>12, <1>13, <1>14 DEF Stacks!Proceed
<1>16. Stacks!TypeOK'
  <2>1. stack' \in [Stacks!Project -> Stacks!Stack]
    BY <1>15, WorldSet
  <2>2. faults' \in {faults, faults + 1} /\ (faults' = faults \/ faults' <= MaxStackFaults)
    BY DEF Stacks!Proceed, Stacks!Contact, Stacks!Command, Stacks!CheckPorts, Stacks!Reserve, Stacks!Release, Stacks!Up,
           Stacks!Preview, Stacks!TakePort, Stacks!Fault, Stacks!Preclean, Stacks!Cleanup, Stacks!CleanupFails, Stacks!Verify,
           Stacks!Stop, Stacks!FaultsUpTo
  <2>3. faults' \in 0..MaxStackFaults
    BY <2>2, StackConstants DEF Stacks!TypeOK
  <2> QED BY <1>15, <2>1, <2>3 DEF RunFrame, PlaceFrame, Stacks!TypeOK
<1> QED BY <1>15, <1>16

(* Where a run is, by the number of its step. *)
LEMMA Places ==
  ASSUME Stacks!TypeOK, NEW r \in StackRun
  PROVE  /\ ScriptOf[r] \in {"demo", "smoke", "e2e"}
         /\ ScriptOf[r] = "demo" =>
              /\ Len(Stacks!Steps[ScriptOf[r]]) = 5 /\ stackStep[r] \in 1..5
              /\ (stackStep[r] = 1 <=> Stacks!At(r) = "checkPorts") /\ (stackStep[r] = 2 <=> Stacks!At(r) = "up")
              /\ (stackStep[r] = 3 <=> Stacks!At(r) = "apiReady") /\ (stackStep[r] = 4 <=> Stacks!At(r) = "frontendReady")
              /\ (stackStep[r] = 5 <=> Stacks!At(r) = "simulate")
         /\ ScriptOf[r] = "smoke" =>
              /\ Len(Stacks!Steps[ScriptOf[r]]) = 16 /\ stackStep[r] \in 1..16
              /\ (stackStep[r] = 1 <=> Stacks!At(r) = "config") /\ (stackStep[r] = 2 <=> Stacks!At(r) = "preclean")
              /\ (stackStep[r] = 3 <=> Stacks!At(r) = "up") /\ (stackStep[r] = 7 <=> Stacks!At(r) = "post1")
              /\ (stackStep[r] = 8 <=> Stacks!At(r) = "get1") /\ (stackStep[r] = 9 <=> Stacks!At(r) = "post2")
              /\ (stackStep[r] \in {10, 14} <=> Stacks!At(r) = "get2") /\ (stackStep[r] = 15 <=> Stacks!At(r) = "post3")
              /\ (stackStep[r] = 16 <=> Stacks!At(r) = "get3")
              /\ Stacks!At(r) \in {"config", "preclean", "up", "healthy", "health", "alembic", "post1", "get1",
                                   "post2", "get2", "restart", "post3", "get3"}
         /\ ScriptOf[r] = "e2e" =>
              /\ Len(Stacks!Steps[ScriptOf[r]]) = 13 /\ stackStep[r] \in 1..13
              /\ (stackStep[r] = 1 <=> Stacks!At(r) = "reserve") /\ (stackStep[r] = 2 <=> Stacks!At(r) = "release")
              /\ (stackStep[r] = 3 <=> Stacks!At(r) = "up")
              /\ Stacks!At(r) \in {"reserve", "release", "up", "healthy", "health", "seedBaseline", "state", "build",
                                   "preview", "phase1", "seedDegraded", "diagnosis", "phase2"}
         /\ Stacks!InProject(r) <=> ScriptOf[r] = "smoke" \/ stackStep[r] # 1
<1>1. ScriptOf[r] \in {"demo", "smoke", "e2e"}
  BY StackConstants DEF Stacks!Script
<1>2. stackStep[r] \in Nat \ {0} /\ stackStep[r] <= Len(Stacks!Steps[ScriptOf[r]])
  BY DEF Stacks!TypeOK
<1>3. CASE ScriptOf[r] = "demo"
  <2>1. Len(Stacks!Steps[ScriptOf[r]]) = 5 /\ stackStep[r] \in 1..5 /\ Stacks!At(r) = Stacks!Steps["demo"][stackStep[r]]
    BY <1>2, <1>3, StepsInOrder DEF Stacks!At
  <2>2. Stacks!InProject(r) <=> Stacks!At(r) # "checkPorts"
    BY <1>3 DEF Stacks!InProject
  <2>3. LET a == Stacks!Steps["demo"][stackStep[r]] IN
       (stackStep[r] = 1 <=> a = "checkPorts") /\ (stackStep[r] = 2 <=> a = "up") /\ (stackStep[r] = 3 <=> a = "apiReady")
       /\ (stackStep[r] = 4 <=> a = "frontendReady") /\ (stackStep[r] = 5 <=> a = "simulate")
    BY <2>1, StepsInOrder
  <2> QED BY <1>3, <2>1, <2>2, <2>3
<1>4. CASE ScriptOf[r] = "smoke"
  <2>1. Len(Stacks!Steps[ScriptOf[r]]) = 16 /\ stackStep[r] \in 1..16 /\ Stacks!At(r) = Stacks!Steps["smoke"][stackStep[r]]
    BY <1>2, <1>4, StepsInOrder DEF Stacks!At
  <2>2. Stacks!InProject(r)
    BY <1>4 DEF Stacks!InProject
  <2>3. LET i == stackStep[r]
            a == Stacks!Steps["smoke"][i] IN
       /\ (i = 1 <=> a = "config") /\ (i = 2 <=> a = "preclean") /\ (i = 3 <=> a = "up")
       /\ (i \in {4, 12} <=> a = "healthy") /\ (i \in {5, 13} <=> a = "health") /\ (i = 6 <=> a = "alembic")
       /\ (i = 7 <=> a = "post1") /\ (i = 8 <=> a = "get1") /\ (i = 9 <=> a = "post2")
       /\ (i \in {10, 14} <=> a = "get2") /\ (i = 11 <=> a = "restart")
       /\ (i = 15 <=> a = "post3") /\ (i = 16 <=> a = "get3")
    BY <2>1, StepsInOrder
  <2>4. stackStep[r] \in {1, 2, 3, 4, 5, 6, 7, 8, 9, 10, 11, 12, 13, 14, 15, 16}
    BY <2>1
  <2> QED BY <1>4, <2>1, <2>2, <2>3, <2>4
<1>5. CASE ScriptOf[r] = "e2e"
  <2>1. Len(Stacks!Steps[ScriptOf[r]]) = 13 /\ stackStep[r] \in 1..13 /\ Stacks!At(r) = Stacks!Steps["e2e"][stackStep[r]]
    BY <1>2, <1>5, StepsInOrder DEF Stacks!At
  <2>2. Stacks!InProject(r) <=> Stacks!At(r) # "reserve"
    BY <1>5 DEF Stacks!InProject
  <2>3. LET i == stackStep[r]
            a == Stacks!Steps["e2e"][i] IN
       /\ (i = 1 <=> a = "reserve") /\ (i = 2 <=> a = "release") /\ (i = 3 <=> a = "up")
       /\ a \in {"reserve", "release", "up", "healthy", "health", "seedBaseline", "state", "build",
                  "preview", "phase1", "seedDegraded", "diagnosis", "phase2"}
    BY <2>1, StepsInOrder
  <2> QED BY <1>5, <2>1, <2>2, <2>3
<1> QED BY <1>1, <1>3, <1>4, <1>5

(* A run only goes on. *)
LEMMA Onward ==
  ASSUME Stacks!TypeOK, NEW r \in StackRun, Stacks!Proceed(r)
  PROVE  /\ phase[r] # "steps" => phase'[r] # "steps"
         /\ stackStep'[r] \in {stackStep[r], stackStep[r] + 1}
<1>0. stackStep[r] \in Nat /\ phase \in [StackRun -> {"steps", "cleanup", "verify", "ended"}]
  BY DEF Stacks!TypeOK
<1>1. ASSUME Stacks!Advance(r) \/ \E how \in {"passed", "failed", "raised"} : Stacks!Leave(r, how)
      PROVE  stackStep'[r] \in {stackStep[r], stackStep[r] + 1}
  BY <1>1, Advances, Leaves
<1>2. CASE \/ Stacks!Contact(r) \/ Stacks!Command(r) \/ Stacks!CheckPorts(r) \/ Stacks!Reserve(r) \/ Stacks!Release(r)
           \/ Stacks!Up(r) \/ Stacks!Preview(r) \/ Stacks!Preclean(r)
  <2>1. phase[r] = "steps" /\ (Stacks!Advance(r) \/ Stacks!Leave(r, "failed"))
    BY <1>2 DEF Stacks!Contact, Stacks!Command, Stacks!CheckPorts, Stacks!Reserve, Stacks!Release,
                Stacks!Up, Stacks!Preview, Stacks!Preclean, Stacks!Conclude
  <2> QED BY <2>1, <1>0, <1>1
<1>3. CASE Stacks!Fault(r)
  <2>1. phase[r] = "steps" /\ \E how \in {"failed", "raised"} : Stacks!Leave(r, how)
    BY <1>3 DEF Stacks!Fault, Stacks!Raised
  <2> QED BY <2>1, <1>0, <1>1
<1>4. CASE Stacks!TakePort(r)
  BY <1>4, <1>0 DEF Stacks!TakePort
<1>5. CASE Stacks!Cleanup(r) \/ Stacks!Verify(r) \/ Stacks!Stop(r)
  BY <1>5, <1>0 DEF Stacks!Cleanup, Stacks!Verify, Stacks!Stop, Stacks!End
<1>6. CASE Stacks!CleanupFails(r)
  <2>1. stackStep' = stackStep
    BY <1>6 DEF Stacks!CleanupFails
  <2>2. \E x \in {"verify", "ended"} : phase' = [phase EXCEPT ![r] = x]
    <3>0. ScriptOf[r] \in {"demo", "smoke", "e2e"}
      BY StackConstants DEF Stacks!Script
    <3>1. CASE ScriptOf[r] = "demo"
      BY <1>6, <3>1 DEF Stacks!CleanupFails, Stacks!End
    <3>2. CASE ScriptOf[r] = "smoke"
      BY <1>6, <3>2 DEF Stacks!CleanupFails, Stacks!End
    <3>3. CASE ScriptOf[r] = "e2e"
      BY <1>6, <3>3 DEF Stacks!CleanupFails, Stacks!End
    <3> QED BY <3>0, <3>1, <3>2, <3>3
  <2> QED BY <2>1, <2>2, <1>0
<1> QED BY <1>2, <1>3, <1>4, <1>5, <1>6 DEF Stacks!Proceed

(* A run on a project of its own. *)

OfItsOwn(r) == \A q \in StackRun \ {r} : ProjectOf[q] # ProjectOf[r]

(* Nothing is created before the run is within its teardown; a demo that   *)
(* is up stays up; the last look at a project finds it gone, or the        *)
(* teardown is known to have failed.                                       *)
OwnOK(r) ==
  LET w == Stacks!World(r) IN
  /\ ScriptOf[r] # "smoke" /\ phase[r] = "steps" /\ stackStep[r] = 1 => w = Stacks!Gone
  /\ ScriptOf[r] = "demo" /\ ((phase[r] = "steps" /\ stackStep[r] >= 3) \/ result[r] = "passed")
     => w.containers = "up" /\ port[r] = "bound"
  /\ ScriptOf[r] = "demo" /\ result[r] = "passed" => phase[r] = "ended" /\ w.seeded = "demo"
  /\ phase[r] = "verify" => ScriptOf[r] = "e2e" /\ (w = Stacks!Gone \/ cleaned[r] = "failed")
  /\ phase[r] = "ended" =>
       w = Stacks!Gone \/ (ScriptOf[r] = "demo" /\ result[r] = "passed") \/ cleaned[r] = "failed"
  /\ ScriptOf[r] = "e2e" /\ phase[r] = "ended" /\ result[r] = "passed" => w = Stacks!Gone

LEMMA WorldAfter ==
  ASSUME Stacks!TypeOK, NEW r \in StackRun, NEW v, Stacks!SetWorld(r, v)
  PROVE  Stacks!World(r)' = v
BY WorldSet DEF Stacks!SetWorld, Stacks!World

LEMMA OwnLeaves ==
  ASSUME Stacks!TypeOK, NEW r \in StackRun, phase[r] = "steps",
         NEW how \in {"failed", "raised"}, Stacks!Leave(r, how), ScriptOf[r] = "demo" => how = "failed",
         ScriptOf[r] # "smoke" /\ stackStep[r] = 1 => Stacks!World(r)' = Stacks!Gone
  PROVE  OwnOK(r)'
<1>1. result'[r] = how /\ phase'[r] \in {"cleanup", "ended"}
  BY Leaves
<1>2. phase'[r] = "ended" => ~Stacks!InProject(r)
  BY Leaves
<1>3. phase'[r] = "ended" => Stacks!World(r)' = Stacks!Gone
  BY <1>2, Places
<1> QED BY <1>1, <1>3 DEF OwnOK

LEMMA OwnAdvances ==
  ASSUME Stacks!TypeOK, NEW r \in StackRun, OwnOK(r), phase[r] = "steps", Stacks!Advance(r),
         ScriptOf[r] = "demo" /\ stackStep[r] >= 2 => Stacks!World(r)'.containers = "up" /\ port'[r] = "bound",
         ScriptOf[r] = "demo" /\ stackStep[r] = 5 => Stacks!World(r)'.seeded = "demo"
  PROVE  OwnOK(r)'
<1>1. stackStep[r] \in Nat \ {0} /\ ScriptOf[r] \in {"demo", "smoke", "e2e"}
  BY Places DEF Stacks!TypeOK
<1>2. CASE stackStep[r] < Len(Stacks!Steps[ScriptOf[r]])
  <2>1. stackStep'[r] = stackStep[r] + 1 /\ phase'[r] = "steps" /\ result'[r] = result[r]
    BY <1>2, Advances, Places
  <2>2. ~(ScriptOf[r] = "demo" /\ result[r] = "passed")
    BY DEF OwnOK
  <2> QED BY <1>1, <2>1, <2>2 DEF OwnOK
<1>3. CASE ~(stackStep[r] < Len(Stacks!Steps[ScriptOf[r]]))
  <2>1. /\ stackStep'[r] = stackStep[r] /\ result'[r] = "passed"
        /\ phase'[r] = IF Stacks!InProject(r) /\ ScriptOf[r] # "demo" THEN "cleanup" ELSE "ended"
        /\ stackStep[r] = Len(Stacks!Steps[ScriptOf[r]])
    BY <1>3, Advances
  <2>2. Stacks!InProject(r) /\ (ScriptOf[r] = "demo" => stackStep[r] = 5)
    <3>1. ScriptOf[r] = "demo" => stackStep[r] = 5
      BY <2>1, Places
    <3>2. ScriptOf[r] = "e2e" => stackStep[r] = 13
      BY <2>1, Places
    <3>3. ScriptOf[r] = "smoke" \/ stackStep[r] # 1
      BY <1>1, <3>1, <3>2
    <3>4. Stacks!InProject(r)
      BY <3>3, Places
    <3> QED BY <3>1, <3>4
  <2>3. CASE ScriptOf[r] = "demo"
    <3>1. stackStep[r] = 5 /\ phase'[r] = "ended" /\ result'[r] = "passed" /\ stackStep'[r] = 5
      BY <2>1, <2>2, <2>3
    <3>2. Stacks!World(r)'.containers = "up" /\ port'[r] = "bound" /\ Stacks!World(r)'.seeded = "demo"
      BY <2>3, <3>1
    <3> QED BY <2>3, <3>1, <3>2 DEF OwnOK
  <2>4. CASE ScriptOf[r] # "demo"
    <3>1. phase'[r] = "cleanup" /\ result'[r] = "passed"
      BY <2>1, <2>2, <2>4
    <3> QED BY <2>4, <3>1 DEF OwnOK
  <2> QED BY <2>3, <2>4
<1> QED BY <1>2, <1>3

(* Every step of a run keeps what holds of it on a project of its own. *)
LEMMA OwnMoves ==
  ASSUME Stacks!TypeOK, NEW r \in StackRun, OwnOK(r), Stacks!Proceed(r)
  PROVE  OwnOK(r)'
<1> DEFINE w == Stacks!World(r)
<1>0. /\ ScriptOf[r] \in {"demo", "smoke", "e2e"} /\ stackStep[r] \in Nat \ {0}
      /\ phase[r] \in {"steps", "cleanup", "verify", "ended"}
  BY Places DEF Stacks!TypeOK
<1>a. UNCHANGED stack => Stacks!World(r)' = w
  BY DEF Stacks!World
<1>b. ScriptOf[r] = "demo" => /\ stackStep[r] = 1 => Stacks!At(r) = "checkPorts"
                              /\ stackStep[r] = 2 => Stacks!At(r) = "up"
                              /\ stackStep[r] = 5 => Stacks!At(r) = "simulate"
                              /\ Stacks!At(r) \in {"checkPorts", "up", "apiReady", "frontendReady", "simulate"}
  <2>1. ScriptOf[r] = "demo" => stackStep[r] \in 1..5
    BY Places
  <2> QED BY <2>1, Places
<1>c. ScriptOf[r] = "e2e" => (stackStep[r] = 1 <=> Stacks!At(r) = "reserve")
  BY Places
<1>d. ScriptOf[r] \in {"smoke", "e2e"} => Stacks!At(r) # "checkPorts"
  BY Places
<1>1. CASE Stacks!Contact(r)
  <2>1. /\ phase[r] = "steps" /\ port' = port
        /\ Stacks!At(r) \notin {"checkPorts", "reserve", "release", "up", "config", "preclean", "build",
                                "preview", "phase1", "phase2"}
        /\ \/ /\ w.containers = "up" /\ Stacks!SetWorld(r, Stacks!Effect(r))
              /\ Stacks!Conclude(r, Stacks!Satisfied(r))
           \/ w.containers # "up" /\ UNCHANGED stack /\ Stacks!Leave(r, "failed")
    BY <1>1 DEF Stacks!Contact, Stacks!Answering
  <2>2. ScriptOf[r] # "smoke" => stackStep[r] # 1
    BY <2>1, <1>0, <1>b, <1>c
  <2>3. CASE Stacks!Leave(r, "failed")
    BY <2>1, <2>2, <2>3, OwnLeaves
  <2>4. CASE ~Stacks!Leave(r, "failed")
    <3>1. w.containers = "up" /\ Stacks!SetWorld(r, Stacks!Effect(r)) /\ Stacks!Advance(r)
      BY <2>1, <2>4 DEF Stacks!Conclude
    <3>2. Stacks!World(r)' = Stacks!Effect(r)
      BY <3>1, WorldAfter
    <3>3. ASSUME ScriptOf[r] = "demo"
          PROVE  /\ Stacks!Effect(r).containers = "up" /\ port'[r] = "bound"
                 /\ stackStep[r] = 5 => Stacks!Effect(r).seeded = "demo"
      <4>1. stackStep[r] >= 3 /\ Stacks!At(r) \in {"apiReady", "frontendReady", "simulate"}
        BY <2>1, <3>3, <1>0, <1>b
      <4>2. w.containers = "up" /\ port'[r] = "bound"
        BY <2>1, <3>3, <4>1 DEF OwnOK
      <4>3. Stacks!Effect(r) = IF Stacks!At(r) = "simulate" THEN [w EXCEPT !.seeded = "demo"] ELSE w
        BY <4>1 DEF Stacks!Effect
      <4>4. w \in Stacks!Stack
        BY EffectIsStack
      <4> QED BY <4>1, <4>2, <4>3, <4>4, <3>3, <1>b DEF Stacks!Stack
    <3> QED BY <3>1, <3>2, <3>3, <2>1, OwnAdvances
  <2> QED BY <2>3, <2>4
<1>2. CASE Stacks!Command(r)
  <2>1. /\ phase[r] = "steps" /\ Stacks!At(r) \in {"config", "build", "phase1", "phase2"} /\ Stacks!World(r)' = w
        /\ Stacks!Advance(r) \/ Stacks!Leave(r, "failed")
    BY <1>2, <1>a DEF Stacks!Command, Stacks!Conclude
  <2>2. ScriptOf[r] # "demo" /\ (ScriptOf[r] # "smoke" => stackStep[r] # 1)
    BY <2>1, <1>0, <1>b, <1>c
  <2>3. CASE Stacks!Advance(r)
    BY <2>1, <2>2, <2>3, OwnAdvances
  <2>4. CASE Stacks!Leave(r, "failed")
    BY <2>1, <2>2, <2>4, OwnLeaves
  <2> QED BY <2>1, <2>3, <2>4
<1>3. CASE Stacks!CheckPorts(r)
  <2>1. /\ phase[r] = "steps" /\ Stacks!At(r) = "checkPorts" /\ Stacks!World(r)' = w
        /\ Stacks!Advance(r) \/ Stacks!Leave(r, "failed")
    BY <1>3, <1>a DEF Stacks!CheckPorts, Stacks!Conclude
  <2>2. ScriptOf[r] = "demo" /\ stackStep[r] = 1
    <3>1. ScriptOf[r] = "demo"
      BY <2>1, <1>0, <1>d
    <3> QED BY <2>1, <3>1, Places
  <2>3. CASE Stacks!Advance(r)
    BY <2>1, <2>2, <2>3, OwnAdvances
  <2>4. CASE Stacks!Leave(r, "failed")
    <3>1. w = Stacks!Gone
      BY <2>1, <2>2 DEF OwnOK
    <3> QED BY <2>1, <2>2, <2>4, <3>1, OwnLeaves
  <2> QED BY <2>1, <2>3, <2>4
<1>4. CASE Stacks!Reserve(r) \/ Stacks!Release(r)
  <2>1. /\ phase[r] = "steps" /\ Stacks!At(r) \in {"reserve", "release"} /\ Stacks!Advance(r)
    BY <1>4 DEF Stacks!Reserve, Stacks!Release
  <2>2. ScriptOf[r] # "demo"
    BY <2>1, <1>b
  <2> QED BY <2>1, <2>2, OwnAdvances
<1>5. CASE Stacks!Up(r)
  <2>1. phase[r] = "steps" /\ Stacks!At(r) = "up"
    BY <1>5 DEF Stacks!Up
  <2>2. ScriptOf[r] # "smoke" => stackStep[r] # 1
    BY <2>1, <1>0, <1>b, <1>c
  <2>3. CASE port[r] = "taken"
    BY <1>5, <2>1, <2>2, <2>3, OwnLeaves DEF Stacks!Up
  <2>4. CASE port[r] # "taken"
    <3>1. /\ Stacks!SetWorld(r, Stacks!Effect(r)) /\ Stacks!Advance(r)
          /\ port' = [port EXCEPT ![r] = IF ScriptOf[r] = "e2e" THEN "held" ELSE "bound"]
      BY <1>5, <2>4 DEF Stacks!Up
    <3>2. w \in Stacks!Stack
      BY EffectIsStack
    <3>3. Stacks!World(r)'.containers = "up"
      <4>1. Stacks!World(r)' = [w EXCEPT !.containers = "up", !.volume = IF @ = Nobody THEN r ELSE @]
        BY <2>1, <3>1, WorldAfter DEF Stacks!Effect
      <4> QED BY <3>2, <4>1 DEF Stacks!Stack
    <3>4. ScriptOf[r] = "demo" => port'[r] = "bound" /\ stackStep[r] # 5
      BY <2>1, <3>1, <1>b DEF Stacks!TypeOK
    <3> QED BY <2>1, <3>1, <3>3, <3>4, OwnAdvances
  <2> QED BY <2>3, <2>4
<1>6. CASE Stacks!Preview(r)
  <2>1. phase[r] = "steps" /\ Stacks!At(r) = "preview" /\ (Stacks!Advance(r) \/ Stacks!Leave(r, "failed"))
    BY <1>6 DEF Stacks!Preview
  <2>2. ScriptOf[r] # "demo" /\ (ScriptOf[r] # "smoke" => stackStep[r] # 1)
    BY <2>1, <1>0, <1>b, <1>c
  <2>3. CASE Stacks!Advance(r)
    BY <2>1, <2>2, <2>3, OwnAdvances
  <2>4. CASE Stacks!Leave(r, "failed")
    BY <2>1, <2>2, <2>4, OwnLeaves
  <2> QED BY <2>1, <2>3, <2>4
<1>7. CASE Stacks!TakePort(r)
  <2>1. /\ phase[r] = "steps" /\ port[r] = "free" /\ UNCHANGED <<stackStep, phase, result, cleaned>> /\ Stacks!World(r)' = w
    BY <1>7, <1>a DEF Stacks!TakePort
  <2> QED BY <2>1 DEF OwnOK
<1>8. CASE Stacks!Fault(r)
  <2>1. /\ phase[r] = "steps"
        /\ \/ UNCHANGED stack
           \/ Stacks!At(r) = "up"
           \/ w.containers = "up"
    BY <1>8 DEF Stacks!Fault, Stacks!Answering
  <2>2. PICK how \in {"failed", "raised"} : Stacks!Leave(r, how) /\ (ScriptOf[r] = "demo" => how = "failed")
    BY <1>8 DEF Stacks!Fault, Stacks!Raised
  <2>3. ASSUME ScriptOf[r] # "smoke", stackStep[r] = 1
        PROVE  Stacks!World(r)' = Stacks!Gone
    <3>1. w = Stacks!Gone /\ w.containers # "up"
      BY <2>1, <2>3 DEF OwnOK, Stacks!Gone
    <3>2. Stacks!At(r) # "up"
      BY <2>3, <1>0, <1>b, <1>c
    <3> QED BY <2>1, <3>1, <3>2, <1>a
  <2> QED BY <2>1, <2>2, <2>3, OwnLeaves
<1>9. CASE Stacks!Preclean(r)
  <2>1. phase[r] = "steps" /\ Stacks!At(r) = "preclean" /\ Stacks!Advance(r)
    BY <1>9 DEF Stacks!Preclean
  <2>2. ScriptOf[r] # "demo"
    BY <2>1, <1>b
  <2> QED BY <2>1, <2>2, OwnAdvances
<1>10. CASE Stacks!Cleanup(r)
  <2>1. /\ phase[r] = "cleanup" /\ Stacks!World(r)' = Stacks!Gone
        /\ \/ ScriptOf[r] = "e2e" /\ phase' = [phase EXCEPT ![r] = "verify"] /\ UNCHANGED result
           \/ ScriptOf[r] # "e2e" /\ phase' = [phase EXCEPT ![r] = "ended"] /\ result' = [result EXCEPT ![r] = result[r]]
    BY <1>10, WorldAfter DEF Stacks!Cleanup, Stacks!End
  <2>2. ~(ScriptOf[r] = "demo" /\ result[r] = "passed")
    BY <2>1 DEF OwnOK
  <2> QED BY <2>1, <2>2 DEF OwnOK, Stacks!TypeOK
<1>11. CASE Stacks!CleanupFails(r)
  <2>1. phase[r] = "cleanup" /\ cleaned'[r] = "failed"
    BY <1>11 DEF Stacks!CleanupFails, Stacks!TypeOK
  <2>2. ~(ScriptOf[r] = "demo" /\ result[r] = "passed")
    BY <2>1 DEF OwnOK
  <2>3. CASE ScriptOf[r] = "demo"
    <3>1. phase'[r] = "ended" /\ result'[r] = result[r]
      BY <1>11, <2>3 DEF Stacks!CleanupFails, Stacks!End, Stacks!TypeOK
    <3> QED BY <2>1, <2>2, <2>3, <3>1 DEF OwnOK
  <2>4. CASE ScriptOf[r] = "smoke"
    <3>1. phase'[r] = "ended"
      BY <1>11, <2>4 DEF Stacks!CleanupFails, Stacks!End, Stacks!TypeOK
    <3> QED BY <2>1, <2>4, <3>1 DEF OwnOK
  <2>5. CASE ScriptOf[r] = "e2e"
    <3>1. phase'[r] = "verify" \/ (phase'[r] = "ended" /\ result'[r] # "passed")
      BY <1>11, <2>5 DEF Stacks!CleanupFails, Stacks!End, Stacks!TypeOK
    <3> QED BY <2>1, <2>5, <3>1 DEF OwnOK
  <2> QED BY <2>3, <2>4, <2>5, <1>0
<1>12. CASE Stacks!Verify(r)
  <2>1. /\ phase[r] = "verify" /\ Stacks!World(r)' = w /\ cleaned' = cleaned /\ phase'[r] = "ended"
        /\ result'[r] = IF w # Stacks!Gone /\ result[r] = "passed" THEN "failed" ELSE result[r]
    BY <1>12, <1>a DEF Stacks!Verify, Stacks!End, Stacks!TypeOK
  <2>2. ScriptOf[r] = "e2e" /\ (w = Stacks!Gone \/ cleaned[r] = "failed")
    BY <2>1 DEF OwnOK
  <2> QED BY <2>1, <2>2 DEF OwnOK
<1>13. CASE Stacks!Stop(r)
  <2>1. /\ phase[r] = "ended" /\ phase' = phase /\ result'[r] = "stopped"
        /\ (Stacks!SetWorld(r, Stacks!Gone) \/ cleaned'[r] = "failed")
    BY <1>13 DEF Stacks!Stop, Stacks!TypeOK
  <2>2. Stacks!World(r)' = Stacks!Gone \/ cleaned'[r] = "failed"
    BY <2>1, WorldAfter
  <2> QED BY <2>1, <2>2 DEF OwnOK
<1> QED BY <1>1, <1>2, <1>3, <1>4, <1>5, <1>6, <1>7, <1>8, <1>9, <1>10, <1>11, <1>12, <1>13 DEF Stacks!Proceed

(* And no step of another run disturbs it. *)
LEMMA OwnStays ==
  ASSUME Stacks!TypeOK, NEW r \in StackRun, NEW q \in StackRun \ {r}, Stacks!Proceed(q),
         ProjectOf[q] # ProjectOf[r], OwnOK(r)
  PROVE  OwnOK(r)'
<1>1. RunFrame(q) /\ PlaceFrame(q) /\ \E v \in Stacks!Stack : stack' = [stack EXCEPT ![ProjectOf[q]] = v]
  BY Proceeds
<1>2. Stacks!World(r)' = Stacks!World(r)
  BY <1>1, StackConstants DEF Stacks!World, Stacks!TypeOK
<1>3. /\ stackStep'[r] = stackStep[r] /\ phase'[r] = phase[r] /\ result'[r] = result[r] /\ cleaned'[r] = cleaned[r]
      /\ port'[r] = port[r]
  BY <1>1 DEF RunFrame, PlaceFrame
<1> QED BY <1>2, <1>3 DEF OwnOK

(* Smoke tests on the project they share. *)

(* The run is past the start of its containers. *)
PastUp(r) == phase[r] # "steps" \/ stackStep[r] > (IF ScriptOf[r] = "demo" THEN 2 ELSE 3)

(* A volume is no older than the start that made it, so the one in which a *)
(* smoke test has seen its incident never comes back: as long as that one  *)
(* stands, it begins with the submissions of the run, in their order.      *)
SharedOK(r) ==
  LET w == Stacks!World(r) IN
  /\ \A v \in StackRun : w.volume = v \/ seen[r] = v => PastUp(v)
  /\ w.containers = "up" => w.volume # Nobody
  /\ ScriptOf[r] = "smoke" /\ phase[r] = "steps" /\ stackStep[r] >= 9 =>
       /\ seen[r] # Nobody
       /\ w.volume = seen[r] =>
            /\ Len(w.posts) >= 1 /\ w.posts[1] = r
            /\ stackStep[r] >= 11 => Len(w.posts) >= 2 /\ w.posts[2] = r

Extends(v, w) == Len(v.posts) >= Len(w.posts) /\ \A i \in 1..Len(w.posts) : v.posts[i] = w.posts[i]

LEMMA StaysPast ==
  ASSUME Stacks!TypeOK, NEW q \in StackRun, Stacks!Proceed(q), NEW v \in StackRun, PastUp(v)
  PROVE  PastUp(v)'
<1>1. CASE v = q
  <2>1. /\ phase[q] # "steps" => phase'[q] # "steps"
        /\ stackStep'[q] \in {stackStep[q], stackStep[q] + 1}
    BY Onward
  <2>2. stackStep[q] \in Nat
    BY DEF Stacks!TypeOK
  <2> QED BY <1>1, <2>1, <2>2 DEF PastUp
<1>2. CASE v # q
  <2>1. phase'[v] = phase[v] /\ stackStep'[v] = stackStep[v]
    BY <1>2, Proceeds DEF RunFrame
  <2> QED BY <2>1 DEF PastUp
<1> QED BY <1>1, <1>2

LEMMA WorldMoves ==
  ASSUME Stacks!TypeOK, NEW q \in StackRun, NEW v \in Stacks!Stack, WorldStep(q, Stacks!World(q), v),
         Stacks!World(q).containers = "up" => Stacks!World(q).volume # Nobody
  PROVE  /\ v.containers = "up" => v.volume # Nobody
         /\ \/ v.volume = Stacks!World(q).volume /\ Extends(v, Stacks!World(q))
            \/ v.volume = Nobody
            \/ v.volume = q /\ ~PastUp(q) /\ PastUp(q)'
<1>0. PICK w \in Stacks!Stack : w = Stacks!World(q)
  BY EffectIsStack
<1>a. w.posts \in Seq(StackRun \cup {"earlier"}) /\ Extends(w, w) /\ q # Nobody
  BY StackConstants DEF Stacks!Stack, Extends
<1>1. CASE v = w
  BY <1>0, <1>1, <1>a
<1>2. CASE v = Stacks!Gone
  BY <1>2 DEF Stacks!Gone
<1>3. CASE v = [w EXCEPT !.containers = "none"]
  BY <1>0, <1>3, <1>a DEF Stacks!Stack, Extends
<1>4. CASE /\ phase[q] = "steps" /\ Stacks!At(q) = "up" /\ (phase'[q] # "steps" \/ stackStep'[q] = stackStep[q] + 1)
           /\ v \in {Stacks!Effect(q), [Stacks!Effect(q) EXCEPT !.containers = "some"]}
  <2>1. Stacks!Effect(q) = [w EXCEPT !.containers = "up", !.volume = IF @ = Nobody THEN q ELSE @]
    BY <1>0, <1>4 DEF Stacks!Effect
  <2>2. /\ v.volume = (IF w.volume = Nobody THEN q ELSE w.volume) /\ v.posts = w.posts
    BY <1>4, <2>1 DEF Stacks!Stack
  <2>3. ~PastUp(q) /\ PastUp(q)'
    <3>1. stackStep[q] = (IF ScriptOf[q] = "demo" THEN 2 ELSE 3)
      BY <1>4, Places
    <3> QED BY <1>4, <3>1 DEF PastUp
  <2> QED BY <1>0, <1>a, <2>2, <2>3 DEF Extends
<1>5. CASE Stacks!At(q) # "up" /\ w.containers = "up" /\ v = Stacks!Effect(q)
  <2>1. \/ v = w \/ v = [w EXCEPT !.posts = Append(@, q)]
        \/ \E x \in {"demo", "baseline", "degraded"} : v = [w EXCEPT !.seeded = x]
    BY <1>0, <1>5 DEF Stacks!Effect
  <2>2. v.volume = w.volume /\ (v.posts = w.posts \/ v.posts = Append(w.posts, q))
    BY <2>1 DEF Stacks!Stack
  <2> QED BY <1>0, <1>5, <1>a, <2>2 DEF Extends
<1> QED BY <1>0, <1>1, <1>2, <1>3, <1>4, <1>5 DEF WorldStep

(* A smoke test gets past a look at its incident by what it sees there. *)
LEMMA GetsThrough ==
  ASSUME Stacks!TypeOK, NEW r \in StackRun, Stacks!Proceed(r), phase[r] = "steps",
         Stacks!At(r) \in {"get1", "get2", "get3"},
         stackStep'[r] # stackStep[r] \/ (result[r] # "passed" /\ result'[r] = "passed")
  PROVE  /\ Stacks!World(r).containers = "up" /\ Stacks!Satisfied(r) /\ Stacks!World(r)' = Stacks!World(r)
         /\ seen' = IF Stacks!At(r) = "get1" THEN [seen EXCEPT ![r] = Stacks!World(r).volume] ELSE seen
<1>1. ~Stacks!Leave(r, "failed") /\ ~Stacks!Leave(r, "raised")
  BY Leaves
<1>2. ~Stacks!TakePort(r)
  BY DEF Stacks!TakePort
<1>3. ~Stacks!Fault(r)
  BY <1>1 DEF Stacks!Fault, Stacks!Raised
<1>4. Stacks!Contact(r)
  BY <1>2, <1>3 DEF Stacks!Proceed, Stacks!Command, Stacks!CheckPorts, Stacks!Reserve, Stacks!Release, Stacks!Up,
     Stacks!Preview, Stacks!Preclean, Stacks!Cleanup, Stacks!CleanupFails, Stacks!Verify, Stacks!Stop
<1>5. /\ Stacks!World(r).containers = "up" /\ Stacks!Satisfied(r) /\ Stacks!SetWorld(r, Stacks!Effect(r))
      /\ seen' = IF Stacks!At(r) = "get1" THEN [seen EXCEPT ![r] = Stacks!World(r).volume] ELSE seen
  BY <1>1, <1>4 DEF Stacks!Contact, Stacks!Answering, Stacks!Conclude
<1>6. Stacks!Effect(r) = Stacks!World(r)
  BY DEF Stacks!Effect
<1> QED BY <1>5, <1>6, WorldAfter

(* What a run has seen changes when it first looks. *)
LEMMA SeenMoves ==
  ASSUME Stacks!TypeOK, NEW q \in StackRun, Stacks!Proceed(q)
  PROVE  \A r \in StackRun : \/ seen'[r] = seen[r]
                             \/ r = q /\ Stacks!At(q) = "get1" /\ phase[q] = "steps" /\ seen'[q] = Stacks!World(q).volume
<1>1. CASE Stacks!Contact(q)
  BY <1>1 DEF Stacks!Contact, Stacks!TypeOK
<1>2. CASE ~Stacks!Contact(q)
  <2>1. seen' = seen
    BY <1>2 DEF Stacks!Proceed, Stacks!Command, Stacks!CheckPorts, Stacks!Reserve, Stacks!Release, Stacks!Up,
       Stacks!Preview, Stacks!TakePort, Stacks!Fault, Stacks!Preclean, Stacks!Cleanup, Stacks!CleanupFails,
       Stacks!Verify, Stacks!Stop
  <2> QED BY <2>1
<1> QED BY <1>1, <1>2

LEMMA SharedKept ==
  ASSUME Stacks!TypeOK, \A v \in StackRun : SharedOK(v), NEW q \in StackRun, Stacks!Proceed(q), NEW r \in StackRun
  PROVE  SharedOK(r)'
<1> DEFINE w == Stacks!World(r)
           z == Stacks!World(r)'
<1>1. /\ z.containers = "up" => z.volume # Nobody
      /\ \/ z.volume = w.volume /\ Extends(z, w)
         \/ z.volume = Nobody
         \/ z.volume = q /\ ~PastUp(q) /\ PastUp(q)'
  <2>1. PICK v \in Stacks!Stack : stack' = [stack EXCEPT ![ProjectOf[q]] = v] /\ WorldStep(q, Stacks!World(q), v)
    BY Proceeds
  <2>2. CASE ProjectOf[r] = ProjectOf[q]
    <3>1. z = v /\ w = Stacks!World(q)
      BY <2>1, <2>2, WorldSet DEF Stacks!World
    <3>2. w.containers = "up" => w.volume # Nobody
      BY DEF SharedOK
    <3> QED BY <2>1, <3>1, <3>2, WorldMoves
  <2>3. CASE ProjectOf[r] # ProjectOf[q]
    <3>1. z = w
      BY <2>1, <2>3, WorldSet, StackConstants DEF Stacks!World
    <3>2. Extends(w, w)
      BY EffectIsStack DEF Stacks!Stack, Extends
    <3> QED BY <3>1, <3>2 DEF SharedOK
  <2> QED BY <2>2, <2>3
<1>2. /\ \/ seen'[r] = seen[r]
         \/ r = q /\ Stacks!At(q) = "get1" /\ phase[q] = "steps" /\ seen'[q] = Stacks!World(q).volume
  BY SeenMoves
<1>3. ASSUME NEW u \in StackRun, z.volume = u \/ seen'[r] = u
      PROVE  PastUp(u)'
  <2>1. u # Nobody
    BY StackConstants
  <2>2. w.volume = u \/ seen[r] = u => PastUp(u)
    BY DEF SharedOK
  <2>3. z.volume = u => PastUp(u)'
    BY <1>1, <2>1, <2>2, StaysPast
  <2>4. seen'[r] = u => PastUp(u)'
    BY <1>2, <2>2, StaysPast
  <2> QED BY <1>3, <2>3, <2>4
<1>4. ASSUME ScriptOf[r] = "smoke", phase'[r] = "steps", stackStep'[r] >= 9
      PROVE  /\ seen'[r] # Nobody
             /\ z.volume = seen'[r] =>
                  /\ Len(z.posts) >= 1 /\ z.posts[1] = r
                  /\ stackStep'[r] >= 11 => Len(z.posts) >= 2 /\ z.posts[2] = r
  <2>0. RunFrame(q) /\ w \in Stacks!Stack /\ stackStep[r] \in Nat
    BY Proceeds, EffectIsStack DEF Stacks!TypeOK
  <2>1. phase[r] = "steps" /\ stackStep'[r] \in {stackStep[r], stackStep[r] + 1} /\ (r # q => stackStep'[r] = stackStep[r])
    <3>1. CASE r = q
      BY <1>4, <3>1, Onward
    <3>2. CASE r # q
      BY <1>4, <2>0, <3>2 DEF RunFrame
    <3> QED BY <3>1, <3>2
  <2>2. CASE stackStep[r] >= 9
    <3>1. seen'[r] = seen[r] /\ seen[r] # Nobody
      <4>1. Stacks!At(r) # "get1"
        BY <1>4, <2>0, <2>2, Places
      <4> QED BY <1>2, <1>4, <2>1, <2>2, <4>1 DEF SharedOK
    <3>2. ASSUME z.volume = seen[r]
          PROVE  /\ Len(z.posts) >= 1 /\ z.posts[1] = r
                 /\ stackStep'[r] >= 11 => Len(z.posts) >= 2 /\ z.posts[2] = r
      <4>1. seen[r] = q => PastUp(q)
        BY DEF SharedOK
      <4>2. w.volume = seen[r] /\ Extends(z, w)
        BY <1>1, <3>1, <3>2, <4>1
      <4>3. /\ Len(w.posts) >= 1 /\ w.posts[1] = r
            /\ stackStep[r] >= 11 => Len(w.posts) >= 2 /\ w.posts[2] = r
        BY <1>4, <2>1, <2>2, <4>2 DEF SharedOK
      <4>4. Len(w.posts) \in Nat
        BY <2>0 DEF Stacks!Stack
      <4>5. ASSUME stackStep'[r] >= 11
            PROVE  Len(w.posts) >= 2 /\ w.posts[2] = r
        <5>1. CASE stackStep[r] >= 11
          BY <4>3, <5>1
        <5>2. CASE ~(stackStep[r] >= 11)
          <6>1. stackStep[r] = 10 /\ r = q /\ stackStep'[r] # stackStep[r]
            BY <2>0, <2>1, <4>5, <5>2
          <6>2. Stacks!At(r) = "get2"
            BY <1>4, <6>1, Places
          <6>3. Stacks!Satisfied(r)
            BY <2>1, <6>1, <6>2, GetsThrough
          <6> QED BY <6>2, <6>3 DEF Stacks!Satisfied, Stacks!Sees
        <5> QED BY <5>1, <5>2
      <4>6. \A i \in 1..Len(w.posts) : z.posts[i] = w.posts[i]
        BY <4>2 DEF Extends
      <4>7. Len(z.posts) >= Len(w.posts) /\ Len(z.posts) \in Nat
        <5>1. z \in Stacks!Stack
          <6>1. Stacks!TypeOK'
            BY Proceeds
          <6>2. stack' \in [Stacks!Project -> Stacks!Stack]
            BY <6>1 DEF Stacks!TypeOK
          <6>3. z = stack'[ProjectOf[r]]
            BY DEF Stacks!World
          <6> QED BY <6>2, <6>3, WorldSet
        <5> QED BY <4>2, <5>1 DEF Extends, Stacks!Stack
      <4>8. z.posts[1] = w.posts[1] /\ (Len(w.posts) >= 2 => z.posts[2] = w.posts[2])
        BY <4>3, <4>4, <4>6
      <4> QED BY <4>3, <4>4, <4>5, <4>7, <4>8
    <3> QED BY <3>1, <3>2
  <2>3. CASE ~(stackStep[r] >= 9)
    <3>1. stackStep[r] = 8 /\ stackStep'[r] = 9 /\ r = q
      BY <1>4, <2>0, <2>1, <2>3
    <3>2. Stacks!At(r) = "get1"
      BY <1>4, <3>1, Places
    <3>3. w.containers = "up" /\ Stacks!Satisfied(r) /\ z = w /\ seen' = [seen EXCEPT ![r] = w.volume]
      BY <2>1, <3>1, <3>2, GetsThrough
    <3>4. Len(w.posts) = 1 /\ w.posts[1] = r
      BY <3>2, <3>3 DEF Stacks!Satisfied, Stacks!Sees
    <3>5. seen'[r] = w.volume /\ w.volume # Nobody
      BY <3>3 DEF SharedOK, Stacks!TypeOK
    <3> QED BY <3>1, <3>3, <3>4, <3>5
  <2> QED BY <2>2, <2>3
<1>5. z.containers = "up" => z.volume # Nobody
  BY <1>1
<1> HIDE DEF w
<1> QED BY <1>3, <1>4, <1>5 DEF SharedOK

(* All of them together. *)

StacksInvariant ==
  /\ Stacks!TypeOK
  /\ \A r \in StackRun : OfItsOwn(r) => OwnOK(r)
  /\ \A r \in StackRun : SharedOK(r)

LEMMA StacksBegin == Stacks!Init => StacksInvariant
<1> SUFFICES ASSUME Stacks!Init PROVE StacksInvariant
  OBVIOUS
<1>1. PICK smokes \in [Stacks!Project -> Stacks!Leftover \cup {Stacks!Gone}] :
        stack = [p \in Stacks!Project |-> IF \E r \in StackRun : ProjectOf[r] = p /\ ScriptOf[r] # "smoke"
                                          THEN Stacks!Gone ELSE smokes[p]]
  BY DEF Stacks!Init
<1>2. /\ port = [r \in StackRun |-> "free"] /\ stackStep = [r \in StackRun |-> 1]
      /\ phase = [r \in StackRun |-> "steps"] /\ result = [r \in StackRun |-> "none"]
      /\ seen = [r \in StackRun |-> Nobody] /\ cleaned = [r \in StackRun |-> "no"] /\ faults = 0
  BY DEF Stacks!Init
<1>3. \A s \in Stacks!Leftover \cup {Stacks!Gone} :
        s \in Stacks!Stack /\ s.volume \in {Nobody, "earlier"} /\ (s.containers = "up" => s.volume # Nobody)
  <2>1. Stacks!Gone \in Stacks!Stack
    BY EffectIsStack DEF Stacks!Gone, Stacks!Stack
  <2>2. <<"earlier">> \in Seq(StackRun \cup {"earlier"}) /\ <<>> \in Seq(StackRun \cup {"earlier"})
    OBVIOUS
  <2>3. LET s == [Stacks!Gone EXCEPT !.volume = "earlier"] IN s \in Stacks!Stack /\ s.volume = "earlier"
    BY <2>2 DEF Stacks!Gone, Stacks!Stack
  <2>4. ASSUME NEW z \in Seq(StackRun \cup {"earlier"})
        PROVE  LET s == [Stacks!Gone EXCEPT !.containers = "up", !.volume = "earlier", !.posts = z]
               IN  s \in Stacks!Stack /\ s.volume = "earlier"
    BY <2>2 DEF Stacks!Gone, Stacks!Stack
  <2>5. Stacks!Gone.volume = Nobody /\ Stacks!Gone.containers = "none" /\ Nobody # "earlier"
    BY StackConstants DEF Stacks!Gone
  <2>6. \A s \in Stacks!Leftover : s \in Stacks!Stack /\ s.volume = "earlier"
    BY <2>2, <2>3, <2>4 DEF Stacks!Leftover
  <2> QED BY <2>1, <2>5, <2>6
<1>4. stack \in [Stacks!Project -> Stacks!Stack]
  BY <1>1, <1>3
<1>5. \A r \in StackRun : /\ Stacks!World(r) \in Stacks!Leftover \cup {Stacks!Gone}
                          /\ ScriptOf[r] # "smoke" => Stacks!World(r) = Stacks!Gone
  BY <1>1, StackConstants DEF Stacks!World
<1>6. \A r \in StackRun : 1 <= Len(Stacks!Steps[ScriptOf[r]])
  <2>1. \A x \in {5, 13, 16} : 1 <= x
    OBVIOUS
  <2> QED BY <2>1, StepsCounted, Zenon
<1>7. Stacks!TypeOK
  BY <1>2, <1>4, <1>6, StackConstants DEF Stacks!TypeOK
<1>8. \A r \in StackRun : OwnOK(r)
  BY <1>2, <1>5 DEF OwnOK
<1>9. \A r \in StackRun : SharedOK(r)
  BY <1>2, <1>3, <1>5, StackConstants DEF SharedOK
<1> QED BY <1>7, <1>8, <1>9 DEF StacksInvariant

LEMMA StacksKept == StacksInvariant /\ [Stacks!Next]_(Stacks!vars) => StacksInvariant'
<1>1. ASSUME StacksInvariant, NEW q \in StackRun, Stacks!Proceed(q)
      PROVE  StacksInvariant'
  <2>1. Stacks!TypeOK /\ Stacks!TypeOK'
    BY <1>1, Proceeds DEF StacksInvariant
  <2>2. ASSUME NEW r \in StackRun, OfItsOwn(r) PROVE OwnOK(r)'
    <3>1. OwnOK(r)
      BY <1>1, <2>2 DEF StacksInvariant
    <3>2. CASE r = q
      BY <1>1, <2>1, <3>1, <3>2, OwnMoves
    <3>3. CASE r # q
      BY <1>1, <2>1, <2>2, <3>1, <3>3, OwnStays DEF OfItsOwn
    <3> QED BY <3>2, <3>3
  <2>3. \A r \in StackRun : SharedOK(r)'
    BY <1>1, <2>1, SharedKept DEF StacksInvariant
  <2>4. \A r \in StackRun : OfItsOwn(r)' <=> OfItsOwn(r)
    BY DEF OfItsOwn
  <2> QED BY <2>1, <2>2, <2>3, <2>4 DEF StacksInvariant
<1>2. ASSUME StacksInvariant, Stacks!vars' = Stacks!vars PROVE StacksInvariant'
  <2>1. UNCHANGED <<stack, port, stackStep, phase, result, seen, cleaned, faults>>
    BY <1>2 DEF Stacks!vars
  <2>2. Stacks!TypeOK'
    BY <1>2, <2>1 DEF StacksInvariant, Stacks!TypeOK
  <2>3. \A r \in StackRun : Stacks!World(r)' = Stacks!World(r) /\ (PastUp(r)' <=> PastUp(r))
    BY <2>1 DEF Stacks!World, PastUp
  <2>4. \A r \in StackRun : (OwnOK(r) => OwnOK(r)') /\ (OfItsOwn(r)' <=> OfItsOwn(r))
    BY <2>1, <2>3 DEF OwnOK, OfItsOwn
  <2>5. \A r \in StackRun : SharedOK(r) => SharedOK(r)'
    BY <2>1, <2>3 DEF SharedOK
  <2> QED BY <1>2, <2>2, <2>4, <2>5 DEF StacksInvariant
<1> QED BY <1>1, <1>2 DEF Stacks!Next

LEMMA StacksAlways == ScriptsSpec => []StacksInvariant
BY ScriptsAreTheirParts, StacksBegin, StacksKept, PTL DEF Stacks!Spec

(* Every variable of the scripts, of the lab's scenario and of the         *)
(* collector has its type, whatever the runs, the fabric and the bounds.   *)
THEOREM ScriptsTypeCorrect == ScriptsSpec => []ScriptsTypeOK
<1>1. LabInvariant => Lab!TypeOK
  BY DEF LabInvariant
<1>2. CollectionInvariant => Collection!TypeOK
  BY DEF CollectionInvariant
<1>3. StacksInvariant => Stacks!TypeOK
  BY DEF StacksInvariant
<1>4. Lab!TypeOK /\ Collection!TypeOK /\ Stacks!TypeOK => ScriptsTypeOK
  BY DEF ScriptsTypeOK
<1> QED BY <1>1, <1>2, <1>3, <1>4, LabAlways, CollectionAlways, StacksAlways, PTL

(* However many runs there are and whatever goes wrong: a run that has     *)
(* ended has left nothing of a project of its own, unless it is a demo     *)
(* that started or knows that its teardown failed; an end-to-end test that *)
(* passes has left nothing; and a demo is announced only when its stack    *)
(* answers on its ports and holds the scenario.                            *)
THEOREM EndsTruly == ScriptsSpec => []EndsAsReported
<1>1. StacksInvariant => EndsAsReported
  <2> SUFFICES ASSUME StacksInvariant PROVE EndsAsReported
    OBVIOUS
  <2>1. \A r \in StackRun : ScriptOf[r] # "smoke" => OfItsOwn(r)
    BY StackConstants DEF OfItsOwn
  <2>2. \A r \in StackRun : OfItsOwn(r) => OwnOK(r)
    BY DEF StacksInvariant
  <2>3. Stacks!NothingLeft
    BY <2>2 DEF Stacks!NothingLeft, OfItsOwn, OwnOK
  <2>4. Stacks!VerifiedMeansGone
    BY <2>1, <2>2 DEF Stacks!VerifiedMeansGone, OwnOK
  <2>5. Stacks!AnnouncedMeansReady
    BY <2>1, <2>2 DEF Stacks!AnnouncedMeansReady, Stacks!Answering, OwnOK
  <2> QED BY <2>3, <2>4, <2>5 DEF EndsAsReported
<1> QED BY <1>1, StacksAlways, PTL

(* However many smoke tests share the default project, each tearing it     *)
(* down and starting it at any moment: one passes only on three            *)
(* submissions of its own, on a volume nobody else has written to.         *)
THEOREM PassesOnOwnSubmissions == ScriptsSpec => PassesOnItsOwn
<1>1. ASSUME StacksInvariant, NEW q \in StackRun, Stacks!Proceed(q)
      PROVE  Stacks!PassesAlone
  <2> SUFFICES ASSUME NEW r \in StackRun, ScriptOf[r] = "smoke", result[r] = "none", result'[r] = "passed"
               PROVE  Stacks!World(r).posts = <<r, r, r>>
    BY DEF Stacks!PassesAlone
  <2>0. Stacks!TypeOK /\ SharedOK(r)
    BY <1>1 DEF StacksInvariant
  <2>1. r = q
    BY <1>1, <2>0, Proceeds DEF RunFrame
  <2>2. phase[r] = "steps" /\ Stacks!Advance(r)
    <3>1. ~Stacks!Leave(r, "failed") /\ ~Stacks!Leave(r, "raised")
      BY <2>0, Leaves
    <3>2. ~Stacks!Fault(r)
      BY <3>1 DEF Stacks!Fault, Stacks!Raised
    <3>3. ~Stacks!TakePort(r)
      BY DEF Stacks!TakePort
    <3>4. ~Stacks!Cleanup(r) /\ ~Stacks!Verify(r) /\ ~Stacks!Stop(r)
      BY <2>0 DEF Stacks!Cleanup, Stacks!Verify, Stacks!Stop, Stacks!End, Stacks!TypeOK
    <3>5. ~Stacks!CleanupFails(r)
      BY <2>0 DEF Stacks!CleanupFails, Stacks!End, Stacks!TypeOK
    <3> QED BY <1>1, <2>1, <3>1, <3>2, <3>3, <3>4, <3>5 DEF Stacks!Proceed, Stacks!Contact, Stacks!Command,
               Stacks!CheckPorts, Stacks!Reserve, Stacks!Release, Stacks!Up, Stacks!Preview, Stacks!Preclean, Stacks!Conclude
  <2>3. stackStep[r] = 16 /\ Stacks!At(r) = "get3"
    <3>1. stackStep[r] = Len(Stacks!Steps[ScriptOf[r]])
      BY <2>0, <2>2, Advances
    <3>2. stackStep[r] = 16
      BY <2>0, <3>1, Places
    <3> QED BY <2>0, <3>2, Places
  <2>4. Stacks!Satisfied(r)
    BY <1>1, <2>0, <2>1, <2>2, <2>3, GetsThrough
  <2>5. /\ Len(Stacks!World(r).posts) = 3 /\ Stacks!World(r).posts[3] = r /\ Stacks!World(r).volume = seen[r]
    BY <2>3, <2>4 DEF Stacks!Satisfied, Stacks!Sees
  <2>6. Stacks!World(r).posts[1] = r /\ Stacks!World(r).posts[2] = r
    BY <2>0, <2>2, <2>3, <2>5 DEF SharedOK
  <2>7. Stacks!World(r).posts \in Seq(StackRun \cup {"earlier"})
    BY <2>0, EffectIsStack DEF Stacks!Stack
  <2> QED BY <2>5, <2>6, <2>7
<1>2. StacksInvariant /\ [Stacks!Next]_(Stacks!vars) => Stacks!PassesAlone
  <2>1. ASSUME Stacks!vars' = Stacks!vars PROVE Stacks!PassesAlone
    BY <2>1 DEF Stacks!vars, Stacks!PassesAlone
  <2> QED BY <1>1, <2>1 DEF Stacks!Next
<1>3. StacksInvariant /\ [Stacks!Next]_(Stacks!vars) => [Stacks!PassesAlone]_all
  BY <1>2
<1> QED BY <1>3, StacksAlways, ScriptsAreTheirParts, PTL DEF Stacks!Spec, PassesOnItsOwn

=============================================================================
