---------------------------- MODULE StackScripts ----------------------------
(***************************************************************************)
(* The three scripts that run the platform in Docker Compose: demo (start),*)
(* the smoke test, and the browser end-to-end test.  A run of a script     *)
(* goes through its steps on one Compose project and, as the script        *)
(* decides, tears the project down.  A command can fail, and do its work   *)
(* or not; an exception can escape the script's handlers; the operator can *)
(* interrupt; another process can take a port.                             *)
(***************************************************************************)
EXTENDS Naturals, Sequences, SequencesExt

CONSTANTS
  Run,
  ScriptOf,     \* "demo", "smoke" or "e2e"
  ProjectOf,    \* the Compose project of a run
  Nobody,
  Raises,       \* the scripts in which a step may raise what they do not expect
  MaxFaults     \* bound on what goes wrong

Script == {"demo", "smoke", "e2e"}
Project == {ProjectOf[r] : r \in Run}

(* Only smoke tests share a project, the default one: the other scripts    *)
(* make up the name of theirs.                                             *)
ScriptConstants ==
  /\ ScriptOf \in [Run -> Script] /\ DOMAIN ProjectOf = Run
  /\ \A r, q \in Run :
       ProjectOf[r] = ProjectOf[q] => r = q \/ (ScriptOf[r] = "smoke" /\ ScriptOf[q] = "smoke")
  /\ Nobody \notin Run \cup {"earlier"} /\ "earlier" \notin Run
  /\ Raises \subseteq Script
  /\ MaxFaults \in Nat

Steps == [
  demo  |-> <<"checkPorts", "up", "apiReady", "frontendReady", "simulate">>,
  smoke |-> <<"config", "preclean", "up", "healthy", "health", "alembic", "post1", "get1",
              "post2", "get2", "restart", "healthy", "health", "get2", "post3", "get3">>,
  e2e   |-> <<"reserve", "release", "up", "healthy", "health", "seedBaseline", "state", "build",
              "preview", "phase1", "seedDegraded", "diagnosis", "phase2">>]

VARIABLES
  stack,    \* the containers, volume and data of each project
  port,     \* what stands at the host ports of each run
  step,     \* the step of each run
  phase,    \* "steps", "cleanup", "verify" or "ended"
  result,   \* "none" until it is known; "stopped" is a demo that was
  seen,     \* the volume in which the smoke test has seen its incident
  cleaned,  \* how the teardown went, as the run knows: "no", "ok" or "failed"
  faults    \* what has gone wrong

vars == <<stack, port, step, phase, result, seen, cleaned, faults>>

(* Where nothing of a project is left.  A volume is named by the run that  *)
(* created it.                                                             *)
Gone == [containers |-> "none", volume |-> Nobody, posts |-> <<>>, seeded |-> "none"]

Stack == [containers : {"none", "some", "up"}, volume : Run \cup {Nobody, "earlier"},
          posts : Seq(Run \cup {"earlier"}), seeded : {"none", "baseline", "degraded", "demo"}]

(* A run that was killed, or was told to keep the project, has left it.    *)
Leftover == {[Gone EXCEPT !.volume = "earlier"],
             [Gone EXCEPT !.containers = "up", !.volume = "earlier", !.posts = <<"earlier">>]}

TypeOK ==
  /\ stack \in [Project -> Stack]
  /\ port \in [Run -> {"free", "held", "taken", "bound"}]
  /\ step \in [Run -> Nat \ {0}] /\ \A r \in Run : step[r] <= Len(Steps[ScriptOf[r]])
  /\ phase \in [Run -> {"steps", "cleanup", "verify", "ended"}]
  /\ result \in [Run -> {"none", "passed", "failed", "raised", "stopped"}]
  /\ seen \in [Run -> Run \cup {Nobody, "earlier"}]
  /\ cleaned \in [Run -> {"no", "ok", "failed"}]
  /\ faults \in 0..MaxFaults

Init ==
  /\ \E smokes \in [Project -> Leftover \cup {Gone}] :
       stack = [p \in Project |-> IF \E r \in Run : ProjectOf[r] = p /\ ScriptOf[r] # "smoke"
                                  THEN Gone ELSE smokes[p]]
  /\ port = [r \in Run |-> "free"] /\ step = [r \in Run |-> 1]
  /\ phase = [r \in Run |-> "steps"] /\ result = [r \in Run |-> "none"]
  /\ seen = [r \in Run |-> Nobody] /\ cleaned = [r \in Run |-> "no"]
  /\ faults = 0

At(r) == Steps[ScriptOf[r]][step[r]]
World(r) == stack[ProjectOf[r]]
SetWorld(r, w) == stack' = [stack EXCEPT ![ProjectOf[r]] = w]
FaultsUpTo(n) == faults' = faults + n /\ faults' <= MaxFaults

-----------------------------------------------------------------------------
(* How a run leaves its steps *)

(* Whether a failure at this step is followed by the teardown: the demo    *)
(* has set project_created, the end-to-end test has entered its try block. *)
InProject(r) ==
  CASE ScriptOf[r] = "demo"  -> At(r) # "checkPorts"
    [] ScriptOf[r] = "smoke" -> TRUE
    [] ScriptOf[r] = "e2e"   -> At(r) # "reserve"

(* Faulty variant: the demo notes its project once Compose has started it. *)
LeaveUnmarked(r, how) ==
  /\ result' = [result EXCEPT ![r] = how]
  /\ phase' = [phase EXCEPT ![r] = IF InProject(r) /\ At(r) # "up" THEN "cleanup" ELSE "ended"]
  /\ UNCHANGED <<step, cleaned>>

(* The demo tears down what failed or was interrupted, the others always.  *)
Leave(r, how) ==
  /\ result' = [result EXCEPT ![r] = how]
  /\ phase' = [phase EXCEPT ![r] =
       IF InProject(r) /\ (ScriptOf[r] = "demo" => how = "failed") THEN "cleanup" ELSE "ended"]
  /\ UNCHANGED <<step, cleaned>>

(* Faulty variant: it counts its steps from zero. *)
AdvancePast(r) ==
  IF step[r] <= Len(Steps[ScriptOf[r]])
  THEN step' = [step EXCEPT ![r] = @ + 1] /\ UNCHANGED <<phase, result, cleaned>>
  ELSE Leave(r, "passed")

Advance(r) ==
  IF step[r] < Len(Steps[ScriptOf[r]])
  THEN step' = [step EXCEPT ![r] = @ + 1] /\ UNCHANGED <<phase, result, cleaned>>
  ELSE Leave(r, "passed")

Conclude(r, ok) == IF ok THEN Advance(r) ELSE Leave(r, "failed")

-----------------------------------------------------------------------------
(* The steps *)

Answering(r) == World(r).containers = "up"

(* What a step does to the project when it gets through. *)
Effect(r) ==
  LET w == World(r) IN
  CASE At(r) = "up" ->
         [w EXCEPT !.containers = "up", !.volume = IF @ = Nobody THEN r ELSE @]
    [] At(r) \in {"post1", "post2", "post3"} -> [w EXCEPT !.posts = Append(@, r)]
    [] At(r) = "simulate"     -> [w EXCEPT !.seeded = "demo"]
    [] At(r) = "seedBaseline" -> [w EXCEPT !.seeded = "baseline"]
    [] At(r) = "seedDegraded" -> [w EXCEPT !.seeded = "degraded"]
    [] OTHER -> w

(* Faulty variant: the evidence is not looked at. *)
SeesAny(r, count) == Len(World(r).posts) = count

(* The evidence of the incident names the configuration submitted last. *)
Sees(r, count) ==
  LET w == World(r) IN Len(w.posts) = count /\ w.posts[count] = r

(* What it demands of the answer. *)
Satisfied(r) ==
  LET w == World(r) IN
  CASE At(r) = "post1" -> w.posts = <<>>             \* incidents_created = 1
    [] At(r) \in {"post2", "post3"} -> w.posts # <<>>  \* incidents_updated = 1
    [] At(r) = "get1" -> Sees(r, 1)
    [] At(r) = "get2" -> Sees(r, 2) /\ w.volume = seen[r]
    [] At(r) = "get3" -> Sees(r, 3) /\ w.volume = seen[r]
    [] At(r) = "seedBaseline" -> w.seeded = "none"       \* CREATED
    [] At(r) = "seedDegraded" -> w.seeded = "baseline"   \* REPLACED
    [] OTHER -> TRUE

(* The steps that talk to the containers, or run in them. *)
Contact(r) ==
  /\ phase[r] = "steps"
  /\ At(r) \notin {"checkPorts", "reserve", "release", "up", "config", "preclean", "build", "preview", "phase1", "phase2"}
  /\ IF Answering(r)
     THEN SetWorld(r, Effect(r)) /\ Conclude(r, Satisfied(r))
     ELSE UNCHANGED stack /\ Leave(r, "failed")
  /\ seen' = IF At(r) = "get1" THEN [seen EXCEPT ![r] = World(r).volume] ELSE seen
  /\ UNCHANGED <<port, faults>>

(* The commands on this machine; the browser tests need the application    *)
(* behind the preview.                                                     *)
Command(r) ==
  /\ phase[r] = "steps" /\ At(r) \in {"config", "build", "phase1", "phase2"}
  /\ Conclude(r, At(r) \in {"phase1", "phase2"} => Answering(r) /\ port[r] = "bound")
  /\ UNCHANGED <<stack, port, seen, faults>>

(* The demo binds its ports to see that they are free, and lets them go.   *)
CheckPorts(r) ==
  /\ phase[r] = "steps" /\ At(r) = "checkPorts"
  /\ Conclude(r, port[r] = "free")
  /\ UNCHANGED <<stack, port, seen, faults>>

(* Ports of its own choosing are held until just before they are needed.   *)
Reserve(r) ==
  /\ phase[r] = "steps" /\ At(r) = "reserve"
  /\ port' = [port EXCEPT ![r] = "held"]
  /\ Advance(r)
  /\ UNCHANGED <<stack, seen, faults>>

Release(r) ==
  /\ phase[r] = "steps" /\ At(r) = "release"
  /\ port' = [port EXCEPT ![r] = "free"]
  /\ Advance(r)
  /\ UNCHANGED <<stack, seen, faults>>

(* Compose leaves what it has created when it cannot bind a port. *)
Up(r) ==
  /\ phase[r] = "steps" /\ At(r) = "up"
  /\ IF port[r] = "taken"
     THEN /\ SetWorld(r, [Effect(r) EXCEPT !.containers = "some"])
          /\ UNCHANGED port /\ Leave(r, "failed")
     ELSE /\ SetWorld(r, Effect(r))
          /\ port' = [port EXCEPT ![r] = IF ScriptOf[r] = "e2e" THEN "held" ELSE "bound"]
          /\ Advance(r)
  /\ UNCHANGED <<seen, faults>>

(* From here on the port of the end-to-end test is that of its preview,    *)
(* which exits when somebody has it (strictPort).                          *)
Preview(r) ==
  /\ phase[r] = "steps" /\ At(r) = "preview"
  /\ \/ port' = [port EXCEPT ![r] = "bound"] /\ Advance(r) /\ UNCHANGED faults
     \/ /\ FaultsUpTo(1)
        /\ port' = [port EXCEPT ![r] = "taken"]
        /\ Advance(r) \/ Leave(r, "failed")  \* the other's page, or none
  /\ UNCHANGED <<stack, seen>>

-----------------------------------------------------------------------------
(* What goes wrong *)

TakePort(r) ==
  /\ phase[r] = "steps" /\ port[r] = "free" /\ FaultsUpTo(1)
  /\ port' = [port EXCEPT ![r] = "taken"]
  /\ UNCHANGED <<stack, step, phase, result, seen, cleaned>>

Raised(r) ==
  IF ScriptOf[r] \in Raises /\ (ScriptOf[r] = "demo" => At(r) \in {"apiReady", "frontendReady"})
  THEN {"raised"} ELSE {}

(* A step fails, times out, raises or is interrupted, and has done its     *)
(* work or not.  The demo takes an interrupt for a failure.  Of what it    *)
(* calls only the readiness checks raise what it does not catch: a broken  *)
(* HTTP answer.                                                            *)
Fault(r) ==
  /\ phase[r] = "steps" /\ FaultsUpTo(1)
  /\ \/ UNCHANGED stack
     \/ At(r) = "up" /\ SetWorld(r, [Effect(r) EXCEPT !.containers = "some"])
     \/ Answering(r) /\ SetWorld(r, Effect(r))
  /\ \E how \in {"failed"} \cup Raised(r) : Leave(r, how)
  /\ UNCHANGED <<port, seen>>

-----------------------------------------------------------------------------
(* Teardown *)

(* docker compose down *)
Torn(w) == {w, [w EXCEPT !.containers = "none"]}

(* The smoke test's pre-clean ignores how it went. *)
Preclean(r) ==
  /\ phase[r] = "steps" /\ At(r) = "preclean"
  /\ \/ SetWorld(r, Gone) /\ UNCHANGED faults
     \/ FaultsUpTo(1) /\ \E w \in Torn(World(r)) : SetWorld(r, w)
  /\ Advance(r)
  /\ UNCHANGED <<port, seen>>

End(r, how) ==
  /\ result' = [result EXCEPT ![r] = how]
  /\ phase' = [phase EXCEPT ![r] = "ended"]

Cleanup(r) ==
  /\ phase[r] = "cleanup"
  /\ SetWorld(r, Gone)
  /\ cleaned' = [cleaned EXCEPT ![r] = "ok"]
  /\ IF ScriptOf[r] = "e2e" THEN phase' = [phase EXCEPT ![r] = "verify"] /\ UNCHANGED result
                            ELSE End(r, result[r])
  /\ UNCHANGED <<port, step, seen, faults>>

(* It fails: the demo has failed already, the smoke test ignores it.  It   *)
(* times out: that escapes from the smoke test, and fails the end-to-end   *)
(* test.                                                                   *)
CleanupFails(r) ==
  /\ phase[r] = "cleanup" /\ FaultsUpTo(1)
  /\ \E w \in Torn(World(r)) : SetWorld(r, w)
  /\ cleaned' = [cleaned EXCEPT ![r] = "failed"]
  /\ CASE ScriptOf[r] = "demo"  -> End(r, result[r])
       [] ScriptOf[r] = "smoke" -> End(r, result[r]) \/ End(r, "raised")
       [] ScriptOf[r] = "e2e"   -> \/ phase' = [phase EXCEPT ![r] = "verify"] /\ UNCHANGED result
                                   \/ End(r, IF result[r] = "passed" THEN "failed" ELSE result[r])
  /\ UNCHANGED <<port, step, seen>>

(* demo.py stop: a failure is reported and nothing more is tried. *)
Stop(r) ==
  /\ ScriptOf[r] = "demo" /\ phase[r] = "ended" /\ result[r] = "passed"
  /\ \/ SetWorld(r, Gone) /\ cleaned' = [cleaned EXCEPT ![r] = "ok"] /\ UNCHANGED faults
     \/ /\ FaultsUpTo(1) /\ \E w \in Torn(World(r)) : SetWorld(r, w)
        /\ cleaned' = [cleaned EXCEPT ![r] = "failed"]
  /\ result' = [result EXCEPT ![r] = "stopped"]
  /\ UNCHANGED <<port, step, phase, seen>>

(* verify_cleanup: what docker ps and docker volume ls print; Docker       *)
(* itself answers.                                                         *)
Verify(r) ==
  /\ phase[r] = "verify"
  /\ End(r, IF World(r) # Gone /\ result[r] = "passed" THEN "failed" ELSE result[r])
  /\ UNCHANGED <<stack, port, step, seen, cleaned, faults>>

Proceed(r) ==
  \/ Contact(r) \/ Command(r) \/ CheckPorts(r) \/ Reserve(r) \/ Release(r) \/ Up(r) \/ Preview(r)
  \/ TakePort(r) \/ Fault(r)
  \/ Preclean(r) \/ Cleanup(r) \/ CleanupFails(r) \/ Verify(r) \/ Stop(r)

Next == \E r \in Run : Proceed(r)

Spec == Init /\ [][Next]_vars

-----------------------------------------------------------------------------
(* "Safely tears down only its own Compose project on request or on        *)
(* failure", and the finally blocks of the tests: a run that ends leaves   *)
(* nothing of a project of its own, unless it is a demo that started, or   *)
(* the teardown itself failed.                                             *)
NothingLeft ==
  \A r \in Run :
    /\ phase[r] = "ended"
    /\ \A q \in Run \ {r} : ProjectOf[q] # ProjectOf[r]
    => \/ World(r) = Gone
       \/ ScriptOf[r] = "demo" /\ result[r] = "passed"
       \/ cleaned[r] = "failed"

(* A demo is announced only when its stack answers and holds the scenario. *)
AnnouncedMeansReady ==
  \A r \in Run : ScriptOf[r] = "demo" /\ result[r] = "passed" =>
    Answering(r) /\ World(r).seeded = "demo" /\ port[r] = "bound"

(* "Confirms no container or volume carrying this run's Compose project    *)
(* label remains": an end-to-end run that exits with 0 has left nothing.   *)
VerifiedMeansGone ==
  \A r \in Run : ScriptOf[r] = "e2e" /\ phase[r] = "ended" /\ result[r] = "passed" => World(r) = Gone

(* A smoke test passes on three submissions of its own, the third after    *)
(* the restart, on one volume nobody else has written to, although another *)
(* run of the default project may tear it down and start it at any moment. *)
PassesAlone ==
  \A r \in Run : ScriptOf[r] = "smoke" /\ result[r] = "none" /\ result'[r] = "passed"
     => World(r).posts = <<r, r, r>>
=============================================================================
