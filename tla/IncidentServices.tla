-------------------------- MODULE IncidentServices --------------------------
(***************************************************************************)
(* Three of the four services that write incidents, running concurrently   *)
(* on PostgreSQL, each request in a session (UnitOfWork) of its own:       *)
(*                                                                         *)
(*   telemetry   TelemetryIngestionService.ingest: stores a sample, then   *)
(*               upserts one incident per anomaly of the rule engine;      *)
(*   collection  OperationalStateIngestionService.ingest: replaces the     *)
(*               lab's latest operational state, upserts one incident per  *)
(*               failed BGP neighbor, resolves those of the Established;   *)
(*   operator    ResolveIncidentService.resolve.                           *)
(*                                                                         *)
(* Every statement is one step, so any two requests interleave between     *)
(* their statements; a session that has to wait for a lock has no enabled  *)
(* step.  A request ends by commit, by an exception (rollback, then        *)
(* close), as the victim of the deadlock detector, or with its process or  *)
(* connection lost.  Requests that return before their first write change  *)
(* nothing (an unregistered device, an unknown or already RESOLVED         *)
(* incident, a malformed fabric) and are not steps.                        *)
(*                                                                         *)
(* A collection is what the detector and the recovery read in a fabric:    *)
(* the neighbors seen Idle/Active (down) and Established (up); all others  *)
(* are in neither.  Neighbors, anomalies and incidents are fingerprints.   *)
(* One lab: derive_fabric_source yields one name per fabric and the only   *)
(* collector of the repository has a fixed one.                            *)
(***************************************************************************)
EXTENDS IncidentStore, FiniteSets

CONSTANTS
  TelemetrySession, CollectorSession, OperatorSession,
  BgpFingerprint,  \* the fingerprints of BGP neighbors
  Registered,      \* the fingerprints of devices that exist
  CollectionId,    \* identifiers the collector may give a collection
  NoState,         \* no operational state stored yet
  MaxRequests      \* bound on the requests ever accepted

ASSUME SessionAssumption ==
  /\ Session = TelemetrySession \cup CollectorSession \cup OperatorSession
  /\ CollectorSession \cap (TelemetrySession \cup OperatorSession) = {}

ASSUME FingerprintAssumption ==
  BgpFingerprint \subseteq Fingerprint /\ Registered \subseteq Fingerprint

Collection ==
  {c \in [id : CollectionId, time : Time,
          down : SUBSET BgpFingerprint, up : SUBSET BgpFingerprint] :
     c.down \cap c.up = {}}

ASSUME NoStateAssumption == NoState \notin Collection

ASSUME MaxRequestsAssumption == MaxRequests \in Nat

VARIABLES
  now,        \* the API server's clock
  lab,        \* the committed operational_state_latest row, or NoState
  labDirty,   \* its uncommitted version while locked, NoState otherwise
  labOwner,   \* the session that holds its lock, or Nobody
  samples,    \* observation times of the committed telemetry samples
  pc,         \* the statement each session runs next
  time,       \* observed_at, collected_at or the captured resolved_at
  coll,       \* the collection a collector session ingests
  left,       \* fingerprints still to upsert, then still to recover
  cursor,     \* the fingerprint or incident a statement has looked up
  resolved,   \* what the collection will report as resolved
  accepted    \* number of requests accepted so far

requestVars == <<pc, time, coll, left, cursor, resolved>>
labVars == <<lab, labDirty, labOwner>>
vars == <<storeVars, labVars, requestVars, now, samples, accepted>>

Step == {"idle", "save", "upsert", "stale", "recover", "resolve", "recheck", "commit"}

Report == [incident : Incident, at : Time \cup {0}]

TypeOK ==
  /\ StoreTypeOK
  /\ now \in Time
  /\ lab \in Collection \cup {NoState}
  /\ labDirty \in Collection \cup {NoState}
  /\ labOwner \in Session \cup {Nobody}
  /\ samples \subseteq Time
  /\ pc \in [Session -> Step]
  /\ time \in [Session -> Time]
  /\ coll \in [Session -> Collection \cup {NoState}]
  /\ left \in [Session -> SUBSET Fingerprint]
  /\ cursor \in [Session -> Fingerprint \cup Incident \cup {Nobody}]
  /\ resolved \in [Session -> SUBSET Report]
  /\ accepted \in 0..MaxRequests
  /\ \A s \in Session :
       /\ pc[s] = "upsert" => cursor[s] \in Fingerprint
       /\ pc[s] \in {"resolve", "recheck"} => cursor[s] \in Incident
       /\ pc[s] = "save" => s \in CollectorSession
       /\ s \in CollectorSession /\ pc[s] # "idle" => coll[s] \in Collection

Init ==
  /\ StoreInit
  /\ now = 1
  /\ lab = NoState /\ labDirty = NoState /\ labOwner = Nobody
  /\ samples = {}
  /\ pc = [s \in Session |-> "idle"]
  /\ time = [s \in Session |-> 1]
  /\ coll = [s \in Session |-> NoState]
  /\ left = [s \in Session |-> {}]
  /\ cursor = [s \in Session |-> Nobody]
  /\ resolved = [s \in Session |-> {}]
  /\ accepted = 0

-----------------------------------------------------------------------------
(* Requests begin and end. *)

Begin(s, t, first, c, fps, x) ==
  /\ pc[s] = "idle"
  /\ accepted < MaxRequests
  /\ accepted' = accepted + 1
  /\ pc' = [pc EXCEPT ![s] = first]
  /\ time' = [time EXCEPT ![s] = t]
  /\ coll' = [coll EXCEPT ![s] = c]
  /\ left' = [left EXCEPT ![s] = fps]
  /\ cursor' = [cursor EXCEPT ![s] = x]
  /\ UNCHANGED <<storeVars, labVars, resolved, now, samples>>

(* The device exists, the sample is saved (visible to others at commit     *)
(* only) and the rule engine has returned the anomalies fps.               *)
BeginTelemetry(s) ==
  /\ s \in TelemetrySession
  /\ \E fps \in SUBSET Registered :
       \/ fps = {} /\ Begin(s, now, "commit", NoState, {}, Nobody)
       \/ \E f \in fps : Begin(s, now, "upsert", NoState, fps, f)

(* The devices of all anomalies exist; a collection may be a retry. *)
BeginCollection(s) ==
  /\ s \in CollectorSession
  /\ \E c \in Collection :
       /\ c.down \subseteq Registered
       /\ Begin(s, c.time, "save", c, {}, Nobody)

(* get_by_id saw an OPEN incident and the clock was read. *)
BeginResolve(s) ==
  /\ s \in OperatorSession
  /\ \E i \in Incident : IsOpen(table[i]) /\ Begin(s, now, "resolve", NoState, {}, i)

EndRequest(s) ==
  /\ pc' = [pc EXCEPT ![s] = "idle"]
  /\ time' = [time EXCEPT ![s] = 1]
  /\ coll' = [coll EXCEPT ![s] = NoState]
  /\ left' = [left EXCEPT ![s] = {}]
  /\ cursor' = [cursor EXCEPT ![s] = Nobody]
  /\ resolved' = [resolved EXCEPT ![s] = {}]
  /\ UNCHANGED <<now, accepted>>

ReleaseLab(s) ==
  /\ labDirty' = IF labOwner = s THEN NoState ELSE labDirty
  /\ labOwner' = IF labOwner = s THEN Nobody ELSE labOwner

(* Faulty variant: the exception leaves the transaction open. *)
AbortLeaking(s) ==
  /\ EndRequest(s)
  /\ UNCHANGED <<storeVars, labVars, samples>>

(* Faulty variant: the operational state is committed on its own, before   *)
(* the incidents, and an error after that leaves it in place.              *)
AbortKeepingLab(s) ==
  /\ StoreRollback(s)
  /\ lab' = IF labOwner = s THEN labDirty ELSE lab
  /\ ReleaseLab(s)
  /\ EndRequest(s)
  /\ UNCHANGED samples

(* uow.rollback() and uow.close(), then the exception is re-raised. *)
Abort(s) ==
  /\ StoreRollback(s)
  /\ ReleaseLab(s)
  /\ EndRequest(s)
  /\ UNCHANGED <<lab, samples>>

(* The single commit of a request; what it reports goes out after it. *)
Commit(s) ==
  /\ pc[s] = "commit"
  /\ StoreCommit(s)
  /\ lab' = IF labOwner = s THEN labDirty ELSE lab
  /\ ReleaseLab(s)
  /\ samples' = IF s \in TelemetrySession THEN samples \cup {time[s]} ELSE samples
  /\ EndRequest(s)

-----------------------------------------------------------------------------
(* Moving on within a request. *)

(* What follows while the neighbors fps remain to be recovered. *)
RecoverNext(fps) == IF fps = {} THEN "commit" ELSE "recover"

(* The neighbors a session may recover: none that fails in the same        *)
(* snapshot, and only a collection recovers any.                           *)
Recoverable(s) == IF s \in CollectorSession THEN coll[s].up \ coll[s].down ELSE {}

(* While the candidates fps remain to be upserted, one of them is next, in *)
(* whatever order the fabric or the rule engine lists them; then recovery. *)
UpsertNext(s, fps) ==
  \/ /\ left' = [left EXCEPT ![s] = fps]
     /\ pc' = [pc EXCEPT ![s] = "upsert"]
     /\ \E f \in fps : cursor' = [cursor EXCEPT ![s] = f]
  \/ /\ fps = {}
     /\ left' = [left EXCEPT ![s] = Recoverable(s)]
     /\ pc' = [pc EXCEPT ![s] = RecoverNext(Recoverable(s))]
     /\ cursor' = [cursor EXCEPT ![s] = Nobody]

-----------------------------------------------------------------------------
(* save_latest *)

(* Faulty variant: an older collection may replace a newer one. *)
SupersedesAnyTime(c, stored) == stored # NoState => c.id # stored.id

(* Faulty variant: an equal time supersedes and the id is not compared. *)
SupersedesEqualTime(c, stored) == stored # NoState => c.time >= stored.time

(* The INSERT has no conflict, or its WHERE clause holds. *)
Supersedes(c, stored) ==
  stored # NoState => c.id # stored.id /\ c.time > stored.time

(* decide_latest_write, for a collection that does not supersede. *)
IsReplay(c, stored) == stored # NoState /\ c = stored

(* Statement and read-back are one step: the statement keeps the row       *)
(* locked even when its WHERE clause suppresses the update.                *)
SaveLatest(s) ==
  /\ pc[s] = "save"
  /\ labOwner = Nobody
  /\ Supersedes(coll[s], lab)
  /\ labOwner' = s
  /\ labDirty' = coll[s]
  /\ UpsertNext(s, coll[s].down)
  /\ UNCHANGED <<storeVars, lab, time, coll, resolved, now, samples, accepted>>

SaveReplay(s) ==
  /\ pc[s] = "save"
  /\ labOwner = Nobody
  /\ IsReplay(coll[s], lab)
  /\ labOwner' = s
  /\ labDirty' = lab
  /\ pc' = [pc EXCEPT ![s] = "commit"]
  /\ UNCHANGED <<storeVars, lab, time, coll, left, cursor, resolved, now, samples, accepted>>

(* Faulty variant: a rejected state is left unstored and its incidents are *)
(* processed all the same.                                                 *)
SaveRejectedProcessed(s) ==
  /\ pc[s] = "save"
  /\ labOwner = Nobody
  /\ ~Supersedes(coll[s], lab) /\ ~IsReplay(coll[s], lab)
  /\ UpsertNext(s, coll[s].down)
  /\ UNCHANGED <<storeVars, labVars, time, coll, resolved, now, samples, accepted>>

(* StaleOperationalStateError or OperationalStateConflictError. *)
SaveRejected(s) ==
  /\ pc[s] = "save"
  /\ labOwner = Nobody
  /\ ~Supersedes(coll[s], lab) /\ ~IsReplay(coll[s], lab)
  /\ Abort(s)

-----------------------------------------------------------------------------
(* upsert_open_incident *)

UpsertIncident(s) ==
  /\ pc[s] = "upsert"
  /\ \/ InsertOpen(s, cursor[s], time[s])
     \/ RefreshOpen(s, cursor[s], time[s])
  /\ UpsertNext(s, left[s] \ {cursor[s]})
  /\ UNCHANGED <<labVars, time, coll, resolved, now, samples, accepted>>

UpsertSuppressed(s) ==
  /\ pc[s] = "upsert"
  /\ SuppressUpsert(s, cursor[s], time[s])
  /\ pc' = [pc EXCEPT ![s] = "stale"]
  /\ UNCHANGED <<labVars, time, coll, left, cursor, resolved, now, samples, accepted>>

StaleRow(s) ==
  \E i \in OpenRows(s, cursor[s]) : ~AcceptsObservation(View(s, i), time[s])

(* The follow-up SELECT: ValueError("stale observation"), and by           *)
(* SuppressedMeansStale never the PersistenceError of the other branch.    *)
RejectStale(s) ==
  /\ pc[s] = "stale"
  /\ StaleRow(s)
  /\ Abort(s)

-----------------------------------------------------------------------------
(* _recover: get_open_by_fingerprint, then resolve. *)

RecoverNothing(s) ==
  /\ pc[s] = "recover"
  /\ \E f \in left[s] :
       /\ OpenRows(s, f) = {}
       /\ left' = [left EXCEPT ![s] = @ \ {f}]
       /\ pc' = [pc EXCEPT ![s] = RecoverNext(left[s] \ {f})]
  /\ UNCHANGED <<storeVars, labVars, time, coll, cursor, resolved, now, samples, accepted>>

RecoverFound(s) ==
  /\ pc[s] = "recover"
  /\ \E f \in left[s] : \E i \in OpenRows(s, f) :
       /\ time[s] >= View(s, i).seen
       /\ left' = [left EXCEPT ![s] = @ \ {f}]
       /\ cursor' = [cursor EXCEPT ![s] = i]
  /\ pc' = [pc EXCEPT ![s] = "resolve"]
  /\ UNCHANGED <<storeVars, labVars, time, coll, resolved, now, samples, accepted>>

(* ValueError: collected_at precedes the incident's last_seen_at. *)
RecoverStale(s) ==
  /\ pc[s] = "recover"
  /\ \E f \in left[s] : \E i \in OpenRows(s, f) : time[s] < View(s, i).seen
  /\ Abort(s)

(* resolve returned an incident resolved at t: a collection appends it to  *)
(* its report, an operator request returns it.                             *)
Resolved(s, t) ==
  /\ pc' = [pc EXCEPT ![s] = RecoverNext(left[s])]
  /\ resolved' = IF s \in CollectorSession
                 THEN [resolved EXCEPT ![s] = @ \cup {[incident |-> cursor[s], at |-> t]}]
                 ELSE resolved
  /\ UNCHANGED <<labVars, time, coll, left, cursor, now, samples, accepted>>

ResolveRow(s) ==
  /\ pc[s] = "resolve"
  /\ ResolveOpen(s, cursor[s], time[s])
  /\ Resolved(s, time[s])

ResolveMissed(s) ==
  /\ pc[s] = "resolve"
  /\ ResolveNothing(s, cursor[s], time[s])
  /\ pc' = [pc EXCEPT ![s] = "recheck"]
  /\ UNCHANGED <<labVars, time, coll, left, cursor, resolved, now, samples, accepted>>

(* The follow-up SELECT finds the incident RESOLVED by somebody else. *)
ResolvedByOther(s) ==
  /\ pc[s] = "recheck"
  /\ View(s, cursor[s]) # NoRow
  /\ View(s, cursor[s]).status = "RESOLVED"
  /\ Resolved(s, View(s, cursor[s]).resolved)
  /\ UNCHANGED storeVars

(* It finds it OPEN: ValueError, resolved_at precedes updated_at. *)
ResolveRejected(s) ==
  /\ pc[s] = "recheck"
  /\ IsOpen(View(s, cursor[s]))
  /\ Abort(s)

-----------------------------------------------------------------------------
(* Waiting, deadlock, loss of the process, time. *)

(* Whom the next statement of s waits for. *)
WaitsFor(s) ==
  CASE pc[s] = "save"    -> {labOwner} \ {Nobody}
    [] pc[s] = "upsert"  -> {owner[i] : i \in UpsertBlockers(s, cursor[s])}
    [] pc[s] = "resolve" -> {owner[i] : i \in ResolveBlockers(s, cursor[s], time[s])}
    [] OTHER -> {}

(* A set of sessions each of which waits for another one of the set. *)
WaitCycle(C) == C # {} /\ \A s \in C : WaitsFor(s) \cap C # {}

(* A cycle no session of which could be left out. *)
Deadlocked(s) ==
  \E C \in SUBSET Session :
    s \in C /\ WaitCycle(C) /\ \A D \in SUBSET C : WaitCycle(D) => D = C

(* PostgreSQL aborts one session of the cycle, whichever looks first. *)
DeadlockVictim(s) ==
  /\ Deadlocked(s)
  /\ Abort(s)

(* The process or its connection is lost: PostgreSQL rolls back. *)
Lost(s) ==
  /\ pc[s] # "idle"
  /\ Abort(s)

Tick ==
  /\ now < MaxTime
  /\ now' = now + 1
  /\ UNCHANGED <<storeVars, labVars, requestVars, samples, accepted>>

(* Nothing left to do within the bounds. *)
Quiescent ==
  /\ now = MaxTime /\ accepted = MaxRequests
  /\ \A s \in Session : pc[s] = "idle"
  /\ UNCHANGED vars

Accept(s) == BeginTelemetry(s) \/ BeginCollection(s) \/ BeginResolve(s)

Proceed(s) ==
  \/ SaveLatest(s) \/ SaveReplay(s) \/ SaveRejected(s)
  \/ UpsertIncident(s) \/ UpsertSuppressed(s) \/ RejectStale(s)
  \/ RecoverNothing(s) \/ RecoverFound(s) \/ RecoverStale(s)
  \/ ResolveRow(s) \/ ResolveMissed(s) \/ ResolvedByOther(s) \/ ResolveRejected(s)
  \/ Commit(s) \/ DeadlockVictim(s)

Next ==
  \/ \E s \in Session : Accept(s) \/ Proceed(s) \/ Lost(s)
  \/ Tick
  \/ Quiescent

Spec == Init /\ [][Next]_vars

(* Every thread that can run its next statement does, and the deadlock     *)
(* detector runs; nobody has to send requests or to crash.                 *)
FairSpec == Spec /\ \A s \in Session : WF_vars(Proceed(s))

-----------------------------------------------------------------------------
(* Safety. *)

(* A session between requests holds no lock and no uncommitted version:    *)
(* every exit of a handler, the failing ones included, ends the            *)
(* transaction.                                                            *)
IdleHoldsNothing ==
  /\ \A i \in Incident : owner[i] # Nobody => pc[owner[i]] # "idle"
  /\ labOwner # Nobody => pc[labOwner] # "idle"

(* When the conditional upsert affected no row, the follow-up read finds   *)
(* the incident still OPEN and last seen after the observation, whatever   *)
(* ran in between: the "unexpected persistence failure" branch of          *)
(* upsert_open_incident is dead.                                           *)
SuppressedMeansStale ==
  \A s \in Session : pc[s] = "stale" => StaleRow(s)

(* An accepted collection and its incidents become visible together: each  *)
(* neighbor failing in the stored latest state has an incident that was    *)
(* seen at its collected_at or later, resolved since or not.               *)
StoredFailuresHaveIncidents ==
  lab # NoState =>
    \A f \in lab.down : \E i \in Incident :
      table[i] # NoRow /\ table[i].fp = f /\ table[i].seen >= lab.time

(* A neighbor Established in the stored latest state has no OPEN incident  *)
(* that a collection saw last, only one that a telemetry sample did: the   *)
(* lab's row lock keeps the recovery of one collection from missing the    *)
(* incidents of another.                                                   *)
EstablishedHasNoOpenIncident ==
  lab # NoState =>
    \A f \in lab.up : \A i \in Incident : IsOpenFor(table[i], f) => table[i].seen \in samples

(* An incident that only telemetry raises was last seen at the time of a   *)
(* stored sample: no incident without the sample that shows it.            *)
TelemetryIncidentsHaveSamples ==
  \A i \in Incident :
    table[i] # NoRow /\ table[i].fp \notin BgpFingerprint => table[i].seen \in samples

(* Nothing of a request is visible without the rest of it. *)
StoredWhole == StoredFailuresHaveIncidents /\ TelemetryIncidentsHaveSamples

-----------------------------------------------------------------------------
(* What a step may never do. *)

(* The stored latest state of the lab never goes back in time, and two     *)
(* states of one instant never replace each other.                         *)
LatestStateAdvances ==
  [][lab' # lab => lab = NoState \/ lab'.time > lab.time]_vars

(* Committing a retry of the collection that is already stored changes no  *)
(* incident: a collection whose answer was lost is counted once.           *)
ReplayChangesNothing ==
  [][\A s \in CollectorSession :
       Commit(s) /\ coll[s] = lab => UNCHANGED table]_vars

-----------------------------------------------------------------------------
(* Refinement: committed incidents follow the lifecycle. *)

Lifecycle == INSTANCE IncidentLifecycle WITH incidents <- table

FollowsLifecycle == Lifecycle!Spec

-----------------------------------------------------------------------------
(* Liveness. *)

(* Every accepted request ends: no lock is waited for forever. *)
RequestsEnd == \A s \in Session : pc[s] # "idle" ~> pc[s] = "idle"

-----------------------------------------------------------------------------
(* What docs/adr/0003 says of a recovery: "resolved_at == updated_at ==    *)
(* the healthy fabric's collected_at".                                     *)
RecoveredAtCollection ==
  \A s \in CollectorSession : \A r \in resolved[s] : r.at = time[s]
=============================================================================
