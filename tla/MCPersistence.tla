---------------------------- MODULE MCPersistence ----------------------------
(***************************************************************************)
(* Small instances of what reads and writes the stores besides incidents   *)
(* and devices: policy seeding, the telemetry history on both backends,    *)
(* and the in-memory unit of work.  Each has a store of its own, so one is *)
(* explored at a time while the others rest where they begin.              *)
(***************************************************************************)
EXTENDS PolicySeeding

CONSTANTS
  p1, p2, p3,
  Unit, Device, Snapshot, NoSnapshot, Free, MaxObserved, MaxIncidents,
  Session, Interface, Neighbor, Cpu, FlapCount, FlapWindow, MaxSampled,
  PeerState,   \* what the samples of an instance say of the BGP neighbors
  Readings, Window, Cap, MaxSamples, NoSample

VARIABLES
  part,  \* the one that is explored
  committed, lock, working, unitPc, step, nextId, alone,
  rows, inserted, nextSample, requestPc, sample, latest, history, memory, quiet, reported

unitVars == <<committed, lock, working, unitPc, step, nextId, alone>>
historyVars == <<rows, inserted, nextSample, requestPc, sample, latest, history, memory, quiet, reported>>
all == <<part, vars, unitVars, historyVars>>

(* Three processes, one of them built with another batch. *)
TwoVersions == [p \in Process |-> [i \in Policies |-> IF p = p3 /\ i = N THEN "other" ELSE "acl"]]

(* One load of the CPU and no links: rules are evaluated, but only the     *)
(* neighbors and the times of the samples differ.                          *)
PeerReadings == {[cpu |-> 0, links |-> [i \in Interface |-> "up"], bgp |-> b] : b \in [Neighbor -> PeerState]}

Units == INSTANCE MemoryUnitOfWork WITH MaxTime <- MaxObserved, pc <- unitPc

History == INSTANCE TelemetryHistory WITH
  MaxTime <- MaxSampled, NoRow <- NoSample, nextId <- nextSample, pc <- requestPc

ASSUME StoresAssumption ==
  Units!MemoryConstants /\ History!RuleConstants /\ History!HistoryConstants

Bounded == \A u \in DOMAIN working : \A i \in working[u].incidents : i.count <= 2

PersistenceInit == part \in {"seeding", "units", "history"} /\ Init /\ Units!Init /\ History!Init

Seeds(A) == part = "seeding" /\ A /\ UNCHANGED <<part, unitVars, historyVars>>
Works(A) == part = "units" /\ A /\ UNCHANGED <<part, vars, historyVars>>
Ingests(A) == part = "history" /\ A /\ UNCHANGED <<part, vars, unitVars>>

PersistenceNext == Seeds(Next) \/ Works(Units!Next) \/ Ingests(History!Next)

(* A started process runs its statements, and PostgreSQL queues those who  *)
(* wait for a row, so none is passed over for ever.  Nothing obliges a     *)
(* process to start.                                                       *)
PersistenceSpec ==
  /\ PersistenceInit /\ [][PersistenceNext]_all
  /\ \A p \in Process : SF_all(Seeds(Statement(p)))

-----------------------------------------------------------------------------
(* The stores are well formed: policies are one batch and no start met     *)
(* anything unexpected, and no unit of work has copied half of another's   *)
(* publication.                                                            *)
StoresConsistent ==
  /\ TypeOK /\ StoredIsOneBatch /\ RetryReconciles
  /\ Units!TypeOK /\ Units!NeverHybrid
  /\ History!TypeOK

(* Rules see the samples that count, in their order, on either backend.    *)
HistoryAsRetained ==
  History!BackendsAgree /\ History!EvaluatesRetained /\ History!EvaluationInPlace

(* A unit that no other overlaps takes nothing back. *)
AloneKeepsHistory == Units!AloneKeepsHistory

(* An outage between two consecutive samples is reported. *)
TransitionReported == History!TransitionReported
=============================================================================
