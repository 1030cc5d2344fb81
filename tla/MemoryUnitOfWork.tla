-------------------------- MODULE MemoryUnitOfWork --------------------------
(***************************************************************************)
(* The in-memory unit of work: a private copy of the committed store, made *)
(* under publish_lock one collection after the other, repositories that    *)
(* change the copy, and a commit that publishes the whole copy, again one  *)
(* collection after the other under publish_lock.  Units run in threads of *)
(* their own.  Three of the seven collections are modelled, those that     *)
(* refer to each other; there is one rule per device, so that a device     *)
(* names a fingerprint.                                                    *)
(***************************************************************************)
EXTENDS Naturals, Sequences, FiniteSets

CONSTANTS
  Unit, Device, Snapshot, NoSnapshot, Free,
  MaxTime,       \* bound on observed_at
  MaxIncidents   \* bound on the incidents ever created

MemoryConstants ==
  /\ NoSnapshot \notin Snapshot /\ Free \notin Unit
  /\ MaxTime \in Nat \ {0} /\ MaxIncidents \in Nat

Time == 1..MaxTime
IncidentRow == [id : 1..MaxIncidents, device : Device, seen : Time,
                count : Nat \ {0}, open : BOOLEAN]
SnapshotRow == [id : Snapshot, device : Device]
DeviceRow == [id : Device, current : Snapshot \cup {NoSnapshot}]

(* The order in which _snapshot_committed_store and commit name them. *)
Collections == <<"devices", "snapshots", "incidents">>
EmptyStore == [c \in {"devices", "snapshots", "incidents"} |-> {}]

VARIABLES
  committed,  \* the committed store
  lock,       \* its publish_lock: a unit, or Free
  working,    \* the store of each unit
  pc,         \* "none" before construction, then "copy", "work" or "publish"
  step,       \* the collection a copy or a publication is at
  nextId,     \* incident ids are unique across units
  alone       \* no other unit has published since this one's last copy

vars == <<committed, lock, working, pc, step, nextId, alone>>

Init ==
  /\ committed = EmptyStore /\ lock = Free
  /\ working = [u \in Unit |-> EmptyStore]
  /\ pc = [u \in Unit |-> "none"]
  /\ step = [u \in Unit |-> 1]
  /\ nextId = 1
  /\ alone = [u \in Unit |-> FALSE]

-----------------------------------------------------------------------------
(* Construction of a unit, or rollback() of one. *)
StartCopy(u) ==
  /\ pc[u] \in {"none", "work"} /\ lock = Free
  /\ lock' = u
  /\ pc' = [pc EXCEPT ![u] = "copy"]
  /\ step' = [step EXCEPT ![u] = 1]
  /\ alone' = [alone EXCEPT ![u] = TRUE]
  /\ UNCHANGED <<committed, working, nextId>>

CopyNext(u) ==
  /\ pc[u] = "copy"
  /\ LET c == Collections[step[u]]
     IN working' = [working EXCEPT ![u] = [@ EXCEPT ![c] = committed[c]]]
  /\ IF step[u] = Len(Collections)
     THEN /\ pc' = [pc EXCEPT ![u] = "work"]
          /\ lock' = IF lock = u THEN Free ELSE lock
          /\ UNCHANGED step
     ELSE step' = [step EXCEPT ![u] = @ + 1] /\ UNCHANGED <<pc, lock>>
  /\ UNCHANGED <<committed, nextId, alone>>

StartPublish(u) ==
  /\ pc[u] = "work" /\ lock = Free
  /\ lock' = u
  /\ pc' = [pc EXCEPT ![u] = "publish"]
  /\ step' = [step EXCEPT ![u] = 1]
  /\ UNCHANGED <<committed, working, nextId, alone>>

PublishNext(u) ==
  /\ pc[u] = "publish"
  /\ LET c == Collections[step[u]]
     IN committed' = [committed EXCEPT ![c] = working[u][c]]
  /\ IF step[u] = Len(Collections)
     THEN /\ pc' = [pc EXCEPT ![u] = "work"]
          /\ lock' = Free
          /\ alone' = [w \in Unit |-> w = u]
          /\ UNCHANGED step
     ELSE step' = [step EXCEPT ![u] = @ + 1] /\ UNCHANGED <<pc, lock, alone>>
  /\ UNCHANGED <<working, nextId>>

(* close() does nothing; the unit's copy is forgotten. *)
Close(u) ==
  /\ pc[u] = "work"
  /\ pc' = [pc EXCEPT ![u] = "none"]
  /\ working' = [working EXCEPT ![u] = EmptyStore]
  /\ step' = [step EXCEPT ![u] = 1]
  /\ alone' = [alone EXCEPT ![u] = FALSE]
  /\ UNCHANGED <<committed, lock, nextId>>

-----------------------------------------------------------------------------
(* The repositories, on the unit's own copy.  Whatever they reject raises  *)
(* before anything is changed and is no step.                              *)
Known(u, d) == \E r \in working[u].devices : r.id = d

Change(u, c, rows) ==
  /\ pc[u] = "work"
  /\ working' = [working EXCEPT ![u] = [@ EXCEPT ![c] = rows]]
  /\ UNCHANGED <<committed, lock, pc, step, alone>>

SaveDevice(u, d, s) ==
  /\ s # NoSnapshot => \E r \in working[u].snapshots : r.id = s
  /\ \A r \in working[u].devices : r.id = d /\ r.current # NoSnapshot => s # NoSnapshot
  /\ Change(u, "devices", {r \in working[u].devices : r.id # d} \cup {[id |-> d, current |-> s]})
  /\ UNCHANGED nextId

AddSnapshot(u, s, d) ==
  /\ \A r \in working[u].snapshots : r.id # s
  /\ Known(u, d)
  /\ Change(u, "snapshots", working[u].snapshots \cup {[id |-> s, device |-> d]})
  /\ UNCHANGED nextId

OpenOf(u, d) == {i \in working[u].incidents : i.open /\ i.device = d}

(* Faulty variant: the device is not looked up. *)
UpsertUnchecked(u, d, t) ==
  \/ /\ OpenOf(u, d) = {} /\ nextId <= MaxIncidents
     /\ Change(u, "incidents", working[u].incidents \cup
          {[id |-> nextId, device |-> d, seen |-> t, count |-> 1, open |-> TRUE]})
     /\ nextId' = nextId + 1
  \/ \E i \in OpenOf(u, d) :
       /\ t >= i.seen
       /\ Change(u, "incidents", (working[u].incidents \ {i}) \cup
            {[i EXCEPT !.seen = t, !.count = @ + 1]})
       /\ UNCHANGED nextId

(* upsert_open_incident: a stale observation raises. *)
Upsert(u, d, t) ==
  \/ /\ OpenOf(u, d) = {} /\ Known(u, d) /\ nextId <= MaxIncidents
     /\ Change(u, "incidents", working[u].incidents \cup
          {[id |-> nextId, device |-> d, seen |-> t, count |-> 1, open |-> TRUE]})
     /\ nextId' = nextId + 1
  \/ \E i \in OpenOf(u, d) :
       /\ t >= i.seen
       /\ Change(u, "incidents", (working[u].incidents \ {i}) \cup
            {[i EXCEPT !.seen = t, !.count = @ + 1]})
       /\ UNCHANGED nextId

(* Faulty variant: an incident is resolved as it was first created. *)
ResolveAsCreated(u, i) ==
  /\ i \in working[u].incidents /\ i.open
  /\ Change(u, "incidents", (working[u].incidents \ {i}) \cup
       {[i EXCEPT !.open = FALSE, !.count = 1]})
  /\ UNCHANGED nextId

(* resolve: Incident.resolve keeps everything but the status. *)
Resolve(u, i) ==
  /\ i \in working[u].incidents /\ i.open
  /\ Change(u, "incidents", (working[u].incidents \ {i}) \cup {[i EXCEPT !.open = FALSE]})
  /\ UNCHANGED nextId

Next == \E u \in Unit :
  \/ StartCopy(u) \/ CopyNext(u) \/ StartPublish(u) \/ PublishNext(u) \/ Close(u)
  \/ \E d \in Device, s \in Snapshot \cup {NoSnapshot} : SaveDevice(u, d, s)
  \/ \E d \in Device, s \in Snapshot : AddSnapshot(u, s, d)
  \/ \E d \in Device, t \in Time : Upsert(u, d, t)
  \/ \E i \in working[u].incidents : Resolve(u, i)

Spec == Init /\ [][Next]_vars

-----------------------------------------------------------------------------
StoreType(st) ==
  /\ st.devices \subseteq DeviceRow
  /\ st.snapshots \subseteq SnapshotRow
  /\ st.incidents \subseteq IncidentRow

TypeOK ==
  /\ StoreType(committed)
  /\ lock \in Unit \cup {Free}
  /\ pc \in [Unit -> {"none", "copy", "work", "publish"}]
  /\ step \in [Unit -> 1..Len(Collections)]
  /\ nextId \in 1..MaxIncidents + 1
  /\ \A u \in Unit : StoreType(working[u]) /\ (pc[u] \in {"copy", "publish"} => lock = u)

(* What foreign keys give PostgreSQL: incidents and snapshots are of known *)
(* devices, and a device's current snapshot exists.                        *)
Referential(st) ==
  /\ \A r \in st.snapshots \cup st.incidents : \E d \in st.devices : d.id = r.device
  /\ \A d \in st.devices : d.current = NoSnapshot \/ \E r \in st.snapshots : r.id = d.current

(* No unit ever works on a hybrid of two publications, although both copy  *)
(* and publication go one collection at a time ("never observed mid-       *)
(* publish", docstring of unit_of_work.py).                                *)
NeverHybrid ==
  /\ lock = Free => Referential(committed)
  /\ \A u \in Unit : pc[u] = "work" => Referential(working[u])

(* Every incident committed before is still committed, and has lost no     *)
(* occurrence; what was resolved stays resolved.                           *)
KeepsHistory(old, new) ==
  \A i \in old : \E j \in new :
    j.id = i.id /\ j.count >= i.count /\ j.seen >= i.seen /\ (j.open => i.open)

(* Units that do not overlap lose nothing of each other.                   *)
AloneKeepsHistory ==
  [][\A u \in Unit : alone[u] /\ pc[u] = "publish" =>
       KeepsHistory(committed.incidents, committed'.incidents)]_vars

=============================================================================
