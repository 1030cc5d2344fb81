-------------------------- MODULE DeviceSubmissions --------------------------
(***************************************************************************)
(* The two services that write devices, running concurrently on            *)
(* PostgreSQL:                                                             *)
(*                                                                         *)
(*   submission    ConfigIngestionService.ingest: creates or updates a     *)
(*                 device, adds a snapshot, upserts an incident per policy *)
(*                 violation of the configuration;                         *)
(*   registration  RegisterLabDevicesService.register: creates the missing *)
(*                 lab routers.                                            *)
(*                                                                         *)
(* save reads the row, validates the transition against what it read and   *)
(* writes with a second statement: these are two steps, and what was read  *)
(* may be stale at the second.  The ORM keeps only weak references to      *)
(* unmodified rows, so save reads the row again although get_by_id has     *)
(* just read it.  The UPDATE writes the columns that differ from the row   *)
(* as read, whatever the row holds by then.                                *)
(*                                                                         *)
(* A snapshot is visible to nobody before the commit and its identifier is *)
(* fresh (uuid4), so adding it is no step of its own: the number of the    *)
(* request stands for it.  Its foreign key takes a share lock that does    *)
(* not conflict with the updates here, which change no key.                *)
(***************************************************************************)
EXTENDS IncidentStore, Sequences

CONSTANTS
  Device,
  LabRouters,         \* sequence of the fixed lab device ids
  SubmitVendor,       \* vendors that have a configuration adapter
  FRR,                \* the vendor of lab routers
  PolicyFingerprint,  \* for each device, the fingerprints of its violations
  SubmitSession, RegisterSession,
  NoDevice,           \* no such row
  MaxRequests         \* bound on the requests ever accepted

ASSUME DeviceAssumption ==
  /\ LabRouters \in Seq(Device) \ {<<>>}
  /\ FRR \notin SubmitVendor
  /\ PolicyFingerprint \in [Device -> SUBSET Fingerprint]
  /\ Session = SubmitSession \cup RegisterSession
  /\ SubmitSession \cap RegisterSession = {}
  /\ MaxRequests \in Nat \ {0}

Vendor == SubmitVendor \cup {FRR}
SnapshotId == 1..MaxRequests

(* current = 0 and baseline = 0 stand for NULL. *)
DeviceRow == [vendor   : Vendor,
              current  : SnapshotId \cup {0},
              baseline : SnapshotId \cup {0},
              created  : Time,
              updated  : Time]

ASSUME NoDeviceAssumption == NoDevice \notin DeviceRow

Snapshot == [id : SnapshotId, device : Device, vendor : SubmitVendor, at : Time]

(* What a request in flight carries: its number, the device it is at, its  *)
(* vendor and observed_at, the rows get_by_id and save read, the routers   *)
(* still to check or save, those found missing, the violations to upsert.  *)
Request == [id : SnapshotId, device : Device, vendor : Vendor, time : Time,
            found : DeviceRow \cup {NoDevice}, loaded : DeviceRow \cup {NoDevice},
            todo : Seq(Device), missing : Seq(Device), left : SUBSET Fingerprint]

VARIABLES
  now,        \* the clock
  devices,    \* the committed row of each device
  devDirty,   \* the uncommitted row of each locked device, NoDevice otherwise
  devOwner,   \* the session that holds the lock of each row, or Nobody
  snapshots,  \* the committed snapshots
  pc,         \* the statement each session runs next
  req,        \* the request of each session
  accepted    \* number of requests accepted so far

devVars == <<devices, devDirty, devOwner>>
vars == <<storeVars, devVars, now, snapshots, pc, req, accepted>>

Step == {"idle", "lookup", "check", "validate", "write", "raised", "upsert", "commit"}

NoRequest == [id |-> 1, device |-> LabRouters[1], vendor |-> FRR, time |-> 1,
              found |-> NoDevice, loaded |-> NoDevice,
              todo |-> <<>>, missing |-> <<>>, left |-> {}]

TypeOK ==
  /\ StoreTypeOK
  /\ now \in Time
  /\ devices \in [Device -> DeviceRow \cup {NoDevice}]
  /\ devDirty \in [Device -> DeviceRow \cup {NoDevice}]
  /\ devOwner \in [Device -> Session \cup {Nobody}]
  /\ snapshots \subseteq Snapshot
  /\ pc \in [Session -> Step]
  /\ req \in [Session -> Request]
  /\ accepted \in 0..MaxRequests
  /\ \A s \in SubmitSession : pc[s] # "idle" => req[s].vendor \in SubmitVendor

Init ==
  /\ StoreInit
  /\ now = 1
  /\ devices = [d \in Device |-> NoDevice]
  /\ devDirty = [d \in Device |-> NoDevice]
  /\ devOwner = [d \in Device |-> Nobody]
  /\ snapshots = {}
  /\ pc = [s \in Session |-> "idle"]
  /\ req = [s \in Session |-> NoRequest]
  /\ accepted = 0

-----------------------------------------------------------------------------
(* Rows and locks. *)

DeviceView(s, d) == IF devOwner[d] = s THEN devDirty[d] ELSE devices[d]

DeviceLocked(s, d) == devOwner[d] \notin {s, Nobody}

WriteDevice(s, d, r) ==
  /\ devDirty' = [devDirty EXCEPT ![d] = r]
  /\ devOwner' = [devOwner EXCEPT ![d] = s]
  /\ UNCHANGED devices

(* _validate_transition *)
ValidTransition(old, new) ==
  /\ new.vendor = old.vendor
  /\ new.created = old.created
  /\ new.updated >= old.updated
  /\ old.baseline # 0 => new.baseline = old.baseline
  /\ old.current # 0 => new.current # 0

(* The Device a request passes to its first save: without snapshots when   *)
(* get_by_id found no row.                                                 *)
Candidate(r) ==
  IF r.found = NoDevice
  THEN [vendor |-> r.vendor, current |-> 0, baseline |-> 0,
        created |-> r.time, updated |-> r.time]
  ELSE [vendor |-> r.vendor, current |-> r.id, baseline |-> r.found.baseline,
        created |-> r.found.created, updated |-> r.time]

-----------------------------------------------------------------------------
(* Requests begin and end. *)

Begin(s, first, r) ==
  /\ pc[s] = "idle"
  /\ accepted < MaxRequests
  /\ accepted' = accepted + 1
  /\ pc' = [pc EXCEPT ![s] = first]
  /\ req' = [req EXCEPT ![s] = r]
  /\ UNCHANGED <<storeVars, devVars, now, snapshots>>

(* The configuration has been parsed; its violations are known once it is  *)
(* evaluated, and are chosen here.                                         *)
BeginSubmission(s) ==
  /\ s \in SubmitSession
  /\ \E d \in Device, v \in SubmitVendor : \E fps \in SUBSET PolicyFingerprint[d] :
       Begin(s, "lookup", [NoRequest EXCEPT !.id = accepted + 1, !.device = d,
                             !.vendor = v, !.time = now, !.left = fps])

BeginRegistration(s) ==
  /\ s \in RegisterSession
  /\ Begin(s, "check", [NoRequest EXCEPT !.id = accepted + 1, !.time = now, !.todo = LabRouters])

EndRequest(s) ==
  /\ pc' = [pc EXCEPT ![s] = "idle"]
  /\ req' = [req EXCEPT ![s] = NoRequest]
  /\ UNCHANGED <<now, accepted>>

ReleaseDevices(s) ==
  /\ devDirty' = [d \in Device |-> IF devOwner[d] = s THEN NoDevice ELSE devDirty[d]]
  /\ devOwner' = [d \in Device |-> IF devOwner[d] = s THEN Nobody ELSE devOwner[d]]

(* Faulty variant: a failed request keeps its row locks. *)
AbortLeaking(s) ==
  /\ StoreRollback(s)
  /\ EndRequest(s)
  /\ UNCHANGED <<devices, snapshots, devDirty, devOwner>>

(* Roll back and close, then the exception goes to the caller. *)
Abort(s) ==
  /\ StoreRollback(s)
  /\ ReleaseDevices(s)
  /\ EndRequest(s)
  /\ UNCHANGED <<devices, snapshots>>

(* Faulty variant: every request stores a snapshot, registrations too. *)
CommitSnapshotAlways(s) ==
  /\ pc[s] = "commit"
  /\ StoreCommit(s)
  /\ devices' = [d \in Device |-> DeviceView(s, d)]
  /\ ReleaseDevices(s)
  /\ snapshots' = snapshots \cup {[id |-> req[s].id, device |-> req[s].device,
                                   vendor |-> req[s].vendor, at |-> req[s].time]}
  /\ EndRequest(s)

(* Faulty variant: the commit does not cover the snapshot. *)
CommitWithoutSnapshot(s) ==
  /\ pc[s] = "commit"
  /\ StoreCommit(s)
  /\ devices' = [d \in Device |-> DeviceView(s, d)]
  /\ ReleaseDevices(s)
  /\ EndRequest(s)
  /\ UNCHANGED snapshots

Commit(s) ==
  /\ pc[s] = "commit"
  /\ StoreCommit(s)
  /\ devices' = [d \in Device |-> DeviceView(s, d)]
  /\ ReleaseDevices(s)
  /\ snapshots' = IF s \in SubmitSession
                  THEN snapshots \cup {[id |-> req[s].id, device |-> req[s].device,
                                        vendor |-> req[s].vendor, at |-> req[s].time]}
                  ELSE snapshots
  /\ EndRequest(s)

-----------------------------------------------------------------------------
(* Reads. *)

Goto(s, step, r) ==
  /\ pc' = [pc EXCEPT ![s] = step]
  /\ req' = [req EXCEPT ![s] = r]
  /\ UNCHANGED <<now, snapshots, accepted>>

(* get_by_id of a submission *)
Lookup(s) ==
  /\ pc[s] = "lookup"
  /\ Goto(s, "validate", [req[s] EXCEPT !.found = DeviceView(s, req[s].device)])
  /\ UNCHANGED <<storeVars, devVars>>

(* Move a registration on to the save of its next missing router. *)
GotoNextRouter(s, r) ==
  IF r.missing = <<>>
  THEN Goto(s, "commit", r)
  ELSE Goto(s, "validate", [r EXCEPT !.device = Head(r.missing), !.missing = Tail(r.missing)])

(* Faulty variant: whatever exists counts as registered. *)
RegisteredWhateverVendor(row) == row # NoDevice

(* _check_existing *)
RegisteredRouter(row) ==
  row # NoDevice /\ row.vendor = FRR /\ row.current = 0 /\ row.baseline = 0

(* The check of the next router, when it is missing or registered. *)
CheckRouter(s) ==
  /\ pc[s] = "check"
  /\ LET d == Head(req[s].todo)
         row == DeviceView(s, d)
         r == [req[s] EXCEPT !.todo = Tail(@),
                             !.missing = IF row = NoDevice THEN Append(@, d) ELSE @]
     IN /\ row = NoDevice \/ RegisteredRouter(row)
        /\ IF r.todo = <<>> THEN GotoNextRouter(s, r) ELSE Goto(s, "check", r)
  /\ UNCHANGED <<storeVars, devVars>>

(* LabDeviceConflictError *)
CheckConflict(s) ==
  /\ pc[s] = "check"
  /\ LET row == DeviceView(s, Head(req[s].todo))
     IN row # NoDevice /\ ~RegisteredRouter(row)
  /\ Abort(s)

(* save reads the row once more and validates. *)
Validate(s) ==
  /\ pc[s] = "validate"
  /\ LET row == DeviceView(s, req[s].device)
     IN /\ row # NoDevice => ValidTransition(row, Candidate(req[s]))
        /\ Goto(s, "write", [req[s] EXCEPT !.loaded = row])
  /\ UNCHANGED <<storeVars, devVars>>

(* DeviceConflictError, or the ValueError of the Device constructor when   *)
(* the observation precedes created_at.                                    *)
ValidateConflict(s) ==
  /\ pc[s] = "validate"
  /\ LET row == DeviceView(s, req[s].device)
     IN row # NoDevice /\ ~ValidTransition(row, Candidate(req[s]))
  /\ Abort(s)

-----------------------------------------------------------------------------
(* Writes. *)

(* What follows the write of a device: the violations of a submission, the *)
(* next router of a registration.                                          *)
AfterWrite(s) ==
  IF s \in RegisterSession
  THEN GotoNextRouter(s, [req[s] EXCEPT !.loaded = NoDevice])
  ELSE Goto(s, IF req[s].left = {} THEN "commit" ELSE "upsert", req[s])

(* The row as it is after the second save of a first submission, which     *)
(* sets the snapshots of the row just inserted.                            *)
Inserted(s) ==
  LET snapshot == IF s \in SubmitSession THEN req[s].id ELSE 0
  IN [vendor |-> req[s].vendor, current |-> snapshot, baseline |-> snapshot,
      created |-> req[s].time, updated |-> req[s].time]

(* Faulty variant: the insert overwrites a row that appeared meanwhile. *)
InsertOrReplaceDevice(s) ==
  /\ pc[s] = "write" /\ req[s].loaded = NoDevice
  /\ ~DeviceLocked(s, req[s].device)
  /\ WriteDevice(s, req[s].device, Inserted(s))
  /\ AfterWrite(s)
  /\ UNCHANGED storeVars

InsertDevice(s) ==
  /\ pc[s] = "write" /\ req[s].loaded = NoDevice
  /\ ~DeviceLocked(s, req[s].device)
  /\ DeviceView(s, req[s].device) = NoDevice
  /\ WriteDevice(s, req[s].device, Inserted(s))
  /\ AfterWrite(s)
  /\ UNCHANGED storeVars

(* The primary key is taken: the flush raises IntegrityError.              *)
InsertDuplicate(s) ==
  /\ pc[s] = "write" /\ req[s].loaded = NoDevice
  /\ ~DeviceLocked(s, req[s].device)
  /\ DeviceView(s, req[s].device) # NoDevice
  /\ Goto(s, "raised", req[s])
  /\ UNCHANGED <<storeVars, devVars>>

(* Nothing translates it on its way through the service.                   *)
Reraise(s) ==
  /\ pc[s] = "raised"
  /\ Abort(s)

(* The columns that differ from the row as read are set; the others keep   *)
(* what the row holds now.                                                 *)
Updated(r, row) ==
  [row EXCEPT !.current = IF Candidate(r).current # r.loaded.current
                          THEN Candidate(r).current ELSE @,
              !.baseline = IF Candidate(r).baseline # r.loaded.baseline
                           THEN Candidate(r).baseline ELSE @,
              !.updated = IF r.time # r.loaded.updated THEN r.time ELSE @]

UpdateDevice(s) ==
  /\ pc[s] = "write" /\ req[s].loaded # NoDevice
  /\ LET d == req[s].device
     IN \/ /\ Updated(req[s], req[s].loaded) = req[s].loaded  \* no statement
           /\ UNCHANGED devVars
        \/ /\ Updated(req[s], req[s].loaded) # req[s].loaded
           /\ ~DeviceLocked(s, d)
           /\ WriteDevice(s, d, Updated(req[s], DeviceView(s, d)))
  /\ AfterWrite(s)
  /\ UNCHANGED storeVars

(* upsert_open_incident for one violation, in the order of the policies *)
UpsertIncident(s) ==
  /\ pc[s] = "upsert"
  /\ \E f \in req[s].left :
       /\ InsertOpen(s, f, req[s].time) \/ RefreshOpen(s, f, req[s].time)
       /\ LET rest == req[s].left \ {f}
          IN Goto(s, IF rest = {} THEN "commit" ELSE "upsert", [req[s] EXCEPT !.left = rest])
  /\ UNCHANGED devVars

(* ValueError: stale observation.  Upsert and follow-up read are one step: *)
(* the row stays locked in between.                                        *)
UpsertStale(s) ==
  /\ pc[s] = "upsert"
  /\ \E f \in req[s].left : \E i \in OpenRows(s, f) :
       UpsertBlockers(s, f) = {} /\ ~AcceptsObservation(View(s, i), req[s].time)
  /\ Abort(s)

-----------------------------------------------------------------------------
(* Waiting, loss of the process, time. *)

Lost(s) ==
  /\ pc[s] # "idle"
  /\ Abort(s)

Tick ==
  /\ now < MaxTime
  /\ now' = now + 1
  /\ UNCHANGED <<storeVars, devVars, snapshots, pc, req, accepted>>

Quiescent ==
  /\ now = MaxTime /\ accepted = MaxRequests
  /\ \A s \in Session : pc[s] = "idle"
  /\ UNCHANGED vars

Accept(s) == BeginSubmission(s) \/ BeginRegistration(s)

Proceed(s) ==
  \/ Lookup(s) \/ CheckRouter(s) \/ CheckConflict(s)
  \/ Validate(s) \/ ValidateConflict(s)
  \/ InsertDevice(s) \/ InsertDuplicate(s) \/ Reraise(s) \/ UpdateDevice(s)
  \/ UpsertIncident(s) \/ UpsertStale(s) \/ Commit(s)

Next ==
  \/ \E s \in Session : Accept(s) \/ Proceed(s) \/ Lost(s)
  \/ Tick
  \/ Quiescent

Spec == Init /\ [][Next]_vars

(* Every thread that can run its next statement does. *)
FairSpec == Spec /\ \A s \in Session : WF_vars(Proceed(s))

-----------------------------------------------------------------------------
(* Safety. *)

(* The snapshots a device refers to are stored, belong to it and have its  *)
(* vendor, lab routers never get any, and no stored snapshot has another   *)
(* vendor than its device: what the losers of a race wrote is gone.        *)
SnapshotsMatchDevices ==
  /\ \A d \in Device : devices[d] # NoDevice =>
       \A id \in {devices[d].current, devices[d].baseline} :
         IF id = 0 THEN devices[d].vendor = FRR
                   ELSE \E n \in snapshots : n.id = id /\ n.device = d
  /\ \A n \in snapshots : devices[n.device] # NoDevice
                          /\ devices[n.device].vendor = n.vendor

(* The lab routers are registered together or not at all, whatever         *)
(* submissions and other registrations run meanwhile.                      *)
LabRegisteredTogether ==
  (\E d \in Device : devices[d] # NoDevice /\ devices[d].vendor = FRR) =>
     \A k \in DOMAIN LabRouters :
       devices[LabRouters[k]] # NoDevice /\ devices[LabRouters[k]].vendor = FRR

(* A policy incident was last seen in a stored snapshot of its device.     *)
PolicyIncidentsHaveSnapshots ==
  \A i \in Incident : table[i] # NoRow =>
    \E n \in snapshots :
      table[i].fp \in PolicyFingerprint[n.device] /\ table[i].seen = n.at

(* A submission is stored whole, and so is a registration. *)
StoredWhole == SnapshotsMatchDevices /\ PolicyIncidentsHaveSnapshots

-----------------------------------------------------------------------------
(* What a step may never do. *)

(* A device is never removed, and its vendor, its created_at and its       *)
(* baseline never change, even when two first submissions race.            *)
DeviceIdentityFixed ==
  [][\A d \in Device : devices[d] # NoDevice =>
       /\ devices'[d] # NoDevice
       /\ devices'[d].vendor = devices[d].vendor
       /\ devices'[d].created = devices[d].created
       /\ devices'[d].baseline = devices[d].baseline]_vars

-----------------------------------------------------------------------------
(* Liveness. *)

(* Every accepted request ends, without any deadlock detector.             *)
RequestsEnd == \A s \in Session : pc[s] # "idle" ~> pc[s] = "idle"

-----------------------------------------------------------------------------
(* What the sources say and concurrent requests refute. *)

(* device_repository.py and errors.py: a regression of updated_at is       *)
(* rejected as a DeviceConflictError.                                      *)
UpdatedAtAdvances ==
  [][\A d \in Device : devices[d] # NoDevice =>
       devices'[d].updated >= devices[d].updated]_vars

(* persistence/errors.py: repositories never leak an IntegrityError.       *)
NoIntegrityErrorEscapes == \A s \in Session : pc[s] # "raised"
=============================================================================
