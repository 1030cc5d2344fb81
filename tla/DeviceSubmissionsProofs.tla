----------------------- MODULE DeviceSubmissionsProofs -----------------------
(***************************************************************************)
(* Theorems about the services that write devices, for any number of       *)
(* sessions, devices, lab routers and fingerprints and any bounds.         *)
(***************************************************************************)
EXTENDS DeviceSubmissions, IncidentStoreProofs

(* A row of a lab router has no snapshots, any other has both. *)
Formed(r) == /\ r.vendor = FRR <=> r.baseline = 0
             /\ r.vendor = FRR <=> r.current = 0

(* new is a later version of the row old. *)
Continues(old, new) ==
  /\ new # NoDevice
  /\ new.vendor = old.vendor /\ new.created = old.created /\ new.baseline = old.baseline

(* The rows and their versions. *)
DeviceRows == \A d \in Device :
  /\ devOwner[d] = Nobody <=> devDirty[d] = NoDevice
  /\ devices[d] # NoDevice => Formed(devices[d])
  /\ devDirty[d] # NoDevice => Formed(devDirty[d])
  /\ devices[d] # NoDevice /\ devDirty[d] # NoDevice => Continues(devices[d], devDirty[d])

HasSnapshot(d, id) == \E n \in snapshots : n.id = id /\ n.device = d

(* The rows a session has written have its vendor and refer to snapshots   *)
(* that are stored or are its own; a submission has written its device     *)
(* only.                                                                   *)
OwnDevices(s) == \A d \in Device : devOwner[d] = s =>
  /\ pc[s] # "idle" /\ devDirty[d].vendor = req[s].vendor
  /\ s \in SubmitSession => d = req[s].device /\ pc[s] \in {"upsert", "commit"}
  /\ \A id \in {devDirty[d].current, devDirty[d].baseline} :
       id = 0 \/ (id = req[s].id /\ s \in SubmitSession) \/ HasSnapshot(d, id)

(* The two kinds of requests. *)
Kind(s) == pc[s] # "idle" =>
  /\ s \in RegisterSession => /\ req[s].vendor = FRR /\ req[s].found = NoDevice
                              /\ pc[s] \notin {"lookup", "upsert"}
  /\ s \in SubmitSession => /\ req[s].vendor \in SubmitVendor /\ pc[s] # "check"
                            /\ req[s].left \subseteq PolicyFingerprint[req[s].device]

(* The row save has read is still there, with the vendor, the creation and *)
(* the baseline the request is about to write.                             *)
ReadRow(s) == pc[s] = "write" /\ req[s].loaded # NoDevice =>
  /\ Continues(req[s].loaded, DeviceView(s, req[s].device))
  /\ Formed(req[s].loaded) /\ req[s].loaded.vendor = req[s].vendor
  /\ Candidate(req[s]).baseline = req[s].loaded.baseline
  /\ Candidate(req[s]).current = 0 <=> req[s].loaded.current = 0

(* A submission that has saved its device sees it with its vendor. *)
Saved(s) == s \in SubmitSession /\ pc[s] \in {"upsert", "commit"} =>
  /\ DeviceView(s, req[s].device) # NoDevice
  /\ DeviceView(s, req[s].device).vendor = req[s].vendor

Elements(seq) == {seq[k] : k \in DOMAIN seq}

(* A registration still has to check or to save a router, or sees it       *)
(* registered.                                                             *)
ToRegister(s) ==
  Elements(req[s].todo) \cup Elements(req[s].missing)
    \cup IF pc[s] \in {"validate", "write"} THEN {req[s].device} ELSE {}

Routers(s) == s \in RegisterSession /\ pc[s] \notin {"idle", "raised"} =>
  /\ pc[s] = "check" <=> req[s].todo # <<>>
  /\ pc[s] = "commit" => req[s].missing = <<>>
  /\ \A d \in Elements(LabRouters) \ ToRegister(s) :
       DeviceView(s, d) # NoDevice /\ DeviceView(s, d).vendor = FRR

SessionInvariant(s) == OwnDevices(s) /\ Kind(s) /\ ReadRow(s) /\ Saved(s) /\ Routers(s)

(* An uncommitted incident is one of the violations of its submission. *)
OwnIncidents == \A i \in Incident : dirty[i] # NoRow =>
  /\ owner[i] \in SubmitSession /\ pc[owner[i]] \in {"upsert", "commit"}
  /\ dirty[i].fp \in PolicyFingerprint[req[owner[i]].device]
  /\ dirty[i].seen = req[owner[i]].time

IInv ==
  /\ TypeOK /\ StoreInvariant
  /\ DeviceRows /\ \A s \in Session : SessionInvariant(s)
  /\ OwnIncidents
  /\ SnapshotsMatchDevices /\ PolicyIncidentsHaveSnapshots /\ LabRegisteredTogether

-----------------------------------------------------------------------------
(* Sequences of routers, and what a session sees. *)

LEMMA FirstAndRest ==
  ASSUME NEW S, NEW seq \in Seq(S), seq # <<>>
  PROVE  /\ Head(seq) \in S /\ Tail(seq) \in Seq(S)
         /\ Elements(seq) \subseteq {Head(seq)} \cup Elements(Tail(seq))
<1>1. Head(seq) \in S /\ Tail(seq) \in Seq(S) /\ Len(seq) \in Nat \ {0}
      /\ Head(seq) = seq[1] /\ DOMAIN seq = 1..Len(seq)
  OBVIOUS
<1>2. Len(Tail(seq)) = Len(seq) - 1 /\ DOMAIN Tail(seq) = 1..Len(seq) - 1
      /\ \A k \in 1..Len(seq) - 1 : Tail(seq)[k] = seq[k + 1]
  OBVIOUS
<1>3. ASSUME NEW k \in DOMAIN seq, k # 1 PROVE seq[k] \in Elements(Tail(seq))
  <2>1. k - 1 \in DOMAIN Tail(seq) /\ Tail(seq)[k - 1] = seq[k]
    BY <1>1, <1>2, <1>3
  <2> QED BY <2>1 DEF Elements
<1> QED BY <1>1, <1>3 DEF Elements

LEMMA OneMore ==
  ASSUME NEW S, NEW seq \in Seq(S), NEW e \in S
  PROVE  /\ Append(seq, e) \in Seq(S)
         /\ Elements(seq) \cup {e} \subseteq Elements(Append(seq, e))
<1>1. Append(seq, e) \in Seq(S) /\ DOMAIN seq = 1..Len(seq) /\ Len(seq) \in Nat
      /\ DOMAIN Append(seq, e) = 1..Len(seq) + 1 /\ Append(seq, e)[Len(seq) + 1] = e
      /\ \A k \in 1..Len(seq) : Append(seq, e)[k] = seq[k]
  OBVIOUS
<1> QED BY <1>1 DEF Elements

LEMMA Nothing == Elements(<<>>) = {}
BY DEF Elements

LEMMA ViewOfDevice ==
  ASSUME TypeOK, DeviceRows, NEW s \in Session, NEW d \in Device
  PROVE  /\ DeviceView(s, d) \in DeviceRow \cup {NoDevice}
         /\ DeviceView(s, d) # NoDevice => DeviceView(s, d) \in DeviceRow /\ Formed(DeviceView(s, d))
         /\ devices[d] # NoDevice => Continues(devices[d], DeviceView(s, d))
         /\ devOwner[d] = s => devDirty[d] # NoDevice
         /\ ~DeviceLocked(s, d) /\ devOwner[d] # s => devOwner[d] = Nobody
BY NobodyAssumption DEF TypeOK, DeviceRows, DeviceView, Continues, DeviceLocked

(* A session keeps its invariant while others move, as long as its own     *)
(* rows are left alone and what it sees is at most continued.              *)
LEMMA OthersKeep ==
  ASSUME NEW q \in Session, TypeOK, SessionInvariant(q),
         pc'[q] = pc[q], req'[q] = req[q], snapshots \subseteq snapshots',
         \A d \in Device : devOwner'[d] = q => devOwner[d] = q /\ devDirty'[d] = devDirty[d],
         \A d \in Device : DeviceView(q, d) # NoDevice => Continues(DeviceView(q, d), DeviceView(q, d)')
  PROVE  SessionInvariant(q)'
<1>1. OwnDevices(q)'
  BY DEF SessionInvariant, OwnDevices, HasSnapshot
<1>2. Kind(q)'
  BY DEF SessionInvariant, Kind
<1>3. req[q].device \in Device
  BY DEF TypeOK, Request
<1>4. ReadRow(q)'
  <2> SUFFICES ASSUME pc[q] = "write", req[q].loaded # NoDevice
               PROVE  Continues(req[q].loaded, DeviceView(q, req[q].device)')
    BY DEF SessionInvariant, ReadRow, Candidate
  <2>1. Continues(req[q].loaded, DeviceView(q, req[q].device))
    BY DEF SessionInvariant, ReadRow
  <2> QED BY <1>3, <2>1 DEF Continues
<1>5. Saved(q)'
  <2> SUFFICES ASSUME q \in SubmitSession, pc[q] \in {"upsert", "commit"}
               PROVE  /\ DeviceView(q, req[q].device)' # NoDevice
                      /\ DeviceView(q, req[q].device)'.vendor = req[q].vendor
    BY DEF Saved
  <2> QED BY <1>3 DEF SessionInvariant, Saved, Continues
<1>6. Routers(q)'
  <2> SUFFICES ASSUME q \in RegisterSession, pc[q] \notin {"idle", "raised"},
                      NEW d \in Elements(LabRouters) \ ToRegister(q)
               PROVE  DeviceView(q, d)' # NoDevice /\ DeviceView(q, d)'.vendor = FRR
    BY DEF SessionInvariant, Routers, ToRegister
  <2>1. d \in Device
    BY DeviceAssumption DEF Elements
  <2> QED BY <2>1 DEF SessionInvariant, Routers, Continues
<1> QED BY <1>1, <1>2, <1>4, <1>5, <1>6 DEF SessionInvariant

LEMMA GotoType ==
  ASSUME TypeOK, NEW s \in Session, NEW step \in Step, NEW r \in Request, Goto(s, step, r),
         StoreTypeOK', s \in SubmitSession => r.vendor \in SubmitVendor,
         devDirty' \in [Device -> DeviceRow \cup {NoDevice}],
         devOwner' \in [Device -> Session \cup {Nobody}], UNCHANGED devices
  PROVE  /\ TypeOK'
         /\ pc'[s] = step /\ req'[s] = r
         /\ \A q \in Session \ {s} : pc'[q] = pc[q] /\ req'[q] = req[q]
BY DEF TypeOK, Goto

-----------------------------------------------------------------------------
(* Moves that write nothing. *)
LEMMA QuietMove ==
  ASSUME IInv, NEW s \in Session, NEW step \in Step \ {"idle"}, NEW r \in Request,
         Goto(s, step, r), UNCHANGED <<storeVars, devVars>>,
         pc[s] \notin {"idle", "upsert", "commit"},
         r.vendor = req[s].vendor, r.id = req[s].id,
         Kind(s)', ReadRow(s)', Saved(s)', Routers(s)'
  PROVE  IInv'
<1>1. StoreInvariant'
  BY StoreStepInvariant DEF IInv
<1>2. s \in SubmitSession => r.vendor \in SubmitVendor
  BY DEF IInv, TypeOK
<1>3. /\ TypeOK' /\ pc'[s] = step /\ req'[s] = r
      /\ \A q \in Session \ {s} : pc'[q] = pc[q] /\ req'[q] = req[q]
  BY <1>1, <1>2, GotoType DEF IInv, TypeOK, StoreInvariant, devVars
<1>4. DeviceRows' /\ SnapshotsMatchDevices' /\ PolicyIncidentsHaveSnapshots' /\ LabRegisteredTogether'
  BY DEF IInv, DeviceRows, SnapshotsMatchDevices, PolicyIncidentsHaveSnapshots,
         LabRegisteredTogether, Goto, storeVars, devVars
<1>5. OwnDevices(s)'
  BY <1>3 DEF IInv, SessionInvariant, OwnDevices, HasSnapshot, Goto, devVars
<1>6. ASSUME NEW q \in Session, q # s PROVE SessionInvariant(q)'
  <2>1. \A d \in Device : DeviceView(q, d)' = DeviceView(q, d)
    BY DEF DeviceView, devVars
  <2> QED BY <1>3, <1>6, <2>1, OthersKeep DEF IInv, Continues, Goto, devVars
<1>7. OwnIncidents'
  <2> SUFFICES ASSUME NEW i \in Incident, dirty[i] # NoRow
               PROVE  /\ owner[i] \in SubmitSession /\ pc'[owner[i]] \in {"upsert", "commit"}
                      /\ dirty[i].fp \in PolicyFingerprint[req'[owner[i]].device]
                      /\ dirty[i].seen = req'[owner[i]].time
    BY DEF OwnIncidents, storeVars
  <2>1. owner[i] \in Session \ {s}
    BY DeviceAssumption DEF IInv, OwnIncidents
  <2> QED BY <1>3, <2>1 DEF IInv, OwnIncidents
<1> QED BY <1>1, <1>3, <1>4, <1>5, <1>6, <1>7 DEF IInv, SessionInvariant

(* An INSERT or UPDATE of the device the request is at. *)
LEMMA DeviceWrite ==
  ASSUME IInv, NEW s \in Session, NEW step \in Step \ {"idle"}, NEW r \in Request,
         NEW d \in Device, NEW row \in DeviceRow,
         Goto(s, step, r), WriteDevice(s, d, row), UNCHANGED storeVars,
         pc[s] = "write", d = req[s].device, ~DeviceLocked(s, d),
         Formed(row), row.vendor = req[s].vendor,
         DeviceView(s, d) # NoDevice => Continues(DeviceView(s, d), row),
         \A id \in {row.current, row.baseline} :
           id = 0 \/ (id = req[s].id /\ s \in SubmitSession) \/ HasSnapshot(d, id),
         s \in SubmitSession => step \in {"upsert", "commit"} /\ r.device = d,
         r.vendor = req[s].vendor, r.id = req[s].id,
         Kind(s)', ReadRow(s)', Saved(s)', Routers(s)'
  PROVE  IInv'
<1>1. StoreInvariant'
  BY StoreStepInvariant DEF IInv
<1>2. s \in SubmitSession => r.vendor \in SubmitVendor
  BY DEF IInv, TypeOK
<1>3. /\ TypeOK' /\ pc'[s] = step /\ req'[s] = r
      /\ \A q \in Session \ {s} : pc'[q] = pc[q] /\ req'[q] = req[q]
  BY <1>1, <1>2, GotoType DEF IInv, TypeOK, StoreInvariant, WriteDevice
<1>4. /\ devices' = devices /\ snapshots' = snapshots /\ row # NoDevice
      /\ devDirty'[d] = row /\ devOwner'[d] = s
      /\ \A e \in Device \ {d} : devDirty'[e] = devDirty[e] /\ devOwner'[e] = devOwner[e]
  BY NoDeviceAssumption DEF IInv, TypeOK, WriteDevice, Goto
<1>5. devOwner[d] \in {s, Nobody}
  BY DEF DeviceLocked
<1>6. DeviceRows'
  <2>1. devices[d] # NoDevice => Continues(devices[d], row)
    BY <1>4, ViewOfDevice DEF IInv, Continues
  <2> QED BY <1>4, <2>1, NobodyAssumption DEF IInv, DeviceRows, Continues, Formed
<1>7. SnapshotsMatchDevices' /\ PolicyIncidentsHaveSnapshots' /\ LabRegisteredTogether'
  BY <1>4 DEF IInv, SnapshotsMatchDevices, PolicyIncidentsHaveSnapshots,
              LabRegisteredTogether, storeVars
<1>8. OwnDevices(s)'
  BY <1>3, <1>4 DEF IInv, SessionInvariant, OwnDevices, HasSnapshot
<1>9. ASSUME NEW q \in Session, q # s PROVE SessionInvariant(q)'
  <2>1. \A e \in Device : DeviceView(q, e)' = DeviceView(q, e)
    BY <1>4, <1>5, <1>9, NobodyAssumption DEF DeviceView
  <2> QED BY <1>3, <1>4, <1>9, <2>1, OthersKeep DEF IInv, Continues
<1>10. OwnIncidents'
  <2> SUFFICES ASSUME NEW i \in Incident, dirty[i] # NoRow
               PROVE  /\ owner[i] \in SubmitSession /\ pc'[owner[i]] \in {"upsert", "commit"}
                      /\ dirty[i].fp \in PolicyFingerprint[req'[owner[i]].device]
                      /\ dirty[i].seen = req'[owner[i]].time
    BY DEF OwnIncidents, storeVars
  <2>1. owner[i] \in Session \ {s}
    BY DeviceAssumption DEF IInv, OwnIncidents
  <2> QED BY <1>3, <2>1 DEF IInv, OwnIncidents
<1> QED BY <1>1, <1>3, <1>6, <1>7, <1>8, <1>9, <1>10 DEF IInv, SessionInvariant

(* The upsert of an incident. *)
LEMMA UpsertKeeps ==
  ASSUME IInv, NEW s \in Session, UpsertIncident(s)
  PROVE  IInv'
<1> DEFINE t == req[s].time  d == req[s].device
<1>1. PICK f \in req[s].left :
        /\ InsertOpen(s, f, t) \/ RefreshOpen(s, f, t)
        /\ Goto(s, IF req[s].left \ {f} = {} THEN "commit" ELSE "upsert",
                [req[s] EXCEPT !.left = req[s].left \ {f}])
  BY DEF UpsertIncident
<1>2. /\ req[s] \in Request /\ pc[s] = "upsert" /\ t \in Time /\ d \in Device /\ f \in Fingerprint
      /\ UNCHANGED devVars
  BY DEF IInv, TypeOK, Request, UpsertIncident
<1>3. s \in SubmitSession /\ s \notin RegisterSession /\ f \in PolicyFingerprint[d]
      /\ req[s].vendor \in SubmitVendor /\ req[s].left \subseteq PolicyFingerprint[d]
  BY <1>1, <1>2, DeviceAssumption DEF IInv, SessionInvariant, Kind
<1>4. StoreInvariant'
  BY <1>1, <1>2, StoreStepInvariant DEF IInv, StoreStep
<1> DEFINE r == [req[s] EXCEPT !.left = req[s].left \ {f}]
           step == IF req[s].left \ {f} = {} THEN "commit" ELSE "upsert"
<1>5. /\ r \in Request /\ r.id = req[s].id /\ r.vendor = req[s].vendor /\ r.device = d /\ r.time = t
      /\ r.found = req[s].found /\ r.loaded = req[s].loaded
      /\ r.left = req[s].left \ {f} /\ step \in {"commit", "upsert"}
  BY <1>2 DEF Request
<1> HIDE DEF r, step
<1>6. Goto(s, step, r)
  BY <1>1 DEF r, step
<1>7. step \in Step
  BY <1>5 DEF Step
<1>8. /\ TypeOK' /\ pc'[s] = step /\ req'[s] = r
      /\ \A q \in Session \ {s} : pc'[q] = pc[q] /\ req'[q] = req[q]
  BY <1>2, <1>3, <1>4, <1>5, <1>6, <1>7, GotoType DEF IInv, TypeOK, StoreInvariant, devVars
<1>9. /\ \A q \in Session, e \in Device : DeviceView(q, e)' = DeviceView(q, e)
      /\ snapshots' = snapshots
  BY <1>2, <1>6 DEF DeviceView, devVars, Goto
<1>10. PICK i \in Incident, row \in Row : /\ Write(s, i, row) /\ row.fp = f /\ row.seen = t
  <2>1. CASE InsertOpen(s, f, t)
    <3>1. NewIncident \in Incident
      BY <2>1 DEF InsertOpen, NewIncident
    <3>2. Opened(f, t) \in Row /\ Opened(f, t).fp = f /\ Opened(f, t).seen = t
      BY <1>2, OpenedRow DEF Opened
    <3> QED BY <2>1, <3>1, <3>2 DEF InsertOpen
  <2>2. CASE RefreshOpen(s, f, t)
    <3>1. PICK i \in OpenRows(s, f) :
            AcceptsObservation(View(s, i), t) /\ Write(s, i, Refreshed(View(s, i), t))
      BY <2>2 DEF RefreshOpen
    <3>2. /\ i \in Incident /\ View(s, i) \in Row /\ Chronological(View(s, i))
          /\ View(s, i).status = "OPEN" /\ View(s, i).fp = f
      BY <1>2, <2>2, UpsertTarget DEF IInv, RefreshOpen, OpenRows, IsOpenFor
    <3>3. Refreshed(View(s, i), t) \in Row
      BY <1>2, <3>1, <3>2, RefreshedRow
    <3>4. Refreshed(View(s, i), t).fp = f /\ Refreshed(View(s, i), t).seen = t
      BY <3>2 DEF Refreshed, Row
    <3> QED BY <3>1, <3>2, <3>3, <3>4
  <2> QED BY <1>1, <2>1, <2>2
<1>11. OwnIncidents'
  <2> SUFFICES ASSUME NEW j \in Incident, dirty'[j] # NoRow
               PROVE  /\ owner'[j] \in SubmitSession /\ pc'[owner'[j]] \in {"upsert", "commit"}
                      /\ dirty'[j].fp \in PolicyFingerprint[req'[owner'[j]].device]
                      /\ dirty'[j].seen = req'[owner'[j]].time
    BY DEF OwnIncidents
  <2>1. CASE j = i
    <3>1. owner'[j] = s /\ dirty'[j] = row
      BY <1>10, <2>1 DEF Write, IInv, TypeOK, StoreTypeOK
    <3> QED BY <1>3, <1>5, <1>8, <1>10, <3>1
  <2>2. CASE j # i
    <3>1. owner'[j] = owner[j] /\ dirty'[j] = dirty[j]
      BY <1>10, <2>2 DEF Write, IInv, TypeOK, StoreTypeOK
    <3>2. owner[j] \in Session
      BY <3>1, DeviceAssumption DEF IInv, OwnIncidents
    <3>3. req'[owner[j]].device = req[owner[j]].device /\ req'[owner[j]].time = req[owner[j]].time
          /\ (pc[owner[j]] \in {"upsert", "commit"} => pc'[owner[j]] \in {"upsert", "commit"})
      BY <1>5, <1>8, <3>2
    <3> QED BY <3>1, <3>3 DEF IInv, OwnIncidents
  <2> QED BY <2>1, <2>2
<1>12. DeviceRows' /\ SnapshotsMatchDevices' /\ PolicyIncidentsHaveSnapshots' /\ LabRegisteredTogether'
  <2>1. table' = table
    BY <1>10 DEF Write
  <2> QED BY <1>2, <1>9, <2>1 DEF IInv, DeviceRows, SnapshotsMatchDevices,
                PolicyIncidentsHaveSnapshots, LabRegisteredTogether, devVars
<1>13. ASSUME NEW q \in Session, q # s PROVE SessionInvariant(q)'
  BY <1>2, <1>8, <1>9, <1>13, OthersKeep DEF IInv, Continues, devVars
<1>14. OwnDevices(s)'
  BY <1>2, <1>5, <1>8, <1>9 DEF IInv, SessionInvariant, OwnDevices, HasSnapshot, devVars
<1>15. Kind(s)' /\ ReadRow(s)' /\ Routers(s)'
  BY <1>3, <1>5, <1>8 DEF Kind, ReadRow, Routers
<1>16. Saved(s)'
  BY <1>2, <1>5, <1>8, <1>9 DEF IInv, SessionInvariant, Saved
<1> QED BY <1>4, <1>8, <1>11, <1>12, <1>13, <1>14, <1>15, <1>16 DEF IInv, SessionInvariant

-----------------------------------------------------------------------------
(* Requests end. *)

LEMMA EndType ==
  ASSUME TypeOK, NEW s \in Session, EndRequest(s), ReleaseDevices(s), StoreTypeOK',
         devices' \in [Device -> DeviceRow \cup {NoDevice}], snapshots' \subseteq Snapshot
  PROVE  /\ TypeOK'
         /\ pc'[s] = "idle" /\ \A q \in Session \ {s} : pc'[q] = pc[q] /\ req'[q] = req[q]
<1>1. LabRouters[1] \in Device /\ 1 \in Time /\ 0 \in Nat
  BY DeviceAssumption, MaxTimeAssumption DEF Time
<1>2. accepted # 0 => 1 \in SnapshotId
  BY DeviceAssumption DEF TypeOK, SnapshotId
<1>3. pc' = [pc EXCEPT ![s] = "idle"] /\ "idle" \in Step
  BY DEF EndRequest, Step
<1>4. req[s] \in Request
  BY DEF TypeOK
<1>5. 1 \in SnapshotId
  BY <1>4, DeviceAssumption DEF Request, SnapshotId
<1>6. NoRequest \in Request
  BY <1>1, <1>5 DEF NoRequest, Request, Vendor
<1>7. devDirty' \in [Device -> DeviceRow \cup {NoDevice}] /\ devOwner' \in [Device -> Session \cup {Nobody}]
  BY DEF ReleaseDevices, TypeOK
<1> QED BY <1>3, <1>6, <1>7 DEF EndRequest, TypeOK

(* What is left of a session whose request has ended. *)
LEMMA IdleSession ==
  ASSUME NEW s \in Session, pc'[s] = "idle",
         \A d \in Device : devOwner'[d] # s
  PROVE  SessionInvariant(s)'
BY DEF SessionInvariant, OwnDevices, Kind, ReadRow, Saved, Routers

LEMMA AbortKeeps ==
  ASSUME IInv, NEW s \in Session, Abort(s)
  PROVE  IInv'
<1>1. StoreInvariant'
  BY StoreStepInvariant DEF IInv, Abort, StoreStep
<1>2. /\ TypeOK' /\ pc'[s] = "idle"
      /\ \A q \in Session \ {s} : pc'[q] = pc[q] /\ req'[q] = req[q]
  BY <1>1, EndType DEF Abort, IInv, TypeOK, StoreInvariant
<1>3. /\ devices' = devices /\ snapshots' = snapshots /\ table' = table
      /\ \A d \in Device :
           /\ devOwner[d] = s => devDirty'[d] = NoDevice /\ devOwner'[d] = Nobody
           /\ devOwner[d] # s => devDirty'[d] = devDirty[d] /\ devOwner'[d] = devOwner[d]
      /\ \A i \in Incident :
           /\ owner[i] = s => dirty'[i] = NoRow
           /\ owner[i] # s => dirty'[i] = dirty[i] /\ owner'[i] = owner[i]
  BY DEF Abort, ReleaseDevices, StoreRollback
<1>4. DeviceRows'
  BY <1>3 DEF IInv, DeviceRows, Continues, Formed
<1>5. SnapshotsMatchDevices' /\ PolicyIncidentsHaveSnapshots' /\ LabRegisteredTogether'
  BY <1>3 DEF IInv, SnapshotsMatchDevices, PolicyIncidentsHaveSnapshots, LabRegisteredTogether
<1>6. SessionInvariant(s)'
  BY <1>2, <1>3, NobodyAssumption, IdleSession
<1>7. ASSUME NEW q \in Session, q # s PROVE SessionInvariant(q)'
  <2>1. \A d \in Device : DeviceView(q, d)' = DeviceView(q, d)
    BY <1>3, <1>7, NobodyAssumption DEF DeviceView
  <2>2. \A d \in Device : devOwner'[d] = q => devOwner[d] = q /\ devDirty'[d] = devDirty[d]
    BY <1>3, <1>7, NobodyAssumption
  <2> QED BY <1>2, <1>3, <1>7, <2>1, <2>2, OthersKeep DEF IInv, Continues
<1>8. OwnIncidents'
  <2> SUFFICES ASSUME NEW i \in Incident, dirty'[i] # NoRow
               PROVE  /\ owner'[i] \in SubmitSession /\ pc'[owner'[i]] \in {"upsert", "commit"}
                      /\ dirty'[i].fp \in PolicyFingerprint[req'[owner'[i]].device]
                      /\ dirty'[i].seen = req'[owner'[i]].time
    BY DEF OwnIncidents
  <2>1. owner[i] # s /\ dirty'[i] = dirty[i] /\ owner'[i] = owner[i]
    BY <1>3
  <2>2. owner[i] \in Session \ {s}
    BY <2>1, DeviceAssumption DEF IInv, OwnIncidents
  <2> QED BY <1>2, <2>1, <2>2 DEF IInv, OwnIncidents
<1> QED BY <1>1, <1>2, <1>4, <1>5, <1>6, <1>7, <1>8 DEF IInv

(* A commit publishes what the session sees. *)
LEMMA CommitPublishes ==
  ASSUME IInv, NEW s \in Session, Commit(s)
  PROVE  /\ \A d \in Device :
              /\ devices'[d] = DeviceView(s, d)
              /\ devices[d] # NoDevice => Continues(devices[d], devices'[d])
              /\ devOwner[d] = s => devDirty'[d] = NoDevice /\ devOwner'[d] = Nobody
              /\ devOwner[d] # s => /\ devices'[d] = devices[d]
                                    /\ devDirty'[d] = devDirty[d] /\ devOwner'[d] = devOwner[d]
         /\ \A i \in Incident :
              /\ table'[i] = View(s, i)
              /\ owner[i] = s => dirty'[i] = NoRow
              /\ owner[i] # s => dirty'[i] = dirty[i] /\ owner'[i] = owner[i]
         /\ snapshots \subseteq snapshots'
         /\ s \in SubmitSession =>
              [id |-> req[s].id, device |-> req[s].device, vendor |-> req[s].vendor, at |-> req[s].time]
                \in snapshots'
<1>1. \A d \in Device : devices'[d] = DeviceView(s, d)
  BY DEF Commit
<1>2. \A d \in Device : devices[d] # NoDevice => Continues(devices[d], DeviceView(s, d))
  BY ViewOfDevice DEF IInv
<1> QED BY <1>1, <1>2 DEF Commit, ReleaseDevices, StoreCommit, DeviceView

LEMMA CommitKeeps ==
  ASSUME IInv, NEW s \in Session, Commit(s)
  PROVE  IInv'
<1> DEFINE new == [id |-> req[s].id, device |-> req[s].device, vendor |-> req[s].vendor, at |-> req[s].time]
<1>1. StoreInvariant'
  BY StoreStepInvariant DEF IInv, Commit, StoreStep
<1>2. req[s] \in Request /\ pc[s] = "commit"
  BY DEF IInv, TypeOK, Commit
<1>3. s \in SubmitSession => new \in Snapshot
  BY <1>2 DEF IInv, TypeOK, Request, Snapshot
<1>4. devices' \in [Device -> DeviceRow \cup {NoDevice}] /\ snapshots' \subseteq Snapshot
  BY <1>3, ViewOfDevice DEF Commit, IInv, TypeOK
<1>5. /\ TypeOK' /\ pc'[s] = "idle"
      /\ \A q \in Session \ {s} : pc'[q] = pc[q] /\ req'[q] = req[q]
  BY <1>1, <1>4, EndType DEF Commit, IInv, TypeOK, StoreInvariant
<1>6. DeviceRows'
  <2> SUFFICES ASSUME NEW d \in Device
               PROVE  /\ devOwner'[d] = Nobody <=> devDirty'[d] = NoDevice
                      /\ devices'[d] # NoDevice => Formed(devices'[d])
                      /\ devDirty'[d] # NoDevice => Formed(devDirty'[d])
                      /\ devices'[d] # NoDevice /\ devDirty'[d] # NoDevice =>
                           Continues(devices'[d], devDirty'[d])
    BY DEF DeviceRows, Formed, Continues
  <2>1. CASE devOwner[d] = s
    <3>1. devDirty'[d] = NoDevice /\ devOwner'[d] = Nobody /\ devices'[d] = DeviceView(s, d)
      BY <2>1, CommitPublishes
    <3>2. DeviceView(s, d) # NoDevice => Formed(DeviceView(s, d))
      BY ViewOfDevice DEF IInv
    <3> QED BY <3>1, <3>2
  <2>2. CASE devOwner[d] # s
    <3>1. devices'[d] = devices[d] /\ devDirty'[d] = devDirty[d] /\ devOwner'[d] = devOwner[d]
      BY <2>2, CommitPublishes
    <3> QED BY <3>1 DEF IInv, DeviceRows
  <2> QED BY <2>1, <2>2
<1>7. SnapshotsMatchDevices'
  <2>1. ASSUME NEW d \in Device, devices'[d] # NoDevice, NEW id \in {devices'[d].current, devices'[d].baseline}
        PROVE  IF id = 0 THEN devices'[d].vendor = FRR ELSE \E n \in snapshots' : n.id = id /\ n.device = d
    <3>1. CASE devOwner[d] # s
      <4>1. devices'[d] = devices[d] /\ devices[d] # NoDevice /\ snapshots \subseteq snapshots'
        BY <2>1, <3>1, CommitPublishes
      <4>2. id \in {devices[d].current, devices[d].baseline}
        BY <2>1, <4>1
      <4>3. IF id = 0 THEN devices[d].vendor = FRR ELSE \E n \in snapshots : n.id = id /\ n.device = d
        BY <4>1, <4>2 DEF IInv, SnapshotsMatchDevices
      <4> QED BY <4>1, <4>3
    <3>2. CASE devOwner[d] = s
      <4>1. devices'[d] = devDirty[d] /\ Formed(devDirty[d])
        <5>1. devices'[d] = devDirty[d]
          BY <3>2, CommitPublishes DEF DeviceView
        <5> QED BY <2>1, <5>1 DEF IInv, DeviceRows
      <4>2. CASE id = 0
        BY <2>1, <4>1, <4>2 DEF Formed
      <4>3. CASE id = req[s].id /\ s \in SubmitSession
        <5>1. new \in snapshots' /\ new.id = id /\ new.device = d
          BY <3>2, <4>3, CommitPublishes DEF IInv, SessionInvariant, OwnDevices
        <5>2. id # 0
          BY <1>2, <4>3, DeviceAssumption DEF Request, SnapshotId
        <5> QED BY <5>1, <5>2
      <4>4. CASE HasSnapshot(d, id) /\ id # 0
        BY <4>4, CommitPublishes DEF HasSnapshot
      <4> QED BY <2>1, <3>2, <4>1, <4>2, <4>3, <4>4 DEF IInv, SessionInvariant, OwnDevices
    <3> QED BY <3>1, <3>2
  <2>2. ASSUME NEW n \in snapshots'
        PROVE  devices'[n.device] # NoDevice /\ devices'[n.device].vendor = n.vendor
    <3>1. CASE n \in snapshots
      <4>1. n.device \in Device
        BY <3>1 DEF IInv, TypeOK, Snapshot
      <4> QED BY <3>1, <4>1, CommitPublishes DEF IInv, SnapshotsMatchDevices, Continues
    <3>2. CASE n \notin snapshots
      <4>1. s \in SubmitSession /\ n = new
        BY <2>2, <3>2 DEF Commit
      <4>2. req[s].device \in Device
        BY <1>2 DEF Request
      <4> QED BY <1>2, <4>1, <4>2, CommitPublishes DEF IInv, SessionInvariant, Saved
    <3> QED BY <3>1, <3>2
  <2> QED BY <2>1, <2>2 DEF SnapshotsMatchDevices
<1>8. PolicyIncidentsHaveSnapshots'
  <2> SUFFICES ASSUME NEW i \in Incident, table'[i] # NoRow
               PROVE  \E n \in snapshots' : /\ table'[i].fp \in PolicyFingerprint[n.device]
                                            /\ table'[i].seen = n.at
    BY DEF PolicyIncidentsHaveSnapshots
  <2>1. CASE owner[i] = s
    <3>1. table'[i] = dirty[i]
      BY <2>1, CommitPublishes DEF View
    <3>2. new \in snapshots' /\ dirty[i].fp \in PolicyFingerprint[new.device] /\ dirty[i].seen = new.at
      BY <2>1, <3>1, CommitPublishes DEF IInv, OwnIncidents
    <3> QED BY <3>1, <3>2
  <2>2. CASE owner[i] # s
    <3>1. table'[i] = table[i]
      BY <2>2, CommitPublishes DEF View
    <3> QED BY <3>1, CommitPublishes DEF IInv, PolicyIncidentsHaveSnapshots
  <2> QED BY <2>1, <2>2
<1>9. LabRegisteredTogether'
  <2> SUFFICES ASSUME NEW d \in Device, devices'[d] # NoDevice, devices'[d].vendor = FRR,
                      NEW k \in DOMAIN LabRouters
               PROVE  devices'[LabRouters[k]] # NoDevice /\ devices'[LabRouters[k]].vendor = FRR
    BY DEF LabRegisteredTogether
  <2>1. LabRouters[k] \in Device /\ LabRouters[k] \in Elements(LabRouters)
    BY DeviceAssumption DEF Elements
  <2>2. CASE devOwner[d] # s
    <3>1. devices'[d] = devices[d]
      BY <2>2, CommitPublishes
    <3>2. devices[LabRouters[k]] # NoDevice /\ devices[LabRouters[k]].vendor = FRR
      BY <3>1 DEF IInv, LabRegisteredTogether
    <3>3. Continues(devices[LabRouters[k]], devices'[LabRouters[k]])
      BY <2>1, <3>2, CommitPublishes
    <3> QED BY <3>2, <3>3 DEF Continues
  <2>3. CASE devOwner[d] = s
    <3>1. devices'[d] = devDirty[d]
      BY <2>3, CommitPublishes DEF DeviceView
    <3>4. req[s].vendor = FRR
      BY <2>3, <3>1 DEF IInv, SessionInvariant, OwnDevices
    <3>2. s \in RegisterSession
      BY <1>2, <3>4, DeviceAssumption DEF IInv, SessionInvariant, Kind
    <3>3. ToRegister(s) = {}
      BY <1>2, <3>2, Nothing DEF IInv, SessionInvariant, Routers, ToRegister
    <3>5. DeviceView(s, LabRouters[k]) # NoDevice /\ DeviceView(s, LabRouters[k]).vendor = FRR
      BY <1>2, <2>1, <3>2, <3>3 DEF IInv, SessionInvariant, Routers
    <3>6. devices'[LabRouters[k]] = DeviceView(s, LabRouters[k])
      BY <2>1, CommitPublishes
    <3> QED BY <3>5, <3>6
  <2> QED BY <2>2, <2>3
<1>10. SessionInvariant(s)'
  <2>1. ASSUME NEW d \in Device PROVE devOwner'[d] # s
    <3>1. CASE devOwner[d] = s
      BY <3>1, CommitPublishes, NobodyAssumption
    <3>2. CASE devOwner[d] # s
      BY <3>2, CommitPublishes
    <3> QED BY <3>1, <3>2
  <2> QED BY <1>5, <2>1, IdleSession, Zenon
<1>11. ASSUME NEW q \in Session, q # s PROVE SessionInvariant(q)'
  <2>1. \A d \in Device : DeviceView(q, d) # NoDevice => Continues(DeviceView(q, d), DeviceView(q, d)')
    <3> SUFFICES ASSUME NEW d \in Device, DeviceView(q, d) # NoDevice
                 PROVE  Continues(DeviceView(q, d), DeviceView(q, d)')
      OBVIOUS
    <3>1. CASE devOwner[d] = q
      <4>1. devDirty'[d] = devDirty[d] /\ devOwner'[d] = devOwner[d]
        BY <1>11, <3>1, CommitPublishes
      <4> QED BY <3>1, <4>1 DEF DeviceView, Continues
    <3>2. CASE devOwner[d] # q
      <4>1. devOwner'[d] # q
        BY <1>11, <3>2, CommitPublishes, NobodyAssumption
      <4>2. devices[d] # NoDevice => Continues(devices[d], devices'[d])
        BY CommitPublishes
      <4> QED BY <3>2, <4>1, <4>2 DEF DeviceView
    <3> QED BY <3>1, <3>2
  <2>2. \A d \in Device : devOwner'[d] = q => devOwner[d] = q /\ devDirty'[d] = devDirty[d]
    BY <1>11, CommitPublishes, NobodyAssumption
  <2> QED BY <1>5, <1>11, <2>1, <2>2, CommitPublishes, OthersKeep DEF IInv
<1>12. OwnIncidents'
  <2> SUFFICES ASSUME NEW i \in Incident, dirty'[i] # NoRow
               PROVE  /\ owner'[i] \in SubmitSession /\ pc'[owner'[i]] \in {"upsert", "commit"}
                      /\ dirty'[i].fp \in PolicyFingerprint[req'[owner'[i]].device]
                      /\ dirty'[i].seen = req'[owner'[i]].time
    BY DEF OwnIncidents
  <2>1. owner[i] # s /\ dirty'[i] = dirty[i] /\ owner'[i] = owner[i]
    BY CommitPublishes
  <2>2. owner[i] \in Session \ {s}
    BY <2>1, DeviceAssumption DEF IInv, OwnIncidents
  <2> QED BY <1>5, <2>1, <2>2 DEF IInv, OwnIncidents
<1> QED BY <1>1, <1>5, <1>6, <1>7, <1>8, <1>9, <1>10, <1>11, <1>12 DEF IInv

-----------------------------------------------------------------------------
(* Requests begin. *)

LEMMA BeginMove ==
  ASSUME IInv, NEW s \in Session, NEW first \in {"lookup", "check"}, NEW r \in Request,
         Begin(s, first, r), s \in SubmitSession => r.vendor \in SubmitVendor,
         Kind(s)', Routers(s)'
  PROVE  IInv'
<1>1. /\ pc[s] = "idle" /\ accepted < MaxRequests /\ accepted' = accepted + 1
      /\ pc' = [pc EXCEPT ![s] = first] /\ req' = [req EXCEPT ![s] = r]
      /\ UNCHANGED <<storeVars, devVars, now, snapshots>>
  BY DEF Begin
<1>2. StoreInvariant'
  BY <1>1, StoreStepInvariant DEF IInv
<1>3. accepted' \in 0..MaxRequests
  BY <1>1, DeviceAssumption DEF IInv, TypeOK
<1>4. first \in Step /\ first # "idle"
  BY DEF Step
<1>5. /\ pc'[s] = first /\ req'[s] = r
      /\ \A q \in Session \ {s} : pc'[q] = pc[q] /\ req'[q] = req[q]
      /\ \A q \in Session, d \in Device : DeviceView(q, d)' = DeviceView(q, d)
  BY <1>1 DEF IInv, TypeOK, DeviceView, devVars
<1>6. TypeOK'
  BY <1>1, <1>2, <1>3, <1>4, <1>5 DEF IInv, TypeOK, StoreInvariant, devVars
<1>7. DeviceRows' /\ SnapshotsMatchDevices' /\ PolicyIncidentsHaveSnapshots' /\ LabRegisteredTogether'
  BY <1>1 DEF IInv, DeviceRows, SnapshotsMatchDevices, PolicyIncidentsHaveSnapshots,
              LabRegisteredTogether, storeVars, devVars
<1>8. OwnDevices(s)' /\ ReadRow(s)' /\ Saved(s)'
  BY <1>1, <1>5 DEF IInv, SessionInvariant, OwnDevices, ReadRow, Saved, devVars
<1>9. ASSUME NEW q \in Session, q # s PROVE SessionInvariant(q)'
  BY <1>1, <1>5, <1>9, OthersKeep DEF IInv, Continues, devVars
<1>10. OwnIncidents'
  <2> SUFFICES ASSUME NEW i \in Incident, dirty[i] # NoRow
               PROVE  /\ owner[i] \in SubmitSession /\ pc'[owner[i]] \in {"upsert", "commit"}
                      /\ dirty[i].fp \in PolicyFingerprint[req'[owner[i]].device]
                      /\ dirty[i].seen = req'[owner[i]].time
    BY <1>1 DEF OwnIncidents, storeVars
  <2>1. owner[i] \in Session \ {s}
    BY <1>1, DeviceAssumption DEF IInv, OwnIncidents
  <2> QED BY <1>5, <2>1 DEF IInv, OwnIncidents
<1> QED BY <1>2, <1>6, <1>7, <1>8, <1>9, <1>10 DEF IInv, SessionInvariant

LEMMA NextIdentifier ==
  ASSUME IInv, accepted < MaxRequests
  PROVE  /\ accepted + 1 \in SnapshotId /\ 1 \in SnapshotId
         /\ now \in Time /\ 1 \in Time
         /\ LabRouters \in Seq(Device) /\ LabRouters # <<>> /\ LabRouters[1] \in Device
BY DeviceAssumption, MaxTimeAssumption DEF IInv, TypeOK, SnapshotId, Time

LEMMA FirstRequest ==
  ASSUME IInv, accepted < MaxRequests
  PROVE  NoRequest \in Request
<1>1. FRR \in Vendor /\ <<>> \in Seq(Device) /\ {} \in SUBSET Fingerprint
  BY DEF Vendor
<1> QED BY <1>1, NextIdentifier DEF NoRequest, Request

LEMMA BeginKeeps ==
  ASSUME IInv, NEW s \in Session, Accept(s)
  PROVE  IInv'
<1>1. CASE BeginSubmission(s)
  <2>1. PICK d \in Device, v \in SubmitVendor, fps \in SUBSET Fingerprint :
          /\ fps \subseteq PolicyFingerprint[d]
          /\ Begin(s, "lookup", [NoRequest EXCEPT !.id = accepted + 1, !.device = d,
                                   !.vendor = v, !.time = now, !.left = fps])
    BY <1>1, DeviceAssumption DEF BeginSubmission
  <2> DEFINE r == [NoRequest EXCEPT !.id = accepted + 1, !.device = d,
                     !.vendor = v, !.time = now, !.left = fps]
  <2>2. accepted < MaxRequests /\ pc' = [pc EXCEPT ![s] = "lookup"] /\ req' = [req EXCEPT ![s] = r]
    BY <2>1 DEF Begin
  <2>3. v \in Vendor /\ accepted + 1 \in SnapshotId /\ now \in Time /\ NoRequest \in Request
    BY <2>2, NextIdentifier, FirstRequest DEF Vendor
  <2>4. /\ r \in Request /\ r.vendor = v /\ r.left = fps /\ r.device = d
    BY <2>3 DEF Request
  <2>6. s \in SubmitSession /\ s \notin RegisterSession
    BY <1>1, DeviceAssumption DEF BeginSubmission
  <2>7. pc'[s] = "lookup" /\ req'[s] = r
    BY <2>2 DEF IInv, TypeOK
  <2> HIDE DEF r
  <2>8. Kind(s)' /\ Routers(s)'
    BY <2>1, <2>4, <2>6, <2>7 DEF Kind, Routers
  <2>9. Begin(s, "lookup", r) /\ r.vendor \in SubmitVendor
    BY <2>1, <2>4 DEF r
  <2> QED BY <2>4, <2>8, <2>9, BeginMove
<1>2. CASE BeginRegistration(s)
  <2> DEFINE r == [NoRequest EXCEPT !.id = accepted + 1, !.time = now, !.todo = LabRouters]
  <2>1. Begin(s, "check", r) /\ accepted < MaxRequests
        /\ pc' = [pc EXCEPT ![s] = "check"] /\ req' = [req EXCEPT ![s] = r]
    BY <1>2 DEF BeginRegistration, Begin
  <2>2. accepted + 1 \in SnapshotId /\ now \in Time /\ LabRouters \in Seq(Device)
        /\ LabRouters # <<>> /\ NoRequest \in Request
    BY <2>1, NextIdentifier, FirstRequest
  <2>3. /\ r \in Request /\ r.todo = LabRouters /\ r.vendor = NoRequest.vendor
        /\ r.found = NoRequest.found /\ r.missing = NoRequest.missing
    BY <2>2 DEF Request
  <2>8. r.vendor = FRR /\ r.found = NoDevice /\ r.missing = <<>>
    BY <2>3 DEF NoRequest
  <2>4. s \in RegisterSession /\ s \notin SubmitSession
    BY <1>2, DeviceAssumption DEF BeginRegistration
  <2>5. pc'[s] = "check" /\ req'[s] = r
    BY <2>1 DEF IInv, TypeOK
  <2> HIDE DEF r
  <2>6. Kind(s)'
    BY <2>4, <2>5, <2>8 DEF Kind
  <2>7. Routers(s)'
    BY <2>2, <2>3, <2>5, <2>8 DEF Routers, ToRegister
  <2> QED BY <2>1, <2>3, <2>4, <2>6, <2>7, BeginMove
<1> QED BY <1>1, <1>2 DEF Accept

-----------------------------------------------------------------------------
(* The reads. *)

LEMMA SessionKind ==
  ASSUME IInv, NEW s \in Session, pc[s] # "idle"
  PROVE  /\ req[s] \in Request /\ req[s].device \in Device
         /\ s \in SubmitSession <=> s \notin RegisterSession
         /\ s \in SubmitSession => req[s].vendor \in SubmitVendor /\ req[s].vendor # FRR
         /\ s \in RegisterSession => req[s].vendor = FRR /\ req[s].found = NoDevice
BY DeviceAssumption DEF IInv, TypeOK, Request, SessionInvariant, Kind

LEMMA Moved ==
  ASSUME IInv, NEW s \in Session, NEW step, NEW r, Goto(s, step, r)
  PROVE  pc'[s] = step /\ req'[s] = r
BY DEF IInv, TypeOK, Goto

LEMMA LookupKeeps ==
  ASSUME IInv, NEW s \in Session, Lookup(s)
  PROVE  IInv'
<1> DEFINE r == [req[s] EXCEPT !.found = DeviceView(s, req[s].device)]
<1>1. /\ pc[s] = "lookup" /\ Goto(s, "validate", r) /\ UNCHANGED <<storeVars, devVars>>
  BY DEF Lookup
<1>2. req[s] \in Request /\ DeviceView(s, req[s].device) \in DeviceRow \cup {NoDevice}
  BY <1>1, SessionKind, ViewOfDevice DEF IInv
<1>3. /\ r \in Request /\ r.vendor = req[s].vendor /\ r.id = req[s].id
      /\ r.device = req[s].device /\ r.left = req[s].left
  BY <1>2 DEF Request
<1> HIDE DEF r
<1>4. pc'[s] = "validate" /\ req'[s] = r
  BY <1>1, Moved
<1>5. s \notin RegisterSession
  BY <1>1 DEF IInv, SessionInvariant, Kind
<1>6. Kind(s)' /\ ReadRow(s)' /\ Saved(s)' /\ Routers(s)'
  BY <1>1, <1>3, <1>4, <1>5 DEF IInv, SessionInvariant, Kind, ReadRow, Saved, Routers
<1>7. "validate" \in Step \ {"idle"}
  BY DEF Step
<1> QED BY <1>1, <1>3, <1>6, <1>7, QuietMove

LEMMA ValidateKeeps ==
  ASSUME IInv, NEW s \in Session, Validate(s)
  PROVE  IInv'
<1> DEFINE row == DeviceView(s, req[s].device)
           r == [req[s] EXCEPT !.loaded = row]
<1>1. /\ pc[s] = "validate" /\ Goto(s, "write", r) /\ UNCHANGED <<storeVars, devVars>>
      /\ row # NoDevice => ValidTransition(row, Candidate(req[s]))
  BY DEF Validate
<1>9. req[s] \in Request /\ req[s].device \in Device
  BY <1>1, SessionKind
<1>2. /\ row \in DeviceRow \cup {NoDevice}
      /\ row # NoDevice => row \in DeviceRow /\ Formed(row)
  BY <1>9, ViewOfDevice DEF IInv
<1>10. \A d \in Device : DeviceView(s, d)' = DeviceView(s, d)
  BY <1>1 DEF DeviceView, devVars
<1>11. row = IF devOwner'[req[s].device] = s THEN devDirty'[req[s].device] ELSE devices'[req[s].device]
  BY <1>1 DEF DeviceView, devVars
<1> HIDE DEF row
<1>3. /\ r \in Request /\ r.vendor = req[s].vendor /\ r.id = req[s].id
      /\ r.device = req[s].device /\ r.left = req[s].left /\ r.loaded = row
      /\ r.found = req[s].found /\ r.todo = req[s].todo /\ r.missing = req[s].missing
      /\ r.time = req[s].time
  BY <1>2, <1>9 DEF Request
<1> HIDE DEF r
<1>4. pc'[s] = "write" /\ req'[s] = r
  BY <1>1, Moved
<1>5. Kind(s)' /\ Saved(s)'
  BY <1>1, <1>3, <1>4 DEF IInv, SessionInvariant, Kind, Saved
<1>6. Routers(s)'
  <2>1. ToRegister(s)' = ToRegister(s)
    BY <1>1, <1>3, <1>4 DEF ToRegister
  <2>2. Elements(LabRouters) \subseteq Device
    BY DeviceAssumption DEF Elements
  <2> QED BY <1>1, <1>3, <1>4, <1>10, <2>1, <2>2 DEF IInv, SessionInvariant, Routers
<1>7. ReadRow(s)'
  <2> SUFFICES ASSUME row # NoDevice
               PROVE  /\ Continues(row, row) /\ Formed(row) /\ row.vendor = r.vendor
                      /\ Candidate(r).baseline = row.baseline
                      /\ Candidate(r).current = 0 <=> row.current = 0
    BY <1>3, <1>4, <1>11 DEF ReadRow, DeviceView
  <2>1. Candidate(r) = Candidate(req[s]) /\ Candidate(r).vendor = r.vendor
    BY <1>3 DEF Candidate
  <2>2. ValidTransition(row, Candidate(r)) /\ row.vendor = r.vendor
    BY <1>1, <2>1 DEF ValidTransition
  <2>3. Formed(row)
    BY <1>2
  <2>4. s \in RegisterSession => r.vendor = FRR /\ r.found = NoDevice
    BY <1>1, <1>3, SessionKind
  <2>5. s \notin RegisterSession => r.vendor # FRR
    BY <1>1, <1>3, SessionKind
  <2>6. CASE s \in RegisterSession
    <3>1. Candidate(r).baseline = 0 /\ Candidate(r).current = 0
      BY <2>4, <2>6 DEF Candidate
    <3> QED BY <2>2, <2>3, <2>4, <2>6, <3>1 DEF Continues, Formed
  <2>7. CASE s \notin RegisterSession
    BY <2>2, <2>3, <2>5, <2>7 DEF Continues, Formed, ValidTransition
  <2> QED BY <2>6, <2>7
<1>8. "write" \in Step \ {"idle"}
  BY DEF Step
<1> QED BY <1>1, <1>3, <1>5, <1>6, <1>7, <1>8, QuietMove

LEMMA DuplicateKeeps ==
  ASSUME IInv, NEW s \in Session, InsertDuplicate(s)
  PROVE  IInv'
<1>1. /\ pc[s] = "write" /\ Goto(s, "raised", req[s]) /\ UNCHANGED <<storeVars, devVars>>
      /\ "raised" \in Step \ {"idle"}
  BY DEF InsertDuplicate, Step
<1>2. pc'[s] = "raised" /\ req'[s] = req[s] /\ req[s] \in Request
  BY <1>1, Moved, SessionKind
<1>3. Kind(s)' /\ ReadRow(s)' /\ Saved(s)' /\ Routers(s)'
  BY <1>1, <1>2 DEF IInv, SessionInvariant, Kind, ReadRow, Saved, Routers
<1> QED BY <1>1, <1>2, <1>3, QuietMove

(* The next router of a registration, when the others are seen registered. *)
LEMMA NextRouter ==
  ASSUME IInv, NEW s \in RegisterSession, NEW r \in Request, GotoNextRouter(s, r),
         r.vendor = FRR, r.found = NoDevice, r.todo = <<>>,
         \A d \in Elements(LabRouters) \ Elements(r.missing) :
           DeviceView(s, d)' # NoDevice /\ DeviceView(s, d)'.vendor = FRR
  PROVE  \E step \in {"commit", "validate"}, q \in Request :
           /\ Goto(s, step, q) /\ q.vendor = r.vendor /\ q.id = r.id
           /\ Kind(s)' /\ ReadRow(s)' /\ Saved(s)' /\ Routers(s)'
<1>1. s \in Session /\ s \notin SubmitSession
  BY DeviceAssumption
<1>2. CASE r.missing = <<>>
  <2>1. Goto(s, "commit", r)
    BY <1>2 DEF GotoNextRouter
  <2>2. pc'[s] = "commit" /\ req'[s] = r
    BY <1>1, <2>1, Moved
  <2>3. Kind(s)' /\ ReadRow(s)' /\ Saved(s)'
    BY <1>1, <2>2 DEF Kind, ReadRow, Saved
  <2>4. Routers(s)'
    BY <1>2, <2>2, Nothing DEF Routers, ToRegister
  <2> QED BY <2>1, <2>3, <2>4
<1>3. CASE r.missing # <<>>
  <2> DEFINE q == [r EXCEPT !.device = Head(r.missing), !.missing = Tail(r.missing)]
  <2>1. r.missing \in Seq(Device)
    BY DEF Request
  <2>2. /\ Head(r.missing) \in Device /\ Tail(r.missing) \in Seq(Device)
        /\ Elements(r.missing) \subseteq {Head(r.missing)} \cup Elements(Tail(r.missing))
    BY <1>3, <2>1, FirstAndRest
  <2>3. /\ q \in Request /\ q.vendor = r.vendor /\ q.id = r.id /\ q.found = r.found
        /\ q.todo = r.todo /\ q.device = Head(r.missing) /\ q.missing = Tail(r.missing)
    BY <2>2 DEF Request
  <2>4. Goto(s, "validate", q)
    BY <1>3 DEF GotoNextRouter
  <2> HIDE DEF q
  <2>5. pc'[s] = "validate" /\ req'[s] = q
    BY <1>1, <2>4, Moved
  <2>6. Kind(s)' /\ ReadRow(s)' /\ Saved(s)'
    BY <1>1, <2>3, <2>5 DEF Kind, ReadRow, Saved
  <2>7. Elements(r.missing) \subseteq ToRegister(s)'
    BY <2>2, <2>3, <2>5 DEF ToRegister
  <2>8. Routers(s)'
    BY <2>3, <2>5, <2>7 DEF Routers
  <2> QED BY <2>3, <2>4, <2>6, <2>8
<1> QED BY <1>2, <1>3

LEMMA CheckRouterKeeps ==
  ASSUME IInv, NEW s \in Session, CheckRouter(s)
  PROVE  IInv'
<1> DEFINE d == Head(req[s].todo)
           row == DeviceView(s, d)
           missing == IF row = NoDevice THEN Append(req[s].missing, d) ELSE req[s].missing
           r == [req[s] EXCEPT !.todo = Tail(req[s].todo), !.missing = missing]
<1>1. /\ pc[s] = "check" /\ UNCHANGED <<storeVars, devVars>>
      /\ row = NoDevice \/ RegisteredRouter(row)
      /\ IF Tail(req[s].todo) = <<>> THEN GotoNextRouter(s, r) ELSE Goto(s, "check", r)
  <2>1. r.todo = Tail(req[s].todo) \/ req[s] \notin Request
    BY DEF Request
  <2> QED BY <2>1, SessionKind DEF CheckRouter
<1>2. s \in RegisterSession /\ s \notin SubmitSession
  BY <1>1, SessionKind DEF IInv, SessionInvariant, Kind
<1>3. /\ req[s] \in Request /\ req[s].todo \in Seq(Device) /\ req[s].missing \in Seq(Device)
      /\ req[s].vendor = FRR /\ req[s].found = NoDevice /\ req[s].todo # <<>>
  BY <1>1, <1>2, SessionKind DEF Request, IInv, SessionInvariant, Routers
<1>4. /\ d \in Device /\ Tail(req[s].todo) \in Seq(Device)
      /\ Elements(req[s].todo) \subseteq {d} \cup Elements(Tail(req[s].todo))
  BY <1>3, FirstAndRest
<1> HIDE DEF d, row
<1>5. /\ missing \in Seq(Device) /\ Elements(req[s].missing) \subseteq Elements(missing)
      /\ row = NoDevice => d \in Elements(missing)
  BY <1>3, <1>4, OneMore
<1> HIDE DEF missing
<1>6. /\ r \in Request /\ r.vendor = FRR /\ r.id = req[s].id /\ r.found = NoDevice
      /\ r.todo = Tail(req[s].todo) /\ r.missing = missing
  BY <1>3, <1>4, <1>5 DEF Request
<1> HIDE DEF r
<1>7. ASSUME NEW e \in Elements(LabRouters), e \notin Elements(r.todo), e \notin Elements(r.missing)
      PROVE  DeviceView(s, e)' # NoDevice /\ DeviceView(s, e)'.vendor = FRR
  <2>1. DeviceView(s, e)' = DeviceView(s, e)
    BY <1>1 DEF DeviceView, devVars
  <2>2. CASE e = d
    BY <1>1, <1>5, <1>6, <1>7, <2>1, <2>2 DEF row, RegisteredRouter
  <2>3. CASE e # d
    <3>1. e \notin ToRegister(s)
      BY <1>1, <1>4, <1>5, <1>6, <1>7, <2>3 DEF ToRegister
    <3> QED BY <1>1, <1>2, <2>1, <3>1 DEF IInv, SessionInvariant, Routers
  <2> QED BY <2>2, <2>3
<1>8. CASE Tail(req[s].todo) = <<>>
  <2>1. PICK step \in {"commit", "validate"}, q \in Request :
          /\ Goto(s, step, q) /\ q.vendor = r.vendor /\ q.id = r.id
          /\ Kind(s)' /\ ReadRow(s)' /\ Saved(s)' /\ Routers(s)'
    BY <1>1, <1>2, <1>6, <1>7, <1>8, NextRouter, Nothing
  <2>2. step \in Step \ {"idle"}
    BY DEF Step
  <2> QED BY <1>1, <1>3, <1>6, <2>1, <2>2, QuietMove
<1>9. CASE Tail(req[s].todo) # <<>>
  <2>1. Goto(s, "check", r) /\ "check" \in Step \ {"idle"}
    BY <1>1, <1>9 DEF Step
  <2>2. pc'[s] = "check" /\ req'[s] = r
    BY <2>1, Moved
  <2>3. Kind(s)' /\ ReadRow(s)' /\ Saved(s)'
    BY <1>2, <1>6, <2>2 DEF Kind, ReadRow, Saved
  <2>4. Routers(s)'
    BY <1>6, <1>7, <1>9, <2>2 DEF Routers, ToRegister
  <2> QED BY <1>1, <1>3, <1>6, <2>1, <2>3, <2>4, QuietMove
<1> QED BY <1>8, <1>9

-----------------------------------------------------------------------------
(* The writes of a device. *)

(* What the row of the device names is stored, or is the snapshot of the   *)
(* request.                                                                *)
LEMMA NamedSnapshots ==
  ASSUME IInv, NEW s \in Session, NEW d \in Device, DeviceView(s, d) # NoDevice,
         NEW id \in {DeviceView(s, d).current, DeviceView(s, d).baseline}
  PROVE  id = 0 \/ (id = req[s].id /\ s \in SubmitSession) \/ HasSnapshot(d, id)
<1>1. CASE devOwner[d] = s
  BY <1>1 DEF IInv, SessionInvariant, OwnDevices, DeviceView
<1>2. CASE devOwner[d] # s
  <2>1. devices[d] # NoDevice /\ id \in {devices[d].current, devices[d].baseline}
    BY <1>2 DEF DeviceView
  <2> QED BY <2>1 DEF IInv, SnapshotsMatchDevices, HasSnapshot
<1> QED BY <1>1, <1>2

(* AfterWrite leads on, once the device is seen with the vendor of the     *)
(* request and the other devices are seen as before.                       *)
LEMMA AfterWriteLeadsOn ==
  ASSUME IInv, NEW s \in Session, pc[s] = "write", AfterWrite(s),
         \A e \in Device \ {req[s].device} : DeviceView(s, e)' = DeviceView(s, e),
         NEW d, d = req[s].device,
         DeviceView(s, d)' # NoDevice, DeviceView(s, d)'.vendor = req[s].vendor
  PROVE  \E step \in {"validate", "upsert", "commit"}, q \in Request :
           /\ Goto(s, step, q) /\ q.vendor = req[s].vendor /\ q.id = req[s].id
           /\ s \in SubmitSession => step \in {"upsert", "commit"} /\ q.device = d
           /\ Kind(s)' /\ ReadRow(s)' /\ Saved(s)' /\ Routers(s)'
<1>1. /\ req[s] \in Request /\ d \in Device
      /\ s \in SubmitSession <=> s \notin RegisterSession
  BY SessionKind
<1>2. CASE s \in RegisterSession
  <2> DEFINE r == [req[s] EXCEPT !.loaded = NoDevice]
  <2>1. /\ req[s].vendor = FRR /\ req[s].found = NoDevice /\ req[s].todo = <<>>
    BY <1>2, SessionKind DEF IInv, SessionInvariant, Routers
  <2>2. /\ r \in Request /\ r.vendor = req[s].vendor /\ r.id = req[s].id /\ r.found = req[s].found
        /\ r.todo = req[s].todo /\ r.missing = req[s].missing
    BY <1>1 DEF Request
  <2>3. GotoNextRouter(s, r)
    BY <1>2 DEF AfterWrite
  <2> HIDE DEF r
  <2>4. ASSUME NEW e \in Elements(LabRouters) \ Elements(r.missing)
        PROVE  DeviceView(s, e)' # NoDevice /\ DeviceView(s, e)'.vendor = FRR
    <3>1. CASE e = d
      BY <2>1, <3>1
    <3>2. CASE e # d
      <4>1. e \in Device
        BY DeviceAssumption DEF Elements
      <4>2. e \notin ToRegister(s)
        BY <2>1, <2>2, <2>4, <3>2, Nothing DEF ToRegister
      <4>3. DeviceView(s, e) # NoDevice /\ DeviceView(s, e).vendor = FRR
        BY <1>2, <2>4, <4>2 DEF IInv, SessionInvariant, Routers
      <4> QED BY <3>2, <4>1, <4>3
    <3> QED BY <3>1, <3>2
  <2>5. \E step \in {"commit", "validate"}, q \in Request :
          /\ Goto(s, step, q) /\ q.vendor = r.vendor /\ q.id = r.id
          /\ Kind(s)' /\ ReadRow(s)' /\ Saved(s)' /\ Routers(s)'
    BY <1>2, <2>1, <2>2, <2>3, <2>4, NextRouter
  <2> QED BY <1>1, <1>2, <2>2, <2>5
<1>3. CASE s \notin RegisterSession
  <2> DEFINE step == IF req[s].left = {} THEN "commit" ELSE "upsert"
  <2>1. Goto(s, step, req[s]) /\ step \in {"upsert", "commit"}
    BY <1>3 DEF AfterWrite
  <2> HIDE DEF step
  <2>2. pc'[s] = step /\ req'[s] = req[s]
    BY <2>1, Moved
  <2>3. Kind(s)' /\ ReadRow(s)' /\ Routers(s)'
    BY <1>1, <1>3, <2>1, <2>2 DEF IInv, SessionInvariant, Kind, ReadRow, Routers
  <2>4. Saved(s)'
    BY <2>2 DEF Saved, DeviceView
  <2> QED BY <1>1, <2>1, <2>3, <2>4
<1> QED BY <1>2, <1>3

LEMMA InsertKeeps ==
  ASSUME IInv, NEW s \in Session, InsertDevice(s)
  PROVE  IInv'
<1>1. PICK d \in Device : d = req[s].device
  BY DEF IInv, TypeOK, Request
<1> DEFINE row == Inserted(s)
<1>2. /\ pc[s] = "write" /\ ~DeviceLocked(s, d) /\ DeviceView(s, d) = NoDevice
      /\ WriteDevice(s, d, row) /\ AfterWrite(s) /\ UNCHANGED storeVars
  BY <1>1 DEF InsertDevice
<1>3. /\ req[s] \in Request
      /\ s \in SubmitSession <=> s \notin RegisterSession
      /\ s \in SubmitSession => req[s].vendor # FRR
      /\ s \in RegisterSession => req[s].vendor = FRR
  BY <1>2, SessionKind
<1>4. req[s].id # 0 /\ req[s].id \in SnapshotId
  BY <1>3, DeviceAssumption DEF Request, SnapshotId
<1>5. /\ row \in DeviceRow /\ row.vendor = req[s].vendor /\ Formed(row)
      /\ \A id \in {row.current, row.baseline} :
           id = 0 \/ (id = req[s].id /\ s \in SubmitSession)
  BY <1>3, <1>4 DEF Inserted, DeviceRow, Request, Formed
<1> HIDE DEF row
<1>6. /\ DeviceView(s, d)' = row
      /\ \A e \in Device \ {d} : DeviceView(s, e)' = DeviceView(s, e)
  BY <1>2 DEF WriteDevice, DeviceView, IInv, TypeOK
<1>7. row # NoDevice
  BY <1>5, NoDeviceAssumption
<1>8. PICK step \in {"validate", "upsert", "commit"}, q \in Request :
        /\ Goto(s, step, q) /\ q.vendor = req[s].vendor /\ q.id = req[s].id
        /\ s \in SubmitSession => step \in {"upsert", "commit"} /\ q.device = d
        /\ Kind(s)' /\ ReadRow(s)' /\ Saved(s)' /\ Routers(s)'
  BY <1>1, <1>2, <1>5, <1>6, <1>7, AfterWriteLeadsOn
<1>9. step \in Step \ {"idle"}
  BY DEF Step
<1> QED BY <1>1, <1>2, <1>5, <1>8, <1>9, DeviceWrite

(* An UPDATE continues the row that is there, which is the one read or a   *)
(* later version of it.                                                    *)
LEMMA UpdatedRow ==
  ASSUME IInv, NEW s \in Session, pc[s] = "write", req[s].loaded # NoDevice,
         NEW d \in Device, d = req[s].device, NEW row, row = Updated(req[s], DeviceView(s, d))
  PROVE  /\ row \in DeviceRow /\ Continues(DeviceView(s, d), row)
         /\ row.vendor = req[s].vendor /\ Formed(row)
         /\ \A id \in {row.current, row.baseline} :
              id = 0 \/ (id = req[s].id /\ s \in SubmitSession) \/ HasSnapshot(d, id)
<1> DEFINE view == DeviceView(s, d)  loaded == req[s].loaded  new == Candidate(req[s])
<1>1. /\ req[s] \in Request
      /\ s \in SubmitSession <=> s \notin RegisterSession
      /\ s \in RegisterSession => req[s].found = NoDevice
  BY SessionKind
<1>2. /\ Continues(loaded, view) /\ Formed(loaded) /\ loaded.vendor = req[s].vendor
      /\ new.baseline = loaded.baseline
      /\ new.current = 0 <=> loaded.current = 0
  BY DEF IInv, SessionInvariant, ReadRow
<1>3. view # NoDevice /\ view \in DeviceRow /\ Formed(view)
  BY <1>2, ViewOfDevice DEF IInv, Continues
<1>4. /\ \A id \in {view.current, view.baseline} :
           id = 0 \/ (id = req[s].id /\ s \in SubmitSession) \/ HasSnapshot(d, id)
  BY <1>3, NamedSnapshots
<1>5. /\ new.current \in SnapshotId \cup {0}
      /\ new.current = 0 \/ (new.current = req[s].id /\ s \in SubmitSession)
  BY <1>1 DEF Candidate, Request
<1>6. req[s].time \in Time
  BY <1>1 DEF Request
<1> HIDE DEF view, loaded, new
<1>7. row = [view EXCEPT !.current = IF new.current # loaded.current THEN new.current ELSE @,
                         !.updated = IF req[s].time # loaded.updated THEN req[s].time ELSE @]
  BY <1>2, <1>3 DEF Updated, view, loaded, new, DeviceRow
<1>8. /\ row \in DeviceRow /\ row.vendor = view.vendor /\ row.created = view.created
      /\ row.baseline = view.baseline /\ row.current \in {new.current, view.current}
  BY <1>3, <1>5, <1>6, <1>7 DEF DeviceRow
<1>9. Continues(view, row)
  BY <1>8, NoDeviceAssumption DEF Continues
<1>10. row.vendor = req[s].vendor
  BY <1>2, <1>8 DEF Continues
<1>11. Formed(row)
  BY <1>2, <1>3, <1>8 DEF Formed, Continues
<1>12. \A id \in {row.current, row.baseline} :
         id = 0 \/ (id = req[s].id /\ s \in SubmitSession) \/ HasSnapshot(d, id)
  BY <1>4, <1>5, <1>8
<1> QED BY <1>8, <1>9, <1>10, <1>11, <1>12 DEF view

LEMMA UpdateKeeps ==
  ASSUME IInv, NEW s \in Session, UpdateDevice(s)
  PROVE  IInv'
<1>1. PICK d \in Device : d = req[s].device
  BY DEF IInv, TypeOK, Request
<1>2. /\ pc[s] = "write" /\ req[s].loaded # NoDevice /\ AfterWrite(s) /\ UNCHANGED storeVars
  BY DEF UpdateDevice
<1>3. CASE UNCHANGED devVars
  <2>1. \A e \in Device : DeviceView(s, e)' = DeviceView(s, e)
    BY <1>3 DEF DeviceView, devVars
  <2>2. DeviceView(s, d) # NoDevice /\ DeviceView(s, d).vendor = req[s].vendor
    BY <1>1, <1>2 DEF IInv, SessionInvariant, ReadRow, Continues
  <2>3. PICK step \in {"validate", "upsert", "commit"}, q \in Request :
          /\ Goto(s, step, q) /\ q.vendor = req[s].vendor /\ q.id = req[s].id
          /\ s \in SubmitSession => step \in {"upsert", "commit"} /\ q.device = d
          /\ Kind(s)' /\ ReadRow(s)' /\ Saved(s)' /\ Routers(s)'
    BY <1>1, <1>2, <2>1, <2>2, AfterWriteLeadsOn
  <2>4. step \in Step \ {"idle"}
    BY DEF Step
  <2> QED BY <1>2, <1>3, <2>3, <2>4, QuietMove
<1>4. CASE ~DeviceLocked(s, d) /\ WriteDevice(s, d, Updated(req[s], DeviceView(s, d)))
  <2> DEFINE row == Updated(req[s], DeviceView(s, d))
  <2>1. /\ row \in DeviceRow /\ Continues(DeviceView(s, d), row)
        /\ row.vendor = req[s].vendor /\ Formed(row)
        /\ \A id \in {row.current, row.baseline} :
             id = 0 \/ (id = req[s].id /\ s \in SubmitSession) \/ HasSnapshot(d, id)
    BY <1>1, <1>2, UpdatedRow
  <2> HIDE DEF row
  <2>2. WriteDevice(s, d, row)
    BY <1>4 DEF row
  <2>3. /\ DeviceView(s, d)' = row
        /\ \A e \in Device \ {d} : DeviceView(s, e)' = DeviceView(s, e)
    BY <2>2 DEF WriteDevice, DeviceView, IInv, TypeOK
  <2>4. row # NoDevice
    BY <2>1, NoDeviceAssumption
  <2>5. PICK step \in {"validate", "upsert", "commit"}, q \in Request :
          /\ Goto(s, step, q) /\ q.vendor = req[s].vendor /\ q.id = req[s].id
          /\ s \in SubmitSession => step \in {"upsert", "commit"} /\ q.device = d
          /\ Kind(s)' /\ ReadRow(s)' /\ Saved(s)' /\ Routers(s)'
    BY <1>1, <1>2, <2>1, <2>3, <2>4, AfterWriteLeadsOn
  <2>6. step \in Step \ {"idle"}
    BY DEF Step
  <2> QED BY <1>1, <1>2, <1>4, <2>1, <2>2, <2>5, <2>6, DeviceWrite
<1> QED BY <1>1, <1>3, <1>4 DEF UpdateDevice

-----------------------------------------------------------------------------
(* Every step keeps the invariant. *)

LEMMA InitInvariant == Init => IInv
<1> SUFFICES ASSUME Init PROVE IInv
  OBVIOUS
<1>1. 1 \in Time /\ 0 \in 0..MaxRequests
  BY DeviceAssumption, MaxTimeAssumption DEF Time
<1>2. StoreInvariant
  BY StoreInitInvariant DEF Init
<1>3. TypeOK
  <2>1. /\ FRR \in Vendor /\ <<>> \in Seq(Device) /\ {} \in SUBSET Fingerprint
        /\ LabRouters[1] \in Device /\ 1 \in SnapshotId
    BY DeviceAssumption DEF Vendor, SnapshotId
  <2>2. NoRequest \in Request
    BY <1>1, <2>1 DEF NoRequest, Request
  <2> QED BY <1>1, <1>2, <2>2, DeviceAssumption DEF Init, TypeOK, StoreInvariant, Step
<1>4. DeviceRows /\ SnapshotsMatchDevices /\ LabRegisteredTogether
  BY DEF Init, DeviceRows, SnapshotsMatchDevices, LabRegisteredTogether
<1>5. PolicyIncidentsHaveSnapshots /\ OwnIncidents
  BY DEF Init, StoreInit, PolicyIncidentsHaveSnapshots, OwnIncidents
<1>6. ASSUME NEW s \in Session PROVE SessionInvariant(s)
  BY NobodyAssumption DEF Init, SessionInvariant, OwnDevices, Kind, ReadRow, Saved, Routers
<1> QED BY <1>2, <1>3, <1>4, <1>5, <1>6 DEF IInv

LEMMA StandStill ==
  ASSUME IInv, UNCHANGED <<storeVars, devVars, snapshots, pc, req, accepted>>, now' \in Time
  PROVE  IInv'
<1>1. StoreInvariant'
  BY StoreStepInvariant DEF IInv
<1>2. TypeOK'
  BY <1>1 DEF IInv, TypeOK, StoreInvariant, devVars
<1>3. DeviceRows' /\ SnapshotsMatchDevices' /\ PolicyIncidentsHaveSnapshots' /\ LabRegisteredTogether'
      /\ OwnIncidents'
  BY DEF IInv, DeviceRows, SnapshotsMatchDevices, PolicyIncidentsHaveSnapshots,
         LabRegisteredTogether, OwnIncidents, storeVars, devVars
<1>4. ASSUME NEW q \in Session PROVE SessionInvariant(q)'
  BY OthersKeep DEF IInv, Continues, DeviceView, devVars
<1> QED BY <1>1, <1>2, <1>3, <1>4 DEF IInv

LEMMA NextKeeps == IInv /\ [Next]_vars => IInv'
<1> SUFFICES ASSUME IInv, [Next]_vars PROVE IInv'
  OBVIOUS
<1>1. ASSUME NEW s \in Session, Accept(s) PROVE IInv'
  BY <1>1, BeginKeeps
<1>2. ASSUME NEW s \in Session, Proceed(s) PROVE IInv'
  <2>1. CASE Lookup(s)
    BY <2>1, LookupKeeps
  <2>2. CASE CheckRouter(s)
    BY <2>2, CheckRouterKeeps
  <2>3. CASE Validate(s)
    BY <2>3, ValidateKeeps
  <2>4. CASE InsertDevice(s)
    BY <2>4, InsertKeeps
  <2>5. CASE InsertDuplicate(s)
    BY <2>5, DuplicateKeeps
  <2>6. CASE UpdateDevice(s)
    BY <2>6, UpdateKeeps
  <2>7. CASE UpsertIncident(s)
    BY <2>7, UpsertKeeps
  <2>8. CASE Commit(s)
    BY <2>8, CommitKeeps
  <2>9. CASE CheckConflict(s) \/ ValidateConflict(s) \/ Reraise(s) \/ UpsertStale(s)
    BY <2>9, AbortKeeps DEF CheckConflict, ValidateConflict, Reraise, UpsertStale
  <2> QED BY <1>2, <2>1, <2>2, <2>3, <2>4, <2>5, <2>6, <2>7, <2>8, <2>9 DEF Proceed
<1>3. ASSUME NEW s \in Session, Lost(s) PROVE IInv'
  BY <1>3, AbortKeeps DEF Lost
<1>4. CASE Tick
  <2>1. now' \in Time
    BY <1>4, MaxTimeAssumption DEF Tick, IInv, TypeOK, Time
  <2> QED BY <1>4, <2>1, StandStill DEF Tick
<1>5. CASE Quiescent \/ UNCHANGED vars
  <2>1. now' \in Time
    BY <1>5 DEF Quiescent, vars, IInv, TypeOK
  <2> QED BY <1>5, <2>1, StandStill DEF Quiescent, vars
<1> QED BY <1>1, <1>2, <1>3, <1>4, <1>5 DEF Next

LEMMA Invariance == Spec => []IInv
BY InitInvariant, NextKeeps, PTL DEF Spec

-----------------------------------------------------------------------------
(* What holds of the two services. *)

(* Whatever submissions and registrations run at once, every row, lock and *)
(* request stays within its type.                                          *)
THEOREM DeviceSubmissionsTypeCorrect == Spec => []TypeOK
<1>1. IInv => TypeOK
  BY DEF IInv
<1> QED BY Invariance, <1>1, PTL

(* A submission is stored whole or not at all: the snapshots a device      *)
(* refers to are stored with it and none is stored for a device that lost  *)
(* the race, and every policy incident was seen in a stored snapshot,      *)
(* although device, snapshot and incidents are written by statements of    *)
(* their own and validated against a row read before.                      *)
THEOREM SubmissionsStoredWhole == Spec => []StoredWhole
<1>1. IInv => StoredWhole
  BY DEF IInv, StoredWhole
<1> QED BY Invariance, <1>1, PTL

(* RegisterLabDevicesService stores all lab routers or none, also when     *)
(* several registrations and submissions of the same devices overlap.      *)
THEOREM RoutersRegisteredTogether == Spec => []LabRegisteredTogether
<1>1. IInv => LabRegisteredTogether
  BY DEF IInv
<1> QED BY Invariance, <1>1, PTL

(* No race of two saves removes a device or changes the vendor, the        *)
(* creation time or the baseline of a stored one, although the UPDATE      *)
(* overwrites a row other than the one _validate_transition compared with. *)
THEOREM IdentityFixed == Spec => DeviceIdentityFixed
<1> DEFINE Fixed == \A d \in Device : devices[d] # NoDevice =>
             /\ devices'[d] # NoDevice
             /\ devices'[d].vendor = devices[d].vendor
             /\ devices'[d].created = devices[d].created
             /\ devices'[d].baseline = devices[d].baseline
<1>1. IInv /\ [Next]_vars => [Fixed]_vars
  <2> SUFFICES ASSUME IInv, Next PROVE Fixed
    OBVIOUS
  <2>1. ASSUME NEW s \in Session, Commit(s) PROVE Fixed
    BY <2>1, CommitPublishes DEF Continues
  <2>2. devices' = devices \/ \E s \in Session : Commit(s)
    BY DEF Next, Accept, Proceed, Lost, Abort, BeginSubmission, BeginRegistration, Begin,
           Lookup, CheckRouter, CheckConflict, Validate, ValidateConflict, InsertDevice,
           InsertDuplicate, Reraise, UpdateDevice, UpsertIncident, UpsertStale, Tick,
           Quiescent, WriteDevice, vars, devVars
  <2> QED BY <2>1, <2>2
<1> QED BY Invariance, <1>1, PTL DEF Spec, DeviceIdentityFixed
=============================================================================
