---------------------------- MODULE BrowserProofs ----------------------------
(***************************************************************************)
(* Theorems about the parts of the browser, for any number of requests in  *)
(* flight, devices, collections, failures and clicks.  The composition     *)
(* takes the steps of each part and no others, so what holds of each part  *)
(* alone holds of the page.                                                *)
(***************************************************************************)
EXTENDS MCBrowser, IncidentListProofs

(* The page implements each of its parts. *)
LEMMA PageIsItsParts ==
  /\ BrowserSpec => Spec
  /\ BrowserSpec => Workspace!Spec
  /\ BrowserSpec => Panels!Spec
<1>1. BrowserInit => Init /\ Workspace!Init /\ Panels!Init
  BY DEF BrowserInit
<1>2. [BrowserNext]_all => [Next]_vars
  BY DEF BrowserNext, Lists, Works, Pages, all
<1>3. [BrowserNext]_all => [Workspace!Next]_(Workspace!vars)
  BY DEF BrowserNext, Lists, Works, Pages, all, workspaceVars,
         Workspace!vars, Workspace!server, Workspace!client
<1>4. [BrowserNext]_all => [Panels!Next]_(Panels!vars)
  BY DEF BrowserNext, Lists, Works, Pages, all, pageVars,
         Panels!vars, Panels!panelVars, Panels!formVars
<1> QED
  BY <1>1, <1>2, <1>3, <1>4, PTL DEF BrowserSpec, Spec, Workspace!Spec, Panels!Spec

-----------------------------------------------------------------------------
(* The live network workspace. *)

(* What a hook or a request holds is true of one collection: of its links  *)
(* only an incident that collection has seen is marked.                    *)
TrueOf(shows, data) ==
  /\ data.at <= fabric.at
  /\ data.down = shows[data.at]
  /\ data.linked # Workspace!NoIncident => data.down /\ data.linked = data.at

(* Some history of collections explains everything that is held. *)
ExplainedBy(shows) ==
  /\ shows[0] = FALSE /\ shows[fabric.at] = fabric.down
  /\ \A r \in requests : TrueOf(shows, r.data)
  /\ \A h \in Workspace!Hook : TrueOf(shows, workspaceView[h].data)

Explained == \E shows \in [0..MaxCollections -> BOOLEAN] : ExplainedBy(shows)

(* An OPEN incident was seen by the stored collection. *)
IncidentSeenLast == incident # Workspace!NoIncident => incident = fabric.at

(* A hook that shows no snapshot holds none. *)
NothingHeld ==
  \A h \in Workspace!Hook : workspaceView[h].status # "success" => workspaceView[h].data.at = 0

WorkspaceInvariant ==
  /\ Workspace!TypeOK
  /\ Workspace!WaitsForRequests
  /\ Explained
  /\ IncidentSeenLast
  /\ NothingHeld

LEMMA SomeRequestId == RequestId # {}
BY BrowserAssumption DEF Workspace!WorkspaceConstants

LEMMA WorkspaceBegins ==
  ASSUME Workspace!Init
  PROVE  WorkspaceInvariant
<1>1. /\ workspaceLatest \in [Workspace!Hook -> RequestId]
      /\ workspaceInFlight = workspaceLatest
      /\ Workspace!NoneSent \notin RequestId
  BY SomeRequestId, BrowserAssumption DEF Workspace!Init, Workspace!WorkspaceConstants
<1>2. /\ fabric \in Workspace!Collection /\ fabric.at = 0 /\ fabric.down = FALSE
      /\ incident = Workspace!NoIncident /\ incident \in 0..MaxCollections
      /\ workspaceFailures \in 0..MaxWorkspaceFailures /\ refreshes \in 0..MaxRefreshes
      /\ MaxCollections \in Nat
  BY BrowserAssumption
     DEF Workspace!Init, Workspace!WorkspaceConstants, Workspace!Collection, Workspace!NoIncident
<1>3. /\ Workspace!NoData \in Workspace!Data
      /\ Workspace!NoData.at = 0 /\ Workspace!NoData.down = FALSE
      /\ Workspace!NoData.linked = Workspace!NoIncident
  BY <1>2 DEF Workspace!NoData, Workspace!Data, Workspace!NoIncident
<1>4. \A h \in Workspace!Hook :
        workspaceView[h] =
          [status |-> "loading", data |-> Workspace!NoData, refreshing |-> FALSE, error |-> FALSE]
  BY DEF Workspace!Init
<1>5. \A h \in Workspace!Hook, i \in RequestId :
        /\ Workspace!Sent(h, i) \in Workspace!Request
        /\ Workspace!Sent(h, i).hook = h /\ Workspace!Sent(h, i).id = i
        /\ Workspace!Sent(h, i).data = Workspace!NoData
  BY <1>3 DEF Workspace!Request, Workspace!Sent
<1>6. requests = {Workspace!Sent(h, workspaceLatest[h]) : h \in Workspace!Hook}
  BY DEF Workspace!Init
<1>7. Workspace!TypeOK
  <2>1. requests \subseteq Workspace!Request
    BY <1>1, <1>5, <1>6
  <2>2. workspaceView \in [Workspace!Hook ->
          [status : {"loading", "noSnapshot", "success", "error"}, data : Workspace!Data,
           refreshing : BOOLEAN, error : BOOLEAN]]
    BY <1>3 DEF Workspace!Init
  <2> QED BY <1>1, <1>2, <2>1, <2>2 DEF Workspace!TypeOK
<1>8. Workspace!WaitsForRequests
  <2> SUFFICES ASSUME NEW h \in Workspace!Hook
               PROVE  /\ workspaceInFlight[h] # Workspace!NoneSent
                      /\ \E r \in requests : r.hook = h /\ r.id = workspaceInFlight[h]
                                            /\ Workspace!IsCurrent(r)
    BY DEF Workspace!WaitsForRequests
  <2> QED BY <1>1, <1>5, <1>6 DEF Workspace!IsCurrent
<1>9. Explained
  <2> DEFINE shows == [t \in 0..MaxCollections |-> FALSE]
  <2>1. shows \in [0..MaxCollections -> BOOLEAN] /\ shows[0] = FALSE
    BY <1>2
  <2> HIDE DEF shows
  <2>2. TrueOf(shows, Workspace!NoData)
    <3>1. Workspace!NoData.at <= fabric.at
      BY <1>2, <1>3
    <3>2. Workspace!NoData.down = shows[Workspace!NoData.at]
      BY <1>3, <2>1, Zenon
    <3> QED BY <1>3, <3>1, <3>2 DEF TrueOf
  <2>3. \A r \in requests : r.data = Workspace!NoData
    BY <1>1, <1>5, <1>6
  <2>4. \A h \in Workspace!Hook : workspaceView[h].data = Workspace!NoData
    BY <1>4
  <2>5. ExplainedBy(shows)
    BY <1>2, <2>1, <2>2, <2>3, <2>4 DEF ExplainedBy
  <2> QED BY <2>1, <2>5 DEF Explained
<1>10. IncidentSeenLast /\ NothingHeld
  BY <1>2, <1>3, <1>4 DEF IncidentSeenLast, NothingHeld
<1> QED BY <1>7, <1>8, <1>9, <1>10 DEF WorkspaceInvariant

(* A request that moves on stays the request of its hook and number. *)
LEMMA BegunRequests ==
  ASSUME Workspace!TypeOK, NEW H \in SUBSET Workspace!Hook, Workspace!BeginNewRequest(H)
  PROVE  /\ requests' \subseteq Workspace!Request
         /\ workspaceLatest' \in [Workspace!Hook -> RequestId]
         /\ workspaceInFlight' \in [Workspace!Hook -> RequestId \cup {Workspace!NoneSent}]
         /\ requests \subseteq requests'
         /\ \A r \in requests' \ requests : r.data = Workspace!NoData
         /\ \A h \in H : /\ workspaceInFlight'[h] = workspaceLatest'[h]
                         /\ workspaceInFlight'[h] # Workspace!NoneSent
                         /\ \E r \in requests' : r.hook = h /\ r.id = workspaceLatest'[h]
         /\ \A h \in Workspace!Hook \ H : /\ workspaceInFlight'[h] = workspaceInFlight[h]
                                           /\ workspaceLatest'[h] = workspaceLatest[h]
<1>1. PICK new \in [H -> RequestId] :
        /\ workspaceLatest' = [h \in Workspace!Hook |-> IF h \in H THEN new[h] ELSE workspaceLatest[h]]
        /\ workspaceInFlight' = [h \in Workspace!Hook |-> IF h \in H THEN new[h] ELSE workspaceInFlight[h]]
        /\ requests' = requests \cup {Workspace!Sent(h, new[h]) : h \in H}
  BY DEF Workspace!BeginNewRequest
<1>2. \A h \in H : new[h] \in RequestId /\ new[h] # Workspace!NoneSent
  BY BrowserAssumption DEF Workspace!WorkspaceConstants
<1>3. \A h \in H : /\ Workspace!Sent(h, new[h]) \in Workspace!Request
                   /\ Workspace!Sent(h, new[h]).data = Workspace!NoData
                   /\ Workspace!Sent(h, new[h]).hook = h /\ Workspace!Sent(h, new[h]).id = new[h]
  BY <1>2, BrowserAssumption
     DEF Workspace!Sent, Workspace!NoData, Workspace!Request, Workspace!Data,
         Workspace!NoIncident, Workspace!WorkspaceConstants
<1>4. requests' \subseteq Workspace!Request /\ requests \subseteq requests'
  BY <1>1, <1>3 DEF Workspace!TypeOK
<1>5. \A r \in requests' \ requests : r.data = Workspace!NoData
  BY <1>1, <1>3
<1>6. /\ workspaceLatest' \in [Workspace!Hook -> RequestId]
      /\ workspaceInFlight' \in [Workspace!Hook -> RequestId \cup {Workspace!NoneSent}]
  BY <1>1, <1>2 DEF Workspace!TypeOK
<1>7. \A h \in H : /\ workspaceInFlight'[h] = new[h] /\ workspaceLatest'[h] = new[h]
                   /\ Workspace!Sent(h, new[h]) \in requests'
  BY <1>1
<1>8. \A h \in Workspace!Hook \ H : /\ workspaceInFlight'[h] = workspaceInFlight[h]
                                    /\ workspaceLatest'[h] = workspaceLatest[h]
  BY <1>1
<1> QED BY <1>2, <1>3, <1>4, <1>5, <1>6, <1>7, <1>8

(* A request stays a request whatever stage it is in and whatever it holds. *)
LEMMA StagedRequest ==
  ASSUME NEW r \in Workspace!Request, NEW data \in Workspace!Data,
         NEW stage \in {"sent", "read", "ok", "notFound", "failed"}
  PROVE  [r EXCEPT !.stage = stage, !.data = data] \in Workspace!Request
<1>1. [r EXCEPT !.stage = stage] \in Workspace!Request
  BY SMT DEF Workspace!Request
<1>2. ASSUME NEW q \in Workspace!Request
      PROVE  [q EXCEPT !.data = data] \in Workspace!Request
  BY SMT DEF Workspace!Request
<1>3. [[r EXCEPT !.stage = stage] EXCEPT !.data = data] = [r EXCEPT !.stage = stage, !.data = data]
  BY SMT
<1> QED BY <1>1, <1>2, <1>3, Zenon

(* What a collection and its incident are read as. *)
LEMMA ReadData ==
  /\ Workspace!NoData \in Workspace!Data
  /\ Workspace!TypeOK =>
       [at |-> fabric.at, down |-> fabric.down, linked |-> Workspace!NoIncident] \in Workspace!Data
  /\ Workspace!TypeOK => \A d \in Workspace!Data :
       [d EXCEPT !.linked = IF d.down /\ incident <= d.at THEN incident ELSE Workspace!NoIncident]
         \in Workspace!Data
<1>1. MaxCollections \in Nat
  BY BrowserAssumption DEF Workspace!WorkspaceConstants
<1>2. Workspace!NoIncident \in 0..MaxCollections
  BY <1>1 DEF Workspace!NoIncident
<1>3. Workspace!NoData \in Workspace!Data
  BY <1>1, <1>2 DEF Workspace!NoData, Workspace!Data
<1>4. ASSUME Workspace!TypeOK
      PROVE  /\ fabric.at \in 0..MaxCollections /\ fabric.down \in BOOLEAN
             /\ incident \in 0..MaxCollections
  BY <1>4 DEF Workspace!TypeOK, Workspace!Collection
<1>5. ASSUME NEW d \in Workspace!Data, NEW i \in 0..MaxCollections
      PROVE  [d EXCEPT !.linked = i] \in Workspace!Data
  BY SMT DEF Workspace!Data
<1>6. ASSUME NEW at \in 0..MaxCollections, NEW down \in BOOLEAN
      PROVE  [at |-> at, down |-> down, linked |-> Workspace!NoIncident] \in Workspace!Data
  BY <1>2 DEF Workspace!Data
<1> QED BY <1>2, <1>3, <1>4, <1>5, <1>6

(* An answered or failed request is the same request, one stage further. *)
LEMMA AnsweredRequest ==
  ASSUME Workspace!TypeOK, NEW r \in requests, Workspace!Answer(r) \/ Workspace!Fail(r)
  PROVE  \E stage \in {"read", "ok", "notFound", "failed"}, data \in Workspace!Data :
           /\ requests' = (requests \ {r}) \cup {[r EXCEPT !.stage = stage, !.data = data]}
           /\ [r EXCEPT !.stage = stage, !.data = data] \in Workspace!Request
           /\ UNCHANGED <<fabric, incident, workspaceLatest, workspaceInFlight, workspaceView, refreshes>>
           /\ workspaceFailures' \in 0..MaxWorkspaceFailures
           /\ \/ data = Workspace!NoData
              \/ /\ data.at = fabric.at /\ data.down = fabric.down
                 /\ data.linked = Workspace!NoIncident
              \/ /\ data = [r.data EXCEPT !.linked =
                             IF r.data.down /\ incident <= r.data.at THEN incident ELSE Workspace!NoIncident]
<1> USE DEF Workspace!Advance, Workspace!server, Workspace!client
<1>1. r \in Workspace!Request /\ r.data \in Workspace!Data
  BY DEF Workspace!TypeOK, Workspace!Request
<1>2. workspaceFailures \in 0..MaxWorkspaceFailures
  BY DEF Workspace!TypeOK
<1>3. CASE Workspace!ReadFabric(r)
  <2> DEFINE data == [at |-> fabric.at, down |-> fabric.down, linked |-> Workspace!NoIncident]
             stage == IF fabric.at = 0 THEN "notFound" ELSE IF r.hook = "state" THEN "ok" ELSE "read"
  <2>1. data \in Workspace!Data
    BY ReadData
  <2>2. /\ requests' = (requests \ {r}) \cup {[r EXCEPT !.stage = stage, !.data = data]}
        /\ UNCHANGED <<fabric, incident, workspaceFailures, workspaceLatest, workspaceInFlight,
                       workspaceView, refreshes>>
    BY <1>3, Zenon DEF Workspace!ReadFabric
  <2>3. data.at = fabric.at /\ data.down = fabric.down /\ data.linked = Workspace!NoIncident
    OBVIOUS
  <2>4. stage \in {"read", "ok", "notFound", "failed"}
    OBVIOUS
  <2> HIDE DEF data, stage
  <2>5. [r EXCEPT !.stage = stage, !.data = data] \in Workspace!Request
    BY <1>1, <2>1, <2>4, StagedRequest
  <2> QED BY <1>2, <2>1, <2>2, <2>3, <2>4, <2>5
<1>4. CASE Workspace!ReadIncidents(r)
  <2> DEFINE data == [r.data EXCEPT !.linked =
                        IF r.data.down /\ incident <= r.data.at THEN incident ELSE Workspace!NoIncident]
  <2>1. data \in Workspace!Data
    BY <1>1, ReadData
  <2>2. /\ requests' = (requests \ {r}) \cup {[r EXCEPT !.stage = "ok", !.data = data]}
        /\ UNCHANGED <<fabric, incident, workspaceFailures, workspaceLatest, workspaceInFlight,
                       workspaceView, refreshes>>
    BY <1>4, Zenon DEF Workspace!ReadIncidents
  <2>3. data = [r.data EXCEPT !.linked =
                  IF r.data.down /\ incident <= r.data.at THEN incident ELSE Workspace!NoIncident]
    OBVIOUS
  <2> HIDE DEF data
  <2>4. [r EXCEPT !.stage = "ok", !.data = data] \in Workspace!Request
    BY <1>1, <2>1, StagedRequest
  <2> QED BY <1>2, <2>1, <2>2, <2>3, <2>4
<1>5. CASE Workspace!Fail(r)
  <2>1. /\ requests' = (requests \ {r}) \cup {[r EXCEPT !.stage = "failed", !.data = Workspace!NoData]}
        /\ UNCHANGED <<fabric, incident, workspaceLatest, workspaceInFlight, workspaceView, refreshes>>
        /\ workspaceFailures < MaxWorkspaceFailures /\ workspaceFailures' = workspaceFailures + 1
    BY <1>5, Zenon DEF Workspace!Fail
  <2>2. workspaceFailures' \in 0..MaxWorkspaceFailures
    BY <1>2, <2>1, BrowserAssumption DEF Workspace!WorkspaceConstants
  <2>3. [r EXCEPT !.stage = "failed", !.data = Workspace!NoData] \in Workspace!Request
    BY <1>1, ReadData, StagedRequest
  <2> QED BY <2>1, <2>2, <2>3, ReadData
<1> QED BY <1>3, <1>4, <1>5 DEF Workspace!Answer

HookViews ==
  [Workspace!Hook -> [status : {"loading", "noSnapshot", "success", "error"}, data : Workspace!Data,
                      refreshing : BOOLEAN, error : BOOLEAN]]

(* What a settled request does to its hook: it fills it, leaves what it    *)
(* shows, or shows that there is nothing.                                  *)
LEMMA DeliveredView ==
  ASSUME Workspace!TypeOK, NEW r \in requests, Workspace!Deliver(r)
  PROVE  /\ requests' = requests \ {r}
         /\ UNCHANGED <<fabric, incident, workspaceLatest, workspaceFailures, refreshes>>
         /\ workspaceView' \in HookViews
         /\ workspaceInFlight' \in [Workspace!Hook -> RequestId \cup {Workspace!NoneSent}]
         /\ \A h \in Workspace!Hook :
              \/ /\ workspaceView'[h] = workspaceView[h] /\ workspaceInFlight'[h] = workspaceInFlight[h]
                 /\ r.hook = h => r.id # workspaceLatest[h]
              \/ /\ r.hook = h /\ r.id = workspaceLatest[h]
                 /\ workspaceInFlight'[h] =
                      IF workspaceInFlight[h] = r.id THEN Workspace!NoneSent ELSE workspaceInFlight[h]
                 /\ ~workspaceView'[h].refreshing /\ workspaceView'[h].status # "loading"
                 /\ \/ /\ workspaceView'[h].status = "success" /\ workspaceView'[h].data = r.data
                       /\ workspaceView[h].data.at = 0 \/ r.data.at >= workspaceView[h].data.at
                    \/ workspaceView'[h].status = "success" /\ workspaceView'[h].data = workspaceView[h].data
                    \/ /\ workspaceView'[h].status # "success" /\ workspaceView[h].status # "success"
                       /\ workspaceView'[h].data = Workspace!NoData
<1> DEFINE v == workspaceView[r.hook]
           w == Workspace!Received(v, r)
<1>1. /\ r \in Workspace!Request /\ r.hook \in Workspace!Hook /\ r.data \in Workspace!Data
      /\ workspaceView \in HookViews /\ r.stage \in {"ok", "notFound", "failed"}
  BY DEF Workspace!TypeOK, Workspace!Request, Workspace!Deliver, HookViews
<1>2. v \in [status : {"loading", "noSnapshot", "success", "error"}, data : Workspace!Data,
            refreshing : BOOLEAN, error : BOOLEAN]
  BY <1>1 DEF HookViews
<1>3. /\ w \in [status : {"loading", "noSnapshot", "success", "error"}, data : Workspace!Data,
               refreshing : BOOLEAN, error : BOOLEAN]
      /\ ~w.refreshing /\ w.status # "loading"
      /\ \/ w.status = "success" /\ w.data = r.data /\ (v.data.at = 0 \/ r.data.at >= v.data.at)
         \/ w.status = "success" /\ w.data = v.data
         \/ w.status # "success" /\ v.status # "success" /\ w.data = Workspace!NoData
  <2> HIDE DEF v
  <2>1. CASE r.stage = "ok"
    <3>1. w = [status |-> "success", data |-> Workspace!Reconcile(v.data, r.data),
               refreshing |-> FALSE, error |-> FALSE]
      BY <2>1 DEF Workspace!Received
    <3>2. \/ /\ Workspace!Reconcile(v.data, r.data) = r.data
             /\ v.data.at = 0 \/ r.data.at >= v.data.at
          \/ Workspace!Reconcile(v.data, r.data) = v.data
      BY DEF Workspace!Reconcile
    <3>3. Workspace!Reconcile(v.data, r.data) \in Workspace!Data
      BY <1>1, <1>2 DEF Workspace!Reconcile
    <3> HIDE DEF w
    <3> QED BY <3>1, <3>2, <3>3
  <2>2. CASE r.stage # "ok" /\ v.status = "success"
    <3>1. w = [v EXCEPT !.refreshing = FALSE, !.error = TRUE]
      BY <2>2 DEF Workspace!Received
    <3> HIDE DEF w
    <3> QED BY <1>2, <2>2, <3>1
  <2>3. CASE r.stage # "ok" /\ v.status # "success"
    <3>1. w = [status |-> IF r.stage = "notFound" THEN "noSnapshot" ELSE "error",
               data |-> Workspace!NoData, refreshing |-> FALSE, error |-> r.stage # "notFound"]
      BY <2>3 DEF Workspace!Received
    <3>2. Workspace!NoData \in Workspace!Data
      BY BrowserAssumption DEF Workspace!NoData, Workspace!Data, Workspace!NoIncident,
                               Workspace!WorkspaceConstants
    <3> HIDE DEF w
    <3> QED BY <2>3, <3>1, <3>2
  <2> QED BY <2>1, <2>2, <2>3
<1> HIDE DEF w
<1>4. CASE Workspace!IsCurrent(r)
  <2>1. /\ workspaceView' = [workspaceView EXCEPT ![r.hook] = w]
        /\ workspaceInFlight' = [workspaceInFlight EXCEPT ![r.hook] =
              IF @ = r.id THEN Workspace!NoneSent ELSE @]
        /\ workspaceLatest[r.hook] = r.id
    BY <1>4 DEF Workspace!Deliver, Workspace!IsCurrent, w
  <2>2. /\ workspaceView' \in HookViews
        /\ \A h \in Workspace!Hook : workspaceView'[h] = IF h = r.hook THEN w ELSE workspaceView[h]
    BY <1>1, <1>3, <2>1 DEF HookViews
  <2>3. /\ workspaceInFlight' \in [Workspace!Hook -> RequestId \cup {Workspace!NoneSent}]
        /\ \A h \in Workspace!Hook : workspaceInFlight'[h] =
             IF h = r.hook
             THEN IF workspaceInFlight[h] = r.id THEN Workspace!NoneSent ELSE workspaceInFlight[h]
             ELSE workspaceInFlight[h]
    BY <1>1, <2>1 DEF Workspace!TypeOK
  <2> QED BY <1>3, <2>1, <2>2, <2>3 DEF Workspace!Deliver, Workspace!server
<1>5. CASE ~Workspace!IsCurrent(r)
  BY <1>1, <1>5 DEF Workspace!Deliver, Workspace!server, Workspace!IsCurrent, Workspace!TypeOK
<1> QED BY <1>4, <1>5

(* A refresh changes what the hooks say they wait for, not what they show. *)
LEMMA RefreshedView ==
  ASSUME Workspace!TypeOK, NEW H \in SUBSET Workspace!Hook, Workspace!Refresh(H)
  PROVE  /\ workspaceView' \in HookViews
         /\ \A h \in Workspace!Hook :
              /\ workspaceView'[h].data = workspaceView[h].data
              /\ workspaceView'[h].status = "success" <=> workspaceView[h].status = "success"
              /\ h \notin H => workspaceView'[h] = workspaceView[h]
<1>1. workspaceView \in HookViews
  BY DEF Workspace!TypeOK, HookViews
<1>2. workspaceView' = [h \in Workspace!Hook |->
        IF h \notin H \/ h = "diagnosis" THEN workspaceView[h]
        ELSE IF workspaceView[h].status \in {"success", "noSnapshot"}
        THEN [workspaceView[h] EXCEPT !.refreshing = TRUE]
        ELSE [workspaceView[h] EXCEPT !.status = "loading", !.error = FALSE]]
  BY DEF Workspace!Refresh
<1> QED BY <1>1, <1>2 DEF HookViews

LEMMA WorkspaceTypeStep ==
  ASSUME Workspace!TypeOK, [Workspace!Next]_(Workspace!vars)
  PROVE  Workspace!TypeOK'
<1> USE BrowserAssumption DEF Workspace!WorkspaceConstants
<1>1. ASSUME NEW down \in BOOLEAN, Workspace!Ingest(down)
      PROVE  Workspace!TypeOK'
  BY <1>1 DEF Workspace!TypeOK, Workspace!Ingest, Workspace!Collection, Workspace!NoIncident, Workspace!client
<1>2. CASE Workspace!ResolveByHand
  BY <1>2 DEF Workspace!TypeOK, Workspace!ResolveByHand, Workspace!NoIncident, Workspace!client
<1>3. ASSUME NEW r \in requests, Workspace!Answer(r) \/ Workspace!Fail(r)
      PROVE  Workspace!TypeOK'
  BY <1>3, AnsweredRequest DEF Workspace!TypeOK
<1>4. ASSUME NEW r \in requests, Workspace!Deliver(r)
      PROVE  Workspace!TypeOK'
  BY <1>4, DeliveredView DEF Workspace!TypeOK, HookViews
<1>5. ASSUME NEW H \in {Workspace!Hook, {"state"}, {"diagnosis"}}, Workspace!Refresh(H)
      PROVE  Workspace!TypeOK'
  <2>1. H \in SUBSET Workspace!Hook
    BY DEF Workspace!Hook
  <2>2. Workspace!BeginNewRequest(H) /\ UNCHANGED <<fabric, incident, workspaceFailures>>
        /\ refreshes < MaxRefreshes /\ refreshes' = refreshes + 1
    BY <1>5 DEF Workspace!Refresh, Workspace!server
  <2> QED BY <1>5, <2>1, <2>2, BegunRequests, RefreshedView DEF Workspace!TypeOK, HookViews
<1>6. CASE Workspace!Tick
  <2>1. Workspace!BeginNewRequest({h \in Workspace!Hook : workspaceInFlight[h] = Workspace!NoneSent})
        /\ UNCHANGED <<fabric, incident, workspaceFailures, workspaceView, refreshes>>
    BY <1>6 DEF Workspace!Tick, Workspace!server
  <2> QED BY <2>1, BegunRequests DEF Workspace!TypeOK
<1>7. CASE UNCHANGED Workspace!vars
  BY <1>7 DEF Workspace!TypeOK, Workspace!vars, Workspace!server, Workspace!client
<1> QED BY <1>1, <1>2, <1>3, <1>4, <1>5, <1>6, <1>7 DEF Workspace!Next

(* The request a hook waits for is still under way after every step.       *)
LEMMA WaitsStep ==
  ASSUME Workspace!TypeOK, Workspace!WaitsForRequests, [Workspace!Next]_(Workspace!vars)
  PROVE  Workspace!WaitsForRequests'
<1> DEFINE Waiting(h) == workspaceView[h].refreshing \/ workspaceView[h].status = "loading"
           UnderWay(h) == \E r \in requests : r.hook = h /\ r.id = workspaceInFlight[h]
           Awaited(h) == /\ Waiting(h) => workspaceInFlight[h] # Workspace!NoneSent
                         /\ workspaceInFlight[h] # Workspace!NoneSent =>
                              workspaceInFlight[h] = workspaceLatest[h] /\ UnderWay(h)
<1>1. Workspace!WaitsForRequests <=> \A h \in Workspace!Hook : Awaited(h)
  BY DEF Workspace!WaitsForRequests, Workspace!IsCurrent
<1>2. Workspace!WaitsForRequests' <=> \A h \in Workspace!Hook : Awaited(h)'
  BY DEF Workspace!WaitsForRequests, Workspace!IsCurrent
<1>3. SUFFICES ASSUME NEW h \in Workspace!Hook, Awaited(h)
               PROVE  Awaited(h)'
  BY <1>1, <1>2
<1>4. ASSUME UNCHANGED <<workspaceView, workspaceInFlight, workspaceLatest>>,
             UnderWay(h) => UnderWay(h)'
      PROVE  Awaited(h)'
  BY <1>3, <1>4
<1>5. ASSUME UNCHANGED <<workspaceView, workspaceInFlight, workspaceLatest, requests>>
      PROVE  Awaited(h)'
  BY <1>3, <1>5
<1>6. ASSUME NEW r \in requests, Workspace!Answer(r) \/ Workspace!Fail(r)
      PROVE  Awaited(h)'
  <2>1. PICK stage \in {"read", "ok", "notFound", "failed"}, data \in Workspace!Data :
          /\ requests' = (requests \ {r}) \cup {[r EXCEPT !.stage = stage, !.data = data]}
          /\ UNCHANGED <<workspaceView, workspaceInFlight, workspaceLatest>>
    BY <1>6, AnsweredRequest
  <2> DEFINE moved == [r EXCEPT !.stage = stage, !.data = data]
  <2>2. moved \in requests' /\ moved.hook = r.hook /\ moved.id = r.id
    BY <2>1 DEF Workspace!TypeOK, Workspace!Request
  <2>3. \A q \in requests : q # r => q \in requests'
    BY <2>1
  <2> HIDE DEF moved
  <2>4. UnderWay(h) => UnderWay(h)'
    BY <2>1, <2>2, <2>3
  <2> QED BY <1>4, <2>1, <2>4
<1>7. ASSUME NEW r \in requests, Workspace!Deliver(r)
      PROVE  Awaited(h)'
  <2>1. CASE r.hook = h /\ r.id = workspaceLatest[h]
    <3>1. /\ workspaceInFlight'[h] =
               IF workspaceInFlight[h] = r.id THEN Workspace!NoneSent ELSE workspaceInFlight[h]
          /\ ~Waiting(h)'
      BY <1>7, <2>1, DeliveredView
    <3>2. workspaceInFlight'[h] = Workspace!NoneSent
      BY <1>3, <2>1, <3>1
    <3> QED BY <3>1, <3>2
  <2>2. CASE ~(r.hook = h /\ r.id = workspaceLatest[h])
    <3>1. /\ workspaceView'[h] = workspaceView[h] /\ workspaceInFlight'[h] = workspaceInFlight[h]
          /\ workspaceLatest'[h] = workspaceLatest[h] /\ requests' = requests \ {r}
      BY <1>7, <2>2, DeliveredView
    <3>2. workspaceInFlight[h] = workspaceLatest[h] /\ UnderWay(h) => UnderWay(h)'
      BY <2>2, <3>1
    <3> QED BY <1>3, <3>1, <3>2
  <2> QED BY <2>1, <2>2
<1>8. ASSUME NEW H \in SUBSET Workspace!Hook, Workspace!BeginNewRequest(H),
             h \notin H => workspaceView'[h] = workspaceView[h]
      PROVE  Awaited(h)'
  <2>1. CASE h \in H
    BY <1>8, <2>1, BegunRequests
  <2>2. CASE h \notin H
    <3>1. /\ workspaceInFlight'[h] = workspaceInFlight[h] /\ workspaceLatest'[h] = workspaceLatest[h]
          /\ workspaceView'[h] = workspaceView[h] /\ requests \subseteq requests'
      BY <1>8, <2>2, BegunRequests
    <3> QED BY <1>3, <3>1
  <2> QED BY <2>1, <2>2
<1>9. ASSUME NEW H \in {Workspace!Hook, {"state"}, {"diagnosis"}}, Workspace!Refresh(H)
      PROVE  Awaited(h)'
  <2>1. H \in SUBSET Workspace!Hook /\ Workspace!BeginNewRequest(H)
    BY <1>9 DEF Workspace!Hook, Workspace!Refresh
  <2> QED BY <1>8, <1>9, <2>1, RefreshedView
<1>10. CASE Workspace!Tick
  BY <1>8, <1>10 DEF Workspace!Tick
<1> HIDE DEF Awaited
<1>11. CASE Workspace!ResolveByHand \/ UNCHANGED Workspace!vars
  BY <1>5, <1>11 DEF Workspace!ResolveByHand, Workspace!vars, Workspace!client
<1>12. ASSUME NEW down \in BOOLEAN, Workspace!Ingest(down)
       PROVE  Awaited(h)'
  BY <1>5, <1>12 DEF Workspace!Ingest, Workspace!client
<1> QED BY <1>6, <1>7, <1>9, <1>10, <1>11, <1>12 DEF Workspace!Next

(* The answers of the two queries stay true of the collections ingested.   *)
LEMMA ExplainedStep ==
  ASSUME WorkspaceInvariant, [Workspace!Next]_(Workspace!vars)
  PROVE  Explained'
<1>1. PICK shows \in [0..MaxCollections -> BOOLEAN] : ExplainedBy(shows)
  BY DEF WorkspaceInvariant, Explained
<1>2. /\ Workspace!TypeOK /\ IncidentSeenLast /\ MaxCollections \in Nat
      /\ fabric.at \in 0..MaxCollections /\ incident \in 0..MaxCollections
      /\ \A r \in requests : r \in Workspace!Request /\ r.data \in Workspace!Data
      /\ \A h \in Workspace!Hook : workspaceView[h].data \in Workspace!Data
  BY BrowserAssumption DEF WorkspaceInvariant, Workspace!TypeOK, Workspace!Request,
     Workspace!Collection, Workspace!WorkspaceConstants
<1>3. TrueOf(shows, Workspace!NoData)
  <2>1. /\ Workspace!NoData.at = 0 /\ Workspace!NoData.down = FALSE
        /\ Workspace!NoData.linked = Workspace!NoIncident
    BY DEF Workspace!NoData
  <2>2. Workspace!NoData.at <= fabric.at
    BY <1>2, <2>1
  <2>3. Workspace!NoData.down = shows[Workspace!NoData.at]
    BY <1>1, <2>1, Zenon DEF ExplainedBy
  <2> QED BY <2>1, <2>2, <2>3 DEF TrueOf
<1>4. ASSUME UNCHANGED fabric,
             \A r \in requests' : r \in requests \/ TrueOf(shows, r.data),
             \A h \in Workspace!Hook : TrueOf(shows, workspaceView'[h].data)
      PROVE  Explained'
  BY <1>1, <1>4 DEF Explained, ExplainedBy, TrueOf
<1>5. \A h \in Workspace!Hook : TrueOf(shows, workspaceView[h].data)
  BY <1>1 DEF ExplainedBy
<1>6. ASSUME NEW down \in BOOLEAN, Workspace!Ingest(down)
      PROVE  Explained'
  <2>1. /\ fabric'.at = fabric.at + 1 /\ fabric'.down = down /\ fabric'.at \in 0..MaxCollections
        /\ UNCHANGED <<requests, workspaceView>>
    BY <1>2, <1>6 DEF Workspace!Ingest, Workspace!client
  <2>2. PICK next \in [0..MaxCollections -> BOOLEAN] :
          /\ next[fabric'.at] = fabric'.down
          /\ \A t \in 0..fabric.at : next[t] = shows[t]
    <3> WITNESS [shows EXCEPT ![fabric.at + 1] = down] \in [0..MaxCollections -> BOOLEAN]
    <3> QED BY <1>2, <2>1
  <2>3. next[0] = FALSE
    BY <1>1, <1>2, <2>2 DEF ExplainedBy
  <2>4. ASSUME NEW data \in Workspace!Data, TrueOf(shows, data)
        PROVE  TrueOf(next, data)'
    <3>1. data.at \in 0..fabric.at
      BY <1>2, <2>4 DEF TrueOf, Workspace!Data
    <3>2. data.at <= fabric'.at
      BY <1>2, <2>1, <3>1
    <3>3. data.down = next[data.at]
      BY <2>2, <2>4, <3>1 DEF TrueOf
    <3> QED BY <2>4, <3>2, <3>3 DEF TrueOf
  <2>5. \A r \in requests' : TrueOf(next, r.data)'
    BY <1>1, <1>2, <2>1, <2>4 DEF ExplainedBy
  <2>6. \A h \in Workspace!Hook : TrueOf(next, workspaceView[h].data)'
    BY <1>2, <1>5, <2>1, <2>4
  <2>7. ExplainedBy(next)'
    BY <2>2, <2>3, <2>5, <2>6 DEF ExplainedBy
  <2> QED BY <2>2, <2>7 DEF Explained
<1>7. CASE Workspace!ResolveByHand \/ UNCHANGED Workspace!vars
  BY <1>4, <1>5, <1>7 DEF Workspace!ResolveByHand, Workspace!vars, Workspace!client, Workspace!server
<1>8. ASSUME NEW r \in requests, Workspace!Answer(r) \/ Workspace!Fail(r)
      PROVE  Explained'
  <2>1. PICK stage \in {"read", "ok", "notFound", "failed"}, data \in Workspace!Data :
          /\ requests' = (requests \ {r}) \cup {[r EXCEPT !.stage = stage, !.data = data]}
          /\ [r EXCEPT !.stage = stage, !.data = data] \in Workspace!Request
          /\ UNCHANGED <<fabric, workspaceView>>
          /\ \/ data = Workspace!NoData
             \/ data.at = fabric.at /\ data.down = fabric.down /\ data.linked = Workspace!NoIncident
             \/ data = [r.data EXCEPT !.linked =
                   IF r.data.down /\ incident <= r.data.at THEN incident ELSE Workspace!NoIncident]
    BY <1>2, <1>8, AnsweredRequest
  <2>2. [r EXCEPT !.stage = stage, !.data = data].data = data
    BY <1>2 DEF Workspace!Request
  <2>3. TrueOf(shows, data)
    <3>1. CASE data = Workspace!NoData
      BY <1>3, <3>1
    <3>2. CASE data.at = fabric.at /\ data.down = fabric.down /\ data.linked = Workspace!NoIncident
      BY <1>1, <1>2, <3>2 DEF ExplainedBy, TrueOf
    <3>3. CASE data = [r.data EXCEPT !.linked =
                 IF r.data.down /\ incident <= r.data.at THEN incident ELSE Workspace!NoIncident]
      <4>1. /\ data.at = r.data.at /\ data.down = r.data.down
            /\ data.linked = IF r.data.down /\ incident <= r.data.at THEN incident ELSE Workspace!NoIncident
        BY <1>2, <3>3 DEF Workspace!Data
      <4>2. TrueOf(shows, r.data)
        BY <1>1 DEF ExplainedBy
      <4>3. ASSUME data.linked # Workspace!NoIncident
            PROVE  data.down /\ data.linked = data.at
        <5>1. r.data.down /\ incident <= r.data.at /\ data.linked = incident
          BY <4>1, <4>3
        <5>2. incident = fabric.at /\ r.data.at <= fabric.at
          BY <1>2, <4>2, <4>3, <5>1 DEF IncidentSeenLast, TrueOf
        <5>3. r.data.at \in Nat /\ fabric.at \in Nat
          BY <1>2 DEF Workspace!Data
        <5> QED BY <4>1, <5>1, <5>2, <5>3
      <4> QED BY <4>1, <4>2, <4>3 DEF TrueOf
    <3> QED BY <2>1, <3>1, <3>2, <3>3
  <2> QED BY <1>4, <1>5, <2>1, <2>2, <2>3
<1>9. ASSUME NEW r \in requests, Workspace!Deliver(r)
      PROVE  Explained'
  <2>1. TrueOf(shows, r.data)
    BY <1>1 DEF ExplainedBy
  <2>2. UNCHANGED fabric /\ requests' = requests \ {r}
    BY <1>2, <1>9, DeliveredView
  <2>3. \A h \in Workspace!Hook : workspaceView'[h].data \in {workspaceView[h].data, r.data, Workspace!NoData}
    BY <1>2, <1>9, DeliveredView
  <2> QED BY <1>3, <1>4, <1>5, <2>1, <2>2, <2>3
<1>10. ASSUME NEW H \in SUBSET Workspace!Hook, Workspace!BeginNewRequest(H), UNCHANGED fabric,
              \A h \in Workspace!Hook : workspaceView'[h].data = workspaceView[h].data
       PROVE  Explained'
  <2>1. \A r \in requests' : r \in requests \/ TrueOf(shows, r.data)
    BY <1>2, <1>3, <1>10, BegunRequests
  <2> QED BY <1>4, <1>5, <1>10, <2>1
<1>11. ASSUME NEW H \in {Workspace!Hook, {"state"}, {"diagnosis"}}, Workspace!Refresh(H)
       PROVE  Explained'
  <2>1. H \in SUBSET Workspace!Hook /\ Workspace!BeginNewRequest(H) /\ UNCHANGED fabric
    BY <1>11 DEF Workspace!Hook, Workspace!Refresh, Workspace!server
  <2> QED BY <1>2, <1>10, <1>11, <2>1, RefreshedView
<1>12. CASE Workspace!Tick
  BY <1>10, <1>12 DEF Workspace!Tick, Workspace!server
<1> QED BY <1>6, <1>7, <1>8, <1>9, <1>11, <1>12 DEF Workspace!Next

(* No step takes back what a hook shows. *)
LEMMA NothingTakenBack ==
  ASSUME WorkspaceInvariant, [Workspace!Next]_(Workspace!vars), NEW h \in Workspace!Hook
  PROVE  /\ workspaceView[h].data.at <= workspaceView'[h].data.at
         /\ workspaceView[h].status = "success" => workspaceView'[h].status = "success"
         /\ workspaceView'[h].status # "success" => workspaceView'[h].data.at = 0
<1> DEFINE Kept == /\ workspaceView'[h].data = workspaceView[h].data
                   /\ workspaceView'[h].status = "success" <=> workspaceView[h].status = "success"
<1>1. /\ Workspace!TypeOK /\ workspaceView[h].data \in Workspace!Data
      /\ workspaceView[h].data.at \in Nat
      /\ workspaceView[h].status # "success" => workspaceView[h].data.at = 0
      /\ \A r \in requests : r.data.at \in Nat
  BY DEF WorkspaceInvariant, NothingHeld, Workspace!TypeOK, Workspace!Data, Workspace!Request
<1>2. CASE Kept
  BY <1>1, <1>2
<1>3. ASSUME NEW r \in requests, Workspace!Deliver(r)
      PROVE  /\ workspaceView[h].data.at <= workspaceView'[h].data.at
             /\ workspaceView[h].status = "success" => workspaceView'[h].status = "success"
             /\ workspaceView'[h].status # "success" => workspaceView'[h].data.at = 0
  <2>1. CASE workspaceView'[h] = workspaceView[h]
    BY <1>1, <2>1
  <2>2. CASE /\ workspaceView'[h].status = "success" /\ workspaceView'[h].data = r.data
             /\ workspaceView[h].data.at = 0 \/ r.data.at >= workspaceView[h].data.at
    BY <1>1, <2>2
  <2>3. CASE workspaceView'[h].status = "success" /\ workspaceView'[h].data = workspaceView[h].data
    BY <1>1, <2>3
  <2>4. CASE /\ workspaceView'[h].status # "success" /\ workspaceView[h].status # "success"
             /\ workspaceView'[h].data = Workspace!NoData
    BY <1>1, <2>4 DEF Workspace!NoData
  <2> QED BY <1>1, <1>3, <2>1, <2>2, <2>3, <2>4, DeliveredView
<1>4. ASSUME NEW r \in requests, Workspace!Answer(r) \/ Workspace!Fail(r)
      PROVE  Kept
  BY <1>1, <1>4, AnsweredRequest
<1>5. ASSUME NEW H \in {Workspace!Hook, {"state"}, {"diagnosis"}}, Workspace!Refresh(H)
      PROVE  Kept
  <2>1. H \in SUBSET Workspace!Hook
    BY DEF Workspace!Hook
  <2> QED BY <1>1, <1>5, <2>1, RefreshedView
<1>6. ASSUME \/ \E down \in BOOLEAN : Workspace!Ingest(down)
             \/ Workspace!ResolveByHand \/ Workspace!Tick \/ UNCHANGED Workspace!vars
      PROVE  Kept
  BY <1>6 DEF Workspace!Ingest, Workspace!ResolveByHand, Workspace!Tick, Workspace!vars, Workspace!client
<1> QED BY <1>2, <1>3, <1>4, <1>5, <1>6 DEF Workspace!Next

LEMMA SeenLastStep ==
  ASSUME WorkspaceInvariant, [Workspace!Next]_(Workspace!vars)
  PROVE  IncidentSeenLast'
<1>1. Workspace!TypeOK /\ IncidentSeenLast
  BY DEF WorkspaceInvariant
<1>2. ASSUME NEW down \in BOOLEAN, Workspace!Ingest(down)
      PROVE  IncidentSeenLast'
  BY <1>2 DEF Workspace!Ingest, IncidentSeenLast
<1>3. CASE Workspace!ResolveByHand
  BY <1>3 DEF Workspace!ResolveByHand, IncidentSeenLast
<1>4. ASSUME NEW r \in requests, Workspace!Answer(r) \/ Workspace!Fail(r) \/ Workspace!Deliver(r)
      PROVE  UNCHANGED <<fabric, incident>>
  BY <1>1, <1>4, AnsweredRequest, DeliveredView
<1>5. ASSUME \/ \E H \in {Workspace!Hook, {"state"}, {"diagnosis"}} : Workspace!Refresh(H)
             \/ Workspace!Tick \/ UNCHANGED Workspace!vars
      PROVE  UNCHANGED <<fabric, incident>>
  BY <1>5 DEF Workspace!Refresh, Workspace!Tick, Workspace!vars, Workspace!server
<1>6. UNCHANGED <<fabric, incident>> => IncidentSeenLast'
  BY <1>1 DEF IncidentSeenLast
<1> QED BY <1>2, <1>3, <1>4, <1>5, <1>6 DEF Workspace!Next

LEMMA WorkspaceInvariantHolds ==
  Workspace!Spec => []WorkspaceInvariant
<1>1. ASSUME WorkspaceInvariant, [Workspace!Next]_(Workspace!vars)
      PROVE  WorkspaceInvariant'
  <2>1. Workspace!TypeOK' /\ Workspace!WaitsForRequests'
    BY <1>1, WorkspaceTypeStep, WaitsStep DEF WorkspaceInvariant
  <2>2. Explained' /\ IncidentSeenLast'
    BY <1>1, ExplainedStep, SeenLastStep
  <2>3. NothingHeld'
    BY <1>1, NothingTakenBack DEF NothingHeld
  <2> QED BY <2>1, <2>2, <2>3 DEF WorkspaceInvariant
<1> QED BY <1>1, WorkspaceBegins, PTL DEF Workspace!Spec

(* One collection explains state and diagnosis when both are of one time.  *)
LEMMA MarksBelongTogether ==
  ASSUME WorkspaceInvariant
  PROVE  Workspace!MarksBelong
<1>1. PICK shows \in [0..MaxCollections -> BOOLEAN] : ExplainedBy(shows)
  BY DEF WorkspaceInvariant, Explained
<1>2. \A h \in Workspace!Hook : TrueOf(shows, Workspace!Shown(h))
  BY <1>1 DEF ExplainedBy, Workspace!Shown
<1>3. "state" \in Workspace!Hook /\ "diagnosis" \in Workspace!Hook
  BY DEF Workspace!Hook
<1> QED BY <1>2, <1>3 DEF Workspace!MarksBelong, Workspace!Aligned, TrueOf

LEMMA WorkspaceNeverOlder ==
  Workspace!Spec => Workspace!NeverOlder
<1>1. ASSUME WorkspaceInvariant, [Workspace!Next]_(Workspace!vars)
      PROVE  \A h \in Workspace!Hook :
               /\ Workspace!Shown(h).at <= Workspace!Shown(h)'.at
               /\ workspaceView[h].status = "success" => workspaceView'[h].status = "success"
  BY <1>1, NothingTakenBack DEF Workspace!Shown
<1> QED BY <1>1, WorkspaceInvariantHolds, PTL DEF Workspace!Spec, Workspace!NeverOlder

-----------------------------------------------------------------------------
(* The telemetry panel. *)

(* The answers of a cycle are counts the server has had; the latest cycle  *)
(* is of the panel's device, and what it has been answered is no older     *)
(* than what the panel shows.                                              *)
CyclesMatchPanel ==
  /\ \A c, d \in cycles : c.id = d.id => c = d
  /\ \A c \in cycles : \A p \in Panels!Parts : c.parts[p].v <= stored[c.device][p]
  /\ \A c \in cycles : c.id = latest =>
       /\ c.device = panel.device
       /\ \A p \in Panels!Parts : Panels!Ok(c, p) => panel.data[p].v <= c.parts[p].v
  /\ panel.device # NoDevice => \A p \in Panels!Parts : panel.data[p].v <= stored[panel.device][p]

(* A submission stored and not yet reported is reported once.              *)
ReportsOwed == notified + (IF post = "done" THEN 1 ELSE 0) <= executed

(* The steps of the panel and those of the form do not disturb each other. *)
PanelOK ==
  /\ stored \in [Device -> [Panels!Parts -> 0..MaxVersion]]
  /\ cycles \subseteq Panels!Cycle /\ latest \in CycleId
  /\ panel \in [device : Device \cup {NoDevice},
                data : [Panels!Parts -> [of : Device \cup {NoDevice}, v : 0..MaxVersion]],
                error : [Panels!Parts -> BOOLEAN], loading : BOOLEAN, refreshing : BOOLEAN,
                refreshed : BOOLEAN]
  /\ Panels!BusyMeansUnderWay
  /\ Panels!ShowsItsDevice
  /\ CyclesMatchPanel

FormOK ==
  /\ post \in {"none", "sent", "done", "failed"}
  /\ form \in {"idle", "submitting", "success", "error"}
  /\ submits \in 0..MaxSubmits
  /\ executed \in 0..submits /\ notified \in 0..submits
  /\ Panels!OneSubmission
  /\ ReportsOwed

LEMMA PanelsBegin ==
  ASSUME Panels!Init
  PROVE  PanelOK /\ FormOK
<1>1. MaxVersion \in Nat /\ MaxSubmits \in Nat /\ CycleId # {}
  BY BrowserAssumption DEF Panels!PanelsConstants
<1>2. FormOK
  BY <1>1 DEF Panels!Init, FormOK, Panels!OneSubmission, ReportsOwed
<1>3. latest \in CycleId
  BY <1>1 DEF Panels!Init
<1>4. /\ cycles = {} /\ panel.device = NoDevice /\ ~panel.loading /\ ~panel.refreshing
      /\ panel.refreshed = FALSE
      /\ \A p \in Panels!Parts : panel.data[p].of = NoDevice
  BY DEF Panels!Init, Panels!Empty
<1>5. panel \in [device : Device \cup {NoDevice},
                data : [Panels!Parts -> [of : Device \cup {NoDevice}, v : 0..MaxVersion]],
                error : [Panels!Parts -> BOOLEAN], loading : BOOLEAN, refreshing : BOOLEAN,
                refreshed : BOOLEAN]
  BY <1>1 DEF Panels!Init, Panels!Empty, Panels!NoErrors
<1>6. stored \in [Device -> [Panels!Parts -> 0..MaxVersion]]
  BY <1>1 DEF Panels!Init
<1>7. Panels!BusyMeansUnderWay /\ Panels!ShowsItsDevice /\ CyclesMatchPanel
  <2>1. Panels!BusyMeansUnderWay
    BY <1>4 DEF Panels!BusyMeansUnderWay
  <2>2. Panels!ShowsItsDevice
    BY <1>4 DEF Panels!ShowsItsDevice
  <2>3. CyclesMatchPanel
    BY <1>4 DEF CyclesMatchPanel
  <2> QED BY <2>1, <2>2, <2>3
<1> QED BY <1>2, <1>3, <1>4, <1>5, <1>6, <1>7 DEF PanelOK

LEMMA FormStep ==
  ASSUME FormOK, [Panels!Next]_(Panels!vars)
  PROVE  FormOK'
<1> USE DEF FormOK, Panels!OneSubmission, ReportsOwed
<1>1. MaxSubmits \in Nat
  BY BrowserAssumption DEF Panels!PanelsConstants
<1>2. CASE Panels!Submit
  BY <1>1, <1>2 DEF Panels!Submit
<1>3. CASE Panels!Execute
  BY <1>1, <1>3 DEF Panels!Execute
<1>4. CASE Panels!Reject
  BY <1>1, <1>4 DEF Panels!Reject
<1>5. CASE Panels!Finish
  BY <1>1, <1>5 DEF Panels!Finish
<1>6. ASSUME UNCHANGED Panels!formVars
      PROVE  FormOK'
  BY <1>6 DEF Panels!formVars
<1>7. ASSUME \/ \E d \in Device : Panels!LoadDevice(d) \/ \E p \in Panels!Parts : Panels!Store(d, p)
             \/ Panels!Refresh
             \/ \E c \in cycles : Panels!Deliver(c) \/ \E p \in Panels!Parts : Panels!Settle(c, p)
             \/ UNCHANGED Panels!vars
      PROVE  UNCHANGED Panels!formVars
  BY <1>7 DEF Panels!LoadDevice, Panels!Store, Panels!Refresh, Panels!Deliver, Panels!Settle,
              Panels!vars, Panels!formVars
<1> HIDE DEF FormOK
<1> QED BY <1>2, <1>3, <1>4, <1>5, <1>6, <1>7 DEF Panels!Next

(* A new cycle takes over: it is the latest, and has no answer yet.        *)
LEMMA BegunCycle ==
  ASSUME PanelOK, NEW d \in Device, Panels!BeginFetch(d)
  PROVE  /\ cycles' \subseteq Panels!Cycle /\ latest' \in CycleId
         /\ \E c \in cycles' : c.id = latest'
         /\ \A c, e \in cycles' : c.id = e.id => c = e
         /\ \A c \in cycles' :
              \/ c \in cycles /\ c.id # latest'
              \/ /\ c.id = latest' /\ c.device = d
                 /\ \A p \in Panels!Parts : c.parts[p].st = "sent" /\ c.parts[p].v = 0
<1>1. PICK i \in Panels!Free :
        /\ latest' = i
        /\ cycles' = cycles \cup {[id |-> i, device |-> d, parts |-> [p \in Panels!Parts |-> Panels!Sent]]}
  BY DEF Panels!BeginFetch
<1> DEFINE new == [id |-> i, device |-> d, parts |-> [p \in Panels!Parts |-> Panels!Sent]]
<1>2. /\ new \in Panels!Cycle /\ new.id = i /\ new.device = d
      /\ \A p \in Panels!Parts : new.parts[p].st = "sent" /\ new.parts[p].v = 0
  BY BrowserAssumption DEF Panels!Cycle, Panels!Sent, Panels!Free, Panels!PanelsConstants
<1>3. cycles' = cycles \cup {new}
  BY <1>1
<1> HIDE DEF new
<1>4. \A c \in cycles : c.id # i
  BY DEF Panels!Free
<1>5. \A c, e \in cycles : c.id = e.id => c = e
  BY DEF PanelOK, CyclesMatchPanel
<1>6. cycles \subseteq Panels!Cycle /\ i \in CycleId
  BY DEF PanelOK, Panels!Free
<1> QED BY <1>1, <1>2, <1>3, <1>4, <1>5, <1>6

PanelType ==
  [device : Device \cup {NoDevice},
   data : [Panels!Parts -> [of : Device \cup {NoDevice}, v : 0..MaxVersion]],
   error : [Panels!Parts -> BOOLEAN], loading : BOOLEAN, refreshing : BOOLEAN, refreshed : BOOLEAN]

LEMMA StoredCountStep ==
  ASSUME PanelOK, NEW d \in Device, NEW p \in Panels!Parts, Panels!Store(d, p)
  PROVE  PanelOK'
<1>1. /\ UNCHANGED <<cycles, latest, panel>>
      /\ stored' = [stored EXCEPT ![d] = [stored[d] EXCEPT ![p] = stored[d][p] + 1]]
      /\ stored[d][p] < MaxVersion
  BY DEF Panels!Store, Panels!panelVars
<1> DEFINE row == [stored[d] EXCEPT ![p] = stored[d][p] + 1]
<1>2. /\ MaxVersion \in Nat /\ stored[d] \in [Panels!Parts -> 0..MaxVersion]
      /\ stored \in [Device -> [Panels!Parts -> 0..MaxVersion]]
  BY BrowserAssumption DEF PanelOK, Panels!PanelsConstants
<1>8. row \in [Panels!Parts -> 0..MaxVersion] /\ \A q \in Panels!Parts : stored[d][q] <= row[q]
  BY <1>1, <1>2
<1>9. stored' = [stored EXCEPT ![d] = row]
  BY <1>1
<1> HIDE DEF row
<1>10. stored' \in [Device -> [Panels!Parts -> 0..MaxVersion]]
  BY <1>2, <1>8, <1>9
<1>3. \A e \in Device, q \in Panels!Parts :
        stored[e][q] \in Nat /\ stored'[e][q] \in Nat /\ stored[e][q] <= stored'[e][q]
  BY <1>2, <1>8, <1>9, <1>10
<1>4. \A c \in cycles : c.device \in Device /\ \A q \in Panels!Parts : c.parts[q].v \in Nat
  BY DEF PanelOK, Panels!Cycle
<1>5. panel.device \in Device \cup {NoDevice} /\ \A q \in Panels!Parts : panel.data[q].v \in Nat
  BY DEF PanelOK
<1>6. CyclesMatchPanel'
  <2>1. \A c \in cycles' : \A q \in Panels!Parts : c.parts[q].v <= stored'[c.device][q]
    BY <1>1, <1>3, <1>4 DEF PanelOK, CyclesMatchPanel
  <2>2. panel'.device # NoDevice => \A q \in Panels!Parts : panel'.data[q].v <= stored'[panel'.device][q]
    BY <1>1, <1>3, <1>5 DEF PanelOK, CyclesMatchPanel
  <2> QED BY <1>1, <2>1, <2>2 DEF PanelOK, CyclesMatchPanel, Panels!Ok
<1>7. (Panels!BusyMeansUnderWay /\ Panels!ShowsItsDevice)'
  BY <1>1 DEF PanelOK, Panels!BusyMeansUnderWay, Panels!ShowsItsDevice
<1> QED BY <1>1, <1>6, <1>7, <1>10 DEF PanelOK

LEMMA LoadDeviceStep ==
  ASSUME PanelOK, NEW d \in Device, Panels!LoadDevice(d)
  PROVE  PanelOK'
<1>1. /\ Panels!BeginFetch(d) /\ UNCHANGED stored /\ d # NoDevice
      /\ panel' = [device |-> d, data |-> Panels!Empty, error |-> Panels!NoErrors,
                   loading |-> TRUE, refreshing |-> FALSE, refreshed |-> FALSE]
  BY BrowserAssumption DEF Panels!LoadDevice, Panels!PanelsConstants
<1>2. /\ panel' \in PanelType /\ panel'.loading /\ panel'.device = d /\ panel'.refreshed = FALSE
      /\ \A p \in Panels!Parts : panel'.data[p].of = NoDevice /\ panel'.data[p].v = 0
  BY <1>1, BrowserAssumption DEF Panels!Empty, Panels!NoErrors, Panels!PanelsConstants, PanelType
<1>3. \A e \in Device, p \in Panels!Parts : stored'[e][p] \in Nat
  BY <1>1 DEF PanelOK
<1>4. CyclesMatchPanel'
  <2>1. \A c \in cycles' : \A p \in Panels!Parts : c.parts[p].v <= stored'[c.device][p]
    BY <1>1, <1>3, BegunCycle DEF PanelOK, CyclesMatchPanel
  <2>2. \A c \in cycles' : c.id = latest' =>
          c.device = panel'.device /\ \A p \in Panels!Parts : c.parts[p].st # "ok"
    BY <1>1, <1>2, BegunCycle
  <2>3. \A p \in Panels!Parts : panel'.data[p].v <= stored'[panel'.device][p]
    BY <1>2, <1>3
  <2>4. \A c, e \in cycles' : c.id = e.id => c = e
    BY <1>1, BegunCycle
  <2> QED BY <2>1, <2>2, <2>3, <2>4 DEF CyclesMatchPanel, Panels!Ok
<1>5. Panels!BusyMeansUnderWay'
  BY <1>1, <1>2, BegunCycle DEF Panels!BusyMeansUnderWay
<1>6. Panels!ShowsItsDevice'
  BY <1>2 DEF Panels!ShowsItsDevice
<1> QED BY <1>1, <1>2, <1>4, <1>5, <1>6, BegunCycle DEF PanelOK, PanelType

LEMMA RefreshStep ==
  ASSUME PanelOK, Panels!Refresh
  PROVE  PanelOK'
<1>1. /\ Panels!BeginFetch(panel.device) /\ UNCHANGED stored /\ panel.device # NoDevice
      /\ panel' = [panel EXCEPT !.refreshing = TRUE]
  BY DEF Panels!Refresh
<1>2. panel \in PanelType /\ panel.device \in Device
  BY <1>1 DEF PanelOK, PanelType
<1>3. /\ panel' \in PanelType /\ panel'.refreshing /\ panel'.device = panel.device
      /\ panel'.data = panel.data /\ panel'.refreshed = panel.refreshed
  BY <1>1, <1>2 DEF PanelType
<1>4. \A e \in Device, p \in Panels!Parts : stored'[e][p] \in Nat
  BY <1>1 DEF PanelOK
<1>5. CyclesMatchPanel'
  <2>1. \A c \in cycles' : \A p \in Panels!Parts : c.parts[p].v <= stored'[c.device][p]
    BY <1>1, <1>2, <1>4, BegunCycle DEF PanelOK, CyclesMatchPanel
  <2>2. \A c \in cycles' : c.id = latest' =>
          c.device = panel'.device /\ \A p \in Panels!Parts : c.parts[p].st # "ok"
    BY <1>1, <1>2, <1>3, BegunCycle
  <2>3. \A p \in Panels!Parts : panel'.data[p].v <= stored'[panel'.device][p]
    BY <1>1, <1>3 DEF PanelOK, CyclesMatchPanel
  <2>4. \A c, e \in cycles' : c.id = e.id => c = e
    BY <1>1, <1>2, BegunCycle
  <2> QED BY <2>1, <2>2, <2>3, <2>4 DEF CyclesMatchPanel, Panels!Ok
<1>6. Panels!BusyMeansUnderWay'
  BY <1>1, <1>2, <1>3, BegunCycle DEF Panels!BusyMeansUnderWay
<1>7. Panels!ShowsItsDevice'
  BY <1>3 DEF Panels!ShowsItsDevice, PanelOK
<1> QED BY <1>1, <1>2, <1>3, <1>5, <1>6, <1>7, BegunCycle DEF PanelOK, PanelType

LEMMA SettleStep ==
  ASSUME PanelOK, NEW c \in cycles, NEW p \in Panels!Parts, Panels!Settle(c, p)
  PROVE  PanelOK'
<1>1. PICK r \in {[st |-> "ok", v |-> stored[c.device][p]], [st |-> "failed", v |-> 0]} :
        cycles' = (cycles \ {c}) \cup {[c EXCEPT !.parts[p] = r]}
  BY DEF Panels!Settle
<1>2. UNCHANGED <<stored, latest, panel>>
  BY DEF Panels!Settle
<1>3. /\ c \in Panels!Cycle /\ c.device \in Device
      /\ c.parts \in [Panels!Parts -> [st : {"sent", "ok", "failed"}, v : 0..MaxVersion]]
      /\ stored[c.device] \in [Panels!Parts -> 0..MaxVersion] /\ MaxVersion \in Nat
  BY BrowserAssumption DEF PanelOK, Panels!Cycle, Panels!PanelsConstants
<1>4. /\ r \in [st : {"sent", "ok", "failed"}, v : 0..MaxVersion]
      /\ r.st = "ok" => r.v = stored[c.device][p]
      /\ r.v <= stored[c.device][p]
  BY <1>3
<1> DEFINE moved == [c EXCEPT !.parts[p] = r]
<1>5. moved \in Panels!Cycle
  BY <1>3, <1>4 DEF Panels!Cycle
<1>6. /\ moved.id = c.id /\ moved.device = c.device
      /\ \A q \in Panels!Parts : moved.parts[q] = IF q = p THEN r ELSE c.parts[q]
  BY <1>3 DEF Panels!Cycle
<1>7. cycles' = (cycles \ {c}) \cup {moved}
  BY <1>1
<1> HIDE DEF moved
<1>8. CyclesMatchPanel'
  <2>1. \A d, e \in cycles' : d.id = e.id => d = e
    BY <1>6, <1>7 DEF PanelOK, CyclesMatchPanel
  <2>2. \A d \in cycles' : \A q \in Panels!Parts : d.parts[q].v <= stored'[d.device][q]
    BY <1>2, <1>4, <1>6, <1>7 DEF PanelOK, CyclesMatchPanel
  <2>3. moved.id = latest =>
          /\ moved.device = panel.device
          /\ \A q \in Panels!Parts : moved.parts[q].st = "ok" => panel.data[q].v <= moved.parts[q].v
    <3> SUFFICES ASSUME moved.id = latest
                 PROVE  /\ moved.device = panel.device
                        /\ \A q \in Panels!Parts : moved.parts[q].st = "ok" => panel.data[q].v <= moved.parts[q].v
      OBVIOUS
    <3>1. /\ c.device = panel.device /\ panel.device # NoDevice
          /\ \A q \in Panels!Parts : c.parts[q].st = "ok" => panel.data[q].v <= c.parts[q].v
      BY <1>3, <1>6, BrowserAssumption DEF PanelOK, CyclesMatchPanel, Panels!Ok, Panels!PanelsConstants
    <3>2. panel.data[p].v <= stored[c.device][p]
      BY <3>1 DEF PanelOK, CyclesMatchPanel
    <3> QED BY <1>4, <1>6, <3>1, <3>2
  <2>4. \A d \in cycles : d.id = latest =>
          /\ d.device = panel.device
          /\ \A q \in Panels!Parts : d.parts[q].st = "ok" => panel.data[q].v <= d.parts[q].v
    BY DEF PanelOK, CyclesMatchPanel, Panels!Ok
  <2>5. panel.device # NoDevice => \A q \in Panels!Parts : panel.data[q].v <= stored[panel.device][q]
    BY DEF PanelOK, CyclesMatchPanel
  <2> QED BY <1>2, <1>7, <2>1, <2>2, <2>3, <2>4, <2>5 DEF CyclesMatchPanel, Panels!Ok
<1>9. Panels!BusyMeansUnderWay'
  BY <1>2, <1>6, <1>7 DEF PanelOK, Panels!BusyMeansUnderWay
<1>10. Panels!ShowsItsDevice'
  BY <1>2 DEF PanelOK, Panels!ShowsItsDevice
<1> QED BY <1>2, <1>5, <1>7, <1>8, <1>9, <1>10 DEF PanelOK

(* A part of the panel after its cycle was delivered. *)
Delivered(c, p) == IF Panels!Ok(c, p) THEN [of |-> c.device, v |-> c.parts[p].v] ELSE panel.data[p]

(* What a delivered cycle does to the panel. *)
LEMMA DeliveredPanel ==
  ASSUME PanelOK, NEW c \in cycles, Panels!Deliver(c), c.id = latest
  PROVE  /\ c.device = panel.device /\ c.device \in Device
         /\ panel' \in PanelType /\ panel'.device = panel.device
         /\ ~panel'.loading /\ ~panel'.refreshing
         /\ panel'.refreshed = (panel.refreshed \/ \E p \in Panels!Parts : Panels!Ok(c, p))
         /\ \A p \in Panels!Parts :
              /\ panel'.data[p] = Delivered(c, p)
              /\ panel.data[p].v <= panel'.data[p].v
              /\ panel'.data[p].v <= stored[panel.device][p]
<1>1. panel' = [device |-> c.device,
                data |-> [p \in Panels!Parts |-> Delivered(c, p)],
                error |-> [p \in Panels!Parts |-> ~Panels!Ok(c, p)],
                loading |-> FALSE, refreshing |-> FALSE,
                refreshed |-> panel.refreshed \/ \E p \in Panels!Parts : Panels!Ok(c, p)]
  BY DEF Panels!Deliver, Delivered
<1>2. /\ c.device = panel.device /\ c.device \in Device /\ panel \in PanelType
      /\ c.parts \in [Panels!Parts -> [st : {"sent", "ok", "failed"}, v : 0..MaxVersion]]
      /\ panel.device # NoDevice
  BY BrowserAssumption DEF PanelOK, PanelType, CyclesMatchPanel, Panels!Cycle, Panels!PanelsConstants
<1>3. \A p \in Panels!Parts :
        Delivered(c, p)
          \in [of : Device \cup {NoDevice}, v : 0..MaxVersion]
  BY <1>2 DEF PanelType, Delivered
<1>4. panel' \in PanelType
  BY <1>1, <1>2, <1>3 DEF PanelType
<1>5. /\ panel'.device = panel.device /\ ~panel'.loading /\ ~panel'.refreshing
      /\ panel'.refreshed = (panel.refreshed \/ \E p \in Panels!Parts : Panels!Ok(c, p))
  BY <1>1, <1>2
<1>6. ASSUME NEW p \in Panels!Parts
      PROVE  /\ panel'.data[p] = Delivered(c, p)
             /\ panel.data[p].v <= panel'.data[p].v
             /\ panel'.data[p].v <= stored[panel.device][p]
  <2>1. panel'.data[p] = Delivered(c, p)
    BY <1>1
  <2>2. panel.data[p].v \in Nat
    BY <1>2 DEF PanelType
  <2>3. CASE Panels!Ok(c, p)
    <3>1. panel'.data[p].v = c.parts[p].v
      BY <2>1, <2>3 DEF Delivered
    <3> QED BY <1>2, <2>1, <2>3, <3>1 DEF PanelOK, CyclesMatchPanel
  <2>4. CASE ~Panels!Ok(c, p)
    BY <1>2, <2>1, <2>2, <2>4 DEF PanelOK, CyclesMatchPanel, Delivered
  <2> QED BY <2>1, <2>3, <2>4
<1> QED BY <1>2, <1>4, <1>5, <1>6

LEMMA DeliverStep ==
  ASSUME PanelOK, NEW c \in cycles, Panels!Deliver(c)
  PROVE  PanelOK'
<1>1. cycles' = cycles \ {c} /\ UNCHANGED <<stored, latest>>
  BY DEF Panels!Deliver
<1>2. CASE c.id # latest
  <2>1. UNCHANGED panel
    BY <1>2 DEF Panels!Deliver
  <2>2. CyclesMatchPanel'
    BY <1>1, <2>1 DEF PanelOK, CyclesMatchPanel, Panels!Ok
  <2>3. Panels!BusyMeansUnderWay'
    BY <1>1, <1>2, <2>1 DEF PanelOK, Panels!BusyMeansUnderWay
  <2>4. Panels!ShowsItsDevice'
    BY <2>1 DEF PanelOK, Panels!ShowsItsDevice
  <2> QED BY <1>1, <2>1, <2>2, <2>3, <2>4 DEF PanelOK
<1>3. CASE c.id = latest
  <2>1. \A d \in cycles' : d.id # latest'
    BY <1>1, <1>3 DEF PanelOK, CyclesMatchPanel
  <2>2. CyclesMatchPanel'
    <3>1. \A d, e \in cycles' : d.id = e.id => d = e
      BY <1>1 DEF PanelOK, CyclesMatchPanel
    <3>2. \A d \in cycles' : \A p \in Panels!Parts : d.parts[p].v <= stored'[d.device][p]
      BY <1>1 DEF PanelOK, CyclesMatchPanel
    <3>3. \A p \in Panels!Parts : panel'.data[p].v <= stored'[panel'.device][p]
      BY <1>1, <1>3, DeliveredPanel
    <3> QED BY <2>1, <3>1, <3>2, <3>3 DEF CyclesMatchPanel
  <2>3. Panels!BusyMeansUnderWay'
    BY <1>3, <2>1, DeliveredPanel DEF Panels!BusyMeansUnderWay
  <2>4. Panels!ShowsItsDevice'
    <3>1. panel.refreshed = \E p \in Panels!Parts : panel.data[p].of # NoDevice
      BY DEF PanelOK, Panels!ShowsItsDevice
    <3>2. /\ panel'.device = c.device /\ panel.device = c.device /\ c.device # NoDevice
          /\ panel'.refreshed = (panel.refreshed \/ \E p \in Panels!Parts : Panels!Ok(c, p))
          /\ \A p \in Panels!Parts :
               panel'.data[p] = Delivered(c, p)
      BY <1>3, DeliveredPanel, BrowserAssumption DEF Panels!PanelsConstants
    <3>5. ASSUME NEW p \in Panels!Parts
          PROVE  panel'.data[p].of = IF Panels!Ok(c, p) THEN c.device ELSE panel.data[p].of
      <4>1. CASE Panels!Ok(c, p)
        <5>1. panel'.data[p] = [of |-> c.device, v |-> c.parts[p].v]
          BY <3>2, <4>1 DEF Delivered
        <5> QED BY <4>1, <5>1
      <4>2. CASE ~Panels!Ok(c, p)
        BY <3>2, <4>2 DEF Delivered
      <4> QED BY <4>1, <4>2
    <3>3. \A p \in Panels!Parts : panel'.data[p].of \in {NoDevice, panel'.device}
      BY <3>2, <3>5 DEF PanelOK, Panels!ShowsItsDevice
    <3>4. (\E p \in Panels!Parts : panel'.data[p].of # NoDevice) <=>
            \/ \E p \in Panels!Parts : panel.data[p].of # NoDevice
            \/ \E p \in Panels!Parts : Panels!Ok(c, p)
      BY <3>2, <3>5 DEF PanelOK, Panels!ShowsItsDevice
    <3> QED BY <3>1, <3>2, <3>3, <3>4 DEF Panels!ShowsItsDevice
  <2> QED BY <1>1, <1>3, <2>2, <2>3, <2>4, DeliveredPanel DEF PanelOK, PanelType
<1> QED BY <1>2, <1>3

LEMMA PanelStep ==
  ASSUME PanelOK, [Panels!Next]_(Panels!vars)
  PROVE  PanelOK'
<1>1. ASSUME UNCHANGED <<stored, cycles, latest, panel>>
      PROVE  PanelOK'
  BY <1>1 DEF PanelOK, CyclesMatchPanel, Panels!BusyMeansUnderWay, Panels!ShowsItsDevice, Panels!Ok
<1>2. ASSUME Panels!Submit \/ Panels!Execute \/ Panels!Reject \/ Panels!Finish \/ UNCHANGED Panels!vars
      PROVE  UNCHANGED <<stored, cycles, latest, panel>>
  BY <1>2 DEF Panels!Submit, Panels!Execute, Panels!Reject, Panels!Finish, Panels!vars, Panels!panelVars
<1> QED
  BY <1>1, <1>2, StoredCountStep, LoadDeviceStep, RefreshStep, SettleStep, DeliverStep DEF Panels!Next

LEMMA PanelsInvariantHolds ==
  Panels!Spec => [](PanelOK /\ FormOK)
<1>1. ASSUME PanelOK /\ FormOK, [Panels!Next]_(Panels!vars)
      PROVE  (PanelOK /\ FormOK)'
  BY <1>1, PanelStep, FormStep
<1> QED BY <1>1, PanelsBegin, PTL DEF Panels!Spec

(* The answers of a superseded load are never applied, and those of a      *)
(* refresh were counted after what the panel shows.                        *)
LEMMA PanelNeverBack ==
  Panels!Spec => Panels!NeverBack
<1>1. ASSUME PanelOK, [Panels!Next]_(Panels!vars),
             panel'.device = panel.device, ~panel'.loading,
             NEW p \in Panels!Parts
      PROVE  panel.data[p].v <= panel'.data[p].v
  <2>1. panel \in PanelType /\ panel.data[p].v \in Nat
    <3>1. panel \in PanelType
      BY <1>1 DEF PanelOK, PanelType
    <3> QED BY <3>1 DEF PanelType
  <2>2. ASSUME panel'.data = panel.data
        PROVE  panel.data[p].v <= panel'.data[p].v
    BY <2>1, <2>2
  <2>3. ASSUME NEW d \in Device, Panels!LoadDevice(d)
        PROVE  FALSE
    BY <1>1, <2>3 DEF Panels!LoadDevice
  <2>4. ASSUME NEW c \in cycles, Panels!Deliver(c)
        PROVE  panel.data[p].v <= panel'.data[p].v
    <3>1. CASE c.id = latest
      BY <1>1, <2>4, <3>1, DeliveredPanel
    <3>2. CASE c.id # latest
      BY <2>2, <2>4, <3>2 DEF Panels!Deliver
    <3> QED BY <3>1, <3>2
  <2>5. CASE Panels!Refresh
    BY <2>1, <2>2, <2>5 DEF Panels!Refresh, PanelType
  <2>6. ASSUME \/ \E d \in Device, q \in Panels!Parts : Panels!Store(d, q)
               \/ \E c \in cycles, q \in Panels!Parts : Panels!Settle(c, q)
               \/ Panels!Submit \/ Panels!Execute \/ Panels!Reject \/ Panels!Finish \/ UNCHANGED Panels!vars
        PROVE  panel'.data = panel.data
    BY <2>6 DEF Panels!Store, Panels!Settle, Panels!Submit, Panels!Execute, Panels!Reject, Panels!Finish,
                Panels!vars, Panels!panelVars
  <2> QED BY <1>1, <2>2, <2>3, <2>4, <2>5, <2>6 DEF Panels!Next
<1>2. ASSUME PanelOK, [Panels!Next]_(Panels!vars)
      PROVE  panel'.device = panel.device /\ ~panel'.loading =>
               \A p \in Panels!Parts : panel.data[p].v <= panel'.data[p].v
  BY <1>1, <1>2
<1> QED BY <1>2, PanelsInvariantHolds, PTL DEF Panels!Spec, Panels!NeverBack

-----------------------------------------------------------------------------
(* The page. *)

(* Every variable of each of the browser's parts keeps its type.           *)
THEOREM BrowserTypeCorrect ==
  BrowserSpec => []BrowserTypeOK
<1>1. WorkspaceInvariant => Workspace!TypeOK
  BY DEF WorkspaceInvariant
<1>2. PanelOK /\ FormOK => Panels!TypeOK
  BY DEF PanelOK, FormOK, Panels!TypeOK
<1>3. BrowserInit => hook \in {"incidents", "workspace", "panels"}
  BY DEF BrowserInit
<1>4. hook \in {"incidents", "workspace", "panels"} /\ [BrowserNext]_all
        => (hook \in {"incidents", "workspace", "panels"})'
  BY DEF BrowserNext, Lists, Works, Pages, all
<1>5. hook \in {"incidents", "workspace", "panels"} /\ TypeOK /\ Workspace!TypeOK /\ Panels!TypeOK
        => BrowserTypeOK
  BY DEF BrowserTypeOK
<1> QED BY <1>1, <1>2, <1>3, <1>4, <1>5, PageIsItsParts, ListTypeCorrect, WorkspaceInvariantHolds,
           PanelsInvariantHolds, PTL DEF BrowserSpec

(* No indicator and no guard of a poll outlives its request, whichever     *)
(* requests are superseded, overtaken or fail, in any of the three hooks.  *)
THEOREM WaitsAreRequested ==
  BrowserSpec => []WaitingMeansRequested
<1>1. WorkspaceInvariant => Workspace!WaitsForRequests
  BY DEF WorkspaceInvariant
<1>2. PanelOK => Panels!BusyMeansUnderWay
  BY DEF PanelOK
<1>3. IndicatorsMatchRequests /\ Workspace!WaitsForRequests /\ Panels!BusyMeansUnderWay
        => WaitingMeansRequested
  BY DEF WaitingMeansRequested
<1> QED BY <1>1, <1>2, <1>3, PageIsItsParts, IndicatorsFollowRequests, WorkspaceInvariantHolds,
           PanelsInvariantHolds, PTL

(* State and diagnosis are combined only when one collection explains      *)
(* both, and the panel never shows one device's answers under another's    *)
(* name.                                                                   *)
THEOREM ShownBelongs ==
  BrowserSpec => []ShowsWhatBelongs
<1>1. PanelOK => Panels!ShowsItsDevice
  BY DEF PanelOK
<1>2. Workspace!MarksBelong /\ Panels!ShowsItsDevice => ShowsWhatBelongs
  BY DEF ShowsWhatBelongs
<1> QED BY <1>1, <1>2, PageIsItsParts, MarksBelongTogether, WorkspaceInvariantHolds,
           PanelsInvariantHolds, PTL

(* A form in submission waits for one POST, and its callback runs once for *)
(* each reported success.                                                  *)
THEOREM SubmissionsReportedOnce ==
  BrowserSpec => []OneSubmission
<1>1. FormOK => OneSubmission
  BY DEF FormOK, OneSubmission
<1> QED BY <1>1, PageIsItsParts, PanelsInvariantHolds, PTL

(* However late answers arrive and in whatever order, nothing older than   *)
(* what was shown is shown again.                                          *)
THEOREM NothingOlderAgain ==
  BrowserSpec => NeverOlderAgain
BY PageIsItsParts, ListNeverBackward, WorkspaceNeverOlder, PanelNeverBack, PTL DEF NeverOlderAgain
=============================================================================
