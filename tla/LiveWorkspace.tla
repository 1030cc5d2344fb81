---------------------------- MODULE LiveWorkspace ----------------------------
(***************************************************************************)
(* The live network workspace and the two queries it polls.  Collections   *)
(* are ingested while GET /network/state and GET /network/diagnosis are    *)
(* answered, the second in a statement per read; the hooks of the page     *)
(* send independent requests, a refresh supersedes the one in flight, and  *)
(* answers arrive late or not at all.  The fabric has one link, and of its *)
(* collections only whether they show a session of it down.                *)
(***************************************************************************)
EXTENDS Naturals

CONSTANTS
  RequestId,       \* identities of the requests of one hook, used again once free
  MaxCollections,  \* bound on the collections ingested
  MaxFailures,     \* bound on the requests that fail
  MaxRefreshes     \* bound on the user's refreshes

Hook == {"state", "diagnosis"}
NoneSent == 0
NoIncident == 0

WorkspaceConstants ==
  /\ \E i, j \in RequestId : i # j
  /\ NoneSent \notin RequestId
  /\ {MaxCollections, MaxFailures, MaxRefreshes} \subseteq Nat

VARIABLES
  fabric,    \* the stored collection: its place in time, and whether it shows the session down
  incident,  \* last_seen_at of the link's OPEN incident, or NoIncident
  requests,  \* the requests under way, with their answers so far
  latest,    \* requestIdRef of each hook
  inFlight,  \* inFlightIdRef of each hook
  view,      \* the state of each hook
  failures, refreshes

server == <<fabric, incident>>
client == <<latest, inFlight, view>>
vars == <<server, requests, client, failures, refreshes>>

Collection == [at : 0..MaxCollections, down : BOOLEAN]
Data == [at : 0..MaxCollections, down : BOOLEAN, linked : 0..MaxCollections]
NoData == [at |-> 0, down |-> FALSE, linked |-> NoIncident]

Request == [hook : Hook, id : RequestId, stage : {"sent", "read", "ok", "notFound", "failed"}, data : Data]

Sent(h, i) == [hook |-> h, id |-> i, stage |-> "sent", data |-> NoData]

Init ==
  /\ fabric = [at |-> 0, down |-> FALSE] /\ incident = NoIncident
  /\ latest = [h \in Hook |-> CHOOSE i \in RequestId : TRUE]
  /\ inFlight = latest
  /\ requests = {Sent(h, latest[h]) : h \in Hook}
  /\ view = [h \in Hook |->
       [status |-> "loading", data |-> NoData, refreshing |-> FALSE, error |-> FALSE]]
  /\ failures = 0 /\ refreshes = 0

-----------------------------------------------------------------------------
(* Ingestion and resolution, each one transaction.                         *)

(* A newer collection replaces the stored one and refreshes or recovers    *)
(* the incident.                                                           *)
Ingest(down) ==
  /\ fabric.at < MaxCollections
  /\ fabric' = [at |-> fabric.at + 1, down |-> down]
  /\ incident' = IF down THEN fabric'.at ELSE NoIncident
  /\ UNCHANGED <<requests, client, failures, refreshes>>

ResolveByHand ==
  /\ incident # NoIncident
  /\ incident' = NoIncident
  /\ UNCHANGED <<fabric, requests, client, failures, refreshes>>

Advance(r, stage, data) ==
  /\ requests' = (requests \ {r}) \cup {[r EXCEPT !.stage = stage, !.data = data]}
  /\ UNCHANGED <<server, client, failures, refreshes>>

(* get_latest of either query; without a collection both raise. *)
ReadFabric(r) ==
  /\ r.stage = "sent"
  /\ Advance(r,
       IF fabric.at = 0 THEN "notFound" ELSE IF r.hook = "state" THEN "ok" ELSE "read",
       [at |-> fabric.at, down |-> fabric.down, linked |-> NoIncident])

(* Faulty variant: whatever incident is OPEN is linked. *)
ReadIncidentsAny(r) ==
  /\ r.stage = "read"
  /\ Advance(r, "ok", [r.data EXCEPT !.linked = IF r.data.down THEN incident ELSE NoIncident])

(* GetNetworkDiagnosisService: the OPEN incident of each symptom, unless a *)
(* newer ingestion has seen it.                                            *)
ReadIncidents(r) ==
  /\ r.stage = "read"
  /\ Advance(r, "ok", [r.data EXCEPT !.linked =
       IF r.data.down /\ incident <= r.data.at THEN incident ELSE NoIncident])

(* The connection breaks, the body is malformed or the server errs. *)
Fail(r) ==
  /\ r.stage \in {"sent", "read"} /\ failures < MaxFailures
  /\ failures' = failures + 1
  /\ requests' = (requests \ {r}) \cup {[r EXCEPT !.stage = "failed", !.data = NoData]}
  /\ UNCHANGED <<server, client, refreshes>>

Answer(r) == ReadFabric(r) \/ ReadIncidents(r)

-----------------------------------------------------------------------------
(* reconcileNetworkState and reconcileNetworkDiagnosis *)
Reconcile(current, incoming) ==
  IF current.at = 0 \/ incoming.at >= current.at THEN incoming ELSE current

Received(v, r) ==
  CASE r.stage = "ok" ->
         [status |-> "success", data |-> Reconcile(v.data, r.data), refreshing |-> FALSE, error |-> FALSE]
    [] r.stage # "ok" /\ v.status = "success" ->
         [v EXCEPT !.refreshing = FALSE, !.error = TRUE]
    [] r.stage # "ok" /\ v.status # "success" ->
         [status |-> IF r.stage = "notFound" THEN "noSnapshot" ELSE "error",
          data |-> NoData, refreshing |-> FALSE, error |-> r.stage # "notFound"]

IsCurrent(r) == latest[r.hook] = r.id

(* The promise of a request settles; a superseded one changes nothing. *)
Deliver(r) ==
  /\ r.stage \in {"ok", "notFound", "failed"}
  /\ requests' = requests \ {r}
  /\ IF IsCurrent(r)
     THEN /\ view' = [view EXCEPT ![r.hook] = Received(@, r)]
          /\ inFlight' = [inFlight EXCEPT ![r.hook] = IF @ = r.id THEN NoneSent ELSE @]
     ELSE UNCHANGED <<view, inFlight>>
  /\ UNCHANGED <<server, latest, failures, refreshes>>

Free(h) == RequestId \ {r.id : r \in {q \in requests : q.hook = h}}

(* beginNewRequest of the hooks H, which supersedes what they have under way. *)
BeginNewRequest(H) ==
  \E new \in [H -> RequestId] :
    /\ \A h \in H : new[h] \in Free(h)
    /\ latest' = [h \in Hook |-> IF h \in H THEN new[h] ELSE latest[h]]
    /\ inFlight' = [h \in Hook |-> IF h \in H THEN new[h] ELSE inFlight[h]]
    /\ requests' = requests \cup {Sent(h, new[h]) : h \in H}

(* "Refresh all", or the Retry button of one panel. *)
Refresh(H) ==
  /\ refreshes < MaxRefreshes
  /\ refreshes' = refreshes + 1
  /\ view' = [h \in Hook |->
       IF h \notin H \/ h = "diagnosis" THEN view[h]
       ELSE IF view[h].status \in {"success", "noSnapshot"} THEN [view[h] EXCEPT !.refreshing = TRUE]
       ELSE [view[h] EXCEPT !.status = "loading", !.error = FALSE]]
  /\ BeginNewRequest(H)
  /\ UNCHANGED <<server, failures>>

(* The interval of useLiveNetworkWorkspace: a hook with a request in       *)
(* flight skips its poll.                                                  *)
Tick ==
  LET idle == {h \in Hook : inFlight[h] = NoneSent}
  IN /\ idle # {} /\ BeginNewRequest(idle)
     /\ UNCHANGED <<server, view, failures, refreshes>>

Next ==
  \/ \E down \in BOOLEAN : Ingest(down)
  \/ ResolveByHand
  \/ \E r \in requests : Answer(r) \/ Fail(r) \/ Deliver(r)
  \/ \E H \in {Hook, {"state"}, {"diagnosis"}} : Refresh(H)
  \/ Tick

Spec == Init /\ [][Next]_vars

-----------------------------------------------------------------------------
TypeOK ==
  /\ fabric \in Collection /\ incident \in 0..MaxCollections
  /\ requests \subseteq Request
  /\ latest \in [Hook -> RequestId]
  /\ inFlight \in [Hook -> RequestId \cup {NoneSent}]
  /\ view \in [Hook -> [status : {"loading", "noSnapshot", "success", "error"}, data : Data,
                        refreshing : BOOLEAN, error : BOOLEAN]]
  /\ failures \in 0..MaxFailures /\ refreshes \in 0..MaxRefreshes

Shown(h) == view[h].data

(* isDiagnosisAligned: only then are links marked and incidents listed.    *)
Aligned == /\ \A h \in Hook : view[h].status = "success"
           /\ Shown("diagnosis").at = Shown("state").at

(* Marks are only ever drawn on the collection they were computed from,    *)
(* and the incidents listed with a diagnosis are those its own collection  *)
(* has seen, although state, diagnosis and incidents are read in three     *)
(* transactions and by independent polls.                                  *)
MarksBelong ==
  Aligned => /\ Shown("diagnosis").down = Shown("state").down
             /\ Shown("diagnosis").linked # NoIncident =>
                  /\ Shown("state").down
                  /\ Shown("diagnosis").linked = Shown("state").at

(* What the page says it waits for is under way: neither the spinner nor   *)
(* the guard of the polls is left behind by a superseded request.          *)
WaitsForRequests ==
  \A h \in Hook :
    /\ view[h].refreshing \/ view[h].status = "loading" => inFlight[h] # NoneSent
    /\ inFlight[h] # NoneSent =>
         \E r \in requests : r.hook = h /\ r.id = inFlight[h] /\ IsCurrent(r)

(* "Older collected_at never replaces a newer snapshot", and a snapshot    *)
(* that was shown is never taken away by a failure.                        *)
NeverOlder ==
  [][\A h \in Hook :
       /\ Shown(h).at <= Shown(h)'.at
       /\ view[h].status = "success" => view'[h].status = "success"]_vars

(* Whatever failed before, the page ends up showing the stored collection  *)
(* with a diagnosis of its own and no error.                               *)
Converges ==
  <>[](fabric.at = 0) \/ <>[](Aligned /\ Shown("state").at = fabric.at /\ ~view["state"].error)
=============================================================================
