----------------------------- MODULE IncidentList -----------------------------
(***************************************************************************)
(* The incident list of the browser (frontend/src/hooks/useIncidents.ts)   *)
(* over an API whose incidents follow their lifecycle: list requests by    *)
(* refresh and poll, resolve requests per incident, answers that arrive    *)
(* late, in any order, or never, and React rendering the queued state some *)
(* time after an event set it.                                             *)
(*                                                                         *)
(* A superseded list request is aborted, but nothing relies on it: its     *)
(* answer may still arrive and must be ignored.  Request identifiers come  *)
(* from a pool; one is used again only after its request is gone, so the   *)
(* comparison with requestIdRef decides as with ever growing numbers.  The *)
(* component stays mounted: after unmounting, every callback returns at    *)
(* once.  Wording and order of the list are left out; timestamps are those *)
(* the server formats, so they always parse.                               *)
(***************************************************************************)
EXTENDS IncidentDomain, FiniteSets

CONSTANTS
  Incident,     \* incident identifiers
  Get, Post,    \* identifiers of list and resolve requests
  NoRequest,    \* no request
  MaxCount,     \* bound on occurrence_count
  MaxClicks,    \* bound on refresh and resolve clicks
  MaxFailures   \* bound on failing requests

ASSUME ListAssumption ==
  /\ Incident # {}
  /\ NoRequest \notin Get \cup Post
  /\ MaxCount \in Nat /\ MaxClicks \in Nat /\ MaxFailures \in Nat

Rows == [Incident -> Row \cup {NoRow}]
NoRows == [i \in Incident |-> NoRow]

(* What the hook returns: data and the two flags only matter in success.   *)
View == [status : {"loading", "success", "error"}, data : Rows,
         refreshing : BOOLEAN, failed : BOOLEAN]

Bare(status) ==
  [status |-> status, data |-> NoRows, refreshing |-> FALSE, failed |-> FALSE]

(* A request in the network: where it is and what the server answered.     *)
GetState == [at : {"free", "sent", "answered", "failed"}, background : BOOLEAN,
             data : Rows]
FreeGet == [at |-> "free", background |-> FALSE, data |-> NoRows]

PostState == [at : {"free", "sent", "answered", "failed"},
              incident : Incident, data : Row \cup {NoRow}]
FreePost == [at |-> "free", incident |-> CHOOSE i \in Incident : TRUE, data |-> NoRow]

VARIABLES
  incidents,   \* the server's incidents
  view,        \* the hook's state, with every queued update applied
  rendered,    \* the state last rendered (stateRef.current)
  requestId,   \* the list request begun last (requestIdRef)
  inFlight,    \* the list request polls wait for (inFlightIdRef), or NoRequest
  gets,        \* the list requests
  active,      \* the resolve request of each incident (activeResolutionRequestsRef)
  resolving,   \* the incidents shown as being resolved (resolvingIds)
  renderedResolving,  \* the same as last rendered
  posts,       \* the resolve requests
  shown,       \* history: the newest list shown so far
  clicks, failures

requestVars == <<requestId, inFlight, gets>>
resolveVars == <<active, resolving, posts>>
vars == <<incidents, view, rendered, requestVars, resolveVars, renderedResolving,
          shown, clicks, failures>>

TypeOK ==
  /\ incidents \in Rows
  /\ view \in View /\ (view.status # "success" => view = Bare(view.status))
  /\ rendered \in View
  /\ requestId \in Get
  /\ inFlight \in Get \cup {NoRequest}
  /\ gets \in [Get -> GetState]
  /\ active \in [Incident -> Post \cup {NoRequest}]
  /\ resolving \subseteq Incident /\ renderedResolving \subseteq Incident
  /\ posts \in [Post -> PostState]
  /\ shown \in Rows
  /\ clicks \in 0..MaxClicks
  /\ failures \in 0..MaxFailures

(* The mount effect has begun the first request. *)
Init ==
  /\ incidents = NoRows
  /\ view = Bare("loading") /\ rendered = view
  /\ requestId \in Get /\ inFlight = requestId
  /\ gets = [g \in Get |-> IF g = requestId THEN [FreeGet EXCEPT !.at = "sent"] ELSE FreeGet]
  /\ active = [i \in Incident |-> NoRequest]
  /\ resolving = {} /\ renderedResolving = {}
  /\ posts = [p \in Post |-> FreePost]
  /\ shown = NoRows
  /\ clicks = 0 /\ failures = 0

-----------------------------------------------------------------------------
(* Which of two versions of an incident, or of two lists, to keep. *)

(* Date.parse: timestamps carry microseconds, instants milliseconds; here  *)
(* two timestamps make one instant.                                        *)
Instant(t) == t \div 2

(* Faulty variant: only a later instant replaces what is shown. *)
PickLaterInstant(current, incoming) ==
  IF Instant(incoming.updated) > Instant(current.updated) THEN incoming ELSE current

PickIncident(current, incoming) ==
  CASE Instant(incoming.updated) > Instant(current.updated) -> incoming
    [] Instant(incoming.updated) < Instant(current.updated) -> current
    [] OTHER ->
         IF current.status # incoming.status
         THEN IF current.status = "RESOLVED" THEN current ELSE incoming
         ELSE IF current.count > incoming.count THEN current ELSE incoming

MergeIncidentLists(incoming, current) ==
  [i \in Incident |->
     CASE incoming[i] = NoRow -> current[i]
       [] current[i] = NoRow  -> incoming[i]
       [] OTHER               -> PickIncident(current[i], incoming[i])]

-----------------------------------------------------------------------------
(* The server: any request of IncidentServices, one incident at a time. *)

ServerChange(i, r) ==
  /\ incidents' = [incidents EXCEPT ![i] = r]
  /\ UNCHANGED <<view, rendered, requestVars, resolveVars, renderedResolving,
                 shown, clicks, failures>>

ServerCreate(i) ==
  /\ incidents[i] = NoRow
  /\ \E f \in Fingerprint, t \in Time :
       /\ \A j \in Incident : ~IsOpenFor(incidents[j], f)
       /\ ServerChange(i, Opened(f, t))

ServerRefresh(i) ==
  /\ IsOpen(incidents[i]) /\ incidents[i].count < MaxCount
  /\ \E t \in Time : /\ AcceptsObservation(incidents[i], t)
                     /\ ServerChange(i, Refreshed(incidents[i], t))

ServerResolve(i) ==
  \E t \in Time : /\ AcceptsResolution(incidents[i], t)
                  /\ ServerChange(i, ResolvedAt(incidents[i], t))

-----------------------------------------------------------------------------
(* List requests. *)

BeginNewRequest(g, background) ==
  /\ gets[g].at = "free"
  /\ requestId' = g
  /\ inFlight' = g
  /\ gets' = [gets EXCEPT ![g] = [FreeGet EXCEPT !.at = "sent", !.background = background]]

(* Faulty variant: an error stays while the list is fetched again. *)
AfterRefreshClickKeeping == [view EXCEPT !.refreshing = TRUE]

AfterRefreshClick ==
  IF view.status = "success" THEN [view EXCEPT !.refreshing = TRUE] ELSE Bare("loading")

Refresh ==
  /\ clicks < MaxClicks
  /\ clicks' = clicks + 1
  /\ view' = AfterRefreshClick
  /\ \E g \in Get : BeginNewRequest(g, FALSE)
  /\ UNCHANGED <<incidents, rendered, resolveVars, renderedResolving, shown, failures>>

(* The interval timer of useLiveNetworkWorkspace. *)
Poll ==
  /\ inFlight = NoRequest
  /\ \E g \in Get : BeginNewRequest(g, TRUE)
  /\ UNCHANGED <<incidents, view, rendered, resolveVars, renderedResolving,
                 shown, clicks, failures>>

(* GET /incidents reads the list in one statement. *)
AnswerGet(g) ==
  /\ gets[g].at = "sent"
  /\ gets' = [gets EXCEPT ![g].at = "answered", ![g].data = incidents]
  /\ UNCHANGED <<incidents, view, rendered, requestId, inFlight, resolveVars,
                 renderedResolving, shown, clicks, failures>>

FailGet(g) ==
  /\ gets[g].at \in {"sent", "answered"}
  /\ failures < MaxFailures /\ failures' = failures + 1
  /\ gets' = [gets EXCEPT ![g].at = "failed", ![g].data = NoRows]
  /\ UNCHANGED <<incidents, view, rendered, requestId, inFlight, resolveVars,
                 renderedResolving, shown, clicks>>

Applies(g) == requestId = g

(* Faulty variant: a failure does not settle the request. *)
SettleSuccess(g) == inFlight' = IF inFlight = g /\ gets[g].at = "answered"
                                THEN NoRequest ELSE inFlight

Settle(g) == inFlight' = IF inFlight = g THEN NoRequest ELSE inFlight

DeliverGet(g) ==
  /\ gets[g].at = "answered"
  /\ gets' = [gets EXCEPT ![g] = FreeGet]
  /\ \/ /\ Applies(g)
        /\ Settle(g)
        /\ view' = [Bare("success") EXCEPT !.data =
                      IF view.status = "success"
                      THEN MergeIncidentLists(gets[g].data, view.data)
                      ELSE gets[g].data]
        /\ shown' = view'.data
     \/ ~Applies(g) /\ UNCHANGED <<inFlight, view, shown>>
  /\ UNCHANGED <<incidents, rendered, requestId, resolveVars, renderedResolving,
                 clicks, failures>>

AfterFailure(g) ==
  IF gets[g].background /\ view.status = "success"
  THEN [view EXCEPT !.failed = TRUE]
  ELSE Bare("error")

DeliverFailure(g) ==
  /\ gets[g].at = "failed"
  /\ gets' = [gets EXCEPT ![g] = FreeGet]
  /\ \/ /\ Applies(g)
        /\ Settle(g)
        /\ view' = AfterFailure(g)
     \/ ~Applies(g) /\ UNCHANGED <<inFlight, view>>
  /\ UNCHANGED <<incidents, rendered, requestId, resolveVars, renderedResolving,
                 shown, clicks, failures>>

Render ==
  /\ <<rendered, renderedResolving>> # <<view, resolving>>
  /\ rendered' = view
  /\ renderedResolving' = resolving
  /\ UNCHANGED <<incidents, view, requestVars, resolveVars, shown, clicks, failures>>

-----------------------------------------------------------------------------
(* Resolve requests. *)

(* Faulty variant: the guard is the rendered state. *)
NotResolvingRendered(i) == i \notin renderedResolving

NotResolving(i) == active[i] = NoRequest

ResolveIncident(i) ==
  /\ clicks < MaxClicks
  /\ rendered.status = "success" /\ IsOpen(rendered.data[i])
  /\ NotResolving(i)
  /\ clicks' = clicks + 1
  /\ \E p \in Post :
       /\ posts[p].at = "free"
       /\ posts' = [posts EXCEPT ![p] = [at |-> "sent", incident |-> i, data |-> NoRow]]
       /\ active' = [active EXCEPT ![i] = p]
  /\ resolving' = resolving \cup {i}
  /\ UNCHANGED <<incidents, view, rendered, requestVars, renderedResolving, shown, failures>>

(* POST /incidents/{id}/resolve: resolved now, resolved before, or refused *)
(* because the incident was updated after the server's clock.              *)
AnswerPost(p) ==
  /\ posts[p].at = "sent"
  /\ LET i == posts[p].incident
     IN \/ \E t \in Time :
             /\ AcceptsResolution(incidents[i], t)
             /\ incidents' = [incidents EXCEPT ![i] = ResolvedAt(@, t)]
             /\ posts' = [posts EXCEPT ![p].at = "answered", ![p].data = ResolvedAt(incidents[i], t)]
        \/ /\ incidents[i].status = "RESOLVED"
           /\ posts' = [posts EXCEPT ![p].at = "answered", ![p].data = incidents[i]]
           /\ UNCHANGED incidents
        \/ /\ \E t \in Time : IsOpen(incidents[i]) /\ t < incidents[i].updated
           /\ posts' = [posts EXCEPT ![p].at = "failed"]
           /\ UNCHANGED incidents
  /\ UNCHANGED <<view, rendered, requestVars, active, resolving, renderedResolving,
                 shown, clicks, failures>>

(* The connection fails before the server acts, or its answer is lost.     *)
FailPost(p) ==
  /\ posts[p].at \in {"sent", "answered"}
  /\ failures < MaxFailures /\ failures' = failures + 1
  /\ posts' = [posts EXCEPT ![p].at = "failed", ![p].data = NoRow]
  /\ UNCHANGED <<incidents, view, rendered, requestVars, active, resolving,
                 renderedResolving, shown, clicks>>

Finish(p) ==
  /\ posts' = [posts EXCEPT ![p] = FreePost]
  /\ LET i == posts[p].incident
     IN IF active[i] = p
        THEN active' = [active EXCEPT ![i] = NoRequest] /\ resolving' = resolving \ {i}
        ELSE UNCHANGED <<active, resolving>>

DeliverPost(p) ==
  /\ posts[p].at = "answered"
  /\ Finish(p)
  /\ LET i == posts[p].incident
     IN IF active[i] = p /\ view.status = "success" /\ view.data[i] # NoRow
        THEN /\ view' = [view EXCEPT !.data[i] = PickIncident(@, posts[p].data)]
             /\ shown' = view'.data
        ELSE UNCHANGED <<view, shown>>
  /\ UNCHANGED <<incidents, rendered, requestVars, renderedResolving, clicks, failures>>

DeliverPostError(p) ==
  /\ posts[p].at = "failed"
  /\ Finish(p)
  /\ UNCHANGED <<incidents, view, rendered, requestVars, renderedResolving,
                 shown, clicks, failures>>

-----------------------------------------------------------------------------
Next ==
  \/ \E i \in Incident : ServerCreate(i) \/ ServerRefresh(i) \/ ServerResolve(i)
  \/ Refresh \/ Poll \/ Render
  \/ \E g \in Get : AnswerGet(g) \/ FailGet(g) \/ DeliverGet(g) \/ DeliverFailure(g)
  \/ \E i \in Incident : ResolveIncident(i)
  \/ \E p \in Post : AnswerPost(p) \/ FailPost(p) \/ DeliverPost(p) \/ DeliverPostError(p)

Spec == Init /\ [][Next]_vars

-----------------------------------------------------------------------------
(* Safety. *)

(* r is the same version of an incident as q or a later one. *)
NotOlder(r, q) ==
  q # NoRow => /\ r # NoRow
               /\ r.count >= q.count
               /\ q.status = "RESOLVED" => r = q

(* What the list shows of an incident is never older than what it showed   *)
(* before, whatever answers overtake each other and whatever error was     *)
(* shown in between: a RESOLVED incident is never OPEN again, and none     *)
(* disappears.                                                             *)
NeverBackward ==
  [][view'.status = "success" =>
       \A i \in Incident : NotOlder(view'.data[i], shown[i])]_vars

(* At most one resolve request per incident is under way, however fast the *)
(* clicks follow each other.                                               *)
OneResolveInFlight ==
  \A p, q \in Post :
    posts[p].at # "free" /\ posts[q].at # "free" /\ posts[p].incident = posts[q].incident
      => p = q

(* No indicator outlives its request: polls wait only for the latest       *)
(* request and only while it is under way, the list is loading or          *)
(* refreshing only then, and an incident is shown as being resolved        *)
(* exactly while its request is under way.                                 *)
IndicatorsMatchRequests ==
  /\ inFlight # NoRequest => inFlight = requestId /\ gets[inFlight].at # "free"
  /\ view.status = "loading" \/ view.refreshing => inFlight # NoRequest
  /\ \A i \in Incident :
       /\ i \in resolving <=> active[i] # NoRequest
       /\ active[i] # NoRequest =>
            posts[active[i]].at # "free" /\ posts[active[i]].incident = i

-----------------------------------------------------------------------------
(* Liveness. *)

(* Once the server's incidents, the user and the failures settle, the list *)
(* shows the server's incidents and keeps showing them.                    *)
ListConverges == <>[](view.status = "success" /\ view.data = incidents)
=============================================================================
