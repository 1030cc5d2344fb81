------------------------- MODULE IncidentListProofs -------------------------
(***************************************************************************)
(* Theorems about the incident list, for any incidents, any pool of        *)
(* requests and any bounds: one resolve request per incident, indicators   *)
(* that match requests, and a list that never goes backward.               *)
(***************************************************************************)
EXTENDS IncidentList, TLAPS

LEMMA RowFields ==
  ASSUME NEW r \in Row
  PROVE  /\ r.fp \in Fingerprint /\ r.status \in {"OPEN", "RESOLVED"}
         /\ r.created \in Time /\ r.seen \in Time /\ r.updated \in Time
         /\ r.resolved \in Time \cup {0} /\ r.count \in Nat
         /\ r # NoRow
BY NoRowAssumption DEF Row

LEMMA OpenedIsRow ==
  ASSUME NEW f \in Fingerprint, NEW t \in Time
  PROVE  Opened(f, t) \in Row
BY DEF Opened, Row

LEMMA RefreshedIsRow ==
  ASSUME NEW r \in Row, NEW t \in Time
  PROVE  Refreshed(r, t) \in Row
<1>1. r.count + 1 \in Nat
  BY RowFields
<1> DEFINE n == r.count + 1
<1>2. [r EXCEPT !.seen = t, !.updated = t, !.count = n] \in Row
  <2> HIDE DEF n
  <2> QED BY <1>1 DEF Row, n
<1> QED BY <1>2 DEF Refreshed

LEMMA ResolvedIsRow ==
  ASSUME NEW r \in Row, NEW t \in Time
  PROVE  ResolvedAt(r, t) \in Row
BY DEF ResolvedAt, Row

LEMMA PickOne ==
  ASSUME NEW a, NEW b
  PROVE  PickIncident(a, b) \in {a, b}
BY DEF PickIncident

LEMMA MergeType ==
  ASSUME NEW l1 \in Rows, NEW l2 \in Rows
  PROVE  MergeIncidentLists(l1, l2) \in Rows
<1> SUFFICES ASSUME NEW i \in Incident
             PROVE  (CASE l1[i] = NoRow -> l2[i]
                       [] l2[i] = NoRow -> l1[i]
                       [] OTHER -> PickIncident(l2[i], l1[i])) \in Row \cup {NoRow}
  BY DEF MergeIncidentLists, Rows
<1>1. l1[i] \in Row \cup {NoRow} /\ l2[i] \in Row \cup {NoRow}
  BY DEF Rows
<1>2. PickIncident(l2[i], l1[i]) \in {l2[i], l1[i]}
  BY PickOne
<1> QED BY <1>1, <1>2

LEMMA Constants ==
  /\ NoRows \in Rows /\ FreeGet \in GetState /\ FreePost \in PostState
  /\ \A st \in {"loading", "success", "error"} : Bare(st) \in View
<1>1. NoRows \in Rows
  BY DEF NoRows, Rows
<1>2. (CHOOSE i \in Incident : TRUE) \in Incident
  BY ListAssumption
<1> QED BY <1>1, <1>2 DEF FreeGet, GetState, FreePost, PostState, Bare, View

-----------------------------------------------------------------------------
(* Types. *)

LEMMA TypeInit == Init => TypeOK
<1> SUFFICES ASSUME Init PROVE TypeOK
  OBVIOUS
<1>1. [FreeGet EXCEPT !.at = "sent"] \in GetState
  BY Constants DEF FreeGet, GetState
<1>2. incidents \in Rows /\ view \in View /\ rendered \in View /\ shown \in Rows
      /\ view = Bare("loading") /\ view.status = "loading"
  BY Constants DEF Init, Bare
<1>3. gets \in [Get -> GetState] /\ posts \in [Post -> PostState]
      /\ active \in [Incident -> Post \cup {NoRequest}] /\ requestId \in Get /\ inFlight \in Get
  BY <1>1, Constants DEF Init
<1>4. clicks \in 0..MaxClicks /\ failures \in 0..MaxFailures
  BY ListAssumption DEF Init
<1>5. resolving = {} /\ renderedResolving = {}
  BY DEF Init
<1> QED BY <1>2, <1>3, <1>4, <1>5 DEF TypeOK

LEMMA BeginType ==
  ASSUME TypeOK, NEW g \in Get, NEW b \in BOOLEAN, BeginNewRequest(g, b)
  PROVE  /\ requestId' = g /\ inFlight' = g
         /\ gets' \in [Get -> GetState]
         /\ gets'[g].at = "sent" /\ gets'[g].background = b /\ gets'[g].data = NoRows
         /\ \A h \in Get \ {g} : gets'[h] = gets[h]
<1>1. [FreeGet EXCEPT !.at = "sent", !.background = b] \in GetState
  BY Constants DEF FreeGet, GetState
<1>2. /\ [FreeGet EXCEPT !.at = "sent", !.background = b].at = "sent"
      /\ [FreeGet EXCEPT !.at = "sent", !.background = b].background = b
      /\ [FreeGet EXCEPT !.at = "sent", !.background = b].data = NoRows
  BY DEF FreeGet
<1> QED BY <1>1, <1>2 DEF BeginNewRequest, TypeOK

LEMMA ViewType ==
  ASSUME TypeOK
  PROVE  /\ AfterRefreshClick \in View
         /\ AfterRefreshClick.status # "success" => AfterRefreshClick = Bare(AfterRefreshClick.status)
         /\ \A g \in Get : /\ AfterFailure(g) \in View
                           /\ AfterFailure(g).status # "success" => AfterFailure(g) = Bare(AfterFailure(g).status)
<1>1. /\ [view EXCEPT !.refreshing = TRUE] \in View
      /\ [view EXCEPT !.refreshing = TRUE].status = view.status
      /\ [view EXCEPT !.failed = TRUE] \in View
      /\ [view EXCEPT !.failed = TRUE].status = view.status
  BY DEF TypeOK, View
<1>2. \A st : Bare(st).status = st
  BY DEF Bare
<1> QED BY <1>1, <1>2, Constants DEF AfterRefreshClick, AfterFailure

LEMMA FinishType ==
  ASSUME TypeOK, NEW p \in Post, Finish(p)
  PROVE  /\ posts' \in [Post -> PostState]
         /\ active' \in [Incident -> Post \cup {NoRequest}]
         /\ resolving' \subseteq Incident
BY Constants DEF Finish, TypeOK

LEMMA TypeNext == TypeOK /\ [Next]_vars => TypeOK'
<1> SUFFICES ASSUME TypeOK, [Next]_vars PROVE TypeOK'
  OBVIOUS
<1>1. ASSUME NEW i \in Incident, ServerCreate(i) \/ ServerRefresh(i) \/ ServerResolve(i)
      PROVE  TypeOK'
  <2>1. incidents[i] \in Row \cup {NoRow}
    BY DEF TypeOK, Rows
  <2>2. PICK r \in Row : ServerChange(i, r)
    <3>1. CASE ServerCreate(i)
      BY <3>1, OpenedIsRow DEF ServerCreate
    <3>2. CASE ServerRefresh(i)
      BY <2>1, <3>2, RefreshedIsRow DEF ServerRefresh, IsOpen
    <3>3. CASE ServerResolve(i)
      BY <2>1, <3>3, ResolvedIsRow DEF ServerResolve, AcceptsResolution, IsOpen
    <3> QED BY <1>1, <3>1, <3>2, <3>3
  <2> QED BY <2>2 DEF ServerChange, TypeOK, Rows, requestVars, resolveVars
<1>2. CASE Refresh
  <2> PICK g \in Get : BeginNewRequest(g, FALSE)
    BY <1>2 DEF Refresh
  <2>1. clicks' \in 0..MaxClicks
    BY <1>2, ListAssumption DEF Refresh, TypeOK
  <2> QED BY <1>2, <2>1, BeginType, ViewType DEF Refresh, TypeOK, resolveVars
<1>3. CASE Poll
  <2> PICK g \in Get : BeginNewRequest(g, TRUE)
    BY <1>3 DEF Poll
  <2> QED BY <1>3, BeginType DEF Poll, TypeOK, resolveVars
<1>4. CASE Render
  BY <1>4 DEF Render, TypeOK, requestVars, resolveVars
<1>5. ASSUME NEW g \in Get, AnswerGet(g)
      PROVE  TypeOK'
  <2>1. [gets[g] EXCEPT !.at = "answered", !.data = incidents] \in GetState
    BY DEF TypeOK, GetState
  <2> QED BY <1>5, <2>1 DEF AnswerGet, TypeOK, resolveVars
<1>6. ASSUME NEW g \in Get, FailGet(g)
      PROVE  TypeOK'
  <2>1. [gets[g] EXCEPT !.at = "failed", !.data = NoRows] \in GetState
    BY Constants DEF TypeOK, GetState
  <2>2. failures' \in 0..MaxFailures
    BY <1>6, ListAssumption DEF FailGet, TypeOK
  <2> QED BY <1>6, <2>1, <2>2 DEF FailGet, TypeOK, resolveVars
<1>7. ASSUME NEW g \in Get, DeliverGet(g)
      PROVE  TypeOK'
  <2>1. gets' \in [Get -> GetState]
    BY <1>7, Constants DEF DeliverGet, TypeOK
  <2>2. inFlight' \in Get \cup {NoRequest}
    BY <1>7 DEF DeliverGet, Settle, TypeOK
  <2>3. ASSUME NEW d \in Rows
        PROVE  [Bare("success") EXCEPT !.data = d] \in View
               /\ [Bare("success") EXCEPT !.data = d].status = "success"
               /\ [Bare("success") EXCEPT !.data = d].data = d
    BY <2>3, Constants DEF Bare, View
  <2>4. gets[g].data \in Rows /\ view.data \in Rows
    BY DEF TypeOK, GetState, View
  <2>5. view' \in View /\ (view'.status # "success" => view' = Bare(view'.status)) /\ shown' \in Rows
    <3>1. CASE Applies(g)
      <4> DEFINE d == IF view.status = "success" THEN MergeIncidentLists(gets[g].data, view.data)
                                                 ELSE gets[g].data
      <4>1. d \in Rows
        BY <2>4, MergeType
      <4>2. view' = [Bare("success") EXCEPT !.data = d] /\ shown' = view'.data
        BY <1>7, <3>1 DEF DeliverGet
      <4> HIDE DEF d
      <4> QED BY <2>3, <4>1, <4>2
    <3>2. CASE ~Applies(g)
      BY <1>7, <3>2 DEF DeliverGet, TypeOK
    <3> QED BY <3>1, <3>2
  <2> QED BY <1>7, <2>1, <2>2, <2>5 DEF DeliverGet, TypeOK, resolveVars
<1>8. ASSUME NEW g \in Get, DeliverFailure(g)
      PROVE  TypeOK'
  <2>1. gets' \in [Get -> GetState]
    BY <1>8, Constants DEF DeliverFailure, TypeOK
  <2>2. inFlight' \in Get \cup {NoRequest}
    BY <1>8 DEF DeliverFailure, Settle, TypeOK
  <2>3. view' \in View /\ (view'.status # "success" => view' = Bare(view'.status))
    BY <1>8, ViewType DEF DeliverFailure, TypeOK
  <2> QED BY <1>8, <2>1, <2>2, <2>3 DEF DeliverFailure, TypeOK, resolveVars
<1>9. ASSUME NEW i \in Incident, ResolveIncident(i)
      PROVE  TypeOK'
  <2>1. clicks' \in 0..MaxClicks
    BY <1>9, ListAssumption DEF ResolveIncident, TypeOK
  <2>2. [at |-> "sent", incident |-> i, data |-> NoRow] \in PostState
    BY DEF PostState
  <2> QED BY <1>9, <2>1, <2>2 DEF ResolveIncident, TypeOK, requestVars
<1>10. ASSUME NEW p \in Post, AnswerPost(p)
       PROVE  TypeOK'
  <2> DEFINE i == posts[p].incident
  <2>1. i \in Incident /\ incidents[i] \in Row \cup {NoRow} /\ posts[p] \in PostState
    BY DEF TypeOK, PostState, Rows
  <2>2. ASSUME NEW r \in Row \cup {NoRow}
        PROVE  [posts[p] EXCEPT !.at = "answered", !.data = r] \in PostState
    BY <2>1, <2>2 DEF PostState
  <2>3. [posts[p] EXCEPT !.at = "failed"] \in PostState
    BY <2>1 DEF PostState
  <2>4. \A t \in Time : AcceptsResolution(incidents[i], t) => ResolvedAt(incidents[i], t) \in Row
    BY <2>1, ResolvedIsRow DEF AcceptsResolution, IsOpen
  <2>5. incidents' \in Rows /\ posts' \in [Post -> PostState]
    <3>1. \/ \E r \in Row : /\ incidents' = [incidents EXCEPT ![i] = r]
                           /\ posts' = [posts EXCEPT ![p].at = "answered", ![p].data = r]
          \/ /\ posts' = [posts EXCEPT ![p].at = "answered", ![p].data = incidents[i]]
             /\ UNCHANGED incidents
          \/ posts' = [posts EXCEPT ![p].at = "failed"] /\ UNCHANGED incidents
      BY <1>10, <2>4 DEF AnswerPost
    <3> HIDE DEF i
    <3>2. ASSUME NEW r \in Row \cup {NoRow},
                 posts' = [posts EXCEPT ![p].at = "answered", ![p].data = r]
          PROVE  posts' \in [Post -> PostState]
      <4>1. posts' = [posts EXCEPT ![p] = [posts[p] EXCEPT !.at = "answered", !.data = r]]
        BY <3>2 DEF TypeOK
      <4> QED BY <2>2, <4>1 DEF TypeOK
    <3>3. CASE \E r \in Row : /\ incidents' = [incidents EXCEPT ![i] = r]
                             /\ posts' = [posts EXCEPT ![p].at = "answered", ![p].data = r]
      <4>1. PICK r \in Row : /\ incidents' = [incidents EXCEPT ![i] = r]
                             /\ posts' = [posts EXCEPT ![p].at = "answered", ![p].data = r]
        BY <3>3
      <4>2. posts' \in [Post -> PostState]
        BY <3>2, <4>1
      <4>3. incidents' \in Rows
        BY <2>1, <4>1 DEF TypeOK, Rows
      <4> QED BY <4>2, <4>3
    <3>4. CASE /\ posts' = [posts EXCEPT ![p].at = "answered", ![p].data = incidents[i]]
               /\ UNCHANGED incidents
      BY <2>1, <3>2, <3>4 DEF TypeOK
    <3>5. CASE posts' = [posts EXCEPT ![p].at = "failed"] /\ UNCHANGED incidents
      BY <2>3, <3>5 DEF TypeOK
    <3> QED BY <3>1, <3>3, <3>4, <3>5
  <2> QED BY <1>10, <2>5 DEF AnswerPost, TypeOK, requestVars
<1>11. ASSUME NEW p \in Post, FailPost(p)
       PROVE  TypeOK'
  <2>1. [posts[p] EXCEPT !.at = "failed", !.data = NoRow] \in PostState
    BY DEF TypeOK, PostState
  <2>2. failures' \in 0..MaxFailures
    BY <1>11, ListAssumption DEF FailPost, TypeOK
  <2> QED BY <1>11, <2>1, <2>2 DEF FailPost, TypeOK, requestVars
<1>12. ASSUME NEW p \in Post, DeliverPost(p)
       PROVE  TypeOK'
  <2> DEFINE i == posts[p].incident
  <2>1. i \in Incident /\ posts[p].data \in Row \cup {NoRow} /\ view.data \in Rows
    BY DEF TypeOK, PostState, View
  <2>2. PickIncident(view.data[i], posts[p].data) \in Row \cup {NoRow}
    BY <2>1, PickOne DEF Rows
  <2>3. ASSUME NEW r \in Row \cup {NoRow}
        PROVE  /\ [view EXCEPT !.data[i] = r] \in View
               /\ [view EXCEPT !.data[i] = r].status = view.status
               /\ [view EXCEPT !.data[i] = r].data \in Rows
    BY <2>1, <2>3 DEF TypeOK, View, Rows
  <2>4. view' \in View /\ (view'.status # "success" => view' = Bare(view'.status)) /\ shown' \in Rows
    BY <1>12, <2>2, <2>3 DEF DeliverPost, TypeOK
  <2> QED BY <1>12, <2>4, FinishType DEF DeliverPost, TypeOK, requestVars
<1>13. ASSUME NEW p \in Post, DeliverPostError(p)
       PROVE  TypeOK'
  BY <1>13, FinishType DEF DeliverPostError, TypeOK, requestVars
<1>14. CASE UNCHANGED vars
  BY <1>14 DEF vars, requestVars, resolveVars, TypeOK
<1> QED BY <1>1, <1>2, <1>3, <1>4, <1>5, <1>6, <1>7, <1>8, <1>9, <1>10, <1>11, <1>12, <1>13, <1>14 DEF Next

(* Every request, row and view keeps its type. *)
THEOREM ListTypeCorrect == Spec => []TypeOK
BY TypeInit, TypeNext, PTL DEF Spec
-----------------------------------------------------------------------------
(* Indicators and requests.  Two facts make the indicators inductive: a    *)
(* resolve request under way is the one recorded for its incident, and     *)
(* only a request the user asked for leaves the list refreshing, so that   *)
(* no failing poll keeps that flag.                                        *)

ListsTracked ==
  /\ inFlight # NoRequest => inFlight = requestId /\ gets[inFlight].at # "free"
  /\ view.status = "loading" \/ view.refreshing => inFlight # NoRequest
  /\ view.refreshing => ~gets[inFlight].background

ResolvesTracked ==
  /\ \A i \in Incident :
       /\ i \in resolving <=> active[i] # NoRequest
       /\ active[i] # NoRequest =>
            posts[active[i]].at # "free" /\ posts[active[i]].incident = i
  /\ \A p \in Post : posts[p].at # "free" => active[posts[p].incident] = p

LEMMA TrackedInit == Init => ListsTracked /\ ResolvesTracked
<1> SUFFICES ASSUME Init PROVE ListsTracked /\ ResolvesTracked
  OBVIOUS
<1>1. /\ view.status = "loading" /\ ~view.refreshing
      /\ requestId \in Get /\ inFlight = requestId /\ inFlight # NoRequest
  BY ListAssumption DEF Init, Bare
<1>2. [FreeGet EXCEPT !.at = "sent"].at # "free"
  BY DEF FreeGet
<1>3. gets[inFlight].at # "free"
  BY <1>1, <1>2 DEF Init
<1>4. \A p \in Post : posts[p].at = "free"
  BY DEF Init, FreePost
<1> QED BY <1>1, <1>3, <1>4 DEF Init, ListsTracked, ResolvesTracked

LEMMA FinishTracked ==
  ASSUME TypeOK, ResolvesTracked, NEW p \in Post, posts[p].at # "free", Finish(p)
  PROVE  ResolvesTracked'
<1> DEFINE i == posts[p].incident
<1>1. i \in Incident /\ active[i] = p /\ p # NoRequest
  BY ListAssumption DEF ResolvesTracked, TypeOK, PostState
<1>2. /\ active' = [active EXCEPT ![i] = NoRequest] /\ resolving' = resolving \ {i}
      /\ posts' = [posts EXCEPT ![p] = FreePost]
  BY <1>1 DEF Finish
<1>3. FreePost.at = "free"
  BY DEF FreePost
<1>4. posts'[p].at = "free" /\ \A q \in Post \ {p} : posts'[q] = posts[q]
  BY <1>2, <1>3 DEF TypeOK
<1>5. active'[i] = NoRequest /\ \A j \in Incident \ {i} : active'[j] = active[j]
  BY <1>1, <1>2 DEF TypeOK
<1>6. ASSUME NEW j \in Incident
      PROVE  /\ j \in resolving' <=> active'[j] # NoRequest
             /\ active'[j] # NoRequest =>
                  posts'[active'[j]].at # "free" /\ posts'[active'[j]].incident = j
  <2>1. CASE j = i
    BY <1>2, <1>5, <2>1
  <2>2. CASE j # i
    <3>0. active[j] = p => posts[p].incident = j
      BY <1>1 DEF ResolvesTracked
    <3>1. active'[j] = active[j] /\ active[j] # p /\ active[j] \in Post \cup {NoRequest}
      BY <1>5, <2>2, <3>0 DEF TypeOK
    <3>2. j \in resolving' <=> active'[j] # NoRequest
      BY <1>2, <2>2, <3>1 DEF ResolvesTracked
    <3>3. ASSUME active'[j] # NoRequest
          PROVE  posts'[active'[j]].at # "free" /\ posts'[active'[j]].incident = j
      <4>1. active[j] \in Post \ {p} /\ active[j] # NoRequest
        BY <3>1, <3>3
      <4>2. posts[active[j]].at # "free" /\ posts[active[j]].incident = j
        BY <4>1 DEF ResolvesTracked
      <4> QED BY <1>4, <3>1, <4>1, <4>2
    <3> QED BY <3>2, <3>3
  <2> QED BY <2>1, <2>2
<1>7. ASSUME NEW q \in Post, posts'[q].at # "free"
      PROVE  active'[posts'[q].incident] = q
  <2>1. q # p /\ posts'[q] = posts[q]
    BY <1>4, <1>7
  <2>2. posts[q].incident \in Incident /\ active[posts[q].incident] = q
    BY <1>7, <2>1 DEF ResolvesTracked, TypeOK, PostState
  <2>3. posts[q].incident # i
    BY <1>1, <2>1, <2>2
  <2> QED BY <1>5, <2>1, <2>2, <2>3
<1> QED BY <1>6, <1>7 DEF ResolvesTracked

(* What the server does to a resolve request and to its incident. *)
LEMMA AnswerPostEffect ==
  ASSUME TypeOK, NEW p \in Post, AnswerPost(p)
  PROVE  /\ posts'[p].at # "free" /\ posts'[p].incident = posts[p].incident
         /\ \A q \in Post \ {p} : posts'[q] = posts[q]
         /\ posts'[p].data \in {incidents'[posts[p].incident], posts[p].data}
         /\ posts'[p].at = "answered" => posts'[p].data = incidents'[posts[p].incident]
         /\ \/ incidents' = incidents
            \/ \E t \in Time :
                 /\ AcceptsResolution(incidents[posts[p].incident], t)
                 /\ incidents' = [incidents EXCEPT ![posts[p].incident] =
                                     ResolvedAt(incidents[posts[p].incident], t)]
<1> DEFINE i == posts[p].incident
<1>1. /\ i \in Incident /\ posts[p] \in PostState
      /\ posts \in [Post -> PostState] /\ incidents \in [Incident -> Row \cup {NoRow}]
  BY DEF TypeOK, PostState, Rows
<1>2. ASSUME NEW d, posts' = [posts EXCEPT ![p].at = "answered", ![p].data = d]
      PROVE  /\ posts'[p].at = "answered" /\ posts'[p].incident = i /\ posts'[p].data = d
             /\ \A q \in Post \ {p} : posts'[q] = posts[q]
  BY <1>1, <1>2 DEF PostState
<1>3. ASSUME NEW t \in Time, AcceptsResolution(incidents[i], t),
             incidents' = [incidents EXCEPT ![i] = ResolvedAt(incidents[i], t)],
             posts' = [posts EXCEPT ![p].at = "answered", ![p].data = ResolvedAt(incidents[i], t)]
      PROVE  posts'[p].data = incidents'[i]
  <2>1. posts'[p].data = ResolvedAt(incidents[i], t)
    BY <1>2, <1>3
  <2>2. incidents'[i] = ResolvedAt(incidents[i], t)
    BY <1>1, <1>3
  <2> QED BY <2>1, <2>2
<1>4. CASE \E t \in Time :
             /\ AcceptsResolution(incidents[i], t)
             /\ incidents' = [incidents EXCEPT ![i] = ResolvedAt(@, t)]
             /\ posts' = [posts EXCEPT ![p].at = "answered", ![p].data = ResolvedAt(incidents[i], t)]
  BY <1>2, <1>3, <1>4
<1>5. CASE /\ posts' = [posts EXCEPT ![p].at = "answered", ![p].data = incidents[i]]
           /\ UNCHANGED incidents
  BY <1>2, <1>5
<1>6. CASE posts' = [posts EXCEPT ![p].at = "failed"] /\ UNCHANGED incidents
  BY <1>1, <1>6 DEF PostState
<1> QED BY <1>4, <1>5, <1>6 DEF AnswerPost

(* A change of posts that keeps where each request belongs. *)
LEMMA AnsweredTracked ==
  ASSUME ResolvesTracked, TypeOK,
         \A q \in Post : /\ posts'[q].incident = posts[q].incident
                         /\ posts'[q].at # "free" <=> posts[q].at # "free",
         active' = active, resolving' = resolving
  PROVE  ResolvesTracked'
BY ListAssumption DEF ResolvesTracked, TypeOK

LEMMA TrackedNext ==
  TypeOK /\ TypeOK' /\ ListsTracked /\ ResolvesTracked /\ [Next]_vars
    => ListsTracked' /\ ResolvesTracked'
<1> SUFFICES ASSUME TypeOK, TypeOK', ListsTracked, ResolvesTracked, [Next]_vars
             PROVE  ListsTracked' /\ ResolvesTracked'
  OBVIOUS
<1>a. ASSUME UNCHANGED resolveVars
      PROVE  ResolvesTracked'
  BY <1>a DEF resolveVars, ResolvesTracked
<1>b. ASSUME UNCHANGED requestVars, view' = view
      PROVE  ListsTracked'
  BY <1>b DEF requestVars, ListsTracked
<1>c. ASSUME UNCHANGED requestVars, view'.status = view.status, view'.refreshing = view.refreshing
      PROVE  ListsTracked'
  BY <1>c DEF requestVars, ListsTracked
<1>1. ASSUME NEW i \in Incident, ServerCreate(i) \/ ServerRefresh(i) \/ ServerResolve(i)
      PROVE  ListsTracked' /\ ResolvesTracked'
  BY <1>1, <1>a, <1>b DEF ServerCreate, ServerRefresh, ServerResolve, ServerChange
<1>2. CASE Refresh
  <2> PICK g \in Get : BeginNewRequest(g, FALSE)
    BY <1>2 DEF Refresh
  <2>1. g # NoRequest
    BY ListAssumption
  <2> QED BY <1>2, <1>a, <2>1, BeginType DEF Refresh, ListsTracked
<1>3. CASE Poll
  <2> PICK g \in Get : BeginNewRequest(g, TRUE)
    BY <1>3 DEF Poll
  <2>1. g # NoRequest
    BY ListAssumption
  <2> QED BY <1>3, <1>a, <2>1, BeginType DEF Poll, ListsTracked
<1>4. CASE Render
  BY <1>4, <1>a, <1>b DEF Render
<1>5. ASSUME NEW g \in Get, AnswerGet(g) \/ FailGet(g)
      PROVE  ListsTracked' /\ ResolvesTracked'
  <2>1. gets'[g].at # "free" /\ gets'[g].background = gets[g].background
        /\ \A h \in Get \ {g} : gets'[h] = gets[h]
    <3>1. CASE AnswerGet(g)
      BY <3>1 DEF AnswerGet, TypeOK, GetState
    <3>2. CASE FailGet(g)
      BY <3>2 DEF FailGet, TypeOK, GetState
    <3> QED BY <1>5, <3>1, <3>2
  <2>2. /\ requestId' = requestId /\ inFlight' = inFlight /\ view' = view
        /\ UNCHANGED resolveVars
    BY <1>5 DEF AnswerGet, FailGet
  <2>3. requestId \in Get
    BY DEF TypeOK
  <2>4. inFlight # NoRequest => inFlight \in Get
    BY DEF TypeOK
  <2>5. inFlight # NoRequest => gets'[inFlight].background = gets[inFlight].background
    BY <2>1, <2>4
  <2> QED BY <2>1, <2>2, <2>4, <2>5, <1>a DEF ListsTracked
<1>6. ASSUME NEW g \in Get, DeliverGet(g) \/ DeliverFailure(g)
      PROVE  ListsTracked' /\ ResolvesTracked'
  <2>1. /\ \A h \in Get \ {g} : gets'[h] = gets[h]
        /\ requestId' = requestId /\ UNCHANGED resolveVars
    BY <1>6 DEF DeliverGet, DeliverFailure, TypeOK
  <2>2. CASE ~Applies(g)
    <3>1. inFlight' = inFlight /\ view' = view
      BY <1>6, <2>2 DEF DeliverGet, DeliverFailure
    <3>2. inFlight # NoRequest => inFlight \in Get \ {g}
      BY <2>2 DEF Applies, ListsTracked, TypeOK
    <3> QED BY <2>1, <3>1, <3>2, <1>a DEF ListsTracked
  <2>3. CASE Applies(g)
    <3>1. inFlight' = NoRequest
      BY <1>6, <2>3 DEF DeliverGet, DeliverFailure, Settle, Applies, ListsTracked
    <3>2. view'.status # "loading" /\ ~view'.refreshing
      <4>1. CASE DeliverGet(g)
        <5> DEFINE d == IF view.status = "success" THEN MergeIncidentLists(gets[g].data, view.data)
                                                   ELSE gets[g].data
        <5>1. view' = [Bare("success") EXCEPT !.data = d]
          BY <2>3, <4>1 DEF DeliverGet
        <5> HIDE DEF d
        <5> QED BY <5>1 DEF Bare
      <4>2. CASE DeliverFailure(g)
        <5>1. view' = AfterFailure(g)
          BY <2>3, <4>2 DEF DeliverFailure
        <5>2. Bare("error").status # "loading" /\ ~Bare("error").refreshing
          BY DEF Bare
        <5>3. CASE gets[g].background /\ view.status = "success"
          <6>1. ~view.refreshing
            BY <2>3, <5>3 DEF ListsTracked, Applies
          <6>2. view' = [view EXCEPT !.failed = TRUE]
            BY <5>1, <5>3 DEF AfterFailure
          <6>3. view'.status = view.status /\ view'.refreshing = view.refreshing
            BY <6>2 DEF TypeOK, View
          <6> QED BY <5>3, <6>1, <6>3
        <5>4. CASE ~(gets[g].background /\ view.status = "success")
          BY <5>1, <5>2, <5>4 DEF AfterFailure
        <5> QED BY <5>3, <5>4
      <4> QED BY <1>6, <4>1, <4>2
    <3> QED BY <2>1, <3>1, <3>2, <1>a DEF ListsTracked
  <2> QED BY <2>2, <2>3
<1>7. ASSUME NEW i \in Incident, ResolveIncident(i)
      PROVE  ListsTracked' /\ ResolvesTracked'
  <2>1. PICK p \in Post : /\ posts[p].at = "free"
                          /\ posts' = [posts EXCEPT ![p] = [at |-> "sent", incident |-> i, data |-> NoRow]]
                          /\ active' = [active EXCEPT ![i] = p]
    BY <1>7 DEF ResolveIncident
  <2>2. /\ active[i] = NoRequest /\ resolving' = resolving \cup {i}
        /\ UNCHANGED requestVars /\ view' = view
    BY <1>7 DEF ResolveIncident, NotResolving
  <2>3. /\ posts'[p].at = "sent" /\ posts'[p].incident = i
        /\ \A q \in Post \ {p} : posts'[q] = posts[q]
    BY <2>1 DEF TypeOK
  <2>4. active'[i] = p /\ \A j \in Incident \ {i} : active'[j] = active[j]
    BY <2>1 DEF TypeOK
  <2>5. ASSUME NEW j \in Incident \ {i}
        PROVE  active[j] # p
    BY <2>1, ListAssumption DEF ResolvesTracked
  <2>6. ASSUME NEW q \in Post \ {p}, posts[q].at # "free"
        PROVE  posts[q].incident \in Incident \ {i} /\ active[posts[q].incident] = q
    BY <2>2, <2>6, ListAssumption DEF ResolvesTracked, TypeOK, PostState
  <2>7. p # NoRequest /\ \A j \in Incident : active[j] \in Post \cup {NoRequest}
    BY ListAssumption DEF TypeOK
  <2>8. ASSUME NEW j \in Incident
        PROVE  /\ j \in resolving' <=> active'[j] # NoRequest
               /\ active'[j] # NoRequest =>
                    posts'[active'[j]].at # "free" /\ posts'[active'[j]].incident = j
    <3>1. CASE j = i
      BY <2>2, <2>3, <2>4, <2>7, <3>1
    <3>2. CASE j # i
      <4>1. active'[j] = active[j] /\ active[j] # p
        BY <2>4, <2>5, <3>2
      <4> QED BY <2>2, <2>3, <2>7, <3>2, <4>1 DEF ResolvesTracked
    <3> QED BY <3>1, <3>2
  <2>9. ASSUME NEW q \in Post, posts'[q].at # "free"
        PROVE  active'[posts'[q].incident] = q
    <3>1. CASE q = p
      BY <2>3, <2>4, <3>1
    <3>2. CASE q # p
      BY <2>3, <2>4, <2>6, <2>9, <3>2
    <3> QED BY <3>1, <3>2
  <2> QED BY <2>2, <2>8, <2>9, <1>b DEF ResolvesTracked
<1>8. ASSUME NEW p \in Post, AnswerPost(p) \/ FailPost(p)
      PROVE  ListsTracked' /\ ResolvesTracked'
  <2>1. posts[p].at # "free"
    BY <1>8 DEF AnswerPost, FailPost
  <2>2. /\ posts'[p].at # "free" /\ posts'[p].incident = posts[p].incident
        /\ \A q \in Post \ {p} : posts'[q] = posts[q]
    <3>1. CASE AnswerPost(p)
      BY <3>1, AnswerPostEffect
    <3>2. CASE FailPost(p)
      BY <3>2 DEF FailPost, TypeOK, PostState
    <3> QED BY <1>8, <3>1, <3>2
  <2>5. \A q \in Post : /\ posts'[q].incident = posts[q].incident
                        /\ posts'[q].at # "free" <=> posts[q].at # "free"
    BY <2>1, <2>2
  <2>6. active' = active /\ resolving' = resolving /\ UNCHANGED requestVars /\ view' = view
    BY <1>8 DEF AnswerPost, FailPost
  <2> QED BY <2>5, <2>6, <1>b, AnsweredTracked
<1>9. ASSUME NEW p \in Post, DeliverPost(p) \/ DeliverPostError(p)
      PROVE  ListsTracked' /\ ResolvesTracked'
  <2>1. posts[p].at # "free" /\ Finish(p) /\ UNCHANGED requestVars
    BY <1>9 DEF DeliverPost, DeliverPostError
  <2>2. view'.status = view.status /\ view'.refreshing = view.refreshing
    <3>1. \/ view' = view
          \/ \E r : view' = [view EXCEPT !.data[posts[p].incident] = r]
      BY <1>9 DEF DeliverPost, DeliverPostError
    <3> QED BY <3>1 DEF TypeOK, View
  <2> QED BY <2>1, <2>2, <1>c, FinishTracked
<1>10. CASE UNCHANGED vars
  BY <1>10, <1>a, <1>b DEF vars
<1> QED BY <1>1, <1>2, <1>3, <1>4, <1>5, <1>6, <1>7, <1>8, <1>9, <1>10 DEF Next

LEMMA TrackedAlways == Spec => [](TypeOK /\ ListsTracked /\ ResolvesTracked)
<1>1. Init => TypeOK /\ ListsTracked /\ ResolvesTracked
  BY TypeInit, TrackedInit
<1>2. TypeOK /\ ListsTracked /\ ResolvesTracked /\ [Next]_vars
        => (TypeOK /\ ListsTracked /\ ResolvesTracked)'
  BY TypeNext, TrackedNext
<1> QED BY <1>1, <1>2, PTL DEF Spec

(* No indicator of the list outlives the request it stands for. *)
THEOREM IndicatorsFollowRequests == Spec => []IndicatorsMatchRequests
<1>1. ListsTracked /\ ResolvesTracked => IndicatorsMatchRequests
  BY DEF ListsTracked, ResolvesTracked, IndicatorsMatchRequests
<1> QED BY <1>1, TrackedAlways, PTL

(* Clicks in quick succession send one resolve request per incident. *)
THEOREM OneResolvePerIncident == Spec => []OneResolveInFlight
<1>1. ResolvesTracked => OneResolveInFlight
  BY DEF ResolvesTracked, OneResolveInFlight
<1> QED BY <1>1, TrackedAlways, PTL
-----------------------------------------------------------------------------
(* The order of an incident's versions.  Rows of one incident that the     *)
(* server ever stored form a chain; every copy in the browser or on the    *)
(* way to it belongs to that chain, and of two copies PickIncident keeps   *)
(* the later one although it compares coarser instants.                    *)

Earlier(a, b) ==
  \/ a = NoRow
  \/ /\ b # NoRow
     /\ a.count <= b.count /\ a.updated <= b.updated
     /\ a.status = "RESOLVED" => a = b
     /\ a.status = b.status /\ a.count = b.count => a = b

LEMMA EarlierReflexive ==
  ASSUME NEW a \in Row \cup {NoRow}
  PROVE  Earlier(a, a)
<1>1. CASE a = NoRow
  BY <1>1 DEF Earlier
<1>2. CASE a \in Row
  <2>1. a # NoRow /\ a.count \in Nat /\ a.updated \in Nat
    BY <1>2, RowFields, MaxTimeAssumption DEF Time
  <2> QED BY <2>1 DEF Earlier
<1> QED BY <1>1, <1>2

LEMMA EarlierTransitive ==
  ASSUME NEW a \in Row \cup {NoRow}, NEW b \in Row \cup {NoRow}, NEW c \in Row \cup {NoRow},
         Earlier(a, b), Earlier(b, c)
  PROVE  Earlier(a, c)
<1>1. CASE a = NoRow
  BY <1>1 DEF Earlier
<1>2. CASE a # NoRow
  <2>1. b # NoRow /\ c # NoRow
    BY <1>2 DEF Earlier
  <2>2. /\ a.count \in Nat /\ b.count \in Nat /\ c.count \in Nat
        /\ a.updated \in Nat /\ b.updated \in Nat /\ c.updated \in Nat
        /\ a.status \in {"OPEN", "RESOLVED"} /\ b.status \in {"OPEN", "RESOLVED"}
        /\ c.status \in {"OPEN", "RESOLVED"}
    BY <1>2, <2>1, RowFields, MaxTimeAssumption DEF Time
  <2>3. /\ a.count <= b.count /\ a.updated <= b.updated
        /\ a.status = "RESOLVED" => a = b
        /\ a.status = b.status /\ a.count = b.count => a = b
        /\ b.count <= c.count /\ b.updated <= c.updated
        /\ b.status = "RESOLVED" => b = c
        /\ b.status = c.status /\ b.count = c.count => b = c
    BY <1>2, <2>1 DEF Earlier
  <2>4. a.count <= c.count /\ a.updated <= c.updated
    BY <2>2, <2>3
  <2>5. a.status = "RESOLVED" => a = c
    BY <2>3
  <2>6. ASSUME a.status = c.status, a.count = c.count
        PROVE  a = c
    <3>1. a.count = b.count /\ b.count = c.count
      BY <2>2, <2>3, <2>6
    <3> QED BY <2>2, <2>3, <2>6, <3>1
  <2> QED BY <1>2, <2>1, <2>4, <2>5, <2>6 DEF Earlier
<1> QED BY <1>1, <1>2

LEMMA EarlierNotOlder ==
  ASSUME NEW a \in Row \cup {NoRow}, NEW b \in Row \cup {NoRow}, Earlier(a, b)
  PROVE  NotOlder(b, a)
<1>1. CASE a = NoRow
  BY <1>1 DEF NotOlder
<1>2. CASE a # NoRow
  <2>1. b # NoRow /\ a.count <= b.count /\ (a.status = "RESOLVED" => a = b)
    BY <1>2 DEF Earlier
  <2>2. a.count \in Nat /\ b.count \in Nat
    BY <1>2, <2>1, RowFields
  <2> QED BY <2>1, <2>2 DEF NotOlder
<1> QED BY <1>1, <1>2

LEMMA PickLater ==
  ASSUME NEW a \in Row, NEW b \in Row, Earlier(a, b) \/ Earlier(b, a)
  PROVE  Earlier(a, PickIncident(a, b)) /\ Earlier(b, PickIncident(a, b))
<1>1. /\ a # NoRow /\ b # NoRow /\ a.count \in Nat /\ b.count \in Nat
      /\ a.updated \in Nat /\ b.updated \in Nat
      /\ a.status \in {"OPEN", "RESOLVED"} /\ b.status \in {"OPEN", "RESOLVED"}
  BY RowFields, MaxTimeAssumption DEF Time
<1>2. /\ Instant(a.updated) \in Nat /\ Instant(b.updated) \in Nat
      /\ a.updated <= b.updated => Instant(a.updated) <= Instant(b.updated)
      /\ b.updated <= a.updated => Instant(b.updated) <= Instant(a.updated)
  BY <1>1 DEF Instant
<1>3. Earlier(a, a) /\ Earlier(b, b)
  BY EarlierReflexive
<1>4. CASE Earlier(a, b)
  <2>1. /\ a.count <= b.count /\ a.updated <= b.updated
        /\ a.status = "RESOLVED" => a = b
    BY <1>1, <1>4 DEF Earlier
  <2>2. PickIncident(a, b) = b
    BY <1>1, <1>2, <2>1 DEF PickIncident
  <2> QED BY <1>3, <1>4, <2>2
<1>5. CASE Earlier(b, a)
  <2>1. /\ b.count <= a.count /\ b.updated <= a.updated
        /\ b.status = "RESOLVED" => b = a
        /\ b.status = a.status /\ b.count = a.count => b = a
    BY <1>1, <1>5 DEF Earlier
  <2>2. PickIncident(a, b) = a
    BY <1>1, <1>2, <2>1 DEF PickIncident
  <2> QED BY <1>3, <1>5, <2>2
<1> QED BY <1>4, <1>5

-----------------------------------------------------------------------------
(* The invariant. *)

IsVersion(i, r) ==
  \/ r = incidents[i] \/ r = shown[i] \/ r = view.data[i] \/ r = rendered.data[i]
  \/ \E g \in Get : r = gets[g].data[i]
  \/ \E p \in Post : posts[p].incident = i /\ r = posts[p].data

Lineage(i) ==
  \A a, b \in Row \cup {NoRow} :
    IsVersion(i, a) /\ IsVersion(i, b) =>
      Earlier(a, incidents[i]) /\ (Earlier(a, b) \/ Earlier(b, a))

(* An OPEN incident was updated by its last observation. *)
Current(i) == IsOpen(incidents[i]) => incidents[i].updated = incidents[i].seen

ShownKept ==
  /\ view.status = "success" => view.data = shown
  /\ view.status # "success" /\ gets[requestId].at = "answered" =>
       \A i \in Incident : Earlier(shown[i], gets[requestId].data[i])

(* Only an incident the server has can be asked to be resolved. *)
PostsKnown ==
  \A p \in Post :
    /\ posts[p].at # "free" => incidents[posts[p].incident] # NoRow
    /\ posts[p].at = "answered" => posts[p].data # NoRow

Descent ==
  /\ \A i \in Incident : Lineage(i) /\ Current(i)
  /\ ShownKept
  /\ PostsKnown

LEMMA RowTypes ==
  ASSUME TypeOK, NEW i \in Incident
  PROVE  /\ incidents[i] \in Row \cup {NoRow} /\ shown[i] \in Row \cup {NoRow}
         /\ view.data[i] \in Row \cup {NoRow} /\ rendered.data[i] \in Row \cup {NoRow}
         /\ \A g \in Get : gets[g].data[i] \in Row \cup {NoRow}
         /\ \A p \in Post : posts[p].data \in Row \cup {NoRow}
<1>1. /\ incidents \in Rows /\ shown \in Rows /\ view.data \in Rows /\ rendered.data \in Rows
      /\ \A g \in Get : gets[g].data \in Rows
      /\ \A p \in Post : posts[p].data \in Row \cup {NoRow}
  BY DEF TypeOK, View, GetState, PostState
<1> QED BY <1>1 DEF Rows

LEMMA DescentInit == Init => Descent
<1> SUFFICES ASSUME Init PROVE Descent
  OBVIOUS
<1>1. /\ incidents = NoRows /\ shown = NoRows /\ view.data = NoRows /\ rendered.data = NoRows
      /\ view.status = "loading" /\ requestId \in Get
  BY DEF Init, Bare
<1>2. ASSUME NEW g \in Get
      PROVE  gets[g].data = NoRows /\ gets[g].at # "answered"
  BY DEF Init, FreeGet
<1>3. \A p \in Post : posts[p].at = "free" /\ posts[p].data = NoRow
  BY DEF Init, FreePost
<1>4. \A i \in Incident : NoRows[i] = NoRow
  BY DEF NoRows
<1>5. ASSUME NEW i \in Incident
      PROVE  Lineage(i) /\ Current(i)
  <2>1. \A r : IsVersion(i, r) => r = NoRow
    BY <1>1, <1>2, <1>3, <1>4 DEF IsVersion
  <2> QED BY <1>1, <1>4, <2>1 DEF Lineage, Current, IsOpen, Earlier
<1> QED BY <1>1, <1>2, <1>3, <1>5 DEF Descent, ShownKept, PostsKnown

-----------------------------------------------------------------------------
(* Steps. *)

(* Server steps only add a later version of an incident. *)
Progress(i) == Earlier(incidents[i], incidents'[i]) /\ Current(i)'

LEMMA ProgressIdle ==
  ASSUME TypeOK, Descent, incidents' = incidents
  PROVE  \A i \in Incident : Progress(i)
BY RowTypes, EarlierReflexive DEF Progress, Descent, Current

LEMMA ProgressOne ==
  ASSUME TypeOK, Descent, NEW i \in Incident, NEW r \in Row,
         incidents' = [incidents EXCEPT ![i] = r],
         Earlier(incidents[i], r), IsOpen(r) => r.updated = r.seen
  PROVE  \A j \in Incident : Progress(j)
<1> SUFFICES ASSUME NEW j \in Incident PROVE Progress(j)
  OBVIOUS
<1>1. incidents'[i] = r /\ (j # i => incidents'[j] = incidents[j])
  BY DEF TypeOK, Rows
<1>2. CASE j = i
  BY <1>1, <1>2 DEF Progress, Current
<1>3. CASE j # i
  BY <1>1, <1>3, RowTypes, EarlierReflexive DEF Progress, Descent, Current
<1> QED BY <1>2, <1>3

LEMMA ResolvedLater ==
  ASSUME NEW r \in Row \cup {NoRow}, NEW t \in Time, AcceptsResolution(r, t)
  PROVE  /\ ResolvedAt(r, t) \in Row /\ Earlier(r, ResolvedAt(r, t))
         /\ ~IsOpen(ResolvedAt(r, t))
<1>1. r \in Row /\ r.status = "OPEN" /\ r.updated <= t /\ r.count \in Nat
  BY RowFields DEF AcceptsResolution, IsOpen
<1>2. ResolvedAt(r, t) \in Row
  BY <1>1, ResolvedIsRow
<1>3. /\ ResolvedAt(r, t).status = "RESOLVED" /\ ResolvedAt(r, t).updated = t
      /\ ResolvedAt(r, t).count = r.count /\ ResolvedAt(r, t) # NoRow
  BY <1>1, <1>2, RowFields DEF ResolvedAt, Row
<1> HIDE DEF ResolvedAt
<1> QED BY <1>1, <1>2, <1>3 DEF Earlier, IsOpen

LEMMA LineageKept ==
  ASSUME TypeOK, TypeOK', Descent, NEW i \in Incident, Progress(i),
         \A r \in Row \cup {NoRow} :
           IsVersion(i, r)' => IsVersion(i, r) \/ r = incidents'[i] \/ r = NoRow
  PROVE  Lineage(i)' /\ Current(i)'
<1>1. incidents[i] \in Row \cup {NoRow} /\ incidents'[i] \in Row \cup {NoRow}
  BY DEF TypeOK, Rows
<1>2. ASSUME NEW a \in Row \cup {NoRow}, IsVersion(i, a)'
      PROVE  Earlier(a, incidents'[i])
  <2>1. CASE IsVersion(i, a)
    <3>1. Earlier(a, incidents[i])
      BY <2>1 DEF Descent, Lineage
    <3> QED BY <1>1, <3>1, EarlierTransitive DEF Progress
  <2>2. CASE a = incidents'[i]
    BY <1>1, <2>2, EarlierReflexive
  <2>3. CASE a = NoRow
    BY <2>3 DEF Earlier
  <2> QED BY <1>2, <2>1, <2>2, <2>3
<1>3. ASSUME NEW a \in Row \cup {NoRow}, NEW b \in Row \cup {NoRow},
             IsVersion(i, a)', IsVersion(i, b)'
      PROVE  Earlier(a, b) \/ Earlier(b, a)
  <2>1. CASE IsVersion(i, a) /\ IsVersion(i, b)
    BY <2>1 DEF Descent, Lineage
  <2>2. CASE a = incidents'[i] \/ b = incidents'[i]
    BY <1>2, <1>3, <2>2
  <2>3. CASE a = NoRow \/ b = NoRow
    BY <2>3 DEF Earlier
  <2> QED BY <1>3, <2>1, <2>2, <2>3
<1>4. Lineage(i)'
  BY <1>2, <1>3 DEF Lineage
<1> QED BY <1>4 DEF Progress
LEMMA DescentKept ==
  ASSUME TypeOK, TypeOK', Descent, \A i \in Incident : Progress(i),
         \A i \in Incident : \A r \in Row \cup {NoRow} :
           IsVersion(i, r)' => IsVersion(i, r) \/ r = incidents'[i] \/ r = NoRow,
         ShownKept', PostsKnown'
  PROVE  Descent'
<1>1. \A i \in Incident : Lineage(i)' /\ Current(i)'
  BY LineageKept
<1> QED BY <1>1 DEF Descent

LEMMA PostsKnownIdle ==
  ASSUME TypeOK, Descent, \A i \in Incident : Progress(i), posts' = posts
  PROVE  PostsKnown'
<1>1. \A p \in Post : posts[p].incident \in Incident
  BY DEF TypeOK, PostState
<1> QED BY <1>1 DEF Progress, Earlier, Descent, PostsKnown

(* Some known requests, and one more that is known. *)
LEMMA PostsKnownOne ==
  ASSUME TypeOK, Descent, \A i \in Incident : Progress(i), NEW p \in Post,
         \A q \in Post \ {p} : posts'[q] = posts[q],
         posts'[p].at # "free" => incidents'[posts'[p].incident] # NoRow,
         posts'[p].at = "answered" => posts'[p].data # NoRow
  PROVE  PostsKnown'
<1>1. \A q \in Post : posts[q].incident \in Incident
  BY DEF TypeOK, PostState
<1>2. \A q \in Post \ {p} :
        /\ posts'[q].at # "free" => incidents'[posts'[q].incident] # NoRow
        /\ posts'[q].at = "answered" => posts'[q].data # NoRow
  BY <1>1 DEF Progress, Earlier, Descent, PostsKnown
<1> QED BY <1>2 DEF PostsKnown

LEMMA FinishEffect ==
  ASSUME TypeOK, NEW p \in Post, Finish(p)
  PROVE  /\ posts'[p].at = "free" /\ posts'[p].data = NoRow
         /\ \A q \in Post \ {p} : posts'[q] = posts[q]
<1>1. FreePost.at = "free" /\ FreePost.data = NoRow
  BY DEF FreePost
<1> QED BY <1>1 DEF Finish, TypeOK

LEMMA MergeLater ==
  ASSUME TypeOK, Descent, NEW g \in Get, NEW i \in Incident
  PROVE  /\ MergeIncidentLists(gets[g].data, view.data)[i] \in {gets[g].data[i], view.data[i]}
         /\ Earlier(view.data[i], MergeIncidentLists(gets[g].data, view.data)[i])
<1> DEFINE a == view.data[i]
           b == gets[g].data[i]
           m == MergeIncidentLists(gets[g].data, view.data)[i]
<1>1. a \in Row \cup {NoRow} /\ b \in Row \cup {NoRow}
  BY RowTypes
<1>2. m = CASE b = NoRow -> a [] a = NoRow -> b [] OTHER -> PickIncident(a, b)
  BY DEF MergeIncidentLists
<1>3. Earlier(a, b) \/ Earlier(b, a)
  BY <1>1 DEF Descent, Lineage, IsVersion
<1> HIDE DEF a, b, m
<1>4. CASE b = NoRow
  BY <1>1, <1>2, <1>4, EarlierReflexive DEF a, b, m
<1>5. CASE b # NoRow /\ a = NoRow
  BY <1>2, <1>5 DEF a, b, m, Earlier
<1>6. CASE b # NoRow /\ a # NoRow
  <2>1. m = PickIncident(a, b)
    BY <1>2, <1>6
  <2>2. Earlier(a, m) /\ m \in {a, b}
    BY <1>1, <1>3, <1>6, <2>1, PickLater, PickOne
  <2> QED BY <2>2 DEF a, b, m
<1> QED BY <1>4, <1>5, <1>6

(* What is shown descends along each incident's versions. *)
Ascends == \A i \in Incident : Earlier(shown[i], shown'[i])

LEMMA AscendsIdle ==
  ASSUME TypeOK, shown' = shown
  PROVE  Ascends
BY RowTypes, EarlierReflexive DEF Ascends

LEMMA DescentNext ==
  TypeOK /\ TypeOK' /\ Descent /\ [Next]_vars => Descent' /\ Ascends
<1> SUFFICES ASSUME TypeOK, TypeOK', Descent, [Next]_vars
             PROVE  Descent' /\ Ascends
  OBVIOUS
<1>1. ASSUME NEW i \in Incident, ServerCreate(i) \/ ServerRefresh(i) \/ ServerResolve(i)
      PROVE  Descent' /\ Ascends
  <2>1. incidents[i] \in Row \cup {NoRow}
    BY RowTypes
  <2>2. PICK r \in Row : /\ ServerChange(i, r) /\ Earlier(incidents[i], r)
                         /\ IsOpen(r) => r.updated = r.seen
    <3>1. CASE ServerCreate(i)
      <4>1. PICK f \in Fingerprint, t \in Time : ServerChange(i, Opened(f, t))
        BY <3>1 DEF ServerCreate
      <4>2. Opened(f, t).updated = Opened(f, t).seen
        BY DEF Opened
      <4> QED BY <3>1, <4>1, <4>2, OpenedIsRow DEF ServerCreate, Earlier
    <3>2. CASE ServerRefresh(i)
      <4>1. PICK t \in Time : /\ AcceptsObservation(incidents[i], t)
                              /\ ServerChange(i, Refreshed(incidents[i], t))
        BY <3>2 DEF ServerRefresh
      <4> DEFINE a == incidents[i]
                 b == Refreshed(a, t)
      <4>2. /\ a \in Row /\ IsOpen(a) /\ a.updated = a.seen /\ a.seen <= t
            /\ a.count \in Nat /\ a.updated \in Nat /\ t \in Nat
        BY <2>1, <3>2, <4>1, RowFields, MaxTimeAssumption
           DEF ServerRefresh, IsOpen, AcceptsObservation, Descent, Current, Time
      <4>3. b \in Row /\ b # NoRow
        BY <4>2, RefreshedIsRow, RowFields
      <4>4. b.count = a.count + 1 /\ b.updated = t /\ b.seen = t /\ b.status = a.status
        BY <4>2 DEF Refreshed, Row
      <4>5. a.status # "RESOLVED"
        BY <4>2 DEF IsOpen
      <4>6. ServerChange(i, b)
        BY <4>1
      <4> HIDE DEF b
      <4>7. Earlier(a, b)
        BY <4>2, <4>3, <4>4, <4>5 DEF Earlier
      <4> QED BY <4>3, <4>4, <4>6, <4>7
    <3>3. CASE ServerResolve(i)
      BY <2>1, <3>3, ResolvedLater DEF ServerResolve
    <3> QED BY <1>1, <3>1, <3>2, <3>3
  <2>3. /\ incidents' = [incidents EXCEPT ![i] = r]
        /\ UNCHANGED <<view, rendered, requestVars, resolveVars, shown>>
    BY <2>2 DEF ServerChange
  <2>4. \A j \in Incident : Progress(j)
    BY <2>2, <2>3, ProgressOne
  <2>5. ShownKept'
    BY <2>3 DEF Descent, ShownKept, requestVars
  <2>6. \A j \in Incident : \A q \in Row \cup {NoRow} :
          IsVersion(j, q)' => IsVersion(j, q) \/ q = incidents'[j] \/ q = NoRow
    BY <2>3 DEF IsVersion, requestVars, resolveVars
  <2> QED BY <2>3, <2>4, <2>5, <2>6, PostsKnownIdle, DescentKept, AscendsIdle DEF resolveVars
<1>2. ASSUME Refresh \/ Poll
      PROVE  Descent' /\ Ascends
  <2>1. PICK g \in Get, b \in BOOLEAN : BeginNewRequest(g, b)
    BY <1>2 DEF Refresh, Poll
  <2>2. /\ requestId' = g /\ gets'[g].at = "sent" /\ gets'[g].data = NoRows
        /\ \A h \in Get \ {g} : gets'[h] = gets[h]
    BY <2>1, BeginType
  <2>3. /\ incidents' = incidents /\ shown' = shown /\ rendered' = rendered /\ posts' = posts
    BY <1>2 DEF Refresh, Poll, resolveVars
  <2>4. /\ view'.data \in {view.data, NoRows}
        /\ view'.status = "success" => view.status = "success" /\ view'.data = view.data
    <3>1. CASE Poll
      BY <3>1 DEF Poll
    <3>2. CASE Refresh /\ view.status = "success"
      <4>1. view' = [view EXCEPT !.refreshing = TRUE]
        BY <3>2 DEF Refresh, AfterRefreshClick
      <4> QED BY <3>2, <4>1 DEF TypeOK, View
    <3>3. CASE Refresh /\ view.status # "success"
      <4>1. view' = Bare("loading")
        BY <3>3 DEF Refresh, AfterRefreshClick
      <4> QED BY <4>1 DEF Bare
    <3> QED BY <1>2, <3>1, <3>2, <3>3
  <2>5. \A j \in Incident : Progress(j)
    BY <2>3, ProgressIdle
  <2>6. ShownKept'
    BY <2>2, <2>3, <2>4 DEF Descent, ShownKept
  <2>7. ASSUME NEW j \in Incident, NEW q \in Row \cup {NoRow}, IsVersion(j, q)'
        PROVE  IsVersion(j, q) \/ q = NoRow
    <3>1. NoRows[j] = NoRow
      BY DEF NoRows
    <3>2. CASE q = view'.data[j]
      BY <2>4, <3>1, <3>2 DEF IsVersion
    <3>3. CASE \E h \in Get : q = gets'[h].data[j]
      BY <2>2, <3>1, <3>3 DEF IsVersion
    <3>4. CASE q # view'.data[j] /\ ~\E h \in Get : q = gets'[h].data[j]
      BY <2>3, <2>7, <3>4 DEF IsVersion
    <3> QED BY <3>2, <3>3, <3>4
  <2> QED BY <2>3, <2>5, <2>6, <2>7, PostsKnownIdle, DescentKept, AscendsIdle
<1>3. CASE Render
  <2>1. /\ rendered' = view
        /\ UNCHANGED <<incidents, view, requestId, gets, posts, shown>>
    BY <1>3 DEF Render, requestVars, resolveVars
  <2>2. \A j \in Incident : Progress(j)
    BY <2>1, ProgressIdle
  <2>3. ShownKept'
    BY <2>1 DEF Descent, ShownKept
  <2>4. \A j \in Incident : \A q \in Row \cup {NoRow} :
          IsVersion(j, q)' => IsVersion(j, q) \/ q = incidents'[j] \/ q = NoRow
    BY <2>1 DEF IsVersion
  <2> QED BY <2>1, <2>2, <2>3, <2>4, PostsKnownIdle, DescentKept, AscendsIdle
<1>4. ASSUME NEW g \in Get, AnswerGet(g) \/ FailGet(g)
      PROVE  Descent' /\ Ascends
  <2>1. UNCHANGED <<incidents, view, rendered, requestId, posts, shown>>
    BY <1>4 DEF AnswerGet, FailGet, resolveVars
  <2>2. /\ \A h \in Get \ {g} : gets'[h] = gets[h]
        /\ gets'[g].data \in {incidents, NoRows}
        /\ gets'[g].at = "answered" => gets'[g].data = incidents
    <3>1. CASE AnswerGet(g)
      BY <3>1 DEF AnswerGet, TypeOK, GetState
    <3>2. CASE FailGet(g)
      BY <3>2 DEF FailGet, TypeOK, GetState
    <3> QED BY <1>4, <3>1, <3>2
  <2>3. \A j \in Incident : Progress(j)
    BY <2>1, ProgressIdle
  <2>4. ASSUME NEW j \in Incident
        PROVE  Earlier(shown[j], incidents[j])
    BY RowTypes DEF Descent, Lineage, IsVersion
  <2>5. ShownKept'
    <3>1. CASE requestId = g
      BY <2>1, <2>2, <2>4, <3>1 DEF Descent, ShownKept
    <3>2. CASE requestId # g
      <4>1. gets'[requestId] = gets[requestId]
        BY <2>2, <3>2 DEF TypeOK
      <4> QED BY <2>1, <4>1 DEF Descent, ShownKept
    <3> QED BY <3>1, <3>2
  <2>6. ASSUME NEW j \in Incident, NEW q \in Row \cup {NoRow}, IsVersion(j, q)'
        PROVE  IsVersion(j, q) \/ q = NoRow
    <3>1. NoRows[j] = NoRow
      BY DEF NoRows
    <3>2. CASE \E h \in Get : q = gets'[h].data[j]
      BY <2>2, <3>1, <3>2 DEF IsVersion
    <3>3. CASE ~\E h \in Get : q = gets'[h].data[j]
      BY <2>1, <2>6, <3>3 DEF IsVersion
    <3> QED BY <3>2, <3>3
  <2> QED BY <2>1, <2>3, <2>5, <2>6, PostsKnownIdle, DescentKept, AscendsIdle
<1>5. ASSUME NEW g \in Get, DeliverGet(g) \/ DeliverFailure(g)
      PROVE  Descent' /\ Ascends
  <2>1. UNCHANGED <<incidents, rendered, requestId, posts>>
    BY <1>5 DEF DeliverGet, DeliverFailure, resolveVars
  <2>2. /\ \A h \in Get \ {g} : gets'[h] = gets[h]
        /\ gets'[g].at = "free" /\ gets'[g].data = NoRows
    <3>1. gets' = [gets EXCEPT ![g] = FreeGet]
      BY <1>5 DEF DeliverGet, DeliverFailure
    <3> QED BY <3>1 DEF TypeOK, FreeGet
  <2>3. \A j \in Incident : Progress(j)
    BY <2>1, ProgressIdle
  <2>4. /\ view'.status = "success" => view'.data = shown'
        /\ view'.status # "success" => gets'[requestId].at # "answered" \/ view' = view
        /\ shown' = shown \/ shown' = view'.data
        /\ \A j \in Incident :
             /\ view'.data[j] \in {view.data[j], gets[g].data[j], NoRow}
             /\ Earlier(shown[j], shown'[j])
    <3>1. CASE ~Applies(g)
      <4>1. view' = view /\ shown' = shown
        BY <1>5, <3>1 DEF DeliverGet, DeliverFailure
      <4> QED BY <4>1, AscendsIdle DEF Ascends, Descent, ShownKept
    <3>2. CASE Applies(g) /\ DeliverGet(g)
      <4> DEFINE d == IF view.status = "success" THEN MergeIncidentLists(gets[g].data, view.data)
                                                 ELSE gets[g].data
      <4>1. view' = [Bare("success") EXCEPT !.data = d] /\ shown' = view'.data
        BY <3>2 DEF DeliverGet
      <4>2. ASSUME NEW j \in Incident
            PROVE  d[j] \in {view.data[j], gets[g].data[j]} /\ Earlier(shown[j], d[j])
        <5>1. CASE view.status = "success"
          BY <5>1, MergeLater DEF Descent, ShownKept
        <5>2. CASE view.status # "success"
          BY <3>2, <5>2 DEF Descent, ShownKept, Applies, DeliverGet
        <5> QED BY <5>1, <5>2
      <4> HIDE DEF d
      <4>3. view'.status = "success" /\ view'.data = d
        BY <4>1 DEF Bare
      <4> QED BY <4>1, <4>2, <4>3
    <3>3. CASE Applies(g) /\ DeliverFailure(g)
      <4>1. view' = AfterFailure(g) /\ shown' = shown
        BY <3>3 DEF DeliverFailure
      <4>2. requestId = g
        BY <3>3 DEF Applies
      <4>3. CASE gets[g].background /\ view.status = "success"
        <5>1. view' = [view EXCEPT !.failed = TRUE]
          BY <4>1, <4>3 DEF AfterFailure
        <5>2. view'.status = view.status /\ view'.data = view.data
          BY <5>1 DEF TypeOK, View
        <5> QED BY <2>2, <4>1, <4>2, <5>2, AscendsIdle DEF Ascends, Descent, ShownKept
      <4>4. CASE ~(gets[g].background /\ view.status = "success")
        <5>1. view'.status = "error" /\ view'.data = NoRows
          BY <4>1, <4>4 DEF AfterFailure, Bare
        <5>2. \A j \in Incident : NoRows[j] = NoRow
          BY DEF NoRows
        <5> QED BY <2>2, <4>1, <4>2, <5>1, <5>2, AscendsIdle DEF Ascends
      <4> QED BY <4>3, <4>4
    <3> QED BY <1>5, <3>1, <3>2, <3>3
  <2>5. ShownKept'
    <3>1. CASE view'.status = "success"
      BY <2>4, <3>1 DEF ShownKept
    <3>2. CASE view'.status # "success" /\ gets'[requestId].at = "answered"
      <4>1. view' = view /\ shown' \in {shown, view'.data}
        BY <2>4, <3>2
      <4>2. requestId # g /\ gets'[requestId] = gets[requestId]
        BY <2>2, <3>2 DEF TypeOK
      <4>3. shown' = shown
        BY <1>5, <2>1, <3>2, <4>2 DEF DeliverGet, DeliverFailure, Applies
      <4> QED BY <2>1, <3>2, <4>1, <4>2, <4>3 DEF Descent, ShownKept
    <3> QED BY <2>1, <3>1, <3>2 DEF ShownKept
  <2>6. ASSUME NEW j \in Incident, NEW q \in Row \cup {NoRow}, IsVersion(j, q)'
        PROVE  IsVersion(j, q) \/ q = NoRow
    <3>1. NoRows[j] = NoRow
      BY DEF NoRows
    <3>2. CASE \E h \in Get : q = gets'[h].data[j]
      BY <2>2, <3>1, <3>2 DEF IsVersion
    <3>3. CASE q = view'.data[j]
      BY <2>4, <3>3 DEF IsVersion
    <3>4. CASE q = shown'[j]
      BY <2>4, <3>4 DEF IsVersion
    <3>5. CASE ~(\E h \in Get : q = gets'[h].data[j]) /\ q # view'.data[j] /\ q # shown'[j]
      BY <2>1, <2>6, <3>5 DEF IsVersion
    <3> QED BY <3>2, <3>3, <3>4, <3>5
  <2>7. Ascends
    BY <2>4 DEF Ascends
  <2> QED BY <2>1, <2>3, <2>5, <2>6, <2>7, PostsKnownIdle, DescentKept
<1>6. ASSUME NEW i \in Incident, ResolveIncident(i)
      PROVE  Descent' /\ Ascends
  <2>1. /\ UNCHANGED <<incidents, view, rendered, requestId, gets, shown>>
        /\ IsOpen(rendered.data[i])
    BY <1>6 DEF ResolveIncident, requestVars
  <2>2. PICK p \in Post :
          posts' = [posts EXCEPT ![p] = [at |-> "sent", incident |-> i, data |-> NoRow]]
    BY <1>6 DEF ResolveIncident
  <2>3. /\ posts'[p].at = "sent" /\ posts'[p].incident = i /\ posts'[p].data = NoRow
        /\ \A q \in Post \ {p} : posts'[q] = posts[q]
    BY <2>2 DEF TypeOK
  <2>4. \A j \in Incident : Progress(j)
    BY <2>1, ProgressIdle
  <2>5. incidents[i] # NoRow
    <3>1. Earlier(rendered.data[i], incidents[i])
      BY RowTypes DEF Descent, Lineage, IsVersion
    <3> QED BY <2>1, <3>1 DEF Earlier, IsOpen
  <2>6. PostsKnown'
    BY <2>1, <2>3, <2>4, <2>5, PostsKnownOne
  <2>7. ShownKept'
    BY <2>1 DEF Descent, ShownKept
  <2>8. \A j \in Incident : \A q \in Row \cup {NoRow} :
          IsVersion(j, q)' => IsVersion(j, q) \/ q = incidents'[j] \/ q = NoRow
    BY <2>1, <2>3 DEF IsVersion
  <2> QED BY <2>1, <2>4, <2>6, <2>7, <2>8, DescentKept, AscendsIdle
<1>7. ASSUME NEW p \in Post, AnswerPost(p) \/ FailPost(p)
      PROVE  Descent' /\ Ascends
  <2> DEFINE i == posts[p].incident
  <2>1. /\ UNCHANGED <<view, rendered, requestId, gets, shown>>
        /\ posts[p].at # "free" /\ i \in Incident
    BY <1>7 DEF AnswerPost, FailPost, requestVars, TypeOK, PostState
  <2>2. /\ posts'[p].incident = i
        /\ \A q \in Post \ {p} : posts'[q] = posts[q]
        /\ posts'[p].data \in {incidents'[i], posts[p].data, NoRow}
        /\ posts'[p].at = "answered" => posts'[p].data = incidents'[i]
    <3>1. CASE AnswerPost(p)
      BY <3>1, AnswerPostEffect
    <3>2. CASE FailPost(p)
      BY <3>2 DEF FailPost, TypeOK, PostState
    <3> QED BY <1>7, <3>1, <3>2
  <2>3. \A j \in Incident : Progress(j)
    <3>1. CASE incidents' = incidents
      BY <3>1, ProgressIdle
    <3>2. CASE \E t \in Time : /\ AcceptsResolution(incidents[i], t)
                               /\ incidents' = [incidents EXCEPT ![i] = ResolvedAt(incidents[i], t)]
      <4>1. PICK t \in Time : /\ AcceptsResolution(incidents[i], t)
                              /\ incidents' = [incidents EXCEPT ![i] = ResolvedAt(incidents[i], t)]
        BY <3>2
      <4>2. incidents[i] \in Row \cup {NoRow}
        BY <2>1, RowTypes
      <4> DEFINE r == ResolvedAt(incidents[i], t)
      <4>3. r \in Row /\ Earlier(incidents[i], r) /\ ~IsOpen(r)
        BY <4>1, <4>2, ResolvedLater
      <4>4. incidents' = [incidents EXCEPT ![i] = r]
        BY <4>1
      <4> HIDE DEF r, i
      <4> QED BY <2>1, <4>3, <4>4, ProgressOne
    <3>3. CASE FailPost(p)
      BY <3>3, ProgressIdle DEF FailPost
    <3>4. CASE AnswerPost(p)
      BY <3>1, <3>2, <3>4, AnswerPostEffect
    <3> QED BY <1>7, <3>3, <3>4
  <2>4. incidents'[i] # NoRow
    <3>1. incidents[i] # NoRow
      BY <2>1 DEF Descent, PostsKnown
    <3> QED BY <2>1, <2>3, <3>1 DEF Progress, Earlier
  <2>5. PostsKnown'
    BY <2>2, <2>3, <2>4, PostsKnownOne
  <2>6. ShownKept'
    BY <2>1 DEF Descent, ShownKept
  <2>7. ASSUME NEW j \in Incident, NEW q \in Row \cup {NoRow}, IsVersion(j, q)'
        PROVE  IsVersion(j, q) \/ q = incidents'[j] \/ q = NoRow
    <3>1. CASE \E x \in Post : posts'[x].incident = j /\ q = posts'[x].data
      BY <2>2, <3>1 DEF IsVersion
    <3>2. CASE ~\E x \in Post : posts'[x].incident = j /\ q = posts'[x].data
      BY <2>1, <2>7, <3>2 DEF IsVersion
    <3> QED BY <3>1, <3>2
  <2> QED BY <2>1, <2>3, <2>5, <2>6, <2>7, DescentKept, AscendsIdle
<1>8. ASSUME NEW p \in Post, DeliverPost(p) \/ DeliverPostError(p)
      PROVE  Descent' /\ Ascends
  <2> DEFINE i == posts[p].incident
  <2>1. /\ UNCHANGED <<incidents, rendered, requestId, gets>>
        /\ Finish(p) /\ i \in Incident
    BY <1>8 DEF DeliverPost, DeliverPostError, requestVars, TypeOK, PostState
  <2>2. /\ posts'[p].at = "free" /\ posts'[p].data = NoRow
        /\ \A q \in Post \ {p} : posts'[q] = posts[q]
    BY <2>1, FinishEffect
  <2>3. \A j \in Incident : Progress(j)
    BY <2>1, ProgressIdle
  <2>4. PostsKnown'
    BY <2>2, <2>3, PostsKnownOne
  <2>5. CASE view' = view /\ shown' = shown
    <3>1. ShownKept'
      BY <2>1, <2>5 DEF Descent, ShownKept
    <3>2. \A j \in Incident : \A q \in Row \cup {NoRow} :
            IsVersion(j, q)' => IsVersion(j, q) \/ q = incidents'[j] \/ q = NoRow
      BY <2>1, <2>2, <2>5 DEF IsVersion
    <3> QED BY <2>3, <2>4, <2>5, <3>1, <3>2, DescentKept, AscendsIdle
  <2>6. CASE /\ DeliverPost(p) /\ view.status = "success" /\ view.data[i] # NoRow
             /\ view' = [view EXCEPT !.data[i] = PickIncident(@, posts[p].data)]
             /\ shown' = view'.data
    <3> DEFINE a == view.data[i]
               b == posts[p].data
               m == PickIncident(a, b)
    <3>1. a \in Row /\ b \in Row
      BY <2>1, <2>6, RowTypes DEF DeliverPost, Descent, PostsKnown
    <3>2. Earlier(a, b) \/ Earlier(b, a)
      <4>1. IsVersion(i, a) /\ IsVersion(i, b)
        BY <2>1 DEF IsVersion
      <4> QED BY <2>1, <3>1, <4>1 DEF Descent, Lineage
    <3>3. Earlier(a, m) /\ m \in {a, b}
      BY <3>1, <3>2, PickLater, PickOne
    <3>4. /\ view'.status = view.status /\ view'.data[i] = m
          /\ \A j \in Incident \ {i} : view'.data[j] = view.data[j]
      BY <2>1, <2>6 DEF TypeOK, View, Rows
    <3>5. shown = view.data
      BY <2>6 DEF Descent, ShownKept
    <3> HIDE DEF m
    <3>6. ShownKept'
      BY <2>6, <3>4 DEF ShownKept
    <3>7. ASSUME NEW j \in Incident, NEW q \in Row \cup {NoRow}, IsVersion(j, q)'
          PROVE  IsVersion(j, q) \/ q = NoRow
      <4>1. CASE q = view'.data[j]
        <5>1. CASE j = i
          BY <2>1, <3>3, <3>4, <4>1, <5>1 DEF IsVersion
        <5>2. CASE j # i
          BY <3>4, <4>1, <5>2 DEF IsVersion
        <5> QED BY <5>1, <5>2
      <4>2. CASE q # view'.data[j]
        BY <2>1, <2>2, <2>6, <3>7, <4>2 DEF IsVersion
      <4> QED BY <4>1, <4>2
    <3>8. Ascends
      <4>1. ASSUME NEW j \in Incident
            PROVE  Earlier(shown[j], shown'[j])
        <5>1. CASE j = i
          BY <2>6, <3>3, <3>4, <3>5, <5>1
        <5>2. CASE j # i
          BY <2>6, <3>4, <3>5, <5>2, RowTypes, EarlierReflexive
        <5> QED BY <5>1, <5>2
      <4> QED BY <4>1 DEF Ascends
    <3> QED BY <2>3, <2>4, <3>6, <3>7, <3>8, DescentKept
  <2> QED BY <1>8, <2>5, <2>6 DEF DeliverPost, DeliverPostError
<1>9. CASE UNCHANGED vars
  <2>1. UNCHANGED <<incidents, view, rendered, requestId, gets, posts, shown>>
    BY <1>9 DEF vars, requestVars, resolveVars
  <2>2. \A j \in Incident : Progress(j)
    BY <2>1, ProgressIdle
  <2>3. ShownKept'
    BY <2>1 DEF Descent, ShownKept
  <2>4. \A j \in Incident : \A q \in Row \cup {NoRow} :
          IsVersion(j, q)' => IsVersion(j, q) \/ q = incidents'[j] \/ q = NoRow
    BY <2>1 DEF IsVersion
  <2> QED BY <2>1, <2>2, <2>3, <2>4, PostsKnownIdle, DescentKept, AscendsIdle
<1> QED BY <1>1, <1>2, <1>3, <1>4, <1>5, <1>6, <1>7, <1>8, <1>9 DEF Next

(* The list never shows an older version of an incident than it showed     *)
(* before, whatever answers overtake each other.                           *)
THEOREM ListNeverBackward == Spec => NeverBackward
<1>1. Init => TypeOK /\ Descent
  BY TypeInit, DescentInit
<1>2. TypeOK /\ Descent /\ [Next]_vars => (TypeOK /\ Descent)'
  BY TypeNext, DescentNext
<1>3. TypeOK /\ Descent /\ [Next]_vars =>
        [view'.status = "success" =>
           \A i \in Incident : NotOlder(view'.data[i], shown[i])]_vars
  <2> SUFFICES ASSUME TypeOK, Descent, [Next]_vars, view'.status = "success",
                      NEW i \in Incident
               PROVE  NotOlder(view'.data[i], shown[i])
    OBVIOUS
  <2>1. TypeOK' /\ Descent' /\ Ascends
    BY TypeNext, DescentNext
  <2>2. view'.data = shown'
    BY <2>1 DEF Descent, ShownKept
  <2>3. shown[i] \in Row \cup {NoRow} /\ shown'[i] \in Row \cup {NoRow}
    BY <2>1 DEF TypeOK, Rows
  <2> QED BY <2>1, <2>2, <2>3, EarlierNotOlder DEF Ascends
<1> QED BY <1>1, <1>2, <1>3, PTL DEF Spec, NeverBackward
=============================================================================
