----------------------------- MODULE MCBrowser -----------------------------
(***************************************************************************)
(* Small instances of the browser's three stateful parts: the incident     *)
(* list, the live network workspace, and the telemetry panel with the      *)
(* configuration form.  They share no state and never wait for each other, *)
(* so one is explored at a time while the others rest where they begin.    *)
(***************************************************************************)
EXTENDS IncidentList, TLC

CONSTANTS
  i1, g1, g2, p1, p2, bgp,
  RequestId, MaxCollections, MaxWorkspaceFailures, MaxRefreshes,
  Device, NoDevice, CycleId, MaxVersion, MaxSubmits

VARIABLES
  hook,   \* the part that is explored
  fabric, incident, requests, workspaceLatest, workspaceInFlight, workspaceView,
  workspaceFailures, refreshes,
  stored, cycles, latest, panel, post, form, submits, executed, notified

Workspace == INSTANCE LiveWorkspace WITH
  latest <- workspaceLatest, inFlight <- workspaceInFlight, view <- workspaceView,
  failures <- workspaceFailures, MaxFailures <- MaxWorkspaceFailures

Panels == INSTANCE DevicePanels

workspaceVars == <<fabric, incident, requests, workspaceLatest, workspaceInFlight, workspaceView,
                   workspaceFailures, refreshes>>
pageVars == <<stored, cycles, latest, panel, post, form, submits, executed, notified>>

ASSUME BrowserAssumption == Workspace!WorkspaceConstants /\ Panels!PanelsConstants

RequestSymmetry == Permutations(Get) \cup Permutations(Post)

BrowserInit ==
  /\ hook \in {"incidents", "workspace", "panels"}
  /\ Init /\ Workspace!Init /\ Panels!Init
  /\ hook # "incidents" => requestId = g1

all == <<hook, vars, workspaceVars, pageVars>>

Lists(A) == hook = "incidents" /\ A /\ UNCHANGED <<hook, workspaceVars, pageVars>>
Works(A) == hook = "workspace" /\ A /\ UNCHANGED <<hook, vars, pageVars>>
Pages(A) == hook = "panels" /\ A /\ UNCHANGED <<hook, vars, workspaceVars>>

BrowserNext == Lists(Next) \/ Works(Workspace!Next) \/ Pages(Panels!Next)

BrowserSpec == BrowserInit /\ [][BrowserNext]_all

(* The interval timers fire, React renders, the callbacks of settled       *)
(* promises run, and every request is answered or fails.  The last is an   *)
(* assumption on the network: fetch sets no timeout of its own.  Nothing   *)
(* makes clicks, failures, resolutions or changes at the server happen.    *)
BrowserFairSpec ==
  /\ BrowserSpec
  /\ WF_all(Lists(Poll)) /\ WF_all(Lists(Render))
  /\ \A g \in Get : WF_all(Lists(AnswerGet(g) \/ DeliverGet(g) \/ DeliverFailure(g)))
  /\ \A p \in Post : WF_all(Lists(AnswerPost(p) \/ DeliverPost(p) \/ DeliverPostError(p)))
  /\ WF_all(Works(Workspace!Tick))
  /\ \A h \in Workspace!Hook, i \in RequestId :
       /\ WF_all(\E r \in requests : r.hook = h /\ r.id = i /\ Works(Workspace!Answer(r)))
       /\ WF_all(\E r \in requests : r.hook = h /\ r.id = i /\ Works(Workspace!Deliver(r)))
  /\ WF_all(Pages(Panels!Execute \/ Panels!Reject)) /\ WF_all(Pages(Panels!Finish))
  /\ \A i \in CycleId :
       WF_all(\E c \in cycles : c.id = i /\ Pages(Panels!Deliver(c) \/ \E p \in Panels!Parts : Panels!Settle(c, p)))

-----------------------------------------------------------------------------
(* Every variable of the part explored has its type. *)
BrowserTypeOK ==
  CASE hook = "incidents" -> TypeOK
    [] hook = "workspace" -> Workspace!TypeOK
    [] hook = "panels" -> Panels!TypeOK

(* No indicator outlives its request, in any of the three: who waits or    *)
(* shows that it does has a request under way.                             *)
WaitingMeansRequested ==
  IndicatorsMatchRequests /\ Workspace!WaitsForRequests /\ Panels!BusyMeansUnderWay

(* What is combined belongs together: state, diagnosis and incidents to    *)
(* one collection, samples and incidents to the selected device.           *)
ShowsWhatBelongs == Workspace!MarksBelong /\ Panels!ShowsItsDevice

(* Nothing older than what was shown is ever shown again. *)
NeverOlderAgain == NeverBackward /\ Workspace!NeverOlder /\ Panels!NeverBack

(* One submission is sent at a time and reported once. *)
OneSubmission == Panels!OneSubmission

(* The list and the page end up showing what is stored, and every wait of  *)
(* the panels ends.                                                        *)
PagesSettle ==
  /\ hook = "incidents" => ListConverges
  /\ hook = "workspace" => Workspace!Converges
  /\ hook = "panels" => Panels!EveryWaitEnds
=============================================================================
