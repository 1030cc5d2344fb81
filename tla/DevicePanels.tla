---------------------------- MODULE DevicePanels ----------------------------
(***************************************************************************)
(* The telemetry panel and the configuration form of the incident page.    *)
(* The panel loads one device's samples and incidents with two requests    *)
(* that settle together, and a new load or refresh supersedes them.  The   *)
(* form posts one configuration at a time.  The server's samples and       *)
(* incidents are counted; an answer carries the count it was read at.      *)
(* React renders a click's state changes before the next click.            *)
(***************************************************************************)
EXTENDS Naturals

CONSTANTS
  Device, NoDevice,
  CycleId,      \* identities of cycles, used again once free
  MaxVersion,   \* bound on the changes at the server
  MaxSubmits    \* bound on the submissions

PanelsConstants ==
  /\ NoDevice \notin Device
  /\ \E i, j \in CycleId : i # j
  /\ MaxVersion \in Nat /\ MaxSubmits \in Nat

Parts == {"samples", "incidents"}

VARIABLES
  stored,     \* the server's count of each part, for each device
  cycles,     \* the cycles under way
  latest,     \* requestIdRef of the panel
  panel,      \* its state
  post,       \* the form's POST: "none", "sent", "done", "failed"
  form,       \* the form's state
  submits,    \* submissions so far
  executed,   \* submissions the server has stored
  notified    \* calls of onSuccess

panelVars == <<cycles, latest, panel>>
formVars == <<post, form, submits, executed, notified>>
vars == <<stored, panelVars, formVars>>

Sent == [st |-> "sent", v |-> 0]
Cycle == [id : CycleId, device : Device,
          parts : [Parts -> [st : {"sent", "ok", "failed"}, v : 0..MaxVersion]]]

Empty == [p \in Parts |-> [of |-> NoDevice, v |-> 0]]
NoErrors == [p \in Parts |-> FALSE]

Init ==
  /\ stored = [d \in Device |-> [p \in Parts |-> 0]]
  /\ cycles = {}
  /\ latest = CHOOSE i \in CycleId : TRUE
  /\ panel = [device |-> NoDevice, data |-> Empty, error |-> NoErrors,
              loading |-> FALSE, refreshing |-> FALSE, refreshed |-> FALSE]
  /\ post = "none" /\ form = "idle"
  /\ submits = 0 /\ executed = 0 /\ notified = 0

-----------------------------------------------------------------------------
(* A sample or an incident of the device is stored. *)
Store(d, p) ==
  /\ stored[d][p] < MaxVersion
  /\ stored' = [stored EXCEPT ![d][p] = @ + 1]
  /\ UNCHANGED <<panelVars, formVars>>

Free == CycleId \ {c.id : c \in cycles}

(* beginFetch: abort what is under way, start one cycle. *)
BeginFetch(d) ==
  \E i \in Free :
    /\ latest' = i
    /\ cycles' = cycles \cup {[id |-> i, device |-> d, parts |-> [p \in Parts |-> Sent]]}

LoadDevice(d) ==
  /\ panel' = [device |-> d, data |-> Empty, error |-> NoErrors,
               loading |-> TRUE, refreshing |-> FALSE, refreshed |-> FALSE]
  /\ BeginFetch(d)
  /\ UNCHANGED <<stored, formVars>>

Refresh ==
  /\ panel.device # NoDevice
  /\ panel' = [panel EXCEPT !.refreshing = TRUE]
  /\ BeginFetch(panel.device)
  /\ UNCHANGED <<stored, formVars>>

(* One of the two requests is answered, or fails. *)
Settle(c, p) ==
  /\ c.parts[p].st = "sent"
  /\ \E r \in {[st |-> "ok", v |-> stored[c.device][p]], [st |-> "failed", v |-> 0]} :
       cycles' = (cycles \ {c}) \cup {[c EXCEPT !.parts[p] = r]}
  /\ UNCHANGED <<stored, latest, panel, formVars>>

Settled(c) == \A p \in Parts : c.parts[p].st # "sent"

Ok(c, p) == c.parts[p].st = "ok"

(* Faulty variant: whatever settles last fills the panel. *)
DeliverAll(c) ==
  /\ Settled(c)
  /\ cycles' = cycles \ {c}
  /\ panel' = [panel EXCEPT
       !.data = [p \in Parts |-> IF Ok(c, p) THEN [of |-> c.device, v |-> c.parts[p].v] ELSE panel.data[p]],
       !.error = [p \in Parts |-> ~Ok(c, p)],
       !.loading = FALSE, !.refreshing = FALSE,
       !.refreshed = @ \/ \E p \in Parts : Ok(c, p)]
  /\ UNCHANGED <<stored, latest, formVars>>

(* Both have settled; a superseded cycle is never applied, a part that     *)
(* failed keeps what it showed.                                            *)
Deliver(c) ==
  /\ Settled(c)
  /\ cycles' = cycles \ {c}
  /\ IF c.id = latest
     THEN panel' = [device |-> c.device,
            data |-> [p \in Parts |-> IF Ok(c, p) THEN [of |-> c.device, v |-> c.parts[p].v] ELSE panel.data[p]],
            error |-> [p \in Parts |-> ~Ok(c, p)],
            loading |-> FALSE, refreshing |-> FALSE,
            refreshed |-> panel.refreshed \/ \E p \in Parts : Ok(c, p)]
     ELSE UNCHANGED panel
  /\ UNCHANGED <<stored, latest, formVars>>

-----------------------------------------------------------------------------
Submit ==
  /\ form # "submitting" /\ submits < MaxSubmits
  /\ submits' = submits + 1
  /\ form' = "submitting" /\ post' = "sent"
  /\ UNCHANGED <<stored, panelVars, executed, notified>>

(* The server stores the submission; its answer may still be lost. *)
Execute ==
  /\ post = "sent"
  /\ executed' = executed + 1
  /\ post' \in {"done", "failed"}
  /\ UNCHANGED <<stored, panelVars, form, submits, notified>>

Reject ==
  /\ post = "sent" /\ post' = "failed"
  /\ UNCHANGED <<stored, panelVars, form, submits, executed, notified>>

(* Faulty variant: the callback runs before the outcome is known. *)
FinishNotifying ==
  /\ post \in {"done", "failed"}
  /\ post' = "none"
  /\ form' = IF post = "done" THEN "success" ELSE "error"
  /\ notified' = notified + 1
  /\ UNCHANGED <<stored, panelVars, submits, executed>>

(* onSuccess runs once, and nothing it does changes the form. *)
Finish ==
  /\ post \in {"done", "failed"}
  /\ post' = "none"
  /\ form' = IF post = "done" THEN "success" ELSE "error"
  /\ notified' = IF post = "done" THEN notified + 1 ELSE notified
  /\ UNCHANGED <<stored, panelVars, submits, executed>>

Next ==
  \/ \E d \in Device : LoadDevice(d) \/ \E p \in Parts : Store(d, p)
  \/ Refresh
  \/ \E c \in cycles : Deliver(c) \/ \E p \in Parts : Settle(c, p)
  \/ Submit \/ Execute \/ Reject \/ Finish

Spec == Init /\ [][Next]_vars

-----------------------------------------------------------------------------
TypeOK ==
  /\ stored \in [Device -> [Parts -> 0..MaxVersion]]
  /\ cycles \subseteq Cycle /\ latest \in CycleId
  /\ panel \in [device : Device \cup {NoDevice},
                data : [Parts -> [of : Device \cup {NoDevice}, v : 0..MaxVersion]],
                error : [Parts -> BOOLEAN], loading : BOOLEAN, refreshing : BOOLEAN,
                refreshed : BOOLEAN]
  /\ post \in {"none", "sent", "done", "failed"}
  /\ form \in {"idle", "submitting", "success", "error"}
  /\ submits \in 0..MaxSubmits
  /\ executed \in 0..submits /\ notified \in 0..submits

(* "A late-resolving stale response (a prior device, a superseded refresh) *)
(* can never overwrite newer state": what the panel shows is of the device *)
(* it names, and "last refreshed" means that some of it was answered.      *)
ShowsItsDevice ==
  /\ \A p \in Parts : panel.data[p].of \in {NoDevice, panel.device}
  /\ panel.refreshed = \E p \in Parts : panel.data[p].of # NoDevice

(* For one device the panel never goes back to an older answer. *)
NeverBack ==
  [][panel'.device = panel.device /\ ~panel'.loading =>
       \A p \in Parts : panel.data[p].v <= panel'.data[p].v]_vars

(* The panel is busy exactly while its latest cycle is under way.          *)
BusyMeansUnderWay ==
  panel.loading \/ panel.refreshing <=> \E c \in cycles : c.id = latest

(* A form that is submitting waits for exactly one POST, and the callback  *)
(* has run once for every success, never more often than the server has    *)
(* stored a submission.                                                    *)
OneSubmission ==
  /\ form = "submitting" <=> post # "none"
  /\ notified <= executed
  /\ executed + (IF post = "sent" THEN 1 ELSE 0) <= submits
  /\ form = "success" => notified > 0

(* Every load and every submission ends, unless the user supersedes it.    *)
EveryWaitEnds ==
  /\ []<>(~panel.loading /\ ~panel.refreshing) \/ []<><<LoadDevice(panel'.device) \/ Refresh>>_vars
  /\ form = "submitting" ~> form # "submitting"
=============================================================================
