-------------------------- MODULE IncidentLifecycle --------------------------
(***************************************************************************)
(* What the platform promises of the incident history, whatever the        *)
(* requests that race to write it: seen through committed data only, every *)
(* incident is created by one observation, refreshed by observations that  *)
(* are not older than what it has seen, each counted once, resolved at     *)
(* most once and never touched again; and a fingerprint never has two OPEN *)
(* incidents.  One transaction may take such a step on several incidents   *)
(* at once, but at most one step on each.                                  *)
(* (docs/domain-model.md, Incident lifecycle; docs/adr/0003, NPE-1C3C.)    *)
(***************************************************************************)
EXTENDS IncidentDomain

CONSTANT Incident  \* incident identifiers

VARIABLE incidents  \* the committed row of each identifier, or NoRow

Init == incidents = [i \in Incident |-> NoRow]

Create(i) ==
  /\ incidents[i] = NoRow
  /\ \E f \in Fingerprint, t \in Time : incidents'[i] = Opened(f, t)

Refresh(i) ==
  /\ IsOpen(incidents[i])
  /\ \E t \in Time : /\ t >= incidents[i].seen
                     /\ incidents'[i] = Refreshed(incidents[i], t)

Resolve(i) ==
  /\ IsOpen(incidents[i])
  /\ \E t \in Time : /\ t >= incidents[i].updated
                     /\ incidents'[i] = ResolvedAt(incidents[i], t)

OneOpen == \A i, j \in Incident : \A f \in Fingerprint :
  IsOpenFor(incidents[i], f) /\ IsOpenFor(incidents[j], f) => i = j

Next ==
  /\ \A i \in Incident : \/ incidents'[i] = incidents[i]
                         \/ Create(i) \/ Refresh(i) \/ Resolve(i)
  /\ OneOpen'

Spec == Init /\ [][Next]_incidents
=============================================================================
