--------------------------- MODULE IncidentDomain ---------------------------
(***************************************************************************)
(* The incident entity of backend/src/meta_rne/domain/incident.py.         *)
(*                                                                         *)
(* A row carries the fields the lifecycle depends on.  Severity, evidence  *)
(* and recommendation are replaced wholesale by every accepted upsert and  *)
(* read by no guard, so they are left out; device, source, rule and        *)
(* affected resource are immutable and injectively encoded in the          *)
(* fingerprint, so the fingerprint stands for them.  The dormant           *)
(* ACKNOWLEDGED status has no writer and is left out.                      *)
(***************************************************************************)
EXTENDS Integers

CONSTANTS
  Fingerprint,  \* digests of <<device, source, rule, affected resource>>
  MaxTime,      \* bound on timestamps
  NoRow         \* stands for "no such row"

ASSUME MaxTimeAssumption == MaxTime \in Nat \ {0}

Time == 1..MaxTime

(* resolved = 0 stands for resolved_at IS NULL. *)
Row == [fp       : Fingerprint,
        status   : {"OPEN", "RESOLVED"},
        created  : Time,
        seen     : Time,
        updated  : Time,
        resolved : Time \cup {0},
        count    : Nat]

ASSUME NoRowAssumption == NoRow \notin Row

IsOpen(r) == r # NoRow /\ r.status = "OPEN"

IsOpenFor(r, f) == IsOpen(r) /\ r.fp = f

-----------------------------------------------------------------------------
(* The three ways a row comes about. *)

(* The VALUES of the INSERT: a first observation of f at t. *)
Opened(f, t) == [fp |-> f, status |-> "OPEN", created |-> t, seen |-> t,
                 updated |-> t, resolved |-> 0, count |-> 1]

(* The SET clause of the conflicting INSERT: a repeated observation at t. *)
Refreshed(r, t) == [r EXCEPT !.seen = t, !.updated = t, !.count = @ + 1]

(* Faulty variant: the dormant status is written instead. *)
ResolvedAtAcknowledged(r, t) ==
  [r EXCEPT !.status = "ACKNOWLEDGED", !.resolved = t, !.updated = t]

(* The SET clause of the resolving UPDATE. *)
ResolvedAt(r, t) == [r EXCEPT !.status = "RESOLVED", !.resolved = t, !.updated = t]

(* WHERE excluded.last_seen_at >= incidents.last_seen_at *)
AcceptsObservation(r, t) == t >= r.seen

(* WHERE status = 'OPEN' AND updated_at <= :resolved_at *)
AcceptsResolution(r, t) == IsOpen(r) /\ r.updated <= t

-----------------------------------------------------------------------------
(* What Incident.__post_init__ demands of a row, and one fact more that    *)
(* only the reachable rows have: an OPEN row was last updated by its last  *)
(* observation.                                                            *)
Chronological(r) ==
  /\ r.created <= r.seen
  /\ r.seen <= r.updated
  /\ r.count >= 1
  /\ r.status = "OPEN" => r.resolved = 0 /\ r.updated = r.seen
  /\ r.status = "RESOLVED" => r.resolved = r.updated
=============================================================================
