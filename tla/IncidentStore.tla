---------------------------- MODULE IncidentStore ----------------------------
(***************************************************************************)
(* The incidents table under PostgreSQL READ COMMITTED transactions, and   *)
(* the statements SqlAlchemyIncidentRepository runs on it                  *)
(* (persistence/sqlalchemy/incident_repository.py).                        *)
(*                                                                         *)
(* A row has a committed version and, while some session holds its row     *)
(* lock, that session's own version of it.  A session sees its own version *)
(* of the rows it locked and the committed version of all others.  Commit  *)
(* publishes the versions of the session and rollback drops them; both     *)
(* release its locks.  A statement is one step: the ORM session holds no   *)
(* value across a statement that a later guard reads, every re-read asks   *)
(* for populate_existing.  The savepoint around each statement never rolls *)
(* back: the only IntegrityError it could catch is a missing device, and   *)
(* devices are never deleted.                                              *)
(***************************************************************************)
EXTENDS IncidentDomain

CONSTANTS
  Incident,  \* incident identifiers
  Session,   \* database sessions, one per request in flight
  Nobody     \* no session

ASSUME NobodyAssumption == Nobody \notin Session

VARIABLES
  table,  \* the committed version of each row
  dirty,  \* the uncommitted version of each locked row, NoRow otherwise
  owner   \* the session that holds the lock of each row, or Nobody

storeVars == <<table, dirty, owner>>

StoreInit ==
  /\ table = [i \in Incident |-> NoRow]
  /\ dirty = [i \in Incident |-> NoRow]
  /\ owner = [i \in Incident |-> Nobody]

StoreTypeOK ==
  /\ table \in [Incident -> Row \cup {NoRow}]
  /\ dirty \in [Incident -> Row \cup {NoRow}]
  /\ owner \in [Incident -> Session \cup {Nobody}]

-----------------------------------------------------------------------------
(* What a session sees and what it waits for. *)

View(s, i) == IF owner[i] = s THEN dirty[i] ELSE table[i]

LockedByOther(s, i) == owner[i] \notin {s, Nobody}

(* The OPEN rows of f in the statement snapshot of s: at most one. *)
OpenRows(s, f) == {i \in Incident : IsOpenFor(View(s, i), f)}

(* Faulty variant: no partial unique index on (fingerprint) WHERE OPEN. *)
UpsertBlockersNoIndex(s, f) == {}

(* The unique index entries an INSERT of f has to wait for: an uncommitted *)
(* OPEN row of f, and a committed one whose lock another session holds and *)
(* which it may be about to resolve.                                       *)
UpsertBlockers(s, f) ==
  {i \in Incident : /\ LockedByOther(s, i)
                    /\ IsOpenFor(table[i], f) \/ IsOpenFor(dirty[i], f)}

(* The row an UPDATE has to wait for: the locked version of i, when the    *)
(* committed one satisfies the WHERE clause.                               *)
ResolveBlockers(s, i, t) ==
  {j \in {i} : LockedByOther(s, j) /\ AcceptsResolution(table[j], t)}

-----------------------------------------------------------------------------
(* Statements. *)

Write(s, i, r) ==
  /\ dirty' = [dirty EXCEPT ![i] = r]
  /\ owner' = [owner EXCEPT ![i] = s]
  /\ UNCHANGED table

(* uuid4 yields an identifier that no row has. *)
Unused(i) == table[i] = NoRow /\ owner[i] = Nobody

NewIncident == CHOOSE i \in Incident : Unused(i)

InsertOpen(s, f, t) ==
  /\ UpsertBlockers(s, f) = {}
  /\ OpenRows(s, f) = {}
  /\ \E i \in Incident : Unused(i)
  /\ Write(s, NewIncident, Opened(f, t))

(* Faulty variant: DO UPDATE without the last_seen_at guard. *)
RefreshOpenUnguarded(s, f, t) ==
  /\ UpsertBlockers(s, f) = {}
  /\ \E i \in OpenRows(s, f) : Write(s, i, Refreshed(View(s, i), t))

(* Faulty variant: the new row is computed from the committed row, read    *)
(* before the wait, and loses an increment of the waiting session.         *)
RefreshOpenLosing(s, f, t) ==
  /\ UpsertBlockers(s, f) = {}
  /\ \E i \in OpenRows(s, f) :
       /\ AcceptsObservation(View(s, i), t)
       /\ Write(s, i, [View(s, i) EXCEPT !.seen = t, !.updated = t])

RefreshOpen(s, f, t) ==
  /\ UpsertBlockers(s, f) = {}
  /\ \E i \in OpenRows(s, f) :
       /\ AcceptsObservation(View(s, i), t)
       /\ Write(s, i, Refreshed(View(s, i), t))

(* Faulty variant: the suppressed statement leaves the row unlocked. *)
SuppressUpsertUnlocked(s, f, t) ==
  /\ UpsertBlockers(s, f) = {}
  /\ \E i \in OpenRows(s, f) : ~AcceptsObservation(View(s, i), t)
  /\ UNCHANGED storeVars

(* ON CONFLICT DO UPDATE locks the conflicting row before it evaluates its *)
(* WHERE clause, and keeps the lock when the clause suppresses the update. *)
SuppressUpsert(s, f, t) ==
  /\ UpsertBlockers(s, f) = {}
  /\ \E i \in OpenRows(s, f) :
       /\ ~AcceptsObservation(View(s, i), t)
       /\ Write(s, i, View(s, i))

ResolveOpen(s, i, t) ==
  /\ ResolveBlockers(s, i, t) = {}
  /\ AcceptsResolution(View(s, i), t)
  /\ Write(s, i, ResolvedAt(View(s, i), t))

(* The UPDATE matches no row. *)
ResolveNothing(s, i, t) ==
  /\ ResolveBlockers(s, i, t) = {}
  /\ ~AcceptsResolution(View(s, i), t)
  /\ UNCHANGED storeVars

StoreCommit(s) ==
  /\ table' = [i \in Incident |-> View(s, i)]
  /\ dirty' = [i \in Incident |-> IF owner[i] = s THEN NoRow ELSE dirty[i]]
  /\ owner' = [i \in Incident |-> IF owner[i] = s THEN Nobody ELSE owner[i]]

StoreRollback(s) ==
  /\ dirty' = [i \in Incident |-> IF owner[i] = s THEN NoRow ELSE dirty[i]]
  /\ owner' = [i \in Incident |-> IF owner[i] = s THEN Nobody ELSE owner[i]]
  /\ UNCHANGED table

-----------------------------------------------------------------------------
(* Committed data holds at most one OPEN incident per fingerprint, however *)
(* many requests observe the same failure at once (the partial unique      *)
(* index ux_incidents_open_fingerprint and the upsert that arbitrates on   *)
(* it).                                                                    *)
OneOpenPerFingerprint ==
  \A i, j \in Incident : \A f \in Fingerprint :
    IsOpenFor(table[i], f) /\ IsOpenFor(table[j], f) => i = j

(* The same for the uncommitted versions: of two rows of a fingerprint     *)
(* that may be OPEN once all transactions have ended, both belong to one   *)
(* session, which has resolved one and inserted the other.                 *)
MaybeOpen(i, f) == IsOpenFor(table[i], f) \/ IsOpenFor(dirty[i], f)

OpenRowsExclusive ==
  \A i, j \in Incident : \A f \in Fingerprint :
    i # j /\ MaybeOpen(i, f) /\ MaybeOpen(j, f) =>
      /\ owner[i] = owner[j] /\ owner[i] # Nobody
      /\ ~(IsOpenFor(table[i], f) /\ IsOpenFor(table[j], f))
      /\ ~(IsOpenFor(dirty[i], f) /\ IsOpenFor(dirty[j], f))

(* Only a locked row has an uncommitted version. *)
VersionsLocked == \A i \in Incident : owner[i] = Nobody => dirty[i] = NoRow

(* Every version of every row, committed or not, satisfies the chronology  *)
(* of the domain entity, so no read ever fails to rebuild an Incident, and *)
(* an OPEN row has updated_at = last_seen_at: this is what makes the       *)
(* upsert, which is guarded on last_seen_at alone, unable to move          *)
(* updated_at backward.                                                    *)
RowsChronological ==
  \A i \in Incident : /\ table[i] # NoRow => Chronological(table[i])
                      /\ dirty[i] # NoRow => Chronological(dirty[i])
=============================================================================
