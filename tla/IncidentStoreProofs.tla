------------------------- MODULE IncidentStoreProofs -------------------------
(***************************************************************************)
(* What every statement of SqlAlchemyIncidentRepository and every end of a *)
(* transaction preserves of the incidents table, for any number of         *)
(* sessions, incidents and fingerprints.                                   *)
(***************************************************************************)
EXTENDS IncidentStore, TLAPS

(* The inductive invariant of the table.  OneOpenPerFingerprint alone is   *)
(* not inductive: that a commit cannot publish a second OPEN row needs     *)
(* the same exclusion among the uncommitted versions, and that an INSERT   *)
(* without visible conflict has none at all needs unlocked rows to have no *)
(* other version.                                                          *)
StoreInvariant ==
  /\ StoreTypeOK
  /\ VersionsLocked
  /\ OpenRowsExclusive
  /\ RowsChronological

(* One step of session s on the table. *)
StoreStep(s) ==
  \/ \E f \in Fingerprint, t \in Time :
       InsertOpen(s, f, t) \/ RefreshOpen(s, f, t) \/ SuppressUpsert(s, f, t)
  \/ \E i \in Incident, t \in Time : ResolveOpen(s, i, t)
  \/ StoreCommit(s)
  \/ StoreRollback(s)

-----------------------------------------------------------------------------
(* The three constructors of rows. *)

LEMMA OpenedRow ==
  ASSUME NEW f \in Fingerprint, NEW t \in Time
  PROVE  /\ Opened(f, t) \in Row
         /\ Chronological(Opened(f, t))
         /\ \A g \in Fingerprint : IsOpenFor(Opened(f, t), g) <=> g = f
<1>1. Opened(f, t) \in Row
  BY DEF Opened, Row
<1>2. Opened(f, t) # NoRow
  BY <1>1, NoRowAssumption
<1>3. Chronological(Opened(f, t))
  BY MaxTimeAssumption DEF Opened, Chronological, Time
<1> QED
  BY <1>1, <1>2, <1>3 DEF Opened, IsOpenFor, IsOpen

LEMMA RefreshedRow ==
  ASSUME NEW r \in Row, NEW t \in Time, r.status = "OPEN",
         Chronological(r), AcceptsObservation(r, t)
  PROVE  /\ Refreshed(r, t) \in Row
         /\ Chronological(Refreshed(r, t))
         /\ \A g \in Fingerprint : IsOpenFor(Refreshed(r, t), g) <=> IsOpenFor(r, g)
<1>1. Refreshed(r, t) \in Row
  <2>1. r.count + 1 \in Nat
    BY DEF Row
  <2> DEFINE n == r.count + 1
  <2>2. [r EXCEPT !.seen = t, !.updated = t, !.count = n] \in Row
    <3> HIDE DEF n
    <3> QED
      BY <2>1 DEF Row, n
  <2> QED
    BY <2>2 DEF Refreshed
<1>2. Refreshed(r, t) # NoRow /\ r # NoRow
  BY <1>1, NoRowAssumption
<1>3. Chronological(Refreshed(r, t))
  BY MaxTimeAssumption DEF Refreshed, Chronological, AcceptsObservation, Time, Row
<1>4. Refreshed(r, t).status = r.status /\ Refreshed(r, t).fp = r.fp
  BY DEF Refreshed, Row
<1> QED
  BY <1>1, <1>2, <1>3, <1>4 DEF IsOpenFor, IsOpen

LEMMA ResolvedRow ==
  ASSUME NEW r \in Row, NEW t \in Time, Chronological(r), AcceptsResolution(r, t)
  PROVE  /\ ResolvedAt(r, t) \in Row
         /\ Chronological(ResolvedAt(r, t))
         /\ ~IsOpen(ResolvedAt(r, t))
<1>1. ResolvedAt(r, t) \in Row
  BY DEF ResolvedAt, Row
<1>2. Chronological(ResolvedAt(r, t))
  BY MaxTimeAssumption DEF ResolvedAt, Chronological, AcceptsResolution, IsOpen, Time, Row
<1>3. ResolvedAt(r, t).status = "RESOLVED"
  BY DEF ResolvedAt, Row
<1> QED
  BY <1>1, <1>2, <1>3 DEF IsOpen

-----------------------------------------------------------------------------
(* A version a session may see is a row or no row, and chronological. *)
LEMMA ViewType ==
  ASSUME StoreInvariant, NEW s \in Session, NEW i \in Incident
  PROVE  /\ View(s, i) \in Row \cup {NoRow}
         /\ View(s, i) # NoRow => View(s, i) \in Row /\ Chronological(View(s, i))
BY DEF StoreInvariant, StoreTypeOK, RowsChronological, View

(* Writing a version of row i that is OPEN only for fingerprints of which  *)
(* no other row may be OPEN elsewhere keeps the invariant.                 *)
LEMMA WriteInvariant ==
  ASSUME StoreInvariant, NEW s \in Session, NEW i \in Incident,
         NEW r \in Row, Chronological(r), Write(s, i, r),
         ~LockedByOther(s, i),
         \A f \in Fingerprint : \A j \in Incident :
           j # i /\ IsOpenFor(r, f) /\ MaybeOpen(j, f) =>
             /\ owner[j] = s /\ ~IsOpenFor(dirty[j], f)
             /\ ~IsOpenFor(table[i], f) \/ ~IsOpenFor(table[j], f)
  PROVE  StoreInvariant'
<1> USE DEF StoreInvariant
<1>1. StoreTypeOK'
  BY DEF StoreTypeOK, Write
<1>2. VersionsLocked'
  BY NobodyAssumption DEF StoreTypeOK, VersionsLocked, Write
<1>3. RowsChronological'
  BY DEF StoreTypeOK, RowsChronological, Write
<1>4. OpenRowsExclusive'
  <2> SUFFICES ASSUME NEW j \in Incident, NEW k \in Incident, NEW f \in Fingerprint,
                      j # k, MaybeOpen(j, f)', MaybeOpen(k, f)'
               PROVE  /\ owner'[j] = owner'[k] /\ owner'[j] # Nobody
                      /\ ~(IsOpenFor(table'[j], f) /\ IsOpenFor(table'[k], f))
                      /\ ~(IsOpenFor(dirty'[j], f) /\ IsOpenFor(dirty'[k], f))
    BY DEF OpenRowsExclusive, MaybeOpen, IsOpenFor, IsOpen
  <2>1. /\ table' = table
        /\ dirty'[i] = r /\ owner'[i] = s
        /\ \A l \in Incident : l # i => dirty'[l] = dirty[l] /\ owner'[l] = owner[l]
    BY DEF StoreTypeOK, Write
  <2>2. \A l \in Incident : l # i => (MaybeOpen(l, f)' <=> MaybeOpen(l, f))
    BY <2>1 DEF MaybeOpen, IsOpenFor, IsOpen
  <2>3. MaybeOpen(i, f)' => IsOpenFor(r, f) \/ IsOpenFor(table[i], f)
    BY <2>1 DEF MaybeOpen, IsOpenFor, IsOpen
  <2>4. CASE j # i /\ k # i
    BY <2>1, <2>2, <2>4 DEF OpenRowsExclusive
  <2>5. ASSUME NEW l \in Incident, l # i, MaybeOpen(l, f), MaybeOpen(i, f)'
        PROVE  /\ owner'[l] = s /\ owner'[i] = s
               /\ ~(IsOpenFor(table[l], f) /\ IsOpenFor(table[i], f))
               /\ ~(IsOpenFor(dirty'[l], f) /\ IsOpenFor(dirty'[i], f))
    <3>1. CASE IsOpenFor(r, f)
      BY <2>1, <2>5, <3>1
    <3>2. CASE ~IsOpenFor(r, f) /\ IsOpenFor(table[i], f)
      <4>1. MaybeOpen(i, f)
        BY <3>2 DEF MaybeOpen
      <4>2. /\ owner[i] = owner[l] /\ owner[i] # Nobody
            /\ ~(IsOpenFor(table[i], f) /\ IsOpenFor(table[l], f))
        BY <2>5, <4>1 DEF OpenRowsExclusive
      <4>3. owner[i] = s
        BY <4>2 DEF LockedByOther
      <4> QED
        BY <2>1, <2>5, <3>2, <4>2, <4>3
    <3> QED
      BY <2>3, <2>5, <3>1, <3>2
  <2> QED
    BY <2>1, <2>2, <2>4, <2>5, NobodyAssumption
<1> QED
  BY <1>1, <1>2, <1>3, <1>4

-----------------------------------------------------------------------------
(* Every statement, commit and rollback keeps the invariant. *)

LEMMA InsertInvariant ==
  ASSUME StoreInvariant, NEW s \in Session, NEW f \in Fingerprint, NEW t \in Time,
         InsertOpen(s, f, t)
  PROVE  StoreInvariant'
<1> DEFINE i == NewIncident
<1>1. i \in Incident /\ Unused(i)
  BY DEF InsertOpen, NewIncident
<1>2. Write(s, i, Opened(f, t))
  BY DEF InsertOpen
<1>3. /\ Opened(f, t) \in Row /\ Chronological(Opened(f, t))
      /\ \A g \in Fingerprint : IsOpenFor(Opened(f, t), g) <=> g = f
  BY OpenedRow
<1>4. ~LockedByOther(s, i) /\ table[i] = NoRow
  BY <1>1 DEF Unused, LockedByOther
<1>5. ASSUME NEW j \in Incident, MaybeOpen(j, f)
      PROVE  owner[j] = s /\ ~IsOpenFor(dirty[j], f)
  <2>1. ~LockedByOther(s, j)
    BY <1>5 DEF InsertOpen, UpsertBlockers, MaybeOpen
  <2>2. ~IsOpenFor(View(s, j), f)
    BY DEF InsertOpen, OpenRows
  <2>3. owner[j] # Nobody
    <3> SUFFICES ASSUME owner[j] = Nobody PROVE FALSE
      OBVIOUS
    <3>1. dirty[j] = NoRow /\ View(s, j) = table[j]
      BY NobodyAssumption DEF StoreInvariant, VersionsLocked, View
    <3> QED
      BY <1>5, <2>2, <3>1 DEF MaybeOpen, IsOpenFor, IsOpen
  <2> QED
    BY <2>1, <2>2, <2>3 DEF LockedByOther, View
<1>6. \A g \in Fingerprint : ~IsOpenFor(table[i], g)
  BY <1>4 DEF IsOpenFor, IsOpen
<1> HIDE DEF i
<1> QED
  BY <1>1, <1>2, <1>3, <1>4, <1>5, <1>6, WriteInvariant

(* The other writes keep a row OPEN for no fingerprint it was not OPEN for *)
(* in the view of the writer.                                              *)
LEMMA RewriteInvariant ==
  ASSUME StoreInvariant, NEW s \in Session, NEW i \in Incident,
         NEW r \in Row, Chronological(r), Write(s, i, r),
         ~LockedByOther(s, i),
         \A f \in Fingerprint : IsOpenFor(r, f) => IsOpenFor(View(s, i), f)
  PROVE  StoreInvariant'
<1>1. ASSUME NEW f \in Fingerprint, NEW j \in Incident,
             j # i, IsOpenFor(r, f), MaybeOpen(j, f)
      PROVE  /\ owner[j] = s /\ ~IsOpenFor(dirty[j], f)
             /\ ~IsOpenFor(table[i], f) \/ ~IsOpenFor(table[j], f)
  <2>1. IsOpenFor(View(s, i), f)
    BY <1>1
  <2>2. MaybeOpen(i, f)
    BY <2>1 DEF View, MaybeOpen
  <2>3. /\ owner[i] = owner[j] /\ owner[i] # Nobody
        /\ ~(IsOpenFor(table[i], f) /\ IsOpenFor(table[j], f))
        /\ ~(IsOpenFor(dirty[i], f) /\ IsOpenFor(dirty[j], f))
    BY <1>1, <2>2 DEF StoreInvariant, OpenRowsExclusive
  <2>4. owner[i] = s /\ View(s, i) = dirty[i]
    BY <2>3 DEF LockedByOther, View
  <2> QED
    BY <2>1, <2>3, <2>4
<1> QED
  BY <1>1, WriteInvariant

(* A row that an unblocked upsert of f finds OPEN is not locked by others. *)
LEMMA UpsertTarget ==
  ASSUME StoreInvariant, NEW s \in Session, NEW f \in Fingerprint,
         UpsertBlockers(s, f) = {}, NEW i \in OpenRows(s, f)
  PROVE  /\ i \in Incident /\ ~LockedByOther(s, i)
         /\ View(s, i) \in Row /\ Chronological(View(s, i))
         /\ View(s, i).status = "OPEN"
<1>1. i \in Incident /\ IsOpenFor(View(s, i), f)
  BY DEF OpenRows
<1>2. ~LockedByOther(s, i)
  BY <1>1 DEF UpsertBlockers, View, LockedByOther
<1> QED
  BY <1>1, <1>2, ViewType DEF IsOpenFor, IsOpen

LEMMA RefreshInvariant ==
  ASSUME StoreInvariant, NEW s \in Session, NEW f \in Fingerprint, NEW t \in Time,
         RefreshOpen(s, f, t)
  PROVE  StoreInvariant'
<1>1. PICK i \in OpenRows(s, f) :
        AcceptsObservation(View(s, i), t) /\ Write(s, i, Refreshed(View(s, i), t))
  BY DEF RefreshOpen
<1>2. /\ i \in Incident /\ ~LockedByOther(s, i)
      /\ View(s, i) \in Row /\ Chronological(View(s, i))
      /\ View(s, i).status = "OPEN"
  BY UpsertTarget DEF RefreshOpen
<1>3. /\ Refreshed(View(s, i), t) \in Row /\ Chronological(Refreshed(View(s, i), t))
      /\ \A g \in Fingerprint :
           IsOpenFor(Refreshed(View(s, i), t), g) <=> IsOpenFor(View(s, i), g)
  BY <1>1, <1>2, RefreshedRow
<1> QED
  BY <1>1, <1>2, <1>3, RewriteInvariant

LEMMA SuppressInvariant ==
  ASSUME StoreInvariant, NEW s \in Session, NEW f \in Fingerprint, NEW t \in Time,
         SuppressUpsert(s, f, t)
  PROVE  StoreInvariant'
<1>1. PICK i \in OpenRows(s, f) : Write(s, i, View(s, i))
  BY DEF SuppressUpsert
<1>2. /\ i \in Incident /\ ~LockedByOther(s, i)
      /\ View(s, i) \in Row /\ Chronological(View(s, i))
  BY UpsertTarget DEF SuppressUpsert
<1> QED
  BY <1>1, <1>2, RewriteInvariant

LEMMA ResolveInvariant ==
  ASSUME StoreInvariant, NEW s \in Session, NEW i \in Incident, NEW t \in Time,
         ResolveOpen(s, i, t)
  PROVE  StoreInvariant'
<1>1. View(s, i) \in Row /\ Chronological(View(s, i))
  BY ViewType DEF ResolveOpen, AcceptsResolution, IsOpen
<1>2. ~LockedByOther(s, i)
  BY DEF ResolveOpen, ResolveBlockers, LockedByOther, View
<1>3. /\ ResolvedAt(View(s, i), t) \in Row /\ Chronological(ResolvedAt(View(s, i), t))
      /\ ~IsOpen(ResolvedAt(View(s, i), t))
  BY <1>1, ResolvedRow DEF ResolveOpen
<1> QED
  BY <1>2, <1>3, RewriteInvariant DEF ResolveOpen, IsOpenFor

LEMMA CommitInvariant ==
  ASSUME StoreInvariant, NEW s \in Session, StoreCommit(s)
  PROVE  StoreInvariant'
<1>1. \A i \in Incident :
        /\ table'[i] = View(s, i)
        /\ owner[i] = s => dirty'[i] = NoRow /\ owner'[i] = Nobody
        /\ owner[i] # s => dirty'[i] = dirty[i] /\ owner'[i] = owner[i]
  BY DEF StoreCommit
<1>2. StoreTypeOK'
  BY ViewType DEF StoreCommit, StoreInvariant, StoreTypeOK
<1>3. VersionsLocked'
  BY <1>1 DEF StoreInvariant, VersionsLocked
<1>4. RowsChronological'
  BY <1>1, ViewType DEF StoreInvariant, RowsChronological
<1>5. OpenRowsExclusive'
  <2> SUFFICES ASSUME NEW i \in Incident, NEW j \in Incident, NEW f \in Fingerprint,
                      i # j, MaybeOpen(i, f)', MaybeOpen(j, f)'
               PROVE  /\ owner'[i] = owner'[j] /\ owner'[i] # Nobody
                      /\ ~(IsOpenFor(table'[i], f) /\ IsOpenFor(table'[j], f))
                      /\ ~(IsOpenFor(dirty'[i], f) /\ IsOpenFor(dirty'[j], f))
    BY DEF OpenRowsExclusive, MaybeOpen, IsOpenFor, IsOpen
  <2>1. \A k \in Incident :
          MaybeOpen(k, f)' => /\ MaybeOpen(k, f)
                              /\ owner[k] = s => IsOpenFor(dirty[k], f)
    BY <1>1 DEF MaybeOpen, View, IsOpenFor, IsOpen
  <2>2. /\ owner[i] = owner[j] /\ owner[i] # Nobody
        /\ ~(IsOpenFor(table[i], f) /\ IsOpenFor(table[j], f))
        /\ ~(IsOpenFor(dirty[i], f) /\ IsOpenFor(dirty[j], f))
    BY <2>1 DEF StoreInvariant, OpenRowsExclusive
  <2>3. owner[i] # s
    BY <2>1, <2>2
  <2> QED
    BY <1>1, <2>2, <2>3 DEF View
<1> QED
  BY <1>2, <1>3, <1>4, <1>5 DEF StoreInvariant

LEMMA RollbackInvariant ==
  ASSUME StoreInvariant, NEW s \in Session, StoreRollback(s)
  PROVE  StoreInvariant'
<1>1. /\ table' = table
      /\ \A i \in Incident :
           /\ owner[i] = s => dirty'[i] = NoRow /\ owner'[i] = Nobody
           /\ owner[i] # s => dirty'[i] = dirty[i] /\ owner'[i] = owner[i]
  BY DEF StoreRollback
<1>2. StoreTypeOK'
  BY DEF StoreRollback, StoreInvariant, StoreTypeOK
<1>3. VersionsLocked'
  BY <1>1 DEF StoreInvariant, VersionsLocked
<1>4. RowsChronological'
  BY <1>1 DEF StoreInvariant, RowsChronological
<1>5. OpenRowsExclusive'
  BY <1>1 DEF StoreInvariant, OpenRowsExclusive, MaybeOpen, IsOpenFor, IsOpen
<1> QED
  BY <1>2, <1>3, <1>4, <1>5 DEF StoreInvariant

LEMMA StoreInitInvariant ==
  StoreInit => StoreInvariant
BY DEF StoreInit, StoreInvariant, StoreTypeOK, VersionsLocked, OpenRowsExclusive,
       RowsChronological, MaybeOpen, IsOpenFor, IsOpen

LEMMA StoreStepInvariant ==
  ASSUME StoreInvariant,
         UNCHANGED storeVars \/ \E s \in Session : StoreStep(s)
  PROVE  StoreInvariant'
<1>1. CASE UNCHANGED storeVars
  BY <1>1 DEF storeVars, StoreInvariant, StoreTypeOK, VersionsLocked, OpenRowsExclusive,
              RowsChronological, MaybeOpen
<1>2. CASE \E s \in Session : StoreStep(s)
  <2> PICK s \in Session : StoreStep(s)
    BY <1>2
  <2> QED
    BY InsertInvariant, RefreshInvariant, SuppressInvariant, ResolveInvariant,
       CommitInvariant, RollbackInvariant DEF StoreStep
<1> QED
  BY <1>1, <1>2

(* Two committed OPEN rows of a fingerprint are excluded in particular. *)
LEMMA StoreInvariantOneOpen ==
  StoreInvariant => OneOpenPerFingerprint
BY DEF StoreInvariant, OpenRowsExclusive, OneOpenPerFingerprint, MaybeOpen
=============================================================================
