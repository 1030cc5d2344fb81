----------------------- MODULE IncidentServicesProofs -----------------------
(***************************************************************************)
(* Theorems about the services that write incidents, for any number of     *)
(* sessions, incidents, fingerprints and collections and any bounds.       *)
(* The first part is about the table and the sessions; the second about    *)
(* committed data: the services implement IncidentLifecycle, and a         *)
(* collection or a sample becomes visible with all its incidents.          *)
(***************************************************************************)
EXTENDS IncidentServices, IncidentStoreProofs

(* Both are needed at once: a statement keeps the table's invariant only   *)
(* because the session's cursor and timestamp have their types, and the    *)
(* cursor has its type only because the rows it is read from have theirs.  *)
Invariant == TypeOK /\ StoreInvariant

LEMMA NextIsStoreStep ==
  ASSUME TypeOK, Next
  PROVE  UNCHANGED storeVars \/ \E s \in Session : StoreStep(s)
<1>1. \A s \in Session : Accept(s) => UNCHANGED storeVars
  BY DEF Accept, BeginTelemetry, BeginCollection, BeginResolve, Begin
<1>2. ASSUME NEW s \in Session, Abort(s)
      PROVE  StoreStep(s)
  BY <1>2 DEF Abort, StoreStep
<1>3. ASSUME NEW s \in Session, Proceed(s)
      PROVE  UNCHANGED storeVars \/ StoreStep(s)
  <2>1. time[s] \in Time
    BY DEF TypeOK
  <2>2. CASE SaveLatest(s) \/ SaveReplay(s) \/ RecoverNothing(s) \/ RecoverFound(s)
    BY <2>2 DEF SaveLatest, SaveReplay, RecoverNothing, RecoverFound
  <2>3. CASE UpsertIncident(s) \/ UpsertSuppressed(s)
    <3>1. cursor[s] \in Fingerprint
      BY <2>3 DEF TypeOK, UpsertIncident, UpsertSuppressed
    <3> QED
      BY <2>1, <2>3, <3>1 DEF UpsertIncident, UpsertSuppressed, StoreStep
  <2>4. CASE ResolveRow(s)
    <3>1. cursor[s] \in Incident
      BY <2>4 DEF TypeOK, ResolveRow
    <3> QED
      BY <2>1, <2>4, <3>1 DEF ResolveRow, StoreStep
  <2>5. CASE ResolveMissed(s) \/ ResolvedByOther(s)
    BY <2>5 DEF ResolveMissed, ResolveNothing, ResolvedByOther
  <2>6. CASE SaveRejected(s) \/ RejectStale(s) \/ RecoverStale(s)
               \/ ResolveRejected(s) \/ DeadlockVictim(s)
    BY <1>2, <2>6 DEF SaveRejected, RejectStale, RecoverStale, ResolveRejected,
                      DeadlockVictim
  <2>7. CASE Commit(s)
    BY <2>7 DEF Commit, StoreStep
  <2> QED
    BY <1>3, <2>2, <2>3, <2>4, <2>5, <2>6, <2>7 DEF Proceed
<1>4. \A s \in Session : Lost(s) => StoreStep(s)
  BY <1>2 DEF Lost
<1>5. Tick \/ Quiescent => UNCHANGED storeVars
  BY DEF Tick, Quiescent, vars, storeVars
<1> QED
  BY <1>1, <1>3, <1>4, <1>5 DEF Next

-----------------------------------------------------------------------------
(* Typing of the request state, one lemma per way a request moves on. *)

LEMMA BeginType ==
  ASSUME TypeOK, NEW s \in Session, Accept(s)
  PROVE  TypeOK'
<1> USE DEF TypeOK
<1>1. StoreTypeOK'
  BY DEF Accept, BeginTelemetry, BeginCollection, BeginResolve, Begin, storeVars, StoreTypeOK
<1>2. ASSUME NEW t \in Time, NEW first \in {"commit", "upsert", "save", "resolve"},
             NEW c \in Collection \cup {NoState}, NEW fps \in SUBSET Fingerprint,
             NEW x \in Fingerprint \cup Incident \cup {Nobody},
             Begin(s, t, first, c, fps, x),
             first = "upsert" => x \in Fingerprint,
             first = "resolve" => x \in Incident,
             first = "save" => s \in CollectorSession,
             s \in CollectorSession => c \in Collection
      PROVE  TypeOK'
  <2>1. /\ pc' = [pc EXCEPT ![s] = first] /\ pc'[s] = first
        /\ cursor' = [cursor EXCEPT ![s] = x] /\ cursor'[s] = x
        /\ coll' = [coll EXCEPT ![s] = c] /\ coll'[s] = c
    BY <1>2 DEF Begin
  <2>2. accepted' \in 0..MaxRequests
    BY <1>2, MaxRequestsAssumption DEF Begin
  <2>3. pc' \in [Session -> Step]
    BY <2>1 DEF Step
  <2> QED
    BY <1>1, <1>2, <2>1, <2>2, <2>3 DEF Begin, labVars
<1>3. CASE BeginTelemetry(s)
  <2>1. s \notin CollectorSession
    BY <1>3, SessionAssumption DEF BeginTelemetry
  <2>2. PICK fps \in SUBSET Registered :
          \/ fps = {} /\ Begin(s, now, "commit", NoState, {}, Nobody)
          \/ \E f \in fps : Begin(s, now, "upsert", NoState, fps, f)
    BY <1>3 DEF BeginTelemetry
  <2>3. fps \in SUBSET Fingerprint
    BY FingerprintAssumption
  <2> QED
    BY <1>2, <2>1, <2>2, <2>3
<1>4. CASE BeginCollection(s)
  <2>1. PICK c \in Collection : Begin(s, c.time, "save", c, {}, Nobody)
    BY <1>4 DEF BeginCollection
  <2>2. c.time \in Time
    BY DEF Collection
  <2> QED
    BY <1>2, <1>4, <2>1, <2>2 DEF BeginCollection
<1>5. CASE BeginResolve(s)
  <2>1. s \notin CollectorSession
    BY <1>5, SessionAssumption DEF BeginResolve
  <2> QED
    BY <1>2, <1>5, <2>1 DEF BeginResolve
<1> QED
  BY <1>3, <1>4, <1>5 DEF Accept

LEMMA EndType ==
  ASSUME TypeOK, StoreTypeOK', NEW s \in Session,
         EndRequest(s), ReleaseLab(s),
         lab' \in Collection \cup {NoState}, samples' \subseteq Time
  PROVE  TypeOK'
<1> USE DEF TypeOK
<1>1. /\ pc' = [pc EXCEPT ![s] = "idle"]
      /\ pc'[s] = "idle"
      /\ cursor' = [cursor EXCEPT ![s] = Nobody]
      /\ coll' = [coll EXCEPT ![s] = NoState]
  BY DEF EndRequest
<1>2. pc' \in [Session -> Step]
  BY <1>1 DEF Step
<1>3. 1 \in Time
  BY MaxTimeAssumption DEF Time
<1> QED
  BY <1>1, <1>2, <1>3 DEF EndRequest, ReleaseLab

LEMMA AbortType ==
  ASSUME TypeOK, StoreTypeOK', NEW s \in Session, Abort(s)
  PROVE  TypeOK'
BY EndType DEF Abort, TypeOK

LEMMA CommitType ==
  ASSUME TypeOK, StoreTypeOK', NEW s \in Session, Commit(s)
  PROVE  TypeOK'
<1>1. lab' \in Collection \cup {NoState}
  BY DEF Commit, TypeOK
<1>2. samples' \subseteq Time
  BY DEF Commit, TypeOK
<1> QED
  BY <1>1, <1>2, EndType DEF Commit

LEMMA RecoverableType ==
  ASSUME TypeOK, NEW s \in Session, pc[s] # "idle"
  PROVE  Recoverable(s) \subseteq Fingerprint
BY FingerprintAssumption DEF TypeOK, Recoverable, Collection

(* The next candidate of a session that upserts is a fingerprint. *)
LEMMA UpsertNextType ==
  ASSUME TypeOK, NEW s \in Session, pc[s] # "idle",
         NEW fps \in SUBSET Fingerprint, UpsertNext(s, fps)
  PROVE  /\ pc' \in [Session -> Step]
         /\ left' \in [Session -> SUBSET Fingerprint]
         /\ cursor' \in [Session -> Fingerprint \cup Incident \cup {Nobody}]
         /\ \A q \in Session : q # s => pc'[q] = pc[q] /\ cursor'[q] = cursor[q]
         /\ pc'[s] \in {"upsert", "recover", "commit"}
         /\ pc'[s] = "upsert" => cursor'[s] \in Fingerprint
<1> USE DEF TypeOK
<1>1. CASE \E f \in fps : cursor' = [cursor EXCEPT ![s] = f] /\ pc' = [pc EXCEPT ![s] = "upsert"]
                         /\ left' = [left EXCEPT ![s] = fps]
  BY <1>1 DEF Step
<1>2. CASE /\ left' = [left EXCEPT ![s] = Recoverable(s)]
           /\ pc' = [pc EXCEPT ![s] = RecoverNext(Recoverable(s))]
           /\ cursor' = [cursor EXCEPT ![s] = Nobody]
  <2>1. RecoverNext(Recoverable(s)) \in {"recover", "commit"}
    BY DEF RecoverNext
  <2> DEFINE next == RecoverNext(Recoverable(s))
  <2>2. next \in Step /\ next # "upsert"
    BY <2>1 DEF Step
  <2> HIDE DEF next
  <2>3. pc' = [pc EXCEPT ![s] = next]
    BY <1>2 DEF next
  <2>4. /\ pc' \in [Session -> Step] /\ pc'[s] = next
        /\ \A q \in Session : q # s => pc'[q] = pc[q]
    BY <2>2, <2>3
  <2> QED
    BY <1>2, <2>1, <2>2, <2>4, RecoverableType DEF next
<1> QED
  BY <1>1, <1>2 DEF UpsertNext

LEMMA SaveType ==
  ASSUME TypeOK, NEW s \in Session, SaveLatest(s) \/ SaveReplay(s)
  PROVE  TypeOK'
<1>1. StoreTypeOK'
  BY DEF SaveLatest, SaveReplay, TypeOK, StoreTypeOK, storeVars
<1>2. coll[s] \in Collection /\ s \in CollectorSession
  BY DEF SaveLatest, SaveReplay, TypeOK
<1>3. CASE SaveLatest(s)
  <2>1. coll[s].down \in SUBSET Fingerprint
    BY <1>2, FingerprintAssumption DEF Collection
  <2>2. /\ pc' \in [Session -> Step]
        /\ left' \in [Session -> SUBSET Fingerprint]
        /\ cursor' \in [Session -> Fingerprint \cup Incident \cup {Nobody}]
        /\ \A q \in Session : q # s => pc'[q] = pc[q] /\ cursor'[q] = cursor[q]
        /\ pc'[s] \in {"upsert", "recover", "commit"}
        /\ pc'[s] = "upsert" => cursor'[s] \in Fingerprint
    BY <1>3, <2>1, UpsertNextType DEF SaveLatest
  <2> QED
    BY <1>1, <1>2, <1>3, <2>2 DEF SaveLatest, TypeOK
<1>4. CASE SaveReplay(s)
  <2>1. pc' \in [Session -> Step] /\ pc' = [pc EXCEPT ![s] = "commit"]
    BY <1>4 DEF SaveReplay, TypeOK, Step
  <2> QED
    BY <1>1, <1>2, <1>4, <2>1 DEF SaveReplay, TypeOK
<1> QED
  BY <1>3, <1>4

LEMMA UpsertType ==
  ASSUME TypeOK, StoreTypeOK', NEW s \in Session, UpsertIncident(s) \/ UpsertSuppressed(s)
  PROVE  TypeOK'
<1>1. CASE UpsertIncident(s)
  <2>1. left[s] \ {cursor[s]} \in SUBSET Fingerprint
    BY DEF TypeOK
  <2>2. /\ pc' \in [Session -> Step]
        /\ left' \in [Session -> SUBSET Fingerprint]
        /\ cursor' \in [Session -> Fingerprint \cup Incident \cup {Nobody}]
        /\ \A q \in Session : q # s => pc'[q] = pc[q] /\ cursor'[q] = cursor[q]
        /\ pc'[s] \in {"upsert", "recover", "commit"}
        /\ pc'[s] = "upsert" => cursor'[s] \in Fingerprint
    BY <1>1, <2>1, UpsertNextType DEF UpsertIncident
  <2> QED
    BY <1>1, <2>2 DEF UpsertIncident, TypeOK, labVars
<1>2. CASE UpsertSuppressed(s)
  <2>1. pc' \in [Session -> Step] /\ pc' = [pc EXCEPT ![s] = "stale"]
    BY <1>2 DEF UpsertSuppressed, TypeOK, Step
  <2> QED
    BY <1>2, <2>1 DEF UpsertSuppressed, TypeOK, labVars
<1> QED
  BY <1>1, <1>2

(* A lookup by fingerprint yields an incident. *)
LEMMA RecoverType ==
  ASSUME TypeOK, NEW s \in Session, RecoverNothing(s) \/ RecoverFound(s)
  PROVE  TypeOK'
<1>1. StoreTypeOK'
  BY DEF RecoverNothing, RecoverFound, TypeOK, StoreTypeOK, storeVars
<1>2. CASE RecoverNothing(s)
  <2>1. PICK f \in left[s] : /\ left' = [left EXCEPT ![s] = @ \ {f}]
                             /\ pc' = [pc EXCEPT ![s] = RecoverNext(left[s] \ {f})]
    BY <1>2 DEF RecoverNothing
  <2> DEFINE next == RecoverNext(left[s] \ {f})
  <2>2. next \in {"recover", "commit"}
    BY DEF RecoverNext
  <2> HIDE DEF next
  <2>3. /\ pc' \in [Session -> Step] /\ pc'[s] = next
        /\ \A q \in Session : q # s => pc'[q] = pc[q]
    BY <2>1, <2>2 DEF TypeOK, Step, next
  <2>4. left' \in [Session -> SUBSET Fingerprint]
    BY <2>1 DEF TypeOK
  <2> QED
    BY <1>1, <1>2, <2>2, <2>3, <2>4 DEF RecoverNothing, TypeOK, labVars
<1>3. CASE RecoverFound(s)
  <2> PICK f \in left[s] : \E i \in OpenRows(s, f) :
          /\ left' = [left EXCEPT ![s] = @ \ {f}]
          /\ cursor' = [cursor EXCEPT ![s] = i]
    BY <1>3 DEF RecoverFound
  <2>1. PICK i \in OpenRows(s, f) :
          /\ left' = [left EXCEPT ![s] = @ \ {f}]
          /\ cursor' = [cursor EXCEPT ![s] = i]
    OBVIOUS
  <2>2. i \in Incident
    BY DEF OpenRows
  <2>3. /\ pc' \in [Session -> Step] /\ pc'[s] = "resolve"
        /\ \A q \in Session : q # s => pc'[q] = pc[q]
    BY <1>3 DEF RecoverFound, TypeOK, Step
  <2>4. left' \in [Session -> SUBSET Fingerprint]
    BY <2>1 DEF TypeOK
  <2> QED
    BY <1>1, <1>3, <2>1, <2>2, <2>3, <2>4 DEF RecoverFound, TypeOK, labVars
<1> QED
  BY <1>2, <1>3

LEMMA ResolvedType ==
  ASSUME TypeOK, StoreTypeOK', NEW s \in Session, NEW t \in Time \cup {0},
         cursor[s] \in Incident, pc[s] # "idle", Resolved(s, t)
  PROVE  TypeOK'
<1> DEFINE next == RecoverNext(left[s])
<1>1. next \in {"recover", "commit"}
  BY DEF RecoverNext
<1> HIDE DEF next
<1>2. /\ pc' \in [Session -> Step] /\ pc'[s] = next
      /\ \A q \in Session : q # s => pc'[q] = pc[q]
  BY <1>1 DEF Resolved, TypeOK, Step, next
<1>3. resolved' \in [Session -> SUBSET Report]
  <2>1. [incident |-> cursor[s], at |-> t] \in Report
    BY DEF Report
  <2> QED
    BY <2>1 DEF Resolved, TypeOK
<1> QED
  BY <1>1, <1>2, <1>3 DEF Resolved, TypeOK, labVars

LEMMA ResolveType ==
  ASSUME TypeOK, StoreTypeOK', StoreTypeOK, NEW s \in Session,
         ResolveRow(s) \/ ResolveMissed(s) \/ ResolvedByOther(s)
  PROVE  TypeOK'
<1>1. cursor[s] \in Incident /\ pc[s] # "idle"
  BY DEF ResolveRow, ResolveMissed, ResolvedByOther, TypeOK
<1>2. CASE ResolveRow(s)
  BY <1>1, <1>2, ResolvedType DEF ResolveRow, TypeOK
<1>3. CASE ResolvedByOther(s)
  <2>1. View(s, cursor[s]) \in Row
    BY <1>1, <1>3 DEF StoreTypeOK, View, ResolvedByOther
  <2>2. View(s, cursor[s]).resolved \in Time \cup {0}
    BY <2>1 DEF Row
  <2> QED
    BY <1>1, <1>3, <2>2, ResolvedType DEF ResolvedByOther
<1>4. CASE ResolveMissed(s)
  <2>1. /\ pc' \in [Session -> Step] /\ pc'[s] = "recheck"
        /\ \A q \in Session : q # s => pc'[q] = pc[q]
    BY <1>4 DEF ResolveMissed, TypeOK, Step
  <2> QED
    BY <1>1, <1>4, <2>1 DEF ResolveMissed, TypeOK, labVars
<1> QED
  BY <1>2, <1>3, <1>4

-----------------------------------------------------------------------------
(* The invariant and what follows from it. *)

LEMMA InitInvariant ==
  Init => Invariant
<1> SUFFICES ASSUME Init PROVE Invariant
  OBVIOUS
<1>1. StoreInvariant
  BY StoreInitInvariant DEF Init
<1>2. 1 \in Time
  BY MaxTimeAssumption DEF Time
<1>3. accepted \in 0..MaxRequests
  BY MaxRequestsAssumption DEF Init
<1> QED
  BY <1>1, <1>2, <1>3 DEF Invariant, StoreInvariant, TypeOK, Init, Step

LEMMA NextInvariant ==
  Invariant /\ [Next]_vars => Invariant'
<1> SUFFICES ASSUME Invariant, [Next]_vars PROVE Invariant'
  OBVIOUS
<1>1. TypeOK /\ StoreTypeOK /\ StoreInvariant
  BY DEF Invariant, TypeOK
<1>2. CASE UNCHANGED vars
  <2>1. UNCHANGED storeVars
    BY <1>2 DEF vars
  <2>2. StoreInvariant'
    BY <1>1, <2>1, StoreStepInvariant
  <2>3. TypeOK'
    BY <1>1, <1>2, <2>2 DEF TypeOK, StoreInvariant, vars, requestVars, labVars
  <2> QED
    BY <2>2, <2>3 DEF Invariant
<1>3. CASE Next
  <2>1. StoreInvariant'
    BY <1>1, <1>3, NextIsStoreStep, StoreStepInvariant
  <2>2. StoreTypeOK'
    BY <2>1 DEF StoreInvariant
  <2>3. CASE \E s \in Session : Accept(s)
    BY <1>1, <2>3, BeginType, <2>1 DEF Invariant
  <2>4. CASE \E s \in Session : Lost(s)
    BY <1>1, <2>1, <2>2, <2>4, AbortType DEF Lost, Invariant
  <2>5. CASE \E s \in Session : Proceed(s)
    <3> PICK s \in Session : Proceed(s)
      BY <2>5
    <3>1. CASE SaveLatest(s) \/ SaveReplay(s)
      BY <1>1, <2>1, <3>1, SaveType DEF Invariant
    <3>2. CASE UpsertIncident(s) \/ UpsertSuppressed(s)
      BY <1>1, <2>1, <2>2, <3>2, UpsertType DEF Invariant
    <3>3. CASE RecoverNothing(s) \/ RecoverFound(s)
      BY <1>1, <2>1, <3>3, RecoverType DEF Invariant
    <3>4. CASE ResolveRow(s) \/ ResolveMissed(s) \/ ResolvedByOther(s)
      BY <1>1, <2>1, <2>2, <3>4, ResolveType DEF Invariant
    <3>5. CASE Commit(s)
      BY <1>1, <2>1, <2>2, <3>5, CommitType DEF Invariant
    <3>6. CASE SaveRejected(s) \/ RejectStale(s) \/ RecoverStale(s)
                 \/ ResolveRejected(s) \/ DeadlockVictim(s)
      <4>1. Abort(s)
        BY <3>6 DEF SaveRejected, RejectStale, RecoverStale, ResolveRejected, DeadlockVictim
      <4> QED
        BY <1>1, <2>1, <2>2, <4>1, AbortType DEF Invariant
    <3> QED
      BY <3>1, <3>2, <3>3, <3>4, <3>5, <3>6 DEF Proceed
  <2>6. CASE Tick
    <3>1. now' \in Time
      BY <1>1, <2>6, MaxTimeAssumption DEF Tick, TypeOK, Time
    <3>2. TypeOK'
      BY <1>1, <2>2, <2>6, <3>1 DEF Tick, TypeOK, requestVars, labVars
    <3> QED
      BY <2>1, <3>2 DEF Invariant
  <2>7. CASE Quiescent
    <3>1. TypeOK'
      BY <1>1, <2>2, <2>7 DEF Quiescent, TypeOK, vars, requestVars, labVars
    <3> QED
      BY <2>1, <3>1 DEF Invariant
  <2> QED
    BY <1>3, <2>3, <2>4, <2>5, <2>6, <2>7 DEF Next
<1> QED
  BY <1>2, <1>3

THEOREM InvariantHolds ==
  Spec => []Invariant
BY InitInvariant, NextInvariant, PTL DEF Spec

(* Every variable keeps its type, and a statement only runs with the       *)
(* operand it needs: an upsert has a fingerprint, a resolution an incident *)
(* and a collector session its collection.                                 *)
THEOREM TypeCorrect ==
  Spec => []TypeOK
<1>1. Invariant => TypeOK
  BY DEF Invariant
<1> QED
  BY <1>1, InvariantHolds, PTL

(* However telemetry, collections and operators interleave, wait, abort    *)
(* and crash, committed data never holds two OPEN incidents with the same  *)
(* fingerprint (docs/domain-model.md, the deduplication key).              *)
THEOREM OneOpenIncident ==
  Spec => []OneOpenPerFingerprint
<1>1. Invariant => OneOpenPerFingerprint
  BY StoreInvariantOneOpen DEF Invariant
<1> QED
  BY <1>1, InvariantHolds, PTL

(* Nor could any set of transactions in flight commit into such a state:   *)
(* the exclusion already holds among their uncommitted versions.           *)
THEOREM ExclusiveOpenRows ==
  Spec => []OpenRowsExclusive
<1>1. Invariant => OpenRowsExclusive
  BY DEF Invariant, StoreInvariant
<1> QED
  BY <1>1, InvariantHolds, PTL

(* Every version of every row satisfies what Incident.__post_init__        *)
(* demands, and an OPEN one was last updated by its last observation.      *)
THEOREM IncidentChronology ==
  Spec => []RowsChronological
<1>1. Invariant => RowsChronological
  BY DEF Invariant, StoreInvariant
<1> QED
  BY <1>1, InvariantHolds, PTL

-----------------------------------------------------------------------------
(***************************************************************************)
(* Theorems about a session in the company of others: what it holds ends   *)
(* with its request, what it has locked stays as it is, and the latest     *)
(* operational state only moves forward.                                   *)
(***************************************************************************)

(* A session whose upsert was suppressed still holds the row that          *)
(* suppressed it, in the version the statement saw.                        *)
StaleRowLocked ==
  \A s \in Session : pc[s] = "stale" =>
    \E i \in Incident : /\ owner[i] = s
                        /\ IsOpenFor(dirty[i], cursor[s])
                        /\ ~AcceptsObservation(dirty[i], time[s])

SessionInvariant == Invariant /\ IdleHoldsNothing /\ StaleRowLocked

(* What a step of session s may change, of its own and of the others.      *)
SessionStep(s) ==
  /\ \A q \in Session \ {s} :
       /\ pc'[q] = pc[q] /\ cursor'[q] = cursor[q] /\ time'[q] = time[q]
       /\ left'[q] = left[q] /\ coll'[q] = coll[q]
  /\ \A i \in Incident :
       /\ owner'[i] \in {owner[i], s, Nobody}
       /\ LockedByOther(s, i) => owner'[i] = owner[i] /\ dirty'[i] = dirty[i]
       /\ table'[i] # table[i] => owner[i] = s /\ table'[i] = dirty[i]
  /\ labOwner' \in {labOwner, s, Nobody}
  /\ pc'[s] = "idle" => labOwner' # s /\ \A i \in Incident : owner'[i] # s
  /\ pc'[s] = "stale" => UpsertSuppressed(s)

-----------------------------------------------------------------------------
(* The table. *)

(* No statement touches a row another session has locked. *)
LEMMA StoreFrame ==
  ASSUME StoreInvariant, NEW s \in Session, StoreStep(s), NEW i \in Incident
  PROVE  /\ owner'[i] \in {owner[i], s, Nobody}
         /\ LockedByOther(s, i) => owner'[i] = owner[i] /\ dirty'[i] = dirty[i]
         /\ table'[i] # table[i] => owner[i] = s /\ table'[i] = dirty[i]
<1>1. ASSUME NEW j \in Incident, NEW r, ~LockedByOther(s, j), Write(s, j, r)
      PROVE  /\ owner'[i] \in {owner[i], s, Nobody}
             /\ LockedByOther(s, i) => owner'[i] = owner[i] /\ dirty'[i] = dirty[i]
             /\ table'[i] = table[i]
  BY <1>1 DEF Write, LockedByOther, StoreInvariant, StoreTypeOK
<1>2. CASE StoreCommit(s) \/ StoreRollback(s)
  BY <1>2 DEF StoreCommit, StoreRollback, LockedByOther, View
<1>3. ASSUME NEW f \in Fingerprint, NEW t \in Time, InsertOpen(s, f, t)
      PROVE  /\ owner'[i] \in {owner[i], s, Nobody}
             /\ LockedByOther(s, i) => owner'[i] = owner[i] /\ dirty'[i] = dirty[i]
             /\ table'[i] = table[i]
  <2>1. NewIncident \in Incident /\ Unused(NewIncident)
    BY <1>3 DEF InsertOpen, NewIncident
  <2> QED
    BY <1>1, <1>3, <2>1 DEF InsertOpen, Unused, LockedByOther
<1>4. ASSUME NEW f \in Fingerprint, NEW t \in Time,
             RefreshOpen(s, f, t) \/ SuppressUpsert(s, f, t)
      PROVE  /\ owner'[i] \in {owner[i], s, Nobody}
             /\ LockedByOther(s, i) => owner'[i] = owner[i] /\ dirty'[i] = dirty[i]
             /\ table'[i] = table[i]
  <2>1. PICK j \in OpenRows(s, f) :
          Write(s, j, Refreshed(View(s, j), t)) \/ Write(s, j, View(s, j))
    BY <1>4 DEF RefreshOpen, SuppressUpsert
  <2>2. j \in Incident /\ ~LockedByOther(s, j)
    BY <1>4, UpsertTarget DEF RefreshOpen, SuppressUpsert
  <2> QED
    BY <1>1, <2>1, <2>2
<1>5. ASSUME NEW j \in Incident, NEW t \in Time, ResolveOpen(s, j, t)
      PROVE  /\ owner'[i] \in {owner[i], s, Nobody}
             /\ LockedByOther(s, i) => owner'[i] = owner[i] /\ dirty'[i] = dirty[i]
             /\ table'[i] = table[i]
  <2>1. ~LockedByOther(s, j)
    BY <1>5 DEF ResolveOpen, ResolveBlockers, LockedByOther, View
  <2> QED
    BY <1>1, <1>5, <2>1 DEF ResolveOpen
<1> QED
  BY <1>2, <1>3, <1>4, <1>5 DEF StoreStep

-----------------------------------------------------------------------------
(* Every action of a session is a SessionStep. *)

LEMMA AcceptIsSessionStep ==
  ASSUME TypeOK, NEW s \in Session, Accept(s)
  PROVE  SessionStep(s)
<1>1. ASSUME NEW t, NEW first \in {"commit", "upsert", "save", "resolve"}, NEW c, NEW fps, NEW x,
             Begin(s, t, first, c, fps, x)
      PROVE  SessionStep(s)
  BY <1>1 DEF Begin, SessionStep, TypeOK, storeVars, labVars
<1> QED
  BY <1>1 DEF Accept, BeginTelemetry, BeginCollection, BeginResolve

(* The end of a request, by commit or by rollback. *)
LEMMA EndIsSessionStep ==
  ASSUME TypeOK, NEW s \in Session,
         StoreCommit(s) \/ StoreRollback(s), ReleaseLab(s), EndRequest(s)
  PROVE  SessionStep(s)
<1>1. /\ \A q \in Session \ {s} :
           /\ pc'[q] = pc[q] /\ cursor'[q] = cursor[q] /\ time'[q] = time[q]
           /\ left'[q] = left[q] /\ coll'[q] = coll[q]
      /\ pc'[s] = "idle"
  BY DEF EndRequest, TypeOK
<1>2. \A i \in Incident : /\ owner'[i] = IF owner[i] = s THEN Nobody ELSE owner[i]
                          /\ dirty'[i] = IF owner[i] = s THEN NoRow ELSE dirty[i]
                          /\ table'[i] # table[i] => owner[i] = s /\ table'[i] = dirty[i]
  BY DEF StoreCommit, StoreRollback, View
<1>3. labOwner' = IF labOwner = s THEN Nobody ELSE labOwner
  BY DEF ReleaseLab
<1>4. s # Nobody
  BY NobodyAssumption
<1> QED
  BY <1>1, <1>2, <1>3, <1>4 DEF SessionStep, LockedByOther

(* Where a session goes on from a statement that did not raise. *)
LEMMA ProceedControl ==
  ASSUME TypeOK, NEW s \in Session,
         \/ SaveLatest(s) \/ SaveReplay(s)
         \/ UpsertIncident(s) \/ UpsertSuppressed(s)
         \/ RecoverNothing(s) \/ RecoverFound(s)
         \/ ResolveRow(s) \/ ResolveMissed(s) \/ ResolvedByOther(s)
  PROVE  /\ \A q \in Session \ {s} :
              /\ pc'[q] = pc[q] /\ cursor'[q] = cursor[q] /\ time'[q] = time[q]
              /\ left'[q] = left[q] /\ coll'[q] = coll[q]
         /\ labOwner' \in {labOwner, s}
         /\ pc'[s] # "idle"
         /\ pc'[s] = "stale" => UpsertSuppressed(s)
<1>1. \A fps : RecoverNext(fps) \in {"commit", "recover"}
  BY DEF RecoverNext
<1>2. CASE SaveLatest(s)
  BY <1>1, <1>2 DEF SaveLatest, UpsertNext, TypeOK
<1>3. CASE SaveReplay(s)
  BY <1>3 DEF SaveReplay, TypeOK
<1>4. CASE UpsertIncident(s)
  BY <1>1, <1>4 DEF UpsertIncident, UpsertNext, TypeOK, labVars
<1>5. CASE UpsertSuppressed(s)
  BY <1>5 DEF UpsertSuppressed, TypeOK, labVars
<1>6. CASE RecoverNothing(s)
  BY <1>1, <1>6 DEF RecoverNothing, TypeOK, labVars
<1>7. CASE RecoverFound(s)
  BY <1>7 DEF RecoverFound, TypeOK, labVars
<1>8. CASE ResolveRow(s) \/ ResolvedByOther(s)
  BY <1>1, <1>8 DEF ResolveRow, ResolvedByOther, Resolved, TypeOK, labVars
<1>9. CASE ResolveMissed(s)
  BY <1>9 DEF ResolveMissed, TypeOK, labVars
<1> QED
  BY <1>2, <1>3, <1>4, <1>5, <1>6, <1>7, <1>8, <1>9

(* The statements that did not raise, as steps on the table. *)
LEMMA ProceedStore ==
  ASSUME TypeOK, NEW s \in Session,
         \/ SaveLatest(s) \/ SaveReplay(s)
         \/ UpsertIncident(s) \/ UpsertSuppressed(s)
         \/ RecoverNothing(s) \/ RecoverFound(s)
         \/ ResolveRow(s) \/ ResolveMissed(s) \/ ResolvedByOther(s)
  PROVE  UNCHANGED storeVars \/ StoreStep(s)
<1>1. time[s] \in Time
  BY DEF TypeOK
<1>2. CASE \/ SaveLatest(s) \/ SaveReplay(s) \/ RecoverNothing(s) \/ RecoverFound(s)
           \/ ResolveMissed(s) \/ ResolvedByOther(s)
  BY <1>2 DEF SaveLatest, SaveReplay, RecoverNothing, RecoverFound,
              ResolveMissed, ResolveNothing, ResolvedByOther
<1>3. CASE UpsertIncident(s) \/ UpsertSuppressed(s)
  <2>1. cursor[s] \in Fingerprint
    BY <1>3 DEF TypeOK, UpsertIncident, UpsertSuppressed
  <2> QED
    BY <1>1, <1>3, <2>1 DEF UpsertIncident, UpsertSuppressed, StoreStep
<1>4. CASE ResolveRow(s)
  <2>1. cursor[s] \in Incident
    BY <1>4 DEF TypeOK, ResolveRow
  <2> QED
    BY <1>1, <1>4, <2>1 DEF ResolveRow, StoreStep
<1> QED
  BY <1>2, <1>3, <1>4

LEMMA NextIsSessionStep ==
  ASSUME Invariant, Next
  PROVE  \/ \E s \in Session : SessionStep(s) /\ (Accept(s) \/ Proceed(s) \/ Lost(s))
         \/ UNCHANGED <<storeVars, labVars, requestVars>>
<1>1. TypeOK /\ StoreInvariant
  BY DEF Invariant
<1>2. \A s \in Session : Accept(s) => SessionStep(s)
  BY <1>1, AcceptIsSessionStep
<1>3. \A s \in Session : Abort(s) => SessionStep(s)
  BY <1>1, EndIsSessionStep DEF Abort
<1>4. ASSUME NEW s \in Session, Proceed(s)
      PROVE  SessionStep(s)
  <2>1. CASE Commit(s)
    BY <1>1, <2>1, EndIsSessionStep DEF Commit
  <2>2. CASE \/ SaveRejected(s) \/ RejectStale(s) \/ RecoverStale(s)
             \/ ResolveRejected(s) \/ DeadlockVictim(s)
    BY <1>3, <2>2 DEF SaveRejected, RejectStale, RecoverStale, ResolveRejected,
                      DeadlockVictim
  <2>3. CASE \/ SaveLatest(s) \/ SaveReplay(s)
             \/ UpsertIncident(s) \/ UpsertSuppressed(s)
             \/ RecoverNothing(s) \/ RecoverFound(s)
             \/ ResolveRow(s) \/ ResolveMissed(s) \/ ResolvedByOther(s)
    <3>1. UNCHANGED storeVars \/ StoreStep(s)
      BY <1>1, <2>3, ProceedStore
    <3>2. \A i \in Incident :
            /\ owner'[i] \in {owner[i], s, Nobody}
            /\ LockedByOther(s, i) => owner'[i] = owner[i] /\ dirty'[i] = dirty[i]
            /\ table'[i] # table[i] => owner[i] = s /\ table'[i] = dirty[i]
      BY <1>1, <3>1, StoreFrame DEF storeVars
    <3> QED
      BY <1>1, <2>3, <3>2, ProceedControl DEF SessionStep
  <2> QED
    BY <1>4, <2>1, <2>2, <2>3 DEF Proceed
<1>5. \A s \in Session : Lost(s) => SessionStep(s)
  BY <1>3 DEF Lost
<1>6. Tick \/ Quiescent => UNCHANGED <<storeVars, labVars, requestVars>>
  BY DEF Tick, Quiescent, vars
<1> QED
  BY <1>2, <1>4, <1>5, <1>6 DEF Next

-----------------------------------------------------------------------------
(* Locks end with their request. *)

LEMMA IdleStep ==
  ASSUME TypeOK, IdleHoldsNothing, NEW s \in Session, SessionStep(s)
  PROVE  IdleHoldsNothing'
<1>1. ASSUME NEW i \in Incident, owner'[i] # Nobody
      PROVE  pc'[owner'[i]] # "idle"
  <2>1. CASE owner'[i] = s
    BY <2>1 DEF SessionStep
  <2>2. CASE owner'[i] # s
    <3>1. owner'[i] = owner[i] /\ owner[i] \in Session \ {s}
      BY <1>1, <2>2 DEF SessionStep, TypeOK, StoreTypeOK
    <3> QED
      BY <1>1, <3>1 DEF SessionStep, IdleHoldsNothing
  <2> QED
    BY <2>1, <2>2
<1>2. ASSUME labOwner' # Nobody
      PROVE  pc'[labOwner'] # "idle"
  <2>1. CASE labOwner' = s
    BY <2>1 DEF SessionStep
  <2>2. CASE labOwner' # s
    <3>1. labOwner' = labOwner /\ labOwner \in Session \ {s}
      BY <1>2, <2>2 DEF SessionStep, TypeOK
    <3> QED
      BY <1>2, <3>1 DEF SessionStep, IdleHoldsNothing
  <2> QED
    BY <2>1, <2>2
<1> QED
  BY <1>1, <1>2 DEF IdleHoldsNothing

-----------------------------------------------------------------------------
(* A suppressed upsert keeps its row. *)

LEMMA SuppressedRowLocked ==
  ASSUME Invariant, NEW s \in Session, UpsertSuppressed(s)
  PROVE  \E i \in Incident : /\ owner'[i] = s
                             /\ IsOpenFor(dirty'[i], cursor'[s])
                             /\ ~AcceptsObservation(dirty'[i], time'[s])
<1>1. cursor[s] \in Fingerprint /\ cursor' = cursor /\ time' = time
  BY DEF UpsertSuppressed, Invariant, TypeOK
<1>2. PICK i \in OpenRows(s, cursor[s]) :
        ~AcceptsObservation(View(s, i), time[s]) /\ Write(s, i, View(s, i))
  BY DEF UpsertSuppressed, SuppressUpsert
<1>3. i \in Incident /\ IsOpenFor(View(s, i), cursor[s])
  BY DEF OpenRows
<1>4. dirty'[i] = View(s, i) /\ owner'[i] = s
  BY <1>2, <1>3 DEF Write, Invariant, TypeOK, StoreTypeOK
<1> QED
  BY <1>1, <1>2, <1>3, <1>4

LEMMA StaleStep ==
  ASSUME Invariant, StaleRowLocked, NEW s \in Session, SessionStep(s)
  PROVE  StaleRowLocked'
<1> SUFFICES ASSUME NEW q \in Session, pc'[q] = "stale"
             PROVE  \E i \in Incident : /\ owner'[i] = q
                                        /\ IsOpenFor(dirty'[i], cursor'[q])
                                        /\ ~AcceptsObservation(dirty'[i], time'[q])
  BY DEF StaleRowLocked, IsOpenFor, IsOpen, AcceptsObservation
<1>1. CASE q = s
  BY <1>1, SuppressedRowLocked DEF SessionStep
<1>2. CASE q # s
  <2>1. pc[q] = "stale" /\ cursor'[q] = cursor[q] /\ time'[q] = time[q]
    BY <1>2 DEF SessionStep
  <2>2. PICK i \in Incident : /\ owner[i] = q
                              /\ IsOpenFor(dirty[i], cursor[q])
                              /\ ~AcceptsObservation(dirty[i], time[q])
    BY <2>1 DEF StaleRowLocked
  <2>3. LockedByOther(s, i)
    BY <1>2, <2>2, NobodyAssumption DEF LockedByOther
  <2>4. owner'[i] = owner[i] /\ dirty'[i] = dirty[i]
    BY <2>3 DEF SessionStep
  <2> QED
    BY <2>1, <2>2, <2>4
<1> QED
  BY <1>1, <1>2

(* The row still locked is among those the follow-up SELECT finds. *)
LEMMA StaleRowFound ==
  StaleRowLocked => SuppressedMeansStale
BY DEF StaleRowLocked, SuppressedMeansStale, StaleRow, OpenRows, View

-----------------------------------------------------------------------------
(* The invariant of the sessions. *)

LEMMA SessionInvariantInit ==
  Init => SessionInvariant
<1> SUFFICES ASSUME Init PROVE SessionInvariant
  OBVIOUS
<1>1. Invariant
  BY InitInvariant
<1> QED
  BY <1>1 DEF Init, StoreInit, SessionInvariant, IdleHoldsNothing, StaleRowLocked

LEMMA SessionInvariantNext ==
  SessionInvariant /\ [Next]_vars => SessionInvariant'
<1> SUFFICES ASSUME SessionInvariant, [Next]_vars PROVE SessionInvariant'
  OBVIOUS
<1>1. Invariant /\ TypeOK /\ IdleHoldsNothing /\ StaleRowLocked
  BY DEF SessionInvariant, Invariant
<1>2. Invariant'
  BY <1>1, NextInvariant
<1>3. CASE \E s \in Session : SessionStep(s)
  BY <1>1, <1>2, <1>3, IdleStep, StaleStep DEF SessionInvariant
<1>4. CASE UNCHANGED <<storeVars, labVars, requestVars>>
  BY <1>1, <1>2, <1>4 DEF storeVars, labVars, requestVars, SessionInvariant,
                          IdleHoldsNothing, StaleRowLocked
<1>5. UNCHANGED vars => UNCHANGED <<storeVars, labVars, requestVars>>
  BY DEF vars
<1> QED
  BY <1>1, <1>3, <1>4, <1>5, NextIsSessionStep

(* In every reachable state the store is consistent, finished requests     *)
(* hold nothing, and a stale row stays locked until its reason is read.    *)
THEOREM SessionInvariantHolds ==
  Spec => []SessionInvariant
BY SessionInvariantInit, SessionInvariantNext, PTL DEF Spec

(* Whichever way a request ends (commit, exception, deadlock, a process    *)
(* that is lost), its session holds neither an incident nor the lab's row  *)
(* afterwards.                                                             *)
THEOREM LocksEndWithRequest ==
  Spec => []IdleHoldsNothing
<1>1. SessionInvariant => IdleHoldsNothing
  BY DEF SessionInvariant
<1> QED
  BY <1>1, SessionInvariantHolds, PTL

(* The last branch of upsert_open_incident, "no row affected and no stale  *)
(* row found", is dead: nobody can resolve or refresh the row between the  *)
(* suppressed statement and the SELECT that looks for the reason.          *)
THEOREM SuppressedIsStale ==
  Spec => []SuppressedMeansStale
<1>1. SessionInvariant => SuppressedMeansStale
  BY StaleRowFound DEF SessionInvariant
<1> QED
  BY <1>1, SessionInvariantHolds, PTL

-----------------------------------------------------------------------------
(* The latest operational state. *)

(* The uncommitted state, if any, is the committed one or newer. *)
PendingAdvances ==
  labOwner # Nobody => labDirty = lab \/ lab = NoState \/ labDirty.time > lab.time

LabAdvances == lab' # lab => lab = NoState \/ lab'.time > lab.time

LEMMA LabStep ==
  ASSUME TypeOK, PendingAdvances, [Next]_vars
  PROVE  PendingAdvances' /\ LabAdvances
<1>1. ASSUME UNCHANGED labVars
      PROVE  PendingAdvances' /\ LabAdvances
  BY <1>1 DEF labVars, PendingAdvances, LabAdvances
<1>2. ASSUME NEW s \in Session, Abort(s)
      PROVE  PendingAdvances' /\ LabAdvances
  BY <1>2 DEF Abort, ReleaseLab, PendingAdvances, LabAdvances
<1>3. ASSUME NEW s \in Session, Accept(s)
      PROVE  UNCHANGED labVars
  BY <1>3 DEF Accept, BeginTelemetry, BeginCollection, BeginResolve, Begin
<1>4. ASSUME NEW s \in Session, Proceed(s)
      PROVE  PendingAdvances' /\ LabAdvances
  <2>1. CASE SaveLatest(s)
    BY <2>1 DEF SaveLatest, Supersedes, PendingAdvances, LabAdvances
  <2>2. CASE SaveReplay(s)
    BY <2>2 DEF SaveReplay, PendingAdvances, LabAdvances
  <2>3. CASE Commit(s)
    <3>1. s # Nobody
      BY NobodyAssumption
    <3>2. CASE labOwner = s
      BY <2>3, <3>1, <3>2 DEF Commit, ReleaseLab, PendingAdvances, LabAdvances
    <3>3. CASE labOwner # s
      BY <2>3, <3>3 DEF Commit, ReleaseLab, PendingAdvances, LabAdvances
    <3> QED
      BY <3>2, <3>3
  <2>4. CASE \/ UpsertIncident(s) \/ UpsertSuppressed(s)
             \/ RecoverNothing(s) \/ RecoverFound(s)
             \/ ResolveRow(s) \/ ResolveMissed(s) \/ ResolvedByOther(s)
    <3>1. UNCHANGED labVars
      BY <2>4 DEF UpsertIncident, UpsertSuppressed, RecoverNothing, RecoverFound,
                  ResolveRow, ResolveMissed, ResolvedByOther, Resolved
    <3> QED
      BY <1>1, <3>1
  <2>5. CASE \/ SaveRejected(s) \/ RejectStale(s) \/ RecoverStale(s)
             \/ ResolveRejected(s) \/ DeadlockVictim(s)
    BY <1>2, <2>5 DEF SaveRejected, RejectStale, RecoverStale, ResolveRejected,
                      DeadlockVictim
  <2> QED
    BY <1>4, <2>1, <2>2, <2>3, <2>4, <2>5 DEF Proceed
<1>5. ASSUME NEW s \in Session, Lost(s)
      PROVE  PendingAdvances' /\ LabAdvances
  BY <1>2, <1>5 DEF Lost
<1>6. Tick \/ Quiescent \/ UNCHANGED vars => UNCHANGED labVars
  BY DEF Tick, Quiescent, vars
<1> QED
  BY <1>1, <1>3, <1>4, <1>5, <1>6 DEF Next

(* The stored state of the lab never goes back in time, however many       *)
(* collectors ingest collections in whatever order: save_latest compares   *)
(* and locks the row in one statement.                                     *)
THEOREM LatestStateOrder ==
  Spec => LatestStateAdvances
<1>1. Init => PendingAdvances
  BY DEF Init, PendingAdvances
<1>2. TypeOK /\ PendingAdvances /\ [Next]_vars => PendingAdvances' /\ LabAdvances
  BY LabStep
<1>3. LabAdvances => [lab' # lab => lab = NoState \/ lab'.time > lab.time]_vars
  BY DEF LabAdvances
<1> QED
  BY <1>1, <1>2, <1>3, TypeCorrect, PTL DEF Spec, LatestStateAdvances

-----------------------------------------------------------------------------
(***************************************************************************)
(* Seen through committed data, the services implement                     *)
(* IncidentLifecycle.  A commit publishes all of a session's row versions  *)
(* at once; each must be one lifecycle step away from the committed one,   *)
(* so no request may write a row twice.                                    *)
(***************************************************************************)

(* r2 is r1, or one creation, observation or resolution later. *)
OneStep(r1, r2) ==
  \/ r2 = r1
  \/ r1 = NoRow /\ \E f \in Fingerprint, t \in Time : r2 = Opened(f, t)
  \/ IsOpen(r1) /\ \E t \in Time : t >= r1.seen /\ r2 = Refreshed(r1, t)
  \/ IsOpen(r1) /\ \E t \in Time : t >= r1.updated /\ r2 = ResolvedAt(r1, t)

(* The fingerprints a session may yet look up. *)
Todo(s) ==
  CASE pc[s] = "upsert" -> left[s] \cup Recoverable(s)
    [] pc[s] \in {"recover", "resolve", "recheck"} -> left[s]
    [] OTHER -> {}

(* Session s has taken at most one step on each row it holds, and will not *)
(* come back to a row it has changed.                                      *)
OwnRows(s) ==
  \A i \in Incident : owner[i] = s =>
    /\ OneStep(table[i], dirty[i])
    /\ dirty[i] # NoRow
    /\ dirty[i] # table[i] =>
         /\ pc[s] # "save"
         /\ pc[s] = "resolve" => cursor[s] # i
         /\ dirty[i].fp \notin Todo(s)

(* No fingerprint is upserted twice, or upserted and recovered, or looked  *)
(* up again after its recovery.                                            *)
Plan(s) ==
  /\ pc[s] = "upsert" => cursor[s] \in left[s] /\ left[s] \cap Recoverable(s) = {}
  /\ pc[s] = "resolve" => table[cursor[s]] # NoRow /\ table[cursor[s]].fp \notin left[s]

RefinementInvariant ==
  SessionInvariant /\ \A s \in Session : OwnRows(s) /\ Plan(s)

-----------------------------------------------------------------------------
(* What one session's step leaves the others. *)

LEMMA OneStepFp ==
  ASSUME NEW r1 \in Row, NEW r2, OneStep(r1, r2)
  PROVE  r2.fp = r1.fp
BY NoRowAssumption DEF OneStep, Refreshed, ResolvedAt, Row

LEMMA OthersKeep ==
  ASSUME RefinementInvariant, NEW s \in Session, SessionStep(s),
         NEW q \in Session \ {s}
  PROVE  OwnRows(q)' /\ Plan(q)'
<1>1. /\ pc'[q] = pc[q] /\ cursor'[q] = cursor[q] /\ left'[q] = left[q]
      /\ Recoverable(q)' = Recoverable(q)
  BY DEF SessionStep, Recoverable
<1>2. Todo(q)' = Todo(q)
  BY <1>1 DEF Todo
<1>3. OwnRows(q)'
  <2> SUFFICES ASSUME NEW i \in Incident, owner'[i] = q
               PROVE  owner[i] = q /\ dirty'[i] = dirty[i] /\ table'[i] = table[i]
    BY <1>1, <1>2 DEF RefinementInvariant, OwnRows
  <2>1. owner[i] = q
    BY NobodyAssumption DEF SessionStep
  <2> QED
    BY <2>1, NobodyAssumption DEF SessionStep, LockedByOther
<1>4. Plan(q)'
  <2> SUFFICES ASSUME pc[q] = "resolve"
               PROVE  table'[cursor[q]] # NoRow /\ table'[cursor[q]].fp = table[cursor[q]].fp
    BY <1>1 DEF RefinementInvariant, Plan
  <2>1. cursor[q] \in Incident /\ table[cursor[q]] \in Row
    BY DEF RefinementInvariant, SessionInvariant, Invariant, TypeOK, StoreTypeOK, Plan
  <2>2. CASE table'[cursor[q]] = table[cursor[q]]
    BY <2>1, <2>2, NoRowAssumption
  <2>3. CASE table'[cursor[q]] # table[cursor[q]]
    <3>1. owner[cursor[q]] = s /\ table'[cursor[q]] = dirty[cursor[q]]
      BY <2>1, <2>3 DEF SessionStep
    <3> QED
      BY <2>1, <3>1, OneStepFp DEF RefinementInvariant, OwnRows
  <2> QED
    BY <2>2, <2>3
<1> QED
  BY <1>3, <1>4

-----------------------------------------------------------------------------
(* What a session's step leaves itself. *)

(* A statement that writes nothing and does not begin a resolution. *)
LEMMA OwnRowsKept ==
  ASSUME NEW s \in Session, OwnRows(s), UNCHANGED storeVars,
         pc'[s] \notin {"save", "resolve"}, Todo(s)' \subseteq Todo(s)
  PROVE  OwnRows(s)'
BY DEF OwnRows, storeVars

(* A statement that writes one row. *)
LEMMA OwnRowsWritten ==
  ASSUME StoreTypeOK, NEW s \in Session, OwnRows(s), NEW i \in Incident, NEW r,
         Write(s, i, r), OneStep(table[i], r), r # NoRow,
         pc'[s] \notin {"save", "resolve"}, Todo(s)' \subseteq Todo(s),
         r # table[i] => r.fp \notin Todo(s)'
  PROVE  OwnRows(s)'
<1>1. /\ table' = table /\ dirty'[i] = r
      /\ \A j \in Incident \ {i} : owner'[j] = owner[j] /\ dirty'[j] = dirty[j]
  BY DEF Write, StoreTypeOK
<1> SUFFICES ASSUME NEW j \in Incident, owner'[j] = s
             PROVE  /\ OneStep(table[j], dirty'[j])
                    /\ dirty'[j] # NoRow
                    /\ dirty'[j] # table[j] => dirty'[j].fp \notin Todo(s)'
  BY <1>1 DEF OwnRows
<1>2. CASE j = i
  BY <1>1, <1>2
<1>3. CASE j # i
  BY <1>1, <1>3 DEF OwnRows
<1> QED
  BY <1>2, <1>3

(* A row that a session finds OPEN for a fingerprint it still has to do is *)
(* one it has not changed.                                                 *)
LEMMA TodoUntouched ==
  ASSUME NEW s \in Session, OwnRows(s), NEW f \in Todo(s), NEW i \in OpenRows(s, f)
  PROVE  i \in Incident /\ View(s, i) = table[i] /\ IsOpenFor(table[i], f)
         /\ (owner[i] = s => dirty[i] = table[i])
BY DEF OwnRows, OpenRows, View, IsOpenFor

(* Control after a candidate or after the latest state. *)
LEMMA UpsertNextPlan ==
  ASSUME TypeOK, NEW s \in Session, NEW fps, UpsertNext(s, fps), coll' = coll,
         fps \cap Recoverable(s) = {}
  PROVE  /\ Plan(s)'
         /\ Todo(s)' \subseteq fps \cup Recoverable(s)
         /\ pc'[s] \notin {"save", "resolve"}
<1>1. Recoverable(s)' = Recoverable(s)
  BY DEF Recoverable
<1>2. RecoverNext(Recoverable(s)) \in {"commit", "recover"}
  BY DEF RecoverNext
<1>3. CASE /\ left' = [left EXCEPT ![s] = fps]
           /\ pc' = [pc EXCEPT ![s] = "upsert"]
           /\ \E f \in fps : cursor' = [cursor EXCEPT ![s] = f]
  <2>1. pc'[s] = "upsert" /\ left'[s] = fps /\ cursor'[s] \in fps
    BY <1>3 DEF TypeOK
  <2> QED
    BY <1>1, <2>1 DEF Plan, Todo
<1>4. CASE /\ left' = [left EXCEPT ![s] = Recoverable(s)]
           /\ pc' = [pc EXCEPT ![s] = RecoverNext(Recoverable(s))]
  <2>1. pc'[s] \in {"commit", "recover"} /\ left'[s] = Recoverable(s)
    BY <1>2, <1>4 DEF TypeOK
  <2> QED
    BY <2>1 DEF Plan, Todo
<1> QED
  BY <1>3, <1>4 DEF UpsertNext

(* The session holds nothing after its request. *)
LEMMA EndKeeps ==
  ASSUME NEW s \in Session, SessionStep(s), pc'[s] = "idle"
  PROVE  OwnRows(s)' /\ Plan(s)'
BY DEF SessionStep, OwnRows, Plan

LEMMA BeginKeeps ==
  ASSUME RefinementInvariant, NEW s \in Session, Accept(s)
  PROVE  OwnRows(s)' /\ Plan(s)'
<1>1. TypeOK /\ IdleHoldsNothing
  BY DEF RefinementInvariant, SessionInvariant, Invariant
<1>2. pc[s] = "idle" /\ UNCHANGED storeVars
  BY DEF Accept, BeginTelemetry, BeginCollection, BeginResolve, Begin
<1>3. \A i \in Incident : owner[i] # s
  BY <1>1, <1>2, NobodyAssumption DEF IdleHoldsNothing
<1>4. OwnRows(s)'
  BY <1>2, <1>3 DEF OwnRows, storeVars
<1>5. CASE BeginTelemetry(s)
  <2>1. s \notin CollectorSession
    BY <1>5, SessionAssumption DEF BeginTelemetry
  <2>2. Recoverable(s)' = {}
    BY <2>1 DEF Recoverable
  <2>3. \/ pc'[s] = "commit"
        \/ pc'[s] = "upsert" /\ cursor'[s] \in left'[s]
    BY <1>1, <1>5 DEF BeginTelemetry, Begin, TypeOK
  <2> QED
    BY <1>4, <2>2, <2>3 DEF Plan
<1>6. CASE BeginCollection(s)
  <2>1. pc'[s] = "save"
    BY <1>1, <1>6 DEF BeginCollection, Begin, TypeOK
  <2> QED
    BY <1>4, <2>1 DEF Plan
<1>7. CASE BeginResolve(s)
  <2>1. /\ pc'[s] = "resolve" /\ left'[s] = {}
        /\ table[cursor'[s]] # NoRow
    BY <1>1, <1>7 DEF BeginResolve, Begin, TypeOK, IsOpen
  <2> QED
    BY <1>2, <1>4, <2>1 DEF Plan, storeVars
<1> QED
  BY <1>5, <1>6, <1>7 DEF Accept

LEMMA SaveKeeps ==
  ASSUME RefinementInvariant, NEW s \in Session, SaveLatest(s) \/ SaveReplay(s)
  PROVE  OwnRows(s)' /\ Plan(s)'
<1>1. TypeOK /\ OwnRows(s)
  BY DEF RefinementInvariant, SessionInvariant, Invariant
<1>2. pc[s] = "save" /\ UNCHANGED storeVars /\ coll' = coll
  BY DEF SaveLatest, SaveReplay
<1>3. pc'[s] \notin {"save", "resolve"} /\ Plan(s)'
  <2>1. CASE SaveLatest(s)
    <3>1. coll[s].down \cap Recoverable(s) = {}
      BY DEF Recoverable
    <3> QED
      BY <1>1, <1>2, <2>1, <3>1, UpsertNextPlan DEF SaveLatest
  <2>2. CASE SaveReplay(s)
    BY <1>1, <2>2 DEF SaveReplay, TypeOK, Plan
  <2> QED
    BY <2>1, <2>2
<1>4. OwnRows(s)'
  BY <1>1, <1>2, <1>3 DEF OwnRows, storeVars
<1> QED
  BY <1>3, <1>4
LEMMA UpsertKeeps ==
  ASSUME RefinementInvariant, NEW s \in Session, UpsertIncident(s)
  PROVE  OwnRows(s)' /\ Plan(s)'
<1> DEFINE f == cursor[s]
           rest == left[s] \ {f}
<1>1. TypeOK /\ StoreTypeOK /\ StoreInvariant /\ OwnRows(s) /\ Plan(s)
  BY DEF RefinementInvariant, SessionInvariant, Invariant, TypeOK
<1>2. /\ f \in Fingerprint /\ time[s] \in Time
      /\ f \in left[s] /\ left[s] \cap Recoverable(s) = {}
  BY <1>1 DEF UpsertIncident, TypeOK, Plan
<1>3. Todo(s) = left[s] \cup Recoverable(s)
  BY DEF UpsertIncident, Todo
<1>4. /\ Plan(s)'
      /\ Todo(s)' \subseteq rest \cup Recoverable(s)
      /\ pc'[s] \notin {"save", "resolve"}
  BY <1>1, <1>2, UpsertNextPlan DEF UpsertIncident
<1>5. Todo(s)' \subseteq Todo(s) /\ f \notin Todo(s)'
  BY <1>2, <1>3, <1>4
<1>6. CASE InsertOpen(s, f, time[s])
  <2>1. NewIncident \in Incident /\ Unused(NewIncident)
    BY <1>6 DEF InsertOpen, NewIncident
  <2>2. Opened(f, time[s]) # NoRow /\ Opened(f, time[s]).fp = f
    BY <1>2, OpenedRow, NoRowAssumption DEF Opened
  <2>3. OneStep(table[NewIncident], Opened(f, time[s]))
    BY <1>2, <2>1 DEF OneStep, Unused
  <2> QED
    BY <1>1, <1>4, <1>5, <1>6, <2>1, <2>2, <2>3, OwnRowsWritten DEF InsertOpen
<1>7. CASE RefreshOpen(s, f, time[s])
  <2>1. PICK i \in OpenRows(s, f) :
          /\ AcceptsObservation(View(s, i), time[s])
          /\ Write(s, i, Refreshed(View(s, i), time[s]))
    BY <1>7 DEF RefreshOpen
  <2>2. i \in Incident /\ View(s, i) = table[i] /\ IsOpenFor(table[i], f)
    BY <1>1, <1>2, <1>3, <2>1, TodoUntouched
  <2> DEFINE r == Refreshed(table[i], time[s])
  <2>3. table[i] \in Row /\ Chronological(table[i]) /\ table[i].status = "OPEN"
    BY <1>1, <2>2, ViewType DEF IsOpenFor, IsOpen
  <2>4. r \in Row
    BY <1>2, <2>1, <2>2, <2>3, RefreshedRow
  <2>5. r # NoRow /\ r.fp = f
    BY <2>2, <2>3, <2>4, NoRowAssumption DEF Refreshed, Row, IsOpenFor
  <2>6. OneStep(table[i], r)
    BY <1>2, <2>1, <2>2 DEF OneStep, IsOpenFor, AcceptsObservation
  <2> HIDE DEF r
  <2>7. Write(s, i, r)
    BY <2>1, <2>2 DEF r
  <2> QED
    BY <1>1, <1>4, <1>5, <2>2, <2>5, <2>6, <2>7, OwnRowsWritten
<1> QED
  BY <1>4, <1>6, <1>7 DEF UpsertIncident

LEMMA SuppressKeeps ==
  ASSUME RefinementInvariant, NEW s \in Session, UpsertSuppressed(s)
  PROVE  OwnRows(s)' /\ Plan(s)'
<1>1. TypeOK /\ StoreTypeOK /\ OwnRows(s) /\ Plan(s)
  BY DEF RefinementInvariant, SessionInvariant, Invariant, TypeOK
<1>2. pc'[s] = "stale"
  BY <1>1 DEF UpsertSuppressed, TypeOK
<1>3. Plan(s)' /\ Todo(s)' = {}
  BY <1>2 DEF Plan, Todo
<1>4. cursor[s] \in Todo(s)
  BY <1>1 DEF UpsertSuppressed, Plan, Todo
<1>5. PICK i \in OpenRows(s, cursor[s]) : Write(s, i, View(s, i))
  BY DEF UpsertSuppressed, SuppressUpsert
<1>6. i \in Incident /\ View(s, i) = table[i] /\ IsOpenFor(table[i], cursor[s])
  BY <1>1, <1>4, TodoUntouched
<1>7. OneStep(table[i], View(s, i)) /\ View(s, i) # NoRow
  BY <1>6 DEF OneStep, IsOpenFor, IsOpen
<1> QED
  BY <1>1, <1>2, <1>3, <1>5, <1>6, <1>7, OwnRowsWritten

LEMMA RecoverKeeps ==
  ASSUME RefinementInvariant, NEW s \in Session, RecoverNothing(s) \/ RecoverFound(s)
  PROVE  OwnRows(s)' /\ Plan(s)'
<1>1. TypeOK /\ OwnRows(s)
  BY DEF RefinementInvariant, SessionInvariant, Invariant
<1>2. Todo(s) = left[s] /\ UNCHANGED storeVars
  BY DEF RecoverNothing, RecoverFound, Todo
<1>3. CASE RecoverNothing(s)
  <2>1. PICK f \in left[s] : /\ left' = [left EXCEPT ![s] = @ \ {f}]
                             /\ pc' = [pc EXCEPT ![s] = RecoverNext(left[s] \ {f})]
    BY <1>3 DEF RecoverNothing
  <2>2. pc'[s] \in {"commit", "recover"} /\ left'[s] \subseteq left[s]
    BY <1>1, <2>1 DEF TypeOK, RecoverNext
  <2>3. Plan(s)' /\ Todo(s)' \subseteq Todo(s)
    BY <1>2, <2>2 DEF Plan, Todo
  <2> QED
    BY <1>1, <1>2, <2>2, <2>3, OwnRowsKept
<1>4. CASE RecoverFound(s)
  <2>1. PICK f \in left[s], i \in Incident :
          /\ i \in OpenRows(s, f)
          /\ left' = [left EXCEPT ![s] = @ \ {f}]
          /\ cursor' = [cursor EXCEPT ![s] = i]
    BY <1>4 DEF RecoverFound, OpenRows
  <2>2. /\ pc'[s] = "resolve" /\ cursor'[s] = i /\ left'[s] = left[s] \ {f}
    BY <1>1, <1>4, <2>1 DEF RecoverFound, TypeOK
  <2>3. IsOpenFor(table[i], f) /\ (owner[i] = s => dirty[i] = table[i])
    BY <1>1, <1>2, <2>1, TodoUntouched
  <2>4. Plan(s)'
    BY <1>2, <2>2, <2>3 DEF Plan, storeVars, IsOpenFor, IsOpen
  <2>5. Todo(s)' = left[s] \ {f}
    BY <2>2 DEF Todo
  <2>6. OwnRows(s)'
    BY <1>1, <1>2, <2>2, <2>3, <2>5 DEF OwnRows, storeVars
  <2> QED
    BY <2>4, <2>6
<1> QED
  BY <1>3, <1>4

LEMMA ResolveKeeps ==
  ASSUME RefinementInvariant, NEW s \in Session,
         ResolveRow(s) \/ ResolveMissed(s) \/ ResolvedByOther(s)
  PROVE  OwnRows(s)' /\ Plan(s)'
<1>1. TypeOK /\ StoreTypeOK /\ StoreInvariant /\ OwnRows(s) /\ Plan(s)
  BY DEF RefinementInvariant, SessionInvariant, Invariant, TypeOK
<1>2. Todo(s) = left[s]
  BY DEF ResolveRow, ResolveMissed, ResolvedByOther, Todo
<1>3. pc'[s] \in {"commit", "recover", "recheck"} /\ left' = left
  BY <1>1 DEF ResolveRow, ResolveMissed, ResolvedByOther, Resolved, RecoverNext, TypeOK
<1>4. Plan(s)' /\ Todo(s)' \subseteq left[s]
  BY <1>3 DEF Plan, Todo
<1>5. CASE ResolveMissed(s) \/ ResolvedByOther(s)
  <2>1. UNCHANGED storeVars
    BY <1>5 DEF ResolveMissed, ResolveNothing, ResolvedByOther
  <2> QED
    BY <1>1, <1>2, <1>3, <1>4, <2>1, OwnRowsKept
<1>6. CASE ResolveRow(s)
  <2> DEFINE i == cursor[s]
             r == ResolvedAt(table[i], time[s])
  <2>1. /\ i \in Incident /\ time[s] \in Time
        /\ owner[i] = s => dirty[i] = table[i]
        /\ table[i] # NoRow /\ table[i].fp \notin left[s]
    BY <1>1, <1>6 DEF ResolveRow, OwnRows, Plan, TypeOK
  <2>2. View(s, i) = table[i]
    BY <2>1 DEF View
  <2>3. AcceptsResolution(table[i], time[s]) /\ Write(s, i, r)
    BY <1>6, <2>2 DEF ResolveRow, ResolveOpen
  <2>4. table[i] \in Row /\ Chronological(table[i])
    BY <1>1, <2>1, <2>2, ViewType
  <2>5. r \in Row
    BY <2>1, <2>3, <2>4, ResolvedRow
  <2>6. r # NoRow /\ r.fp = table[i].fp
    BY <2>4, <2>5, NoRowAssumption DEF ResolvedAt, Row
  <2>7. OneStep(table[i], r)
    BY <2>1, <2>3 DEF OneStep, AcceptsResolution
  <2> HIDE DEF r, i
  <2> QED
    BY <1>1, <1>2, <1>3, <1>4, <2>1, <2>3, <2>6, <2>7, OwnRowsWritten
<1> QED
  BY <1>5, <1>6

-----------------------------------------------------------------------------
(* The invariant. *)

LEMMA RefinementInvariantInit ==
  Init => RefinementInvariant
<1> SUFFICES ASSUME Init PROVE RefinementInvariant
  OBVIOUS
<1>1. SessionInvariant
  BY SessionInvariantInit
<1>2. \A s \in Session : OwnRows(s) /\ Plan(s)
  BY NobodyAssumption DEF Init, StoreInit, OwnRows, Plan
<1> QED
  BY <1>1, <1>2 DEF RefinementInvariant

LEMMA ActorKeeps ==
  ASSUME RefinementInvariant, NEW s \in Session, SessionStep(s),
         Accept(s) \/ Proceed(s) \/ Lost(s)
  PROVE  OwnRows(s)' /\ Plan(s)'
<1>1. TypeOK
  BY DEF RefinementInvariant, SessionInvariant, Invariant
<1>2. EndRequest(s) => pc'[s] = "idle"
  BY <1>1 DEF EndRequest, TypeOK
<1>3. CASE \/ Commit(s) \/ SaveRejected(s) \/ RejectStale(s) \/ RecoverStale(s)
           \/ ResolveRejected(s) \/ DeadlockVictim(s) \/ Lost(s)
  <2>1. EndRequest(s)
    BY <1>3 DEF Commit, SaveRejected, RejectStale, RecoverStale, ResolveRejected,
                DeadlockVictim, Lost, Abort
  <2> QED
    BY <1>2, <2>1, EndKeeps
<1>4. CASE Accept(s)
  BY <1>4, BeginKeeps
<1>5. CASE SaveLatest(s) \/ SaveReplay(s)
  BY <1>5, SaveKeeps
<1>6. CASE UpsertIncident(s) \/ UpsertSuppressed(s)
  BY <1>6, UpsertKeeps, SuppressKeeps
<1>7. CASE RecoverNothing(s) \/ RecoverFound(s)
  BY <1>7, RecoverKeeps
<1>8. CASE ResolveRow(s) \/ ResolveMissed(s) \/ ResolvedByOther(s)
  BY <1>8, ResolveKeeps
<1> QED
  BY <1>3, <1>4, <1>5, <1>6, <1>7, <1>8 DEF Proceed

LEMMA RefinementInvariantNext ==
  RefinementInvariant /\ [Next]_vars => RefinementInvariant'
<1> SUFFICES ASSUME RefinementInvariant, [Next]_vars PROVE RefinementInvariant'
  OBVIOUS
<1>1. Invariant /\ SessionInvariant
  BY DEF RefinementInvariant, SessionInvariant
<1>2. SessionInvariant'
  BY <1>1, SessionInvariantNext
<1>3. CASE \E s \in Session : SessionStep(s) /\ (Accept(s) \/ Proceed(s) \/ Lost(s))
  <2> PICK s \in Session : SessionStep(s) /\ (Accept(s) \/ Proceed(s) \/ Lost(s))
    BY <1>3
  <2>1. OwnRows(s)' /\ Plan(s)'
    BY ActorKeeps
  <2>2. \A q \in Session \ {s} : OwnRows(q)' /\ Plan(q)'
    BY OthersKeep
  <2> QED
    BY <1>2, <2>1, <2>2 DEF RefinementInvariant
<1>4. CASE UNCHANGED <<storeVars, labVars, requestVars>>
  BY <1>2, <1>4 DEF storeVars, requestVars, RefinementInvariant, OwnRows, Plan, Todo, Recoverable
<1>5. UNCHANGED vars => UNCHANGED <<storeVars, labVars, requestVars>>
  BY DEF vars
<1> QED
  BY <1>1, <1>3, <1>4, <1>5, NextIsSessionStep

(* In every reachable state each transaction is at most one lifecycle step *)
(* ahead of the committed version of every row it holds.                   *)
THEOREM RefinementInvariantHolds ==
  Spec => []RefinementInvariant
BY RefinementInvariantInit, RefinementInvariantNext, PTL DEF Spec

-----------------------------------------------------------------------------
(* The refinement. *)

LEMMA InitRefines ==
  Init => Lifecycle!Init
BY DEF Init, StoreInit, Lifecycle!Init

(* One step on a row is one of the lifecycle's actions on it. *)
LEMMA OneStepRefines ==
  ASSUME NEW i \in Incident, OneStep(table[i], table'[i])
  PROVE  \/ table'[i] = table[i]
         \/ Lifecycle!Create(i) \/ Lifecycle!Refresh(i) \/ Lifecycle!Resolve(i)
BY DEF OneStep, Lifecycle!Create, Lifecycle!Refresh, Lifecycle!Resolve,
       Opened, Refreshed, ResolvedAt, IsOpen, Time,
       Lifecycle!Opened, Lifecycle!Refreshed, Lifecycle!ResolvedAt, Lifecycle!IsOpen,
       Lifecycle!Time

LEMMA StoreKeepsOneOpen ==
  StoreInvariant => Lifecycle!OneOpen
BY StoreInvariantOneOpen DEF OneOpenPerFingerprint, IsOpenFor, IsOpen,
   Lifecycle!OneOpen, Lifecycle!IsOpenFor, Lifecycle!IsOpen

LEMMA NextRefines ==
  RefinementInvariant /\ [Next]_vars => [Lifecycle!Next]_table
<1> SUFFICES ASSUME RefinementInvariant, [Next]_vars PROVE Lifecycle!Next \/ table' = table
  BY DEF vars, storeVars
<1>1. Invariant /\ Invariant'
  BY RefinementInvariantNext DEF RefinementInvariant, SessionInvariant
<1>2. Lifecycle!OneOpen'
  <2>1. StoreInvariant'
    BY <1>1 DEF Invariant
  <2> QED
    BY <2>1, StoreKeepsOneOpen, PTL
<1>3. ASSUME NEW s \in Session, SessionStep(s), NEW i \in Incident
      PROVE  OneStep(table[i], table'[i])
  BY <1>3 DEF SessionStep, RefinementInvariant, OwnRows, OneStep
<1>4. CASE \E s \in Session : SessionStep(s)
  BY <1>2, <1>3, <1>4, OneStepRefines DEF Lifecycle!Next
<1>5. CASE UNCHANGED <<storeVars, labVars, requestVars>>
  BY <1>5 DEF storeVars
<1>6. UNCHANGED vars => UNCHANGED <<storeVars, labVars, requestVars>>
  BY DEF vars
<1> QED
  BY <1>1, <1>4, <1>5, <1>6, NextIsSessionStep

(* Seen through committed data, telemetry, collections and operators take  *)
(* incidents through their lifecycle and nothing else: each observation    *)
(* counts once, times never go back, RESOLVED is final, and no fingerprint *)
(* has two OPEN incidents.                                                 *)
THEOREM ServicesFollowLifecycle ==
  Spec => FollowsLifecycle
BY InitRefines, NextRefines, RefinementInvariantHolds, PTL DEF Spec, FollowsLifecycle, Lifecycle!Spec

-----------------------------------------------------------------------------
(***************************************************************************)
(* Theorems about what others see of a request: a collection or a sample   *)
(* becomes visible with all its incidents, the stored state of the lab and *)
(* the incidents agree, and a replay changes nothing.                      *)
(***************************************************************************)

(* A collection past save_latest. *)
Collecting(s) == s \in CollectorSession /\ pc[s] \notin {"idle", "save"}

(* It holds the lab's row; a replay of the stored collection writes no     *)
(* incident.                                                               *)
HoldsLab(s) ==
  /\ Collecting(s) => labOwner = s /\ labDirty = coll[s]
  /\ s \in CollectorSession /\ pc[s] # "idle" => time[s] = coll[s].time
  /\ Collecting(s) /\ coll[s] = lab => pc[s] = "commit"
  /\ pc[s] = "save" \/ (Collecting(s) /\ coll[s] = lab) => \A i \in Incident : owner[i] # s

(* What is left of the loops of a request. *)
Loops(s) ==
  /\ pc[s] \in {"upsert", "stale"} =>
       IF s \in CollectorSession THEN left[s] \subseteq coll[s].down ELSE s \in TelemetrySession
  /\ pc[s] \in {"recover", "resolve", "recheck"} /\ s \in CollectorSession =>
       left[s] \subseteq coll[s].up

(* Whose observation an uncommitted version was last seen by. *)
SeenBy(s) == \A i \in Incident : owner[i] = s =>
  \/ table[i] # NoRow /\ dirty[i].seen = table[i].seen
  \/ s \in TelemetrySession /\ dirty[i].seen = time[s]
  \/ s \in CollectorSession /\ dirty[i].fp \in BgpFingerprint

Recorded(s, f) == \E i \in Incident :
  View(s, i) # NoRow /\ View(s, i).fp = f /\ View(s, i).seen >= time[s]

(* Each neighbor that failed is recorded or still to be upserted. *)
Failures(s) == Collecting(s) /\ coll[s] # lab =>
  \A f \in coll[s].down : Recorded(s, f) \/ (pc[s] \in {"upsert", "stale"} /\ f \in left[s])

ToRecover(s) == IF pc[s] = "commit" THEN {} ELSE left[s]

(* Each neighbor that is up is still to be recovered, or has no OPEN       *)
(* incident but of a sample and the one about to be resolved.              *)
Recoveries(s) ==
  Collecting(s) /\ coll[s] # lab /\ pc[s] \notin {"upsert", "stale"} =>
    \A f \in coll[s].up \ ToRecover(s), i \in Incident :
      IsOpenFor(View(s, i), f) =>
        View(s, i).seen \in samples \/ (pc[s] \in {"resolve", "recheck"} /\ i = cursor[s])

SessionWork(s) == HoldsLab(s) /\ Loops(s) /\ SeenBy(s) /\ Failures(s) /\ Recoveries(s)

CollectionInvariant ==
  /\ RefinementInvariant
  /\ labOwner # Nobody => Collecting(labOwner)
  /\ \A s \in Session : SessionWork(s)
  /\ StoredWhole /\ EstablishedHasNoOpenIncident

-----------------------------------------------------------------------------
(* What a step of one session shows to the others. *)

(* Rows and samples others see only appear by a commit, the lab's row only *)
(* from the session that holds it.                                         *)
VisibleStep(s) ==
  /\ SessionStep(s)
  /\ samples \subseteq samples'
  /\ lab' # lab => labOwner = s
  /\ labOwner \notin {s, Nobody} => labOwner' = labOwner /\ labDirty' = labDirty
  /\ \A i \in Incident : table'[i] # table[i] /\ s \in TelemetrySession => time[s] \in samples'

(* Nothing becomes visible. *)
HiddenStep == UNCHANGED <<table, lab, samples>>

LEMMA HiddenOrCommit ==
  ASSUME NEW s \in Session, Accept(s) \/ Proceed(s) \/ Lost(s)
  PROVE  HiddenStep \/ Commit(s)
<1>1. Accept(s) => HiddenStep
  BY DEF Accept, BeginTelemetry, BeginCollection, BeginResolve, Begin, HiddenStep, storeVars, labVars
<1>2. Abort(s) => HiddenStep
  BY DEF Abort, StoreRollback, HiddenStep
<1>3. CASE \/ SaveRejected(s) \/ RejectStale(s) \/ RecoverStale(s)
           \/ ResolveRejected(s) \/ DeadlockVictim(s) \/ Lost(s)
  BY <1>2, <1>3 DEF SaveRejected, RejectStale, RecoverStale, ResolveRejected, DeadlockVictim, Lost
<1>4. CASE \/ SaveLatest(s) \/ SaveReplay(s) \/ UpsertIncident(s) \/ UpsertSuppressed(s)
           \/ RecoverNothing(s) \/ RecoverFound(s)
           \/ ResolveRow(s) \/ ResolveMissed(s) \/ ResolvedByOther(s)
  BY <1>4 DEF SaveLatest, SaveReplay, UpsertIncident, UpsertSuppressed, RecoverNothing,
              RecoverFound, ResolveRow, ResolveMissed, ResolveNothing, ResolvedByOther, Resolved,
              InsertOpen, RefreshOpen, SuppressUpsert, ResolveOpen, Write,
              HiddenStep, storeVars, labVars
<1> QED BY <1>1, <1>3, <1>4 DEF Proceed

LEMMA NextIsVisibleStep ==
  ASSUME CollectionInvariant, NEW s \in Session, SessionStep(s), Accept(s) \/ Proceed(s) \/ Lost(s)
  PROVE  VisibleStep(s)
<1>1. samples \subseteq samples' /\ (lab' # lab => labOwner = s)
      /\ \A i \in Incident : table'[i] # table[i] /\ s \in TelemetrySession => time[s] \in samples'
  BY HiddenOrCommit DEF HiddenStep, Commit
<1>2. ASSUME labOwner \notin {s, Nobody} PROVE labOwner' = labOwner /\ labDirty' = labDirty
  <2>1. Abort(s) \/ Commit(s) => labOwner' = labOwner /\ labDirty' = labDirty
    BY <1>2 DEF Abort, Commit, ReleaseLab
  <2>2. Accept(s) => labOwner' = labOwner /\ labDirty' = labDirty
    BY DEF Accept, BeginTelemetry, BeginCollection, BeginResolve, Begin, labVars
  <2>3. CASE \/ SaveRejected(s) \/ RejectStale(s) \/ RecoverStale(s)
             \/ ResolveRejected(s) \/ DeadlockVictim(s) \/ Lost(s)
    BY <2>1, <2>3 DEF SaveRejected, RejectStale, RecoverStale, ResolveRejected, DeadlockVictim, Lost
  <2>4. CASE \/ UpsertIncident(s) \/ UpsertSuppressed(s) \/ RecoverNothing(s) \/ RecoverFound(s)
             \/ ResolveRow(s) \/ ResolveMissed(s) \/ ResolvedByOther(s)
    BY <2>4 DEF UpsertIncident, UpsertSuppressed, RecoverNothing, RecoverFound, ResolveRow,
                ResolveMissed, ResolvedByOther, Resolved, labVars
  <2>5. ~SaveLatest(s) /\ ~SaveReplay(s)
    BY <1>2 DEF SaveLatest, SaveReplay
  <2> QED BY <2>1, <2>2, <2>3, <2>4, <2>5 DEF Proceed
<1> QED BY <1>1, <1>2 DEF VisibleStep

-----------------------------------------------------------------------------
(* The other sessions. *)

(* One step keeps fingerprint and order of a row, and an OPEN result comes *)
(* from an OPEN row or is an observation of its own.                       *)
LEMMA OneStepOrder ==
  ASSUME NEW r1 \in Row, NEW r2, OneStep(r1, r2)
  PROVE  /\ r2.fp = r1.fp /\ r2.seen >= r1.seen
         /\ \A f : IsOpenFor(r2, f) => IsOpenFor(r1, f)
<1>1. r1 # NoRow /\ r1.seen \in Time
  BY NoRowAssumption DEF Row
<1>2. CASE r2 = r1
  BY <1>1, <1>2, MaxTimeAssumption DEF Time
<1>3. CASE IsOpen(r1) /\ \E t \in Time : t >= r1.seen /\ r2 = Refreshed(r1, t)
  BY <1>1, <1>3 DEF Refreshed, Row, IsOpenFor, IsOpen
<1>4. CASE IsOpen(r1) /\ \E t \in Time : t >= r1.updated /\ r2 = ResolvedAt(r1, t)
  BY <1>1, <1>4, MaxTimeAssumption DEF ResolvedAt, Row, IsOpenFor, IsOpen, Time
<1> QED BY <1>1, <1>2, <1>3, <1>4 DEF OneStep

(* What a session sees of a row changes by a commit of another only. *)
LEMMA SeenFromOutside ==
  ASSUME CollectionInvariant, NEW s \in Session, VisibleStep(s), NEW q \in Session \ {s},
         NEW i \in Incident
  PROVE  \/ View(q, i)' = View(q, i)
         \/ /\ owner[i] = s /\ View(q, i) = table[i] /\ View(q, i)' = dirty[i]
            /\ s \in TelemetrySession => time[s] \in samples'
<1>1. /\ owner'[i] \in {owner[i], s, Nobody}
      /\ LockedByOther(s, i) => owner'[i] = owner[i] /\ dirty'[i] = dirty[i]
      /\ table'[i] # table[i] => owner[i] = s /\ table'[i] = dirty[i]
  BY DEF VisibleStep, SessionStep
<1>2. CASE owner[i] = q
  BY <1>1, <1>2, NobodyAssumption DEF View, LockedByOther
<1>3. CASE owner[i] # q
  <2>1. owner'[i] # q
    BY <1>1, <1>3, NobodyAssumption
  <2> QED BY <1>1, <1>3, <2>1 DEF View, VisibleStep
<1> QED BY <1>2, <1>3

LEMMA OthersWork ==
  ASSUME CollectionInvariant, NEW s \in Session, VisibleStep(s), NEW q \in Session \ {s}
  PROVE  SessionWork(q)'
<1>1. /\ pc'[q] = pc[q] /\ cursor'[q] = cursor[q] /\ time'[q] = time[q]
      /\ left'[q] = left[q] /\ coll'[q] = coll[q] /\ samples \subseteq samples'
  BY DEF VisibleStep, SessionStep
<1>2. \A i \in Incident : owner'[i] = q =>
        owner[i] = q /\ dirty'[i] = dirty[i] /\ table'[i] = table[i]
  BY NobodyAssumption DEF VisibleStep, SessionStep, LockedByOther
<1>3. Collecting(q) => labOwner = q /\ lab' = lab /\ labOwner' = labOwner /\ labDirty' = labDirty
                       /\ ~Collecting(s)
  BY NobodyAssumption DEF VisibleStep, CollectionInvariant, SessionWork, HoldsLab
<1>4. Collecting(q)' = Collecting(q) /\ ToRecover(q)' = ToRecover(q)
  BY <1>1 DEF Collecting, ToRecover
<1>5. HoldsLab(q)'
  <2>1. HoldsLab(q)
    BY DEF CollectionInvariant, SessionWork
  <2> QED BY <1>1, <1>2, <1>3, <1>4, <2>1 DEF HoldsLab
<1>6. Loops(q)'
  BY <1>1 DEF CollectionInvariant, SessionWork, Loops
<1>7. SeenBy(q)'
  BY <1>1, <1>2 DEF CollectionInvariant, SessionWork, SeenBy
<1>8. ASSUME NEW i \in Incident, View(q, i) # NoRow
      PROVE  /\ View(q, i)' # NoRow /\ View(q, i)'.fp = View(q, i).fp
             /\ View(q, i)'.seen >= View(q, i).seen
  <2>1. View(q, i) \in Row
    BY <1>8, ViewType DEF CollectionInvariant, RefinementInvariant, SessionInvariant, Invariant
  <2>2. CASE View(q, i)' = View(q, i)
    BY <1>8, <2>1, <2>2, MaxTimeAssumption DEF Row, Time
  <2>3. CASE owner[i] = s /\ View(q, i) = table[i] /\ View(q, i)' = dirty[i]
    BY <2>1, <2>3, OneStepOrder DEF CollectionInvariant, RefinementInvariant, OwnRows
  <2> QED BY <2>2, <2>3, SeenFromOutside
<1>9. Failures(q)'
  <2> SUFFICES ASSUME Collecting(q), coll[q] # lab, NEW f \in coll[q].down
               PROVE  Recorded(q, f)' \/ (pc[q] \in {"upsert", "stale"} /\ f \in left[q])
    BY <1>1, <1>3, <1>4 DEF Failures
  <2>1. CASE Recorded(q, f)
    <3>1. PICK i \in Incident : View(q, i) # NoRow /\ View(q, i).fp = f /\ View(q, i).seen >= time[q]
      BY <2>1 DEF Recorded
    <3>2. View(q, i) \in Row /\ time[q] \in Time
      BY <3>1, ViewType DEF CollectionInvariant, RefinementInvariant, SessionInvariant, Invariant, TypeOK
    <3>3. View(q, i)' \in Row
      <4>1. View(q, i)' = View(q, i) \/ View(q, i)' = dirty[i]
        BY SeenFromOutside
      <4>2. dirty[i] \in Row \cup {NoRow}
        BY DEF CollectionInvariant, RefinementInvariant, SessionInvariant, Invariant, TypeOK, StoreTypeOK
      <4> QED BY <1>8, <3>1, <3>2, <4>1, <4>2
    <3>4. View(q, i)' # NoRow /\ View(q, i)'.fp = f /\ View(q, i)'.seen >= time[q]
      BY <1>8, <3>1, <3>2, <3>3, MaxTimeAssumption DEF Row, Time
    <3> QED BY <1>1, <3>4 DEF Recorded
  <2> QED BY <2>1 DEF CollectionInvariant, SessionWork, Failures
<1>10. Recoveries(q)'
  <2> SUFFICES ASSUME Collecting(q), coll[q] # lab, pc[q] \notin {"upsert", "stale"},
                      NEW f \in coll[q].up \ ToRecover(q), NEW i \in Incident,
                      IsOpenFor(View(q, i)', f)
               PROVE  View(q, i)'.seen \in samples' \/ (pc[q] \in {"resolve", "recheck"} /\ i = cursor[q])
    BY <1>1, <1>3, <1>4 DEF Recoveries
  <2>1. IsOpenFor(View(q, i), f) =>
          View(q, i).seen \in samples \/ (pc[q] \in {"resolve", "recheck"} /\ i = cursor[q])
    BY DEF CollectionInvariant, SessionWork, Recoveries
  <2>2. CASE View(q, i)' = View(q, i)
    BY <1>1, <2>1, <2>2
  <2>3. CASE /\ owner[i] = s /\ View(q, i) = table[i] /\ View(q, i)' = dirty[i]
             /\ s \in TelemetrySession => time[s] \in samples'
    <3>1. s \notin CollectorSession \/ pc[s] \in {"idle", "save"}
      BY <1>3 DEF Collecting
    <3>2. s \notin CollectorSession
      BY <2>3, <3>1, NobodyAssumption DEF CollectionInvariant, SessionWork, HoldsLab,
           RefinementInvariant, SessionInvariant, IdleHoldsNothing
    <3>3. \/ table[i] # NoRow /\ dirty[i].seen = table[i].seen
          \/ dirty[i].seen \in samples'
      BY <2>3, <3>2 DEF CollectionInvariant, SessionWork, SeenBy
    <3>4. table[i] # NoRow => IsOpenFor(table[i], f)
      <4>1. OneStep(table[i], dirty[i]) /\ table[i] \in Row \cup {NoRow}
        BY <2>3 DEF CollectionInvariant, RefinementInvariant, OwnRows, SessionInvariant, Invariant,
                    TypeOK, StoreTypeOK
      <4> QED BY <2>3, <4>1, OneStepOrder
    <3> QED BY <1>1, <2>1, <2>3, <3>3, <3>4
  <2> QED BY <2>2, <2>3, SeenFromOutside
<1> QED BY <1>5, <1>6, <1>7, <1>9, <1>10 DEF SessionWork

-----------------------------------------------------------------------------
(* The session itself: where its request begins and ends. *)

LEMMA EndedWork ==
  ASSUME NEW s \in Session, SessionStep(s), pc'[s] = "idle"
  PROVE  SessionWork(s)'
BY DEF SessionStep, SessionWork, HoldsLab, Loops, SeenBy, Failures, Recoveries, Collecting

LEMMA BegunWork ==
  ASSUME CollectionInvariant, NEW s \in Session, Accept(s)
  PROVE  SessionWork(s)'
<1>1. TypeOK /\ IdleHoldsNothing
  BY DEF CollectionInvariant, RefinementInvariant, SessionInvariant, Invariant
<1>2. pc[s] = "idle" /\ UNCHANGED storeVars
  BY DEF Accept, BeginTelemetry, BeginCollection, BeginResolve, Begin
<1>3. \A i \in Incident : owner'[i] # s
  BY <1>1, <1>2, NobodyAssumption DEF IdleHoldsNothing, storeVars
<1>4. CASE s \notin CollectorSession
  <2>1. \/ pc'[s] \in {"commit", "upsert"} /\ s \in TelemetrySession
        \/ pc'[s] = "resolve"
    BY <1>1, <1>4 DEF Accept, BeginTelemetry, BeginCollection, BeginResolve, Begin, TypeOK
  <2> QED BY <1>3, <1>4, <2>1 DEF SessionWork, HoldsLab, Loops, SeenBy, Failures, Recoveries, Collecting
<1>5. CASE s \in CollectorSession
  <2>1. BeginCollection(s)
    BY <1>5, SessionAssumption DEF Accept, BeginTelemetry, BeginResolve
  <2>2. pc'[s] = "save" /\ time'[s] = coll'[s].time
    BY <1>1, <2>1 DEF BeginCollection, Begin, TypeOK
  <2> QED BY <1>3, <1>5, <2>2 DEF SessionWork, HoldsLab, Loops, SeenBy, Failures, Recoveries, Collecting
<1> QED BY <1>4, <1>5

-----------------------------------------------------------------------------
(* Its statements. *)

Statement(s) ==
  \/ SaveLatest(s) \/ SaveReplay(s) \/ UpsertIncident(s) \/ UpsertSuppressed(s)
  \/ RecoverNothing(s) \/ RecoverFound(s)
  \/ ResolveRow(s) \/ ResolveMissed(s) \/ ResolvedByOther(s)

LEMMA StatementFrame ==
  ASSUME NEW s \in Session, Statement(s)
  PROVE  /\ UNCHANGED <<table, samples, lab, time, coll>>
         /\ ~SaveLatest(s) /\ ~SaveReplay(s) => labOwner' = labOwner /\ labDirty' = labDirty
<1>1. CASE SaveLatest(s) \/ SaveReplay(s)
  BY <1>1 DEF SaveLatest, SaveReplay, storeVars
<1>2. CASE UpsertIncident(s) \/ UpsertSuppressed(s)
  BY <1>2 DEF UpsertIncident, UpsertSuppressed, InsertOpen, RefreshOpen, SuppressUpsert, Write, labVars
<1>3. CASE RecoverNothing(s) \/ RecoverFound(s)
  BY <1>3 DEF RecoverNothing, RecoverFound, storeVars, labVars
<1>4. CASE ResolveRow(s) \/ ResolveMissed(s) \/ ResolvedByOther(s)
  BY <1>4 DEF ResolveRow, ResolveMissed, ResolvedByOther, Resolved, ResolveOpen, ResolveNothing,
              Write, storeVars, labVars
<1> QED BY <1>1, <1>2, <1>3, <1>4 DEF Statement

(* The loop over failures is over or goes on; the next loop has all that   *)
(* is up before it.                                                        *)
LEMMA NextLoop ==
  ASSUME TypeOK, NEW s \in Session, NEW fps, UpsertNext(s, fps), coll' = coll,
         \/ s \in CollectorSession /\ coll[s] \in Collection /\ fps \subseteq coll[s].down
         \/ s \in TelemetrySession /\ s \notin CollectorSession
  PROVE  /\ Loops(s)'
         /\ \/ pc'[s] = "upsert" /\ left'[s] = fps
            \/ pc'[s] \in {"recover", "commit"} /\ fps = {}
         /\ s \in CollectorSession /\ pc'[s] # "upsert" => coll[s].up \subseteq ToRecover(s)'
<1>1. CASE /\ left' = [left EXCEPT ![s] = fps]
           /\ pc' = [pc EXCEPT ![s] = "upsert"]
  <2>1. left'[s] = fps /\ pc'[s] = "upsert"
    BY <1>1 DEF TypeOK
  <2> QED BY <2>1 DEF Loops
<1>2. CASE /\ fps = {}
           /\ left' = [left EXCEPT ![s] = Recoverable(s)]
           /\ pc' = [pc EXCEPT ![s] = RecoverNext(Recoverable(s))]
  <2>1. left'[s] = Recoverable(s) /\ pc'[s] = RecoverNext(Recoverable(s))
    BY <1>2 DEF TypeOK
  <2>2. s \in CollectorSession => Recoverable(s) = coll[s].up
    BY DEF Recoverable, Collection
  <2> QED BY <1>2, <2>1, <2>2 DEF Loops, RecoverNext, ToRecover
<1> QED BY <1>1, <1>2 DEF UpsertNext

LEMMA SaveWork ==
  ASSUME CollectionInvariant, NEW s \in Session, SaveLatest(s) \/ SaveReplay(s)
  PROVE  SessionWork(s)'
<1>1. TypeOK /\ SessionWork(s)
  BY DEF CollectionInvariant, RefinementInvariant, SessionInvariant, Invariant
<1>2. pc[s] = "save" /\ s \in CollectorSession /\ coll[s] \in Collection
  BY <1>1 DEF SaveLatest, SaveReplay, TypeOK
<1>3. \A i \in Incident : owner'[i] # s
  BY <1>1, <1>2 DEF SaveLatest, SaveReplay, SessionWork, HoldsLab, storeVars
<1>4. UNCHANGED <<lab, time, coll>> /\ labOwner' = s /\ time[s] = coll[s].time
  BY <1>1, <1>2 DEF SaveLatest, SaveReplay, SessionWork, HoldsLab
<1>5. SeenBy(s)'
  BY <1>3 DEF SeenBy
<1>6. CASE SaveReplay(s)
  <2>1. pc'[s] = "commit" /\ labDirty' = coll[s] /\ coll[s] = lab
    BY <1>1, <1>6 DEF SaveReplay, IsReplay, TypeOK
  <2> QED BY <1>3, <1>4, <1>5, <2>1 DEF SessionWork, HoldsLab, Loops, Failures, Recoveries, Collecting
<1>7. CASE SaveLatest(s)
  <2>1. coll[s] # lab /\ labDirty' = coll[s] /\ UpsertNext(s, coll[s].down)
    BY <1>2, <1>7, NoStateAssumption DEF SaveLatest, Supersedes
  <2>2. /\ Loops(s)'
        /\ \/ pc'[s] = "upsert" /\ left'[s] = coll[s].down
           \/ pc'[s] \in {"recover", "commit"} /\ coll[s].down = {}
        /\ pc'[s] # "upsert" => coll[s].up \subseteq ToRecover(s)'
    <3>1. coll' = coll
      BY <1>4
    <3> DEFINE fps == coll[s].down
    <3> HIDE DEF fps
    <3>2. fps \subseteq coll[s].down /\ UpsertNext(s, fps)
      BY <2>1 DEF fps
    <3>3. /\ Loops(s)'
          /\ \/ pc'[s] = "upsert" /\ left'[s] = fps
             \/ pc'[s] \in {"recover", "commit"} /\ fps = {}
          /\ s \in CollectorSession /\ pc'[s] # "upsert" => coll[s].up \subseteq ToRecover(s)'
      BY <1>1, <1>2, <3>1, <3>2, NextLoop
    <3> QED BY <1>2, <3>3 DEF fps
  <2>3. HoldsLab(s)'
    BY <1>3, <1>4, <2>1, <2>2 DEF HoldsLab, Collecting
  <2>4. Failures(s)' /\ Recoveries(s)'
    BY <1>4, <2>2 DEF Failures, Recoveries
  <2> QED BY <1>5, <2>2, <2>3, <2>4 DEF SessionWork
<1> QED BY <1>6, <1>7

(* A row that a session writes, and what it sees of all others.            *)
LEMMA WrittenView ==
  ASSUME StoreTypeOK, NEW s \in Session, NEW i \in Incident, NEW r, Write(s, i, r)
  PROVE  /\ View(s, i)' = r /\ dirty'[i] = r
         /\ \A j \in Incident \ {i} : /\ View(s, j)' = View(s, j)
                                      /\ owner'[j] = owner[j] /\ dirty'[j] = dirty[j]
BY DEF Write, View, StoreTypeOK

(* The lab's row stays with a collection through its loops. *)
LEMMA KeepsLab ==
  ASSUME CollectionInvariant, NEW s \in Session, Statement(s),
         pc[s] \in {"upsert", "recover", "resolve", "recheck"},
         pc'[s] \notin {"idle", "save"}
  PROVE  HoldsLab(s)'
<1>1. HoldsLab(s)
  BY DEF CollectionInvariant, SessionWork
<1>2. UNCHANGED <<lab, time, coll>> /\ labOwner' = labOwner /\ labDirty' = labDirty
  BY StatementFrame DEF SaveLatest, SaveReplay
<1> QED BY <1>1, <1>2 DEF HoldsLab, Collecting

LEMMA UpsertedRow ==
  ASSUME CollectionInvariant, NEW s \in Session, UpsertIncident(s)
  PROVE  \E i \in Incident, r \in Row :
           /\ Write(s, i, r) /\ r.fp = cursor[s] /\ r.seen = time[s]
           /\ View(s, i) = NoRow \/ View(s, i).fp = cursor[s]
<1> DEFINE f == cursor[s]
           t == time[s]
<1>1. TypeOK /\ StoreTypeOK /\ StoreInvariant
  BY DEF CollectionInvariant, RefinementInvariant, SessionInvariant, Invariant, TypeOK
<1>2. f \in Fingerprint /\ t \in Time
  BY <1>1 DEF UpsertIncident, TypeOK
<1>3. CASE InsertOpen(s, f, t)
  <2>1. NewIncident \in Incident /\ Unused(NewIncident)
    BY <1>3 DEF InsertOpen, NewIncident
  <2>2. View(s, NewIncident) = NoRow
    BY <2>1, NobodyAssumption DEF View, Unused
  <2>3. Opened(f, t) \in Row /\ Opened(f, t).fp = f /\ Opened(f, t).seen = t
    BY <1>2, OpenedRow DEF Opened
  <2> QED BY <1>3, <2>1, <2>2, <2>3 DEF InsertOpen
<1>4. CASE RefreshOpen(s, f, t)
  <2>1. PICK i \in OpenRows(s, f) :
          AcceptsObservation(View(s, i), t) /\ Write(s, i, Refreshed(View(s, i), t))
    BY <1>4 DEF RefreshOpen
  <2>2. i \in Incident /\ IsOpenFor(View(s, i), f)
    BY DEF OpenRows
  <2>3. View(s, i) \in Row /\ Chronological(View(s, i)) /\ View(s, i).fp = f
    BY <1>1, <2>2, ViewType DEF IsOpenFor, IsOpen
  <2>4. Refreshed(View(s, i), t) \in Row
    BY <1>2, <2>1, <2>2, <2>3, RefreshedRow DEF IsOpenFor, IsOpen
  <2>5. Refreshed(View(s, i), t).fp = f /\ Refreshed(View(s, i), t).seen = t
    BY <1>2, <2>3 DEF Refreshed, Row
  <2> QED BY <2>1, <2>2, <2>3, <2>4, <2>5
<1> QED BY <1>3, <1>4 DEF UpsertIncident

LEMMA UpsertWork ==
  ASSUME CollectionInvariant, NEW s \in Session, UpsertIncident(s)
  PROVE  SessionWork(s)'
<1> DEFINE f == cursor[s]
           rest == left[s] \ {f}
<1>1. TypeOK /\ StoreTypeOK /\ SessionWork(s) /\ Plan(s)
  BY DEF CollectionInvariant, RefinementInvariant, SessionInvariant, Invariant, TypeOK
<1>2. /\ pc[s] = "upsert" /\ f \in left[s] /\ time[s] \in Time
      /\ UNCHANGED <<table, samples, lab, time, coll>>
  BY <1>1, StatementFrame DEF UpsertIncident, Plan, TypeOK, Statement
<1>3. \/ s \in CollectorSession /\ coll[s] \in Collection /\ left[s] \subseteq coll[s].down
      \/ s \in TelemetrySession /\ s \notin CollectorSession
  BY <1>1, <1>2, SessionAssumption DEF SessionWork, Loops, TypeOK
<1>4. /\ Loops(s)'
      /\ \/ pc'[s] = "upsert" /\ left'[s] = rest
         \/ pc'[s] \in {"recover", "commit"} /\ rest = {}
      /\ s \in CollectorSession /\ pc'[s] # "upsert" => coll[s].up \subseteq ToRecover(s)'
  <2>1. UpsertNext(s, rest)
    BY DEF UpsertIncident
  <2> HIDE DEF rest
  <2>2. rest \subseteq left[s]
    BY DEF rest
  <2>3. coll' = coll
    BY <1>2
  <2>4. \/ s \in CollectorSession /\ coll[s] \in Collection /\ rest \subseteq coll[s].down
        \/ s \in TelemetrySession /\ s \notin CollectorSession
    BY <1>3, <2>2
  <2> QED BY <1>1, <2>1, <2>3, <2>4, NextLoop
<1>5. HoldsLab(s)'
  BY <1>2, <1>4, KeepsLab DEF Statement
<1>6. PICK i \in Incident, r \in Row :
        /\ Write(s, i, r) /\ r.fp = f /\ r.seen = time[s]
        /\ View(s, i) = NoRow \/ View(s, i).fp = f
  BY UpsertedRow
<1>7. /\ View(s, i)' = r /\ dirty'[i] = r
      /\ \A j \in Incident \ {i} : /\ View(s, j)' = View(s, j)
                                   /\ owner'[j] = owner[j] /\ dirty'[j] = dirty[j]
  BY <1>1, <1>6, WrittenView
<1>8. SeenBy(s)'
  <2> SUFFICES ASSUME NEW j \in Incident, owner'[j] = s
               PROVE  \/ table[j] # NoRow /\ dirty'[j].seen = table[j].seen
                      \/ s \in TelemetrySession /\ dirty'[j].seen = time[s]
                      \/ s \in CollectorSession /\ dirty'[j].fp \in BgpFingerprint
    BY <1>2 DEF SeenBy
  <2>1. CASE j = i
    BY <1>2, <1>3, <1>6, <1>7, <2>1 DEF Collection
  <2>2. CASE j # i
    BY <1>1, <1>7, <2>2 DEF SessionWork, SeenBy
  <2> QED BY <2>1, <2>2
<1>9. Failures(s)'
  <2> SUFFICES ASSUME Collecting(s)', coll[s] # lab, NEW g \in coll[s].down
               PROVE  Recorded(s, g)' \/ (pc'[s] \in {"upsert", "stale"} /\ g \in left'[s])
    BY <1>2 DEF Failures
  <2>1. Recorded(s, g) \/ g \in left[s]
    BY <1>1, <1>2 DEF SessionWork, Failures, Collecting
  <2>2. CASE g = f
    <3>1. View(s, i)' # NoRow /\ View(s, i)'.fp = g /\ View(s, i)'.seen >= time'[s]
      BY <1>2, <1>6, <1>7, <2>2, NoRowAssumption, MaxTimeAssumption DEF Time
    <3> QED BY <3>1 DEF Recorded
  <2>3. CASE g # f /\ Recorded(s, g)
    <3>1. PICK j \in Incident : View(s, j) # NoRow /\ View(s, j).fp = g /\ View(s, j).seen >= time[s]
      BY <2>3 DEF Recorded
    <3>2. View(s, j)' = View(s, j)
      BY <1>6, <1>7, <2>3, <3>1
    <3> QED BY <1>2, <3>1, <3>2 DEF Recorded
  <2>4. CASE g # f /\ g \in left[s]
    BY <1>4, <2>4
  <2> QED BY <2>1, <2>2, <2>3, <2>4
<1>10. Recoveries(s)'
  BY <1>2, <1>4 DEF Recoveries, Collecting
<1> QED BY <1>4, <1>5, <1>8, <1>9, <1>10 DEF SessionWork

LEMMA SuppressWork ==
  ASSUME CollectionInvariant, NEW s \in Session, UpsertSuppressed(s)
  PROVE  SessionWork(s)'
<1>1. TypeOK /\ StoreTypeOK /\ SessionWork(s) /\ OwnRows(s) /\ Plan(s)
  BY DEF CollectionInvariant, RefinementInvariant, SessionInvariant, Invariant, TypeOK
<1>2. /\ pc[s] = "upsert" /\ pc'[s] = "stale" /\ left' = left
      /\ UNCHANGED <<table, samples, lab, time, coll>>
  BY <1>1, StatementFrame DEF UpsertSuppressed, TypeOK, Statement
<1>3. cursor[s] \in Todo(s)
  BY <1>1, <1>2 DEF Plan, Todo
<1>4. PICK i \in OpenRows(s, cursor[s]) : Write(s, i, View(s, i))
  BY DEF UpsertSuppressed, SuppressUpsert
<1>5. i \in Incident /\ View(s, i) = table[i] /\ table[i] # NoRow
  BY <1>1, <1>3, TodoUntouched DEF IsOpenFor, IsOpen
<1>6. \A j \in Incident : View(s, j)' = View(s, j)
  BY <1>1, <1>4, <1>5, WrittenView
<1>7. HoldsLab(s)'
  BY <1>2, KeepsLab DEF Statement
<1>8. Loops(s)'
  BY <1>1, <1>2 DEF SessionWork, Loops
<1>9. SeenBy(s)'
  BY <1>1, <1>2, <1>4, <1>5, WrittenView DEF SessionWork, SeenBy
<1>10. Failures(s)' /\ Recoveries(s)'
  BY <1>1, <1>2, <1>6 DEF SessionWork, Failures, Recoveries, Recorded, Collecting
<1> QED BY <1>7, <1>8, <1>9, <1>10 DEF SessionWork

(* Of one fingerprint a session sees at most one row OPEN. *)
LEMMA OneOpenSeen ==
  ASSUME StoreInvariant, NEW s \in Session, NEW f \in Fingerprint,
         NEW i \in OpenRows(s, f), NEW j \in OpenRows(s, f)
  PROVE  i = j
<1>1. i \in Incident /\ j \in Incident /\ MaybeOpen(i, f) /\ MaybeOpen(j, f)
  BY DEF OpenRows, View, MaybeOpen
<1>2. IsOpenFor(View(s, i), f) /\ IsOpenFor(View(s, j), f)
  BY DEF OpenRows
<1> QED BY <1>1, <1>2 DEF StoreInvariant, OpenRowsExclusive, View

(* The statements of the recovery that write nothing. *)
LEMMA LookedUp ==
  ASSUME CollectionInvariant, NEW s \in Session, Statement(s), UNCHANGED storeVars,
         pc[s] \in {"recover", "resolve", "recheck"},
         pc'[s] \in {"recover", "resolve", "recheck", "commit"},
         left'[s] \subseteq left[s]
  PROVE  /\ HoldsLab(s)' /\ Loops(s)' /\ SeenBy(s)' /\ Failures(s)'
         /\ \A i \in Incident : View(s, i)' = View(s, i)
<1>1. SessionWork(s) /\ UNCHANGED <<table, samples, lab, time, coll>>
  BY StatementFrame DEF CollectionInvariant
<1>2. HoldsLab(s)'
  BY KeepsLab
<1>3. Loops(s)' /\ SeenBy(s)'
  BY <1>1 DEF SessionWork, Loops, SeenBy, storeVars
<1>4. \A i \in Incident : View(s, i)' = View(s, i)
  BY DEF View, storeVars
<1>5. Failures(s)'
  BY <1>1, <1>4 DEF SessionWork, Failures, Recorded, Collecting
<1> QED BY <1>2, <1>3, <1>4, <1>5

LEMMA RecoverWork ==
  ASSUME CollectionInvariant, NEW s \in Session, RecoverNothing(s) \/ RecoverFound(s)
  PROVE  SessionWork(s)'
<1>1. TypeOK /\ StoreInvariant /\ SessionWork(s)
  BY DEF CollectionInvariant, RefinementInvariant, SessionInvariant, Invariant
<1>2. /\ pc[s] = "recover" /\ UNCHANGED storeVars
      /\ UNCHANGED <<table, samples, lab, time, coll>>
  BY StatementFrame DEF RecoverNothing, RecoverFound, Statement
<1>3. PICK f \in left[s] :
        /\ left' = [left EXCEPT ![s] = @ \ {f}]
        /\ \/ OpenRows(s, f) = {} /\ pc' = [pc EXCEPT ![s] = RecoverNext(left[s] \ {f})]
           \/ /\ pc' = [pc EXCEPT ![s] = "resolve"]
              /\ \E i \in OpenRows(s, f) : cursor' = [cursor EXCEPT ![s] = i]
  BY DEF RecoverNothing, RecoverFound
<1>4. /\ left'[s] = left[s] \ {f} /\ f \in Fingerprint
      /\ \/ OpenRows(s, f) = {} /\ pc'[s] = RecoverNext(left'[s])
         \/ pc'[s] = "resolve" /\ cursor'[s] \in OpenRows(s, f)
  BY <1>1, <1>3 DEF TypeOK
<1>5. /\ pc'[s] \in {"recover", "resolve", "recheck", "commit"}
      /\ ToRecover(s)' = left[s] \ {f}
  BY <1>4 DEF RecoverNext, ToRecover
<1>6. /\ HoldsLab(s)' /\ Loops(s)' /\ SeenBy(s)' /\ Failures(s)'
      /\ \A i \in Incident : View(s, i)' = View(s, i)
  BY <1>2, <1>4, <1>5, LookedUp DEF Statement
<1>7. Recoveries(s)'
  <2> SUFFICES ASSUME Collecting(s), coll[s] # lab,
                      NEW g \in coll[s].up \ (left[s] \ {f}), NEW i \in Incident,
                      IsOpenFor(View(s, i), g)
               PROVE  View(s, i).seen \in samples \/ (pc'[s] = "resolve" /\ i = cursor'[s])
    BY <1>2, <1>5, <1>6 DEF Recoveries, Collecting
  <2>1. CASE g = f
    <3>1. i \in OpenRows(s, f)
      BY <2>1 DEF OpenRows
    <3> QED BY <1>1, <1>4, <3>1, OneOpenSeen
  <2>2. CASE g # f
    BY <1>1, <1>2, <2>2 DEF SessionWork, Recoveries, ToRecover
  <2> QED BY <2>1, <2>2
<1> QED BY <1>6, <1>7 DEF SessionWork

LEMMA ResolveWork ==
  ASSUME CollectionInvariant, NEW s \in Session,
         ResolveRow(s) \/ ResolveMissed(s) \/ ResolvedByOther(s)
  PROVE  SessionWork(s)'
<1>1. TypeOK /\ StoreTypeOK /\ StoreInvariant /\ SessionWork(s) /\ OwnRows(s)
  BY DEF CollectionInvariant, RefinementInvariant, SessionInvariant, Invariant, TypeOK
<1>2. /\ pc[s] \in {"resolve", "recheck"} /\ cursor[s] \in Incident /\ time[s] \in Time
      /\ left' = left /\ cursor' = cursor /\ UNCHANGED <<table, samples, lab, time, coll>>
  BY <1>1, StatementFrame DEF ResolveRow, ResolveMissed, ResolvedByOther, Resolved, Statement, TypeOK
<1>3. /\ ResolveMissed(s) => pc'[s] = "recheck"
      /\ ResolveRow(s) \/ ResolvedByOther(s) => pc'[s] = RecoverNext(left[s])
  BY <1>1 DEF ResolveRow, ResolveMissed, ResolvedByOther, Resolved, TypeOK
<1>4. /\ pc'[s] \in {"recover", "recheck", "commit"}
      /\ ToRecover(s)' = left[s] /\ ToRecover(s) = left[s]
  BY <1>2, <1>3 DEF RecoverNext, ToRecover
<1>5. CASE ResolveMissed(s) \/ ResolvedByOther(s)
  <2>1. UNCHANGED storeVars
    BY <1>5 DEF ResolveMissed, ResolveNothing, ResolvedByOther
  <2>2. /\ HoldsLab(s)' /\ Loops(s)' /\ SeenBy(s)' /\ Failures(s)'
        /\ \A i \in Incident : View(s, i)' = View(s, i)
    BY <1>2, <1>4, <1>5, <2>1, LookedUp DEF Statement
  <2>3. pc'[s] = "recheck" \/ \A f : ~IsOpenFor(View(s, cursor[s]), f)
    BY <1>3, <1>5 DEF ResolvedByOther, IsOpenFor, IsOpen
  <2>4. Recoveries(s)'
    <3> SUFFICES ASSUME Collecting(s), coll[s] # lab, NEW f \in coll[s].up \ left[s],
                        NEW i \in Incident, IsOpenFor(View(s, i), f)
                 PROVE  View(s, i).seen \in samples \/ (pc'[s] = "recheck" /\ i = cursor[s])
      BY <1>2, <1>4, <2>2 DEF Recoveries, Collecting
    <3>1. View(s, i).seen \in samples \/ i = cursor[s]
      BY <1>1, <1>2, <1>4 DEF SessionWork, Recoveries
    <3> QED BY <2>3, <3>1
  <2> QED BY <2>2, <2>4 DEF SessionWork
<1>6. CASE ResolveRow(s)
  <2> DEFINE i == cursor[s]
             r == ResolvedAt(table[i], time[s])
  <2>1. View(s, i) = table[i] /\ table[i] # NoRow /\ table[i] \in Row
    BY <1>1, <1>2, <1>6 DEF ResolveRow, OwnRows, View, ResolveOpen, AcceptsResolution, IsOpen, StoreTypeOK
  <2>2. Write(s, i, r)
    BY <1>6, <2>1 DEF ResolveRow, ResolveOpen
  <2>3. /\ r.fp = table[i].fp /\ r.seen = table[i].seen
        /\ \A f : ~IsOpenFor(r, f)
    BY <2>1 DEF ResolvedAt, Row, IsOpenFor, IsOpen
  <2>4. r # NoRow
    BY <1>2, <1>6, <2>1, ResolvedRow, NoRowAssumption, ViewType, <1>1 DEF ResolveRow, ResolveOpen
  <2> HIDE DEF r
  <2>5. /\ View(s, i)' = r /\ dirty'[i] = r
        /\ \A j \in Incident \ {i} : /\ View(s, j)' = View(s, j)
                                     /\ owner'[j] = owner[j] /\ dirty'[j] = dirty[j]
    BY <1>1, <1>2, <2>2, WrittenView
  <2>6. HoldsLab(s)'
    BY <1>2, <1>4, <1>6, KeepsLab DEF Statement
  <2>7. Loops(s)'
    BY <1>1, <1>2, <1>4 DEF SessionWork, Loops
  <2>8. SeenBy(s)'
    <3> SUFFICES ASSUME NEW j \in Incident, owner'[j] = s
                 PROVE  \/ table[j] # NoRow /\ dirty'[j].seen = table[j].seen
                        \/ s \in TelemetrySession /\ dirty'[j].seen = time[s]
                        \/ s \in CollectorSession /\ dirty'[j].fp \in BgpFingerprint
      BY <1>2 DEF SeenBy
    <3>1. CASE j = i
      BY <2>1, <2>3, <2>5, <3>1
    <3>2. CASE j # i
      BY <1>1, <2>5, <3>2 DEF SessionWork, SeenBy
    <3> QED BY <3>1, <3>2
  <2>9. Failures(s)'
    <3> SUFFICES ASSUME Collecting(s), coll[s] # lab, NEW f \in coll[s].down
                 PROVE  Recorded(s, f)'
      BY <1>2 DEF Failures, Collecting
    <3>1. PICK j \in Incident : View(s, j) # NoRow /\ View(s, j).fp = f /\ View(s, j).seen >= time[s]
      BY <1>1, <1>2 DEF SessionWork, Failures, Recorded
    <3>2. View(s, j)' # NoRow /\ View(s, j)'.fp = f /\ View(s, j)'.seen >= time'[s]
      <4>1. CASE j = i
        BY <1>2, <2>1, <2>3, <2>4, <2>5, <3>1, <4>1
      <4>2. CASE j # i
        BY <1>2, <2>5, <3>1, <4>2
      <4> QED BY <4>1, <4>2
    <3> QED BY <3>2 DEF Recorded
  <2>10. Recoveries(s)'
    <3> SUFFICES ASSUME Collecting(s), coll[s] # lab, NEW f \in coll[s].up \ left[s],
                        NEW j \in Incident, IsOpenFor(View(s, j)', f)
                 PROVE  View(s, j)'.seen \in samples
      BY <1>2, <1>4 DEF Recoveries, Collecting
    <3>1. j # i
      BY <1>2, <2>3, <2>5
    <3>2. View(s, j)' = View(s, j)
      BY <2>5, <3>1
    <3>3. f \in coll[s].up \ ToRecover(s) /\ IsOpenFor(View(s, j), f)
      BY <1>4, <3>2
    <3>4. View(s, j).seen \in samples \/ j = cursor[s]
      BY <1>1, <1>2, <3>3 DEF SessionWork, Recoveries
    <3> QED BY <3>1, <3>2, <3>4
  <2> QED BY <2>6, <2>7, <2>8, <2>9, <2>10 DEF SessionWork
<1> QED BY <1>5, <1>6

LEMMA OwnWork ==
  ASSUME CollectionInvariant, NEW s \in Session, SessionStep(s), Accept(s) \/ Proceed(s) \/ Lost(s)
  PROVE  SessionWork(s)'
<1>1. TypeOK
  BY DEF CollectionInvariant, RefinementInvariant, SessionInvariant, Invariant
<1>2. EndRequest(s) => pc'[s] = "idle"
  BY <1>1 DEF EndRequest, TypeOK
<1>3. CASE \/ Commit(s) \/ SaveRejected(s) \/ RejectStale(s) \/ RecoverStale(s)
           \/ ResolveRejected(s) \/ DeadlockVictim(s) \/ Lost(s)
  <2>1. EndRequest(s)
    BY <1>3 DEF Commit, SaveRejected, RejectStale, RecoverStale, ResolveRejected,
                DeadlockVictim, Lost, Abort
  <2> QED BY <1>2, <2>1, EndedWork
<1>4. CASE Accept(s) \/ SaveLatest(s) \/ SaveReplay(s)
  BY <1>4, BegunWork, SaveWork
<1>5. CASE UpsertIncident(s) \/ UpsertSuppressed(s)
  BY <1>5, UpsertWork, SuppressWork
<1>6. CASE RecoverNothing(s) \/ RecoverFound(s) \/ ResolveRow(s) \/ ResolveMissed(s) \/ ResolvedByOther(s)
  BY <1>6, RecoverWork, ResolveWork
<1> QED BY <1>3, <1>4, <1>5, <1>6 DEF Proceed

(* Only a collection holds the lab's row. *)
LEMMA LabHolder ==
  ASSUME CollectionInvariant, NEW s \in Session, SessionStep(s),
         Accept(s) \/ Proceed(s) \/ Lost(s)
  PROVE  (labOwner # Nobody => Collecting(labOwner))'
<1> SUFFICES ASSUME labOwner' # Nobody
             PROVE  labOwner' \in CollectorSession /\ pc'[labOwner'] \notin {"idle", "save"}
  BY DEF Collecting
<1>1. TypeOK /\ IdleHoldsNothing
  BY DEF CollectionInvariant, RefinementInvariant, SessionInvariant, Invariant
<1>2. CASE labOwner' # s
  <2>1. labOwner' = labOwner /\ labOwner \in Session \ {s}
    BY <1>1, <1>2 DEF SessionStep, TypeOK
  <2>2. Collecting(labOwner) /\ pc'[labOwner] = pc[labOwner]
    BY <2>1, NobodyAssumption DEF SessionStep, CollectionInvariant
  <2> QED BY <2>1, <2>2 DEF Collecting
<1>3. CASE labOwner' = s
  <2>1. pc'[s] # "idle"
    BY <1>3 DEF SessionStep
  <2>2. ~EndRequest(s)
    BY <1>1, <2>1 DEF EndRequest, TypeOK
  <2>3. ~Accept(s)
    <3>1. Accept(s) => pc[s] = "idle" /\ labOwner' = labOwner
      BY DEF Accept, BeginTelemetry, BeginCollection, BeginResolve, Begin, labVars
    <3> QED BY <1>1, <1>3, <3>1, NobodyAssumption DEF IdleHoldsNothing
  <2>4. Statement(s)
    BY <2>2, <2>3 DEF Proceed, Statement, Commit, SaveRejected, RejectStale, RecoverStale,
                      ResolveRejected, DeadlockVictim, Lost, Abort
  <2>5. pc'[s] # "save"
    <3>1. \A fps : RecoverNext(fps) \in {"commit", "recover"}
      BY DEF RecoverNext
    <3>2. CASE SaveLatest(s) \/ SaveReplay(s) \/ UpsertIncident(s) \/ UpsertSuppressed(s)
      BY <1>1, <3>1, <3>2 DEF SaveLatest, SaveReplay, UpsertIncident, UpsertSuppressed, UpsertNext, TypeOK
    <3>3. CASE RecoverNothing(s) \/ RecoverFound(s)
      BY <1>1, <3>1, <3>3 DEF RecoverNothing, RecoverFound, TypeOK
    <3>4. CASE ResolveRow(s) \/ ResolveMissed(s) \/ ResolvedByOther(s)
      BY <1>1, <3>1, <3>4 DEF ResolveRow, ResolveMissed, ResolvedByOther, Resolved, TypeOK
    <3> QED BY <2>4, <3>2, <3>3, <3>4 DEF Statement
  <2>6. s \in CollectorSession
    <3>1. CASE SaveLatest(s) \/ SaveReplay(s)
      BY <1>1, <3>1 DEF SaveLatest, SaveReplay, TypeOK
    <3>2. CASE ~SaveLatest(s) /\ ~SaveReplay(s)
      <4>1. labOwner = s
        BY <1>3, <2>4, <3>2, StatementFrame
      <4> QED BY <4>1, NobodyAssumption DEF CollectionInvariant, Collecting
    <3> QED BY <3>1, <3>2
  <2> QED BY <1>3, <2>1, <2>5, <2>6 DEF Collecting
<1> QED BY <1>2, <1>3

-----------------------------------------------------------------------------
(* What a commit makes visible. *)

LEMMA CommitShows ==
  ASSUME CollectionInvariant, NEW s \in Session, Commit(s)
  PROVE  StoredWhole' /\ EstablishedHasNoOpenIncident'
<1>1. TypeOK /\ StoreTypeOK /\ SessionWork(s) /\ OwnRows(s) /\ StoredWhole /\ EstablishedHasNoOpenIncident
  BY DEF CollectionInvariant, RefinementInvariant, SessionInvariant, Invariant, TypeOK
<1>2. /\ pc[s] = "commit" /\ samples \subseteq samples'
      /\ \A i \in Incident : table'[i] = View(s, i)
      /\ s \in TelemetrySession => time[s] \in samples'
      /\ lab' = IF labOwner = s THEN labDirty ELSE lab
  BY DEF Commit, StoreCommit
<1>3. ASSUME NEW i \in Incident
      PROVE  /\ table[i] \in Row \cup {NoRow} /\ table'[i] \in Row \cup {NoRow}
             /\ table'[i] # table[i] => owner[i] = s /\ OneStep(table[i], table'[i]) /\ table'[i] # NoRow
             /\ owner[i] = s => table'[i] = dirty[i]
  BY <1>1, <1>2 DEF View, OwnRows, StoreTypeOK
<1>4. ASSUME NEW i \in Incident, table[i] # NoRow
      PROVE  /\ table'[i] # NoRow /\ table'[i].fp = table[i].fp /\ table'[i].seen >= table[i].seen
             /\ \A f : IsOpenFor(table'[i], f) => IsOpenFor(table[i], f)
  <2>1. CASE table'[i] = table[i]
    BY <1>3, <1>4, <2>1, MaxTimeAssumption DEF Row, Time
  <2>2. CASE table'[i] # table[i]
    BY <1>3, <1>4, <2>2, OneStepOrder
  <2> QED BY <2>1, <2>2
<1>5. ASSUME NEW i \in Incident, s \in CollectorSession => table'[i].fp \notin BgpFingerprint,
             table'[i] # table[i]
      PROVE  \/ table[i] # NoRow /\ table'[i].seen = table[i].seen
             \/ table'[i].seen \in samples'
  BY <1>1, <1>2, <1>3, <1>5 DEF SessionWork, SeenBy
<1>6. TelemetryIncidentsHaveSamples'
  <2> SUFFICES ASSUME NEW i \in Incident, table'[i] # NoRow, table'[i].fp \notin BgpFingerprint
               PROVE  table'[i].seen \in samples'
    BY DEF TelemetryIncidentsHaveSamples
  <2>1. table[i] # NoRow => table[i].fp = table'[i].fp
    BY <1>4
  <2>2. table[i] # NoRow => table[i].seen \in samples'
    BY <1>1, <1>2, <2>1 DEF StoredWhole, TelemetryIncidentsHaveSamples
  <2> QED BY <1>5, <2>2
<1>7. CASE labOwner # s
  <2>1. lab' = lab /\ s \notin CollectorSession
    BY <1>1, <1>2, <1>7 DEF SessionWork, HoldsLab, Collecting
  <2>2. StoredFailuresHaveIncidents'
    <3> SUFFICES ASSUME lab # NoState, NEW f \in lab.down
                 PROVE  \E i \in Incident : table'[i] # NoRow /\ table'[i].fp = f /\ table'[i].seen >= lab.time
      BY <2>1 DEF StoredFailuresHaveIncidents
    <3>1. PICK i \in Incident : table[i] # NoRow /\ table[i].fp = f /\ table[i].seen >= lab.time
      BY <1>1 DEF StoredWhole, StoredFailuresHaveIncidents
    <3>2. table[i].seen \in Time /\ table'[i].seen \in Time /\ lab.time \in Time
      BY <1>1, <1>3, <1>4, <3>1 DEF TypeOK, Collection, Row
    <3>3. table'[i] # NoRow /\ table'[i].fp = f /\ table'[i].seen >= lab.time
      BY <1>4, <3>1, <3>2, MaxTimeAssumption DEF Time
    <3> QED BY <3>3
  <2>3. EstablishedHasNoOpenIncident'
    <3> SUFFICES ASSUME lab # NoState, NEW f \in lab.up, NEW i \in Incident, IsOpenFor(table'[i], f)
                 PROVE  table'[i].seen \in samples'
      BY <2>1 DEF EstablishedHasNoOpenIncident
    <3>1. table[i] # NoRow => table[i].seen \in samples'
      BY <1>1, <1>2, <1>4 DEF EstablishedHasNoOpenIncident
    <3>2. table[i] = NoRow => table'[i] # table[i]
      BY DEF IsOpenFor, IsOpen
    <3> QED BY <1>5, <2>1, <3>1, <3>2
  <2> QED BY <1>6, <2>2, <2>3 DEF StoredWhole
<1>8. CASE labOwner = s
  <2>1. Collecting(s) /\ lab' = coll[s] /\ time[s] = coll[s].time /\ coll[s] # NoState
    BY <1>1, <1>2, <1>8, NobodyAssumption, NoStateAssumption
       DEF CollectionInvariant, SessionWork, HoldsLab, Collecting, TypeOK
  <2>2. CASE coll[s] = lab
    <3>1. \A i \in Incident : table'[i] = table[i]
      BY <1>1, <1>3, <2>1, <2>2 DEF SessionWork, HoldsLab
    <3>2. StoredFailuresHaveIncidents' /\ EstablishedHasNoOpenIncident'
      BY <1>1, <1>2, <2>1, <2>2, <3>1
         DEF StoredWhole, StoredFailuresHaveIncidents, EstablishedHasNoOpenIncident
    <3> QED BY <1>6, <3>2 DEF StoredWhole
  <2>3. CASE coll[s] # lab
    <3>1. \A f \in coll[s].down : Recorded(s, f)
      BY <1>1, <1>2, <2>1, <2>3 DEF SessionWork, Failures
    <3>2. StoredFailuresHaveIncidents'
      BY <1>2, <2>1, <3>1 DEF StoredFailuresHaveIncidents, Recorded
    <3>3. \A f \in coll[s].up, i \in Incident : IsOpenFor(View(s, i), f) => View(s, i).seen \in samples
      BY <1>1, <1>2, <2>1, <2>3 DEF SessionWork, Recoveries, ToRecover
    <3>4. EstablishedHasNoOpenIncident'
      BY <1>2, <2>1, <3>3 DEF EstablishedHasNoOpenIncident
    <3> QED BY <1>6, <3>2, <3>4 DEF StoredWhole
  <2> QED BY <2>2, <2>3
<1> QED BY <1>7, <1>8

-----------------------------------------------------------------------------
(* Every step keeps the invariant. *)

LEMMA CollectionInvariantInit == Init => CollectionInvariant
<1> SUFFICES ASSUME Init PROVE CollectionInvariant
  OBVIOUS
<1>1. RefinementInvariant
  BY RefinementInvariantInit
<1>2. \A s \in Session : SessionWork(s)
  BY NobodyAssumption DEF Init, StoreInit, SessionWork, HoldsLab, Loops, SeenBy, Failures, Recoveries, Collecting
<1>3. StoredWhole /\ EstablishedHasNoOpenIncident
  BY DEF Init, StoreInit, StoredWhole, StoredFailuresHaveIncidents, TelemetryIncidentsHaveSamples,
         EstablishedHasNoOpenIncident
<1> QED BY <1>1, <1>2, <1>3 DEF CollectionInvariant, Init

LEMMA StandStill ==
  ASSUME CollectionInvariant, RefinementInvariant', UNCHANGED <<storeVars, labVars, requestVars, samples>>
  PROVE  CollectionInvariant'
<1>1. \A s \in Session : SessionWork(s)'
  <2> TAKE s \in Session
  <2>1. SessionWork(s)
    BY DEF CollectionInvariant
  <2>2. \A i \in Incident : View(s, i)' = View(s, i)
    BY DEF View, storeVars
  <2>3. Failures(s)' /\ Recoveries(s)'
    BY <2>1, <2>2 DEF SessionWork, Failures, Recoveries, Recorded, ToRecover, Collecting, labVars, requestVars
  <2>4. HoldsLab(s)' /\ Loops(s)' /\ SeenBy(s)'
    BY <2>1 DEF SessionWork, HoldsLab, Loops, SeenBy, Collecting, storeVars, labVars, requestVars
  <2> QED BY <2>3, <2>4 DEF SessionWork
<1>2. StoredWhole' /\ EstablishedHasNoOpenIncident'
  BY DEF CollectionInvariant, StoredWhole, StoredFailuresHaveIncidents, TelemetryIncidentsHaveSamples,
         EstablishedHasNoOpenIncident, storeVars, labVars
<1>3. (labOwner # Nobody => Collecting(labOwner))'
  BY DEF CollectionInvariant, Collecting, labVars, requestVars
<1> QED BY <1>1, <1>2, <1>3 DEF CollectionInvariant

LEMMA CollectionInvariantNext == CollectionInvariant /\ [Next]_vars => CollectionInvariant'
<1> SUFFICES ASSUME CollectionInvariant, [Next]_vars PROVE CollectionInvariant'
  OBVIOUS
<1>1. Invariant /\ RefinementInvariant'
  BY RefinementInvariantNext DEF CollectionInvariant, RefinementInvariant, SessionInvariant
<1>2. CASE \E s \in Session : SessionStep(s) /\ (Accept(s) \/ Proceed(s) \/ Lost(s))
  <2> PICK s \in Session : SessionStep(s) /\ (Accept(s) \/ Proceed(s) \/ Lost(s))
    BY <1>2
  <2>1. SessionWork(s)'
    BY OwnWork
  <2>2. \A q \in Session \ {s} : SessionWork(q)'
    BY NextIsVisibleStep, OthersWork
  <2>3. StoredWhole' /\ EstablishedHasNoOpenIncident'
    <3>1. CASE HiddenStep
      BY <3>1 DEF HiddenStep, CollectionInvariant, StoredWhole, StoredFailuresHaveIncidents,
                  TelemetryIncidentsHaveSamples, EstablishedHasNoOpenIncident
    <3> QED BY <3>1, HiddenOrCommit, CommitShows
  <2>4. (labOwner # Nobody => Collecting(labOwner))'
    BY LabHolder
  <2> QED BY <1>1, <2>1, <2>2, <2>3, <2>4 DEF CollectionInvariant
<1>3. CASE UNCHANGED <<storeVars, labVars, requestVars>>
  <2>1. ASSUME NEW s \in Session, Accept(s) \/ Proceed(s) \/ Lost(s)
        PROVE  samples' = samples
    <3>1. ~Commit(s)
      BY <1>1, <1>3 DEF Commit, EndRequest, requestVars, Invariant, TypeOK
    <3> QED BY <2>1, <3>1, HiddenOrCommit DEF HiddenStep
  <2>2. samples' = samples
    BY <2>1 DEF Next, Tick, Quiescent, vars
  <2> QED BY <1>1, <1>3, <2>2, StandStill
<1>4. UNCHANGED vars => UNCHANGED <<storeVars, labVars, requestVars>>
  BY DEF vars
<1> QED BY <1>1, <1>2, <1>3, <1>4, NextIsSessionStep

LEMMA CollectionInvariantHolds == Spec => []CollectionInvariant
BY CollectionInvariantInit, CollectionInvariantNext, PTL DEF Spec

-----------------------------------------------------------------------------
(* What is visible of a request. *)

(* Nothing of a request is visible without the rest of it: each neighbor   *)
(* that fails in the stored state has its incident, and each incident of   *)
(* telemetry its sample, although they are written one after the other and *)
(* other requests commit in between.                                       *)
THEOREM RequestsStoredWhole == Spec => []StoredWhole
<1>1. CollectionInvariant => StoredWhole
  BY DEF CollectionInvariant
<1> QED BY <1>1, CollectionInvariantHolds, PTL

(* A neighbor that is Established in the stored state has no OPEN incident *)
(* but of a sample: no recovery misses an incident that an overlapping     *)
(* collection or operator has written.                                     *)
THEOREM EstablishedIsRecovered == Spec => []EstablishedHasNoOpenIncident
<1>1. CollectionInvariant => EstablishedHasNoOpenIncident
  BY DEF CollectionInvariant
<1> QED BY <1>1, CollectionInvariantHolds, PTL

(* Ingesting the stored collection once more changes no incident. *)
THEOREM ReplaysChangeNothing == Spec => ReplayChangesNothing
<1> DEFINE Replays == \A s \in CollectorSession : Commit(s) /\ coll[s] = lab => UNCHANGED table
<1>1. CollectionInvariant => Replays
  <2> SUFFICES ASSUME CollectionInvariant, NEW s \in CollectorSession, Commit(s), coll[s] = lab
               PROVE  table' = table
    OBVIOUS
  <2>1. s \in Session /\ StoreTypeOK
    BY SessionAssumption DEF CollectionInvariant, RefinementInvariant, SessionInvariant, Invariant, TypeOK
  <2>2. \A i \in Incident : owner[i] # s
    BY <2>1 DEF CollectionInvariant, SessionWork, HoldsLab, Collecting, Commit
  <2>3. \A i \in Incident : View(s, i) = table[i]
    BY <2>2 DEF View
  <2>4. table' = [i \in Incident |-> View(s, i)]
    BY DEF Commit, StoreCommit
  <2> QED BY <2>1, <2>3, <2>4 DEF StoreTypeOK
<1>2. Replays => [Replays]_vars
  OBVIOUS
<1> QED BY <1>1, <1>2, CollectionInvariantHolds, PTL DEF ReplayChangesNothing
=============================================================================
