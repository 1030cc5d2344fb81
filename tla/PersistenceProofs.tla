-------------------------- MODULE PersistenceProofs --------------------------
(***************************************************************************)
(* Theorems about the stores, for any number of processes, units of work   *)
(* and requests, any window and any cap: the in-memory unit of work is     *)
(* never seen half published, and both backends retain the same samples.   *)
(***************************************************************************)
EXTENDS MCPersistence, TLAPS, Sequences, FiniteSetTheorems, WellFoundedInduction

-----------------------------------------------------------------------------
(* Policy seeding. *)

(* Before its commit a process has inserted, or found equal, every policy  *)
(* it has passed.  While it holds an inserted row nothing is stored, for   *)
(* whoever would store a batch needs that row; and since a batch is stored *)
(* whole, a process in its second attempt finds every policy.              *)
Passed(p) == \A i \in Policies :
  pc[p] \in {"get", "insert"} /\ i < at[p] => i \in staged[p] \/ stored[i] = Batch[p][i]

StagedAlone(p) == staged[p] # {} =>
  /\ stored = [i \in Policies |-> NoPolicy]
  /\ pc[p] \in {"get", "insert"}
  /\ staged[p] = {i \in Policies : i < at[p]}

Locked == \A p, q \in Process : p # q => staged[p] \cap staged[q] = {}

SecondSees(p) ==
  attempt[p] = 2 /\ pc[p] \in {"get", "insert"} =>
    /\ stored # [i \in Policies |-> NoPolicy]
    /\ pc[p] = "get"

IInv ==
  /\ TypeOK /\ StoredIsOneBatch /\ RetryReconciles /\ Locked
  /\ \A p \in Process : Passed(p) /\ StagedAlone(p) /\ SecondSees(p)

NoneStored == [i \in Policies |-> NoPolicy]

USE SeedingAssumption DEF Policies, Ended

(* What is stored is stored whole: one policy that is missing means all.   *)
LEMMA WholeBatches ==
  ASSUME TypeOK, StoredIsOneBatch, NEW i \in Policies
  PROVE  /\ stored[i] = NoPolicy => stored = NoneStored
         /\ stored[i] # NoPolicy => \E q \in Process : stored = Batch[q]
         /\ stored # NoneStored => \A j \in Policies : stored[j] \in Content
BY DEF TypeOK, StoredIsOneBatch, NoneStored

LEMMA InitInductive == Init => IInv
<1> SUFFICES ASSUME Init PROVE IInv
  OBVIOUS
<1>1. TypeOK /\ StoredIsOneBatch /\ RetryReconciles /\ Locked
  BY DEF Init, TypeOK, StoredIsOneBatch, RetryReconciles, Locked
<1>2. \A p \in Process : Passed(p) /\ StagedAlone(p) /\ SecondSees(p)
  BY DEF Init, Passed, StagedAlone, SecondSees
<1> QED BY <1>1, <1>2 DEF IInv

(* A process that is about to insert what is not stored has inserted all   *)
(* policies before it, and a process about to commit anything commits all. *)
LEMMA StagedPrefix ==
  ASSUME IInv, NEW p \in Process, pc[p] \in {"get", "insert"}, stored = NoneStored
  PROVE  staged[p] = {i \in Policies : i < at[p]}
<1>1. \A i \in Policies : i < at[p] => i \in staged[p]
  BY DEF IInv, Passed, TypeOK, NoneStored
<1>2. CASE staged[p] = {}
  BY <1>1, <1>2
<1>3. CASE staged[p] # {}
  BY <1>3 DEF IInv, StagedAlone
<1> QED BY <1>2, <1>3

(* Two transactions cannot both hold rows: each would hold the first.      *)
LEMMA OneHolder ==
  ASSUME IInv, NEW p \in Process, NEW q \in Process, p # q, staged[p] # {}
  PROVE  staged[q] = {}
<1> SUFFICES ASSUME staged[q] # {} PROVE FALSE
  OBVIOUS
<1>1. ASSUME NEW r \in Process, staged[r] # {} PROVE 1 \in staged[r]
  <2>1. PICK i \in Policies : i \in staged[r] /\ i < at[r]
    BY <1>1 DEF IInv, TypeOK, StagedAlone
  <2>2. at[r] \in 1..N + 1 /\ staged[r] = {j \in Policies : j < at[r]}
    BY <1>1 DEF IInv, TypeOK, StagedAlone
  <2>3. 1 < at[r] /\ 1 \in Policies
    BY <2>1, <2>2
  <2> QED BY <2>2, <2>3
<1> QED BY <1>1 DEF IInv, Locked

LEMMA BeginInductive ==
  ASSUME IInv, NEW p \in Process, Begin(p)
  PROVE  IInv'
<1>1. staged[p] = {}
  BY DEF IInv, StagedAlone, Begin
<1>2. TypeOK' /\ StoredIsOneBatch' /\ RetryReconciles' /\ Locked'
  BY DEF Begin, IInv, TypeOK, StoredIsOneBatch, RetryReconciles, Locked
<1>3. ASSUME NEW q \in Process PROVE (Passed(q) /\ StagedAlone(q) /\ SecondSees(q))'
  BY <1>1 DEF Begin, IInv, TypeOK, Passed, StagedAlone, SecondSees
<1> QED BY <1>2, <1>3 DEF IInv

LEMMA EndsInductive ==
  ASSUME IInv, NEW p \in Process, NEW how \in Ended, how # "unexpected", Ends(p, how)
  PROVE  IInv'
<1>1. TypeOK' /\ StoredIsOneBatch' /\ RetryReconciles' /\ Locked'
  BY DEF Ends, IInv, TypeOK, StoredIsOneBatch, RetryReconciles, Locked
<1>2. ASSUME NEW q \in Process PROVE (Passed(q) /\ StagedAlone(q) /\ SecondSees(q))'
  BY DEF Ends, IInv, TypeOK, Passed, StagedAlone, SecondSees
<1> QED BY <1>1, <1>2 DEF IInv

LEMMA GetInductive ==
  ASSUME IInv, NEW p \in Process, Get(p)
  PROVE  IInv'
<1>1. CASE stored[at[p]] = NoPolicy
  <2>1. stored = NoneStored
    BY <1>1, WholeBatches DEF IInv, Get
  <2>2. TypeOK' /\ StoredIsOneBatch' /\ RetryReconciles' /\ Locked'
    BY <1>1 DEF Get, IInv, TypeOK, StoredIsOneBatch, RetryReconciles, Locked
  <2>3. ASSUME NEW q \in Process PROVE (Passed(q) /\ StagedAlone(q) /\ SecondSees(q))'
    BY <1>1, <2>1 DEF Get, IInv, TypeOK, Passed, StagedAlone, SecondSees, NoneStored
  <2> QED BY <2>2, <2>3 DEF IInv
<1>2. CASE stored[at[p]] = Batch[p][at[p]]
  <2>1. at[p] \in Policies /\ Batch[p][at[p]] # NoPolicy
    BY DEF Get
  <2>2. stored # NoneStored /\ staged[p] = {}
    BY <1>2, <2>1 DEF IInv, StagedAlone, NoneStored
  <2>3. at' = [at EXCEPT ![p] = @ + 1] /\ UNCHANGED <<stored, staged, pc, attempt>>
    <3>1. stored[at[p]] # NoPolicy
      BY <1>2, <2>1
    <3> QED BY <1>2, <3>1 DEF Get
  <2>4. TypeOK' /\ StoredIsOneBatch' /\ RetryReconciles' /\ Locked'
    <3>1. pc[p] = "get"
      BY DEF Get
    <3> QED BY <2>1, <2>3, <3>1 DEF IInv, TypeOK, StoredIsOneBatch, RetryReconciles, Locked
  <2>5. ASSUME NEW q \in Process PROVE (Passed(q) /\ StagedAlone(q) /\ SecondSees(q))'
    BY <1>2, <2>2, <2>3 DEF IInv, TypeOK, Passed, StagedAlone, SecondSees
  <2> QED BY <2>4, <2>5 DEF IInv
<1>3. CASE stored[at[p]] \notin {NoPolicy, Batch[p][at[p]]}
  BY <1>3, EndsInductive DEF Get
<1> QED BY <1>1, <1>2, <1>3 DEF Get

LEMMA InsertInductive ==
  ASSUME IInv, NEW p \in Process, Insert(p)
  PROVE  IInv'
<1>1. stored = NoneStored /\ at[p] \in Policies
  BY WholeBatches DEF IInv, Insert, TypeOK
<1>2. staged[p] = {i \in Policies : i < at[p]}
  BY <1>1, StagedPrefix DEF Insert
<1>3. TypeOK' /\ StoredIsOneBatch' /\ RetryReconciles'
  BY <1>1 DEF Insert, IInv, TypeOK, StoredIsOneBatch, RetryReconciles
<1>4. Locked'
  BY DEF Insert, Waits, IInv, TypeOK, Locked
<1>5. ASSUME NEW q \in Process PROVE (Passed(q) /\ StagedAlone(q) /\ SecondSees(q))'
  <2>1. CASE q = p
    BY <1>1, <1>2, <2>1 DEF Insert, IInv, TypeOK, Passed, StagedAlone, SecondSees, NoneStored
  <2>2. CASE q # p
    BY <2>2 DEF Insert, IInv, TypeOK, Passed, StagedAlone, SecondSees
  <2> QED BY <2>1, <2>2
<1> QED BY <1>3, <1>4, <1>5 DEF IInv

LEMMA UniqueViolationInductive ==
  ASSUME IInv, NEW p \in Process, UniqueViolation(p)
  PROVE  IInv'
<1>1. attempt[p] = 1 /\ at[p] \in Policies
  BY DEF UniqueViolation, IInv, TypeOK, SecondSees
<1>2. stored # NoneStored
  BY <1>1 DEF UniqueViolation, NoneStored
<1>3. TypeOK' /\ StoredIsOneBatch' /\ RetryReconciles' /\ Locked'
  BY <1>1 DEF UniqueViolation, IInv, TypeOK, StoredIsOneBatch, RetryReconciles, Locked
<1>4. ASSUME NEW q \in Process PROVE (Passed(q) /\ StagedAlone(q) /\ SecondSees(q))'
  BY <1>1, <1>2 DEF UniqueViolation, IInv, TypeOK, Passed, StagedAlone, SecondSees, NoneStored
<1> QED BY <1>3, <1>4 DEF IInv

(* The commit stores the whole batch of its process, or changes nothing.   *)
LEMMA CommitStores ==
  ASSUME IInv, NEW p \in Process, Commit(p)
  PROVE  /\ stored' = Batch[p]
         /\ staged[p] # {} => stored = NoneStored
         /\ staged[p] = {} => stored' = stored
<1>1. CASE staged[p] = {}
  <2>1. stored' = stored
    BY <1>1 DEF Commit, IInv, TypeOK
  <2>2. \A i \in Policies : stored[i] = Batch[p][i]
    BY <1>1 DEF Commit, IInv, Passed
  <2> QED BY <1>1, <2>1, <2>2 DEF IInv, TypeOK
<1>2. CASE staged[p] # {}
  <2>1. stored = NoneStored /\ \A i \in Policies : i \in staged[p]
    <3>1. stored = NoneStored /\ staged[p] = {i \in Policies : i < at[p]}
      BY <1>2 DEF IInv, StagedAlone, NoneStored
    <3>2. at[p] = N + 1 /\ \A i \in Policies : i < N + 1
      BY DEF Commit
    <3> QED BY <3>1, <3>2
  <2>2. stored' = [i \in Policies |-> Batch[p][i]]
    BY <2>1 DEF Commit
  <2>3. Batch[p] = [i \in Policies |-> Batch[p][i]]
    OBVIOUS
  <2> QED BY <1>2, <2>1, <2>2, <2>3
<1> QED BY <1>1, <1>2

LEMMA CommitInductive ==
  ASSUME IInv, NEW p \in Process, Commit(p)
  PROVE  IInv'
<1>1. TypeOK' /\ RetryReconciles' /\ Locked'
  BY CommitStores DEF Commit, IInv, TypeOK, RetryReconciles, Locked
<1>2. StoredIsOneBatch'
  BY CommitStores DEF StoredIsOneBatch
<1>3. ASSUME NEW q \in Process PROVE (Passed(q) /\ StagedAlone(q) /\ SecondSees(q))'
  <2>1. CASE q = p
    BY <2>1 DEF Commit, IInv, TypeOK, Passed, StagedAlone, SecondSees
  <2>2. CASE q # p /\ staged[p] = {}
    BY <2>2, CommitStores DEF Commit, IInv, TypeOK, Passed, StagedAlone, SecondSees
  <2>3. CASE q # p /\ staged[p] # {}
    <3>1. stored = NoneStored /\ staged[q] = {}
      BY <2>3, CommitStores, OneHolder
    <3>2. stored' # NoneStored
      BY CommitStores DEF NoneStored
    <3>3. staged'[q] = {} /\ pc'[q] = pc[q] /\ at' = at /\ attempt' = attempt
      BY <2>3, <3>1 DEF Commit, IInv, TypeOK
    <3>4. pc[q] \in {"get", "insert"} => \A i \in Policies : ~(i < at[q])
      BY <3>1, StagedPrefix
    <3>5. Passed(q)'
      BY <3>3, <3>4 DEF Passed
    <3>6. StagedAlone(q)'
      BY <3>3 DEF StagedAlone
    <3>7. SecondSees(q)'
      BY <3>1, <3>2, <3>3 DEF IInv, SecondSees, NoneStored
    <3> QED BY <3>5, <3>6, <3>7
  <2> QED BY <2>1, <2>2, <2>3
<1> QED BY <1>1, <1>2, <1>3 DEF IInv

LEMMA NextInductive == IInv /\ [Next]_vars => IInv'
<1> SUFFICES ASSUME IInv, [Next]_vars PROVE IInv'
  OBVIOUS
<1>1. ASSUME NEW p \in Process, Begin(p) PROVE IInv'
  BY <1>1, BeginInductive
<1>2. ASSUME NEW p \in Process, Statement(p) PROVE IInv'
  BY <1>2, GetInductive, InsertInductive, UniqueViolationInductive, CommitInductive DEF Statement
<1>3. ASSUME NEW p \in Process, Crash(p) PROVE IInv'
  BY <1>3, EndsInductive DEF Crash
<1>4. CASE UNCHANGED vars
  BY <1>4 DEF vars, IInv, TypeOK, StoredIsOneBatch, RetryReconciles, Locked, Passed, StagedAlone, SecondSees
<1> QED BY <1>1, <1>2, <1>3, <1>4 DEF Next

LEMMA InductiveInvariant == Spec => []IInv
BY InitInductive, NextInductive, PTL DEF Spec

(* For every number of processes and policies, whatever their batches say: *)
(* what is stored is never a part of a batch nor a mixture of two.         *)
THEOREM StoredIsOneBatchAlways == Spec => []StoredIsOneBatch
<1>1. IInv => StoredIsOneBatch
  BY DEF IInv
<1> QED BY <1>1, InductiveInvariant, PTL

(* One retry is enough, however many processes start and crash.            *)
THEOREM RetryReconcilesAlways == Spec => []RetryReconciles
<1>1. IInv => RetryReconciles
  BY DEF IInv
<1> QED BY <1>1, InductiveInvariant, PTL

-----------------------------------------------------------------------------
(* The statements of a start, seen as the one step of PolicySeed.          *)

LEMMA InitImplements == Init => Seed!Init
BY DEF Init, Seed!Init, Outcome, Seed!Policies

LEMMA StatementImplements ==
  ASSUME IInv, IInv', NEW p \in Process, Statement(p)
  PROVE  [Seed!Next]_<<stored, Outcome>>
<1>1. CASE Insert(p) \/ UniqueViolation(p)
  <2>1. stored' = stored /\ pc[p] \in {"get", "insert"} /\ pc'[p] \in {"get", "insert"}
        /\ \A q \in Process \ {p} : pc'[q] = pc[q]
    BY <1>1 DEF Insert, UniqueViolation, IInv, TypeOK, SecondSees
  <2> QED BY <2>1 DEF Outcome
<1>2. CASE Commit(p)
  <2>1. Outcome[p] = "starting" /\ Outcome' = [Outcome EXCEPT ![p] = "seeded"]
    BY <1>2 DEF Commit, Outcome, IInv, TypeOK
  <2>2. ~Seed!Conflicts(p)
    BY <1>2, CommitStores DEF Seed!Conflicts, Seed!Policies, IInv, TypeOK, NoneStored
  <2>3. stored' = Batch[p]
    BY <1>2, CommitStores
  <2> QED BY <2>1, <2>2, <2>3 DEF Seed!Next, Seed!SeedIfMissing
<1>3. CASE Get(p) /\ stored[at[p]] \in {NoPolicy, Batch[p][at[p]]}
  <2>1. stored' = stored /\ pc[p] = "get" /\ pc'[p] \in {"get", "insert"}
        /\ \A q \in Process \ {p} : pc'[q] = pc[q]
    BY <1>3 DEF Get, IInv, TypeOK
  <2> QED BY <2>1 DEF Outcome
<1>4. CASE Get(p) /\ stored[at[p]] \notin {NoPolicy, Batch[p][at[p]]}
  <2>1. Ends(p, "conflict") /\ pc[p] = "get" /\ at[p] \in Policies
    BY <1>4 DEF Get
  <2>2. Outcome[p] = "starting" /\ Outcome' = [Outcome EXCEPT ![p] = "conflict"]
    BY <2>1 DEF Ends, Outcome, IInv, TypeOK
  <2>3. Seed!Conflicts(p) /\ stored' = stored
    BY <1>4, <2>1 DEF Seed!Conflicts, Seed!Policies, Ends
  <2> QED BY <2>2, <2>3 DEF Seed!Next, Seed!SeedIfMissing
<1> QED BY <1>1, <1>2, <1>3, <1>4 DEF Statement

LEMMA RestartImplements ==
  ASSUME IInv, NEW p \in Process, Begin(p) \/ Crash(p)
  PROVE  [Seed!Next]_<<stored, Outcome>>
<1>1. Outcome' = [Outcome EXCEPT ![p] = "starting"] /\ stored' = stored
  BY DEF Begin, Crash, Ends, Outcome, IInv, TypeOK
<1> QED BY <1>1 DEF Seed!Next, Seed!Restart

(* Seeding statement by statement, with its savepoint, its waits and its   *)
(* retry, is the atomic seeding of the in-memory backend.                  *)
THEOREM SeedingImplementsSeed == Spec => ImplementsSeed
<1>1. IInv /\ IInv' /\ [Next]_vars => [Seed!Next]_<<stored, Outcome>>
  <2> SUFFICES ASSUME IInv, IInv', [Next]_vars PROVE [Seed!Next]_<<stored, Outcome>>
    OBVIOUS
  <2>1. CASE UNCHANGED vars
    BY <2>1 DEF vars, Outcome
  <2> QED BY <2>1, StatementImplements, RestartImplements DEF Next
<1> QED BY <1>1, InitImplements, InductiveInvariant, PTL DEF Spec, Seed!Spec, ImplementsSeed

-----------------------------------------------------------------------------
(* The stores implement each of their parts. *)
LEMMA StoresAreTheirParts ==
  /\ PersistenceSpec => Spec
  /\ PersistenceSpec => Units!Spec
  /\ PersistenceSpec => History!Spec
<1>1. PersistenceInit => Init /\ Units!Init /\ History!Init
  BY DEF PersistenceInit
<1>2. [PersistenceNext]_all => [Next]_vars
  BY DEF PersistenceNext, Seeds, Works, Ingests, all
<1>3. [PersistenceNext]_all => [Units!Next]_(Units!vars)
  BY DEF PersistenceNext, Seeds, Works, Ingests, all, unitVars, Units!vars
<1>4. [PersistenceNext]_all => [History!Next]_(History!vars)
  BY DEF PersistenceNext, Seeds, Works, Ingests, all, historyVars, History!vars, History!sessionVars
<1> QED
  BY <1>1, <1>2, <1>3, <1>4, PTL DEF PersistenceSpec, Spec, Units!Spec, History!Spec

-----------------------------------------------------------------------------
(* The in-memory unit of work. *)

Stores ==
  {st \in [{"devices", "snapshots", "incidents"} ->
             SUBSET (Units!DeviceRow \cup Units!SnapshotRow \cup Units!IncidentRow)] : Units!StoreType(st)}

(* What a copy or a publication has passed is equal on both sides. *)
Agreeing(u) ==
  /\ step[u] > 1 => working[u].devices = committed.devices
  /\ step[u] > 2 => working[u].snapshots = committed.snapshots

UnitOK(u) ==
  /\ unitPc[u] \in {"copy", "publish"} => lock = u /\ Agreeing(u)
  /\ unitPc[u] = "copy" => Units!Referential(committed)
  /\ unitPc[u] \in {"work", "publish"} => Units!Referential(working[u])
  /\ unitPc[u] \in {"work", "publish"} /\ alone[u] =>
       Units!KeepsHistory(committed.incidents, working[u].incidents)

UnitsInvariant ==
  /\ committed \in Stores /\ working \in [Unit -> Stores]
  /\ lock \in Unit \cup {Free}
  /\ unitPc \in [Unit -> {"none", "copy", "work", "publish"}]
  /\ step \in [Unit -> 1..3] /\ nextId \in 1..MaxIncidents + 1
  /\ alone \in [Unit -> BOOLEAN]
  /\ lock = Free => Units!Referential(committed)
  /\ \A u \in Unit : UnitOK(u)

LEMMA UnitsBegin ==
  ASSUME Units!Init
  PROVE  UnitsInvariant
<1>1. Units!EmptyStore \in Stores
  BY DEF Units!EmptyStore, Stores, Units!StoreType
<1>2. Units!Referential(Units!EmptyStore)
  BY DEF Units!EmptyStore, Units!Referential
<1> QED BY <1>1, <1>2, StoresAssumption
        DEF Units!Init, UnitsInvariant, UnitOK, Units!MemoryConstants

(* Replacing a collection of a store changes that collection only. *)
LEMMA ReplacedCollection ==
  ASSUME NEW st \in Stores, NEW other \in Stores, NEW c \in {"devices", "snapshots", "incidents"},
         NEW new, new = [st EXCEPT ![c] = other[c]]
  PROVE  /\ new \in Stores
         /\ new.devices = IF c = "devices" THEN other.devices ELSE st.devices
         /\ new.snapshots = IF c = "snapshots" THEN other.snapshots ELSE st.snapshots
         /\ new.incidents = IF c = "incidents" THEN other.incidents ELSE st.incidents
BY DEF Stores, Units!StoreType

(* A publication or a copy under way holds the lock. *)
LEMMA LockHeld ==
  ASSUME UnitsInvariant, NEW u \in Unit
  PROVE  /\ lock = Free => unitPc[u] \notin {"copy", "publish"}
         /\ \A w \in Unit : unitPc[u] \in {"copy", "publish"} /\ w # u => unitPc[w] \notin {"copy", "publish"}
BY StoresAssumption DEF UnitsInvariant, UnitOK, Units!MemoryConstants

LEMMA HistoryKept ==
  ASSUME NEW st \in Stores
  PROVE  Units!KeepsHistory(st.incidents, st.incidents)
BY DEF Stores, Units!StoreType, Units!IncidentRow, Units!KeepsHistory, Units!Time

LEMMA HistoryKeptTwice ==
  ASSUME NEW r \in Stores, NEW st \in Stores, NEW t \in Stores,
         Units!KeepsHistory(r.incidents, st.incidents), Units!KeepsHistory(st.incidents, t.incidents)
  PROVE  Units!KeepsHistory(r.incidents, t.incidents)
<1>1. \A i \in r.incidents \cup st.incidents \cup t.incidents : i.count \in Nat /\ i.seen \in Nat
  BY DEF Stores, Units!StoreType, Units!IncidentRow, Units!Time
<1> SUFFICES ASSUME NEW i \in r.incidents
             PROVE  \E k \in t.incidents : k.id = i.id /\ k.count >= i.count /\ k.seen >= i.seen /\ (k.open => i.open)
  BY DEF Units!KeepsHistory
<1>2. PICK j \in st.incidents : j.id = i.id /\ j.count >= i.count /\ j.seen >= i.seen /\ (j.open => i.open)
  BY DEF Units!KeepsHistory
<1>3. PICK k \in t.incidents : k.id = j.id /\ k.count >= j.count /\ k.seen >= j.seen /\ (k.open => j.open)
  BY DEF Units!KeepsHistory
<1> QED BY <1>1, <1>2, <1>3

LEMMA StartStep ==
  ASSUME UnitsInvariant, NEW u \in Unit, Units!StartCopy(u) \/ Units!StartPublish(u)
  PROVE  UnitsInvariant'
<1>1. /\ lock = Free /\ lock' = u /\ UNCHANGED <<committed, working, nextId>>
      /\ unitPc' \in [Unit -> {"none", "copy", "work", "publish"}]
      /\ unitPc' = [unitPc EXCEPT ![u] = unitPc'[u]] /\ unitPc'[u] \in {"copy", "publish"}
      /\ unitPc'[u] = "publish" => unitPc[u] = "work" /\ alone' = alone
      /\ step' = [step EXCEPT ![u] = 1] /\ step' \in [Unit -> 1..3]
      /\ alone' \in [Unit -> BOOLEAN] /\ \A w \in Unit \ {u} : alone'[w] = alone[w]
  <2>1. CASE Units!StartCopy(u)
    BY <2>1 DEF UnitsInvariant, Units!StartCopy
  <2>2. CASE Units!StartPublish(u)
    BY <2>2 DEF UnitsInvariant, Units!StartPublish
  <2> QED BY <2>1, <2>2
<1>2. lock' # Free
  BY <1>1, StoresAssumption DEF Units!MemoryConstants
<1>3. ASSUME NEW w \in Unit
      PROVE  UnitOK(w)'
  <2>1. CASE w = u
    <3>1. step'[u] = 1
      BY <1>1 DEF UnitsInvariant
    <3>2. Agreeing(u)'
      BY <3>1 DEF Agreeing
    <3> QED BY <1>1, <2>1, <3>2 DEF UnitOK, UnitsInvariant
  <2>2. CASE w # u
    <3>1. unitPc'[w] = unitPc[w] /\ alone'[w] = alone[w] /\ unitPc[w] \notin {"copy", "publish"}
      BY <1>1, <2>2, LockHeld DEF UnitsInvariant
    <3> QED BY <1>1, <3>1 DEF UnitOK, UnitsInvariant
  <2> QED BY <2>1, <2>2
<1> QED BY <1>1, <1>2, <1>3 DEF UnitsInvariant

LEMMA CollectionPassed ==
  ASSUME UnitsInvariant, NEW u \in Unit
  PROVE  LET c == Units!Collections[step[u]]
         IN /\ Len(Units!Collections) = 3
            /\ \/ step[u] = 1 /\ c = "devices"
               \/ step[u] = 2 /\ c = "snapshots"
               \/ step[u] = 3 /\ c = "incidents"
BY DEF UnitsInvariant, Units!Collections

LEMMA CopyNextStep ==
  ASSUME UnitsInvariant, NEW u \in Unit, Units!CopyNext(u)
  PROVE  UnitsInvariant'
<1> DEFINE c == Units!Collections[step[u]]
           new == [working[u] EXCEPT ![c] = committed[c]]
<1>1. /\ unitPc[u] = "copy" /\ lock = u /\ Agreeing(u) /\ Units!Referential(committed)
      /\ committed \in Stores /\ working[u] \in Stores
  BY DEF UnitsInvariant, UnitOK, Units!CopyNext
<1>2. /\ Len(Units!Collections) = 3
      /\ \/ step[u] = 1 /\ c = "devices"
         \/ step[u] = 2 /\ c = "snapshots"
         \/ step[u] = 3 /\ c = "incidents"
  BY CollectionPassed
<1>3. /\ working' = [working EXCEPT ![u] = new] /\ UNCHANGED <<committed, nextId, alone>>
  BY DEF Units!CopyNext
<1>4. /\ new \in Stores
      /\ new.devices = IF c = "devices" THEN committed.devices ELSE working[u].devices
      /\ new.snapshots = IF c = "snapshots" THEN committed.snapshots ELSE working[u].snapshots
      /\ new.incidents = IF c = "incidents" THEN committed.incidents ELSE working[u].incidents
  BY <1>1, <1>2, ReplacedCollection
<1> HIDE DEF c, new
<1>5. working' \in [Unit -> Stores] /\ working'[u] = new /\ \A w \in Unit \ {u} : working'[w] = working[w]
  BY <1>3, <1>4 DEF UnitsInvariant
<1>6. \A w \in Unit \ {u} : unitPc[w] \notin {"copy", "publish"}
  BY <1>1, LockHeld
<1>7. CASE step[u] = 3
  <2>1. /\ unitPc' = [unitPc EXCEPT ![u] = "work"] /\ lock' = Free /\ UNCHANGED step
    BY <1>1, <1>2, <1>7 DEF Units!CopyNext
  <2>2. /\ new.devices = committed.devices /\ new.snapshots = committed.snapshots
        /\ new.incidents = committed.incidents
    BY <1>1, <1>2, <1>4, <1>7 DEF Agreeing
  <2>3. Units!Referential(new) /\ Units!KeepsHistory(committed.incidents, new.incidents)
    BY <1>1, <2>2, HistoryKept DEF Units!Referential
  <2>4. UnitOK(u)'
    BY <1>3, <1>5, <2>1, <2>3 DEF UnitOK, UnitsInvariant
  <2>5. \A w \in Unit \ {u} : UnitOK(w)'
    BY <1>3, <1>5, <1>6, <2>1 DEF UnitOK, UnitsInvariant
  <2> QED BY <1>1, <1>3, <1>5, <2>1, <2>4, <2>5 DEF UnitsInvariant
<1>8. CASE step[u] # 3
  <2>1. /\ step' = [step EXCEPT ![u] = @ + 1] /\ UNCHANGED <<unitPc, lock>>
    BY <1>2, <1>8 DEF Units!CopyNext
  <2>2. step' \in [Unit -> 1..3] /\ step'[u] = step[u] + 1
    BY <1>2, <1>8, <2>1 DEF UnitsInvariant
  <2>3. Agreeing(u)'
    BY <1>1, <1>2, <1>3, <1>4, <1>5, <1>8, <2>2 DEF Agreeing
  <2>4. UnitOK(u)'
    BY <1>1, <1>3, <2>1, <2>3 DEF UnitOK
  <2>5. \A w \in Unit \ {u} : UnitOK(w)'
    BY <1>3, <1>5, <1>6, <2>1 DEF UnitOK, UnitsInvariant
  <2> QED BY <1>1, <1>3, <1>5, <2>1, <2>2, <2>4, <2>5 DEF UnitsInvariant
<1> QED BY <1>7, <1>8

LEMMA PublishNextStep ==
  ASSUME UnitsInvariant, NEW u \in Unit, Units!PublishNext(u)
  PROVE  UnitsInvariant'
<1> DEFINE c == Units!Collections[step[u]]
           new == [committed EXCEPT ![c] = working[u][c]]
<1>1. /\ unitPc[u] = "publish" /\ lock = u /\ lock # Free /\ Agreeing(u) /\ Units!Referential(working[u])
      /\ committed \in Stores /\ working[u] \in Stores
  BY StoresAssumption DEF UnitsInvariant, UnitOK, Units!PublishNext, Units!MemoryConstants
<1>2. /\ Len(Units!Collections) = 3
      /\ \/ step[u] = 1 /\ c = "devices"
         \/ step[u] = 2 /\ c = "snapshots"
         \/ step[u] = 3 /\ c = "incidents"
  BY CollectionPassed
<1>3. committed' = new /\ UNCHANGED <<working, nextId>>
  BY DEF Units!PublishNext
<1>4. /\ new \in Stores
      /\ new.devices = IF c = "devices" THEN working[u].devices ELSE committed.devices
      /\ new.snapshots = IF c = "snapshots" THEN working[u].snapshots ELSE committed.snapshots
      /\ new.incidents = IF c = "incidents" THEN working[u].incidents ELSE committed.incidents
  BY <1>1, <1>2, ReplacedCollection
<1> HIDE DEF c, new
<1>5. \A w \in Unit \ {u} : unitPc[w] \notin {"copy", "publish"}
  BY <1>1, LockHeld
<1>6. CASE step[u] = 3
  <2>1. /\ unitPc' = [unitPc EXCEPT ![u] = "work"] /\ lock' = Free /\ UNCHANGED step
        /\ alone' = [w \in Unit |-> w = u]
    BY <1>2, <1>6 DEF Units!PublishNext
  <2>2. /\ new.devices = working[u].devices /\ new.snapshots = working[u].snapshots
        /\ new.incidents = working[u].incidents
    BY <1>1, <1>2, <1>4, <1>6 DEF Agreeing
  <2>3. Units!Referential(new) /\ Units!KeepsHistory(new.incidents, working[u].incidents)
    BY <1>1, <2>2, HistoryKept DEF Units!Referential
  <2>4. UnitOK(u)'
    BY <1>1, <1>3, <2>1, <2>3 DEF UnitOK, UnitsInvariant
  <2>5. ASSUME NEW w \in Unit \ {u}
        PROVE  UnitOK(w)'
    <3>1. unitPc'[w] = unitPc[w] /\ ~alone'[w]
      BY <2>1 DEF UnitsInvariant
    <3> QED BY <1>3, <1>5, <3>1 DEF UnitOK, UnitsInvariant
  <2>6. alone' \in [Unit -> BOOLEAN]
    BY <2>1
  <2> QED BY <1>1, <1>3, <1>4, <2>1, <2>3, <2>4, <2>5, <2>6 DEF UnitsInvariant
<1>7. CASE step[u] # 3
  <2>1. /\ step' = [step EXCEPT ![u] = @ + 1] /\ UNCHANGED <<unitPc, lock, alone>>
    BY <1>2, <1>7 DEF Units!PublishNext
  <2>2. step' \in [Unit -> 1..3] /\ step'[u] = step[u] + 1
    BY <1>2, <1>7, <2>1 DEF UnitsInvariant
  <2>3. Agreeing(u)' /\ new.incidents = committed.incidents
    BY <1>1, <1>2, <1>3, <1>4, <1>7, <2>2 DEF Agreeing
  <2>4. UnitOK(u)'
    BY <1>1, <1>3, <2>1, <2>3 DEF UnitOK, UnitsInvariant
  <2>5. \A w \in Unit \ {u} : UnitOK(w)'
    BY <1>3, <1>5, <2>1, <2>3 DEF UnitOK, UnitsInvariant
  <2> QED BY <1>1, <1>3, <1>4, <2>1, <2>2, <2>4, <2>5 DEF UnitsInvariant
<1> QED BY <1>6, <1>7

LEMMA CloseStep ==
  ASSUME UnitsInvariant, NEW u \in Unit, Units!Close(u)
  PROVE  UnitsInvariant'
<1>1. Units!EmptyStore \in Stores
  BY DEF Units!EmptyStore, Stores, Units!StoreType
<1>2. \A w \in Unit : UnitOK(w)'
  BY DEF Units!Close, UnitOK, UnitsInvariant, Agreeing
<1> QED BY <1>1, <1>2 DEF Units!Close, UnitsInvariant

(* What the repositories change is the unit's own copy: it stays           *)
(* referential, and no incident of it is lost.                             *)
LEMMA ChangeStep ==
  ASSUME UnitsInvariant, NEW u \in Unit, unitPc[u] = "work",
         NEW st \in Stores, working' = [working EXCEPT ![u] = st],
         UNCHANGED <<committed, lock, unitPc, step, alone>>,
         nextId' \in 1..MaxIncidents + 1,
         Units!Referential(st), Units!KeepsHistory(working[u].incidents, st.incidents)
  PROVE  UnitsInvariant'
<1>1. working' \in [Unit -> Stores] /\ working'[u] = st /\ \A w \in Unit \ {u} : working'[w] = working[w]
  BY DEF UnitsInvariant
<1>2. alone[u] => Units!KeepsHistory(committed.incidents, st.incidents)
  BY HistoryKeptTwice DEF UnitsInvariant, UnitOK
<1>3. UnitOK(u)'
  BY <1>1, <1>2 DEF UnitOK, UnitsInvariant
<1>4. \A w \in Unit \ {u} : UnitOK(w)'
  BY <1>1 DEF UnitOK, UnitsInvariant, Agreeing
<1> QED BY <1>1, <1>3, <1>4 DEF UnitsInvariant

LEMMA SaveDeviceStep ==
  ASSUME UnitsInvariant, NEW u \in Unit, NEW d \in Device, NEW s \in Snapshot \cup {NoSnapshot},
         Units!SaveDevice(u, d, s)
  PROVE  UnitsInvariant'
<1> DEFINE R == {r \in working[u].devices : r.id # d} \cup {[id |-> d, current |-> s]}
           st == [working[u] EXCEPT !["devices"] = R]
<1>1. /\ unitPc[u] = "work" /\ working[u] \in Stores /\ Units!Referential(working[u])
      /\ working' = [working EXCEPT ![u] = st] /\ UNCHANGED <<committed, lock, unitPc, step, alone, nextId>>
      /\ s # NoSnapshot => \E r \in working[u].snapshots : r.id = s
      /\ nextId \in 1..MaxIncidents + 1
  BY DEF UnitsInvariant, UnitOK, Units!SaveDevice, Units!Change
<1>2. R \subseteq Units!DeviceRow
  BY <1>1 DEF Stores, Units!StoreType, Units!DeviceRow
<1>3. ASSUME NEW e \in working[u].devices
      PROVE  \E f \in R : f.id = e.id
  <2>1. CASE e.id = d
    <3>1. [id |-> d, current |-> s] \in R
      OBVIOUS
    <3> QED BY <2>1, <3>1
  <2>2. CASE e.id # d
    <3>1. e \in R
      BY <2>2
    <3> QED BY <3>1
  <2> QED BY <2>1, <2>2
<1>4. \A f \in R : f.current = NoSnapshot \/ \E r \in working[u].snapshots : r.id = f.current
  BY <1>1 DEF Units!Referential
<1> HIDE DEF R
<1>5. /\ st \in Stores /\ st.devices = R
      /\ st.snapshots = working[u].snapshots /\ st.incidents = working[u].incidents
  BY <1>1, <1>2 DEF Stores, Units!StoreType
<1> HIDE DEF st
<1>6. Units!Referential(st)
  BY <1>1, <1>3, <1>4, <1>5 DEF Units!Referential
<1>7. Units!KeepsHistory(working[u].incidents, st.incidents)
  BY <1>1, <1>5, HistoryKept
<1> QED BY <1>1, <1>5, <1>6, <1>7, ChangeStep

LEMMA AddSnapshotStep ==
  ASSUME UnitsInvariant, NEW u \in Unit, NEW d \in Device, NEW s \in Snapshot,
         Units!AddSnapshot(u, s, d)
  PROVE  UnitsInvariant'
<1> DEFINE R == working[u].snapshots \cup {[id |-> s, device |-> d]}
           st == [working[u] EXCEPT !["snapshots"] = R]
<1>1. /\ unitPc[u] = "work" /\ working[u] \in Stores /\ Units!Referential(working[u])
      /\ working' = [working EXCEPT ![u] = st] /\ UNCHANGED <<committed, lock, unitPc, step, alone, nextId>>
      /\ \E e \in working[u].devices : e.id = d
      /\ nextId \in 1..MaxIncidents + 1
  BY DEF UnitsInvariant, UnitOK, Units!AddSnapshot, Units!Change, Units!Known
<1>2. R \subseteq Units!SnapshotRow
  BY <1>1 DEF Stores, Units!StoreType, Units!SnapshotRow
<1>3. \A r \in R : r \in working[u].snapshots \/ r.device = d
  OBVIOUS
<1>4. working[u].snapshots \subseteq R
  OBVIOUS
<1> HIDE DEF R
<1>5. /\ st \in Stores /\ st.snapshots = R
      /\ st.devices = working[u].devices /\ st.incidents = working[u].incidents
  BY <1>1, <1>2 DEF Stores, Units!StoreType
<1> HIDE DEF st
<1>6. Units!Referential(st)
  BY <1>1, <1>3, <1>4, <1>5 DEF Units!Referential
<1>7. Units!KeepsHistory(working[u].incidents, st.incidents)
  BY <1>1, <1>5, HistoryKept
<1> QED BY <1>1, <1>5, <1>6, <1>7, ChangeStep

(* The step for a change of the incidents, from what it leaves.            *)
LEMMA IncidentsStep ==
  ASSUME UnitsInvariant, NEW u \in Unit, NEW R, Units!Change(u, "incidents", R),
         nextId' \in 1..MaxIncidents + 1, R \subseteq Units!IncidentRow,
         \A i \in R : \E d \in working[u].devices : d.id = i.device,
         Units!KeepsHistory(working[u].incidents, R)
  PROVE  UnitsInvariant'
<1> DEFINE st == [working[u] EXCEPT !["incidents"] = R]
<1>1. /\ unitPc[u] = "work" /\ working[u] \in Stores /\ Units!Referential(working[u])
      /\ working' = [working EXCEPT ![u] = st] /\ UNCHANGED <<committed, lock, unitPc, step, alone>>
  BY DEF UnitsInvariant, UnitOK, Units!Change
<1>5. /\ st \in Stores /\ st.incidents = R
      /\ st.devices = working[u].devices /\ st.snapshots = working[u].snapshots
  BY <1>1 DEF Stores, Units!StoreType
<1> HIDE DEF st
<1>6. Units!Referential(st)
  BY <1>1, <1>5 DEF Units!Referential
<1> QED BY <1>1, <1>5, <1>6, ChangeStep

(* An incident replaced by one of the same identity and device that has    *)
(* lost nothing.                                                           *)
LEMMA ReplacedIncident ==
  ASSUME UnitsInvariant, NEW u \in Unit, unitPc[u] = "work",
         NEW i \in working[u].incidents, NEW j \in Units!IncidentRow,
         j.id = i.id, j.device = i.device, j.count >= i.count, j.seen >= i.seen, j.open => i.open
  PROVE  LET R == (working[u].incidents \ {i}) \cup {j}
         IN /\ R \subseteq Units!IncidentRow
            /\ \A k \in R : \E d \in working[u].devices : d.id = k.device
            /\ Units!KeepsHistory(working[u].incidents, R)
<1> DEFINE R == (working[u].incidents \ {i}) \cup {j}
<1>1. working[u] \in Stores /\ Units!Referential(working[u])
  BY DEF UnitsInvariant, UnitOK
<1>2. R \subseteq Units!IncidentRow
  BY <1>1 DEF Stores, Units!StoreType
<1>3. \A k \in R : \E d \in working[u].devices : d.id = k.device
  BY <1>1 DEF Units!Referential
<1>4. Units!KeepsHistory(working[u].incidents, R)
  <2> SUFFICES ASSUME NEW k \in working[u].incidents
               PROVE  \E n \in R : n.id = k.id /\ n.count >= k.count /\ n.seen >= k.seen /\ (n.open => k.open)
    BY DEF Units!KeepsHistory
  <2>1. CASE k = i
    BY <2>1
  <2>2. CASE k # i
    <3>1. k \in R /\ k \in Units!IncidentRow
      BY <1>1, <2>2 DEF Stores, Units!StoreType
    <3>2. k.count \in Nat /\ k.seen \in Nat
      BY <3>1 DEF Units!IncidentRow, Units!Time
    <3> QED BY <3>1, <3>2
  <2> QED BY <2>1, <2>2
<1> QED BY <1>2, <1>3, <1>4

LEMMA UpsertStep ==
  ASSUME UnitsInvariant, NEW u \in Unit, NEW d \in Device, NEW t \in Units!Time,
         Units!Upsert(u, d, t)
  PROVE  UnitsInvariant'
<1>0. /\ working[u] \in Stores /\ nextId \in 1..MaxIncidents + 1 /\ MaxIncidents \in Nat
      /\ \A i \in working[u].incidents : i \in Units!IncidentRow
  BY StoresAssumption DEF UnitsInvariant, Stores, Units!StoreType, Units!MemoryConstants
<1>1. CASE Units!OpenOf(u, d) = {}
  <2> DEFINE new == [id |-> nextId, device |-> d, seen |-> t, count |-> 1, open |-> TRUE]
             R == working[u].incidents \cup {new}
  <2>1. /\ Units!Known(u, d) /\ nextId <= MaxIncidents /\ nextId' = nextId + 1
        /\ Units!Change(u, "incidents", R) /\ unitPc[u] = "work"
    BY <1>1 DEF Units!Upsert, Units!Change
  <2>2. new \in Units!IncidentRow
    BY <1>0, <2>1 DEF Units!IncidentRow
  <2>3. R \subseteq Units!IncidentRow
    BY <1>0, <2>2
  <2>4. \A k \in R : \E e \in working[u].devices : e.id = k.device
    BY <2>1 DEF UnitsInvariant, UnitOK, Units!Referential, Units!Known
  <2>5. Units!KeepsHistory(working[u].incidents, R)
    BY <1>0, HistoryKept DEF Units!KeepsHistory
  <2> HIDE DEF R
  <2> QED BY <1>0, <2>1, <2>3, <2>4, <2>5, IncidentsStep
<1>2. CASE Units!OpenOf(u, d) # {}
  <2>1. PICK i \in Units!OpenOf(u, d) :
          /\ t >= i.seen
          /\ Units!Change(u, "incidents", (working[u].incidents \ {i}) \cup
               {[i EXCEPT !.seen = t, !.count = @ + 1]})
          /\ UNCHANGED nextId
    BY <1>2 DEF Units!Upsert
  <2> DEFINE j == [i EXCEPT !.seen = t, !.count = @ + 1]
             R == (working[u].incidents \ {i}) \cup {j}
  <2>2. i \in working[u].incidents /\ i \in Units!IncidentRow /\ unitPc[u] = "work"
    BY <1>0, <2>1 DEF Units!OpenOf, Units!Change
  <2>3. /\ j \in Units!IncidentRow /\ j.id = i.id /\ j.device = i.device
        /\ j.count >= i.count /\ j.seen >= i.seen /\ (j.open => i.open)
    <3>1. i.count \in Nat /\ i.count + 1 \in Nat \ {0} /\ i.open \in BOOLEAN
      BY <2>2 DEF Units!IncidentRow
    <3> DEFINE n == i.count + 1
    <3>4. j = [i EXCEPT !.seen = t, !.count = n]
      BY <2>2 DEF Units!IncidentRow
    <3>2. j.id = i.id /\ j.device = i.device /\ j.seen = t /\ j.count = i.count + 1 /\ j.open = i.open
      BY <2>2 DEF Units!IncidentRow
    <3>3. j \in Units!IncidentRow
      <4> n \in Nat \ {0}
        BY <3>1
      <4> HIDE DEF n, j
      <4> QED BY <2>2, <3>4 DEF Units!IncidentRow
    <3> HIDE DEF j
    <3> QED BY <2>1, <3>1, <3>2, <3>3
  <2> HIDE DEF j
  <2>4. /\ R \subseteq Units!IncidentRow
        /\ \A k \in R : \E e \in working[u].devices : e.id = k.device
        /\ Units!KeepsHistory(working[u].incidents, R)
    BY <2>2, <2>3, ReplacedIncident
  <2>5. Units!Change(u, "incidents", R)
    BY <2>1 DEF j
  <2> HIDE DEF R
  <2> QED BY <1>0, <2>1, <2>4, <2>5, IncidentsStep
<1> QED BY <1>1, <1>2

LEMMA ResolveStep ==
  ASSUME UnitsInvariant, NEW u \in Unit, NEW i \in working[u].incidents, Units!Resolve(u, i)
  PROVE  UnitsInvariant'
<1> DEFINE j == [i EXCEPT !.open = FALSE]
           R == (working[u].incidents \ {i}) \cup {j}
<1>1. /\ unitPc[u] = "work" /\ Units!Change(u, "incidents", R) /\ UNCHANGED nextId
      /\ i \in Units!IncidentRow /\ nextId \in 1..MaxIncidents + 1
  BY DEF Units!Resolve, Units!Change, UnitsInvariant, Stores, Units!StoreType
<1>2. /\ j \in Units!IncidentRow /\ j.id = i.id /\ j.device = i.device
      /\ j.count >= i.count /\ j.seen >= i.seen /\ ~j.open
  <2>1. i.count \in Nat \ {0} /\ i.seen \in Nat /\ i.seen \in Units!Time
    BY <1>1 DEF Units!IncidentRow, Units!Time
  <2>2. j.id = i.id /\ j.device = i.device /\ j.seen = i.seen /\ j.count = i.count /\ j.open = FALSE
    BY <1>1 DEF Units!IncidentRow
  <2>3. j \in Units!IncidentRow
    BY <1>1 DEF Units!IncidentRow
  <2> HIDE DEF j
  <2> QED BY <2>1, <2>2, <2>3
<1> HIDE DEF j
<1>3. /\ R \subseteq Units!IncidentRow
      /\ \A k \in R : \E e \in working[u].devices : e.id = k.device
      /\ Units!KeepsHistory(working[u].incidents, R)
  BY <1>1, <1>2, ReplacedIncident
<1> HIDE DEF R
<1> QED BY <1>1, <1>3, IncidentsStep

LEMMA UnitsStep ==
  ASSUME UnitsInvariant, [Units!Next]_(Units!vars)
  PROVE  UnitsInvariant'
<1>1. CASE UNCHANGED Units!vars
  BY <1>1 DEF UnitsInvariant, UnitOK, Agreeing, Units!vars
<1>2. ASSUME NEW u \in Unit, Units!StartCopy(u) \/ Units!StartPublish(u)
      PROVE  UnitsInvariant'
  BY <1>2, StartStep
<1>3. ASSUME NEW u \in Unit, Units!CopyNext(u)
      PROVE  UnitsInvariant'
  BY <1>3, CopyNextStep
<1>4. ASSUME NEW u \in Unit, Units!PublishNext(u)
      PROVE  UnitsInvariant'
  BY <1>4, PublishNextStep
<1>5. ASSUME NEW u \in Unit, Units!Close(u)
      PROVE  UnitsInvariant'
  BY <1>5, CloseStep
<1>6. ASSUME NEW u \in Unit, NEW d \in Device, NEW s \in Snapshot \cup {NoSnapshot}, Units!SaveDevice(u, d, s)
      PROVE  UnitsInvariant'
  BY <1>6, SaveDeviceStep
<1>7. ASSUME NEW u \in Unit, NEW d \in Device, NEW s \in Snapshot, Units!AddSnapshot(u, s, d)
      PROVE  UnitsInvariant'
  BY <1>7, AddSnapshotStep
<1>8. ASSUME NEW u \in Unit, NEW d \in Device, NEW t \in Units!Time, Units!Upsert(u, d, t)
      PROVE  UnitsInvariant'
  BY <1>8, UpsertStep
<1>9. ASSUME NEW u \in Unit, NEW i \in working[u].incidents, Units!Resolve(u, i)
      PROVE  UnitsInvariant'
  BY <1>9, ResolveStep
<1> QED BY <1>1, <1>2, <1>3, <1>4, <1>5, <1>6, <1>7, <1>8, <1>9 DEF Units!Next

LEMMA UnitsHold == Units!Spec => []UnitsInvariant
BY UnitsBegin, UnitsStep, PTL DEF Units!Spec

LEMMA UnitsConsistent ==
  ASSUME UnitsInvariant
  PROVE  Units!TypeOK /\ Units!NeverHybrid
<1>1. Len(Units!Collections) = 3
  BY DEF Units!Collections
<1> QED BY <1>1 DEF UnitsInvariant, UnitOK, Stores, Units!TypeOK, Units!NeverHybrid

(* A unit of work that no other unit's publication has overtaken publishes *)
(* a copy that still has every committed incident: only the third          *)
(* collection of a publication changes the committed incidents, and the    *)
(* unit that publishes them holds publish_lock.                            *)
THEOREM AlonePublicationKeeps == PersistenceSpec => AloneKeepsHistory
<1> DEFINE Kept == \A u \in Unit : alone[u] /\ unitPc[u] = "publish" =>
                     Units!KeepsHistory(committed.incidents, committed'.incidents)
<1>1. ASSUME UnitsInvariant, [Units!Next]_(Units!vars)
      PROVE  Kept
  <2> SUFFICES ASSUME NEW u \in Unit, alone[u], unitPc[u] = "publish"
               PROVE  Units!KeepsHistory(committed.incidents, committed'.incidents)
    OBVIOUS
  <2>1. committed \in Stores /\ Units!KeepsHistory(committed.incidents, committed.incidents)
    BY <1>1, HistoryKept DEF UnitsInvariant
  <2>2. CASE committed' = committed
    BY <2>1, <2>2
  <2>3. CASE committed' # committed
    <3>1. PICK w \in Unit : Units!PublishNext(w)
      <4>1. PICK w \in Unit :
              \/ Units!PublishNext(w)
              \/ Units!StartCopy(w) \/ Units!CopyNext(w) \/ Units!StartPublish(w) \/ Units!Close(w)
              \/ \E c, ids : Units!Change(w, c, ids)
        <5>1. PICK w \in Unit :
                \/ Units!PublishNext(w)
                \/ Units!StartCopy(w) \/ Units!CopyNext(w) \/ Units!StartPublish(w) \/ Units!Close(w)
                \/ \E d \in Device, s \in Snapshot \cup {NoSnapshot} : Units!SaveDevice(w, d, s)
                \/ \E d \in Device, s \in Snapshot : Units!AddSnapshot(w, s, d)
                \/ \E d \in Device, t \in Units!Time : Units!Upsert(w, d, t)
                \/ \E i \in working[w].incidents : Units!Resolve(w, i)
          BY <1>1, <2>3 DEF Units!Next, Units!vars
        <5>2. /\ \A d, s : Units!SaveDevice(w, d, s) => \E c, ids : Units!Change(w, c, ids)
              /\ \A d, s : Units!AddSnapshot(w, s, d) => \E c, ids : Units!Change(w, c, ids)
              /\ \A d, t : Units!Upsert(w, d, t) => \E c, ids : Units!Change(w, c, ids)
              /\ \A i : Units!Resolve(w, i) => \E c, ids : Units!Change(w, c, ids)
          BY Zenon DEF Units!SaveDevice, Units!AddSnapshot, Units!Upsert, Units!Resolve
        <5> QED BY <5>1, <5>2
      <4> QED
        BY <2>3, <4>1
        DEF Units!StartCopy, Units!CopyNext, Units!StartPublish, Units!Close, Units!Change
    <3>2. w = u
      BY <1>1, <3>1, LockHeld DEF Units!PublishNext
    <3> DEFINE c == Units!Collections[step[u]]
    <3>3. c \in {"devices", "snapshots", "incidents"}
      BY <1>1, CollectionPassed
    <3>4. committed' = [committed EXCEPT ![c] = working[u][c]] /\ working[u] \in Stores
      BY <1>1, <3>1, <3>2 DEF Units!PublishNext, UnitsInvariant
    <3> HIDE DEF c
    <3>5. committed'.incidents = IF c = "incidents" THEN working[u].incidents ELSE committed.incidents
      BY <2>1, <3>3, <3>4, ReplacedCollection
    <3> QED BY <1>1, <2>1, <3>5 DEF UnitsInvariant, UnitOK
  <2> QED BY <2>2, <2>3
<1>2. Units!Spec => [][Kept]_(Units!vars)
  BY <1>1, UnitsHold, PTL DEF Units!Spec
<1> QED BY <1>2, StoresAreTheirParts, PTL DEF AloneKeepsHistory, Units!AloneKeepsHistory

-----------------------------------------------------------------------------
(* The samples of a device: finitely many, and no two of one identity.     *)
LEMMA SameCardinality == \A S : History!Cardinality(S) = Cardinality(S)
BY DEF History!Cardinality, Cardinality

Ranked(S) ==
  /\ IsFiniteSet(S)
  /\ \A r \in S : r.id \in Nat /\ r.at \in Nat
  /\ \A r, q \in S : r.id = q.id => r = q

Newer(r, S) == {q \in S : History!Before(r, q)}

LEMMA NewestAre ==
  \A n, S : History!Newest(n, S) = {r \in S : Cardinality(Newer(r, S)) < n}
BY SameCardinality DEF History!Newest, Newer

LEMMA RankedSubset ==
  ASSUME NEW S, Ranked(S), NEW T, T \subseteq S
  PROVE  Ranked(T)
BY FS_Subset DEF Ranked

LEMMA BeforeIsAnOrder ==
  ASSUME NEW S, Ranked(S)
  PROVE  /\ \A r \in S : ~History!Before(r, r)
         /\ \A r, q \in S : r # q => History!Before(r, q) \/ History!Before(q, r)
         /\ \A r, q, p \in S : History!Before(r, q) /\ History!Before(q, p) => History!Before(r, p)
         /\ \A r, q \in S : History!Before(r, q) => r.at <= q.at
BY DEF Ranked, History!Before

LEMMA FewestNewer ==
  ASSUME NEW T \in SUBSET Nat, T # {}
  PROVE  \E x \in T : \A y \in T : x <= y
<1>1. PICK x \in T : \A y \in T : ~(<<y, x>> \in OpToRel(<, Nat))
  BY NatLessThanWellFounded, WFMin
<1>2. \A y \in T : ~(y < x)
  BY <1>1 DEF OpToRel
<1> QED BY <1>2

(* What comes later has strictly fewer samples after it. *)
LEMMA NewerIsSmaller ==
  ASSUME NEW S, Ranked(S), NEW r \in S, NEW q \in S, History!Before(r, q)
  PROVE  /\ Newer(q, S) \subseteq Newer(r, S)
         /\ Cardinality(Newer(q, S)) \in Nat /\ Cardinality(Newer(r, S)) \in Nat
         /\ Cardinality(Newer(q, S)) < Cardinality(Newer(r, S))
<1>1. Newer(q, S) \subseteq Newer(r, S) /\ q \in Newer(r, S) /\ q \notin Newer(q, S)
  BY BeforeIsAnOrder DEF Newer
<1>2. IsFiniteSet(Newer(r, S)) /\ IsFiniteSet(Newer(q, S))
  BY FS_Subset DEF Newer, Ranked
<1>3. Cardinality(Newer(q, S)) <= Cardinality(Newer(r, S)) /\ Cardinality(Newer(q, S)) # Cardinality(Newer(r, S))
  BY <1>1, <1>2, FS_Subset
<1> QED BY <1>1, <1>2, <1>3, FS_CardinalityType

LEMMA NewestExists ==
  ASSUME NEW S, Ranked(S), S # {}
  PROVE  \E m \in S : Newer(m, S) = {}
<1> DEFINE T == {Cardinality(Newer(r, S)) : r \in S}
<1>1. \A r \in S : Cardinality(Newer(r, S)) \in Nat
  BY FS_Subset, FS_CardinalityType DEF Newer, Ranked
<1>2. PICK m \in S : \A r \in S : Cardinality(Newer(m, S)) <= Cardinality(Newer(r, S))
  <2>1. T \in SUBSET Nat /\ T # {}
    BY <1>1
  <2>2. PICK x \in T : \A y \in T : x <= y
    BY <2>1, FewestNewer
  <2> QED BY <2>2
<1>3. ASSUME NEW q \in Newer(m, S)
      PROVE  FALSE
  <2>1. q \in S /\ History!Before(m, q)
    BY DEF Newer
  <2> QED BY <1>1, <1>2, <2>1, NewerIsSmaller
<1> QED BY <1>3

LEMMA OldestExists ==
  ASSUME NEW S, Ranked(S), S # {}
  PROVE  \E m \in S : \A q \in S \ {m} : History!Before(m, q)
<1> DEFINE n == Cardinality(S)
           T == {n - Cardinality(Newer(r, S)) : r \in S}
<1>1. n \in Nat /\ \A r \in S : Cardinality(Newer(r, S)) \in Nat /\ n - Cardinality(Newer(r, S)) \in Nat
  <2>1. n \in Nat
    BY FS_CardinalityType DEF Ranked
  <2>2. ASSUME NEW r \in S
        PROVE  Cardinality(Newer(r, S)) \in Nat /\ Cardinality(Newer(r, S)) <= n
    BY FS_Subset, FS_CardinalityType DEF Newer, Ranked
  <2> HIDE DEF n
  <2> QED BY <2>1, <2>2
<1>2. PICK m \in S : \A r \in S : n - Cardinality(Newer(m, S)) <= n - Cardinality(Newer(r, S))
  <2>1. T \in SUBSET Nat /\ T # {}
    BY <1>1
  <2>2. PICK x \in T : \A y \in T : x <= y
    BY <2>1, FewestNewer
  <2> QED BY <2>2
<1> HIDE DEF n
<1>3. ASSUME NEW q \in S \ {m}, ~History!Before(m, q)
      PROVE  FALSE
  <2>1. History!Before(q, m)
    BY <1>3, BeforeIsAnOrder
  <2>2. Cardinality(Newer(m, S)) < Cardinality(Newer(q, S))
    BY <2>1, NewerIsSmaller
  <2> QED BY <1>1, <1>2, <2>2
<1> QED BY <1>3

(* The newest of a set that is closed upwards in a larger one are the      *)
(* newest of the larger one that lie in it.                                *)
LEMMA NewestOfRecent ==
  ASSUME NEW n, NEW S, NEW T, T \subseteq S,
         \A r \in T, q \in S : History!Before(r, q) => q \in T
  PROVE  History!Newest(n, T) = History!Newest(n, S) \cap T
<1>1. \A r \in T : Newer(r, T) = Newer(r, S)
  BY DEF Newer
<1> QED BY <1>1, NewestAre

(* A sample that is among the newest of a set is among those of a part.    *)
LEMMA NewestOfPart ==
  ASSUME NEW n \in Nat, NEW S, Ranked(S), NEW T, T \subseteq S, NEW r \in T, r \in History!Newest(n, S)
  PROVE  r \in History!Newest(n, T)
<1>1. Newer(r, T) \subseteq Newer(r, S) /\ IsFiniteSet(Newer(r, S))
  BY FS_Subset DEF Newer, Ranked
<1>2. Cardinality(Newer(r, T)) <= Cardinality(Newer(r, S)) /\ Cardinality(Newer(r, S)) < n
  BY <1>1, FS_Subset, NewestAre
<1>3. Cardinality(Newer(r, T)) \in Nat /\ Cardinality(Newer(r, S)) \in Nat
  BY <1>1, FS_Subset, FS_CardinalityType
<1> QED BY <1>2, <1>3, NewestAre

(* Samples that were pruned never come back into the newest: pruning now   *)
(* or later is the same.                                                   *)
LEMMA PruningCommutes ==
  ASSUME NEW n \in Nat, NEW S, NEW X, Ranked(S \cup X)
  PROVE  History!Newest(n, History!Newest(n, S) \cup X) = History!Newest(n, S \cup X)
<1> DEFINE N1 == History!Newest(n, S)
           T == N1 \cup X
           U == S \cup X
<1>1. N1 \subseteq S /\ T \subseteq U /\ Ranked(S) /\ Ranked(T) /\ Ranked(U)
  <2>1. N1 \subseteq S
    BY NewestAre
  <2> QED BY <2>1, RankedSubset
<1>2. ASSUME NEW r \in History!Newest(n, U)
      PROVE  r \in History!Newest(n, T)
  <2>1. r \in U
    BY NewestAre
  <2>2. r \in T
    BY <1>1, <2>1, NewestOfPart
  <2> QED BY <1>1, <2>2, NewestOfPart
<1>3. ASSUME NEW r \in History!Newest(n, T)
      PROVE  r \in History!Newest(n, U)
  <2>1. r \in T /\ Cardinality(Newer(r, T)) < n
    BY NewestAre
  <2> DEFINE D == Newer(r, U) \ T
  <2>2. CASE D = {}
    <3>1. Newer(r, U) = Newer(r, T)
      BY <1>1, <2>2 DEF Newer
    <3> QED BY <1>1, <2>1, <3>1, NewestAre
  <2>3. CASE D # {}
    <3>1. Ranked(D)
      BY <1>1, RankedSubset DEF Newer
    <3>2. PICK q \in D : Newer(q, D) = {}
      BY <2>3, <3>1, NewestExists
    <3>3. q \in S /\ q \notin N1 /\ History!Before(r, q)
      BY <3>2 DEF Newer
    <3>4. Newer(q, S) \subseteq Newer(r, T)
      <4> SUFFICES ASSUME NEW p \in S, History!Before(q, p)
                   PROVE  p \in T /\ History!Before(r, p)
        BY DEF Newer
      <4>1. History!Before(r, p)
        BY <1>1, <2>1, <3>3, BeforeIsAnOrder
      <4>2. p \in D => p \in Newer(q, D)
        BY DEF Newer
      <4> QED BY <3>2, <4>1, <4>2 DEF Newer
    <3>5. IsFiniteSet(Newer(r, T)) /\ IsFiniteSet(Newer(q, S))
      BY <1>1, FS_Subset DEF Newer, Ranked
    <3>6. Cardinality(Newer(q, S)) <= Cardinality(Newer(r, T))
      BY <3>4, <3>5, FS_Subset
    <3>7. Cardinality(Newer(q, S)) \in Nat /\ Cardinality(Newer(r, T)) \in Nat
      BY <3>5, FS_CardinalityType
    <3>8. ~(Cardinality(Newer(q, S)) < n)
      BY <3>3, NewestAre
    <3> QED BY <2>1, <3>6, <3>7, <3>8
  <2> QED BY <2>2, <2>3
<1> QED BY <1>2, <1>3

(* The watermark of a set with a sample is the time of its newest one.     *)
LEMMA WatermarkIsNewest ==
  ASSUME NEW S, Ranked(S)
  PROVE  /\ History!Watermark(S) \in Nat
         /\ \A r \in S : r.at <= History!Watermark(S)
         /\ \A m \in S : (\A r \in S : r.at <= m.at) => History!Watermark(S) = m.at
         /\ S # {} => \E m \in S : Newer(m, S) = {} /\ History!Watermark(S) = m.at
<1>1. CASE S = {}
  BY <1>1 DEF History!Watermark
<1>2. CASE S # {}
  <2>1. PICK m \in S : Newer(m, S) = {}
    BY <1>2, NewestExists
  <2>2. \A r \in S : r.at <= m.at
    <3> SUFFICES ASSUME NEW r \in S PROVE r.at <= m.at
      OBVIOUS
    <3>1. r = m \/ History!Before(r, m)
      BY <2>1, BeforeIsAnOrder DEF Newer
    <3> QED BY <3>1, BeforeIsAnOrder DEF Ranked
  <2> DEFINE w == History!Watermark(S)
  <2>3. w \in {r.at : r \in S} /\ \A r \in S : r.at <= w
    BY <1>2, <2>2 DEF History!Watermark
  <2> HIDE DEF w
  <2>4. w \in Nat /\ \A k \in S : (\A r \in S : r.at <= k.at) => w = k.at
    BY <2>3 DEF Ranked
  <2> QED BY <2>1, <2>2, <2>3, <2>4 DEF w
<1> QED BY <1>1, <1>2

(* What PostgreSQL would select of a set of rows: the newest Cap in the    *)
(* window below the watermark.                                             *)
Retained(S) == History!Newest(Cap, History!GetRecent(S, History!Cutoff(History!Watermark(S))))

LEMMA CutoffsGrow ==
  /\ \A w \in Nat : History!Cutoff(w) \in Int /\ History!Cutoff(w) <= w
  /\ \A w, v \in Nat : w <= v => History!Cutoff(w) <= History!Cutoff(v)
  /\ Window \in Nat /\ Cap \in Nat /\ Cap > 0
BY StoresAssumption DEF History!HistoryConstants, History!Cutoff

(* Saving a sample in the retained ones retains what would be retained     *)
(* had nothing been pruned before.                                         *)
LEMMA RetentionKeeps ==
  ASSUME NEW S, NEW x, Ranked(S \cup {x})
  PROVE  History!MemorySave(Retained(S), x) = Retained(S \cup {x})
<1> DEFINE U == S \cup {x}
           M == Retained(S)
           A == M \cup {x}
           w == History!Watermark(S)
           v == History!Watermark(U)
           c == History!Cutoff(w)
           d == History!Cutoff(v)
           R == History!GetRecent(S, c)
           Q == History!GetRecent(S, d)
           X == History!GetRecent({x}, d)
<1>1. M \subseteq R /\ R \subseteq S /\ M \subseteq S
  BY NewestAre DEF Retained, History!GetRecent
<1>2. Ranked(S) /\ Ranked(R) /\ Ranked(U) /\ Ranked(A) /\ U # {}
  BY <1>1, RankedSubset
<1>3. w \in Nat /\ v \in Nat /\ w <= v
  <2>1. w \in Nat /\ v \in Nat
    BY <1>2, WatermarkIsNewest
  <2>2. CASE S = {}
    <3>1. w = 0
      BY <2>2 DEF History!Watermark
    <3> QED BY <2>1, <3>1
  <2>3. CASE S # {}
    <3>1. PICK m \in S : w = m.at
      BY <1>2, <2>3, WatermarkIsNewest
    <3>2. m.at <= v
      BY <1>2, WatermarkIsNewest
    <3> QED BY <2>1, <3>1, <3>2
  <2> QED BY <2>2, <2>3
<1>4. History!Watermark(A) = v
  <2>1. PICK m \in U : Newer(m, U) = {} /\ v = m.at
    BY <1>2, WatermarkIsNewest
  <2>2. m \in A
    <3> SUFFICES ASSUME m \in S
                 PROVE  m \in M
      BY <2>1
    <3>1. m.at <= w
      BY <1>2, WatermarkIsNewest
    <3>2. m \in R
      BY <1>3, <2>1, <3>1, CutoffsGrow DEF History!GetRecent
    <3>3. Newer(m, R) = {}
      BY <1>1, <2>1 DEF Newer
    <3> QED BY <3>2, <3>3, NewestAre, FS_EmptySet, CutoffsGrow DEF Retained
  <2>3. \A r \in A : r.at <= m.at
    <3>1. A \subseteq U
      BY <1>1
    <3>2. \A r \in U : r.at <= v
      BY <1>2, WatermarkIsNewest
    <3> HIDE DEF A, U, v
    <3> QED BY <2>1, <3>1, <3>2
  <2> HIDE DEF A, U, v
  <2> QED BY <1>2, <2>1, <2>2, <2>3, WatermarkIsNewest
<1>5. History!GetRecent(M, d) = History!Newest(Cap, Q)
  <2>1. Q \subseteq R
    <3>1. c \in Int /\ d \in Int /\ c <= d
      BY <1>3, CutoffsGrow
    <3>2. \A r \in S : r.at \in Nat
      BY <1>2 DEF Ranked
    <3> HIDE DEF c, d
    <3> QED BY <3>1, <3>2 DEF History!GetRecent
  <2>2. ASSUME NEW r \in Q, NEW q \in R, History!Before(r, q)
        PROVE  q \in Q
    <3>1. r \in S /\ q \in S /\ r.at >= d
      BY <1>1 DEF History!GetRecent
    <3>2. r.at \in Nat /\ q.at \in Nat /\ d \in Int
      BY <1>2, <1>3, <3>1, CutoffsGrow DEF Ranked
    <3>3. r.at <= q.at
      BY <1>2, <2>2, <3>1, BeforeIsAnOrder
    <3>4. q.at >= d
      <4> HIDE DEF d
      <4> QED BY <3>1, <3>2, <3>3
    <3> QED BY <3>1, <3>4 DEF History!GetRecent
  <2>3. History!Newest(Cap, Q) = History!Newest(Cap, R) \cap Q
    <3> HIDE DEF Q, R
    <3> QED BY <2>1, <2>2, NewestOfRecent
  <2>4. History!GetRecent(M, d) = History!Newest(Cap, R) \cap Q
    BY <1>1 DEF Retained, History!GetRecent
  <2> QED BY <2>3, <2>4
<1>6. /\ History!GetRecent(A, d) = History!GetRecent(M, d) \cup X
      /\ History!GetRecent(U, d) = Q \cup X
  BY DEF History!GetRecent
<1>7. Ranked(Q \cup X)
  BY <1>2, RankedSubset DEF History!GetRecent
<1>8. History!Newest(Cap, History!Newest(Cap, Q) \cup X) = History!Newest(Cap, Q \cup X)
  <2>1. Cap \in Nat
    BY CutoffsGrow
  <2> HIDE DEF Q, X
  <2> QED BY <1>7, <2>1, PruningCommutes, Zenon
<1>9. History!MemorySave(M, x) = History!Newest(Cap, History!GetRecent(A, History!Cutoff(History!Watermark(A))))
  BY DEF History!MemorySave
<1>10. Retained(U) = History!Newest(Cap, History!GetRecent(U, d))
  BY DEF Retained
<1> HIDE DEF U, M, A, w, v, c, d, R, Q, X
<1>11. History!Cutoff(History!Watermark(A)) = d
  BY <1>4 DEF d
<1>12. History!MemorySave(M, x) = Retained(U)
  BY <1>5, <1>6, <1>8, <1>9, <1>10, <1>11
<1> QED BY <1>12 DEF M, U

(* The samples a request evaluates precede its own, in its window and      *)
(* below the cap.                                                          *)
LEMMA EvaluatedBelowCap ==
  ASSUME NEW S, NEW e, Ranked(S \cup {e}), \A r \in S : r.id < e.id, NEW n \in Nat, n > 0,
         NEW seen \in SUBSET S,
         \A r \in seen : r.at <= e.at /\ Cardinality(Newer(r, S \cup {e})) < n
  PROVE  Cardinality(seen) < n
<1> DEFINE U == S \cup {e}
<1>1. CASE seen = {}
  BY <1>1, FS_EmptySet
<1>2. CASE seen # {}
  <2>1. Ranked(seen) /\ seen \subseteq U
    BY RankedSubset
  <2>2. PICK m \in seen : \A q \in seen \ {m} : History!Before(m, q)
    BY <1>2, <2>1, OldestExists
  <2>3. Cardinality(Newer(m, U)) < n
    OBVIOUS
  <2>4. History!Before(m, e)
    <3>1. m \in S /\ m.id < e.id /\ m.at <= e.at
      OBVIOUS
    <3>2. m.at \in Nat /\ e.at \in Nat
      BY <3>1 DEF Ranked
    <3> QED BY <3>1, <3>2 DEF History!Before
  <2>5. (seen \ {m}) \cup {e} \subseteq Newer(m, U)
    BY <2>1, <2>2, <2>4 DEF Newer
  <2>6. IsFiniteSet(seen) /\ IsFiniteSet(Newer(m, U))
    BY <2>1, FS_Subset DEF Newer, Ranked
  <2>7. Cardinality((seen \ {m}) \cup {e}) = Cardinality(seen)
    <3>1. e \notin seen \ {m} /\ m \in seen /\ Cardinality(seen) \in Nat
      BY <2>6, FS_CardinalityType DEF Ranked
    <3>2. IsFiniteSet(seen \ {m}) /\ Cardinality(seen \ {m}) = Cardinality(seen) - 1
      BY <2>6, <3>1, FS_RemoveElement
    <3> DEFINE T == seen \ {m}
    <3> HIDE DEF T
    <3>3. Cardinality(T \cup {e}) = Cardinality(T) + 1
      BY <3>1, <3>2, FS_AddElement DEF T
    <3> QED BY <3>1, <3>2, <3>3 DEF T
  <2>8. Cardinality(seen) <= Cardinality(Newer(m, U))
    <3> HIDE DEF U
    <3> QED BY <2>5, <2>6, <2>7, FS_Subset
  <2>9. Cardinality(seen) \in Nat /\ Cardinality(Newer(m, U)) \in Nat
    BY <2>6, FS_CardinalityType
  <2> QED BY <2>3, <2>8, <2>9
<1> QED BY <1>1, <1>2

(* Two samples of one time that both come after all of S count alike.      *)
LEMMA SameRank ==
  ASSUME NEW S, NEW e, NEW x, Ranked(S \cup {e}), Ranked(S \cup {x}),
         e.at = x.at, \A r \in S : r.id < e.id /\ r.id < x.id, NEW n \in Nat
  PROVE  \A r : (r \in History!Newest(n, S \cup {e}) /\ r.at <= e.at /\ r # e) <=>
              (r \in History!Newest(n, S \cup {x}) /\ r.at <= e.at /\ r # x)
<1>1. e \notin S /\ x \notin S
  BY DEF Ranked
<1>2. ASSUME NEW r \in S, r.at <= e.at
      PROVE  Cardinality(Newer(r, S \cup {e})) = Cardinality(Newer(r, S \cup {x}))
  <2>1. History!Before(r, e) /\ History!Before(r, x)
    BY <1>2 DEF Ranked, History!Before
  <2>2. Newer(r, S \cup {e}) = Newer(r, S) \cup {e} /\ Newer(r, S \cup {x}) = Newer(r, S) \cup {x}
    BY <2>1 DEF Newer
  <2>3. IsFiniteSet(Newer(r, S)) /\ e \notin Newer(r, S) /\ x \notin Newer(r, S)
    BY <1>1, FS_Subset DEF Newer, Ranked
  <2>4. /\ Cardinality(Newer(r, S) \cup {e}) = Cardinality(Newer(r, S)) + 1
        /\ Cardinality(Newer(r, S) \cup {x}) = Cardinality(Newer(r, S)) + 1
    <3> HIDE DEF Newer
    <3> QED BY <2>3, FS_AddElement
  <2> QED BY <2>2, <2>4
<1> QED BY <1>1, <1>2, NewestAre

-----------------------------------------------------------------------------
(* The telemetry history. *)

Pending == {s \in Session : requestPc[s] \in {"recent", "save"}}

Highest(s) == History!EffectiveWatermark(s)

(* What a request has read, and what it has inserted, against the table;   *)
(* a quiet request has seen what is committed now.                         *)
RequestOK(s) ==
  /\ requestPc[s] = "commit" =>
       /\ inserted[s] \in History!Row /\ inserted[s].id < nextSample
       /\ inserted[s].at = sample[s].at
       /\ \A r \in rows : r.id # inserted[s].id
       /\ quiet[s] => \A r \in rows : r.id < inserted[s].id
  /\ requestPc[s] \in {"save", "commit"} =>
       history[s] \subseteq History!GetRecent(rows, History!Cutoff(sample[s].at))
  /\ quiet[s] /\ requestPc[s] # "idle" => latest[s] = History!Watermark(rows)
  /\ quiet[s] /\ requestPc[s] \in {"save", "commit"} =>
       history[s] = History!GetRecent(rows, History!Cutoff(Highest(s)))

(* Every identity the sequence has given out is of one row, and enough are *)
(* left for the requests that have yet to insert.                          *)
IdentitiesOK ==
  /\ Ranked(rows) /\ \A r \in rows : r.id < nextSample
  /\ \A s, q \in Session : requestPc[s] = "commit" /\ requestPc[q] = "commit" /\ s # q =>
       inserted[s].id # inserted[q].id
  /\ IsFiniteSet(Pending) /\ nextSample + Cardinality(Pending) <= MaxSamples + 1

HistoryInvariant ==
  /\ History!TypeOK /\ IdentitiesOK
  /\ \A s \in Session : RequestOK(s)
  /\ memory = Retained(rows)

LEMMA HistoryConstantsAre ==
  /\ Readings \subseteq History!Reading /\ Readings # {} /\ Window \in Nat
  /\ Cap \in Nat /\ Cap > 0 /\ MaxSamples \in Nat /\ MaxSampled \in Nat /\ MaxSampled > 0
  /\ History!Time = 1..MaxSampled
BY StoresAssumption DEF History!HistoryConstants, History!RuleConstants, History!Time

LEMMA HistoryBegins ==
  ASSUME History!Init
  PROVE  HistoryInvariant
<1>1. Ranked(rows) /\ IsFiniteSet(Pending) /\ Cardinality(Pending) = 0
  <2>1. rows = {} /\ Pending = {}
    BY DEF History!Init, Pending
  <2> QED BY <2>1, FS_EmptySet DEF Ranked
<1>2. memory = Retained(rows)
  BY NewestAre DEF History!Init, Retained, History!GetRecent
<1>3. History!TypeOK
  BY HistoryConstantsAre DEF History!Init, History!TypeOK, History!Sample
<1>4. IdentitiesOK
  BY <1>1, HistoryConstantsAre DEF History!Init, IdentitiesOK
<1>5. \A s \in Session : RequestOK(s)
  BY DEF History!Init, RequestOK
<1> QED BY <1>2, <1>3, <1>4, <1>5 DEF HistoryInvariant

LEMMA WatermarkIsATime ==
  ASSUME HistoryInvariant
  PROVE  History!Watermark(rows) \in History!Time \cup {0}
<1>1. Ranked(rows) /\ rows \subseteq History!Row
  BY DEF HistoryInvariant, IdentitiesOK, History!TypeOK
<1>2. CASE rows = {}
  BY <1>2 DEF History!Watermark
<1>3. CASE rows # {}
  BY <1>1, <1>3, WatermarkIsNewest DEF History!Row
<1> QED BY <1>2, <1>3

LEMMA GetLatestStep ==
  ASSUME HistoryInvariant, NEW s \in Session, NEW t \in History!Time, NEW r \in Readings,
         History!GetLatest(s, t, r)
  PROVE  HistoryInvariant'
<1>1. /\ requestPc[s] = "idle" /\ requestPc' = [requestPc EXCEPT ![s] = "recent"]
      /\ sample' = [sample EXCEPT ![s] = [at |-> t, reading |-> r]]
      /\ latest' = [latest EXCEPT ![s] = History!Watermark(rows)]
      /\ quiet' = [quiet EXCEPT ![s] = TRUE]
      /\ UNCHANGED <<rows, nextSample, memory, reported, inserted, history>>
      /\ nextSample + Cardinality(Pending) + 1 <= MaxSamples + 1
  <2>1. nextSample + Cardinality(Pending) <= MaxSamples
    BY SameCardinality DEF History!GetLatest, Pending
  <2>2. Cardinality(Pending) \in Nat /\ nextSample \in Nat
    BY FS_CardinalityType, HistoryConstantsAre DEF HistoryInvariant, IdentitiesOK, History!TypeOK
  <2> QED BY <2>1, <2>2, HistoryConstantsAre DEF History!GetLatest
<1>2. History!TypeOK'
  <2>1. [at |-> t, reading |-> r] \in History!Sample
    BY HistoryConstantsAre DEF History!Sample
  <2> QED BY <1>1, <2>1, WatermarkIsATime DEF HistoryInvariant, History!TypeOK
<1>3. /\ requestPc'[s] = "recent" /\ latest'[s] = History!Watermark(rows)
      /\ \A q \in Session \ {s} : /\ requestPc'[q] = requestPc[q] /\ sample'[q] = sample[q]
                                  /\ latest'[q] = latest[q] /\ quiet'[q] = quiet[q]
  BY <1>1 DEF HistoryInvariant, History!TypeOK
<1>4. IsFiniteSet(Pending') /\ nextSample' + Cardinality(Pending') <= MaxSamples' + 1
  <2>1. Pending' = Pending \cup {s} /\ s \notin Pending /\ IsFiniteSet(Pending)
    BY <1>1, <1>3 DEF Pending, HistoryInvariant, IdentitiesOK
  <2>2. IsFiniteSet(Pending') /\ Cardinality(Pending') = Cardinality(Pending) + 1
    BY <2>1, FS_AddElement
  <2>3. Cardinality(Pending) \in Nat /\ nextSample \in Nat
    BY <2>1, FS_CardinalityType, HistoryConstantsAre DEF HistoryInvariant, History!TypeOK
  <2> QED BY <1>1, <2>2, <2>3, HistoryConstantsAre
<1>5. IdentitiesOK'
  BY <1>1, <1>3, <1>4 DEF HistoryInvariant, IdentitiesOK, Ranked
<1>6. RequestOK(s)'
  BY <1>1, <1>3 DEF RequestOK
<1>7. \A q \in Session \ {s} : RequestOK(q)'
  BY <1>1, <1>3 DEF HistoryInvariant, RequestOK, Highest, History!EffectiveWatermark
<1>8. memory' = Retained(rows')
  BY <1>1 DEF HistoryInvariant
<1> QED BY <1>2, <1>5, <1>6, <1>7, <1>8 DEF HistoryInvariant, Retained

LEMMA ReadRecentStep ==
  ASSUME HistoryInvariant, NEW s \in Session, History!ReadRecent(s)
  PROVE  HistoryInvariant'
<1>1. /\ requestPc[s] = "recent" /\ requestPc' = [requestPc EXCEPT ![s] = "save"]
      /\ history' = [history EXCEPT ![s] = History!GetRecent(rows, History!Cutoff(Highest(s)))]
      /\ UNCHANGED <<rows, nextSample, memory, reported, inserted, sample, latest, quiet>>
  BY DEF History!ReadRecent, Highest
<1>2. /\ requestPc'[s] = "save" /\ history'[s] = History!GetRecent(rows, History!Cutoff(Highest(s)))
      /\ \A q \in Session \ {s} : requestPc'[q] = requestPc[q] /\ history'[q] = history[q]
  BY <1>1 DEF HistoryInvariant, History!TypeOK
<1>3. History!TypeOK'
  <2>1. History!GetRecent(rows, History!Cutoff(Highest(s))) \subseteq History!Row
    BY DEF HistoryInvariant, History!TypeOK, History!GetRecent
  <2> QED BY <1>1, <2>1 DEF HistoryInvariant, History!TypeOK
<1>4. Pending' = Pending
  BY <1>1, <1>2 DEF Pending
<1>5. IdentitiesOK'
  BY <1>1, <1>2, <1>4 DEF HistoryInvariant, IdentitiesOK, Ranked
<1>6. RequestOK(s)'
  <2>1. history'[s] \subseteq History!GetRecent(rows, History!Cutoff(sample[s].at))
    <3>1. sample[s].at \in Nat /\ latest[s] \in Nat /\ \A r \in rows : r.at \in Nat
      BY HistoryConstantsAre DEF HistoryInvariant, History!TypeOK, History!Sample, History!Row
    <3>2. Highest(s) \in Nat /\ sample[s].at <= Highest(s)
      BY <3>1 DEF Highest, History!EffectiveWatermark
    <3>3. History!Cutoff(sample[s].at) <= History!Cutoff(Highest(s))
      BY <3>1, <3>2, CutoffsGrow
    <3>4. History!Cutoff(sample[s].at) \in Int /\ History!Cutoff(Highest(s)) \in Int
      BY <3>1, <3>2, CutoffsGrow
    <3> QED BY <1>2, <3>1, <3>3, <3>4 DEF History!GetRecent
  <2>2. quiet[s] => latest[s] = History!Watermark(rows)
    BY <1>1 DEF HistoryInvariant, RequestOK
  <2> QED BY <1>1, <1>2, <2>1, <2>2 DEF RequestOK, Highest, History!EffectiveWatermark
<1>7. \A q \in Session \ {s} : RequestOK(q)'
  BY <1>1, <1>2 DEF HistoryInvariant, RequestOK, Highest, History!EffectiveWatermark
<1>8. memory' = Retained(rows')
  BY <1>1 DEF HistoryInvariant
<1> QED BY <1>3, <1>5, <1>6, <1>7, <1>8 DEF HistoryInvariant, Retained

LEMMA SaveStep ==
  ASSUME HistoryInvariant, NEW s \in Session, History!Save(s)
  PROVE  HistoryInvariant'
<1> DEFINE x == [id |-> nextSample, at |-> sample[s].at, reading |-> sample[s].reading]
<1>1. /\ requestPc[s] = "save" /\ requestPc' = [requestPc EXCEPT ![s] = "commit"]
      /\ inserted' = [inserted EXCEPT ![s] = x] /\ nextSample' = nextSample + 1
      /\ UNCHANGED <<rows, memory, reported, sample, latest, history, quiet>>
  BY DEF History!Save
<1>2. IsFiniteSet(Pending) /\ Cardinality(Pending) \in Nat /\ s \in Pending /\ nextSample \in Nat /\ nextSample >= 1
  BY <1>1, FS_CardinalityType, HistoryConstantsAre DEF HistoryInvariant, IdentitiesOK, Pending, History!TypeOK
<1>3. /\ requestPc'[s] = "commit" /\ inserted'[s] = x
      /\ \A q \in Session \ {s} : requestPc'[q] = requestPc[q] /\ inserted'[q] = inserted[q]
  BY <1>1 DEF HistoryInvariant, History!TypeOK
<1>4. Pending' = Pending \ {s}
  BY <1>1, <1>3 DEF Pending
<1>5. IsFiniteSet(Pending') /\ Cardinality(Pending') = Cardinality(Pending) - 1
  BY <1>2, <1>4, FS_RemoveElement
<1>6. nextSample <= MaxSamples /\ nextSample' + Cardinality(Pending') <= MaxSamples + 1
  <2>1. Cardinality(Pending) # 0
    BY <1>2, FS_EmptySet
  <2>2. nextSample + Cardinality(Pending) <= MaxSamples + 1
    BY DEF HistoryInvariant, IdentitiesOK
  <2> QED BY <1>1, <1>2, <1>5, <2>1, <2>2, HistoryConstantsAre
<1>7. x \in History!Row /\ x.id = nextSample /\ x.at = sample[s].at
  BY <1>2, <1>6, HistoryConstantsAre DEF HistoryInvariant, History!TypeOK, History!Row, History!Sample
<1> HIDE DEF x
<1>8. History!TypeOK'
  BY <1>1, <1>2, <1>6, <1>7, HistoryConstantsAre DEF HistoryInvariant, History!TypeOK
<1>9. \A r \in rows : r.id \in Nat /\ r.id < nextSample
  BY DEF HistoryInvariant, IdentitiesOK, Ranked
<1>10. IdentitiesOK'
  <2>1. ASSUME NEW p \in Session, NEW q \in Session, requestPc'[p] = "commit", requestPc'[q] = "commit", p # q
        PROVE  inserted'[p].id # inserted'[q].id
    <3>1. \A k \in Session \ {s} : requestPc'[k] = "commit" => inserted'[k].id \in Nat /\ inserted'[k].id < nextSample
      BY <1>3, HistoryConstantsAre DEF HistoryInvariant, RequestOK, History!Row
    <3>2. CASE p = s
      BY <1>2, <1>3, <1>7, <2>1, <3>1, <3>2
    <3>3. CASE q = s
      BY <1>2, <1>3, <1>7, <2>1, <3>1, <3>3
    <3>4. CASE p # s /\ q # s
      BY <1>3, <2>1, <3>4 DEF HistoryInvariant, IdentitiesOK
    <3> QED BY <3>2, <3>3, <3>4
  <2>2. \A r \in rows' : r.id < nextSample'
    BY <1>1, <1>2, <1>9
  <2> QED BY <1>1, <1>5, <1>6, <2>1, <2>2 DEF HistoryInvariant, IdentitiesOK, Ranked
<1>11. RequestOK(s)'
  BY <1>1, <1>2, <1>3, <1>7, <1>9 DEF HistoryInvariant, RequestOK, Highest, History!EffectiveWatermark
<1>12. ASSUME NEW q \in Session \ {s}
       PROVE  RequestOK(q)'
  <2>1. requestPc'[q] = "commit" => inserted'[q].id < nextSample'
    BY <1>1, <1>2, <1>3, HistoryConstantsAre DEF HistoryInvariant, RequestOK, History!Row
  <2> QED BY <1>1, <1>3, <2>1 DEF HistoryInvariant, RequestOK, Highest, History!EffectiveWatermark
<1>13. memory' = Retained(rows')
  BY <1>1 DEF HistoryInvariant
<1> QED BY <1>8, <1>10, <1>11, <1>12, <1>13 DEF HistoryInvariant, Retained

(* What follows the last statement of a request.                           *)
LEMMA RequestEnded ==
  ASSUME HistoryInvariant, NEW s \in Session, requestPc[s] # "idle", History!End(s)
  PROVE  /\ requestPc'[s] = "idle"
         /\ \A q \in Session \ {s} : /\ requestPc'[q] = requestPc[q] /\ inserted'[q] = inserted[q]
                                     /\ latest'[q] = latest[q] /\ history'[q] = history[q]
         /\ inserted' \in [Session -> History!Row \cup {NoSample}]
         /\ requestPc' \in [Session -> {"idle", "recent", "save", "commit"}]
         /\ latest' \in [Session -> History!Time \cup {0}]
         /\ history' \in [Session -> SUBSET History!Row]
         /\ IsFiniteSet(Pending') /\ nextSample + Cardinality(Pending') <= MaxSamples + 1
<1>1. /\ requestPc'[s] = "idle"
      /\ \A q \in Session \ {s} : /\ requestPc'[q] = requestPc[q] /\ inserted'[q] = inserted[q]
                                  /\ latest'[q] = latest[q] /\ history'[q] = history[q]
      /\ inserted' \in [Session -> History!Row \cup {NoSample}]
      /\ requestPc' \in [Session -> {"idle", "recent", "save", "commit"}]
      /\ latest' \in [Session -> History!Time \cup {0}]
      /\ history' \in [Session -> SUBSET History!Row]
  BY DEF HistoryInvariant, History!TypeOK, History!End
<1>2. Pending' = Pending \ {s}
  BY <1>1 DEF Pending
<1>3. IsFiniteSet(Pending') /\ Cardinality(Pending') <= Cardinality(Pending)
  BY <1>2, FS_Subset DEF HistoryInvariant, IdentitiesOK
<1>4. Cardinality(Pending') \in Nat /\ Cardinality(Pending) \in Nat /\ nextSample \in Nat
  BY <1>3, FS_CardinalityType, HistoryConstantsAre DEF HistoryInvariant, IdentitiesOK, History!TypeOK
<1>5. nextSample + Cardinality(Pending) <= MaxSamples + 1
  BY DEF HistoryInvariant, IdentitiesOK
<1>6. nextSample + Cardinality(Pending') <= MaxSamples + 1
  BY <1>3, <1>4, <1>5, HistoryConstantsAre
<1> QED BY <1>1, <1>3, <1>6

LEMMA AbortStep ==
  ASSUME HistoryInvariant, NEW s \in Session, History!Abort(s)
  PROVE  HistoryInvariant'
<1>1. /\ requestPc[s] # "idle" /\ History!End(s)
      /\ quiet' = [quiet EXCEPT ![s] = FALSE]
      /\ UNCHANGED <<rows, nextSample, memory, reported, sample>>
  BY DEF History!Abort
<1>2. /\ requestPc'[s] = "idle"
      /\ \A q \in Session \ {s} : /\ requestPc'[q] = requestPc[q] /\ inserted'[q] = inserted[q]
                                  /\ latest'[q] = latest[q] /\ history'[q] = history[q]
      /\ IsFiniteSet(Pending') /\ nextSample + Cardinality(Pending') <= MaxSamples + 1
  BY <1>1, RequestEnded
<1>3. History!TypeOK'
  BY <1>1, RequestEnded DEF HistoryInvariant, History!TypeOK
<1>4. \A q \in Session \ {s} : quiet'[q] = quiet[q]
  BY <1>1 DEF HistoryInvariant, History!TypeOK
<1>5. IdentitiesOK'
  BY <1>1, <1>2 DEF HistoryInvariant, IdentitiesOK, Ranked
<1>6. RequestOK(s)'
  BY <1>2 DEF RequestOK
<1>7. \A q \in Session \ {s} : RequestOK(q)'
  BY <1>1, <1>2, <1>4 DEF HistoryInvariant, RequestOK, Highest, History!EffectiveWatermark
<1>8. memory' = Retained(rows')
  BY <1>1 DEF HistoryInvariant
<1> QED BY <1>3, <1>5, <1>6, <1>7, <1>8 DEF HistoryInvariant, Retained

LEMMA CommitStep ==
  ASSUME HistoryInvariant, NEW s \in Session, History!Commit(s)
  PROVE  HistoryInvariant'
<1> DEFINE x == inserted[s]
<1>1. /\ requestPc[s] = "commit" /\ History!End(s)
      /\ rows' = rows \cup {x} /\ memory' = History!MemorySave(memory, x)
      /\ DOMAIN reported' = DOMAIN reported \cup {x.id}
      /\ quiet' = [q \in Session |-> FALSE]
      /\ UNCHANGED <<nextSample, sample>>
  BY DEF History!Commit
<1>2. /\ requestPc'[s] = "idle"
      /\ \A q \in Session \ {s} : /\ requestPc'[q] = requestPc[q] /\ inserted'[q] = inserted[q]
                                  /\ latest'[q] = latest[q] /\ history'[q] = history[q]
      /\ IsFiniteSet(Pending') /\ nextSample + Cardinality(Pending') <= MaxSamples + 1
  BY <1>1, RequestEnded
<1>3. x \in History!Row /\ x.id < nextSample /\ \A r \in rows : r.id # x.id
  BY <1>1 DEF HistoryInvariant, RequestOK
<1> HIDE DEF x
<1>4. Ranked(rows') /\ \A r \in rows' : r.id < nextSample'
  <2>1. IsFiniteSet(rows')
    BY <1>1, FS_AddElement DEF HistoryInvariant, IdentitiesOK, Ranked
  <2>2. x.id \in Nat /\ x.at \in Nat
    BY <1>3, HistoryConstantsAre DEF History!Row
  <2> QED BY <1>1, <1>3, <2>1, <2>2 DEF HistoryInvariant, IdentitiesOK, Ranked
<1>5. memory' = Retained(rows')
  BY <1>1, <1>4, RetentionKeeps DEF HistoryInvariant
<1>6. memory' \subseteq rows'
  BY <1>5, NewestAre DEF Retained, History!GetRecent
<1>7. History!TypeOK'
  <2>1. rows' \subseteq History!Row /\ DOMAIN reported' = {r.id : r \in rows'}
    BY <1>1, <1>3 DEF HistoryInvariant, History!TypeOK
  <2>2. quiet' \in [Session -> BOOLEAN]
    BY <1>1
  <2> QED BY <1>1, <1>6, <2>1, <2>2, RequestEnded DEF HistoryInvariant, History!TypeOK
<1>8. IdentitiesOK'
  BY <1>1, <1>2, <1>4 DEF HistoryInvariant, IdentitiesOK
<1>9. RequestOK(s)'
  BY <1>2 DEF RequestOK
<1>10. ASSUME NEW q \in Session \ {s}
       PROVE  RequestOK(q)'
  <2>1. ~quiet'[q]
    BY <1>1
  <2>2. requestPc'[q] = "commit" => x.id # inserted'[q].id
    BY <1>1, <1>2 DEF HistoryInvariant, IdentitiesOK, x
  <2>3. requestPc'[q] \in {"save", "commit"} =>
          history'[q] \subseteq History!GetRecent(rows', History!Cutoff(sample'[q].at))
    BY <1>1, <1>2 DEF HistoryInvariant, RequestOK, History!GetRecent
  <2>4. requestPc'[q] = "commit" =>
          /\ inserted'[q] \in History!Row /\ inserted'[q].id < nextSample'
          /\ inserted'[q].at = sample'[q].at
          /\ \A r \in rows' : r.id # inserted'[q].id
    BY <1>1, <1>2, <2>2 DEF HistoryInvariant, RequestOK
  <2> QED BY <2>1, <2>3, <2>4, Zenon DEF RequestOK
<1> QED BY <1>5, <1>7, <1>8, <1>9, <1>10 DEF HistoryInvariant, Retained

LEMMA HistoryStep ==
  ASSUME HistoryInvariant, [History!Next]_(History!vars)
  PROVE  HistoryInvariant'
<1>1. CASE UNCHANGED History!vars
  BY <1>1 DEF HistoryInvariant, History!vars, History!sessionVars, History!TypeOK, IdentitiesOK, Ranked, Pending,
     RequestOK, Highest, History!EffectiveWatermark, Retained
<1>2. CASE History!Next
  BY <1>1, <1>2, GetLatestStep, ReadRecentStep, SaveStep, CommitStep, AbortStep DEF History!Next, History!Exhausted
<1> QED BY <1>1, <1>2

LEMMA HistoryHolds == History!Spec => []HistoryInvariant
BY HistoryBegins, HistoryStep, PTL DEF History!Spec

(* The sample a request is about, after every stored one of its time.      *)
LEMMA EntryComesLast ==
  ASSUME HistoryInvariant, NEW s \in Session, requestPc[s] = "commit"
  PROVE  LET e == History!Entry(sample[s])
         IN /\ e.at = sample[s].at /\ e.at = inserted[s].at /\ e.at \in Nat
            /\ \A r \in rows : r.id < e.id
            /\ Ranked(rows \cup {e}) /\ Ranked(rows \cup {inserted[s]})
<1> DEFINE e == History!Entry(sample[s])
<1>1. e.id = MaxSamples + 1 /\ e.at = sample[s].at
  BY DEF History!Entry
<1>2. /\ sample[s].at \in Nat /\ Ranked(rows) /\ rows \subseteq History!Row
      /\ inserted[s].at = sample[s].at /\ inserted[s] \in History!Row
      /\ \A r \in rows : r.id # inserted[s].id
  BY HistoryConstantsAre DEF HistoryInvariant, History!TypeOK, History!Sample, IdentitiesOK, RequestOK
<1> HIDE DEF e
<1>3. \A r \in rows : r.id < e.id /\ e.id \in Nat
  BY <1>1, <1>2, HistoryConstantsAre DEF History!Row
<1>4. e.id \in Nat
  BY <1>1, HistoryConstantsAre
<1>5. Ranked(rows \cup {e})
  BY <1>1, <1>2, <1>3, <1>4, FS_AddElement DEF Ranked
<1>6. inserted[s].id \in Nat
  BY <1>2, HistoryConstantsAre DEF History!Row
<1>7. Ranked(rows \cup {inserted[s]})
  BY <1>2, <1>6, FS_AddElement DEF Ranked
<1> QED BY <1>1, <1>2, <1>3, <1>5, <1>7 DEF e

LEMMA WatermarkWith ==
  ASSUME NEW S, NEW x, Ranked(S \cup {x})
  PROVE  History!Watermark(S \cup {x}) =
           IF History!Watermark(S) > x.at THEN History!Watermark(S) ELSE x.at
<1> DEFINE U == S \cup {x}
           w == History!Watermark(S)
           v == History!Watermark(U)
<1>1. Ranked(S) /\ Ranked(U) /\ U # {} /\ x \in U /\ x.at \in Nat /\ \A r \in S : r.at \in Nat
  BY RankedSubset DEF Ranked
<1>2. w \in Nat /\ v \in Nat /\ (\A r \in S : r.at <= w) /\ (S # {} => \E m \in S : w = m.at)
  BY <1>1, WatermarkIsNewest
<1>3. S = {} => w = 0
  BY DEF History!Watermark
<1>4. \A m \in U : (\A r \in U : r.at <= m.at) => v = m.at
  BY <1>1, WatermarkIsNewest
<1> HIDE DEF w, v
<1>5. CASE w > x.at
  <2>1. S # {}
    BY <1>1, <1>3, <1>5
  <2>2. PICK m \in S : w = m.at
    BY <1>2, <2>1
  <2>3. \A r \in U : r.at <= m.at
    BY <1>1, <1>2, <1>5, <2>2
  <2>4. v = m.at
    BY <1>4, <2>3
  <2> QED BY <1>5, <2>2, <2>4 DEF w, v
<1>6. CASE ~(w > x.at)
  <2>1. \A r \in U : r.at <= x.at
    BY <1>1, <1>2, <1>6
  <2>2. v = x.at
    BY <1>1, <1>4, <2>1
  <2> QED BY <1>6, <2>2 DEF w, v
<1> QED BY <1>5, <1>6

LEMMA InPlace ==
  ASSUME HistoryInvariant
  PROVE  History!EvaluationInPlace
<1> SUFFICES ASSUME NEW s \in Session, requestPc[s] = "commit"
             PROVE  LET seen == History!EvaluationHistory(history[s], sample[s])
                    IN /\ seen \subseteq rows
                       /\ History!Cardinality(seen) < Cap
                       /\ \A r \in seen : r.at \in History!Cutoff(sample[s].at)..sample[s].at
  BY DEF History!EvaluationInPlace
<1> DEFINE h == history[s]
           e == History!Entry(sample[s])
           seen == History!EvaluationHistory(h, sample[s])
<1>1. /\ e.at = sample[s].at /\ e.at \in Nat /\ Ranked(rows \cup {e})
      /\ \A r \in rows : r.id < e.id
  BY EntryComesLast
<1>2. h \subseteq rows /\ \A r \in h : r.at >= History!Cutoff(sample[s].at)
  BY DEF HistoryInvariant, RequestOK, History!GetRecent
<1>3. seen = {r \in History!Newest(Cap, h \cup {e}) : r.at <= sample[s].at} \ {e}
  BY DEF History!EvaluationHistory
<1> HIDE DEF h, e, seen
<1>4. seen \subseteq h /\ \A r \in seen : r.at <= e.at /\ Cardinality(Newer(r, h \cup {e})) < Cap
  BY <1>1, <1>3, NewestAre
<1>5. Ranked(h \cup {e}) /\ \A r \in h : r.id < e.id
  <2>1. h \cup {e} \subseteq rows \cup {e}
    BY <1>2
  <2> QED BY <1>1, <1>2, <2>1, RankedSubset
<1>6. Cardinality(seen) < Cap
  BY <1>4, <1>5, HistoryConstantsAre, EvaluatedBelowCap
<1>7. ASSUME NEW r \in seen
      PROVE  r.at \in History!Cutoff(sample[s].at)..sample[s].at
  <2>1. r.at \in Nat /\ r.at >= History!Cutoff(sample[s].at) /\ r.at <= sample[s].at
    BY <1>1, <1>2, <1>4 DEF Ranked
  <2>2. sample[s].at \in Nat /\ History!Cutoff(sample[s].at) \in Int
    BY <1>1, CutoffsGrow
  <2> QED BY <2>1, <2>2
<1>8. seen \subseteq rows /\ History!Cardinality(seen) < Cap
  BY <1>2, <1>4, <1>6, SameCardinality
<1> QED BY <1>7, <1>8 DEF seen, h

LEMMA AsRetained ==
  ASSUME HistoryInvariant
  PROVE  History!EvaluatesRetained
<1> SUFFICES ASSUME NEW s \in Session, requestPc[s] = "commit", quiet[s]
             PROVE  History!EvaluationHistory(history[s], sample[s]) =
                      {r \in History!MemorySave(memory, inserted[s]) : r.at <= sample[s].at} \ {inserted[s]}
  BY DEF History!EvaluatesRetained
<1> DEFINE h == history[s]
           e == History!Entry(sample[s])
           x == inserted[s]
           c == History!Cutoff(Highest(s))
<1>1. /\ e.at = sample[s].at /\ e.at = x.at /\ e.at \in Nat
      /\ Ranked(rows \cup {e}) /\ Ranked(rows \cup {x})
      /\ \A r \in rows : r.id < e.id /\ r.id < x.id
  BY EntryComesLast DEF HistoryInvariant, RequestOK
<1>2. h = History!GetRecent(rows, c) /\ latest[s] = History!Watermark(rows)
  BY DEF HistoryInvariant, RequestOK
<1>3. History!Watermark(rows \cup {x}) = Highest(s)
  <2>1. Ranked(rows \cup {x}) /\ x.at = sample[s].at /\ latest[s] = History!Watermark(rows)
    BY <1>1, <1>2
  <2>2. History!Watermark(rows \cup {x}) =
          IF History!Watermark(rows) > x.at THEN History!Watermark(rows) ELSE x.at
    <3> HIDE DEF x
    <3> QED BY <2>1, WatermarkWith, Zenon
  <2> QED BY <2>1, <2>2 DEF Highest, History!EffectiveWatermark
<1>4. History!MemorySave(memory, x) = Retained(rows \cup {x})
  BY <1>1, RetentionKeeps DEF HistoryInvariant
<1>5. History!MemorySave(memory, x) = History!Newest(Cap, History!GetRecent(rows \cup {x}, c))
  BY <1>3, <1>4 DEF Retained
<1>6. History!EvaluationHistory(h, sample[s]) = {r \in History!Newest(Cap, h \cup {e}) : r.at <= e.at} \ {e}
  BY <1>1 DEF History!EvaluationHistory
<1>7. Highest(s) \in Nat /\ c \in Int
  BY <1>1, <1>3, WatermarkIsNewest, CutoffsGrow
<1> HIDE DEF h, e, x, c
<1>8. CASE x.at >= c
  <2>1. History!GetRecent(rows \cup {x}, c) = h \cup {x}
    BY <1>2, <1>8 DEF History!GetRecent
  <2>2. h \subseteq rows
    BY <1>2 DEF History!GetRecent
  <2>3. /\ Ranked(h \cup {e}) /\ Ranked(h \cup {x})
        /\ \A r \in h : r.id < e.id /\ r.id < x.id
    <3>1. h \cup {e} \subseteq rows \cup {e} /\ h \cup {x} \subseteq rows \cup {x}
      BY <2>2
    <3> QED BY <1>1, <2>2, <3>1, RankedSubset
  <2>4. {r \in History!Newest(Cap, h \cup {e}) : r.at <= e.at} \ {e} =
        {r \in History!Newest(Cap, h \cup {x}) : r.at <= e.at} \ {x}
    <3>1. e.at = x.at /\ Cap \in Nat
      BY <1>1, HistoryConstantsAre
    <3>2. \A r : (r \in History!Newest(Cap, h \cup {e}) /\ r.at <= e.at /\ r # e) <=>
                (r \in History!Newest(Cap, h \cup {x}) /\ r.at <= e.at /\ r # x)
      BY <2>3, <3>1, SameRank
    <3> QED BY <3>2
  <2> QED BY <1>1, <1>5, <1>6, <2>1, <2>4 DEF h, x
<1>9. CASE ~(x.at >= c)
  <2>1. \A r \in h : ~(r.at <= e.at)
    <3>1. \A r \in h : r.at \in Nat /\ r.at >= c
      BY <1>1, <1>2 DEF History!GetRecent, Ranked
    <3> QED BY <1>1, <1>7, <1>9, <3>1
  <2>2. {r \in History!Newest(Cap, h \cup {e}) : r.at <= e.at} \ {e} = {}
    BY <2>1, NewestAre
  <2>3. \A r \in History!GetRecent(rows \cup {x}, c) : r \in h
    BY <1>2, <1>9 DEF History!GetRecent
  <2>4. {r \in History!Newest(Cap, History!GetRecent(rows \cup {x}, c)) : r.at <= e.at} = {}
    BY <2>1, <2>3, NewestAre
  <2> QED BY <1>1, <1>5, <1>6, <2>2, <2>4 DEF h, x
<1> QED BY <1>8, <1>9

-----------------------------------------------------------------------------
(* For any number of processes, units of work and requests: the policies   *)
(* stored are nobody's or one process's batch, and no start meets the      *)
(* unexpected error; no unit works on a hybrid of two publications; and    *)
(* identities and fields stay in their types.                              *)
THEOREM StoresStayConsistent == PersistenceSpec => []StoresConsistent
<1>1. IInv => TypeOK /\ StoredIsOneBatch /\ RetryReconciles
  BY DEF IInv
<1>2. HistoryInvariant => History!TypeOK
  BY DEF HistoryInvariant
<1>3. IInv /\ UnitsInvariant /\ HistoryInvariant => StoresConsistent
  BY <1>1, <1>2, UnitsConsistent DEF StoresConsistent
<1> QED BY <1>3, InductiveInvariant, UnitsHold, HistoryHolds, StoresAreTheirParts, PTL

(* For any window, cap and readings and any number of concurrent requests: *)
(* pruning on every save keeps what a query over all rows selects, and     *)
(* what a request evaluates before it saves is what the backend retains    *)
(* after it has.                                                           *)
THEOREM HistoryStaysAsRetained == PersistenceSpec => []HistoryAsRetained
<1>1. HistoryInvariant => HistoryAsRetained
  BY InPlace, AsRetained DEF HistoryAsRetained, HistoryInvariant, History!BackendsAgree, Retained
<1> QED BY <1>1, HistoryHolds, StoresAreTheirParts, PTL
=============================================================================
