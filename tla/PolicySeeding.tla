---------------------------- MODULE PolicySeeding ----------------------------
(***************************************************************************)
(* seed_if_missing on PostgreSQL at READ COMMITTED, statement by           *)
(* statement, in processes that start at the same time, crash and start    *)
(* again.  The batch runs in a savepoint.  An INSERT waits for a           *)
(* concurrent transaction that has inserted the same policy_id and fails   *)
(* when that one has committed; the savepoint is then rolled back and the  *)
(* batch tried once more.                                                  *)
(***************************************************************************)
EXTENDS Naturals, FiniteSets

CONSTANTS Process, Content, NoPolicy, N, Batch

ASSUME SeedingAssumption ==
  /\ N \in Nat \ {0}
  /\ NoPolicy \notin Content
  /\ Batch \in [Process -> [1..N -> Content]]

VARIABLES
  stored,   \* committed rows of configuration_policies
  staged,   \* the policies each transaction has inserted
  pc,       \* the statement each process runs next, or how it ended
  at,       \* the policy of the batch it is about
  attempt   \* 1, or 2 after the savepoint was rolled back

vars == <<stored, staged, pc, at, attempt>>

Policies == 1..N
Ended == {"idle", "seeded", "conflict", "unexpected"}

Init ==
  /\ stored = [i \in Policies |-> NoPolicy]
  /\ staged = [p \in Process |-> {}]
  /\ pc = [p \in Process |-> "idle"]
  /\ at = [p \in Process |-> 1]
  /\ attempt = [p \in Process |-> 1]

(* seed_slice1_policies opens a unit of work and the first savepoint. *)
Begin(p) ==
  /\ pc[p] \in Ended
  /\ pc' = [pc EXCEPT ![p] = "get"]
  /\ at' = [at EXCEPT ![p] = 1]
  /\ attempt' = [attempt EXCEPT ![p] = 1]
  /\ UNCHANGED <<stored, staged>>

(* An exception leaves the savepoint and the unit of work. *)
Ends(p, how) ==
  /\ staged' = [staged EXCEPT ![p] = {}]
  /\ pc' = [pc EXCEPT ![p] = how]
  /\ UNCHANGED <<stored, at, attempt>>

(* Faulty variant: a policy that is stored is never compared. *)
GetUncompared(p) ==
  /\ pc[p] = "get" /\ at[p] \in Policies
  /\ IF stored[at[p]] = NoPolicy
     THEN pc' = [pc EXCEPT ![p] = "insert"] /\ UNCHANGED at
     ELSE at' = [at EXCEPT ![p] = @ + 1] /\ UNCHANGED pc
  /\ UNCHANGED <<stored, staged, attempt>>

(* session.get, and what the row it finds leads to. *)
Get(p) ==
  /\ pc[p] = "get" /\ at[p] \in Policies
  /\ \/ /\ stored[at[p]] = NoPolicy
        /\ pc' = [pc EXCEPT ![p] = "insert"]
        /\ UNCHANGED <<stored, staged, at, attempt>>
     \/ /\ stored[at[p]] = Batch[p][at[p]]
        /\ at' = [at EXCEPT ![p] = @ + 1]
        /\ UNCHANGED <<stored, staged, pc, attempt>>
     \/ /\ stored[at[p]] \notin {NoPolicy, Batch[p][at[p]]}
        /\ Ends(p, "conflict")

(* The unique index makes the INSERT wait for the other transaction's end. *)
Waits(p) == \E q \in Process \ {p} : at[p] \in staged[q]

(* Faulty variant: an INSERT that waits gives the savepoint up. *)
InsertOrRetry(p) ==
  /\ pc[p] = "insert" /\ stored[at[p]] = NoPolicy
  /\ IF Waits(p)
     THEN /\ staged' = [staged EXCEPT ![p] = {}]
          /\ at' = [at EXCEPT ![p] = 1]
     ELSE /\ staged' = [staged EXCEPT ![p] = @ \cup {at[p]}]
          /\ at' = [at EXCEPT ![p] = @ + 1]
  /\ pc' = [pc EXCEPT ![p] = "get"]
  /\ UNCHANGED <<stored, attempt>>

Insert(p) ==
  /\ pc[p] = "insert" /\ ~Waits(p) /\ stored[at[p]] = NoPolicy
  /\ staged' = [staged EXCEPT ![p] = @ \cup {at[p]}]
  /\ at' = [at EXCEPT ![p] = @ + 1]
  /\ pc' = [pc EXCEPT ![p] = "get"]
  /\ UNCHANGED <<stored, attempt>>

(* IntegrityError: back to the savepoint, and the batch once more. *)
UniqueViolation(p) ==
  /\ pc[p] = "insert" /\ ~Waits(p) /\ stored[at[p]] # NoPolicy
  /\ staged' = [staged EXCEPT ![p] = {}]
  /\ pc' = [pc EXCEPT ![p] = IF attempt[p] = 1 THEN "get" ELSE "unexpected"]
  /\ attempt' = [attempt EXCEPT ![p] = 2]
  /\ at' = [at EXCEPT ![p] = 1]
  /\ UNCHANGED stored

Commit(p) ==
  /\ pc[p] = "get" /\ at[p] = N + 1
  /\ stored' = [i \in Policies |-> IF i \in staged[p] THEN Batch[p][i] ELSE stored[i]]
  /\ staged' = [staged EXCEPT ![p] = {}]
  /\ pc' = [pc EXCEPT ![p] = "seeded"]
  /\ UNCHANGED <<at, attempt>>

(* Any other exception, or a lost process: the transaction is rolled back. *)
Crash(p) == pc[p] \notin Ended /\ Ends(p, "idle")

Statement(p) == Get(p) \/ Insert(p) \/ UniqueViolation(p) \/ Commit(p)

Next == \E p \in Process : Begin(p) \/ Statement(p) \/ Crash(p)

Spec == Init /\ [][Next]_vars

-----------------------------------------------------------------------------
TypeOK ==
  /\ stored \in [Policies -> Content \cup {NoPolicy}]
  /\ staged \in [Process -> SUBSET Policies]
  /\ pc \in [Process -> Ended \cup {"get", "insert"}]
  /\ at \in [Process -> 1..N + 1]
  /\ attempt \in [Process -> 1..2]
  /\ \A p \in Process : pc[p] = "insert" => at[p] \in Policies

(* "Never a partially-seeded batch" (policy_repository.py): what is stored *)
(* is nothing, or all of one process's batch, never a mixture of two.      *)
StoredIsOneBatch ==
  \/ stored = [i \in Policies |-> NoPolicy]
  \/ \E p \in Process : stored = Batch[p]

(* The retry is enough: "the now-visible row is reconciled (no-op or       *)
(* conflict)", and no start ends in the unexpected PersistenceError.       *)
RetryReconciles == \A p \in Process : pc[p] # "unexpected"

(* Every process sees seed_if_missing as the one step PolicySeed promises. *)
Outcome == [p \in Process |-> IF pc[p] \in {"get", "insert", "idle"} THEN "starting" ELSE pc[p]]

Seed == INSTANCE PolicySeed WITH outcome <- Outcome

ImplementsSeed == Seed!Spec

(* Every start ends: inserts never wait for each other in a cycle, because *)
(* all batches list their policies in one order.                           *)
EveryStartEnds == \A p \in Process : pc[p] \in {"get", "insert"} ~> pc[p] \in Ended
=============================================================================
