----------------------------- MODULE PolicySeed -----------------------------
(***************************************************************************)
(* What seeding the configuration policies promises each process that      *)
(* starts: in one step its whole batch is stored, or found stored as it    *)
(* is, or refused because a stored policy says something else.  This is    *)
(* seed_if_missing of the in-memory backend, which validates the batch     *)
(* before it stores anything.                                              *)
(***************************************************************************)
EXTENDS Naturals

CONSTANTS
  Process,
  Content,   \* what a policy says: applies_to and required_acls
  NoPolicy,
  N,         \* the policies of a batch are numbered in its order
  Batch      \* the batch each process is built with

VARIABLES
  stored,   \* the policies every process sees
  outcome   \* of the latest start of each process

Policies == 1..N

Init ==
  /\ stored = [i \in Policies |-> NoPolicy]
  /\ outcome = [p \in Process |-> "starting"]

Conflicts(p) == \E i \in Policies : stored[i] \notin {NoPolicy, Batch[p][i]}

SeedIfMissing(p) ==
  /\ outcome[p] = "starting"
  /\ IF Conflicts(p)
     THEN /\ outcome' = [outcome EXCEPT ![p] = "conflict"]
          /\ UNCHANGED stored
     ELSE /\ outcome' = [outcome EXCEPT ![p] = "seeded"]
          /\ stored' = Batch[p]

Restart(p) ==
  /\ outcome' = [outcome EXCEPT ![p] = "starting"]
  /\ UNCHANGED stored

Next == \E p \in Process : SeedIfMissing(p) \/ Restart(p)

Spec == Init /\ [][Next]_<<stored, outcome>>
=============================================================================
