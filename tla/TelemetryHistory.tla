-------------------------- MODULE TelemetryHistory --------------------------
(***************************************************************************)
(* Telemetry ingestion for one device, statement by statement: the newest  *)
(* stored sample is read, then the recent ones, the sequence for the rule  *)
(* engine is built, the sample is saved, the rules are evaluated and the   *)
(* transaction commits.  Requests run in concurrent sessions on            *)
(* PostgreSQL at READ COMMITTED: every read sees what is committed when it *)
(* runs, and rows get their identity when they are inserted, not when they *)
(* are committed.                                                          *)
(*                                                                         *)
(* Beside the table runs the in-memory backend, given the same samples as  *)
(* they are committed.  It prunes on every save, where PostgreSQL keeps    *)
(* everything and filters when it is read.                                 *)
(***************************************************************************)
EXTENDS RuleEngine

CONSTANTS
  Session,
  Readings,    \* the readings that occur in an instance
  Window,      \* _RETENTION_WINDOW, inclusive
  Cap,         \* _RETENTION_CAP
  MaxSamples,  \* bound on the samples ever inserted
  NoRow

HistoryConstants ==
  /\ Readings \subseteq Reading /\ Readings # {} /\ Window \in Nat
  /\ Cap \in Nat \ {0} /\ MaxSamples \in Nat

Row == [id : 1..MaxSamples, at : Time, reading : Reading]

VARIABLES
  rows,      \* committed rows of telemetry_samples
  inserted,  \* the uncommitted row of each session, or NoRow
  nextId,    \* the table's identity sequence
  pc,        \* the statement each session runs next
  sample,    \* the sample each session ingests
  latest,    \* sampled_at of the newest stored sample it has read, or 0
  history,   \* the rows it has read
  memory,    \* the entries the in-memory backend retains
  quiet,     \* no other request has committed since the session's first read
  reported   \* for each committed row, the incidents its request upserted

sessionVars == <<inserted, pc, sample, latest, history, quiet>>
vars == <<rows, nextId, memory, reported, sessionVars>>

-----------------------------------------------------------------------------
(* Both backends order by sampled_at, then by insertion; a list in that    *)
(* order is the set of its rows.                                           *)
Before(r, q) == r.at < q.at \/ (r.at = q.at /\ r.id < q.id)

Newest(n, S) == {r \in S : Cardinality({q \in S : Before(r, q)}) < n}

InOrder(S) ==
  [k \in 1..Cardinality(S) |->
     CHOOSE r \in S : Cardinality({q \in S : Before(q, r)}) = k - 1]

Watermark(S) == IF S = {} THEN 0 ELSE CHOOSE t \in {r.at : r \in S} : \A r \in S : r.at <= t

Cutoff(t) == t - Window

(* SqlAlchemyTelemetryRepository.get_recent *)
GetRecent(S, since) == {r \in S : r.at >= since}

(* The current sample, placed after the stored ones of its instant. *)
Entry(current) == [id |-> MaxSamples + 1, at |-> current.at, reading |-> current.reading]

(* The whole is capped, and what remains before the current sample is what *)
(* the rules see before it.                                                *)
EvaluationHistory(h, current) ==
  LET capped == Newest(Cap, h \cup {Entry(current)})
  IN {r \in capped : r.at <= current.at} \ {Entry(current)}

BuildEvaluationSequence(h, current) ==
  Append(InOrder(EvaluationHistory(h, current)), Entry(current))

(* InMemoryTelemetryRepository.save: sort, prune to the window below the   *)
(* watermark, keep the last Cap.                                           *)
MemorySave(entries, row) ==
  LET all == entries \cup {row}
  IN Newest(Cap, GetRecent(all, Cutoff(Watermark(all))))

-----------------------------------------------------------------------------
Init ==
  /\ rows = {} /\ nextId = 1 /\ memory = {}
  /\ reported = [i \in {} |-> {}]
  /\ inserted = [s \in Session |-> NoRow]
  /\ pc = [s \in Session |-> "idle"]
  /\ sample = [s \in Session |-> [at |-> 1, reading |-> CHOOSE r \in Readings : TRUE]]
  /\ latest = [s \in Session |-> 0]
  /\ history = [s \in Session |-> {}]
  /\ quiet = [s \in Session |-> FALSE]

(* get_latest: a request starts with its first read of the samples. *)
GetLatest(s, t, r) ==
  /\ pc[s] = "idle"
  /\ nextId + Cardinality({q \in Session : pc[q] \in {"recent", "save"}}) <= MaxSamples
  /\ sample' = [sample EXCEPT ![s] = [at |-> t, reading |-> r]]
  /\ latest' = [latest EXCEPT ![s] = Watermark(rows)]
  /\ quiet' = [quiet EXCEPT ![s] = TRUE]
  /\ pc' = [pc EXCEPT ![s] = "recent"]
  /\ UNCHANGED <<rows, nextId, memory, reported, inserted, history>>

(* Faulty variant: the window ends at the current sample. *)
EffectiveWatermarkOwn(s) == sample[s].at

EffectiveWatermark(s) == IF latest[s] > sample[s].at THEN latest[s] ELSE sample[s].at

ReadRecent(s) ==
  /\ pc[s] = "recent"
  /\ history' = [history EXCEPT ![s] = GetRecent(rows, Cutoff(EffectiveWatermark(s)))]
  /\ pc' = [pc EXCEPT ![s] = "save"]
  /\ UNCHANGED <<rows, nextId, memory, reported, inserted, sample, latest, quiet>>

Save(s) ==
  /\ pc[s] = "save"
  /\ inserted' = [inserted EXCEPT ![s] =
       [id |-> nextId, at |-> sample[s].at, reading |-> sample[s].reading]]
  /\ nextId' = nextId + 1
  /\ pc' = [pc EXCEPT ![s] = "commit"]
  /\ UNCHANGED <<rows, memory, reported, sample, latest, history, quiet>>

Evaluated(s) == BuildEvaluationSequence(history[s], sample[s])

End(s) ==
  /\ inserted' = [inserted EXCEPT ![s] = NoRow]
  /\ history' = [history EXCEPT ![s] = {}]
  /\ latest' = [latest EXCEPT ![s] = 0]
  /\ pc' = [pc EXCEPT ![s] = "idle"]

(* The rules are evaluated, their incidents upserted and all is committed. *)
Commit(s) ==
  /\ pc[s] = "commit"
  /\ rows' = rows \cup {inserted[s]}
  /\ memory' = MemorySave(memory, inserted[s])
  /\ reported' = [i \in DOMAIN reported \cup {inserted[s].id} |->
       IF i = inserted[s].id THEN {BuildCandidate(a) : a \in Evaluate(Evaluated(s))}
       ELSE reported[i]]
  /\ quiet' = [q \in Session |-> FALSE]
  /\ End(s)
  /\ UNCHANGED <<nextId, sample>>

(* An exception in any statement, or a lost process. *)
Abort(s) ==
  /\ pc[s] # "idle"
  /\ quiet' = [quiet EXCEPT ![s] = FALSE]
  /\ End(s)
  /\ UNCHANGED <<rows, nextId, memory, reported, sample>>

(* The bound MaxSamples is reached. *)
Exhausted ==
  /\ \A s \in Session : pc[s] = "idle"
  /\ nextId > MaxSamples
  /\ UNCHANGED vars

Next ==
  \/ \E s \in Session :
       \/ \E t \in Time, r \in Readings : GetLatest(s, t, r)
       \/ ReadRecent(s) \/ Save(s) \/ Commit(s) \/ Abort(s)
  \/ Exhausted

Spec == Init /\ [][Next]_vars

-----------------------------------------------------------------------------
TypeOK ==
  /\ rows \subseteq Row
  /\ nextId \in 1..MaxSamples + 1
  /\ memory \subseteq Row
  /\ inserted \in [Session -> Row \cup {NoRow}]
  /\ pc \in [Session -> {"idle", "recent", "save", "commit"}]
  /\ sample \in [Session -> Sample]
  /\ latest \in [Session -> Time \cup {0}]
  /\ history \in [Session -> SUBSET Row]
  /\ quiet \in [Session -> BOOLEAN]
  /\ DOMAIN reported = {r.id : r \in rows}

(* The two backends retain the same samples: pruning on every save, in the *)
(* order of the commits and with late samples among them, leaves what a    *)
(* query over all rows ever stored selects, so nothing is pruned that a    *)
(* later window or cap would have kept.                                    *)
BackendsAgree ==
  memory = Newest(Cap, GetRecent(rows, Cutoff(Watermark(rows))))

(* A request that no other one overtakes evaluates exactly what the        *)
(* backend retains once its sample is saved, up to the sample itself       *)
(* (module docstring of telemetry_ingestion.py, steps 2 to 10), although   *)
(* it builds the sequence before it saves.                                 *)
EvaluatesRetained ==
  \A s \in Session : pc[s] = "commit" /\ quiet[s] =>
    LET retained == MemorySave(memory, inserted[s])
    IN EvaluationHistory(history[s], sample[s]) =
         {r \in retained : r.at <= sample[s].at} \ {inserted[s]}

(* Whatever commits between its reads, a request evaluates committed       *)
(* samples that reach back no further than the window below its own, and   *)
(* with its own no more than the cap: a late sample is judged in its own   *)
(* place, and never twice.                                                 *)
EvaluationInPlace ==
  \A s \in Session : pc[s] = "commit" =>
    LET seen == EvaluationHistory(history[s], sample[s])
    IN /\ seen \subseteq rows
       /\ Cardinality(seen) < Cap
       /\ \A r \in seen : r.at \in Cutoff(sample[s].at)..sample[s].at

(* AC-09 of docs/product-spec.md: a neighbor that goes down between two    *)
(* samples ingested in their order is reported.                            *)
TransitionReported ==
  \A n \in Neighbor : \A r, q \in rows :
    /\ r.id < q.id /\ r.at < q.at
    /\ r.reading.bgp[n] = "established" /\ q.reading.bgp[n] = "down"
    /\ ~\E x \in rows : x.reading.bgp[n] # "absent" /\ Before(r, x) /\ Before(x, q)
    => \E x \in rows : BuildCandidate(<<"BGP_DOWN", n>>) \in reported[x.id]

=============================================================================
