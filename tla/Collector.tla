------------------------------- MODULE Collector -------------------------------
(***************************************************************************)
(* One collection of the lab's operational state: a script asks every      *)
(* router and host of a fabric that keeps changing, one command after      *)
(* another, normalises what the commands print, and prints the snapshot    *)
(* (lab_collect_state) or stores it (lab_ingest_operational_state).        *)
(* Commands fail, time out and print what no parser accepts.               *)
(***************************************************************************)
EXTENDS Naturals, Sequences

CONSTANTS
  Router,      \* nodes asked for interfaces, sessions and routes
  Host,        \* nodes asked for links, addresses and a ping of the other host
  Order,       \* all of them, in the order in which they are asked
  Starts,      \* the fabrics a collection may begin in
  MaxChanges,  \* bound on the changes of the fabric during a collection
  MaxFaults    \* bound on the commands that fail

Node == Router \cup Host

(* One interface, session, route and ping stand for all of a node's.  A    *)
(* session that is clearing is one the model of states does not know; a    *)
(* route listed twice for one protocol is refused by the node's snapshot.  *)
Values == [
  interface |-> {"UP", "DOWN", "LOWERLAYERDOWN", "DORMANT", "gone"},
  session   |-> {"Established", "Idle", "Active", "Clearing"},
  route     |-> {"ecmp", "single", "inactive", "twice"},
  ping      |-> {"all", "some", "none"}]

Value == UNION {Values[a] : a \in DOMAIN Values}

Fact == (Node \X {"interface"}) \cup (Router \X {"session", "route"}) \cup (Host \X {"ping"})

Fabrics == {f \in [Fact -> Value] : \A x \in Fact : f[x] \in Values[x[2]]}

Commands(n) == IF n \in Router THEN <<"interfaces", "bgp", "routes">> ELSE <<"link", "addr", "ping">>

AspectOf == [interfaces |-> "interface", link |-> "interface", addr |-> "interface",
             bgp |-> "session", routes |-> "route", ping |-> "ping"]

Query == (Router \X {"interfaces", "bgp", "routes"}) \cup (Host \X {"link", "addr", "ping"})

CollectorConstants ==
  /\ Router \cap Host = {}
  /\ Order \in Seq(Node) /\ Node = {Order[i] : i \in DOMAIN Order}
  /\ \A i, j \in DOMAIN Order : Order[i] = Order[j] => i = j
  /\ Starts \subseteq Fabrics
  /\ {MaxChanges, MaxFaults} \subseteq Nat

Complete == 0
Incomplete == 1
Error == 2
NotRegistered == 3
Rejected == 4
Interrupted == 5
NoCode == 6

VARIABLES
  mode,        \* "collect", or "ingest"
  fact,        \* the fabric
  since,       \* what each fact has been since the collection began
  registered,  \* the routers that are registered devices
  latest,      \* the stored collection is older than this one, newer or in conflict with it
  pc, at, command,  \* where the script is: a node of Order, one of its commands
  read,        \* what each command has returned
  kept,        \* this collection has been stored
  exit, changes, faults

vars == <<mode, fact, since, registered, latest, pc, at, command, read, kept, exit, changes, faults>>

Init ==
  /\ mode \in {"collect", "ingest"}
  /\ fact \in Starts /\ since = [x \in Fact |-> {fact[x]}]
  /\ registered \in SUBSET Router /\ latest = "older"
  /\ pc = "begin" /\ at = 1 /\ command = 1
  /\ read = [q \in Query |-> "pending"] /\ kept = FALSE
  /\ exit = NoCode /\ changes = 0 /\ faults = 0

-----------------------------------------------------------------------------
(* The fabric, and the other collections of the lab *)

Change ==
  /\ pc = "collect" /\ changes < MaxChanges /\ changes' = changes + 1
  /\ \E x \in Fact : \E v \in Values[x[2]] :
       /\ fact' = [fact EXCEPT ![x] = v]
       /\ since' = [since EXCEPT ![x] = @ \cup {v}]
  /\ UNCHANGED <<mode, registered, latest, pc, at, command, read, kept, exit, faults>>

(* Another collection is stored: a later one, or another of the same time. *)
Overtaken ==
  /\ mode = "ingest" /\ pc \in {"collect", "ingest"} /\ latest # "newer"
  /\ latest' \in {"newer", "conflicting"}
  /\ UNCHANGED <<mode, fact, since, registered, pc, at, command, read, kept, exit, changes, faults>>

-----------------------------------------------------------------------------
(* Normalisation *)

OperState == [UP |-> "up", DOWN |-> "down", LOWERLAYERDOWN |-> "down", DORMANT |-> "unknown",
              gone |-> "absent"]

(* A state that is not recognised is unknown, never Idle. *)
SessionState == [Established |-> "Established", Idle |-> "Idle", Active |-> "Active", Clearing |-> "Unknown"]

(* Next hops in use: of two, one may be inactive; a route without any is omitted. *)
NextHops == [ecmp |-> 2, single |-> 1, inactive |-> 0]

Normal == [interfaces |-> OperState, bgp |-> SessionState, routes |-> NextHops,
           reachability |-> [v \in Values.ping |-> v]]

Facets(n) == IF n \in Router THEN {"interfaces", "bgp", "routes"} ELSE {"interfaces", "reachability"}

(* The commands a facet is read from, and the one its values come from. *)
Sources(n, facet) ==
  IF n \in Router THEN {facet} ELSE IF facet = "interfaces" THEN {"link", "addr"} ELSE {"ping"}

Source(n, facet) == IF n \in Router THEN facet ELSE IF facet = "interfaces" THEN "link" ELSE "ping"

(* An address of an interface that the links did not list is no parse. *)
Unlisted(n) == n \in Host /\ read[n, "link"] = "gone" /\ read[n, "addr"] # "gone"

Unavailable(n, facet) ==
  \/ \E c \in Sources(n, facet) : read[n, c] = "unavailable"
  \/ facet = "interfaces" /\ Unlisted(n)

(* What a facet of the snapshot says, where it is available. *)
Observed(n, facet) == Normal[facet][read[n, Source(n, facet)]]

IsComplete == \A n \in Node : \A facet \in Facets(n) : ~Unavailable(n, facet)

-----------------------------------------------------------------------------
(* The script *)

End(code) == pc' = "done" /\ exit' = code

(* Arguments or the environment are refused before anything is asked. *)
Refuse ==
  /\ pc = "begin" /\ End(Error)
  /\ UNCHANGED <<mode, fact, since, registered, latest, at, command, read, kept, changes, faults>>

(* The time of the collection is taken before its first command. *)
Begin ==
  /\ pc = "begin" /\ pc' = "collect"
  /\ UNCHANGED <<mode, fact, since, registered, latest, at, command, read, kept, exit, changes, faults>>

(* A command that exits with an error, times out or prints what cannot be  *)
(* parsed makes its facet unavailable.  A ping that lost everything exits  *)
(* with an error too, but has its summary.                                 *)
Failure(c) == "unavailable"

(* One command returns what is so now, or fails.  After its last command   *)
(* the node's snapshot is made, which refuses a route listed twice.        *)
Run ==
  /\ pc = "collect" /\ at <= Len(Order)
  /\ LET n == Order[at]
         c == Commands(n)[command]
         answer == fact[n, AspectOf[c]]
     IN /\ \/ read' = [read EXCEPT ![<<n, c>>] = answer] /\ UNCHANGED faults
           \/ /\ faults < MaxFaults /\ faults' = faults + 1
              /\ read' = [read EXCEPT ![<<n, c>>] = Failure(c)]
        /\ IF command < Len(Commands(n))
           THEN command' = command + 1 /\ UNCHANGED <<pc, at, exit>>
           ELSE IF read'[n, c] = "twice" THEN End(Error) /\ UNCHANGED <<at, command>>
           ELSE at' = at + 1 /\ command' = 1 /\ UNCHANGED <<pc, exit>>
  /\ UNCHANGED <<mode, fact, since, registered, latest, kept, changes>>

(* Every node has been asked. *)
Assemble ==
  /\ pc = "collect" /\ at > Len(Order)
  /\ pc' = IF mode = "collect" THEN "print" ELSE "ingest"
  /\ UNCHANGED <<mode, fact, since, registered, latest, at, command, read, kept, exit, changes, faults>>

(* A session seen Idle or Active is an anomaly of its router. *)
Anomalous == {n \in Router : ~Unavailable(n, "bgp") /\ Observed(n, "bgp") \in {"Idle", "Active"}}

(* The ingestion service, in one transaction: every device of an anomaly   *)
(* is looked up before the state is compared with the stored one.          *)
Ingest ==
  /\ pc = "ingest"
  /\ IF ~(Anomalous \subseteq registered) THEN End(NotRegistered) /\ UNCHANGED kept
     ELSE IF latest # "older" THEN End(Rejected) /\ UNCHANGED kept
     ELSE kept' = TRUE /\ pc' = "print" /\ UNCHANGED exit
  /\ UNCHANGED <<mode, fact, since, registered, latest, at, command, read, changes, faults>>

(* What was printed, complete or not. *)
Output ==
  /\ pc = "print" /\ End(IF IsComplete THEN Complete ELSE Incomplete)
  /\ UNCHANGED <<mode, fact, since, registered, latest, at, command, read, kept, changes, faults>>

(* Anything unexpected while collecting or ingesting is an error, and may  *)
(* have followed the commit.  Printing, or writing the file asked for, is  *)
(* not guarded: the interpreter ends with the code of Incomplete.          *)
Raise ==
  /\ \/ pc \in {"collect", "ingest"} /\ End(Error)
     \/ pc = "print" /\ End(Incomplete)
  /\ kept' \in IF pc = "ingest" /\ Anomalous \subseteq registered /\ latest = "older"
               THEN BOOLEAN ELSE {kept}
  /\ UNCHANGED <<mode, fact, since, registered, latest, at, command, read, changes, faults>>

(* Ctrl-C: no handler catches it. *)
Interrupt ==
  /\ pc # "done" /\ End(Interrupted)
  /\ UNCHANGED <<mode, fact, since, registered, latest, at, command, read, kept, changes, faults>>

Step == Refuse \/ Begin \/ Run \/ Assemble \/ Ingest \/ Output

Next == Step \/ Raise \/ Interrupt \/ Change \/ Overtaken

Spec == Init /\ [][Next]_vars

-----------------------------------------------------------------------------
TypeOK ==
  /\ mode \in {"collect", "ingest"} /\ fact \in Fabrics
  /\ since \in [Fact -> SUBSET Value]
  /\ registered \subseteq Router /\ latest \in {"older", "newer", "conflicting"}
  /\ pc \in {"begin", "collect", "ingest", "print", "done"}
  /\ at \in 1..Len(Order) + 1 /\ command \in 1..3
  /\ read \in [Query -> Value \cup {"pending", "unavailable"}]
  /\ kept \in BOOLEAN /\ exit \in Complete..NoCode
  /\ changes \in 0..MaxChanges /\ faults \in 0..MaxFaults

Snapshot == pc \in {"ingest", "print"} \/ exit \in {Complete, NotRegistered, Rejected}

(* What the fact behind a facet has been since the collection began. *)
Since(n, facet) == since[n, AspectOf[Source(n, facet)]]

(* "A command that fails, or whose output cannot be parsed, is never       *)
(* converted into a down/Idle/zero observation": whatever a snapshot says  *)
(* of a node was so at some moment after the time the collection bears.    *)
SaysWhatWasSo ==
  Snapshot => \A n \in Node : \A facet \in Facets(n) : ~Unavailable(n, facet) =>
    \E v \in Since(n, facet) \cap DOMAIN Normal[facet] : Observed(n, facet) = Normal[facet][v]

(* Where no command failed, a facet is unavailable only if an interface    *)
(* appeared between two commands.                                          *)
NothingLeftOut ==
  Snapshot /\ faults = 0 => \A n \in Node : \A facet \in Facets(n) : Unavailable(n, facet) =>
    facet = "interfaces" /\ n \in Host /\ "gone" \in Since(n, facet) /\ Since(n, facet) # {"gone"}

(* "0 every facet on every node was observed", "1 ingested", "3, 4 nothing *)
(* persisted": the exit code tells what was seen and what is stored.       *)
CodesTellWhatIsStored ==
  pc = "done" =>
    /\ exit = Complete => IsComplete /\ \A q \in Query : read[q] \in Value \ {"twice"}
    /\ exit \in {Complete, Incomplete} /\ mode = "ingest" => kept
    /\ exit \in {NotRegistered, Rejected} => ~kept /\ mode = "ingest"
    /\ kept => Anomalous \subseteq registered
=============================================================================
