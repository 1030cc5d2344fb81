------------------------ MODULE ConfigurationAdapter ------------------------
(***************************************************************************)
(* The two configuration adapters: line-oriented state machines that read  *)
(* a configuration text and return the vendor-neutral configuration, or    *)
(* the error of the first line they cannot take.  They differ in the       *)
(* numbered access lists of IOS and in the sequence numbers they give to   *)
(* the entries that have none.                                             *)
(*                                                                         *)
(* A line is what its regular expression makes of it.  "top" lines start a *)
(* block or stand alone, "child" lines are indented and belong to the kind *)
(* of block that understands them.  Of an access list entry only its       *)
(* number is kept, 0 for none; addresses are numbers, in their order.      *)
(***************************************************************************)
EXTENDS Integers, Sequences, FiniteSets, SequencesExt

CONSTANTS
  InterfaceName, AclName, NeighborIp,
  None   \* nothing, for a name or a value

ASSUME AdapterAssumption == NeighborIp \subseteq Nat /\ None \notin AclName

Field == {"description", "ip_address", "admin_state", "acl_in", "acl_out"}

(* The lines.                                                              *)
Blank == [level |-> "blank"]
Bang == [level |-> "bang"]
Hostname(h) == [level |-> "top", kind |-> "hostname", name |-> h]
OpenInterface(i) == [level |-> "top", kind |-> "interface", name |-> i]
OpenAcl(a) == [level |-> "top", kind |-> "acl", name |-> a]
NumberedEntry(a) == [level |-> "top", kind |-> "numbered", name |-> a]
RouterBgp == [level |-> "top", kind |-> "bgp", name |-> None]
OtherTop == [level |-> "top", kind |-> "other", name |-> None]
BadTop(code) == [level |-> "top", kind |-> "malformed", code |-> code]

Set(field, value) == [level |-> "child", block |-> "interface", kind |-> "set", field |-> field, value |-> value]
Entry(n) == [level |-> "child", block |-> "acl", kind |-> "entry", sequence |-> n]
NeighborLine(ip, as) == [level |-> "child", block |-> "bgp", kind |-> "neighbor", ip |-> ip, as |-> as]
BadChild(block, code) == [level |-> "child", block |-> block, kind |-> "malformed", code |-> code]

(* The lines there are. *)
IsLine(l) ==
  /\ l.level \in {"blank", "bang", "top", "child"}
  /\ l.level = "top" =>
       CASE l.kind = "malformed" -> l.code # "none"
         [] l.kind = "hostname"  -> l.name # None
         [] l.kind = "interface" -> l.name \in InterfaceName
         [] l.kind \in {"acl", "numbered"} -> l.name \in AclName
         [] OTHER -> l.kind \in {"bgp", "other"} /\ l.name = None
  /\ l.level = "child" =>
       CASE l.kind = "malformed" -> l.code # "none" /\ l.block \in {"interface", "bgp"}
         [] l.kind = "set"       -> l.block = "interface" /\ l.field \in Field
         [] l.kind = "entry"     -> l.block = "acl" /\ l.sequence \in Nat
         [] OTHER -> l.kind = "neighbor" /\ l.block = "bgp" /\ l.ip \in NeighborIp /\ l.as \in Nat

-----------------------------------------------------------------------------
NoBlock == [kind |-> "none", name |-> None]

NewInterface == [description |-> None, ip_address |-> None, admin_state |-> "up",
                 acl_in |-> None, acl_out |-> None]

(* setdefault of a dictionary *)
SetDefault(f, n, v) == [m \in DOMAIN f \cup {n} |-> IF m \in DOMAIN f THEN f[m] ELSE v]

(* What the loop keeps from line to line; interfaces and acls are dictionaries. *)
Start == [block |-> NoBlock, hostname |-> None, neighbors |-> <<>>, error |-> "none",
          interfaces |-> [i \in {} |-> NewInterface], acls |-> [a \in {} |-> <<>>]]

WithField(interfaces, i, field, value) == [interfaces EXCEPT ![i][field] = value]

WithEntry(acls, a, n) == [acls EXCEPT ![a] = Append(@, n)]

ReadTop(vendor, p, l) ==
  CASE l.kind = "malformed" -> [p EXCEPT !.error = l.code]
    [] l.kind = "hostname"  -> [p EXCEPT !.hostname = l.name]
    [] l.kind = "interface" -> [p EXCEPT !.block = [kind |-> "interface", name |-> l.name],
                                         !.interfaces = SetDefault(@, l.name, NewInterface)]
    [] l.kind = "acl"       -> [p EXCEPT !.block = [kind |-> "acl", name |-> l.name],
                                         !.acls = SetDefault(@, l.name, <<>>)]
    [] l.kind = "numbered" /\ vendor = "cisco" ->
         [p EXCEPT !.acls = WithEntry(SetDefault(@, l.name, <<>>), l.name, 0)]
    [] l.kind = "bgp"       -> [p EXCEPT !.block = [kind |-> "bgp", name |-> None]]
    [] OTHER -> p

ReadChild(p, l) ==
  IF l.block # p.block.kind THEN p ELSE
  CASE l.kind = "malformed" -> [p EXCEPT !.error = l.code]
    [] l.kind = "set"       -> [p EXCEPT !.interfaces = WithField(@, p.block.name, l.field, l.value)]
    [] l.kind = "entry"     -> [p EXCEPT !.acls = WithEntry(@, p.block.name, l.sequence)]
    [] l.kind = "neighbor"  -> [p EXCEPT !.neighbors = Append(@, [ip |-> l.ip, as |-> l.as])]

(* Faulty variant: a top-level line that is not recognised leaves the      *)
(* block open.                                                             *)
ReadLineLeavingOpen(vendor, p, l) ==
  IF p.error # "none" \/ l.level = "blank" THEN p ELSE
  CASE l.level = "bang"  -> [p EXCEPT !.block = NoBlock]
    [] l.level = "top"   -> ReadTop(vendor, p, l)
    [] l.level = "child" -> ReadChild(p, l)

(* One turn of the loop: a top-level line first ends the block before it.  *)
ReadLine(vendor, p, l) ==
  IF p.error # "none" \/ l.level = "blank" THEN p ELSE
  CASE l.level = "bang"  -> [p EXCEPT !.block = NoBlock]
    [] l.level = "top"   -> ReadTop(vendor, [p EXCEPT !.block = NoBlock], l)
    [] l.level = "child" -> ReadChild(p, l)

-----------------------------------------------------------------------------
(* Sequence numbers *)

(* The first multiple of ten from 10 * from on that nobody uses. *)
Candidate(from, used) ==
  10 * (CHOOSE j \in from..from + Cardinality(used) :
          /\ 10 * j \notin used
          /\ \A k \in from..j - 1 : 10 * k \in used)

(* _finalize_acl_entries: the number of each entry in turn.  IOS continues *)
(* from the greatest number so far, EOS always looks from 10 on.           *)
Finalized(vendor, pending) ==
  LET explicit == ToSet(pending) \ {0}
      from(given) == IF vendor = "cisco" /\ given # {}
                     THEN (CHOOSE g \in given : \A h \in given : h <= g) \div 10 + 1 ELSE 1
      number[k \in DOMAIN pending] ==
        LET given == {number[j] : j \in 1..k - 1}
        IN IF pending[k] # 0 THEN pending[k] ELSE Candidate(from(given), explicit \cup given)
  IN number

(* IOS entries are returned in the order of their numbers. *)
Entries(vendor, pending) ==
  IF vendor = "cisco" THEN SortSeq(Finalized(vendor, pending), <) ELSE Finalized(vendor, pending)

-----------------------------------------------------------------------------
(* In the order of the addresses, and of the text for the same address. *)
SortedNeighbors(neighbors) ==
  LET before(j, k) == \/ neighbors[j].ip < neighbors[k].ip
                      \/ neighbors[j].ip = neighbors[k].ip /\ j < k
      place(j) == Cardinality({i \in DOMAIN neighbors : before(i, j)}) + 1
  IN [k \in DOMAIN neighbors |-> neighbors[CHOOSE j \in DOMAIN neighbors : place(j) = k]]

Undeclared(p) ==
  \E i \in DOMAIN p.interfaces : \E field \in {"acl_in", "acl_out"} :
    p.interfaces[i][field] \notin DOMAIN p.acls \cup {None}

Refusal(text, p) ==
  IF \A k \in DOMAIN text : text[k].level = "blank" THEN "EMPTY_CONFIGURATION"
  ELSE IF p.error # "none" THEN p.error
  ELSE IF p.hostname = None THEN "MISSING_HOSTNAME"
  ELSE IF Undeclared(p) THEN "UNDECLARED_ACL_REFERENCE" ELSE "none"

(* CiscoAdapter.parse, AristaAdapter.parse: what they make of a text, when *)
(* the loop has left p.                                                    *)
Parse(vendor, text, p) ==
  [error      |-> Refusal(text, p),
   hostname   |-> p.hostname,
   interfaces |-> p.interfaces,
   neighbors  |-> SortedNeighbors(p.neighbors),
   acls       |-> [a \in DOMAIN p.acls |-> Entries(vendor, p.acls[a])]]
=============================================================================
