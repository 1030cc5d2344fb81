------------------------- MODULE ConfigurationReview -------------------------
(***************************************************************************)
(* What is made of the configurations submitted for one device: the text   *)
(* is parsed, the configuration is compared with the baseline (the first   *)
(* one accepted) and with the policies.  A text is written line by line,   *)
(* and each line is read as it comes: the loop of the parser looks neither *)
(* ahead nor back.                                                         *)
(***************************************************************************)
EXTENDS ConfigurationAdapter

CONSTANTS
  Corpora,    \* the kinds of texts: [first, lines, length, submits], where a text is a first line
              \* and others, length in all, and submits of them are accepted,
              \* after which none is written
  Required    \* the access lists the policy requires

ASSUME ReviewAssumption ==
  /\ Required \subseteq [acl : AclName, interface : InterfaceName, direction : {"acl_in", "acl_out"}]
  /\ \A c \in Corpora : /\ c.length \in Nat /\ c.submits \in Nat
                        /\ \A l \in c.first \cup c.lines : IsLine(l)

VARIABLES
  vendor,   \* the adapter of the device
  corpus,   \* what is written for it
  text,
  parser,   \* what the loop has made of the text so far
  baseline, current, accepted

vars == <<vendor, corpus, text, parser, baseline, current, accepted>>

Init ==
  /\ vendor \in {"cisco", "arista"} /\ corpus \in Corpora
  /\ text = <<>> /\ parser = Start
  /\ baseline = None /\ current = None /\ accepted = 0

Write(l) ==
  /\ Len(text) < corpus.length /\ (accepted = 0 \/ accepted < corpus.submits)
  /\ text = <<>> => l \in corpus.first
  /\ text' = Append(text, l) /\ parser' = ReadLine(vendor, parser, l)
  /\ UNCHANGED <<vendor, corpus, baseline, current, accepted>>

Result == Parse(vendor, text, parser)

(* A configuration that is accepted becomes the current one, and the       *)
(* baseline if there is none; a refused one changes nothing.               *)
Submit ==
  /\ accepted < corpus.submits /\ text # <<>>
  /\ text' = <<>> /\ parser' = Start
  /\ IF Result.error = "none"
     THEN /\ current' = Result
          /\ baseline' = IF baseline = None THEN current' ELSE baseline
          /\ accepted' = accepted + 1
     ELSE UNCHANGED <<baseline, current, accepted>>
  /\ UNCHANGED <<vendor, corpus>>

Next == Submit \/ \E l \in corpus.first \cup corpus.lines : Write(l)

Spec == Init /\ [][Next]_vars

-----------------------------------------------------------------------------
(* Drift: a whole resource that came or went has no field.                 *)

Change(resource, field, old, new) == [resource |-> resource, field |-> field, old |-> old, new |-> new]

Added(type, names) == {Change(<<type, n>>, None, None, n) : n \in names}
Removed(type, names) == {Change(<<type, n>>, None, n, None) : n \in names}

(* Faulty variant: the directions are mixed up. *)
InterfaceChangesMixed(b, c) ==
  {Change(<<"interface", x[1]>>, x[2], b.interfaces[x[1]]["acl_out"], c.interfaces[x[1]][x[2]]) :
     x \in {y \in (DOMAIN b.interfaces \cap DOMAIN c.interfaces) \X Field :
              b.interfaces[y[1]][y[2]] # c.interfaces[y[1]][y[2]]}}

InterfaceChanges(b, c) ==
  {Change(<<"interface", x[1]>>, x[2], b.interfaces[x[1]][x[2]], c.interfaces[x[1]][x[2]]) :
     x \in {y \in (DOMAIN b.interfaces \cap DOMAIN c.interfaces) \X Field :
              b.interfaces[y[1]][y[2]] # c.interfaces[y[1]][y[2]]}}

Ips(c) == {n.ip : n \in ToSet(c.neighbors)}

(* baseline_by_ip, current_by_ip: the last one of an address counts. *)
ByIp(c) ==
  [ip \in Ips(c) |->
     LET at == {k \in DOMAIN c.neighbors : c.neighbors[k].ip = ip}
     IN c.neighbors[CHOOSE k \in at : \A j \in at : j <= k].as]

NeighborChanges(b, c) ==
  {Change(<<"bgp_neighbor", n.ip>>, "remote_as", n.as, ByIp(c)[n.ip]) :
     n \in {m \in ToSet(b.neighbors) : m.ip \in Ips(c) /\ m.as # ByIp(c)[m.ip]}}

(* DriftDetector.compare; an access list is compared by its name alone. *)
Compare(b, c) ==
  LET gone(x, y) == Removed("interface", DOMAIN x.interfaces \ DOMAIN y.interfaces)
                      \cup Removed("bgp_neighbor", Ips(x) \ Ips(y))
                      \cup Removed("acl", DOMAIN x.acls \ DOMAIN y.acls)
      new(x, y) == Added("interface", DOMAIN y.interfaces \ DOMAIN x.interfaces)
                      \cup Added("bgp_neighbor", Ips(y) \ Ips(x))
                      \cup Added("acl", DOMAIN y.acls \ DOMAIN x.acls)
  IN [added |-> new(b, c), removed |-> gone(b, c),
      changed |-> InterfaceChanges(b, c) \cup NeighborChanges(b, c)]

(* GetDeviceDriftService.get_drift *)
Drift == IF current = None THEN "DEVICE_NOT_FOUND" ELSE Compare(baseline, current)

-----------------------------------------------------------------------------
(* Policy *)

(* PolicyEvaluator.evaluate, for the policies that apply to the device; an *)
(* incident candidate is made of each.                                     *)
Violations(c) ==
  {[rule |-> r, actual |-> None, type |-> "TARGET_INTERFACE_MISSING"] :
     r \in {q \in Required : q.interface \notin DOMAIN c.interfaces}}
  \cup
  {[rule |-> r, actual |-> c.interfaces[r.interface][r.direction], type |-> "MISSING_REQUIRED_ACL"] :
     r \in {q \in Required : /\ q.interface \in DOMAIN c.interfaces
                             /\ c.interfaces[q.interface][q.direction] # q.acl}}

-----------------------------------------------------------------------------
(* What the text says, without a parser: a line stands under the nearest   *)
(* line above it that is not indented.                                     *)

Heads(k) == {j \in 1..k - 1 : text[j].level \in {"top", "bang"}}

HeadOf(k) == IF Heads(k) = {} THEN Bang ELSE text[CHOOSE j \in Heads(k) : \A i \in Heads(k) : i <= j]

StandsIn(k, kind) == HeadOf(k).level = "top" /\ HeadOf(k).kind = kind

DeclaredIn(kind) ==
  {text[k].name : k \in {j \in DOMAIN text : text[j].level = "top" /\ text[j].kind = kind}}

SetLines(i, field) ==
  {k \in DOMAIN text : /\ text[k].level = "child" /\ text[k].kind = "set" /\ text[k].field = field
                       /\ StandsIn(k, "interface") /\ HeadOf(k).name = i}

(* The last word on a field of an interface. *)
Written(i, field) ==
  LET lines == SetLines(i, field) IN
  IF lines = {} THEN NewInterface[field] ELSE text[CHOOSE k \in lines : \A j \in lines : j <= k].value

AclsDeclared == DeclaredIn("acl") \cup (IF vendor = "cisco" THEN DeclaredIn("numbered") ELSE {})

Taken == text # <<>> /\ Result.error = "none"

(* Blocks that are closed, reopened and interleaved: what an interface is  *)
(* given is the last word of the text on it, and nothing leaks from a      *)
(* block into the lines after it.                                          *)
ParsedAsWritten ==
  Taken =>
    /\ DOMAIN Result.interfaces = DeclaredIn("interface")
    /\ \A i \in DeclaredIn("interface") : \A field \in Field :
         Result.interfaces[i][field] = Written(i, field)
    /\ DOMAIN Result.acls = AclsDeclared

(* A text is refused for its first malformed line that stands in a block   *)
(* of its kind, and if there is none for what it lacks as a whole: an      *)
(* access list may be declared after its use.                              *)
Bad ==
  {k \in DOMAIN text : /\ text[k].level \in {"top", "child"} /\ text[k].kind = "malformed"
                       /\ text[k].level = "child" => StandsIn(k, text[k].block)}

Missing ==
  \E i \in DeclaredIn("interface") : \E field \in {"acl_in", "acl_out"} :
    Written(i, field) \notin AclsDeclared \cup {None}

RefusedAsWritten ==
  (\E k \in DOMAIN text : text[k].level # "blank") =>
    Result.error = IF Bad # {} THEN text[CHOOSE k \in Bad : \A j \in Bad : k <= j].code
                   ELSE IF DeclaredIn("hostname") = {} THEN "MISSING_HOSTNAME"
                   ELSE IF Missing THEN "UNDECLARED_ACL_REFERENCE" ELSE "none"

(* "No implicit assignment can ever collide with a later explicit value":  *)
(* an entry that was given no number shares its number with no other.      *)
NumbersApart ==
  \A a \in DOMAIN parser.acls :
    LET pending == parser.acls[a]
        given == Finalized(vendor, pending)
    IN \A k \in DOMAIN pending : pending[k] = 0 => \A j \in DOMAIN pending \ {k} : given[j] # given[k]

(* The incidents of a configuration follow from its text: one for each     *)
(* required access list that is not the last one assigned.                 *)
ViolationsAsWritten ==
  Taken =>
    Violations(Result) =
      {[rule |-> r, type |-> IF r.interface \in DeclaredIn("interface")
                             THEN "MISSING_REQUIRED_ACL" ELSE "TARGET_INTERFACE_MISSING",
        actual |-> IF r.interface \in DeclaredIn("interface")
                   THEN Written(r.interface, r.direction) ELSE None] :
         r \in {q \in Required : q.interface \in DeclaredIn("interface")
                                   => Written(q.interface, q.direction) # q.acl}}

(* The report of the drift says all there is to say: the baseline with the *)
(* changes made to it is the current configuration, but for the entries of *)
(* access lists.                                                           *)
PatchedBaseline ==
  current # None =>
    LET r == Compare(baseline, current)
        names(type, f) == {n \in f : <<type, n>> \notin {x.resource : x \in r.removed}}
                            \cup {x.new : x \in {y \in r.added : y.resource[1] = type}}
        interface(i) == [field \in Field |->
          LET hits == {x \in r.changed : x.resource = <<"interface", i>> /\ x.field = field}
          IN IF hits = {} THEN baseline.interfaces[i][field] ELSE (CHOOSE x \in hits : TRUE).new]
    IN /\ names("interface", DOMAIN baseline.interfaces) = DOMAIN current.interfaces
       /\ names("bgp_neighbor", Ips(baseline)) = Ips(current)
       /\ names("acl", DOMAIN baseline.acls) = DOMAIN current.acls
       /\ \A i \in DOMAIN baseline.interfaces \cap DOMAIN current.interfaces :
            /\ interface(i) = current.interfaces[i]
            /\ \A x \in r.changed : x.resource = <<"interface", i>> =>
                 x.old = baseline.interfaces[i][x.field]
       /\ \A ip \in Ips(baseline) \cap Ips(current) :
            ByIp(current)[ip] = ByIp(baseline)[ip] \/
              \E x \in r.changed : x.resource = <<"bgp_neighbor", ip>> /\ x.new = ByIp(current)[ip]

=============================================================================
