------------------------------ MODULE Diagnosis ------------------------------
(***************************************************************************)
(* The deterministic diagnosis engine for one declared link: what a fabric *)
(* shows of its two ends is classified, given a confidence and supported   *)
(* by evidence.  An end is the record of what was observed there; a node   *)
(* or facet that was not observed leaves its fields at the values that     *)
(* mean so.                                                                *)
(***************************************************************************)
EXTENDS Naturals, FiniteSets

CONSTANTS
  InterfaceFact,  \* what may be observed of an interface
  BgpFact,        \* what may be observed of a session
  AddressFact, RouteFact, PathFact, ProbeFact

InterfaceFacts == {"UP", "DOWN", "UNKNOWN", "MISSING", "UNAVAILABLE"}
BgpFacts == {"IDLE", "ACTIVE", "CONNECT", "OPEN_SENT", "OPEN_CONFIRM",
             "ESTABLISHED", "UNKNOWN", "MISSING"}

FactsConstants ==
  /\ InterfaceFact \subseteq InterfaceFacts
  /\ BgpFact \subseteq BgpFacts
  /\ AddressFact \subseteq {"declared", "other", "unobserved"}
  /\ RouteFact \subseteq {"present", "absent", "unobserved"}
  /\ PathFact \subseteq {"present", "absent", "unobserved"}
  /\ ProbeFact \subseteq {"received", "lost", "unobserved"}

End == {"a", "b"}

EndFacts == [interface : InterfaceFact, bgp : BgpFact, address : AddressFact, nextHop : RouteFact]

Link == [ends : [End -> EndFacts], path : PathFact, probe : ProbeFact]

-----------------------------------------------------------------------------
(* Faulty variant: an interface that is not there is down. *)
InterfaceStateMissingDown(f) ==
  IF f.interface \in {"UP", "UNKNOWN", "UNAVAILABLE"} THEN "UP" ELSE "DOWN"

InterfaceState(f) ==
  IF f.interface \in {"UP", "DOWN"} THEN f.interface ELSE "UNKNOWN"

BgpState(f) ==
  CASE f.bgp \in {"IDLE", "ACTIVE"} -> "DOWN"
    [] f.bgp = "ESTABLISHED" -> "ESTABLISHED"
    [] f.bgp \in {"CONNECT", "OPEN_SENT", "OPEN_CONFIRM"} -> "OTHER"
    [] f.bgp \in {"UNKNOWN", "MISSING"} -> "UNKNOWN"

(* None where the interface, or any address on it, was not observed. *)
AddressMatches(f) ==
  IF f.interface \in {"MISSING", "UNAVAILABLE"} THEN "unobserved" ELSE f.address

Interfaces(link) == {InterfaceState(link.ends[e]) : e \in End}
Sessions(link) == {BgpState(link.ends[e]) : e \in End}

Symptomatic(link) == "DOWN" \in Interfaces(link) \cup Sessions(link)

TypeOf(link) ==
  CASE "ESTABLISHED" \in Sessions(link) -> "INSUFFICIENT_EVIDENCE"
    [] "ESTABLISHED" \notin Sessions(link) /\ "DOWN" \in Interfaces(link)
         -> "PHYSICAL_LINK_FAILURE"
    [] "ESTABLISHED" \notin Sessions(link) /\ Interfaces(link) = {"UP"}
         -> "BGP_SESSION_FAILURE"
    [] OTHER -> "INSUFFICIENT_EVIDENCE"

(* NONE, LOW, MEDIUM and HIGH as 0 to 3. *)
PhysicalConfidence(link) ==
  (IF Interfaces(link) = {"DOWN"} THEN 2 ELSE 1) + (IF "DOWN" \in Sessions(link) THEN 1 ELSE 0)

SessionConfidence(link) == IF Sessions(link) = {"DOWN"} THEN 3 ELSE 2

Conflict(link) == \E e \in End : AddressMatches(link.ends[e]) = "other"

(* Faulty variant: the table without the cap for topology drift. *)
ConfidenceUncapped(link) ==
  CASE TypeOf(link) = "PHYSICAL_LINK_FAILURE" -> PhysicalConfidence(link)
    [] TypeOf(link) = "BGP_SESSION_FAILURE" -> SessionConfidence(link)
    [] OTHER -> 0

Confidence(link) ==
  LET table == CASE TypeOf(link) = "PHYSICAL_LINK_FAILURE" -> PhysicalConfidence(link)
                 [] TypeOf(link) = "BGP_SESSION_FAILURE" -> SessionConfidence(link)
                 [] OTHER -> 0
  IN IF Conflict(link) /\ table = 3 THEN 2 ELSE table

-----------------------------------------------------------------------------
(* Evidence, each item with its role relative to the diagnosis. *)
InterfaceRole(type, state) ==
  CASE type = "PHYSICAL_LINK_FAILURE" /\ state = "DOWN" -> "SUPPORTS"
    [] type = "PHYSICAL_LINK_FAILURE" /\ state = "UP" -> "CONTRADICTS"
    [] type = "BGP_SESSION_FAILURE" /\ state = "UP" -> "SUPPORTS"
    [] type = "BGP_SESSION_FAILURE" /\ state = "DOWN" -> "CONTRADICTS"
    [] type = "INSUFFICIENT_EVIDENCE" /\ state = "DOWN" -> "SUPPORTS"
    [] OTHER -> "UNKNOWN"

BgpRole(state) ==
  CASE state = "DOWN" -> "SUPPORTS"
    [] state = "ESTABLISHED" -> "CONTRADICTS"
    [] OTHER -> "UNKNOWN"

AddressRole(matches) ==
  CASE matches = "declared" -> "SUPPORTS" [] matches = "other" -> "CONTRADICTS" [] OTHER -> "UNKNOWN"

(* A consequence supports when it was observed, and is neutral otherwise. *)
ContextRole(fact) == IF fact \in {"absent", "lost"} THEN "SUPPORTS" ELSE "UNKNOWN"

Item(kind, where, role) == [kind |-> kind, where |-> where, role |-> role]

Evidence(link) ==
  LET t == TypeOf(link)
      endItems == UNION {LET f == link.ends[e] IN
        {Item("INTERFACE_STATE", e, InterfaceRole(t, InterfaceState(f))),
         Item("BGP_SESSION", e, BgpRole(BgpState(f))),
         Item("ADDRESS_MATCH", e, AddressRole(AddressMatches(f)))} : e \in End}
      context ==
        {Item("ROUTE_NEXT_HOP", e, ContextRole(link.ends[e].nextHop)) : e \in End}
        \cup {Item("ECMP_PATHS", "fabric", ContextRole(link.path)),
              Item("REACHABILITY", "hosts", ContextRole(link.probe))}
  IN IF t = "INSUFFICIENT_EVIDENCE" THEN endItems ELSE endItems \cup context

(* The incidents' keys: the ends whose session is down. *)
SymptomKeys(link) == {e \in End : BgpState(link.ends[e]) = "DOWN"}

NoDiagnosis == [type |-> "none", confidence |-> 0, evidence |-> {}, keys |-> {}]

Diagnose(link) ==
  IF ~Symptomatic(link) THEN NoDiagnosis
  ELSE [type |-> TypeOf(link), confidence |-> Confidence(link),
        evidence |-> Evidence(link), keys |-> SymptomKeys(link)]

-----------------------------------------------------------------------------
(* Every link a collection can show, and every way to lose some of what    *)
(* was observed of it.                                                     *)

VARIABLE link

Init == link \in Link

Unobserved(f) == [f EXCEPT !.address = "unobserved", !.nextHop = "unobserved"]

(* A facet of one end is not collected, or the whole node. *)
Lose(e) ==
  \E f \in {[link.ends[e] EXCEPT !.interface = "MISSING", !.address = "unobserved"],
            [link.ends[e] EXCEPT !.bgp = "MISSING"],
            [link.ends[e] EXCEPT !.address = "unobserved"],
            [Unobserved(link.ends[e]) EXCEPT !.interface = "MISSING", !.bgp = "MISSING"]} :
    link' = [link EXCEPT !.ends = [@ EXCEPT ![e] = f]]

Next == \E e \in End : Lose(e)

Spec == Init /\ [][Next]_link

-----------------------------------------------------------------------------
Roles(d, role) == {i \in d.evidence : i.role = role}

(* The highest confidence has no evidence against it, of any kind, and     *)
(* every attribution is supported by the very fact its type is named for.  *)
ConfidenceMatchesEvidence ==
  LET d == Diagnose(link) IN
  /\ d.confidence = 3 => Roles(d, "CONTRADICTS") = {}
  /\ d.type = "PHYSICAL_LINK_FAILURE" =>
       \E i \in Roles(d, "SUPPORTS") : i.kind = "INTERFACE_STATE"
  /\ d.type = "BGP_SESSION_FAILURE" =>
       /\ \E i \in Roles(d, "SUPPORTS") : i.kind = "BGP_SESSION"
       /\ \A i \in Roles(d, "CONTRADICTS") : i.kind = "ADDRESS_MATCH"
  /\ d.type # "none" => (d.confidence = 0 <=> d.type = "INSUFFICIENT_EVIDENCE")

(* "UNKNOWN is never treated as DOWN and never as UP": less observed never *)
(* makes a diagnosis out of nothing, nor, unless it hides what speaks      *)
(* against it, a more confident one.                                       *)
LosingNeverConfirms ==
  [][(\E e \in End : Lose(e)) =>
       LET d == Diagnose(link)  n == Diagnose(link') IN
       /\ d.type = "none" => n.type = "none"
       /\ n.keys \subseteq d.keys
       /\ n.confidence > d.confidence => Roles(d, "CONTRADICTS") # {}]_link
=============================================================================
