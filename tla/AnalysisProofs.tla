---------------------------- MODULE AnalysisProofs ----------------------------
(***************************************************************************)
(* Theorems about what the backend computes from its inputs alone: the     *)
(* diagnosis of a link, for every set of facts a collection may give of    *)
(* its two ends, its paths and its probe; the rules, for every stream of   *)
(* samples, count of flaps and window; and the configurations, for every   *)
(* text of either vendor and every sequence of texts.                      *)
(***************************************************************************)
EXTENDS MCAnalysis, FiniteSetTheorems, TLAPS

(* Whatever is observed, and whatever of it is lost. *)
AnyEnd == [interface : Links!InterfaceFacts, bgp : Links!BgpFacts,
           address : {"declared", "other", "unobserved"}, nextHop : {"present", "absent", "unobserved"}]
AnyLink == [ends : [Links!End -> AnyEnd], path : {"present", "absent", "unobserved"},
            probe : {"received", "lost", "unobserved"}]

LEMMA LinksAreAny == Links!FactsConstants => Links!Link \subseteq AnyLink
BY DEF Links!FactsConstants, Links!Link, AnyLink, Links!EndFacts, AnyEnd

(* What the two ends come to. *)
LEMMA EndStates ==
  ASSUME NEW l \in AnyLink
  PROVE  /\ \A e \in Links!End : /\ Links!InterfaceState(l.ends[e]) \in {"UP", "DOWN", "UNKNOWN"}
                           /\ Links!BgpState(l.ends[e]) \in {"DOWN", "ESTABLISHED", "OTHER", "UNKNOWN"}
                           /\ Links!AddressMatches(l.ends[e]) \in {"declared", "other", "unobserved"}
         /\ Links!Interfaces(l) = {Links!InterfaceState(l.ends["a"]), Links!InterfaceState(l.ends["b"])}
         /\ Links!Sessions(l) = {Links!BgpState(l.ends["a"]), Links!BgpState(l.ends["b"])}
<1>1. ASSUME NEW f \in AnyEnd
      PROVE  /\ Links!InterfaceState(f) \in {"UP", "DOWN", "UNKNOWN"}
             /\ Links!BgpState(f) \in {"DOWN", "ESTABLISHED", "OTHER", "UNKNOWN"}
             /\ Links!AddressMatches(f) \in {"declared", "other", "unobserved"}
  BY DEF AnyEnd, Links!InterfaceFacts, Links!BgpFacts,
         Links!InterfaceState, Links!BgpState, Links!AddressMatches
<1>2. \A e \in Links!End : l.ends[e] \in AnyEnd
  BY DEF AnyLink
<1>3. Links!Interfaces(l) = {Links!InterfaceState(l.ends["a"]), Links!InterfaceState(l.ends["b"])}
  BY DEF Links!Interfaces, Links!End
<1>4. Links!Sessions(l) = {Links!BgpState(l.ends["a"]), Links!BgpState(l.ends["b"])}
  BY DEF Links!Sessions, Links!End
<1> QED BY <1>1, <1>2, <1>3, <1>4

LEMMA Types ==
  ASSUME NEW l
  PROVE  /\ Links!TypeOf(l) = "PHYSICAL_LINK_FAILURE" <=>
              "ESTABLISHED" \notin Links!Sessions(l) /\ "DOWN" \in Links!Interfaces(l)
         /\ Links!TypeOf(l) = "BGP_SESSION_FAILURE" <=>
              "ESTABLISHED" \notin Links!Sessions(l) /\ "DOWN" \notin Links!Interfaces(l)
              /\ Links!Interfaces(l) = {"UP"}
         /\ Links!TypeOf(l) \in
              {"PHYSICAL_LINK_FAILURE", "BGP_SESSION_FAILURE", "INSUFFICIENT_EVIDENCE"}
BY DEF Links!TypeOf

(* What speaks for a diagnosis and what against it. *)
RoleOf(l, e) == Links!InterfaceRole(Links!TypeOf(l), Links!InterfaceState(l.ends[e]))
InterfaceItem(l, e) == Links!Item("INTERFACE_STATE", e, RoleOf(l, e))
SessionItem(l, e) == Links!Item("BGP_SESSION", e, Links!BgpRole(Links!BgpState(l.ends[e])))
AddressItem(l, e) == Links!Item("ADDRESS_MATCH", e, Links!AddressRole(Links!AddressMatches(l.ends[e])))

LEMMA EvidenceOf ==
  ASSUME NEW l
  PROVE  /\ \A e \in Links!End :
              {InterfaceItem(l, e), SessionItem(l, e), AddressItem(l, e)} \subseteq Links!Evidence(l)
         /\ \A i \in Links!Evidence(l) : i.role = "CONTRADICTS" =>
              \E e \in Links!End :
                \/ i.kind = "INTERFACE_STATE" /\ RoleOf(l, e) = "CONTRADICTS"
                \/ i.kind = "BGP_SESSION" /\ Links!BgpState(l.ends[e]) = "ESTABLISHED"
                \/ i.kind = "ADDRESS_MATCH" /\ Links!AddressMatches(l.ends[e]) = "other"
<1> DEFINE OfEnd(e) == {InterfaceItem(l, e), SessionItem(l, e), AddressItem(l, e)}
           context == {Links!Item("ROUTE_NEXT_HOP", e, Links!ContextRole(l.ends[e].nextHop))
                         : e \in Links!End}
                      \cup {Links!Item("ECMP_PATHS", "fabric", Links!ContextRole(l.path)),
                            Links!Item("REACHABILITY", "hosts", Links!ContextRole(l.probe))}
           endItems == UNION {OfEnd(e) : e \in Links!End}
<1>1. Links!Evidence(l) =
        IF Links!TypeOf(l) = "INSUFFICIENT_EVIDENCE" THEN endItems ELSE endItems \cup context
  BY Zenon DEF Links!Evidence, InterfaceItem, SessionItem, AddressItem, RoleOf
<1>2. \A i \in context : i.role # "CONTRADICTS"
  BY DEF Links!Item, Links!ContextRole
<1>3. \A e \in Links!End : OfEnd(e) \subseteq endItems
  OBVIOUS
<1>4. \A e \in Links!End : \A i \in OfEnd(e) : i.role = "CONTRADICTS" =>
        \/ i.kind = "INTERFACE_STATE" /\ RoleOf(l, e) = "CONTRADICTS"
        \/ i.kind = "BGP_SESSION" /\ Links!BgpState(l.ends[e]) = "ESTABLISHED"
        \/ i.kind = "ADDRESS_MATCH" /\ Links!AddressMatches(l.ends[e]) = "other"
  <2>1. \A s : Links!BgpRole(s) = "CONTRADICTS" => s = "ESTABLISHED"
    BY DEF Links!BgpRole
  <2>2. \A m : Links!AddressRole(m) = "CONTRADICTS" => m = "other"
    BY DEF Links!AddressRole
  <2> QED BY <2>1, <2>2 DEF Links!Item, InterfaceItem, SessionItem, AddressItem
<1>5. \A i \in endItems : \E e \in Links!End : i \in OfEnd(e)
  OBVIOUS
<1>6. \A e \in Links!End : {InterfaceItem(l, e), SessionItem(l, e), AddressItem(l, e)} = OfEnd(e)
  OBVIOUS
<1> HIDE DEF OfEnd, context, endItems
<1> QED BY <1>1, <1>2, <1>3, <1>4, <1>5, <1>6

LEMMA DiagnosisFields ==
  ASSUME NEW l
  PROVE  /\ ~Links!Symptomatic(l) => Links!Diagnose(l) = Links!NoDiagnosis
         /\ Links!Symptomatic(l) => /\ Links!Diagnose(l).type = Links!TypeOf(l)
                              /\ Links!Diagnose(l).confidence = Links!Confidence(l)
                              /\ Links!Diagnose(l).evidence = Links!Evidence(l)
                              /\ Links!Diagnose(l).keys = Links!SymptomKeys(l)
<1>1. CASE Links!Symptomatic(l)
  <2>1. Links!Diagnose(l) = [type |-> Links!TypeOf(l), confidence |-> Links!Confidence(l),
                       evidence |-> Links!Evidence(l), keys |-> Links!SymptomKeys(l)]
    BY <1>1, Zenon DEF Links!Diagnose
  <2> QED BY <1>1, <2>1
<1>2. CASE ~Links!Symptomatic(l)
  BY <1>2, Zenon DEF Links!Diagnose
<1> QED BY <1>1, <1>2

(* A link with no end in conflict has the confidence of the table. *)
LEMMA Confidences ==
  ASSUME NEW l
  PROVE  LET table == Links!ConfidenceUncapped(l) IN
         /\ Links!Confidence(l) = IF Links!Conflict(l) /\ table = 3 THEN 2 ELSE table
         /\ table = IF Links!TypeOf(l) = "PHYSICAL_LINK_FAILURE" THEN Links!PhysicalConfidence(l)
                    ELSE IF Links!TypeOf(l) = "BGP_SESSION_FAILURE" THEN Links!SessionConfidence(l)
                    ELSE 0
         /\ table \in 0..3
         /\ Links!PhysicalConfidence(l) \in 1..3 /\ Links!SessionConfidence(l) \in 2..3
<1>1. Links!PhysicalConfidence(l) \in 1..3 /\ Links!SessionConfidence(l) \in 2..3
  BY DEF Links!PhysicalConfidence, Links!SessionConfidence
<1>2. Links!Confidence(l) =
        IF Links!Conflict(l) /\ Links!ConfidenceUncapped(l) = 3 THEN 2 ELSE Links!ConfidenceUncapped(l)
  BY Zenon DEF Links!Confidence, Links!ConfidenceUncapped
<1>3. Links!ConfidenceUncapped(l) =
        IF Links!TypeOf(l) = "PHYSICAL_LINK_FAILURE" THEN Links!PhysicalConfidence(l)
        ELSE IF Links!TypeOf(l) = "BGP_SESSION_FAILURE" THEN Links!SessionConfidence(l)
        ELSE 0
  BY Types DEF Links!ConfidenceUncapped
<1> QED BY <1>1, <1>2, <1>3

(* The roles an interface can have. *)
LEMMA InterfaceRoles ==
  ASSUME NEW t, NEW state
  PROVE  /\ Links!InterfaceRole(t, state) = "CONTRADICTS" =>
              \/ t = "PHYSICAL_LINK_FAILURE" /\ state = "UP"
              \/ t = "BGP_SESSION_FAILURE" /\ state = "DOWN"
         /\ t = "PHYSICAL_LINK_FAILURE" /\ state = "DOWN" => Links!InterfaceRole(t, state) = "SUPPORTS"
         /\ t = "PHYSICAL_LINK_FAILURE" /\ state = "UP" => Links!InterfaceRole(t, state) = "CONTRADICTS"
BY DEF Links!InterfaceRole

LEMMA Agree ==
  ASSUME NEW l \in AnyLink, Links!Symptomatic(l)
  PROVE  LET Against == {i \in Links!Evidence(l) : i.role = "CONTRADICTS"}
             For == {i \in Links!Evidence(l) : i.role = "SUPPORTS"}
         IN /\ Links!Confidence(l) = 3 => Against = {}
            /\ Links!TypeOf(l) = "PHYSICAL_LINK_FAILURE" => \E i \in For : i.kind = "INTERFACE_STATE"
            /\ Links!TypeOf(l) = "BGP_SESSION_FAILURE" =>
                 /\ \E i \in For : i.kind = "BGP_SESSION"
                 /\ \A i \in Against : i.kind = "ADDRESS_MATCH"
            /\ Links!Confidence(l) = 0 <=> Links!TypeOf(l) = "INSUFFICIENT_EVIDENCE"
<1> DEFINE t == Links!TypeOf(l)
           I(e) == Links!InterfaceState(l.ends[e])
           S(e) == Links!BgpState(l.ends[e])
<1>1. /\ \A e \in Links!End : I(e) \in Links!Interfaces(l) /\ S(e) \in Links!Sessions(l)
      /\ \A s \in Links!Interfaces(l) : \E e \in Links!End : s = I(e)
      /\ \A s \in Links!Sessions(l) : \E e \in Links!End : s = S(e)
  BY DEF Links!Interfaces, Links!Sessions
<1>2. \A i \in Links!Evidence(l) : i.role = "CONTRADICTS" =>
        \/ /\ i.kind = "INTERFACE_STATE"
           /\ \/ t = "PHYSICAL_LINK_FAILURE" /\ "UP" \in Links!Interfaces(l)
              \/ t = "BGP_SESSION_FAILURE" /\ "DOWN" \in Links!Interfaces(l)
        \/ i.kind = "BGP_SESSION" /\ "ESTABLISHED" \in Links!Sessions(l)
        \/ i.kind = "ADDRESS_MATCH" /\ Links!Conflict(l)
  <2> SUFFICES ASSUME NEW i \in Links!Evidence(l), i.role = "CONTRADICTS"
               PROVE  \/ /\ i.kind = "INTERFACE_STATE"
                         /\ \/ t = "PHYSICAL_LINK_FAILURE" /\ "UP" \in Links!Interfaces(l)
                            \/ t = "BGP_SESSION_FAILURE" /\ "DOWN" \in Links!Interfaces(l)
                      \/ i.kind = "BGP_SESSION" /\ "ESTABLISHED" \in Links!Sessions(l)
                      \/ i.kind = "ADDRESS_MATCH" /\ Links!Conflict(l)
    OBVIOUS
  <2>1. PICK e \in Links!End :
          \/ i.kind = "INTERFACE_STATE" /\ Links!InterfaceRole(t, I(e)) = "CONTRADICTS"
          \/ i.kind = "BGP_SESSION" /\ S(e) = "ESTABLISHED"
          \/ i.kind = "ADDRESS_MATCH" /\ Links!AddressMatches(l.ends[e]) = "other"
    BY EvidenceOf DEF RoleOf
  <2> HIDE DEF t, I, S
  <2> QED BY <1>1, <2>1, InterfaceRoles DEF Links!Conflict
<1>3. Links!Confidence(l) = 3 => /\ ~Links!Conflict(l)
                           /\ \/ t = "PHYSICAL_LINK_FAILURE" /\ Links!Interfaces(l) = {"DOWN"}
                              \/ t = "BGP_SESSION_FAILURE"
  BY Confidences, Types DEF Links!PhysicalConfidence
<1>4. t = "PHYSICAL_LINK_FAILURE" =>
        \E i \in Links!Evidence(l) : i.role = "SUPPORTS" /\ i.kind = "INTERFACE_STATE"
  <2> SUFFICES ASSUME t = "PHYSICAL_LINK_FAILURE"
               PROVE  \E i \in Links!Evidence(l) : i.role = "SUPPORTS" /\ i.kind = "INTERFACE_STATE"
    OBVIOUS
  <2>1. PICK e \in Links!End : I(e) = "DOWN"
    BY <1>1, Types
  <2>2. Links!Item("INTERFACE_STATE", e, Links!InterfaceRole(t, I(e))) \in Links!Evidence(l)
    BY EvidenceOf DEF InterfaceItem, RoleOf
  <2>3. Links!InterfaceRole(t, I(e)) = "SUPPORTS"
    BY <2>1, InterfaceRoles
  <2> HIDE DEF t, I
  <2> QED BY <2>2, <2>3 DEF Links!Item
<1>5. t = "BGP_SESSION_FAILURE" =>
        \E i \in Links!Evidence(l) : i.role = "SUPPORTS" /\ i.kind = "BGP_SESSION"
  <2> SUFFICES ASSUME t = "BGP_SESSION_FAILURE"
               PROVE  \E i \in Links!Evidence(l) : i.role = "SUPPORTS" /\ i.kind = "BGP_SESSION"
    OBVIOUS
  <2>1. PICK e \in Links!End : S(e) = "DOWN"
    BY <1>1, Types DEF Links!Symptomatic
  <2>2. Links!Item("BGP_SESSION", e, Links!BgpRole(S(e))) \in Links!Evidence(l)
    BY EvidenceOf DEF SessionItem
  <2>3. Links!BgpRole(S(e)) = "SUPPORTS"
    BY <2>1 DEF Links!BgpRole
  <2> HIDE DEF t, S
  <2> QED BY <2>2, <2>3 DEF Links!Item
<1>6. Links!Confidence(l) = 0 <=> t = "INSUFFICIENT_EVIDENCE"
  BY Confidences, Types
<1> HIDE DEF t, I, S
<1>7. t = Links!TypeOf(l)
  BY DEF t
<1> QED BY <1>2, <1>3, <1>4, <1>5, <1>6, <1>7, Types

-----------------------------------------------------------------------------
(* Less is observed of m than of l. *)
Less(l, m) == \A e \in Links!End :
  /\ Links!InterfaceState(m.ends[e]) \in {Links!InterfaceState(l.ends[e]), "UNKNOWN"}
  /\ Links!BgpState(m.ends[e]) \in {Links!BgpState(l.ends[e]), "UNKNOWN"}
  /\ Links!AddressMatches(m.ends[e]) \in {Links!AddressMatches(l.ends[e]), "unobserved"}

LEMMA Loses ==
  ASSUME NEW e \in Links!End, link \in AnyLink, Links!Lose(e)
  PROVE  link' \in AnyLink /\ Less(link, link')
<1> DEFINE g == link.ends[e]
<1>1. g \in AnyEnd /\ \A d \in Links!End : link.ends[d] \in AnyEnd
  BY DEF AnyLink
<1>2. PICK f \in {[g EXCEPT !.interface = "MISSING", !.address = "unobserved"],
                  [g EXCEPT !.bgp = "MISSING"],
                  [g EXCEPT !.address = "unobserved"],
                  [Links!Unobserved(g) EXCEPT !.interface = "MISSING", !.bgp = "MISSING"]} :
        link' = [link EXCEPT !.ends = [@ EXCEPT ![e] = f]]
  BY Zenon DEF Links!Lose
<1> HIDE DEF g
<1>3. /\ f \in AnyEnd
      /\ \/ f.interface = "MISSING" /\ f.bgp \in {g.bgp, "MISSING"}
         \/ f.interface = g.interface /\ f.bgp \in {g.bgp, "MISSING"}
                                      /\ f.address \in {g.address, "unobserved"}
  <2>1. CASE f = [g EXCEPT !.interface = "MISSING", !.address = "unobserved"]
    BY <1>1, <2>1 DEF AnyEnd, Links!InterfaceFacts
  <2>2. CASE f = [g EXCEPT !.bgp = "MISSING"]
    BY <1>1, <2>2 DEF AnyEnd, Links!BgpFacts
  <2>3. CASE f = [g EXCEPT !.address = "unobserved"]
    BY <1>1, <2>3 DEF AnyEnd
  <2>4. CASE f = [Links!Unobserved(g) EXCEPT !.interface = "MISSING", !.bgp = "MISSING"]
    BY <1>1, <2>4 DEF AnyEnd, Links!InterfaceFacts, Links!BgpFacts, Links!Unobserved
  <2> QED BY <1>2, <2>1, <2>2, <2>3, <2>4
<1>4. /\ Links!InterfaceState(f) \in {Links!InterfaceState(g), "UNKNOWN"}
      /\ Links!BgpState(f) \in {Links!BgpState(g), "UNKNOWN"}
      /\ Links!AddressMatches(f) \in {Links!AddressMatches(g), "unobserved"}
  <2>1. Links!InterfaceState(f) \in {Links!InterfaceState(g), "UNKNOWN"}
    BY <1>3 DEF Links!InterfaceState
  <2>2. Links!BgpState(f) \in {Links!BgpState(g), "UNKNOWN"}
    BY <1>3 DEF Links!BgpState
  <2>3. Links!AddressMatches(f) \in {Links!AddressMatches(g), "unobserved"}
    BY <1>1, <1>3 DEF Links!AddressMatches, AnyEnd
  <2> QED BY <2>1, <2>2, <2>3
<1>5. /\ link' \in AnyLink
      /\ link'.ends[e] = f /\ \A d \in Links!End \ {e} : link'.ends[d] = link.ends[d]
  BY <1>2, <1>3 DEF AnyLink
<1> QED BY <1>4, <1>5 DEF Less, g

LEMMA NeverMore ==
  ASSUME NEW l \in AnyLink, NEW m \in AnyLink, Less(l, m)
  PROVE  /\ ~Links!Symptomatic(l) => ~Links!Symptomatic(m)
         /\ Links!SymptomKeys(m) \subseteq Links!SymptomKeys(l)
         /\ Links!Symptomatic(m) /\ Links!Confidence(m) > Links!Confidence(l) =>
              \E i \in Links!Evidence(l) : i.role = "CONTRADICTS"
<1> DEFINE I(x, e) == Links!InterfaceState(x.ends[e])
           S(x, e) == Links!BgpState(x.ends[e])
<1>1. ASSUME NEW x \in AnyLink
      PROVE  /\ Links!Interfaces(x) = {I(x, "a"), I(x, "b")}
             /\ Links!Sessions(x) = {S(x, "a"), S(x, "b")}
             /\ \A e \in Links!End : I(x, e) \in {"UP", "DOWN", "UNKNOWN"}
                               /\ S(x, e) \in {"DOWN", "ESTABLISHED", "OTHER", "UNKNOWN"}
  BY <1>1, EndStates
<1>2. \A e \in Links!End : I(m, e) \in {I(l, e), "UNKNOWN"} /\ S(m, e) \in {S(l, e), "UNKNOWN"}
  BY DEF Less
<1>3. Links!SymptomKeys(m) \subseteq Links!SymptomKeys(l)
  BY DEF Less, Links!SymptomKeys
<1> HIDE DEF I, S
<1>4. Links!End = {"a", "b"}
  BY DEF Links!End
<1>5. /\ Links!Interfaces(m) = {I(m, "a"), I(m, "b")} /\ Links!Sessions(m) = {S(m, "a"), S(m, "b")}
      /\ Links!Interfaces(l) = {I(l, "a"), I(l, "b")} /\ Links!Sessions(l) = {S(l, "a"), S(l, "b")}
  BY <1>1
<1>6. /\ I(m, "a") \in {I(l, "a"), "UNKNOWN"} /\ I(m, "b") \in {I(l, "b"), "UNKNOWN"}
      /\ S(m, "a") \in {S(l, "a"), "UNKNOWN"} /\ S(m, "b") \in {S(l, "b"), "UNKNOWN"}
  BY <1>2, <1>4
<1>7. /\ "DOWN" \in Links!Interfaces(m) => "DOWN" \in Links!Interfaces(l)
      /\ "DOWN" \in Links!Sessions(m) => "DOWN" \in Links!Sessions(l)
      /\ Links!Interfaces(m) = {"UP"} => Links!Interfaces(l) = {"UP"}
      /\ Links!Interfaces(m) = {"DOWN"} => Links!Interfaces(l) = {"DOWN"}
      /\ Links!Sessions(m) = {"DOWN"} => Links!Sessions(l) = {"DOWN"}
  BY <1>5, <1>6
<1>8. ASSUME \A i \in Links!Evidence(l) : i.role # "CONTRADICTS"
      PROVE  Links!Confidence(m) <= Links!Confidence(l)
  <2>1. "ESTABLISHED" \notin Links!Sessions(l) /\ ~Links!Conflict(l) /\ ~Links!Conflict(m)
    <3>1. \A e \in Links!End : Links!BgpState(l.ends[e]) # "ESTABLISHED"
      <4> SUFFICES ASSUME NEW e \in Links!End, Links!BgpState(l.ends[e]) = "ESTABLISHED" PROVE FALSE
        OBVIOUS
      <4>1. SessionItem(l, e) \in Links!Evidence(l)
        BY EvidenceOf
      <4>2. Links!BgpRole(Links!BgpState(l.ends[e])) = "CONTRADICTS"
        BY DEF Links!BgpRole
      <4> QED BY <1>8, <4>1, <4>2 DEF Links!Item, SessionItem
    <3>2. \A e \in Links!End : Links!AddressMatches(l.ends[e]) # "other"
      <4> SUFFICES ASSUME NEW e \in Links!End, Links!AddressMatches(l.ends[e]) = "other" PROVE FALSE
        OBVIOUS
      <4>1. AddressItem(l, e) \in Links!Evidence(l)
        BY EvidenceOf
      <4>2. Links!AddressRole(Links!AddressMatches(l.ends[e])) = "CONTRADICTS"
        BY DEF Links!AddressRole
      <4> QED BY <1>8, <4>1, <4>2 DEF Links!Item, AddressItem
    <3>3. \A e \in Links!End : Links!AddressMatches(m.ends[e]) # "other"
      BY <3>2 DEF Less
    <3> QED BY <3>1, <3>2, <3>3 DEF Links!Sessions, Links!Conflict
  <2>2. Links!TypeOf(l) = "BGP_SESSION_FAILURE" <=> Links!Interfaces(l) = {"UP"}
    BY <2>1, Types
  <2>3. Links!TypeOf(l) = "PHYSICAL_LINK_FAILURE" <=> "DOWN" \in Links!Interfaces(l)
    BY <2>1, Types
  <2>4. /\ Links!Confidence(l) = Links!ConfidenceUncapped(l)
        /\ Links!Confidence(m) = Links!ConfidenceUncapped(m)
    BY <2>1, Confidences
  <2>5. CASE Links!TypeOf(m) = "PHYSICAL_LINK_FAILURE"
    <3>1. Links!TypeOf(l) = "PHYSICAL_LINK_FAILURE"
      BY <1>7, <2>3, <2>5, Types
    <3>2. Links!PhysicalConfidence(m) <= Links!PhysicalConfidence(l)
      BY <1>7 DEF Links!PhysicalConfidence
    <3> QED BY <2>4, <2>5, <3>1, <3>2, Confidences
  <2>6. CASE Links!TypeOf(m) = "BGP_SESSION_FAILURE"
    <3>1. Links!TypeOf(l) = "BGP_SESSION_FAILURE"
      BY <1>7, <2>2, <2>6, Types
    <3>2. Links!SessionConfidence(m) <= Links!SessionConfidence(l)
      BY <1>7 DEF Links!SessionConfidence
    <3> QED BY <2>4, <2>6, <3>1, <3>2, Confidences
  <2>7. CASE Links!TypeOf(m) = "INSUFFICIENT_EVIDENCE"
    BY <2>4, <2>7, Confidences
  <2> QED BY <2>5, <2>6, <2>7, Types
<1>9. Links!Confidence(m) \in 0..3 /\ Links!Confidence(l) \in 0..3
  BY Confidences
<1> QED BY <1>3, <1>7, <1>8, <1>9 DEF Links!Symptomatic

-----------------------------------------------------------------------------
(* The link is classified alone. *)
LEMMA LinksAreDiagnosed == AnalysisSpec => Links!Spec
<1>1. AnalysisInit => Links!Init
  BY DEF AnalysisInit, Links!Init
<1>2. [AnalysisNext]_all => [Links!Next]_link
  BY DEF AnalysisNext, all
<1> QED BY <1>1, <1>2, PTL DEF AnalysisSpec, Links!Spec

LEMMA LinkInit == Links!Init => link \in AnyLink
BY AnalysisAssumption, LinksAreAny DEF Links!Init

LEMMA LinkNext == link \in AnyLink /\ [Links!Next]_link => (link \in AnyLink)'
BY Loses DEF Links!Next

(* For every set of facts a collection may show: the highest confidence    *)
(* has no evidence against it, and a diagnosis is supported by the fact it *)
(* is named for.                                                           *)
THEOREM DiagnosisSupported == AnalysisSpec => []ConfidenceMatchesEvidence
<1>1. link \in AnyLink => Links!ConfidenceMatchesEvidence
  <2> SUFFICES ASSUME link \in AnyLink PROVE Links!ConfidenceMatchesEvidence
    OBVIOUS
  <2>1. CASE Links!Symptomatic(link)
    <3>1. Links!TypeOf(link) # "none"
      BY Types
    <3> QED BY <2>1, <3>1, Agree, DiagnosisFields DEF Links!ConfidenceMatchesEvidence, Links!Roles
  <2>2. CASE ~Links!Symptomatic(link)
    <3>1. Links!Diagnose(link) = Links!NoDiagnosis
      BY <2>2, DiagnosisFields
    <3> QED BY <3>1 DEF Links!ConfidenceMatchesEvidence, Links!NoDiagnosis
  <2> QED BY <2>1, <2>2
<1> QED BY <1>1, LinksAreDiagnosed, LinkInit, LinkNext, PTL DEF Links!Spec, ConfidenceMatchesEvidence

(* Whatever is lost of what was observed: no diagnosis comes out of        *)
(* nothing, no incident is added, and a more confident diagnosis only      *)
(* where evidence spoke against the one before.                            *)
THEOREM LosingConfirmsNothing == AnalysisSpec => LosingNeverConfirms
<1>1. ASSUME link \in AnyLink, NEW e \in Links!End, Links!Lose(e)
      PROVE  LET d == Links!Diagnose(link)  n == Links!Diagnose(link') IN
             /\ d.type = "none" => n.type = "none"
             /\ n.keys \subseteq d.keys
             /\ n.confidence > d.confidence => Links!Roles(d, "CONTRADICTS") # {}
  <2>1. link' \in AnyLink /\ Less(link, link')
    BY <1>1, Loses
  <2>2. /\ ~Links!Symptomatic(link) => ~Links!Symptomatic(link')
        /\ Links!SymptomKeys(link') \subseteq Links!SymptomKeys(link)
        /\ Links!Symptomatic(link') /\ Links!Confidence(link') > Links!Confidence(link) =>
             \E i \in Links!Evidence(link) : i.role = "CONTRADICTS"
    BY <1>1, <2>1, NeverMore
  <2>3. CASE ~Links!Symptomatic(link')
    <3>1. Links!Diagnose(link') = Links!NoDiagnosis
      BY <2>3, DiagnosisFields
    <3>2. Links!Diagnose(link).confidence \in 0..3
      BY DiagnosisFields, Confidences DEF Links!NoDiagnosis
    <3> QED BY <3>1, <3>2 DEF Links!NoDiagnosis
  <2>4. CASE Links!Symptomatic(link') /\ Links!Symptomatic(link)
    <3>1. Links!TypeOf(link) # "none"
      BY Types
    <3> QED BY <2>2, <2>4, <3>1, DiagnosisFields DEF Links!Roles
  <2> QED BY <2>2, <2>3, <2>4
<1>2. link \in AnyLink /\ [Links!Next]_link =>
        [(\E e \in Links!End : Links!Lose(e)) =>
           LET d == Links!Diagnose(link)  n == Links!Diagnose(link') IN
           /\ d.type = "none" => n.type = "none"
           /\ n.keys \subseteq d.keys
           /\ n.confidence > d.confidence => Links!Roles(d, "CONTRADICTS") # {}]_link
  BY <1>1
<1> QED
  BY <1>2, LinksAreDiagnosed, LinkInit, LinkNext, PTL
  DEF Links!Spec, Links!LosingNeverConfirms, LosingNeverConfirms

-----------------------------------------------------------------------------
(* Finite sets of places, by how many come after each. *)
Later(k, S) == {l \in S : l > k}

Places(S) == S \subseteq Nat /\ IsFiniteSet(S)

LEMMA LaterCounts ==
  ASSUME NEW S, Places(S), NEW k \in S
  PROVE  /\ IsFiniteSet(Later(k, S)) /\ Cardinality(Later(k, S)) \in 0..Cardinality(S) - 1
         /\ \A l \in S : l < k => Cardinality(Later(k, S)) < Cardinality(Later(l, S))
<1>1. /\ IsFiniteSet(S) /\ Cardinality(S) \in Nat
      /\ \A l \in S : IsFiniteSet(Later(l, S)) /\ Cardinality(Later(l, S)) \in Nat
  BY FS_Subset, FS_CardinalityType DEF Places, Later
<1>2. Cardinality(Later(k, S)) <= Cardinality(S) - 1
  <2>1. Later(k, S) \subseteq S /\ Later(k, S) # S
    BY DEF Places, Later
  <2>2. Cardinality(Later(k, S)) <= Cardinality(S) /\ Cardinality(Later(k, S)) # Cardinality(S)
    BY <1>1, <2>1, FS_Subset
  <2> QED BY <1>1, <2>2
<1>3. ASSUME NEW l \in S, l < k
      PROVE  Cardinality(Later(k, S)) < Cardinality(Later(l, S))
  <2>1. Later(k, S) \subseteq Later(l, S) /\ Later(k, S) # Later(l, S)
    <3>1. k \in Later(l, S) /\ k \notin Later(k, S)
      BY <1>3 DEF Places, Later
    <3>2. \A x \in S : x > k => x > l
      BY <1>3 DEF Places
    <3>3. Later(k, S) \subseteq Later(l, S)
      BY <3>2 DEF Later
    <3> QED BY <3>1, <3>3
  <2>2. /\ Cardinality(Later(k, S)) <= Cardinality(Later(l, S))
        /\ Cardinality(Later(k, S)) # Cardinality(Later(l, S))
    BY <1>1, <2>1, FS_Subset
  <2> QED BY <1>1, <2>2
<1> QED BY <1>1, <1>2, <1>3

LEMMA Ranks ==
  ASSUME NEW S, Places(S), NEW n \in 0..Cardinality(S) - 1
  PROVE  \E k \in S : Cardinality(Later(k, S)) = n
<1> DEFINE T == 0..Cardinality(S) - 1
           rank == [k \in S |-> Cardinality(Later(k, S))]
<1>1. Cardinality(S) \in Nat /\ IsFiniteSet(S)
  BY FS_CardinalityType DEF Places
<1>2. IsFiniteSet(T) /\ Cardinality(T) = Cardinality(S)
  BY <1>1, FS_Interval
<1>3. rank \in Injection(S, T)
  <2>1. rank \in [S -> T]
    BY LaterCounts
  <2>2. ASSUME NEW k \in S, NEW l \in S, k # l PROVE rank[k] # rank[l]
    <3>1. \A x \in S : Cardinality(Later(x, S)) \in T
      BY LaterCounts
    <3>2. k < l \/ l < k
      BY <2>2 DEF Places
    <3> QED BY <1>1, <3>1, <3>2, LaterCounts
  <2> HIDE DEF T, rank
  <2> QED BY <2>1, <2>2 DEF Injection, IsInjective
<1> HIDE DEF T, rank
<1>4. rank \in Surjection(S, T)
  BY <1>2, <1>3, FS_Injection
<1>5. n \in T
  BY DEF T
<1>6. PICK k \in S : rank[k] = n
  BY <1>4, <1>5 DEF Surjection
<1> QED BY <1>6 DEF rank

LEMMA FirstAndLast ==
  ASSUME NEW S, Places(S), S # {}
  PROVE  /\ \E k \in S : \A l \in S : k <= l
         /\ \E k \in S : \A l \in S : l <= k
<1>1. Cardinality(S) \in Nat /\ Cardinality(S) # 0 /\ IsFiniteSet(S)
  BY FS_CardinalityType, FS_EmptySet DEF Places
<1>2. PICK k \in S : Cardinality(Later(k, S)) = Cardinality(S) - 1
  BY <1>1, Ranks
<1>3. Later(k, S) = S \ {k}
  <2>1. IsFiniteSet(S \ {k}) /\ Cardinality(S \ {k}) = Cardinality(S) - 1
    BY <1>1, FS_RemoveElement
  <2>2. Later(k, S) \subseteq S \ {k}
    BY DEF Places, Later
  <2> QED BY <1>2, <2>1, <2>2, FS_Subset
<1>4. PICK m \in S : Cardinality(Later(m, S)) = 0
  BY <1>1, Ranks
<1>5. Later(m, S) = {}
  BY <1>4, LaterCounts, FS_EmptySet
<1>6. \A l \in S : k <= l
  BY <1>3 DEF Later, Places
<1>7. \A l \in S : l <= m
  BY <1>5 DEF Later, Places
<1> QED BY <1>6, <1>7

(* The latest n of at least n are n, and nothing later is left out. *)
LEMMA LatestAre ==
  ASSUME NEW S, Places(S), NEW n \in Nat
  PROVE  LET latest == Flaps!Latest(n, S) IN
         /\ latest = {k \in S : Cardinality(Later(k, S)) < n}
         /\ IsFiniteSet(latest) /\ (n <= Cardinality(S) => Cardinality(latest) = n)
         /\ \A k \in latest, l \in S : k <= l => l \in latest
<1> DEFINE latest == {k \in S : Cardinality(Later(k, S)) < n}
           T == 0..n - 1
           rank == [k \in latest |-> Cardinality(Later(k, S))]
<1>1. Flaps!Latest(n, S) = latest
  BY DEF Flaps!Latest, Flaps!Cardinality, Cardinality, Later
<1>2. IsFiniteSet(latest) /\ Cardinality(S) \in Nat
  BY FS_Subset, FS_CardinalityType DEF Places
<1>3. ASSUME NEW k \in latest, NEW l \in S, k <= l PROVE l \in latest
  <2>1. Cardinality(Later(k, S)) \in Nat /\ Cardinality(Later(l, S)) \in Nat
    BY <1>2, LaterCounts
  <2>2. CASE k = l
    BY <2>2
  <2>3. CASE k < l
    <3>1. Cardinality(Later(l, S)) < Cardinality(Later(k, S))
      BY <2>3, LaterCounts
    <3> QED BY <2>1, <3>1
  <2> QED BY <1>3, <2>2, <2>3 DEF Places
<1>4. ASSUME n <= Cardinality(S) PROVE Cardinality(latest) = n
  <2>1. IsFiniteSet(T) /\ Cardinality(T) = n
    BY FS_Interval
  <2>2. rank \in [latest -> T]
    <3>1. \A k \in latest : Cardinality(Later(k, S)) \in Nat
      BY <1>2, LaterCounts
    <3> QED BY <3>1
  <2>3. ASSUME NEW k \in latest, NEW l \in latest, k # l PROVE rank[k] # rank[l]
    <3>1. Cardinality(Later(k, S)) \in Nat /\ Cardinality(Later(l, S)) \in Nat
      BY <1>2, LaterCounts
    <3>2. k < l \/ l < k
      BY <2>3 DEF Places
    <3> QED BY <3>1, <3>2, LaterCounts
  <2>4. ASSUME NEW r \in T PROVE \E k \in latest : rank[k] = r
    <3>1. r \in 0..Cardinality(S) - 1 /\ r < n
      BY <1>2, <1>4
    <3>2. PICK k \in S : Cardinality(Later(k, S)) = r
      BY <3>1, Ranks
    <3> QED BY <3>1, <3>2
  <2> HIDE DEF rank, T, latest
  <2>5. rank \in Injection(latest, T) /\ rank \in Surjection(latest, T)
    BY <2>2, <2>3, <2>4 DEF Injection, IsInjective, Surjection
  <2> QED BY <1>2, <2>1, <2>5, FS_Injection
<1> QED BY <1>1, <1>2, <1>3, <1>4

-----------------------------------------------------------------------------
(* The rules.  A stream consists of samples of the part that enumerates it. *)
StreamsOfSamples ==
  /\ part = "flaps" => stream \in Seq(Flaps!Sample)
  /\ part = "outages" => stream \in Seq(Outages!Sample)

LEMMA StreamsStart == AnalysisInit => StreamsOfSamples
BY DEF AnalysisInit, Flaps!Init, StreamsOfSamples

LEMMA StreamsGrow == StreamsOfSamples /\ [AnalysisNext]_all => StreamsOfSamples'
<1> SUFFICES ASSUME StreamsOfSamples, [AnalysisNext]_all PROVE StreamsOfSamples'
  OBVIOUS
<1>1. CASE part = "flaps" /\ Flaps!Next /\ UNCHANGED <<part, vars, link>>
  BY <1>1 DEF Flaps!Next, StreamsOfSamples
<1>2. CASE part = "outages" /\ Outages!Next /\ UNCHANGED <<part, vars, link>>
  BY <1>2 DEF Outages!Next, StreamsOfSamples
<1>3. CASE UNCHANGED <<part, stream>>
  BY <1>3 DEF StreamsOfSamples
<1> QED BY <1>1, <1>2, <1>3 DEF AnalysisNext, all

LEMMA StreamsAreOfSamples == AnalysisSpec => []StreamsOfSamples
BY StreamsStart, StreamsGrow, PTL DEF AnalysisSpec

(* The transitions of an interface are observations of it, of which the    *)
(* first is none.                                                          *)
LEMMA TransitionsAre ==
  ASSUME stream \in Seq(Flaps!Sample), NEW i \in FlapInterface
  PROVE  LET obs == Flaps!LinkObservations(stream, i)  t == Flaps!Transitions(stream, i) IN
         /\ Places(obs) /\ Places(t) /\ t \subseteq obs /\ obs \subseteq DOMAIN stream
         /\ t # {} => \E k \in obs : k \notin t
         /\ \A k \in obs : stream[k].at \in Nat
<1> DEFINE obs == Flaps!LinkObservations(stream, i)
           t == Flaps!Transitions(stream, i)
<1>1. /\ Len(stream) \in Nat /\ DOMAIN stream = 1..Len(stream)
      /\ \A k \in 1..Len(stream) : stream[k] \in Flaps!Sample
  OBVIOUS
<1>2. obs \subseteq 1..Len(stream)
  BY <1>1 DEF Flaps!LinkObservations
<1>3. t \subseteq obs
  BY DEF Flaps!Transitions
<1>4. \A k \in 1..Len(stream) : stream[k].at \in Nat
  BY <1>1, AnalysisAssumption DEF Flaps!Sample, Flaps!Time, Flaps!RuleConstants
<1>5. IsFiniteSet(1..Len(stream)) /\ 1..Len(stream) \subseteq Nat
  BY <1>1, FS_Interval
<1>6. Places(obs) /\ Places(t)
  BY <1>2, <1>3, <1>5, FS_Subset DEF Places
<1>7. ASSUME t # {} PROVE \E k \in obs : k \notin t
  <2>1. PICK k \in obs : \A l \in obs : k <= l
    BY <1>3, <1>6, <1>7, FirstAndLast
  <2>2. \A l \in obs : ~(l < k)
    BY <1>6, <2>1 DEF Places
  <2>3. k \notin t
    BY <2>2 DEF Flaps!Transitions
  <2> QED BY <2>3
<1> QED BY <1>1, <1>2, <1>3, <1>4, <1>6, <1>7

(* The rule for flaps is a count of the window. *)
LEMMA FlapCounts ==
  ASSUME stream \in Seq(Flaps!Sample)
  PROVE  Flaps!FlapCountsWindow
<1> SUFFICES ASSUME NEW i \in FlapInterface, Flaps!Chronological
             PROVE  LET t == Flaps!Transitions(stream, i)
                        inWindow == {k \in t : \A l \in t : stream[l].at <= stream[k].at + FlapWindow}
                    IN Flaps!LinkFlap(stream, i) <=> Cardinality(inWindow) >= FlapCount
  BY DEF Flaps!FlapCountsWindow, Flaps!Cardinality, Cardinality
<1> DEFINE t == Flaps!Transitions(stream, i)
           inWindow == {k \in t : \A l \in t : stream[l].at <= stream[k].at + FlapWindow}
           latest == Flaps!Latest(FlapCount, t)
           Close == \A j, k \in latest : j <= k => stream[k].at - stream[j].at \in 0..FlapWindow
<1>1. FlapCount \in Nat /\ FlapWindow \in Nat
  BY AnalysisAssumption DEF Flaps!RuleConstants
<1>2. Flaps!LinkFlap(stream, i) <=> Cardinality(t) >= FlapCount /\ Close
  BY DEF Flaps!LinkFlap, Flaps!Cardinality, Cardinality
<1>3. /\ Places(t) /\ \A k \in t : stream[k].at \in Nat
      /\ t \subseteq DOMAIN stream
  BY TransitionsAre
<1>4. /\ latest = {k \in t : Cardinality(Later(k, t)) < FlapCount}
      /\ IsFiniteSet(latest) /\ (FlapCount <= Cardinality(t) => Cardinality(latest) = FlapCount)
      /\ \A k \in latest, l \in t : k <= l => l \in latest
  BY <1>1, <1>3, LatestAre
<1>5. \A j, k \in t : j <= k => stream[j].at <= stream[k].at
  BY <1>3 DEF Flaps!Chronological
<1>6. /\ IsFiniteSet(t) /\ t \subseteq Nat /\ Cardinality(t) \in Nat
      /\ inWindow \subseteq t /\ IsFiniteSet(inWindow) /\ Cardinality(inWindow) \in Nat
      /\ Cardinality(inWindow) <= Cardinality(t)
  BY <1>3, FS_Subset, FS_CardinalityType DEF Places
<1>7. ASSUME Cardinality(t) >= FlapCount, Close
      PROVE  Cardinality(inWindow) >= FlapCount
  <2>1. ASSUME NEW k \in latest, NEW l \in t
        PROVE  stream[l].at <= stream[k].at + FlapWindow
    <3>1. k \in t /\ stream[k].at \in Nat /\ stream[l].at \in Nat /\ k \in Nat /\ l \in Nat
      BY <1>3, <1>4, <1>6
    <3>2. CASE l <= k
      <4>1. stream[l].at <= stream[k].at
        BY <1>5, <3>1, <3>2
      <4> QED BY <1>1, <3>1, <4>1
    <3>3. CASE k <= l
      <4>1. stream[l].at - stream[k].at \in 0..FlapWindow
        BY <1>4, <1>7, <3>3
      <4> QED BY <1>1, <3>1, <4>1
    <3> QED BY <3>1, <3>2, <3>3
  <2>2. latest \subseteq inWindow
    BY <1>4, <2>1
  <2>3. Cardinality(latest) <= Cardinality(inWindow)
    BY <1>6, <2>2, FS_Subset
  <2> QED BY <1>1, <1>4, <1>6, <1>7, <2>3
<1>8. ASSUME Cardinality(inWindow) >= FlapCount
      PROVE  Cardinality(t) >= FlapCount /\ Close
  <2>1. ASSUME NEW k \in latest PROVE k \in inWindow
    <3> SUFFICES ASSUME k \notin inWindow PROVE FALSE
      OBVIOUS
    <3>1. k \in t /\ k \in Nat /\ IsFiniteSet(Later(k, t)) /\ Cardinality(Later(k, t)) \in Nat
          /\ Cardinality(Later(k, t)) < FlapCount
      BY <1>4, <1>6, FS_Subset, FS_CardinalityType DEF Later
    <3>2. ASSUME NEW w \in inWindow PROVE w > k
      <4> SUFFICES ASSUME w <= k PROVE FALSE
        BY <1>6, <3>1
      <4>1. stream[w].at <= stream[k].at
        BY <1>5, <1>6, <3>1
      <4>2. \A l \in t : stream[l].at <= stream[w].at + FlapWindow
        OBVIOUS
      <4>3. ASSUME NEW l \in t PROVE stream[l].at <= stream[k].at + FlapWindow
        <5>1. stream[l].at \in Nat /\ stream[w].at \in Nat /\ stream[k].at \in Nat
          BY <1>3, <1>6, <3>1
        <5>2. stream[l].at <= stream[w].at + FlapWindow
          BY <4>2
        <5> QED BY <1>1, <4>1, <5>1, <5>2
      <4> QED BY <3>1, <4>3
    <3>3. inWindow \subseteq Later(k, t)
      BY <1>6, <3>2 DEF Later
    <3>4. Cardinality(inWindow) <= Cardinality(Later(k, t))
      BY <3>1, <3>3, FS_Subset
    <3> QED BY <1>1, <1>6, <1>8, <3>1, <3>4
  <2>2. ASSUME NEW j \in latest, NEW k \in latest, j <= k
        PROVE  stream[k].at - stream[j].at \in 0..FlapWindow
    <3>1. j \in t /\ k \in t
      BY <1>4
    <3>2. stream[j].at \in Nat /\ stream[k].at \in Nat /\ stream[j].at <= stream[k].at
      BY <1>3, <1>5, <2>2, <3>1
    <3>3. stream[k].at <= stream[j].at + FlapWindow
      BY <2>1, <3>1
    <3> QED BY <1>1, <3>2, <3>3
  <2> QED BY <1>1, <1>6, <1>8, <2>2
<1> QED BY <1>2, <1>7, <1>8

LEMMA FlapNeeds ==
  ASSUME stream \in Seq(Flaps!Sample)
  PROVE  Flaps!FlapNeedsObservations
<1> SUFFICES ASSUME NEW i \in FlapInterface, Flaps!LinkFlap(stream, i)
             PROVE  Cardinality(Flaps!LinkObservations(stream, i)) > FlapCount
  BY DEF Flaps!FlapNeedsObservations, Flaps!LinkObservations, Flaps!Cardinality, Cardinality
<1> DEFINE obs == Flaps!LinkObservations(stream, i)
           t == Flaps!Transitions(stream, i)
<1>1. FlapCount \in Nat /\ FlapCount # 0
  BY AnalysisAssumption DEF Flaps!RuleConstants
<1>2. Cardinality(t) >= FlapCount
  BY DEF Flaps!LinkFlap, Flaps!Cardinality, Cardinality
<1>3. Places(obs) /\ Places(t) /\ t \subseteq obs /\ (t # {} => \E k \in obs : k \notin t)
  BY TransitionsAre
<1> HIDE DEF t, obs
<1>4. t # {}
  <2>1. t = {} => Cardinality(t) = 0
    BY FS_EmptySet, Zenon
  <2> QED BY <1>1, <1>2, <2>1
<1>5. PICK k \in obs : k \notin t
  BY <1>3, <1>4
<1>6. IsFiniteSet(obs \ {k}) /\ Cardinality(obs \ {k}) = Cardinality(obs) - 1 /\ Cardinality(obs) \in Nat
  BY <1>3, FS_RemoveElement, FS_CardinalityType DEF Places
<1>7. Cardinality(t) <= Cardinality(obs \ {k}) /\ Cardinality(t) \in Nat
  BY <1>3, <1>5, <1>6, FS_Subset, FS_CardinalityType DEF Places
<1>8. Cardinality(obs) > FlapCount
  BY <1>1, <1>2, <1>6, <1>7
<1> QED BY <1>8 DEF obs

(* For every stream, in order or not, and every count and window: the rule *)
(* for flaps is a count of the window on a stream in order, and no gap in  *)
(* the observations makes a flap.                                          *)
THEOREM FlapsAreCounted == AnalysisSpec => []FlapsCounted
<1>1. StreamsOfSamples => FlapsCounted
  BY FlapCounts, FlapNeeds DEF StreamsOfSamples, FlapsCounted
<1> QED BY <1>1, StreamsAreOfSamples, PTL

LEMMA Follows ==
  ASSUME stream \in Seq(Outages!Sample), NEW s \in Outages!Sample, stream' = Append(stream, s)
  PROVE  Outages!FollowsObservations
<1> DEFINE n == Len(stream)
<1>1. /\ n \in Nat /\ DOMAIN stream = 1..n
      /\ Len(stream') = n + 1 /\ DOMAIN stream' = 1..n + 1 /\ stream'[n + 1] = s
      /\ \A k \in 1..n : stream'[k] = stream[k]
  OBVIOUS
<1> HIDE DEF n
<1>2. ASSUME NEW p \in OutageNeighbor
      PROVE  LET O == Outages!BgpObservations(stream, p)  N == Outages!BgpObservations(stream', p) IN
             /\ O \subseteq 1..n
             /\ \A k \in 1..n : k \notin O => stream[k].reading.bgp[p] = "absent"
             /\ N = IF s.reading.bgp[p] = "absent" THEN O ELSE O \cup {n + 1}
  <2>1. 1..n + 1 = 1..n \cup {n + 1}
    BY <1>1
  <2> QED BY <1>1, <2>1 DEF Outages!BgpObservations
<1>3. ASSUME NEW p \in OutageNeighbor, Outages!BgpDown(stream', p), ~Outages!BgpDown(stream, p)
      PROVE  /\ s.reading.bgp[p] = "down"
             /\ \E k \in 1..n : /\ stream[k].reading.bgp[p] = "established"
                                 /\ \A j \in k + 1..n : stream[j].reading.bgp[p] = "absent"
  <2> DEFINE O == Outages!BgpObservations(stream, p)
             N == Outages!BgpObservations(stream', p)
  <2>1. PICK j \in N, k \in N :
          /\ j < k /\ \A l \in N : l <= j \/ l = k
          /\ stream'[j].at <= stream'[k].at
          /\ stream'[j].reading.bgp[p] = "established"
          /\ stream'[k].reading.bgp[p] = "down"
    BY <1>3 DEF Outages!BgpDown
  <2>2. ~ \E jj \in O, kk \in O :
             /\ jj < kk /\ \A l \in O : l <= jj \/ l = kk
             /\ stream[jj].at <= stream[kk].at
             /\ stream[jj].reading.bgp[p] = "established"
             /\ stream[kk].reading.bgp[p] = "down"
    BY <1>3 DEF Outages!BgpDown
  <2> HIDE DEF O, N
  <2>3. /\ O \subseteq 1..n
        /\ \A l \in 1..n : l \notin O => stream[l].reading.bgp[p] = "absent"
        /\ N = IF s.reading.bgp[p] = "absent" THEN O ELSE O \cup {n + 1}
    BY <1>2 DEF O, N
  <2>4. s.reading.bgp[p] # "absent"
    <3> SUFFICES ASSUME N = O PROVE FALSE
      BY <2>3
    <3>1. stream'[j] = stream[j] /\ stream'[k] = stream[k]
      BY <1>1, <2>3
    <3> QED BY <2>1, <2>2, <3>1
  <2>5. k = n + 1 /\ j \in O /\ \A l \in O : l <= j
    BY <1>1, <2>1, <2>3, <2>4
  <2>6. \A l \in j + 1..n : stream[l].reading.bgp[p] = "absent"
    BY <1>1, <2>3, <2>5
  <2> QED BY <1>1, <2>1, <2>3, <2>5, <2>6
<1>4. ASSUME NEW p \in OutageNeighbor, Outages!BgpDown(stream, p), ~Outages!BgpDown(stream', p)
      PROVE  s.reading.bgp[p] # "absent"
  <2> SUFFICES ASSUME s.reading.bgp[p] = "absent" PROVE FALSE
    OBVIOUS
  <2> DEFINE O == Outages!BgpObservations(stream, p)
  <2>1. Outages!BgpObservations(stream', p) = O /\ O \subseteq 1..n
    BY <1>2
  <2>2. PICK j \in O, k \in O :
          /\ j < k /\ \A l \in O : l <= j \/ l = k
          /\ stream[j].at <= stream[k].at
          /\ stream[j].reading.bgp[p] = "established"
          /\ stream[k].reading.bgp[p] = "down"
    BY <1>4 DEF Outages!BgpDown
  <2>3. stream'[j] = stream[j] /\ stream'[k] = stream[k]
    BY <1>1, <2>1
  <2> HIDE DEF O
  <2> QED BY <1>4, <2>1, <2>2, <2>3 DEF Outages!BgpDown
<1>5. Outages!CpuHigh(stream') => s.reading.cpu > Outages!CpuHighThreshold
  BY <1>1 DEF Outages!CpuHigh
<1> QED BY <1>1, <1>3, <1>4, <1>5 DEF Outages!FollowsObservations, n

(* For every stream: a neighbor is found down only with a sample that      *)
(* observes it, after one that observed it up.                             *)
THEOREM RulesAreAboutObservations == AnalysisSpec => RulesFollowObservations
<1>1. StreamsOfSamples /\ [AnalysisNext]_all => [part = "outages" => Outages!FollowsObservations]_all
  <2> SUFFICES ASSUME StreamsOfSamples, AnalysisNext, part = "outages"
               PROVE  Outages!FollowsObservations
    OBVIOUS
  <2>1. PICK s \in Outages!Sample : stream' = Append(stream, s)
    BY DEF AnalysisNext, Outages!Next
  <2> QED BY <2>1, Follows DEF StreamsOfSamples
<1> QED BY <1>1, StreamsAreOfSamples, PTL DEF AnalysisSpec, RulesFollowObservations

(* The images of finitely many places are finitely many. *)
LEMMA FiniteImage ==
  ASSUME NEW S, IsFiniteSet(S), NEW f
  PROVE  IsFiniteSet({f[k] : k \in S})
<1> DEFINE T == {f[k] : k \in S}
           g == [k \in S |-> f[k]]
<1>1. g \in Surjection(S, T)
  BY DEF Surjection
<1> HIDE DEF T, g
<1>2. IsFiniteSet(T)
  BY <1>1, FS_Surjection
<1> QED BY <1>2 DEF T

(* Of so many multiples of ten, one is free. *)
LEMMA CandidateIsFree ==
  ASSUME NEW used, Places(used), NEW from \in Nat
  PROVE  Candidate(from, used) \in Nat \ used
<1> DEFINE c == Cardinality(used)
           J == from..from + c
           f == [j \in J |-> 10 * j]
           free == {j \in J : 10 * j \notin used}
<1>1. c \in Nat /\ IsFiniteSet(used) /\ used \subseteq Nat
  BY FS_CardinalityType DEF Places
<1>2. IsFiniteSet(J) /\ Cardinality(J) = c + 1 /\ J \subseteq Nat
  <2> HIDE DEF c
  <2>1. from \in Int /\ from + c \in Int
    BY <1>1
  <2>2. IsFiniteSet(J) /\ Cardinality(J) = IF from > from + c THEN 0 ELSE (from + c) - from + 1
    BY <2>1, FS_Interval
  <2> QED BY <1>1, <2>2
<1>3. free # {}
  <2>1. SUFFICES ASSUME \A j \in J : 10 * j \in used PROVE FALSE
    OBVIOUS
  <2>2. f \in [J -> used]
    BY <2>1
  <2>3. \A x, y \in J : f[x] = f[y] => x = y
    BY <1>2
  <2>4. Cardinality(used) < Cardinality(J) /\ IsFiniteSet(J)
    BY <1>1, <1>2
  <2> HIDE DEF c, J, f
  <2> QED BY <1>1, <2>2, <2>3, <2>4, FS_PigeonHole
<1>4. Places(free)
  BY <1>2, FS_Subset DEF Places
<1> HIDE DEF free
<1>5. PICK j \in free : \A k \in free : j <= k
  BY <1>3, <1>4, FirstAndLast
<1>6. /\ j \in J /\ 10 * j \notin used
      /\ \A k \in from..j - 1 : 10 * k \in used
  <2>1. j \in J /\ 10 * j \notin used
    BY <1>5 DEF free
  <2>2. ASSUME NEW k \in from..j - 1, 10 * k \notin used PROVE FALSE
    <3>1. k \in J
      BY <1>1, <2>1
    <3> QED BY <1>5, <2>2, <3>1 DEF free
  <2> QED BY <2>1, <2>2
<1> DEFINE m == CHOOSE i \in from..from + Cardinality(used) :
                  /\ 10 * i \notin used
                  /\ \A k \in from..i - 1 : 10 * k \in used
<1>7. m \in J /\ 10 * m \notin used
  BY <1>6
<1>8. Candidate(from, used) = 10 * m
  BY Zenon DEF Candidate
<1> HIDE DEF m, J
<1> QED BY <1>2, <1>7, <1>8

-----------------------------------------------------------------------------
Explicit(p) == ToSet(p) \ {0}

From(v, given) ==
  IF v = "cisco" /\ given # {}
  THEN (CHOOSE g \in given : \A h \in given : h <= g) \div 10 + 1 ELSE 1

NumberOf(v, p, k, given) ==
  IF p[k] # 0 THEN p[k] ELSE Candidate(From(v, given), Explicit(p) \cup given)

Before(f, k) == {f[j] : j \in 1..k - 1}

(* f numbers the entries at these places. *)
Numbers(v, p, at, f) == f = [k \in at |-> NumberOf(v, p, k, Before(f, k))]

LEMMA SomeNumbers ==
  ASSUME NEW v, NEW p
  PROVE  \A n \in Nat : \E f : Numbers(v, p, 1..n, f)
<1> DEFINE S == {n \in Nat : ~\E f : Numbers(v, p, 1..n, f)}
<1> SUFFICES ASSUME S # {} PROVE FALSE
  OBVIOUS
<1>1. PICK n \in S : \A m \in S : n <= m
  <2>1. PICK x \in S : TRUE
    OBVIOUS
  <2> DEFINE T == {m \in S : m <= x}
  <2>2. Places(T) /\ T # {}
    <3>1. T \in SUBSET Nat /\ x \in Nat /\ \A m \in T : m <= x
      BY <2>1
    <3>2. x \in T
      BY <2>1
    <3> HIDE DEF T
    <3> QED BY <3>1, <3>2, FS_BoundedSetOfNaturals DEF Places
  <2> HIDE DEF T
  <2>3. PICK n \in T : \A m \in T : n <= m
    BY <2>2, FirstAndLast
  <2>4. n \in S /\ n <= x /\ x \in Nat /\ \A m \in S : m <= x => n <= m
    BY <2>1, <2>3 DEF T
  <2>5. \A m \in S : m \in Nat
    OBVIOUS
  <2> HIDE DEF S
  <2> QED BY <2>4, <2>5
<1>2. n \in Nat /\ ~\E f : Numbers(v, p, 1..n, f)
  BY <1>1
<1>3. n # 0
  <2> DEFINE e == [k \in 1..0 |-> NumberOf(v, p, k, {})]
  <2>1. e = [k \in 1..0 |-> NumberOf(v, p, k, Before(e, k))]
    OBVIOUS
  <2> QED BY <1>2, <2>1 DEF Numbers
<1>4. PICK f : Numbers(v, p, 1..n - 1, f)
  <2>1. n - 1 \in Nat /\ n - 1 \notin S
    BY <1>1, <1>2, <1>3
  <2> QED BY <2>1
<1> DEFINE last == NumberOf(v, p, n, Before(f, n))
           g == [k \in 1..n |-> IF k = n THEN last ELSE f[k]]
<1>5. ASSUME NEW k \in 1..n PROVE g[k] = NumberOf(v, p, k, Before(g, k))
  <2>1. Before(g, k) = Before(f, k)
    <3>1. \A j \in 1..k - 1 : g[j] = f[j]
      BY <1>2
    <3> QED BY <3>1 DEF Before
  <2>2. g[k] = NumberOf(v, p, k, Before(f, k))
    <3>1. CASE k = n
      BY <3>1
    <3>2. CASE k # n
      <4>1. k \in 1..n - 1
        BY <1>2, <3>2
      <4> QED BY <1>4, <3>2, <4>1 DEF Numbers
    <3> QED BY <3>1, <3>2
  <2> QED BY <2>1, <2>2
<1>6. g = [k \in 1..n |-> NumberOf(v, p, k, Before(g, k))]
  BY <1>5
<1> QED BY <1>2, <1>6 DEF Numbers

(* The recursion of the code numbers them all. *)
LEMMA FinalizedNumbers ==
  ASSUME NEW v, NEW p, NEW n \in Nat, DOMAIN p = 1..n
  PROVE  Numbers(v, p, 1..n, Finalized(v, p))
<1>1. Finalized(v, p) = CHOOSE f : Numbers(v, p, DOMAIN p, f)
  BY DEF Numbers, Finalized, NumberOf, From, Explicit, Before
<1>2. \E f : Numbers(v, p, DOMAIN p, f)
  BY SomeNumbers
<1>3. Numbers(v, p, DOMAIN p, CHOOSE f : Numbers(v, p, DOMAIN p, f))
  BY <1>2, Zenon
<1> QED BY <1>1, <1>3

(* Each number is a number, and each that was not given is new. *)
LEMMA NumbersAreNew ==
  ASSUME NEW v, NEW p \in Seq(Nat), NEW f, Numbers(v, p, DOMAIN p, f), NEW k \in DOMAIN p
  PROVE  /\ f[k] \in Nat
         /\ p[k] = 0 => f[k] \notin Explicit(p) /\ f[k] \notin Before(f, k)
<1> DEFINE wrong == {i \in DOMAIN p : f[i] \notin Nat}
<1>1. /\ DOMAIN p = 1..Len(p) /\ Len(p) \in Nat
      /\ \A i \in DOMAIN p : p[i] \in Nat
  OBVIOUS
<1>2. \A i \in DOMAIN p : f[i] = NumberOf(v, p, i, Before(f, i))
  BY DEF Numbers
<1>3. IsFiniteSet(DOMAIN p)
  BY <1>1, FS_Interval
<1>4. Places(Explicit(p))
  <2>1. Explicit(p) \subseteq {p[i] : i \in DOMAIN p} /\ Explicit(p) \subseteq Nat
    BY <1>1 DEF Explicit, ToSet
  <2>2. IsFiniteSet({p[i] : i \in DOMAIN p})
    BY <1>3, FiniteImage
  <2> QED BY <2>1, <2>2, FS_Subset DEF Places
<1>5. ASSUME NEW i \in DOMAIN p, \A j \in 1..i - 1 : f[j] \in Nat, p[i] = 0
      PROVE  f[i] \in Nat /\ f[i] \notin Explicit(p) /\ f[i] \notin Before(f, i)
  <2>1. Places(Before(f, i))
    <3>1. IsFiniteSet(1..i - 1)
      BY <1>1, FS_Interval
    <3>2. IsFiniteSet({f[j] : j \in 1..i - 1})
      BY <3>1, FiniteImage
    <3>3. Before(f, i) \subseteq Nat
      BY <1>5 DEF Before
    <3> QED BY <3>2, <3>3 DEF Places, Before
  <2>2. Places(Explicit(p) \cup Before(f, i))
    BY <1>4, <2>1, FS_Union DEF Places
  <2>3. From(v, Before(f, i)) \in Nat
    <3>1. CASE Before(f, i) = {}
      BY <3>1 DEF From
    <3>2. CASE Before(f, i) # {}
      <4>1. \E g \in Before(f, i) : \A h \in Before(f, i) : h <= g
        BY <2>1, <3>2, FirstAndLast
      <4>2. (CHOOSE g \in Before(f, i) : \A h \in Before(f, i) : h <= g) \in Nat
        BY <2>1, <4>1 DEF Places
      <4> QED BY <4>2 DEF From
    <3> QED BY <3>1, <3>2
  <2>4. f[i] = Candidate(From(v, Before(f, i)), Explicit(p) \cup Before(f, i))
    BY <1>2, <1>5 DEF NumberOf
  <2> QED BY <2>2, <2>3, <2>4, CandidateIsFree
<1>6. wrong = {}
  <2> SUFFICES ASSUME wrong # {} PROVE FALSE
    OBVIOUS
  <2>1. Places(wrong)
    BY <1>1, <1>3, FS_Subset DEF Places
  <2>2. PICK i \in wrong : \A j \in wrong : i <= j
    BY <2>1, FirstAndLast
  <2>3. ASSUME NEW j \in 1..i - 1 PROVE f[j] \in Nat
    <3>1. j \in DOMAIN p /\ ~(i <= j)
      BY <1>1, <2>2
    <3> QED BY <2>2, <3>1
  <2>4. p[i] # 0
    BY <1>5, <2>2, <2>3
  <2> QED BY <1>1, <1>2, <2>2, <2>4 DEF NumberOf
<1>7. \A j \in 1..k - 1 : f[j] \in Nat
  BY <1>1, <1>6
<1>8. p[k] = 0 => f[k] \in Nat /\ f[k] \notin Explicit(p) /\ f[k] \notin Before(f, k)
  BY <1>5, <1>7
<1> QED BY <1>6, <1>8

LEMMA ApartNumbers ==
  ASSUME NEW v, NEW p \in Seq(Nat), NEW k \in DOMAIN p, p[k] = 0, NEW j \in DOMAIN p \ {k}
  PROVE  Finalized(v, p)[j] # Finalized(v, p)[k]
<1> DEFINE f == Finalized(v, p)
<1>1. DOMAIN p = 1..Len(p) /\ Len(p) \in Nat /\ j \in DOMAIN p
  OBVIOUS
<1>2. Numbers(v, p, DOMAIN p, f)
  BY <1>1, FinalizedNumbers
<1> HIDE DEF f
<1>3. /\ f[k] \notin Explicit(p) /\ f[k] \notin Before(f, k)
      /\ p[j] = 0 => f[j] \notin Before(f, j)
      /\ p[j] # 0 => f[j] = p[j]
  <2>1. f[k] \notin Explicit(p) /\ f[k] \notin Before(f, k)
    BY <1>2, NumbersAreNew
  <2>2. p[j] = 0 => f[j] \notin Before(f, j)
    BY <1>2, NumbersAreNew
  <2>3. p[j] # 0 => f[j] = p[j]
    BY <1>2 DEF Numbers, NumberOf
  <2> QED BY <2>1, <2>2, <2>3
<1>4. CASE j < k
  BY <1>1, <1>3, <1>4 DEF f, Before
<1>5. CASE j > k /\ p[j] = 0
  BY <1>1, <1>3, <1>5 DEF f, Before
<1>6. CASE p[j] # 0
  BY <1>1, <1>3, <1>6 DEF f, Explicit, ToSet
<1> QED BY <1>1, <1>4, <1>5, <1>6

-----------------------------------------------------------------------------
(* The loop of the parser *)

ParserFields == {"block", "hostname", "neighbors", "error", "interfaces", "acls"}

(* What it keeps from line to line. *)
FieldsOK(p) == p = [f \in ParserFields |-> p[f]]

BlockOK(block, interfaces, acls) ==
  /\ block.kind \in {"none", "interface", "acl", "bgp"}
  /\ block.kind = "interface" => block.name \in DOMAIN interfaces
  /\ block.kind = "acl" => block.name \in DOMAIN acls

InterfacesOK(interfaces) ==
  \A i \in DOMAIN interfaces : interfaces[i] = [f \in Field |-> interfaces[i][f]]

AclsOK(acls) == \A a \in DOMAIN acls : acls[a] \in Seq(Nat)

ParserOK(p) ==
  /\ FieldsOK(p)
  /\ BlockOK(p.block, p.interfaces, p.acls)
  /\ p.neighbors \in Seq([ip : NeighborIp, as : Nat])
  /\ InterfacesOK(p.interfaces)
  /\ AclsOK(p.acls)

LEMMA StartOK == ParserOK(Start)
BY DEF ParserOK, FieldsOK, BlockOK, InterfacesOK, AclsOK, ParserFields, Start, NoBlock

(* What each kind of line makes of it. *)
LEMMA ReadsNothing ==
  ASSUME NEW v, NEW p, NEW l, p.error # "none" \/ l.level = "blank"
  PROVE  ReadLine(v, p, l) = p
BY DEF ReadLine

LEMMA ReadsBang ==
  ASSUME NEW v, NEW p, NEW l, p.error = "none", l.level = "bang"
  PROVE  ReadLine(v, p, l) = [p EXCEPT !.block = NoBlock]
BY DEF ReadLine

LEMMA ReadsTop ==
  ASSUME NEW v, NEW p, NEW l, p.error = "none", l.level = "top"
  PROVE  ReadLine(v, p, l) = ReadTop(v, [p EXCEPT !.block = NoBlock], l)
BY DEF ReadLine

LEMMA ReadsChild ==
  ASSUME NEW v, NEW p, NEW l, p.error = "none", l.level = "child"
  PROVE  ReadLine(v, p, l) = ReadChild(p, l)
BY DEF ReadLine

TopCases(v, p, l, q) ==
  \/ /\ l.kind = "malformed" /\ l.code # "none"
     /\ q = [p EXCEPT !.error = l.code]
  \/ /\ l.kind = "hostname" /\ l.name # None
     /\ q = [p EXCEPT !.hostname = l.name]
  \/ /\ l.kind = "interface" /\ l.name \in InterfaceName
     /\ q =
          [[p EXCEPT !.block = [kind |-> "interface", name |-> l.name]]
             EXCEPT !.interfaces = SetDefault(p.interfaces, l.name, NewInterface)]
  \/ /\ l.kind = "acl" /\ l.name \in AclName
     /\ q =
          [[p EXCEPT !.block = [kind |-> "acl", name |-> l.name]]
             EXCEPT !.acls = SetDefault(p.acls, l.name, <<>>)]
  \/ /\ l.kind = "numbered" /\ v = "cisco"
     /\ q =
          [p EXCEPT !.acls = WithEntry(SetDefault(p.acls, l.name, <<>>), l.name, 0)]
  \/ /\ l.kind = "bgp" /\ l.name = None
     /\ q = [p EXCEPT !.block = [kind |-> "bgp", name |-> None]]
  \/ /\ l.kind = "other" \/ (l.kind = "numbered" /\ v # "cisco")
     /\ q = p

ChildCases(p, l, q) ==
  \/ /\ l.block # p.block.kind
     /\ q = p
  \/ /\ l.kind = "malformed" /\ l.code # "none" /\ l.block = p.block.kind
     /\ q = [p EXCEPT !.error = l.code]
  \/ /\ l.kind = "set" /\ p.block.kind = "interface" /\ l.field \in Field
     /\ q = [p EXCEPT !.interfaces = WithField(p.interfaces, p.block.name, l.field, l.value)]
  \/ /\ l.kind = "entry" /\ p.block.kind = "acl" /\ l.sequence \in Nat
     /\ q = [p EXCEPT !.acls = WithEntry(p.acls, p.block.name, l.sequence)]
  \/ /\ l.kind = "neighbor" /\ p.block.kind = "bgp" /\ l.ip \in NeighborIp /\ l.as \in Nat
     /\ q = [p EXCEPT !.neighbors = Append(p.neighbors, [ip |-> l.ip, as |-> l.as])]

LEMMA TopLines ==
  ASSUME NEW v, NEW p, NEW l, IsLine(l), l.level = "top",
         NEW q, q = ReadTop(v, p, l)
  PROVE  TopCases(v, p, l, q)
BY DEF IsLine, TopCases, ReadTop

LEMMA ChildLines ==
  ASSUME NEW p, NEW l, IsLine(l), l.level = "child",
         NEW q, q = ReadChild(p, l)
  PROVE  ChildCases(p, l, q)
BY DEF IsLine, ChildCases, ReadChild

LEMMA Replaced ==
  ASSUME NEW p, FieldsOK(p), NEW g \in ParserFields, NEW x,
         NEW q, q = [p EXCEPT ![g] = x]
  PROVE  /\ FieldsOK(q) /\ q[g] = x
         /\ \A f \in ParserFields : f # g => q[f] = p[f]
BY DEF FieldsOK

LEMMA FieldNames ==
  /\ "block" \in ParserFields /\ "hostname" \in ParserFields /\ "neighbors" \in ParserFields
  /\ "error" \in ParserFields /\ "interfaces" \in ParserFields /\ "acls" \in ParserFields
BY DEF ParserFields

BlockOf(l) ==
  IF l.level = "top" /\ l.kind \in {"interface", "acl", "bgp"} THEN [kind |-> l.kind, name |-> l.name]
  ELSE NoBlock

Refuses(p, l) ==
  l.level \in {"top", "child"} /\ l.kind = "malformed" /\ (l.level = "child" => l.block = p.block.kind)

(* What a line that is not refused does. *)
BlockRead(p, l, q) == q.block = IF l.level \in {"top", "bang"} THEN BlockOf(l) ELSE p.block

HostnameRead(p, l, q) ==
  q.hostname = IF l.level = "top" /\ l.kind = "hostname" THEN l.name ELSE p.hostname

InterfacesRead(p, l, q) ==
  /\ DOMAIN q.interfaces =
       IF l.level = "top" /\ l.kind = "interface" THEN DOMAIN p.interfaces \cup {l.name} ELSE DOMAIN p.interfaces
  /\ \A i \in DOMAIN q.interfaces : \A f \in Field :
       q.interfaces[i][f] =
         IF l.level = "child" /\ l.kind = "set" /\ l.field = f /\ p.block.kind = "interface" /\ p.block.name = i
         THEN l.value
         ELSE IF i \in DOMAIN p.interfaces THEN p.interfaces[i][f] ELSE NewInterface[f]

AclsRead(v, p, l, q) ==
  DOMAIN q.acls =
    IF l.level = "top" /\ (l.kind = "acl" \/ (l.kind = "numbered" /\ v = "cisco"))
    THEN DOMAIN p.acls \cup {l.name} ELSE DOMAIN p.acls

LineRead(v, p, l, q) ==
  /\ ParserOK(q)
  /\ IF Refuses(p, l) THEN q.error = l.code /\ l.code # "none"
     ELSE /\ q.error = "none"
          /\ BlockRead(p, l, q) /\ HostnameRead(p, l, q) /\ InterfacesRead(p, l, q) /\ AclsRead(v, p, l, q)

(* A name is declared, or was before. *)
LEMMA DeclaresAcl ==
  ASSUME NEW acls, AclsOK(acls), NEW a
  PROVE  AclsOK(SetDefault(acls, a, <<>>))
<1> DEFINE g == SetDefault(acls, a, <<>>)
<1>1. \A m \in DOMAIN g : g[m] = IF m \in DOMAIN acls THEN acls[m] ELSE <<>>
  BY DEF SetDefault
<1>2. <<>> \in Seq(Nat)
  OBVIOUS
<1> HIDE DEF g
<1>3. AclsOK(g)
  BY <1>1, <1>2 DEF AclsOK
<1> QED BY <1>3 DEF g

LEMMA DeclaresInterface ==
  ASSUME NEW f, InterfacesOK(f), NEW n
  PROVE  InterfacesOK(SetDefault(f, n, NewInterface))
<1> DEFINE g == SetDefault(f, n, NewInterface)
<1>1. \A m \in DOMAIN g : g[m] = IF m \in DOMAIN f THEN f[m] ELSE NewInterface
  BY DEF SetDefault
<1>2. NewInterface = [x \in Field |-> NewInterface[x]]
  <2>1. DOMAIN NewInterface = Field
    BY DEF NewInterface, Field
  <2>2. NewInterface = [x \in DOMAIN NewInterface |-> NewInterface[x]]
    BY DEF NewInterface
  <2> QED BY <2>1, <2>2
<1> HIDE DEF g
<1>3. InterfacesOK(g)
  <2> SUFFICES ASSUME NEW m \in DOMAIN g PROVE g[m] = [x \in Field |-> g[m][x]]
    BY DEF InterfacesOK
  <2>1. CASE m \in DOMAIN f
    BY <1>1, <2>1 DEF InterfacesOK
  <2>2. CASE m \notin DOMAIN f
    BY <1>1, <1>2, <2>2
  <2> QED BY <2>1, <2>2
<1> QED BY <1>3 DEF g

LEMMA AddsEntry ==
  ASSUME NEW acls, AclsOK(acls), NEW a \in DOMAIN acls, NEW n \in Nat
  PROVE  DOMAIN WithEntry(acls, a, n) = DOMAIN acls /\ AclsOK(WithEntry(acls, a, n))
BY DEF AclsOK, WithEntry

LEMMA TopRead ==
  ASSUME NEW v, NEW p, ParserOK(p), p.error = "none", NEW l, IsLine(l), l.level = "top"
  PROVE  LineRead(v, p, l, ReadLine(v, p, l))
<1> DEFINE c == [p EXCEPT !.block = NoBlock]
           q == ReadTop(v, c, l)
<1>1. ReadLine(v, p, l) = q
  BY ReadsTop
<1>0. c = [p EXCEPT !.block = NoBlock]
  OBVIOUS
<1>12. q = ReadTop(v, c, l)
  OBVIOUS
<1> HIDE DEF c, q
<1>2. /\ FieldsOK(c) /\ c.block = NoBlock
      /\ c.hostname = p.hostname /\ c.neighbors = p.neighbors /\ c.error = p.error
      /\ c.interfaces = p.interfaces /\ c.acls = p.acls
  <2>1. FieldsOK(c) /\ c.block = NoBlock /\ \A f \in ParserFields : f # "block" => c[f] = p[f]
    <3>1. FieldsOK(p)
      BY DEF ParserOK
    <3> QED BY <1>0, <3>1, Replaced, FieldNames
  <2> QED BY <2>1, FieldNames
<1>3. NoBlock.kind = "none"
  BY DEF NoBlock
<1>4. ParserOK(c)
  BY <1>2, <1>3 DEF ParserOK, BlockOK
<1>5. CASE l.kind = "malformed" /\ l.code # "none" /\ q = [c EXCEPT !.error = l.code]
  <2>1. /\ FieldsOK(q) /\ q.error = l.code
        /\ \A f \in ParserFields : f # "error" => q[f] = c[f]
    BY <1>2, <1>5, Replaced, FieldNames
  <2>2. ParserOK(q)
    BY <1>4, <2>1, FieldNames DEF ParserOK
  <2> QED BY <1>1, <1>5, <2>1, <2>2 DEF LineRead, Refuses
<1>6. CASE l.kind = "hostname" /\ l.name # None /\ q = [c EXCEPT !.hostname = l.name]
  <2>1. /\ FieldsOK(q) /\ q.hostname = l.name
        /\ \A f \in ParserFields : f # "hostname" => q[f] = c[f]
    BY <1>2, <1>6, Replaced, FieldNames
  <2>2. ParserOK(q)
    BY <1>4, <2>1, FieldNames DEF ParserOK
  <2>3. q.error = "none" /\ BlockRead(p, l, q) /\ HostnameRead(p, l, q)
    BY <1>2, <1>6, <2>1, FieldNames DEF BlockRead, BlockOf, HostnameRead
  <2>4. InterfacesRead(p, l, q) /\ AclsRead(v, p, l, q)
    BY <1>2, <1>6, <2>1, FieldNames DEF InterfacesRead, AclsRead
  <2> QED BY <1>1, <1>6, <2>2, <2>3, <2>4 DEF LineRead, Refuses
<1>7. CASE /\ l.kind = "interface" /\ l.name \in InterfaceName
           /\ q = [[c EXCEPT !.block = [kind |-> "interface", name |-> l.name]]
                     EXCEPT !.interfaces = SetDefault(c.interfaces, l.name, NewInterface)]
  <2> DEFINE d == [c EXCEPT !.block = [kind |-> "interface", name |-> l.name]]
  <2>0. q = [d EXCEPT !.interfaces = SetDefault(p.interfaces, l.name, NewInterface)]
    BY <1>2, <1>7
  <2>1. /\ FieldsOK(d) /\ d.block = [kind |-> "interface", name |-> l.name]
        /\ \A f \in ParserFields : f # "block" => d[f] = c[f]
    BY <1>2, Replaced, FieldNames
  <2> HIDE DEF d
  <2>2. /\ FieldsOK(q) /\ q.interfaces = SetDefault(p.interfaces, l.name, NewInterface)
        /\ \A f \in ParserFields : f # "interfaces" => q[f] = d[f]
    BY <1>2, <2>0, <2>1, Replaced, FieldNames
  <2>3. /\ q.block = [kind |-> "interface", name |-> l.name] /\ q.hostname = p.hostname
        /\ q.neighbors = p.neighbors /\ q.error = "none" /\ q.acls = p.acls
    BY <1>2, <2>1, <2>2, FieldNames
  <2>4. /\ DOMAIN q.interfaces = DOMAIN p.interfaces \cup {l.name}
        /\ \A i \in DOMAIN q.interfaces :
             q.interfaces[i] = IF i \in DOMAIN p.interfaces THEN p.interfaces[i] ELSE NewInterface
    BY <2>2 DEF SetDefault
  <2>5. ParserOK(q)
    BY <2>2, <2>3, <2>4, DeclaresInterface DEF ParserOK, BlockOK
  <2>6. InterfacesRead(p, l, q)
    BY <1>7, <2>4 DEF InterfacesRead
  <2>7. BlockRead(p, l, q) /\ HostnameRead(p, l, q) /\ AclsRead(v, p, l, q)
    BY <1>7, <2>3 DEF BlockRead, BlockOf, HostnameRead, AclsRead
  <2> QED BY <1>1, <1>7, <2>3, <2>5, <2>6, <2>7 DEF LineRead, Refuses
<1>8. CASE /\ l.kind = "acl" /\ l.name \in AclName
           /\ q = [[c EXCEPT !.block = [kind |-> "acl", name |-> l.name]]
                     EXCEPT !.acls = SetDefault(c.acls, l.name, <<>>)]
  <2> DEFINE d == [c EXCEPT !.block = [kind |-> "acl", name |-> l.name]]
  <2>0. q = [d EXCEPT !.acls = SetDefault(p.acls, l.name, <<>>)]
    BY <1>2, <1>8
  <2>1. /\ FieldsOK(d) /\ d.block = [kind |-> "acl", name |-> l.name]
        /\ \A f \in ParserFields : f # "block" => d[f] = c[f]
    BY <1>2, Replaced, FieldNames
  <2> HIDE DEF d
  <2>2. /\ FieldsOK(q) /\ q.acls = SetDefault(p.acls, l.name, <<>>)
        /\ \A f \in ParserFields : f # "acls" => q[f] = d[f]
    BY <1>2, <2>0, <2>1, Replaced, FieldNames
  <2>3. /\ q.block = [kind |-> "acl", name |-> l.name] /\ q.hostname = p.hostname
        /\ q.neighbors = p.neighbors /\ q.error = "none" /\ q.interfaces = p.interfaces
    BY <1>2, <2>1, <2>2, FieldNames
  <2>4. /\ DOMAIN q.acls = DOMAIN p.acls \cup {l.name}
        /\ \A a \in DOMAIN q.acls : q.acls[a] = IF a \in DOMAIN p.acls THEN p.acls[a] ELSE <<>>
    BY <2>2 DEF SetDefault
  <2>5. ParserOK(q)
    BY <2>2, <2>3, <2>4, DeclaresAcl DEF ParserOK, BlockOK
  <2>6. InterfacesRead(p, l, q)
    BY <1>8, <2>3 DEF InterfacesRead
  <2>7. BlockRead(p, l, q) /\ HostnameRead(p, l, q) /\ AclsRead(v, p, l, q)
    BY <1>8, <2>3, <2>4 DEF BlockRead, BlockOf, HostnameRead, AclsRead
  <2> QED BY <1>1, <1>8, <2>3, <2>5, <2>6, <2>7 DEF LineRead, Refuses
<1>9. CASE /\ l.kind = "numbered" /\ v = "cisco"
           /\ q = [c EXCEPT !.acls = WithEntry(SetDefault(c.acls, l.name, <<>>), l.name, 0)]
  <2> DEFINE acls == SetDefault(p.acls, l.name, <<>>)
  <2>1. /\ FieldsOK(q) /\ q.acls = WithEntry(acls, l.name, 0)
        /\ \A f \in ParserFields : f # "acls" => q[f] = c[f]
    BY <1>2, <1>9, Replaced, FieldNames
  <2>2. /\ q.block = NoBlock /\ q.hostname = p.hostname
        /\ q.neighbors = p.neighbors /\ q.error = "none" /\ q.interfaces = p.interfaces
    BY <1>2, <2>1, FieldNames
  <2>3. /\ DOMAIN acls = DOMAIN p.acls \cup {l.name}
        /\ \A a \in DOMAIN acls : acls[a] = IF a \in DOMAIN p.acls THEN p.acls[a] ELSE <<>>
    BY DEF SetDefault
  <2>4. AclsOK(acls)
    BY DeclaresAcl DEF ParserOK
  <2> HIDE DEF acls
  <2>5. DOMAIN q.acls = DOMAIN acls /\ AclsOK(q.acls)
    <3>1. l.name \in DOMAIN acls /\ 0 \in Nat
      BY <2>3
    <3> QED BY <2>1, <2>4, <3>1, AddsEntry
  <2>6. ParserOK(q)
    BY <1>3, <2>1, <2>2, <2>5 DEF ParserOK, BlockOK
  <2>7. InterfacesRead(p, l, q)
    BY <1>9, <2>2 DEF InterfacesRead
  <2>8. BlockRead(p, l, q) /\ HostnameRead(p, l, q) /\ AclsRead(v, p, l, q)
    BY <1>9, <2>2, <2>3, <2>5 DEF BlockRead, BlockOf, HostnameRead, AclsRead
  <2> QED BY <1>1, <1>9, <2>2, <2>6, <2>7, <2>8 DEF LineRead, Refuses
<1>10. CASE l.kind = "bgp" /\ l.name = None /\ q = [c EXCEPT !.block = [kind |-> "bgp", name |-> None]]
  <2>1. /\ FieldsOK(q) /\ q.block = [kind |-> "bgp", name |-> None]
        /\ \A f \in ParserFields : f # "block" => q[f] = c[f]
    BY <1>2, <1>10, Replaced, FieldNames
  <2>2. /\ q.hostname = p.hostname /\ q.neighbors = p.neighbors /\ q.error = "none"
        /\ q.interfaces = p.interfaces /\ q.acls = p.acls
    BY <1>2, <2>1, FieldNames
  <2>3. ParserOK(q)
    BY <2>1, <2>2 DEF ParserOK, BlockOK
  <2>4. BlockRead(p, l, q) /\ HostnameRead(p, l, q)
    BY <1>10, <2>1, <2>2 DEF BlockRead, BlockOf, HostnameRead
  <2>5. InterfacesRead(p, l, q) /\ AclsRead(v, p, l, q)
    BY <1>10, <2>2 DEF InterfacesRead, AclsRead
  <2> QED BY <1>1, <1>10, <2>2, <2>3, <2>4, <2>5 DEF LineRead, Refuses
<1>11. CASE (l.kind = "other" \/ (l.kind = "numbered" /\ v # "cisco")) /\ q = c
  <2>1. BlockRead(p, l, q) /\ HostnameRead(p, l, q) /\ q.error = "none"
    BY <1>2, <1>11 DEF BlockRead, BlockOf, HostnameRead
  <2>2. InterfacesRead(p, l, q) /\ AclsRead(v, p, l, q)
    BY <1>2, <1>11 DEF InterfacesRead, AclsRead
  <2> QED BY <1>1, <1>4, <1>11, <2>1, <2>2 DEF LineRead, Refuses
<1>13. TopCases(v, c, l, q)
  BY <1>12, TopLines
<1> QED BY <1>5, <1>6, <1>7, <1>8, <1>9, <1>10, <1>11, <1>13, Zenon DEF TopCases

LEMMA SetsField ==
  ASSUME NEW is, InterfacesOK(is), NEW i \in DOMAIN is, NEW f \in Field, NEW x,
         NEW js, js = WithField(is, i, f, x)
  PROVE  /\ DOMAIN js = DOMAIN is /\ InterfacesOK(js)
         /\ \A j \in DOMAIN js : \A g \in Field : js[j][g] = IF j = i /\ g = f THEN x ELSE is[j][g]
<1> DEFINE r == [is[i] EXCEPT ![f] = x]
<1>1. is[i] = [g \in Field |-> is[i][g]]
  BY DEF InterfacesOK
<1>2. r = [g \in Field |-> r[g]] /\ \A g \in Field : r[g] = IF g = f THEN x ELSE is[i][g]
  BY <1>1
<1>3. js = [is EXCEPT ![i] = r]
  BY DEF WithField
<1> HIDE DEF r
<1>4. DOMAIN js = DOMAIN is /\ \A j \in DOMAIN is : js[j] = IF j = i THEN r ELSE is[j]
  BY <1>3
<1>5. InterfacesOK(js)
  <2> SUFFICES ASSUME NEW j \in DOMAIN js PROVE js[j] = [g \in Field |-> js[j][g]]
    BY DEF InterfacesOK
  <2>1. CASE j = i
    BY <1>2, <1>4, <2>1
  <2>2. CASE j # i
    BY <1>4, <2>2 DEF InterfacesOK
  <2> QED BY <2>1, <2>2
<1> QED BY <1>2, <1>4, <1>5

LEMMA ChildRead ==
  ASSUME NEW v, NEW p, ParserOK(p), p.error = "none", NEW l, IsLine(l), l.level = "child"
  PROVE  LineRead(v, p, l, ReadLine(v, p, l))
<1> DEFINE q == ReadChild(p, l)
<1>1. ReadLine(v, p, l) = q
  BY ReadsChild
<1>2. ChildCases(p, l, q)
  BY ChildLines
<1> HIDE DEF q
<1>3. FieldsOK(p) /\ InterfacesOK(p.interfaces) /\ AclsOK(p.acls) /\ BlockOK(p.block, p.interfaces, p.acls)
  BY DEF ParserOK
<1>4. CASE l.block # p.block.kind /\ q = p
  <2>1. ~Refuses(p, l)
    BY <1>4 DEF Refuses
  <2>2. l.kind = "set" => l.block = "interface"
    BY DEF IsLine
  <2>3. BlockRead(p, l, q) /\ HostnameRead(p, l, q) /\ AclsRead(v, p, l, q)
    BY <1>4 DEF BlockRead, HostnameRead, AclsRead
  <2>4. InterfacesRead(p, l, q)
    BY <1>4, <2>2 DEF InterfacesRead
  <2> QED BY <1>1, <1>4, <2>1, <2>3, <2>4 DEF LineRead
<1>5. CASE /\ l.kind = "malformed" /\ l.code # "none" /\ l.block = p.block.kind
           /\ q = [p EXCEPT !.error = l.code]
  <2>1. FieldsOK(q) /\ q.error = l.code /\ \A f \in ParserFields : f # "error" => q[f] = p[f]
    BY <1>3, <1>5, Replaced, FieldNames
  <2>2. ParserOK(q)
    BY <2>1, FieldNames DEF ParserOK
  <2> QED BY <1>1, <1>5, <2>1, <2>2 DEF LineRead, Refuses
<1>6. CASE /\ l.kind = "set" /\ p.block.kind = "interface" /\ l.field \in Field
           /\ q = [p EXCEPT !.interfaces = WithField(p.interfaces, p.block.name, l.field, l.value)]
  <2>1. /\ FieldsOK(q) /\ q.interfaces = WithField(p.interfaces, p.block.name, l.field, l.value)
        /\ \A f \in ParserFields : f # "interfaces" => q[f] = p[f]
    BY <1>3, <1>6, Replaced, FieldNames
  <2>2. /\ q.block = p.block /\ q.hostname = p.hostname /\ q.neighbors = p.neighbors
        /\ q.error = "none" /\ q.acls = p.acls
    BY <2>1, FieldNames
  <2>3. p.block.name \in DOMAIN p.interfaces
    BY <1>3, <1>6 DEF BlockOK
  <2>4. /\ DOMAIN q.interfaces = DOMAIN p.interfaces /\ InterfacesOK(q.interfaces)
        /\ \A i \in DOMAIN q.interfaces : \A f \in Field :
             q.interfaces[i][f] = IF i = p.block.name /\ f = l.field THEN l.value ELSE p.interfaces[i][f]
    BY <1>3, <1>6, <2>1, <2>3, SetsField
  <2>5. ParserOK(q)
    BY <2>1, <2>2, <2>4 DEF ParserOK, BlockOK
  <2>6. InterfacesRead(p, l, q)
    BY <1>6, <2>4 DEF InterfacesRead
  <2>7. BlockRead(p, l, q) /\ HostnameRead(p, l, q) /\ AclsRead(v, p, l, q)
    BY <2>2 DEF BlockRead, HostnameRead, AclsRead
  <2> QED BY <1>1, <1>6, <2>2, <2>5, <2>6, <2>7 DEF LineRead, Refuses
<1>7. CASE /\ l.kind = "entry" /\ p.block.kind = "acl" /\ l.sequence \in Nat
           /\ q = [p EXCEPT !.acls = WithEntry(p.acls, p.block.name, l.sequence)]
  <2>1. /\ FieldsOK(q) /\ q.acls = WithEntry(p.acls, p.block.name, l.sequence)
        /\ \A f \in ParserFields : f # "acls" => q[f] = p[f]
    BY <1>3, <1>7, Replaced, FieldNames
  <2>2. /\ q.block = p.block /\ q.hostname = p.hostname /\ q.neighbors = p.neighbors
        /\ q.error = "none" /\ q.interfaces = p.interfaces
    BY <2>1, FieldNames
  <2>3. p.block.name \in DOMAIN p.acls
    BY <1>3, <1>7 DEF BlockOK
  <2>4. DOMAIN q.acls = DOMAIN p.acls /\ AclsOK(q.acls)
    BY <1>3, <1>7, <2>1, <2>3, AddsEntry
  <2>5. ParserOK(q)
    BY <2>1, <2>2, <2>4 DEF ParserOK, BlockOK
  <2>6. InterfacesRead(p, l, q)
    BY <1>7, <2>2 DEF InterfacesRead
  <2>7. BlockRead(p, l, q) /\ HostnameRead(p, l, q) /\ AclsRead(v, p, l, q)
    BY <2>2, <2>4 DEF BlockRead, HostnameRead, AclsRead
  <2> QED BY <1>1, <1>7, <2>2, <2>5, <2>6, <2>7 DEF LineRead, Refuses
<1>8. CASE /\ l.kind = "neighbor" /\ p.block.kind = "bgp" /\ l.ip \in NeighborIp /\ l.as \in Nat
           /\ q = [p EXCEPT !.neighbors = Append(p.neighbors, [ip |-> l.ip, as |-> l.as])]
  <2> DEFINE more == Append(p.neighbors, [ip |-> l.ip, as |-> l.as])
  <2>0. q = [p EXCEPT !.neighbors = more]
    BY <1>8
  <2> HIDE DEF more
  <2>1. /\ FieldsOK(q) /\ q.neighbors = more
        /\ \A f \in ParserFields : f # "neighbors" => q[f] = p[f]
    BY <1>3, <2>0, Replaced, FieldNames
  <2>2. /\ q.block = p.block /\ q.hostname = p.hostname /\ q.acls = p.acls
        /\ q.error = "none" /\ q.interfaces = p.interfaces
    BY <2>1, FieldNames
  <2>3. q.neighbors \in Seq([ip : NeighborIp, as : Nat])
    <3>1. [ip |-> l.ip, as |-> l.as] \in [ip : NeighborIp, as : Nat]
      BY <1>8
    <3>2. p.neighbors \in Seq([ip : NeighborIp, as : Nat])
      BY DEF ParserOK
    <3> QED BY <2>1, <3>1, <3>2 DEF more
  <2>4. ParserOK(q)
    BY <1>3, <2>1, <2>2, <2>3 DEF ParserOK
  <2>5. InterfacesRead(p, l, q)
    BY <1>8, <2>2 DEF InterfacesRead
  <2>6. BlockRead(p, l, q) /\ HostnameRead(p, l, q) /\ AclsRead(v, p, l, q)
    BY <2>2 DEF BlockRead, HostnameRead, AclsRead
  <2> QED BY <1>1, <1>8, <2>2, <2>4, <2>5, <2>6 DEF LineRead, Refuses
<1> QED BY <1>2, <1>4, <1>5, <1>6, <1>7, <1>8, Zenon DEF ChildCases

(* A turn of the loop that finds no error before it. *)
LEMMA Reads ==
  ASSUME NEW v, NEW p, ParserOK(p), p.error = "none", NEW l, IsLine(l)
  PROVE  LineRead(v, p, l, ReadLine(v, p, l))
<1> DEFINE q == ReadLine(v, p, l)
<1>1. CASE l.level = "blank"
  <2>1. q = p
    BY <1>1, ReadsNothing
  <2> HIDE DEF q
  <2>2. BlockRead(p, l, q) /\ HostnameRead(p, l, q) /\ InterfacesRead(p, l, q) /\ AclsRead(v, p, l, q)
    BY <1>1, <2>1 DEF BlockRead, HostnameRead, InterfacesRead, AclsRead
  <2>3. LineRead(v, p, l, q)
    BY <1>1, <2>1, <2>2 DEF LineRead, Refuses
  <2> QED BY <2>3 DEF q
<1>2. CASE l.level = "bang"
  <2>1. q = [p EXCEPT !.block = NoBlock]
    BY <1>2, ReadsBang
  <2> HIDE DEF q
  <2>2. FieldsOK(q) /\ q.block = NoBlock /\ \A f \in ParserFields : f # "block" => q[f] = p[f]
    <3>1. FieldsOK(p)
      BY DEF ParserOK
    <3> QED BY <2>1, <3>1, Replaced, FieldNames
  <2>3. /\ q.hostname = p.hostname /\ q.neighbors = p.neighbors /\ q.error = "none"
        /\ q.interfaces = p.interfaces /\ q.acls = p.acls
    BY <2>2, FieldNames
  <2>4. ParserOK(q)
    BY <2>2, <2>3 DEF ParserOK, BlockOK, NoBlock
  <2>5. BlockRead(p, l, q) /\ HostnameRead(p, l, q) /\ InterfacesRead(p, l, q) /\ AclsRead(v, p, l, q)
    BY <1>2, <2>2, <2>3 DEF BlockRead, BlockOf, HostnameRead, InterfacesRead, AclsRead
  <2>6. LineRead(v, p, l, q)
    BY <1>2, <2>3, <2>4, <2>5 DEF LineRead, Refuses
  <2> QED BY <2>6 DEF q
<1> QED BY <1>1, <1>2, TopRead, ChildRead DEF IsLine

LEMMA StaysOK ==
  ASSUME NEW v, NEW p, ParserOK(p), NEW l, IsLine(l)
  PROVE  ParserOK(ReadLine(v, p, l))
BY Reads, ReadsNothing DEF LineRead

-----------------------------------------------------------------------------
(* The text so far, against what the loop has made of it. *)

IsText(t) == \A k \in DOMAIN t : IsLine(t[k])

(* What can be said of a text that is not refused. *)
InterfacesTold ==
  /\ DOMAIN parser.interfaces = DeclaredIn("interface")
  /\ \A i \in DeclaredIn("interface") : \A f \in Field : parser.interfaces[i][f] = Written(i, f)

Told ==
  /\ \A n \in Nat : n = Len(text) + 1 => parser.block = BlockOf(HeadOf(n))
  /\ DeclaredIn("hostname") = {} <=> parser.hostname = None
  /\ InterfacesTold
  /\ DOMAIN parser.acls = AclsDeclared

ReaderOK ==
  /\ text \in Seq(corpus.first \cup corpus.lines) /\ IsText(text)
  /\ ParserOK(parser)
  /\ IF Bad = {} THEN parser.error = "none" /\ Told
     ELSE parser.error # "none" /\ parser.error = text[CHOOSE k \in Bad : \A j \in Bad : k <= j].code

(* A text with another line. *)
LEMMA PlacesOfText ==
  ASSUME text \in Seq(corpus.first \cup corpus.lines)
  PROVE  /\ DOMAIN text = 1..Len(text) /\ Len(text) \in Nat
         /\ \A S : S \subseteq DOMAIN text => Places(S)
<1>1. DOMAIN text = 1..Len(text) /\ Len(text) \in Nat
  OBVIOUS
<1>2. IsFiniteSet(DOMAIN text)
  BY <1>1, FS_Interval
<1> QED BY <1>1, <1>2, FS_Subset DEF Places

Grown(l) ==
  /\ text \in Seq(corpus.first \cup corpus.lines) /\ IsText(text) /\ IsLine(l)
  /\ l \in corpus.first \cup corpus.lines
  /\ text' = Append(text, l)

LEMMA GrownText ==
  ASSUME NEW l, NEW n, n = Len(text), Grown(l)
  PROVE  /\ Len(text') = n + 1 /\ DOMAIN text' = 1..n + 1
         /\ text'[n + 1] = l
         /\ \A k \in 1..n : text'[k] = text[k]
         /\ DOMAIN text = 1..n /\ n \in Nat
         /\ \A k \in DOMAIN text : IsLine(text[k])
BY DEF Grown, IsText

LEMMA HeadsGrow ==
  ASSUME NEW l, NEW n, n = Len(text), Grown(l)
  PROVE  /\ \A k \in 1..n + 1 : HeadOf(k)' = HeadOf(k)
         /\ HeadOf(n + 2)' =
              IF l.level \in {"top", "bang"} THEN l ELSE HeadOf(n + 1)
<1> DEFINE Nearest(S) == CHOOSE j \in S : \A i \in S : i <= j
<1>0. /\ n \in Nat /\ text'[n + 1] = l
      /\ \A k \in 1..n : text'[k] = text[k]
  BY GrownText
<1>1. \A k \in 1..n + 1 : Heads(k)' = Heads(k)
  <2> SUFFICES ASSUME NEW k \in 1..n + 1 PROVE Heads(k)' = Heads(k)
    OBVIOUS
  <2>1. \A j \in 1..k - 1 : text'[j] = text[j]
    BY <1>0
  <2> QED BY <2>1 DEF Heads
<1>2. \A k \in 1..n + 1 : Heads(k) \subseteq DOMAIN text /\ Places(Heads(k))
  <2>1. \A k \in 1..n + 1 : Heads(k) \subseteq DOMAIN text
    BY GrownText DEF Heads
  <2> QED BY <2>1, PlacesOfText DEF Grown
<1>3. \A k \in 1..n + 1 : Heads(k) # {} => Nearest(Heads(k)) \in Heads(k)
  BY <1>2, FirstAndLast
<1>4. \A k \in 1..n + 1 : HeadOf(k) = IF Heads(k) = {} THEN Bang ELSE text[Nearest(Heads(k))]
  BY DEF HeadOf
<1>5. \A k \in 1..n + 2 : HeadOf(k)' = IF Heads(k)' = {} THEN Bang ELSE text'[Nearest(Heads(k)')]
  BY DEF HeadOf
<1> HIDE DEF Nearest
<1>6. \A k \in 1..n + 1 : HeadOf(k)' = HeadOf(k)
  <2> SUFFICES ASSUME NEW k \in 1..n + 1 PROVE HeadOf(k)' = HeadOf(k)
    OBVIOUS
  <2>1. k \in 1..n + 2 /\ Heads(k)' = Heads(k)
    BY <1>1, GrownText
  <2>2. CASE Heads(k) = {}
    BY <1>4, <1>5, <2>1, <2>2
  <2>3. CASE Heads(k) # {}
    <3>1. Nearest(Heads(k)) \in 1..n
      BY <1>2, <1>3, <2>3, GrownText
    <3>2. text'[Nearest(Heads(k))] = text[Nearest(Heads(k))]
      BY <1>0, <3>1
    <3>3. HeadOf(k) = text[Nearest(Heads(k))]
      BY <1>4, <2>3
    <3>4. HeadOf(k)' = text'[Nearest(Heads(k))]
      BY <1>5, <2>1, <2>3
    <3> QED BY <3>2, <3>3, <3>4
  <2> QED BY <2>2, <2>3
<1>7. HeadOf(n + 2)' = IF l.level \in {"top", "bang"} THEN l ELSE HeadOf(n + 1)
  <2>1. Heads(n + 2)' = IF l.level \in {"top", "bang"} THEN Heads(n + 1) \cup {n + 1} ELSE Heads(n + 1)
    <3>1. 1..(n + 2) - 1 = (1..(n + 1) - 1) \cup {n + 1} /\ \A j \in 1..(n + 1) - 1 : text'[j] = text[j]
      BY <1>0
    <3> QED BY <1>0, <3>1 DEF Heads
  <2>2. n + 1 \in 1..n + 1 /\ n + 2 \in 1..n + 2 /\ n \in Nat
    BY GrownText
  <2>3. CASE l.level \in {"top", "bang"}
    <3>1. \A i \in Heads(n + 1) : i \in Nat /\ i < n + 1
      BY <1>2, <2>2, GrownText
    <3>2. Nearest(Heads(n + 1) \cup {n + 1}) = n + 1
      BY <2>2, <3>1 DEF Nearest
    <3> QED BY <1>5, <2>1, <2>2, <2>3, <3>2, GrownText
  <2>4. CASE l.level \notin {"top", "bang"}
    <3>1. HeadOf(n + 2)' = HeadOf(n + 1)'
      BY <1>1, <1>5, <2>1, <2>2, <2>4
    <3> QED BY <1>6, <2>2, <2>4, <3>1
  <2> QED BY <2>3, <2>4
<1> QED BY <1>6, <1>7

LEMMA DeclaredGrows ==
  ASSUME NEW l, NEW n, n = Len(text), Grown(l), NEW kind
  PROVE  DeclaredIn(kind)' = IF l.level = "top" /\ l.kind = kind THEN DeclaredIn(kind) \cup {l.name}
                             ELSE DeclaredIn(kind)
<1> DEFINE declares(m) == m.level = "top" /\ m.kind = kind
           new == IF declares(l) THEN DeclaredIn(kind) \cup {l.name} ELSE DeclaredIn(kind)
<1>1. /\ n \in Nat /\ text'[n + 1] = l /\ DOMAIN text' = 1..n + 1 /\ DOMAIN text = 1..n
      /\ \A k \in 1..n : text'[k] = text[k]
  BY GrownText
<1>2. \A x : x \in DeclaredIn(kind) <=> \E k \in 1..n : declares(text[k]) /\ x = text[k].name
  BY <1>1 DEF DeclaredIn
<1>3. \A x : x \in DeclaredIn(kind)' <=> \E k \in 1..n + 1 : declares(text'[k]) /\ x = text'[k].name
  BY <1>1 DEF DeclaredIn
<1>4. \A x : x \in DeclaredIn(kind)' <=> x \in DeclaredIn(kind) \/ (declares(l) /\ x = l.name)
  <2> SUFFICES ASSUME NEW x
               PROVE  x \in DeclaredIn(kind)' <=> x \in DeclaredIn(kind) \/ (declares(l) /\ x = l.name)
    OBVIOUS
  <2>1. \A k : k \in 1..n + 1 <=> k \in 1..n \/ k = n + 1
    BY <1>1
  <2> HIDE DEF declares
  <2> QED BY <1>1, <1>2, <1>3, <2>1
<1> HIDE DEF declares
<1>5. DeclaredIn(kind)' = new
  BY <1>4
<1> QED BY <1>5 DEF declares

Sets(l, field, head, i) ==
  /\ l.level = "child" /\ l.kind = "set" /\ l.field = field
  /\ head.level = "top" /\ head.kind = "interface" /\ head.name = i

LEMMA WrittenGrows ==
  ASSUME NEW l, NEW n, n = Len(text), Grown(l), NEW i, NEW field
  PROVE  Written(i, field)' = IF Sets(l, field, HeadOf(n + 1), i) THEN l.value ELSE Written(i, field)
<1> DEFINE S == SetLines(i, field)
           Greatest(T) == CHOOSE k \in T : \A j \in T : j <= k
           sets == Sets(l, field, HeadOf(n + 1), i)
<1>1. /\ n \in Nat /\ text'[n + 1] = l /\ DOMAIN text' = 1..n + 1 /\ DOMAIN text = 1..n
      /\ \A k \in 1..n : text'[k] = text[k]
  BY GrownText
<1>2. S = {k \in 1..n : Sets(text[k], field, HeadOf(k), i)}
  BY <1>1 DEF SetLines, StandsIn, Sets
<1>3. S' = {k \in 1..n + 1 : Sets(text'[k], field, HeadOf(k)', i)}
  BY <1>1 DEF SetLines, StandsIn, Sets
<1>4. \A k \in 1..n + 1 : HeadOf(k)' = HeadOf(k)
  BY HeadsGrow
<1> DEFINE T == {k \in 1..n + 1 : Sets(text'[k], field, HeadOf(k)', i)}
<1>5. T = IF sets THEN S \cup {n + 1} ELSE S
  <2>1. \A k : k \in 1..n + 1 <=> k \in 1..n \/ k = n + 1
    BY <1>1
  <2>2. n + 1 \notin 1..n
    BY <1>1
  <2> HIDE DEF S
  <2> QED BY <1>1, <1>2, <1>4, <2>1, <2>2
<1>6. Written(i, field) = IF S = {} THEN NewInterface[field] ELSE text[Greatest(S)].value
  BY DEF Written
<1>7. Written(i, field)' = IF T = {} THEN NewInterface[field] ELSE text'[Greatest(T)].value
  BY <1>3 DEF Written
<1>8. S \subseteq 1..n /\ (S # {} => Greatest(S) \in S)
  <2>1. S \subseteq DOMAIN text
    BY <1>1, <1>2
  <2>2. Places(S)
    BY <2>1, PlacesOfText DEF Grown
  <2> HIDE DEF S
  <2>3. S # {} => \E k \in S : \A j \in S : j <= k
    BY <2>2, FirstAndLast
  <2> QED BY <1>1, <2>1, <2>3
<1>9. CASE sets
  <2>1. \A k \in S : k \in Nat /\ k < n + 1
    BY <1>1, <1>8
  <2>2. Greatest(S \cup {n + 1}) = n + 1
    <3> HIDE DEF S
    <3> QED BY <1>1, <2>1
  <2> HIDE DEF S, T, Greatest, sets
  <2> QED BY <1>1, <1>5, <1>7, <1>9, <2>2 DEF sets
<1>10. CASE ~sets
  <2> HIDE DEF S, T, Greatest, sets
  <2>1. Written(i, field)' = Written(i, field)
    <3>1. T = S
      BY <1>5, <1>10
    <3>2. S # {} => text'[Greatest(S)] = text[Greatest(S)]
      BY <1>1, <1>8
    <3> QED BY <1>6, <1>7, <3>1, <3>2
  <2> QED BY <1>10, <2>1 DEF sets
<1> QED BY <1>9, <1>10

BadLine(l, head) ==
  /\ l.level \in {"top", "child"} /\ l.kind = "malformed"
  /\ l.level = "child" => head.level = "top" /\ head.kind = l.block

LEMMA BadGrows ==
  ASSUME NEW l, NEW n, n = Len(text), Grown(l)
  PROVE  Bad' = IF BadLine(l, HeadOf(n + 1)) THEN Bad \cup {n + 1} ELSE Bad
<1>1. /\ n \in Nat /\ text'[n + 1] = l /\ DOMAIN text' = 1..n + 1 /\ DOMAIN text = 1..n
      /\ \A k \in 1..n : text'[k] = text[k]
  BY GrownText
<1>2. Bad = {k \in 1..n : BadLine(text[k], HeadOf(k))}
  BY <1>1 DEF Bad, StandsIn, BadLine
<1>3. Bad' = {k \in 1..n + 1 : BadLine(text'[k], HeadOf(k)')}
  BY <1>1 DEF Bad, StandsIn, BadLine
<1>4. \A k \in 1..n + 1 : HeadOf(k)' = HeadOf(k)
  BY HeadsGrow
<1>5. \A k : k \in 1..n + 1 <=> k \in 1..n \/ k = n + 1
  BY <1>1
<1>6. n + 1 \notin 1..n
  BY <1>1
<1> QED BY <1>1, <1>2, <1>3, <1>4, <1>5, <1>6

LEMMA BlockTells ==
  ASSUME NEW h
  PROVE  /\ \A kind \in {"interface", "acl", "bgp"} :
              BlockOf(h).kind = kind <=> h.level = "top" /\ h.kind = kind
         /\ BlockOf(h).kind = "interface" => BlockOf(h).name = h.name
BY DEF BlockOf, NoBlock

Least(S) == CHOOSE k \in S : \A j \in S : k <= j

LEMMA LeastIs ==
  ASSUME NEW S, S \subseteq Nat, NEW m \in S, \A j \in S : m <= j
  PROVE  Least(S) = m
<1>1. \A k \in S : (\A j \in S : k <= j) => k = m
  OBVIOUS
<1> QED BY <1>1 DEF Least

LEMMA FirstBadStays ==
  ASSUME NEW l, NEW n, n = Len(text), Grown(l), Bad # {}
  PROVE  /\ Bad' # {}
         /\ text'[CHOOSE k \in Bad' : \A j \in Bad' : k <= j] = text[CHOOSE k \in Bad : \A j \in Bad : k <= j]
<1>1. /\ n \in Nat /\ text'[n + 1] = l /\ DOMAIN text = 1..n
      /\ \A k \in 1..n : text'[k] = text[k]
  BY GrownText
<1>2. Bad \subseteq 1..n
  BY <1>1 DEF Bad
<1>3. PICK m \in Bad : \A j \in Bad : m <= j
  <2>1. Places(Bad)
    BY <1>1, <1>2, PlacesOfText DEF Grown
  <2> QED BY <2>1, FirstAndLast
<1>4. Bad' = Bad \cup {n + 1} \/ Bad' = Bad
  BY BadGrows
<1>5. m \in Nat /\ m <= n /\ \A j \in Bad : j \in Nat
  BY <1>1, <1>2, <1>3
<1>6. Least(Bad) = m
  <2>1. Bad \subseteq Nat
    BY <1>5
  <2> QED BY <1>3, <2>1, LeastIs
<1>7. Least(Bad \cup {n + 1}) = m
  <2>1. m <= n + 1 /\ n + 1 \in Nat
    BY <1>1, <1>5
  <2>2. \A j \in Bad : j \in Nat /\ m <= j
    BY <1>3, <1>5
  <2> QED BY <1>3, <2>1, <2>2, LeastIs
<1>8. Least(Bad') = m /\ Bad' # {}
  BY <1>3, <1>4, <1>6, <1>7
<1>9. text'[m] = text[m]
  BY <1>1, <1>5, <1>2, <1>3
<1>10. (CHOOSE k \in Bad' : \A j \in Bad' : k <= j) = m /\ (CHOOSE k \in Bad : \A j \in Bad : k <= j) = m
  BY <1>6, <1>8 DEF Least
<1> QED BY <1>8, <1>9, <1>10

(* What nobody declared, nobody gave a field. *)
LEMMA UnwrittenField ==
  ASSUME text \in Seq(corpus.first \cup corpus.lines), NEW i, i \notin DeclaredIn("interface"), NEW f
  PROVE  Written(i, f) = NewInterface[f]
<1>1. ASSUME NEW k \in SetLines(i, f) PROVE FALSE
  <2>1. k \in DOMAIN text /\ HeadOf(k).level = "top" /\ HeadOf(k).kind = "interface" /\ HeadOf(k).name = i
    BY <1>1 DEF SetLines, StandsIn
  <2>2. Heads(k) # {}
    BY <2>1 DEF HeadOf, Bang
  <2>3. Heads(k) \subseteq DOMAIN text /\ Places(Heads(k))
    <3>1. Heads(k) \subseteq DOMAIN text
      BY <2>1, PlacesOfText DEF Heads
    <3> QED BY <3>1, PlacesOfText
  <2>4. PICK j \in Heads(k) : HeadOf(k) = text[j]
    <3>1. \E j \in Heads(k) : \A m \in Heads(k) : m <= j
      BY <2>2, <2>3, FirstAndLast
    <3> QED BY <2>2, <3>1 DEF HeadOf
  <2> QED BY <2>1, <2>3, <2>4 DEF DeclaredIn
<1> QED BY <1>1 DEF Written

LEMMA ToldWrites ==
  ASSUME ReaderOK, Bad = {}, NEW l, NEW n, n = Len(text), Grown(l), UNCHANGED <<vendor, corpus>>,
         LineRead(vendor, parser, l, parser')
  PROVE  IF Bad' = {} THEN parser'.error = "none" /\ Told'
         ELSE /\ parser'.error # "none"
              /\ parser'.error = text'[CHOOSE k \in Bad' : \A j \in Bad' : k <= j].code
<1> DEFINE h == HeadOf(n + 1)
<1>1. n \in Nat /\ Len(text') = n + 1 /\ text'[n + 1] = l
  BY GrownText
<1>2. IsLine(l) /\ Told /\ parser.error = "none"
  BY DEF Grown, ReaderOK
<1>3. parser.block = BlockOf(h)
  BY <1>1, <1>2 DEF Told
<1>4. HeadOf(n + 2)' = IF l.level \in {"top", "bang"} THEN l ELSE h
  BY HeadsGrow
<1> HIDE DEF h
<1>5. Refuses(parser, l) <=> BadLine(l, h)
  <2>1. l.level = "child" /\ l.kind = "malformed" => l.block \in {"interface", "bgp"}
    BY <1>2 DEF IsLine
  <2> QED BY <1>3, <2>1, BlockTells DEF Refuses, BadLine
<1>6. CASE BadLine(l, h)
  <2>1. Bad' = {n + 1}
    BY <1>6, BadGrows DEF h
  <2>2. (CHOOSE k \in Bad' : \A j \in Bad' : k <= j) = n + 1
    BY <1>1, <2>1
  <2>3. parser'.error = l.code /\ l.code # "none"
    BY <1>5, <1>6 DEF LineRead
  <2> QED BY <1>1, <2>1, <2>2, <2>3
<1>7. CASE ~BadLine(l, h)
  <2>1. Bad' = {}
    BY <1>7, BadGrows DEF h
  <2>2. /\ parser'.error = "none" /\ BlockRead(parser, l, parser') /\ HostnameRead(parser, l, parser')
        /\ InterfacesRead(parser, l, parser') /\ AclsRead(vendor, parser, l, parser')
    BY <1>5, <1>7 DEF LineRead
  <2>3. ASSUME NEW m \in Nat, m = Len(text') + 1 PROVE parser'.block = BlockOf(HeadOf(m)')
    <3>1. m = n + 2
      BY <1>1, <2>3
    <3>2. parser'.block = IF l.level \in {"top", "bang"} THEN BlockOf(l) ELSE BlockOf(h)
      BY <1>3, <2>2 DEF BlockRead
    <3> QED BY <1>4, <3>1, <3>2
  <2>4. (DeclaredIn("hostname") = {})' <=> parser'.hostname = None
    <3>1. DeclaredIn("hostname")' = IF l.level = "top" /\ l.kind = "hostname"
                                    THEN DeclaredIn("hostname") \cup {l.name} ELSE DeclaredIn("hostname")
      BY DeclaredGrows
    <3>2. l.level = "top" /\ l.kind = "hostname" => l.name # None
      BY <1>2 DEF IsLine
    <3> QED BY <1>2, <2>2, <3>1, <3>2 DEF Told, HostnameRead
  <2>5. InterfacesTold'
    <3>1. DeclaredIn("interface")' = IF l.level = "top" /\ l.kind = "interface"
                                     THEN DeclaredIn("interface") \cup {l.name} ELSE DeclaredIn("interface")
      BY DeclaredGrows
    <3>2. DOMAIN parser.interfaces = DeclaredIn("interface")
      BY <1>2 DEF Told, InterfacesTold
    <3>3. DOMAIN parser'.interfaces = DeclaredIn("interface")'
      BY <2>2, <3>1, <3>2 DEF InterfacesRead
    <3>4. ASSUME NEW i \in DeclaredIn("interface")', NEW f \in Field
          PROVE  parser'.interfaces[i][f] = Written(i, f)'
      <4>1. Written(i, f)' = IF Sets(l, f, h, i) THEN l.value ELSE Written(i, f)
        BY WrittenGrows DEF h
      <4>2. Sets(l, f, h, i) <=> /\ l.level = "child" /\ l.kind = "set" /\ l.field = f
                                 /\ parser.block.kind = "interface" /\ parser.block.name = i
        BY <1>3, BlockTells DEF Sets
      <4>3. parser'.interfaces[i][f] =
              IF Sets(l, f, h, i) THEN l.value
              ELSE IF i \in DOMAIN parser.interfaces THEN parser.interfaces[i][f] ELSE NewInterface[f]
        BY <2>2, <3>3, <3>4, <4>2 DEF InterfacesRead
      <4>4. i \in DOMAIN parser.interfaces => parser.interfaces[i][f] = Written(i, f)
        BY <1>2 DEF Told, InterfacesTold
      <4>5. i \notin DOMAIN parser.interfaces => Written(i, f) = NewInterface[f]
        BY <3>2, UnwrittenField DEF Grown
      <4> QED BY <4>1, <4>3, <4>4, <4>5
    <3> QED BY <3>3, <3>4 DEF InterfacesTold
  <2>6. DOMAIN parser'.acls = AclsDeclared'
    <3>1. \A kind \in {"acl", "numbered"} :
            DeclaredIn(kind)' = IF l.level = "top" /\ l.kind = kind
                                THEN DeclaredIn(kind) \cup {l.name} ELSE DeclaredIn(kind)
      BY DeclaredGrows
    <3>2. DOMAIN parser.acls = DeclaredIn("acl") \cup (IF vendor = "cisco" THEN DeclaredIn("numbered") ELSE {})
      BY <1>2 DEF Told, AclsDeclared
    <3>3. AclsDeclared' = DeclaredIn("acl")' \cup (IF vendor = "cisco" THEN DeclaredIn("numbered")' ELSE {})
      BY DEF AclsDeclared
    <3>4. DOMAIN parser'.acls = IF l.level = "top" /\ (l.kind = "acl" \/ (l.kind = "numbered" /\ vendor = "cisco"))
                                THEN DOMAIN parser.acls \cup {l.name} ELSE DOMAIN parser.acls
      BY <2>2 DEF AclsRead
    <3> QED BY <3>1, <3>2, <3>3, <3>4
  <2> QED BY <2>1, <2>2, <2>3, <2>4, <2>5, <2>6 DEF Told
<1> QED BY <1>6, <1>7

LEMMA ReaderWrites ==
  ASSUME ReaderOK, NEW l \in corpus.first \cup corpus.lines, IsLine(l),
         text' = Append(text, l), parser' = ReadLine(vendor, parser, l), UNCHANGED <<vendor, corpus>>
  PROVE  ReaderOK'
<1>1. Grown(l)
  BY DEF ReaderOK, Grown
<1>2. text' \in Seq(corpus.first \cup corpus.lines)' /\ IsText(text')
  <2>1. text' \in Seq(corpus.first \cup corpus.lines)
    BY <1>1 DEF Grown
  <2>2. PICK n : n = Len(text)
    OBVIOUS
  <2>3. \A k \in DOMAIN text' : IsLine(text'[k])
    BY <1>1, <2>2, GrownText
  <2> QED BY <2>1, <2>3 DEF IsText
<1>3. ParserOK(parser')
  BY StaysOK DEF ReaderOK
<1>4. CASE Bad # {}
  <2>1. parser' = parser
    BY <1>4, ReadsNothing DEF ReaderOK
  <2>2. PICK n : n = Len(text)
    OBVIOUS
  <2>3. /\ Bad' # {}
        /\ text'[CHOOSE k \in Bad' : \A j \in Bad' : k <= j] = text[CHOOSE k \in Bad : \A j \in Bad : k <= j]
    BY <1>1, <1>4, <2>2, FirstBadStays
  <2> QED BY <1>2, <1>3, <1>4, <2>1, <2>3 DEF ReaderOK
<1>5. CASE Bad = {}
  <2>1. LineRead(vendor, parser, l, parser')
    BY <1>5, Reads DEF ReaderOK
  <2>2. PICK n : n = Len(text)
    OBVIOUS
  <2>3. IF Bad' = {} THEN parser'.error = "none" /\ Told'
        ELSE /\ parser'.error # "none"
             /\ parser'.error = text'[CHOOSE k \in Bad' : \A j \in Bad' : k <= j].code
    BY <1>1, <1>5, <2>1, <2>2, ToldWrites
  <2> QED BY <1>2, <1>3, <2>3 DEF ReaderOK
<1> QED BY <1>4, <1>5

LEMMA ReaderStarts == text = <<>> /\ parser = Start => ReaderOK
<1> SUFFICES ASSUME text = <<>>, parser = Start PROVE ReaderOK
  OBVIOUS
<1>1. DOMAIN text = {} /\ Len(text) = 0 /\ text \in Seq(corpus.first \cup corpus.lines)
  OBVIOUS
<1>2. Bad = {} /\ \A kind : DeclaredIn(kind) = {}
  BY <1>1 DEF Bad, DeclaredIn
<1>3. HeadOf(1) = Bang
  BY DEF HeadOf, Heads
<1>4. /\ parser.block = NoBlock /\ parser.hostname = None /\ parser.error = "none"
      /\ DOMAIN parser.interfaces = {} /\ DOMAIN parser.acls = {}
  BY DEF Start
<1>5. Told
  BY <1>1, <1>2, <1>3, <1>4 DEF Told, InterfacesTold, AclsDeclared, BlockOf, Bang
<1> QED BY <1>1, <1>2, <1>4, <1>5, StartOK DEF ReaderOK, IsText

LEMMA ReaderRestarts == (text = <<>> /\ parser = Start => ReaderOK)'
BY ReaderStarts, PTL

-----------------------------------------------------------------------------
(* What is made of a text as a whole *)

LEMMA ResultIs ==
  /\ Result.error = Refusal(text, parser)
  /\ Result.interfaces = parser.interfaces
  /\ Result.neighbors = SortedNeighbors(parser.neighbors)
  /\ DOMAIN Result.acls = DOMAIN parser.acls
BY DEF Result, Parse

LEMMA MissingIsUndeclared ==
  ASSUME Told
  PROVE  Missing <=> Undeclared(parser)
<1>1. {"acl_in", "acl_out"} \subseteq Field
  BY DEF Field
<1>2. \A i \in DeclaredIn("interface") : \A f \in {"acl_in", "acl_out"} : parser.interfaces[i][f] = Written(i, f)
  BY <1>1 DEF Told, InterfacesTold
<1> QED BY <1>2 DEF Told, InterfacesTold, Missing, Undeclared

LEMMA TextsRead ==
  ASSUME ReaderOK
  PROVE  ParsedAsWritten /\ RefusedAsWritten /\ NumbersApart
<1>1. RefusedAsWritten
  <2> SUFFICES ASSUME \E k \in DOMAIN text : text[k].level # "blank"
               PROVE  Result.error =
                        IF Bad # {} THEN text[CHOOSE k \in Bad : \A j \in Bad : k <= j].code
                        ELSE IF DeclaredIn("hostname") = {} THEN "MISSING_HOSTNAME"
                        ELSE IF Missing THEN "UNDECLARED_ACL_REFERENCE" ELSE "none"
    BY DEF RefusedAsWritten
  <2>1. Result.error = IF parser.error # "none" THEN parser.error
                       ELSE IF parser.hostname = None THEN "MISSING_HOSTNAME"
                       ELSE IF Undeclared(parser) THEN "UNDECLARED_ACL_REFERENCE" ELSE "none"
    BY ResultIs DEF Refusal
  <2>2. CASE Bad # {}
    BY <2>1, <2>2 DEF ReaderOK
  <2>3. CASE Bad = {}
    <3>1. parser.error = "none" /\ Told
      BY <2>3 DEF ReaderOK
    <3> QED BY <2>1, <2>3, <3>1, MissingIsUndeclared DEF Told
  <2> QED BY <2>2, <2>3
<1>2. ParsedAsWritten
  <2> SUFFICES ASSUME Taken PROVE ParsedAsWritten
    BY DEF ParsedAsWritten
  <2>1. Refusal(text, parser) = "none"
    BY ResultIs DEF Taken
  <2>2. parser.error = "none"
    BY <2>1 DEF Refusal
  <2>3. Told
    BY <2>2 DEF ReaderOK
  <2> QED BY <2>3, ResultIs DEF ParsedAsWritten, Told, InterfacesTold
<1>3. NumbersApart
  <2> SUFFICES ASSUME NEW a \in DOMAIN parser.acls, NEW k \in DOMAIN parser.acls[a], parser.acls[a][k] = 0,
                      NEW j \in DOMAIN parser.acls[a] \ {k}
               PROVE  Finalized(vendor, parser.acls[a])[j] # Finalized(vendor, parser.acls[a])[k]
    BY Zenon DEF NumbersApart
  <2>1. parser.acls[a] \in Seq(Nat)
    BY DEF ReaderOK, ParserOK, AclsOK
  <2> QED BY <2>1, ApartNumbers
<1> QED BY <1>1, <1>2, <1>3

(* Only the entries of lists are left to a sort that is not looked into. *)
ConfigOK(c) ==
  /\ \E n \in Nat : DOMAIN c.neighbors = 1..n
  /\ InterfacesOK(c.interfaces)

LEMMA ResultOK == ReaderOK => ConfigOK(Result)
<1> SUFFICES ASSUME ReaderOK PROVE ConfigOK(Result)
  OBVIOUS
<1>1. InterfacesOK(Result.interfaces)
  BY ResultIs DEF ReaderOK, ParserOK
<1>2. DOMAIN Result.neighbors = DOMAIN parser.neighbors
  BY ResultIs DEF SortedNeighbors
<1>3. DOMAIN parser.neighbors = 1..Len(parser.neighbors) /\ Len(parser.neighbors) \in Nat
  <2>1. parser.neighbors \in Seq([ip : NeighborIp, as : Nat])
    BY DEF ReaderOK, ParserOK
  <2> QED BY <2>1
<1> QED BY <1>1, <1>2, <1>3 DEF ConfigOK

LEMMA ViolationsRead ==
  ASSUME ReaderOK
  PROVE  ViolationsAsWritten
<1> SUFFICES ASSUME Taken PROVE ViolationsAsWritten
  BY DEF ViolationsAsWritten
<1> DEFINE is == Result.interfaces
           declared == DeclaredIn("interface")
           written(q) == Written(q.interface, q.direction)
<1>1. DOMAIN is = declared /\ \A i \in declared : \A f \in Field : is[i][f] = Written(i, f)
  BY TextsRead DEF ParsedAsWritten
<1>2. \A q \in Required : q.direction \in Field
  BY ReviewAssumption DEF ReviewAssumption, Field
<1>3. \A q \in Required : q.interface \in declared => is[q.interface][q.direction] = written(q)
  BY <1>1, <1>2
<1> DEFINE made(r) == [rule |-> r, type |-> IF r.interface \in declared
                                             THEN "MISSING_REQUIRED_ACL" ELSE "TARGET_INTERFACE_MISSING",
                       actual |-> IF r.interface \in declared THEN written(r) ELSE None]
           told == {made(r) : r \in {q \in Required : q.interface \in declared => written(q) # q.acl}}
           absent(r) == [rule |-> r, actual |-> None, type |-> "TARGET_INTERFACE_MISSING"]
           unlike(r) == [rule |-> r, actual |-> is[r.interface][r.direction], type |-> "MISSING_REQUIRED_ACL"]
           Absent == {q \in Required : q.interface \notin DOMAIN is}
           Unlike == {q \in Required : q.interface \in DOMAIN is /\ is[q.interface][q.direction] # q.acl}
<1>4. Violations(Result) = {absent(r) : r \in Absent} \cup {unlike(r) : r \in Unlike}
  BY Zenon DEF Violations
<1>5. \A r \in Absent : absent(r) = made(r)
  BY <1>1
<1>6. \A r \in Unlike : unlike(r) = made(r)
  BY <1>1, <1>3
<1>7. {q \in Required : q.interface \in declared => written(q) # q.acl} = Absent \cup Unlike
  BY <1>1, <1>3
<1> HIDE DEF made, absent, unlike, Absent, Unlike
<1>8. Violations(Result) = told
  BY <1>4, <1>5, <1>6, <1>7
<1> QED BY <1>8, Zenon DEF ViolationsAsWritten, made

ResourceType == {"interface", "bgp_neighbor", "acl"}

NamesOf(c, type) ==
  IF type = "interface" THEN DOMAIN c.interfaces ELSE IF type = "acl" THEN DOMAIN c.acls ELSE Ips(c)

LEMMA ChangeFields ==
  ASSUME NEW type, NEW n, NEW field, NEW old, NEW new
  PROVE  LET x == Change(<<type, n>>, field, old, new) IN
         /\ x.resource = <<type, n>> /\ x.resource[1] = type /\ x.field = field /\ x.old = old /\ x.new = new
BY DEF Change

LEMMA SameResource ==
  ASSUME NEW s, NEW m, NEW t, NEW n
  PROVE  <<s, m>> = <<t, n>> <=> s = t /\ m = n
OBVIOUS

(* What came and what went, by type. *)
LEMMA CameAndWent ==
  ASSUME NEW b, NEW c
  PROVE  LET r == Compare(b, c) IN
         /\ \A type \in ResourceType : \A n :
              <<type, n>> \in {x.resource : x \in r.removed} <=> n \in NamesOf(b, type) \ NamesOf(c, type)
         /\ \A type \in ResourceType :
              {x.new : x \in {y \in r.added : y.resource[1] = type}} = NamesOf(c, type) \ NamesOf(b, type)
<1> DEFINE r == Compare(b, c)
           went(t, n) == Change(<<t, n>>, None, n, None)
           came(t, n) == Change(<<t, n>>, None, None, n)
<1>1. /\ r.removed = Removed("interface", DOMAIN b.interfaces \ DOMAIN c.interfaces)
                       \cup Removed("bgp_neighbor", Ips(b) \ Ips(c)) \cup Removed("acl", DOMAIN b.acls \ DOMAIN c.acls)
      /\ r.added = Added("interface", DOMAIN c.interfaces \ DOMAIN b.interfaces)
                     \cup Added("bgp_neighbor", Ips(c) \ Ips(b)) \cup Added("acl", DOMAIN c.acls \ DOMAIN b.acls)
  BY DEF Compare
<1>2. /\ \A t, S, x : x \in Removed(t, S) <=> \E n \in S : x = went(t, n)
      /\ \A t, S, x : x \in Added(t, S) <=> \E n \in S : x = came(t, n)
  BY DEF Removed, Added
<1>3. /\ \A t, n : went(t, n).resource = <<t, n>>
      /\ \A t, n : came(t, n).resource[1] = t /\ came(t, n).new = n
  BY ChangeFields
<1> HIDE DEF r, went, came
<1>4. \A x : x \in r.removed <=> \E t \in ResourceType : \E n \in NamesOf(b, t) \ NamesOf(c, t) : x = went(t, n)
  BY <1>1, <1>2 DEF ResourceType, NamesOf
<1>5. \A x : x \in r.added <=> \E t \in ResourceType : \E n \in NamesOf(c, t) \ NamesOf(b, t) : x = came(t, n)
  BY <1>1, <1>2 DEF ResourceType, NamesOf
<1>6. ASSUME NEW t \in ResourceType, NEW n
      PROVE  <<t, n>> \in {x.resource : x \in r.removed} <=> n \in NamesOf(b, t) \ NamesOf(c, t)
  BY <1>3, <1>4, SameResource
<1>7. ASSUME NEW t \in ResourceType
      PROVE  {x.new : x \in {y \in r.added : y.resource[1] = t}} = NamesOf(c, t) \ NamesOf(b, t)
  BY <1>3, <1>5
<1> QED BY <1>6, <1>7 DEF r

LEMMA Patches ==
  ASSUME NEW b, NEW c, NEW type \in ResourceType
  PROVE  LET r == Compare(b, c) IN
         {n \in NamesOf(b, type) : <<type, n>> \notin {x.resource : x \in r.removed}}
           \cup {x.new : x \in {y \in r.added : y.resource[1] = type}} = NamesOf(c, type)
<1> DEFINE gone == {x.resource : x \in Compare(b, c).removed}
           new == {x.new : x \in {y \in Compare(b, c).added : y.resource[1] = type}}
<1>1. \A n : <<type, n>> \in gone <=> n \in NamesOf(b, type) \ NamesOf(c, type)
  BY CameAndWent
<1>2. new = NamesOf(c, type) \ NamesOf(b, type)
  BY CameAndWent
<1> HIDE DEF gone, new
<1>3. {n \in NamesOf(b, type) : <<type, n>> \notin gone} \cup new = NamesOf(c, type)
  BY <1>1, <1>2
<1> QED BY <1>3 DEF gone, new

(* The changes of an interface, field by field. *)
Both(b, c) == DOMAIN b.interfaces \cap DOMAIN c.interfaces

FieldChange(b, c, i, f) == Change(<<"interface", i>>, f, b.interfaces[i][f], c.interfaces[i][f])

Hits(b, c, i, f) == {x \in Compare(b, c).changed : x.resource = <<"interface", i>> /\ x.field = f}

LEMMA InterfaceChangesAre ==
  ASSUME NEW b, NEW c
  PROVE  \A x : x \in InterfaceChanges(b, c) <=>
           \E i \in Both(b, c), f \in Field :
             b.interfaces[i][f] # c.interfaces[i][f] /\ x = FieldChange(b, c, i, f)
<1> DEFINE differs(y) == b.interfaces[y[1]][y[2]] # c.interfaces[y[1]][y[2]]
           change(y) == FieldChange(b, c, y[1], y[2])
           P == {y \in Both(b, c) \X Field : differs(y)}
<1>1. InterfaceChanges(b, c) = {change(y) : y \in P}
  BY Zenon DEF InterfaceChanges, FieldChange, Both
<1>2. ASSUME NEW x, NEW y \in P, x = change(y)
      PROVE  \E i \in Both(b, c), f \in Field :
               b.interfaces[i][f] # c.interfaces[i][f] /\ x = FieldChange(b, c, i, f)
  BY <1>2
<1>3. ASSUME NEW i \in Both(b, c), NEW f \in Field, b.interfaces[i][f] # c.interfaces[i][f]
      PROVE  FieldChange(b, c, i, f) \in {change(y) : y \in P}
  <2>1. <<i, f>> \in P /\ change(<<i, f>>) = FieldChange(b, c, i, f)
    BY <1>3
  <2> QED BY <2>1
<1> HIDE DEF P, change
<1> QED BY <1>1, <1>2, <1>3

LEMMA InterfaceChanged ==
  ASSUME NEW b, NEW c, NEW i \in Both(b, c)
  PROVE  /\ \A f \in Field : /\ b.interfaces[i][f] = c.interfaces[i][f] => Hits(b, c, i, f) = {}
                             /\ b.interfaces[i][f] # c.interfaces[i][f] =>
                                  Hits(b, c, i, f) = {FieldChange(b, c, i, f)}
         /\ \A x \in Compare(b, c).changed : x.resource = <<"interface", i>> =>
              x.field \in Field /\ x = FieldChange(b, c, i, x.field)
<1> DEFINE changed == Compare(b, c).changed
           other(n) == Change(<<"bgp_neighbor", n.ip>>, "remote_as", n.as, ByIp(c)[n.ip])
<1>1. changed = InterfaceChanges(b, c) \cup NeighborChanges(b, c)
  BY DEF Compare
<1>2. \A x \in NeighborChanges(b, c) : \E n : x = other(n)
  BY DEF NeighborChanges
<1>3. /\ \A j, f : FieldChange(b, c, j, f).resource = <<"interface", j>> /\ FieldChange(b, c, j, f).field = f
      /\ \A n : \E ip : other(n).resource = <<"bgp_neighbor", ip>>
  <2>1. \A j, f : FieldChange(b, c, j, f).resource = <<"interface", j>> /\ FieldChange(b, c, j, f).field = f
    BY ChangeFields DEF FieldChange
  <2>2. ASSUME NEW n PROVE other(n).resource = <<"bgp_neighbor", n.ip>>
    BY DEF Change
  <2> QED BY <2>1, <2>2
<1> HIDE DEF changed, other
<1>4. ASSUME NEW x \in changed, x.resource = <<"interface", i>>
      PROVE  /\ x.field \in Field /\ x = FieldChange(b, c, i, x.field)
             /\ b.interfaces[i][x.field] # c.interfaces[i][x.field]
  <2>1. x \in InterfaceChanges(b, c)
    BY <1>1, <1>2, <1>3, <1>4, SameResource
  <2>2. PICK j \in Both(b, c), f \in Field :
          b.interfaces[j][f] # c.interfaces[j][f] /\ x = FieldChange(b, c, j, f)
    BY <2>1, InterfaceChangesAre
  <2>3. j = i /\ x.field = f
    BY <1>3, <1>4, <2>2, SameResource
  <2> QED BY <2>2, <2>3
<1>5. ASSUME NEW f \in Field, b.interfaces[i][f] # c.interfaces[i][f]
      PROVE  FieldChange(b, c, i, f) \in changed
  BY <1>1, <1>5, InterfaceChangesAre
<1>6. ASSUME NEW f \in Field PROVE Hits(b, c, i, f) = {x \in changed : x.resource = <<"interface", i>> /\ x.field = f}
  BY DEF Hits, changed
<1>7. ASSUME NEW f \in Field
      PROVE  /\ b.interfaces[i][f] = c.interfaces[i][f] => Hits(b, c, i, f) = {}
             /\ b.interfaces[i][f] # c.interfaces[i][f] => Hits(b, c, i, f) = {FieldChange(b, c, i, f)}
  BY <1>3, <1>4, <1>5, <1>6
<1> QED BY <1>4, <1>7 DEF changed

(* The neighbors of an address are found by it, the last one of them. *)
LEMMA NeighborsChanged ==
  ASSUME NEW b, NEW c, ConfigOK(b), NEW ip \in Ips(b) \cap Ips(c), ByIp(c)[ip] # ByIp(b)[ip]
  PROVE  \E x \in Compare(b, c).changed : x.resource = <<"bgp_neighbor", ip>> /\ x.new = ByIp(c)[ip]
<1> DEFINE at == {k \in DOMAIN b.neighbors : b.neighbors[k].ip = ip}
           m == CHOOSE k \in at : \A j \in at : j <= k
<1>1. at # {} /\ Places(at)
  <2>1. PICK n \in Nat : DOMAIN b.neighbors = 1..n
    BY DEF ConfigOK
  <2>2. IsFiniteSet(1..n) /\ 1..n \subseteq Nat
    BY FS_Interval
  <2>3. Places(at)
    BY <2>1, <2>2, FS_Subset DEF Places
  <2>4. at # {}
    BY DEF Ips, ToSet
  <2> QED BY <2>3, <2>4
<1>2. m \in at
  <2> HIDE DEF at
  <2> QED BY <1>1, FirstAndLast
<1>3. ByIp(b)[ip] = b.neighbors[m].as
  BY DEF ByIp
<1> HIDE DEF m
<1> DEFINE n == b.neighbors[m]
<1>4. n \in ToSet(b.neighbors) /\ n.ip = ip
  BY <1>2 DEF ToSet
<1> DEFINE x == Change(<<"bgp_neighbor", ip>>, "remote_as", n.as, ByIp(c)[ip])
<1>5. x \in NeighborChanges(b, c)
  BY <1>3, <1>4 DEF NeighborChanges
<1>6. x \in Compare(b, c).changed
  BY <1>5 DEF Compare
<1>7. x.resource = <<"bgp_neighbor", ip>> /\ x.new = ByIp(c)[ip]
  BY ChangeFields
<1> HIDE DEF x
<1> QED BY <1>6, <1>7

LEMMA Patched ==
  ASSUME current # None => ConfigOK(baseline) /\ ConfigOK(current)
  PROVE  PatchedBaseline
<1> SUFFICES ASSUME current # None PROVE PatchedBaseline
  BY DEF PatchedBaseline
<1> DEFINE r == Compare(baseline, current)
           names(type, f) == {n \in f : <<type, n>> \notin {x.resource : x \in r.removed}}
                               \cup {x.new : x \in {y \in r.added : y.resource[1] = type}}
           interface(i) == [field \in Field |->
             LET hits == {x \in r.changed : x.resource = <<"interface", i>> /\ x.field = field}
             IN IF hits = {} THEN baseline.interfaces[i][field] ELSE (CHOOSE x \in hits : TRUE).new]
<1>1. /\ names("interface", DOMAIN baseline.interfaces) = DOMAIN current.interfaces
      /\ names("bgp_neighbor", Ips(baseline)) = Ips(current)
      /\ names("acl", DOMAIN baseline.acls) = DOMAIN current.acls
  <2>1. \A type \in ResourceType : names(type, NamesOf(baseline, type)) = NamesOf(current, type)
    BY Patches
  <2> HIDE DEF names
  <2> QED BY <2>1 DEF ResourceType, NamesOf
<1>2. ASSUME NEW i \in Both(baseline, current)
      PROVE  /\ interface(i) = current.interfaces[i]
             /\ \A x \in r.changed : x.resource = <<"interface", i>> => x.old = baseline.interfaces[i][x.field]
  <2>1. \A f \in Field : (CHOOSE x \in {FieldChange(baseline, current, i, f)} : TRUE).new = current.interfaces[i][f]
    <3>1. \A f \in Field : FieldChange(baseline, current, i, f).new = current.interfaces[i][f]
      BY ChangeFields DEF FieldChange
    <3> QED BY <3>1
  <2>2. interface(i) = [f \in Field |-> IF Hits(baseline, current, i, f) = {} THEN baseline.interfaces[i][f]
                                        ELSE (CHOOSE x \in Hits(baseline, current, i, f) : TRUE).new]
    BY DEF Hits
  <2>3. \A f \in Field : (IF Hits(baseline, current, i, f) = {} THEN baseline.interfaces[i][f]
                          ELSE (CHOOSE x \in Hits(baseline, current, i, f) : TRUE).new) = current.interfaces[i][f]
    BY <2>1, InterfaceChanged
  <2>4. current.interfaces[i] = [f \in Field |-> current.interfaces[i][f]]
    BY DEF ConfigOK, InterfacesOK, Both
  <2>5. interface(i) = current.interfaces[i]
    <3> HIDE DEF interface
    <3> QED BY <2>2, <2>3, <2>4
  <2>6. \A x \in r.changed : x.resource = <<"interface", i>> => x.old = baseline.interfaces[i][x.field]
    <3>1. \A f : FieldChange(baseline, current, i, f).old = baseline.interfaces[i][f]
      BY ChangeFields DEF FieldChange
    <3> QED BY <3>1, InterfaceChanged
  <2> QED BY <2>5, <2>6
<1>3. \A ip \in Ips(baseline) \cap Ips(current) :
        ByIp(current)[ip] = ByIp(baseline)[ip] \/
          \E x \in r.changed : x.resource = <<"bgp_neighbor", ip>> /\ x.new = ByIp(current)[ip]
  BY NeighborsChanged
<1> HIDE DEF r, names, interface
<1> QED BY <1>1, <1>2, <1>3, Zenon DEF PatchedBaseline, Both, r, names, interface

-----------------------------------------------------------------------------
(* Everything that is read and accepted *)

ReviewInvariant ==
  /\ corpus \in Corpora
  /\ ReaderOK
  /\ baseline # None => ConfigOK(baseline)
  /\ current # None => ConfigOK(baseline) /\ ConfigOK(current)

LEMMA ReaderRests == ReaderOK /\ UNCHANGED <<vendor, corpus, text, parser>> => ReaderOK'
<1> SUFFICES ASSUME ReaderOK, UNCHANGED <<vendor, corpus, text, parser>> PROVE ReaderOK'
  OBVIOUS
<1>1. \A k : Heads(k)' = Heads(k)
  BY DEF Heads
<1> DEFINE Nearest(S) == CHOOSE j \in S : \A i \in S : i <= j
           Greatest(S) == CHOOSE k \in S : \A j \in S : j <= k
<1>2. ASSUME NEW k PROVE HeadOf(k)' = HeadOf(k)
  <2>1. HeadOf(k) = IF Heads(k) = {} THEN Bang ELSE text[Nearest(Heads(k))]
    BY DEF HeadOf
  <2>2. HeadOf(k)' = IF Heads(k)' = {} THEN Bang ELSE text'[Nearest(Heads(k)')]
    BY DEF HeadOf
  <2> HIDE DEF Nearest
  <2> QED BY <1>1, <2>1, <2>2
<1>3. \A kind : DeclaredIn(kind)' = DeclaredIn(kind)
  BY DEF DeclaredIn
<1>4. AclsDeclared' = AclsDeclared
  BY <1>3 DEF AclsDeclared
<1>5. \A i, f : SetLines(i, f)' = SetLines(i, f)
  BY <1>2 DEF SetLines, StandsIn
<1>6. ASSUME NEW i, NEW f PROVE Written(i, f)' = Written(i, f)
  <2>1. Written(i, f) = IF SetLines(i, f) = {} THEN NewInterface[f]
                        ELSE text[Greatest(SetLines(i, f))].value
    BY DEF Written
  <2>2. Written(i, f)' = IF SetLines(i, f)' = {} THEN NewInterface[f]
                         ELSE text'[Greatest(SetLines(i, f)')].value
    BY DEF Written
  <2> HIDE DEF Greatest
  <2> QED BY <1>5, <2>1, <2>2
<1>7. Bad' = Bad
  BY <1>2 DEF Bad, StandsIn
<1>8. InterfacesTold' <=> InterfacesTold
  BY <1>3, <1>6 DEF InterfacesTold
<1>9. Told' <=> Told
  BY <1>2, <1>3, <1>4, <1>8 DEF Told
<1> QED BY <1>7, <1>9 DEF ReaderOK

LEMMA ReviewStarts == AnalysisInit => ReviewInvariant
BY ReaderStarts DEF AnalysisInit, Init, ReviewInvariant

LEMMA ReviewSteps == ReviewInvariant /\ [AnalysisNext]_all => ReviewInvariant'
<1> SUFFICES ASSUME ReviewInvariant, [AnalysisNext]_all PROVE ReviewInvariant'
  OBVIOUS
<1>1. CASE UNCHANGED vars
  BY <1>1, ReaderRests DEF ReviewInvariant, vars
<1>2. ASSUME NEW l \in corpus.first \cup corpus.lines, Write(l) PROVE ReviewInvariant'
  <2>1. IsLine(l)
    BY ReviewAssumption DEF ReviewAssumption, ReviewInvariant
  <2>2. ReaderOK'
    BY <1>2, <2>1, ReaderWrites DEF Write, ReviewInvariant
  <2> QED BY <1>2, <2>2 DEF Write, ReviewInvariant
<1>3. CASE Submit
  <2>1. ReaderOK'
    BY <1>3, ReaderRestarts DEF Submit
  <2>2. ConfigOK(Result)
    BY ResultOK DEF ReviewInvariant
  <2>3. CASE UNCHANGED <<baseline, current>>
    BY <1>3, <2>1, <2>3 DEF Submit, ReviewInvariant
  <2>4. CASE current' = Result /\ baseline' = IF baseline = None THEN current' ELSE baseline
    <3>1. ConfigOK(current')
      BY <2>2, <2>4
    <3>2. ConfigOK(baseline')
      BY <2>4, <3>1 DEF ReviewInvariant
    <3> QED BY <1>3, <2>1, <3>1, <3>2 DEF Submit, ReviewInvariant
  <2> QED BY <1>3, <2>3, <2>4 DEF Submit
<1> QED BY <1>1, <1>2, <1>3 DEF AnalysisNext, Next, all

LEMMA ReviewHolds == AnalysisSpec => []ReviewInvariant
BY ReviewStarts, ReviewSteps, PTL DEF AnalysisSpec

(* Whatever is written for a device, up to any length: the loop, which     *)
(* reads every line once, takes from a text what the text as a whole says. *)
(* What it declares and what it last gave each field is in the result, the *)
(* first malformed line that counts, or what is missing, is in the         *)
(* refusal, and an entry without a number gets one that is its own.        *)
THEOREM TextsAreRead == AnalysisSpec => []TextsAsWritten
<1>1. ReviewInvariant => TextsAsWritten
  BY TextsRead DEF ReviewInvariant, TextsAsWritten
<1> QED BY <1>1, ReviewHolds, PTL

(* Of every accepted text, the violations are those of the words in it;    *)
(* and of every two, the report of the drift makes one out of the other.   *)
THEOREM ReviewsAreOfTexts == AnalysisSpec => []ReviewedAsWritten
<1>1. ReviewInvariant => ReviewedAsWritten
  BY ViolationsRead, Patched DEF ReviewInvariant, ReviewedAsWritten
<1> QED BY <1>1, ReviewHolds, PTL

==============================================================================
