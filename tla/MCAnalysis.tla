----------------------------- MODULE MCAnalysis -----------------------------
(***************************************************************************)
(* What the backend computes from its inputs alone: configurations and     *)
(* their review, the telemetry rules, and the diagnosis of a link.  They   *)
(* share no state, so the inputs of one are enumerated at a time.          *)
(***************************************************************************)
EXTENDS ConfigurationReview

CONSTANTS
  InterfaceFact, BgpFact, AddressFact, RouteFact, PathFact, ProbeFact,  \* what is observed of a link
  FlapCount, FlapWindow,
  FlapInterface, FlapMaxTime, MaxFlapSamples,              \* the streams about flaps
  OutageNeighbor, OutageCpu, OutageMaxTime, MaxOutageSamples  \* and those about the other rules

VARIABLES part, link, stream

all == <<part, vars, link, stream>>

Links == INSTANCE Diagnosis

Flaps == INSTANCE RuleStreams WITH
  Interface <- FlapInterface, Neighbor <- {}, Cpu <- {0}, MaxTime <- FlapMaxTime, MaxSamples <- MaxFlapSamples

Outages == INSTANCE RuleStreams WITH
  Interface <- {}, Neighbor <- OutageNeighbor, Cpu <- OutageCpu, MaxTime <- OutageMaxTime,
  MaxSamples <- MaxOutageSamples

ASSUME AnalysisAssumption == Links!FactsConstants /\ Flaps!RuleConstants /\ Outages!RuleConstants

-----------------------------------------------------------------------------
(* Texts, after the host name if they are about what it is needed for.     *)
Named == {Hostname("spine-01")}

BlockLines ==
  {Blank, Bang, OtherTop, OpenInterface("ge1"), OpenInterface("ge2"), OpenAcl("ACL"),
   Set("acl_in", "ACL"), Set("acl_out", "ACL"), Set("acl_in", "101"), NumberedEntry("101"), RouterBgp,
   Set("admin_state", "down"),
   BadTop("MALFORMED_INTERFACE"), BadChild("interface", "INVALID_SUBNET_MASK"),
   BadChild("bgp", "INVALID_BGP_NEIGHBOR_IP")}

ListLines ==
  {OpenAcl("ACL"), OpenAcl("101"), Entry(0), Entry(10), Entry(15), Entry(20), NumberedEntry("101")}

RevisedLines ==
  {OpenInterface("ge1"), OpenAcl("ACL"), Set("acl_in", "ACL"), Set("admin_state", "down"),
   RouterBgp, NeighborLine(1, 65001), NeighborLine(1, 65002)}

Blocks == [first |-> Named, lines |-> BlockLines, length |-> 5, submits |-> 0]

Fragments == [first |-> BlockLines, lines |-> BlockLines, length |-> 3, submits |-> 0]

Lists == [first |-> ListLines, lines |-> ListLines, length |-> 6, submits |-> 0]

Revisions == [first |-> Named, lines |-> RevisedLines, length |-> 5, submits |-> 2]

MCCorpora == {Blocks, Fragments, Lists, Revisions}

ExternalIn == {[acl |-> "ACL", interface |-> "ge1", direction |-> "acl_in"]}

-----------------------------------------------------------------------------
Enumerated == {"texts", "links", "flaps", "outages"}

(* The others rest at one of their inputs. *)
AnalysisInit ==
  /\ part \in Enumerated
  /\ Init /\ (part # "texts" => corpus = Fragments /\ vendor = "cisco")
  /\ (part # "links" => link = CHOOSE l \in Links!Link : TRUE) /\ link \in Links!Link
  /\ Flaps!Init

AnalysisNext ==
  \/ part = "texts" /\ Next /\ UNCHANGED <<part, link, stream>>
  \/ part = "links" /\ Links!Next /\ UNCHANGED <<part, vars, stream>>
  \/ part = "flaps" /\ Flaps!Next /\ UNCHANGED <<part, vars, link>>
  \/ part = "outages" /\ Outages!Next /\ UNCHANGED <<part, vars, link>>

AnalysisSpec == AnalysisInit /\ [][AnalysisNext]_all

-----------------------------------------------------------------------------
(* A text is accepted or refused, numbered and parsed as it is written.    *)
TextsAsWritten == ParsedAsWritten /\ RefusedAsWritten /\ NumbersApart

(* So are its violations and its drift from the text before. *)
ReviewedAsWritten == ViolationsAsWritten /\ PatchedBaseline

(* Type, confidence and roles of the evidence agree. *)
ConfidenceMatchesEvidence == Links!ConfidenceMatchesEvidence

(* What was not observed never turns a diagnosis into a confirmed one. *)
LosingNeverConfirms == Links!LosingNeverConfirms

(* A flap is what its window holds, and needs its observations. *)
FlapsCounted == part = "flaps" => Flaps!FlapCountsWindow /\ Flaps!FlapNeedsObservations

(* The other rules start and stop with observations only. *)
RulesFollowObservations == [][part = "outages" => Outages!FollowsObservations]_all
=============================================================================
