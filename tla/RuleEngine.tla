----------------------------- MODULE RuleEngine -----------------------------
(***************************************************************************)
(* The three telemetry rules of backend/src/meta_rne/detection, as         *)
(* functions of the samples of one device in the order the caller gives    *)
(* them.  A sample that does not mention an interface or a neighbor makes  *)
(* no observation of it ("absent").  Of the six BGP states only the        *)
(* down family matters (Idle and Active, "down") against the rest.         *)
(***************************************************************************)
EXTENDS Integers, Sequences, FiniteSets, SequencesExt

CONSTANTS
  Interface, Neighbor,
  Cpu,             \* the utilisations that occur, in percent
  MaxTime,         \* bound on sampled_at
  FlapCount,       \* _LINK_FLAP_TRANSITION_COUNT
  FlapWindow       \* _LINK_FLAP_WINDOW

RuleConstants ==
  /\ MaxTime \in Nat \ {0} /\ FlapWindow \in Nat
  /\ FlapCount \in Nat \ {0, 1} /\ Cpu \subseteq 0..100

CpuHighThreshold == 90

Time == 1..MaxTime

Reading == [cpu   : Cpu,
            links : [Interface -> {"up", "down", "absent"}],
            bgp   : [Neighbor -> {"established", "down", "absent"}]]

Sample == [at : Time, reading : Reading]

-----------------------------------------------------------------------------
(* Samples are referred to by their places in h: the latest n of a set of  *)
(* them are those that fewer than n come after.                            *)
Latest(n, S) == {k \in S : Cardinality({l \in S : l > k}) < n}

CpuHigh(h) ==
  Len(h) >= 2 /\ \A k \in Len(h) - 1..Len(h) : h[k].reading.cpu > CpuHighThreshold

LinkObservations(h, i) == {k \in DOMAIN h : h[k].reading.links[i] # "absent"}

(* The observations of i that differ from the one before: the first is     *)
(* initial, never a transition.                                            *)
Transitions(h, i) ==
  LET obs == LinkObservations(h, i)
  IN {k \in obs : \E j \in obs : /\ j < k /\ \A l \in obs : l <= j \/ l >= k
                               /\ h[j].reading.links[i] # h[k].reading.links[i]}

(* Faulty variant: the window is exclusive. *)
LinkFlapExclusive(h, i) ==
  LET latest == Latest(FlapCount, Transitions(h, i))
  IN /\ Cardinality(Transitions(h, i)) >= FlapCount
     /\ \A j, k \in latest : j <= k => h[k].at - h[j].at \in 0..FlapWindow - 1

(* The latest of them follow each other in time, within the window.        *)
LinkFlap(h, i) ==
  LET latest == Latest(FlapCount, Transitions(h, i))
  IN /\ Cardinality(Transitions(h, i)) >= FlapCount
     /\ \A j, k \in latest : j <= k => h[k].at - h[j].at \in 0..FlapWindow

BgpObservations(h, n) == {k \in DOMAIN h : h[k].reading.bgp[n] # "absent"}

(* Faulty variant: level-triggered. *)
BgpDownLevel(h, n) ==
  \E k \in BgpObservations(h, n) :
    h[k].reading.bgp[n] = "down" /\ \A l \in BgpObservations(h, n) : l <= k

(* The last two observations, j and k. *)
BgpDown(h, n) ==
  LET obs == BgpObservations(h, n)
  IN \E j, k \in obs : /\ j < k /\ \A l \in obs : l <= j \/ l = k
                       /\ h[j].at <= h[k].at
                       /\ h[j].reading.bgp[n] = "established"
                       /\ h[k].reading.bgp[n] = "down"

(* RuleEngine.evaluate: which rules fire for which resource. *)
Evaluate(h) ==
  (IF CpuHigh(h) THEN {<<"CPU_HIGH", "device">>} ELSE {})
    \cup {<<"LINK_FLAP", i>> : i \in {j \in Interface : LinkFlap(h, j)}}
    \cup {<<"BGP_DOWN", n>> : n \in {m \in Neighbor : BgpDown(h, m)}}

(* AnomalyIncidentMapper.build_candidate: the incident an anomaly becomes. *)
(* Rule and resource are what its fingerprint is computed from.            *)
BuildCandidate(a) ==
  [rule |-> a[1], resource |-> a[2],
   severity |-> IF a[1] = "BGP_DOWN" THEN "Critical" ELSE "High"]
=============================================================================
