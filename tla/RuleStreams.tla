---------------------------- MODULE RuleStreams ----------------------------
(***************************************************************************)
(* The rules over every short stream of samples: one is appended at a time *)
(* and the rules are evaluated on the whole, in the order given.           *)
(***************************************************************************)
EXTENDS RuleEngine

CONSTANT MaxSamples  \* bound on the samples of a stream

VARIABLE stream

Init == stream = << >>

(* A sample is received. *)
Next ==
  /\ Len(stream) < MaxSamples
  /\ \E s \in Sample : stream' = Append(stream, s)

Spec == Init /\ [][Next]_stream

-----------------------------------------------------------------------------
Chronological == \A j, k \in DOMAIN stream : j <= k => stream[j].at <= stream[k].at

(* docs/product-spec.md, FR-06: more than three transitions of an          *)
(* interface within the window, here the window that ends at the latest    *)
(* one.  The rule looks at the last four transitions only; on a            *)
(* chronological stream that is the same, ties and boundaries included.    *)
FlapCountsWindow ==
  \A i \in Interface : Chronological =>
    LET t == Transitions(stream, i)
        inWindow == {k \in t : \A l \in t : stream[l].at <= stream[k].at + FlapWindow}
    IN LinkFlap(stream, i) <=> Cardinality(inWindow) >= FlapCount

(* A flap takes FlapCount changes, so one more sample, all observed: gaps  *)
(* in the stream never count as changes and never hide one.                *)
FlapNeedsObservations ==
  \A i \in Interface : LinkFlap(stream, i) =>
    Cardinality({k \in DOMAIN stream : stream[k].reading.links[i] # "absent"}) > FlapCount

(* The down rule starts to fire only with a sample that observes the       *)
(* neighbor down after one that observed it up, and stops only with a      *)
(* sample that observes it; the CPU rule changes only with the CPU.        *)
FollowsObservations ==
  LET new == stream'[Len(stream')].reading
  IN /\ \A n \in Neighbor :
          /\ BgpDown(stream', n) /\ ~BgpDown(stream, n) =>
               /\ new.bgp[n] = "down"
               /\ \E k \in 1..Len(stream) :
                    /\ stream[k].reading.bgp[n] = "established"
                    /\ \A j \in k + 1..Len(stream) : stream[j].reading.bgp[n] = "absent"
          /\ BgpDown(stream, n) /\ ~BgpDown(stream', n) => new.bgp[n] # "absent"
     /\ CpuHigh(stream') => new.cpu > CpuHighThreshold
=============================================================================
