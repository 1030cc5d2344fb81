------------------------- MODULE MCIncidentServices -------------------------
(* Small instances of IncidentServices: one router with BGP peers and its  *)
(* CPU, whose incidents telemetry, collections and operators write.        *)
EXTENDS IncidentServices, TLC
CONSTANTS t1, c1, c2, o1, i1, i2, i3, i4, cpu, peer1, peer2, k1, k2
MCSession == TelemetrySession \cup CollectorSession \cup OperatorSession
CollectorSymmetry == Permutations(CollectorSession) \cup Permutations(CollectionId)
=============================================================================
