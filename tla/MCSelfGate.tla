----------------------------- MODULE MCSelfGate -----------------------------
(* A small instance of SelfGate: a row to be detected, a benign twin of     *)
(* both families, and a row of the family the built-in detectors emit, who *)
(* are tuned with an event type and a keyword.                             *)
EXTENDS SelfGate, TLC

CONSTANTS target, twin, other, elevation, beacon, beaconPackage, exporter, sidecar1, sidecar2, eventType, keyword, p1, p2

MCMustFire == target :> {beacon} @@ twin :> {} @@ other :> {elevation}
MCMustNotFire == target :> {} @@ twin :> {beacon, elevation} @@ other :> {}
MCFamilyOf == beaconPackage :> beacon @@ exporter :> elevation @@ sidecar1 :> beacon @@ sidecar2 :> elevation
MCSymmetry == Permutations({p1, p2}) \cup Permutations({eventType, keyword})
=============================================================================
