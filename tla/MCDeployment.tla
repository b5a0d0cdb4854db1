---------------------------- MODULE MCDeployment ----------------------------
(* A small instance of Deployment: three scan jobs, alike, and a chat. *)
EXTENDS Deployment, TLC

CONSTANTS s1, s2, s3, c1

Symmetry == Permutations(Scans)
=============================================================================
