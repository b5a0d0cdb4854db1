----------------------------- MODULE MCGitStore -----------------------------
(* A small instance of GitStore for TLC: which process each writer is in.   *)
EXTENDS GitStore

CONSTANTS a, b, c, scan, feedback

\* Two goroutines of the scan and one of another process.
MCProcOf == [w \in Writers |-> IF w = c THEN feedback ELSE scan]

\* a and b are in one process, and no stream is special.
Symmetry == Permutations({a, b}) \cup Permutations(Streams)
=============================================================================
