----------------------------- MODULE MCInquest -----------------------------
(* A small instance of Inquest: a burst of findings that share one case. *)
EXTENDS Inquest

CONSTANT burst

MCCaseOf == [f \in Findings |-> burst]
=============================================================================
