--------------------------- MODULE MCScanPipeline ---------------------------
(* A small instance of ScanPipeline: a connector with a cursor, one without. *)
EXTENDS ScanPipeline

CONSTANTS aws, file, mallory, alice

MCSourceOrder == <<aws, file>>

MCEvents == {[src |-> aws, n |-> 1], [src |-> aws, n |-> 2], [src |-> file, n |-> 1]}

\* mallory appears at both sources, alice only once.
MCActorOf == [e \in Events |-> IF e.src = aws /\ e.n = 1 THEN alice ELSE mallory]

MCAlarming == {[src |-> aws, n |-> 2], [src |-> file, n |-> 1]}
=============================================================================
