----------------------------- MODULE MCSelfExt -----------------------------
(* A small instance of SelfExt: one widen, two misses of one detector. *)
EXTENDS SelfExt

CONSTANTS mapping, miss1, miss2, detector

MCDetector == [g \in {miss1, miss2} |-> detector]
MCBatches == {<<mapping, miss1>>, <<miss1, miss2>>}
=============================================================================
