------------------------------ MODULE StoreLog ------------------------------
(***************************************************************************)
(* What core/store promises its callers, without git: every stream is a    *)
(* list of entries, a checkout of it trails behind, and an entry a call    *)
(* acknowledged is in both for good.                                       *)
(*                                                                         *)
(* An entry lands at the end of its stream at most once; the checkout only *)
(* ever moves forward along the stream; acknowledging an entry requires    *)
(* the checkout to hold it.  Somebody who commits from a checkout that     *)
(* trails drops what landed since, so an entry that landed and was never   *)
(* acknowledged may be lost, and an acknowledged one may not.              *)
(***************************************************************************)
EXTENDS SequencesExt

CONSTANTS
    Streams,    \* the JSONL streams
    Entries     \* what one Append or AppendBatch call writes

VARIABLES
    log,        \* log[s]: the committed entries of stream s, oldest first
    checkout,   \* checkout[s]: those the real index and work tree show
    acked       \* acked[s]: the entries whose call returned without error

vars == <<log, checkout, acked>>

Init ==
    /\ log = [s \in Streams |-> <<>>]
    /\ checkout = [s \in Streams |-> <<>>]
    /\ acked = [s \in Streams |-> {}]

Land(s, e) ==
    /\ e \notin ToSet(log[s])
    /\ log' = [log EXCEPT ![s] = Append(@, e)]
    /\ UNCHANGED <<checkout, acked>>

Publish ==
    /\ \A s \in Streams : /\ IsPrefix(checkout[s], checkout'[s])
                          /\ IsPrefix(checkout'[s], log[s])
    /\ checkout' = [s \in Streams |-> checkout'[s]]
    /\ UNCHANGED <<log, acked>>

Acknowledge(s, e) ==
    /\ e \in ToSet(checkout[s])
    /\ acked' = [acked EXCEPT ![s] = @ \cup {e}]
    /\ UNCHANGED <<log, checkout>>

CommitCheckout ==
    /\ log' = checkout
    /\ UNCHANGED <<checkout, acked>>

Next ==
    \/ \E s \in Streams, e \in Entries : Land(s, e) \/ Acknowledge(s, e)
    \/ Publish
    \/ CommitCheckout

Spec == Init /\ [][Next]_vars
=============================================================================
