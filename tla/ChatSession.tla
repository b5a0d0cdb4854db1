----------------------------- MODULE ChatSession -----------------------------
(***************************************************************************)
(* What a chat session promises the browser, with no git, no runner and no *)
(* retry: the inbox grows, and its questions are reported done in order,   *)
(* each once and none left out.                                            *)
(***************************************************************************)
EXTENDS Naturals, Sequences

CONSTANT MaxInbox       \* bound: records the browser writes

VARIABLES
    inbox,      \* the browser's records: "question" or "shutdown"
    finished    \* the positions of the questions reported done, in order

svars == <<inbox, finished>>

\* The positions of the questions of an inbox, in order.
Questions(box) ==
    LET asked[n \in 0..Len(box)] ==
            IF n = 0 THEN <<>>
            ELSE IF box[n] = "question" THEN Append(asked[n - 1], n)
            ELSE asked[n - 1]
    IN asked[Len(box)]

Init == inbox = <<>> /\ finished = <<>>

Write ==
    /\ Len(inbox) < MaxInbox
    /\ \E r \in {"question", "shutdown"} : inbox' = Append(inbox, r)
    /\ UNCHANGED finished

\* One push may publish the end of several questions.
Report ==
    /\ \E n \in Len(finished) + 1 .. Len(Questions(inbox)) :
         finished' = SubSeq(Questions(inbox), 1, n)
    /\ UNCHANGED inbox

Next == Write \/ Report

Spec == Init /\ [][Next]_svars
==============================================================================
