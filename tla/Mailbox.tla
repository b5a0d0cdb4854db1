------------------------------- MODULE Mailbox -------------------------------
(***************************************************************************)
(* mallcop investigate --serve over a git branch: the browser appends      *)
(* questions to inbox.jsonl on the remote, a runner pulls them, asks the   *)
(* model and appends a trace to outbox.jsonl, which it commits and pushes, *)
(* coalescing all but the records a browser waits for.  A runner dies, is  *)
(* cancelled, goes idle, loses its network; a new one starts from a fresh  *)
(* clone and resumes from the two files.                                   *)
(*                                                                         *)
(* One runner is alive at a time.  A record's inbox seq is its position in *)
(* the inbox (the browser numbers them), and stands for the question's id. *)
(***************************************************************************)
EXTENDS Naturals, Sequences, FiniteSetsExt

CONSTANTS
    MaxInbox,       \* bound: records the browser writes
    MaxTurns,       \* DefaultMaxTurns: model round trips of one question
    MaxTicks,       \* bound: heartbeats appended while a runner waits or works
    MaxBoots,       \* bound: runners dispatched
    MaxFaults,      \* bound: pushes and pulls that fail
    MaxDeaths       \* bound: runners killed or cancelled

ASSUME BoundAssumption ==
    {MaxInbox, MaxTurns, MaxTicks, MaxBoots, MaxFaults, MaxDeaths} \subseteq Nat

Positions == 1..MaxInbox
Types == {"ready", "answer", "done", "exit", "note"}

VARIABLES
    inbox,      \* inbox.jsonl on the remote
    file,       \* outbox.jsonl in the runner's clone; of the remote when down
    committed,  \* the length of the prefix of file committed in the clone
    pushed,     \* the length of the prefix of file on the remote
    merged,     \* how much of the inbox the clone holds
    seq,        \* outboxWriter.lastSeq
    cursor,     \* Serve's lastSeq: the last inbox record taken
    batch,      \* the end of the records read by readInbox
    pc,         \* where the runner is
    turns,      \* round trips of the question in hand
    ticker,     \* the busy heartbeat goroutine of each question
    cancelled,  \* the context was cancelled by a signal
    ticks, boots, faults, deaths

clone == <<file, committed, pushed, merged, seq>>
loop == <<cursor, batch, pc, turns>>
budget == <<ticks, boots, faults, deaths>>
vars == <<inbox, clone, loop, ticker, cancelled, budget>>

outbox == SubSeq(file, 1, pushed)
Staged == Len(file) > committed
Diverged == committed > pushed /\ Len(inbox) > merged

Finished(box) == {box[k].q : k \in {j \in DOMAIN box : box[j].type = "done"}}
Unanswered == {i \in DOMAIN inbox : inbox[i] = "question"} \ Finished(outbox)

-----------------------------------------------------------------------------
(* The clone and the remote.                                               *)

\* outboxWriter.append, then Push: add, and unless coalesced commit and push,
\* with a pull before each retry (the index is clean by then, so it merges).
Emit(type, q, force) ==
    LET longer == Append(file, [type |-> type, q |-> q, seq |-> seq + 1]) IN
    /\ seq' = seq + 1
    /\ file' = longer
    /\ \/ /\ ~force
          /\ UNCHANGED <<committed, pushed, merged, faults>>
       \/ /\ committed' = Len(longer)
          /\ pushed' = Len(longer)
          /\ merged' = Len(inbox)
          /\ UNCHANGED faults
       \/ /\ faults < MaxFaults
          /\ faults' = faults + 1
          /\ committed' = Len(longer)
          /\ merged' \in {merged, Len(inbox)}
          /\ UNCHANGED pushed

\* What no browser waits for: acks, tool traces and heartbeats.
Note == Emit("note", 0, FALSE)

\* The runner's process is gone, and its clone with it.
Gone(box) ==
    /\ pc' = "down"
    /\ file' = box
    /\ committed' = Len(box)
    /\ pushed' = Len(box)
    /\ seq' = 0 /\ merged' = 0 /\ cursor' = 0 /\ batch' = 0 /\ turns' = 0
    /\ ticker' = [i \in Positions |-> "off"]
    /\ cancelled' = FALSE

\* The exit record is forced out and its error ignored; then Serve returns.
Exit ==
    /\ \/ /\ Gone(Append(file, [type |-> "exit", q |-> 0, seq |-> seq + 1]))
          /\ UNCHANGED faults
       \/ /\ faults < MaxFaults
          /\ faults' = faults + 1
          /\ Gone(outbox)
    /\ UNCHANGED <<inbox, ticks, boots, deaths>>

-----------------------------------------------------------------------------
(* The browser.                                                            *)

Write ==
    /\ Len(inbox) < MaxInbox
    /\ \E r \in {"question", "shutdown"} : inbox' = Append(inbox, r)
    /\ UNCHANGED <<clone, loop, ticker, cancelled, budget>>

-----------------------------------------------------------------------------
(* The runner.                                                             *)

\* Mutant: the cursor resumes from the last answer, done or not.
CursorOfAnswers(box) ==
    Max({0} \cup {box[k].q : k \in {j \in DOMAIN box : box[j].type = "answer"}})

\* resumeState: the outbox's highest seq, the highest question done.
ResumedSeq(box) == Max({0} \cup {box[k].seq : k \in DOMAIN box})
ResumedCursor(box) == Max({0} \cup Finished(box))

\* A fresh clone, resumeState, and the ready record, whose push must succeed.
\* The browser dispatches a runner at first, and for a question unanswered.
Boot ==
    /\ pc = "down" /\ boots < MaxBoots
    /\ boots = 0 \/ Unanswered # {}
    /\ boots' = boots + 1
    /\ \/ /\ faults < MaxFaults
          /\ faults' = faults + 1
          /\ UNCHANGED <<clone, loop>>
       \/ /\ seq' = ResumedSeq(outbox) + 1
          /\ file' = Append(outbox, [type |-> "ready", q |-> 0, seq |-> seq'])
          /\ committed' = Len(file') /\ pushed' = Len(file')
          /\ merged' = Len(inbox)
          /\ cursor' = ResumedCursor(outbox)
          /\ batch' = cursor'
          /\ pc' = "pull" /\ turns' = 0
          /\ UNCHANGED faults
    /\ UNCHANGED <<inbox, ticker, cancelled, ticks, deaths>>

\* The top of the loop after a signal: an exit record, and Serve returns.
Cancelled == pc \in {"pull", "wait"} /\ cancelled /\ Exit

\* git pull, then readInbox.
Pull ==
    /\ pc = "pull" /\ ~cancelled
    /\ ~(Diverged /\ Staged)
    /\ merged' = Len(inbox)
    /\ batch' = Len(inbox)
    /\ pc' = IF batch' > cursor THEN "work" ELSE "wait"
    /\ UNCHANGED <<inbox, file, committed, pushed, seq, cursor, turns, ticker, cancelled, budget>>

\* git refuses to merge over a staged outbox, a heartbeat's git add holds the
\* index lock, or the network is down: Serve returns, and writes no exit record.
PullFails ==
    /\ pc = "pull" /\ ~cancelled
    /\ \/ Diverged /\ Staged /\ UNCHANGED faults
       \/ /\ \E i \in Positions : ticker[i] = "last"
          /\ UNCHANGED faults
       \/ faults < MaxFaults /\ faults' = faults + 1
    /\ Gone(outbox)
    /\ UNCHANGED <<inbox, ticks, boots, deaths>>

\* The next record is a shutdown.
Shutdown ==
    /\ pc = "work" /\ cursor < batch
    /\ inbox[cursor + 1] = "shutdown"
    /\ Exit

\* The next record is a question: acknowledge it and start its ticker.
Take ==
    /\ pc = "work" /\ cursor < batch
    /\ inbox[cursor + 1] = "question"
    /\ cursor' = cursor + 1
    /\ Note
    /\ ticker' = [ticker EXCEPT ![cursor'] = "on"]
    /\ pc' = "ask" /\ turns' = 0
    /\ UNCHANGED <<inbox, batch, cancelled, ticks, boots, deaths>>

\* Mutant: one round trip too many.
TurnOneMore ==
    /\ pc = "ask" /\ turns <= MaxTurns /\ ~cancelled
    /\ turns' = turns + 1
    /\ Note
    /\ UNCHANGED <<inbox, cursor, batch, pc, ticker, cancelled, ticks, boots, deaths>>

\* A round trip that ends in tool calls, traced by the hook.
Turn ==
    /\ pc = "ask" /\ turns < MaxTurns /\ ~cancelled
    /\ turns' = turns + 1
    /\ Note
    /\ UNCHANGED <<inbox, cursor, batch, pc, ticker, cancelled, ticks, boots, deaths>>

\* Mutant: the error path forgets the answer record.
AnswerOrNone ==
    /\ pc = "ask"
    /\ \/ Emit("answer", cursor, TRUE)
       \/ UNCHANGED <<clone, faults>>
    /\ pc' = "answered"
    /\ UNCHANGED <<inbox, cursor, batch, turns, ticker, cancelled, ticks, boots, deaths>>

\* askCore returned, an answer or an error told as one.
Answer ==
    /\ pc = "ask"
    /\ Emit("answer", cursor, TRUE)
    /\ pc' = "answered"
    /\ UNCHANGED <<inbox, cursor, batch, turns, ticker, cancelled, ticks, boots, deaths>>

\* The done record; the deferred stop closes the ticker's channel and does
\* not wait for a heartbeat under way.
Done ==
    /\ pc = "answered"
    /\ Emit("done", cursor, TRUE)
    /\ pc' = "work"
    /\ ticker' = [ticker EXCEPT ![cursor] = IF @ = "firing" THEN "last" ELSE "off"]
    /\ UNCHANGED <<inbox, cursor, batch, turns, cancelled, ticks, boots, deaths>>

\* The batch is done: an idle heartbeat, and back to the top.
Idle ==
    /\ pc = "work" /\ cursor = batch
    /\ Note
    /\ pc' = "pull"
    /\ UNCHANGED <<inbox, cursor, batch, turns, ticker, cancelled, ticks, boots, deaths>>

\* Nothing new: the idle timeout, a heartbeat when one is due, or neither.
IdleTimeout == pc = "wait" /\ ~cancelled /\ Exit

Heartbeat ==
    /\ pc = "wait" /\ ticks < MaxTicks
    /\ ticks' = ticks + 1
    /\ Note
    /\ pc' = "pull"
    /\ UNCHANGED <<inbox, cursor, batch, turns, ticker, cancelled, boots, deaths>>

Poll ==
    /\ pc = "wait" /\ ~cancelled
    /\ pc' = "pull"
    /\ UNCHANGED <<inbox, clone, cursor, batch, turns, ticker, cancelled, budget>>

-----------------------------------------------------------------------------
(* The busy heartbeats of question i.                                      *)

Tick(i) ==
    /\ ticker[i] = "on" /\ ~cancelled /\ ticks < MaxTicks
    /\ ticks' = ticks + 1
    /\ ticker' = [ticker EXCEPT ![i] = "firing"]
    /\ UNCHANGED <<inbox, clone, loop, cancelled, boots, faults, deaths>>

Beat(i) ==
    /\ ticker[i] \in {"firing", "last"}
    /\ Note
    /\ ticker' = [ticker EXCEPT ![i] = IF @ = "firing" THEN "on" ELSE "off"]
    /\ UNCHANGED <<inbox, loop, cancelled, ticks, boots, deaths>>

-----------------------------------------------------------------------------
(* Faults.                                                                 *)

Kill ==
    /\ pc # "down" /\ deaths < MaxDeaths
    /\ deaths' = deaths + 1
    /\ Gone(outbox)
    /\ UNCHANGED <<inbox, ticks, boots, faults>>

Signal ==
    /\ pc # "down" /\ ~cancelled /\ deaths < MaxDeaths
    /\ deaths' = deaths + 1
    /\ cancelled' = TRUE
    /\ UNCHANGED <<inbox, clone, loop, ticker, ticks, boots, faults>>

-----------------------------------------------------------------------------
Init ==
    /\ inbox = <<>> /\ file = <<>>
    /\ committed = 0 /\ pushed = 0 /\ merged = 0 /\ seq = 0
    /\ cursor = 0 /\ batch = 0 /\ pc = "down" /\ turns = 0
    /\ ticker = [i \in Positions |-> "off"]
    /\ cancelled = FALSE
    /\ ticks = 0 /\ boots = 0 /\ faults = 0 /\ deaths = 0

Runner ==
    \/ Boot \/ Cancelled \/ Pull \/ PullFails \/ Shutdown \/ Take \/ Turn
    \/ Answer \/ Done \/ Idle \/ IdleTimeout \/ Heartbeat \/ Poll

Next ==
    \/ Write
    \/ Runner
    \/ \E i \in Positions : Tick(i) \/ Beat(i)
    \/ Kill \/ Signal

\* The runner's code runs, a git pull ends one way or the other, the idle
\* timeout comes when nothing else does, and the browser's watchdog dispatches a
\* runner for an unanswered question.  Heartbeats, faults and deaths need not be.
Fairness ==
    /\ WF_vars(Boot) /\ WF_vars(Pull \/ PullFails) /\ WF_vars(Cancelled)
    /\ WF_vars(Take) /\ WF_vars(Answer) /\ WF_vars(Done) /\ WF_vars(Idle)
    /\ WF_vars(Shutdown) /\ SF_vars(IdleTimeout)

Spec == Init /\ [][Next]_vars /\ Fairness

-----------------------------------------------------------------------------
(* Properties.                                                             *)

Records == [type : Types, q : 0..MaxInbox, seq : Nat]

\* The types, and how far ahead of the remote each part of the clone may be:
\* the emits of serve.go always leave the file staged and in order.
TypeOK ==
    /\ inbox \in Seq({"question", "shutdown"}) /\ Len(inbox) <= MaxInbox
    /\ file \in Seq(Records)
    /\ pushed \in 0..committed /\ committed \in 0..Len(file)
    /\ merged \in 0..Len(inbox) /\ cursor \in 0..batch /\ batch \in 0..merged
    /\ seq \in Nat /\ turns \in 0..MaxTurns
    /\ pc \in {"down", "pull", "work", "ask", "answered", "wait"}
    /\ ticker \in [Positions -> {"off", "on", "firing", "last"}]
    /\ cancelled \in BOOLEAN
    /\ ticks \in 0..MaxTicks /\ boots \in 0..MaxBoots
    /\ faults \in 0..MaxFaults /\ deaths \in 0..MaxDeaths

\* When a question is reported done its answer is on the remote before it, from
\* the same runner: no question ends without an answer, whoever died or failed
\* to push (handleQuestion).
AnsweredBeforeDone ==
    \A k \in DOMAIN outbox : outbox[k].type = "done" =>
        \E j \in 1..k - 1 :
            /\ outbox[j].type = "answer" /\ outbox[j].q = outbox[k].q
            /\ \A m \in j..k : outbox[m].type # "ready"

\* The questions an outbox reports done, in order.
Reported(box) ==
    LET done[n \in 0..Len(box)] ==
            IF n = 0 THEN <<>>
            ELSE IF box[n].type = "done" THEN Append(done[n - 1], box[n].q)
            ELSE done[n - 1]
    IN done[Len(box)]

\* The exchange the browser sees is the abstract session's: questions are done
\* in order, once, and none is skipped, although each runner starts over from
\* the highest question done (resumeState, Serve's cursor).
Session == INSTANCE ChatSession WITH finished <- Reported(outbox)
SessionSpec == Session!Spec

\* A question with no shutdown before it is answered in the end, whatever a
\* bounded number of deaths, failed pushes and refused pulls did.
QuestionAnswered ==
    \A i \in Positions :
        (/\ i <= Len(inbox) /\ inbox[i] = "question"
         /\ \A j \in 1..i - 1 : inbox[j] = "question") ~> (i \in Finished(outbox))
==============================================================================
