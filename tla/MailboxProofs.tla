---------------------------- MODULE MailboxProofs ----------------------------
(***************************************************************************)
(* Proofs about Mailbox: its types, that a question is only reported done  *)
(* after its answer, and that what the browser sees is a chat session, for *)
(* any number of questions, round trips, runners, failures and deaths.     *)
(***************************************************************************)
EXTENDS Mailbox, SequenceLemmas

-----------------------------------------------------------------------------
(* The questions an outbox reports done.                                   *)

DoneAt(box) == {i \in 1..Len(box) : box[i].type = "done"}
QOf(box) == [i \in 1..Len(box) |-> box[i].q]

LEMMA ReportedLoop ==
    ASSUME NEW box, Len(box) \in Nat
    PROVE  \E d : /\ Collects(d, Len(box), DoneAt(box), QOf(box))
                  /\ Reported(box) = d[Len(box)]
<1> DEFINE n == Len(box)
           Loop(d) == d = [i \in 0..n |-> CollectStep(d, DoneAt(box), QOf(box), i)]
           Code(d) == d = [i \in 0..n |->
                              IF i = 0 THEN <<>>
                              ELSE IF box[i].type = "done" THEN Append(d[i - 1], box[i].q)
                              ELSE d[i - 1]]
<1>1. \A d : \A i \in 0..n :
         CollectStep(d, DoneAt(box), QOf(box), i) =
            IF i = 0 THEN <<>>
            ELSE IF box[i].type = "done" THEN Append(d[i - 1], box[i].q)
            ELSE d[i - 1]
  BY DEF CollectStep, DoneAt, QOf
<1>2. \A d : Loop(d) <=> Code(d)
  BY <1>1
<1>3. \E d : Loop(d)
  BY CollectDefined
<1>4. Code(CHOOSE d : Code(d))
  <2> HIDE DEF Loop, Code
  <2> QED  BY <1>2, <1>3
<1>5. Reported(box) = (CHOOSE d : Code(d))[n]
  BY DEF Reported
<1> DEFINE run == CHOOSE d : Code(d)
<1>6. Loop(run)
  <2> HIDE DEF Loop, Code
  <2> QED  BY <1>2, <1>4
<1> HIDE DEF run
<1>7. Collects(run, n, DoneAt(box), QOf(box))
  BY <1>6 DEF Collects
<1> QED  BY <1>5, <1>7 DEF run

LEMMA RecordQ ==
    ASSUME NEW r \in Records
    PROVE  r.q \in Nat /\ r.seq \in Nat
BY BoundAssumption DEF Records

LEMMA ReportedTyped ==
    ASSUME NEW box \in Seq(Records)
    PROVE  /\ Reported(box) \in Seq(Nat)
           /\ ToSet(Reported(box)) = Finished(box)
<1> DEFINE n == Len(box)
<1>1. n \in Nat /\ DOMAIN box = 1..n
  OBVIOUS
<1>2. PICK d : Collects(d, n, DoneAt(box), QOf(box)) /\ Reported(box) = d[n]
  BY <1>1, ReportedLoop
<1>3. \A i \in 1..n : QOf(box)[i] = box[i].q /\ QOf(box)[i] \in Nat
  BY RecordQ DEF QOf
<1>4. \A i \in 0..n : /\ d[i] \in Seq(Nat)
                      /\ ToSet(d[i]) = Picked(QOf(box), DoneAt(box), i)
  <2> DEFINE chosen == DoneAt(box)  value == QOf(box)
  <2>1. Collects(d, n, chosen, value) /\ \A i \in 1..n : value[i] \in Nat
    BY <1>2, <1>3
  <2> HIDE DEF chosen, value, n
  <2>2. \A i \in 0..n : d[i] \in Seq(Nat) /\ ToSet(d[i]) = Picked(value, chosen, i)
    BY <1>1, <2>1, CollectTyped
  <2> QED  BY <2>2 DEF chosen, value
<1>5. Picked(QOf(box), DoneAt(box), n) = Finished(box)
  BY <1>1, <1>3 DEF Picked, DoneAt, Finished
<1> QED  BY <1>2, <1>4, <1>5

LEMMA FinishedUpto ==
    ASSUME NEW box \in Seq(Records), NEW c \in Nat, Reported(box) = Upto(c)
    PROVE  Finished(box) = 1..c
<1>1. ToSet(Upto(c)) = 1..c
  BY DEF Upto, ToSet
<1> QED  BY <1>1, ReportedTyped

LEMMA ReportedOfAppend ==
    ASSUME NEW box \in Seq(Records), NEW r \in Records
    PROVE  Reported(Append(box, r)) =
             IF r.type = "done" THEN Append(Reported(box), r.q) ELSE Reported(box)
<1> DEFINE n == Len(box)  longer == Append(box, r)
<1>1. /\ n \in Nat /\ Len(longer) = n + 1
      /\ \A i \in 1..n : longer[i] = box[i]
      /\ longer[n + 1] = r
  OBVIOUS
<1> HIDE DEF n, longer
<1>2. PICK d : Collects(d, n, DoneAt(box), QOf(box)) /\ Reported(box) = d[n]
  BY <1>1, ReportedLoop DEF n
<1>3. PICK e : Collects(e, n + 1, DoneAt(longer), QOf(longer)) /\ Reported(longer) = e[n + 1]
  BY <1>1, ReportedLoop DEF n
<1>4. Collects(e, n, DoneAt(longer), QOf(longer))
  BY <1>1, <1>3 DEF Collects
<1>5. \A i \in 1..n : /\ i \in DoneAt(box) <=> i \in DoneAt(longer)
                      /\ QOf(box)[i] = QOf(longer)[i]
  BY <1>1 DEF DoneAt, QOf, n
<1>6. e[n] = d[n]
  BY <1>1, <1>2, <1>4, <1>5, CollectUnique
<1>7. e[n + 1] = CollectStep(e, DoneAt(longer), QOf(longer), n + 1)
  BY <1>1, <1>3 DEF Collects
<1>8. /\ n + 1 # 0 /\ (n + 1) - 1 = n
      /\ n + 1 \in DoneAt(longer) <=> r.type = "done"
      /\ QOf(longer)[n + 1] = r.q
  BY <1>1 DEF DoneAt, QOf
<1> QED  BY <1>2, <1>3, <1>6, <1>7, <1>8 DEF CollectStep, longer

\* A prefix of an outbox reports a prefix of what the outbox does.
LEMMA ReportedOfPrefix ==
    ASSUME NEW box \in Seq(Records), NEW n \in 0..Len(box), NEW c \in Nat,
           Reported(box) = Upto(c)
    PROVE  \E e \in 0..c : Reported(SubSeq(box, 1, n)) = Upto(e)
<1> DEFINE m == Len(box)  part == SubSeq(box, 1, n)
<1>1. m \in Nat /\ n \in Nat /\ n <= m
  OBVIOUS
<1>2. Len(part) = n /\ \A i \in 1..n : part[i] = box[i]
  <2>1. \A i \in 1..n : box[i] \in Records
    OBVIOUS
  <2> QED  BY <1>1, <2>1, SubSeqProperties
<1> HIDE DEF m, part
<1>3. PICK d : Collects(d, m, DoneAt(box), QOf(box)) /\ Reported(box) = d[m]
  BY <1>1, ReportedLoop DEF m
<1>4. PICK e : Collects(e, n, DoneAt(part), QOf(part)) /\ Reported(part) = e[n]
  BY <1>1, <1>2, ReportedLoop
<1>5. Collects(d, n, DoneAt(box), QOf(box))
  BY <1>1, <1>3 DEF Collects
<1>6. \A i \in 1..n : /\ i \in DoneAt(box) <=> i \in DoneAt(part)
                      /\ QOf(box)[i] = QOf(part)[i]
  BY <1>1, <1>2 DEF DoneAt, QOf, m
<1>7. d[n] = e[n]
  BY <1>1, <1>4, <1>5, <1>6, CollectUnique
<1>8. \A i \in 1..m : QOf(box)[i] \in Nat
  BY RecordQ DEF QOf, m
<1>9. \E f \in 0..c : d[n] = Upto(f)
  <2>1. \A i \in 0..m : \E f \in 0..c : d[i] = Upto(f)
    <3> DEFINE chosen == DoneAt(box)  value == QOf(box)
    <3>1. d[m] = Upto(c) /\ Collects(d, m, chosen, value) /\ \A i \in 1..m : value[i] \in Nat
      BY <1>3, <1>8
    <3> HIDE DEF chosen, value
    <3> QED  BY <1>1, <3>1, CollectedInOrder
  <2> QED  BY <1>1, <2>1
<1> QED  BY <1>4, <1>7, <1>9 DEF part

-----------------------------------------------------------------------------
(* Where a new runner resumes.                                             *)

LEMMA GreatestIsMax ==
    ASSUME NEW T, T \subseteq Nat, NEW m \in T, \A x \in T : x <= m
    PROVE  Max(T) = m
<1>1. \A x \in T : m >= x
  OBVIOUS
<1>2. \A x \in T : (\A y \in T : x >= y) => x = m
  OBVIOUS
<1> QED  BY <1>1, <1>2 DEF Max

LEMMA ResumedSeqTyped ==
    ASSUME NEW box \in Seq(Records)
    PROVE  ResumedSeq(box) \in Nat
<1> DEFINE n == Len(box)
           f == [k \in 1..n |-> box[k].seq]
           S == {f[k] : k \in 1..n}
           T == S \cup {0}
<1>1. n \in Nat /\ DOMAIN box = 1..n
  OBVIOUS
<1>2. \A k \in 1..n : f[k] \in Nat
  BY RecordQ
<1>3. S \subseteq Nat
  BY <1>2
<1>4. {box[k].seq : k \in DOMAIN box} = S
  BY <1>1
<1>5. IsFiniteSet(1..n)
  BY <1>1, FS_Interval
<1> HIDE DEF f, n
<1>6. IsFiniteSet(S)
  BY <1>5, FiniteImage
<1> HIDE DEF S
<1>7. IsFiniteSet(T) /\ T \subseteq Nat /\ T # {}
  BY <1>3, <1>6, FS_AddElement
<1> HIDE DEF T
<1>8. PICK m \in T : \A x \in T : x <= m
  BY <1>7, FiniteMax
<1>9. Max(T) \in Nat
  BY <1>7, <1>8, GreatestIsMax
<1>10. {0} \cup {box[k].seq : k \in DOMAIN box} = T
  BY <1>4 DEF T
<1> QED  BY <1>9, <1>10 DEF ResumedSeq

LEMMA ResumedCursorIs ==
    ASSUME NEW box, NEW c \in Nat, Finished(box) = 1..c
    PROVE  ResumedCursor(box) = c
<1> DEFINE T == {0} \cup 1..c
<1>1. T \subseteq Nat /\ c \in T /\ \A x \in T : x <= c
  OBVIOUS
<1> HIDE DEF T
<1>2. Max(T) = c
  BY <1>1, GreatestIsMax
<1> QED  BY <1>2 DEF ResumedCursor, T

-----------------------------------------------------------------------------
(* What the emits and the end of a runner do to the clone.                 *)

CloneTyped ==
    /\ file \in Seq(Records)
    /\ pushed \in 0..committed /\ committed \in 0..Len(file)
    /\ merged \in 0..Len(inbox)
    /\ seq \in Nat

\* The record an emit appends.
Sent(type, q) == [type |-> type, q |-> q, seq |-> seq + 1]

LEMMA EmitProperties ==
    ASSUME NEW type \in Types, NEW q \in 0..MaxInbox, NEW force \in BOOLEAN,
           Len(inbox) \in Nat, CloneTyped, Emit(type, q, force), inbox' = inbox
    PROVE  /\ CloneTyped'
           /\ Sent(type, q) \in Records
           /\ file' = Append(file, Sent(type, q))
           /\ pushed' \in pushed..Len(file')
           /\ merged' \in merged..Len(inbox)
           /\ faults' = faults \/ (faults < MaxFaults /\ faults' = faults + 1)
<1> DEFINE r == Sent(type, q)
<1>1. r \in Records
  BY DEF CloneTyped, Records, Sent
<1>2. file' = Append(file, r) /\ seq' = seq + 1
  BY DEF Emit, Sent
<1> HIDE DEF r
<1>3. file' \in Seq(Records) /\ Len(file') = Len(file) + 1 /\ Len(file) \in Nat
  BY <1>1, <1>2 DEF CloneTyped
<1>4. \/ UNCHANGED <<committed, pushed, merged, faults>>
      \/ /\ committed' = Len(file') /\ pushed' = Len(file')
         /\ merged' = Len(inbox) /\ faults' = faults
      \/ /\ faults < MaxFaults /\ faults' = faults + 1
         /\ committed' = Len(file') /\ merged' \in {merged, Len(inbox)}
         /\ pushed' = pushed
  BY DEF Emit
<1>5. /\ pushed' \in 0..committed' /\ committed' \in 0..Len(file')
      /\ pushed' \in pushed..Len(file')
      /\ merged' \in 0..Len(inbox) /\ merged' \in merged..Len(inbox)
      /\ faults' = faults \/ (faults < MaxFaults /\ faults' = faults + 1)
  BY <1>3, <1>4 DEF CloneTyped
<1>6. CloneTyped'
  <2>1. seq' \in Nat
    BY <1>2 DEF CloneTyped
  <2> QED  BY <1>3, <1>5, <2>1 DEF CloneTyped
<1> QED  BY <1>1, <1>2, <1>5, <1>6 DEF r

LEMMA OutboxIsPrefix ==
    ASSUME CloneTyped
    PROVE  /\ outbox \in Seq(Records) /\ Len(outbox) = pushed /\ pushed \in 0..Len(file)
           /\ \A i \in 1..pushed : outbox[i] = file[i]
<1>1. /\ pushed \in 0..Len(file) /\ pushed \in Nat /\ Len(file) \in Nat
      /\ \A i \in 1..Len(file) : file[i] \in Records
  BY DEF CloneTyped
<1>2. \A i \in 1..pushed : file[i] \in Records
  BY <1>1
<1> QED  BY <1>1, <1>2, SubSeqProperties DEF outbox

LEMMA GoneTyped ==
    ASSUME NEW box \in Seq(Records), Len(inbox) \in Nat, Gone(box), inbox' = inbox
    PROVE  CloneTyped'
BY DEF Gone, CloneTyped

-----------------------------------------------------------------------------
(* The invariant: the outbox reports the first questions done, in order,   *)
(* and a live runner's cursor stands at the last of them, or one further   *)
(* while it works on the next.  A new runner's cursor, the highest         *)
(* question done, is right because nothing below it is missing.            *)

InboxTyped == inbox \in Seq({"question", "shutdown"}) /\ Len(inbox) <= MaxInbox

TickerTyped == ticker \in [Positions -> {"off", "on", "firing", "last"}]

RunnerTyped ==
    /\ turns \in 0..MaxTurns
    /\ pc \in {"down", "pull", "work", "ask", "answered", "wait"}
    /\ ticks \in 0..MaxTicks /\ boots \in 0..MaxBoots
    /\ faults \in 0..MaxFaults /\ deaths \in 0..MaxDeaths

SignalTyped == cancelled \in BOOLEAN

WorldTyped == InboxTyped /\ TickerTyped /\ SignalTyped /\ RunnerTyped

LoopTyped == cursor \in 0..batch /\ batch \in 0..merged

Busy == pc \in {"ask", "answered"}
Count == IF Busy THEN cursor - 1 ELSE cursor

Taken == Busy => cursor >= 1 /\ inbox[cursor] = "question"

InOrder ==
    \E c \in 0..Len(inbox) :
        /\ Reported(file) = Upto(c)
        /\ \A i \in 1..c : inbox[i] = "question"
        /\ pc # "down" => c = Count

Inv == TypeOK /\ Taken /\ InOrder

LEMMA TypeParts == TypeOK <=> WorldTyped /\ CloneTyped /\ LoopTyped
BY DEF TypeOK, WorldTyped, InboxTyped, TickerTyped,
       SignalTyped, RunnerTyped, CloneTyped, LoopTyped

LEMMA Bounds ==
    /\ MaxInbox \in Nat /\ MaxTurns \in Nat /\ MaxTicks \in Nat
    /\ MaxBoots \in Nat /\ MaxFaults \in Nat /\ MaxDeaths \in Nat
BY BoundAssumption

LEMMA TickersOff ==
    [i \in Positions |-> "off"] \in [Positions -> {"off", "on", "firing", "last"}]
OBVIOUS

LEMMA InitInv == Init => Inv
<1> SUFFICES ASSUME Init PROVE Inv
  OBVIOUS
<1>1. TypeOK
  <2>1. InboxTyped
    BY Bounds DEF Init, InboxTyped
  <2>2. TickerTyped
    BY TickersOff DEF Init, TickerTyped
  <2>4. RunnerTyped
    BY Bounds DEF Init, RunnerTyped
  <2>5. SignalTyped
    BY DEF Init, SignalTyped
  <2>3. CloneTyped /\ LoopTyped
    BY DEF Init, CloneTyped, LoopTyped
  <2> QED  BY <2>1, <2>2, <2>3, <2>4, <2>5, TypeParts DEF WorldTyped
<1>2. Taken
  BY DEF Init, Taken, Busy
<1>3. InOrder
  <2>1. PICK d : Collects(d, Len(file), DoneAt(file), QOf(file)) /\ Reported(file) = d[Len(file)]
    BY ReportedLoop DEF Init
  <2>2. Len(file) = 0 /\ Len(inbox) = 0
    BY DEF Init
  <2>3. Reported(file) = Upto(0)
    BY <2>1, <2>2 DEF Collects, CollectStep, Upto
  <2> QED  BY <2>2, <2>3 DEF Init, InOrder
<1> QED  BY <1>1, <1>2, <1>3 DEF Inv

-----------------------------------------------------------------------------
(* What a step does to the outbox file, in the five ways there are.        *)

Extended ==
    /\ Len(inbox') >= Len(inbox)
    /\ \A i \in 1..Len(inbox) : inbox'[i] = inbox[i]

\* The file stays, and the runner has got no further.
Still ==
    /\ file' = file /\ pushed' = pushed
    /\ Count' = Count
    /\ pc' = "answered" => pc = "answered" /\ cursor' = cursor
    /\ pc' # "down" => pc # "down"

\* One more record that reports no question done: a note, or an answer.
Noted(r) ==
    /\ r \in Records
    /\ file' = Append(file, r) /\ pushed' \in pushed..Len(file')
    /\ inbox' = inbox
    /\ Count' = Count /\ cursor' \in Nat
    /\ pc' # "down" => pc # "down"
    /\ \/ r.type = "note" /\ (pc' = "answered" => pc = "answered" /\ cursor' = cursor)
       \/ r.type = "answer" /\ r.q = cursor'

Finishes(r) ==
    /\ r \in Records /\ r.type = "done" /\ r.q = cursor
    /\ pc = "answered" /\ pc' = "work"
    /\ file' = Append(file, r) /\ pushed' \in pushed..Len(file')
    /\ cursor' = cursor /\ inbox' = inbox

\* The runner is gone; its exit record may have got through.
Ends(box) ==
    /\ \/ box = outbox
       \/ \E r \in Records : r.type = "exit" /\ box = Append(file, r)
    /\ file' = box /\ pushed' = Len(box)
    /\ pc' = "down" /\ inbox' = inbox

Starts(r) ==
    /\ r \in Records /\ r.type = "ready"
    /\ file' = Append(outbox, r) /\ pushed' = Len(file')
    /\ pc = "down" /\ pc' = "pull"
    /\ cursor' = ResumedCursor(outbox) /\ inbox' = inbox

Kinds ==
    \/ Still /\ Extended
    \/ \E r : Noted(r)
    \/ \E r : Finishes(r)
    \/ \E box : Ends(box)
    \/ \E r : Starts(r)

LEMMA ExitKind ==
    ASSUME CloneTyped, WorldTyped, Exit
    PROVE  (\E box : Ends(box)) /\ CloneTyped' /\ WorldTyped' /\ LoopTyped'
<1> DEFINE r == Sent("exit", 0)
<1>1. r \in Records
  BY Bounds DEF Records, Sent, Types, CloneTyped
<1>2. Len(inbox) \in Nat /\ inbox' = inbox
  BY DEF WorldTyped, InboxTyped, Exit
<1>3. r.type = "exit"
  BY DEF Sent
<1>4. PICK box : Gone(box) /\ (box = outbox \/ box = Append(file, r))
  BY DEF Exit, Sent
<1> HIDE DEF r
<1>5. outbox \in Seq(Records) /\ Append(file, r) \in Seq(Records)
  BY <1>1, OutboxIsPrefix DEF CloneTyped
<1>6. box \in Seq(Records)
  BY <1>4, <1>5
<1>7. CloneTyped'
  BY <1>2, <1>4, <1>6, GoneTyped
<1>8. Ends(box)
  BY <1>1, <1>2, <1>3, <1>4 DEF Ends, Gone
<1>9. faults' \in 0..MaxFaults
  BY Bounds DEF Exit, WorldTyped, RunnerTyped
<1>10. WorldTyped'
  <2>1. InboxTyped'
    BY <1>2 DEF WorldTyped, InboxTyped
  <2>2. TickerTyped'
    BY <1>4, TickersOff DEF TickerTyped, Gone
  <2>4. SignalTyped'
    BY <1>4 DEF SignalTyped, Gone
  <2>3. RunnerTyped'
    BY <1>4, <1>9, Bounds DEF WorldTyped, RunnerTyped, Gone, Exit
  <2> QED  BY <2>1, <2>2, <2>3, <2>4 DEF WorldTyped
<1>11. LoopTyped'
  BY <1>4 DEF Gone, LoopTyped
<1> QED  BY <1>7, <1>8, <1>10, <1>11

LEMMA DeathKind ==
    ASSUME CloneTyped, WorldTyped, PullFails \/ Kill
    PROVE  (\E box : Ends(box)) /\ CloneTyped' /\ WorldTyped' /\ LoopTyped'
<1>1. Gone(outbox) /\ inbox' = inbox
  BY DEF PullFails, Kill
<1>2. outbox \in Seq(Records)
  BY OutboxIsPrefix
<1>3. Len(inbox) \in Nat
  BY DEF WorldTyped, InboxTyped
<1>4. CloneTyped'
  BY <1>1, <1>2, <1>3, GoneTyped
<1>5. Ends(outbox)
  BY <1>1 DEF Ends, Gone
<1>6. /\ ticks' = ticks /\ boots' = boots
      /\ faults' = faults \/ (faults < MaxFaults /\ faults' = faults + 1)
      /\ deaths' = deaths \/ (deaths < MaxDeaths /\ deaths' = deaths + 1)
  BY DEF PullFails, Kill
<1>7. WorldTyped'
  <2>1. InboxTyped'
    BY <1>1 DEF WorldTyped, InboxTyped
  <2>2. TickerTyped'
    BY <1>1, TickersOff DEF TickerTyped, Gone
  <2>4. SignalTyped'
    BY <1>1 DEF SignalTyped, Gone
  <2>3. RunnerTyped'
    BY <1>1, <1>6, Bounds DEF WorldTyped, RunnerTyped, Gone
  <2> QED  BY <2>1, <2>2, <2>3, <2>4 DEF WorldTyped
<1>8. LoopTyped'
  BY <1>1 DEF Gone, LoopTyped
<1> QED  BY <1>4, <1>5, <1>7, <1>8

\* What an emitting step does besides its emit.
Beside ==
    /\ inbox' = inbox /\ batch' = batch
    /\ cursor' \in 0..batch
    /\ cancelled' = cancelled
    /\ turns' \in 0..MaxTurns
    /\ pc' \in {"down", "pull", "work", "ask", "answered", "wait"}
    /\ ticks' \in 0..MaxTicks /\ boots' = boots /\ deaths' = deaths

LEMMA EmitTyped ==
    ASSUME TypeOK, Beside, TickerTyped',
           NEW type \in Types, NEW q \in 0..MaxInbox, NEW force \in BOOLEAN,
           Emit(type, q, force)
    PROVE  /\ CloneTyped' /\ WorldTyped' /\ LoopTyped'
           /\ Sent(type, q) \in Records
           /\ file' = Append(file, Sent(type, q))
           /\ pushed' \in pushed..Len(file')
<1>1. CloneTyped /\ WorldTyped /\ LoopTyped /\ inbox' = inbox
  BY TypeParts DEF Beside
<1>2. Len(inbox) \in Nat
  BY <1>1 DEF WorldTyped, InboxTyped
<1>3. /\ CloneTyped' /\ Sent(type, q) \in Records
      /\ file' = Append(file, Sent(type, q))
      /\ pushed' \in pushed..Len(file') /\ merged' \in merged..Len(inbox)
      /\ faults' = faults \/ (faults < MaxFaults /\ faults' = faults + 1)
  BY <1>1, <1>2, EmitProperties
<1>4. LoopTyped'
  <2>1. batch' = batch /\ cursor' \in 0..batch
    BY DEF Beside
  <2>2. batch \in 0..merged /\ merged \in 0..Len(inbox)
    BY <1>1 DEF LoopTyped, CloneTyped
  <2> QED  BY <1>2, <1>3, <2>1, <2>2 DEF LoopTyped
<1>5. WorldTyped'
  <2>1. InboxTyped'
    BY <1>1 DEF WorldTyped, InboxTyped
  <2>2. SignalTyped'
    BY <1>1 DEF WorldTyped, SignalTyped, Beside
  <2>3. faults' \in 0..MaxFaults
    BY <1>1, <1>3, Bounds DEF WorldTyped, RunnerTyped
  <2>4. RunnerTyped'
    BY <1>1, <2>3 DEF WorldTyped, RunnerTyped, Beside
  <2> QED  BY <2>1, <2>2, <2>4 DEF WorldTyped
<1> QED  BY <1>3, <1>4, <1>5

LEMMA NoteTyped ==
    ASSUME TypeOK, Beside, TickerTyped', Note
    PROVE  /\ CloneTyped' /\ WorldTyped' /\ LoopTyped'
           /\ \E r \in Records :
                 /\ r.type = "note"
                 /\ file' = Append(file, r) /\ pushed' \in pushed..Len(file')
<1>1. "note" \in Types /\ 0 \in 0..MaxInbox /\ FALSE \in BOOLEAN
  BY Bounds DEF Types
<1>2. Emit("note", 0, FALSE)
  BY DEF Note
<1>3. Sent("note", 0).type = "note"
  BY DEF Sent
<1> QED  BY <1>1, <1>2, <1>3, EmitTyped

Notes ==
    \/ Take \/ Turn \/ Idle \/ Heartbeat
    \/ \E i \in Positions : Beat(i)

LEMMA NoteKind ==
    ASSUME TypeOK, Notes
    PROVE  (\E r : Noted(r)) /\ CloneTyped' /\ WorldTyped' /\ LoopTyped'
<1>1. CloneTyped /\ WorldTyped /\ LoopTyped
  BY TypeParts
<1>2. TickerTyped /\ RunnerTyped /\ InboxTyped
  BY <1>1 DEF WorldTyped
<1>3. /\ cursor \in Nat /\ batch \in Nat /\ cursor <= batch
      /\ batch <= Len(inbox) /\ Len(inbox) <= MaxInbox /\ Len(inbox) \in Nat
  BY <1>1, <1>2 DEF LoopTyped, CloneTyped, InboxTyped
<1> DEFINE Goal == /\ Note /\ Beside /\ TickerTyped'
                   /\ Count' = Count
                   /\ pc' # "down" => pc # "down"
                   /\ pc' = "answered" => pc = "answered" /\ cursor' = cursor
<1>4. ASSUME Take PROVE Goal
  <2>1. Note /\ inbox' = inbox
    BY <1>4 DEF Take
  <2>2. Beside
    BY <1>2, <1>3, <1>4, Bounds DEF Take, Beside, RunnerTyped
  <2>3. cursor' \in Positions
    BY <1>3, <1>4, Bounds DEF Take, Positions
  <2>4. TickerTyped'
    BY <1>2, <1>4, <2>3 DEF Take, TickerTyped
  <2>5. Count' = Count
    BY <1>3, <1>4 DEF Take, Count, Busy
  <2> QED  BY <1>4, <2>1, <2>2, <2>4, <2>5 DEF Take
<1>5. ASSUME Turn PROVE Goal
  <2>1. Beside
    BY <1>2, <1>3, <1>5, Bounds DEF Turn, Beside, RunnerTyped
  <2>2. Note /\ TickerTyped' /\ Count' = Count /\ pc' = pc /\ cursor' = cursor
    BY <1>2, <1>5 DEF Turn, TickerTyped, Count, Busy
  <2> QED  BY <2>1, <2>2
<1>6. ASSUME Idle PROVE Goal
  <2>1. Beside
    BY <1>2, <1>3, <1>6 DEF Idle, Beside, RunnerTyped
  <2>2. Note /\ TickerTyped' /\ Count' = Count /\ pc = "work" /\ pc' = "pull"
    BY <1>2, <1>6 DEF Idle, TickerTyped, Count, Busy
  <2> QED  BY <2>1, <2>2
<1>7. ASSUME Heartbeat PROVE Goal
  <2>1. Beside
    BY <1>2, <1>3, <1>7, Bounds DEF Heartbeat, Beside, RunnerTyped
  <2>2. Note /\ TickerTyped' /\ Count' = Count /\ pc = "wait" /\ pc' = "pull"
    BY <1>2, <1>7 DEF Heartbeat, TickerTyped, Count, Busy
  <2> QED  BY <2>1, <2>2
<1>8. ASSUME NEW i \in Positions, Beat(i) PROVE Goal
  <2>1. Beside
    BY <1>2, <1>3, <1>8 DEF Beat, Beside, RunnerTyped, loop
  <2>2. Note /\ Count' = Count /\ pc' = pc /\ cursor' = cursor
    BY <1>8 DEF Beat, loop, Count, Busy
  <2>3. TickerTyped'
    BY <1>2, <1>8 DEF Beat, TickerTyped
  <2> QED  BY <2>1, <2>2, <2>3
<1>9. Goal
  <2> HIDE DEF Goal
  <2> QED  BY <1>4, <1>5, <1>6, <1>7, <1>8 DEF Notes
<1>10. /\ CloneTyped' /\ WorldTyped' /\ LoopTyped'
       /\ \E r \in Records :
             /\ r.type = "note"
             /\ file' = Append(file, r) /\ pushed' \in pushed..Len(file')
  BY <1>9, NoteTyped
<1>11. cursor' \in Nat /\ inbox' = inbox
  BY <1>9 DEF Beside
<1> QED  BY <1>9, <1>10, <1>11 DEF Noted

LEMMA AnswerKind ==
    ASSUME TypeOK, Answer
    PROVE  (\E r : Noted(r)) /\ CloneTyped' /\ WorldTyped' /\ LoopTyped'
<1>1. CloneTyped /\ WorldTyped /\ LoopTyped
  BY TypeParts
<1>2. TickerTyped /\ RunnerTyped /\ InboxTyped
  BY <1>1 DEF WorldTyped
<1>3. cursor \in 0..batch /\ cursor \in 0..MaxInbox /\ cursor \in Nat
  BY <1>1, <1>2, Bounds DEF LoopTyped, CloneTyped, InboxTyped
<1>4. Beside
  BY <1>2, <1>3 DEF Answer, Beside, RunnerTyped
<1>5. TickerTyped'
  BY <1>2 DEF Answer, TickerTyped
<1>6. Emit("answer", cursor, TRUE) /\ "answer" \in Types /\ TRUE \in BOOLEAN
  BY DEF Answer, Types
<1> DEFINE r == Sent("answer", cursor)
<1>7. r.type = "answer" /\ r.q = cursor
  BY DEF Sent
<1>8. /\ CloneTyped' /\ WorldTyped' /\ LoopTyped' /\ r \in Records
      /\ file' = Append(file, r) /\ pushed' \in pushed..Len(file')
  BY <1>3, <1>4, <1>5, <1>6, EmitTyped
<1> HIDE DEF r
<1>9. Count' = Count /\ cursor' = cursor /\ pc = "ask" /\ inbox' = inbox
  BY DEF Answer, Count, Busy
<1>10. Noted(r)
  BY <1>3, <1>7, <1>8, <1>9 DEF Noted
<1> QED  BY <1>8, <1>10

LEMMA DoneKind ==
    ASSUME TypeOK, Done
    PROVE  (\E r : Finishes(r)) /\ CloneTyped' /\ WorldTyped' /\ LoopTyped'
<1>1. CloneTyped /\ WorldTyped /\ LoopTyped
  BY TypeParts
<1>2. TickerTyped /\ RunnerTyped /\ InboxTyped
  BY <1>1 DEF WorldTyped
<1>3. cursor \in 0..batch /\ cursor \in 0..MaxInbox /\ cursor \in Nat
  BY <1>1, <1>2, Bounds DEF LoopTyped, CloneTyped, InboxTyped
<1>4. Beside
  BY <1>2, <1>3 DEF Done, Beside, RunnerTyped
<1>5. TickerTyped'
  BY <1>2 DEF Done, TickerTyped
<1>6. Emit("done", cursor, TRUE) /\ "done" \in Types /\ TRUE \in BOOLEAN
  BY DEF Done, Types
<1> DEFINE r == Sent("done", cursor)
<1>7. r.type = "done" /\ r.q = cursor
  BY DEF Sent
<1>8. /\ CloneTyped' /\ WorldTyped' /\ LoopTyped' /\ r \in Records
      /\ file' = Append(file, r) /\ pushed' \in pushed..Len(file')
  BY <1>3, <1>4, <1>5, <1>6, EmitTyped
<1> HIDE DEF r
<1>9. cursor' = cursor /\ pc = "answered" /\ pc' = "work" /\ inbox' = inbox
  BY DEF Done
<1>10. Finishes(r)
  BY <1>7, <1>8, <1>9 DEF Finishes
<1> QED  BY <1>8, <1>10

LEMMA OutboxInOrder ==
    ASSUME TypeOK, InOrder
    PROVE  \E e \in Nat :
              /\ e <= Len(inbox)
              /\ Reported(outbox) = Upto(e) /\ Finished(outbox) = 1..e
              /\ \A i \in 1..e : inbox[i] = "question"
<1>1. CloneTyped /\ InboxTyped
  BY TypeParts DEF WorldTyped
<1>2. outbox \in Seq(Records) /\ pushed \in 0..Len(file) /\ file \in Seq(Records)
  BY <1>1, OutboxIsPrefix DEF CloneTyped
<1>3. PICK c \in 0..Len(inbox) :
         Reported(file) = Upto(c) /\ \A i \in 1..c : inbox[i] = "question"
  BY DEF InOrder
<1>4. Len(inbox) \in Nat /\ c \in Nat
  BY <1>1, <1>3 DEF InboxTyped
<1>5. PICK e \in 0..c : Reported(outbox) = Upto(e)
  BY <1>2, <1>3, <1>4, ReportedOfPrefix DEF outbox
<1>6. e \in Nat /\ e <= c
  BY <1>4, <1>5
<1>7. Finished(outbox) = 1..e
  BY <1>2, <1>5, <1>6, FinishedUpto
<1>8. e <= Len(inbox) /\ \A i \in 1..e : inbox[i] = "question"
  BY <1>3, <1>4, <1>6
<1> QED  BY <1>5, <1>6, <1>7, <1>8

LEMMA BootKind ==
    ASSUME TypeOK, InOrder, Boot
    PROVE  ((Still /\ Extended) \/ \E r : Starts(r)) /\ CloneTyped' /\ WorldTyped' /\ LoopTyped'
<1>1. CloneTyped /\ WorldTyped /\ LoopTyped
  BY TypeParts
<1>2. InboxTyped /\ TickerTyped /\ SignalTyped /\ RunnerTyped
  BY <1>1 DEF WorldTyped
<1>3. inbox' = inbox /\ Len(inbox) \in Nat
  BY <1>2 DEF Boot, InboxTyped
<1>4. WorldTyped'
  <2>1. InboxTyped' /\ TickerTyped' /\ SignalTyped'
    BY <1>2 DEF Boot, InboxTyped, TickerTyped, SignalTyped
  <2>2. /\ boots' \in 0..MaxBoots /\ faults' \in 0..MaxFaults
        /\ ticks' = ticks /\ deaths' = deaths
    BY <1>2, Bounds DEF Boot, RunnerTyped
  <2>3. turns' \in 0..MaxTurns /\ pc' \in {"down", "pull", "work", "ask", "answered", "wait"}
    BY <1>2, Bounds DEF Boot, RunnerTyped, loop
  <2>4. RunnerTyped'
    BY <1>2, <2>2, <2>3 DEF RunnerTyped
  <2> QED  BY <2>1, <2>4 DEF WorldTyped
<1>5. CASE UNCHANGED <<clone, loop>>
  <2>1. CloneTyped' /\ LoopTyped'
    BY <1>1, <1>3, <1>5 DEF clone, loop, CloneTyped, LoopTyped
  <2>2. Still /\ Extended
    BY <1>3, <1>5 DEF clone, loop, Still, Extended, Count, Busy
  <2> QED  BY <1>4, <2>1, <2>2
<1>6. CASE ~ UNCHANGED <<clone, loop>>
  <2>1. /\ pc = "down" /\ pc' = "pull"
        /\ seq' = ResumedSeq(outbox) + 1
        /\ file' = Append(outbox, [type |-> "ready", q |-> 0, seq |-> seq'])
        /\ committed' = Len(file') /\ pushed' = Len(file')
        /\ merged' = Len(inbox)
        /\ cursor' = ResumedCursor(outbox) /\ batch' = cursor'
    BY <1>6 DEF Boot
  <2>2. PICK e \in Nat : e <= Len(inbox) /\ Finished(outbox) = 1..e
    BY OutboxInOrder
  <2>3. cursor' = e
    BY <2>1, <2>2, ResumedCursorIs
  <2>4. LoopTyped'
    BY <1>3, <2>1, <2>2, <2>3 DEF LoopTyped
  <2>5. outbox \in Seq(Records)
    BY <1>1, OutboxIsPrefix
  <2>6. seq' \in Nat
    BY <2>1, <2>5, ResumedSeqTyped
  <2> DEFINE r == [type |-> "ready", q |-> 0, seq |-> seq']
  <2>7. r \in Records
    BY <2>6, Bounds DEF Records, Types
  <2>8. file' = Append(outbox, r) /\ r.type = "ready"
    BY <2>1
  <2> HIDE DEF r
  <2>9. file' \in Seq(Records)
    BY <2>5, <2>7, <2>8
  <2>10. CloneTyped'
    BY <1>3, <2>1, <2>6, <2>9 DEF CloneTyped
  <2>11. Starts(r)
    BY <1>3, <2>1, <2>7, <2>8 DEF Starts
  <2> QED  BY <1>4, <2>4, <2>10, <2>11
<1> QED  BY <1>5, <1>6

Quiet ==
    \/ Pull \/ Poll \/ Signal \/ UNCHANGED vars
    \/ \E i \in Positions : Tick(i)

LEMMA WriteKind ==
    ASSUME TypeOK, Write
    PROVE  Still /\ Extended /\ CloneTyped' /\ WorldTyped' /\ LoopTyped'
<1>1. CloneTyped /\ LoopTyped /\ InboxTyped /\ TickerTyped /\ SignalTyped /\ RunnerTyped
  BY TypeParts DEF WorldTyped
<1>2. PICK r \in {"question", "shutdown"} : inbox' = Append(inbox, r)
  BY DEF Write
<1>3. /\ inbox' \in Seq({"question", "shutdown"})
      /\ Len(inbox) \in Nat /\ Len(inbox') = Len(inbox) + 1
      /\ \A i \in 1..Len(inbox) : inbox'[i] = inbox[i]
  BY <1>1, <1>2 DEF InboxTyped
<1>4. InboxTyped'
  BY <1>3, Bounds DEF Write, InboxTyped
<1>5. Extended
  BY <1>3 DEF Extended
<1>6. Still
  BY DEF Write, clone, loop, Still, Count, Busy
<1>7. CloneTyped'
  BY <1>1, <1>3 DEF Write, clone, CloneTyped
<1>8. LoopTyped' /\ TickerTyped' /\ SignalTyped'
  BY <1>1 DEF Write, clone, loop, LoopTyped, TickerTyped, SignalTyped
<1>9. RunnerTyped'
  BY <1>1 DEF Write, loop, budget, RunnerTyped
<1> QED  BY <1>4, <1>5, <1>6, <1>7, <1>8, <1>9 DEF WorldTyped

LEMMA QuietKind ==
    ASSUME TypeOK, Quiet
    PROVE  Still /\ Extended /\ CloneTyped' /\ WorldTyped' /\ LoopTyped'
<1>1. CloneTyped /\ LoopTyped /\ InboxTyped /\ TickerTyped /\ SignalTyped /\ RunnerTyped
  BY TypeParts DEF WorldTyped
<1>2. Len(inbox) \in Nat
  BY <1>1 DEF InboxTyped
<1> DEFINE Goal == Still /\ Extended /\ CloneTyped' /\ WorldTyped' /\ LoopTyped'
<1>3. ASSUME inbox' = inbox PROVE Extended /\ InboxTyped'
  BY <1>1, <1>2, <1>3 DEF Extended, InboxTyped
<1>4. ASSUME Pull PROVE Goal
  <2>1. /\ UNCHANGED <<inbox, file, committed, pushed, seq, cursor, turns, ticker, cancelled>>
        /\ merged' = Len(inbox) /\ batch' = Len(inbox)
        /\ pc = "pull" /\ pc' \in {"work", "wait"} /\ UNCHANGED budget
    BY <1>4 DEF Pull
  <2>2. cursor \in 0..Len(inbox)
    BY <1>1, <1>2 DEF LoopTyped, CloneTyped
  <2>3. CloneTyped' /\ LoopTyped'
    BY <1>1, <1>2, <2>1, <2>2 DEF CloneTyped, LoopTyped
  <2>4. TickerTyped' /\ SignalTyped'
    BY <1>1, <2>1 DEF TickerTyped, SignalTyped
  <2>5. RunnerTyped'
    BY <1>1, <2>1 DEF RunnerTyped, budget
  <2>6. Still
    BY <2>1 DEF Still, Count, Busy
  <2> QED  BY <1>3, <2>1, <2>3, <2>4, <2>5, <2>6 DEF WorldTyped
<1>5. ASSUME Poll PROVE Goal
  <2>1. /\ UNCHANGED <<inbox, clone, cursor, batch, turns, ticker, cancelled, budget>>
        /\ pc = "wait" /\ pc' = "pull"
    BY <1>5 DEF Poll
  <2>2. CloneTyped' /\ LoopTyped'
    BY <1>1, <2>1 DEF CloneTyped, LoopTyped, clone
  <2>3. TickerTyped' /\ SignalTyped'
    BY <1>1, <2>1 DEF TickerTyped, SignalTyped
  <2>4. RunnerTyped'
    BY <1>1, <2>1 DEF RunnerTyped, budget
  <2>5. Still
    BY <2>1 DEF Still, Count, Busy, clone
  <2> QED  BY <1>3, <2>1, <2>2, <2>3, <2>4, <2>5 DEF WorldTyped
<1>6. ASSUME UNCHANGED <<inbox, clone, loop>>
      PROVE  Still /\ Extended /\ CloneTyped' /\ InboxTyped' /\ LoopTyped'
  <2>1. CloneTyped' /\ LoopTyped' /\ Still
    BY <1>1, <1>6 DEF CloneTyped, LoopTyped, clone, loop, Still, Count, Busy
  <2> QED  BY <1>3, <1>6, <2>1
<1>7. ASSUME Signal PROVE Goal
  <2>1. UNCHANGED <<inbox, clone, loop>>
    BY <1>7 DEF Signal
  <2>2. TickerTyped'
    BY <1>1, <1>7 DEF Signal, TickerTyped
  <2>3. SignalTyped'
    BY <1>7 DEF Signal, SignalTyped
  <2>4. RunnerTyped'
    BY <1>1, <1>7, Bounds DEF Signal, RunnerTyped, loop
  <2> QED  BY <1>6, <2>1, <2>2, <2>3, <2>4 DEF WorldTyped
<1>8. ASSUME UNCHANGED vars PROVE Goal
  <2>1. UNCHANGED <<inbox, clone, loop>>
    BY <1>8 DEF vars
  <2>2. TickerTyped' /\ SignalTyped'
    BY <1>1, <1>8 DEF vars, TickerTyped, SignalTyped
  <2>3. RunnerTyped'
    BY <1>1, <1>8 DEF vars, RunnerTyped, loop, budget
  <2> QED  BY <1>6, <2>1, <2>2, <2>3 DEF WorldTyped
<1>9. ASSUME NEW i \in Positions, Tick(i) PROVE Goal
  <2>1. UNCHANGED <<inbox, clone, loop>>
    BY <1>9 DEF Tick
  <2>2. TickerTyped'
    BY <1>1, <1>9 DEF Tick, TickerTyped
  <2>3. SignalTyped'
    BY <1>1, <1>9 DEF Tick, SignalTyped
  <2>4. RunnerTyped'
    BY <1>1, <1>9, Bounds DEF Tick, RunnerTyped, loop
  <2> QED  BY <1>6, <2>1, <2>2, <2>3, <2>4 DEF WorldTyped
<1> HIDE DEF Goal
<1>10. Goal
  BY <1>4, <1>5, <1>7, <1>8, <1>9 DEF Quiet
<1> QED  BY <1>10 DEF Goal

\* Every step is of one of the five kinds, and keeps the types.
LEMMA StepKinds ==
    ASSUME TypeOK, InOrder, [Next]_vars
    PROVE  Kinds /\ TypeOK'
<1>0. WorldTyped' /\ CloneTyped' /\ LoopTyped' => TypeOK'
  BY DEF TypeOK, WorldTyped, InboxTyped, TickerTyped, SignalTyped, RunnerTyped,
         CloneTyped, LoopTyped
<1> SUFFICES Kinds /\ CloneTyped' /\ WorldTyped' /\ LoopTyped'
  BY <1>0
<1>1. CloneTyped /\ WorldTyped
  BY TypeParts
<1>2. CASE Write
  BY <1>2, WriteKind DEF Kinds
<1>3. CASE Boot
  BY <1>3, BootKind DEF Kinds
<1>4. CASE Quiet
  BY <1>4, QuietKind DEF Kinds
<1>5. CASE Notes
  BY <1>5, NoteKind DEF Kinds
<1>6. CASE Answer
  BY <1>6, AnswerKind DEF Kinds
<1>7. CASE Done
  BY <1>7, DoneKind DEF Kinds
<1>8. CASE Cancelled \/ Shutdown \/ IdleTimeout
  <2>1. Exit
    BY <1>8 DEF Cancelled, Shutdown, IdleTimeout
  <2> QED  BY <1>1, <2>1, ExitKind DEF Kinds
<1>9. CASE PullFails \/ Kill
  BY <1>1, <1>9, DeathKind DEF Kinds
<1> QED
  BY <1>2, <1>3, <1>4, <1>5, <1>6, <1>7, <1>8, <1>9 DEF Next, Runner, Quiet, Notes

-----------------------------------------------------------------------------
(* The invariant is kept.                                                  *)

LEMMA InOrderStep ==
    ASSUME Inv, [Next]_vars
    PROVE  InOrder'
<1>1. TypeOK /\ Taken /\ InOrder
  BY DEF Inv
<1>2. Kinds
  BY <1>1, StepKinds
<1>3. CloneTyped /\ LoopTyped /\ InboxTyped
  BY <1>1, TypeParts DEF WorldTyped
<1>4. /\ Len(inbox) \in Nat /\ cursor \in 0..Len(inbox) /\ file \in Seq(Records)
  BY <1>3 DEF CloneTyped, LoopTyped, InboxTyped
<1>5. PICK c \in 0..Len(inbox) :
         /\ Reported(file) = Upto(c)
         /\ \A i \in 1..c : inbox[i] = "question"
         /\ pc # "down" => c = Count
  BY <1>1 DEF InOrder
<1>6. PICK e \in Nat :
         /\ e <= Len(inbox)
         /\ Reported(outbox) = Upto(e) /\ Finished(outbox) = 1..e
         /\ \A i \in 1..e : inbox[i] = "question"
  BY <1>1, OutboxInOrder
<1>7. CASE Still /\ Extended
  <2>1. c \in 0..Len(inbox') /\ \A i \in 1..c : inbox'[i] = "question"
    BY <1>4, <1>5, <1>7 DEF Extended
  <2>2. Reported(file') = Upto(c)
    BY <1>5, <1>7 DEF Still
  <2>3. pc' # "down" => c = Count'
    BY <1>5, <1>7 DEF Still
  <2> QED  BY <2>1, <2>2, <2>3 DEF InOrder
<1>8. ASSUME NEW r, Noted(r) PROVE InOrder'
  <2>1. r.type # "done" /\ r \in Records /\ file' = Append(file, r) /\ inbox' = inbox
    BY <1>8 DEF Noted
  <2>2. Reported(file') = Upto(c)
    BY <1>4, <1>5, <2>1, ReportedOfAppend
  <2>3. pc' # "down" => c = Count'
    BY <1>5, <1>8 DEF Noted
  <2> QED  BY <1>5, <2>1, <2>2, <2>3 DEF InOrder
<1>9. ASSUME NEW r, Finishes(r) PROVE InOrder'
  <2>1. /\ r.type = "done" /\ r.q = cursor /\ r \in Records
        /\ file' = Append(file, r) /\ inbox' = inbox /\ cursor' = cursor
        /\ pc = "answered" /\ pc' = "work"
    BY <1>9 DEF Finishes
  <2>2. cursor >= 1 /\ inbox[cursor] = "question" /\ c = cursor - 1
    BY <1>1, <1>5, <2>1 DEF Taken, Busy, Count
  <2>3. c \in Nat /\ cursor = c + 1
    BY <1>4, <2>2
  <2>4. Reported(file') = Upto(cursor)
    BY <1>4, <1>5, <2>1, <2>3, ReportedOfAppend, UptoNext
  <2>5. \A i \in 1..cursor : inbox[i] = "question"
    BY <1>5, <2>2, <2>3
  <2>6. Count' = cursor
    BY <2>1 DEF Count, Busy
  <2> QED  BY <1>4, <2>1, <2>4, <2>5, <2>6 DEF InOrder
<1>10. ASSUME NEW box, Ends(box) PROVE InOrder'
  <2>1. file' = box /\ pc' = "down" /\ inbox' = inbox
    BY <1>10 DEF Ends
  <2>2. CASE box = outbox
    <3>1. Reported(file') = Upto(e) /\ e \in 0..Len(inbox)
      BY <1>4, <1>6, <2>1, <2>2
    <3> QED  BY <1>6, <2>1, <3>1 DEF InOrder
  <2>3. ASSUME NEW r \in Records, r.type = "exit", box = Append(file, r) PROVE InOrder'
    <3>1. Reported(file') = Upto(c)
      BY <1>4, <1>5, <2>1, <2>3, ReportedOfAppend
    <3> QED  BY <1>5, <2>1, <3>1 DEF InOrder
  <2> QED  BY <1>10, <2>2, <2>3 DEF Ends
<1>11. ASSUME NEW r, Starts(r) PROVE InOrder'
  <2>1. /\ r.type = "ready" /\ r \in Records /\ file' = Append(outbox, r)
        /\ pc' = "pull" /\ cursor' = ResumedCursor(outbox) /\ inbox' = inbox
    BY <1>11 DEF Starts
  <2>2. outbox \in Seq(Records)
    BY <1>3, OutboxIsPrefix
  <2>3. Reported(file') = Upto(e)
    BY <1>6, <2>1, <2>2, ReportedOfAppend
  <2>4. Count' = e
    BY <1>6, <2>1, ResumedCursorIs DEF Count, Busy
  <2>5. e \in 0..Len(inbox)
    BY <1>4, <1>6
  <2> QED  BY <1>6, <2>1, <2>3, <2>4, <2>5 DEF InOrder
<1> QED  BY <1>2, <1>7, <1>8, <1>9, <1>10, <1>11 DEF Kinds

LEMMA TakenStep ==
    ASSUME Inv, [Next]_vars
    PROVE  Taken'
<1>1. TypeOK /\ Taken
  BY DEF Inv
<1>2. CloneTyped /\ LoopTyped /\ InboxTyped
  BY <1>1, TypeParts DEF WorldTyped
<1>3. /\ Len(inbox) \in Nat /\ cursor \in 0..Len(inbox) /\ cursor \in Nat
      /\ batch \in 0..Len(inbox)
  BY <1>2 DEF CloneTyped, LoopTyped, InboxTyped
<1>4. ASSUME ~Busy' PROVE Taken'
  BY <1>4 DEF Taken
<1>5. ASSUME cursor' = cursor, inbox' = inbox, Busy' => Busy PROVE Taken'
  BY <1>1, <1>5 DEF Taken
<1>6. CASE Write
  <2>1. PICK r \in {"question", "shutdown"} : inbox' = Append(inbox, r)
    BY <1>6 DEF Write
  <2>2. \A i \in 1..Len(inbox) : inbox'[i] = inbox[i]
    BY <1>2, <2>1 DEF InboxTyped
  <2>3. cursor' = cursor /\ Busy' = Busy
    BY <1>6 DEF Write, loop, Busy
  <2> QED  BY <1>1, <1>3, <2>2, <2>3 DEF Taken
<1>7. CASE Boot
  <2>1. UNCHANGED loop \/ pc' = "pull"
    BY <1>7 DEF Boot
  <2>2. inbox' = inbox
    BY <1>7 DEF Boot
  <2> QED  BY <1>4, <1>5, <2>1, <2>2 DEF Busy, loop
<1>8. CASE Cancelled \/ Shutdown \/ IdleTimeout \/ PullFails \/ Kill
  <2>1. pc' = "down"
    BY <1>8 DEF Cancelled, Shutdown, IdleTimeout, PullFails, Kill, Exit, Gone
  <2> QED  BY <1>4, <2>1 DEF Busy
<1>9. CASE Pull \/ Idle \/ Heartbeat \/ Poll \/ Done
  <2>1. pc' \in {"work", "wait", "pull"}
    BY <1>9 DEF Pull, Idle, Heartbeat, Poll, Done
  <2> QED  BY <1>4, <2>1 DEF Busy
<1>10. CASE Take
  <2>1. cursor' = cursor + 1 /\ inbox[cursor + 1] = "question" /\ inbox' = inbox
    BY <1>10 DEF Take
  <2> QED  BY <1>3, <2>1 DEF Taken
<1>11. CASE Turn \/ Answer
  <2>1. cursor' = cursor /\ inbox' = inbox /\ Busy
    BY <1>11 DEF Turn, Answer, Busy
  <2> QED  BY <1>5, <2>1
<1>12. CASE Signal \/ UNCHANGED vars \/ \E i \in Positions : Tick(i) \/ Beat(i)
  <2>1. inbox' = inbox /\ UNCHANGED loop
    BY <1>12 DEF Signal, vars, Tick, Beat
  <2> QED  BY <1>5, <2>1 DEF Busy, loop
<1> QED
  BY <1>6, <1>7, <1>8, <1>9, <1>10, <1>11, <1>12 DEF Next, Runner

LEMMA InvStep == Inv /\ [Next]_vars => Inv'
<1> SUFFICES ASSUME Inv, [Next]_vars PROVE Inv'
  OBVIOUS
<1>1. TypeOK'
  BY StepKinds DEF Inv
<1> QED  BY <1>1, InOrderStep, TakenStep DEF Inv

LEMMA Invariance == Spec => []Inv
BY InitInv, InvStep, PTL DEF Spec

\* Every state of Mailbox has its types, and no part of a runner's clone is
\* further than the part it was made from: what is on the remote was committed,
\* what was committed was written, and no inbox record is handled before it is
\* read (outboxWriter.Push, readInbox, Serve).
THEOREM TypeCorrect == Spec => []TypeOK
BY Invariance, PTL DEF Inv

-----------------------------------------------------------------------------
(* No question is reported done before its answer.                         *)

\* box answers its question at k, with no new runner in between.
AnsweredAt(box, k) ==
    \E j \in 1..k - 1 :
        /\ box[j].type = "answer" /\ box[j].q = box[k].q
        /\ \A m \in j..k : box[m].type # "ready"

Answered(box) == \A k \in 1..Len(box) : box[k].type = "done" => AnsweredAt(box, k)

\* The answer of question q is in box, from the runner that still writes it.
Pending(box, q) ==
    \E j \in 1..Len(box) :
        /\ box[j].type = "answer" /\ box[j].q = q
        /\ \A m \in j..Len(box) : box[m].type # "ready"

LEMMA AnsweredOfPrefix ==
    ASSUME NEW box \in Seq(Records), NEW part \in Seq(Records), Answered(box),
           Len(part) <= Len(box), \A i \in 1..Len(part) : part[i] = box[i]
    PROVE  Answered(part)
<1> SUFFICES ASSUME NEW k \in 1..Len(part), part[k].type = "done"
             PROVE  AnsweredAt(part, k)
  BY DEF Answered
<1>1. Len(part) \in Nat /\ Len(box) \in Nat /\ k \in 1..Len(box) /\ part[k] = box[k]
  OBVIOUS
<1>2. PICK j \in 1..k - 1 :
         /\ box[j].type = "answer" /\ box[j].q = box[k].q
         /\ \A m \in j..k : box[m].type # "ready"
  BY <1>1 DEF Answered, AnsweredAt
<1>3. \A m \in 1..k : part[m] = box[m]
  BY <1>1
<1>4. j \in 1..k /\ \A m \in j..k : m \in 1..k
  BY <1>1, <1>2
<1> QED  BY <1>1, <1>2, <1>3, <1>4 DEF AnsweredAt

LEMMA AnsweredOfAppend ==
    ASSUME NEW box \in Seq(Records), NEW r \in Records, Answered(box),
           r.type = "done" => Pending(box, r.q)
    PROVE  Answered(Append(box, r))
<1> DEFINE longer == Append(box, r)  n == Len(box)
<1>1. /\ n \in Nat /\ Len(longer) = n + 1
      /\ \A i \in 1..n : longer[i] = box[i]
      /\ longer[n + 1] = r
  OBVIOUS
<1> HIDE DEF longer, n
<1>2. ASSUME NEW k \in 1..n, longer[k].type = "done" PROVE AnsweredAt(longer, k)
  <2>1. box[k].type = "done"
    BY <1>1, <1>2
  <2>2. PICK j \in 1..k - 1 :
           /\ box[j].type = "answer" /\ box[j].q = box[k].q
           /\ \A m \in j..k : box[m].type # "ready"
    BY <2>1 DEF Answered, AnsweredAt, n
  <2>3. j \in 1..n /\ \A m \in j..k : m \in 1..n
    BY <1>1, <2>2
  <2> QED  BY <1>1, <2>2, <2>3 DEF AnsweredAt
<1>3. ASSUME longer[n + 1].type = "done" PROVE AnsweredAt(longer, n + 1)
  <2>1. r.type = "done" /\ r.type # "ready"
    BY <1>1, <1>3
  <2>2. PICK j \in 1..n :
           /\ box[j].type = "answer" /\ box[j].q = r.q
           /\ \A m \in j..n : box[m].type # "ready"
    BY <2>1 DEF Pending, n
  <2>3. j \in 1..(n + 1) - 1 /\ \A m \in j..(n + 1) : m = n + 1 \/ (m \in 1..n /\ m \in j..n)
    BY <1>1, <2>2
  <2>4. \A m \in j..(n + 1) : longer[m].type # "ready"
    BY <1>1, <2>1, <2>2, <2>3
  <2>5. longer[j].type = "answer" /\ longer[j].q = longer[n + 1].q
    BY <1>1, <2>2
  <2> QED  BY <2>3, <2>4, <2>5 DEF AnsweredAt
<1>4. \A k \in 1..Len(longer) : k \in 1..n \/ k = n + 1
  BY <1>1
<1> QED  BY <1>2, <1>3, <1>4 DEF Answered, longer

LEMMA PendingOfAppend ==
    ASSUME NEW box \in Seq(Records), NEW r \in Records, NEW q,
           \/ r.type = "answer" /\ r.q = q
           \/ r.type # "ready" /\ Pending(box, q)
    PROVE  Pending(Append(box, r), q)
<1> DEFINE longer == Append(box, r)  n == Len(box)
<1>1. /\ n \in Nat /\ Len(longer) = n + 1
      /\ \A i \in 1..n : longer[i] = box[i]
      /\ longer[n + 1] = r
  OBVIOUS
<1> HIDE DEF longer, n
<1>2. CASE r.type = "answer" /\ r.q = q
  <2>1. n + 1 \in 1..(n + 1) /\ \A m \in (n + 1)..(n + 1) : m = n + 1
    BY <1>1
  <2>2. \A m \in (n + 1)..Len(longer) : longer[m].type # "ready"
    BY <1>1, <1>2, <2>1
  <2>3. Pending(longer, q)
    BY <1>1, <1>2, <2>1, <2>2 DEF Pending
  <2> QED  BY <2>3 DEF longer
<1>3. CASE r.type # "ready" /\ Pending(box, q)
  <2>1. PICK j \in 1..n :
           /\ box[j].type = "answer" /\ box[j].q = q
           /\ \A m \in j..n : box[m].type # "ready"
    BY <1>3 DEF Pending, n
  <2>2. j \in 1..(n + 1) /\ \A m \in j..(n + 1) : m = n + 1 \/ (m \in 1..n /\ m \in j..n)
    BY <1>1, <2>1
  <2>3. \A m \in j..Len(longer) : longer[m].type # "ready"
    BY <1>1, <1>3, <2>1, <2>2
  <2>4. longer[j].type = "answer" /\ longer[j].q = q
    BY <1>1, <2>1
  <2>5. Pending(longer, q)
    BY <1>1, <2>2, <2>3, <2>4 DEF Pending
  <2> QED  BY <2>5 DEF longer
<1> QED  BY <1>2, <1>3

\* The whole file keeps the order, not its published part alone, and a runner
\* about to write done has written the answer itself.
AnswerInv ==
    /\ Answered(file)
    /\ pc = "answered" => Pending(file, cursor)

LEMMA AnswerInit == Init => AnswerInv
<1> SUFFICES ASSUME Init PROVE AnswerInv
  OBVIOUS
<1>1. Len(file) = 0 /\ pc = "down"
  BY DEF Init
<1> QED  BY <1>1 DEF AnswerInv, Answered

LEMMA AnswerStep ==
    ASSUME Inv, AnswerInv, [Next]_vars
    PROVE  AnswerInv'
<1>1. Kinds /\ CloneTyped
  BY StepKinds, TypeParts DEF Inv
<1>2. /\ file \in Seq(Records) /\ Answered(file)
      /\ pc = "answered" => Pending(file, cursor)
  BY <1>1 DEF CloneTyped, AnswerInv
<1>3. /\ outbox \in Seq(Records) /\ Len(outbox) <= Len(file)
      /\ \A i \in 1..Len(outbox) : outbox[i] = file[i]
  BY <1>1, OutboxIsPrefix DEF CloneTyped
<1>4. Answered(outbox)
  BY <1>2, <1>3, AnsweredOfPrefix
<1>5. CASE Still /\ Extended
  <2>1. file' = file /\ (pc' = "answered" => pc = "answered" /\ cursor' = cursor)
    BY <1>5 DEF Still
  <2> QED  BY <1>2, <2>1 DEF AnswerInv
<1>6. ASSUME NEW r, Noted(r) PROVE AnswerInv'
  <2>1. /\ r \in Records /\ file' = Append(file, r)
        /\ \/ r.type = "note" /\ (pc' = "answered" => pc = "answered" /\ cursor' = cursor)
           \/ r.type = "answer" /\ r.q = cursor'
    BY <1>6 DEF Noted
  <2>2. Answered(file')
    BY <1>2, <2>1, AnsweredOfAppend
  <2>3. ASSUME pc' = "answered" PROVE Pending(file', cursor')
    <3>1. CASE r.type = "answer" /\ r.q = cursor'
      BY <1>2, <2>1, <3>1, PendingOfAppend
    <3>2. CASE r.type = "note" /\ pc = "answered" /\ cursor' = cursor
      BY <1>2, <2>1, <3>2, PendingOfAppend
    <3> QED  BY <2>1, <2>3, <3>1, <3>2
  <2> QED  BY <2>2, <2>3 DEF AnswerInv
<1>7. ASSUME NEW r, Finishes(r) PROVE AnswerInv'
  <2>1. /\ r \in Records /\ r.q = cursor /\ pc = "answered" /\ pc' = "work"
        /\ file' = Append(file, r)
    BY <1>7 DEF Finishes
  <2>2. Answered(file')
    BY <1>2, <2>1, AnsweredOfAppend
  <2> QED  BY <2>1, <2>2 DEF AnswerInv
<1>8. ASSUME NEW box, Ends(box) PROVE AnswerInv'
  <2>1. file' = box /\ pc' = "down"
    BY <1>8 DEF Ends
  <2>2. ASSUME NEW r \in Records, r.type = "exit", box = Append(file, r)
        PROVE  Answered(box)
    BY <1>2, <2>2, AnsweredOfAppend
  <2>3. Answered(box)
    BY <1>4, <1>8, <2>2 DEF Ends
  <2> QED  BY <2>1, <2>3 DEF AnswerInv
<1>9. ASSUME NEW r, Starts(r) PROVE AnswerInv'
  <2>1. /\ r \in Records /\ r.type = "ready" /\ file' = Append(outbox, r) /\ pc' = "pull"
    BY <1>9 DEF Starts
  <2>2. Answered(file')
    BY <1>3, <1>4, <2>1, AnsweredOfAppend
  <2> QED  BY <2>1, <2>2 DEF AnswerInv
<1> QED  BY <1>1, <1>5, <1>6, <1>7, <1>8, <1>9 DEF Kinds

LEMMA AnswerImplies == Inv /\ AnswerInv => AnsweredBeforeDone
<1> SUFFICES ASSUME Inv, AnswerInv PROVE AnsweredBeforeDone
  OBVIOUS
<1>1. CloneTyped
  BY TypeParts DEF Inv
<1>2. /\ file \in Seq(Records) /\ Answered(file)
      /\ outbox \in Seq(Records) /\ Len(outbox) <= Len(file)
      /\ \A i \in 1..Len(outbox) : outbox[i] = file[i]
  BY <1>1, OutboxIsPrefix DEF CloneTyped, AnswerInv
<1>3. Answered(outbox)
  BY <1>2, AnsweredOfPrefix
<1>4. DOMAIN outbox = 1..Len(outbox)
  BY <1>2
<1> QED  BY <1>3, <1>4 DEF Answered, AnsweredAt, AnsweredBeforeDone

\* A browser that sees a question done has its answer, from the same runner,
\* earlier in the outbox, whatever runner died, was cancelled or could not push
\* (handleQuestion, Push).
THEOREM NoDoneWithoutAnswer == Spec => []AnsweredBeforeDone
<1>1. Inv /\ AnswerInv /\ [Next]_vars => AnswerInv'
  BY AnswerStep
<1> QED  BY <1>1, AnswerInit, Invariance, AnswerImplies, PTL DEF Spec

-----------------------------------------------------------------------------
(* The browser sees a chat session.                                        *)

QuestionsAt(box) == {i \in 1..Len(box) : box[i] = "question"}

LEMMA QuestionsLoop ==
    ASSUME NEW box, Len(box) \in Nat
    PROVE  \E d : /\ Collects(d, Len(box), QuestionsAt(box), Upto(Len(box)))
                  /\ Session!Questions(box) = d[Len(box)]
<1> DEFINE n == Len(box)
           Loop(d) == d = [i \in 0..n |-> CollectStep(d, QuestionsAt(box), Upto(n), i)]
           Code(d) == d = [i \in 0..n |->
                              IF i = 0 THEN <<>>
                              ELSE IF box[i] = "question" THEN Append(d[i - 1], i)
                              ELSE d[i - 1]]
<1>1. \A d : \A i \in 0..n :
         CollectStep(d, QuestionsAt(box), Upto(n), i) =
            IF i = 0 THEN <<>>
            ELSE IF box[i] = "question" THEN Append(d[i - 1], i)
            ELSE d[i - 1]
  BY DEF CollectStep, QuestionsAt, Upto
<1>2. \A d : Loop(d) <=> Code(d)
  BY <1>1
<1>3. \E d : Loop(d)
  BY CollectDefined
<1>4. Code(CHOOSE d : Code(d))
  <2> HIDE DEF Loop, Code
  <2> QED  BY <1>2, <1>3
<1>5. Session!Questions(box) = (CHOOSE d : Code(d))[n]
  BY DEF Session!Questions
<1> DEFINE run == CHOOSE d : Code(d)
<1>6. Loop(run)
  <2> HIDE DEF Loop, Code
  <2> QED  BY <1>2, <1>4
<1> HIDE DEF run
<1>7. Collects(run, n, QuestionsAt(box), Upto(n))
  BY <1>6 DEF Collects
<1> QED  BY <1>5, <1>7 DEF run

\* When the first e records are questions, they are the first e questions.
LEMMA FirstQuestions ==
    ASSUME NEW box, Len(box) \in Nat, NEW e \in 0..Len(box),
           \A i \in 1..e : box[i] = "question"
    PROVE  /\ e <= Len(Session!Questions(box))
           /\ Len(Session!Questions(box)) \in Nat
           /\ SubSeq(Session!Questions(box), 1, e) = Upto(e)
<1> DEFINE n == Len(box)  asked == Session!Questions(box)
<1>1. PICK d : Collects(d, n, QuestionsAt(box), Upto(n)) /\ asked = d[n]
  BY QuestionsLoop
<1>2. 1..e \subseteq QuestionsAt(box) /\ \A i \in 1..n : Upto(n)[i] = i
  BY DEF QuestionsAt, Upto
<1> HIDE DEF asked
<1>3. asked \in Seq(Nat) /\ e <= Len(asked) /\ \A k \in 1..e : asked[k] = k
  <2> DEFINE chosen == QuestionsAt(box)  value == Upto(n)
  <2>1. /\ n \in Nat /\ e \in 0..n /\ Collects(d, n, chosen, value)
        /\ 1..e \subseteq chosen /\ \A i \in 1..n : value[i] = i
    BY <1>1, <1>2
  <2> HIDE DEF chosen, value, n
  <2>2. Leads(e, d[n])
    BY <2>1, CollectedFirst
  <2> QED  BY <1>1, <2>2 DEF Leads
<1>4. /\ SubSeq(asked, 1, e) \in Seq(Nat) /\ Len(SubSeq(asked, 1, e)) = e
      /\ \A k \in 1..e : SubSeq(asked, 1, e)[k] = k
  <2>1. e \in Nat /\ \A i \in 1..e : asked[i] \in Nat
    BY <1>3
  <2> QED  BY <1>3, <2>1, SubSeqProperties
<1>5. SubSeq(asked, 1, e) = Upto(e)
  <2>1. Upto(e) \in Seq(Nat) /\ Len(Upto(e)) = e /\ \A k \in 1..e : Upto(e)[k] = k
    BY DEF Upto
  <2> QED  BY <1>4, <2>1, SeqEqual
<1> QED  BY <1>3, <1>5 DEF asked

\* What is on the remote stays there.
LEMMA OutboxGrows ==
    ASSUME Inv, [Next]_vars
    PROVE  pushed <= Len(outbox') /\ outbox = SubSeq(outbox', 1, pushed)
<1>1. Kinds /\ CloneTyped
  BY StepKinds, TypeParts DEF Inv
<1>2. TypeOK'
  BY StepKinds DEF Inv
<1>3. CloneTyped'
  BY <1>2 DEF TypeOK, CloneTyped
<1>4. /\ file \in Seq(Records) /\ pushed \in Nat /\ pushed <= Len(file) /\ Len(file) \in Nat
      /\ outbox \in Seq(Records) /\ Len(outbox) = pushed
      /\ \A i \in 1..pushed : outbox[i] = file[i]
  BY <1>1, OutboxIsPrefix DEF CloneTyped
<1>5. file' \in Seq(Records) /\ pushed' \in 0..Len(file') /\ pushed' \in Nat
  BY <1>3 DEF CloneTyped
<1>6. /\ outbox' \in Seq(Records) /\ Len(outbox') = pushed'
      /\ \A i \in 1..pushed' : outbox'[i] = file'[i]
  <2>1. \A i \in 1..pushed' : file'[i] \in Records
    BY <1>5
  <2>2. outbox' = SubSeq(file', 1, pushed')
    BY DEF outbox
  <2> QED  BY <1>5, <2>1, <2>2, SubSeqProperties
<1> DEFINE Kept == pushed <= pushed' /\ \A i \in 1..pushed : file'[i] = file[i]
<1>7. Kept
  <2>1. ASSUME NEW r \in Records, file' = Append(file, r)
        PROVE  \A i \in 1..pushed : file'[i] = file[i]
    BY <1>4, <2>1
  <2>2. CASE Still
    BY <1>4, <2>2 DEF Still
  <2>3. ASSUME NEW r, Noted(r) \/ Finishes(r) PROVE Kept
    <3>1. r \in Records /\ file' = Append(file, r) /\ pushed' \in pushed..Len(file')
      BY <2>3 DEF Noted, Finishes
    <3> QED  BY <1>4, <1>5, <2>1, <3>1
  <2>4. ASSUME NEW box, Ends(box) PROVE Kept
    <3>1. file' = box /\ pushed' = Len(box)
      BY <2>4 DEF Ends
    <3>2. CASE box = outbox
      BY <1>4, <3>1, <3>2
    <3>3. ASSUME NEW r \in Records, box = Append(file, r) PROVE Kept
      BY <1>4, <2>1, <3>1, <3>3
    <3> QED  BY <2>4, <3>2, <3>3 DEF Ends
  <2>5. ASSUME NEW r, Starts(r) PROVE Kept
    <3>1. r \in Records /\ file' = Append(outbox, r) /\ pushed' = Len(file')
      BY <2>5 DEF Starts
    <3> QED  BY <1>4, <3>1
  <2> QED  BY <1>1, <2>2, <2>3, <2>4, <2>5 DEF Kinds
<1>8. \A i \in 1..pushed : outbox'[i] = outbox[i] /\ outbox'[i] \in Records
  BY <1>4, <1>5, <1>6, <1>7
<1>9. /\ SubSeq(outbox', 1, pushed) \in Seq(Records)
      /\ Len(SubSeq(outbox', 1, pushed)) = pushed
      /\ \A i \in 1..pushed : SubSeq(outbox', 1, pushed)[i] = outbox'[i]
  BY <1>4, <1>8, SubSeqProperties
<1>10. outbox = SubSeq(outbox', 1, pushed)
  BY <1>4, <1>8, <1>9, SeqEqual
<1> QED  BY <1>6, <1>7, <1>10

\* The outbox reports the first questions of the inbox, in order.
Published ==
    \E e \in Nat :
        /\ e <= Len(inbox) /\ Len(inbox) \in Nat
        /\ Reported(outbox) = Upto(e)
        /\ \A i \in 1..e : inbox[i] = "question"

LEMMA InvPublished == Inv => Published
<1> SUFFICES ASSUME Inv PROVE Published
  OBVIOUS
<1>1. TypeOK /\ InOrder
  BY DEF Inv
<1>2. Len(inbox) \in Nat
  BY <1>1 DEF TypeOK
<1> QED  BY <1>1, <1>2, OutboxInOrder DEF Published

LEMMA SessionInit == Init => Session!Init
<1> SUFFICES ASSUME Init PROVE Session!Init
  OBVIOUS
<1>1. file = <<>> /\ pushed = 0 /\ inbox = <<>>
  BY DEF Init
<1>2. outbox = <<>>
  BY <1>1, SubSeqEmpty DEF outbox
<1>3. Len(outbox) = 0
  BY <1>2
<1>4. PICK d : /\ Collects(d, Len(outbox), DoneAt(outbox), QOf(outbox))
               /\ Reported(outbox) = d[Len(outbox)]
  BY <1>3, ReportedLoop
<1>5. Reported(outbox) = <<>>
  BY <1>3, <1>4 DEF Collects, CollectStep
<1> QED  BY <1>1, <1>5 DEF Session!Init

LEMMA SessionStep ==
    ASSUME Inv, Published', [Next]_vars
    PROVE  [Session!Next]_(Session!svars)
<1>1. CASE Write
  <2>1. outbox' = outbox
    BY <1>1 DEF Write, clone, outbox
  <2>2. Session!Write
    BY <1>1, <2>1 DEF Write, Session!Write
  <2> QED  BY <2>2 DEF Session!Next
<1>2. CASE ~Write
  <2>1. inbox' = inbox
    BY <1>2 DEF Next, Runner, Boot, Cancelled, Pull, PullFails, Shutdown, Take, Turn, Answer,
                Done, Idle, IdleTimeout, Heartbeat, Poll, Exit, Tick, Beat, Kill, Signal, vars
  <2>2. PICK f \in Nat :
           /\ f <= Len(inbox) /\ Len(inbox) \in Nat
           /\ Reported(outbox') = Upto(f)
           /\ \A i \in 1..f : inbox[i] = "question"
    BY <2>1 DEF Published
  <2>3. pushed <= Len(outbox') /\ outbox = SubSeq(outbox', 1, pushed)
    BY OutboxGrows
  <2>4. outbox' \in Seq(Records)
    <3>1. CloneTyped'
      BY StepKinds DEF Inv, TypeOK, CloneTyped
    <3>2. /\ pushed' \in Nat /\ \A i \in 1..pushed' : file'[i] \in Records
          /\ outbox' = SubSeq(file', 1, pushed')
      BY <3>1 DEF CloneTyped, outbox
    <3> QED  BY <3>2, SubSeqProperties
  <2>5. pushed \in 0..Len(outbox')
    BY <2>3 DEF Inv, TypeOK
  <2>6. PICK g \in 0..f : Reported(outbox) = Upto(g)
    <3> DEFINE box == outbox'
    <3>1. box \in Seq(Records) /\ pushed \in 0..Len(box) /\ Reported(box) = Upto(f)
      BY <2>2, <2>4, <2>5
    <3> HIDE DEF box
    <3>2. \E g \in 0..f : Reported(SubSeq(box, 1, pushed)) = Upto(g)
      BY <2>2, <3>1, ReportedOfPrefix
    <3> QED  BY <2>3, <3>2 DEF box
  <2>7. CASE g = f
    BY <2>1, <2>2, <2>6, <2>7 DEF Session!svars
  <2>8. CASE g # f
    <3>1. g \in Nat /\ g + 1 <= f /\ f \in 0..Len(inbox)
      BY <2>2, <2>6, <2>8
    <3>2. Len(Upto(g)) = g
      BY <3>1 DEF Upto
    <3>3. /\ f <= Len(Session!Questions(inbox)) /\ Len(Session!Questions(inbox)) \in Nat
          /\ SubSeq(Session!Questions(inbox), 1, f) = Upto(f)
      BY <2>2, <3>1, FirstQuestions
    <3>4. f \in Len(Reported(outbox)) + 1 .. Len(Session!Questions(inbox))
      BY <2>6, <3>1, <3>2, <3>3
    <3>5. Session!Report
      BY <2>1, <2>2, <3>3, <3>4 DEF Session!Report
    <3> QED  BY <3>5 DEF Session!Next
  <2> QED  BY <2>7, <2>8
<1> QED  BY <1>1, <1>2

\* What a browser sees of any number of runners is one chat session: questions
\* are reported done in the order they were asked, each once and none left out,
\* and nothing reported is taken back (resumeState, Serve, Push).
THEOREM BrowserSeesOneSession == Spec => SessionSpec
<1>1. Inv /\ Published' /\ [Next]_vars => [Session!Next]_(Session!svars)
  BY SessionStep
<1> QED
  BY <1>1, SessionInit, Invariance, InvPublished, PTL DEF Spec, SessionSpec, Session!Spec
==============================================================================
