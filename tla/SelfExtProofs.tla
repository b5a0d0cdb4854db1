--------------------------- MODULE SelfExtProofs ---------------------------
(***************************************************************************)
(* Proofs about SelfExt, for any runs, gaps, batches and bounds: its       *)
(* types, that nothing uncertified takes effect, that sessions are closed, *)
(* and that the reject set says exactly what was refused.                  *)
(***************************************************************************)
EXTENDS SelfExt, SequenceTheorems, TLAPS

-----------------------------------------------------------------------------
(* The inductive invariant                                                 *)

Holding ==
    [pc : Pcs, lane : {"data", "code"}, todo : Seq(Gaps), known : SUBSET Gaps,
     tries : 0..(MaxAttempts - 1), verdict : Verdicts]

RunsTyped ==
    /\ run \in [Runs -> Holding]
    /\ \A r \in Runs : ~At(r, "idle") => run[r].todo # <<>>

Types ==
    /\ RunsTyped
    /\ file = Torn \/ file \in SUBSET Gaps
    /\ dial \in Dials /\ consent \in BOOLEAN /\ open \in SUBSET Runs
    /\ branch \in [Detectors -> [gap : CodeGaps \cup {"none"}, verdict : Verdicts]]
    /\ \A d \in Detectors : branch[d] = NoChange \/ branch[d].gap \in CodeGaps
    /\ overlay \in SUBSET [gap : DataGaps, verdict : Verdicts]
    /\ artifacts \in SUBSET Gaps /\ judged \in SUBSET Gaps
    /\ forgetful \in BOOLEAN /\ starts \in Nat /\ faults \in Nat

\* A widen that is to be offered to others is in the tenant's overlay.
Widened ==
    \A r \in Runs : At(r, "emit") /\ ~InCode(r) =>
        \E w \in overlay : w.gap = Gap(r)

\* A run knows as rejects only what was refused, and is about to reject only that.
KnowsTheJudged ==
    \A r \in Runs : run[r].known \subseteq judged /\ (At(r, "poison") => Gap(r) \in judged)

\* Nobody forgot: one run at a time, and its copy of the set is the file's.
Mirrored ==
    ~forgetful =>
        /\ \A r, q \in Runs : ~At(r, "idle") /\ ~At(q, "idle") => r = q
        /\ \A r \in Runs : ~At(r, "idle") => run[r].known = file

\* While nobody forgot, what a model works on has not been refused before.
Untried ==
    ~forgetful => \A r \in Runs : run[r].pc \in {"author", "narrated"} => Gap(r) \notin judged

RejectInv == OnlyTheJudged /\ KnowsTheJudged /\ Mirrored /\ RejectsArePersisted /\ Untried

IInv == Types /\ Widened /\ OnlyCertifiedIsApplied /\ SessionsAreClosed /\ RejectInv

-----------------------------------------------------------------------------
(* What a run holds                                                        *)

LEMMA IdleHolding == Idle \in Holding /\ Idle.pc = "idle" /\ Idle.known = {}
<1>1. <<>> \in Seq(Gaps) /\ 0 \in 0..(MaxAttempts - 1)
    BY SelfExtAssumption
<1> QED
    BY <1>1 DEF Idle, Holding, Pcs, Verdicts

LEMMA GapIsAGap ==
    ASSUME Types, NEW r \in Runs, ~At(r, "idle")
    PROVE  /\ Gap(r) \in Gaps
           /\ Len(run[r].todo) # 1 => Tail(run[r].todo) \in Seq(Gaps) \ {<<>>}
<1>1. run[r].todo \in Seq(Gaps) /\ run[r].todo # <<>>
    BY DEF Types, RunsTyped, Holding
<1>2. ASSUME NEW s \in Seq(Gaps), s # <<>>
      PROVE  Head(s) \in Gaps /\ (Len(s) # 1 => Tail(s) \in Seq(Gaps) /\ Tail(s) # <<>>)
    <2>1. Head(s) \in Gaps /\ Tail(s) \in Seq(Gaps) /\ Len(Tail(s)) = Len(s) - 1
        BY <1>2, HeadTailProperties
    <2>2. Len(s) # 1 => Len(Tail(s)) # 0
        BY <2>1
    <2> HIDE <1>2
    <2>3. Len(s) # 1 => Tail(s) # <<>>
        BY <2>2
    <2> QED
        BY <2>1, <2>3
<1> QED
    BY <1>1, <1>2 DEF Gap

\* What NextGap leaves: the run is idle, or between two gaps with what it knew.
LEMMA NextGapHolding ==
    ASSUME Types, NEW r \in Runs, ~At(r, "idle"), NextGap(r)
    PROVE  /\ run' \in [Runs -> Holding]
           /\ \A q \in Runs : q # r => run'[q] = run[q]
           /\ run'[r].pc \in {"idle", "next"}
           /\ run'[r].pc # "idle" => run'[r].todo # <<>> /\ run'[r].known = run[r].known
           /\ run'[r].known \subseteq run[r].known
           /\ open' = open \ {r}
<1>1. CASE Len(run[r].todo) = 1
    <2>1. run' = [run EXCEPT ![r] = Idle] /\ open' = open \ {r}
        BY <1>1 DEF NextGap
    <2> QED
        BY <2>1, IdleHolding DEF Types, RunsTyped
<1>2. CASE Len(run[r].todo) # 1
    <2>1. run' = [run EXCEPT ![r].todo = Tail(@), ![r].pc = "next",
                             ![r].tries = 0, ![r].verdict = "none"] /\ open' = open \ {r}
        BY <1>2 DEF NextGap
    <2>2. Tail(run[r].todo) \in Seq(Gaps) \ {<<>>} /\ 0 \in 0..(MaxAttempts - 1)
        BY <1>2, GapIsAGap, SelfExtAssumption
    <2> DEFINE h == [run[r] EXCEPT !.todo = Tail(@), !.pc = "next", !.tries = 0, !.verdict = "none"]
    <2>3. run[r] \in Holding /\ run \in [Runs -> Holding]
        BY DEF Types, RunsTyped
    <2>4. h \in Holding /\ h.pc = "next" /\ h.todo = Tail(run[r].todo) /\ h.known = run[r].known
        BY <2>2, <2>3 DEF Holding, Pcs, Verdicts
    <2>5. run' = [run EXCEPT ![r] = h]
        BY <2>1, <2>3 DEF Holding
    <2> QED
        BY <2>1, <2>2, <2>3, <2>4, <2>5
<1> QED
    BY <1>1, <1>2

\* Poison goes on like NextGap, knowing one reject more.
LEMMA PoisonHolding ==
    ASSUME Types, NEW r \in Runs, Poison(r)
    PROVE  /\ run' \in [Runs -> Holding]
           /\ \A q \in Runs : q # r => run'[q] = run[q]
           /\ run'[r].pc \in {"idle", "next"}
           /\ run'[r].pc = "idle" => run'[r].known = {}
           /\ run'[r].pc # "idle" =>
                 run'[r].todo # <<>> /\ run'[r].known = run[r].known \cup {Gap(r)}
<1>1. CASE Len(run[r].todo) = 1
    <2>1. run' = [run EXCEPT ![r] = Idle]
        BY <1>1 DEF Poison
    <2> QED
        BY <2>1, IdleHolding DEF Types, RunsTyped
<1>2. CASE Len(run[r].todo) # 1
    <2>1. run' = [run EXCEPT ![r].todo = Tail(@), ![r].pc = "next", ![r].tries = 0,
                             ![r].verdict = "none", ![r].known = @ \cup {Gap(r)}]
        BY <1>2 DEF Poison
    <2>2. Tail(run[r].todo) \in Seq(Gaps) \ {<<>>} /\ 0 \in 0..(MaxAttempts - 1) /\ Gap(r) \in Gaps
        <3>1. ~At(r, "idle")
            BY DEF Poison, At
        <3>2. MaxAttempts \in Nat \ {0}
            BY SelfExtAssumption
        <3>3. Tail(run[r].todo) \in Seq(Gaps) \ {<<>>} /\ Gap(r) \in Gaps
            BY <1>2, <3>1, GapIsAGap
        <3> QED
            BY <3>2, <3>3
    <2> DEFINE h == [run[r] EXCEPT !.todo = Tail(@), !.pc = "next", !.tries = 0,
                                   !.verdict = "none", !.known = @ \cup {Gap(r)}]
    <2>3. run[r] \in Holding /\ run \in [Runs -> Holding]
        BY DEF Types, RunsTyped
    <2>4. h \in Holding /\ h.pc = "next" /\ h.todo = Tail(run[r].todo)
            /\ h.known = run[r].known \cup {Gap(r)}
        BY <2>2, <2>3 DEF Holding, Pcs, Verdicts
    <2>5. run' = [run EXCEPT ![r] = h]
        BY <2>1, <2>3 DEF Holding
    <2> QED
        BY <2>2, <2>3, <2>4, <2>5
<1> QED
    BY <1>1, <1>2

LEMMA AbortHolding ==
    ASSUME Types, NEW r \in Runs, run' = [run EXCEPT ![r] = Idle]
    PROVE  /\ run' \in [Runs -> Holding]
           /\ \A q \in Runs : q # r => run'[q] = run[q]
           /\ run'[r].pc = "idle" /\ run'[r].known = {}
BY IdleHolding DEF Types, RunsTyped

\* A run that goes to another step keeps what it holds.
LEMMA ToHolding ==
    ASSUME Types, NEW r \in Runs, NEW pc \in Pcs, To(r, pc)
    PROVE  /\ run' \in [Runs -> Holding]
           /\ \A q \in Runs : q # r => run'[q] = run[q]
           /\ run'[r] = [run[r] EXCEPT !.pc = pc]
           /\ run'[r].pc = pc /\ run'[r].todo = run[r].todo /\ run'[r].known = run[r].known
           /\ run'[r].verdict = run[r].verdict
<1>1. run[r] \in Holding /\ run \in [Runs -> Holding]
    BY DEF Types, RunsTyped
<1>2. run' = [run EXCEPT ![r].pc = pc]
    BY DEF To
<1> QED
    BY <1>1, <1>2 DEF Holding

\* A step of one run keeps every run typed, if it leaves that one typed.
LEMMA OneRunTyped ==
    ASSUME Types, NEW r \in Runs,
           run' \in [Runs -> Holding],
           \A q \in Runs : q # r => run'[q] = run[q],
           run'[r].pc # "idle" => run'[r].todo # <<>>
    PROVE  RunsTyped'
BY DEF Types, RunsTyped, At

LEMMA NextGapTyped ==
    ASSUME Types, NEW r \in Runs, ~At(r, "idle"), NextGap(r)
    PROVE  RunsTyped' /\ open' \in SUBSET Runs
BY NextGapHolding, OneRunTyped DEF Types

LEMMA AbortTyped ==
    ASSUME Types, NEW r \in Runs, Abort(r)
    PROVE  RunsTyped' /\ open' \in SUBSET Runs
BY AbortHolding, OneRunTyped DEF Types, Abort

LEMMA ToTyped ==
    ASSUME Types, NEW r \in Runs, ~At(r, "idle"), NEW pc \in Pcs, To(r, pc)
    PROVE  RunsTyped'
<1>1. run'[r].todo = run[r].todo /\ run[r].todo # <<>>
    BY ToHolding DEF Types, RunsTyped
<1> QED
    BY <1>1, ToHolding, OneRunTyped

-----------------------------------------------------------------------------
(* Types                                                                   *)

LEMMA InitTypes == Init => Types
<1> SUFFICES ASSUME Init PROVE Types
    OBVIOUS
<1>1. RunsTyped
    BY IdleHolding DEF Init, RunsTyped, At
<1>2. branch \in [Detectors -> [gap : CodeGaps \cup {"none"}, verdict : Verdicts]]
      /\ \A d \in Detectors : branch[d] = NoChange
    BY DEF Init, NoChange, Verdicts
<1> QED
    BY <1>1, <1>2 DEF Init, Types

\* The steps up to the first model call.
LEMMA BatchTypes ==
    ASSUME Types, NEW r \in Runs,
           Start(r) \/ EnterCodeLane(r) \/ Skip(r) \/ SpendGateRefuses(r)
             \/ HardError(r) \/ Spend(r)
    PROVE  Types'
<1>1. CASE Start(r)
    <2>1. PICK b \in Batches :
              run' = [run EXCEPT ![r] = [Idle EXCEPT !.pc = "next", !.todo = b, !.known = file]]
        BY <1>1 DEF Start
    <2>2. b \in Seq(Gaps) /\ b # <<>> /\ file \in SUBSET Gaps
        BY <1>1, SelfExtAssumption DEF Start, Types
    <2> DEFINE h == [Idle EXCEPT !.pc = "next", !.todo = b, !.known = file]
    <2>3. h \in Holding /\ h.todo = b
        BY <2>2, IdleHolding DEF Holding, Pcs
    <2> HIDE DEF h
    <2>4. run' \in [Runs -> Holding] /\ run'[r] = h /\ \A q \in Runs : q # r => run'[q] = run[q]
        BY <2>1, <2>3 DEF h, Types, RunsTyped
    <2>5. RunsTyped'
        BY <2>2, <2>3, <2>4, OneRunTyped
    <2>6. forgetful' \in BOOLEAN
        <3>1. forgetful' = (forgetful \/ \E q \in Runs \ {r} : ~At(q, "idle"))
            BY <1>1 DEF Start
        <3> QED
            BY <3>1, Zenon
    <2>7. starts' \in Nat
        <3>1. starts' = starts + 1
            BY <1>1, Zenon DEF Start
        <3> QED
            BY <3>1 DEF Types
    <2>8. UNCHANGED <<file, fixed, open, outputs, judged, faults>>
        BY <1>1 DEF Start
    <2> QED
        BY <2>5, <2>6, <2>7, <2>8 DEF Types, fixed, outputs
<1>2. CASE EnterCodeLane(r)
    <2>0. ~At(r, "idle")
        BY <1>2 DEF EnterCodeLane, At
    <2>1. CASE Abort(r)
        BY <1>2, <2>1, AbortTyped DEF EnterCodeLane, Types, fixed, outputs, bounds
    <2>2. CASE file # Torn /\ ReloadRejects(r) /\ UNCHANGED open
        <3>1. run[r] \in Holding /\ run \in [Runs -> Holding] /\ file \in SUBSET Gaps
                /\ run[r].todo # <<>>
            BY <2>0, <2>2 DEF Types, RunsTyped
        <3> DEFINE h == [run[r] EXCEPT !.lane = "code", !.known = file]
        <3>2. h \in Holding /\ h.todo = run[r].todo
            BY <3>1 DEF Holding
        <3>3. run' = [run EXCEPT ![r] = h]
            BY <2>2, <3>1 DEF ReloadRejects, Holding
        <3>4. RunsTyped'
            BY <3>1, <3>2, <3>3, OneRunTyped
        <3> QED
            BY <1>2, <2>2, <3>4 DEF EnterCodeLane, Types, fixed, outputs, bounds
    <2> QED
        BY <1>2, <2>1, <2>2 DEF EnterCodeLane
<1>3. CASE Skip(r)
    BY <1>3, NextGapTyped DEF Skip, Ready, At, Types, fixed, outputs, bounds
<1>4. CASE SpendGateRefuses(r)
    BY <1>4, NextGapTyped DEF SpendGateRefuses, Ready, At, Types, fixed, outputs, bounds
<1>5. CASE HardError(r)
    BY <1>5, AbortTyped DEF HardError, Fault, Types, fixed, outputs, bounds
<1>6. CASE Spend(r)
    <2>1. RunsTyped'
        BY <1>6, ToTyped DEF Spend, Ready, At, Pcs
    <2> QED
        BY <1>6, <2>1 DEF Spend, Types, fixed, outputs, bounds
<1> QED
    BY <1>1, <1>2, <1>3, <1>4, <1>5, <1>6

\* Authoring and the verdict.
LEMMA AuthoringTypes ==
    ASSUME Types, NEW r \in Runs,
           Fail(r) \/ Narrate(r) \/ Redrive(r) \/ Author(r) \/ Build(r) \/ Refuse(r) \/ Pass(r)
    PROVE  Types'
<1>0. run[r] \in Holding /\ run \in [Runs -> Holding]
    BY DEF Types, RunsTyped
<1>1. CASE Fail(r)
    BY <1>1, NextGapTyped DEF Fail, At, Types, fixed, outputs, bounds
<1>2. CASE Narrate(r)
    <2>1. RunsTyped'
        BY <1>2, ToTyped DEF Narrate, At, Pcs
    <2> QED
        BY <1>2, <2>1 DEF Narrate, Types, fixed, outputs, bounds
<1>3. CASE Redrive(r)
    <2> DEFINE h == [run[r] EXCEPT !.pc = "author", !.tries = @ + 1]
    <2>1. run[r].tries + 1 \in 0..(MaxAttempts - 1) /\ run[r].todo # <<>>
        BY <1>0, <1>3, SelfExtAssumption DEF Redrive, Holding, At, Types, RunsTyped
    <2>2. h \in Holding /\ h.todo = run[r].todo
        BY <1>0, <2>1 DEF Holding, Pcs
    <2>3. run' = [run EXCEPT ![r] = h]
        BY <1>0, <1>3 DEF Redrive, Holding
    <2>4. RunsTyped'
        BY <1>0, <2>1, <2>2, <2>3, OneRunTyped
    <2> QED
        BY <1>3, <2>4 DEF Redrive, Types, fixed, outputs, bounds
<1>4. CASE Author(r)
    <2>1. RunsTyped'
        BY <1>4, ToTyped DEF Author, At, Pcs
    <2> QED
        BY <1>4, <2>1 DEF Author, Types, fixed, outputs, bounds
<1>5. CASE Build(r)
    <2>1. RunsTyped'
        BY <1>5, ToTyped DEF Build, At, Pcs
    <2> QED
        BY <1>5, <2>1 DEF Build, Types, fixed, outputs, bounds
<1>6. CASE Refuse(r)
    <2> DEFINE h == [run[r] EXCEPT !.pc = "poison", !.verdict = "red"]
    <2>1. h \in Holding /\ h.todo = run[r].todo
        BY <1>0 DEF Holding, Pcs, Verdicts
    <2>2. run' = [run EXCEPT ![r] = h] /\ ~At(r, "idle")
        BY <1>0, <1>6 DEF Refuse, Holding, At
    <2>3. RunsTyped'
        BY <1>0, <2>1, <2>2, OneRunTyped DEF Types, RunsTyped
    <2>4. judged' \in SUBSET Gaps
        BY <1>6, <2>2, GapIsAGap DEF Refuse, Types
    <2> QED
        BY <1>6, <2>3, <2>4 DEF Refuse, Types, fixed, outputs, bounds
<1>7. CASE Pass(r)
    <2>0. PICK v \in {"green", "novel"} :
              run' = [run EXCEPT ![r].pc = "green", ![r].verdict = v]
        BY <1>7 DEF Pass
    <2> DEFINE h == [run[r] EXCEPT !.pc = "green", !.verdict = v]
    <2>1. h \in Holding /\ h.todo = run[r].todo
        BY <1>0 DEF Holding, Pcs, Verdicts
    <2>2. run' = [run EXCEPT ![r] = h] /\ ~At(r, "idle")
        BY <1>0, <1>7, <2>0 DEF Pass, Holding, At
    <2>3. RunsTyped'
        BY <1>0, <2>1, <2>2, OneRunTyped DEF Types, RunsTyped
    <2> QED
        BY <1>7, <2>3 DEF Pass, Types, fixed, outputs, bounds
<1> QED
    BY <1>1, <1>2, <1>3, <1>4, <1>5, <1>6, <1>7

\* What comes after the verdict, and what may fail.
LEMMA OutcomeTypes ==
    ASSUME Types, NEW r \in Runs,
           Poison(r) \/ Apply(r) \/ WithholdCode(r) \/ Widen(r) \/ HoldForHuman(r) \/ Emit(r)
             \/ OutputFails(r) \/ Panic(r) \/ Kill(r), r \in open => ~At(r, "idle")
    PROVE  Types'
<1>0. run[r] \in Holding /\ run \in [Runs -> Holding]
    BY DEF Types, RunsTyped
<1>1. CASE Poison(r)
    <2>1. RunsTyped'
        BY <1>1, PoisonHolding, OneRunTyped
    <2>2. file' = Torn \/ file' \in SUBSET Gaps
        <3>1. run[r].known \cup {Gap(r)} \in SUBSET Gaps
            BY <1>0, <1>1, GapIsAGap DEF Poison, At, Holding
        <3> QED
            BY <1>1, <3>1 DEF Poison, Types
    <2>3. forgetful' \in BOOLEAN
        BY <1>1, Zenon DEF Poison, Types
    <2>4. faults' \in Nat
        BY <1>1 DEF Poison, Fault, Types
    <2> QED
        BY <1>1, <2>1, <2>2, <2>3, <2>4 DEF Poison, Types, fixed, outputs
<1>2. CASE Apply(r)
    <2>1. RunsTyped'
        BY <1>2, ToTyped DEF Apply, At, Pcs
    <2>2. Gap(r) \in CodeGaps /\ run[r].verdict \in Verdicts
        BY <1>0, <1>2 DEF Apply, InCode, Holding
    <2>3. /\ branch' \in [Detectors -> [gap : CodeGaps \cup {"none"}, verdict : Verdicts]]
          /\ \A d \in Detectors : branch'[d] = NoChange \/ branch'[d].gap \in CodeGaps
        BY <1>2, <2>2 DEF Apply, Types
    <2> QED
        BY <1>2, <2>1, <2>3 DEF Apply, Types, fixed, bounds
<1>3. CASE WithholdCode(r)
    <2>1. RunsTyped'
        BY <1>3, ToTyped DEF WithholdCode, At, Pcs
    <2> QED
        BY <1>3, <2>1 DEF WithholdCode, Types, fixed, outputs, bounds
<1>4. CASE Widen(r)
    <2>1. RunsTyped'
        BY <1>4, ToTyped DEF Widen, At, Pcs
    <2>2. Gap(r) \in DataGaps /\ run[r].verdict \in Verdicts
        BY <1>0, <1>4, GapIsAGap DEF Widen, InCode, Holding, Gaps, At
    <2> QED
        BY <1>4, <2>1, <2>2 DEF Widen, Types, fixed, bounds
<1>5. CASE HoldForHuman(r)
    BY <1>5, NextGapTyped DEF HoldForHuman, At, Types, fixed, outputs, bounds
<1>6. CASE Emit(r)
    <2>1. RunsTyped' /\ open' \in SUBSET Runs
        BY <1>6, NextGapTyped DEF Emit, At
    <2>2. artifacts' \in SUBSET Gaps
        BY <1>6, GapIsAGap DEF Emit, At, Types
    <2> QED
        BY <1>6, <2>1, <2>2 DEF Emit, Types, fixed, bounds
<1>7. CASE OutputFails(r)
    BY <1>7, AbortTyped DEF OutputFails, Fault, Types, fixed, outputs
<1>8. CASE Panic(r)
    <2>1. RunsTyped' /\ open' \in SUBSET Runs
        BY <1>8, NextGapTyped DEF Panic
    <2> QED
        BY <1>8, <2>1 DEF Panic, Fault, Types, fixed, outputs, At
<1>9. CASE Kill(r)
    <2>1. RunsTyped'
        BY <1>9, AbortHolding, OneRunTyped DEF Kill
    <2>2. file' = Torn \/ file' \in SUBSET Gaps
        BY <1>9 DEF Kill, Types
    <2> QED
        BY <1>9, <2>1, <2>2 DEF Kill, Fault, Types, fixed, outputs, At
<1> QED
    BY <1>1, <1>2, <1>3, <1>4, <1>5, <1>6, <1>7, <1>8, <1>9

LEMMA TypesStutter == Types /\ UNCHANGED vars => Types'
BY DEF Types, RunsTyped, At, vars, fixed, outputs, bounds

LEMMA TypesNext == Types /\ SessionsAreClosed /\ [Next]_vars => Types'
<1> SUFFICES ASSUME Types, SessionsAreClosed, [Next]_vars PROVE Types'
    OBVIOUS
<1>1. CASE Next
    <2>1. PICK r \in Runs : Start(r) \/ Step(r) \/ Upset(r)
        BY <1>1 DEF Next
    <2>2. r \in open => ~At(r, "idle")
        BY DEF SessionsAreClosed, At
    <2> QED
        BY <2>1, <2>2, BatchTypes, AuthoringTypes, OutcomeTypes DEF Step, Upset
<1> QED
    BY <1>1, TypesStutter

LEMMA TypesAreOK == Types => TypeOK
<1> SUFFICES ASSUME Types PROVE TypeOK
    OBVIOUS
<1>1. \A r \in Runs :
          /\ run[r].pc \in Pcs /\ run[r].lane \in {"data", "code"}
          /\ run[r].todo \in Seq(Gaps) /\ (~At(r, "idle") => run[r].todo # <<>>)
          /\ run[r].known \in SUBSET Gaps
          /\ run[r].tries \in 0..(MaxAttempts - 1)
          /\ run[r].verdict \in Verdicts
    BY DEF Types, RunsTyped, Holding
<1>2. \A d \in Detectors :
          \/ branch[d] = NoChange
          \/ branch[d].gap \in CodeGaps /\ branch[d].verdict \in Verdicts
    BY DEF Types
<1> QED
    BY <1>1, <1>2 DEF Types, TypeOK

-----------------------------------------------------------------------------
(* Sessions                                                                *)

Working == {"author", "narrated", "build", "gate", "green", "poison", "emit"}

\* A step of one run that leaves its session closed, or the run at work.
LEMMA OneRunClosed ==
    ASSUME SessionsAreClosed, NEW r \in Runs,
           \A q \in Runs : q # r => run'[q] = run[q],
           open' \subseteq open \cup {r}, open' \subseteq Runs,
           r \in open' => run'[r].pc \in Working
    PROVE  SessionsAreClosed'
BY DEF SessionsAreClosed, Working

LEMMA SessionsNext == Types /\ SessionsAreClosed /\ [Next]_vars => SessionsAreClosed'
<1> SUFFICES ASSUME Types, SessionsAreClosed, [Next]_vars PROVE SessionsAreClosed'
    OBVIOUS
<1>1. CASE UNCHANGED vars
    BY <1>1 DEF vars, SessionsAreClosed
<1>2. CASE Next
    <2>0. PICK r \in Runs : Start(r) \/ Step(r) \/ Upset(r)
        BY <1>2 DEF Next
    <2>1. run[r] \in Holding /\ run \in [Runs -> Holding] /\ open \subseteq Runs
        BY DEF Types, RunsTyped
    <2>2. r \in open => run[r].pc \in Working
        BY DEF SessionsAreClosed, Working
    <2>3. CASE ~At(r, "idle") /\ NextGap(r)
        BY <2>1, <2>3, NextGapHolding, OneRunClosed
    <2>4. CASE Abort(r) \/ Kill(r)
        BY <2>1, <2>4, AbortHolding, OneRunClosed DEF Abort, Kill
    <2>5. CASE Start(r)
        <3>1. PICK b \in Batches :
                  run' = [run EXCEPT ![r] = [Idle EXCEPT !.pc = "next", !.todo = b, !.known = file]]
            BY <2>5 DEF Start
        <3>2. open' = open /\ r \notin open
            BY <2>2, <2>5 DEF Start, At, Working
        <3> QED
            BY <2>1, <3>1, <3>2, OneRunClosed
    <2>6. CASE EnterCodeLane(r) /\ ~Abort(r)
        <3>1. run' = [run EXCEPT ![r].lane = "code", ![r].known = file]
              /\ open' = open /\ r \notin open
            BY <2>2, <2>6 DEF EnterCodeLane, ReloadRejects, At, Working
        <3> QED
            BY <2>1, <3>1, OneRunClosed
    <2>7. CASE Spend(r) \/ Narrate(r) \/ Build(r) \/ Apply(r) \/ WithholdCode(r) \/ Widen(r)
        <3>1. PICK pc \in Working : To(r, pc) /\ open' \in {open, open \cup {r}}
            BY <2>7 DEF Spend, Narrate, Build, Apply, WithholdCode, Widen, Working
        <3>2. pc \in Pcs
            BY DEF Working, Pcs
        <3> QED
            BY <2>1, <3>1, <3>2, ToHolding, OneRunClosed
    <2>8. CASE Author(r)
        <3>1. PICK pc \in {"build", "gate"} : To(r, pc) /\ open' \in {open, open \ {r}}
            BY <2>8 DEF Author
        <3>2. pc \in Pcs /\ pc \in Working
            BY DEF Working, Pcs
        <3> QED
            BY <2>1, <3>1, <3>2, ToHolding, OneRunClosed
    <2>9. CASE Redrive(r) \/ Refuse(r) \/ Pass(r)
        <3>1. open' = open /\ run'[r].pc \in {"author", "poison", "green"}
              /\ \A q \in Runs : q # r => run'[q] = run[q]
            BY <2>1, <2>9 DEF Redrive, Refuse, Pass, Holding
        <3> QED
            BY <2>1, <3>1, OneRunClosed DEF Working
    <2>10. CASE Poison(r)
        <3>1. open' = open \ {r}
            BY <2>10 DEF Poison
        <3> QED
            BY <2>1, <2>10, <3>1, PoisonHolding, OneRunClosed
    <2>11. Skip(r) \/ SpendGateRefuses(r) \/ Fail(r) \/ HoldForHuman(r) \/ Emit(r) \/ Panic(r)
             => ~At(r, "idle") /\ NextGap(r)
        BY <2>2 DEF Skip, SpendGateRefuses, Ready, Fail, HoldForHuman, Emit, Panic, At, Working
    <2>12. HardError(r) \/ OutputFails(r) => Abort(r)
        BY DEF HardError, OutputFails
    <2> QED
        BY <2>0, <2>3, <2>4, <2>5, <2>6, <2>7, <2>8, <2>9, <2>10, <2>11, <2>12 DEF Step, Upset
<1> QED
    BY <1>1, <1>2

-----------------------------------------------------------------------------
(* What takes effect                                                       *)

\* A step of one run that reaches "emit" only with its widen in the overlay.
LEMMA OneRunWidened ==
    ASSUME Widened, NEW r \in Runs,
           \A q \in Runs : q # r => run'[q] = run[q],
           overlay \subseteq overlay',
           \/ run'[r].pc # "emit"
           \/ Head(run'[r].todo) \in CodeGaps
           \/ \E w \in overlay' : w.gap = Head(run'[r].todo)
    PROVE  Widened'
BY DEF Widened, At, Gap, InCode

LEMMA WidenedNext == Types /\ SessionsAreClosed /\ Widened /\ [Next]_vars => Widened'
<1> SUFFICES ASSUME Types, SessionsAreClosed, Widened, [Next]_vars PROVE Widened'
    OBVIOUS
<1>1. CASE UNCHANGED vars
    BY <1>1 DEF vars, outputs, Widened, At, Gap, InCode
<1>2. CASE Next
    <2>0. PICK r \in Runs : Start(r) \/ Step(r) \/ Upset(r)
        BY <1>2 DEF Next
    <2>1. run[r] \in Holding /\ run \in [Runs -> Holding]
        BY DEF Types, RunsTyped
    <2>2. r \in open => ~At(r, "idle")
        BY DEF SessionsAreClosed, At
    <2>3. CASE ~At(r, "idle") /\ NextGap(r) /\ UNCHANGED overlay
        BY <2>3, NextGapHolding, OneRunWidened
    <2>4. CASE run' = [run EXCEPT ![r] = Idle] /\ UNCHANGED overlay
        BY <2>4, AbortHolding, OneRunWidened
    <2>5. CASE Start(r)
        <3>1. PICK b \in Batches :
                  run' = [run EXCEPT ![r] = [Idle EXCEPT !.pc = "next", !.todo = b, !.known = file]]
            BY <2>5 DEF Start
        <3>2. run'[r].pc = "next" /\ \A q \in Runs : q # r => run'[q] = run[q]
            BY <2>1, <3>1, IdleHolding DEF Holding
        <3>3. UNCHANGED overlay
            BY <2>5 DEF Start, outputs
        <3> QED
            BY <3>2, <3>3, OneRunWidened
    <2>6. CASE EnterCodeLane(r) /\ ~Abort(r)
        <3>1. run' = [run EXCEPT ![r].lane = "code", ![r].known = file]
              /\ UNCHANGED overlay /\ run[r].pc = "next"
            BY <2>6 DEF EnterCodeLane, ReloadRejects, At, outputs
        <3>2. run'[r].pc = "next" /\ \A q \in Runs : q # r => run'[q] = run[q]
            BY <2>1, <3>1 DEF Holding
        <3> QED
            BY <3>1, <3>2, OneRunWidened
    <2>7. CASE Spend(r) \/ Narrate(r) \/ Build(r) \/ Author(r)
        <3>1. PICK pc \in {"author", "narrated", "build", "gate"} : To(r, pc) /\ UNCHANGED overlay
            BY <2>7 DEF Spend, Narrate, Build, Author, outputs
        <3>2. pc \in Pcs /\ pc # "emit"
            BY DEF Pcs
        <3> QED
            BY <3>1, <3>2, ToHolding, OneRunWidened
    <2>8. CASE Apply(r) \/ WithholdCode(r)
        <3>1. To(r, "emit") /\ Head(run[r].todo) \in CodeGaps /\ UNCHANGED overlay /\ "emit" \in Pcs
            BY <2>8 DEF Apply, WithholdCode, InCode, Gap, outputs, Pcs
        <3> QED
            BY <3>1, ToHolding, OneRunWidened
    <2>9. CASE Widen(r)
        <3>1. /\ To(r, "emit") /\ "emit" \in Pcs
              /\ overlay' = overlay \cup {[gap |-> Head(run[r].todo), verdict |-> run[r].verdict]}
            BY <2>9 DEF Widen, Gap, Pcs
        <3>2. run'[r].todo = run[r].todo /\ \A q \in Runs : q # r => run'[q] = run[q]
            BY <3>1, ToHolding
        <3>3. \E w \in overlay' : w.gap = Head(run'[r].todo)
            <4> DEFINE w == [gap |-> Head(run[r].todo), verdict |-> run[r].verdict]
            <4>1. w \in overlay' /\ w.gap = Head(run'[r].todo)
                BY <3>1, <3>2
            <4> QED
                BY <4>1
        <3> QED
            BY <3>1, <3>2, <3>3, OneRunWidened
    <2>10. CASE Redrive(r) \/ Refuse(r) \/ Pass(r)
        <3>1. run'[r].pc \in {"author", "poison", "green"} /\ UNCHANGED overlay
              /\ \A q \in Runs : q # r => run'[q] = run[q]
            BY <2>1, <2>10 DEF Redrive, Refuse, Pass, Holding, outputs
        <3> QED
            BY <3>1, OneRunWidened
    <2>11. CASE Poison(r)
        <3>1. UNCHANGED overlay
            BY <2>11 DEF Poison, outputs
        <3> QED
            BY <2>11, <3>1, PoisonHolding, OneRunWidened
    <2>12. Skip(r) \/ SpendGateRefuses(r) \/ Fail(r) \/ HoldForHuman(r) \/ Emit(r) \/ Panic(r)
             => ~At(r, "idle") /\ NextGap(r) /\ UNCHANGED overlay
        BY <2>2 DEF Skip, SpendGateRefuses, Ready, Fail, HoldForHuman, Emit, Panic, At, outputs
    <2>13. HardError(r) \/ OutputFails(r) \/ Kill(r) \/ (EnterCodeLane(r) /\ Abort(r))
             => run' = [run EXCEPT ![r] = Idle] /\ UNCHANGED overlay
        BY DEF HardError, OutputFails, Kill, EnterCodeLane, Abort, outputs
    <2> QED
        BY <2>0, <2>3, <2>4, <2>5, <2>6, <2>7, <2>8, <2>9, <2>10, <2>11, <2>12, <2>13 DEF Step, Upset
<1> QED
    BY <1>1, <1>2

LEMMA CertifiedNext ==
    Types /\ Widened /\ OnlyCertifiedIsApplied /\ [Next]_vars => OnlyCertifiedIsApplied'
<1> SUFFICES ASSUME Types, Widened, OnlyCertifiedIsApplied, [Next]_vars
             PROVE  OnlyCertifiedIsApplied'
    OBVIOUS
<1>1. CASE UNCHANGED <<dial, consent, branch, overlay, artifacts>>
    BY <1>1 DEF OnlyCertifiedIsApplied
<1>2. CASE \E r \in Runs : Apply(r)
    <2>1. PICK r \in Runs : Apply(r)
        BY <1>2
    <2>2. /\ dial = "fully" /\ run[r].verdict = "green" /\ Gap(r) \in CodeGaps
          /\ branch' = [branch EXCEPT ![Detector[Gap(r)]] = [gap |-> Gap(r), verdict |-> run[r].verdict]]
          /\ UNCHANGED <<dial, consent, overlay, artifacts>>
        BY <2>1 DEF Apply, AutoAppliesCode, Certified, InCode, fixed
    <2>3. ASSUME NEW d \in Detectors, branch'[d] # NoChange
          PROVE  dial = "fully" /\ branch'[d].verdict = "green" /\ Detector[branch'[d].gap] = d
        <3>1. CASE d = Detector[Gap(r)]
            BY <2>2, <3>1 DEF Types
        <3>2. CASE d # Detector[Gap(r)]
            BY <2>2, <2>3, <3>2 DEF Types, OnlyCertifiedIsApplied
        <3> QED
            BY <3>1, <3>2
    <2> QED
        BY <2>2, <2>3 DEF OnlyCertifiedIsApplied
<1>3. CASE \E r \in Runs : Widen(r)
    <2>1. PICK r \in Runs : Widen(r)
        BY <1>3
    <2>2. /\ dial # "non" /\ run[r].verdict = "green"
          /\ overlay' = overlay \cup {[gap |-> Gap(r), verdict |-> run[r].verdict]}
          /\ UNCHANGED <<dial, consent, branch, artifacts>>
        BY <2>1 DEF Widen, AutoAppliesData, Certified, fixed
    <2> QED
        BY <2>2 DEF OnlyCertifiedIsApplied
<1>4. CASE \E r \in Runs : Emit(r)
    <2>1. PICK r \in Runs : Emit(r)
        BY <1>4
    <2>2. PICK universal \in BOOLEAN :
              artifacts' = IF InCode(r) \/ (consent /\ universal) THEN artifacts \cup {Gap(r)}
                           ELSE artifacts
        BY <2>1 DEF Emit
    <2>3. UNCHANGED <<dial, consent, branch, overlay>> /\ At(r, "emit")
        BY <2>1 DEF Emit, fixed
    <2>4. CASE InCode(r)
        <3>1. Gap(r) \notin DataGaps /\ artifacts' \subseteq artifacts \cup {Gap(r)}
            BY <2>2, <2>4, SelfExtAssumption DEF InCode
        <3> QED
            BY <2>3, <3>1 DEF OnlyCertifiedIsApplied
    <2>5. CASE ~InCode(r) /\ consent
        <3>1. \E w \in overlay : w.gap = Gap(r)
            BY <2>3, <2>5 DEF Widened
        <3>2. artifacts' \subseteq artifacts \cup {Gap(r)}
            BY <2>2
        <3> QED
            BY <2>3, <2>5, <3>1, <3>2 DEF OnlyCertifiedIsApplied
    <2>6. CASE ~InCode(r) /\ ~consent
        BY <2>2, <2>3, <2>6 DEF OnlyCertifiedIsApplied
    <2> QED
        BY <2>4, <2>5, <2>6
<1>5. CASE UNCHANGED vars
    BY <1>1, <1>5 DEF vars, fixed, outputs
<1>6. CASE Next
    <2>0. PICK r \in Runs : Start(r) \/ Step(r) \/ Upset(r)
        BY <1>6 DEF Next
    <2>1. Start(r) \/ EnterCodeLane(r) \/ Skip(r) \/ SpendGateRefuses(r) \/ Spend(r)
            => UNCHANGED <<dial, consent, branch, overlay, artifacts>>
        BY DEF Start, EnterCodeLane, Skip, SpendGateRefuses, Spend, fixed, outputs
    <2>2. Fail(r) \/ Narrate(r) \/ Redrive(r) \/ Author(r) \/ Build(r) \/ Refuse(r) \/ Pass(r)
            => UNCHANGED <<dial, consent, branch, overlay, artifacts>>
        BY DEF Fail, Narrate, Redrive, Author, Build, Refuse, Pass, fixed, outputs
    <2>3. Poison(r) \/ WithholdCode(r) \/ HoldForHuman(r) \/ Upset(r)
            => UNCHANGED <<dial, consent, branch, overlay, artifacts>>
        BY DEF Poison, WithholdCode, HoldForHuman, Upset, HardError, OutputFails, Panic, Kill,
               fixed, outputs
    <2> QED
        BY <1>1, <1>2, <1>3, <1>4, <2>0, <2>1, <2>2, <2>3 DEF Step
<1> QED
    BY <1>5, <1>6

-----------------------------------------------------------------------------
(* The reject set                                                          *)

\* The steps that refuse nothing, write nothing and, unless they pay for a gap
\* that is not a known reject, start nothing.
LEMMA QuietStep ==
    ASSUME Types, RejectInv, NEW r \in Runs, ~At(r, "idle"), ~At(r, "poison"),
           \A q \in Runs : q # r => run'[q] = run[q],
           UNCHANGED <<file, judged, forgetful>>,
           run'[r].pc # "poison",
           run'[r].known \subseteq run[r].known,
           run'[r].pc # "idle" => run'[r].known = run[r].known,
           run'[r].pc \in {"author", "narrated"} =>
               /\ run'[r].todo = run[r].todo
               /\ run[r].pc \in {"author", "narrated"} \/ Gap(r) \notin run[r].known
    PROVE  RejectInv'
<1>1. OnlyTheJudged' /\ KnowsTheJudged'
    BY DEF RejectInv, OnlyTheJudged, KnowsTheJudged, At, Gap
<1>2. Mirrored'
    BY DEF RejectInv, Mirrored, At
<1>3. RejectsArePersisted'
    <2> SUFFICES ASSUME ~forgetful, NEW g \in judged, g \notin file
                 PROVE  \E q \in Runs : At(q, "poison")' /\ (Gap(q) = g)'
        BY DEF RejectInv, RejectsArePersisted
    <2>1. PICK q \in Runs : At(q, "poison") /\ Gap(q) = g
        BY DEF RejectInv, RejectsArePersisted
    <2>2. q # r
        BY <2>1
    <2> QED
        BY <2>1, <2>2 DEF At, Gap
<1>4. Untried'
    <2> SUFFICES ASSUME ~forgetful, NEW q \in Runs, run'[q].pc \in {"author", "narrated"}
                 PROVE  Head(run'[q].todo) \notin judged
        BY DEF Untried, Gap
    <2>1. CASE q # r
        BY <2>1 DEF RejectInv, Untried, Gap
    <2>2. CASE q = r /\ run[r].pc \in {"author", "narrated"}
        BY <2>2 DEF RejectInv, Untried, Gap
    <2>3. CASE q = r /\ Gap(r) \notin run[r].known
        <3>1. Gap(r) \notin file /\ \A s \in Runs : ~At(s, "idle") => s = r
            BY <2>3 DEF RejectInv, Mirrored
        <3>2. ~ \E s \in Runs : At(s, "poison")
            BY <3>1 DEF At
        <3>3. Gap(r) \notin judged
            BY <3>1, <3>2 DEF RejectInv, RejectsArePersisted
        <3> QED
            BY <2>3, <3>3 DEF Gap
    <2> QED
        BY <2>1, <2>2, <2>3
<1> QED
    BY <1>1, <1>2, <1>3, <1>4 DEF RejectInv

\* Once rejects may be forgotten, all that is left is that none is invented.
LEMMA ForgottenStep ==
    ASSUME RejectInv, NEW r \in Runs, forgetful',
           \A q \in Runs : q # r => run'[q] = run[q],
           judged' = judged,
           file' # Torn => file' \subseteq judged,
           run'[r].pc # "poison", run'[r].known \subseteq judged
    PROVE  RejectInv'
BY DEF RejectInv, OnlyTheJudged, KnowsTheJudged, Mirrored, RejectsArePersisted, Untried, At, Gap

LEMMA StartRejects ==
    ASSUME Types, RejectInv, NEW r \in Runs, Start(r)
    PROVE  RejectInv'
<1>1. PICK b \in Batches :
          run' = [run EXCEPT ![r] = [Idle EXCEPT !.pc = "next", !.todo = b, !.known = file]]
    BY DEF Start
<1>2. /\ run'[r].pc = "next" /\ run'[r].known = file
      /\ \A q \in Runs : q # r => run'[q] = run[q]
    BY <1>1, IdleHolding DEF Types, RunsTyped, Holding
<1>3. file # Torn /\ file' = file /\ judged' = judged /\ run[r].pc = "idle"
    BY DEF Start, At
<1>4. forgetful' = (forgetful \/ \E q \in Runs \ {r} : ~At(q, "idle"))
    BY DEF Start
<1>5. file \subseteq judged
    BY <1>3 DEF RejectInv, OnlyTheJudged
<1>6. CASE forgetful'
    BY <1>2, <1>3, <1>5, <1>6, ForgottenStep
<1>7. CASE ~forgetful'
    <2>1. ~forgetful /\ \A q \in Runs : q # r => run[q].pc = "idle"
        BY <1>4, <1>7 DEF At
    <2>2. Mirrored' /\ Untried'
        BY <1>2, <1>3, <2>1 DEF Mirrored, Untried, At
    <2>3. OnlyTheJudged' /\ KnowsTheJudged'
        BY <1>2, <1>3, <1>5, <2>1 DEF RejectInv, OnlyTheJudged, KnowsTheJudged, At, Gap
    <2>4. RejectsArePersisted'
        BY <1>2, <1>3, <2>1 DEF RejectInv, RejectsArePersisted, At
    <2> QED
        BY <2>2, <2>3, <2>4 DEF RejectInv
<1> QED
    BY <1>6, <1>7

LEMMA ReloadKeeps ==
    ASSUME Types, RejectInv, NEW r \in Runs, EnterCodeLane(r), ~Abort(r)
    PROVE  RejectInv'
<1>1. /\ run' = [run EXCEPT ![r].lane = "code", ![r].known = file]
      /\ file # Torn /\ run[r].pc = "next" /\ UNCHANGED <<file, judged, forgetful>>
    BY DEF EnterCodeLane, ReloadRejects, At
<1>2. /\ run'[r].pc = "next" /\ run'[r].known = file
      /\ \A q \in Runs : q # r => run'[q] = run[q]
    BY <1>1 DEF Types, RunsTyped, Holding
<1>3. OnlyTheJudged' /\ KnowsTheJudged'
    <2>1. file \subseteq judged
        BY <1>1 DEF RejectInv, OnlyTheJudged
    <2>2. ASSUME NEW q \in Runs
          PROVE  /\ run'[q].known \subseteq judged
                 /\ run'[q].pc = "poison" => Head(run'[q].todo) \in judged
        <3>1. CASE q = r
            BY <1>2, <2>1, <3>1
        <3>2. CASE q # r
            BY <1>2, <3>2 DEF RejectInv, KnowsTheJudged, At, Gap
        <3> QED
            BY <3>1, <3>2
    <2> QED
        BY <1>1, <2>1, <2>2 DEF OnlyTheJudged, KnowsTheJudged, At, Gap
<1>4. Mirrored' /\ Untried'
    BY <1>1, <1>2 DEF RejectInv, Mirrored, Untried, At, Gap
<1>5. RejectsArePersisted'
    <2> SUFFICES ASSUME ~forgetful, NEW g \in judged, g \notin file
                 PROVE  \E q \in Runs : At(q, "poison")' /\ (Gap(q) = g)'
        BY <1>1 DEF RejectInv, RejectsArePersisted
    <2>1. PICK q \in Runs : At(q, "poison") /\ Gap(q) = g
        BY DEF RejectInv, RejectsArePersisted
    <2>2. q # r
        BY <1>1, <2>1 DEF At
    <2> QED
        BY <1>2, <2>1, <2>2 DEF At, Gap
<1> QED
    BY <1>3, <1>4, <1>5 DEF RejectInv

LEMMA RefuseRejects ==
    ASSUME Types, RejectInv, NEW r \in Runs, Refuse(r)
    PROVE  RejectInv'
<1>1. /\ run' = [run EXCEPT ![r].pc = "poison", ![r].verdict = "red"]
      /\ judged' = judged \cup {Gap(r)} /\ UNCHANGED <<file, forgetful>>
      /\ run[r].pc \in {"author", "gate"}
    BY DEF Refuse, At
<1>2. /\ run'[r].pc = "poison" /\ run'[r].known = run[r].known /\ run'[r].todo = run[r].todo
      /\ \A q \in Runs : q # r => run'[q] = run[q]
    BY <1>1 DEF Types, RunsTyped, Holding
<1>3. OnlyTheJudged' /\ KnowsTheJudged'
    <2>1. file # Torn => file \subseteq judged'
        BY <1>1 DEF RejectInv, OnlyTheJudged
    <2>2. ASSUME NEW q \in Runs
          PROVE  /\ run'[q].known \subseteq judged'
                 /\ run'[q].pc = "poison" => Head(run'[q].todo) \in judged'
        <3>1. run[q].known \subseteq judged /\ (run[q].pc = "poison" => Head(run[q].todo) \in judged)
            BY DEF RejectInv, KnowsTheJudged, At, Gap
        <3>0. judged \subseteq judged' /\ Head(run[r].todo) \in judged'
            BY <1>1 DEF Gap
        <3>2. CASE q = r
            BY <1>2, <3>0, <3>1, <3>2
        <3>3. CASE q # r
            BY <1>2, <3>0, <3>1, <3>3
        <3> QED
            BY <3>2, <3>3
    <2> QED
        BY <1>1, <2>1, <2>2 DEF OnlyTheJudged, KnowsTheJudged, At, Gap
<1>4. Mirrored'
    <2>1. \A q \in Runs : /\ (run'[q].pc = "idle") = (run[q].pc = "idle")
                         /\ run'[q].known = run[q].known
        BY <1>1, <1>2
    <2> QED
        BY <1>1, <2>1 DEF RejectInv, Mirrored, At
<1>5. Untried'
    <2> SUFFICES ASSUME ~forgetful, NEW q \in Runs, run'[q].pc \in {"author", "narrated"}
                 PROVE  Head(run'[q].todo) \notin judged'
        BY <1>1 DEF Untried, Gap
    <2>1. q # r
        BY <1>2
    <2>2. run[q].pc # "idle" /\ run[r].pc # "idle"
        BY <1>1, <1>2, <2>1
    <2> QED
        BY <2>1, <2>2 DEF RejectInv, Mirrored, At
<1>6. RejectsArePersisted'
    <2> SUFFICES ASSUME ~forgetful
                 PROVE  /\ file # Torn
                        /\ \A g \in judged' : g \in file \/ \E q \in Runs :
                               run'[q].pc = "poison" /\ Head(run'[q].todo) = g
        BY <1>1 DEF RejectsArePersisted, At, Gap
    <2>1. \A q \in Runs : run[q].pc = "poison" => q # r /\ run'[q] = run[q]
        BY <1>1, <1>2
    <2>2. file # Torn /\ \A g \in judged : g \in file \/ \E q \in Runs :
                               run[q].pc = "poison" /\ Head(run[q].todo) = g
        BY DEF RejectInv, RejectsArePersisted, At, Gap
    <2>3. ASSUME NEW g \in judged', g \notin file
          PROVE  \E q \in Runs : run'[q].pc = "poison" /\ Head(run'[q].todo) = g
        <3>1. CASE g = Head(run[r].todo)
            BY <1>2, <3>1
        <3>2. CASE g # Head(run[r].todo)
            <4>1. PICK q \in Runs : run[q].pc = "poison" /\ Head(run[q].todo) = g
                BY <1>1, <2>2, <2>3, <3>2 DEF Gap
            <4> QED
                BY <2>1, <4>1
        <3> QED
            BY <3>1, <3>2
    <2> QED
        BY <1>1, <2>2, <2>3
<1> QED
    BY <1>3, <1>4, <1>5, <1>6 DEF RejectInv

LEMMA PoisonRejects ==
    ASSUME Types, RejectInv, NEW r \in Runs, Poison(r)
    PROVE  RejectInv'
<1> DEFINE known == run[r].known \cup {Gap(r)}
<1>1. /\ \/ file' = known /\ UNCHANGED forgetful
         \/ file' \in {file, Torn} /\ forgetful' = TRUE
      /\ judged' = judged /\ run[r].pc = "poison"
    BY DEF Poison, At
<1>2. known \subseteq judged
    BY <1>1 DEF RejectInv, KnowsTheJudged, At
<1>3. /\ \A q \in Runs : q # r => run'[q] = run[q]
      /\ run'[r].pc \in {"idle", "next"} /\ run'[r].known \subseteq known
      /\ run'[r].pc # "idle" => run'[r].known = known
    BY PoisonHolding
<1>4. CASE forgetful'
    <2>1. file' # Torn => file' \subseteq judged
        BY <1>1, <1>2 DEF RejectInv, OnlyTheJudged
    <2> QED
        BY <1>1, <1>2, <1>3, <1>4, <2>1, ForgottenStep
<1>5. CASE ~forgetful'
    <2>1. file' = known /\ ~forgetful
        BY <1>1, <1>5
    <2>2. \A q \in Runs : q # r => run[q].pc = "idle"
        BY <1>1, <2>1 DEF RejectInv, Mirrored, At
    <2>3. file = run[r].known
        BY <1>1, <2>1 DEF RejectInv, Mirrored, At
    <2>4. OnlyTheJudged' /\ KnowsTheJudged'
        BY <1>1, <1>2, <1>3, <2>1, <2>2 DEF RejectInv, OnlyTheJudged, KnowsTheJudged, At, Gap
    <2>5. Mirrored' /\ Untried'
        BY <1>3, <2>1, <2>2 DEF Mirrored, Untried, At
    <2>6. RejectsArePersisted'
        <3>1. known # Torn
            <4>1. known \in SUBSET Gaps
                BY <1>1, GapIsAGap DEF Types, RunsTyped, Holding, At
            <4> QED
                BY <4>1, SelfExtAssumption DEF Torn
        <3>2. \A g \in judged : g \in known
            <4> SUFFICES ASSUME NEW g \in judged, g \notin file PROVE g = Gap(r)
                BY <2>3
            <4>1. PICK q \in Runs : At(q, "poison") /\ Gap(q) = g
                BY <2>1 DEF RejectInv, RejectsArePersisted
            <4> QED
                BY <2>2, <4>1 DEF At
        <3> QED
            BY <1>1, <2>1, <3>1, <3>2 DEF RejectsArePersisted
    <2> QED
        BY <2>4, <2>5, <2>6 DEF RejectInv
<1> QED
    BY <1>4, <1>5

LEMMA RejectsNext == Types /\ SessionsAreClosed /\ RejectInv /\ [Next]_vars => RejectInv'
<1> SUFFICES ASSUME Types, SessionsAreClosed, RejectInv, [Next]_vars PROVE RejectInv'
    OBVIOUS
<1>1. CASE UNCHANGED vars
    BY <1>1 DEF vars, RejectInv, OnlyTheJudged, KnowsTheJudged, Mirrored, RejectsArePersisted,
                Untried, At, Gap
<1>2. CASE Next
    <2>0. PICK r \in Runs : Start(r) \/ Step(r) \/ Upset(r)
        BY <1>2 DEF Next
    <2>1. run[r] \in Holding /\ run \in [Runs -> Holding]
        BY DEF Types, RunsTyped
    <2>2. r \in open => ~At(r, "idle")
        BY DEF SessionsAreClosed, At
    <2>3. CASE ~At(r, "idle") /\ ~At(r, "poison") /\ NextGap(r) /\ UNCHANGED <<file, judged, forgetful>>
        BY <2>3, NextGapHolding, QuietStep
    <2>4. CASE ~At(r, "idle") /\ ~At(r, "poison") /\ run' = [run EXCEPT ![r] = Idle]
                 /\ UNCHANGED <<file, judged, forgetful>>
        BY <2>4, AbortHolding, QuietStep
    <2>5. CASE Spend(r)
        <3>1. /\ To(r, "author") /\ "author" \in Pcs /\ UNCHANGED <<file, judged, forgetful>>
              /\ run[r].pc = "next" /\ Gap(r) \notin run[r].known
            BY <2>5 DEF Spend, Ready, At, Pcs
        <3> QED
            BY <3>1, ToHolding, QuietStep DEF At
    <2>6. CASE Narrate(r) \/ Build(r) \/ Author(r) \/ Apply(r) \/ WithholdCode(r) \/ Widen(r)
        <3>1. PICK pc \in {"narrated", "build", "gate", "emit"} :
                  /\ To(r, pc) /\ UNCHANGED <<file, judged, forgetful>>
                  /\ run[r].pc \in {"author", "build", "green"}
                  /\ pc = "narrated" => run[r].pc = "author"
            BY <2>6 DEF Narrate, Build, Author, Apply, WithholdCode, Widen, At
        <3>2. pc \in Pcs
            BY DEF Pcs
        <3> QED
            BY <3>1, <3>2, ToHolding, QuietStep DEF At
    <2>7. CASE Redrive(r) \/ Pass(r)
        <3>1. /\ run'[r].pc \in {"author", "green"}
              /\ run'[r].pc = "author" => run[r].pc = "narrated"
              /\ run[r].pc \in {"narrated", "gate"}
              /\ run'[r].known = run[r].known /\ run'[r].todo = run[r].todo
              /\ \A q \in Runs : q # r => run'[q] = run[q]
              /\ UNCHANGED <<file, judged, forgetful>>
            BY <2>1, <2>7 DEF Redrive, Pass, Holding, At
        <3> QED
            BY <3>1, QuietStep DEF At
    <2>8. CASE Panic(r) /\ At(r, "poison")
        <3>1. /\ NextGap(r) /\ ~At(r, "idle") /\ forgetful' /\ UNCHANGED <<file, judged>>
            BY <2>2, <2>8 DEF Panic
        <3>2. /\ run'[r].pc # "poison" /\ run'[r].known \subseteq judged
              /\ \A q \in Runs : q # r => run'[q] = run[q]
            BY <3>1, NextGapHolding DEF RejectInv, KnowsTheJudged
        <3> QED
            BY <3>1, <3>2, ForgottenStep DEF RejectInv, OnlyTheJudged
    <2>9. CASE Kill(r) /\ At(r, "poison")
        <3>1. /\ run' = [run EXCEPT ![r] = Idle] /\ forgetful' /\ file' \in {file, Torn}
              /\ UNCHANGED judged
            BY <2>9 DEF Kill
        <3>2. /\ run'[r].pc # "poison" /\ run'[r].known \subseteq judged
              /\ \A q \in Runs : q # r => run'[q] = run[q]
            BY <3>1, AbortHolding
        <3> QED
            BY <3>1, <3>2, ForgottenStep DEF RejectInv, OnlyTheJudged
    <2>10. Skip(r) \/ SpendGateRefuses(r) \/ Fail(r) \/ HoldForHuman(r) \/ Emit(r)
             => ~At(r, "idle") /\ ~At(r, "poison") /\ NextGap(r) /\ UNCHANGED <<file, judged, forgetful>>
        BY DEF Skip, SpendGateRefuses, Ready, Fail, HoldForHuman, Emit, At
    <2>11. HardError(r) \/ OutputFails(r) \/ (EnterCodeLane(r) /\ Abort(r))
             => ~At(r, "idle") /\ ~At(r, "poison") /\ run' = [run EXCEPT ![r] = Idle]
                /\ UNCHANGED <<file, judged, forgetful>>
        BY DEF HardError, OutputFails, EnterCodeLane, Ready, Abort, At
    <2>12. Panic(r) /\ ~At(r, "poison")
             => ~At(r, "idle") /\ NextGap(r) /\ UNCHANGED <<file, judged, forgetful>>
        BY <2>2 DEF Panic, Types
    <2>13. Kill(r) /\ ~At(r, "poison")
             => ~At(r, "idle") /\ run' = [run EXCEPT ![r] = Idle] /\ UNCHANGED <<file, judged, forgetful>>
        BY DEF Kill, Types
    <2> QED
        BY <2>0, <2>3, <2>4, <2>5, <2>6, <2>7, <2>8, <2>9, <2>10, <2>11, <2>12, <2>13,
           StartRejects, ReloadKeeps, RefuseRejects, PoisonRejects DEF Step, Upset
<1> QED
    BY <1>1, <1>2

-----------------------------------------------------------------------------
(* The theorems                                                            *)

LEMMA InitIInv == Init => IInv
<1> SUFFICES ASSUME Init PROVE IInv
    OBVIOUS
<1>1. Types
    BY InitTypes
<1>2. \A r \in Runs : run[r].pc = "idle" /\ run[r].known = {}
    BY IdleHolding DEF Init
<1>3. Widened /\ SessionsAreClosed
    BY <1>2 DEF Init, Widened, SessionsAreClosed, At
<1>4. OnlyCertifiedIsApplied
    BY DEF Init, OnlyCertifiedIsApplied
<1>5. {} # Torn
    BY DEF Torn
<1>6. RejectInv
    BY <1>2, <1>5 DEF Init, RejectInv, OnlyTheJudged, KnowsTheJudged, Mirrored,
                      RejectsArePersisted, Untried, At
<1> QED
    BY <1>1, <1>3, <1>4, <1>6 DEF IInv

LEMMA NextIInv == IInv /\ [Next]_vars => IInv'
BY TypesNext, WidenedNext, CertifiedNext, SessionsNext, RejectsNext DEF IInv

LEMMA AlwaysIInv == Spec => []IInv
<1> QED
    BY InitIInv, NextIInv, PTL DEF Spec

\* Every variable of the engine keeps its type, and a gap is driven again at
\* most MaxAttempts - 1 times.
THEOREM TypeCorrect == Spec => []TypeOK
<1>1. IInv => TypeOK
    BY TypesAreOK DEF IInv
<1> QED
    BY <1>1, AlwaysIInv, PTL

\* No run at any dial puts in effect what the gate did not certify, nor offers
\* to others what is not in the tenant's overlay.
THEOREM NothingUncertified == Spec => []OnlyCertifiedIsApplied
<1>1. IInv => OnlyCertifiedIsApplied
    BY DEF IInv
<1> QED
    BY <1>1, AlwaysIInv, PTL

\* No error, panic or kill leaves a session or a worktree open behind its gap.
THEOREM NothingLeftOpen == Spec => []SessionsAreClosed
<1>1. IInv => SessionsAreClosed
    BY DEF IInv
<1> QED
    BY <1>1, AlwaysIInv, PTL

\* The reject set holds only what was refused; while runs do not overlap and no
\* write of it is lost it holds all of it, and none of it is paid for again.
THEOREM RejectsAreExact == Spec => []RejectSetIsExact
<1>1. IInv => RejectSetIsExact
    <2> SUFFICES ASSUME IInv PROVE RejectSetIsExact
        OBVIOUS
    <2>1. OnlyTheJudged /\ RejectsArePersisted
        BY DEF IInv, RejectInv
    <2>2. RejectsAreNotRetried
        BY DEF IInv, RejectInv, Untried, RejectsAreNotRetried, At
    <2> QED
        BY <2>1, <2>2 DEF RejectSetIsExact
<1> QED
    BY <1>1, AlwaysIInv, PTL
=============================================================================
