------------------------------- MODULE SelfExt -------------------------------
(***************************************************************************)
(* selfext: runs of `mallcop selfext --propose` and `--run`.  Each takes a *)
(* batch of gaps, first those of the DATA lane (proposer, gate, router:    *)
(* one model call proposes an add-only overlay entry), then those of the   *)
(* CODE lane (engine.Run: a coding agent authors a detector in a worktree, *)
(* which a gate judges).  What a gate, a parser or a router refused goes   *)
(* to the reject set, a file each run loads and rewrites whole, and is     *)
(* never to be paid for again.  Runs overlap, panic and get killed; writes *)
(* fail.                                                                   *)
(*                                                                         *)
(* A gap stands for its fingerprint.  A session (the run key) and the      *)
(* worktree are opened and closed together.                                *)
(***************************************************************************)
EXTENDS Naturals, Sequences, FiniteSets

CONSTANTS
    Runs,           \* slots for runs that may overlap
    DataGaps,       \* mapping gaps, overrides and dissents
    CodeGaps,       \* reported misses
    Detector,       \* reportedMissDetectorID of each code gap
    Batches,        \* the batches a run is given, data gaps before code gaps
    MaxAttempts,    \* MaxAuthoringAttempts
    MaxStarts,      \* bound: runs started
    MaxFaults       \* bound: kills, panics, failed writes

Gaps == DataGaps \cup CodeGaps

ASSUME SelfExtAssumption ==
    /\ DataGaps \cap CodeGaps = {}
    /\ "torn" \notin Gaps
    /\ DOMAIN Detector = CodeGaps
    /\ \A b \in Batches : b # <<>> /\ b \in Seq(Gaps)
    /\ MaxAttempts \in Nat \ {0}

Verdicts == {"none", "green", "novel", "red"}
Dials == {"non", "semi", "fully"}
Torn == {"torn"}
NoChange == [gap |-> "none", verdict |-> "none"]
Detectors == {Detector[g] : g \in CodeGaps}

VARIABLES
    file,       \* selfext-rejects.json: the rejected gaps, or a torn write
    run,        \* per slot: where the run is and what it holds
    dial,       \* the operator's autonomy dial
    consent,    \* the tenant consents to contribute back
    open,       \* runs whose session and worktree are open
    branch,     \* selfext/applied/<detector>: what it was last forced to
    overlay,    \* learned_mappings.yaml and tuning.yaml: the widens in effect
    artifacts,  \* reviewable proposals, and oss-pr-*.json
    judged,     \* history: gaps that were refused on their merits
    forgetful,  \* history: runs overlapped, or a reject was not written
    starts, faults

outputs == <<branch, overlay, artifacts>>
bounds == <<starts, faults>>
fixed == <<dial, consent>>
vars == <<file, run, fixed, open, outputs, judged, forgetful, bounds>>

AutoAppliesData == dial \in {"semi", "fully"}
AutoAppliesCode == dial = "fully"

Idle == [pc |-> "idle", lane |-> "data", todo |-> <<>>, known |-> {},
         tries |-> 0, verdict |-> "none"]

At(r, pc) == run[r].pc = pc
Gap(r) == Head(run[r].todo)
InCode(r) == Gap(r) \in CodeGaps
Fault == faults < MaxFaults /\ faults' = faults + 1

To(r, pc) == run' = [run EXCEPT ![r].pc = pc]

\* The gap got an outcome: the defers close what it opened, the next one is on.
\* Mutant: the session is closed by hand, and only by a gap of the data lane.
NextGapLeaky(r) ==
    /\ run' = IF Len(run[r].todo) = 1 THEN [run EXCEPT ![r] = Idle]
              ELSE [run EXCEPT ![r].todo = Tail(@), ![r].pc = "next",
                               ![r].tries = 0, ![r].verdict = "none"]
    /\ open' = IF InCode(r) THEN open ELSE open \ {r}

NextGap(r) ==
    /\ run' = IF Len(run[r].todo) = 1 THEN [run EXCEPT ![r] = Idle]
              ELSE [run EXCEPT ![r].todo = Tail(@), ![r].pc = "next",
                               ![r].tries = 0, ![r].verdict = "none"]
    /\ open' = open \ {r}

\* A hard error ends the whole command, the gaps after this one unseen.
Abort(r) ==
    /\ run' = [run EXCEPT ![r] = Idle]
    /\ open' = open \ {r}

-----------------------------------------------------------------------------
(* The batch.                                                              *)

\* The command loads the reject set; a torn one is an error.
Start(r) ==
    /\ At(r, "idle")
    /\ starts < MaxStarts
    /\ file # Torn
    /\ \E b \in Batches :
          run' = [run EXCEPT ![r] = [Idle EXCEPT !.pc = "next", !.todo = b, !.known = file]]
    /\ starts' = starts + 1
    /\ forgetful' = (forgetful \/ \E q \in Runs \ {r} : ~At(q, "idle"))
    /\ UNCHANGED <<file, fixed, open, outputs, judged, faults>>

\* buildCodeLaneEngine: the code lane loads a reject set of its own.
\* Mutant: the code lane starts from an empty reject set.
EnterWithNothing(r) == run' = [run EXCEPT ![r].lane = "code", ![r].known = {}]
ReloadRejects(r) == run' = [run EXCEPT ![r].lane = "code", ![r].known = file]

EnterCodeLane(r) ==
    /\ At(r, "next")
    /\ InCode(r)
    /\ run[r].lane = "data"
    /\ \/ file # Torn /\ ReloadRejects(r) /\ UNCHANGED open
       \/ file = Torn /\ Abort(r)
    /\ UNCHANGED <<file, fixed, outputs, judged, forgetful, bounds>>

Ready(r) == At(r, "next") /\ (InCode(r) => run[r].lane = "code")

\* A known reject costs nothing.
Skip(r) ==
    /\ Ready(r)
    /\ Gap(r) \in run[r].known
    /\ NextGap(r)
    /\ UNCHANGED <<file, fixed, outputs, judged, forgetful, bounds>>

\* Nor does a gap the spend gate refuses.
SpendGateRefuses(r) ==
    /\ Ready(r)
    /\ Gap(r) \notin run[r].known
    /\ NextGap(r)
    /\ UNCHANGED <<file, fixed, outputs, judged, forgetful, bounds>>

\* The gate binary, the session, the worktree or the credentials are missing.
HardError(r) ==
    /\ Ready(r)
    /\ Gap(r) \notin run[r].known
    /\ Fault
    /\ Abort(r)
    /\ UNCHANGED <<file, fixed, outputs, judged, forgetful, starts>>

\* Everything is in place: the first model call of the gap.
Spend(r) ==
    /\ Ready(r)
    /\ Gap(r) \notin run[r].known
    /\ To(r, "author")
    /\ open' = open \cup {r}
    /\ UNCHANGED <<file, fixed, outputs, judged, forgetful, bounds>>

-----------------------------------------------------------------------------
(* What the model makes of it.                                             *)

\* An outcome that is nobody's verdict: no files, no answer, a failed step, a
\* gate that could not run.  The gap is not poisoned and may be tried again.
\* Mutant: every failure poisons the gap.
FailAndPoison(r) ==
    /\ \/ At(r, "author")
       \/ run[r].pc \in {"narrated", "build", "gate"} /\ InCode(r)
    /\ file' = IF file = Torn THEN Torn ELSE file \cup {Gap(r)}
    /\ NextGap(r)
    /\ UNCHANGED <<fixed, outputs, judged, forgetful, bounds>>

Fail(r) ==
    /\ \/ At(r, "author")
       \/ run[r].pc \in {"narrated", "build", "gate"} /\ InCode(r)
    /\ NextGap(r)
    /\ UNCHANGED <<file, fixed, outputs, judged, forgetful, bounds>>

\* The agent ended well and wrote nothing.
Narrate(r) ==
    /\ At(r, "author")
    /\ InCode(r)
    /\ To(r, "narrated")
    /\ UNCHANGED <<file, fixed, open, outputs, judged, forgetful, bounds>>

\* authorWithRetries drives it again, in a fresh session, with a firmer prompt.
\* Mutant: the attempts are not counted.
RedriveForEver(r) ==
    /\ At(r, "narrated")
    /\ To(r, "author")
    /\ UNCHANGED <<file, fixed, open, outputs, judged, forgetful, bounds>>

\* Mutant: the bound on the attempts is read as one on the retries.
RedriveOnceMore(r) ==
    /\ At(r, "narrated")
    /\ run[r].tries < MaxAttempts
    /\ run' = [run EXCEPT ![r].pc = "author", ![r].tries = @ + 1]
    /\ UNCHANGED <<file, fixed, open, outputs, judged, forgetful, bounds>>

Redrive(r) ==
    /\ At(r, "narrated")
    /\ run[r].tries + 1 < MaxAttempts
    /\ run' = [run EXCEPT ![r].pc = "author", ![r].tries = @ + 1]
    /\ UNCHANGED <<file, fixed, open, outputs, judged, forgetful, bounds>>

\* Files in the worktree, however the agent ended, or a well-formed proposal.
Author(r) ==
    /\ At(r, "author")
    /\ To(r, IF InCode(r) THEN "build" ELSE "gate")
    /\ open' = IF InCode(r) THEN open ELSE open \ {r}
    /\ UNCHANGED <<file, fixed, outputs, judged, forgetful, bounds>>

\* The engine registers the package, renews the corpus pin and commits.
Build(r) ==
    /\ At(r, "build")
    /\ To(r, "gate")
    /\ UNCHANGED <<file, fixed, open, outputs, judged, forgetful, bounds>>

\* The strict parse refuses a proposal, the gate a commit: on their merits.
Refuse(r) ==
    /\ \/ At(r, "author") /\ ~InCode(r)
       \/ At(r, "gate") /\ InCode(r)
    /\ run' = [run EXCEPT ![r].pc = "poison", ![r].verdict = "red"]
    /\ judged' = judged \cup {Gap(r)}
    /\ UNCHANGED <<file, fixed, open, outputs, forgetful, bounds>>

Pass(r) ==
    /\ At(r, "gate")
    /\ \E v \in {"green", "novel"} :
          run' = [run EXCEPT ![r].pc = "green", ![r].verdict = v]
    /\ UNCHANGED <<file, fixed, open, outputs, judged, forgetful, bounds>>

-----------------------------------------------------------------------------
(* After the verdict.                                                      *)

\* RejectSet.Add: the set of this run, whole, replaces the file.  An error is
\* logged; the file then keeps what it had, or is cut short.
Poison(r) ==
    /\ At(r, "poison")
    /\ LET known == run[r].known \cup {Gap(r)} IN
       \/ /\ file' = known
          /\ UNCHANGED <<forgetful, faults>>
       \/ /\ Fault
          /\ file' \in {file, Torn}
          /\ forgetful' = TRUE
    /\ run' = IF Len(run[r].todo) = 1 THEN [run EXCEPT ![r] = Idle]
              ELSE [run EXCEPT ![r].todo = Tail(@), ![r].pc = "next", ![r].tries = 0,
                               ![r].verdict = "none", ![r].known = @ \cup {Gap(r)}]
    /\ open' = open \ {r}
    /\ UNCHANGED <<fixed, outputs, judged, starts>>

Certified(r) == run[r].verdict = "green"

\* MergeToTargetBranch, at fully and for a family the corpus can grade.
\* Mutant: a family without labelled cases is merged like any other.
ApplyNovelToo(r) ==
    /\ At(r, "green")
    /\ InCode(r) /\ AutoAppliesCode
    /\ branch' = [branch EXCEPT ![Detector[Gap(r)]] = [gap |-> Gap(r), verdict |-> run[r].verdict]]
    /\ To(r, "emit")
    /\ UNCHANGED <<file, fixed, open, overlay, artifacts, judged, forgetful, bounds>>

Apply(r) ==
    /\ At(r, "green")
    /\ InCode(r) /\ AutoAppliesCode
    /\ Certified(r)
    /\ branch' = [branch EXCEPT ![Detector[Gap(r)]] = [gap |-> Gap(r), verdict |-> run[r].verdict]]
    /\ To(r, "emit")
    /\ UNCHANGED <<file, fixed, open, overlay, artifacts, judged, forgetful, bounds>>

WithholdCode(r) ==
    /\ At(r, "green")
    /\ InCode(r)
    /\ ~(AutoAppliesCode /\ Certified(r))
    /\ To(r, "emit")
    /\ UNCHANGED <<file, fixed, open, outputs, judged, forgetful, bounds>>

\* router.Route: a certified widen is written to the overlay at semi and fully.
Widen(r) ==
    /\ At(r, "green")
    /\ ~InCode(r) /\ AutoAppliesData
    /\ Certified(r)
    /\ overlay' = overlay \cup {[gap |-> Gap(r), verdict |-> run[r].verdict]}
    /\ To(r, "emit")
    /\ UNCHANGED <<file, fixed, open, branch, artifacts, judged, forgetful, bounds>>

\* Critical, net new, not certified, or a dial at non: a human decides.
HoldForHuman(r) ==
    /\ run[r].pc \in {"gate", "green"}
    /\ ~InCode(r)
    /\ NextGap(r)
    /\ UNCHANGED <<file, fixed, outputs, judged, forgetful, bounds>>

\* writeProposalArtifact; emitOSSArtifact, if the tenant consents and the widen
\* is universal.
Emit(r) ==
    /\ At(r, "emit")
    /\ \E universal \in BOOLEAN :
          artifacts' = IF InCode(r) \/ (consent /\ universal) THEN artifacts \cup {Gap(r)}
                       ELSE artifacts
    /\ NextGap(r)
    /\ UNCHANGED <<file, fixed, branch, overlay, judged, forgetful, bounds>>

\* Diff, merge, overlay, artifact or provenance fails: a hard error.
OutputFails(r) ==
    /\ run[r].pc \in {"green", "emit"} \/ (At(r, "gate") /\ ~InCode(r))
    /\ Fault
    /\ Abort(r)
    /\ UNCHANGED <<file, fixed, outputs, judged, forgetful, starts>>

-----------------------------------------------------------------------------
(* The environment.                                                        *)

\* A panic inside engine.Run or the proposer's call is recovered as a failure.
Panic(r) ==
    /\ r \in open
    /\ Fault
    /\ NextGap(r)
    /\ forgetful' = (forgetful \/ At(r, "poison"))
    /\ UNCHANGED <<file, fixed, outputs, judged, starts>>

\* A killed run leaves its worktree and run key to others, and a file half
\* written.
Kill(r) ==
    /\ ~At(r, "idle")
    /\ Fault
    /\ run' = [run EXCEPT ![r] = Idle]
    /\ open' = open \ {r}
    /\ file' \in IF At(r, "poison") THEN {file, Torn} ELSE {file}
    /\ forgetful' = (forgetful \/ At(r, "poison"))
    /\ UNCHANGED <<fixed, outputs, judged, starts>>

-----------------------------------------------------------------------------

Init ==
    /\ file = {}
    /\ run = [r \in Runs |-> Idle]
    /\ dial \in Dials
    /\ consent \in BOOLEAN
    /\ open = {}
    /\ branch = [d \in Detectors |-> NoChange]
    /\ overlay = {}
    /\ artifacts = {}
    /\ judged = {}
    /\ forgetful = FALSE
    /\ starts = 0
    /\ faults = 0

Step(r) ==
    \/ EnterCodeLane(r) \/ Skip(r) \/ SpendGateRefuses(r) \/ Spend(r) \/ Fail(r) \/ Narrate(r)
    \/ Redrive(r)
    \/ Author(r) \/ Build(r) \/ Refuse(r) \/ Pass(r) \/ Poison(r) \/ Apply(r)
    \/ WithholdCode(r) \/ Widen(r) \/ HoldForHuman(r) \/ Emit(r)

Upset(r) == HardError(r) \/ OutputFails(r) \/ Panic(r) \/ Kill(r)

Next == \E r \in Runs : Start(r) \/ Step(r) \/ Upset(r)

Spec == Init /\ [][Next]_vars /\ \A r \in Runs : WF_vars(Step(r))

-----------------------------------------------------------------------------
(* Properties.                                                             *)

Pcs == {"idle", "next", "author", "narrated", "build", "gate", "green", "poison", "emit"}

\* Each variable has the shape the program gives it.
TypeOK ==
    /\ file = Torn \/ file \in SUBSET Gaps
    /\ \A r \in Runs :
          /\ run[r].pc \in Pcs /\ run[r].lane \in {"data", "code"}
          /\ run[r].todo \in Seq(Gaps) /\ (~At(r, "idle") => run[r].todo # <<>>)
          /\ run[r].known \in SUBSET Gaps
          /\ run[r].tries \in 0..(MaxAttempts - 1)
          /\ run[r].verdict \in Verdicts
    /\ dial \in Dials /\ consent \in BOOLEAN /\ open \in SUBSET Runs
    /\ \A d \in Detectors :
          \/ branch[d] = NoChange
          \/ branch[d].gap \in CodeGaps /\ branch[d].verdict \in Verdicts
    /\ overlay \in SUBSET [gap : DataGaps, verdict : Verdicts]
    /\ artifacts \in SUBSET Gaps /\ judged \in SUBSET Gaps
    /\ forgetful \in BOOLEAN /\ starts \in Nat /\ faults \in Nat

\* Only what a parser or gate refused is in the reject set: a model that failed,
\* wrote nothing or panicked, and a gate that could not run, poison nothing.
OnlyTheJudged == file # Torn => file \subseteq judged

\* While runs do not overlap and no write of the set was lost, what was refused
\* is in the file, or a run is about to put it there,
RejectsArePersisted ==
    ~forgetful =>
        /\ file # Torn
        /\ \A g \in judged : g \in file \/ \E r \in Runs : At(r, "poison") /\ Gap(r) = g

\* and no model is paid to try it again.
RejectsAreNotRetried ==
    ~forgetful => \A r \in Runs : At(r, "author") => Gap(r) \notin judged

\* The anti-thrash set says what was refused, no more and no less (rejectset.go,
\* the two lanes' instances of it, and the order of engine.Run).
RejectSetIsExact == OnlyTheJudged /\ RejectsArePersisted /\ RejectsAreNotRetried

\* What takes effect without a human was certified by a gate that could grade
\* it, at a dial that allows it; and what is offered to the shared repository
\* is in the tenant's own overlay, with consent (engine.go 9, router.go 2.5-4).
OnlyCertifiedIsApplied ==
    /\ \A d \in Detectors : branch[d] # NoChange =>
          dial = "fully" /\ branch[d].verdict = "green" /\ Detector[branch[d].gap] = d
    /\ \A w \in overlay : dial # "non" /\ w.verdict = "green"
    /\ \A g \in artifacts \cap DataGaps : consent /\ \E w \in overlay : w.gap = g

\* A run key and a worktree are open only while their gap is worked on: errors,
\* failures and panics close them as a success does.
SessionsAreClosed ==
    \A r \in open : run[r].pc \in {"author", "narrated", "build", "gate", "green", "poison", "emit"}

\* Every command comes to its end: an agent that only narrates is not driven
\* for ever.
EveryRunEnds == \A r \in Runs : ~At(r, "idle") ~> At(r, "idle")
===============================================================================
