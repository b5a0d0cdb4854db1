------------------------------- MODULE SelfGate -------------------------------
(***************************************************************************)
(* core/selfgate: what a machine-authored change must clear, and what that *)
(* leaves true of the code base many such changes are merged into.  In a   *)
(* mallcop checkout a proposal (a head commit over a base commit) is       *)
(* judged by the static guard, the structural stage and the diff of the    *)
(* two trees' exam reports, and is merged later, when the trunk may have   *)
(* moved on.  In customerTreeMode the repository is a customer's deploy    *)
(* repository: its detectors (WASM sidecars) are graded against a          *)
(* reference mallcop tree, one at a time, and then run together.           *)
(*                                                                         *)
(* A tree is what a judge looks at: the labelled exam rows, the rows its   *)
(* corpus.pin digests, the authored detector packages, the tuning words,   *)
(* whether a frozen file (code, CI, graders, existing detectors, disable   *)
(* list) differs from the maintainers', and the finding families its       *)
(* detectors emit on the events of each row.  Detectors run one by one on  *)
(* copies of the events and tuning words only enter sets that a built-in   *)
(* detector looks events up in, so a tree that only adds detectors and     *)
(* words emits at least what it emitted.  It may emit more than its parts: *)
(* the tuned detector asks for a word of one set (the event type) and one  *)
(* of another (a keyword), and two changes may each bring one of them.     *)
(***************************************************************************)
EXTENDS Naturals, FiniteSets

CONSTANTS
    Rows,           \* labelled scenario files that may ever be added
    Families,       \* finding families
    MustFire,       \* the must_fire label of each row
    MustNotFire,    \* the must_not_fire label of each row
    Authored,       \* core/detect/authored packages that may be proposed
    Words,          \* words that may be added to detectors/tuning.yaml
    FamilyOf,       \* the family of each authored package and each sidecar
    Proposals,      \* slots for proposals judged at the same time
    Sidecars,       \* a customer's detectors/<name>
    FirstRows,      \* rows of the first trunk
    BuiltIn         \* families the built-in detectors emit

ASSUME SelfGateAssumption ==
    /\ MustFire \in [Rows -> SUBSET Families]
    /\ MustNotFire \in [Rows -> SUBSET Families]
    /\ \A d \in Authored \cup Sidecars : FamilyOf[d] \in Families
    /\ FirstRows \subseteq Rows
    /\ BuiltIn \subseteq Families

Tree == [rows : SUBSET Rows, pin : SUBSET Rows, authored : SUBSET Authored,
         words : SUBSET Words, touched : BOOLEAN, fires : SUBSET (Families \X Rows)]
Proposal == [base : Tree, head : Tree]
NoTree == [rows |-> {}, pin |-> {}, authored |-> {}, words |-> {},
           touched |-> FALSE, fires |-> {}]
NoProposal == [base |-> NoTree, head |-> NoTree]

(* What a sidecar ships in scenarios/: a must_fire row of its family, that *)
(* row passing, a passing benign twin, and the twin being a minimal        *)
(* mutation of the must_fire row; and the reference rows it fires on.      *)
Sidecar == [ships : SUBSET {"target", "fires", "quiet", "minimal"}, on : SUBSET Rows]
NoSidecar == [ships |-> {}, on |-> {}]

VARIABLES
    customerTreeMode,
    trunk,          \* main; in customerTreeMode the reference tree
    open,           \* certified proposals waiting to be merged
    unseen,         \* history: banned firings of a merge that neither exam saw
    gaps,           \* history: what was wrong on the maintainers' rows from the start
    own,            \* the customer's sidecars
    graded          \* history: the tree the installed sidecars were graded by

vars == <<customerTreeMode, trunk, open, unseen, gaps, own, graded>>

-----------------------------------------------------------------------------
(* Grading. *)

Emitted(t, r) == {f \in Families : <<f, r>> \in t.fires}

\* A row passes when all it demands fired and nothing it bans did.
Passes(t, r) ==
    /\ MustFire[r] \subseteq Emitted(t, r)
    /\ MustNotFire[r] \cap Emitted(t, r) = {}

\* What is wrong on a row: a demanded family is silent, a banned one fires.
Faults(t, r) ==
    ((MustFire[r] \ Emitted(t, r)) \cup (MustNotFire[r] \cap Emitted(t, r))) \X {r}

\* The exam refuses to run on a corpus its pin does not digest.
ExamRuns(t) == t.pin = t.rows

\* A passing row demands (bans) the family.
FireProven(t, f) == \E r \in t.rows : f \in MustFire[r] /\ Passes(t, r)
TwinProven(t, f) == \E r \in t.rows : f \in MustNotFire[r] /\ Passes(t, r)

-----------------------------------------------------------------------------
(* Stage 1, the static guard. *)

\* A new pin needs added rows and no changed or deleted row.
PinPaired(base, head) ==
    \/ head.pin = base.pin
    \/ base.rows \subseteq head.rows /\ head.rows # base.rows

Guard(base, head) ==
    /\ base.rows \subseteq head.rows
    /\ PinPaired(base, head)
    /\ base.authored \subseteq head.authored
    /\ base.words \subseteq head.words
    /\ ~ head.touched

(* Stage 3, the exam of both trees and its diff. *)

\* Rows whose must_fire the head satisfies and the base did not.
Gained(base, head) ==
    {r \in head.rows : /\ MustFire[r] # {} /\ Passes(head, r)
                       /\ r \notin base.rows \/ ~ Passes(base, r)}

NoRegression(base, head) ==
    \A r \in base.rows : Passes(base, r) => r \in head.rows /\ Passes(head, r)

\* A family newly fired on a known row must be one the row demands, and the
\* row must be one the proposal gains.
NoNewFirings(base, head) ==
    \A r \in base.rows \cap head.rows :
        \A f \in Emitted(head, r) \ Emitted(base, r) :
            r \in Gained(base, head) /\ f \in MustFire[r]

AddedRowsPass(base, head) == \A r \in head.rows \ base.rows : Passes(head, r)

\* Each added detector has a passing target and a passing benign twin.
BenignTwins(base, head) ==
    \A d \in head.authored \ base.authored :
        FireProven(head, FamilyOf[d]) /\ TwinProven(head, FamilyOf[d])

\* Mutant: the added rows are not graded and no twin is asked for.
DiffOfKnownRows(base, head) ==
    /\ Gained(base, head) # {}
    /\ NoRegression(base, head)
    /\ NoNewFirings(base, head)

ExamDetect(base, head) ==
    /\ ExamRuns(base) /\ ExamRuns(head)
    /\ Gained(base, head) # {}
    /\ NoRegression(base, head)
    /\ NoNewFirings(base, head)
    /\ AddedRowsPass(base, head)
    /\ BenignTwins(base, head)

-----------------------------------------------------------------------------
(* Proposals. *)

\* What a proposal may take away or touch: nothing, a frozen file, one thing.
Drops(base) == {{}, {"frozen"}} \cup {{y} : y \in base.rows \cup base.authored \cup base.words}

\* The base with rows a, packages b and words c added and x taken away, and
\* the pin left alone or renewed.
Edited(base, a, b, c, x, repin) ==
    [rows |-> (base.rows \cup a) \ x,
     pin |-> IF repin THEN (base.rows \cup a) \ x ELSE base.pin,
     authored |-> (base.authored \cup b) \ x, words |-> (base.words \cup c) \ x,
     touched |-> x = {"frozen"}, fires |-> base.fires]

\* What the edited tree may emit: more, if detectors or words were only added
\* (the tuned detectors are built in); anything, on one family, if one was
\* taken away or frozen code changed.
Behaviours(base, edit) ==
    IF edit.touched \/ ~ (base.authored \subseteq edit.authored)
                    \/ ~ (base.words \subseteq edit.words)
    THEN {(base.fires \ ({f} \X Rows)) \cup ({f} \X on) :
             f \in Families, on \in SUBSET Rows}
    ELSE LET wider == IF edit.authored # base.authored THEN Families
                      ELSE IF edit.words # base.words THEN BuiltIn ELSE {}
         IN  {base.fires \cup gain : gain \in SUBSET (wider \X Rows)}

\* ValidateProposal on a proposal drawn up over the present trunk.  A refused
\* proposal changes nothing.  The structural stage (build, vet, imports,
\* shape) constrains what a detector may be, which the trees abstract.
Validate(p) ==
    /\ ~ customerTreeMode
    /\ open[p] = NoProposal
    /\ \E a \in SUBSET (Rows \ trunk.rows), b \in SUBSET (Authored \ trunk.authored),
          c \in SUBSET (Words \ trunk.words), x \in Drops(trunk), repin \in BOOLEAN :
         LET edit == Edited(trunk, a, b, c, x, repin) IN
         /\ Guard(trunk, edit)
         /\ \E fires \in Behaviours(trunk, edit) :
              LET head == [edit EXCEPT !.fires = fires] IN
              /\ ExamDetect(trunk, head)
              /\ open' = [open EXCEPT ![p] = [base |-> trunk, head |-> head]]
    /\ UNCHANGED <<customerTreeMode, trunk, unseen, gaps, own, graded>>

\* Closed by its author, by a reviewer, or over a merge conflict.
Abandon(p) ==
    /\ open[p] # NoProposal
    /\ open' = [open EXCEPT ![p] = NoProposal]
    /\ UNCHANGED <<customerTreeMode, trunk, unseen, gaps, own, graded>>

\* Mutant: the head replaces the branch, whatever the branch gained since.
ForcePushed(ours, base, theirs) == theirs

\* git's three-way merge of sets of files, lines or effects.
Merged(ours, base, theirs) == (ours \cup (theirs \ base)) \ (base \ theirs)

\* Mutant: the pin is taken from the head without a conflict.
NoConflict(base, head) ==
    /\ head.authored # base.authored /\ trunk.authored # base.authored
    /\ head.authored # trunk.authored

\* Both sides rewrote the pin's two lines, or both appended to registry.go.
Conflict(base, head) ==
    \/ head.pin # base.pin /\ trunk.pin # base.pin /\ head.pin # trunk.pin
    \/ /\ head.authored # base.authored /\ trunk.authored # base.authored
       /\ head.authored # trunk.authored

\* What the tuned detectors may fire besides when words of two sides meet:
\* privEscalationEvaluate wants an event type of one set and a keyword of
\* another, so that it may fire where it fired for neither side.
Combined(ours, theirs) ==
    IF ours.words \subseteq theirs.words \/ theirs.words \subseteq ours.words THEN {{}}
    ELSE SUBSET (BuiltIn \X Rows)

\* Banned firings of a merged tree that neither side's exam had before it: the
\* row, or the firing, was the other side's, or the firing is the merge's own.
Unseen(ours, theirs, merged) ==
    {w \in merged.fires :
        /\ w[2] \in merged.rows /\ w[1] \in MustNotFire[w[2]]
        /\ \A t \in {ours, theirs} : ~ (w \in t.fires /\ w[2] \in t.rows)}

\* The merge of a certified head.  Nothing judges the merged tree again, and
\* the certificate names the base it was given for, which may be behind.
Merge(p) ==
    /\ open[p] # NoProposal
    /\ LET base == open[p].base
           head == open[p].head
       IN  /\ ~ Conflict(base, head)
           /\ \E gain \in Combined(trunk, head) :
                trunk' = [rows |-> Merged(trunk.rows, base.rows, head.rows),
                          pin |-> IF head.pin = base.pin THEN trunk.pin ELSE head.pin,
                          authored |-> Merged(trunk.authored, base.authored, head.authored),
                          words |-> Merged(trunk.words, base.words, head.words),
                          touched |-> trunk.touched \/ head.touched,
                          fires |-> Merged(trunk.fires, base.fires, head.fires) \cup gain]
           /\ unseen' = unseen \cup Unseen(trunk, head, trunk')
    /\ open' = [open EXCEPT ![p] = NoProposal]
    /\ UNCHANGED <<customerTreeMode, gaps, own, graded>>

\* The maintainers label one more row, perhaps one nothing detects yet.  The
\* customer gets it by moving its module pin, which grades nothing.
Maintain(r) ==
    /\ r \notin trunk.rows
    /\ trunk' = [trunk EXCEPT !.rows = @ \cup {r}, !.pin = trunk.rows \cup {r}]
    /\ gaps' = gaps \cup Faults(trunk, r)
    /\ UNCHANGED <<customerTreeMode, open, unseen, own, graded>>

-----------------------------------------------------------------------------
(* The customer lane. *)

\* The reference tree with a set of sidecars loaded.
With(ref, cars, loaded) ==
    [ref EXCEPT !.fires = @ \cup UNION {{FamilyOf[s]} \X cars[s].on : s \in loaded}]

\* checkCustomerHeldOutNewFirings: on a reference row the sidecar may fire
\* only what the row demands or the reference tree already emits there.
HeldOut(ref, loaded) ==
    \A r \in ref.rows : Emitted(loaded, r) \subseteq Emitted(ref, r) \cup MustFire[r]

\* checkCustomerEfficacy: it declares a family, a passing row shows it fires
\* and a passing twin shows it can stay silent; a pair of its own must be a
\* minimal mutation.
Efficacy(loaded, f, ships) ==
    /\ "target" \in ships
    /\ "fires" \in ships \/ FireProven(loaded, f)
    /\ "quiet" \in ships \/ TwinProven(loaded, f)
    /\ {"fires", "quiet"} \subseteq ships => "minimal" \in ships

\* Mutant: the sidecars fire on the held-out rows as they like.
GradedOnItsOwnRows(ref, cars, s) ==
    LET loaded == With(ref, cars, {s}) IN
    Efficacy(loaded, FamilyOf[s], cars[s].ships)

\* One pass of customerTreeExamStage: this sidecar alone on the reference tree.
Graded(ref, cars, s) ==
    LET loaded == With(ref, cars, {s}) IN
    /\ Efficacy(loaded, FamilyOf[s], cars[s].ships)
    /\ HeldOut(ref, loaded)
    /\ NoRegression(ref, loaded)

\* A proposal adds or replaces one sidecar; every sidecar of the head tree is
\* graded again, each alone.  A family no reference row demands (NovelGap)
\* is merged by a human, the others perhaps by the engine.
Install(s) ==
    /\ customerTreeMode
    /\ ExamRuns(trunk)
    /\ \E car \in Sidecar :
         LET cars == [own EXCEPT ![s] = car] IN
         /\ car # own[s]
         /\ "fires" \in car.ships => "target" \in car.ships
         /\ \A d \in Sidecars : cars[d] # NoSidecar => Graded(trunk, cars, d)
         /\ own' = cars
    /\ graded' = trunk
    /\ UNCHANGED <<customerTreeMode, trunk, open, unseen, gaps>>

-----------------------------------------------------------------------------
Init ==
    /\ customerTreeMode \in BOOLEAN
    /\ \E fires \in SUBSET (BuiltIn \X Rows) :
         trunk = [rows |-> FirstRows, pin |-> FirstRows, authored |-> {}, words |-> {},
                  touched |-> FALSE, fires |-> fires]
    /\ open = [p \in Proposals |-> NoProposal]
    /\ unseen = {}
    /\ gaps = UNION {Faults(trunk, r) : r \in FirstRows}
    /\ own = [s \in Sidecars |-> NoSidecar]
    /\ graded = trunk

Next ==
    \/ \E p \in Proposals : Validate(p) \/ Merge(p) \/ Abandon(p)
    \/ \E r \in Rows : Maintain(r)
    \/ \E s \in Sidecars : Install(s)

Spec == Init /\ [][Next]_vars

-----------------------------------------------------------------------------
TypeOK ==
    /\ customerTreeMode \in BOOLEAN
    /\ trunk \in Tree
    /\ open \in [Proposals -> Proposal \cup {NoProposal}]
    /\ unseen \subseteq trunk.fires \cap (Families \X trunk.rows)
    /\ gaps \subseteq Families \X trunk.rows
    /\ graded \in Tree
    /\ own \in [Sidecars -> Sidecar]

(* Whatever is merged, on whatever base, rows, detectors, words and        *)
(* firings are only ever added, no frozen file changes, and the pin always *)
(* digests the rows, so the exam of the next proposal can run: no merge    *)
(* of two proposals that add rows gets past the pin.                       *)
TrunkOnlyWidens ==
    [][ /\ trunk.rows \subseteq trunk'.rows
        /\ trunk.authored \subseteq trunk'.authored
        /\ trunk.words \subseteq trunk'.words
        /\ trunk.fires \subseteq trunk'.fires
        /\ ~ trunk'.touched
        /\ ExamRuns(trunk') ]_vars

(* What was graded stays graded.  A row of the trunk demands a family that *)
(* is silent only if the maintainers added it so: whatever crosses on the  *)
(* way in, no detection is lost.  A row bans a family that fires only if   *)
(* the maintainers added it so or neither exam of a merge saw it fire      *)
(* there.  And every authored detector keeps a row that demands its family *)
(* and has all it demands, and a benign row that bans it.                  *)
GradesHold ==
    /\ \A r \in trunk.rows :
         /\ (MustFire[r] \ Emitted(trunk, r)) \X {r} \subseteq gaps
         /\ (MustNotFire[r] \cap Emitted(trunk, r)) \X {r} \subseteq gaps \cup unseen
    /\ \A d \in trunk.authored :
         /\ \E r \in trunk.rows :
              FamilyOf[d] \in MustFire[r] /\ MustFire[r] \subseteq Emitted(trunk, r)
         /\ \E r \in trunk.rows : FamilyOf[d] \in MustNotFire[r]

(* The sidecars are graded one at a time and run together: loaded all at   *)
(* once on the tree they were last graded by, they fail none of its        *)
(* passing rows and fire nothing its rows do not demand.                   *)
LoadedTogether ==
    LET all == With(graded, own, Sidecars) IN
    NoRegression(graded, all) /\ HeldOut(graded, all)
=============================================================================
