---------------------------- MODULE ControlProofs -----------------------------
(***************************************************************************)
(* Proofs about what controls mallcop.                                     *)
(*                                                                         *)
(* SelfGate, for any rows, labels, families, detectors and numbers of      *)
(* proposals and sidecars: its types, that the trunk only widens, that     *)
(* grades hold however the merges interleave, and that sidecars graded one *)
(* at a time keep their grades when loaded together.                       *)
(*                                                                         *)
(* Steering, for any number of scans, keys, rows and faults: its types,    *)
(* that the grants stream tells the truth about what was remedied, and     *)
(* that the cases count each escalation once.                              *)
(***************************************************************************)
EXTENDS SelfGate, Steering, SequenceLemmas

-----------------------------------------------------------------------------
(* Trees *)

\* An edit of a tree is a tree.
LEMMA EditedTree ==
    ASSUME NEW base \in Tree, NEW a \in SUBSET Rows, NEW b \in SUBSET Authored,
           NEW c \in SUBSET Words, NEW x, NEW repin \in BOOLEAN
    PROVE  Edited(base, a, b, c, x, repin) \in Tree
<1>1. /\ (base.rows \cup a) \ x \in SUBSET Rows
      /\ (base.authored \cup b) \ x \in SUBSET Authored
      /\ (base.words \cup c) \ x \in SUBSET Words
      /\ (x = {"frozen"}) \in BOOLEAN
      /\ base.pin \in SUBSET Rows /\ base.fires \in SUBSET (Families \X Rows)
    BY DEF Tree
<1> QED
    BY <1>1 DEF Edited, Tree

\* A behaviour is a set of firings; a tree that only adds detectors and words
\* keeps those it had.
LEMMA BehaviourOfEdit ==
    ASSUME NEW base \in Tree, NEW edit \in Tree, NEW fires \in Behaviours(base, edit)
    PROVE  /\ fires \in SUBSET (Families \X Rows)
           /\ (~ edit.touched /\ base.authored \subseteq edit.authored
                 /\ base.words \subseteq edit.words)
              => base.fires \subseteq fires
<1>1. base.fires \subseteq Families \X Rows
    BY DEF Tree
<1>2. CASE edit.touched \/ ~ (base.authored \subseteq edit.authored)
                        \/ ~ (base.words \subseteq edit.words)
    <2>1. PICK f \in Families, on \in SUBSET Rows :
              fires = (base.fires \ ({f} \X Rows)) \cup ({f} \X on)
        BY <1>2 DEF Behaviours
    <2> QED
        BY <1>1, <1>2, <2>1
<1>3. CASE ~ (edit.touched \/ ~ (base.authored \subseteq edit.authored)
                           \/ ~ (base.words \subseteq edit.words))
    <2> DEFINE wider == IF edit.authored # base.authored THEN Families
                        ELSE IF edit.words # base.words THEN BuiltIn ELSE {}
    <2>1. PICK gain \in SUBSET (wider \X Rows) : fires = base.fires \cup gain
        BY <1>3 DEF Behaviours
    <2>2. wider \subseteq Families
        BY SelfGateAssumption
    <2> QED
        BY <1>1, <2>1, <2>2
<1> QED
    BY <1>2, <1>3

\* What a row's grade depends on.
LEMMA SameFirings ==
    ASSUME NEW t, NEW u, t.fires = u.fires, NEW r
    PROVE  Emitted(t, r) = Emitted(u, r) /\ Passes(t, r) = Passes(u, r)
BY DEF Emitted, Passes

-----------------------------------------------------------------------------
(* The inductive invariant *)

Types == TypeOK

TrunkGradable == ExamRuns(trunk) /\ ~ trunk.touched

\* What the gate found out about an open proposal and no later step changes.
Widening(base, head) ==
    /\ base.rows \subseteq head.rows /\ base.authored \subseteq head.authored
    /\ base.words \subseteq head.words /\ base.fires \subseteq head.fires
    /\ ExamRuns(base) /\ ExamRuns(head) /\ ~ head.touched

Certified(base, head) ==
    /\ Widening(base, head)
    /\ NoNewFirings(base, head)
    /\ AddedRowsPass(base, head)
    /\ BenignTwins(base, head)

\* The trunk has gained since the base, and lost nothing.
Behind(base) ==
    /\ base.rows \subseteq trunk.rows /\ base.authored \subseteq trunk.authored
    /\ base.words \subseteq trunk.words /\ base.fires \subseteq trunk.fires

OpenAreCertified ==
    \A p \in Proposals : open[p] # NoProposal =>
        Certified(open[p].base, open[p].head) /\ Behind(open[p].base)

OwnAreGraded == \A s \in Sidecars : own[s] = NoSidecar \/ Graded(graded, own, s)

IInv == Types /\ TrunkGradable /\ OpenAreCertified /\ GradesHold /\ OwnAreGraded

-----------------------------------------------------------------------------
(* Initial states *)

LEMMA InitIInv == Init => IInv
<1> SUFFICES ASSUME Init PROVE IInv
    OBVIOUS
<1>1. PICK fires \in SUBSET (BuiltIn \X Rows) :
          trunk = [rows |-> FirstRows, pin |-> FirstRows, authored |-> {}, words |-> {},
                   touched |-> FALSE, fires |-> fires]
    BY DEF Init
<1>2. fires \in SUBSET (Families \X Rows)
    BY SelfGateAssumption
<1>3. trunk \in Tree
    BY <1>1, <1>2, SelfGateAssumption DEF Tree
<1>4. NoSidecar \in Sidecar
    BY DEF NoSidecar, Sidecar
<1>5. Types
    <2>1. ASSUME NEW r \in FirstRows
          PROVE  Faults(trunk, r) \subseteq Families \X trunk.rows
        BY <1>1, <2>1, SelfGateAssumption DEF Faults, Emitted
    <2>2. gaps \subseteq Families \X trunk.rows
        BY <2>1 DEF Init
    <2> QED
        BY <1>1, <1>3, <1>4, <2>2 DEF Init, Types, TypeOK
<1>6. TrunkGradable
    BY <1>1 DEF TrunkGradable, ExamRuns
<1>7. OpenAreCertified
    BY DEF Init, OpenAreCertified
<1>8. GradesHold
    <2>1. ASSUME NEW r \in trunk.rows
          PROVE  /\ (MustFire[r] \ Emitted(trunk, r)) \X {r} \subseteq gaps
                 /\ (MustNotFire[r] \cap Emitted(trunk, r)) \X {r} \subseteq gaps
        <3>1. Faults(trunk, r) \subseteq gaps
            BY <1>1, <2>1 DEF Init
        <3> QED
            BY <3>1 DEF Faults
    <2>2. trunk.authored = {}
        BY <1>1
    <2> QED
        BY <2>1, <2>2 DEF GradesHold
<1>9. OwnAreGraded
    BY DEF Init, OwnAreGraded
<1> QED
    BY <1>5, <1>6, <1>7, <1>8, <1>9 DEF IInv

-----------------------------------------------------------------------------
(* Proposals *)

\* What Validate certifies.
LEMMA ValidatedHead ==
    ASSUME IInv, NEW p \in Proposals, Validate(p)
    PROVE  \E head \in Tree :
             /\ Certified(trunk, head)
             /\ open' = [open EXCEPT ![p] = [base |-> trunk, head |-> head]]
<1>1. PICK a \in SUBSET (Rows \ trunk.rows), b \in SUBSET (Authored \ trunk.authored),
           c \in SUBSET (Words \ trunk.words), x \in Drops(trunk), repin \in BOOLEAN :
        LET edit == Edited(trunk, a, b, c, x, repin) IN
        /\ Guard(trunk, edit)
        /\ \E fires \in Behaviours(trunk, edit) :
             LET head == [edit EXCEPT !.fires = fires] IN
             /\ ExamDetect(trunk, head)
             /\ open' = [open EXCEPT ![p] = [base |-> trunk, head |-> head]]
    BY DEF Validate
<1> DEFINE edit == Edited(trunk, a, b, c, x, repin)
<1>2. trunk \in Tree
    BY DEF IInv, Types, TypeOK
<1>3. edit \in Tree
    BY <1>2, EditedTree
<1>4. Guard(trunk, edit)
    BY <1>1
<1>5. PICK fires \in Behaviours(trunk, edit) :
        LET head == [edit EXCEPT !.fires = fires] IN
        /\ ExamDetect(trunk, head)
        /\ open' = [open EXCEPT ![p] = [base |-> trunk, head |-> head]]
    BY <1>1
<1> HIDE DEF edit
<1>6. /\ fires \in SUBSET (Families \X Rows)
      /\ trunk.fires \subseteq fires
    BY <1>2, <1>3, <1>4, BehaviourOfEdit DEF Guard
<1> DEFINE head == [edit EXCEPT !.fires = fires]
<1>7. /\ head \in Tree /\ head.fires = fires
      /\ head.rows = edit.rows /\ head.authored = edit.authored
      /\ head.words = edit.words /\ head.touched = edit.touched
    BY <1>3, <1>6 DEF Tree
<1> HIDE DEF head
<1>8. ExamDetect(trunk, head)
    BY <1>5 DEF head
<1>9. Widening(trunk, head)
    BY <1>4, <1>6, <1>7, <1>8 DEF Guard, Widening, ExamDetect
<1>10. Certified(trunk, head)
    BY <1>8, <1>9 DEF Certified, ExamDetect
<1>11. open' = [open EXCEPT ![p] = [base |-> trunk, head |-> head]]
    BY <1>5 DEF head
<1> QED
    BY <1>7, <1>10, <1>11

LEMMA ValidateInv ==
    ASSUME IInv, NEW p \in Proposals, Validate(p)
    PROVE  IInv'
<1>1. PICK head \in Tree :
        /\ Certified(trunk, head)
        /\ open' = [open EXCEPT ![p] = [base |-> trunk, head |-> head]]
    BY ValidatedHead
<1>2. UNCHANGED <<customerTreeMode, trunk, unseen, gaps, own, graded>>
    BY DEF Validate
<1>3. Types'
    <2>1. [base |-> trunk, head |-> head] \in Proposal
        BY DEF IInv, Types, TypeOK, Proposal
    <2> QED
        BY <1>1, <1>2, <2>1 DEF IInv, Types, TypeOK
<1>4. TrunkGradable'
    BY <1>2 DEF IInv, TrunkGradable, ExamRuns
<1>5. OpenAreCertified'
    <2> SUFFICES ASSUME NEW q \in Proposals, open'[q] # NoProposal
                 PROVE  Certified(open'[q].base, open'[q].head) /\ Behind(open[q].base)'
        BY DEF OpenAreCertified
    <2>1. CASE q = p
        <3>1. open'[q].base = trunk /\ open'[q].head = head
            BY <1>1, <2>1 DEF IInv, Types, TypeOK
        <3>2. Behind(open[q].base)'
            BY <1>2, <3>1 DEF Behind, Emitted
        <3> QED
            BY <1>1, <3>1, <3>2
    <2>2. CASE q # p
        <3>1. open'[q] = open[q]
            BY <1>1, <2>2 DEF IInv, Types, TypeOK
        <3>2. Certified(open[q].base, open[q].head) /\ Behind(open[q].base)
            BY <3>1 DEF IInv, OpenAreCertified
        <3>3. Behind(open[q].base)'
            BY <1>2, <3>1, <3>2 DEF Behind, Emitted
        <3> QED
            BY <3>1, <3>2, <3>3
    <2> QED
        BY <2>1, <2>2
<1>6. GradesHold'
    BY <1>2 DEF IInv, GradesHold, Passes, Emitted
<1>7. OwnAreGraded'
    BY <1>2 DEF IInv, OwnAreGraded
<1> QED
    BY <1>3, <1>4, <1>5, <1>6, <1>7 DEF IInv

LEMMA AbandonInv ==
    ASSUME IInv, NEW p \in Proposals, Abandon(p)
    PROVE  IInv'
<1>1. /\ open' = [open EXCEPT ![p] = NoProposal]
      /\ UNCHANGED <<customerTreeMode, trunk, unseen, gaps, own, graded>>
    BY DEF Abandon
<1>2. Types'
    BY <1>1 DEF IInv, Types, TypeOK
<1>3. TrunkGradable' /\ GradesHold' /\ OwnAreGraded'
    BY <1>1 DEF IInv, TrunkGradable, ExamRuns, GradesHold, Passes, Emitted, OwnAreGraded
<1>4. ASSUME NEW q \in Proposals, open'[q] # NoProposal
      PROVE  Certified(open'[q].base, open'[q].head) /\ Behind(open[q].base)'
    <2>1. open'[q] = open[q]
        BY <1>1, <1>4 DEF IInv, Types, TypeOK
    <2>2. Certified(open[q].base, open[q].head) /\ Behind(open[q].base)
        BY <1>4, <2>1 DEF IInv, OpenAreCertified
    <2>3. Behind(open[q].base)'
        BY <1>1, <2>1, <2>2 DEF Behind, Emitted
    <2> QED
        BY <2>1, <2>2, <2>3
<1> QED
    BY <1>2, <1>3, <1>4 DEF IInv, OpenAreCertified

-----------------------------------------------------------------------------
(* The maintainers' rows *)

LEMMA MaintainInv ==
    ASSUME IInv, NEW r \in Rows, Maintain(r)
    PROVE  IInv'
<1>1. /\ trunk' = [trunk EXCEPT !.rows = @ \cup {r}, !.pin = trunk.rows \cup {r}]
      /\ gaps' = gaps \cup Faults(trunk, r)
      /\ UNCHANGED <<open, unseen, customerTreeMode, own, graded>>
    BY DEF Maintain
<1>2. trunk \in Tree
    BY DEF IInv, Types, TypeOK
<1>3. /\ trunk' \in Tree
      /\ trunk'.rows = trunk.rows \cup {r} /\ trunk'.pin = trunk'.rows
      /\ trunk'.authored = trunk.authored /\ trunk'.words = trunk.words
      /\ trunk'.touched = trunk.touched /\ trunk'.fires = trunk.fires
    BY <1>1, <1>2 DEF Tree
<1>4. Types'
    <2>1. Faults(trunk, r) \subseteq Families \X {r}
        BY <1>2, SelfGateAssumption DEF Faults, Emitted
    <2> QED
        BY <1>1, <1>3, <2>1 DEF IInv, Types, TypeOK
<1>5. TrunkGradable'
    BY <1>3 DEF IInv, TrunkGradable, ExamRuns
<1>6. \A s : Emitted(trunk, s)' = Emitted(trunk, s) /\ Passes(trunk, s)' = Passes(trunk, s)
    BY <1>3 DEF Emitted, Passes
<1>7. OpenAreCertified'
    <2> SUFFICES ASSUME NEW q \in Proposals, open'[q] # NoProposal
                 PROVE  Certified(open'[q].base, open'[q].head) /\ Behind(open[q].base)'
        BY DEF OpenAreCertified
    <2>1. open'[q] = open[q]
        BY <1>1
    <2>2. Certified(open[q].base, open[q].head) /\ Behind(open[q].base)
        BY <2>1 DEF IInv, OpenAreCertified
    <2>3. Behind(open[q].base)'
        BY <1>1, <1>3, <2>1, <2>2 DEF Behind, Emitted
    <2> QED
        BY <2>1, <2>2, <2>3
<1>8. GradesHold'
    <2>1. ASSUME NEW q \in trunk'.rows
          PROVE  /\ (MustFire[q] \ Emitted(trunk', q)) \X {q} \subseteq gaps'
                 /\ (MustNotFire[q] \cap Emitted(trunk', q)) \X {q} \subseteq gaps' \cup unseen'
        <3>1. Emitted(trunk', q) = Emitted(trunk, q)
            BY <1>3, SameFirings
        <3>2. CASE q \in trunk.rows
            BY <1>1, <3>1, <3>2 DEF IInv, GradesHold
        <3>3. CASE q = r
            BY <1>1, <3>1, <3>3 DEF Faults
        <3> QED
            BY <1>3, <3>2, <3>3
    <2>2. ASSUME NEW d \in trunk'.authored
          PROVE  /\ \E q \in trunk'.rows :
                      FamilyOf[d] \in MustFire[q] /\ MustFire[q] \subseteq Emitted(trunk', q)
                 /\ \E q \in trunk'.rows : FamilyOf[d] \in MustNotFire[q]
        <3>1. \A q : Emitted(trunk', q) = Emitted(trunk, q)
            BY <1>3, SameFirings
        <3> QED
            BY <1>3, <2>2, <3>1 DEF IInv, GradesHold
    <2> QED
        BY <2>1, <2>2 DEF GradesHold, Emitted
<1>9. OwnAreGraded'
    BY <1>1 DEF IInv, OwnAreGraded
<1> QED
    BY <1>4, <1>5, <1>7, <1>8, <1>9 DEF IInv

-----------------------------------------------------------------------------
(* The customer's sidecars *)

LEMMA InstallInv ==
    ASSUME IInv, NEW s \in Sidecars, Install(s)
    PROVE  IInv'
<1>1. PICK car \in Sidecar :
        LET cars == [own EXCEPT ![s] = car] IN
        /\ \A d \in Sidecars : cars[d] # NoSidecar => Graded(trunk, cars, d)
        /\ own' = cars
    BY DEF Install
<1>2. /\ graded' = trunk
      /\ UNCHANGED <<customerTreeMode, trunk, open, unseen, gaps>>
    BY DEF Install
<1>3. Types'
    BY <1>1, <1>2 DEF IInv, Types, TypeOK
<1>4. TrunkGradable' /\ GradesHold'
    BY <1>2 DEF IInv, TrunkGradable, ExamRuns, GradesHold, Passes, Emitted
<1>5. OpenAreCertified'
    <2> SUFFICES ASSUME NEW q \in Proposals, open'[q] # NoProposal
                 PROVE  Certified(open'[q].base, open'[q].head) /\ Behind(open[q].base)'
        BY DEF OpenAreCertified
    <2>1. Certified(open[q].base, open[q].head) /\ Behind(open[q].base)
        BY <1>2 DEF IInv, OpenAreCertified
    <2>2. Behind(open[q].base)'
        BY <1>2, <2>1 DEF Behind, Emitted
    <2> QED
        BY <1>2, <2>1, <2>2
<1>6. OwnAreGraded'
    BY <1>1, <1>2 DEF OwnAreGraded
<1> QED
    BY <1>3, <1>4, <1>5, <1>6 DEF IInv

-----------------------------------------------------------------------------
(* Merges *)

\* The merge of two widenings of one base is a widening of both; a merge that
\* does not conflict leaves the pin digesting the rows.
LEMMA MergedTree ==
    ASSUME IInv, NEW p \in Proposals, Merge(p)
    PROVE  LET base == open[p].base
               head == open[p].head
           IN  /\ trunk' \in Tree /\ ExamRuns(trunk') /\ ~ trunk'.touched
               /\ trunk'.rows = trunk.rows \cup (head.rows \ base.rows)
               /\ trunk'.authored = trunk.authored \cup (head.authored \ base.authored)
               /\ trunk'.words = trunk.words \cup (head.words \ base.words)
               /\ trunk.fires \subseteq trunk'.fires /\ head.fires \subseteq trunk'.fires
               /\ trunk \in Tree /\ base \in Tree /\ head \in Tree
               /\ Certified(base, head) /\ Behind(base)
<1> DEFINE base == open[p].base
           head == open[p].head
<1>1. /\ open[p] # NoProposal /\ ~ Conflict(base, head)
      /\ \E gain \in Combined(trunk, head) :
          trunk' = [rows |-> Merged(trunk.rows, base.rows, head.rows),
                    pin |-> IF head.pin = base.pin THEN trunk.pin ELSE head.pin,
                    authored |-> Merged(trunk.authored, base.authored, head.authored),
                    words |-> Merged(trunk.words, base.words, head.words),
                    touched |-> trunk.touched \/ head.touched,
                    fires |-> Merged(trunk.fires, base.fires, head.fires) \cup gain]
    BY DEF Merge
<1>2. PICK gain \in Combined(trunk, head) :
          trunk' = [rows |-> Merged(trunk.rows, base.rows, head.rows),
                    pin |-> IF head.pin = base.pin THEN trunk.pin ELSE head.pin,
                    authored |-> Merged(trunk.authored, base.authored, head.authored),
                    words |-> Merged(trunk.words, base.words, head.words),
                    touched |-> trunk.touched \/ head.touched,
                    fires |-> Merged(trunk.fires, base.fires, head.fires) \cup gain]
    BY <1>1
<1>3. gain \subseteq Families \X Rows
    BY SelfGateAssumption DEF Combined
<1>4. trunk \in Tree /\ base \in Tree /\ head \in Tree
    BY <1>1 DEF IInv, Types, TypeOK, Proposal
<1>5. Certified(base, head) /\ Behind(base)
    BY <1>1 DEF IInv, OpenAreCertified
<1> HIDE DEF base, head
<1>6. /\ trunk'.rows = trunk.rows \cup (head.rows \ base.rows)
      /\ trunk'.authored = trunk.authored \cup (head.authored \ base.authored)
      /\ trunk'.words = trunk.words \cup (head.words \ base.words)
      /\ trunk'.fires = trunk.fires \cup (head.fires \ base.fires) \cup gain
    BY <1>2, <1>5 DEF Merged, Certified, Widening
<1>7. trunk.fires \subseteq trunk'.fires /\ head.fires \subseteq trunk'.fires
    BY <1>5, <1>6 DEF Behind
<1>8. trunk' \in Tree
    <2>1. /\ trunk'.rows \in SUBSET Rows /\ trunk'.authored \in SUBSET Authored
          /\ trunk'.words \in SUBSET Words /\ trunk'.fires \in SUBSET (Families \X Rows)
        BY <1>3, <1>4, <1>6 DEF Tree
    <2>2. trunk'.pin \in SUBSET Rows /\ trunk'.touched \in BOOLEAN
        BY <1>2, <1>4 DEF Tree
    <2> QED
        BY <1>2, <2>1, <2>2 DEF Tree
<1>9. ExamRuns(trunk')
    <2>1. trunk.pin = trunk.rows /\ base.pin = base.rows /\ head.pin = head.rows
        BY <1>5 DEF IInv, TrunkGradable, ExamRuns, Certified, Widening
    <2>2. base.rows \subseteq head.rows /\ base.rows \subseteq trunk.rows
        BY <1>5 DEF Certified, Widening, Behind
    <2>3. trunk'.pin = IF head.pin = base.pin THEN trunk.pin ELSE head.pin
        BY <1>2
    <2>4. CASE head.pin = base.pin
        BY <1>6, <2>1, <2>3, <2>4 DEF ExamRuns
    <2>5. CASE head.pin # base.pin /\ trunk.pin = base.pin
        BY <1>6, <2>1, <2>2, <2>3, <2>5 DEF ExamRuns
    <2>6. CASE head.pin # base.pin /\ trunk.pin # base.pin
        <3>1. head.pin = trunk.pin
            BY <1>1, <2>6 DEF Conflict
        <3> QED
            BY <1>6, <2>1, <2>3, <2>6, <3>1 DEF ExamRuns
    <2> QED
        BY <2>4, <2>5, <2>6
<1>10. ~ trunk'.touched
    BY <1>2, <1>5 DEF IInv, TrunkGradable, Certified, Widening
<1> QED
    BY <1>4, <1>5, <1>6, <1>7, <1>8, <1>9, <1>10 DEF base, head

\* What a merge does to a row.  It loses none of its detections; and a banned
\* firing was there before, or is remembered as one that neither exam saw: the
\* head's own was judged, and a row it fires on must demand it and pass.
LEMMA MergedGrades ==
    ASSUME IInv, NEW p \in Proposals, Merge(p), NEW r \in trunk'.rows
    PROVE  /\ (MustFire[r] \ Emitted(trunk', r)) \X {r} \subseteq gaps
           /\ (MustNotFire[r] \cap Emitted(trunk', r)) \X {r} \subseteq gaps \cup unseen'
<1>1. PICK base \in Tree, head \in Tree :
        /\ trunk' \in Tree
        /\ trunk'.rows = trunk.rows \cup (head.rows \ base.rows)
        /\ trunk.fires \subseteq trunk'.fires /\ head.fires \subseteq trunk'.fires
        /\ Certified(base, head) /\ Behind(base)
        /\ unseen' = unseen \cup Unseen(trunk, head, trunk')
    BY MergedTree DEF Merge
<1>2. /\ Emitted(trunk, r) \subseteq Emitted(trunk', r)
      /\ Emitted(head, r) \subseteq Emitted(trunk', r)
      /\ Emitted(base, r) \subseteq Emitted(trunk, r)
    BY <1>1 DEF Emitted, Behind
<1>3. base.rows \subseteq trunk.rows
    BY <1>1 DEF Behind
<1>4. ASSUME r \notin trunk.rows
      PROVE  Passes(head, r)
    BY <1>1, <1>3, <1>4 DEF Certified, AddedRowsPass
<1>5. ASSUME NEW f \in MustFire[r] \ Emitted(trunk', r)
      PROVE  <<f, r>> \in gaps
    <2>1. f \notin Emitted(trunk, r) /\ f \notin Emitted(head, r)
        BY <1>2, <1>5
    <2>2. r \in trunk.rows
        BY <1>4, <2>1 DEF Passes
    <2> QED
        BY <2>1, <2>2 DEF IInv, GradesHold
<1>6. ASSUME NEW f \in MustNotFire[r] \cap Emitted(trunk', r)
      PROVE  <<f, r>> \in gaps \cup unseen'
    <2>1. <<f, r>> \in trunk'.fires
        BY <1>6 DEF Emitted
    <2>2. CASE r \in trunk.rows /\ f \in Emitted(trunk, r)
        BY <1>1, <2>2 DEF IInv, GradesHold
    <2>3. CASE r \in head.rows /\ f \in Emitted(head, r)
        <3>1. ~ Passes(head, r)
            BY <1>6, <2>3 DEF Passes
        <3>2. r \in trunk.rows /\ r \in base.rows
            BY <1>1, <1>3, <2>3, <3>1 DEF Certified, AddedRowsPass
        <3>3. f \in Emitted(base, r)
            <4> SUFFICES ASSUME f \notin Emitted(base, r) PROVE FALSE
                OBVIOUS
            <4>1. r \in Gained(base, head)
                BY <1>1, <2>3, <3>2 DEF Certified, NoNewFirings
            <4> QED
                BY <3>1, <4>1 DEF Gained
        <3> QED
            BY <1>2, <2>2, <3>2, <3>3
    <2>4. CASE /\ ~ (r \in trunk.rows /\ f \in Emitted(trunk, r))
               /\ ~ (r \in head.rows /\ f \in Emitted(head, r))
        <3>1. f \in Families
            BY <1>1, <2>1 DEF Tree
        <3>2. \A t \in {trunk, head} : ~ (<<f, r>> \in t.fires /\ r \in t.rows)
            BY <2>4, <3>1 DEF Emitted
        <3>3. <<f, r>> \in Unseen(trunk, head, trunk')
            BY <1>6, <2>1, <3>2 DEF Unseen
        <3> QED
            BY <1>1, <3>3
    <2> QED
        BY <2>2, <2>3, <2>4
<1> QED
    BY <1>5, <1>6

LEMMA MergeInv ==
    ASSUME IInv, NEW p \in Proposals, Merge(p)
    PROVE  IInv'
<1>1. PICK base \in Tree, head \in Tree :
        /\ trunk' \in Tree /\ ExamRuns(trunk') /\ ~ trunk'.touched
        /\ trunk'.rows = trunk.rows \cup (head.rows \ base.rows)
        /\ trunk'.authored = trunk.authored \cup (head.authored \ base.authored)
        /\ trunk'.words = trunk.words \cup (head.words \ base.words)
        /\ trunk.fires \subseteq trunk'.fires /\ head.fires \subseteq trunk'.fires
        /\ Certified(base, head) /\ Behind(base)
        /\ unseen' = unseen \cup Unseen(trunk, head, trunk')
    BY MergedTree DEF Merge
<1>2. /\ open' = [open EXCEPT ![p] = NoProposal]
      /\ UNCHANGED <<customerTreeMode, gaps, own, graded>>
    BY DEF Merge
<1>3. Types'
    <2>1. Unseen(trunk, head, trunk') \subseteq trunk'.fires \cap (Families \X trunk'.rows)
        BY <1>1 DEF Unseen, Tree
    <2>2. unseen' \subseteq trunk'.fires \cap (Families \X trunk'.rows)
        BY <1>1, <2>1 DEF IInv, Types, TypeOK
    <2>3. gaps' \subseteq Families \X trunk'.rows
        BY <1>1, <1>2 DEF IInv, Types, TypeOK
    <2> QED
        BY <1>1, <1>2, <2>2, <2>3 DEF IInv, Types, TypeOK
<1>4. TrunkGradable'
    BY <1>1 DEF TrunkGradable, ExamRuns
<1>5. OwnAreGraded'
    BY <1>2 DEF IInv, OwnAreGraded
<1>6. OpenAreCertified'
    <2> SUFFICES ASSUME NEW q \in Proposals, open'[q] # NoProposal
                 PROVE  Certified(open'[q].base, open'[q].head) /\ Behind(open[q].base)'
        BY DEF OpenAreCertified
    <2>1. open'[q] = open[q]
        BY <1>2 DEF IInv, Types, TypeOK
    <2>2. Certified(open[q].base, open[q].head) /\ Behind(open[q].base)
        BY <2>1 DEF IInv, OpenAreCertified
    <2>3. Behind(open[q].base)'
        BY <1>1, <2>1, <2>2 DEF Behind
    <2> QED
        BY <2>1, <2>2, <2>3
<1>7. ASSUME NEW d \in trunk'.authored
      PROVE  /\ \E r \in trunk'.rows :
                  FamilyOf[d] \in MustFire[r] /\ MustFire[r] \subseteq Emitted(trunk', r)
             /\ \E r \in trunk'.rows : FamilyOf[d] \in MustNotFire[r]
    <2>1. \A r : /\ Emitted(trunk, r) \subseteq Emitted(trunk', r)
                 /\ Emitted(head, r) \subseteq Emitted(trunk', r)
        BY <1>1 DEF Emitted
    <2>2. CASE d \in trunk.authored
        BY <1>1, <2>1, <2>2 DEF IInv, GradesHold
    <2>3. CASE d \in head.authored \ base.authored
        <3>1. FireProven(head, FamilyOf[d]) /\ TwinProven(head, FamilyOf[d])
            BY <1>1, <2>3 DEF Certified, BenignTwins
        <3>2. head.rows \subseteq trunk'.rows
            BY <1>1 DEF Behind
        <3> QED
            BY <2>1, <3>1, <3>2 DEF FireProven, TwinProven, Passes
    <2> QED
        BY <1>1, <2>2, <2>3
<1>8. ASSUME NEW r \in trunk'.rows
      PROVE  /\ (MustFire[r] \ Emitted(trunk', r)) \X {r} \subseteq gaps'
             /\ (MustNotFire[r] \cap Emitted(trunk', r)) \X {r} \subseteq gaps' \cup unseen'
    BY <1>2, MergedGrades
<1>9. GradesHold'
    BY <1>7, <1>8 DEF GradesHold, Emitted
<1> QED
    BY <1>3, <1>4, <1>5, <1>6, <1>9 DEF IInv

-----------------------------------------------------------------------------
(* The theorems *)

LEMMA NextIInv == IInv /\ [Next]_vars => IInv'
<1> SUFFICES ASSUME IInv, [Next]_vars PROVE IInv'
    OBVIOUS
<1>1. CASE UNCHANGED vars
    <2>1. UNCHANGED <<customerTreeMode, trunk, open, unseen, gaps, own, graded>>
        BY <1>1 DEF vars
    <2>2. Types' /\ TrunkGradable' /\ GradesHold' /\ OwnAreGraded'
        BY <2>1 DEF IInv, Types, TypeOK, TrunkGradable, ExamRuns, GradesHold, Passes, Emitted,
                    OwnAreGraded
    <2>3. ASSUME NEW q \in Proposals, open'[q] # NoProposal
          PROVE  Certified(open'[q].base, open'[q].head) /\ Behind(open[q].base)'
        <3>1. Certified(open[q].base, open[q].head) /\ Behind(open[q].base)
            BY <2>1, <2>3 DEF IInv, OpenAreCertified
        <3>2. Behind(open[q].base)'
            BY <2>1, <3>1 DEF Behind, Emitted
        <3> QED
            BY <2>1, <3>1, <3>2
    <2> QED
        BY <2>2, <2>3 DEF IInv, OpenAreCertified
<1>2. CASE Next
    BY <1>2, ValidateInv, AbandonInv, MergeInv, MaintainInv, InstallInv DEF Next
<1> QED
    BY <1>1, <1>2

LEMMA Invariance == Spec => []IInv
BY InitIInv, NextIInv, PTL DEF Spec

\* Trees, proposals and sidecars keep their types, and the histories speak of
\* rows the trunk has and firings it shows.
THEOREM TypeCorrect == Spec => []TypeOK
<1>1. IInv => TypeOK
    BY DEF IInv, Types
<1> QED
    BY <1>1, Invariance, PTL

\* However certified proposals and their merges interleave and whatever tuning
\* words combine to, the trunk misses no detection its rows demand but those
\* missing from the start, fires nothing banned that an exam has seen, and keeps
\* for every authored detector a row it is needed on and a benign one.
THEOREM GradesAlwaysHold == Spec => []GradesHold
<1>1. IInv => GradesHold
    BY DEF IInv
<1> QED
    BY <1>1, Invariance, PTL

\* No step narrows the trunk, and the exam of the next proposal can run.
LEMMA StepWidens ==
    IInv /\ IInv' /\ [Next]_vars =>
        [ /\ trunk.rows \subseteq trunk'.rows
          /\ trunk.authored \subseteq trunk'.authored
          /\ trunk.words \subseteq trunk'.words
          /\ trunk.fires \subseteq trunk'.fires
          /\ ~ trunk'.touched
          /\ ExamRuns(trunk') ]_vars
<1> SUFFICES ASSUME IInv, IInv', Next
             PROVE  /\ trunk.rows \subseteq trunk'.rows
                    /\ trunk.authored \subseteq trunk'.authored
                    /\ trunk.words \subseteq trunk'.words
                    /\ trunk.fires \subseteq trunk'.fires
                    /\ ~ trunk'.touched
                    /\ ExamRuns(trunk')
    OBVIOUS
<1>1. ~ trunk'.touched /\ ExamRuns(trunk')
    BY DEF IInv, TrunkGradable, ExamRuns
<1>2. ASSUME NEW p \in Proposals, Merge(p)
      PROVE  /\ trunk.rows \subseteq trunk'.rows
             /\ trunk.authored \subseteq trunk'.authored
             /\ trunk.words \subseteq trunk'.words
             /\ trunk.fires \subseteq trunk'.fires
    BY <1>2, MergedTree
<1>3. ASSUME NEW r \in Rows, Maintain(r)
      PROVE  /\ trunk.rows \subseteq trunk'.rows
             /\ trunk.authored \subseteq trunk'.authored
             /\ trunk.words \subseteq trunk'.words
             /\ trunk.fires \subseteq trunk'.fires
    BY <1>3 DEF Maintain, IInv, Types, TypeOK, Tree
<1>4. CASE trunk' = trunk
    BY <1>1, <1>4
<1> QED
    BY <1>1, <1>2, <1>3, <1>4 DEF Next, Validate, Abandon, Install

\* Whatever is merged, on whatever base, the trunk only widens.
THEOREM TrunkAlwaysWidens == Spec => TrunkOnlyWidens
BY Invariance, NextIInv, StepWidens, PTL DEF Spec, TrunkOnlyWidens

\* What a tree emits with sidecars loaded.
LEMMA LoadedEmissions ==
    ASSUME NEW t \in Tree, NEW cars, NEW loaded, NEW r, NEW f
    PROVE  /\ With(t, cars, loaded).rows = t.rows
           /\ f \in Emitted(With(t, cars, loaded), r) <=>
                f \in Emitted(t, r) \/
                (f \in Families /\ \E s \in loaded : f = FamilyOf[s] /\ r \in cars[s].on)
<1>1. /\ With(t, cars, loaded).rows = t.rows
      /\ With(t, cars, loaded).fires =
           t.fires \cup UNION {{FamilyOf[s]} \X cars[s].on : s \in loaded}
    BY DEF With, Tree
<1>2. <<f, r>> \in UNION {{FamilyOf[s]} \X cars[s].on : s \in loaded} <=>
        \E s \in loaded : f = FamilyOf[s] /\ r \in cars[s].on
    OBVIOUS
<1> QED
    BY <1>1, <1>2 DEF Emitted

\* Grades given one sidecar at a time hold for all of them at once.
LEMMA GradedTogether == IInv => LoadedTogether
<1> SUFFICES ASSUME IInv PROVE LoadedTogether
    OBVIOUS
<1> DEFINE all == With(graded, own, Sidecars)
           alone(s) == With(graded, own, {s})
<1>1. graded \in Tree
    BY DEF IInv, Types, TypeOK
<1>2. \A r : Emitted(graded, r) \subseteq Emitted(all, r)
    BY <1>1, LoadedEmissions
<1>3. ASSUME NEW r \in graded.rows, NEW f \in Emitted(all, r), f \notin Emitted(graded, r)
      PROVE  \E s \in Sidecars : Graded(graded, own, s) /\ f \in Emitted(alone(s), r)
    <2>1. PICK s \in Sidecars : f \in Families /\ f = FamilyOf[s] /\ r \in own[s].on
        BY <1>1, <1>3, LoadedEmissions
    <2>2. Graded(graded, own, s)
        BY <2>1 DEF IInv, OwnAreGraded, NoSidecar
    <2>3. f \in Emitted(alone(s), r)
        BY <1>1, <2>1, LoadedEmissions
    <2> QED
        BY <2>2, <2>3
<1>4. \A loaded : With(graded, own, loaded).rows = graded.rows
    BY <1>1 DEF With, Tree
<1> HIDE DEF all, alone
<1>5. ASSUME NEW r \in graded.rows, NEW f \in Emitted(all, r)
      PROVE  f \in Emitted(graded, r) \cup MustFire[r]
    <2>1. CASE f \notin Emitted(graded, r)
        <3>1. PICK s \in Sidecars : Graded(graded, own, s) /\ f \in Emitted(alone(s), r)
            BY <1>3, <2>1
        <3>2. HeldOut(graded, alone(s))
            BY <3>1 DEF Graded, alone
        <3> QED
            BY <3>1, <3>2 DEF HeldOut
    <2> QED
        BY <2>1
<1>6. ASSUME NEW r \in graded.rows, Passes(graded, r)
      PROVE  Passes(all, r)
    <2>1. MustFire[r] \subseteq Emitted(all, r)
        BY <1>2, <1>6 DEF Passes
    <2>2. ASSUME NEW f \in MustNotFire[r], f \in Emitted(all, r)
          PROVE  FALSE
        <3>1. f \notin Emitted(graded, r)
            BY <1>6, <2>2 DEF Passes
        <3>2. PICK s \in Sidecars : Graded(graded, own, s) /\ f \in Emitted(alone(s), r)
            BY <1>3, <2>2, <3>1
        <3>3. NoRegression(graded, alone(s))
            BY <3>2 DEF Graded, alone
        <3> QED
            BY <1>6, <2>2, <3>2, <3>3 DEF NoRegression, Passes
    <2> QED
        BY <2>1, <2>2 DEF Passes
<1>7. NoRegression(graded, all) /\ HeldOut(graded, all)
    BY <1>4, <1>5, <1>6 DEF NoRegression, HeldOut, all
<1> QED
    BY <1>7 DEF LoadedTogether, all

\* Sidecars graded one at a time fail no passing row of the tree they were
\* graded by, and fire nothing it does not demand, when they run together.
THEOREM SidecarsHoldTogether == Spec => []LoadedTogether
BY Invariance, GradedTogether, PTL


-----------------------------------------------------------------------------
(* Steering: what holds of the grants and of the cases in between. *)

Statuses == {"none", "open", "recurring", "closed", "aged"}
CaseSets == {set \in [CaseIds -> [status : Statuses, count : Nat]] :
                 \A id \in CaseIds : (set[id].status = "none") = (set[id].count = 0)}

Calls == [pc : {"none", "check", "append", "remiss"}, ref : Nat, seen : Healths]
Stages == {"idle", "pulled", "flagged", "collapse", "write"}
ScanStates == [pc : Stages, n : 0..1, key : Keys \cup {Idle.key}, merged : CaseSets]

IsMiss(ref) == ref \in DOMAIN grants /\ grants[ref].kind = "miss"

GrantsTyped ==
    /\ connector \in Healths /\ grants \in Seq(Row) /\ call \in [Procs -> Calls]
    /\ \A p \in Procs : call[p].pc \in {"check", "append"} =>
          IsMiss(call[p].ref) /\ call[p].seen = "ok"

\* While no two confirmations ran at once there is one at most, and one that is
\* about to append is the first to claim its miss.
OneConfirms ==
    ~raced => /\ \A p, q \in Procs : call[p].pc # "none" /\ call[q].pc # "none" => p = q
              /\ \A p \in Procs : call[p].pc = "append" => ~Claimed(call[p].ref)

\* A resolution's miss is a row of the stream.
MissesExist == \A i \in DOMAIN grants : grants[i].kind = "resolution" => IsMiss(grants[i].ref)

GrantInv == GrantsTyped /\ OneConfirms /\ MissesExist /\ GrantHistoryIsHonest

Flagged == {s \in Scans : At(s, "flagged")}

CasesTyped ==
    /\ scan \in [Scans -> ScanStates]
    /\ findings \in Seq(Keys) /\ resolutions \in Seq([key : Keys, escalated : BOOLEAN])
    /\ cases \in CaseSets
    /\ directives \in Seq([op : {"close-case", "recurrence-fine"}, case : CaseIds])
    /\ faults \in Nat

\* A finding without its resolution belongs to a scan, or to a killed one.
StreamsAligned == Len(resolutions) + Cardinality(Flagged) <= Len(findings)

ScanSteps == \A s \in Scans :
    /\ At(s, "idle") => scan[s] = Idle
    /\ At(s, "pulled") => scan[s].n = 0
    /\ At(s, "flagged") => scan[s].n = 1 /\ scan[s].key \in Keys
    /\ At(s, "collapse") /\ scan[s].n = 1 => scan[s].key \in Keys /\ resolutions # <<>>

CaseInv == CasesTyped /\ StreamsAligned /\ ScanSteps

Count(k) == cases[<<k, k>>].count

\* What a scan that is alone still owes to the cases.
Owes(s, k) ==
    IF At(s, "collapse") /\ scan[s].n = 1 /\ Latest(resolutions).escalated /\ k = scan[s].key
    THEN 1 ELSE 0

Accounted(s) ==
    /\ ~At(s, "write") => \A k \in Keys :
          /\ Count(k) + Owes(s, k) <= Escalated(k)
          /\ faults = 0 => Count(k) + Owes(s, k) = Escalated(k)
    /\ At(s, "write") => \A k \in Keys :
          /\ scan[s].merged[<<k, k>>].count <= Escalated(k)
          /\ faults = 0 => scan[s].merged[<<k, k>>].count = Escalated(k)
    /\ At(s, "flagged") => Latest(findings) = scan[s].key
    /\ At(s, "collapse") /\ scan[s].n = 1 =>
          Latest(findings) = scan[s].key /\ Latest(resolutions).key = scan[s].key

CountInv ==
    ~overlapped =>
        /\ \A s, t \in Scans : ~At(s, "idle") /\ ~At(t, "idle") => s = t
        /\ \A s \in Scans : ~At(s, "idle") => Accounted(s)
        /\ CountsAreHonest

(* The grants stream. *)

\* What a row more leaves as it was.
LEMMA MoreGrants ==
    ASSUME grants \in Seq(Row), NEW row \in Row, grants' = Append(grants, row)
    PROVE  /\ grants' \in Seq(Row) /\ Len(grants) \in Nat
           /\ DOMAIN grants = 1..Len(grants) /\ DOMAIN grants' = 1..(Len(grants) + 1)
           /\ \A i \in DOMAIN grants : grants'[i] = grants[i] /\ i \in DOMAIN grants'
           /\ grants'[Len(grants) + 1] = row
           /\ \A ref : IsMiss(ref) => IsMiss(ref)'
BY DEF IsMiss

LEMMA MissAdded ==
    ASSUME GrantInv, grants' = Append(grants, Miss)
    PROVE  /\ grants' \in Seq(Row)
           /\ \A ref : IsMiss(ref) => IsMiss(ref)'
           /\ \A ref : Claimed(ref)' => Claimed(ref)
           /\ MissesExist'
           /\ raced' = raced => GrantHistoryIsHonest'
<1>1. grants \in Seq(Row) /\ Miss \in Row /\ Miss.kind = "miss"
  BY DEF GrantInv, GrantsTyped, Row, Miss
<1>2. /\ grants' \in Seq(Row) /\ Len(grants) \in Nat
      /\ DOMAIN grants = 1..Len(grants) /\ DOMAIN grants' = 1..(Len(grants) + 1)
      /\ \A i \in DOMAIN grants : grants'[i] = grants[i] /\ i \in DOMAIN grants'
      /\ grants'[Len(grants) + 1] = Miss
      /\ \A ref : IsMiss(ref) => IsMiss(ref)'
  BY <1>1, MoreGrants
<1>3. \A i \in DOMAIN grants' : grants'[i].kind = "resolution" => i \in DOMAIN grants
  <2>1. \A i \in DOMAIN grants' : i \in DOMAIN grants \/ i = Len(grants) + 1
    BY <1>2
  <2> QED  BY <1>1, <1>2, <2>1
<1>4. \A ref : Claimed(ref)' => Claimed(ref)
  BY <1>2, <1>3 DEF Claimed
<1>6. MissesExist'
  BY <1>2, <1>3 DEF GrantInv, MissesExist
<1>5. ASSUME raced' = raced PROVE GrantHistoryIsHonest'
  <2>1. ASSUME NEW i \in DOMAIN grants', grants'[i].kind = "resolution"
        PROVE  /\ grants'[i].seen = "ok"
               /\ grants'[i].ref < i /\ grants'[grants'[i].ref].kind = "miss"
               /\ raced' \/ \A j \in DOMAIN grants' \ {i} :
                        ~(grants'[j].kind = "resolution" /\ grants'[j].ref = grants'[i].ref)
    <3>1. i \in DOMAIN grants /\ grants'[i] = grants[i] /\ grants[i] \in Row
      BY <1>1, <1>2, <1>3, <2>1
    <3>2. grants[i].ref \in Nat
      BY <2>1, <3>1 DEF Row
    <3>3. /\ grants[i].seen = "ok" /\ grants[i].ref < i /\ grants[grants[i].ref].kind = "miss"
          /\ raced \/ \A j \in DOMAIN grants \ {i} :
                        ~(grants[j].kind = "resolution" /\ grants[j].ref = grants[i].ref)
      BY <2>1, <3>1 DEF GrantInv, GrantHistoryIsHonest
    <3>4. grants'[grants[i].ref].kind = "miss"
      BY <1>2, <2>1, <3>1 DEF GrantInv, MissesExist, IsMiss
    <3> QED  BY <1>2, <1>3, <1>5, <3>1, <3>3, <3>4
  <2> QED  BY <2>1 DEF GrantHistoryIsHonest
<1> QED  BY <1>2, <1>4, <1>5, <1>6

LEMMA ResolutionAdded ==
    ASSUME GrantInv, NEW ref \in Nat, NEW seen \in {"ok"}, IsMiss(ref),
           ~raced => ~Claimed(ref), raced' = raced,
           grants' = Append(grants, [kind |-> "resolution", ref |-> ref, seen |-> seen])
    PROVE  /\ grants' \in Seq(Row)
           /\ \A x : IsMiss(x) => IsMiss(x)'
           /\ \A x : Claimed(x)' => Claimed(x) \/ x = ref
           /\ MissesExist' /\ GrantHistoryIsHonest'
<1> DEFINE row == [kind |-> "resolution", ref |-> ref, seen |-> seen]
           n == Len(grants) + 1
<1>1. /\ grants \in Seq(Row) /\ row \in Row
      /\ row.kind = "resolution" /\ row.ref = ref /\ row.seen = "ok"
  BY DEF GrantInv, GrantsTyped, Row, Healths
<1> HIDE DEF row
<1>2. /\ grants' \in Seq(Row) /\ Len(grants) \in Nat
      /\ DOMAIN grants = 1..Len(grants) /\ DOMAIN grants' = 1..n
      /\ \A i \in DOMAIN grants : grants'[i] = grants[i] /\ i \in DOMAIN grants'
      /\ grants'[n] = row
      /\ \A x : IsMiss(x) => IsMiss(x)'
  BY <1>1, MoreGrants DEF row
<1>3. /\ \A i \in DOMAIN grants' : i \in DOMAIN grants \/ i = n
      /\ n \notin DOMAIN grants /\ n \in DOMAIN grants'
      /\ ref \in DOMAIN grants /\ ref < n /\ grants[ref].kind = "miss"
  BY <1>2 DEF IsMiss
<1> HIDE DEF n
<1>4. \A x : Claimed(x)' => Claimed(x) \/ x = ref
  BY <1>1, <1>2, <1>3 DEF Claimed
<1>5. MissesExist'
  <2>1. ASSUME NEW i \in DOMAIN grants', grants'[i].kind = "resolution"
        PROVE  grants'[i].ref \in DOMAIN grants' /\ grants'[grants'[i].ref].kind = "miss"
    <3>1. CASE i = n
      <4>1. grants'[i].ref = ref
        BY <1>1, <1>2, <3>1
      <4>2. ref \in DOMAIN grants' /\ grants'[ref].kind = "miss"
        BY <1>2, <1>3
      <4> QED  BY <4>1, <4>2
    <3>2. CASE i \in DOMAIN grants
      <4>1. grants'[i] = grants[i] /\ IsMiss(grants[i].ref)
        BY <1>2, <2>1, <3>2 DEF GrantInv, MissesExist
      <4> QED  BY <1>2, <4>1 DEF IsMiss
    <3> QED  BY <1>3, <3>1, <3>2
  <2> QED  BY <2>1 DEF MissesExist, IsMiss
<1>6. ASSUME NEW i \in DOMAIN grants', grants'[i].kind = "resolution"
      PROVE  /\ grants'[i].seen = "ok"
             /\ grants'[i].ref < i /\ grants'[grants'[i].ref].kind = "miss"
  <2>1. CASE i = n
    BY <1>1, <1>2, <1>3, <2>1
  <2>2. CASE i \in DOMAIN grants
    <3>1. grants'[i] = grants[i] /\ IsMiss(grants[i].ref)
      BY <1>2, <1>6, <2>2 DEF GrantInv, MissesExist
    <3>2. grants[i].seen = "ok" /\ grants[i].ref < i
      BY <1>6, <2>2, <3>1 DEF GrantInv, GrantHistoryIsHonest
    <3> QED  BY <1>2, <3>1, <3>2 DEF IsMiss
  <2> QED  BY <1>3, <2>1, <2>2
<1>7. ASSUME ~raced, NEW i \in DOMAIN grants', NEW j \in DOMAIN grants' \ {i},
             grants'[i].kind = "resolution", grants'[j].kind = "resolution",
             grants'[i].ref = grants'[j].ref
      PROVE  FALSE
  <2>1. \A x \in DOMAIN grants : grants[x].kind = "resolution" => grants[x].ref # ref
    BY <1>7 DEF Claimed
  <2>2. CASE i = n
    <3>1. j \in DOMAIN grants
      BY <1>3, <2>2
    <3> QED  BY <1>1, <1>2, <1>7, <2>1, <2>2, <3>1
  <2>3. CASE j = n
    <3>1. i \in DOMAIN grants
      BY <1>3, <2>3
    <3> QED  BY <1>1, <1>2, <1>7, <2>1, <2>3, <3>1
  <2>4. CASE i \in DOMAIN grants /\ j \in DOMAIN grants
    BY <1>2, <1>7, <2>4 DEF GrantInv, GrantHistoryIsHonest
  <2> QED  BY <1>3, <2>2, <2>3, <2>4
<1>8. GrantHistoryIsHonest'
  BY <1>6, <1>7 DEF GrantHistoryIsHonest
<1> QED  BY <1>2, <1>4, <1>5, <1>8

LEMMA PendingIsOpen ==
    ASSUME grants \in Seq(Row), Pending # NoMiss
    PROVE  IsMiss(Pending)
<1>1. Outstanding \subseteq 1..Len(grants) /\ Len(grants) \in Nat
  BY DEF Outstanding
<1>2. IsFiniteSet(Outstanding)
  <2>1. IsFiniteSet(1..Len(grants))
    BY <1>1, FS_Interval
  <2>2. Outstanding \in SUBSET (1..Len(grants))
    BY <1>1
  <2> QED  BY <2>1, <2>2, FS_Subset
<1>3. Outstanding \subseteq Nat /\ Outstanding # {}
  BY <1>1 DEF Pending
<1>4. \E i \in Outstanding : \A j \in Outstanding : j <= i
  BY <1>2, <1>3, FiniteMax
<1>5. Pending \in Outstanding
  BY <1>3, <1>4 DEF Pending
<1> QED  BY <1>5 DEF Outstanding, IsMiss

LEMMA OneCall ==
    ASSUME call \in [Procs -> Calls], NEW p \in Procs, NEW x \in Calls,
           call' = [call EXCEPT ![p] = x]
    PROVE  /\ call' \in [Procs -> Calls] /\ call'[p] = x
           /\ \A q \in Procs : q # p => call'[q] = call[q]
OBVIOUS

LEMMA NoCallTyped == NoCall \in Calls /\ NoCall.pc = "none"
BY DEF NoCall, NoMiss, Calls, Healths

\* A confirmation that begins.
LEMMA ProbeInv ==
    ASSUME GrantInv, NEW p \in Procs, NEW ref, IsMiss(ref), Probe(p, ref),
           UNCHANGED <<connector, grants>>
    PROVE  GrantInv'
<1>1. /\ call \in [Procs -> Calls] /\ connector \in Healths /\ grants \in Seq(Row)
      /\ \A q \in Procs : call[q].pc \in {"check", "append"} =>
            IsMiss(call[q].ref) /\ call[q].seen = "ok"
  BY DEF GrantInv, GrantsTyped
<1>2. ref \in Nat
  BY <1>1 DEF IsMiss
<1>3. PICK x : /\ x = IF Resolved(connector) THEN [pc |-> "check", ref |-> ref, seen |-> connector]
                      ELSE [NoCall EXCEPT !.pc = "remiss"]
               /\ call' = [call EXCEPT ![p] = x]
  BY DEF Probe
<1>4. /\ x \in Calls /\ x.pc \in {"check", "remiss"}
      /\ x.pc = "check" => x.ref = ref /\ x.seen = "ok"
  BY <1>1, <1>2, <1>3 DEF Resolved, NoCall, NoMiss, Calls, Healths
<1>5. /\ call' \in [Procs -> Calls] /\ call'[p] = x
      /\ \A q \in Procs : q # p => call'[q] = call[q]
  BY <1>1, <1>3, <1>4, OneCall
<1>6. \A r : /\ IsMiss(r)' = IsMiss(r)
             /\ Claimed(r)' = Claimed(r)
  BY DEF IsMiss, Claimed
<1>7. GrantsTyped'
  <2>1. ASSUME NEW q \in Procs, call'[q].pc \in {"check", "append"}
        PROVE  IsMiss(call'[q].ref) /\ call'[q].seen = "ok"
    BY <1>1, <1>4, <1>5, <2>1
  <2>2. \A q \in Procs : call'[q].pc \in {"check", "append"} =>
           (/\ call'[q].ref \in DOMAIN grants' /\ grants'[call'[q].ref].kind = "miss"
            /\ call'[q].seen = "ok")
    BY <2>1 DEF IsMiss
  <2> QED  BY <1>1, <1>5, <2>2 DEF GrantsTyped, IsMiss
<1>8. OneConfirms'
  <2> SUFFICES ASSUME ~raced'
               PROVE  /\ \A q, r \in Procs : call'[q].pc # "none" /\ call'[r].pc # "none" => q = r
                      /\ \A q \in Procs : call'[q].pc = "append" => ~Claimed(call[q].ref)
    BY <1>4, <1>5 DEF OneConfirms, Claimed
  <2>1. \A q \in Procs \ {p} : call[q].pc = "none"
    BY DEF Probe
  <2> QED  BY <1>4, <1>5, <2>1
<1>9. MissesExist'
  BY <1>6 DEF GrantInv, MissesExist, IsMiss
<1>10. GrantHistoryIsHonest'
  <2>1. raced' => raced \/ raced'
    OBVIOUS
  <2>2. raced => raced'
    BY DEF Probe
  <2> QED  BY <2>2 DEF GrantInv, GrantHistoryIsHonest
<1> QED  BY <1>7, <1>8, <1>9, <1>10 DEF GrantInv

\* A confirmation that moves on or ends, without a row.
LEMMA CallInv ==
    ASSUME GrantInv, NEW p \in Procs, NEW x \in Calls, call' = [call EXCEPT ![p] = x],
           UNCHANGED <<connector, grants, raced>>,
           \/ x.pc = "none"
           \/ call[p].pc = "check" /\ x = [call[p] EXCEPT !.pc = "append"] /\ ~Claimed(x.ref)
    PROVE  GrantInv'
<1>1. /\ call \in [Procs -> Calls] /\ connector \in Healths /\ grants \in Seq(Row)
      /\ \A q \in Procs : call[q].pc \in {"check", "append"} =>
            IsMiss(call[q].ref) /\ call[q].seen = "ok"
  BY DEF GrantInv, GrantsTyped
<1>2. /\ call' \in [Procs -> Calls] /\ call'[p] = x
      /\ \A q \in Procs : q # p => call'[q] = call[q]
  BY <1>1, OneCall
<1>3. x.pc # "none" => /\ call[p].pc = "check" /\ x.pc = "append"
                       /\ x.ref = call[p].ref /\ x.seen = call[p].seen /\ ~Claimed(x.ref)
  BY <1>1 DEF Calls
<1>4. GrantsTyped'
  <2>1. \A q \in Procs : call'[q].pc \in {"check", "append"} =>
           IsMiss(call'[q].ref) /\ call'[q].seen = "ok"
    BY <1>1, <1>2, <1>3
  <2>2. \A q \in Procs : call'[q].pc \in {"check", "append"} =>
           (/\ call'[q].ref \in DOMAIN grants' /\ grants'[call'[q].ref].kind = "miss"
            /\ call'[q].seen = "ok")
    BY <2>1 DEF IsMiss
  <2> QED  BY <1>1, <1>2, <2>2 DEF GrantsTyped, IsMiss
<1>5. OneConfirms'
  <2> SUFFICES ASSUME ~raced
               PROVE  /\ \A q, r \in Procs : call'[q].pc # "none" /\ call'[r].pc # "none" => q = r
                      /\ \A q \in Procs : call'[q].pc = "append" => ~Claimed(call'[q].ref)
    BY DEF OneConfirms, Claimed
  <2>1. /\ \A q, r \in Procs : call[q].pc # "none" /\ call[r].pc # "none" => q = r
        /\ \A q \in Procs : call[q].pc = "append" => ~Claimed(call[q].ref)
    BY DEF GrantInv, OneConfirms
  <2>2. \A q \in Procs : call'[q].pc # "none" => call[q].pc # "none"
    BY <1>2, <1>3
  <2>3. \A q \in Procs : call'[q].pc = "append" => ~Claimed(call'[q].ref)
    BY <1>2, <1>3, <2>1
  <2> QED  BY <2>1, <2>2, <2>3
<1>6. MissesExist' /\ GrantHistoryIsHonest'
  BY DEF GrantInv, MissesExist, IsMiss, GrantHistoryIsHonest
<1> QED  BY <1>4, <1>5, <1>6 DEF GrantInv

\* A row more, and at most the end of the confirmation that appended it.
MoreOf(row) ==
    /\ grants' = Append(grants, row) /\ UNCHANGED <<connector, raced>>
    /\ call' = call \/ \E p \in Procs : call[p].pc # "none" /\ call' = [call EXCEPT ![p] = NoCall]

LEMMA CallsAfterRow ==
    ASSUME GrantInv, NEW row, MoreOf(row)
    PROVE  /\ call' \in [Procs -> Calls]
           /\ \A p \in Procs : call'[p] = call[p] \/ (call'[p].pc = "none" /\ call[p].pc # "none")
<1>1. call \in [Procs -> Calls]
  BY DEF GrantInv, GrantsTyped
<1>2. CASE call' = call
  BY <1>1, <1>2
<1>3. ASSUME NEW p \in Procs, call[p].pc # "none", call' = [call EXCEPT ![p] = NoCall]
      PROVE  /\ call' \in [Procs -> Calls]
             /\ \A q \in Procs : call'[q] = call[q] \/ (call'[q].pc = "none" /\ call[q].pc # "none")
  BY <1>1, <1>3, OneCall, NoCallTyped
<1> QED  BY <1>2, <1>3 DEF MoreOf

LEMMA MissInv ==
    ASSUME GrantInv, MoreOf(Miss)
    PROVE  GrantInv'
<1>1. /\ call \in [Procs -> Calls] /\ connector \in Healths
      /\ \A q \in Procs : call[q].pc \in {"check", "append"} =>
            IsMiss(call[q].ref) /\ call[q].seen = "ok"
  BY DEF GrantInv, GrantsTyped
<1>2. /\ grants' = Append(grants, Miss) /\ connector' = connector /\ raced' = raced
  BY DEF MoreOf
<1>3. /\ grants' \in Seq(Row) /\ MissesExist' /\ GrantHistoryIsHonest'
      /\ \A ref : IsMiss(ref) => IsMiss(ref)'
      /\ \A ref : Claimed(ref)' => Claimed(ref)
  BY <1>2, MissAdded
<1>4. /\ call' \in [Procs -> Calls]
      /\ \A q \in Procs : call'[q] = call[q] \/ (call'[q].pc = "none" /\ call[q].pc # "none")
  BY CallsAfterRow
<1>5. \A q \in Procs : call'[q].pc \in {"check", "append"} =>
         /\ call'[q].ref \in DOMAIN grants' /\ grants'[call'[q].ref].kind = "miss"
         /\ call'[q].seen = "ok"
  BY <1>1, <1>3, <1>4 DEF IsMiss
<1>6. GrantsTyped'
  BY <1>1, <1>2, <1>3, <1>4, <1>5 DEF GrantsTyped, IsMiss
<1>7. OneConfirms'
  <2> SUFFICES ASSUME ~raced
               PROVE  /\ \A q, r \in Procs : call'[q].pc # "none" /\ call'[r].pc # "none" => q = r
                      /\ \A q \in Procs : call'[q].pc = "append" =>
                            ~\E i \in DOMAIN grants' : grants'[i].kind = "resolution" /\ grants'[i].ref = call'[q].ref
    BY <1>2 DEF OneConfirms, Claimed
  <2>1. /\ \A q, r \in Procs : call[q].pc # "none" /\ call[r].pc # "none" => q = r
        /\ \A q \in Procs : call[q].pc = "append" => ~Claimed(call[q].ref)
    BY DEF GrantInv, OneConfirms
  <2>2. \A ref : (\E i \in DOMAIN grants' : grants'[i].kind = "resolution" /\ grants'[i].ref = ref)
                    => Claimed(ref)
    BY <1>3 DEF Claimed
  <2> QED  BY <1>4, <2>1, <2>2
<1> QED  BY <1>3, <1>6, <1>7 DEF GrantInv

LEMMA AppendInv ==
    ASSUME GrantInv, NEW p \in Procs, AppendResolution(p)
    PROVE  GrantInv'
<1>1. /\ call \in [Procs -> Calls] /\ connector \in Healths
      /\ \A q \in Procs : call[q].pc \in {"check", "append"} =>
            IsMiss(call[q].ref) /\ call[q].seen = "ok"
  BY DEF GrantInv, GrantsTyped
<1>2. /\ call[p].pc = "append" /\ call' = [call EXCEPT ![p] = NoCall]
      /\ connector' = connector /\ raced' = raced
      /\ grants' = Append(grants, [kind |-> "resolution", ref |-> call[p].ref, seen |-> call[p].seen])
  BY DEF AppendResolution
<1>3. PICK ref : ref = call[p].ref
  OBVIOUS
<1>4. /\ ref \in Nat /\ IsMiss(ref) /\ call[p].seen = "ok"
      /\ ~raced => ~Claimed(ref)
  BY <1>1, <1>2, <1>3 DEF Calls, GrantInv, OneConfirms
<1>5. /\ grants' \in Seq(Row) /\ MissesExist' /\ GrantHistoryIsHonest'
      /\ \A x : IsMiss(x) => IsMiss(x)'
  <2>1. grants' = Append(grants, [kind |-> "resolution", ref |-> ref, seen |-> "ok"])
    BY <1>2, <1>3, <1>4
  <2> QED  BY <1>2, <1>4, <2>1, ResolutionAdded
<1>6. /\ call' \in [Procs -> Calls] /\ call'[p].pc = "none"
      /\ \A q \in Procs : q # p => call'[q] = call[q]
  BY <1>1, <1>2, OneCall, NoCallTyped
<1>7. \A q \in Procs : call'[q].pc \in {"check", "append"} =>
         /\ call'[q].ref \in DOMAIN grants' /\ grants'[call'[q].ref].kind = "miss"
         /\ call'[q].seen = "ok"
  BY <1>1, <1>5, <1>6 DEF IsMiss
<1>8. GrantsTyped'
  BY <1>1, <1>2, <1>5, <1>6, <1>7 DEF GrantsTyped, IsMiss
<1>9. OneConfirms'
  <2>1. ~raced => \A q \in Procs : call'[q].pc = "none"
    BY <1>2, <1>6 DEF GrantInv, OneConfirms
  <2> QED  BY <1>2, <2>1 DEF OneConfirms
<1> QED  BY <1>5, <1>8, <1>9 DEF GrantInv

LEMMA GrantInvInit == SteeringInit => GrantInv
<1> SUFFICES ASSUME SteeringInit PROVE GrantInv
  OBVIOUS
<1>1. /\ connector \in Healths /\ grants = <<>> /\ call = [p \in Procs |-> NoCall]
  BY DEF SteeringInit
<1>2. DOMAIN grants = {} /\ grants \in Seq(Row)
  BY <1>1
<1>3. \A p \in Procs : call[p] = NoCall
  BY <1>1
<1>4. GrantsTyped
  BY <1>1, <1>2, <1>3, NoCallTyped DEF GrantsTyped
<1> QED
  BY <1>2, <1>3, <1>4, NoCallTyped DEF GrantInv, OneConfirms, MissesExist, GrantHistoryIsHonest

LEMMA GrantInvStep == GrantInv /\ [SteeringNext]_steeringVars => GrantInv'
<1> SUFFICES ASSUME GrantInv, [SteeringNext]_steeringVars PROVE GrantInv'
  OBVIOUS
<1>1. ASSUME connector' \in Healths, UNCHANGED grantVars PROVE GrantInv'
  BY <1>1 DEF grantVars, GrantInv, GrantsTyped, IsMiss, OneConfirms, Claimed, MissesExist,
              GrantHistoryIsHonest
<1>2. connector \in Healths /\ grants \in Seq(Row) /\ call \in [Procs -> Calls]
  BY DEF GrantInv, GrantsTyped
<1>3. ASSUME NEW p \in Procs, RecordMissAgain(p) PROVE GrantInv'
  BY <1>3, MissInv DEF RecordMissAgain, MoreOf
<1>4. ASSUME NEW p \in Procs, CheckResolved(p) PROVE GrantInv'
  <2>1. /\ call[p].pc = "check" /\ UNCHANGED <<connector, grants, raced>>
        /\ call' = [call EXCEPT ![p] = IF Claimed(call[p].ref) THEN NoCall
                                       ELSE [call[p] EXCEPT !.pc = "append"]]
    BY <1>2, <1>4 DEF CheckResolved
  <2>2. CASE Claimed(call[p].ref)
    BY <2>1, <2>2, NoCallTyped, CallInv
  <2>3. CASE ~Claimed(call[p].ref)
    <3>1. PICK x : x = [call[p] EXCEPT !.pc = "append"]
      OBVIOUS
    <3>2. x \in Calls /\ x.ref = call[p].ref
      BY <1>2, <3>1 DEF Calls
    <3>3. call' = [call EXCEPT ![p] = x] /\ ~Claimed(x.ref)
      BY <2>1, <2>3, <3>1, <3>2
    <3> QED  BY <2>1, <3>1, <3>2, <3>3, CallInv
  <2> QED  BY <2>2, <2>3
<1>5. ASSUME NEW s \in Scans, Scanning(s) PROVE GrantInv'
  <2>1. CASE PullFails(s)
    BY <2>1, MissInv DEF PullFails, MoreOf
  <2>2. CASE Pull(s)
    <3>1. s \in Procs /\ UNCHANGED <<connector, grants>>
      BY <2>2 DEF Pull, Procs
    <3>2. CASE Pending = NoMiss
      BY <1>1, <1>2, <2>2, <3>2 DEF Pull, grantVars
    <3>3. CASE Pending # NoMiss
      <4>1. PICK ref : ref = Pending
        OBVIOUS
      <4>2. IsMiss(ref) /\ Probe(s, ref)
        BY <1>2, <2>2, <3>3, <4>1, PendingIsOpen DEF Pull
      <4> QED  BY <3>1, <4>2, ProbeInv
    <3> QED  BY <3>2, <3>3
  <2>3. CASE Detect(s) \/ Resolve(s) \/ Collapse(s) \/ WriteCases(s)
    BY <1>1, <1>2, <2>3 DEF Detect, Resolve, Collapse, WriteCases
  <2> QED  BY <1>5, <2>1, <2>2, <2>3 DEF Scanning
<1>6. ASSUME NEW s \in Scans, Kill(s) PROVE GrantInv'
  BY <1>6, NoCallTyped, CallInv DEF Kill, Procs
<1>7. CASE DoctorDiagnose
  BY <1>7, MissInv DEF DoctorDiagnose, MoreOf
<1>8. CASE DoctorConfirm
  <2>1. PICK ref \in DOMAIN grants : grants[ref].kind = "miss" /\ Probe(Doctor, ref)
    BY <1>8 DEF DoctorConfirm
  <2> QED  BY <1>8, <2>1, ProbeInv DEF DoctorConfirm, IsMiss, Procs
<1>9. CASE Steer \/ ConnectorChanges
  BY <1>1, <1>2, <1>9 DEF Steer, ConnectorChanges
<1>10. CASE UNCHANGED steeringVars
  BY <1>1, <1>2, <1>10 DEF steeringVars
<1> QED
  BY <1>3, <1>4, <1>5, <1>6, <1>7, <1>8, <1>9, <1>10, AppendInv DEF SteeringNext, Confirming

(* Scans, cases and counts. *)

LEMMA IdleTyped ==
    /\ NoCases \in CaseSets /\ Idle \in ScanStates
    /\ Idle.pc = "idle" /\ Idle.n = 0
<1>1. /\ NoCases \in [CaseIds -> [status : Statuses, count : Nat]]
      /\ \A id \in CaseIds : NoCases[id].status = "none" /\ NoCases[id].count = 0
  BY DEF NoCases, NoCase, Statuses
<1>2. NoCases \in CaseSets
  BY <1>1 DEF CaseSets
<1>3. /\ Idle.pc = "idle" /\ Idle.n = 0 /\ Idle.merged = NoCases
      /\ Idle = [pc |-> Idle.pc, n |-> Idle.n, key |-> Idle.key, merged |-> Idle.merged]
  BY DEF Idle
<1> QED  BY <1>2, <1>3 DEF ScanStates, Stages

\* One scan moves.
Moves(s, x) ==
    /\ s \in Scans /\ x \in ScanStates /\ scan' = [scan EXCEPT ![s] = x]

Mark(x) == IF x.pc = "flagged" THEN 1 ELSE 0

LEMMA OneMoves ==
    ASSUME CasesTyped, NEW s, NEW x, Moves(s, x)
    PROVE  /\ scan' \in [Scans -> ScanStates] /\ scan'[s] = x
           /\ \A t \in Scans : t # s => scan'[t] = scan[t]
           /\ Cardinality(Flagged) \in Nat
           /\ Cardinality(Flagged)' = Cardinality(Flagged) - Mark(scan[s]) + Mark(x)
<1>1. /\ scan' \in [Scans -> ScanStates] /\ scan'[s] = x /\ s \in Scans
      /\ \A t \in Scans : t # s => scan'[t] = scan[t]
  BY DEF Moves, CasesTyped
<1>2. IsFiniteSet(Flagged)
  <2>1. Flagged \in SUBSET Scans
    BY DEF Flagged
  <2> QED  BY <2>1, SteeringAssumption, FS_Subset
<1>3. Cardinality(Flagged) \in Nat
  BY <1>2, FS_CardinalityType
<1>4. Flagged' = IF x.pc = "flagged" THEN Flagged \cup {s} ELSE Flagged \ {s}
  BY <1>1 DEF Flagged, At
<1>5. s \in Flagged <=> scan[s].pc = "flagged"
  BY <1>1 DEF Flagged, At
<1>6. /\ Cardinality(Flagged \cup {s}) =
            IF s \in Flagged THEN Cardinality(Flagged) ELSE Cardinality(Flagged) + 1
      /\ Cardinality(Flagged \ {s}) =
            IF s \in Flagged THEN Cardinality(Flagged) - 1 ELSE Cardinality(Flagged)
  BY <1>2, FS_AddElement, FS_RemoveElement
<1>7. Cardinality(Flagged') = Cardinality(Flagged) - Mark(scan[s]) + Mark(x)
  BY <1>3, <1>4, <1>5, <1>6 DEF Mark
<1> QED  BY <1>1, <1>3, <1>7

\* A verdict more.
LEMMA OneResolution ==
    ASSUME CasesTyped, NEW r \in [key : Keys, escalated : BOOLEAN],
           resolutions' = Append(resolutions, r), NEW k \in Keys
    PROVE  /\ Escalated(k) \in Nat
           /\ Escalated(k)' = Escalated(k) + IF r.key = k /\ r.escalated THEN 1 ELSE 0
<1> DEFINE E == {i \in DOMAIN resolutions : resolutions[i].key = k /\ resolutions[i].escalated}
           F == {i \in DOMAIN resolutions' : resolutions'[i].key = k /\ resolutions'[i].escalated}
           n == Len(resolutions) + 1
<1>1. /\ resolutions \in Seq([key : Keys, escalated : BOOLEAN])
      /\ Len(resolutions) \in Nat /\ DOMAIN resolutions = 1..Len(resolutions)
  BY DEF CasesTyped
<1>2. /\ DOMAIN resolutions' = (DOMAIN resolutions) \cup {n} /\ n \notin DOMAIN resolutions
      /\ \A i \in DOMAIN resolutions : resolutions'[i] = resolutions[i]
      /\ resolutions'[n] = r
  <2>1. /\ DOMAIN resolutions' = 1..n /\ resolutions'[n] = r
        /\ \A i \in DOMAIN resolutions : resolutions'[i] = resolutions[i]
    BY <1>1
  <2>2. 1..n = 1..Len(resolutions) \cup {n} /\ n \notin 1..Len(resolutions)
    BY <1>1
  <2> QED  BY <1>1, <2>1, <2>2
<1> HIDE DEF n
<1>3. F = E \cup (IF r.key = k /\ r.escalated THEN {n} ELSE {}) /\ n \notin E
  BY <1>2
<1>4. IsFiniteSet(E)
  <2>1. IsFiniteSet(1..Len(resolutions))
    BY <1>1, FS_Interval
  <2>2. E \in SUBSET (1..Len(resolutions))
    BY <1>1
  <2> QED  BY <2>1, <2>2, FS_Subset
<1>5. Escalated(k) = Cardinality(E) /\ Escalated(k)' = Cardinality(F)
  BY DEF Escalated
<1> HIDE DEF E, F
<1>6. Cardinality(E) \in Nat /\ Cardinality(E \cup {n}) = Cardinality(E) + 1
  BY <1>3, <1>4, FS_CardinalityType, FS_AddElement
<1>7. CASE r.key = k /\ r.escalated
  <2>1. F = E \cup {n}
    BY <1>3, <1>7
  <2> QED  BY <1>5, <1>6, <1>7, <2>1
<1>8. CASE ~(r.key = k /\ r.escalated)
  <2>1. F = E
    BY <1>3, <1>8
  <2> QED  BY <1>5, <1>6, <1>8, <2>1
<1> QED  BY <1>7, <1>8

LEMMA EscalatedTyped ==
    ASSUME CasesTyped, NEW k \in Keys
    PROVE  Escalated(k) \in Nat
<1> DEFINE E == {i \in DOMAIN resolutions : resolutions[i].key = k /\ resolutions[i].escalated}
<1>1. DOMAIN resolutions = 1..Len(resolutions) /\ Len(resolutions) \in Nat
  BY DEF CasesTyped
<1>2. IsFiniteSet(1..Len(resolutions)) /\ E \in SUBSET (1..Len(resolutions))
  BY <1>1, FS_Interval
<1>3. IsFiniteSet(E)
  BY <1>2, FS_Subset
<1>4. Escalated(k) = Cardinality(E)
  BY DEF Escalated
<1> HIDE DEF E
<1> QED  BY <1>3, <1>4, FS_CardinalityType

LEMMA SameEscalated ==
    ASSUME resolutions' = resolutions, NEW k
    PROVE  Escalated(k)' = Escalated(k)
BY DEF Escalated

LEMMA OccursCounts ==
    ASSUME NEW set \in CaseSets, NEW id \in CaseIds
    PROVE  /\ Occurs(set, id) \in CaseSets
           /\ \A x \in CaseIds : Occurs(set, id)[x].count =
                 IF x = id THEN set[x].count + 1 ELSE set[x].count
<1> DEFINE new == Occurs(set, id)
           one == IF set[id].status = "none" THEN [status |-> "open", count |-> 1]
                  ELSE [status |-> "recurring", count |-> set[id].count + 1]
<1>1. set \in [CaseIds -> [status : Statuses, count : Nat]]
  BY DEF CaseSets
<1>2. \A x \in CaseIds : (set[x].status = "none") = (set[x].count = 0)
  BY DEF CaseSets
<1>3. new = [set EXCEPT ![id] = one]
  BY DEF Occurs
<1>4. /\ set[id].count \in Nat /\ set[id].status \in Statuses
      /\ one.status \in {"open", "recurring"}
      /\ one \in [status : Statuses, count : Nat] /\ one.count = set[id].count + 1
  BY <1>1, <1>2 DEF Statuses
<1> HIDE DEF one
<1>5. /\ new \in [CaseIds -> [status : Statuses, count : Nat]] /\ new[id] = one
      /\ \A x \in CaseIds : x # id => new[x] = set[x]
  BY <1>1, <1>3, <1>4
<1> HIDE DEF new
<1>6. \A x \in CaseIds : (new[x].status = "none") = (new[x].count = 0)
  <2>1. one.count # 0 /\ one.status # "none"
    BY <1>4
  <2> QED  BY <1>2, <1>5, <2>1
<1>7. new \in CaseSets
  BY <1>5, <1>6 DEF CaseSets
<1>8. \A x \in CaseIds : new[x].count = IF x = id THEN set[x].count + 1 ELSE set[x].count
  BY <1>4, <1>5
<1> QED  BY <1>7, <1>8 DEF new

LEMMA SteeredCounts ==
    ASSUME NEW set \in CaseSets
    PROVE  /\ Steered(set) \in CaseSets
           /\ \A x \in CaseIds : Steered(set)[x].count = set[x].count
<1> DEFINE new == Steered(set)
<1>1. /\ set \in [CaseIds -> [status : Statuses, count : Nat]]
      /\ \A x \in CaseIds : (set[x].status = "none") = (set[x].count = 0)
  BY DEF CaseSets
<1>2. \A x \in CaseIds : \/ new[x] = set[x]
                         \/ /\ set[x].status # "none"
                            /\ new[x] = [set[x] EXCEPT !.status = StatusOf(LastWord(x))]
  BY DEF Steered
<1>3. \A x : StatusOf(x) \in {"closed", "aged"}
  BY DEF StatusOf
<1>4. DOMAIN new = CaseIds /\ new = [x \in CaseIds |-> new[x]]
  BY DEF Steered
<1> HIDE DEF new
<1>5. ASSUME NEW x \in CaseIds
      PROVE  /\ new[x] \in [status : Statuses, count : Nat] /\ new[x].count = set[x].count
             /\ (new[x].status = "none") = (set[x].status = "none")
  <2>1. CASE new[x] = set[x]
    BY <1>1, <2>1
  <2>2. CASE set[x].status # "none" /\ new[x] = [set[x] EXCEPT !.status = StatusOf(LastWord(x))]
    <3>1. PICK w : w = StatusOf(LastWord(x))
      OBVIOUS
    <3>2. w \in {"closed", "aged"}
      BY <1>3, <3>1
    <3>3. new[x] = [set[x] EXCEPT !.status = w] /\ set[x] \in [status : Statuses, count : Nat]
      BY <1>1, <2>2, <3>1
    <3> QED  BY <2>2, <3>2, <3>3 DEF Statuses
  <2> QED  BY <1>2, <2>1, <2>2
<1>6. new \in [CaseIds -> [status : Statuses, count : Nat]]
  BY <1>4, <1>5
<1>7. new \in CaseSets
  BY <1>1, <1>5, <1>6 DEF CaseSets
<1> QED  BY <1>5, <1>7 DEF new

LEMMA LatestIn ==
    ASSUME NEW S, NEW q \in Seq(S), q # <<>>
    PROVE  Latest(q) \in S
BY DEF Latest

LEMMA MergedTyped ==
    ASSUME CaseInv, NEW s \in Scans, At(s, "collapse")
    PROVE  /\ MergedCases(s) \in CaseSets
           /\ Escalations(s) = {} =>
                 \A id \in CaseIds : MergedCases(s)[id].count = cases[id].count
           /\ Escalations(s) # {} =>
                 /\ scan[s].n = 1 /\ Latest(resolutions).escalated
                 /\ \A id \in CaseIds : MergedCases(s)[id].count =
                       IF id = <<Latest(findings), Latest(resolutions).key>>
                       THEN cases[id].count + 1 ELSE cases[id].count
<1>1. /\ scan[s] \in ScanStates /\ cases \in CaseSets
      /\ findings \in Seq(Keys) /\ resolutions \in Seq([key : Keys, escalated : BOOLEAN])
  BY DEF CaseInv, CasesTyped
<1>2. CASE Escalations(s) = {}
  <2>1. MergedCases(s) = Steered(cases)
    BY <1>2 DEF MergedCases
  <2> QED  BY <1>1, <1>2, <2>1, SteeredCounts
<1>3. CASE Escalations(s) # {}
  <2>1. /\ scan[s].n # 0 /\ Latest(resolutions).escalated
        /\ Escalations(s) = {<<Latest(findings), Latest(resolutions).key>>}
    BY <1>3 DEF Escalations
  <2>2. scan[s].n = 1 /\ resolutions # <<>>
    <3>1. scan[s].n \in 0..1
      BY <1>1 DEF ScanStates
    <3>2. scan[s].n = 1
      BY <2>1, <3>1
    <3> QED  BY <3>2 DEF CaseInv, ScanSteps
  <2>3. Latest(resolutions).key \in Keys
    <3>1. Latest(resolutions) \in [key : Keys, escalated : BOOLEAN]
      BY <1>1, <2>2, LatestIn
    <3> QED  BY <3>1
  <2>4. findings # <<>>
    <3>1. Len(resolutions) \in Nat \ {0} /\ Len(findings) \in Nat
      BY <1>1, <2>2
    <3>2. Cardinality(Flagged) \in Nat
      <4>1. Flagged \in SUBSET Scans
        BY DEF Flagged
      <4>2. IsFiniteSet(Flagged)
        BY <4>1, SteeringAssumption, FS_Subset
      <4> QED  BY <4>2, FS_CardinalityType
    <3> QED  BY <3>1, <3>2 DEF CaseInv, StreamsAligned
  <2>5. Latest(findings) \in Keys
    BY <1>1, <2>4, LatestIn
  <2>6. PICK id : id = <<Latest(findings), Latest(resolutions).key>>
    OBVIOUS
  <2>7. id \in CaseIds
    BY <2>3, <2>5, <2>6 DEF CaseIds
  <2>8. MergedCases(s) = Steered(Occurs(cases, id))
    <3>1. (CHOOSE x \in Escalations(s) : TRUE) = id
      BY <2>1, <2>6
    <3> QED  BY <1>3, <3>1 DEF MergedCases
  <2>9. /\ Occurs(cases, id) \in CaseSets
        /\ \A x \in CaseIds : Occurs(cases, id)[x].count =
              IF x = id THEN cases[x].count + 1 ELSE cases[x].count
    BY <1>1, <2>7, OccursCounts
  <2>10. PICK set : set = Occurs(cases, id)
    OBVIOUS
  <2>11. /\ MergedCases(s) \in CaseSets
         /\ \A x \in CaseIds : MergedCases(s)[x].count = set[x].count
    BY <2>8, <2>9, <2>10, SteeredCounts
  <2> QED  BY <1>3, <2>1, <2>2, <2>6, <2>9, <2>10, <2>11
<1> QED  BY <1>2, <1>3

\* The steps of a scan, told as one.
Advances(s, x) ==
    /\ Moves(s, x)
    /\ findings' \in Seq(Keys) /\ resolutions' \in Seq([key : Keys, escalated : BOOLEAN])
    /\ cases' \in CaseSets /\ directives' = directives /\ faults' \in Nat
    /\ resolutions # <<>> => resolutions' # <<>>
    /\ Len(resolutions') - Len(resolutions) + Mark(x) <=
          Len(findings') - Len(findings) + Mark(scan[s])
    /\ x.pc = "idle" => x = Idle
    /\ x.pc = "pulled" => x.n = 0
    /\ x.pc = "flagged" => x.n = 1 /\ x.key \in Keys
    /\ x.pc = "collapse" /\ x.n = 1 => x.key \in Keys /\ resolutions' # <<>>

LEMMA CaseStep ==
    ASSUME CaseInv, NEW s, NEW x, Advances(s, x)
    PROVE  CaseInv'
<1> USE DEF Advances
<1>1. /\ scan' \in [Scans -> ScanStates] /\ scan'[s] = x
      /\ \A t \in Scans : t # s => scan'[t] = scan[t]
      /\ Cardinality(Flagged) \in Nat
      /\ Cardinality(Flagged)' = Cardinality(Flagged) - Mark(scan[s]) + Mark(x)
  BY OneMoves DEF CaseInv
<1>2. CasesTyped'
  BY <1>1 DEF CaseInv, CasesTyped
<1>3. StreamsAligned'
  <2>1. /\ Len(findings) \in Nat /\ Len(findings') \in Nat
        /\ Len(resolutions) \in Nat /\ Len(resolutions') \in Nat
        /\ Mark(x) \in 0..1 /\ Mark(scan[s]) \in 0..1
    BY DEF CaseInv, CasesTyped, Mark
  <2>2. Len(resolutions) + Cardinality(Flagged) <= Len(findings)
    BY DEF CaseInv, StreamsAligned
  <2>3. Len(resolutions') + Cardinality(Flagged)' <= Len(findings')
    BY <1>1, <2>1, <2>2
  <2> QED  BY <2>3 DEF StreamsAligned
<1>4. ScanSteps'
  <2>1. ASSUME NEW t \in Scans
        PROVE  /\ scan'[t].pc = "idle" => scan'[t] = Idle
               /\ scan'[t].pc = "pulled" => scan'[t].n = 0
               /\ scan'[t].pc = "flagged" => scan'[t].n = 1 /\ scan'[t].key \in Keys
               /\ scan'[t].pc = "collapse" /\ scan'[t].n = 1 =>
                     scan'[t].key \in Keys /\ resolutions' # <<>>
    BY <1>1 DEF CaseInv, ScanSteps, At
  <2>2. Idle' = Idle
    BY DEF Idle, NoCases, NoCase
  <2> QED  BY <2>1, <2>2 DEF ScanSteps, At
<1> QED  BY <1>2, <1>3, <1>4 DEF CaseInv

LEMMA CaseInvInit == SteeringInit => CaseInv
<1> SUFFICES ASSUME SteeringInit PROVE CaseInv
  OBVIOUS
<1>1. /\ scan = [s \in Scans |-> Idle] /\ findings = <<>> /\ resolutions = <<>>
      /\ cases = NoCases /\ directives = <<>> /\ faults = 0
  BY DEF SteeringInit
<1>2. \A s \in Scans : scan[s] = Idle
  BY <1>1
<1>3. CasesTyped
  BY <1>1, IdleTyped DEF CasesTyped
<1>4. Flagged = {}
  BY <1>2, IdleTyped DEF Flagged, At
<1>5. StreamsAligned
  BY <1>1, <1>4, FS_EmptySet DEF StreamsAligned
<1>6. ScanSteps
  BY <1>2, IdleTyped DEF ScanSteps, At
<1> QED  BY <1>3, <1>5, <1>6 DEF CaseInv

\* A scan that stops, whatever it leaves in cases.json.
LEMMA BackToIdle ==
    ASSUME CaseInv, NEW s \in Scans, scan' = [scan EXCEPT ![s] = Idle],
           UNCHANGED <<findings, resolutions, directives>>, cases' \in CaseSets, faults' \in Nat
    PROVE  CaseInv' /\ Moves(s, Idle)
<1>1. Moves(s, Idle) /\ Idle.pc = "idle" /\ Mark(Idle) = 0 /\ Mark(scan[s]) \in 0..1
  BY IdleTyped DEF Moves, Mark
<1>2. /\ findings \in Seq(Keys) /\ resolutions \in Seq([key : Keys, escalated : BOOLEAN])
  BY DEF CaseInv, CasesTyped
<1>3. PICK x : x = Idle
  OBVIOUS
<1>4. Len(findings) \in Nat /\ Len(resolutions) \in Nat
  BY <1>2
<1>5. Advances(s, x)
  BY <1>1, <1>2, <1>3, <1>4 DEF Advances
<1> QED  BY <1>1, <1>5, CaseStep

LEMMA PullStep ==
    ASSUME CaseInv, NEW s \in Scans, Pull(s)
    PROVE  CaseInv' /\ \E x : Moves(s, x) /\ x.pc = "pulled" /\ x.n = 0
<1>1. PICK x : x = [scan[s] EXCEPT !.pc = "pulled"]
  OBVIOUS
<1>2. scan[s] \in ScanStates /\ scan[s].pc = "idle" /\ scan[s].n = 0
  BY IdleTyped DEF Pull, StartsScan, At, CaseInv, CasesTyped, ScanSteps
<1>3. x \in ScanStates /\ x.pc = "pulled" /\ x.n = 0
  BY <1>1, <1>2 DEF ScanStates, Stages
<1>4. Moves(s, x)
  BY <1>1, <1>3 DEF Moves, Pull
<1>5. Mark(x) = 0 /\ Mark(scan[s]) = 0
  BY <1>2, <1>3 DEF Mark
<1>6. /\ UNCHANGED <<findings, resolutions, cases, directives, faults>>
      /\ findings \in Seq(Keys) /\ resolutions \in Seq([key : Keys, escalated : BOOLEAN])
      /\ cases \in CaseSets /\ faults \in Nat
  BY DEF Pull, streams, caseVars, CaseInv, CasesTyped
<1>7. Len(findings) \in Nat /\ Len(resolutions) \in Nat
  BY <1>6
<1>8. CaseInv'
  <2>1. Advances(s, x)
    BY <1>3, <1>4, <1>5, <1>6, <1>7 DEF Advances
  <2> QED  BY <2>1, CaseStep
<1> QED  BY <1>3, <1>4, <1>8

LEMMA DetectStep ==
    ASSUME CaseInv, NEW s \in Scans, Detect(s)
    PROVE  /\ CaseInv'
           /\ \E x : /\ Moves(s, x)
                     /\ \/ x.pc = "collapse" /\ x.n = 0 /\ findings' = findings
                        \/ x.pc = "flagged" /\ x.n = 1 /\ Latest(findings') = x.key
<1>1. scan[s] \in ScanStates /\ scan[s].pc = "pulled" /\ scan[s].n = 0
  BY DEF Detect, At, CaseInv, CasesTyped, ScanSteps
<1>2. /\ UNCHANGED <<resolutions, cases, directives, faults>>
      /\ findings \in Seq(Keys) /\ resolutions \in Seq([key : Keys, escalated : BOOLEAN])
      /\ cases \in CaseSets /\ faults \in Nat
  BY DEF Detect, caseVars, CaseInv, CasesTyped
<1>3. Len(findings) \in Nat /\ Len(resolutions) \in Nat /\ Mark(scan[s]) = 0
  BY <1>1, <1>2 DEF Mark
<1>4. CASE scan' = [scan EXCEPT ![s].pc = "collapse"] /\ findings' = findings
  <2>1. PICK x : x = [scan[s] EXCEPT !.pc = "collapse"]
    OBVIOUS
  <2>2. x \in ScanStates /\ x.pc = "collapse" /\ x.n = 0
    BY <1>1, <2>1 DEF ScanStates, Stages
  <2>3. Moves(s, x) /\ Mark(x) = 0
    BY <1>4, <2>1, <2>2 DEF Moves, Mark
  <2>4. CaseInv'
    <3>1. Advances(s, x)
      BY <1>2, <1>3, <1>4, <2>2, <2>3 DEF Advances
    <3> QED  BY <3>1, CaseStep
  <2> QED  BY <1>4, <2>2, <2>3, <2>4
<1>5. ASSUME NEW k \in Keys, findings' = Append(findings, k),
             scan' = [scan EXCEPT ![s].pc = "flagged", ![s].n = 1, ![s].key = k]
      PROVE  CaseInv' /\ \E x : Moves(s, x) /\ x.pc = "flagged" /\ x.n = 1 /\ Latest(findings') = x.key
  <2>1. PICK x : x = [scan[s] EXCEPT !.pc = "flagged", !.n = 1, !.key = k]
    OBVIOUS
  <2>2. x \in ScanStates /\ x.pc = "flagged" /\ x.n = 1 /\ x.key = k
    <3>1. x = [pc |-> "flagged", n |-> 1, key |-> k, merged |-> scan[s].merged]
      BY <1>1, <2>1 DEF ScanStates
    <3>2. scan[s].merged \in CaseSets /\ "flagged" \in Stages
      BY <1>1 DEF ScanStates, Stages
    <3> QED  BY <3>1, <3>2 DEF ScanStates
  <2>3. scan' = [scan EXCEPT ![s] = x]
    BY <1>5, <2>1, <2>2 DEF CaseInv, CasesTyped
  <2>4. Moves(s, x) /\ Mark(x) = 1
    BY <2>2, <2>3 DEF Moves, Mark
  <2>5. /\ findings' \in Seq(Keys) /\ Len(findings') = Len(findings) + 1
        /\ findings'[Len(findings')] = k
    BY <1>2, <1>5
  <2>6. CaseInv'
    <3>1. Advances(s, x)
      BY <1>2, <1>3, <2>2, <2>4, <2>5 DEF Advances
    <3> QED  BY <3>1, CaseStep
  <2> QED  BY <2>2, <2>4, <2>5, <2>6 DEF Latest
<1> QED  BY <1>4, <1>5 DEF Detect

LEMMA ResolveStep ==
    ASSUME CaseInv, NEW s \in Scans, Resolve(s)
    PROVE  /\ CaseInv'
           /\ \E x, r : /\ Moves(s, x) /\ x.pc = "collapse" /\ x.n = 1 /\ x.key = scan[s].key
                        /\ r \in [key : Keys, escalated : BOOLEAN] /\ r.key = x.key
                        /\ resolutions' = Append(resolutions, r) /\ Latest(resolutions') = r
<1>1. scan[s] \in ScanStates /\ scan[s].pc = "flagged" /\ scan[s].n = 1 /\ scan[s].key \in Keys
  BY DEF Resolve, At, CaseInv, CasesTyped, ScanSteps
<1>2. /\ UNCHANGED <<findings, cases, directives, faults>>
      /\ findings \in Seq(Keys) /\ resolutions \in Seq([key : Keys, escalated : BOOLEAN])
      /\ cases \in CaseSets /\ faults \in Nat
  BY DEF Resolve, caseVars, CaseInv, CasesTyped
<1>3. Len(findings) \in Nat /\ Len(resolutions) \in Nat /\ Mark(scan[s]) = 1
  BY <1>1, <1>2 DEF Mark
<1>4. PICK x : x = [scan[s] EXCEPT !.pc = "collapse"]
  OBVIOUS
<1>5. x \in ScanStates /\ x.pc = "collapse" /\ x.n = 1 /\ x.key = scan[s].key
  BY <1>1, <1>4 DEF ScanStates, Stages
<1>6. Moves(s, x) /\ Mark(x) = 0
  BY <1>4, <1>5 DEF Moves, Mark, Resolve
<1>7. PICK e \in BOOLEAN : resolutions' = Append(resolutions, [key |-> scan[s].key, escalated |-> e])
  BY DEF Resolve
<1>8. PICK r : r = [key |-> scan[s].key, escalated |-> e]
  OBVIOUS
<1>9. r \in [key : Keys, escalated : BOOLEAN] /\ r.key = scan[s].key
  BY <1>1, <1>8
<1>10. /\ resolutions' = Append(resolutions, r)
       /\ resolutions' \in Seq([key : Keys, escalated : BOOLEAN])
       /\ Len(resolutions') = Len(resolutions) + 1 /\ resolutions'[Len(resolutions')] = r
  BY <1>2, <1>7, <1>8, <1>9
<1>11. resolutions' # <<>>
  BY <1>3, <1>10
<1>12. CaseInv'
  <2>1. Advances(s, x)
    BY <1>1, <1>2, <1>3, <1>5, <1>6, <1>10, <1>11 DEF Advances
  <2> QED  BY <2>1, CaseStep
<1> QED  BY <1>5, <1>6, <1>9, <1>10, <1>12 DEF Latest

LEMMA CollapseStep ==
    ASSUME CaseInv, NEW s \in Scans, Collapse(s)
    PROVE  /\ CaseInv'
           /\ \/ Moves(s, Idle) /\ Escalations(s) = {}
              \/ \E x : Moves(s, x) /\ x.pc = "write" /\ x.merged = MergedCases(s)
<1>1. scan[s] \in ScanStates /\ scan[s].pc = "collapse"
  BY DEF Collapse, At, CaseInv, CasesTyped
<1>2. /\ UNCHANGED <<findings, resolutions, cases, directives, faults>>
      /\ findings \in Seq(Keys) /\ resolutions \in Seq([key : Keys, escalated : BOOLEAN])
      /\ cases \in CaseSets /\ faults \in Nat
  BY DEF Collapse, streams, caseVars, CaseInv, CasesTyped
<1>3. Len(findings) \in Nat /\ Len(resolutions) \in Nat /\ Mark(scan[s]) = 0
  BY <1>1, <1>2 DEF Mark
<1>4. CASE scan' = [scan EXCEPT ![s] = Idle] /\ Escalations(s) = {}
  BY <1>2, <1>4, BackToIdle
<1>5. CASE scan' = [scan EXCEPT ![s].pc = "write", ![s].merged = MergedCases(s)]
  <2>1. PICK m : m = MergedCases(s)
    OBVIOUS
  <2>2. m \in CaseSets
    BY <2>1, MergedTyped DEF Collapse
  <2>3. PICK x : x = [scan[s] EXCEPT !.pc = "write", !.merged = m]
    OBVIOUS
  <2>4. x \in ScanStates /\ x.pc = "write" /\ x.merged = m
    BY <1>1, <2>2, <2>3 DEF ScanStates, Stages
  <2>5. scan' = [scan EXCEPT ![s] = x]
    BY <1>5, <2>1, <2>3 DEF CaseInv, CasesTyped
  <2>6. Moves(s, x) /\ Mark(x) = 0
    BY <2>4, <2>5 DEF Moves, Mark
  <2>7. CaseInv'
    <3>1. Advances(s, x)
      BY <1>2, <1>3, <2>4, <2>6 DEF Advances
    <3> QED  BY <3>1, CaseStep
  <2> QED  BY <2>1, <2>4, <2>6, <2>7
<1> QED  BY <1>4, <1>5 DEF Collapse

\* Two ways for a scan to end: its cases are written, or something fails.
LEMMA EndStep ==
    ASSUME CaseInv, NEW s \in Scans, WriteCases(s) \/ Kill(s)
    PROVE  /\ CaseInv' /\ Moves(s, Idle)
           /\ UNCHANGED <<findings, resolutions, overlapped>>
           /\ \/ cases' = scan[s].merged /\ faults' = faults /\ At(s, "write")
              \/ cases' = cases /\ faults' = faults + 1
<1>1. scan[s] \in ScanStates /\ cases \in CaseSets /\ faults \in Nat
  BY DEF CaseInv, CasesTyped
<1>2. scan[s].merged \in CaseSets
  BY <1>1 DEF ScanStates
<1>3. /\ scan' = [scan EXCEPT ![s] = Idle]
      /\ UNCHANGED <<findings, resolutions, directives, overlapped>>
      /\ \/ cases' = scan[s].merged /\ faults' = faults /\ At(s, "write")
         \/ cases' = cases /\ faults' = faults + 1
  BY DEF WriteCases, Kill, Fault, streams, caseVars
<1>4. cases' \in CaseSets /\ faults' \in Nat
  BY <1>1, <1>2, <1>3
<1> QED  BY <1>3, <1>4, BackToIdle

\* A step of the grants, the operator or the world.
Aside ==
    /\ UNCHANGED <<scan, findings, resolutions, cases, overlapped, faults>>
    /\ directives' \in Seq([op : {"close-case", "recurrence-fine"}, case : CaseIds])

LEMMA AsideStep ==
    ASSUME CaseInv, Aside
    PROVE  CaseInv'
<1>1. CasesTyped'
  BY DEF CaseInv, CasesTyped, Aside
<1>2. StreamsAligned' /\ ScanSteps'
  BY DEF CaseInv, StreamsAligned, ScanSteps, Flagged, At, Idle, NoCases, NoCase, Aside
<1> QED  BY <1>1, <1>2 DEF CaseInv

\* What a step is to the cases.
LEMMA CaseSteps ==
    ASSUME CaseInv, [SteeringNext]_steeringVars
    PROVE  \/ Aside
           \/ \E s \in Scans : Pull(s) \/ Detect(s) \/ Resolve(s) \/ Collapse(s)
                               \/ WriteCases(s) \/ Kill(s)
<1>1. directives \in Seq([op : {"close-case", "recurrence-fine"}, case : CaseIds])
  BY DEF CaseInv, CasesTyped
<1>2. ASSUME NEW p \in Procs, Confirming(p) PROVE Aside
  BY <1>1, <1>2 DEF Confirming, RecordMissAgain, CheckResolved, AppendResolution, Aside,
                    streams, caseVars
<1>3. ASSUME NEW s \in Scans, PullFails(s) PROVE Aside
  BY <1>1, <1>3 DEF PullFails, Aside, streams, caseVars
<1>4. CASE DoctorDiagnose \/ DoctorConfirm
  BY <1>1, <1>4 DEF DoctorDiagnose, DoctorConfirm, Aside, streams, caseVars
<1>5. CASE Steer
  <2>1. PICK id \in CaseIds, op \in {"close-case", "recurrence-fine"} :
           directives' = Append(directives, [op |-> op, case |-> id])
    BY <1>5 DEF Steer
  <2>2. PICK d : d = [op |-> op, case |-> id]
    OBVIOUS
  <2>3. d \in [op : {"close-case", "recurrence-fine"}, case : CaseIds]
    BY <2>2
  <2>4. directives' \in Seq([op : {"close-case", "recurrence-fine"}, case : CaseIds])
    BY <1>1, <2>1, <2>2, <2>3
  <2> QED  BY <1>5, <2>4 DEF Steer, Aside, streams
<1>6. CASE ConnectorChanges \/ UNCHANGED steeringVars
  BY <1>1, <1>6 DEF ConnectorChanges, Aside, streams, caseVars, steeringVars
<1> QED  BY <1>2, <1>3, <1>4, <1>5, <1>6 DEF SteeringNext, Scanning

LEMMA CaseInvStep == CaseInv /\ [SteeringNext]_steeringVars => CaseInv'
BY CaseSteps, AsideStep, PullStep, DetectStep, ResolveStep, CollapseStep, EndStep

\* What the streams, or cases.json, say of a key later.
Owing(x, k) ==
    IF x.pc = "collapse" /\ x.n = 1 /\ Latest(resolutions).escalated /\ k = x.key THEN 1 ELSE 0

Settled(x) ==
    /\ \A k \in Keys : Count(k) <= Escalated(k)
    /\ x.pc = "idle" /\ faults = 0 => \A k \in Keys : Count(k) = Escalated(k)
    /\ x.pc \notin {"idle", "write"} => \A k \in Keys :
          /\ Count(k) + Owing(x, k) <= Escalated(k)
          /\ faults = 0 => Count(k) + Owing(x, k) = Escalated(k)
    /\ x.pc = "write" => \A k \in Keys :
          /\ x.merged[<<k, k>>].count <= Escalated(k)
          /\ faults = 0 => x.merged[<<k, k>>].count = Escalated(k)
    /\ x.pc = "flagged" => Latest(findings) = x.key
    /\ x.pc = "collapse" /\ x.n = 1 => Latest(findings) = x.key /\ Latest(resolutions).key = x.key

\* With the others idle, it is one scan's account that matters.
LEMMA OneSettled ==
    ASSUME CaseInv, NEW s \in Scans, CountInv, ~overlapped, ~At(s, "idle")
    PROVE  Settled(scan[s]) /\ \A t \in Scans : t # s => At(t, "idle")
<1>1. /\ \A t \in Scans : t # s => At(t, "idle")
      /\ Accounted(s) /\ CountsAreHonest
  BY DEF CountInv
<1>2. \A k \in Keys : Owes(s, k) = Owing(scan[s], k)
  BY DEF Owes, Owing, At
<1>3. \A k \in Keys : Count(k) <= Escalated(k)
  BY <1>1 DEF CountsAreHonest, Count
<1> QED  BY <1>1, <1>2, <1>3 DEF Accounted, Settled, At

LEMMA NothingOwed ==
    ASSUME CountInv, ~overlapped, \A t \in Scans : At(t, "idle"), NEW k \in Keys
    PROVE  Count(k) <= Escalated(k) /\ (faults = 0 => Count(k) = Escalated(k))
BY DEF CountInv, CountsAreHonest, Count

LEMMA Resettled ==
    ASSUME CasesTyped, NEW s, NEW x, Moves(s, x), \A t \in Scans : t # s => At(t, "idle"),
           Settled(x)'
    PROVE  CountInv'
<1>1. /\ scan'[s] = x /\ s \in Scans
      /\ \A t \in Scans : t # s => scan'[t].pc = "idle"
  BY OneMoves DEF Moves, At
<1>2. \A t \in Scans : scan'[t].pc # "idle" => t = s /\ x.pc # "idle"
  BY <1>1
<1>3. x.pc # "idle" => Accounted(s)'
  <2>1. \A k \in Keys : Owes(s, k)' = Owing(x, k)'
    BY <1>1 DEF Owes, Owing, At
  <2> QED  BY <1>1, <2>1 DEF Accounted, Settled, At
<1>4. CountsAreHonest'
  BY <1>1 DEF CountsAreHonest, Settled, Count, At
<1> QED  BY <1>1, <1>2, <1>3, <1>4 DEF CountInv, At

LEMMA CountInvInit == SteeringInit => CountInv
<1> SUFFICES ASSUME SteeringInit PROVE CountInv
  OBVIOUS
<1>1. /\ scan = [s \in Scans |-> Idle] /\ resolutions = <<>> /\ cases = NoCases
  BY DEF SteeringInit
<1>2. \A s \in Scans : At(s, "idle")
  BY <1>1, IdleTyped DEF At
<1>3. \A k \in Keys : Escalated(k) = 0
  BY <1>1, FS_EmptySet DEF Escalated
<1>4. \A k \in Keys : cases[<<k, k>>].count = 0
  BY <1>1 DEF NoCases, NoCase, CaseIds
<1> QED  BY <1>2, <1>3, <1>4 DEF CountInv, CountsAreHonest

LEMMA CountTyped ==
    ASSUME CasesTyped, NEW k \in Keys
    PROVE  /\ Count(k) \in Nat /\ Escalated(k) \in Nat /\ faults \in Nat
           /\ \A s \in Scans : scan[s].merged[<<k, k>>].count \in Nat
<1>1. ASSUME NEW set \in CaseSets PROVE set[<<k, k>>].count \in Nat
  <2>1. <<k, k>> \in CaseIds /\ set \in [CaseIds -> [status : Statuses, count : Nat]]
    BY DEF CaseIds, CaseSets
  <2> QED  BY <2>1
<1>2. cases \in CaseSets /\ faults \in Nat /\ \A s \in Scans : scan[s].merged \in CaseSets
  BY DEF CasesTyped, ScanStates
<1> QED  BY <1>1, <1>2, EscalatedTyped DEF Count

\* Neither stream moved, nor the cases.
LEMMA SettledStays ==
    ASSUME UNCHANGED <<findings, resolutions, cases, faults>>, NEW x
    PROVE  Settled(x)' <=> Settled(x)
BY DEF Settled, Count, Escalated, Owing

LEMMA CountInvStep == CaseInv /\ CountInv /\ [SteeringNext]_steeringVars => CountInv'
<1> SUFFICES ASSUME CaseInv, CountInv, [SteeringNext]_steeringVars, ~overlapped'
             PROVE  CountInv'
  BY DEF CountInv
<1>1. CasesTyped
  BY DEF CaseInv
<1>2. CASE Aside
  BY <1>2 DEF Aside, CountInv, CountsAreHonest, Accounted, Owes, Count, Escalated, At
<1>3. ASSUME NEW s \in Scans, Pull(s) PROVE CountInv'
  <2>1. PICK x : Moves(s, x) /\ x.pc = "pulled" /\ x.n = 0
    BY <1>3, PullStep
  <2>2. /\ \A t \in Scans : At(t, "idle") /\ ~overlapped
        /\ UNCHANGED <<findings, resolutions, cases, faults>>
    BY <1>3 DEF Pull, StartsScan, streams, caseVars
  <2>3. ~overlapped
    BY <1>3 DEF Pull
  <2>4. \A k \in Keys : /\ Count(k) \in Nat /\ Escalated(k) \in Nat /\ Owing(x, k) = 0
                        /\ Count(k) <= Escalated(k) /\ (faults = 0 => Count(k) = Escalated(k))
    BY <1>1, <2>1, <2>2, <2>3, CountTyped, NothingOwed DEF Owing
  <2>5. Settled(x)
    BY <2>1, <2>4 DEF Settled
  <2> QED  BY <1>1, <2>1, <2>2, <2>5, SettledStays, Resettled
<1>4. ASSUME NEW s \in Scans, Detect(s) PROVE CountInv'
  <2>1. PICK x : /\ Moves(s, x)
                 /\ \/ x.pc = "collapse" /\ x.n = 0 /\ findings' = findings
                    \/ x.pc = "flagged" /\ x.n = 1 /\ Latest(findings') = x.key
    BY <1>4, DetectStep
  <2>2. /\ ~overlapped /\ scan[s].pc = "pulled"
        /\ UNCHANGED <<resolutions, cases, faults>>
    BY <1>4 DEF Detect, At, caseVars
  <2>3. Settled(scan[s]) /\ \A t \in Scans : t # s => At(t, "idle")
    BY <2>2, OneSettled DEF At
  <2>4. \A k \in Keys : Owing(scan[s], k) = 0 /\ Owing(x, k)' = 0
    BY <2>1, <2>2 DEF Owing
  <2>5. \A k \in Keys : /\ Count(k) \in Nat /\ Escalated(k) \in Nat
                        /\ Count(k) <= Escalated(k) /\ (faults = 0 => Count(k) = Escalated(k))
    <3>1. \A k \in Keys : /\ Count(k) <= Escalated(k)
                          /\ faults = 0 => Count(k) + Owing(scan[s], k) = Escalated(k)
      BY <2>2, <2>3 DEF Settled
    <3>2. \A k \in Keys : Count(k) \in Nat /\ Escalated(k) \in Nat
      BY <1>1, CountTyped
    <3> QED  BY <2>4, <3>1, <3>2
  <2>6. \A k \in Keys : /\ Count(k)' = Count(k) /\ Escalated(k)' = Escalated(k)
    BY <2>2 DEF Count, Escalated
  <2>7. Settled(x)'
    BY <2>1, <2>2, <2>4, <2>5, <2>6 DEF Settled
  <2> QED  BY <1>1, <2>1, <2>3, <2>7, Resettled
<1>5. ASSUME NEW s \in Scans, Resolve(s) PROVE CountInv'
  <2>1. PICK x, r : /\ Moves(s, x) /\ x.pc = "collapse" /\ x.n = 1 /\ x.key = scan[s].key
                    /\ r \in [key : Keys, escalated : BOOLEAN] /\ r.key = x.key
                    /\ resolutions' = Append(resolutions, r) /\ Latest(resolutions') = r
    BY <1>5, ResolveStep
  <2>2. /\ ~overlapped /\ scan[s].pc = "flagged" /\ UNCHANGED <<findings, cases, faults>>
    BY <1>5 DEF Resolve, At, caseVars
  <2>3. Settled(scan[s]) /\ \A t \in Scans : t # s => At(t, "idle")
    BY <2>2, OneSettled DEF At
  <2>4. \A k \in Keys : Owing(scan[s], k) = 0
    BY <2>2 DEF Owing
  <2>5. \A k \in Keys : /\ Count(k) \in Nat /\ Escalated(k) \in Nat
                        /\ Count(k) <= Escalated(k) /\ (faults = 0 => Count(k) = Escalated(k))
    <3>1. \A k \in Keys : /\ Count(k) <= Escalated(k)
                          /\ faults = 0 => Count(k) + Owing(scan[s], k) = Escalated(k)
      BY <2>2, <2>3 DEF Settled
    <3>2. \A k \in Keys : Count(k) \in Nat /\ Escalated(k) \in Nat
      BY <1>1, CountTyped
    <3> QED  BY <2>4, <3>1, <3>2
  <2>6. \A k \in Keys : /\ Count(k)' = Count(k)
                        /\ Owing(x, k)' = IF r.key = k /\ r.escalated THEN 1 ELSE 0
    BY <2>1, <2>2 DEF Count, Owing
  <2>7. \A k \in Keys : Escalated(k)' = Escalated(k) + Owing(x, k)'
    BY <1>1, <2>1, <2>6, OneResolution
  <2>8. Latest(findings') = x.key /\ Latest(resolutions').key = x.key
    BY <2>1, <2>2, <2>3 DEF Settled
  <2>9. Settled(x)'
    <3>1. \A k \in Keys : /\ Count(k)' <= Escalated(k)'
                          /\ Count(k)' + Owing(x, k)' <= Escalated(k)'
                          /\ faults' = 0 => Count(k)' + Owing(x, k)' = Escalated(k)'
      BY <2>2, <2>5, <2>6, <2>7
    <3> QED  BY <2>1, <2>8, <3>1 DEF Settled
  <2> QED  BY <1>1, <2>1, <2>3, <2>9, Resettled
<1>6. ASSUME NEW s \in Scans, Collapse(s) PROVE CountInv'
  <2>1. /\ ~overlapped /\ scan[s].pc = "collapse" /\ At(s, "collapse")
        /\ UNCHANGED <<findings, resolutions, cases, faults>>
    BY <1>6 DEF Collapse, At, caseVars, streams
  <2>2. Settled(scan[s]) /\ \A t \in Scans : t # s => At(t, "idle")
    BY <2>1, OneSettled DEF At
  <2>3. \A k \in Keys : Count(k) \in Nat /\ Escalated(k) \in Nat
    BY <1>1, CountTyped
  <2>4. \A k \in Keys : /\ Count(k) <= Escalated(k) /\ Count(k) + Owing(scan[s], k) <= Escalated(k)
                        /\ faults = 0 => Count(k) + Owing(scan[s], k) = Escalated(k)
    BY <2>1, <2>2 DEF Settled
  <2>5. CASE Moves(s, Idle) /\ Escalations(s) = {}
    <3>1. scan[s].n = 0 \/ ~Latest(resolutions).escalated
      BY <2>5 DEF Escalations
    <3>2. \A k \in Keys : Owing(scan[s], k) = 0
      BY <3>1 DEF Owing
    <3>3. Settled(Idle)
      BY <2>3, <2>4, <3>2, IdleTyped DEF Settled
    <3>4. PICK x : x = Idle
      OBVIOUS
    <3>5. Settled(x)'
      BY <2>1, <3>3, <3>4, SettledStays
    <3> QED  BY <1>1, <2>2, <2>5, <3>4, <3>5, Resettled
  <2>6. ASSUME NEW x, Moves(s, x), x.pc = "write", x.merged = MergedCases(s) PROVE CountInv'
    <3>1. \A k \in Keys : x.merged[<<k, k>>].count = Count(k) + Owing(scan[s], k)
      <4>1. \A k \in Keys : <<k, k>> \in CaseIds
        BY DEF CaseIds
      <4>2. CASE Escalations(s) = {}
        <5>1. scan[s].n = 0 \/ ~Latest(resolutions).escalated
          BY <4>2 DEF Escalations
        <5>2. \A k \in Keys : Owing(scan[s], k) = 0
          BY <5>1 DEF Owing
        <5>3. \A id \in CaseIds : MergedCases(s)[id].count = cases[id].count
          BY <2>1, <4>2, MergedTyped
        <5>4. \A k \in Keys : x.merged[<<k, k>>].count = Count(k)
          BY <2>6, <4>1, <5>3 DEF Count
        <5>5. \A k \in Keys : Count(k) = Count(k) + Owing(scan[s], k)
          BY ONLY <2>3, <5>2
        <5> QED  BY <5>4, <5>5
      <4>3. CASE Escalations(s) # {}
        <5>1. /\ scan[s].n = 1 /\ Latest(resolutions).escalated
              /\ \A id \in CaseIds : MergedCases(s)[id].count =
                    IF id = <<Latest(findings), Latest(resolutions).key>>
                    THEN cases[id].count + 1 ELSE cases[id].count
          BY <2>1, <4>3, MergedTyped
        <5>2. Latest(findings) = scan[s].key /\ Latest(resolutions).key = scan[s].key
          BY <2>1, <2>2, <5>1 DEF Settled
        <5>3. \A k \in Keys : Owing(scan[s], k) = IF k = scan[s].key THEN 1 ELSE 0
          BY <2>1, <5>1 DEF Owing
        <5>4. ASSUME NEW k \in Keys
              PROVE  x.merged[<<k, k>>].count = IF k = scan[s].key THEN Count(k) + 1 ELSE Count(k)
          <6>1. <<k, k>> = <<Latest(findings), Latest(resolutions).key>> <=> k = scan[s].key
            BY <5>2
          <6> QED  BY <2>6, <4>1, <5>1, <6>1 DEF Count
        <5>5. \A k \in Keys : Count(k) + Owing(scan[s], k) =
                 IF k = scan[s].key THEN Count(k) + 1 ELSE Count(k)
          BY ONLY <2>3, <5>3
        <5> QED  BY <5>4, <5>5
      <4> QED  BY <4>2, <4>3
    <3>2. Settled(x)
      BY <2>4, <2>6, <3>1 DEF Settled
    <3>3. Settled(x)'
      BY <2>1, <3>2, SettledStays
    <3> QED  BY <1>1, <2>2, <2>6, <3>3, Resettled
  <2> QED  BY <1>6, <2>5, <2>6, CollapseStep
<1>7. ASSUME NEW s \in Scans, WriteCases(s) \/ Kill(s) PROVE CountInv'
  <2>1. /\ Moves(s, Idle) /\ UNCHANGED <<findings, resolutions>> /\ ~overlapped
        /\ \/ cases' = scan[s].merged /\ faults' = faults /\ At(s, "write")
           \/ cases' = cases /\ faults' = faults + 1
    BY <1>7, EndStep
  <2>2. Settled(scan[s]) /\ \A t \in Scans : t # s => At(t, "idle")
    <3>1. ~At(s, "idle")
      BY <1>7 DEF WriteCases, Kill, At
    <3> QED  BY <2>1, <3>1, OneSettled
  <2>3. faults \in Nat /\ \A k \in Keys : Escalated(k)' = Escalated(k)
    BY <1>1, <2>1 DEF CasesTyped, Escalated
  <2>4. /\ \A k \in Keys : cases'[<<k, k>>].count <= Escalated(k)
        /\ faults' = 0 => \A k \in Keys : cases'[<<k, k>>].count = Escalated(k)
    <3>1. CASE cases' = scan[s].merged /\ faults' = faults /\ At(s, "write")
      BY <2>2, <3>1 DEF Settled, At
    <3>2. CASE cases' = cases /\ faults' = faults + 1
      BY <2>2, <2>3, <3>2 DEF Settled, Count
    <3> QED  BY <2>1, <3>1, <3>2
  <2>5. PICK x : x = Idle
    OBVIOUS
  <2>6. Settled(x)'
    BY <2>3, <2>4, <2>5, IdleTyped DEF Settled, Count
  <2> QED  BY <1>1, <2>1, <2>2, <2>5, <2>6, Resettled
<1> QED  BY <1>2, <1>3, <1>4, <1>5, <1>6, <1>7, CaseSteps

(* Theorems about the store a scan leaves behind. *)

LEMMA SteeringInvariants == SteeringSpec => [](GrantInv /\ CaseInv /\ CountInv)
BY GrantInvInit, GrantInvStep, CaseInvInit, CaseInvStep, CountInvInit, CountInvStep, PTL
   DEF SteeringSpec

\* The shape of the streams, the calls and the case set: a confirmation under way
\* names a row of the stream, and no verdict is recorded without its finding.
THEOREM StoreKeepsShape == SteeringSpec => []SteeringTypeOK
<1>1. ASSUME GrantInv, CaseInv PROVE SteeringTypeOK
  <2>1. /\ connector \in Healths /\ grants \in Seq(Row)
        /\ \A p \in Procs :
              /\ call[p].pc \in {"none", "check", "append", "remiss"}
              /\ call[p].pc \in {"check", "append"} => call[p].ref \in DOMAIN grants
    BY <1>1 DEF GrantInv, GrantsTyped, Calls, IsMiss
  <2>2. \A s \in Scans : scan[s].pc \in {"idle", "pulled", "flagged", "collapse", "write"}
    BY <1>1 DEF CaseInv, CasesTyped, ScanStates, Stages
  <2>3. Len(resolutions) <= Len(findings)
    <3>1. /\ Len(resolutions) \in Nat /\ Len(findings) \in Nat
          /\ Len(resolutions) + Cardinality(Flagged) <= Len(findings)
      BY <1>1 DEF CaseInv, CasesTyped, StreamsAligned
    <3>2. Flagged \in SUBSET Scans
      BY DEF Flagged
    <3>3. Cardinality(Flagged) \in Nat
      BY <3>2, SteeringAssumption, FS_Subset, FS_CardinalityType
    <3> QED  BY <3>1, <3>3
  <2>4. \A id \in CaseIds :
           /\ cases[id].status \in {"none", "open", "recurring", "closed", "aged"}
           /\ (cases[id].status = "none") = (cases[id].count = 0)
    BY <1>1 DEF CaseInv, CasesTyped, CaseSets, Statuses
  <2> QED  BY <1>1, <2>1, <2>2, <2>3, <2>4 DEF CaseInv, CasesTyped, SteeringTypeOK
<1> QED  BY <1>1, SteeringInvariants, PTL

\* A resolution rests on a probe that found the connector well, answers a miss
\* recorded before it and, unless two confirmations overlapped, is that miss's
\* only one: for any number of scans, and whatever is killed in between.
THEOREM GrantsStayHonest == SteeringSpec => []GrantHistoryIsHonest
BY SteeringInvariants, PTL DEF GrantInv

\* Scans that do not overlap count every escalation at most once, and exactly
\* once if none of them was killed or failed to write.
THEOREM CountsStayHonest == SteeringSpec => []CountsAreHonest
<1>1. CountInv => CountsAreHonest
  BY DEF CountInv, CountsAreHonest
<1> QED  BY <1>1, SteeringInvariants, PTL

=============================================================================
