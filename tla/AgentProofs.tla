--------------------------- MODULE AgentProofs ----------------------------
(***************************************************************************)
(* The two places where a model judges a finding.                          *)
(*                                                                         *)
(* Cascade's safety, for every size of the committee, every confidence and *)
(* citation count a reply may carry and any number of panics.  None of the *)
(* properties is inductive alone.  IInv adds what a run that is under way  *)
(* owes to the runs before it: the first one resolved (InProgress), as     *)
(* many grounds as votes while nobody dissented (GroundsCount), each       *)
(* ground evidenced, and how many calls a run has cost when it reaches a   *)
(* stage (Cost).                                                           *)
(*                                                                         *)
(* Inquest's, for every set of findings and cases, every budget and cap,   *)
(* and any number of scans and faults.  InquestInv ties a record to the    *)
(* pass that wrote it: a record the pass under way wrote is of a case it   *)
(* touched (PassKnown), and what a vote may follow was written by the      *)
(* forced pass of this scan (FreshIsDeep).                                 *)
(***************************************************************************)
EXTENDS Cascade, Inquest, SequenceLemmas

Unanimous == \A i \in DOMAIN votes : votes[i] = "proceed"

InProgress ==
    stage # "done" => /\ Len(votes) <= ConsensusRuns
                      /\ votes # <<>> => votes[1] = "proceed"

GroundsCount == Unanimous => Len(grounds) = Len(votes)

GroundsEvidenced == \A i \in DOMAIN grounds : grounds[i].positive

Closed ==
    disposition = "proceed" => Unanimous /\ Len(votes) = ConsensusRuns + 1

\* A finding the floor settles never leaves it.
Settled ==
    facts.routed \/ ~facts.client =>
        asked = 0 /\ stage \in {"floor", "done"} /\ disposition # "proceed"

One(h) == IF panel[h] = Pending THEN 0 ELSE 1

\* What the current run has asked by the time it reaches its stage.
Spent ==
    CASE stage = "investigate" -> 1
      [] stage = "panel" -> 2 + One("benign") + One("malicious") + One("incomplete")
      [] stage = "format" -> 5
      [] stage = "dead" -> 6
      [] OTHER -> 0

Cost == asked <= 6 * Len(votes) + Spent

IInv ==
    /\ TypeOK /\ InProgress /\ GroundsCount /\ GroundsEvidenced
    /\ Closed /\ Settled /\ Cost

-----------------------------------------------------------------------------
(* What the end of a run does, apart from where it was. *)

\* The end of a run keeps the shape of the votes and closes the finding only
\* when everybody agreed.
LEMMA EndRunShape ==
    ASSUME ConsensusRuns \in Nat, votes \in Seq(Actions),
           NEW action \in Actions, EndRun(action),
           Len(votes) <= ConsensusRuns, votes # <<>> => votes[1] = "proceed"
    PROVE  /\ votes' = Append(votes, action)
           /\ votes' \in Seq(Actions) /\ Len(votes') = Len(votes) + 1
           /\ Len(votes') <= ConsensusRuns + 1
           /\ stage' \in {"floor", "done"}
           /\ disposition' \in Actions \cup {"none"}
           /\ (disposition' = "none") = (stage' # "done")
           /\ panel' = NoPanel
           /\ InProgress' /\ Closed'
           /\ Unanimous' => Unanimous /\ action = "proceed"
<1> DEFINE all == Append(votes, action)
<1>1. /\ all \in Seq(Actions) /\ Len(all) = Len(votes) + 1 /\ Len(votes) \in Nat
      /\ all[Len(votes) + 1] = action
      /\ \A i \in 1..Len(votes) : all[i] = votes[i]
  BY DEF Actions
<1>2. votes' = all /\ panel' = NoPanel
  BY DEF EndRun
<1>3. Head(all) = all[1] /\ 1 \in DOMAIN all
  BY <1>1
<1> DEFINE over == Head(all) = "escalate" \/ Len(all) = ConsensusRuns + 1
<1>4. CASE over
  <2>1. stage' = "done" /\ disposition' \in Actions
    BY <1>4 DEF EndRun, Actions
  <2>2. disposition' = "proceed" => \A i \in DOMAIN all : all[i] = "proceed"
    BY <1>4 DEF EndRun
  <2>3. disposition' = "proceed" => Len(all) = ConsensusRuns + 1
    BY <1>4, <2>2, <1>3
  <2>4. InProgress' /\ Closed'
    BY <2>1, <2>2, <2>3, <1>2 DEF InProgress, Closed, Unanimous
  <2>5. Unanimous' => Unanimous /\ action = "proceed"
    BY <1>1, <1>2 DEF Unanimous
  <2>6. disposition' # "none"
    BY <2>1 DEF Actions
  <2> QED  BY <1>1, <1>2, <2>1, <2>4, <2>5, <2>6
<1>5. CASE ~over
  <2>1. stage' = "floor" /\ disposition' = "none"
    BY <1>5 DEF EndRun
  <2>2. Len(all) <= ConsensusRuns /\ all[1] = "proceed"
    BY <1>5, <1>1, <1>3 DEF Actions
  <2>3. InProgress' /\ Closed'
    BY <2>1, <2>2, <1>2 DEF InProgress, Closed
  <2>4. Unanimous' => Unanimous /\ action = "proceed"
    BY <1>1, <1>2 DEF Unanimous
  <2> QED  BY <1>1, <1>2, <2>1, <2>2, <2>3, <2>4
<1> QED  BY <1>4, <1>5

\* The end of a run keeps the strengthened invariant, whatever ground a
\* resolving run gives.
LEMMA EndRunInv ==
    ASSUME IInv, stage # "done", NEW action \in Actions, EndRun(action),
           facts' = facts, asked' \in Nat, asked' <= 6 * (Len(votes) + 1),
           panics' \in 0..MaxPanics,
           \/ action = "escalate" /\ grounds' = grounds
           \/ /\ action = "proceed"
              /\ \E g \in Grounds : g.positive /\ grounds' = Append(grounds, g),
           facts.routed \/ ~facts.client => asked' = 0 /\ action = "escalate"
    PROVE  IInv'
<1> USE CascadeAssumption
<1>1. /\ votes \in Seq(Actions) /\ grounds \in Seq(Grounds)
      /\ Len(votes) <= ConsensusRuns
      /\ votes # <<>> => votes[1] = "proceed"
  BY DEF IInv, TypeOK, InProgress
<1>2. /\ votes' = Append(votes, action)
      /\ votes' \in Seq(Actions) /\ Len(votes') = Len(votes) + 1
      /\ Len(votes') <= ConsensusRuns + 1
      /\ stage' \in {"floor", "done"}
      /\ disposition' \in Actions \cup {"none"}
      /\ (disposition' = "none") = (stage' # "done")
      /\ panel' = NoPanel
      /\ InProgress' /\ Closed'
      /\ Unanimous' => Unanimous /\ action = "proceed"
  BY <1>1, EndRunShape
<1>3. /\ grounds' \in Seq(Grounds) /\ GroundsEvidenced'
      /\ action = "proceed" => Len(grounds') = Len(grounds) + 1
  <2>1. CASE action = "escalate" /\ grounds' = grounds
    BY <2>1, <1>1 DEF IInv, GroundsEvidenced
  <2>2. ASSUME NEW g \in Grounds, g.positive, grounds' = Append(grounds, g)
        PROVE  /\ grounds' \in Seq(Grounds) /\ GroundsEvidenced'
               /\ Len(grounds') = Len(grounds) + 1
    <3>1. \A i \in DOMAIN grounds : grounds[i].positive
      BY DEF IInv, GroundsEvidenced
    <3>2. \A i \in DOMAIN grounds' : grounds'[i] = g \/ (i \in DOMAIN grounds /\ grounds'[i] = grounds[i])
      BY <2>2, <1>1
    <3>3. GroundsEvidenced'
      BY <3>1, <3>2, <2>2 DEF GroundsEvidenced
    <3> QED  BY <2>2, <1>1, <3>3
  <2> QED  BY <2>1, <2>2
<1>4. GroundsCount'
  <2>1. Unanimous => Len(grounds) = Len(votes)
    BY DEF IInv, GroundsCount
  <2> QED  BY <2>1, <1>2, <1>3 DEF GroundsCount
<1>5. TypeOK'
  <2>1. NoPanel \in [Hypotheses -> DeepResults \cup {Pending}]
    BY DEF NoPanel
  <2>2. facts \in FindingFacts
    BY DEF IInv, TypeOK
  <2> QED  BY <1>2, <1>3, <2>1, <2>2 DEF TypeOK, Stages
<1>6. Settled'
  <2>1. facts.routed \/ ~facts.client => ~Unanimous'
    BY <1>2 DEF Actions
  <2> QED  BY <2>1, <1>2 DEF Settled, Closed
<1>7. Cost'
  <2>1. Spent' = 0
    BY <1>2 DEF Spent
  <2>2. Len(votes) \in Nat
    BY <1>1
  <2> QED  BY <1>2, <2>1, <2>2 DEF Cost
<1> QED  BY <1>2, <1>3, <1>4, <1>5, <1>6, <1>7 DEF IInv

\* The panel resolves only with evidence on the resolving side.
LEMMA MergeNeedsEvidence ==
    ASSUME NEW p, MergeDeepResults(p) = "proceed"
    PROVE  Of(p, {Evidenced}) > 0
BY DEF MergeDeepResults

\* GuardResolve lets no resolve pass that names no positive evidence.
LEMMA GuardNeedsEvidence ==
    ASSUME NEW r, NEW used, GuardResolve(r, used) = "allowed"
    PROVE  r.positive
BY DEF GuardResolve

LEMMA IInvInit == Init => IInv
<1> SUFFICES ASSUME Init PROVE IInv
  OBVIOUS
<1>1. NoPanel \in [Hypotheses -> DeepResults \cup {Pending}]
  BY DEF NoPanel
<1>2. votes = <<>> /\ grounds = <<>> /\ Len(votes) = 0 /\ Len(grounds) = 0
  BY DEF Init
<1>3. TypeOK
  BY <1>1, <1>2, CascadeAssumption DEF Init, TypeOK, Stages
<1>4. InProgress /\ GroundsCount /\ GroundsEvidenced /\ Closed /\ Settled
  BY <1>2, CascadeAssumption
     DEF Init, InProgress, GroundsCount, GroundsEvidenced, Closed, Settled
<1>5. Cost
  BY <1>2 DEF Init, Cost, Spent
<1> QED  BY <1>3, <1>4, <1>5 DEF IInv

\* Calls stay within the votes' budget if the step asks what its stage may cost.
LEMMA Budget ==
    ASSUME NEW a \in Nat, NEW b \in Nat, NEW len \in Nat,
           NEW s \in Nat, NEW t \in Nat, a <= 6 * len + s, b + s <= a + t
    PROVE  b <= 6 * len + t
OBVIOUS

\* The one call of investigate is covered by the cost of any stage it leads to.
LEMMA StartPanel ==
    ASSUME NEW a \in Nat, NEW b, NEW s, NEW t \in 2..5, b = a + 1, s = 1
    PROVE  b + s <= a + t
OBVIOUS

\* A step inside a run keeps it too, if it asks no more than its stage may cost
\* and does not touch a finding the floor settles.
LEMMA InsideInv ==
    ASSUME IInv, stage # "done", stage' # "done", stage' \in Stages,
           UNCHANGED <<facts, votes, grounds, disposition>>,
           panel' \in [Hypotheses -> DeepResults \cup {Pending}],
           panics' \in 0..MaxPanics, asked' \in Nat,
           asked' + Spent <= asked + Spent',
           Spent \in Nat, Spent' \in Nat,
           facts.client /\ ~facts.routed
    PROVE  IInv'
<1>1. TypeOK'
  BY DEF IInv, TypeOK
<1>2. InProgress' /\ Closed'
  BY DEF IInv, InProgress, Closed, Unanimous
<1>3. GroundsCount' /\ GroundsEvidenced'
  BY DEF IInv, GroundsCount, GroundsEvidenced, Unanimous
<1>4. Settled'
  BY DEF Settled
<1>5. Cost'
  <2>1. Len(votes) \in Nat /\ asked \in Nat
    BY DEF IInv, TypeOK
  <2>2. asked <= 6 * Len(votes) + Spent
    BY DEF IInv, Cost
  <2>3. asked' <= 6 * Len(votes) + Spent'
    BY <2>1, <2>2, Budget
  <2> QED  BY <2>3 DEF Cost
<1> QED  BY <1>1, <1>2, <1>3, <1>4, <1>5 DEF IInv

\* Past the floor, a finding has a client and no route, and the run has asked
\* for at most five of its six calls.
LEMMA PastFloor ==
    ASSUME IInv, stage \in {"triage", "investigate", "panel", "format"}
    PROVE  /\ facts.client /\ ~facts.routed
           /\ asked \in Nat /\ Len(votes) \in Nat
           /\ asked <= 6 * Len(votes) + Spent
           /\ Spent \in 0..5
<1>1. facts.client /\ ~facts.routed
  BY DEF IInv, Settled, TypeOK, FindingFacts
<1>2. Spent \in 0..5
  BY DEF Spent, One
<1> QED  BY <1>1, <1>2 DEF IInv, TypeOK, Cost

LEMMA IInvStep == IInv /\ [Next]_vars => IInv'
<1> SUFFICES ASSUME IInv, [Next]_vars PROVE IInv'
  OBVIOUS
<1> USE CascadeAssumption
<1>0. /\ TypeOK /\ asked \in Nat /\ Len(votes) \in Nat
      /\ panics \in 0..MaxPanics
      /\ panel \in [Hypotheses -> DeepResults \cup {Pending}]
      /\ asked <= 6 * Len(votes) + Spent
  BY DEF IInv, TypeOK, Cost
<1>1. CASE Floor
  <2>1. Spent = 0 /\ stage = "floor"
    BY <1>1 DEF Floor, Spent
  <2>2. CASE EndRun("escalate") /\ UNCHANGED grounds
    <3>1. asked' = asked /\ facts' = facts /\ panics' = panics
      BY <1>1 DEF Floor
    <3>2. facts.routed \/ ~facts.client => asked' = 0
      BY <3>1 DEF IInv, Settled
    <3> QED  BY <2>1, <2>2, <3>1, <3>2, <1>0, EndRunInv DEF Actions
  <2>3. CASE /\ ~Forced /\ facts.client
             /\ stage' = "triage" /\ UNCHANGED <<panel, votes, grounds, disposition>>
    <3>1. Spent' = 0
      BY <2>3 DEF Spent
    <3>2. facts.client /\ ~facts.routed
      BY <2>3 DEF Forced
    <3>3. UNCHANGED <<facts, asked, panics>>
      BY <1>1 DEF Floor
    <3> QED  BY <2>1, <2>3, <3>1, <3>2, <3>3, <1>0, InsideInv DEF Stages
  <2> QED  BY <1>1, <2>2, <2>3 DEF Floor
<1>2. CASE Triage
  <2>1. /\ stage = "triage" /\ asked' = asked + 1
        /\ facts' = facts /\ panics' = panics
    BY <1>2 DEF Triage, Ask
  <2>2. Spent = 0 /\ facts.client /\ ~facts.routed
    BY <2>1, PastFloor DEF Spent
  <2>3. PICK r \in Replies \cup {FailSafe} :
          \/ CleanResolve(r) /\ facts.marked /\ Escalate
          \/ /\ CleanResolve(r)
             /\ ResolveOn([tier |-> "triage", positive |-> r.positive])
          \/ /\ stage' = "investigate"
             /\ UNCHANGED <<panel, votes, grounds, disposition>>
    BY <1>2 DEF Triage
  <2>4. CASE Escalate
    <3>1. Spent' = 5
      BY <2>4 DEF Escalate, Spent
    <3> QED  BY <2>1, <2>2, <2>4, <3>1, <1>0, InsideInv DEF Escalate, Stages
  <2>5. CASE CleanResolve(r) /\ ResolveOn([tier |-> "triage", positive |-> r.positive])
    <3>1. r \in Replies /\ r.positive
      BY <2>3, <2>5 DEF CleanResolve, FailSafe
    <3>2. [tier |-> "triage", positive |-> r.positive] \in Grounds
      BY <3>1 DEF Grounds, Replies
    <3>3. EndRun("proceed") /\ grounds' = Append(grounds, [tier |-> "triage", positive |-> r.positive])
      BY <2>5 DEF ResolveOn
    <3> QED  BY <2>1, <2>2, <3>1, <3>2, <3>3, <1>0, EndRunInv DEF Actions
  <2>6. CASE stage' = "investigate" /\ UNCHANGED <<panel, votes, grounds, disposition>>
    <3>1. Spent' = 1
      BY <2>6 DEF Spent
    <3> QED  BY <2>1, <2>2, <2>6, <3>1, <1>0, InsideInv DEF Stages
  <2> QED  BY <2>3, <2>4, <2>5, <2>6
<1>3. CASE Investigate
  <2>1. /\ stage = "investigate" /\ asked' = asked + 1
        /\ facts' = facts /\ panics' = panics
    BY <1>3 DEF Investigate, Ask
  <2>2. Spent = 1 /\ facts.client /\ ~facts.routed
    BY <2>1, PastFloor DEF Spent
  <2>3. PICK r \in Replies \cup {FailSafe}, used \in 2..3 :
          \/ Escalate
          \/ /\ r.verdict = "resolve" /\ GuardResolve(r, used) = "allowed"
             /\ ResolveOn([tier |-> "investigate", positive |-> r.positive])
          \/ /\ stage' = "panel"
             /\ UNCHANGED <<panel, votes, grounds, disposition>>
    BY <1>3 DEF Investigate
  <2>4. CASE Escalate
    <3>1. Spent' = 5
      BY <2>4 DEF Escalate, Spent
    <3> QED  BY <2>1, <2>2, <2>4, <3>1, <1>0, InsideInv DEF Escalate, Stages
  <2>5. CASE /\ r.verdict = "resolve" /\ GuardResolve(r, used) = "allowed"
             /\ ResolveOn([tier |-> "investigate", positive |-> r.positive])
    <3>1. r \in Replies
      BY <2>3, <2>5 DEF FailSafe
    <3>2. r.positive
      BY <2>5, GuardNeedsEvidence
    <3>3. [tier |-> "investigate", positive |-> r.positive] \in Grounds
      BY <3>1 DEF Grounds, Replies
    <3>4. EndRun("proceed") /\ grounds' = Append(grounds, [tier |-> "investigate", positive |-> r.positive])
      BY <2>5 DEF ResolveOn
    <3> QED  BY <2>1, <2>2, <3>2, <3>3, <3>4, <1>0, EndRunInv DEF Actions
  <2>6. CASE stage' = "panel" /\ UNCHANGED <<panel, votes, grounds, disposition>>
    <3>1. Spent' \in 2..5
      BY <2>6 DEF Spent, One
    <3>2. asked' + Spent <= asked + Spent'
      BY <2>1, <2>2, <3>1, <1>0, StartPanel
    <3> QED  BY <2>1, <2>2, <2>6, <3>1, <3>2, <1>0, InsideInv DEF Stages
  <2> QED  BY <2>3, <2>4, <2>5, <2>6
<1>4. ASSUME NEW h \in Hypotheses, DeepTier(h) PROVE IInv'
  <2>1. /\ stage = "panel" /\ stage' = "panel" /\ asked' = asked + 1
        /\ panel[h] = Pending
        /\ UNCHANGED <<facts, votes, grounds, disposition, panics>>
    BY <1>4 DEF DeepTier, Ask
  <2>2. PICK r \in DeepResults : panel' = [panel EXCEPT ![h] = r]
    BY <1>4 DEF DeepTier
  <2>3. r # Pending
    BY DEF DeepResults, Pending, Evidenced, Unevidenced, Strong, Weak, Insufficient
  <2>4. Spent' = Spent + 1 /\ Spent \in Nat
    BY <2>1, <2>2, <2>3, <1>0 DEF Spent, One, Hypotheses
  <2>5. facts.client /\ ~facts.routed
    BY <2>1, PastFloor
  <2> QED  BY <2>1, <2>2, <2>4, <2>5, <1>0, InsideInv DEF Stages
<1>5. CASE Merge
  <2>1. /\ stage = "panel" /\ UNCHANGED <<facts, asked, panics>>
        /\ \A h \in Hypotheses : panel[h] # Pending
    BY <1>5 DEF Merge
  <2>2. Spent = 5 /\ facts.client /\ ~facts.routed
    BY <2>1, PastFloor DEF Spent, One, Hypotheses
  <2>3. CASE /\ MergeDeepResults(panel) = "proceed"
             /\ ResolveOn([tier |-> "panel", positive |-> Of(panel, {Evidenced}) > 0])
    <3>1. Of(panel, {Evidenced}) > 0
      BY <2>3, MergeNeedsEvidence
    <3>2. [tier |-> "panel", positive |-> TRUE] \in Grounds
      BY DEF Grounds
    <3>3. EndRun("proceed") /\ grounds' = Append(grounds, [tier |-> "panel", positive |-> TRUE])
      BY <2>3, <3>1 DEF ResolveOn
    <3> QED  BY <2>1, <2>2, <3>2, <3>3, <1>0, EndRunInv DEF Actions
  <2>4. CASE Escalate
    <3>1. Spent' = 5
      BY <2>4 DEF Escalate, Spent
    <3> QED  BY <2>1, <2>2, <2>4, <3>1, <1>0, InsideInv DEF Escalate, Stages
  <2> QED  BY <1>5, <2>3, <2>4 DEF Merge
<1>6. CASE Format
  <2>1. /\ stage = "format" /\ asked' = asked + 1 /\ EndRun("escalate")
        /\ UNCHANGED <<facts, grounds, panics>>
    BY <1>6 DEF Format, Ask
  <2>2. Spent = 5 /\ facts.client /\ ~facts.routed
    BY <2>1, PastFloor DEF Spent
  <2> QED  BY <2>1, <2>2, <1>0, EndRunInv DEF Actions
<1>7. CASE Panic
  <2>1. /\ stage \in {"triage", "investigate", "panel", "format"}
        /\ asked' = asked + 1 /\ UNCHANGED <<facts, grounds>>
        /\ panics < MaxPanics /\ panics' = panics + 1
    BY <1>7 DEF Panic, Ask
  <2>2. Spent \in 0..5 /\ facts.client /\ ~facts.routed
    BY <2>1, PastFloor
  <2>3. CASE EndRun("escalate")
    BY <2>1, <2>2, <2>3, <1>0, EndRunInv DEF Actions
  <2>4. CASE stage' = "dead" /\ UNCHANGED <<panel, votes, disposition>>
    <3>1. Spent' = 6
      BY <2>4 DEF Spent
    <3> QED  BY <2>1, <2>2, <2>4, <3>1, <1>0, InsideInv DEF Stages
  <2> QED  BY <1>7, <2>3, <2>4 DEF Panic
<1>8. CASE UNCHANGED vars
  <2>1. Spent' = Spent
    BY <1>8 DEF vars, Spent, One
  <2> QED
    BY <1>8, <2>1 DEF vars, IInv, TypeOK, InProgress, GroundsCount, GroundsEvidenced,
                      Closed, Settled, Cost, Unanimous
<1> QED  BY <1>1, <1>2, <1>3, <1>4, <1>5, <1>6, <1>7, <1>8 DEF Next, Step

LEMMA Invariance == Spec => []IInv
BY IInvInit, IInvStep, PTL DEF Spec

-----------------------------------------------------------------------------
(* The theorems *)

\* Every variable keeps its type, the committee its size, and a disposition
\* exists exactly when the cascade is done.
THEOREM TypeCorrect == Spec => []TypeOK
<1>1. IInv => TypeOK
  BY DEF IInv
<1> QED  BY <1>1, Invariance, PTL

\* A finding is closed as benign only by a unanimous committee of which every
\* member had positive evidence, for any size of the committee (consensus.go).
THEOREM CommitteeUnanimous == Spec => []EvidencedUnanimity
<1>1. IInv => EvidencedUnanimity
  BY DEF IInv, EvidencedUnanimity, Closed, GroundsCount, GroundsEvidenced, Unanimous
<1> QED  BY <1>1, Invariance, PTL

\* What the floor settles never reaches a model and never resolves.
THEOREM FloorIsFirst == Spec => []RoutedUntouched
<1>1. IInv => RoutedUntouched
  BY DEF IInv, RoutedUntouched, Settled
<1> QED  BY <1>1, Invariance, PTL

\* A finding costs at most six calls for each member of the committee, and at
\* most six in all if the first run escalates.
THEOREM CostBounded == Spec => []CallsBounded
<1>1. ASSUME IInv PROVE CallsBounded
  <2>1. /\ asked \in Nat /\ Len(votes) \in Nat /\ ConsensusRuns \in Nat
        /\ Len(votes) <= ConsensusRuns + 1
        /\ asked <= 6 * Len(votes) + Spent
        /\ stage # "done" => Len(votes) <= ConsensusRuns
        /\ (disposition = "none") = (stage # "done")
    BY <1>1, CascadeAssumption DEF IInv, TypeOK, Cost, InProgress
  <2>2. Spent \in 0..6 /\ (stage = "done" => Spent = 0)
    BY DEF Spent, One
  <2>3. asked <= 6 * (ConsensusRuns + 1)
    BY <2>1, <2>2
  <2>4. ASSUME disposition # "none", Len(votes) = 1 PROVE asked <= 6
    <3>1. Spent = 0
      BY <2>1, <2>2, <2>4
    <3> QED  BY <2>1, <2>4, <3>1
  <2>5. RoutedUntouched
    BY <1>1 DEF IInv, RoutedUntouched, Settled
  <2> QED  BY <2>3, <2>4, <2>5 DEF CallsBounded
<1> QED  BY <1>1, Invariance, PTL

-----------------------------------------------------------------------------
(* The investigation records.                                              *)

Made(c) == records[c] # NoRecord

Record == [status : {"ok", "absent"}, by : Findings,
           verdict : Verdicts \cup {"unassessed"}, conf : {"low", "high", "none"},
           created : Nat, members : Seq(Findings),
           flag : {"none", "flip", "cooccurring"},
           revote : {"none", "failed", "unanimous", "stands"},
           pass : Nat \X {"first", "deep"}]

\* What RecordsAreWhole says of one record.
WholeRecord(r, c) ==
    /\ r.verdict \in Verdicts <=> r.status = "ok"
    /\ r.flag # "none" => r.status = "ok"
    /\ IsInjective(r.members) /\ Len(r.members) <= MaxTracked
    /\ \A m \in ToSet(r.members) : CaseOf[m] = c
    /\ r.created <= r.pass[1] /\ r.pass[1] <= scan

RecordsTyped ==
    \A c \in Cases : Made(c) => records[c] \in Record /\ WholeRecord(records[c], c)

ScanTyped ==
    /\ phase \in {"idle", "first", "deep", "revote"}
    /\ scan \in Nat /\ faults \in Nat /\ calls \in Nat /\ calls <= PassBudget
    /\ escalated \subseteq Findings /\ touched \subseteq Cases

QueueTyped ==
    /\ queue \in Seq(escalated) /\ lowConf \in Seq(escalated)
    /\ fresh \subseteq ToSet(lowConf)
    /\ phase \in {"deep", "revote"} => ToSet(queue) \subseteq ToSet(lowConf)

\* A re-vote and its forced pass are of findings with a record.
SelectedMade == \A f \in ToSet(lowConf) : Made(CaseOf[f])

\* A record the pass under way wrote is of a case it touched, and while the
\* first pass runs no record is of the forced one.
PassKnown ==
    \A c \in Cases : Made(c) =>
        /\ phase \in {"first", "deep"} /\ records[c].pass = <<scan, phase>> => c \in touched
        /\ phase = "first" => records[c].pass # <<scan, "deep">>

\* What counts as fresh was written by this scan's forced pass.
FreshIsDeep ==
    /\ phase = "first" => fresh = {}
    /\ phase \in {"deep", "revote"} =>
          \A f \in fresh : records[CaseOf[f]].pass = <<scan, "deep">>

InquestInv ==
    /\ records \in [Cases -> Record \cup {NoRecord}]
    /\ RecordsTyped /\ ScanTyped /\ QueueTyped
    /\ SelectedMade /\ PassKnown /\ FreshIsDeep

-----------------------------------------------------------------------------
(* What a pass writes of a finding. *)

\* A list of members that gained some, or lost its oldest when it is full.
Grows(old, new) ==
    \/ IsPrefix(old, new)
    \/ Len(new) = MaxTracked /\ IsPrefix(Tail(old), new)

LEMMA RecordIsMade ==
    ASSUME NEW r \in Record
    PROVE  r # NoRecord
<1>1. r.status # "missing"
  BY DEF Record
<1> QED  BY <1>1 DEF NoRecord

LEMMA InjectiveTail ==
    ASSUME NEW S, NEW s \in Seq(S), s # <<>>, IsInjective(s)
    PROVE  IsInjective(Tail(s)) /\ Len(Tail(s)) = Len(s) - 1
<1>1. /\ Len(s) \in Nat \ {0} /\ DOMAIN s = 1..Len(s)
      /\ Len(Tail(s)) = Len(s) - 1 /\ DOMAIN Tail(s) = 1..(Len(s) - 1)
      /\ \A i \in 1..(Len(s) - 1) : Tail(s)[i] = s[i + 1] /\ i + 1 \in 1..Len(s)
  OBVIOUS
<1>2. ASSUME NEW i \in 1..(Len(s) - 1), NEW j \in 1..(Len(s) - 1), Tail(s)[i] = Tail(s)[j]
      PROVE  i = j
  <2>1. s[i + 1] = s[j + 1] /\ i + 1 \in 1..Len(s) /\ j + 1 \in 1..Len(s)
    BY <1>1, <1>2
  <2>2. i + 1 = j + 1
    BY <1>1, <2>1 DEF IsInjective
  <2> QED  BY <2>2
<1> QED  BY <1>1, <1>2 DEF IsInjective

LEMMA MembersGrow ==
    ASSUME NEW ids \in Seq(Findings), NEW f \in Findings,
           IsInjective(ids), Len(ids) <= MaxTracked
    PROVE  /\ AddMember(ids, f) \in Seq(Findings)
           /\ IsInjective(AddMember(ids, f)) /\ Len(AddMember(ids, f)) <= MaxTracked
           /\ ToSet(AddMember(ids, f)) \subseteq ToSet(ids) \cup {f}
           /\ Grows(ids, AddMember(ids, f))
<1>0. MaxTracked \in Nat \ {0} /\ Len(ids) \in Nat
  BY InquestAssumption
<1>1. CASE Contains(ids, f)
  <2>1. AddMember(ids, f) = ids
    BY <1>1 DEF AddMember
  <2>2. IsPrefix(ids, ids)
    BY PrefixReflexive
  <2> QED  BY <2>1, <2>2 DEF Grows
<1>2. CASE ~Contains(ids, f)
  <2> DEFINE longer == Append(ids, f)
  <2>1. /\ longer \in Seq(Findings) /\ Len(longer) = Len(ids) + 1 /\ longer # <<>>
    OBVIOUS
  <2>2. f \notin ToSet(ids)
    BY <1>2 DEF Contains, ToSet
  <2>3. IsInjective(longer) /\ ToSet(longer) = ToSet(ids) \cup {f}
    BY <2>2, InjectiveAppend, ToSetOfAppend
  <2>4. IsPrefix(ids, longer)
    <3>1. IsPrefix(ids, ids)
      BY PrefixReflexive
    <3> QED  BY <3>1, PrefixOfAppend
  <2>5. CASE Len(longer) > MaxTracked
    <3>1. AddMember(ids, f) = Tail(longer)
      BY <1>2, <2>5 DEF AddMember
    <3>2. ids # <<>> /\ Len(ids) = MaxTracked
      BY <1>0, <2>1, <2>5
    <3>3. IsInjective(Tail(longer)) /\ Len(Tail(longer)) = MaxTracked
      <4> HIDE DEF longer
      <4>1. IsInjective(Tail(longer)) /\ Len(Tail(longer)) = Len(longer) - 1
        BY <2>1, <2>3, InjectiveTail
      <4> QED  BY <1>0, <2>1, <3>2, <4>1
    <3>4. Tail(longer) \in Seq(Findings) /\ ToSet(Tail(longer)) \subseteq ToSet(longer)
      BY <2>1, HeadAndTail
    <3>5. Tail(ids) \in Seq(Findings) /\ Tail(longer) = Append(Tail(ids), f)
      BY <3>2, HeadTailAppend, HeadTailProperties
    <3>6. IsPrefix(Tail(ids), Tail(longer))
      <4>1. IsPrefix(Tail(ids), Tail(ids))
        BY <3>5, PrefixReflexive
      <4> QED  BY <3>5, <4>1, PrefixOfAppend
    <3> HIDE DEF longer
    <3> QED  BY <1>0, <2>3, <3>1, <3>3, <3>4, <3>6 DEF Grows
  <2>6. CASE ~(Len(longer) > MaxTracked)
    <3>1. AddMember(ids, f) = longer
      BY <1>2, <2>6 DEF AddMember
    <3>2. Len(longer) <= MaxTracked
      BY <1>0, <2>1, <2>6
    <3> HIDE DEF longer
    <3> QED  BY <2>1, <2>3, <2>4, <3>1, <3>2 DEF Grows
  <2> QED  BY <2>5, <2>6
<1> QED  BY <1>1, <1>2

\* A record the pass under way may write of a finding.
PassRecord(f, r) ==
    /\ r \in Record /\ WholeRecord(r, CaseOf[f])
    /\ r.pass = <<scan, phase>> /\ r.revote = "none"
    /\ Made(CaseOf[f]) =>
         /\ r.created = records[CaseOf[f]].created
         /\ Grows(records[CaseOf[f]].members, r.members)
         /\ records[CaseOf[f]].status = "ok" /\ r.status = "ok" =>
              /\ r.flag = "none" <=> records[CaseOf[f]].verdict = r.verdict
              /\ r.flag = "flip" => CaseOf[f] \notin touched

LEMMA MadeOf ==
    ASSUME InquestInv, NEW f \in Findings
    PROVE  /\ CaseOf[f] \in Cases
           /\ Made(CaseOf[f]) => /\ records[CaseOf[f]] \in Record
                                 /\ WholeRecord(records[CaseOf[f]], CaseOf[f])
           /\ (records[CaseOf[f]] = NoRecord) = (~Made(CaseOf[f]))
BY DEF InquestInv, RecordsTyped, Cases, Made

LEMMA DegradedRecord ==
    ASSUME InquestInv, NEW f \in Findings, phase \in {"first", "deep"}
    PROVE  /\ PassRecord(f, Degraded(f))
           /\ Degraded(f).status = "absent"
<1> DEFINE old == records[CaseOf[f]]
           r == Degraded(f)
<1>1. /\ r.status = "absent" /\ r.by = f /\ r.verdict = "unassessed" /\ r.conf = "none"
      /\ r.created = (IF Made(CaseOf[f]) THEN old.created ELSE scan)
      /\ r.members = (IF Made(CaseOf[f]) THEN old.members ELSE <<>>)
      /\ r.flag = "none" /\ r.revote = "none" /\ r.pass = <<scan, phase>>
      /\ r = [status |-> r.status, by |-> r.by, verdict |-> r.verdict, conf |-> r.conf,
              created |-> r.created, members |-> r.members, flag |-> r.flag,
              revote |-> r.revote, pass |-> r.pass]
  BY DEF Degraded, Made
<1> HIDE DEF r
<1>2. scan \in Nat
  BY DEF InquestInv, ScanTyped
<1>3. CASE Made(CaseOf[f])
  <2>1. old \in Record /\ WholeRecord(old, CaseOf[f])
    BY <1>3, MadeOf
  <2>2. /\ old.created \in Nat /\ old.members \in Seq(Findings)
        /\ old.pass[1] \in Nat
    BY <2>1 DEF Record
  <2>3. r.created = old.created /\ r.members = old.members
    BY <1>1, <1>3
  <2> HIDE DEF old
  <2>4. r \in Record
    BY <1>1, <1>2, <2>2, <2>3 DEF Record
  <2>5. WholeRecord(r, CaseOf[f])
    BY <1>1, <1>2, <2>1, <2>2, <2>3 DEF WholeRecord, Verdicts
  <2>6. Grows(old.members, r.members)
    BY <2>2, <2>3, PrefixReflexive DEF Grows
  <2>7. PassRecord(f, r)
    BY <1>1, <2>3, <2>4, <2>5, <2>6 DEF PassRecord, old
  <2> QED  BY <1>1, <2>7 DEF r
<1>4. CASE ~Made(CaseOf[f])
  <2>1. r.created = scan /\ r.members = <<>>
    BY <1>1, <1>4
  <2>2. r \in Record
    <3>1. <<>> \in Seq(Findings)
      OBVIOUS
    <3>2. r.members \in Seq(Findings) /\ r.created \in Nat
      BY <1>2, <2>1, <3>1
    <3>3. /\ r.status \in {"ok", "absent"} /\ r.by \in Findings
          /\ r.verdict \in Verdicts \cup {"unassessed"} /\ r.conf \in {"low", "high", "none"}
          /\ r.pass \in Nat \X {"first", "deep"}
      BY <1>1, <1>2
    <3> QED  BY <1>1, <3>2, <3>3 DEF Record
  <2>3. <<>> \in Seq(Findings) /\ IsInjective(<<>>) /\ Len(<<>>) <= MaxTracked /\ ToSet(<<>>) = {}
    BY InquestAssumption DEF IsInjective, ToSet
  <2>4. WholeRecord(r, CaseOf[f])
    BY <1>1, <1>2, <2>1, <2>3 DEF WholeRecord, Verdicts
  <2>5. PassRecord(f, r)
    BY <1>1, <1>4, <2>2, <2>4 DEF PassRecord
  <2> QED  BY <1>1, <2>5 DEF r
<1> QED  BY <1>3, <1>4

LEMMA TrustedRecord ==
    ASSUME InquestInv, NEW f \in Findings, phase \in {"first", "deep"},
           NEW v \in Verdicts, NEW c \in {"low", "high"}
    PROVE  /\ PassRecord(f, Trusted(f, v, c))
           /\ Trusted(f, v, c).status = "ok"
<1> DEFINE old == records[CaseOf[f]]
           d == Degraded(f)
           r == Trusted(f, v, c)
           w == Calibrated(f, v)
<1>1. d \in Record /\ PassRecord(f, d)
  BY DegradedRecord DEF PassRecord
<1>2. w \in Verdicts /\ CalibratedConf(f, v, c) \in {"low", "high"}
  BY DEF Calibrated, CalibratedConf, Verdicts
<1>3. FlagFor(f, w) \in {"none", "flip", "cooccurring"}
  BY DEF FlagFor
<1>4. d = [status |-> d.status, by |-> d.by, verdict |-> d.verdict, conf |-> d.conf,
           created |-> d.created, members |-> d.members, flag |-> d.flag,
           revote |-> d.revote, pass |-> d.pass]
  BY DEF Degraded
<1>5. /\ r.status = "ok" /\ r.by = d.by /\ r.verdict = w /\ r.conf = CalibratedConf(f, v, c)
      /\ r.created = d.created /\ r.members = AddMember(d.members, f)
      /\ r.flag = FlagFor(f, w) /\ r.revote = d.revote /\ r.pass = d.pass
      /\ r = [status |-> r.status, by |-> r.by, verdict |-> r.verdict, conf |-> r.conf,
              created |-> r.created, members |-> r.members, flag |-> r.flag,
              revote |-> r.revote, pass |-> r.pass]
  <2> HIDE DEF d, w
  <2>1. r = [d EXCEPT !.status = "ok", !.verdict = w, !.conf = CalibratedConf(f, v, c),
                      !.members = AddMember(@, f), !.flag = FlagFor(f, w)]
    BY DEF Trusted, d, w
  <2> HIDE DEF r
  <2> QED  BY <1>4, <2>1
<1> HIDE DEF d, r, w
<1>6. /\ d.members \in Seq(Findings) /\ IsInjective(d.members) /\ Len(d.members) <= MaxTracked
      /\ \A m \in ToSet(d.members) : CaseOf[m] = CaseOf[f]
      /\ d.created <= d.pass[1] /\ d.pass[1] <= scan
  BY <1>1 DEF PassRecord, WholeRecord, Record
<1>7. /\ r.members \in Seq(Findings) /\ IsInjective(r.members) /\ Len(r.members) <= MaxTracked
      /\ \A m \in ToSet(r.members) : CaseOf[m] = CaseOf[f]
      /\ Grows(d.members, r.members)
  BY <1>5, <1>6, MembersGrow
<1>8. r \in Record
  BY <1>1, <1>2, <1>3, <1>5, <1>7 DEF Record
<1>9. WholeRecord(r, CaseOf[f])
  BY <1>2, <1>5, <1>6, <1>7 DEF WholeRecord
<1>10. ASSUME Made(CaseOf[f])
       PROVE  /\ r.created = old.created /\ Grows(old.members, r.members)
              /\ old.status = "ok" =>
                   /\ r.flag = "none" <=> old.verdict = r.verdict
                   /\ r.flag = "flip" => CaseOf[f] \notin touched
  <2>1. d.members = old.members /\ d.created = old.created
    BY <1>10 DEF d, Degraded, Made
  <2>2. old.status = "ok" =>
           r.flag = IF old.verdict = w THEN "none"
                    ELSE IF CaseOf[f] \in touched THEN "cooccurring" ELSE "flip"
    BY <1>5, <1>10 DEF FlagFor, Made
  <2> HIDE DEF old
  <2> QED  BY <1>5, <1>7, <2>1, <2>2
<1>11. d.pass = <<scan, phase>> /\ d.revote = "none"
  BY <1>1 DEF PassRecord
<1>12. PassRecord(f, r)
  BY <1>5, <1>8, <1>9, <1>10, <1>11 DEF PassRecord
<1> QED  BY <1>5, <1>12 DEF r

-----------------------------------------------------------------------------
(* What the steps do. *)

PassWrite(f) ==
    \E r : /\ PassRecord(f, r)
           /\ records' = [records EXCEPT ![CaseOf[f]] = r]
           /\ ForcedPass /\ records[CaseOf[f]].status = "ok" /\ r.status # "ok" => faults' > faults
           /\ fresh' = fresh \/ (ForcedPass /\ fresh' = fresh \cup {f})

\* One finding of a pass, whatever became of it.
PassStep ==
    /\ InPass /\ Advance /\ UNCHANGED <<phase, scanVars, lowConf>>
    /\ calls' \in Nat /\ calls' <= PassBudget /\ faults' \in Nat
    /\ (records' = records /\ fresh' = fresh) \/ PassWrite(Head(queue))

\* One finding of the re-vote.
AttachStep ==
    /\ phase = "revote" /\ queue # <<>> /\ queue' = Tail(queue)
    /\ UNCHANGED <<phase, scanVars, touched, calls, lowConf, fresh>>
    /\ faults' \in Nat
    /\ \/ records' = records
       \/ \E o \in {"failed", "unanimous", "stands"} :
             /\ records' = [records EXCEPT ![CaseOf[Head(queue)]].revote = o]
             /\ o # "failed" => Head(queue) \in fresh

QuietStep ==
    (StartScan \/ Select \/ DeepDone \/ EndScan) /\ records' = records

LEMMA HeadOfPass ==
    ASSUME InquestInv, queue # <<>>
    PROVE  /\ Head(queue) \in escalated /\ Head(queue) \in Findings
           /\ Head(queue) \in ToSet(queue) /\ CaseOf[Head(queue)] \in Cases
           /\ Tail(queue) \in Seq(escalated) /\ ToSet(Tail(queue)) \subseteq ToSet(queue)
<1>1. queue \in Seq(escalated) /\ escalated \subseteq Findings
  BY DEF InquestInv, ScanTyped, QueueTyped
<1> QED  BY <1>1, HeadAndTail DEF Cases

LEMMA WriteKinds ==
    ASSUME NEW f, NEW r, PassRecord(f, r), WriteUnlessForced(f, r), faults \in Nat
    PROVE  /\ faults' \in Nat
           /\ (records' = records /\ fresh' = fresh) \/ PassWrite(f)
<1>1. CASE ForcedPass /\ records[CaseOf[f]].status = "ok" /\ r.status # "ok"
  BY <1>1 DEF WriteUnlessForced
<1>2. CASE ~(ForcedPass /\ records[CaseOf[f]].status = "ok" /\ r.status # "ok")
  <2>1. Write(f, r)
    BY <1>2 DEF WriteUnlessForced
  <2>2. CASE Fault /\ UNCHANGED <<records, fresh>>
    BY <2>2 DEF Fault
  <2>3. CASE /\ records' = [records EXCEPT ![CaseOf[f]] = r]
             /\ fresh' = IF ForcedPass /\ r.status = "ok" THEN fresh \cup {f} ELSE fresh
             /\ UNCHANGED faults
    BY <1>2, <2>3 DEF PassWrite
  <2> QED  BY <2>1, <2>2, <2>3 DEF Write
<1> QED  BY <1>1, <1>2

LEMMA ProcessKinds ==
    ASSUME InquestInv, ProcessOne
    PROVE  PassStep
<1>0. InPass /\ queue # <<>> /\ phase \in {"first", "deep"}
  BY DEF ProcessOne, ReadFails, Skip, NoCall, Call, StepPanics, InPass
<1> DEFINE f == Head(queue)
<1>1. f \in Findings
  BY <1>0, HeadOfPass
<1>2. /\ calls \in Nat /\ calls <= PassBudget /\ faults \in Nat
      /\ PassBudget \in Nat
  BY InquestAssumption DEF InquestInv, ScanTyped, PassBudget
<1>3. PassRecord(f, Degraded(f)) /\ Degraded(f).status = "absent"
  BY <1>0, <1>1, DegradedRecord
<1> HIDE DEF f
<1>4. CASE ReadFails
  BY <1>0, <1>2, <1>4 DEF ReadFails, Fault, PassStep
<1>5. CASE Skip
  BY <1>0, <1>2, <1>5 DEF Skip, PassStep
<1>6. CASE NoCall
  <2>1. WriteUnlessForced(f, Degraded(f)) /\ Advance /\ UNCHANGED <<phase, scanVars, calls, lowConf>>
    BY <1>6 DEF NoCall, f
  <2> QED  BY <1>0, <1>2, <1>3, <2>1, WriteKinds DEF PassStep, f
<1>7. CASE Call
  <2>1. /\ calls' = calls + 1 /\ calls < PassBudget
        /\ Advance /\ UNCHANGED <<phase, scanVars, lowConf>>
    BY <1>7 DEF Call
  <2>2. calls' \in Nat /\ calls' <= PassBudget
    BY <1>2, <2>1
  <2>3. \/ WriteUnlessForced(f, Degraded(f))
        \/ \E v \in Verdicts, c \in {"low", "high"} : WriteUnlessForced(f, Trusted(f, v, c))
    BY <1>7 DEF Call, f
  <2>4. ASSUME NEW v \in Verdicts, NEW c \in {"low", "high"},
               WriteUnlessForced(f, Trusted(f, v, c))
        PROVE  /\ faults' \in Nat
               /\ (records' = records /\ fresh' = fresh) \/ PassWrite(f)
    <3>1. PassRecord(f, Trusted(f, v, c))
      BY <1>0, <1>1, TrustedRecord
    <3> QED  BY <1>2, <2>4, <3>1, WriteKinds
  <2>5. /\ faults' \in Nat
        /\ (records' = records /\ fresh' = fresh) \/ PassWrite(f)
    BY <1>2, <1>3, <2>3, <2>4, WriteKinds
  <2> QED  BY <1>0, <2>1, <2>2, <2>5 DEF PassStep, f
<1>8. CASE StepPanics
  <2>1. /\ faults' = faults + 1 /\ Advance /\ UNCHANGED <<phase, scanVars, lowConf, fresh>>
        /\ calls' \in IF client /\ calls < PassBudget THEN {calls, calls + 1} ELSE {calls}
        /\ records' \in {records, [records EXCEPT ![CaseOf[f]] = Degraded(f)]}
    BY <1>8 DEF StepPanics, Fault, f
  <2>2. calls' \in Nat /\ calls' <= PassBudget
    BY <1>2, <2>1
  <2>3. faults' \in Nat /\ faults' > faults
    BY <1>2, <2>1
  <2>4. records' = records \/ PassWrite(f)
    BY <1>3, <2>1, <2>3 DEF PassWrite
  <2> QED  BY <1>0, <2>1, <2>2, <2>3, <2>4 DEF PassStep, f
<1> QED  BY <1>4, <1>5, <1>6, <1>7, <1>8 DEF ProcessOne

LEMMA RevoteKinds ==
    ASSUME InquestInv, NoRevote \/ Revote
    PROVE  AttachStep
<1>1. faults \in Nat
  BY DEF InquestInv, ScanTyped
<1>2. CASE NoRevote
  BY <1>1, <1>2 DEF NoRevote, Attach, Fault, AttachStep
<1>3. CASE Revote
  <2>1. /\ phase = "revote" /\ queue # <<>> /\ queue' = Tail(queue)
        /\ UNCHANGED <<phase, scanVars, touched, calls, lowConf, fresh>>
        /\ Head(queue) \in fresh
        /\ \E o \in {"unanimous", "stands"} : Attach(Head(queue), o)
    BY <1>3 DEF Revote
  <2>2. PICK o \in {"unanimous", "stands"} : Attach(Head(queue), o)
    BY <2>1
  <2> QED  BY <1>1, <2>1, <2>2 DEF Attach, Fault, AttachStep
<1> QED  BY <1>2, <1>3

LEMMA InquestKinds ==
    ASSUME InquestInv, InquestNext
    PROVE  PassStep \/ AttachStep \/ QuietStep
<1>1. CASE ProcessOne
  BY <1>1, ProcessKinds
<1>2. CASE NoRevote \/ Revote
  BY <1>2, RevoteKinds
<1>3. CASE StartScan \/ Select \/ DeepDone \/ EndScan
  BY <1>3 DEF QuietStep, StartScan, Select, DeepDone, EndScan
<1> QED  BY <1>1, <1>2, <1>3 DEF InquestNext

-----------------------------------------------------------------------------
(* The invariant. *)

LEMMA InquestInvInit == InquestInit => InquestInv
<1> SUFFICES ASSUME InquestInit PROVE InquestInv
  OBVIOUS
<1>1. /\ records = [c \in Cases |-> NoRecord] /\ phase = "idle" /\ scan = 0 /\ escalated = {}
      /\ queue = <<>> /\ touched = {} /\ calls = 0 /\ lowConf = <<>> /\ fresh = {} /\ faults = 0
  BY DEF InquestInit
<1>2. \A c \in Cases : ~Made(c)
  BY <1>1 DEF Made
<1>3. ScanTyped
  BY <1>1, InquestAssumption DEF ScanTyped, PassBudget, ForcedPass
<1>4. ToSet(<<>>) = {} /\ <<>> \in Seq(escalated)
  BY DEF ToSet
<1>5. QueueTyped
  BY <1>1, <1>4 DEF QueueTyped
<1>6. SelectedMade
  BY <1>1, <1>4 DEF SelectedMade
<1>7. RecordsTyped /\ PassKnown /\ FreshIsDeep
  BY <1>1, <1>2 DEF RecordsTyped, PassKnown, FreshIsDeep
<1> QED  BY <1>1, <1>3, <1>5, <1>6, <1>7 DEF InquestInv

\* A record that replaces another, or the first of its case.
LEMMA Replaced ==
    ASSUME InquestInv, NEW c0 \in Cases, NEW r \in Record, records' = [records EXCEPT ![c0] = r]
    PROVE  /\ records' \in [Cases -> Record \cup {NoRecord}]
           /\ records'[c0] = r /\ Made(c0)'
           /\ \A c \in Cases : c # c0 => records'[c] = records[c] /\ Made(c)' = Made(c)
           /\ \A c \in Cases : Made(c) => Made(c)'
<1>1. records \in [Cases -> Record \cup {NoRecord}]
  BY DEF InquestInv
<1>2. /\ records'[c0] = r
      /\ \A c \in Cases : c # c0 => records'[c] = records[c]
  BY <1>1
<1>3. r # NoRecord
  BY RecordIsMade
<1> QED  BY <1>1, <1>2, <1>3 DEF Made

LEMMA PassInv ==
    ASSUME InquestInv, PassStep
    PROVE  InquestInv'
<1>0. PICK f, c0 : f = Head(queue) /\ c0 = CaseOf[f]
  OBVIOUS
<1>1. /\ phase \in {"first", "deep"} /\ queue # <<>> /\ queue' = Tail(queue)
      /\ touched' = touched \cup {c0}
      /\ phase' = phase /\ scan' = scan /\ escalated' = escalated /\ lowConf' = lowConf
      /\ calls' \in Nat /\ calls' <= PassBudget /\ faults' \in Nat
      /\ (records' = records /\ fresh' = fresh) \/ PassWrite(f)
  BY <1>0 DEF PassStep, InPass, Advance, scanVars
<1>2. /\ f \in escalated /\ f \in ToSet(queue) /\ c0 \in Cases
      /\ Tail(queue) \in Seq(escalated) /\ ToSet(Tail(queue)) \subseteq ToSet(queue)
  BY <1>0, <1>1, HeadOfPass
<1>3. ScanTyped'
  <2>1. PassBudget' = PassBudget
    BY <1>1 DEF PassBudget, ForcedPass
  <2> QED  BY <1>1, <1>2, <2>1 DEF InquestInv, ScanTyped
<1>4. fresh' \subseteq fresh \cup (IF ForcedPass THEN {f} ELSE {})
  BY <1>1 DEF PassWrite
<1>5. QueueTyped'
  <2>1. QueueTyped
    BY DEF InquestInv
  <2>2. phase = "deep" => f \in ToSet(lowConf)
    BY <1>2, <2>1 DEF QueueTyped
  <2> QED  BY <1>1, <1>2, <1>4, <2>1, <2>2 DEF QueueTyped, ForcedPass
<1>6. CASE records' = records /\ fresh' = fresh
  <2>1. \A c \in Cases : Made(c)' = Made(c)
    BY <1>6 DEF Made
  <2>2. RecordsTyped'
    BY <1>1, <1>6, <2>1 DEF InquestInv, RecordsTyped, WholeRecord
  <2>3. SelectedMade'
    BY <1>1, <1>6 DEF InquestInv, SelectedMade, Made
  <2>4. PassKnown'
    BY <1>1, <1>6, <2>1 DEF InquestInv, PassKnown
  <2>5. FreshIsDeep'
    BY <1>1, <1>6 DEF InquestInv, FreshIsDeep
  <2> QED  BY <1>3, <1>5, <1>6, <2>2, <2>3, <2>4, <2>5 DEF InquestInv
<1>7. CASE PassWrite(f)
  <2>1. PICK r : /\ PassRecord(f, r)
                 /\ records' = [records EXCEPT ![c0] = r]
                 /\ fresh' = fresh \/ (ForcedPass /\ fresh' = fresh \cup {f})
    BY <1>0, <1>7 DEF PassWrite
  <2>2. r \in Record /\ WholeRecord(r, c0) /\ r.pass = <<scan, phase>>
    BY <1>0, <2>1 DEF PassRecord
  <2>3. /\ records' \in [Cases -> Record \cup {NoRecord}]
        /\ records'[c0] = r /\ Made(c0)'
        /\ \A c \in Cases : c # c0 => records'[c] = records[c] /\ Made(c)' = Made(c)
        /\ \A c \in Cases : Made(c) => Made(c)'
    BY <1>2, <2>1, <2>2, Replaced
  <2>4. RecordsTyped'
    <3>1. ASSUME NEW c \in Cases, Made(c)'
          PROVE  records'[c] \in Record /\ WholeRecord(records'[c], c)
      <4>1. CASE c = c0
        BY <2>2, <2>3, <4>1
      <4>2. CASE c # c0
        BY <2>3, <3>1, <4>2 DEF InquestInv, RecordsTyped
      <4> QED  BY <4>1, <4>2
    <3>2. \A x, c : WholeRecord(x, c) => WholeRecord(x, c)'
      BY <1>1 DEF WholeRecord
    <3> QED  BY <3>1, <3>2 DEF RecordsTyped
  <2>5. SelectedMade'
    <3>1. \A x \in ToSet(lowConf) : CaseOf[x] \in Cases
      BY DEF InquestInv, QueueTyped, ScanTyped, ToSet, Cases
    <3> QED  BY <1>1, <2>3, <3>1 DEF InquestInv, SelectedMade
  <2>6. PassKnown'
    <3>1. phase = "first" => <<scan, phase>> # <<scan, "deep">>
      OBVIOUS
    <3>2. ASSUME NEW c \in Cases, Made(c)'
          PROVE  /\ records'[c].pass = <<scan, phase>> => c \in touched'
                 /\ phase = "first" => records'[c].pass # <<scan, "deep">>
      <4>1. CASE c = c0
        BY <1>1, <2>2, <2>3, <3>1, <4>1
      <4>2. CASE c # c0
        BY <1>1, <2>3, <3>2, <4>2 DEF InquestInv, PassKnown
      <4> QED  BY <4>1, <4>2
    <3> QED  BY <1>1, <3>2 DEF PassKnown
  <2>7. FreshIsDeep'
    <3>1. CASE phase = "first"
      BY <1>1, <2>1, <3>1 DEF InquestInv, FreshIsDeep, ForcedPass
    <3>2. CASE phase = "deep"
      <4>1. ASSUME NEW x \in fresh' PROVE records'[CaseOf[x]].pass = <<scan, "deep">>
        <5>1. CASE CaseOf[x] = c0
          BY <2>2, <2>3, <3>2, <5>1
        <5>2. CASE CaseOf[x] # c0
          <6>1. x \in fresh
            BY <1>0, <1>4, <5>2
          <6>2. x \in Findings
            BY <6>1 DEF InquestInv, QueueTyped, ScanTyped, ToSet
          <6>3. CaseOf[x] \in Cases
            BY <6>2 DEF Cases
          <6> QED  BY <2>3, <3>2, <5>2, <6>1, <6>3 DEF InquestInv, FreshIsDeep
        <5> QED  BY <5>1, <5>2
      <4> QED  BY <1>1, <3>2, <4>1 DEF FreshIsDeep
    <3> QED  BY <1>1, <3>1, <3>2
  <2> QED  BY <1>3, <1>5, <2>3, <2>4, <2>5, <2>6, <2>7 DEF InquestInv
<1> QED  BY <1>1, <1>6, <1>7

\* What a vote adds to a record.
LEMMA Attached ==
    ASSUME InquestInv, NEW c0 \in Cases, Made(c0),
           NEW o \in {"failed", "unanimous", "stands"},
           records' = [records EXCEPT ![c0].revote = o]
    PROVE  /\ records' = [records EXCEPT ![c0] = records'[c0]]
           /\ records'[c0] \in Record
           /\ records'[c0] = [records[c0] EXCEPT !.revote = o]
           /\ records'[c0].revote = o
           /\ \A c : WholeRecord(records[c0], c) => WholeRecord(records'[c0], c)
           /\ records'[c0].pass = records[c0].pass
           /\ records'[c0].status = records[c0].status
           /\ records'[c0].created = records[c0].created
           /\ records'[c0].members = records[c0].members
<1> DEFINE old == records[c0]
           new == [old EXCEPT !.revote = o]
<1>1. records \in [Cases -> Record \cup {NoRecord}] /\ old \in Record
  BY DEF InquestInv, RecordsTyped
<1>2. records' = [records EXCEPT ![c0] = new] /\ records'[c0] = new
  BY <1>1
<1> HIDE DEF old
<1>3. /\ new \in Record /\ new.revote = o
      /\ new.status = old.status /\ new.verdict = old.verdict /\ new.flag = old.flag
      /\ new.members = old.members /\ new.created = old.created /\ new.pass = old.pass
  BY <1>1 DEF Record
<1> HIDE DEF new
<1>4. \A c : WholeRecord(old, c) => WholeRecord(new, c)
  BY <1>3 DEF WholeRecord
<1> QED  BY <1>2, <1>3, <1>4 DEF old, new

LEMMA AttachInv ==
    ASSUME InquestInv, AttachStep
    PROVE  InquestInv'
<1>0. PICK f, c0 : f = Head(queue) /\ c0 = CaseOf[f]
  OBVIOUS
<1>1. /\ phase = "revote" /\ queue # <<>> /\ queue' = Tail(queue)
      /\ phase' = phase /\ scan' = scan /\ escalated' = escalated /\ lowConf' = lowConf
      /\ touched' = touched /\ calls' = calls /\ fresh' = fresh /\ faults' \in Nat
  BY DEF AttachStep, scanVars
<1>2. /\ f \in ToSet(queue) /\ c0 \in Cases
      /\ Tail(queue) \in Seq(escalated) /\ ToSet(Tail(queue)) \subseteq ToSet(queue)
  BY <1>0, <1>1, HeadOfPass
<1>3. Made(c0)
  BY <1>0, <1>1, <1>2 DEF InquestInv, QueueTyped, SelectedMade
<1>4. ScanTyped'
  BY <1>1 DEF InquestInv, ScanTyped, PassBudget, ForcedPass
<1>5. QueueTyped'
  BY <1>1, <1>2 DEF InquestInv, QueueTyped
<1>6. \/ records' = records
      \/ \E o \in {"failed", "unanimous", "stands"} :
             records' = [records EXCEPT ![c0].revote = o]
  BY <1>0 DEF AttachStep
<1>7. CASE records' = records
  <2>1. \A c \in Cases : Made(c)' = Made(c)
    BY <1>7 DEF Made
  <2>2. RecordsTyped' /\ PassKnown'
    BY <1>1, <1>7, <2>1 DEF InquestInv, RecordsTyped, WholeRecord, PassKnown
  <2>3. SelectedMade' /\ FreshIsDeep'
    BY <1>1, <1>7 DEF InquestInv, SelectedMade, Made, FreshIsDeep
  <2> QED  BY <1>4, <1>5, <1>7, <2>2, <2>3 DEF InquestInv
<1>8. ASSUME NEW o \in {"failed", "unanimous", "stands"},
             records' = [records EXCEPT ![c0].revote = o]
      PROVE  InquestInv'
  <2>1. PICK r : r = records'[c0]
    OBVIOUS
  <2>2. /\ records' = [records EXCEPT ![c0] = r] /\ r \in Record
        /\ \A c : WholeRecord(records[c0], c) => WholeRecord(r, c)
        /\ r.pass = records[c0].pass
    <3>1. /\ records' = [records EXCEPT ![c0] = records'[c0]] /\ records'[c0] \in Record
          /\ \A c : WholeRecord(records[c0], c) => WholeRecord(records'[c0], c)
          /\ records'[c0].pass = records[c0].pass
      BY <1>2, <1>3, <1>8, Attached
    <3> QED  BY <2>1, <3>1
  <2>3. /\ records' \in [Cases -> Record \cup {NoRecord}]
        /\ records'[c0] = r /\ Made(c0)'
        /\ \A c \in Cases : c # c0 => records'[c] = records[c] /\ Made(c)' = Made(c)
        /\ \A c \in Cases : Made(c) => Made(c)'
    BY <1>2, <2>2, Replaced
  <2>4. \A c \in Cases : /\ Made(c)' = Made(c)
                         /\ Made(c) => records'[c].pass = records[c].pass
    BY <1>3, <2>2, <2>3 DEF Made
  <2>5. RecordsTyped'
    <3>1. \A c \in Cases : Made(c)' => records'[c] \in Record /\ WholeRecord(records'[c], c)
      BY <1>3, <2>2, <2>3 DEF InquestInv, RecordsTyped
    <3>2. \A x, c : WholeRecord(x, c) => WholeRecord(x, c)'
      BY <1>1 DEF WholeRecord
    <3> QED  BY <3>1, <3>2 DEF RecordsTyped
  <2>6. \A x \in ToSet(lowConf) : CaseOf[x] \in Cases
    BY DEF InquestInv, QueueTyped, ScanTyped, ToSet, Cases
  <2>7. SelectedMade'
    BY <1>1, <2>4, <2>6 DEF InquestInv, SelectedMade
  <2>8. PassKnown'
    BY <1>1, <2>4 DEF InquestInv, PassKnown
  <2>9. FreshIsDeep'
    <3>1. \A x \in fresh : CaseOf[x] \in Cases /\ Made(CaseOf[x])
      BY <2>6 DEF InquestInv, QueueTyped, SelectedMade
    <3> QED  BY <1>1, <2>4, <3>1 DEF InquestInv, FreshIsDeep
  <2> QED  BY <1>4, <1>5, <2>3, <2>5, <2>7, <2>8, <2>9 DEF InquestInv
<1> QED  BY <1>6, <1>7, <1>8

LEMMA Listing ==
    ASSUME NEW S, S \subseteq Findings
    PROVE  ByID(S) \in Seq(S) /\ ToSet(ByID(S)) \subseteq S
<1>1. S \subseteq Nat /\ IsFiniteSet(S)
  BY InquestAssumption, FS_Subset
<1>2. \E s \in [1..Cardinality(S) -> S] : \A i, j \in DOMAIN s : i < j => s[i] < s[j]
  BY <1>1, IncreasingList DEF Increasing
<1>3. ByID(S) \in [1..Cardinality(S) -> S]
  BY <1>2 DEF ByID
<1>4. Cardinality(S) \in Nat
  BY <1>1, FS_CardinalityType
<1>5. ByID(S) \in Seq(S)
  BY <1>3, <1>4, FunctionIsSeq
<1> QED  BY <1>3, <1>5 DEF ToSet

LEMMA ListingOrdered ==
    ASSUME NEW S, S \subseteq Findings, NEW W
    PROVE  Ordered(S, W) \in Seq(S) /\ ToSet(Ordered(S, W)) \subseteq S
<1> DEFINE a == ByID(S \cap W)
           b == ByID(S \ W)
<1>1. /\ a \in Seq(S \cap W) /\ ToSet(a) \subseteq S \cap W
      /\ b \in Seq(S \ W) /\ ToSet(b) \subseteq S \ W
  BY Listing
<1>2. Ordered(S, W) = a \o b
  BY DEF Ordered
<1> HIDE DEF a, b
<1>3. a \in Seq(S) /\ b \in Seq(S)
  BY <1>1
<1>4. a \o b \in Seq(S) /\ ToSet(a \o b) = ToSet(a) \cup ToSet(b)
  BY <1>3, ToSetOfConcat
<1> QED  BY <1>1, <1>2, <1>4

\* Nobody writes: the records and what is known of them stay.
LEMMA QuietRecords ==
    ASSUME InquestInv, records' = records, scan' \in Nat, scan <= scan'
    PROVE  /\ records' \in [Cases -> Record \cup {NoRecord}]
           /\ RecordsTyped'
           /\ \A c : Made(c)' = Made(c)
           /\ \A c \in Cases : Made(c) => /\ records[c].pass[1] \in Nat
                                          /\ records[c].pass[1] <= scan
<1>1. \A c : Made(c)' = Made(c)
  BY DEF Made
<1>2. ASSUME NEW c \in Cases, Made(c)
      PROVE  /\ records[c].pass[1] \in Nat /\ records[c].pass[1] <= scan
             /\ records[c] \in Record /\ WholeRecord(records[c], c)'
  <2>1. records[c] \in Record /\ WholeRecord(records[c], c) /\ scan \in Nat
    BY <1>2 DEF InquestInv, RecordsTyped, ScanTyped
  <2>2. records[c].pass[1] \in Nat /\ records[c].pass[1] <= scan
    BY <2>1 DEF Record, WholeRecord
  <2>3. records[c].pass[1] <= scan'
    BY <2>1, <2>2
  <2> QED  BY <2>1, <2>2, <2>3 DEF WholeRecord
<1> QED  BY <1>1, <1>2 DEF InquestInv, RecordsTyped

LEMMA Beginning ==
    ASSUME NEW S, NEW s \in Seq(S), NEW k \in 0..Len(s)
    PROVE  SubSeq(s, 1, k) \in Seq(S)
<1>1. \A i \in 1..k : s[i] \in S
  OBVIOUS
<1>2. Len(s) \in Nat /\ k \in Int /\ 1 \in Int
  OBVIOUS
<1> QED  BY <1>1, <1>2, SubSeqProperties

LEMMA QuietInv ==
    ASSUME InquestInv, QuietStep
    PROVE  InquestInv'
<1>1. records' = records
  BY DEF QuietStep
<1>2. /\ scan \in Nat /\ calls \in Nat /\ escalated \subseteq Findings
      /\ lowConf \in Seq(escalated) /\ fresh \subseteq ToSet(lowConf)
  BY DEF InquestInv, ScanTyped, QueueTyped
<1>3. PassBudget' \in Nat
  BY InquestAssumption DEF PassBudget
<1>4. CASE StartScan
  <2>1. /\ phase' = "first" /\ scan' = scan + 1 /\ touched' = {} /\ calls' = 0
        /\ lowConf' = <<>> /\ fresh' = {} /\ faults' = faults
        /\ \E W : queue' = Ordered(escalated', W)
        /\ escalated' \subseteq Findings
    BY <1>4 DEF StartScan, Begin
  <2>2. queue' \in Seq(escalated') /\ ToSet(queue') \subseteq escalated'
    BY <2>1, ListingOrdered
  <2>3. ToSet(<<>>) = {} /\ <<>> \in Seq(escalated')
    BY DEF ToSet
  <2>4. /\ records' \in [Cases -> Record \cup {NoRecord}] /\ RecordsTyped'
        /\ \A c : Made(c)' = Made(c)
        /\ \A c \in Cases : Made(c) => records[c].pass[1] \in Nat /\ records[c].pass[1] <= scan
    BY <1>1, <1>2, <2>1, QuietRecords
  <2>5. ScanTyped'
    BY <1>2, <1>3, <2>1 DEF InquestInv, ScanTyped
  <2>6. QueueTyped' /\ SelectedMade' /\ FreshIsDeep'
    BY <2>1, <2>2, <2>3 DEF QueueTyped, SelectedMade, FreshIsDeep
  <2>7. PassKnown'
    <3>1. ASSUME NEW c \in Cases, Made(c)
          PROVE  records[c].pass # <<scan + 1, "first">> /\ records[c].pass # <<scan + 1, "deep">>
      <4>1. records[c].pass[1] # scan + 1
        BY <1>2, <2>4, <3>1
      <4> QED  BY <4>1
    <3> QED  BY <1>1, <2>1, <2>4, <3>1 DEF PassKnown
  <2> QED  BY <2>4, <2>5, <2>6, <2>7 DEF InquestInv
<1>5. CASE ~StartScan
  <2>1. scan' = scan /\ escalated' = escalated /\ fresh' = fresh
    BY <1>5 DEF QuietStep, Select, DeepDone, EndScan, scanVars
  <2>2. /\ records' \in [Cases -> Record \cup {NoRecord}] /\ RecordsTyped'
        /\ \A c : Made(c)' = Made(c)
    BY <1>1, <1>2, <2>1, QuietRecords
  <2>3. CASE Select
    <3>2. PICK unread \in SUBSET escalated, W \in SUBSET escalated :
               LET low == IF client THEN ByID({f \in escalated \ unread : Shaky(f)}) ELSE <<>>
                   some == SubSeq(low, 1, Min({Len(low), MaxDeepPerScan}))
               IN  /\ IF unread = {} THEN UNCHANGED faults ELSE Fault
                   /\ lowConf' = some
                   /\ Begin(IF some = <<>> THEN "idle" ELSE "deep", Ordered(Range(some), W))
      BY <2>3 DEF Select
    <3>1. phase = "first" /\ faults' \in Nat
      <4>1. phase = "first"
        BY <2>3 DEF Select
      <4>2. faults \in Nat
        BY DEF InquestInv, ScanTyped
      <4>3. faults' = faults \/ faults' = faults + 1
        BY <3>2 DEF Fault
      <4> QED  BY <4>1, <4>2, <4>3
    <3> DEFINE shaky == {f \in escalated \ unread : Shaky(f)}
               low == IF client THEN ByID(shaky) ELSE <<>>
               some == SubSeq(low, 1, Min({Len(low), MaxDeepPerScan}))
    <3>3. low \in Seq(shaky) /\ ToSet(low) \subseteq shaky
      <4>1. ByID(shaky) \in Seq(shaky) /\ ToSet(ByID(shaky)) \subseteq shaky
        BY <1>2, Listing
      <4>2. <<>> \in Seq(shaky) /\ ToSet(<<>>) = {}
        BY DEF ToSet
      <4> QED  BY <4>1, <4>2
    <3> HIDE DEF shaky, low
    <3>4. some \in Seq(shaky) /\ ToSet(some) \subseteq shaky
      <4>1. Len(low) \in Nat /\ MaxDeepPerScan \in Nat
        BY <3>3, InquestAssumption
      <4>2. Min({Len(low), MaxDeepPerScan}) \in 0..Len(low)
        <5> DEFINE a == Len(low)
        <5>1. a \in Nat
          BY <4>1
        <5> HIDE DEF a
        <5>2. \E x \in {a, MaxDeepPerScan} : \A y \in {a, MaxDeepPerScan} : x <= y
          BY <4>1, <5>1
        <5>3. /\ Min({a, MaxDeepPerScan}) \in {a, MaxDeepPerScan}
              /\ \A y \in {a, MaxDeepPerScan} : Min({a, MaxDeepPerScan}) <= y
          BY <5>2 DEF Min
        <5>4. Min({a, MaxDeepPerScan}) \in 0..a
          BY <4>1, <5>1, <5>3
        <5> QED  BY <5>4 DEF a
      <4>4. some \in Seq(shaky)
        <5> DEFINE k == Min({Len(low), MaxDeepPerScan})
        <5>1. k \in 0..Len(low)
          BY <4>2
        <5> HIDE DEF k
        <5>2. SubSeq(low, 1, k) \in Seq(shaky)
          BY <3>3, <5>1, Beginning
        <5> QED  BY <5>2 DEF k
      <4> HIDE DEF some
      <4> QED  BY <4>4 DEF ToSet
    <3>5. /\ lowConf' = some /\ touched' = {} /\ calls' = 0
          /\ phase' \in {"idle", "deep"} /\ queue' = Ordered(ToSet(some), W)
      BY <3>2 DEF Begin, shaky, low, ToSet, Range
    <3> HIDE DEF some
    <3>6. shaky \subseteq escalated /\ \A f \in shaky : Shaky(f)
      BY DEF shaky
    <3>7. /\ queue' \in Seq(ToSet(some)) /\ ToSet(queue') \subseteq ToSet(some)
      <4>1. ToSet(some) \subseteq Findings
        BY <1>2, <3>4, <3>6
      <4> QED  BY <3>5, <4>1, ListingOrdered
    <3>8. queue' \in Seq(escalated) /\ some \in Seq(escalated)
      BY <3>4, <3>6, <3>7
    <3>9. fresh = {}
      BY <3>1 DEF InquestInv, FreshIsDeep
    <3>10. ScanTyped'
      BY <1>2, <1>3, <2>1, <3>1, <3>5 DEF InquestInv, ScanTyped
    <3>11. QueueTyped' /\ FreshIsDeep'
      BY <2>1, <3>5, <3>7, <3>8, <3>9 DEF QueueTyped, FreshIsDeep
    <3>12. SelectedMade'
      <4>1. \A f \in shaky : Made(CaseOf[f])
        BY <3>6 DEF Shaky, Made, NoRecord
      <4> QED  BY <1>1, <3>4, <3>5, <4>1 DEF SelectedMade, Made
    <3>13. PassKnown'
      BY <1>1, <2>1, <2>2, <3>1, <3>5 DEF InquestInv, PassKnown
    <3> QED  BY <2>2, <3>10, <3>11, <3>12, <3>13 DEF InquestInv
  <2>4. CASE DeepDone
    <3>1. /\ phase = "deep" /\ phase' = "revote" /\ queue' = lowConf /\ touched' = {} /\ calls' = 0
          /\ lowConf' = lowConf /\ faults' = faults
      BY <2>4 DEF DeepDone, Begin
    <3>2. ScanTyped'
      BY <1>2, <1>3, <2>1, <3>1 DEF InquestInv, ScanTyped
    <3>3. QueueTyped' /\ SelectedMade' /\ PassKnown' /\ FreshIsDeep'
      BY <1>1, <1>2, <2>1, <2>2, <3>1
         DEF InquestInv, QueueTyped, SelectedMade, PassKnown, FreshIsDeep, Made
    <3> QED  BY <2>2, <3>2, <3>3 DEF InquestInv
  <2>5. CASE EndScan
    <3>1. /\ phase = "revote" /\ phase' = "idle" /\ queue' = queue /\ touched' = touched
          /\ calls' = calls /\ lowConf' = lowConf /\ faults' = faults
      BY <2>5 DEF EndScan, passVars
    <3>2. ScanTyped'
      BY <1>2, <2>1, <3>1 DEF InquestInv, ScanTyped, PassBudget, ForcedPass
    <3>3. QueueTyped' /\ SelectedMade' /\ PassKnown' /\ FreshIsDeep'
      BY <1>1, <1>2, <2>1, <2>2, <3>1
         DEF InquestInv, QueueTyped, SelectedMade, PassKnown, FreshIsDeep, Made
    <3> QED  BY <2>2, <3>2, <3>3 DEF InquestInv
  <2> QED  BY <1>5, <2>3, <2>4, <2>5 DEF QuietStep
<1> QED  BY <1>4, <1>5

LEMMA InquestInvStep == InquestInv /\ [InquestNext]_inquestVars => InquestInv'
<1> SUFFICES ASSUME InquestInv, [InquestNext]_inquestVars PROVE InquestInv'
  OBVIOUS
<1>1. CASE InquestNext
  BY <1>1, InquestKinds, PassInv, AttachInv, QuietInv
<1>2. CASE UNCHANGED inquestVars
  <2>1. /\ records' = records /\ phase' = phase /\ scan' = scan /\ escalated' = escalated
        /\ queue' = queue /\ touched' = touched /\ calls' = calls /\ lowConf' = lowConf
        /\ fresh' = fresh /\ faults' = faults
    BY <1>2 DEF inquestVars, scanVars, passVars
  <2>2. /\ records' \in [Cases -> Record \cup {NoRecord}] /\ RecordsTyped'
    BY <2>1, QuietRecords DEF InquestInv, ScanTyped
  <2>3. ScanTyped' /\ QueueTyped' /\ SelectedMade' /\ PassKnown' /\ FreshIsDeep'
    BY <2>1 DEF InquestInv, ScanTyped, QueueTyped, SelectedMade, PassKnown, FreshIsDeep,
                Made, PassBudget, ForcedPass
  <2> QED  BY <2>2, <2>3 DEF InquestInv
<1> QED  BY <1>1, <1>2

LEMMA InquestInvariance == InquestSpec => []InquestInv
BY InquestInvInit, InquestInvStep, PTL DEF InquestSpec

-----------------------------------------------------------------------------
(* The theorems about the records. *)

\* Every record is whole after any number of scans, failures and panics: its
\* members are distinct, of its case and within the cap, a verdict means it is
\* trusted, and no pass exceeds its budget of calls (inquest.go).
THEOREM WholeRecords == InquestSpec => []RecordsAreWhole
<1>1. ASSUME InquestInv PROVE RecordsAreWhole
  <2>1. ASSUME NEW c \in Cases, Made(c)
        PROVE  /\ records[c].status \in {"ok", "absent"}
               /\ WholeRecord(records[c], c)
    BY <1>1, <2>1 DEF InquestInv, RecordsTyped, Record
  <2>2. \A s : Range(s) = ToSet(s)
    BY DEF Range, ToSet
  <2>3. Range(queue) \subseteq escalated /\ Range(lowConf) \subseteq escalated
    BY <1>1, <2>2 DEF InquestInv, QueueTyped, ToSet
  <2>4. calls <= PassBudget /\ fresh \subseteq Range(lowConf)
    BY <1>1, <2>2 DEF InquestInv, ScanTyped, QueueTyped
  <2> QED  BY <2>1, <2>2, <2>3, <2>4 DEF RecordsAreWhole, WholeRecord, Made
<1> QED  BY <1>1, InquestInvariance, PTL

\* The record of a case, once there.
LEMMA OnRecord ==
    ASSUME InquestInv, NEW c \in Cases, records[c] # NoRecord
    PROVE  records[c] \in Record /\ records[c].members \in Seq(Findings)
BY DEF InquestInv, RecordsTyped, Made, Record

\* One step replaces the record of one case, by a pass's or with a vote in it.
LEMMA RecordChange ==
    ASSUME InquestInv, [InquestNext]_inquestVars, NEW c \in Cases, records'[c] # records[c]
    PROVE  \/ /\ phase \in {"first", "deep"}
              /\ \E f \in Findings :
                    /\ c = CaseOf[f]
                    /\ PassRecord(f, records'[c])
                    /\ ForcedPass /\ records[c].status = "ok" /\ records'[c].status # "ok" =>
                          faults' > faults
           \/ /\ phase = "revote" /\ Made(c)
              /\ \E o \in {"failed", "unanimous", "stands"} :
                    /\ records'[c] = [records[c] EXCEPT !.revote = o]
                    /\ records'[c] \in Record /\ records'[c].revote = o
                    /\ \E f \in ToSet(lowConf) :
                          c = CaseOf[f] /\ (o # "failed" => f \in fresh)
<1>0. records' # records
  OBVIOUS
<1>1. InquestNext
  BY <1>0 DEF inquestVars
<1>2. PassStep \/ AttachStep
  BY <1>0, <1>1, InquestKinds DEF QuietStep
<1>3. CASE PassStep
  <2>1. phase \in {"first", "deep"} /\ queue # <<>> /\ PassWrite(Head(queue))
    BY <1>0, <1>3 DEF PassStep, InPass
  <2>2. PICK f : f = Head(queue)
    OBVIOUS
  <2>3. PICK r : /\ PassRecord(f, r)
                 /\ records' = [records EXCEPT ![CaseOf[f]] = r]
                 /\ ForcedPass /\ records[CaseOf[f]].status = "ok" /\ r.status # "ok" =>
                       faults' > faults
    BY <2>1, <2>2 DEF PassWrite
  <2>4. f \in Findings /\ CaseOf[f] \in Cases
    BY <2>1, <2>2, HeadOfPass
  <2>5. c = CaseOf[f] /\ records'[c] = r
    BY <2>3, <2>4 DEF InquestInv
  <2> QED  BY <2>1, <2>3, <2>4, <2>5
<1>4. CASE AttachStep
  <2>1. phase = "revote" /\ queue # <<>>
    BY <1>4 DEF AttachStep
  <2>2. PICK f : f = Head(queue)
    OBVIOUS
  <2>3. PICK o \in {"failed", "unanimous", "stands"} :
             /\ records' = [records EXCEPT ![CaseOf[f]].revote = o]
             /\ o # "failed" => f \in fresh
    <3>1. \E o \in {"failed", "unanimous", "stands"} :
             /\ records' = [records EXCEPT ![CaseOf[Head(queue)]].revote = o]
             /\ o # "failed" => Head(queue) \in fresh
      BY <1>0, <1>4 DEF AttachStep
    <3> QED  BY <2>2, <3>1
  <2>4. CaseOf[f] \in Cases /\ f \in ToSet(lowConf) /\ Made(CaseOf[f])
    BY <2>1, <2>2, HeadOfPass DEF InquestInv, QueueTyped, SelectedMade
  <2>5. c = CaseOf[f]
    BY <2>3, <2>4 DEF InquestInv
  <2>6. Made(c) /\ records' = [records EXCEPT ![c].revote = o]
    BY <2>3, <2>4, <2>5
  <2>7. /\ records'[c] = [records[c] EXCEPT !.revote = o]
        /\ records'[c] \in Record /\ records'[c].revote = o
    BY ONLY InquestInv, c \in Cases, <2>6, Attached
  <2> QED  BY <2>1, <2>3, <2>4, <2>5, <2>6, <2>7
<1> QED  BY <1>2, <1>3, <1>4

\* A case's record is never lost, keeps its creation and, up to the cap, everyone
\* who contributed; only a panic makes a forced pass overwrite a trusted verdict
\* with none (inquest.go, writeRecord and the panic guard).
THEOREM RecordsLast == InquestSpec => RecordHolds
<1> DEFINE Holds(c) ==
             records[c] # NoRecord =>
               LET old == records[c]  new == records'[c] IN
               /\ new # NoRecord
               /\ new.created = old.created
               /\ \/ IsPrefix(old.members, new.members)
                  \/ Len(new.members) = MaxTracked /\ IsPrefix(Tail(old.members), new.members)
               /\ ForcedPass /\ old.status = "ok" /\ new.status # "ok" => faults' > faults
<1>1. ASSUME InquestInv, [InquestNext]_inquestVars, NEW c \in Cases
      PROVE  Holds(c)
  <2> SUFFICES ASSUME records[c] # NoRecord PROVE Holds(c)
    OBVIOUS
  <2>1. records[c] \in Record /\ records[c].members \in Seq(Findings) /\ Made(c)
    BY <1>1, OnRecord DEF Made
  <2>2. IsPrefix(records[c].members, records[c].members)
    BY <2>1, PrefixReflexive
  <2>3. CASE records'[c] = records[c]
    BY <2>2, <2>3
  <2>4. CASE records'[c] # records[c]
    <3>1. CASE \E f \in Findings :
                    /\ c = CaseOf[f]
                    /\ PassRecord(f, records'[c])
                    /\ ForcedPass /\ records[c].status = "ok" /\ records'[c].status # "ok" =>
                          faults' > faults
      <4>1. PICK f \in Findings :
                    /\ c = CaseOf[f]
                    /\ PassRecord(f, records'[c])
                    /\ ForcedPass /\ records[c].status = "ok" /\ records'[c].status # "ok" =>
                          faults' > faults
        BY <3>1
      <4>2. /\ records'[c] \in Record
            /\ records'[c].created = records[c].created
            /\ Grows(records[c].members, records'[c].members)
        BY <2>1, <4>1 DEF PassRecord
      <4>3. records'[c] # NoRecord
        BY <4>2, RecordIsMade
      <4> QED  BY <4>1, <4>2, <4>3 DEF Grows
    <3>2. CASE /\ phase = "revote"
               /\ \E o \in {"failed", "unanimous", "stands"} :
                    /\ records'[c] = [records[c] EXCEPT !.revote = o]
                    /\ records'[c] \in Record
      <4>1. PICK o : records'[c] = [records[c] EXCEPT !.revote = o] /\ records'[c] \in Record
        BY <3>2
      <4>2. /\ records'[c].created = records[c].created
            /\ records'[c].members = records[c].members
        BY <2>1, <4>1 DEF Record
      <4>3. records'[c] # NoRecord
        BY <4>1, RecordIsMade
      <4>4. ~ForcedPass
        BY <3>2 DEF ForcedPass
      <4> QED  BY <2>2, <4>2, <4>3, <4>4
    <3> QED  BY <1>1, <2>4, <3>1, <3>2, RecordChange
  <2> QED  BY <2>3, <2>4
<1>2. InquestInv /\ [InquestNext]_inquestVars => [\A c \in Cases : Holds(c)]_records
  <2> HIDE DEF Holds
  <2> QED  BY <1>1
<1> QED  BY <1>2, InquestInvariance, PTL DEF InquestSpec, RecordHolds

\* A trusted verdict that replaces a different trusted one is flagged, and calls
\* itself a flip only when the other is of an earlier pass (FlipFlag,
\* CoOccurringVerdictFlag).
THEOREM ChangesAreFlagged == InquestSpec => ChangeIsFlagged
<1> DEFINE Flagged(c) ==
             Rewritten(c) =>
               LET old == records[c]  new == records'[c] IN
               old.status = "ok" /\ new.status = "ok" =>
                 /\ new.flag = "none" <=> old.verdict = new.verdict
                 /\ new.flag = "flip" => old.pass # new.pass
<1>1. ASSUME InquestInv, [InquestNext]_inquestVars, NEW c \in Cases
      PROVE  Flagged(c)
  <2> SUFFICES ASSUME Rewritten(c), records[c].status = "ok", records'[c].status = "ok"
               PROVE  /\ records'[c].flag = "none" <=> records[c].verdict = records'[c].verdict
                      /\ records'[c].flag = "flip" => records[c].pass # records'[c].pass
    OBVIOUS
  <2>1. records[c] \in Record /\ Made(c) /\ records'[c] # [records[c] EXCEPT !.revote = records'[c].revote]
    BY <1>1, OnRecord DEF Made, Rewritten
  <2>2. records'[c] # records[c]
    BY <2>1 DEF Record
  <2>3. CASE phase \in {"first", "deep"} /\ \E f \in Findings :
                    c = CaseOf[f] /\ PassRecord(f, records'[c])
    <3>1. PICK f \in Findings : c = CaseOf[f] /\ PassRecord(f, records'[c])
      BY <2>3
    <3>2. /\ records'[c].pass = <<scan, phase>>
          /\ records'[c].flag = "none" <=> records[c].verdict = records'[c].verdict
          /\ records'[c].flag = "flip" => c \notin touched
      BY <2>1, <3>1 DEF PassRecord
    <3>3. records[c].pass = <<scan, phase>> => c \in touched
      BY <1>1, <2>1, <2>3 DEF InquestInv, PassKnown
    <3> QED  BY <3>2, <3>3
  <2>4. CASE \E o : /\ records'[c] = [records[c] EXCEPT !.revote = o]
                    /\ records'[c].revote = o
    BY <2>1, <2>4
  <2> QED  BY <1>1, <2>2, <2>3, <2>4, RecordChange
<1>2. InquestInv /\ [InquestNext]_inquestVars => [\A c \in Cases : Flagged(c)]_records
  <2> HIDE DEF Flagged
  <2> QED  BY <1>1
<1> QED  BY <1>2, InquestInvariance, PTL DEF InquestSpec, ChangeIsFlagged

\* A vote is attached only to a record that the forced pass of the same scan
\* wrote (pipeline.go: FreshOKIDs; revote.go).
THEOREM VotesRestOnDeepEvidence == InquestSpec => RevotedOnDeepEvidence
<1> DEFINE Rests(c) ==
             records'[c] # records[c] /\ records'[c].revote \in {"unanimous", "stands"} =>
               records[c].pass = <<scan, "deep">>
<1>1. ASSUME InquestInv, [InquestNext]_inquestVars, NEW c \in Cases
      PROVE  Rests(c)
  <2> SUFFICES ASSUME records'[c] # records[c], records'[c].revote \in {"unanimous", "stands"}
               PROVE  records[c].pass = <<scan, "deep">>
    OBVIOUS
  <2>1. \A f : PassRecord(f, records'[c]) => records'[c].revote = "none"
    BY DEF PassRecord
  <2>2. /\ phase = "revote"
        /\ \E f \in ToSet(lowConf) : c = CaseOf[f] /\ f \in fresh
    BY <1>1, <2>1, RecordChange
  <2> QED  BY <1>1, <2>2 DEF InquestInv, FreshIsDeep
<1>2. InquestInv /\ [InquestNext]_inquestVars => [\A c \in Cases : Rests(c)]_records
  <2> HIDE DEF Rests
  <2> QED  BY <1>1
<1> QED  BY <1>2, InquestInvariance, PTL DEF InquestSpec, RevotedOnDeepEvidence
=============================================================================
