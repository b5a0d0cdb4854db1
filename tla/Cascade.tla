------------------------------ MODULE Cascade ------------------------------
(***************************************************************************)
(* core/agent: how one finding gets its disposition.  A run of the cascade *)
(* passes the hard-constraint floor, triage and investigate, and where an  *)
(* investigator wants to resolve on thin work, a panel of three concurrent *)
(* deep tiers.  A run that would resolve is repeated by ConsensusRuns more *)
(* complete runs, and any of them that does not resolve escalates.         *)
(*                                                                         *)
(* A model's reply is any record a parsed reply can be, or fail-safe: the  *)
(* call, the tools or the parsing failed.  What the tools observe is read  *)
(* from the events stream, which no one changes while findings resolve, so *)
(* it belongs to the finding.                                              *)
(***************************************************************************)
EXTENDS Naturals, FiniteSets, Sequences

CONSTANTS
    ConsensusRuns,  \* re-runs of a run that would resolve (3 in a scan)
    Confidences,    \* self-reported confidences a reply may carry
    Citations,      \* evidence citations a reply's reason may hold
    MaxPanics       \* bound: panics in a model client or a tool

ASSUME CascadeAssumption ==
    /\ ConsensusRuns \in Nat /\ MaxPanics \in Nat
    /\ Confidences \subseteq 0..5 /\ Citations \subseteq Nat

Hypotheses == {"benign", "malicious", "incomplete"}

\* routed: a corpus route matches; risky: zero-history access, a high severity
\* or a malicious marker; marked: a role grant or an unjustified bulk export by
\* the actor; toolEmpty: the events search finds nothing; client: there is one.
FindingFacts == [routed : BOOLEAN, risky : BOOLEAN, marked : BOOLEAN,
                 toolEmpty : BOOLEAN, client : BOOLEAN]

Replies == [verdict : {"resolve", "escalate"}, conf : Confidences,
            positive : BOOLEAN, cites : Citations]
FailSafe == [verdict |-> "fail_safe"]

\* What the merge tells apart in a deep tier's result.
Evidenced == [disposition |-> "resolve", positive |-> TRUE]
Unevidenced == [disposition |-> "resolve", positive |-> FALSE]
Strong == [disposition |-> "suspicious", strong |-> TRUE]
Weak == [disposition |-> "suspicious", strong |-> FALSE]
Insufficient == [disposition |-> "insufficient"]
Pending == [disposition |-> "pending"]
DeepResults == {Evidenced, Unevidenced, Strong, Weak, Insufficient}

VARIABLES
    facts,          \* the finding, as the code sees it
    stage,          \* where the current run is
    panel,          \* panel[h]: the deep tier's result, or Pending
    votes,          \* how each run that ended came out
    grounds,        \* ghost: why each run that resolved did so
    asked,          \* tiers and alerts this finding has asked a model for
    disposition,    \* the terminal action; none until there is one
    panics

vars == <<facts, stage, panel, votes, grounds, asked, disposition, panics>>

NoPanel == [h \in Hypotheses |-> Pending]
Stages == {"floor", "triage", "investigate", "panel", "format", "done", "dead"}
Actions == {"proceed", "escalate"}

Init ==
    /\ facts \in FindingFacts
    /\ stage = "floor" /\ panel = NoPanel /\ votes = <<>> /\ grounds = <<>>
    /\ asked = 0 /\ disposition = "none" /\ panics = 0

-----------------------------------------------------------------------------
\* Mutant: the majority of the committee decides.
EndRunByMajority(action) ==
    LET all == Append(votes, action)
        yes == Cardinality({i \in DOMAIN all : all[i] = "proceed"})
        over == Head(all) = "escalate" \/ Len(all) = ConsensusRuns + 1
    IN /\ votes' = all
       /\ stage' = IF over THEN "done" ELSE "floor"
       /\ disposition' = IF ~over THEN "none"
                         ELSE IF 2 * yes > Len(all) THEN "proceed" ELSE "escalate"
       /\ panel' = NoPanel

\* Mutant: the committee is one run larger.
EndRunOneMore(action) ==
    LET all == Append(votes, action)
        over == Head(all) = "escalate" \/ Len(all) = ConsensusRuns + 2
    IN /\ votes' = all
       /\ stage' = IF over THEN "done" ELSE "floor"
       /\ disposition' = IF ~over THEN "none"
                         ELSE IF \A i \in DOMAIN all : all[i] = "proceed"
                              THEN "proceed" ELSE "escalate"
       /\ panel' = NoPanel

\* A run of the cascade ends.  The first decides alone if it escalates, or if
\* there is no committee; otherwise all re-runs vote, and one dissent escalates.
EndRun(action) ==
    LET all == Append(votes, action)
        over == Head(all) = "escalate" \/ Len(all) = ConsensusRuns + 1
    IN /\ votes' = all
       /\ stage' = IF over THEN "done" ELSE "floor"
       /\ disposition' = IF ~over THEN "none"
                         ELSE IF \A i \in DOMAIN all : all[i] = "proceed"
                              THEN "proceed" ELSE "escalate"
       /\ panel' = NoPanel

ResolveOn(ground) == EndRun("proceed") /\ grounds' = Append(grounds, ground)

\* escalate(): on to the formatter, whose outcome is fixed.
Escalate ==
    stage' = "format" /\ UNCHANGED <<panel, votes, grounds, disposition>>

Ask == asked' = asked + 1

\* checkHardConstraints: a route of the corpus matches.
Forced == facts.routed

\* The floor, and the missing client, escalate with no model call; so does a
\* corpus that cannot be parsed, which is read again by every run.
Floor ==
    /\ stage = "floor"
    /\ \/ EndRun("escalate") /\ UNCHANGED grounds
       \/ /\ ~Forced /\ facts.client
          /\ stage' = "triage" /\ UNCHANGED <<panel, votes, grounds, disposition>>
    /\ UNCHANGED <<facts, asked, panics>>

\* cleanResolve
CleanResolve(r) ==
    r.verdict = "resolve" /\ r.positive /\ r.conf >= 4 /\ ~facts.toolEmpty

\* A clean resolve ends the run: in an escalation if the actor granted a role or
\* exported in bulk, and unless the finding is risky, as benign.  Everything
\* else, a failure included, is handed to investigate.
Triage ==
    /\ stage = "triage" /\ Ask
    /\ \E r \in Replies \cup {FailSafe} :
          \/ CleanResolve(r) /\ facts.marked /\ Escalate
          \/ /\ CleanResolve(r) /\ ~facts.marked /\ ~facts.risky
             /\ ResolveOn([tier |-> "triage", positive |-> r.positive])
          \/ /\ ~CleanResolve(r) \/ (facts.risky /\ ~facts.marked)
             /\ stage' = "investigate"
             /\ UNCHANGED <<panel, votes, grounds, disposition>>
    /\ UNCHANGED <<facts, panics>>

Least(a, b) == IF a < b THEN a ELSE b

\* StructuralConfidence in hundredths, of one iteration.
StructuralConfidence(calls, distinct, cites) ==
    4 * Least(calls, 8) + 8 * Least(distinct, 4) + 4 * Least(cites, 5)

ConfidenceFanOutThreshold == 45

\* GuardResolve: the fail-safe checks, then the structural gate.
GuardResolve(r, calls) ==
    IF facts.toolEmpty \/ r.conf \in 1..2 \/ ~r.positive THEN "escalated"
    ELSE IF StructuralConfidence(calls, calls, r.cites) < ConfidenceFanOutThreshold
    THEN "fan_out" ELSE "allowed"

\* The investigate tier calls three tools, or two when the findings search fails.
Investigate ==
    /\ stage = "investigate" /\ Ask
    /\ \E r \in Replies \cup {FailSafe}, calls \in 2..3 :
          \/ r.verdict # "resolve" /\ Escalate
          \/ r.verdict = "resolve" /\ GuardResolve(r, calls) = "escalated" /\ Escalate
          \/ /\ r.verdict = "resolve" /\ GuardResolve(r, calls) = "allowed"
             /\ ResolveOn([tier |-> "investigate", positive |-> r.positive])
          \/ /\ r.verdict = "resolve" /\ GuardResolve(r, calls) = "fan_out"
             /\ stage' = "panel"
             /\ UNCHANGED <<panel, votes, grounds, disposition>>
    /\ UNCHANGED <<facts, panics>>

\* One of the concurrent deep tiers returns.  dispositionOf takes a fail-safe
\* for a weak suspicion.
DeepTier(h) ==
    /\ stage = "panel" /\ panel[h] = Pending /\ Ask
    /\ \E r \in DeepResults : panel' = [panel EXCEPT ![h] = r]
    /\ UNCHANGED <<facts, stage, votes, grounds, disposition, panics>>

Of(p, kinds) == Cardinality({h \in Hypotheses : p[h] \in kinds})

\* Mutant: the evidence of a resolving majority is not looked at.
MergeByCount(p) ==
    LET nResolve == Of(p, {Evidenced, Unevidenced})
        nEscalate == Of(p, {Strong, Weak, Insufficient})
    IN IF Of(p, {Strong}) > 0 /\ Of(p, {Evidenced}) = 0 THEN "escalate"
       ELSE IF nResolve > nEscalate THEN "proceed" ELSE "escalate"

\* Mutant: a three-way split is left to a healer that is not there.
MergeLeavesSplit(p) ==
    LET nResolve == Of(p, {Evidenced, Unevidenced})
        nSusp == Of(p, {Strong, Weak})
        nInsuff == Of(p, {Insufficient})
    IN IF nResolve = 1 /\ nSusp = 1 /\ nInsuff = 1 THEN "heal"
       ELSE IF nResolve > nSusp + nInsuff /\ Of(p, {Evidenced}) > 0
       THEN "proceed" ELSE "escalate"

\* mergeDeepResults, its rules in their order: strong indicators against a
\* benign side with no evidence; the three-way split, which heals; a resolving
\* majority, if it has evidence; and the rest.
MergeDeepResults(p) ==
    LET nResolve == Of(p, {Evidenced, Unevidenced})
        nSusp == Of(p, {Strong, Weak})
        nInsuff == Of(p, {Insufficient})
    IN IF Of(p, {Strong}) > 0 /\ Of(p, {Evidenced}) = 0 THEN "escalate"
       ELSE IF nResolve = 1 /\ nSusp = 1 /\ nInsuff = 1 THEN "escalate"
       ELSE IF nResolve > nSusp + nInsuff
       THEN IF Of(p, {Evidenced}) > 0 THEN "proceed" ELSE "escalate"
       ELSE "escalate"

Merge ==
    /\ stage = "panel" /\ \A h \in Hypotheses : panel[h] # Pending
    /\ \/ /\ MergeDeepResults(panel) = "proceed"
          /\ ResolveOn([tier |-> "panel", positive |-> Of(panel, {Evidenced}) > 0])
       \/ MergeDeepResults(panel) = "escalate" /\ Escalate
    /\ UNCHANGED <<facts, asked, panics>>

\* Mutant: an alert the formatter could not write is tried from the top.
FormatAgain ==
    /\ stage = "format" /\ Ask
    /\ \/ EndRun("escalate")
       \/ stage' = "floor" /\ panel' = NoPanel /\ UNCHANGED <<votes, disposition>>
    /\ UNCHANGED <<facts, grounds, panics>>

\* The formatter: whether its call works or fails, the run escalates.
Format ==
    /\ stage = "format" /\ Ask
    /\ EndRun("escalate")
    /\ UNCHANGED <<facts, grounds, panics>>

-----------------------------------------------------------------------------
\* A tier's client or tools panic.  runOneConsensusVote recovers a panic of its
\* own goroutine and counts it as an escalation; nothing recovers the first run,
\* nor the goroutine of a deep tier, and the process dies.
Panic ==
    /\ panics < MaxPanics /\ panics' = panics + 1
    /\ stage \in {"triage", "investigate", "panel", "format"}
    /\ Ask
    /\ \/ /\ votes # <<>> /\ stage # "panel"
          /\ EndRun("escalate")
       \/ /\ votes = <<>> \/ stage = "panel"
          /\ stage = "panel" => \E h \in Hypotheses : panel[h] = Pending
          /\ stage' = "dead" /\ UNCHANGED <<panel, votes, disposition>>
    /\ UNCHANGED <<facts, grounds>>

Step == Floor \/ Triage \/ Investigate \/ Merge \/ Format \/ \E h \in Hypotheses : DeepTier(h)

Next == Step \/ Panic

\* Every call to a model or a tool returns, so a run goes on.
Spec == Init /\ [][Next]_vars /\ WF_vars(Step)

-----------------------------------------------------------------------------
(* Properties *)

Grounds == [tier : {"triage", "investigate", "panel"}, positive : BOOLEAN]

\* Types; the committee never has more votes than members, and a run in progress
\* means that every run before it resolved or dissented within a committee.
TypeOK ==
    /\ facts \in FindingFacts /\ stage \in Stages
    /\ panel \in [Hypotheses -> DeepResults \cup {Pending}]
    /\ votes \in Seq(Actions) /\ Len(votes) <= ConsensusRuns + 1
    /\ grounds \in Seq(Grounds)
    /\ asked \in Nat /\ panics \in 0..MaxPanics
    /\ disposition \in Actions \cup {"none"}
    /\ (disposition = "none") = (stage # "done")

\* A finding is closed as benign only if every run of the committee resolved it,
\* each on positive evidence: resolution requires positive evidence, and any
\* escalation wins (consensus.go, fanout.go).
EvidencedUnanimity ==
    disposition = "proceed" =>
        /\ Len(grounds) = ConsensusRuns + 1
        /\ \A i \in DOMAIN grounds : grounds[i].positive
        /\ \A i \in DOMAIN votes : votes[i] = "proceed"

\* A finding that a route of the corpus names, or that no model can be asked
\* about, escalates with no model call at all.
RoutedUntouched ==
    facts.routed \/ ~facts.client => asked = 0 /\ disposition # "proceed"

\* The cost of a finding: none if the floor settles it, six calls for a run at
\* most, one run if the first escalates, and never more than the committee's.
CallsBounded ==
    /\ RoutedUntouched
    /\ asked <= 6 * (ConsensusRuns + 1)
    /\ disposition # "none" /\ Len(votes) = 1 /\ votes[1] = "escalate" => asked <= 6

\* Every finding gets a disposition, unless a panic kills the process.
Decided == <>(stage \in {"done", "dead"})
=============================================================================
