------------------------------- MODULE Inquest -------------------------------
(***************************************************************************)
(* core/inquest.RunAll and the low-confidence re-vote of the pipeline:     *)
(* each scan investigates its escalated findings with at most one model    *)
(* call each, writes one record per case, which all findings of the case   *)
(* share and refresh, then gives the shaky ones a deeper, forced pass and  *)
(* puts those that landed to a committee.  Reads and writes of the store   *)
(* fail, the model fails or talks nonsense, a finding's step panics.       *)
(*                                                                         *)
(* Findings are numbered in the order of their IDs.  Confidence is low or  *)
(* high, on either side of the threshold.                                  *)
(***************************************************************************)
EXTENDS Naturals, SequencesExt, FiniteSetsExt

CONSTANTS
    Findings,       \* numbers: the escalated findings there can be
    CaseOf,         \* the case (type, actor, entity) of each
    Operational,    \* those of a known actor at machine cadence, no deviation
    MaxPerScan,     \* metered calls of a first pass
    MaxDeepPerScan, \* findings given a deeper pass
    MaxTracked,     \* maxTrackedFindingIDs
    MaxScans,       \* bound: scans
    MaxFaults       \* bound: reads and writes that fail, panics

ASSUME InquestAssumption ==
    /\ Findings \subseteq Nat /\ IsFiniteSet(Findings) /\ Operational \subseteq Findings
    /\ DOMAIN CaseOf = Findings
    /\ MaxPerScan \in Nat \ {0} /\ MaxDeepPerScan \in Nat \ {0}
    /\ MaxTracked \in Nat \ {0}

Cases == {CaseOf[f] : f \in Findings}
Verdicts == {"benign", "suspicious", "threat"}
NoRecord == [status |-> "missing"]

VARIABLES
    records,    \* investigations/<case>.json
    phase,      \* "idle", "first", "select", "deep", "revote"
    scan,       \* scans started
    escalated,  \* the findings this scan escalated
    client,     \* the scan has an inference client
    queue,      \* findings still to process in this pass, in order
    touched,    \* touchedThisRun: cases an earlier finding of this pass met
    calls,      \* callsUsed of this pass
    lowConf,    \* the findings selected for the deeper pass, by ID
    fresh,      \* FreshOKIDs of the deeper pass
    faults

scanVars == <<scan, escalated, client>>
passVars == <<queue, touched, calls>>
inquestVars == <<records, phase, scanVars, passVars, lowConf, fresh, faults>>

ForcedPass == phase = "deep"
PassBudget == IF ForcedPass THEN MaxDeepPerScan ELSE MaxPerScan

\* The order of a pass: what the operator watches first, then by ID.
ByID(S) == CHOOSE s \in [1..Cardinality(S) -> S] :
               \A i, j \in DOMAIN s : i < j => s[i] < s[j]
Ordered(S, watched) == ByID(S \cap watched) \o ByID(S \ watched)

-----------------------------------------------------------------------------
(* One record.                                                             *)

\* calibrateVerdict: a threat on operational infrastructure is at most
\* suspicious, and nothing but benign is said of it with confidence.
Calibrated(f, v) == IF f \in Operational /\ v = "threat" THEN "suspicious" ELSE v
CalibratedConf(f, v, c) == IF f \in Operational /\ v # "benign" THEN "low" ELSE c

\* appendUniqueFindingID: a set kept in order, the oldest dropped first.
\* Mutant: the cap is checked before the new member is added.
AddMemberThenSome(ids, f) ==
    IF Contains(ids, f) THEN ids
    ELSE Append(IF Len(ids) > MaxTracked THEN Tail(ids) ELSE ids, f)

AddMember(ids, f) ==
    IF Contains(ids, f) THEN ids
    ELSE LET longer == Append(ids, f)
         IN  IF Len(longer) > MaxTracked THEN Tail(longer) ELSE longer

\* The record of a pass that reached no trusted verdict; an existing record's
\* creation and members are carried over.
Degraded(f) ==
    LET old == records[CaseOf[f]] IN
    [status |-> "absent", by |-> f, verdict |-> "unassessed", conf |-> "none",
     created |-> IF old = NoRecord THEN scan ELSE old.created,
     members |-> IF old = NoRecord THEN <<>> ELSE old.members,
     flag |-> "none", revote |-> "none", pass |-> <<scan, phase>>]

\* A differing trusted verdict is flagged: a disagreement when the other finding
\* wrote in this very pass, a flip when it was there before.
\* Mutant: every differing verdict is a flip, the other finding's of this pass too.
AlwaysFlip(f, v) ==
    LET old == records[CaseOf[f]] IN
    IF old = NoRecord \/ old.status # "ok" \/ old.verdict = v THEN "none" ELSE "flip"

FlagFor(f, v) ==
    LET old == records[CaseOf[f]] IN
    IF old = NoRecord \/ old.status # "ok" \/ old.verdict = v THEN "none"
    ELSE IF CaseOf[f] \in touched THEN "cooccurring" ELSE "flip"

\* The record of a trusted pass: narrate's reply, after the contract.
Trusted(f, v, c) ==
    [Degraded(f) EXCEPT
        !.status = "ok",
        !.verdict = Calibrated(f, v),
        !.conf = CalibratedConf(f, v, c),
        !.members = AddMember(@, f),
        !.flag = FlagFor(f, Calibrated(f, v))]

-----------------------------------------------------------------------------
(* One finding: processOne.                                                *)

Advance ==
    /\ queue' = Tail(queue)
    /\ touched' = touched \cup {CaseOf[Head(queue)]}

Fault == faults < MaxFaults /\ faults' = faults + 1

\* writeRecord; a write that fails lands nothing and counts as degraded.
Write(f, r) ==
    \/ /\ records' = [records EXCEPT ![CaseOf[f]] = r]
       /\ fresh' = IF ForcedPass /\ r.status = "ok" THEN fresh \cup {f} ELSE fresh
       /\ UNCHANGED faults
    \/ /\ Fault
       /\ UNCHANGED <<records, fresh>>

\* A forced pass that failed keeps the trusted record it was to replace.
WriteUnlessForced(f, r) ==
    IF ForcedPass /\ records[CaseOf[f]].status = "ok" /\ r.status # "ok"
    THEN UNCHANGED <<records, fresh, faults>>
    ELSE Write(f, r)

InPass == phase \in {"first", "deep"} /\ queue # <<>>

\* The existing record is current, trusted, and this finding contributed to it.
Current(f) ==
    LET old == records[CaseOf[f]] IN
    /\ ~ForcedPass
    /\ old # NoRecord
    /\ old.status = "ok"
    /\ old.by = f \/ Contains(old.members, f)

\* A read that fails: no call and no write in this scan.
ReadFails ==
    /\ InPass
    /\ Fault
    /\ Advance
    /\ UNCHANGED <<records, phase, scanVars, calls, lowConf, fresh>>

Skip ==
    /\ InPass
    /\ Current(Head(queue))
    /\ Advance
    /\ UNCHANGED <<records, phase, scanVars, calls, lowConf, fresh, faults>>

\* No client, or the budget of the pass is spent: the evidence alone.
NoCall ==
    /\ InPass
    /\ ~Current(Head(queue))
    /\ ~client \/ calls >= PassBudget
    /\ WriteUnlessForced(Head(queue), Degraded(Head(queue)))
    /\ Advance
    /\ UNCHANGED <<phase, scanVars, calls, lowConf>>

\* One call: an error, an invalid or fabricated reply, or a verdict.
Call ==
    /\ InPass
    /\ ~Current(Head(queue))
    /\ client /\ calls < PassBudget
    /\ calls' = calls + 1
    /\ \/ WriteUnlessForced(Head(queue), Degraded(Head(queue)))
       \/ \E v \in Verdicts, c \in {"low", "high"} :
            WriteUnlessForced(Head(queue), Trusted(Head(queue), v, c))
    /\ Advance
    /\ UNCHANGED <<phase, scanVars, lowConf>>

\* The panic guard writes a minimal record, whatever Force says.
\* Mutant: the guard forgets what was read of the record before the panic.
PanicForgets ==
    /\ InPass
    /\ ~Current(Head(queue))
    /\ Fault
    /\ UNCHANGED calls
    /\ records' = [records EXCEPT ![CaseOf[Head(queue)]] =
           [Degraded(Head(queue)) EXCEPT !.created = scan, !.members = <<>>]]
    /\ Advance
    /\ UNCHANGED <<phase, scanVars, lowConf, fresh>>

StepPanics ==
    /\ InPass
    /\ ~Current(Head(queue))
    /\ Fault
    /\ calls' \in IF client /\ calls < PassBudget THEN {calls, calls + 1} ELSE {calls}
    /\ records' \in {records, [records EXCEPT ![CaseOf[Head(queue)]] = Degraded(Head(queue))]}
    /\ Advance
    /\ UNCHANGED <<phase, scanVars, lowConf, fresh>>

-----------------------------------------------------------------------------
(* A scan: pipeline.Run steps 5 and 6.                                     *)

Begin(p, q) ==
    /\ phase' = p
    /\ queue' = q
    /\ touched' = {}
    /\ calls' = 0

\* The cascade escalated S; the findings the operator watches go first.
StartScan ==
    /\ phase = "idle" /\ scan < MaxScans
    /\ scan' = scan + 1
    /\ \E S \in SUBSET Findings \ {{}} : \E W \in SUBSET S :
        /\ escalated' = S
        /\ Begin("first", Ordered(S, W))
    /\ client' \in BOOLEAN
    /\ lowConf' = <<>> /\ fresh' = {}
    /\ UNCHANGED <<records, faults>>

\* The findings whose record, as it now stands, is trusted and shaky; some of
\* the reads may fail.  The first MaxDeepPerScan of them by ID.
Shaky(f) == LET r == records[CaseOf[f]] IN
    /\ r.status = "ok"
    /\ r.conf = "low"

Select ==
    /\ phase = "first" /\ queue = <<>>
    /\ \E unread \in SUBSET escalated, W \in SUBSET escalated :
        LET low == IF client THEN ByID({f \in escalated \ unread : Shaky(f)}) ELSE <<>>
            some == SubSeq(low, 1, Min({Len(low), MaxDeepPerScan}))
        IN  /\ IF unread = {} THEN UNCHANGED faults ELSE Fault
            /\ lowConf' = some
            /\ Begin(IF some = <<>> THEN "idle" ELSE "deep", Ordered(Range(some), W))
    /\ UNCHANGED <<records, scanVars, fresh>>

DeepDone ==
    /\ phase = "deep" /\ queue = <<>>
    /\ Begin("revote", lowConf)
    /\ UNCHANGED <<records, scanVars, lowConf, fresh, faults>>

\* AttachRevote: the record is read again and only its outcome is set.  The
\* reads before it, or its write, may fail.
Attach(f, outcome) ==
    \/ /\ records' = [records EXCEPT ![CaseOf[f]].revote = outcome]
       /\ UNCHANGED faults
    \/ Fault /\ UNCHANGED records

\* A deeper pass that did not land: no vote is taken.
NoRevote ==
    /\ phase = "revote" /\ queue # <<>>
    /\ Head(queue) \notin fresh
    /\ Attach(Head(queue), "failed")
    /\ queue' = Tail(queue)
    /\ UNCHANGED <<phase, scanVars, touched, calls, lowConf, fresh>>

\* RunRevoteGate on the deeper evidence: unanimous, or the escalation stands.
\* Mutant: a vote is taken whether or not the deeper pass landed.
RevoteAnyway ==
    /\ phase = "revote" /\ queue # <<>>
    /\ \E outcome \in {"unanimous", "stands"} : Attach(Head(queue), outcome)
    /\ queue' = Tail(queue)
    /\ UNCHANGED <<phase, scanVars, touched, calls, lowConf, fresh>>

Revote ==
    /\ phase = "revote" /\ queue # <<>>
    /\ Head(queue) \in fresh
    /\ \E outcome \in {"unanimous", "stands"} : Attach(Head(queue), outcome)
    /\ queue' = Tail(queue)
    /\ UNCHANGED <<phase, scanVars, touched, calls, lowConf, fresh>>

EndScan ==
    /\ phase = "revote" /\ queue = <<>>
    /\ phase' = "idle"
    /\ UNCHANGED <<records, scanVars, passVars, lowConf, fresh, faults>>

-----------------------------------------------------------------------------
InquestInit ==
    /\ records = [c \in Cases |-> NoRecord]
    /\ phase = "idle" /\ scan = 0 /\ escalated = {} /\ client = FALSE
    /\ queue = <<>> /\ touched = {} /\ calls = 0
    /\ lowConf = <<>> /\ fresh = {} /\ faults = 0

ProcessOne == ReadFails \/ Skip \/ NoCall \/ Call \/ StepPanics

InquestNext ==
    \/ StartScan \/ ProcessOne \/ Select \/ DeepDone
    \/ NoRevote \/ Revote \/ EndScan

InquestSpec == InquestInit /\ [][InquestNext]_inquestVars

-----------------------------------------------------------------------------
(* What the records promise.                                               *)

\* A record is whole: its members are distinct and capped, a verdict that is
\* not trusted says nothing, and no pass spends more calls than its budget.
RecordsAreWhole ==
    /\ \A c \in Cases : records[c] # NoRecord =>
        LET r == records[c] IN
        /\ r.status \in {"ok", "absent"}
        /\ r.verdict \in Verdicts <=> r.status = "ok"
        /\ r.flag # "none" => r.status = "ok"
        /\ IsInjective(r.members) /\ Len(r.members) <= MaxTracked
        /\ \A m \in Range(r.members) : CaseOf[m] = c
        /\ r.created <= r.pass[1] /\ r.pass[1] <= scan
    /\ calls <= PassBudget
    /\ Range(queue) \subseteq escalated /\ Range(lowConf) \subseteq escalated
    /\ fresh \subseteq Range(lowConf)

\* The shared record of a case outlives its findings' passes: it is never lost,
\* keeps the day it was created and, up to the cap, everyone who contributed;
\* and a forced pass that fails without a panic leaves a trusted verdict alone.
RecordHolds ==
    [][\A c \in Cases : records[c] # NoRecord =>
        LET old == records[c]  new == records'[c] IN
        /\ new # NoRecord
        /\ new.created = old.created
        /\ \/ IsPrefix(old.members, new.members)
           \/ Len(new.members) = MaxTracked /\ IsPrefix(Tail(old.members), new.members)
        /\ ForcedPass /\ old.status = "ok" /\ new.status # "ok" => faults' > faults]_records

\* A pass wrote the record, rather than a re-vote added its outcome.
Rewritten(c) ==
    /\ records[c] # NoRecord
    /\ records'[c] # [records[c] EXCEPT !.revote = records'[c].revote]

\* A trusted verdict that takes the place of a different trusted one says so, and
\* calls itself a flip only when the other one is of an earlier pass.
ChangeIsFlagged ==
    [][\A c \in Cases : Rewritten(c) =>
        LET old == records[c]  new == records'[c] IN
        old.status = "ok" /\ new.status = "ok" =>
            /\ new.flag = "none" <=> old.verdict = new.verdict
            /\ new.flag = "flip" => old.pass # new.pass]_records

\* A committee that votes again on a finding votes on what this scan's deeper
\* pass wrote on its case, never on the evidence of the first pass relabeled.
RevotedOnDeepEvidence ==
    [][\A c \in Cases :
        records'[c] # records[c] /\ records'[c].revote \in {"unanimous", "stands"} =>
            records[c].pass = <<scan, "deep">>]_records
==============================================================================
