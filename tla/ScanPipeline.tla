---------------------------- MODULE ScanPipeline ----------------------------
(***************************************************************************)
(* core/pipeline.Run: one scan after another over one store, from pulling  *)
(* the connectors to the scan record, with the connectors' cursors, store  *)
(* writes that fail, a process that dies, an operator who suppresses       *)
(* findings and a deployment that rotates the events stream.               *)
(*                                                                         *)
(* An event is the n-th of its source.  Detection is two families: a rule  *)
(* fires on an alarming event, and a new actor fires once per batch unless *)
(* the baseline knows the actor.  A finding carries no time: the same one  *)
(* reported by two scans has the same identity, and rows say which scan.   *)
(***************************************************************************)
EXTENDS Naturals, SequencesExt

CONSTANTS
    SourceOrder,    \* the connectors, in the order MultiConnector pulls them
    Cursored,       \* those that keep a cursor; the others deliver everything
    Events,         \* [src, n]: the n-th event of a connector
    ActorOf,        \* who did it
    Alarming,       \* the events a rule detector fires on
    MaxScans,       \* bound: scans started
    MaxFaults,      \* bound: pulls, reads, writes that fail and scans killed
    MaxRotations,   \* bound: rotations of the events stream
    MaxDirectives   \* bound: suppressions by the operator

Sources == ToSet(SourceOrder)
Actors == {ActorOf[e] : e \in Events}

ASSUME EventAssumption ==
    /\ SourceOrder \in Seq(Sources)
    /\ \A e \in Events : e.src \in Sources /\ e.n \in Nat \ {0}
    /\ DOMAIN ActorOf = Events
    /\ Alarming \subseteq Events /\ Cursored \subseteq Sources

ASSUME BoundAssumption == {MaxScans, MaxFaults, MaxRotations, MaxDirectives} \subseteq Nat

RuleFinding(e) == [kind |-> "rule", of |-> e]
ActorFinding(a) == [kind |-> "actor", of |-> a]
Findings == {RuleFinding(e) : e \in Alarming} \cup {ActorFinding(a) : a \in Actors}

VARIABLES
    emitted,        \* emitted[s]: events the outside world has produced at s
    cursor,         \* cursor[s]: the cursor file of s
    events,         \* the events stream, by HEAD
    baselines,      \* the baseline stream: the actors known, scan by scan
    findings,       \* the findings stream: [finding, scan]
    snapshot,       \* findings.json: a set of findings
    resolutions,    \* the resolutions stream: [finding, scan]
    scans,          \* the scans stream: [scan, success, stage]
    suppressed,     \* findings the operator's directives suppress
    stage,          \* the running scan's stage, or idle
    scan,           \* how many scans have been started
    pos,            \* the next connector of this scan
    batch,          \* the events pulled, then those left by the dedupe
    known,          \* the baseline of this scan
    found,          \* its findings
    failedAt,       \* the stage that failed; none
    broken,         \* scans that died or could not write their record
    forgotten,      \* actors in the events rotated away, in no baseline
    blind,          \* a read took a failing git for an empty store
    delivered,      \* events a connector handed over
    faults, rotations, directives

streams == <<events, baselines, findings, snapshot, resolutions, scans>>
local == <<pos, batch, known, found, failedAt>>
world == <<emitted, cursor, suppressed, delivered>>
ghosts == <<broken, forgotten, blind>>
budget == <<rotations, directives>>
vars == <<streams, local, world, ghosts, budget, faults, stage, scan>>

None == "none"

Init ==
    /\ emitted = [s \in Sources |-> 0] /\ cursor = [s \in Sources |-> 0]
    /\ events = <<>> /\ baselines = <<>> /\ findings = <<>>
    /\ snapshot = {} /\ resolutions = <<>> /\ scans = <<>>
    /\ suppressed = {} /\ delivered = {}
    /\ stage = "idle" /\ scan = 0 /\ pos = 1 /\ batch = <<>>
    /\ known = {} /\ found = {} /\ failedAt = None
    /\ broken = {} /\ forgotten = {} /\ blind = FALSE
    /\ faults = 0 /\ rotations = 0 /\ directives = 0

-----------------------------------------------------------------------------
Fault == faults < MaxFaults /\ faults' = faults + 1

\* Load answers a HEAD it cannot resolve, whatever the reason, with no records.
BlindRead(next) ==
    Fault /\ stage' = next /\ failedAt' = failedAt /\ blind' = TRUE

Advance(next) == stage' = next /\ faults' = faults /\ failedAt' = failedAt

\* Mutant: an error return without the deferred record.
FailSilently == stage' = "idle" /\ failedAt' = None

\* Any error return: the deferred recordScan runs next.
Fail == stage' = "record" /\ failedAt' = stage

\* An append of rows to a stream, with the outcomes of GitStore: it lands and
\* returns, or it returns an error having landed (unsynced) or not (rejected).
Store(after, before, rows, next) ==
    \/ after = before \o rows /\ Advance(next)
    \/ Fault /\ Fail /\ after \in {before, before \o rows}

StartScan ==
    /\ stage = "idle" /\ scan < MaxScans
    /\ scan' = scan + 1 /\ stage' = "connect"
    /\ UNCHANGED <<streams, local, world, ghosts, budget, faults>>

\* Mutant: the cursor names the next event to deliver, and is read as the last.
WindowInclusive(s) ==
    LET first == IF s \in Cursored THEN cursor[s] ELSE 1
    IN [i \in 1..(emitted[s] + 1 - first) |-> [src |-> s, n |-> first + i - 1]]

\* What connector s has to hand over: what its cursor has not passed, or all.
Window(s) ==
    LET first == IF s \in Cursored THEN cursor[s] + 1 ELSE 1
    IN [i \in 1..(emitted[s] + 1 - first) |-> [src |-> s, n |-> first + i - 1]]

\* MultiConnector.Pull, one connector: ExecConnector.Pull persists the next
\* cursor before it returns its events.
PullSource ==
    /\ stage = "connect" /\ pos <= Len(SourceOrder)
    /\ LET s == SourceOrder[pos]
       IN /\ batch' = batch \o Window(s)
          /\ delivered' = delivered \cup ToSet(Window(s))
          /\ cursor' = IF s \in Cursored THEN [cursor EXCEPT ![s] = emitted[s]]
                                         ELSE cursor
    /\ pos' = pos + 1
    /\ UNCHANGED <<streams, ghosts, budget, emitted, suppressed,
                   known, found, failedAt, faults, stage, scan>>

\* The first connector that fails halts the scan; nothing pulled is kept.
PullFails ==
    /\ stage = "connect" /\ pos <= Len(SourceOrder)
    /\ Fault /\ Fail
    /\ batch' = <<>>
    /\ UNCHANGED <<streams, world, ghosts, budget, pos, known, found, scan>>

PullDone ==
    /\ stage = "connect" /\ pos > Len(SourceOrder)
    /\ Advance("confirm_grants")
    /\ UNCHANGED <<streams, world, ghosts, budget, pos, batch, known, found, scan>>

\* A stage whose own effect is outside this module, or only a read, can fail.
ConfirmGrants ==
    /\ stage = "confirm_grants"
    /\ Advance("baseline") \/ (Fault /\ Fail)
    /\ UNCHANGED <<streams, world, ghosts, budget, pos, batch, known, found, scan>>

\* Mutant: only repetitions within the batch are dropped.
DedupeWithinBatch(pulled, prior) ==
    LET kept[i \in 0..Len(pulled)] ==
            IF i = 0 THEN <<>>
            ELSE IF pulled[i] \in ToSet(kept[i - 1]) THEN kept[i - 1]
            ELSE Append(kept[i - 1], pulled[i])
    IN kept[Len(pulled)]

\* dedupeEvents: drop what prior holds, keep the first of equal events.
Dedupe(pulled, prior) ==
    LET kept[i \in 0..Len(pulled)] ==
            IF i = 0 THEN <<>>
            ELSE IF pulled[i] \in prior \cup ToSet(kept[i - 1]) THEN kept[i - 1]
            ELSE Append(kept[i - 1], pulled[i])
    IN kept[Len(pulled)]

\* Mutant: the first snapshot instead of the last.
FirstBaseline == IF baselines = <<>> THEN {} ELSE Head(baselines)

LastBaseline == IF baselines = <<>> THEN {} ELSE Last(baselines)

\* loadPriorEvents, baseline.Build, Merge of the persisted baseline and the
\* dedupe, all before this scan's events are appended.
DeriveBaseline ==
    /\ stage = "baseline"
    /\ \/ \E prior \in {ToSet(events), {}}, kept \in {LastBaseline, {}} :
             /\ \/ /\ prior = ToSet(events) /\ kept = LastBaseline
                   /\ Advance("store_events") /\ blind' = blind
                \/ (prior = {} \/ kept = {}) /\ BlindRead("store_events")
             /\ known' = {ActorOf[e] : e \in prior} \cup kept
             /\ batch' = Dedupe(batch, prior)
       \/ Fault /\ Fail /\ UNCHANGED <<batch, known, blind>>
    /\ UNCHANGED <<streams, world, broken, forgotten, budget, pos, found, scan>>

\* Mutant: every family is gated on the baseline.
DetectGated ==
    {RuleFinding(e) : e \in {b \in ToSet(batch) \cap Alarming : ActorOf[b] \notin known}} \cup
    {ActorFinding(a) : a \in {ActorOf[e] : e \in ToSet(batch)} \ known}

\* detect.Detect over this scan's batch.
Detect ==
    {RuleFinding(e) : e \in ToSet(batch) \cap Alarming} \cup
    {ActorFinding(a) : a \in {ActorOf[e] : e \in ToSet(batch)} \ known}

StoreEvents ==
    /\ stage = "store_events"
    /\ IF batch = <<>> THEN events' = events /\ Advance("store_baseline_snapshot")
                       ELSE Store(events', events, batch, "store_baseline_snapshot")
    /\ found' = Detect
    /\ UNCHANGED <<baselines, findings, snapshot, resolutions, scans,
                   world, ghosts, budget, pos, batch, known, scan>>

StoreBaseline ==
    /\ stage = "store_baseline_snapshot"
    /\ Store(baselines', baselines, <<known>>, "load_directives")
    /\ UNCHANGED <<events, findings, snapshot, resolutions, scans,
                   world, ghosts, budget, pos, batch, known, found, scan>>

LoadDirectives ==
    /\ stage = "load_directives"
    /\ \/ found' = found \ suppressed /\ Advance("store_findings") /\ blind' = blind
       \/ found' = found /\ BlindRead("store_findings")
       \/ Fault /\ Fail /\ UNCHANGED <<found, blind>>
    /\ UNCHANGED <<streams, world, broken, forgotten, budget, pos, batch, known, scan>>

Rows(set) == SetToSeq({[finding |-> f, scan |-> scan] : f \in set})

StoreFindings ==
    /\ stage = "store_findings"
    /\ IF found = {} THEN findings' = findings /\ Advance("write_findings_snapshot")
                     ELSE Store(findings', findings, Rows(found), "write_findings_snapshot")
    /\ UNCHANGED <<events, baselines, snapshot, resolutions, scans,
                   world, ghosts, budget, pos, batch, known, found, scan>>

\* Written on every scan, the empty set included; without findings the scan is
\* over here.
WriteFindingsSnapshot ==
    /\ stage = "write_findings_snapshot"
    /\ \/ snapshot' = found /\ Advance(IF found = {} THEN "record" ELSE "resolve")
       \/ Fault /\ Fail /\ snapshot' \in {snapshot, found}
    /\ UNCHANGED <<events, baselines, findings, resolutions, scans,
                   world, ghosts, budget, pos, batch, known, found, scan>>

\* resolveAll: the cascade gives every finding a disposition, and never an error.
Resolve ==
    /\ stage = "resolve"
    /\ Advance("store_resolutions")
    /\ UNCHANGED <<streams, world, ghosts, budget, pos, batch, known, found, scan>>

\* What follows, investigation and re-votes, cannot fail the scan.
StoreResolutions ==
    /\ stage = "store_resolutions"
    /\ Store(resolutions', resolutions, Rows(found), "record")
    /\ UNCHANGED <<events, baselines, findings, snapshot, scans,
                   world, ghosts, budget, pos, batch, known, found, scan>>

\* Run's variables are gone with it.
Forget == pos' = 1 /\ batch' = <<>> /\ known' = {} /\ found' = {} /\ failedAt' = None

\* The deferred recordScan; a write error becomes the scan's error.
RecordScan ==
    /\ stage = "record" /\ stage' = "idle"
    /\ LET row == [scan |-> scan, success |-> failedAt = None, stage |-> failedAt]
       IN \/ /\ scans' = Append(scans, row)
             /\ UNCHANGED <<faults, broken>>
          \/ /\ Fault /\ scans' \in {scans, Append(scans, row)}
             /\ broken' = broken \cup {scan}
    /\ Forget
    /\ UNCHANGED <<events, baselines, findings, snapshot, resolutions,
                   world, forgotten, blind, budget, scan>>

-----------------------------------------------------------------------------
\* The process is killed: no deferred function runs.
Crash ==
    /\ stage # "idle" /\ stage' = "idle"
    /\ Fault
    /\ broken' = broken \cup {scan}
    /\ Forget
    /\ UNCHANGED <<streams, world, forgotten, blind, rotations, directives, scan>>

\* Something happens at a source; a scan only looks while it pulls.
Emit(s) ==
    /\ stage \in {"idle", "connect"}
    /\ [src |-> s, n |-> emitted[s] + 1] \in Events
    /\ emitted' = [emitted EXCEPT ![s] = @ + 1]
    /\ UNCHANGED <<streams, local, ghosts, budget, cursor, suppressed, delivered,
                   faults, stage, scan>>

\* mallcop feedback, from another process; a scan only looks at load_directives.
Suppress(f) ==
    /\ stage \in {"idle", "load_directives"}
    /\ f \notin suppressed /\ directives < MaxDirectives
    /\ directives' = directives + 1
    /\ suppressed' = suppressed \cup {f}
    /\ UNCHANGED <<streams, local, ghosts, emitted, cursor, delivered,
                   rotations, faults, stage, scan>>

\* Between scans a deployment archives and truncates events.jsonl.
RotateEvents ==
    /\ stage = "idle" /\ events # <<>> /\ rotations < MaxRotations
    /\ rotations' = rotations + 1
    /\ forgotten' = forgotten \cup
          ({ActorOf[e] : e \in ToSet(events)} \ UNION ToSet(baselines))
    /\ events' = <<>>
    /\ UNCHANGED <<baselines, findings, snapshot, resolutions, scans, local, world,
                   broken, blind, directives, faults, stage, scan>>

Scan ==
    \/ PullSource \/ PullFails \/ PullDone \/ ConfirmGrants \/ DeriveBaseline
    \/ StoreEvents \/ StoreBaseline \/ LoadDirectives \/ StoreFindings
    \/ WriteFindingsSnapshot \/ Resolve \/ StoreResolutions \/ RecordScan

Next ==
    \/ StartScan \/ Scan \/ Crash \/ RotateEvents
    \/ \E s \in Sources : Emit(s)
    \/ \E f \in Findings : Suppress(f)

Spec == Init /\ [][Next]_vars

-----------------------------------------------------------------------------
(* Properties *)

Stages == {"idle", "connect", "confirm_grants", "baseline", "store_events",
           "store_baseline_snapshot", "load_directives", "store_findings",
           "write_findings_snapshot", "resolve", "store_resolutions", "record"}

\* Types; a cursor never passes what its source emitted, and only cursored
\* sources have one.
TypeOK ==
    /\ emitted \in [Sources -> Nat] /\ cursor \in [Sources -> Nat]
    /\ \A s \in Sources : cursor[s] <= emitted[s] /\ (s \notin Cursored => cursor[s] = 0)
    /\ {events, batch} \subseteq Seq(Events) /\ delivered \subseteq Events
    /\ baselines \in Seq(SUBSET Actors) /\ known \subseteq Actors
    /\ findings \in Seq([finding : Findings, scan : 1..scan])
    /\ {snapshot, found, suppressed} \subseteq SUBSET Findings
    /\ resolutions \in Seq([finding : Findings, scan : 1..scan])
    /\ scans \in Seq([scan : 1..scan, success : BOOLEAN, stage : Stages \cup {None}])
    /\ stage \in Stages /\ failedAt \in Stages \cup {None}
    /\ scan \in 0..MaxScans /\ pos \in 1..(Len(SourceOrder) + 1)
    /\ broken \subseteq 1..scan /\ forgotten \subseteq Actors /\ blind \in BOOLEAN
    /\ {faults, rotations, directives} \subseteq Nat

\* The dedupe keeps the events stream free of repetitions, whatever a source
\* delivers again and whatever a failed or killed scan already stored, as long
\* as no scan took the store for empty.
NoRepeatedEvent == blind \/ IsInjective(events)

FindingsOf(k) == {findings[i].finding : i \in {j \in DOMAIN findings : findings[j].scan = k}}
ResolvedIn(k) ==
    {resolutions[i].finding : i \in {j \in DOMAIN resolutions : resolutions[j].scan = k}}

\* No scan resolves what it did not first record, or resolves it twice (Run's
\* "order is load-bearing").
Answered ==
    /\ \A i \in DOMAIN resolutions :
          resolutions[i].finding \in FindingsOf(resolutions[i].scan)
    /\ IsInjective(resolutions)

\* A success answered everything it flagged, and while it is the last scan,
\* findings.json shows exactly that.
SuccessIsComplete ==
    \A i \in DOMAIN scans : scans[i].success =>
        LET k == scans[i].scan
        IN FindingsOf(k) = ResolvedIn(k) /\ (k = scan => snapshot = FindingsOf(k))

\* A scan that is over left one record, unless it was killed or the record
\* itself could not be written.
RecordedOnce ==
    \A k \in 1..scan : k \notin broken /\ (k = scan => stage = "idle") =>
        Cardinality({i \in DOMAIN scans : scans[i].scan = k}) = 1

\* The streams tell one story of every scan, at every point where it may fail
\* or be killed: it left one record, a record of success means that all it
\* flagged was answered, and an answer was never written before its finding.
ScansAreAccounted == Answered /\ SuccessIsComplete /\ RecordedOnce

\* Every delivered alarming event has been flagged, or was suppressed, as long
\* as every scan went through.
NothingMissed ==
    LET allWell == broken = {} /\ \A i \in DOMAIN scans : scans[i].success
    IN stage = "idle" /\ allWell =>
          \A e \in delivered \cap Alarming :
             \/ RuleFinding(e) \in suppressed
             \/ \E k \in 1..scan : RuleFinding(e) \in FindingsOf(k)

TimesFlagged(f) == Cardinality({k \in 1..scan : f \in FindingsOf(k)})

\* A new actor is flagged once for all scans ("investigated exactly once"),
\* unless a rotation dropped the events that made it known before any later
\* scan had put it into a persisted baseline, or a scan took the store for empty.
ActorFlaggedOnce ==
    blind \/ \A a \in Actors \ forgotten : TimesFlagged(ActorFinding(a)) <= 1

\* Run: "Findings are appended to the store FIRST so the durable record of what
\* we flagged exists even if ... the process is killed mid-scan": an alarming
\* event of the events stream, which no later scan looks at again, was flagged.
StoredWasFlagged ==
    stage = "idle" =>
        \A e \in ToSet(events) \cap Alarming :
           RuleFinding(e) \in suppressed \/ TimesFlagged(RuleFinding(e)) > 0
=============================================================================
