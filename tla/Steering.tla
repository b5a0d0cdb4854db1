------------------------------ MODULE Steering ------------------------------
(***************************************************************************)
(* What a scan does with the store beside its findings, and what the       *)
(* operator tells it there: the grants stream (a connector whose pull      *)
(* failed is diagnosed into a miss row; a scan that pulls, or `mallcop     *)
(* doctor --confirm`, probes again and appends a resolution), the case set *)
(* cases.json (escalated findings collapse into it at the end of a scan),  *)
(* and the close-case and recurrence-fine directives every scan replays.   *)
(* Scans may overlap, be killed, or fail to write the cases.               *)
(*                                                                         *)
(* One connector; a row's index stands for its commit.  A key is the part  *)
(* of a case that the finding names (its type), and the part that the      *)
(* resolution names (its actor): for the two of one finding they agree.    *)
(***************************************************************************)
EXTENDS Naturals, Sequences, FiniteSets

CONSTANTS
    Scans,          \* slots for scans that may overlap
    Doctor,         \* the process of `mallcop doctor`
    Keys,           \* cases there can be
    MaxRows,        \* bound: grants rows, from which on no scan meets a fault;
                    \* with one more the operator confirms none either
    MaxFindings,    \* bound: findings
    MaxDirectives,  \* bound: directives
    MaxChanges,     \* bound: times the connector changes
    MaxFaults       \* bound: kills and failed writes

ASSUME SteeringAssumption ==
    Doctor \notin Scans /\ IsFiniteSet(Scans) /\ MaxRows \in Nat

\* The connector: well, pulling but with something left to remedy, or failing.
Healths == {"ok", "deficient", "down"}
CaseIds == Keys \X Keys
NoCase == [status |-> "none", count |-> 0]
NoMiss == 0
Procs == Scans \cup {Doctor}

VARIABLES
    connector,
    grants,         \* the grants stream
    call,           \* per process: its RecordConfirmOutcome, and what it probed
    scan,           \* per slot: where it is, its findings, the cases it will write
    findings, resolutions,  \* the streams
    cases,          \* cases.json
    directives,     \* those that name a case
    raced,          \* history: two confirmations overlapped
    overlapped,     \* history: two scans did
    changes, faults

grantVars == <<grants, call, raced>>
streams == <<findings, resolutions>>
caseVars == <<cases, directives>>
steeringVars == <<connector, grantVars, scan, streams, caseVars, overlapped, changes, faults>>

NoCases == [c \in CaseIds |-> NoCase]
NoCall == [pc |-> "none", ref |-> NoMiss, seen |-> "ok"]
Idle == [pc |-> "idle", n |-> 0, key |-> CHOOSE k \in Keys : TRUE,
         merged |-> NoCases]

At(s, pc) == scan[s].pc = pc
Fault == faults < MaxFaults /\ faults' = faults + 1

-----------------------------------------------------------------------------
(* The grants stream.                                                      *)

\* What a diagnosis says of the fault is left out; a resolution's, of its end.
Miss == [kind |-> "miss"]

Claimed(ref) == \E i \in DOMAIN grants : grants[i].kind = "resolution" /\ grants[i].ref = ref
Outstanding == {i \in DOMAIN grants : grants[i].kind = "miss" /\ ~Claimed(i)}

\* pendingGrantMiss: the latest miss nobody resolved.
Pending ==
    IF Outstanding = {} THEN NoMiss
    ELSE CHOOSE i \in Outstanding : \A j \in Outstanding : j <= i

\* Nothing left to remedy; a diagnosis that is merely known is not enough.
\* Mutant: a known diagnosis counts as resolved.
KnownIsResolved(seen) == seen # "down"
Resolved(seen) == seen = "ok"

\* Diagnose, and what it found is compared with the row it is to close.
Probe(p, ref) ==
    /\ call' = [call EXCEPT ![p] =
                   IF Resolved(connector) THEN [pc |-> "check", ref |-> ref, seen |-> connector]
                   ELSE [NoCall EXCEPT !.pc = "remiss"]]
    /\ raced' = (raced \/ \E q \in Procs \ {p} : call[q].pc # "none")

\* RecordConfirmOutcome of a probe that found the fault persists: a fresh miss.
RecordMissAgain(p) ==
    /\ call[p].pc = "remiss"
    /\ grants' = Append(grants, Miss)
    /\ call' = [call EXCEPT ![p] = NoCall]
    /\ UNCHANGED <<connector, scan, streams, caseVars, raced, overlapped, changes, faults>>

\* Of one that found it gone: the stream is read for an earlier resolution ...
CheckResolved(p) ==
    /\ call[p].pc = "check"
    /\ call' = [call EXCEPT ![p] = IF Claimed(@.ref) THEN NoCall ELSE [@ EXCEPT !.pc = "append"]]
    /\ UNCHANGED <<connector, grants, scan, streams, caseVars, raced, overlapped,
                   changes, faults>>

\* ... and, with none there, one is appended.
AppendResolution(p) ==
    /\ call[p].pc = "append"
    /\ grants' = Append(grants, [kind |-> "resolution", ref |-> call[p].ref, seen |-> call[p].seen])
    /\ call' = [call EXCEPT ![p] = NoCall]
    /\ UNCHANGED <<connector, scan, streams, caseVars, raced, overlapped, changes, faults>>

\* mallcop doctor: a row for every diagnosis, the healthy one too.
DoctorDiagnose ==
    /\ call[Doctor].pc = "none"
    /\ Len(grants) < MaxRows
    /\ grants' = Append(grants, Miss)
    /\ UNCHANGED <<connector, call, scan, streams, caseVars, raced, overlapped, changes, faults>>

\* mallcop doctor --confirm: any miss the operator names, resolved or not.
DoctorConfirm ==
    /\ call[Doctor].pc = "none"
    /\ Len(grants) <= MaxRows
    /\ \E ref \in DOMAIN grants : grants[ref].kind = "miss" /\ Probe(Doctor, ref)
    /\ UNCHANGED <<connector, grants, scan, streams, caseVars, overlapped, changes, faults>>

-----------------------------------------------------------------------------
(* A scan.                                                                 *)

StartsScan(s) ==
    /\ At(s, "idle")
    /\ connector = "ok" \/ Len(grants) < MaxRows

\* recordConnectorDiagnosis: the scan fails after it wrote the miss.
PullFails(s) ==
    /\ StartsScan(s)
    /\ connector = "down"
    /\ grants' = Append(grants, Miss)
    /\ UNCHANGED <<connector, call, scan, streams, caseVars, raced, overlapped, changes, faults>>

\* A pull, and confirmResolvedGrants if a miss is outstanding.
Pull(s) ==
    /\ StartsScan(s)
    /\ connector # "down"
    /\ IF Pending = NoMiss THEN UNCHANGED <<call, raced>> ELSE Probe(s, Pending)
    /\ scan' = [scan EXCEPT ![s].pc = "pulled"]
    /\ overlapped' = (overlapped \/ \E t \in Scans \ {s} : ~At(t, "idle"))
    /\ UNCHANGED <<connector, grants, streams, caseVars, changes, faults>>

\* Detection, once the confirmation is through: one finding or none.
Detect(s) ==
    /\ At(s, "pulled")
    /\ call[s].pc = "none"
    /\ \/ /\ scan' = [scan EXCEPT ![s].pc = "collapse"]
          /\ UNCHANGED findings
       \/ /\ Len(findings) < MaxFindings
          /\ \E k \in Keys :
                /\ findings' = Append(findings, k)
                /\ scan' = [scan EXCEPT ![s].pc = "flagged", ![s].n = 1, ![s].key = k]
    /\ UNCHANGED <<connector, grantVars, resolutions, caseVars, overlapped, changes, faults>>

\* The cascade's verdict on it.
Resolve(s) ==
    /\ At(s, "flagged")
    /\ \E e \in BOOLEAN :
          resolutions' = Append(resolutions, [key |-> scan[s].key, escalated |-> e])
    /\ scan' = [scan EXCEPT ![s].pc = "collapse"]
    /\ UNCHANGED <<connector, grantVars, findings, caseVars, overlapped, changes, faults>>

-----------------------------------------------------------------------------
(* Collapsing into cases, and steering them.                               *)

\* cases.Collapse of one occurrence.
\* Mutant: a case seen before keeps its count.
CountNewOnly(set, id) ==
    [set EXCEPT ![id] = IF @.status = "none" THEN [status |-> "open", count |-> 1]
                        ELSE [@ EXCEPT !.status = "recurring"]]

\* Mutant: a new case has no occurrence yet.
CountFromZero(set, id) ==
    [set EXCEPT ![id] = IF @.status = "none" THEN [status |-> "open", count |-> 0]
                        ELSE [status |-> "recurring", count |-> @.count + 1]]

Occurs(set, id) ==
    [set EXCEPT ![id] = IF @.status = "none" THEN [status |-> "open", count |-> 1]
                        ELSE [status |-> "recurring", count |-> @.count + 1]]

StatusOf(op) == IF op = "close-case" THEN "closed" ELSE "aged"
Naming(id) == {i \in DOMAIN directives : directives[i].case = id}
LastWord(id) == directives[CHOOSE i \in Naming(id) : \A j \in Naming(id) : j <= i].op

\* ApplyCaseDirectives: all of them, in the order of the stream.
Steered(set) ==
    [id \in CaseIds |->
        IF Naming(id) = {} \/ set[id].status = "none" THEN set[id]
        ELSE [set[id] EXCEPT !.status = StatusOf(LastWord(id))]]

Latest(s) == s[Len(s)]

\* The last rows of the two streams are taken for this scan's, and paired.
Escalations(s) ==
    IF scan[s].n = 0 \/ ~Latest(resolutions).escalated THEN {}
    ELSE {<<Latest(findings), Latest(resolutions).key>>}

\* The cases with this scan's occurrence, as the operator last steered them.
MergedCases(s) ==
    Steered(IF Escalations(s) = {} THEN cases
            ELSE Occurs(cases, CHOOSE id \in Escalations(s) : TRUE))

\* Mutant: the directives are replayed only when something was escalated.
CollapseIfEscalated(s) ==
    /\ At(s, "collapse")
    /\ scan' = IF Escalations(s) = {} THEN [scan EXCEPT ![s] = Idle]
               ELSE [scan EXCEPT ![s].pc = "write", ![s].merged = MergedCases(s)]
    /\ UNCHANGED <<connector, grantVars, streams, caseVars, overlapped, changes, faults>>

\* collapseCases up to its write; with no case at all there is none.
Collapse(s) ==
    /\ At(s, "collapse")
    /\ scan' = IF Escalations(s) = {} /\ cases = NoCases THEN [scan EXCEPT ![s] = Idle]
               ELSE [scan EXCEPT ![s].pc = "write", ![s].merged = MergedCases(s)]
    /\ UNCHANGED <<connector, grantVars, streams, caseVars, overlapped, changes, faults>>

\* WriteSnapshot; a failure is a warning, and the scan is done.
WriteCases(s) ==
    /\ At(s, "write")
    /\ \/ cases' = scan[s].merged /\ UNCHANGED faults
       \/ UNCHANGED cases /\ Fault
    /\ scan' = [scan EXCEPT ![s] = Idle]
    /\ UNCHANGED <<connector, grantVars, streams, directives, overlapped, changes>>

\* mallcop case close | age: a case cases.json knows.
Steer ==
    /\ Len(directives) < MaxDirectives
    /\ \E id \in CaseIds, op \in {"close-case", "recurrence-fine"} :
          /\ cases[id].status # "none"
          /\ directives' = Append(directives, [op |-> op, case |-> id])
    /\ UNCHANGED <<connector, grantVars, scan, streams, cases, overlapped, changes, faults>>

-----------------------------------------------------------------------------

\* The world: a grant is revoked, expires, is given again.
ConnectorChanges ==
    /\ changes < MaxChanges
    /\ connector' \in Healths \ {connector}
    /\ changes' = changes + 1
    /\ UNCHANGED <<grantVars, scan, streams, caseVars, overlapped, faults>>

Kill(s) ==
    /\ ~At(s, "idle")
    /\ Fault
    /\ scan' = [scan EXCEPT ![s] = Idle]
    /\ call' = [call EXCEPT ![s] = NoCall]
    /\ UNCHANGED <<connector, grants, raced, streams, caseVars, overlapped, changes>>

SteeringInit ==
    /\ connector \in Healths
    /\ grants = <<>>
    /\ call = [p \in Procs |-> NoCall]
    /\ scan = [s \in Scans |-> Idle]
    /\ findings = <<>>
    /\ resolutions = <<>>
    /\ cases = NoCases
    /\ directives = <<>>
    /\ raced = FALSE
    /\ overlapped = FALSE
    /\ changes = 0
    /\ faults = 0

Confirming(p) == RecordMissAgain(p) \/ CheckResolved(p) \/ AppendResolution(p)

Scanning(s) ==
    PullFails(s) \/ Pull(s) \/ Detect(s) \/ Resolve(s) \/ Collapse(s) \/ WriteCases(s)

SteeringNext ==
    \/ \E p \in Procs : Confirming(p)
    \/ \E s \in Scans : Scanning(s) \/ Kill(s)
    \/ DoctorDiagnose \/ DoctorConfirm
    \/ Steer
    \/ ConnectorChanges

\* Scans are scheduled again and again, and a command that runs goes on.
Fairness ==
    /\ \A s \in Scans : WF_steeringVars(Scanning(s) \/ Confirming(s))
    /\ WF_steeringVars(Confirming(Doctor))

SteeringSpec == SteeringInit /\ [][SteeringNext]_steeringVars /\ Fairness

-----------------------------------------------------------------------------
(* Properties.                                                             *)

\* Each variable has the shape the program gives it; a resolution's miss exists.
Row == [kind : {"miss"}] \cup [kind : {"resolution"}, ref : Nat, seen : Healths]

SteeringTypeOK ==
    /\ connector \in Healths
    /\ grants \in Seq(Row)
    /\ \A p \in Procs :
          /\ call[p].pc \in {"none", "check", "append", "remiss"}
          /\ call[p].pc \in {"check", "append"} => call[p].ref \in DOMAIN grants
    /\ \A s \in Scans : scan[s].pc \in {"idle", "pulled", "flagged", "collapse", "write"}
    /\ findings \in Seq(Keys)
    /\ resolutions \in Seq([key : Keys, escalated : BOOLEAN])
    /\ Len(resolutions) <= Len(findings)
    /\ \A id \in CaseIds :
          /\ cases[id].status \in {"none", "open", "recurring", "closed", "aged"}
          /\ (cases[id].status = "none") = (cases[id].count = 0)
    /\ directives \in Seq([op : {"close-case", "recurrence-fine"}, case : CaseIds])

\* Every resolution on the grants stream closes an earlier miss, rests on a probe
\* that found nothing left to remedy, and is the only one for that miss unless
\* two confirmations ran at once (grantwiring.go, doctor.go).
GrantHistoryIsHonest ==
    \A i \in DOMAIN grants : grants[i].kind = "resolution" =>
        /\ grants[i].seen = "ok"
        /\ grants[i].ref < i /\ grants[grants[i].ref].kind = "miss"
        /\ raced \/ \A j \in DOMAIN grants \ {i} :
                        ~(grants[j].kind = "resolution" /\ grants[j].ref = grants[i].ref)

Escalated(k) ==
    Cardinality({i \in DOMAIN resolutions : resolutions[i].key = k /\ resolutions[i].escalated})

\* While scans do not overlap a case counts no escalation twice, and if no scan
\* was cut short it misses none (cases.go, collapse.go).
CountsAreHonest ==
    ~overlapped => \A k \in Keys :
        /\ cases[<<k, k>>].count <= Escalated(k)
        /\ (faults = 0 /\ \A s \in Scans : At(s, "idle")) =>
              cases[<<k, k>>].count = Escalated(k)

\* A scan that overlaps another may have replaced a set that had the case.
Obeyed == \A id \in CaseIds : Naming(id) # {} =>
    \/ cases[id].status = StatusOf(LastWord(id))
    \/ overlapped /\ cases[id] = NoCase

\* Once the connector stays well, every miss gets its resolution and every case
\* the status the operator last gave it, recurring or not, and keeps it.
AllSettles == <>[](connector = "ok") => <>[](Outstanding = {} /\ Obeyed)

=============================================================================
