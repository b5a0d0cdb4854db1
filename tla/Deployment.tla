----------------------------- MODULE Deployment -----------------------------
(***************************************************************************)
(* The workflows mallcop generates for a deployment repository             *)
(* (cli/deployrepo.go): the hourly scan and the chat runner.  Each job has *)
(* a fresh runner, restores the findings branch into a store of its own    *)
(* and works there; only the scan's push makes anything of it last.  Scan  *)
(* jobs have no concurrency group, so any number may overlap.              *)
(*                                                                         *)
(* A store is its git history, and a commit is known by what it records    *)
(* and by the job that made it.  The steps before the restore (checkout,   *)
(* install, build) are one.  Time is a count of the silences longer than   *)
(* the watchdog's --max-age; a job is far shorter than one.                *)
(***************************************************************************)
EXTENDS Naturals, Sequences, FiniteSets

CONSTANTS
    Scans,          \* jobs of scan.yml
    Chats,          \* jobs of mallcop-investigate.yml, of different sessions
    Operator,       \* who reports a miss, with a clone and a push of their own
    MaxFaults,      \* bound: jobs under which a step or the runner fails
    MaxSilences,    \* bound: spells longer than --max-age without a job
    MaxReports,     \* bound: missed attacks the operator reports
    MaxDecisions    \* bound: decisions an operator takes in one chat

ASSUME DeploymentAssumption ==
    /\ Scans \cap Chats = {} /\ Operator \notin Scans \cup Chats
    /\ MaxFaults \in Nat /\ MaxSilences \in Nat
    /\ MaxReports \in Nat /\ MaxDecisions \in Nat

Jobs == Scans \cup Chats

Commits ==
    [kind : {"root", "published"}, by : Jobs]
    \cup [kind : {"scan"}, by : Scans, ok : BOOLEAN, at : Nat]
    \cup [kind : {"report"}, by : {Operator}, n : Nat]
    \cup [kind : {"decision"}, by : Chats, n : Nat]

Steps == {"queued", "restore", "scan", "gaps", "doctor", "push", "recall",
          "watchdog", "serve", "over", "lost"}

VARIABLES
    branch,     \* the findings branch on the remote; empty when there is none
    step,       \* step[j]: the step job j is at
    store,      \* store[j]: the history of its ./store; empty without a .git
    red,        \* red[j]: a step of it failed
    missed,     \* missed[j]: ghost, the recall gate found a reported miss
    told,       \* told[c]: decisions the chat reported as recorded
    struck,     \* the jobs under which a step or the runner failed
    silences, reports

vars == <<branch, step, store, red, missed, told, silences, reports, struck>>

Init ==
    /\ branch = <<>>
    /\ step = [j \in Jobs |-> "queued"] /\ store = [j \in Jobs |-> <<>>]
    /\ red = [j \in Jobs |-> FALSE] /\ missed = [j \in Scans |-> FALSE]
    /\ told = [c \in Chats |-> 0]
    /\ struck = {} /\ silences = 0 /\ reports = 0

-----------------------------------------------------------------------------
Root(j) == [kind |-> "root", by |-> j]
Published(j) == [kind |-> "published", by |-> j]
ScanRecord(j, ok) == [kind |-> "scan", by |-> j, ok |-> ok, at |-> silences]
Report(n) == [kind |-> "report", by |-> Operator, n |-> n]
Decision(c, n) == [kind |-> "decision", by |-> c, n |-> n]

\* LoadScans: where a history holds its scan records.
LoadScans(history) == {i \in DOMAIN history : history[i].kind = "scan"}

\* Mutant: the oldest record answers for the newest.
HealthyOfOldest(history) ==
    \E i \in LoadScans(history) :
        /\ \A k \in LoadScans(history) : i <= k
        /\ history[i].ok /\ history[i].at = silences

\* evaluateLiveness: the newest record is a success, and recent.
Healthy(history) ==
    \E i \in LoadScans(history) :
        /\ \A k \in LoadScans(history) : k <= i
        /\ history[i].ok /\ history[i].at = silences

\* DetectorGaps, anyRecallRed: no record ever clears a reported miss.
RecallRed(history) == \E i \in DOMAIN history : history[i].kind = "report"

\* What git accepts without a force: the branch is an ancestor of the commit.
FastForward(old, new) == Len(old) <= Len(new) /\ SubSeq(new, 1, Len(old)) = old

\* Mutant: a root commit is made whether or not there is a repository.
OpenOrInitAlways(j) == Append(store[j], Root(j))

\* openOrInitStore
OpenOrInit(j) == IF store[j] = <<>> THEN <<Root(j)>> ELSE store[j]

Fault(j) ==
    /\ Cardinality(struck \cup {j}) <= MaxFaults
    /\ struck' = struck \cup {j}

Goto(j, s) == step' = [step EXCEPT ![j] = s]

Scanned == UNCHANGED <<missed, told, silences, reports>>

\* A failing step skips every later one but the watchdog (if: always()).
FailStep(j) ==
    /\ Goto(j, "watchdog") /\ red' = [red EXCEPT ![j] = TRUE]
    /\ UNCHANGED branch /\ Scanned

-----------------------------------------------------------------------------
(* The scan job *)

\* Checkout, install, build of the sidecars.
Prepare(s) ==
    /\ step[s] = "queued" /\ UNCHANGED store
    /\ \/ Goto(s, "restore") /\ UNCHANGED <<branch, red, struck>> /\ Scanned
       \/ Fault(s) /\ FailStep(s)

\* git clone || mkdir -p store: no branch and no network look the same.
Restore(s) ==
    /\ step[s] = "restore" /\ Goto(s, "scan")
    /\ \/ /\ branch # <<>> /\ store' = [store EXCEPT ![s] = branch]
          /\ UNCHANGED struck
       \/ branch = <<>> /\ UNCHANGED <<store, struck>>
       \/ branch # <<>> /\ Fault(s) /\ UNCHANGED store
    /\ UNCHANGED <<branch, red, missed, told, silences, reports>>

\* mallcop scan with exit code 0 or 1.
RunScan(s) ==
    /\ step[s] = "scan" /\ Goto(s, "gaps")
    /\ store' = [store EXCEPT ![s] = Append(OpenOrInit(s), ScanRecord(s, TRUE))]
    /\ UNCHANGED <<branch, red, struck>> /\ Scanned

\* Exit code 2: before the store is opened; before the pipeline runs, or when
\* the record cannot be appended; with the failure recorded; or after a scan
\* that recorded its success (the read for Discord).
ScanFails(s) ==
    /\ step[s] = "scan" /\ Fault(s) /\ FailStep(s)
    /\ \/ UNCHANGED store
       \/ store' = [store EXCEPT ![s] = OpenOrInit(s)]
       \/ \E ok \in BOOLEAN :
             store' = [store EXCEPT ![s] = Append(OpenOrInit(s), ScanRecord(s, ok))]

\* Publish coverage gaps, then doctor reports: a commit when the file changed.
Publish(s, at, next) ==
    /\ step[s] = at
    /\ \/ /\ Goto(s, next)
          /\ \/ UNCHANGED store
             \/ /\ store[s] # <<>>
                /\ store' = [store EXCEPT ![s] = Append(@, Published(s))]
          /\ UNCHANGED <<branch, red, struck>> /\ Scanned
       \/ store[s] # <<>> /\ Fault(s) /\ FailStep(s) /\ UNCHANGED store

\* Push findings store: HEAD as it is, never forced.
Push(s) ==
    /\ step[s] = "push" /\ store[s] # <<>>
    /\ FastForward(branch, store[s])
    /\ branch' = store[s] /\ Goto(s, "recall")
    /\ UNCHANGED <<store, red, struck>> /\ Scanned

\* Mutant: a failed push is left to the next job.
PushFailsQuietly(s) ==
    /\ step[s] = "push" /\ store[s] # <<>>
    /\ \/ ~FastForward(branch, store[s]) /\ UNCHANGED struck
       \/ FastForward(branch, store[s]) /\ Fault(s)
    /\ Goto(s, "recall") /\ UNCHANGED <<branch, red, store>> /\ Scanned

\* The push is refused because another job's came first or this store did not
\* start from the branch, or the network fails.  Nothing tries it again.
PushFails(s) ==
    /\ step[s] = "push" /\ store[s] # <<>> /\ FailStep(s) /\ UNCHANGED store
    /\ \/ ~FastForward(branch, store[s]) /\ UNCHANGED struck
       \/ FastForward(branch, store[s]) /\ Fault(s)

\* Fail on recall red: mallcop collect --gate.
Recall(s) ==
    /\ step[s] = "recall" /\ Goto(s, "watchdog")
    /\ missed' = [missed EXCEPT ![s] = RecallRed(store[s])]
    /\ red' = [red EXCEPT ![s] = @ \/ RecallRed(store[s])]
    /\ UNCHANGED <<branch, store, told, silences, reports, struck>>

\* mallcop status --gate, on the job's own store.
Watchdog(s) ==
    /\ step[s] = "watchdog" /\ Goto(s, "over")
    /\ red' = [red EXCEPT ![s] = @ \/ ~Healthy(store[s])]
    /\ UNCHANGED <<branch, store, struck>> /\ Scanned

ScanJob(s) ==
    \/ Prepare(s) \/ Restore(s) \/ RunScan(s) \/ ScanFails(s)
    \/ Publish(s, "gaps", "doctor") \/ Publish(s, "doctor", "push")
    \/ Push(s) \/ PushFails(s) \/ Recall(s) \/ Watchdog(s)

-----------------------------------------------------------------------------
(* The chat job *)

\* The same restore; mallcop investigate then opens the store, or makes one.
StartChat(c) ==
    /\ step[c] = "queued" /\ Goto(c, "serve")
    /\ \/ branch # <<>> /\ store' = [store EXCEPT ![c] = branch] /\ UNCHANGED struck
       \/ branch = <<>> /\ store' = [store EXCEPT ![c] = <<Root(c)>>] /\ UNCHANGED struck
       \/ branch # <<>> /\ Fault(c) /\ store' = [store EXCEPT ![c] = <<Root(c)>>]
    /\ UNCHANGED <<branch, red>> /\ Scanned

\* record_decision, confirmed or at an automatic dial: a directive in the
\* runner's store, and an answer that says it was recorded.
RecordDecision(c) ==
    /\ step[c] = "serve" /\ told[c] < MaxDecisions
    /\ told' = [told EXCEPT ![c] = @ + 1]
    /\ store' = [store EXCEPT ![c] = Append(@, Decision(c, told[c] + 1))]
    /\ UNCHANGED <<branch, step, red, missed, silences, reports, struck>>

\* The serve loop returns, and the workflow has no further step.
EndChat(c) ==
    /\ step[c] = "serve" /\ Goto(c, "over")
    /\ UNCHANGED <<branch, store, red, struck>> /\ Scanned

ChatJob(c) == StartChat(c) \/ RecordDecision(c) \/ EndChat(c)

-----------------------------------------------------------------------------
Running == {j \in Jobs : step[j] \notin {"queued", "over", "lost"}}

\* A runner dies; what it had not pushed is gone with it.
LoseRunner(j) ==
    /\ j \in Running /\ Fault(j) /\ Goto(j, "lost")
    /\ UNCHANGED <<branch, store, red>> /\ Scanned

\* Longer than --max-age passes with no job at all.
Silence ==
    /\ Running = {} /\ silences < MaxSilences /\ silences' = silences + 1
    /\ UNCHANGED <<branch, step, store, red, missed, told, reports, struck>>

\* mallcop feedback report-miss in the operator's clone, and their push.
ReportMiss ==
    /\ branch # <<>> /\ reports < MaxReports /\ reports' = reports + 1
    /\ branch' = Append(branch, Report(reports + 1))
    /\ UNCHANGED <<step, store, red, missed, told, silences, struck>>

Next ==
    \/ \E s \in Scans : ScanJob(s)
    \/ \E c \in Chats : ChatJob(c)
    \/ \E j \in Jobs : LoseRunner(j)
    \/ Silence \/ ReportMiss

Spec == Init /\ [][Next]_vars

-----------------------------------------------------------------------------
(* Properties *)

Elements(history) == {history[i] : i \in DOMAIN history}

\* Types; a history has one root, its first commit (openOrInitStore never
\* starts a second one inside a restored store), and a job that failed a step
\* does nothing more than watch.
TypeOK ==
    /\ step \in [Jobs -> Steps] /\ red \in [Jobs -> BOOLEAN]
    /\ missed \in [Scans -> BOOLEAN]
    /\ told \in [Chats -> 0..MaxDecisions]
    /\ silences \in 0..MaxSilences /\ reports \in 0..MaxReports
    /\ struck \subseteq Jobs
    /\ branch \in Seq(Commits) /\ store \in [Jobs -> Seq(Commits)]
    /\ \A h \in {branch} \cup {store[j] : j \in Jobs} :
          \A i \in DOMAIN h : (h[i].kind = "root") = (i = 1)
    /\ \A j \in Jobs : red[j] => step[j] \in {"watchdog", "over", "lost"}

\* A job that ends green has its successful scan on the branch, and so has a
\* job that failed the recall gate: "the coverage evidence is durably
\* published even on a failing run" (the workflow's comment on that step).
VerdictIsPublished ==
    \A s \in Scans :
        step[s] = "over" /\ (~red[s] \/ missed[s]) =>
            \E c \in Elements(branch) : c.kind = "scan" /\ c.by = s /\ c.ok

\* Something another job or the operator published is not in the store of s.
Overtaken(s) ==
    \E i \in DOMAIN branch :
        branch[i].by # s /\ ~(i \in DOMAIN store[s] /\ store[s][i] = branch[i])

\* A red job is never a false alarm.  If nothing failed under it, either its
\* recall gate found a miss, which some operator did report, or its push was
\* overtaken by what another job published; the watchdog alone, which reads
\* the job's own store, never turns it red, whoever's records it restored.
RedHasReason ==
    \A s \in Scans :
        /\ red[s] /\ s \notin struck => missed[s] \/ Overtaken(s)
        /\ missed[s] => \E c \in Elements(branch) : c.kind = "report"

\* recorddecisiontool.go: a decision in chat is written to the checkout's
\* store and "the serve loop's existing commit path lands it"; the operator is
\* told that it "takes effect on the next scan".
DecisionsLand ==
    \A c \in Chats : step[c] = "over" =>
        \A n \in 1..told[c] : Decision(c, n) \in Elements(branch)
=============================================================================
