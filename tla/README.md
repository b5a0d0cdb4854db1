# A TLA+ verification of mallcop-legion

mallcop scans event sources, detects suspicious events, lets a cascade of models
decide which findings a human must see, and keeps everything in a git
repository. It also writes detectors for itself, and gates what it wrote. This
directory models the parts whose correctness depends on interleavings, failures
and order, checks them with TLC and proves the central safety properties with
TLAPS.

Contents: 1 the system and its components; 2 the modules; 3 the runs; 4
fairness; 5 where code and comments disagree; 6 proofs; 7 what the models leave
out; 8 what could come next.

## 1. The system

    sources --pull--> pipeline.Run --findings--> cascade --resolutions--> (store)
                 |  append/snapshot  |                |                      ^
                 v                   v                v                      |
              cursors            store (git repository) <--- cli feedback, case,
              (.mallcop/)            ^        ^               doctor
                                     |        |
                      inquest records,     chat runner (git mailbox)
                      forced pass, re-vote        |
                                     |        browser
     generated workflows: one runner per scan or chat, one findings branch

     selfext: gaps -> model or agent -> self-gate -> overlay, branch or proposal
     self-gate: guard, structure, exam, benign twins; a customer's sidecars

Everything durable is in one git repository. A scan is a process that runs
`pipeline.Run` once; `mallcop feedback`, `mallcop doctor`, a chat runner and the
deployment's own git commands are other processes that may write the same
repository while it runs. In a generated deployment each job has a repository of
its own, restored from a branch and pushed to it.

### store (`core/store/store.go`): GitStore

- State: HEAD and its commits (JSONL streams, snapshot documents), the real
  index and work tree, cursor files under `.mallcop/cursors`, one mutex per
  repository and process.
- Operations: `Append`, `AppendBatch`, `WriteSnapshot` (write), `Load`,
  `ReadSnapshot`, `CommitTimesFor` (read).
- Interaction: called by every other part; git commands are child processes;
  two processes meet only in git's ref compare-and-swap and in `index.lock`.
- Hard: lost compare-and-swaps and retries, a reconciliation that runs after
  another writer's commit, a failure after the commit has landed, a death that
  leaves `index.lock`, a cursor saved and restored around a reset.
- Correct if: acknowledged records stay, in call order, once; refused calls
  leave nothing; the index does not silently drift from HEAD; cursors are not
  rolled back; calls return.

### pipeline (`core/pipeline/pipeline.go`, `core/connect/multi.go`, `connect/exec/exec.go`): ScanPipeline

- State: nothing but the store, the connectors' cursors and `Run`'s locals.
- Operations: `Run`, in twelve fallible stages, with one deferred scan record.
- Interaction: pulls connectors in order, detects against a baseline derived
  from the stored events and the last persisted baseline, appends events,
  baseline, findings and resolutions in that order.
- Hard: a failure or a kill at any stage, connectors that deliver again, a
  truncated events stream, a suppression that arrives mid-scan.
- Correct if: an event is stored once and looked at; a finding is recorded
  before it is resolved; every scan leaves a record of how it went; a new actor
  is flagged once.

### resolution cascade (`core/agent`): Cascade

- State: per finding, the run in progress, the panel's results, the votes.
- Operations: `ResolveFindingWith`: floor, triage, investigate, fan-out to three
  deep tiers, merge, formatter; `runConsensusGate`: re-runs and tally.
- Interaction: calls the model client and the tools; `resolveAll` runs it for
  several findings at once, and the findings share nothing that is written.
- Hard: three goroutines with failures and panics, a merge with an order of
  rules, a committee whose members are whole cascades.
- Correct if: a finding is closed as benign only on evidence and unanimously, at
  a bounded price, and always gets a disposition.

### investigation records and the low-confidence re-vote (`core/inquest`, `core/agent/revote.go`): Inquest

- State: one record per case key in the store, with the findings it covers, its
  verdict, its narrative status, its flags; a budget of calls for each scan.
- Operations: `RunAll`/`processOne`, normal and `Force`; `RunRevoteGate`, which
  annotates a record and never a disposition.
- Interaction: runs after the resolutions of a scan are stored; a failure here
  does not fail the scan.
- Hard: findings of one case share a record; a degraded attempt replaces a good
  record unless forced; the panic guard does not look at `Force`; a second write
  in one scan erases a flip; the re-vote needs a record that the forced pass
  really renewed.
- Correct if: a record keeps its members and its age, a finding is not paid for
  twice, a changed verdict is flagged, a vote rests on deep evidence.

### chat runner and git mailbox (`core/investigate`): Mailbox, ChatSession

- State: an inbox file (browser writes) and an outbox file (runner writes) on
  one branch, the staged changes of a coalescing `Push`, sequence numbers.
- Operations: `Serve`, `handleQuestion`, `emit`, `Pull`, `Push`, heartbeats,
  `resumeState`.
- Interaction: the browser pushes questions and dispatches runners; the runner
  calls the model and the tools.
- Hard: two writers of one branch, deaths between answer and done, a ticker that
  is not joined, pulls with staged changes, a cursor that could skip.
- Correct if: every question is answered, in order, and reported done once.

### steering: directives, grants, cases (`core/pipeline`, `core/cases`, `cli/cases.go`, `cli/doctor.go`): Steering

- State: the directives and grants streams and `cases.json`.
- Operations: `RecordDiagnosis`, `RecordConfirmOutcome`, `collapseCases`,
  `ApplyCaseDirectives`; the operator's `case` and `doctor` commands.
- Hard: check-then-append and read-merge-write without a lock; a full replay of
  all directives on every scan; scans cut short.
- Correct if: a miss is closed once and by a probe that saw it gone, a case's
  count is what was escalated, and the operator's word sticks.

### self-extension engine (`selfext/engine`, `proposer`, `router`, `cli/selfext.go`): SelfExt

- State: a reject set in a file, sessions (run keys) and worktrees, an overlay,
  branches of the target repository, artifacts.
- Operations: `--propose` and `--run`: the data lane (proposer, gate, router)
  and the code lane (`Engine.Run` in ten steps, teardown deferred).
- Interaction: a model or a coding agent writes, the self-gate judges, the
  autonomy dial decides what takes effect without a human.
- Hard: which effects have happened when a later step fails (the merge precedes
  the artifact), runs that overlap over one file, panics and kills at any step.
- Correct if: what was refused is not paid for again, nothing uncertified takes
  effect, nothing outlives its gap, an agent that only talks is not driven for
  ever.

### self-gate (`core/selfgate`): SelfGate

- State: none of its own; two trees to compare and, in a customer's repository,
  a set of sidecar detectors.
- Operations: `Guard`, the structural stage, `Detect` (run the exam on both
  trees and diff the reports), benign twins; the customer lane's efficacy and
  regression grading.
- Interaction: called by the engine and by CI on a pull request; what it
  certified is merged later, into a trunk that may have moved.
- Hard: a verdict is about one base and one head; several proposals in flight; a
  reference tree that moves under installed sidecars.
- Correct if: the merged trunk never loses a detection, a graded row or a word,
  keeps passing what it passed, and sidecars graded alone hold together.

### the generated workflows (`cli/deployrepo.go`, `cli/scan.go`, `cli/status.go`, `cli/collect.go`): Deployment

- State: a findings branch; per job a runner with a store of its own.
- Operations: the scan job (restore, scan, publish, push, recall gate,
  watchdog) and the chat job.
- Hard: scan jobs have no concurrency group and overlap; a failed clone looks
  like a first run; a runner is lost with what it did not push.
- Correct if: a green job's record is on the branch, and a red job has a reason:
  a failure under it, a miss that was reported, or a push that came second.

### not modelled

| Component | Why |
|---|---|
| detectors (`core/detect`, `detecthost`) | pure functions; two families stand for them in ScanPipeline |
| baseline (`pkg/baseline`) | pure; its known-actor set is a union in ScanPipeline |
| connectors to clouds, GitHub | HTTP and child processes; their contract is in ScanPipeline |
| command line (`cli`, `cmd`) | argument handling around the packages above |
| requests, boxing and the route corpus of `core/agent` | text in, text out; a matching route is a fact of the finding in Cascade |
| inference client, tool runner, tools, config, lint, observe | calls and lookups whose results are inputs of the models |
| contribution back, jail, redaction, GitHub runtime of `selfext` | a sequence of remote calls with its state on GitHub, and process set-up |
| notifiers, record types, corpus | one-shot posts and text |

PROJECT.json lists the same components with their status and, under `hazards`,
the lines where each difficulty bites and the properties that watch it. "Partly"
means that some operation of the part is left out; section 7 says which.

## 2. The modules

| Module | What it is |
|---|---|
| StoreLog | what the store promises, without git |
| GitStore, MCGitStore | the store's writes, git command by git command |
| ScanPipeline, MCScanPipeline | scan after scan over one store |
| Cascade | one finding through tiers, panel and committee |
| Inquest, MCInquest | investigation records and the re-vote, scan after scan |
| ChatSession | what a chat promises the browser |
| Mailbox | runners that die and resume, over a branch the browser writes too |
| Steering | grants, cases and directives under overlapping scans |
| SelfExt, MCSelfExt | overlapping runs of the self-extension engine |
| SelfGate, MCSelfGate | what the gate certifies, and what merges make of it |
| Deployment, MCDeployment | scan and chat jobs over one findings branch |
| SequenceLemmas | facts about sequences, finite sets and loops, and induction over a set of naturals |
| GitStoreProofs, ScanPipelineProofs, MailboxProofs, DeploymentProofs, SelfExtProofs | proofs about the module of that name, see section 6 |
| AgentProofs | proofs about Cascade and Inquest |
| ControlProofs | proofs about SelfGate and Steering |

How they compose. GitStore implements StoreLog, and ScanPipeline and Deployment
use the store as StoreLog describes it: an append lands and is acknowledged,
lands and is reported as failed, or does not land. Inquest and Steering take up
where ScanPipeline's resolve stage ends. SelfExt sees a gate's verdict as an
outcome of its `gate` step; SelfGate opens that verdict up. Mailbox implements
ChatSession.

Two modules that share a proof module must not share names, which is why
Inquest and Steering have an `InquestSpec` and a `SteeringTypeOK` where the others
have a `Spec` and a `TypeOK`.

### GitStore and StoreLog

A writer is a goroutine in a call. Its `pc` walks the code: `lock` (waiting for
`procMutex`), `build` and `cas` (`commitAppend`'s loop), `snapshot`, `reset`,
`unpack`, `restore` (`syncWorkTree`).

- `Build` reads HEAD once and makes the commit of this attempt on top of exactly
  that. This is why one step suffices for four git commands: after `rev-parse`
  they only touch immutable objects and a private index. It includes the two
  places where the code reads a failure as an answer: a failing `rev-parse` means
  an empty repository (420), an unreadable snapshot blob means changed content.
- `Swap` and `SwapLoses` are `update-ref` with its expected old value. `LoopFails`
  is every other error of the loop; `Retry` is its `continue` and its limit.
- `SaveCursor`, `ResetLocks`, `Reset`, `Restore` are `snapshotSidecar`, the two
  halves of `git read-tree --reset -u HEAD` and `restoreSidecar`. read-tree takes
  `index.lock` first and resolves HEAD under it, then writes: other processes
  move HEAD in between. `ResetBusy`, `ResetFails`, `SidecarFails` are the errors.
- `Crash` is external: a process dies with all its goroutines; if its git held
  `index.lock` the file stays, and a tracked cursor may already be reset.
- `PersistCursor` is `ExecConnector.persistCursor`. In a scan it happens before
  the store calls of that scan, so it is guarded by the scan process being idle;
  other processes may be in the middle of anything.
- `OperatorCommit` is external: the deployment's own `git add` and `git commit`
  of the cursor between calls, which commits whatever the real index holds. The
  comment on `syncWorkTree` names it as the danger that reconciliation is for.

StoreLog has four actions: an entry lands, the checkout moves forward along the
log, an entry the checkout holds is acknowledged, someone commits the checkout.
The refinement maps the log to HEAD's streams and the checkout to the index's.

### ScanPipeline

`stage` is the code's own variable of that name, with `idle` between scans and
`record` for the deferred function. Each action is one stage with its error
return: `Fail` goes to `record` as the `defer` does. A store append is one step
here, with the three outcomes GitStore gives it. `BlindRead` is `Load` answering
an unresolvable HEAD with no records. `PullSource` persists the cursor before
the events are durable, as `ExecConnector.Pull` does. Findings carry no time; a
row is a finding and the scan that wrote it. `Emit`, `Suppress` and
`RotateEvents` are the world, the operator and the deployment.

### Cascade

`FindingFacts` are the booleans that the code computes from a finding and its
events before it looks at a reply. A reply is any record `parseVerdict` can
return, or `FailSafe`. `EndRun` is the return of one cascade run and the
committee's bookkeeping: `needsConsensus`, `runConsensusGate` and
`tallyConsensusVotes`. `DeepTier` is one goroutine of `runFanOut`; `Merge` waits
for all three. `MergeDeepResults` has the code's rules in the code's order.
`asked` counts tiers and alerts, not HTTP retries of a client.
`StructuralConfidence` is in hundredths, and 45 is the code's constant (a number
of comments still say 0.55).

### Inquest

`StartScan` picks the escalated findings of a scan, `ProcessOne` takes one of
them through `processOne`: `ReadFails`, `Skip`, `NoCall` (degraded without a
call, the budget being spent), `Call` with the narrative's outcome (trusted
verdict, or degraded because the call failed or the reply broke the contract),
`StepPanics` (the deferred guard). `Write` is the record write, which may fail;
`WriteUnlessForced` is the rule that a forced pass that failed keeps the trusted
record it was to replace.
`FlagFor` is the flip rule, `AddMember` the bounded list of covered findings.
`Select` starts the forced pass over the findings with a shaky disposition,
`DeepDone` ends it, `Revote` and `NoRevote` are `RunRevoteGate` for those that
landed, `EndScan` the end. `CalibratedConf` is the calibration of a benign
verdict by what the evidence shows.

### Mailbox and ChatSession

The runner's loop is `Boot` (clone, `resumeState`, the ready record), `Pull` or
`PullFails`, `Take` the next record, `Turn` (tool rounds, each emitting a
record), `Answer`, `Done`, `Idle`, `IdleTimeout`, `Shutdown`, `Cancelled`.
`Emit` is the code's `emit`: append, and a `Push` that is forced or coalesced;
`committed`, `pushed` and `merged` are how far the clone's copies go. `Diverged`
is the state in which `git pull` refuses. `Tick` and `Beat` are the heartbeat
goroutines, one per question, which are told to stop and not joined. `Write` is
the browser, `Poll` the next poll without a heartbeat, `Signal` SIGTERM, `Kill`
a death.
Sequence numbers are rebuilt by `ResumedSeq` and `ResumedCursor` from the files.

ChatSession knows the inbox and the questions reported done. Mailbox refines it
with the done records of the remote outbox (`Session`).

### Steering

Grants: `PullFails` writes a miss, `DoctorDiagnose` too. `Pull` (a scan) and
`DoctorConfirm` probe again; `RecordMissAgain`, `CheckResolved` and
`AppendResolution` are `RecordConfirmOutcome` with the gap between its read and
its append open to others. Cases: `Detect` and `Resolve` write the streams,
`Collapse` reads the last rows, the case set and the directives (`Escalations`,
`Occurs`, `Steered`, `MergedCases`), `WriteCases` writes the result, later and
without a lock. `Steer` is `mallcop case`. `raced` and `overlapped` remember
that two confirmations, or two scans, were under way together.

### SelfExt

A run has a list of gaps to do, the lane it is in, and what it loaded of the
reject set. `Author` and `Build` are the model or the agent; `Narrate` and
`Redrive` are an agent that wrote nothing; `Pass`, `Refuse`, `Poison` the gate
and the reject set; `Apply`, `WithholdCode`, `Widen`, `HoldForHuman`, `Emit` what
is done with a verdict under the dial; `HardError`, `Fail`, `OutputFails`,
`Panic` and `Kill` the ways out. `ReloadRejects` happens at the start of each
lane, `Poison` rewrites the whole file, and a kill inside it leaves it torn.
`forgetful` remembers that runs overlapped or that a write of the file was lost.

### SelfGate

A tree is what the judges look at (see the module's header). `Edited` is any
proposal: detectors, words, labelled rows and a pin added, frozen files touched,
one thing dropped. `Validate` is `Guard`, the exam run on both trees and their
diff (`ExamDetect`), and `BenignTwins`. `Merge` is git's three-way merge of a
certified head into the present trunk, `Conflict` its refusal (the pin is one
line, and two proposals that both renewed it conflict). `Maintain` is a
labelled row the maintainers add, failing or not. What a tree fires is a
relation of families and rows. A merged tree fires what either side fires and,
if each side has a tuning word the other lacks, perhaps more (`Combined`): the
tuned detector wants an event type of one list and a keyword of another
(priv_escalation.go 284-293), so that two words that are silent on a row one by
one may fire on it together, and nothing runs the exam on the merged tree.
`unseen` remembers the banned firings of a merge that neither side's exam had
before it, `gaps` what was wrong on a maintainers' row from the start.

`Install` is the customer lane: `Graded` by efficacy (a passing row shows that
the sidecar fires, a passing twin that it can stay silent, and a pair of its own
must be a minimal mutation; that the target is silent without the sidecar is not
checked by the code) and by regression and new firings against the reference.

### Deployment

A job is at a step of the generated workflow. `Prepare`, `Restore` (clone, or
`mkdir` when that fails), `RunScan` (`openOrInitStore`, then the pipeline, which
commits), `Publish`, `Push`, `Recall`, `Watchdog`, with `FailStep` for the
steps that are skipped after a failure and those that run `if: always()`.
`StartChat`, `RecordDecision`, `EndChat` are the chat job. `LoseRunner`,
`Silence` and `ReportMiss` are the world. A store is its history, a sequence of
commits; a push succeeds only as a fast-forward. `struck` remembers the jobs
under which a step or the runner failed; the bound on faults is on their number.

## 3. The runs

| Run | Question | Bounds |
|---|---|---|
| store_contention | does the store keep its promise under races, faults, deaths and operator commits | 3 writers (2 in the scan, 1 elsewhere), 1 call each, 2 streams and a document, 3 attempts, 2 syncs, 1 fault, 1 crash, 1 operator commit |
| store_one_process | in the supported deployment, are cursors safe, do calls land in order, and do they return | 2 writers of one process, 2 calls each, 2 attempts, 2 cursors, 1 fault, 1 crash, 1 operator commit |
| scan | do scans keep events, findings and records consistent | 3 scans, 2 connectors, 3 events, 1 fault, 1 rotation, 1 suppression |
| scan_killed | is what was stored also flagged (violated) | 1 fault |
| cascade | is a benign close evidenced, unanimous, bounded, and is there always a disposition | 3 re-runs, confidences 0 2 3 4, citations 2 3, 1 panic |
| mailbox | is every question answered and reported done, whoever dies | 2 inbox records, 1 tool round, 1 heartbeat, 5 runners, 1 fault, 1 death or signal |
| inquest | do records hold, are changes flagged, do votes rest on deep evidence | 3 scans over 3 findings of one case, 2 calls a pass, 2 tracked members, 2 faults |
| selfext | is a reject final and exact, and does only the certified take effect | 2 runs that may overlap, 1 widen and 2 misses of one detector, 2 attempts, 1 fault |
| steering | do grants, counts and the operator's word come out right | 2 scans that may overlap and the doctor, 1 case, 2 findings, 1 directive, 1 change of the connector, 1 fault |
| deployment | does a green job mean a published record, and does a red one have a reason | 3 scan jobs, 1 chat, 1 job with any number of faults under it, 1 silence, 1 report, 1 decision |
| decision_lost | does a decision made in chat land (violated) | 2 scan jobs, 1 chat, nothing fails |
| selfgate | what do certified proposals leave true of the trunk, and do sidecars hold together | 2 proposals in flight, 3 rows, 2 detectors and 2 sidecars of 2 families, 2 words |

Every violated run shows a disagreement, described in section 5; the others pass.

Why the bounds are enough for the interesting cases:

- Store. Three writers are the least for one to lose its swap twice, to two
  processes. Three attempts let it win after that; the real limits (128 and 32)
  are only reached by more of the same, and the run reaches the smaller ones: an
  exhausted loop needs two losses and the fault. Two syncs let a stale
  `index.lock` exhaust the loop, which every later call then does. A crash
  followed by an operator commit is what loses records if the index lags. In one
  process, two calls make a cursor become tracked by the deployment and then be
  overtaken by a newer one before the next reset; and a writer's two calls are
  what can land in the wrong order or twice, around the other writer's retries.
- Scan. Three scans are the least for a failure in the first, a re-delivery in
  the second and a rotation before the third. One connector has a cursor and the
  other delivers everything again on every scan; one actor appears at both.
- Cascade. Confidences sit at 0 (none), in the band that GuardResolve refuses,
  just below cleanResolve's 4 and at it. With three tool calls, 2 citations score
  44 and 3 score 48, on both sides of the gate; with two tool calls both fan out.
  The committee has the size `cli/scan.go` sets.
- Mailbox. Two questions are the least for one to be skipped or reordered, and a
  shutdown may come before, between or after them. One death, one fault (a push
  or pull that fails) and the clean ends (idle, shutdown, signal) take at most
  four restarts to be exhausted; a fifth runner then works undisturbed. One
  heartbeat is enough to take the place between answer and done.
- Inquest. Three findings overflow two tracked members; a budget of two leaves
  one of them degraded; three scans are the least for a verdict, its loss and its
  change. One finding is operational, so calibration differs inside the case.
  Cases share nothing but the budget, so one case with more findings than budget
  stands for several.
- SelfExt. Two runs may load the reject set before either writes it; one batch
  crosses from the data lane to the code lane, the other has two gaps that write
  one branch. Two attempts are the least for a re-drive.
- Steering. Two scans and the doctor are enough for two confirmations of one
  miss and for one scan's write to replace the other's. Two findings make a case
  recur, before or after its directive. One case and one directive: that the last
  of several directives wins is in `LastWord` and is not exercised by this
  instance; two scans were judged more worth the states.
- Deployment. Three jobs are the least for two pushes to be refused, and an
  operator's report may overtake any of them. With one job struck the others must stay green or have another reason. The silence is longer
  than the watchdog allows.
- SelfGate. Two proposals and one trunk give every crossing of two changes. A
  row to be detected, a benign twin of both families and a row the built-in
  detectors may or may not pass are the rows the rules tell apart. Two words, an
  event type and a keyword, are what can meet in a merge.

What the properties say:

| Property | In words |
|---|---|
| AckedDurable | an append that returned no error is in HEAD and in the index for good |
| ProgramOrder | each writer's calls are in the stream in their order, none twice |
| NoSilentDrift | at rest index and HEAD agree unless some call said they may not |
| ImplementsLog | GitStore refines StoreLog |
| CursorSurvives | at rest the cursor file holds the last cursor a connector wrote |
| CallsReturn | every call returns |
| NoRepeatedEvent | the events stream has no repetition, unless a scan read blindly |
| ScansAreAccounted | every scan leaves one record; a success answered all it flagged, and findings.json shows it; an answer was never written before its finding, nor twice |
| NothingMissed | if all scans went through, every delivered alarming event was flagged |
| ActorFlaggedOnce | a new actor is flagged once, unless a rotation made the store forget it (`forgotten`) |
| EvidencedUnanimity | benign only if all runs resolved, each on positive evidence |
| CallsBounded | at most six calls a run, one run if the first escalates, and none for a routed finding |
| Decided | every finding gets a disposition, or a panic has killed the process |
| AnsweredBeforeDone | a done record has its answer before it on the remote, from the same runner |
| SessionSpec | Mailbox refines ChatSession: questions are done in order, once, none left out |
| QuestionAnswered | a question with no shutdown before it gets an answer on the remote in the end |
| RecordHolds | rewriting a record loses neither its creation nor its members (the oldest only at the limit), and a forced pass gives up a trusted verdict only if it panics |
| ChangeIsFlagged | a trusted verdict that differs from the one before is flagged, and called a flip only if the other is of an earlier pass |
| RevotedOnDeepEvidence | a vote is attached only to a record the forced pass of this scan renewed |
| RejectSetIsExact | without overlap or a lost write, the reject file holds exactly what was refused, or is about to, and no model is paid for it again |
| OnlyCertifiedIsApplied | what takes effect without a human was certified, at a dial that allows it; what is offered is in the tenant's overlay, with consent |
| SessionsAreClosed | a run key and a worktree are open only while their gap is worked on |
| EveryRunEnds | every command ends |
| GrantHistoryIsHonest | a resolution answers an earlier miss, rests on a healthy probe, and is the only one unless two confirmations raced |
| CountsAreHonest | without overlap a case counts no escalation twice and, if no scan was cut short, misses none |
| AllSettles | once the connector stays well, every miss is resolved and every case has the operator's status, for good |
| VerdictIsPublished | a green scan job, or one failed only by the recall gate, has its record on the branch |
| RedHasReason | a job under which nothing failed is red only for a miss that was reported or because it lacks a commit somebody else published first |
| TrunkOnlyWidens | merges only add rows, detectors, words and firings, touch nothing frozen and leave the exam runnable |
| GradesHold | a row of the trunk lacks what it demands only if it did when the maintainers added it, and fires what it bans only if it did then or no exam of a merge's two sides saw it; each authored detector keeps a row that demands its family and has all it demands, and a benign row that bans it |
| LoadedTogether | sidecars graded one by one fail no passing row and fire nothing unasked when loaded together |

The violated runs check one property each, what a comment says: StoredWasFlagged
and DecisionsLand. Section 5 says how each fails.

PROJECT.json pairs each property of the table with a mutant of the code-side definition it
would catch; the mutated forms stand next to the originals in the modules, as
comments starting with "Mutant".

The history variables of the models (`raced`, `overlapped`, `forgetful`,
`forgotten`, `blind`, `broken`, `unseen`, `gaps`, `struck`) record that something the
code does not guard against has happened. A property that mentions one holds
without exception until then, and says precisely what is lost afterwards. Each
run reaches states on both sides of the exceptions.

`CHECK_DEADLOCK FALSE` is set everywhere: every instance has used up its calls,
scans, runners or proposals in the end, and then nothing is left to do. That
nobody waits for ever is what CallsReturn, Decided, QuestionAnswered,
EveryRunEnds and AllSettles say.

## 4. Fairness

- GitStore: weak fairness of each writer's `Step`. A git child either ends or,
  like a crash, takes the process with it; no other writer can disable a step for
  ever except through the mutex. Strong fairness of `Acquire`, because the mutex
  is a `sync.Mutex`: after a millisecond of waiting it goes into starvation mode
  and hands itself to the first waiter. No fairness for calls, faults, crashes,
  cursors or the operator.
- Cascade: weak fairness of `Step`: client and tool calls return or time out, and
  a returned one lets `wg.Wait` go on. No fairness for panics.
- Mailbox: weak fairness of `Boot` (the browser dispatches a runner while it
  waits for an answer: external) and of each part of the runner's loop, which
  goes on by itself once a git command or a model call has returned. Strong
  fairness of `IdleTimeout`: a session left alone reaches its idle limit although
  each poll starts over. None for heartbeats, faults, signals or deaths.
- SelfExt: weak fairness of each run's `Step`; agents have timeouts. None for
  starting a command or for `Upset` (panics and kills).
- Steering: weak fairness of each scan slot (scans are scheduled every hour, and
  one that runs goes on) and of a confirmation the doctor has begun. None for
  the operator, the world or kills.
- ScanPipeline, Inquest, Deployment, SelfGate: none. Their promises are about
  what has happened, and runners there may stop at any point.

## 5. Where code and comments disagree

Two of these are runs that TLC finishes with a counterexample.

1. scan_killed. The events are appended before the findings on them, and the
   dedupe hides stored events from every later scan: a scan stopped in between
   leaves events that nobody ever looks at.
2. decision_lost. `record_decision` commits to the chat runner's checkout of the
   store and tells the operator that the decision takes effect on the next scan.
   The chat job pushes its outbox and nothing else; the decision is gone with the
   runner.

### Disagreements without a run

Met while modelling. Most are visible in the models, as an exception a property
names or as a transition that is there although a comment excludes it.

Store and pipeline

- `syncWorkTree` promises that in-flight cursor state always survives and excuses
  its last-write-wins restore with cursors being written only by the scan
  process. The restore is itself a write, made by any process that appends
  (store.go 543-557): feedback saves cursor 1, the scan's connector writes 2,
  feedback restores 1. store_one_process shows that the promise holds with one
  process.
- The baseline a scan persists is the one it gated on, one scan behind its own
  events (pipeline.go 349, 414): a rotation right after an actor's first scan
  makes the actor fire again. ActorFlaggedOnce states exactly this exception.

Cascade

- Role grants and bulk exports are called terminal (cascade.go 396-399), but only
  where triage cleanly resolves; if triage escalates, investigate may close them.
- The recover of a vote (consensus.go 99-101) does not cover the goroutines of
  its deep tiers (fanout.go 135): a panic there ends the process. Decided allows
  for it.
- Comments give 0.55 as the structural gate where the constant is 0.45; the rules
  for an empty tool result and for self-confidence 1 or 2 are applied by
  GuardResolve but not in the merge of the deep tiers.

Inquest

- The panic guard in a forced pass overwrites a trusted record, although the
  outcome's comment (inquest.go 215-225) says a forced pass never downgrades one.
- `touchedThisRun` is set before the record is read or written (412): a change
  after a failed first attempt of the same scan is called co-occurring.
- A degraded attempt between two trusted ones hides that the verdict changed.
- Two low-confidence findings of one case share a record: the second
  `AttachRevote` erases the first one's outcome.
- A change made by the deep pass of the same scan is flagged as a flip, which the
  comment reserves for a change across scans.

Chat runner

- `Pull` "is never a conflict" (gitmailbox.go 236-241), but git refuses to merge a
  diverged branch over staged changes, and a coalesced `Push` leaves some.
- A shutdown record stays in the inbox and ends every later runner at once; this
  is why QuestionAnswered speaks of questions with no shutdown before them.
- SIGTERM answers the questions that are queued as failures. `PruneSessions` at
  boot does not spare the session being opened, and its push is not retried.

Steering

- `RecordConfirmOutcome` must not grow the history with duplicate resolutions
  (grantwiring.go 246-250). Its check (293) and its append (313) are two calls of
  the store: a scan and `mallcop doctor --confirm` that check at the same time
  both append (`raced`).
- Scans that overlap pair the last rows of two streams that may be of different
  scans (cases.go 79; the comment on the window says they are aligned), and the
  second write of the case set drops a case only the first one had: a directive
  on it is inert until it recurs (`overlapped`). A killed scan's occurrences are
  never counted.

Self-extension

- engine.go 593 lists the artifact "always, then" the merge. The merge comes
  first (605): when the artifact cannot be written, the run ends in an error, the
  change is in effect, and there is nothing to review.
- The reject file is called the cross-run record that keeps a dead end from being
  paid for again (rejectset.go 22-24). Each run writes the whole file from the
  copy it loaded at its start, so of two runs that overlap the later write drops
  what the other has put there (`forgetful`).
- Two fingerprints of one detector update the same branch, by force; adapter.go
  163-166 says gaps that would author the same detector collapse into one.
- What an agent left behind when it timed out is committed and judged, and a red
  verdict on it poisons the gap. An agent that commits by itself looks as if it
  had written nothing.
- A torn reject file stops every later run; nothing records that a green gap was proposed, so
  that it is paid for again. The router's "forbidden" branch is not reachable
  from the command line.
- exam.yml runs its strict guard job for branches `selfext/proposal-*` or a label
  (117-119), while contribution back pushes `contribback/<fingerprint>`. If the
  record of an opened request cannot be appended (contribback.go 283-300), a
  retry fails at creating it again, and nothing polls it.

Self-gate

- A verdict is about one base and one head. CI does not run again when the base
  moves, and the branch protection exam.yml asks for does not demand up-to-date
  branches: a stale merge, or two tuning words that meet in one, can leave a
  benign row firing on trunk, even the twin of an authored detector. GradesHold
  excepts exactly these firings (`unseen`).
- `RecallDelta` computes what a change "must never" lose and is consulted by
  nothing.
- An installed sidecar that fails against a newer reference blocks every later
  customer proposal, as all sidecars of the head are graded again.

Deployment

- The watchdog step is to turn a pipeline that stops running into a failing job
  (deployrepo.go 1073), but it runs in the job of a scan, after that scan: the
  newest record is the one just written, and an outage that ended leaves only
  green jobs.
- cli/scan.go 572 says the cursor travels with the store; nothing commits
  `.mallcop/cursors` in a deployment.
- Scan jobs have no concurrency group: the second push of two that overlap is
  refused and its records are lost with the runner (VerdictIsPublished holds
  because that job is red). A failed clone looks like a first
  run, and the push of its unrelated history is refused. The record of a failed
  scan never reaches the branch. A reported miss is never cleared.

## 6. Proofs

All for arbitrary constants that satisfy the named assumptions: any number of
processes, writers, streams, retries, faults and crashes; any size of committee;
any number of jobs, of runs and gaps, of rows, proposals and sidecars; any number
of scans, sources, events and actors; any number of questions, runners and
deaths; any findings, cases, budget and cap of members; any number of keys,
confirmations and steered cases. TLC evaluates the assumptions in every run.

**GitStoreProofs.** TypeCorrect, AckedAppendsDurable, CallsLandInOrder,
RejectedLeavesNothing, StoreImplementsLog, IndexNeverDriftsSilently and
CursorsAreRestored. None of the properties is inductive:
that an acknowledged record is never lost depends on what happened before the
acknowledgement, and on what an index that somebody may yet commit can hold. The
inductive invariant IInv is the conjunction of

- Typed: TypeOK, and a call under way knows what it writes;
- LockInv: a writer is unpacking exactly if it holds `index.lock`;
- CandInv: a candidate commit is the child of its base by this very call;
- TrailInv: each stream of the index is a prefix of the stream of the commit a
  running reset is aiming at and of HEAD's: a reset never moves backwards, which
  is the comment's monotonicity claim;
- LandedInv: a call that has landed is in HEAD while it syncs, in the target once
  its own reset has begun, and in the index once that has finished;
- FreshInv: a call that has not landed is in no stream, and a rejected one never
  was;
- AckedInv, ProgramOrder, RejectedNeverLands (a call that gave up in the commit
  loop left nothing).

`OperatorCommit` is the step that needs TrailInv and AckedInv together: HEAD is
replaced by the index, so whatever is acknowledged must be in the index. LogStep
then maps every step to a step of StoreLog or a stutter: `Swap` to Land, `Reset`
to Publish, `Restore` to Acknowledge, `OperatorCommit` to CommitCheckout.

What holds at rest needs to know who owes the repository what meanwhile. DriftInv:
as long as no call reported a failure and no process died, an index that does not
show HEAD is owed a reset, by a writer that has not taken `index.lock` yet or by
the git that holds it and has resolved HEAD since it last moved. CursorInv: the
cursor on disk is the one last written, or a call is between its save and its
restore and the saved copy is. The second is claimed under OneProcess, every
writer a goroutine of the scan. The hypothesis is not for convenience: a second
process may save the cursor, lose the processor while a scan moves it, and
restore the old one, and TLC shows that as soon as GitStoreOneProcess is given
another process. The code's comment speaks of a scan's own reconciliation.

**SequenceLemmas** proves what is needed of `IsPrefix`, `ToSet`, `\o` and
`SetToSeq`, that a finite set of naturals has a greatest element, and that it can be
listed in increasing order, once (IncreasingList). The library's
induction theorems take an operator, which the provers cannot instantiate;
LeastNumber and SetInduction speak of a set of naturals instead, and that is
enough for induction. With it Collects, the loop that appends the chosen elements
of a sequence to a result, is shown to exist, to be unique, and to be typed; and
if it ends with 1, 2, .. c it was such a list all along (CollectedInOrder). The
modules write such a loop as a recursive function, as the code does (Dedupe,
Reported, Questions): the prover cannot look inside SelectSeq or a fold.

**ScanPipelineProofs.** TypeCorrect, EveryScanIsAccounted, EventsAreStoredOnce,
DeliveredIsFlagged and NewActorIsFlaggedOnce. What Dedupe returns is proved first,
by induction over the batch: no repeats, nothing stored, nothing else dropped.

- Accounted: the scan under way has no record yet (Unrecorded), what it has done
  so far is what its stage says (SoFar), each scan that is over has one record
  (OneRecord), resolutions belong to findings of their own scan
  (AnsweredByScan), and a success answered all (SuccessIsComplete).
- NoRepeat: from the dedupe to the append of its result, nobody else appends
  (FreshBatch); this is where one scan at a time matters.
- OnItsWay: while all goes well an alarming event is in the batch, among the
  found, flagged or suppressed; and one that is in the store already, which the
  dedupe will drop, is past the first of these. Without the second half the
  invariant does not survive a redelivery.
- OnlyNews: what a scan flags as new is not in the last baseline, a flagged actor
  is remembered by the stored events or by a baseline, and each baseline contains
  the one before it.

**AgentProofs**, on Cascade. TypeCorrect, CommitteeUnanimous, FloorIsFirst,
CostBounded. IInv adds to TypeOK: while a run is in progress the first one resolved and there
is room for another (InProgress); as many grounds as votes while nobody dissented
(GroundsCount); each ground evidenced (GroundsEvidenced), which rests on two
lemmas about the merge and the guard; a benign disposition means a full,
unanimous committee (Closed); what the floor settles never leaves it (Settled);
and six calls for each ended run plus what the current stage can have cost
(Cost).

**AgentProofs**, on Inquest. WholeRecords, RecordsLast, ChangesAreFlagged and
VotesRestOnDeepEvidence; the last three are action properties. InquestInv is typing
(RecordsTyped, ScanTyped, QueueTyped: the queue of a forced pass holds selected
findings) and three facts about passes. PassKnown: a record written by the pass
under way is of a case that pass has touched; so a change of such a record is
called co-occurring, never a flip, and before the forced pass no record claims to
be of it. FreshIsDeep: what counts as renewed was written by this scan's forced
pass, which is what the re-vote relies on and what a failed read or write must not
break. SelectedMade: a selected finding has a record. Each step is one of three
kinds (it writes at most the record of the finding in hand, attaches an outcome,
or leaves the records alone: PassStep, AttachStep, QuietStep), and an action
property is proved once for each kind. That the queue of findings in the order of
their ids exists at all needs IncreasingList.

**MailboxProofs.** TypeCorrect, NoDoneWithoutAnswer and BrowserSeesOneSession.
InOrder is the crux: the runner's own outbox file, published or not, reports the
questions 1 to c done, in order; all of these are questions; and a live runner's
cursor stands at c, or at c + 1 while it works on that one (Count). A prefix of
such a file reports a prefix of 1 .. c, so what a death leaves on the remote is
of the same form, and the highest question done, from which resumeState starts
the next runner, skips nothing (OutboxInOrder, ResumedCursorIs). Taken says that
the record in hand is a question. The types rest on the same invariant: that a
resumed cursor is within the inbox is not evident from resumeState. For the
answers, AnswerInv extends the property from the outbox to the whole file and
adds that a runner about to write done wrote the answer itself. Every step does
one of five things to the file (Kinds); the refinement maps a step to Write, to
Report when more questions are done on the remote, and to a stutter otherwise,
which needs that the remote only grows (OutboxGrows).

**DeploymentProofs.** TypeCorrect, VerdictPublished, RedIsExplained. For the
first two it is enough that a job past its push has its record on the branch, and
one before it in its store. Why a job is red takes four facts (Reasons).
KeptToItself: until its push, what a job commits is in no other store and not on
the branch; so a push that git refuses though nothing failed lacks somebody
else's commit, and keeps lacking it, as the branch only grows (StepGrowsBranch).
Fresh: the newest scan in a job's store is its own and healthy, as long as nothing
failed under it, because no silence passes while a job runs; this is why the
watchdog alone turns no job red. MissIsReported: the recall gate reads a store
that has been pushed, so the miss it finds is on the branch. Excused is the
property's first half.

**SelfExtProofs.** TypeCorrect, NothingUncertified, NothingLeftOpen,
RejectsAreExact. RejectInv says what RejectSetIsExact needs to be inductive: a
run's own copy and the file hold only what was judged (OnlyTheJudged); while
nothing was forgotten a run in its lane knows every verdict there is
(KnowsTheJudged), its copy mirrors the file (Mirrored), each verdict is in the
file or on its way to it (RejectsArePersisted), and the gap a model is being paid
for has none (Untried). Widened ties an artifact of the data lane to consent and
the overlay.

**ControlProofs**, on SelfGate. TypeCorrect, GradesAlwaysHold, TrunkAlwaysWidens,
SidecarsHoldTogether. The open proposals are the crux: OpenAreCertified says of
each that its head widens its base, fires nothing new unasked, adds only passing
rows and brings its twins, and that its base is behind the trunk. So a merge loses
no firing a row demands, whatever the words that meet in it add; and a banned
firing that is new to the trunk was judged by neither side, which puts it in
`unseen`. TrunkGradable says the pin is right, so that the next
exam runs; OwnAreGraded that each sidecar alone passes on `graded`, from which
that all together do follows because firings only add up.

**ControlProofs**, on Steering. StoreKeepsShape, GrantsStayHonest, CountsStayHonest.
Three invariants, one on top of the other:

- GrantInv: until two confirmations have overlapped one is under way at most, and
  one that is about to append is the first to claim its miss (OneConfirms); what a
  resolution or a confirmation names is a row and a miss (MissesExist,
  GrantsTyped). A killed scan drops its call, which can only help.
- CaseInv: each flagged finding still owes its resolution, so that a scan about to
  collapse an escalation finds a last row in both streams (StreamsAligned); without
  that what `Escalations` pairs is not even a case.
- CountInv: the one scan under way owes the cases exactly the escalation it has
  recorded and not yet merged (Owes), and the set it is about to write owes none.
  The number of escalations of a key is a cardinality, and the proof uses only
  that a verdict more adds one or none to it (OneResolution).

What is only model-checked is liveness (CallsReturn, Decided, QuestionAnswered,
EveryRunEnds, AllSettles), since the prover does not handle ENABLED. That one run
of Cascade or SelfExt always ends is therefore shown for the instances only.

## 7. What the models leave out

- GitStore: the content of a record (an operation is a token), validation and
  marshalling (before the lock, without effect), the stream-size ceiling, loose
  work-tree files other than the cursor (one cursor file stands for all), reads.
  A git killed after it moved the ref and before it exited would be reported as
  failed and retried; the model's failing `update-ref` has not moved the ref. The
  operator commits between calls, not in the middle of one.
- ScanPipeline: the circuit breaker, severity relabelling, case-scoped
  suppression, an explicit baseline, events without an ID, grant rows (Steering),
  the investigation after the resolutions (Inquest). `resolveAll` is one step:
  its workers write distinct slots.
- Cascade: prompts, sanitizing, how tools compute their predicates, how a reply
  is parsed, the circuit breaker's meta-finding.
- Inquest: how evidence is assembled, what a narrative says, the time limit of a
  pass (part of the call budget), the votes (cascade runs; an outcome here).
- Mailbox: local mode, garbage collection of old sessions, the tools' own reads.
  One runner is alive at a time, which the workflow's concurrency group provides
  (deployrepo.go 1140-1142). Appends to the local file do not fail. That somebody
  dispatches a runner while a question is open is the browser's doing: external.
- Steering: one connector; what a diagnosis says. Mute, attention and suppress
  directives are pure filters of one scan.
- SelfExt: the jail, redaction, the arithmetic of the ledger and the metering
  service are inputs; the dial and consent do not change during a behaviour.
  Contribution back is not modelled: it is a chain of remote calls.
- SelfGate: the structural stage (imports, AST shape) is a check of one tree and
  stands in `touched`; scenarios without a label give no row; learned mappings,
  operator decisions and `mallcop.yaml` rules are widen-only like tuning words
  and are represented by them; a row is identified with its file. The waiver for
  a change that gains nothing is a flag that neither CI nor the engine passes. A
  family no reference row demands goes to a human; the model merges it or not.
- Deployment: the steps before the restore are one. Creating a deployment and
  migrating one rewrite files one after the other from a terminal
  (`createAndPushDeployRepo` can stop half way); a migration's dry run compares
  versions where the real run compares bytes.
- The rest of the components, for the reasons in section 1.

## 8. What could come next

1. Contribution back: fingerprints, branches and pull requests, with the record
   append as the step that may fail, once the remote side is specified.
2. An instance of Steering with two directives and one of Inquest with two cases,
   for a larger machine; a theorem that the last of several directives wins.
3. The pure code next to the models: the assembly of evidence that Inquest takes
   as an input, and the structural stage of the self-gate.
