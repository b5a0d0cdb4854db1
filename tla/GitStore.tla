------------------------------ MODULE GitStore ------------------------------
(***************************************************************************)
(* core/store: the append-only record streams and snapshot documents kept  *)
(* in a git repository, written by several goroutines of several processes *)
(* (a scan, `mallcop feedback`, a chat runner) that share one work tree.   *)
(*                                                                         *)
(* A write builds its commit in the object store against the HEAD it read, *)
(* moves HEAD with a compare-and-swap, retries from the top when that or   *)
(* any earlier git command fails, and finally reconciles the repository's  *)
(* real index and work tree to HEAD around a save and restore of the       *)
(* connector cursors.                                                      *)
(*                                                                         *)
(* A commit is a record of its height and content.  HEAD only moves from a *)
(* commit to a child of it, so a height and a content name a commit as its *)
(* SHA does.  A stream holds operations: what one call appends is one      *)
(* token.  Validation and marshalling precede the lock and change nothing; *)
(* a call they reject, and an empty batch, is no step at all.              *)
(***************************************************************************)
EXTENDS Naturals, SequencesExt

CONSTANTS
    Procs,          \* operating-system processes with the store open
    ScanProc,       \* the one that runs connectors and writes cursors
    Writers,        \* goroutines that call the store
    ProcOf,         \* the process of each writer
    Streams,        \* stream files
    Docs,           \* contents a snapshot document may be given
    NoDoc,          \* no snapshot document yet
    Free, Stale,    \* .git/index.lock absent; left behind by a dead git
    Nobody,         \* nobody holds a process's mutex
    MaxRetries,     \* bound of the commit loop (128 in the code)
    MaxSync,        \* bound of the read-tree loop (32 in the code)
    MaxCalls,       \* bound: store calls per writer
    MaxCursor,      \* bound: cursor values a scan may persist
    MaxFaults,      \* bound: git commands and file writes that fail
    MaxCrashes,     \* bound: process deaths
    MaxOperator     \* bound: commits the deployment makes by itself

ASSUME WriterAssumption ==
    /\ ProcOf \in [Writers -> Procs]
    /\ Nobody \notin Writers
    /\ Free \notin Writers /\ Stale \notin Writers /\ Free # Stale

ASSUME ContentAssumption == Streams \cap Docs = {} /\ NoDoc \notin Streams \cup Docs

ASSUME BoundAssumption ==
    /\ MaxRetries \in Nat \ {0} /\ MaxSync \in Nat \ {0}
    /\ {MaxCalls, MaxCursor, MaxFaults, MaxCrashes, MaxOperator} \subseteq Nat

\* One call: the n-th of writer by; what is the stream it appends to, or the
\* content it gives the snapshot document.
Ops == [by : Writers, n : 1..MaxCalls, what : Streams \cup Docs]

\* cursor is the committed .mallcop/cursors content, 0 while it is untracked.
Commits == [height : Nat, files : [Streams -> Seq(Ops)],
            doc : Docs \cup {NoDoc}, cursor : Nat]

NoCommit == [height |-> 0, files |-> [s \in Streams |-> <<>>],
             doc |-> NoDoc, cursor |-> 0]

VARIABLES
    head,       \* the commit HEAD names; NoCommit in a fresh repository
    index,      \* the commit content the real index holds
    indexLock,  \* the writer whose git holds .git/index.lock, Free or Stale
    target,     \* the commit that git resolved HEAD to under that lock
    cursor,     \* the cursor file in the work tree; 0 when there is none
    persisted,  \* the last cursor a connector wrote
    mutex,      \* mutex[p]: the writer of p inside the Serializer lock
    pc,         \* per writer: where its call is
    what,       \* what the call writes; NoDoc between calls
    base,       \* oldHead: the commit this attempt builds on
    cand,       \* the commit this attempt wants to land
    attempt,    \* iterations of the loop it is in
    start,      \* ghost: height and faults when it entered the commit loop
    saved,      \* the cursor snapshotSidecar read; 0 when there was none
    calls,      \* calls made so far
    acked,      \* acked[s]: appends to s that returned no error
    rejected,   \* calls that returned an error out of the commit loop
    unsynced,   \* calls that returned an error after their commit landed
    faults, crashes, operator

repoVars == <<head, index, indexLock, target, cursor, persisted>>
callVars == <<mutex, pc, what, base, cand, attempt, start, saved, calls>>
outcomeVars == <<acked, rejected, unsynced>>
budgetVars == <<faults, crashes, operator>>
vars == <<repoVars, callVars, outcomeVars, budgetVars>>

InLoop == {"build", "cas"}                              \* the commit loop
InSync == {"snapshot", "reset", "unpack", "restore"}    \* syncWorkTree
PCs == {"idle", "lock"} \cup InLoop \cup InSync

Op(w) == [by |-> w, n |-> calls[w], what |-> what[w]]
Appends(w) == what[w] \in Streams
Idle(p) == \A w \in Writers : ProcOf[w] = p => pc[w] = "idle"
AllIdle == \A w \in Writers : pc[w] = "idle"

Init ==
    /\ head = NoCommit /\ index = NoCommit /\ target = NoCommit
    /\ indexLock = Free
    /\ cursor = 0 /\ persisted = 0
    /\ mutex = [p \in Procs |-> Nobody]
    /\ pc = [w \in Writers |-> "idle"]
    /\ what = [w \in Writers |-> NoDoc]
    /\ base = [w \in Writers |-> NoCommit]
    /\ cand = [w \in Writers |-> NoCommit]
    /\ attempt = [w \in Writers |-> 0]
    /\ start = [w \in Writers |-> 0]
    /\ saved = [w \in Writers |-> 0]
    /\ calls = [w \in Writers |-> 0]
    /\ acked = [s \in Streams |-> {}]
    /\ rejected = {} /\ unsynced = {}
    /\ faults = 0 /\ crashes = 0 /\ operator = 0

-----------------------------------------------------------------------------
\* The deferred release and the return of a call.
Return(w) ==
    /\ pc' = [pc EXCEPT ![w] = "idle"]
    /\ what' = [what EXCEPT ![w] = NoDoc]
    /\ base' = [base EXCEPT ![w] = NoCommit]
    /\ cand' = [cand EXCEPT ![w] = NoCommit]
    /\ attempt' = [attempt EXCEPT ![w] = 0]
    /\ start' = [start EXCEPT ![w] = 0]
    /\ saved' = [saved EXCEPT ![w] = 0]
    /\ mutex' = [mutex EXCEPT ![ProcOf[w]] = Nobody]

Fault == faults < MaxFaults /\ faults' = faults + 1

\* Append, AppendBatch or WriteSnapshot is called; it waits for the mutex.
Call(w, x) ==
    /\ pc[w] = "idle" /\ calls[w] < MaxCalls
    /\ pc' = [pc EXCEPT ![w] = "lock"]
    /\ what' = [what EXCEPT ![w] = x]
    /\ calls' = [calls EXCEPT ![w] = @ + 1]
    /\ UNCHANGED <<repoVars, outcomeVars, budgetVars,
                   mutex, base, cand, attempt, start, saved>>

Acquire(w) ==
    /\ pc[w] = "lock" /\ mutex[ProcOf[w]] = Nobody
    /\ mutex' = [mutex EXCEPT ![ProcOf[w]] = w]
    /\ pc' = [pc EXCEPT ![w] = "build"]
    /\ attempt' = [attempt EXCEPT ![w] = 0]
    /\ start' = [start EXCEPT ![w] = head.height + faults]
    /\ UNCHANGED <<repoVars, outcomeVars, budgetVars,
                   what, base, cand, saved, calls>>

\* blobAt, hashObject, buildTree and commitTree: the child of commit c that
\* differs from it in the one file that call o writes.
Child(c, o) ==
    [height |-> c.height + 1,
     files |-> [s \in Streams |-> IF s = o.what THEN Append(c.files[s], o)
                                               ELSE c.files[s]],
     doc |-> IF o.what \in Docs THEN o.what ELSE c.doc,
     cursor |-> c.cursor]

\* An attempt reads HEAD once and builds on that commit only.  head() failing
\* is read as "no commits yet", whatever the reason; a snapshot whose blob
\* cannot be read counts as changed.
Build(w) ==
    /\ pc[w] = "build"
    /\ \E c \in {head, NoCommit} :
          /\ \/ /\ c = head /\ (Appends(w) \/ head.doc # what[w])
                /\ faults' = faults
             \/ Fault /\ (c = NoCommit \/ ~Appends(w))
          /\ base' = [base EXCEPT ![w] = c]
          /\ cand' = [cand EXCEPT ![w] = Child(c, Op(w))]
    /\ pc' = [pc EXCEPT ![w] = "cas"]
    /\ UNCHANGED <<repoVars, outcomeVars, crashes, operator,
                   mutex, what, attempt, start, saved, calls>>

\* WriteSnapshot of the content HEAD already has: no commit, no sync.
SnapshotUnchanged(w) ==
    /\ pc[w] = "build" /\ ~Appends(w) /\ head.doc = what[w]
    /\ Return(w)
    /\ UNCHANGED <<repoVars, outcomeVars, budgetVars, calls>>

\* Mutant: one attempt too many.
RetryOnceMore(w) ==
    \/ /\ attempt[w] + 1 <= MaxRetries
       /\ pc' = [pc EXCEPT ![w] = "build"]
       /\ attempt' = [attempt EXCEPT ![w] = @ + 1]
       /\ UNCHANGED <<mutex, what, base, cand, start, saved, rejected>>
    \/ /\ attempt[w] + 1 > MaxRetries
       /\ rejected' = rejected \cup {Op(w)}
       /\ Return(w)

\* The next attempt, or the error of a loop that used up its attempts.
Retry(w) ==
    \/ /\ attempt[w] + 1 < MaxRetries
       /\ pc' = [pc EXCEPT ![w] = "build"]
       /\ attempt' = [attempt EXCEPT ![w] = @ + 1]
       /\ UNCHANGED <<mutex, what, base, cand, start, saved, rejected>>
    \/ /\ attempt[w] + 1 >= MaxRetries
       /\ rejected' = rejected \cup {Op(w)}
       /\ Return(w)

\* cat-file, hash-object, read-tree, update-index, write-tree, commit-tree or
\* update-ref itself fails for a reason of its own.
LoopFails(w) ==
    /\ pc[w] \in InLoop
    /\ Fault /\ Retry(w)
    /\ UNCHANGED <<repoVars, calls, acked, unsynced, crashes, operator>>

\* Mutant: the first commit is written without asking that there be none.
RefMatchesUnlessFirst(w) == head = base[w] \/ base[w] = NoCommit

\* update-ref HEAD cand base: git moves the ref only if it still is base, and
\* an all-zero base asks that there be no HEAD at all.
RefMatches(w) == head = base[w]

Swap(w) ==
    /\ pc[w] = "cas" /\ RefMatches(w)
    /\ head' = cand[w]
    /\ pc' = [pc EXCEPT ![w] = "snapshot"]
    /\ attempt' = [attempt EXCEPT ![w] = 0]
    /\ UNCHANGED <<index, indexLock, target, cursor, persisted, outcomeVars,
                   budgetVars, mutex, what, base, cand, start, saved, calls>>

SwapLoses(w) ==
    /\ pc[w] = "cas" /\ ~RefMatches(w)
    /\ Retry(w)
    /\ UNCHANGED <<repoVars, calls, acked, unsynced, budgetVars>>

-----------------------------------------------------------------------------
\* Mutant: a cursor file that HEAD tracks is left to the reset.
SaveUntrackedCursor(w) ==
    /\ pc[w] = "snapshot"
    /\ saved' = [saved EXCEPT ![w] = IF head.cursor = 0 THEN cursor ELSE 0]
    /\ pc' = [pc EXCEPT ![w] = "reset"]
    /\ UNCHANGED <<repoVars, outcomeVars, budgetVars,
                   mutex, what, base, cand, attempt, start, calls>>

\* snapshotSidecar
SaveCursor(w) ==
    /\ pc[w] = "snapshot"
    /\ saved' = [saved EXCEPT ![w] = cursor]
    /\ pc' = [pc EXCEPT ![w] = "reset"]
    /\ UNCHANGED <<repoVars, outcomeVars, budgetVars,
                   mutex, what, base, cand, attempt, start, calls>>

\* Mutant: reset to the commit this call landed, not to HEAD.
ResetToOwnCommit(w) ==
    /\ pc[w] = "reset" /\ indexLock = Free
    /\ indexLock' = w
    /\ target' = cand[w]
    /\ pc' = [pc EXCEPT ![w] = "unpack"]
    /\ UNCHANGED <<head, index, cursor, persisted, outcomeVars, budgetVars,
                   mutex, what, base, cand, attempt, start, saved, calls>>

\* read-tree --reset -u HEAD takes index.lock, then resolves HEAD ...
ResetLocks(w) ==
    /\ pc[w] = "reset" /\ indexLock = Free
    /\ indexLock' = w
    /\ target' = head
    /\ pc' = [pc EXCEPT ![w] = "unpack"]
    /\ UNCHANGED <<head, index, cursor, persisted, outcomeVars, budgetVars,
                   mutex, what, base, cand, attempt, start, saved, calls>>

\* ... and replaces the index and every tracked file of the work tree.
Reset(w) ==
    /\ pc[w] = "unpack"
    /\ index' = target
    /\ cursor' = IF target.cursor = 0 THEN cursor ELSE target.cursor
    /\ indexLock' = Free
    /\ target' = NoCommit
    /\ pc' = [pc EXCEPT ![w] = "restore"]
    /\ UNCHANGED <<head, persisted, outcomeVars, budgetVars,
                   mutex, what, base, cand, attempt, start, saved, calls>>

\* restoreSidecar, and the return of the new commit's SHA.
Restore(w) ==
    /\ pc[w] = "restore"
    /\ cursor' = IF saved[w] = 0 THEN cursor ELSE saved[w]
    /\ acked' = [s \in Streams |->
                    IF s = what[w] THEN acked[s] \cup {Op(w)} ELSE acked[s]]
    /\ Return(w)
    /\ UNCHANGED <<head, index, indexLock, target, persisted,
                   rejected, unsynced, budgetVars, calls>>

\* Mutant: a sync that gave up sends the call round the commit loop again.
SyncErrorContinues(w) ==
    /\ pc' = [pc EXCEPT ![w] = "build"]
    /\ attempt' = [attempt EXCEPT ![w] = 0]
    /\ UNCHANGED <<unsynced, mutex, what, base, cand, start, saved>>

\* Mutant: a sync that gave up is nobody's business.
SyncErrorSwallowed(w) ==
    /\ unsynced' = unsynced
    /\ Return(w)

\* Mutant: an error path that forgets the mutex.
SyncErrorKeepsMutex(w) ==
    /\ unsynced' = unsynced \cup {Op(w)}
    /\ pc' = [pc EXCEPT ![w] = "idle"]
    /\ what' = [what EXCEPT ![w] = NoDoc]
    /\ UNCHANGED <<base, cand, attempt, start, saved, mutex>>

\* The error of syncWorkTree: the commit stays where it is.
SyncError(w) ==
    /\ unsynced' = unsynced \cup {Op(w)}
    /\ Return(w)

\* The read-tree loop goes round again, or gives up.
SyncRetry(w) ==
    \/ /\ attempt[w] + 1 < MaxSync
       /\ pc' = [pc EXCEPT ![w] = "reset"]
       /\ attempt' = [attempt EXCEPT ![w] = @ + 1]
       /\ UNCHANGED <<mutex, what, base, cand, start, saved, unsynced>>
    \/ attempt[w] + 1 >= MaxSync /\ SyncError(w)

\* index.lock exists, another git's or a dead one's.
ResetBusy(w) ==
    /\ pc[w] = "reset" /\ indexLock # Free
    /\ SyncRetry(w)
    /\ UNCHANGED <<repoVars, calls, acked, rejected, budgetVars>>

\* read-tree fails and removes its lock file.
ResetFails(w) ==
    /\ pc[w] = "unpack"
    /\ Fault /\ SyncRetry(w)
    /\ indexLock' = Free /\ target' = NoCommit
    /\ UNCHANGED <<head, index, cursor, persisted, calls, acked, rejected,
                   crashes, operator>>

\* A cursor file cannot be read or written back.
SidecarFails(w) ==
    /\ pc[w] \in {"snapshot", "restore"}
    /\ Fault /\ SyncError(w)
    /\ UNCHANGED <<repoVars, calls, acked, rejected, crashes, operator>>

-----------------------------------------------------------------------------
\* Process p dies: its calls are gone, the kernel drops its mutex, and the
\* index.lock of the git it was running stays.  A tracked cursor may already
\* have been reset.
Crash(p) ==
    /\ crashes < MaxCrashes /\ crashes' = crashes + 1
    /\ ~Idle(p)
    /\ LET gone == {w \in Writers : ProcOf[w] = p}
       IN /\ pc' = [w \in Writers |-> IF w \in gone THEN "idle" ELSE pc[w]]
          /\ what' = [w \in Writers |-> IF w \in gone THEN NoDoc ELSE what[w]]
          /\ base' = [w \in Writers |-> IF w \in gone THEN NoCommit ELSE base[w]]
          /\ cand' = [w \in Writers |-> IF w \in gone THEN NoCommit ELSE cand[w]]
          /\ attempt' = [w \in Writers |-> IF w \in gone THEN 0 ELSE attempt[w]]
          /\ start' = [w \in Writers |-> IF w \in gone THEN 0 ELSE start[w]]
          /\ saved' = [w \in Writers |-> IF w \in gone THEN 0 ELSE saved[w]]
          /\ \/ /\ indexLock \in gone
                /\ indexLock' = Stale /\ target' = NoCommit
                /\ cursor' \in {cursor} \cup ({target.cursor} \ {0})
             \/ indexLock \notin gone /\ UNCHANGED <<indexLock, target, cursor>>
    /\ mutex' = [mutex EXCEPT ![p] = Nobody]
    /\ UNCHANGED <<head, index, persisted, outcomeVars, calls, faults, operator>>

\* A connector of the scan writes its cursor file; the pull is over before the
\* scan's next store call begins.
PersistCursor ==
    /\ persisted < MaxCursor
    /\ Idle(ScanProc)
    /\ cursor' = persisted + 1 /\ persisted' = persisted + 1
    /\ UNCHANGED <<head, index, indexLock, target,
                   callVars, outcomeVars, budgetVars>>

\* The deployment commits the cursor after a run, with git's own add and
\* commit: the new commit holds whatever the real index holds.
OperatorCommit ==
    /\ operator < MaxOperator /\ operator' = operator + 1
    /\ AllIdle /\ indexLock = Free /\ cursor # 0
    /\ <<index.files, index.doc, cursor>> # <<head.files, head.doc, head.cursor>>
    /\ head' = [height |-> head.height + 1, files |-> index.files,
                doc |-> index.doc, cursor |-> cursor]
    /\ index' = head'
    /\ UNCHANGED <<indexLock, target, cursor, persisted,
                   callVars, outcomeVars, faults, crashes>>

Step(w) ==
    \/ Acquire(w) \/ Build(w) \/ SnapshotUnchanged(w)
    \/ Swap(w) \/ SwapLoses(w)
    \/ SaveCursor(w) \/ ResetLocks(w) \/ ResetBusy(w) \/ Reset(w) \/ Restore(w)

Next ==
    \/ \E w \in Writers :
          \/ \E x \in Streams \cup Docs : Call(w, x)
          \/ Step(w)
          \/ LoopFails(w) \/ ResetFails(w) \/ SidecarFails(w)
    \/ \E p \in Procs : Crash(p)
    \/ PersistCursor \/ OperatorCommit

\* A call that can go on does; nobody is obliged to call, to fail or to crash.
\* sync.Mutex hands itself to a waiter that has waited long enough, so a waiter
\* gets it even if it keeps being released and retaken.
Spec ==
    /\ Init /\ [][Next]_vars
    /\ \A w \in Writers : WF_vars(Step(w)) /\ SF_vars(Acquire(w))

-----------------------------------------------------------------------------
(* Properties *)

\* Types, and the attempt counter of either loop within its bound.
TypeOK ==
    /\ {head, index, target} \subseteq Commits
    /\ indexLock \in Writers \cup {Free, Stale}
    /\ cursor \in Nat /\ persisted \in Nat
    /\ mutex \in [Procs -> Writers \cup {Nobody}]
    /\ pc \in [Writers -> PCs]
    /\ what \in [Writers -> Streams \cup Docs \cup {NoDoc}]
    /\ base \in [Writers -> Commits] /\ cand \in [Writers -> Commits]
    /\ attempt \in [Writers -> Nat]
    /\ \A w \in Writers : /\ pc[w] \in InLoop => attempt[w] < MaxRetries
                          /\ pc[w] \in InSync => attempt[w] < MaxSync
    /\ start \in [Writers -> Nat] /\ saved \in [Writers -> Nat]
    /\ calls \in [Writers -> 0..MaxCalls]
    /\ acked \in [Streams -> SUBSET Ops]
    /\ rejected \subseteq Ops /\ unsynced \subseteq Ops
    /\ {faults, crashes, operator} \subseteq Nat

\* An append whose call returned without error is in the committed stream and
\* in the real index for good: neither another writer, a crash, nor a commit the
\* deployment makes from a drifted index (syncWorkTree's doc comment) drops it.
AckedDurable ==
    \A s \in Streams : acked[s] \subseteq ToSet(head.files[s])
                                          \cap ToSet(index.files[s])

\* The log holds each writer's calls in the order it made them, and none of
\* them twice, whatever was retried (commitAppend: "NO duplicate").
InOrder(f) ==
    \A s \in Streams : \A i, j \in DOMAIN f[s] :
        i < j /\ f[s][i].by = f[s][j].by => f[s][i].n < f[s][j].n

ProgramOrder == InOrder(head.files)

\* A call that gave up in the commit loop left nothing behind.
RejectedNeverLands ==
    \A s \in Streams : rejected \cap ToSet(head.files[s]) = {}

\* At rest, the index shows what HEAD holds unless a call reported that it could
\* not be reconciled, or a process died (the drift of mallcoppro-4fe).
NoSilentDrift ==
    AllIdle /\ crashes = 0 /\ unsynced = {} =>
        index.files = head.files /\ index.doc = head.doc

\* syncWorkTree: "in-flight cursor state always survives reconciliation, tracked
\* or not", as long as no process died and no call reported a failure.
CursorSurvives ==
    AllIdle /\ crashes = 0 /\ unsynced = {} => cursor = persisted

\* Every call returns: contention, failing git and a stale index.lock end in an
\* error, and no path leaves the mutex behind for the next call to hang on.
CallsReturn == \A w \in Writers : pc[w] # "idle" ~> pc[w] = "idle"

\* The store implements the acknowledged log.
Log == INSTANCE StoreLog WITH
           Entries <- Ops, log <- head.files, checkout <- index.files

ImplementsLog == Log!Spec
=============================================================================
