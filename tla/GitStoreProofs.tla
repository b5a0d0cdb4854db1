--------------------------- MODULE GitStoreProofs ---------------------------
(***************************************************************************)
(* GitStore's safety for every number of writers, processes, retries and   *)
(* faults, and that it implements StoreLog.                                *)
(*                                                                         *)
(* An acknowledgement is worth something because of what happened two      *)
(* steps earlier, so IInv follows a call through the commit loop: who may  *)
(* be inside it (LockInv), what its candidate commit is worth while HEAD   *)
(* has not moved (CandInv), that the index and the reset's target only     *)
(* ever trail HEAD (TrailInv), that a landed call is in every commit that  *)
(* can still reach the index (LandedInv), and that a call which has not    *)
(* landed is in none of them (FreshInv).                                   *)
(***************************************************************************)
EXTENDS GitStore, SequenceLemmas

LEMMA CommitFields ==
    ASSUME NEW c \in Commits
    PROVE  /\ c.height \in Nat /\ c.cursor \in Nat
           /\ c.files \in [Streams -> Seq(Ops)]
           /\ c.doc \in Docs \cup {NoDoc}
BY DEF Commits

LEMMA ChildIsCommit ==
    ASSUME NEW c \in Commits, NEW o \in Ops
    PROVE  Child(c, o) \in Commits
<1>1. c.files \in [Streams -> Seq(Ops)] /\ c.height \in Nat
  BY CommitFields
<1>2. [s \in Streams |-> IF s = o.what THEN Append(c.files[s], o)
                                      ELSE c.files[s]] \in [Streams -> Seq(Ops)]
  BY <1>1
<1>3. (IF o.what \in Docs THEN o.what ELSE c.doc) \in Docs \cup {NoDoc}
  BY CommitFields
<1>4. c.height + 1 \in Nat /\ c.cursor \in Nat
  BY <1>1, CommitFields
<1> QED  BY <1>2, <1>3, <1>4 DEF Child, Commits

\* A call under way knows what it writes and which call it is.
CallShape ==
    \A w \in Writers : pc[w] # "idle" => what[w] # NoDoc /\ calls[w] # 0

Typed == TypeOK /\ CallShape

LEMMA OpTyped ==
    ASSUME Typed, NEW w \in Writers, pc[w] # "idle"
    PROVE  Op(w) \in Ops
BY BoundAssumption DEF Op, Ops, Typed, TypeOK, CallShape

LEMMA NoCommitTyped == NoCommit \in Commits
BY DEF NoCommit, Commits

LEMMA TypedInit == Init => Typed
BY WriterAssumption, ContentAssumption, BoundAssumption, NoCommitTyped
   DEF Init, Typed, TypeOK, CallShape, PCs, InLoop, InSync

\* The types of what a call under way carries.
CallTypes ==
    /\ mutex \in [Procs -> Writers \cup {Nobody}] /\ pc \in [Writers -> PCs]
    /\ what \in [Writers -> Streams \cup Docs \cup {NoDoc}]
    /\ base \in [Writers -> Commits] /\ cand \in [Writers -> Commits]
    /\ attempt \in [Writers -> Nat]
    /\ \A w \in Writers : /\ pc[w] \in InLoop => attempt[w] < MaxRetries
                          /\ pc[w] \in InSync => attempt[w] < MaxSync
    /\ start \in [Writers -> Nat] /\ saved \in [Writers -> Nat]
    /\ CallShape

LEMMA ReturnTyped ==
    ASSUME Typed, NEW w \in Writers, Return(w), calls' = calls
    PROVE  CallTypes'
BY NoCommitTyped
   DEF Typed, TypeOK, CallShape, CallTypes, Return, PCs, InLoop, InSync

LEMMA RetryTyped ==
    ASSUME Typed, NEW w \in Writers, pc[w] \in InLoop, Retry(w), calls' = calls
    PROVE  CallTypes' /\ rejected' \subseteq Ops
<1>1. CASE /\ attempt[w] + 1 < MaxRetries
           /\ pc' = [pc EXCEPT ![w] = "build"]
           /\ attempt' = [attempt EXCEPT ![w] = @ + 1]
           /\ UNCHANGED <<mutex, what, base, cand, start, saved, rejected>>
  BY <1>1 DEF Typed, TypeOK, CallShape, CallTypes, PCs, InLoop, InSync
<1>2. CASE rejected' = rejected \cup {Op(w)} /\ Return(w)
  <2>1. Op(w) \in Ops
    BY OpTyped DEF InLoop
  <2> QED  BY <1>2, <2>1, ReturnTyped DEF Typed, TypeOK
<1> QED  BY <1>1, <1>2 DEF Retry

LEMMA SyncErrorTyped ==
    ASSUME Typed, NEW w \in Writers, pc[w] \in InSync, SyncError(w), calls' = calls
    PROVE  CallTypes' /\ unsynced' \subseteq Ops
<1>1. Op(w) \in Ops
  BY OpTyped DEF InSync
<1> QED  BY <1>1, ReturnTyped DEF SyncError, Typed, TypeOK

LEMMA SyncRetryTyped ==
    ASSUME Typed, NEW w \in Writers, pc[w] \in InSync, SyncRetry(w), calls' = calls
    PROVE  CallTypes' /\ unsynced' \subseteq Ops
<1>1. CASE /\ attempt[w] + 1 < MaxSync
           /\ pc' = [pc EXCEPT ![w] = "reset"]
           /\ attempt' = [attempt EXCEPT ![w] = @ + 1]
           /\ UNCHANGED <<mutex, what, base, cand, start, saved, unsynced>>
  BY <1>1 DEF Typed, TypeOK, CallShape, CallTypes, PCs, InLoop, InSync
<1>2. CASE SyncError(w)
  BY <1>2, SyncErrorTyped
<1> QED  BY <1>1, <1>2 DEF SyncRetry

LEMMA TypedStep == Typed /\ [Next]_vars => Typed'
<1> SUFFICES ASSUME Typed, [Next]_vars PROVE Typed'
  OBVIOUS
<1> USE WriterAssumption, ContentAssumption, BoundAssumption
<1> USE DEF Typed, TypeOK, CallShape, repoVars, outcomeVars, budgetVars, callVars
<1>1. ASSUME NEW w \in Writers, NEW x \in Streams \cup Docs, Call(w, x)
      PROVE  Typed'
  BY <1>1 DEF Call, PCs, InLoop, InSync
<1>2. ASSUME NEW w \in Writers, Acquire(w) PROVE Typed'
  <2>1. head.height + faults \in Nat
    <3>1. head.height \in Nat
      BY CommitFields
    <3> QED  BY <3>1
  <2> QED  BY <1>2, <2>1 DEF Acquire, PCs, InLoop, InSync
<1>3. ASSUME NEW w \in Writers, Build(w) PROVE Typed'
  <2>1. PICK c \in {head, NoCommit} :
           /\ base' = [base EXCEPT ![w] = c]
           /\ cand' = [cand EXCEPT ![w] = Child(c, Op(w))]
           /\ faults' \in {faults, faults + 1}
    BY <1>3 DEF Build, Fault
  <2>2. c \in Commits /\ Child(c, Op(w)) \in Commits
    BY <1>3, NoCommitTyped, OpTyped, ChildIsCommit DEF Build
  <2> QED  BY <1>3, <2>1, <2>2 DEF Build, PCs, InLoop, InSync
<1>4. ASSUME NEW w \in Writers, SnapshotUnchanged(w) PROVE Typed'
  BY <1>4, ReturnTyped DEF SnapshotUnchanged, CallTypes
<1>5. ASSUME NEW w \in Writers, LoopFails(w) PROVE Typed'
  BY <1>5, RetryTyped DEF LoopFails, Fault, CallTypes
<1>6. ASSUME NEW w \in Writers, Swap(w) PROVE Typed'
  BY <1>6 DEF Swap, PCs, InLoop, InSync
<1>7. ASSUME NEW w \in Writers, SwapLoses(w) PROVE Typed'
  <2>1. pc[w] \in InLoop
    BY <1>7 DEF SwapLoses, InLoop
  <2> QED  BY <1>7, <2>1, RetryTyped DEF SwapLoses, CallTypes
<1>8. ASSUME NEW w \in Writers, SaveCursor(w) PROVE Typed'
  BY <1>8 DEF SaveCursor, PCs, InLoop, InSync
<1>9. ASSUME NEW w \in Writers, ResetLocks(w) PROVE Typed'
  BY <1>9 DEF ResetLocks, PCs, InLoop, InSync
<1>10. ASSUME NEW w \in Writers, Reset(w) PROVE Typed'
  <2>1. target.cursor \in Nat
    BY CommitFields
  <2>2. cursor' \in Nat
    BY <1>10, <2>1 DEF Reset
  <2> QED  BY <1>10, <2>2, NoCommitTyped DEF Reset, PCs, InLoop, InSync
<1>11. ASSUME NEW w \in Writers, Restore(w) PROVE Typed'
  <2>1. Op(w) \in Ops
    BY <1>11, OpTyped DEF Restore
  <2>2. acked' \in [Streams -> SUBSET Ops] /\ cursor' \in Nat
    BY <1>11, <2>1 DEF Restore
  <2>3. CallTypes'
    BY <1>11, ReturnTyped DEF Restore
  <2> QED  BY <1>11, <2>2, <2>3 DEF Restore, CallTypes
<1>12. ASSUME NEW w \in Writers, ResetBusy(w) PROVE Typed'
  <2>1. pc[w] \in InSync
    BY <1>12 DEF ResetBusy, InSync
  <2> QED  BY <1>12, <2>1, SyncRetryTyped DEF ResetBusy, CallTypes
<1>13. ASSUME NEW w \in Writers, ResetFails(w) PROVE Typed'
  <2>1. pc[w] \in InSync
    BY <1>13 DEF ResetFails, InSync
  <2> QED  BY <1>13, <2>1, NoCommitTyped, SyncRetryTyped DEF ResetFails, Fault, CallTypes
<1>14. ASSUME NEW w \in Writers, SidecarFails(w) PROVE Typed'
  <2>1. pc[w] \in InSync
    BY <1>14 DEF SidecarFails, InSync
  <2> QED  BY <1>14, <2>1, SyncErrorTyped DEF SidecarFails, Fault, CallTypes
<1>15. ASSUME NEW p \in Procs, Crash(p) PROVE Typed'
  <2>1. target.cursor \in Nat
    BY CommitFields
  <2>2. /\ cursor' \in Nat /\ target' \in Commits
        /\ indexLock' \in Writers \cup {Free, Stale}
    BY <1>15, <2>1, NoCommitTyped DEF Crash
  <2>3. /\ pc' \in [Writers -> PCs]
        /\ \A w \in Writers : pc'[w] \in {"idle", pc[w]}
        /\ what' \in [Writers -> Streams \cup Docs \cup {NoDoc}]
        /\ \A w \in Writers : pc'[w] # "idle" => what'[w] = what[w]
    BY <1>15 DEF Crash, PCs, InLoop, InSync
  <2>4. base' \in [Writers -> Commits] /\ cand' \in [Writers -> Commits]
    BY <1>15, NoCommitTyped DEF Crash
  <2>5. /\ attempt' \in [Writers -> Nat] /\ start' \in [Writers -> Nat]
        /\ saved' \in [Writers -> Nat]
        /\ \A w \in Writers : pc'[w] # "idle" => attempt'[w] = attempt[w]
    BY <1>15 DEF Crash
  <2>6. mutex' \in [Procs -> Writers \cup {Nobody}] /\ crashes' \in Nat
    BY <1>15 DEF Crash
  <2>7. UNCHANGED <<head, index, persisted, outcomeVars, calls, faults, operator>>
    BY <1>15 DEF Crash
  <2> QED  BY <2>2, <2>3, <2>4, <2>5, <2>6, <2>7 DEF InLoop, InSync
<1>16. CASE PersistCursor
  BY <1>16 DEF PersistCursor
<1>17. CASE OperatorCommit
  <2>1. head' \in Commits
    <3>1. head.height + 1 \in Nat
      <4>1. head.height \in Nat
        BY CommitFields
      <4> QED  BY <4>1
    <3>2. /\ index.files \in [Streams -> Seq(Ops)]
          /\ index.doc \in Docs \cup {NoDoc}
      BY CommitFields
    <3> QED  BY <1>17, <3>1, <3>2 DEF OperatorCommit, Commits
  <2> QED  BY <1>17, <2>1 DEF OperatorCommit
<1>18. CASE UNCHANGED vars
  BY <1>18 DEF vars
<1> QED
  BY <1>1, <1>2, <1>3, <1>4, <1>5, <1>6, <1>7, <1>8, <1>9, <1>10, <1>11,
     <1>12, <1>13, <1>14, <1>15, <1>16, <1>17, <1>18
     DEF Next, Step

\* TLC checks TypeOK on a small instance; it holds for any processes, writers,
\* streams and bounds.
THEOREM TypeCorrect == Spec => []TypeOK
<1>1. Typed => TypeOK
  BY DEF Typed
<1> QED  BY <1>1, TypedInit, TypedStep, PTL DEF Spec

-----------------------------------------------------------------------------
(* The inductive invariant behind the safety properties. *)

Prefixed(f, g) == \A s \in Streams : IsPrefix(f[s], g[s])

\* At most one git holds index.lock, and it is in read-tree.
LockInv == \A w \in Writers : pc[w] = "unpack" <=> indexLock = w

\* What an attempt wants to land is the child of the commit it read.
CandInv == \A w \in Writers : pc[w] = "cas" => cand[w] = Child(base[w], Op(w))

\* The index trails HEAD along every stream, and so does what a git in
\* read-tree is about to put there.
TrailInv ==
    /\ Prefixed(index.files, head.files)
    /\ indexLock \in Writers => /\ Prefixed(index.files, target.files)
                                /\ Prefixed(target.files, head.files)

\* Where an append that won its swap can be found, stage by stage.
LandedInv ==
    \A w \in Writers : Appends(w) =>
        /\ pc[w] \in InSync => Op(w) \in ToSet(head.files[what[w]])
        /\ pc[w] = "unpack" => Op(w) \in ToSet(target.files[what[w]])
        /\ pc[w] = "restore" => Op(w) \in ToSet(index.files[what[w]])

\* Old(w, e): if w wrote e, then in an earlier call than it is trying to land.
Old(w, e) ==
    e.by = w => /\ e.n <= calls[w]
                /\ pc[w] \in {"lock"} \cup InLoop => e.n < calls[w]

FreshInv ==
    \A w \in Writers :
        /\ \A s \in Streams : \A e \in ToSet(head.files[s]) : Old(w, e)
        /\ \A e \in rejected : Old(w, e)

AckedInv == \A s \in Streams : acked[s] \subseteq ToSet(index.files[s])

IInv == /\ Typed /\ LockInv /\ CandInv /\ TrailInv /\ LandedInv
        /\ FreshInv /\ AckedInv /\ ProgramOrder /\ RejectedNeverLands

LEMMA ChildFiles ==
    ASSUME NEW c \in Commits, NEW o \in Ops, NEW s \in Streams
    PROVE  /\ IsPrefix(c.files[s], Child(c, o).files[s])
           /\ ToSet(Child(c, o).files[s]) =
                  ToSet(c.files[s]) \cup (IF s = o.what THEN {o} ELSE {})
<1>1. c.files[s] \in Seq(Ops)
  BY CommitFields
<1>2. Child(c, o).files[s] = IF s = o.what THEN Append(c.files[s], o)
                                          ELSE c.files[s]
  BY DEF Child
<1> QED  BY <1>1, <1>2, PrefixReflexive, PrefixOfAppend, ToSetOfAppend

LEMMA FilesTyped ==
    ASSUME NEW c \in Commits, NEW s \in Streams
    PROVE  c.files[s] \in Seq(Ops) /\ ToSet(c.files[s]) \subseteq Ops
<1>1. c.files[s] \in Seq(Ops)
  BY CommitFields
<1> QED  BY <1>1 DEF ToSet

LEMMA PrefixedReflexive ==
    ASSUME NEW c \in Commits
    PROVE  Prefixed(c.files, c.files)
BY FilesTyped, PrefixReflexive DEF Prefixed

LEMMA PrefixedTransitive ==
    ASSUME NEW c \in Commits, NEW d \in Commits, NEW e \in Commits,
           Prefixed(c.files, d.files), Prefixed(d.files, e.files)
    PROVE  Prefixed(c.files, e.files)
BY FilesTyped, PrefixTransitive DEF Prefixed

LEMMA PrefixedToSet ==
    ASSUME NEW c \in Commits, NEW d \in Commits, Prefixed(c.files, d.files),
           NEW s \in Streams
    PROVE  ToSet(c.files[s]) \subseteq ToSet(d.files[s])
BY FilesTyped, PrefixToSet DEF Prefixed

LEMMA InOrderOfPrefix ==
    ASSUME NEW c \in Commits, NEW d \in Commits, Prefixed(c.files, d.files),
           InOrder(d.files)
    PROVE  InOrder(c.files)
<1> SUFFICES ASSUME NEW s \in Streams
             PROVE  \A i, j \in DOMAIN c.files[s] :
                       i < j /\ c.files[s][i].by = c.files[s][j].by
                          => c.files[s][i].n < c.files[s][j].n
  BY DEF InOrder
<1>1. c.files[s] \in Seq(Ops) /\ d.files[s] \in Seq(Ops)
  BY FilesTyped
<1>2. /\ Len(c.files[s]) <= Len(d.files[s])
      /\ \A i \in 1..Len(c.files[s]) : c.files[s][i] = d.files[s][i]
  BY <1>1, PrefixElements DEF Prefixed
<1>3. \A i \in DOMAIN c.files[s] : i \in DOMAIN d.files[s]
  BY <1>1, <1>2
<1>4. \A i, j \in DOMAIN d.files[s] :
         i < j /\ d.files[s][i].by = d.files[s][j].by
            => d.files[s][i].n < d.files[s][j].n
  BY DEF InOrder
<1>5. DOMAIN c.files[s] = 1..Len(c.files[s])
  BY <1>1
<1> QED  BY <1>2, <1>3, <1>4, <1>5

\* Appending an operation later than all its writer has in the stream.
LEMMA InOrderOfChild ==
    ASSUME NEW c \in Commits, NEW o \in Ops, InOrder(c.files),
           \A s \in Streams : \A e \in ToSet(c.files[s]) : e.by = o.by => e.n < o.n
    PROVE  InOrder(Child(c, o).files)
<1> SUFFICES ASSUME NEW s \in Streams
             PROVE  \A i, j \in DOMAIN Child(c, o).files[s] :
                       i < j /\ Child(c, o).files[s][i].by = Child(c, o).files[s][j].by
                          => Child(c, o).files[s][i].n < Child(c, o).files[s][j].n
  BY DEF InOrder
<1>1. c.files[s] \in Seq(Ops)
  BY FilesTyped
<1>2. CASE s # o.what
  BY <1>2 DEF Child, InOrder
<1>3. CASE s = o.what
  <2>1. Child(c, o).files[s] = Append(c.files[s], o)
    BY <1>3 DEF Child
  <2>2. /\ DOMAIN Append(c.files[s], o) = 1..(Len(c.files[s]) + 1)
        /\ DOMAIN c.files[s] = 1..Len(c.files[s]) /\ Len(c.files[s]) \in Nat
        /\ \A i \in 1..Len(c.files[s]) : Append(c.files[s], o)[i] = c.files[s][i]
        /\ Append(c.files[s], o)[Len(c.files[s]) + 1] = o
    BY <1>1
  <2>3. \A i \in 1..Len(c.files[s]) : c.files[s][i].by = o.by => c.files[s][i].n < o.n
    BY <2>2 DEF ToSet
  <2>4. \A i, j \in 1..(Len(c.files[s]) + 1) :
           i < j => \/ j \in 1..Len(c.files[s]) /\ i \in 1..Len(c.files[s])
                    \/ j = Len(c.files[s]) + 1 /\ i \in 1..Len(c.files[s])
    BY <2>2
  <2> QED  BY <2>1, <2>2, <2>3, <2>4 DEF InOrder
<1> QED  BY <1>2, <1>3

LEMMA IInvInit == Init => IInv
<1> SUFFICES ASSUME Init PROVE IInv
  OBVIOUS
<1>1. Typed
  BY TypedInit
<1>2. /\ head.files = index.files
      /\ \A s \in Streams : head.files[s] = <<>>
  BY DEF Init, NoCommit
<1>3. Prefixed(head.files, head.files) /\ \A s \in Streams : ToSet(head.files[s]) = {}
  BY <1>2 DEF Prefixed, IsPrefix, ToSet
<1>4. indexLock \notin Writers /\ \A w \in Writers : pc[w] = "idle"
  BY WriterAssumption DEF Init
<1>5. ProgramOrder
  BY <1>2 DEF ProgramOrder, InOrder
<1> QED
  BY <1>1, <1>2, <1>3, <1>4, <1>5 DEF Init, IInv, LockInv, CandInv, TrailInv,
     LandedInv, InSync, FreshInv, AckedInv, RejectedNeverLands

\* A call that goes round the loop again, or gives up, was in no stream and is not.
LEMMA RetryFresh ==
    ASSUME Typed, FreshInv, RejectedNeverLands, NEW w \in Writers,
           pc[w] \in InLoop, Retry(w), UNCHANGED <<head, calls>>
    PROVE  FreshInv' /\ RejectedNeverLands'
<1> USE DEF Typed, TypeOK
<1>1. CASE /\ pc' = [pc EXCEPT ![w] = "build"]
           /\ UNCHANGED <<what, rejected>>
  BY <1>1 DEF FreshInv, RejectedNeverLands, Old, InLoop
<1>2. CASE rejected' = rejected \cup {Op(w)} /\ Return(w)
  <2>1. pc' = [pc EXCEPT ![w] = "idle"]
    BY <1>2 DEF Return
  <2>2. \A v \in Writers, e \in Ops : Old(v, e) => Old(v, e)'
    BY <2>1 DEF Old, InLoop
  <2>3. \A v \in Writers, e \in {Op(w)} : Old(v, e)'
    BY <2>1 DEF Old, Op, InLoop
  <2>4. \A s \in Streams : ToSet(head.files[s]) \subseteq Ops
    BY FilesTyped
  <2>5. FreshInv'
    <3>1. ASSUME NEW v \in Writers, NEW s \in Streams, NEW e \in ToSet(head'.files[s])
          PROVE  Old(v, e)'
      BY <2>2, <2>4 DEF FreshInv
    <3>2. ASSUME NEW v \in Writers, NEW e \in rejected' PROVE Old(v, e)'
      <4>1. CASE e = Op(w)
        BY <2>3, <4>1
      <4>2. CASE e \in rejected
        <5>1. e \in Ops /\ Old(v, e)
          BY <4>2 DEF FreshInv
        <5> QED  BY <2>2, <5>1
      <4> QED  BY <1>2, <4>1, <4>2
    <3> HIDE DEF Typed, TypeOK
    <3> QED  BY <3>1, <3>2 DEF FreshInv
  <2>6. \A s \in Streams : Op(w) \notin ToSet(head.files[s])
    BY DEF FreshInv, Old, Op
  <2>7. RejectedNeverLands'
    BY <1>2, <2>6 DEF RejectedNeverLands
  <2> QED  BY <2>5, <2>7
<1> QED  BY <1>1, <1>2 DEF Retry

LEMMA IInvStep == IInv /\ [Next]_vars => IInv'
<1> SUFFICES ASSUME IInv, [Next]_vars PROVE IInv'
  OBVIOUS
<1> USE WriterAssumption
<1> USE DEF Typed, TypeOK, repoVars, outcomeVars, budgetVars, callVars
<1>0. Typed /\ Typed'
  BY TypedStep DEF IInv
<1>1. ASSUME NEW w \in Writers, NEW x \in Streams \cup Docs, Call(w, x) PROVE IInv'
  <2>1. LockInv' /\ TrailInv' /\ AckedInv'
    BY <1>0, <1>1 DEF Call, IInv, LockInv, TrailInv, AckedInv, InLoop, InSync
  <2>2. CandInv'
    BY <1>0, <1>1 DEF Call, IInv, CandInv, Op, InLoop, InSync
  <2>3. LandedInv'
    BY <1>0, <1>1 DEF Call, IInv, LandedInv, LockInv, Op, Appends, InLoop, InSync
  <2>4. FreshInv' /\ RejectedNeverLands'
    <3>1. \A e \in Ops : e.n \in Nat
      BY BoundAssumption DEF Ops
    <3>2. /\ \A s \in Streams : ToSet(head.files[s]) \subseteq Ops
          /\ rejected \subseteq Ops
      BY <1>0, FilesTyped
    <3> QED  BY <1>0, <1>1, <3>1, <3>2, BoundAssumption
                DEF Call, IInv, FreshInv, RejectedNeverLands, Old, InLoop
  <2>5. ProgramOrder'
    BY <1>0, <1>1 DEF Call, IInv, ProgramOrder, InOrder
  <2> QED  BY <1>0, <2>1, <2>2, <2>3, <2>4, <2>5 DEF IInv
<1>2. ASSUME NEW w \in Writers, Acquire(w) PROVE IInv'
  <2>1. LockInv' /\ TrailInv' /\ AckedInv'
    BY <1>0, <1>2 DEF Acquire, IInv, LockInv, TrailInv, AckedInv, InLoop, InSync
  <2>2. CandInv'
    BY <1>0, <1>2 DEF Acquire, IInv, CandInv, Op, InLoop, InSync
  <2>3. LandedInv'
    BY <1>0, <1>2 DEF Acquire, IInv, LandedInv, LockInv, Op, Appends, InLoop, InSync
  <2>4. FreshInv' /\ RejectedNeverLands'
    BY <1>0, <1>2 DEF Acquire, IInv, FreshInv, RejectedNeverLands, Old, Op, InLoop, InSync
  <2>5. ProgramOrder'
    BY <1>0, <1>2 DEF Acquire, IInv, ProgramOrder, InOrder
  <2> QED  BY <1>0, <2>1, <2>2, <2>3, <2>4, <2>5 DEF IInv
<1>3. ASSUME NEW w \in Writers, Build(w) PROVE IInv'
  <2>1. LockInv' /\ TrailInv' /\ AckedInv'
    BY <1>0, <1>3 DEF Build, IInv, LockInv, TrailInv, AckedInv, InLoop, InSync
  <2>2. CandInv'
    BY <1>0, <1>3 DEF Build, IInv, CandInv, Op, InLoop, InSync
  <2>3. LandedInv'
    BY <1>0, <1>3 DEF Build, IInv, LandedInv, LockInv, Op, Appends, InLoop, InSync
  <2>4. FreshInv' /\ RejectedNeverLands'
    BY <1>0, <1>3 DEF Build, IInv, FreshInv, RejectedNeverLands, Old, Op, InLoop, InSync
  <2>5. ProgramOrder'
    BY <1>0, <1>3 DEF Build, IInv, ProgramOrder, InOrder
  <2> QED  BY <1>0, <2>1, <2>2, <2>3, <2>4, <2>5 DEF IInv
<1>4. ASSUME NEW w \in Writers, SnapshotUnchanged(w) PROVE IInv'
  <2>1. LockInv' /\ TrailInv' /\ AckedInv'
    BY <1>0, <1>4 DEF SnapshotUnchanged, Return, IInv, LockInv, TrailInv, AckedInv, InLoop, InSync
  <2>2. CandInv'
    BY <1>0, <1>4 DEF SnapshotUnchanged, Return, IInv, CandInv, Op, InLoop, InSync
  <2>3. LandedInv'
    BY <1>0, <1>4 DEF SnapshotUnchanged, Return, IInv, LandedInv, LockInv, Op, Appends, InLoop, InSync
  <2>4. FreshInv' /\ RejectedNeverLands'
    BY <1>0, <1>4 DEF SnapshotUnchanged, Return, IInv, FreshInv, RejectedNeverLands, Old, Op, InLoop, InSync
  <2>5. ProgramOrder'
    BY <1>0, <1>4 DEF SnapshotUnchanged, Return, IInv, ProgramOrder, InOrder
  <2> QED  BY <1>0, <2>1, <2>2, <2>3, <2>4, <2>5 DEF IInv
<1>5. ASSUME NEW w \in Writers, LoopFails(w) PROVE IInv'
  <2>1. LockInv' /\ TrailInv' /\ AckedInv'
    BY <1>0, <1>5 DEF LoopFails, Retry, Return, IInv, LockInv, TrailInv, AckedInv, InLoop, InSync
  <2>2. CandInv'
    BY <1>0, <1>5 DEF LoopFails, Retry, Return, IInv, CandInv, Op, InLoop, InSync
  <2>3. LandedInv'
    BY <1>0, <1>5 DEF LoopFails, Retry, Return, IInv, LandedInv, LockInv, Op, Appends, InLoop, InSync
  <2>4. FreshInv' /\ RejectedNeverLands'
    BY <1>0, <1>5, RetryFresh DEF LoopFails, IInv
  <2>5. ProgramOrder'
    BY <1>0, <1>5 DEF LoopFails, Retry, Return, IInv, ProgramOrder, InOrder
  <2> QED  BY <1>0, <2>1, <2>2, <2>3, <2>4, <2>5 DEF IInv
<1>6. ASSUME NEW w \in Writers, Swap(w) PROVE IInv'
  <2>0. /\ Op(w) \in Ops /\ head' = Child(head, Op(w)) /\ Op(w)' = Op(w)
        /\ UNCHANGED <<index, target, indexLock, what, calls, acked, rejected>>
    BY <1>0, <1>6, OpTyped DEF Swap, RefMatches, IInv, CandInv, Op
  <2>1. Prefixed(head.files, head'.files)
    BY <1>0, <2>0, ChildFiles DEF Prefixed
  <2>2. \A s \in Streams : ToSet(head'.files[s]) =
           ToSet(head.files[s]) \cup (IF s = what[w] THEN {Op(w)} ELSE {})
    <3>1. Op(w).what = what[w]
      BY DEF Op
    <3>2. head \in Commits
      BY <1>0
    <3>3. \A s \in Streams : ToSet(Child(head, Op(w)).files[s]) =
             ToSet(head.files[s]) \cup (IF s = Op(w).what THEN {Op(w)} ELSE {})
      BY <2>0, <3>2, ChildFiles
    <3> QED  BY <2>0, <3>1, <3>3
  <2>3. LockInv' /\ CandInv' /\ AckedInv'
    BY <1>0, <1>6 DEF Swap, IInv, LockInv, CandInv, AckedInv, Op
  <2>4. TrailInv'
    BY <1>0, <2>0, <2>1, PrefixedTransitive DEF IInv, TrailInv
  <2>5. LandedInv'
    BY <1>0, <1>6, <2>0, <2>2 DEF Swap, IInv, LandedInv, Op, Appends, InSync
  <2>6. FreshInv' /\ RejectedNeverLands'
    <3>1. \A v \in Writers : pc'[v] = IF v = w THEN "snapshot" ELSE pc[v]
      BY <1>0, <1>6 DEF Swap
    <3>2. \A v \in Writers, e \in Ops : Old(v, e) => Old(v, e)'
      BY <2>0, <3>1 DEF Old, InLoop
    <3>3. \A v \in Writers, e \in {Op(w)} : Old(v, e)'
      BY <1>0, <2>0, <3>1 DEF Old, Op, InLoop
    <3>4. \A s \in Streams : ToSet(head.files[s]) \subseteq Ops
      BY <1>0, FilesTyped
    <3>5. FreshInv'
      <4>1. ASSUME NEW v \in Writers, NEW s \in Streams, NEW e \in ToSet(head'.files[s])
            PROVE  Old(v, e)'
        <5>1. CASE e = Op(w)
          BY <3>3, <5>1
        <5>2. CASE e \in ToSet(head.files[s])
          <6>1. e \in Ops /\ Old(v, e)
            BY <3>4, <5>2 DEF IInv, FreshInv
          <6> QED  BY <3>2, <6>1
        <5> QED  BY <2>2, <5>1, <5>2
      <4>2. ASSUME NEW v \in Writers, NEW e \in rejected' PROVE Old(v, e)'
        BY <1>0, <2>0, <3>2 DEF IInv, FreshInv
      <4> HIDE DEF Typed, TypeOK
      <4> QED  BY <4>1, <4>2 DEF FreshInv
    <3>6. Op(w) \notin rejected
      BY <1>0, <1>6 DEF Swap, IInv, FreshInv, Old, Op, InLoop
    <3>7. RejectedNeverLands'
      <4> HIDE DEF Typed, TypeOK
      <4> QED  BY <2>0, <2>2, <3>6 DEF IInv, RejectedNeverLands
    <3> QED  BY <3>5, <3>7
  <2>7. \A s \in Streams : \A e \in ToSet(head.files[s]) : e.by = w => e.n < calls[w]
    BY <1>6 DEF Swap, IInv, FreshInv, Old, InLoop
  <2>8. ProgramOrder'
    BY <1>0, <2>0, <2>7, InOrderOfChild DEF IInv, ProgramOrder, Op
  <2> QED  BY <1>0, <2>3, <2>4, <2>5, <2>6, <2>8 DEF IInv
<1>7. ASSUME NEW w \in Writers, SwapLoses(w) PROVE IInv'
  <2>1. LockInv' /\ TrailInv' /\ AckedInv'
    BY <1>0, <1>7 DEF SwapLoses, Retry, Return, IInv, LockInv, TrailInv, AckedInv, InLoop, InSync
  <2>2. CandInv'
    BY <1>0, <1>7 DEF SwapLoses, Retry, Return, IInv, CandInv, Op, InLoop, InSync
  <2>3. LandedInv'
    BY <1>0, <1>7 DEF SwapLoses, Retry, Return, IInv, LandedInv, LockInv, Op, Appends, InLoop, InSync
  <2>4. FreshInv' /\ RejectedNeverLands'
    BY <1>0, <1>7, RetryFresh DEF SwapLoses, IInv, InLoop
  <2>5. ProgramOrder'
    BY <1>0, <1>7 DEF SwapLoses, Retry, Return, IInv, ProgramOrder, InOrder
  <2> QED  BY <1>0, <2>1, <2>2, <2>3, <2>4, <2>5 DEF IInv
<1>8. ASSUME NEW w \in Writers, SaveCursor(w) PROVE IInv'
  <2>1. LockInv' /\ TrailInv' /\ AckedInv'
    BY <1>0, <1>8 DEF SaveCursor, IInv, LockInv, TrailInv, AckedInv, InLoop, InSync
  <2>2. CandInv'
    BY <1>0, <1>8 DEF SaveCursor, IInv, CandInv, Op, InLoop, InSync
  <2>3. LandedInv'
    BY <1>0, <1>8 DEF SaveCursor, IInv, LandedInv, LockInv, Op, Appends, InLoop, InSync
  <2>4. FreshInv' /\ RejectedNeverLands'
    BY <1>0, <1>8 DEF SaveCursor, IInv, FreshInv, RejectedNeverLands, Old, Op, InLoop, InSync
  <2>5. ProgramOrder'
    BY <1>0, <1>8 DEF SaveCursor, IInv, ProgramOrder, InOrder
  <2> QED  BY <1>0, <2>1, <2>2, <2>3, <2>4, <2>5 DEF IInv
<1>9. ASSUME NEW w \in Writers, ResetLocks(w) PROVE IInv'
  <2>1. LockInv' /\ TrailInv' /\ AckedInv'
    BY <1>0, <1>9, PrefixedReflexive
       DEF ResetLocks, IInv, LockInv, TrailInv, AckedInv
  <2>2. CandInv'
    BY <1>0, <1>9 DEF ResetLocks, IInv, CandInv, Op, InLoop, InSync
  <2>3. LandedInv'
    BY <1>0, <1>9 DEF ResetLocks, IInv, LandedInv, LockInv, Op, Appends, InLoop, InSync
  <2>4. FreshInv' /\ RejectedNeverLands'
    BY <1>0, <1>9 DEF ResetLocks, IInv, FreshInv, RejectedNeverLands, Old, Op, InLoop, InSync
  <2>5. ProgramOrder'
    BY <1>0, <1>9 DEF ResetLocks, IInv, ProgramOrder, InOrder
  <2> QED  BY <1>0, <2>1, <2>2, <2>3, <2>4, <2>5 DEF IInv
<1>10. ASSUME NEW w \in Writers, Reset(w) PROVE IInv'
  <2>0. indexLock = w /\ index' = target /\ UNCHANGED <<head, acked, what, calls>>
    BY <1>10 DEF Reset, IInv, LockInv
  <2>1. LockInv' /\ CandInv' /\ ProgramOrder'
    BY <1>0, <1>10, <2>0 DEF Reset, IInv, LockInv, CandInv, ProgramOrder, InOrder, Op
  <2>2. TrailInv'
    BY <1>10, <2>0 DEF Reset, IInv, TrailInv
  <2>3. \A s \in Streams : ToSet(index.files[s]) \subseteq ToSet(index'.files[s])
    BY <1>0, <2>0, PrefixedToSet DEF IInv, TrailInv
  <2>4. LandedInv'
    <3>1. \A v \in Writers : /\ Op(v)' = Op(v) /\ Appends(v)' = Appends(v)
                            /\ pc'[v] = IF v = w THEN "restore" ELSE pc[v]
      BY <1>0, <1>10, <2>0 DEF Reset, Op, Appends
    <3>2. Appends(w) => Op(w) \in ToSet(index'.files[what[w]])
      BY <1>10, <2>0 DEF Reset, IInv, LandedInv
    <3>3. \A v \in Writers : v # w => pc[v] # "unpack"
      BY <2>0 DEF IInv, LockInv
    <3>4. ASSUME NEW v \in Writers, Appends(v)'
          PROVE  /\ pc'[v] \in InSync => Op(v)' \in ToSet(head'.files[what'[v]])
                 /\ pc'[v] = "unpack" => Op(v)' \in ToSet(target'.files[what'[v]])
                 /\ pc'[v] = "restore" => Op(v)' \in ToSet(index'.files[what'[v]])
      <4>1. /\ Appends(v) /\ what'[v] = what[v] /\ what[v] \in Streams
            /\ head' = head /\ Op(v)' = Op(v)
        BY <2>0, <3>1, <3>4 DEF Appends
      <4>2. pc'[v] \in InSync => pc[v] \in InSync
        BY <1>10, <3>1 DEF Reset, InSync
      <4>3. pc'[v] # "unpack"
        BY <3>1, <3>3
      <4>4. pc'[v] = "restore" /\ v # w =>
               Op(v) \in ToSet(index.files[what[v]])
        BY <3>1, <4>1 DEF IInv, LandedInv
      <4>5. pc'[v] \in InSync => Op(v)' \in ToSet(head'.files[what'[v]])
        BY <4>1, <4>2 DEF IInv, LandedInv
      <4>6. pc'[v] = "restore" => Op(v) \in ToSet(index'.files[what[v]])
        BY <2>3, <3>2, <4>1, <4>4
      <4> QED  BY <4>1, <4>3, <4>5, <4>6
    <3> QED  BY <3>4 DEF LandedInv
  <2>5. AckedInv'
    BY <2>0, <2>3 DEF IInv, AckedInv
  <2>6. FreshInv' /\ RejectedNeverLands'
    BY <1>0, <1>10 DEF Reset, IInv, FreshInv, RejectedNeverLands, Old, InLoop
  <2> QED  BY <1>0, <2>1, <2>2, <2>4, <2>5, <2>6 DEF IInv
<1>11. ASSUME NEW w \in Writers, Restore(w) PROVE IInv'
  <2>1. LockInv' /\ TrailInv' /\ AckedInv'
    BY <1>0, <1>11
       DEF Restore, Return, IInv, LockInv, TrailInv, LandedInv, AckedInv, Appends, InSync
  <2>2. CandInv'
    BY <1>0, <1>11 DEF Restore, Return, IInv, CandInv, Op, InLoop, InSync
  <2>3. LandedInv'
    BY <1>0, <1>11 DEF Restore, Return, IInv, LandedInv, LockInv, Op, Appends, InLoop, InSync
  <2>4. FreshInv' /\ RejectedNeverLands'
    BY <1>0, <1>11 DEF Restore, Return, IInv, FreshInv, RejectedNeverLands, Old, Op, InLoop, InSync
  <2>5. ProgramOrder'
    BY <1>0, <1>11 DEF Restore, Return, IInv, ProgramOrder, InOrder
  <2> QED  BY <1>0, <2>1, <2>2, <2>3, <2>4, <2>5 DEF IInv
<1>12. ASSUME NEW w \in Writers, ResetBusy(w) PROVE IInv'
  <2>1. LockInv' /\ TrailInv' /\ AckedInv'
    BY <1>0, <1>12 DEF ResetBusy, SyncRetry, SyncError, Return, IInv, LockInv, TrailInv, AckedInv, InLoop, InSync
  <2>2. CandInv'
    BY <1>0, <1>12 DEF ResetBusy, SyncRetry, SyncError, Return, IInv, CandInv, Op, InLoop, InSync
  <2>3. LandedInv'
    BY <1>0, <1>12 DEF ResetBusy, SyncRetry, SyncError, Return, IInv, LandedInv, LockInv, Op, Appends, InLoop, InSync
  <2>4. FreshInv' /\ RejectedNeverLands'
    BY <1>0, <1>12 DEF ResetBusy, SyncRetry, SyncError, Return, IInv, FreshInv, RejectedNeverLands, Old, Op, InLoop, InSync
  <2>5. ProgramOrder'
    BY <1>0, <1>12 DEF ResetBusy, SyncRetry, SyncError, Return, IInv, ProgramOrder, InOrder
  <2> QED  BY <1>0, <2>1, <2>2, <2>3, <2>4, <2>5 DEF IInv
<1>13. ASSUME NEW w \in Writers, ResetFails(w) PROVE IInv'
  <2>1. LockInv' /\ TrailInv' /\ AckedInv'
    BY <1>0, <1>13 DEF ResetFails, SyncRetry, SyncError, Return, IInv, LockInv, TrailInv, AckedInv, InLoop, InSync
  <2>2. CandInv'
    BY <1>0, <1>13 DEF ResetFails, SyncRetry, SyncError, Return, IInv, CandInv, Op, InLoop, InSync
  <2>3. LandedInv'
    BY <1>0, <1>13 DEF ResetFails, SyncRetry, SyncError, Return, IInv, LandedInv, LockInv, Op, Appends, InLoop, InSync
  <2>4. FreshInv' /\ RejectedNeverLands'
    BY <1>0, <1>13 DEF ResetFails, SyncRetry, SyncError, Return, IInv, FreshInv, RejectedNeverLands, Old, Op, InLoop, InSync
  <2>5. ProgramOrder'
    BY <1>0, <1>13 DEF ResetFails, SyncRetry, SyncError, Return, IInv, ProgramOrder, InOrder
  <2> QED  BY <1>0, <2>1, <2>2, <2>3, <2>4, <2>5 DEF IInv
<1>14. ASSUME NEW w \in Writers, SidecarFails(w) PROVE IInv'
  <2>1. LockInv' /\ TrailInv' /\ AckedInv'
    BY <1>0, <1>14 DEF SidecarFails, SyncError, Return, IInv, LockInv, TrailInv, AckedInv, InLoop, InSync
  <2>2. CandInv'
    BY <1>0, <1>14 DEF SidecarFails, SyncError, Return, IInv, CandInv, Op, InLoop, InSync
  <2>3. LandedInv'
    BY <1>0, <1>14 DEF SidecarFails, SyncError, Return, IInv, LandedInv, LockInv, Op, Appends, InLoop, InSync
  <2>4. FreshInv' /\ RejectedNeverLands'
    BY <1>0, <1>14 DEF SidecarFails, SyncError, Return, IInv, FreshInv, RejectedNeverLands, Old, Op, InLoop, InSync
  <2>5. ProgramOrder'
    BY <1>0, <1>14 DEF SidecarFails, SyncError, Return, IInv, ProgramOrder, InOrder
  <2> QED  BY <1>0, <2>1, <2>2, <2>3, <2>4, <2>5 DEF IInv
<1>15. ASSUME NEW p \in Procs, Crash(p) PROVE IInv'
  <2>1. LockInv' /\ TrailInv' /\ AckedInv'
    BY <1>0, <1>15 DEF Crash, IInv, LockInv, TrailInv, AckedInv, InLoop, InSync
  <2>2. CandInv'
    BY <1>0, <1>15 DEF Crash, IInv, CandInv, Op, InLoop, InSync
  <2>3. LandedInv'
    BY <1>0, <1>15 DEF Crash, IInv, LandedInv, LockInv, Op, Appends, InLoop, InSync
  <2>4. FreshInv' /\ RejectedNeverLands'
    BY <1>0, <1>15 DEF Crash, IInv, FreshInv, RejectedNeverLands, Old, Op, InLoop, InSync
  <2>5. ProgramOrder'
    BY <1>0, <1>15 DEF Crash, IInv, ProgramOrder, InOrder
  <2> QED  BY <1>0, <2>1, <2>2, <2>3, <2>4, <2>5 DEF IInv
<1>16. CASE PersistCursor
  <2>1. LockInv' /\ TrailInv' /\ AckedInv'
    BY <1>0, <1>16 DEF PersistCursor, IInv, LockInv, TrailInv, AckedInv, InLoop, InSync
  <2>2. CandInv'
    BY <1>0, <1>16 DEF PersistCursor, IInv, CandInv, Op, InLoop, InSync
  <2>3. LandedInv'
    BY <1>0, <1>16 DEF PersistCursor, IInv, LandedInv, LockInv, Op, Appends, InLoop, InSync
  <2>4. FreshInv' /\ RejectedNeverLands'
    BY <1>0, <1>16 DEF PersistCursor, IInv, FreshInv, RejectedNeverLands, Old, Op, InLoop, InSync
  <2>5. ProgramOrder'
    BY <1>0, <1>16 DEF PersistCursor, IInv, ProgramOrder, InOrder
  <2> QED  BY <1>0, <2>1, <2>2, <2>3, <2>4, <2>5 DEF IInv
<1>17. CASE OperatorCommit
  <2>0. /\ head'.files = index.files /\ index' = head' /\ indexLock = Free
        /\ UNCHANGED <<indexLock, target, callVars, outcomeVars>>
        /\ \A w \in Writers : pc[w] = "idle"
    BY <1>17 DEF OperatorCommit, AllIdle
  <2>1. LockInv' /\ CandInv' /\ LandedInv'
    BY <2>0 DEF LockInv, CandInv, LandedInv, InSync
  <2>2. TrailInv'
    BY <1>0, <2>0, PrefixedReflexive DEF TrailInv
  <2>3. AckedInv'
    BY <2>0 DEF IInv, AckedInv
  <2>4. \A s \in Streams : ToSet(head'.files[s]) \subseteq ToSet(head.files[s])
    BY <1>0, <2>0, PrefixedToSet DEF IInv, TrailInv
  <2>5. FreshInv' /\ RejectedNeverLands'
    BY <2>0, <2>4 DEF IInv, FreshInv, RejectedNeverLands, Old
  <2>6. ProgramOrder'
    BY <1>0, <2>0, InOrderOfPrefix DEF IInv, TrailInv, ProgramOrder
  <2> QED  BY <1>0, <2>1, <2>2, <2>3, <2>5, <2>6 DEF IInv
<1>18. CASE UNCHANGED vars
  <2>1. LockInv' /\ TrailInv' /\ AckedInv'
    BY <1>0, <1>18 DEF vars, IInv, LockInv, TrailInv, AckedInv, InLoop, InSync
  <2>2. CandInv'
    BY <1>0, <1>18 DEF vars, IInv, CandInv, Op, InLoop, InSync
  <2>3. LandedInv'
    BY <1>0, <1>18 DEF vars, IInv, LandedInv, LockInv, Op, Appends, InLoop, InSync
  <2>4. FreshInv' /\ RejectedNeverLands'
    BY <1>0, <1>18 DEF vars, IInv, FreshInv, RejectedNeverLands, Old, Op, InLoop, InSync
  <2>5. ProgramOrder'
    BY <1>0, <1>18 DEF vars, IInv, ProgramOrder, InOrder
  <2> QED  BY <1>0, <2>1, <2>2, <2>3, <2>4, <2>5 DEF IInv
<1> QED
  BY <1>1, <1>2, <1>3, <1>4, <1>5, <1>6, <1>7, <1>8, <1>9, <1>10, <1>11, <1>12, <1>13, <1>14, <1>15, <1>16, <1>17, <1>18
     DEF Next, Step

LEMMA Invariance == Spec => []IInv
BY IInvInit, IInvStep, PTL DEF Spec

\* Acknowledged appends survive contention, crashes, failing git commands and
\* the deployment's own commits: the swap never replaces a commit it was not
\* built on, and a call returns without error only once the index that an
\* operator would commit holds its entry.
THEOREM AckedAppendsDurable == Spec => []AckedDurable
<1>1. IInv => AckedDurable
  BY PrefixedToSet DEF IInv, Typed, TypeOK, TrailInv, AckedInv, AckedDurable
<1> QED  BY <1>1, Invariance, PTL

\* However often an attempt is repeated, a call lands at most once, and after
\* every earlier call of the same goroutine.
THEOREM CallsLandInOrder == Spec => []ProgramOrder
<1>1. IInv => ProgramOrder
  BY DEF IInv
<1> QED  BY <1>1, Invariance, PTL

\* The error of the commit loop means that nothing was written.
THEOREM RejectedLeavesNothing == Spec => []RejectedNeverLands
<1>1. IInv => RejectedNeverLands
  BY DEF IInv
<1> QED  BY <1>1, Invariance, PTL

-----------------------------------------------------------------------------
(* The index and the cursor file at rest.

   "At rest" is where many calls meet, so the invariant has to say who owes
   the repository what while they run: as long as no call reported a failure
   and no process died, an index that does not show HEAD is owed a reset by a
   writer that has not taken index.lock yet (Behind), or by the git that
   holds the lock and has resolved HEAD since it last moved. *)

\* Mutual exclusion inside a process.
MutexInv == \A w \in Writers : pc[w] \in InLoop \cup InSync => mutex[ProcOf[w]] = w

Behind == \E w \in Writers : pc[w] \in {"snapshot", "reset"}

ShowsHead(c) == c.files = head.files /\ c.doc = head.doc

NothingWentWrong == crashes = 0 /\ unsynced = {}

DriftInv ==
    NothingWentWrong /\ ~Behind =>
        IF indexLock \in Writers THEN ShowsHead(target) ELSE ShowsHead(index)

SyncInv == MutexInv /\ DriftInv

LEMMA SyncInit == Init => SyncInv
BY WriterAssumption
   DEF Init, SyncInv, MutexInv, DriftInv, ShowsHead, InLoop, InSync

LEMMA SyncStep == Typed /\ LockInv /\ SyncInv /\ [Next]_vars => SyncInv'
<1> SUFFICES ASSUME Typed, LockInv, SyncInv, [Next]_vars PROVE SyncInv'
  OBVIOUS
<1> USE WriterAssumption
<1> USE DEF Typed, TypeOK, repoVars, outcomeVars, budgetVars, callVars
<1>1. ASSUME NEW w \in Writers, NEW x \in Streams \cup Docs, Call(w, x) PROVE SyncInv'
  <2>1. MutexInv'
    BY <1>1 DEF Call, SyncInv, MutexInv, InLoop, InSync
  <2>2. DriftInv'
    BY <1>1 DEF Call, LockInv, SyncInv,
       DriftInv, NothingWentWrong, Behind, ShowsHead
  <2> QED  BY <2>1, <2>2 DEF SyncInv
<1>2. ASSUME NEW w \in Writers, Acquire(w) PROVE SyncInv'
  <2>1. MutexInv'
    BY <1>2 DEF Acquire, SyncInv, MutexInv, InLoop, InSync
  <2>2. DriftInv'
    BY <1>2 DEF Acquire, LockInv, SyncInv,
       DriftInv, NothingWentWrong, Behind, ShowsHead
  <2> QED  BY <2>1, <2>2 DEF SyncInv
<1>3. ASSUME NEW w \in Writers, Build(w) PROVE SyncInv'
  <2>1. MutexInv'
    BY <1>3 DEF Build, SyncInv, MutexInv, InLoop, InSync
  <2>2. DriftInv'
    BY <1>3 DEF Build, LockInv, SyncInv,
       DriftInv, NothingWentWrong, Behind, ShowsHead
  <2> QED  BY <2>1, <2>2 DEF SyncInv
<1>4. ASSUME NEW w \in Writers, SnapshotUnchanged(w) PROVE SyncInv'
  <2>1. MutexInv'
    BY <1>4 DEF SnapshotUnchanged, Return, SyncInv, MutexInv, InLoop, InSync
  <2>2. DriftInv'
    BY <1>4 DEF SnapshotUnchanged, Return, LockInv, SyncInv,
       DriftInv, NothingWentWrong, Behind, ShowsHead
  <2> QED  BY <2>1, <2>2 DEF SyncInv
<1>5. ASSUME NEW w \in Writers, LoopFails(w) PROVE SyncInv'
  <2>1. MutexInv'
    BY <1>5 DEF LoopFails, Retry, Return, SyncInv, MutexInv, InLoop, InSync
  <2>2. DriftInv'
    BY <1>5 DEF LoopFails, Retry, Return, LockInv, SyncInv,
       DriftInv, NothingWentWrong, Behind, ShowsHead, InLoop
  <2> QED  BY <2>1, <2>2 DEF SyncInv
<1>6. ASSUME NEW w \in Writers, Swap(w) PROVE SyncInv'
  <2>1. MutexInv'
    BY <1>6 DEF Swap, SyncInv, MutexInv, InLoop, InSync
  <2>2. DriftInv'
    BY <1>6 DEF Swap, LockInv, SyncInv,
       DriftInv, NothingWentWrong, Behind, ShowsHead
  <2> QED  BY <2>1, <2>2 DEF SyncInv
<1>7. ASSUME NEW w \in Writers, SwapLoses(w) PROVE SyncInv'
  <2>1. MutexInv'
    BY <1>7 DEF SwapLoses, Retry, Return, SyncInv, MutexInv, InLoop, InSync
  <2>2. DriftInv'
    BY <1>7 DEF SwapLoses, Retry, Return, LockInv, SyncInv,
       DriftInv, NothingWentWrong, Behind, ShowsHead
  <2> QED  BY <2>1, <2>2 DEF SyncInv
<1>8. ASSUME NEW w \in Writers, SaveCursor(w) PROVE SyncInv'
  <2>1. MutexInv'
    BY <1>8 DEF SaveCursor, SyncInv, MutexInv, InLoop, InSync
  <2>2. DriftInv'
    BY <1>8 DEF SaveCursor, LockInv, SyncInv,
       DriftInv, NothingWentWrong, Behind, ShowsHead
  <2> QED  BY <2>1, <2>2 DEF SyncInv
<1>9. ASSUME NEW w \in Writers, ResetLocks(w) PROVE SyncInv'
  <2>1. MutexInv'
    BY <1>9 DEF ResetLocks, SyncInv, MutexInv, InLoop, InSync
  <2>2. DriftInv'
    BY <1>9 DEF ResetLocks, LockInv, SyncInv,
       DriftInv, NothingWentWrong, Behind, ShowsHead
  <2> QED  BY <2>1, <2>2 DEF SyncInv
<1>10. ASSUME NEW w \in Writers, Reset(w) PROVE SyncInv'
  <2>1. MutexInv'
    BY <1>10 DEF Reset, SyncInv, MutexInv, InLoop, InSync
  <2>2. DriftInv'
    BY <1>10 DEF Reset, LockInv, SyncInv,
       DriftInv, NothingWentWrong, Behind, ShowsHead
  <2> QED  BY <2>1, <2>2 DEF SyncInv
<1>11. ASSUME NEW w \in Writers, Restore(w) PROVE SyncInv'
  <2>1. MutexInv'
    BY <1>11 DEF Restore, Return, SyncInv, MutexInv, InLoop, InSync
  <2>2. DriftInv'
    BY <1>11 DEF Restore, Return, LockInv, SyncInv,
       DriftInv, NothingWentWrong, Behind, ShowsHead
  <2> QED  BY <2>1, <2>2 DEF SyncInv
<1>12. ASSUME NEW w \in Writers, ResetBusy(w) PROVE SyncInv'
  <2>1. MutexInv'
    BY <1>12 DEF ResetBusy, SyncRetry, SyncError, Return, SyncInv, MutexInv, InLoop, InSync
  <2>2. DriftInv'
    BY <1>12 DEF ResetBusy, SyncRetry, SyncError, Return, LockInv, SyncInv,
       DriftInv, NothingWentWrong, Behind, ShowsHead
  <2> QED  BY <2>1, <2>2 DEF SyncInv
<1>13. ASSUME NEW w \in Writers, ResetFails(w) PROVE SyncInv'
  <2>1. MutexInv'
    BY <1>13 DEF ResetFails, SyncRetry, SyncError, Return, SyncInv, MutexInv, InLoop, InSync
  <2>2. DriftInv'
    BY <1>13 DEF ResetFails, SyncRetry, SyncError, Return, LockInv, SyncInv,
       DriftInv, NothingWentWrong, Behind, ShowsHead
  <2> QED  BY <2>1, <2>2 DEF SyncInv
<1>14. ASSUME NEW w \in Writers, SidecarFails(w) PROVE SyncInv'
  <2>1. MutexInv'
    BY <1>14 DEF SidecarFails, SyncError, Return, SyncInv, MutexInv, InLoop, InSync
  <2>2. DriftInv'
    BY <1>14 DEF SidecarFails, SyncError, Return, LockInv, SyncInv,
       DriftInv, NothingWentWrong, Behind, ShowsHead
  <2> QED  BY <2>1, <2>2 DEF SyncInv
<1>15. ASSUME NEW p \in Procs, Crash(p) PROVE SyncInv'
  <2>1. MutexInv'
    BY <1>15 DEF Crash, SyncInv, MutexInv, InLoop, InSync
  <2>2. DriftInv'
    BY <1>15 DEF Crash, LockInv, SyncInv,
       DriftInv, NothingWentWrong, Behind, ShowsHead
  <2> QED  BY <2>1, <2>2 DEF SyncInv
<1>16. CASE PersistCursor
  <2>1. MutexInv'
    BY <1>16 DEF PersistCursor, SyncInv, MutexInv, InLoop, InSync
  <2>2. DriftInv'
    BY <1>16 DEF PersistCursor, LockInv, SyncInv,
       DriftInv, NothingWentWrong, Behind, ShowsHead
  <2> QED  BY <2>1, <2>2 DEF SyncInv
<1>17. CASE OperatorCommit
  <2>1. MutexInv'
    BY <1>17 DEF OperatorCommit, AllIdle, SyncInv, MutexInv, InLoop, InSync
  <2>2. DriftInv'
    BY <1>17 DEF OperatorCommit, AllIdle, LockInv, SyncInv,
       DriftInv, NothingWentWrong, Behind, ShowsHead
  <2> QED  BY <2>1, <2>2 DEF SyncInv
<1>18. CASE UNCHANGED vars
  <2>1. MutexInv'
    BY <1>18 DEF vars, SyncInv, MutexInv, InLoop, InSync
  <2>2. DriftInv'
    BY <1>18 DEF vars, LockInv, SyncInv,
       DriftInv, NothingWentWrong, Behind, ShowsHead
  <2> QED  BY <2>1, <2>2 DEF SyncInv
<1> QED
  BY <1>1, <1>2, <1>3, <1>4, <1>5, <1>6, <1>7, <1>8, <1>9,
     <1>10, <1>11, <1>12, <1>13, <1>14, <1>15, <1>16, <1>17, <1>18
     DEF Next, Step

LEMMA SyncInvariance == Spec => []SyncInv
<1>1. IInv => Typed /\ LockInv
  BY DEF IInv
<1> QED  BY <1>1, SyncInit, SyncStep, Invariance, PTL DEF Spec

\* With every call returned, the index and the work tree show what HEAD holds,
\* whoever reset them and in whatever order, unless an error or a death said
\* otherwise: no reset that trails HEAD is ever the last one.
THEOREM IndexNeverDriftsSilently == Spec => []NoSilentDrift
<1>1. IInv /\ SyncInv => NoSilentDrift
  <2> SUFFICES ASSUME IInv, SyncInv, AllIdle, NothingWentWrong
               PROVE  ShowsHead(index)
    BY DEF NoSilentDrift, NothingWentWrong, ShowsHead
  <2>1. ~Behind
    BY DEF AllIdle, Behind
  <2>2. indexLock \notin Writers
    BY DEF IInv, LockInv, AllIdle
  <2> QED  BY <2>1, <2>2 DEF SyncInv, DriftInv
<1> QED  BY <1>1, Invariance, SyncInvariance, PTL

\* Every call is the scan's: no other process runs a reset with a cursor it
\* saved before the scan moved on.
OneProcess == \A w \in Writers : ProcOf[w] = ScanProc

\* Before the first pull there is no cursor to restore, in any commit.
NoCursorInv ==
    persisted = 0 =>
        /\ cursor = 0 /\ head.cursor = 0 /\ target.cursor = 0
        /\ \A w \in Writers : cand[w].cursor = 0 /\ saved[w] = 0

\* Only a reset that has not been followed by its restore separates the file
\* from what the connector wrote, and the call that will restore it knows that.
SavedInv ==
    NothingWentWrong =>
        /\ cursor = persisted \/ \E w \in Writers : pc[w] = "restore"
        /\ \A w \in Writers :
              pc[w] \in {"reset", "unpack", "restore"} => saved[w] = persisted

CursorInv == NoCursorInv /\ SavedInv

LEMMA CursorInit == Init => CursorInv
BY DEF Init, CursorInv, NoCursorInv, SavedInv, NoCommit

LEMMA CursorStep ==
    ASSUME OneProcess
    PROVE  Typed /\ LockInv /\ MutexInv /\ CursorInv /\ [Next]_vars => CursorInv'
<1> SUFFICES ASSUME Typed, LockInv, MutexInv, CursorInv, [Next]_vars PROVE CursorInv'
  OBVIOUS
<1> USE WriterAssumption
<1> USE DEF Typed, TypeOK, repoVars, outcomeVars, budgetVars, callVars
<1>1. ASSUME NEW w \in Writers, NEW x \in Streams \cup Docs, Call(w, x) PROVE CursorInv'
  <2>1. NoCursorInv'
    BY <1>1 DEF Call, CursorInv, NoCursorInv, NoCommit
  <2>2. SavedInv'
    BY <1>1 DEF Call, MutexInv, CursorInv, SavedInv,
       NothingWentWrong, OneProcess, InLoop, InSync
  <2> QED  BY <2>1, <2>2 DEF CursorInv
<1>2. ASSUME NEW w \in Writers, Acquire(w) PROVE CursorInv'
  <2>1. NoCursorInv'
    BY <1>2 DEF Acquire, CursorInv, NoCursorInv, NoCommit
  <2>2. SavedInv'
    BY <1>2 DEF Acquire, MutexInv, CursorInv, SavedInv,
       NothingWentWrong, OneProcess, InLoop, InSync
  <2> QED  BY <2>1, <2>2 DEF CursorInv
<1>3. ASSUME NEW w \in Writers, Build(w) PROVE CursorInv'
  <2>1. NoCursorInv'
    <3>1. /\ \A v \in Writers : v # w => cand'[v] = cand[v]
          /\ cand'[w].cursor \in {head.cursor, NoCommit.cursor}
          /\ UNCHANGED <<persisted, cursor, head, target, saved>>
      BY <1>3 DEF Build, Child
    <3> QED  BY <3>1 DEF CursorInv, NoCursorInv, NoCommit
  <2>2. SavedInv'
    BY <1>3 DEF Build, MutexInv, CursorInv, SavedInv,
       NothingWentWrong, OneProcess, InLoop, InSync
  <2> QED  BY <2>1, <2>2 DEF CursorInv
<1>4. ASSUME NEW w \in Writers, SnapshotUnchanged(w) PROVE CursorInv'
  <2>1. NoCursorInv'
    BY <1>4 DEF SnapshotUnchanged, Return, CursorInv, NoCursorInv, NoCommit
  <2>2. SavedInv'
    BY <1>4 DEF SnapshotUnchanged, Return, MutexInv, CursorInv, SavedInv,
       NothingWentWrong, OneProcess, InLoop, InSync
  <2> QED  BY <2>1, <2>2 DEF CursorInv
<1>5. ASSUME NEW w \in Writers, LoopFails(w) PROVE CursorInv'
  <2>1. NoCursorInv'
    <3>1. /\ \A v \in Writers : /\ cand'[v] \in {cand[v], NoCommit}
                               /\ saved'[v] \in {saved[v], 0}
          /\ UNCHANGED <<persisted, cursor, head, target>>
      BY <1>5 DEF LoopFails, Retry, Return
    <3> QED  BY <3>1 DEF CursorInv, NoCursorInv, NoCommit
  <2>2. SavedInv'
    BY <1>5 DEF LoopFails, Retry, Return, MutexInv, CursorInv, SavedInv,
       NothingWentWrong, OneProcess, InLoop, InSync
  <2> QED  BY <2>1, <2>2 DEF CursorInv
<1>6. ASSUME NEW w \in Writers, Swap(w) PROVE CursorInv'
  <2>1. NoCursorInv'
    BY <1>6 DEF Swap, CursorInv, NoCursorInv, NoCommit
  <2>2. SavedInv'
    BY <1>6 DEF Swap, MutexInv, CursorInv, SavedInv,
       NothingWentWrong, OneProcess, InLoop, InSync
  <2> QED  BY <2>1, <2>2 DEF CursorInv
<1>7. ASSUME NEW w \in Writers, SwapLoses(w) PROVE CursorInv'
  <2>1. NoCursorInv'
    <3>1. /\ \A v \in Writers : /\ cand'[v] \in {cand[v], NoCommit}
                               /\ saved'[v] \in {saved[v], 0}
          /\ UNCHANGED <<persisted, cursor, head, target>>
      BY <1>7 DEF SwapLoses, Retry, Return
    <3> QED  BY <3>1 DEF CursorInv, NoCursorInv, NoCommit
  <2>2. SavedInv'
    BY <1>7 DEF SwapLoses, Retry, Return, MutexInv, CursorInv, SavedInv,
       NothingWentWrong, OneProcess, InLoop, InSync
  <2> QED  BY <2>1, <2>2 DEF CursorInv
<1>8. ASSUME NEW w \in Writers, SaveCursor(w) PROVE CursorInv'
  <2>1. NoCursorInv'
    BY <1>8 DEF SaveCursor, CursorInv, NoCursorInv, NoCommit
  <2>2. SavedInv'
    BY <1>8 DEF SaveCursor, MutexInv, CursorInv, SavedInv,
       NothingWentWrong, OneProcess, InLoop, InSync
  <2> QED  BY <2>1, <2>2 DEF CursorInv
<1>9. ASSUME NEW w \in Writers, ResetLocks(w) PROVE CursorInv'
  <2>1. NoCursorInv'
    BY <1>9 DEF ResetLocks, CursorInv, NoCursorInv, NoCommit
  <2>2. SavedInv'
    BY <1>9 DEF ResetLocks, MutexInv, CursorInv, SavedInv,
       NothingWentWrong, OneProcess, InLoop, InSync
  <2> QED  BY <2>1, <2>2 DEF CursorInv
<1>10. ASSUME NEW w \in Writers, Reset(w) PROVE CursorInv'
  <2>1. NoCursorInv'
    BY <1>10 DEF Reset, CursorInv, NoCursorInv, NoCommit
  <2>2. SavedInv'
    BY <1>10 DEF Reset, MutexInv, CursorInv, SavedInv,
       NothingWentWrong, OneProcess, InLoop, InSync
  <2> QED  BY <2>1, <2>2 DEF CursorInv
<1>11. ASSUME NEW w \in Writers, Restore(w) PROVE CursorInv'
  <2>1. NoCursorInv'
    BY <1>11 DEF Restore, Return, CursorInv, NoCursorInv, NoCommit
  <2>2. SavedInv'
    <3>1. /\ pc' = [pc EXCEPT ![w] = "idle"]
          /\ cursor' = IF saved[w] = 0 THEN cursor ELSE saved[w]
          /\ UNCHANGED <<persisted, crashes, unsynced>>
      BY <1>11 DEF Restore, Return
    <3>2. pc[w] = "restore" /\ mutex[ScanProc] = w
      BY <1>11 DEF Restore, MutexInv, OneProcess, InSync
    <3>3. \A v \in Writers : pc'[v] \notin {"reset", "unpack", "restore"}
      BY <3>1, <3>2 DEF MutexInv, OneProcess, InSync
    <3>4. NothingWentWrong => cursor' = persisted
      BY <3>1, <3>2 DEF CursorInv, SavedInv, NoCursorInv
    <3> QED  BY <3>1, <3>3, <3>4 DEF SavedInv, NothingWentWrong
  <2> QED  BY <2>1, <2>2 DEF CursorInv
<1>12. ASSUME NEW w \in Writers, ResetBusy(w) PROVE CursorInv'
  <2>1. NoCursorInv'
    <3>1. /\ \A v \in Writers : /\ cand'[v] \in {cand[v], NoCommit}
                               /\ saved'[v] \in {saved[v], 0}
          /\ UNCHANGED <<persisted, cursor, head, target>>
      BY <1>12 DEF ResetBusy, SyncRetry, SyncError, Return
    <3> QED  BY <3>1 DEF CursorInv, NoCursorInv, NoCommit
  <2>2. SavedInv'
    BY <1>12 DEF ResetBusy, SyncRetry, SyncError, Return, MutexInv, CursorInv, SavedInv,
       NothingWentWrong, OneProcess, InLoop, InSync
  <2> QED  BY <2>1, <2>2 DEF CursorInv
<1>13. ASSUME NEW w \in Writers, ResetFails(w) PROVE CursorInv'
  <2>1. NoCursorInv'
    <3>1. /\ \A v \in Writers : /\ cand'[v] \in {cand[v], NoCommit}
                               /\ saved'[v] \in {saved[v], 0}
          /\ UNCHANGED <<persisted, cursor, head>> /\ target' = NoCommit
      BY <1>13 DEF ResetFails, SyncRetry, SyncError, Return
    <3> QED  BY <3>1 DEF CursorInv, NoCursorInv, NoCommit
  <2>2. SavedInv'
    BY <1>13 DEF ResetFails, SyncRetry, SyncError, Return, MutexInv, CursorInv, SavedInv,
       NothingWentWrong, OneProcess, InLoop, InSync
  <2> QED  BY <2>1, <2>2 DEF CursorInv
<1>14. ASSUME NEW w \in Writers, SidecarFails(w) PROVE CursorInv'
  <2>1. NoCursorInv'
    BY <1>14 DEF SidecarFails, SyncError, Return, CursorInv, NoCursorInv, NoCommit
  <2>2. SavedInv'
    BY <1>14 DEF SidecarFails, SyncError, Return, MutexInv, CursorInv, SavedInv,
       NothingWentWrong, OneProcess, InLoop, InSync
  <2> QED  BY <2>1, <2>2 DEF CursorInv
<1>15. ASSUME NEW p \in Procs, Crash(p) PROVE CursorInv'
  <2>1. NoCursorInv'
    BY <1>15 DEF Crash, CursorInv, NoCursorInv, NoCommit
  <2>2. SavedInv'
    BY <1>15 DEF Crash, MutexInv, CursorInv, SavedInv,
       NothingWentWrong, OneProcess, InLoop, InSync
  <2> QED  BY <2>1, <2>2 DEF CursorInv
<1>16. CASE PersistCursor
  <2>1. NoCursorInv'
    BY <1>16 DEF PersistCursor, CursorInv, NoCursorInv, NoCommit
  <2>2. SavedInv'
    <3>1. cursor' = persisted' /\ UNCHANGED pc
      BY <1>16 DEF PersistCursor
    <3>2. \A w \in Writers : pc[w] = "idle"
      BY <1>16 DEF PersistCursor, Idle, OneProcess
    <3> QED  BY <3>1, <3>2 DEF SavedInv
  <2> QED  BY <2>1, <2>2 DEF CursorInv
<1>17. CASE OperatorCommit
  <2>1. NoCursorInv'
    BY <1>17 DEF OperatorCommit, AllIdle, CursorInv, NoCursorInv, NoCommit
  <2>2. SavedInv'
    BY <1>17 DEF OperatorCommit, AllIdle, MutexInv, CursorInv, SavedInv,
       NothingWentWrong, OneProcess, InLoop, InSync
  <2> QED  BY <2>1, <2>2 DEF CursorInv
<1>18. CASE UNCHANGED vars
  <2>1. NoCursorInv'
    BY <1>18 DEF vars, CursorInv, NoCursorInv, NoCommit
  <2>2. SavedInv'
    BY <1>18 DEF vars, MutexInv, CursorInv, SavedInv,
       NothingWentWrong, OneProcess, InLoop, InSync
  <2> QED  BY <2>1, <2>2 DEF CursorInv
<1> QED
  BY <1>1, <1>2, <1>3, <1>4, <1>5, <1>6, <1>7, <1>8, <1>9,
     <1>10, <1>11, <1>12, <1>13, <1>14, <1>15, <1>16, <1>17, <1>18
     DEF Next, Step

\* In a deployment where only the scan writes, the cursor a connector wrote is
\* the one the next pull reads, however many resets to commits with an older
\* cursor came in between, unless a call reported that it could not put it back.
THEOREM CursorsAreRestored ==
    ASSUME OneProcess
    PROVE  Spec => []CursorSurvives
<1>1. IInv /\ SyncInv => Typed /\ LockInv /\ MutexInv
  BY DEF IInv, SyncInv
<1>2. Spec => []CursorInv
  BY <1>1, CursorInit, CursorStep, Invariance, SyncInvariance, PTL DEF Spec
<1>3. CursorInv => CursorSurvives
  BY DEF CursorInv, SavedInv, NothingWentWrong, CursorSurvives, AllIdle
<1> QED  BY <1>2, <1>3, PTL

-----------------------------------------------------------------------------
(* The store implements the acknowledged log. *)

LEMMA LogInit == Init => Log!Init
BY DEF Init, Log!Init, NoCommit

LEMMA LogStep == IInv /\ [Next]_vars => [Log!Next]_(Log!vars)
<1> SUFFICES ASSUME IInv, [Next]_vars PROVE [Log!Next]_(Log!vars)
  OBVIOUS
<1> USE DEF repoVars, outcomeVars, budgetVars, callVars
<1>0. Typed /\ TypeOK /\ Typed' /\ TypeOK'
  BY TypedStep DEF IInv, Typed
<1>1. ASSUME NEW w \in Writers, Swap(w) PROVE [Log!Next]_(Log!vars)
  <2>1. /\ Op(w) \in Ops /\ head \in Commits /\ head' = Child(head, Op(w))
        /\ UNCHANGED <<index, acked>>
    BY <1>0, <1>1, OpTyped DEF Swap, RefMatches, IInv, CandInv, TypeOK
  <2>2. head'.files = [s \in Streams |->
           IF s = what[w] THEN Append(head.files[s], Op(w)) ELSE head.files[s]]
    BY <2>1 DEF Child, Op
  <2>3. head.files \in [Streams -> Seq(Ops)]
    BY <2>1, CommitFields
  <2>4. CASE Appends(w)
    <3>1. Op(w) \notin ToSet(head.files[what[w]])
      BY <1>1, <2>4, BoundAssumption, <1>0
         DEF Swap, IInv, FreshInv, Old, Op, InLoop, Appends, TypeOK
    <3>2. head'.files = [head.files EXCEPT ![what[w]] = Append(@, Op(w))]
      BY <2>2, <2>3
    <3>3. Log!Land(what[w], Op(w))
      BY <2>1, <3>1, <3>2 DEF Log!Land, ToSet, Log!ToSet
    <3> QED  BY <2>1, <2>4, <3>3 DEF Log!Next, Appends
  <2>5. CASE ~Appends(w)
    <3>1. head'.files = head.files
      BY <2>2, <2>3, <2>5 DEF Appends
    <3> QED  BY <2>1, <3>1 DEF Log!vars
  <2> QED  BY <2>4, <2>5
<1>2. ASSUME NEW w \in Writers, Reset(w) PROVE [Log!Next]_(Log!vars)
  <2>1. indexLock = w /\ index' = target /\ UNCHANGED <<head, acked>>
    BY <1>2 DEF Reset, IInv, LockInv
  <2>2. Prefixed(index.files, index'.files) /\ Prefixed(index'.files, head.files)
    BY <2>1 DEF IInv, TrailInv
  <2>3. index'.files \in [Streams -> Seq(Ops)]
    BY <1>0, <2>1, CommitFields DEF TypeOK
  <2>4. \A s \in Streams : /\ Log!IsPrefix(index.files[s], index'.files[s])
                            /\ Log!IsPrefix(index'.files[s], head.files[s])
    BY <2>2 DEF Prefixed, IsPrefix, Log!IsPrefix
  <2>5. Log!Publish
    BY <2>1, <2>3, <2>4 DEF Log!Publish
  <2> QED  BY <2>5 DEF Log!Next
<1>3. ASSUME NEW w \in Writers, Restore(w) PROVE [Log!Next]_(Log!vars)
  <2>1. /\ UNCHANGED <<head, index>> /\ Op(w) \in Ops
        /\ acked' = [s \in Streams |->
              IF s = what[w] THEN acked[s] \cup {Op(w)} ELSE acked[s]]
    BY <1>0, <1>3, OpTyped DEF Restore
  <2>2. acked \in [Streams -> SUBSET Ops]
    BY <1>0 DEF TypeOK
  <2>3. CASE Appends(w)
    <3>1. Op(w) \in ToSet(index.files[what[w]])
      BY <1>3, <2>3 DEF Restore, IInv, LandedInv
    <3>2. acked' = [acked EXCEPT ![what[w]] = @ \cup {Op(w)}]
      BY <2>1, <2>2
    <3>3. Log!Acknowledge(what[w], Op(w))
      BY <2>1, <3>1, <3>2 DEF Log!Acknowledge, ToSet, Log!ToSet
    <3> QED  BY <2>1, <2>3, <3>3 DEF Log!Next, Appends
  <2>4. CASE ~Appends(w)
    <3>1. acked' = acked
      BY <2>1, <2>2, <2>4 DEF Appends
    <3> QED  BY <2>1, <3>1 DEF Log!vars
  <2> QED  BY <2>3, <2>4
<1>4. CASE OperatorCommit
  <2>1. head'.files = index.files /\ index'.files = index.files /\ acked' = acked
    BY <1>4 DEF OperatorCommit
  <2> QED  BY <2>1 DEF Log!Next, Log!CommitCheckout
<1>5. ASSUME UNCHANGED <<head, index, acked>> PROVE [Log!Next]_(Log!vars)
  BY <1>5 DEF Log!vars
<1>6. ASSUME NEW w \in Writers, NEW x \in Streams \cup Docs, Call(w, x)
      PROVE  UNCHANGED <<head, index, acked>>
  BY <1>6 DEF Call
<1>7. ASSUME NEW w \in Writers,
             \/ Acquire(w) \/ Build(w) \/ SnapshotUnchanged(w) \/ SwapLoses(w)
             \/ SaveCursor(w) \/ ResetLocks(w) \/ ResetBusy(w)
             \/ LoopFails(w) \/ ResetFails(w) \/ SidecarFails(w)
      PROVE  UNCHANGED <<head, index, acked>>
  BY <1>7 DEF Acquire, Build, SnapshotUnchanged, SwapLoses, SaveCursor,
     ResetLocks, ResetBusy, LoopFails, ResetFails, SidecarFails
<1>8. ASSUME NEW p \in Procs, Crash(p) PROVE UNCHANGED <<head, index, acked>>
  BY <1>8 DEF Crash
<1>9. PersistCursor \/ UNCHANGED vars => UNCHANGED <<head, index, acked>>
  BY DEF PersistCursor, vars
<1> QED
  BY <1>1, <1>2, <1>3, <1>4, <1>5, <1>6, <1>7, <1>8, <1>9 DEF Next, Step

\* Every behaviour of the git store is one of the acknowledged log: an entry
\* lands once, the checkout only moves forward, and acknowledgement waits for it.
THEOREM StoreImplementsLog == Spec => ImplementsLog
BY LogInit, LogStep, Invariance, PTL DEF Spec, ImplementsLog, Log!Spec
=============================================================================
