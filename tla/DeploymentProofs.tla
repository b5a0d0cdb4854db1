-------------------------- MODULE DeploymentProofs --------------------------
(***************************************************************************)
(* Proofs about Deployment, for any jobs and bounds: its types, that a     *)
(* job's verdict is published, and that a red job has a reason.            *)
(***************************************************************************)
EXTENDS Deployment, TLAPS

-----------------------------------------------------------------------------
(* Histories *)

\* The first commit of a history is its root, and no other is.
Rooted(h) == \A i \in DOMAIN h : (h[i].kind = "root") = (i = 1)

Histories == {h \in Seq(Commits) : Rooted(h)}

\* A history holds the successful scan of job s.
HasScanOf(h, s) == \E c \in Elements(h) : c.kind = "scan" /\ c.by = s /\ c.ok

LEMMA NewCommits ==
    /\ \A j \in Jobs : Root(j) \in Commits /\ Root(j).kind = "root"
    /\ \A j \in Jobs : Published(j) \in Commits /\ Published(j).kind # "root"
    /\ \A s \in Scans, ok \in BOOLEAN : silences \in Nat =>
          /\ ScanRecord(s, ok) \in Commits /\ ScanRecord(s, ok).kind = "scan"
          /\ ScanRecord(s, ok).by = s /\ ScanRecord(s, ok).ok = ok
    /\ \A n \in Nat : Report(n) \in Commits /\ Report(n).kind # "root"
    /\ \A c \in Chats, n \in Nat : Decision(c, n) \in Commits /\ Decision(c, n).kind # "root"
<1>1. \A j \in Jobs : Root(j) \in Commits /\ Root(j).kind = "root"
    BY DEF Root, Commits
<1>2. \A j \in Jobs : Published(j) \in Commits /\ Published(j).kind # "root"
    BY DEF Published, Commits
<1>3. \A s \in Scans, ok \in BOOLEAN : silences \in Nat =>
          /\ ScanRecord(s, ok) \in Commits /\ ScanRecord(s, ok).kind = "scan"
          /\ ScanRecord(s, ok).by = s /\ ScanRecord(s, ok).ok = ok
    BY DEF ScanRecord, Commits
<1>4. \A n \in Nat : Report(n) \in Commits /\ Report(n).kind # "root"
    BY DEF Report, Commits
<1>5. \A c \in Chats, n \in Nat : Decision(c, n) \in Commits /\ Decision(c, n).kind # "root"
    BY DEF Decision, Commits
<1> QED
    BY <1>1, <1>2, <1>3, <1>4, <1>5

\* A commit that is not a root extends a history that has begun.
LEMMA AppendHistory ==
    ASSUME NEW h \in Histories, NEW c \in Commits, h # <<>>, c.kind # "root"
    PROVE  Append(h, c) \in Histories /\ Append(h, c) # <<>>
<1>1. Append(h, c) \in Seq(Commits) /\ Len(Append(h, c)) = Len(h) + 1 /\ Len(h) \in Nat \ {0}
    BY DEF Histories
<1>2. ASSUME NEW i \in DOMAIN Append(h, c)
      PROVE  (Append(h, c)[i].kind = "root") = (i = 1)
    <2>1. CASE i = Len(h) + 1
        BY <1>1, <2>1
    <2>2. CASE i # Len(h) + 1
        <3>1. i \in 1..Len(h)
            BY <1>1, <1>2, <2>2
        <3>2. Append(h, c)[i] = h[i]
            BY <3>1 DEF Histories
        <3>3. i \in DOMAIN h
            BY <3>1 DEF Histories
        <3> QED
            BY <3>2, <3>3 DEF Histories, Rooted
    <2> QED
        BY <2>1, <2>2
<1>3. Append(h, c) \in Histories
    BY <1>1, <1>2 DEF Histories, Rooted
<1>4. Append(h, c) # <<>>
    BY <1>1
<1> QED
    BY <1>3, <1>4

LEMMA RootHistory ==
    ASSUME NEW j \in Jobs
    PROVE  <<Root(j)>> \in Histories /\ <<Root(j)>> # <<>>
BY NewCommits DEF Histories, Rooted

\* Appending keeps what a history holds, and adds the commit.
LEMMA AppendElements ==
    ASSUME NEW h \in Seq(Commits), NEW c \in Commits
    PROVE  Elements(h) \subseteq Elements(Append(h, c)) /\ c \in Elements(Append(h, c))
<1>1. /\ Append(h, c) \in Seq(Commits) /\ DOMAIN Append(h, c) = 1..(Len(h) + 1)
      /\ DOMAIN h = 1..Len(h) /\ Len(h) \in Nat
    OBVIOUS
<1>2. \A i \in 1..Len(h) : Append(h, c)[i] = h[i]
    OBVIOUS
<1>3. Append(h, c)[Len(h) + 1] = c
    OBVIOUS
<1> QED
    BY <1>1, <1>2, <1>3 DEF Elements

\* So does a fast-forward.
LEMMA FastForwardElements ==
    ASSUME NEW old \in Seq(Commits), NEW new \in Seq(Commits), FastForward(old, new)
    PROVE  Elements(old) \subseteq Elements(new)
<1>1. \A i \in 1..Len(old) : new[i] = old[i]
    <2> TAKE i \in 1..Len(old)
    <2>1. SubSeq(new, 1, Len(old))[i] = new[i]
        BY DEF FastForward
    <2> QED
        BY <2>1 DEF FastForward
<1>2. DOMAIN old = 1..Len(old) /\ DOMAIN new = 1..Len(new) /\ Len(old) <= Len(new)
    BY DEF FastForward
<1>3. \A i \in 1..Len(old) : i \in 1..Len(new)
    BY <1>2
<1> QED
    BY <1>1, <1>2, <1>3 DEF Elements

LEMMA AppendIsFastForward ==
    ASSUME NEW h \in Seq(Commits), NEW c \in Commits
    PROVE  FastForward(h, Append(h, c))
<1>1. Len(h) \in Nat /\ Len(Append(h, c)) = Len(h) + 1 /\ Append(h, c) \in Seq(Commits)
    OBVIOUS
<1>2. /\ SubSeq(Append(h, c), 1, Len(h)) \in Seq(Commits)
      /\ Len(SubSeq(Append(h, c), 1, Len(h))) = Len(h)
    BY <1>1
<1>3. \A i \in 1..Len(h) : SubSeq(Append(h, c), 1, Len(h))[i] = h[i]
    BY <1>1
<1>4. SubSeq(Append(h, c), 1, Len(h)) = h
    BY <1>1, <1>2, <1>3
<1> QED
    BY <1>1, <1>4 DEF FastForward

-----------------------------------------------------------------------------
(* The inductive invariant *)

Types ==
    /\ step \in [Jobs -> Steps] /\ red \in [Jobs -> BOOLEAN]
    /\ missed \in [Scans -> BOOLEAN]
    /\ told \in [Chats -> 0..MaxDecisions]
    /\ silences \in 0..MaxSilences /\ reports \in 0..MaxReports
    /\ struck \subseteq Jobs
    /\ branch \in Histories /\ store \in [Jobs -> Histories]

RedWatches == \A j \in Jobs : red[j] => step[j] \in {"watchdog", "over", "lost"}

\* A chat that serves has opened its store.
ChatOpened == \A c \in Chats : step[c] = "serve" => store[c] # <<>>

\* A scan job carries its successful scan from the scan to the push, in its
\* store, and from then on unless it failed a step, on the branch.
Carried ==
    \A s \in Scans :
        /\ step[s] \in {"gaps", "doctor", "push"} => HasScanOf(store[s], s)
        /\ step[s] = "recall" => HasScanOf(branch, s)
        /\ step[s] \in {"watchdog", "over"} /\ ~red[s] => HasScanOf(branch, s)
        /\ missed[s] => HasScanOf(branch, s)

IInv == Types /\ RedWatches /\ ChatOpened /\ Carried

LEMMA IInvTypes == IInv => TypeOK
<1> SUFFICES ASSUME IInv PROVE TypeOK
    OBVIOUS
<1>1. branch \in Seq(Commits) /\ Rooted(branch)
    BY DEF IInv, Types, Histories
<1>2. store \in [Jobs -> Seq(Commits)] /\ \A j \in Jobs : Rooted(store[j])
    BY DEF IInv, Types, Histories
<1>3. \A h \in {branch} \cup {store[j] : j \in Jobs} : Rooted(h)
    BY <1>1, <1>2
<1> QED
    BY <1>1, <1>2, <1>3 DEF IInv, Types, RedWatches, Rooted, TypeOK

LEMMA IInvVerdict == IInv => VerdictIsPublished
BY DEF IInv, Carried, VerdictIsPublished, HasScanOf

LEMMA InitIInv == Init => IInv
<1> SUFFICES ASSUME Init PROVE IInv
    OBVIOUS
<1>1. <<>> \in Histories
    BY DEF Histories, Rooted
<1>2. Types
    BY <1>1, DeploymentAssumption DEF Init, Steps, Types
<1> QED
    BY <1>2 DEF Init, IInv, RedWatches, ChatOpened, Carried, Jobs

-----------------------------------------------------------------------------
(* What a step may do to a store and to the branch *)

\* A scan job at work: what is left to show of a step that moves s alone.
LEMMA ScanStep ==
    ASSUME IInv, NEW s \in Scans, NEW next \in Steps, NEW h \in Histories,
           step' = [step EXCEPT ![s] = next],
           store' = [store EXCEPT ![s] = h],
           branch' \in Histories, FastForward(branch, branch'),
           red' \in [Jobs -> BOOLEAN], \A j \in Jobs \ {s} : red'[j] = red[j],
           missed' \in [Scans -> BOOLEAN],
           \A t \in Scans \ {s} : missed'[t] = missed[t],
           told' = told, silences' = silences,
           reports' = reports, struck' \subseteq Jobs,
           red'[s] => next \in {"watchdog", "over", "lost"},
           next \in {"gaps", "doctor", "push"} => HasScanOf(h, s),
           next = "recall" => HasScanOf(branch', s),
           next \in {"watchdog", "over"} /\ ~red'[s] => HasScanOf(branch', s),
           missed'[s] => HasScanOf(branch', s)
    PROVE  IInv'
<1> USE DEF IInv
<1>1. s \in Jobs /\ s \notin Chats /\ Scans \subseteq Jobs /\ Chats \subseteq Jobs
    BY DeploymentAssumption DEF Jobs
<1>2. Types'
    BY <1>1 DEF Types
<1>3. RedWatches'
    BY <1>1 DEF RedWatches, Types
<1>4. ChatOpened'
    BY <1>1 DEF ChatOpened, Types
<1>5. \A t \in Scans : HasScanOf(branch, t) => HasScanOf(branch', t)
    BY FastForwardElements DEF Types, Histories, HasScanOf
<1>6. Carried'
    <2> SUFFICES ASSUME NEW t \in Scans
                 PROVE  /\ step'[t] \in {"gaps", "doctor", "push"} => HasScanOf(store'[t], t)
                        /\ step'[t] = "recall" => HasScanOf(branch', t)
                        /\ step'[t] \in {"watchdog", "over"} /\ ~red'[t] => HasScanOf(branch', t)
                        /\ missed'[t] => HasScanOf(branch', t)
        BY DEF Carried, HasScanOf
    <2>1. CASE t = s
        BY <1>1, <2>1 DEF Types
    <2>2. CASE t # s
        BY <1>1, <1>5, <2>2 DEF Types, Carried
    <2> QED
        BY <2>1, <2>2
<1> QED
    BY <1>2, <1>3, <1>4, <1>6

\* Nothing but a store of a scan job changes, apart from what is named.
LEMMA Reflexive == \A h \in Histories : FastForward(h, h)
BY DEF Histories, FastForward

LEMMA OpenedHistory ==
    ASSUME IInv, NEW s \in Scans
    PROVE  /\ OpenOrInit(s) \in Histories /\ OpenOrInit(s) # <<>>
           /\ \A ok \in BOOLEAN : Append(OpenOrInit(s), ScanRecord(s, ok)) \in Histories
           /\ HasScanOf(Append(OpenOrInit(s), ScanRecord(s, TRUE)), s)
<1>1. s \in Jobs /\ silences \in Nat /\ store[s] \in Histories
    BY DeploymentAssumption DEF IInv, Types, Jobs
<1>2. OpenOrInit(s) \in Histories /\ OpenOrInit(s) # <<>>
    BY <1>1, RootHistory DEF OpenOrInit
<1>3. \A ok \in BOOLEAN : /\ ScanRecord(s, ok) \in Commits
                          /\ ScanRecord(s, ok).kind = "scan"
                          /\ ScanRecord(s, ok).by = s /\ ScanRecord(s, ok).ok = ok
    BY <1>1, NewCommits
<1>4. \A ok \in BOOLEAN : Append(OpenOrInit(s), ScanRecord(s, ok)) \in Histories
    <2> TAKE ok \in BOOLEAN
    <2>1. ScanRecord(s, ok) \in Commits /\ ScanRecord(s, ok).kind # "root"
        BY <1>3
    <2> QED
        BY <1>2, <2>1, AppendHistory
<1>5. HasScanOf(Append(OpenOrInit(s), ScanRecord(s, TRUE)), s)
    <2>1. ScanRecord(s, TRUE) \in Elements(Append(OpenOrInit(s), ScanRecord(s, TRUE)))
        BY <1>2, <1>3, AppendElements DEF Histories
    <2> QED
        BY <1>3, <2>1 DEF HasScanOf
<1> QED
    BY <1>2, <1>4, <1>5

\* A failing step, whatever it leaves in the store.
LEMMA FailStepInv ==
    ASSUME IInv, NEW s \in Scans, FailStep(s), struck' \subseteq Jobs,
           NEW h \in Histories, store' = [store EXCEPT ![s] = h]
    PROVE  IInv'
<1>1. FastForward(branch, branch') /\ branch' \in Histories
    BY Reflexive DEF IInv, Types, FailStep
<1>2. /\ step' = [step EXCEPT ![s] = "watchdog"] /\ red' = [red EXCEPT ![s] = TRUE]
      /\ branch' = branch /\ missed' = missed /\ told' = told
      /\ silences' = silences /\ reports' = reports
    BY DEF FailStep, Goto, Scanned
<1>3. /\ red' \in [Jobs -> BOOLEAN] /\ \A j \in Jobs \ {s} : red'[j] = red[j]
      /\ missed' \in [Scans -> BOOLEAN]
      /\ red'[s] = TRUE /\ s \in Jobs
    BY <1>2 DEF IInv, Types, Jobs
<1>4. missed'[s] => HasScanOf(branch', s)
    BY <1>2 DEF IInv, Carried
<1> QED
    BY <1>1, <1>2, <1>3, <1>4, ScanStep DEF Steps

LEMMA FaultStrikes ==
    ASSUME IInv, NEW j \in Scans \cup Chats
    PROVE  Fault(j) => struck' \subseteq Jobs /\ struck' = struck \cup {j}
BY DEF IInv, Types, Fault, Jobs

LEMMA SameStore ==
    ASSUME IInv, NEW s \in Scans
    PROVE  store = [store EXCEPT ![s] = store[s]] /\ store[s] \in Histories
BY DEF IInv, Types, Jobs

LEMMA PrepareInv ==
    ASSUME IInv, NEW s \in Scans, Prepare(s)
    PROVE  IInv'
<1>1. CASE Fault(s) /\ FailStep(s)
    BY <1>1, FailStepInv, FaultStrikes, SameStore DEF Prepare
<1>2. CASE Goto(s, "restore") /\ UNCHANGED <<branch, red, struck>> /\ Scanned
    <2>1. step[s] = "queued" /\ s \in Jobs /\ ~red[s]
        BY DEF Prepare, IInv, RedWatches, Jobs
    <2>2. FastForward(branch, branch')
        BY <1>2, Reflexive DEF IInv, Types
    <2>3. missed'[s] => HasScanOf(branch', s)
        BY <1>2 DEF Scanned, IInv, Carried
    <2> QED
        BY <1>2, <2>1, <2>2, <2>3, SameStore, ScanStep
        DEF Prepare, Goto, Scanned, Steps, IInv, Types
<1> QED
    BY <1>1, <1>2 DEF Prepare

LEMMA RestoreInv ==
    ASSUME IInv, NEW s \in Scans, Restore(s)
    PROVE  IInv'
<1>1. step[s] = "restore" /\ s \in Jobs /\ ~red[s]
    BY DEF Restore, IInv, RedWatches, Jobs
<1>2. FastForward(branch, branch') /\ branch' = branch
    BY Reflexive DEF Restore, IInv, Types
<1>3. PICK h \in Histories : store' = [store EXCEPT ![s] = h]
    BY SameStore DEF Restore, IInv, Types
<1>4. struck' \subseteq Jobs
    BY FaultStrikes DEF Restore, IInv, Types
<1>5. /\ step' = [step EXCEPT ![s] = "scan"] /\ red' = red /\ missed' = missed
      /\ told' = told /\ silences' = silences /\ reports' = reports
    BY DEF Restore, Goto
<1>6. missed'[s] => HasScanOf(branch', s)
    BY <1>2, <1>5 DEF IInv, Carried
<1> QED
    BY <1>1, <1>2, <1>3, <1>4, <1>5, <1>6, ScanStep DEF Steps, IInv, Types

LEMMA RunScanInv ==
    ASSUME IInv, NEW s \in Scans, RunScan(s)
    PROVE  IInv'
<1>1. step[s] = "scan" /\ s \in Jobs /\ ~red[s]
    BY DEF RunScan, IInv, RedWatches, Jobs
<1>2. FastForward(branch, branch') /\ branch' = branch
    BY Reflexive DEF RunScan, IInv, Types
<1>3. /\ step' = [step EXCEPT ![s] = "gaps"] /\ red' = red /\ missed' = missed
      /\ told' = told /\ silences' = silences /\ reports' = reports /\ struck' = struck
    BY DEF RunScan, Goto, Scanned
<1>4. missed'[s] => HasScanOf(branch', s)
    BY <1>2, <1>3 DEF IInv, Carried
<1>5. store' = [store EXCEPT ![s] = Append(OpenOrInit(s), ScanRecord(s, TRUE))]
    BY DEF RunScan
<1>6. /\ Append(OpenOrInit(s), ScanRecord(s, TRUE)) \in Histories
      /\ HasScanOf(Append(OpenOrInit(s), ScanRecord(s, TRUE)), s)
    BY OpenedHistory
<1> QED
    BY <1>1, <1>2, <1>3, <1>4, <1>5, <1>6, ScanStep DEF Steps, IInv, Types

LEMMA ScanFailsInv ==
    ASSUME IInv, NEW s \in Scans, ScanFails(s)
    PROVE  IInv'
<1>1. PICK h \in Histories : store' = [store EXCEPT ![s] = h]
    BY OpenedHistory, SameStore DEF ScanFails
<1> QED
    BY <1>1, FailStepInv, FaultStrikes DEF ScanFails

LEMMA PublishInv ==
    ASSUME IInv, NEW s \in Scans,
           NEW at \in {"gaps", "doctor"}, NEW next \in {"doctor", "push"},
           Publish(s, at, next)
    PROVE  IInv'
<1>1. CASE Fault(s) /\ FailStep(s) /\ UNCHANGED store
    BY <1>1, FailStepInv, FaultStrikes, SameStore
<1>2. CASE /\ Goto(s, next)
           /\ \/ UNCHANGED store
              \/ store[s] # <<>> /\ store' = [store EXCEPT ![s] = Append(@, Published(s))]
           /\ UNCHANGED <<branch, red, struck>> /\ Scanned
    <2>1. step[s] = at /\ s \in Jobs /\ ~red[s] /\ HasScanOf(store[s], s) /\ store[s] \in Histories
        BY DEF Publish, IInv, RedWatches, Carried, Types, Jobs
    <2>2. FastForward(branch, branch') /\ branch' = branch
        BY <1>2, Reflexive DEF IInv, Types
    <2>3. missed'[s] => HasScanOf(branch', s)
        BY <1>2, <2>2 DEF Scanned, IInv, Carried
    <2>4. PICK h \in Histories : store' = [store EXCEPT ![s] = h] /\ HasScanOf(h, s)
        <3>1. CASE UNCHANGED store
            BY <2>1, <3>1, SameStore
        <3>2. CASE store[s] # <<>> /\ store' = [store EXCEPT ![s] = Append(store[s], Published(s))]
            <4>1. Published(s) \in Commits /\ Published(s).kind # "root"
                BY <2>1, NewCommits
            <4>2. Append(store[s], Published(s)) \in Histories
                BY <2>1, <3>2, <4>1, AppendHistory
            <4>3. HasScanOf(Append(store[s], Published(s)), s)
                BY <2>1, <4>1, AppendElements DEF HasScanOf, Histories
            <4> QED
                BY <3>2, <4>2, <4>3
        <3> QED
            BY <1>2, <3>1, <3>2
    <2>5. /\ step' = [step EXCEPT ![s] = next] /\ red' = red /\ missed' = missed
          /\ told' = told /\ silences' = silences /\ reports' = reports /\ struck' = struck
        BY <1>2 DEF Goto, Scanned
    <2>6. next \in Steps /\ next \notin {"recall", "watchdog", "over"}
        BY DEF Steps
    <2> QED
        BY <2>1, <2>2, <2>3, <2>4, <2>5, <2>6, ScanStep DEF IInv, Types
<1> QED
    BY <1>1, <1>2 DEF Publish

LEMMA PushInv ==
    ASSUME IInv, NEW s \in Scans, Push(s)
    PROVE  IInv'
<1>1. step[s] = "push" /\ s \in Jobs /\ ~red[s] /\ HasScanOf(store[s], s) /\ store[s] \in Histories
    BY DEF Push, IInv, RedWatches, Carried, Types, Jobs
<1>2. FastForward(branch, branch') /\ branch' = store[s]
    BY DEF Push
<1>3. HasScanOf(branch', s)
    BY <1>1, <1>2
<1>4. store' = [store EXCEPT ![s] = store[s]]
    BY SameStore DEF Push
<1>5. /\ step' = [step EXCEPT ![s] = "recall"] /\ red' = red /\ missed' = missed
      /\ told' = told /\ silences' = silences /\ reports' = reports /\ struck' = struck
    BY DEF Push, Goto, Scanned
<1> QED
    BY <1>1, <1>2, <1>3, <1>4, <1>5, ScanStep DEF Steps, IInv, Types

LEMMA PushFailsInv ==
    ASSUME IInv, NEW s \in Scans, PushFails(s)
    PROVE  IInv'
<1>1. struck' \subseteq Jobs
    BY FaultStrikes DEF PushFails, IInv, Types
<1> QED
    BY <1>1, FailStepInv, SameStore DEF PushFails

LEMMA RecallInv ==
    ASSUME IInv, NEW s \in Scans, Recall(s)
    PROVE  IInv'
<1>1. step[s] = "recall" /\ s \in Jobs /\ HasScanOf(branch, s)
    BY DEF Recall, IInv, Carried, Jobs
<1>2. FastForward(branch, branch') /\ branch' = branch
    BY Reflexive DEF Recall, IInv, Types
<1>3. /\ step' = [step EXCEPT ![s] = "watchdog"] /\ store' = store
      /\ told' = told /\ silences' = silences /\ reports' = reports /\ struck' = struck
      /\ missed' = [missed EXCEPT ![s] = RecallRed(store[s])]
      /\ red' = [red EXCEPT ![s] = red[s] \/ RecallRed(store[s])]
    BY DEF Recall, Goto
<1>4. RecallRed(store[s]) \in BOOLEAN /\ (red[s] \/ RecallRed(store[s])) \in BOOLEAN
    BY DEF RecallRed
<1>5. /\ red' \in [Jobs -> BOOLEAN] /\ \A j \in Jobs \ {s} : red'[j] = red[j]
      /\ missed' \in [Scans -> BOOLEAN]
      /\ \A t \in Scans \ {s} : missed'[t] = missed[t]
    BY <1>3, <1>4 DEF IInv, Types
<1>6. HasScanOf(branch', s) /\ store' = [store EXCEPT ![s] = store[s]] /\ store[s] \in Histories
    BY <1>1, <1>2, <1>3, SameStore
<1>7. /\ "watchdog" \in Steps /\ branch' \in Histories /\ struck' \subseteq Jobs
     
    BY <1>2, <1>3 DEF Steps, IInv, Types
<1> QED
    BY <1>1, <1>2, <1>3, <1>5, <1>6, <1>7, ScanStep

LEMMA WatchdogInv ==
    ASSUME IInv, NEW s \in Scans, Watchdog(s)
    PROVE  IInv'
<1>1. step[s] = "watchdog" /\ s \in Jobs /\ (~red[s] => HasScanOf(branch, s))
    BY DEF Watchdog, IInv, Carried, Jobs
<1>2. FastForward(branch, branch') /\ branch' = branch
    BY Reflexive DEF Watchdog, IInv, Types
<1>3. /\ step' = [step EXCEPT ![s] = "over"] /\ store' = store
      /\ told' = told /\ silences' = silences /\ reports' = reports /\ struck' = struck
      /\ missed' = missed
    BY DEF Watchdog, Goto, Scanned
<1>4. PICK b \in BOOLEAN : red' = [red EXCEPT ![s] = red[s] \/ b]
    <2>1. red' = [red EXCEPT ![s] = red[s] \/ ~Healthy(store[s])]
        BY DEF Watchdog
    <2>2. CASE Healthy(store[s])
        BY <2>1, <2>2
    <2>3. CASE ~Healthy(store[s])
        BY <2>1, <2>3
    <2> QED
        BY <2>2, <2>3
<1>5. /\ red' \in [Jobs -> BOOLEAN] /\ \A j \in Jobs \ {s} : red'[j] = red[j]
      /\ red[s] => red'[s]
    BY <1>1, <1>4 DEF IInv, Types
<1>6. missed'[s] => HasScanOf(branch', s)
    BY <1>2, <1>3 DEF IInv, Carried
<1> QED
    BY <1>1, <1>2, <1>3, <1>5, <1>6, SameStore, ScanStep DEF Steps, IInv, Types

LEMMA ScanJobInv ==
    ASSUME IInv, NEW s \in Scans, ScanJob(s)
    PROVE  IInv'
BY PrepareInv, RestoreInv, RunScanInv, ScanFailsInv, PublishInv, PushInv, PushFailsInv,
   RecallInv, WatchdogInv
DEF ScanJob

LEMMA ChatJobInv ==
    ASSUME IInv, NEW c \in Chats, ChatJob(c)
    PROVE  IInv'
<1> USE DEF IInv
<1>1. c \in Jobs /\ c \notin Scans /\ Scans \subseteq Jobs /\ Chats \subseteq Jobs
    BY DeploymentAssumption DEF Jobs
<1>2. branch' = branch /\ red' = red /\ missed' = missed
      /\ silences' = silences /\ reports' = reports
    BY DEF ChatJob, StartChat, RecordDecision, EndChat, Scanned
<1>3. PICK next \in Steps, h \in Histories, n \in 0..MaxDecisions :
          /\ step' = [step EXCEPT ![c] = next] /\ store' = [store EXCEPT ![c] = h]
          /\ told' = [told EXCEPT ![c] = n]
          /\ next \in {"serve", "over"} /\ ~red[c]
          /\ next = "serve" => h # <<>>
          /\ struck' \subseteq Jobs
    <2>0. /\ told = [told EXCEPT ![c] = told[c]] /\ told[c] \in 0..MaxDecisions
          /\ store = [store EXCEPT ![c] = store[c]] /\ store[c] \in Histories
          /\ step = [step EXCEPT ![c] = step[c]]
        BY <1>1 DEF Types
    <2>1. CASE StartChat(c)
        <3>1. step' = [step EXCEPT ![c] = "serve"] /\ told' = told /\ ~red[c]
            BY <1>1, <2>1 DEF StartChat, Goto, Scanned, RedWatches
        <3>2. PICK h \in Histories : store' = [store EXCEPT ![c] = h] /\ h # <<>>
            BY <1>1, <2>1, RootHistory DEF StartChat, Types
        <3>3. struck' \subseteq Jobs
            BY <2>1, FaultStrikes DEF StartChat, Types
        <3> QED
            BY <2>0, <3>1, <3>2, <3>3 DEF Steps
    <2>2. CASE RecordDecision(c)
        <3>1. /\ step[c] = "serve" /\ step' = step /\ struck' = struck /\ ~red[c]
              /\ store[c] # <<>> /\ told[c] \in Nat /\ told[c] < MaxDecisions
            BY <1>1, <2>0, <2>2, DeploymentAssumption
            DEF RecordDecision, RedWatches, ChatOpened
        <3>2. /\ Decision(c, told[c] + 1) \in Commits
              /\ Decision(c, told[c] + 1).kind # "root"
            BY <3>1, NewCommits
        <3>3. /\ Append(store[c], Decision(c, told[c] + 1)) \in Histories
              /\ Append(store[c], Decision(c, told[c] + 1)) # <<>>
            BY <2>0, <3>1, <3>2, AppendHistory
        <3>4. told[c] + 1 \in 0..MaxDecisions
            BY <3>1, DeploymentAssumption
        <3>5. /\ told' = [told EXCEPT ![c] = told[c] + 1]
              /\ store' = [store EXCEPT ![c] = Append(store[c], Decision(c, told[c] + 1))]
            BY <2>2 DEF RecordDecision
        <3> QED
            BY <2>0, <3>1, <3>3, <3>4, <3>5 DEF Types, Steps
    <2>3. CASE EndChat(c)
        <3>1. /\ step' = [step EXCEPT ![c] = "over"] /\ told' = told /\ store' = store
              /\ struck' = struck /\ ~red[c]
            BY <1>1, <2>3 DEF EndChat, Goto, Scanned, RedWatches
        <3> QED
            BY <2>0, <3>1 DEF Types, Steps
    <2> QED
        BY <2>1, <2>2, <2>3 DEF ChatJob
<1>4. Types'
    BY <1>1, <1>2, <1>3 DEF Types
<1>5. RedWatches'
    BY <1>1, <1>2, <1>3 DEF RedWatches, Types
<1>6. ChatOpened'
    BY <1>1, <1>3 DEF ChatOpened, Types
<1>7. Carried'
    BY <1>1, <1>2, <1>3 DEF Carried, Types, HasScanOf
<1> QED
    BY <1>4, <1>5, <1>6, <1>7

LEMMA LoseRunnerInv ==
    ASSUME IInv, NEW j \in Jobs, LoseRunner(j)
    PROVE  IInv'
<1> USE DEF IInv
<1>1. /\ step' = [step EXCEPT ![j] = "lost"] /\ struck' \subseteq Jobs
      /\ branch' = branch /\ store' = store /\ red' = red /\ missed' = missed
      /\ told' = told /\ silences' = silences /\ reports' = reports
    BY FaultStrikes DEF LoseRunner, Goto, Scanned, Jobs
<1>2. Types'
    BY <1>1 DEF Types, Steps
<1>3. RedWatches'
    BY <1>1 DEF RedWatches, Types
<1>4. ChatOpened'
    BY <1>1 DEF ChatOpened, Types, Jobs
<1>5. Carried'
    BY <1>1 DEF Carried, Types, HasScanOf, Jobs
<1> QED
    BY <1>2, <1>3, <1>4, <1>5

LEMMA SilenceInv ==
    ASSUME IInv, Silence
    PROVE  IInv'
BY DeploymentAssumption
DEF IInv, Silence, Types, RedWatches, ChatOpened, Carried, HasScanOf

LEMMA ReportedBranch ==
    ASSUME IInv, ReportMiss
    PROVE  branch' \in Histories /\ FastForward(branch, branch')
<1>1. branch' = Append(branch, Report(reports + 1)) /\ branch # <<>> /\ branch \in Histories
    BY DEF ReportMiss, IInv, Types
<1>2. Report(reports + 1) \in Commits /\ Report(reports + 1).kind # "root"
    BY NewCommits, DeploymentAssumption DEF IInv, Types
<1> QED
    BY <1>1, <1>2, AppendHistory, AppendIsFastForward DEF Histories

LEMMA ReportMissInv ==
    ASSUME IInv, ReportMiss
    PROVE  IInv'
<1> USE DEF IInv
<1>1. /\ step' = step /\ store' = store /\ red' = red /\ missed' = missed
      /\ told' = told /\ silences' = silences /\ struck' = struck
      /\ reports' \in 0..MaxReports
    BY DeploymentAssumption DEF ReportMiss, Types
<1>2. branch' \in Histories /\ FastForward(branch, branch')
    BY ReportedBranch
<1>3. \A t \in Scans : HasScanOf(branch, t) => HasScanOf(branch', t)
    BY <1>2, FastForwardElements DEF Types, Histories, HasScanOf
<1>4. Types'
    BY <1>1, <1>2 DEF Types
<1>5. RedWatches' /\ ChatOpened'
    BY <1>1 DEF RedWatches, ChatOpened
<1>6. Carried'
    BY <1>1, <1>3 DEF Carried, HasScanOf
<1> QED
    BY <1>4, <1>5, <1>6

LEMMA NextIInv == IInv /\ [Next]_vars => IInv'
<1> SUFFICES ASSUME IInv, [Next]_vars PROVE IInv'
    OBVIOUS
<1>1. CASE UNCHANGED vars
    BY <1>1 DEF vars, IInv, Types, RedWatches, ChatOpened, Carried, HasScanOf
<1>2. CASE Next
    BY <1>2, ScanJobInv, ChatJobInv, LoseRunnerInv, SilenceInv, ReportMissInv DEF Next
<1> QED
    BY <1>1, <1>2

LEMMA Invariance == Spec => []IInv
BY InitIInv, NextIInv, PTL DEF Spec

\* The generated workflows keep their types, every history keeps its one root,
\* and a job that failed a step publishes nothing.
THEOREM TypeCorrect == Spec => []TypeOK
BY Invariance, IInvTypes, PTL

\* A green scan job, or one that only failed the recall gate, has its scan on
\* the findings branch, whatever overlaps it and whatever fails.
THEOREM VerdictPublished == Spec => []VerdictIsPublished
BY Invariance, IInvVerdict, PTL

-----------------------------------------------------------------------------
(* Why a job is red *)

\* No commit of a history is of s.
NoneOf(h, s) == \A i \in DOMAIN h : h[i].by # s

Unpushed == {"queued", "restore", "scan", "gaps", "doctor", "push"}

\* What a scan job makes is in its own store alone until it is pushed.
KeptToItself ==
    \A s \in Scans : step[s] \in Unpushed =>
        /\ NoneOf(branch, s)
        /\ \A j \in Jobs \ {s} : NoneOf(store[j], s)

\* While nothing fails under a job, the newest scan of its store is its own.
Fresh ==
    \A s \in Scans :
        s \notin struck /\ step[s] \in {"gaps", "doctor", "push", "recall", "watchdog"} =>
            Healthy(store[s])

Excused == \A s \in Scans : red[s] /\ s \notin struck => missed[s] \/ Overtaken(s)

Reported(h) == \E c \in Elements(h) : c.kind = "report"

\* The recall gate reads what has been pushed.
MissIsReported ==
    \A s \in Scans :
        /\ step[s] = "recall" => Elements(store[s]) \subseteq Elements(branch)
        /\ missed[s] => Reported(branch)

Reasons == KeptToItself /\ Fresh /\ Excused /\ MissIsReported

\* What a step of scan job s leaves to the others.
LEMMA OthersAreLeft ==
    ASSUME IInv, NEW s \in Scans, ScanJob(s)
    PROVE  /\ \A t \in Scans \ {s} : /\ step'[t] = step[t] /\ red'[t] = red[t]
                                     /\ missed'[t] = missed[t]
           /\ \A j \in Jobs \ {s} : store'[j] = store[j]
           /\ silences' = silences /\ struck \subseteq struck'
<1> USE DEF IInv, Types, Goto, Scanned, Jobs
<1>1. CASE Prepare(s)
    BY <1>1, FaultStrikes DEF Prepare, FailStep
<1>2. CASE Restore(s)
    BY <1>2, FaultStrikes DEF Restore
<1>3. CASE RunScan(s)
    BY <1>3 DEF RunScan
<1>4. CASE ScanFails(s)
    BY <1>4, FaultStrikes DEF ScanFails, FailStep
<1>5. ASSUME NEW at \in {"gaps", "doctor"}, NEW next \in {"doctor", "push"},
             Publish(s, at, next)
      PROVE  /\ \A t \in Scans \ {s} : /\ step'[t] = step[t] /\ red'[t] = red[t]
                                       /\ missed'[t] = missed[t]
             /\ \A j \in Jobs \ {s} : store'[j] = store[j]
             /\ silences' = silences /\ struck \subseteq struck'
    BY <1>5, FaultStrikes DEF Publish, FailStep
<1>6. CASE Push(s)
    BY <1>6 DEF Push
<1>7. CASE PushFails(s)
    BY <1>7, FaultStrikes DEF PushFails, FailStep
<1>8. CASE Recall(s)
    BY <1>8 DEF Recall
<1>9. CASE Watchdog(s)
    BY <1>9 DEF Watchdog
<1> QED
    BY <1>1, <1>2, <1>3, <1>4, <1>5, <1>6, <1>7, <1>8, <1>9 DEF ScanJob

\* What a chat leaves to the scan jobs.
LEMMA ScansAreLeft ==
    ASSUME IInv, NEW c \in Chats, ChatJob(c)
    PROVE  /\ \A t \in Scans : step'[t] = step[t]
           /\ \A j \in Jobs \ {c} : store'[j] = store[j]
           /\ branch' = branch /\ red' = red /\ missed' = missed
           /\ silences' = silences /\ struck \subseteq struck'
BY DeploymentAssumption, FaultStrikes
DEF ChatJob, StartChat, RecordDecision, EndChat, Goto, Scanned, IInv, Types, Jobs

-----------------------------------------------------------------------------
(* Whose commits a history holds *)

LEMMA AppendNoneOf ==
    ASSUME NEW h \in Seq(Commits), NEW c \in Commits, NEW t, NoneOf(h, t), c.by # t
    PROVE  NoneOf(Append(h, c), t)
<1>1. /\ DOMAIN Append(h, c) = 1..(Len(h) + 1) /\ DOMAIN h = 1..Len(h) /\ Len(h) \in Nat
      /\ \A i \in 1..Len(h) : Append(h, c)[i] = h[i]
      /\ Append(h, c)[Len(h) + 1] = c
    OBVIOUS
<1> QED
    BY <1>1 DEF NoneOf

LEMMA OwnCommits ==
    ASSUME IInv
    PROVE  /\ \A j \in Jobs : Root(j) \in Commits /\ Root(j).by = j
           /\ \A j \in Jobs : Published(j) \in Commits /\ Published(j).by = j
           /\ \A s \in Scans, ok \in BOOLEAN :
                 ScanRecord(s, ok) \in Commits /\ ScanRecord(s, ok).by = s
           /\ \A c \in Chats, n \in Nat : Decision(c, n) \in Commits /\ Decision(c, n).by = c
<1>1. silences \in Nat
    BY DeploymentAssumption DEF IInv, Types
<1>2. \A j \in Jobs : Root(j).by = j /\ Published(j).by = j
    BY DEF Root, Published
<1>3. \A c \in Chats, n \in Nat : Decision(c, n).by = c
    BY DEF Decision
<1> QED
    BY <1>1, <1>2, <1>3, NewCommits

\* A scan job puts no other job's commits in its store but the branch's.
LEMMA ScanStoreNoneOf ==
    ASSUME IInv, NEW s \in Scans, ScanJob(s), NEW t \in Scans, t # s,
           NoneOf(store[s], t), NoneOf(branch, t)
    PROVE  NoneOf(store'[s], t)
<1>1. s \in Jobs /\ store[s] \in Seq(Commits)
    BY DEF IInv, Types, Histories, Jobs
<1>2. OpenOrInit(s) \in Seq(Commits) /\ NoneOf(OpenOrInit(s), t)
    BY <1>1, OwnCommits DEF OpenOrInit, NoneOf
<1>3. \A ok \in BOOLEAN : NoneOf(Append(OpenOrInit(s), ScanRecord(s, ok)), t)
    BY <1>2, OwnCommits, AppendNoneOf
<1>4. NoneOf(Append(store[s], Published(s)), t)
    BY <1>1, OwnCommits, AppendNoneOf
<1>5. \/ store' = store \/ store' = [store EXCEPT ![s] = branch]
      \/ store' = [store EXCEPT ![s] = OpenOrInit(s)]
      \/ \E ok \in BOOLEAN :
            store' = [store EXCEPT ![s] = Append(OpenOrInit(s), ScanRecord(s, ok))]
      \/ store' = [store EXCEPT ![s] = Append(store[s], Published(s))]
    BY DEF ScanJob, Prepare, Restore, RunScan, ScanFails, Publish, Push, PushFails,
           Recall, Watchdog
<1> QED
    BY <1>1, <1>2, <1>3, <1>4, <1>5 DEF IInv, Types

LEMMA ChatStoreNoneOf ==
    ASSUME IInv, NEW c \in Chats, ChatJob(c), NEW t \in Scans,
           NoneOf(store[c], t), NoneOf(branch, t)
    PROVE  NoneOf(store'[c], t)
<1>1. c \in Jobs /\ store[c] \in Seq(Commits) /\ c # t /\ told[c] + 1 \in Nat
    BY DeploymentAssumption DEF IInv, Types, Histories, Jobs
<1>2. NoneOf(<<Root(c)>>, t)
    BY <1>1, OwnCommits DEF NoneOf
<1>3. NoneOf(Append(store[c], Decision(c, told[c] + 1)), t)
    BY <1>1, OwnCommits, AppendNoneOf
<1>4. \/ store' = store \/ store' = [store EXCEPT ![c] = branch]
      \/ store' = [store EXCEPT ![c] = <<Root(c)>>]
      \/ store' = [store EXCEPT ![c] = Append(store[c], Decision(c, told[c] + 1))]
    BY DEF ChatJob, StartChat, RecordDecision, EndChat
<1> QED
    BY <1>1, <1>2, <1>3, <1>4 DEF IInv, Types

\* Where a scan job's step takes it and the branch.
LEMMA BranchMoves ==
    ASSUME NEW s \in Scans, ScanJob(s)
    PROVE  branch' = branch \/ (Push(s) /\ branch' = store[s])
<1>1. Push(s) => branch' = store[s]
    BY DEF Push
<1>2. \/ Prepare(s) \/ Restore(s) \/ RunScan(s) \/ ScanFails(s) => branch' = branch
    BY DEF Prepare, Restore, RunScan, ScanFails, FailStep
<1>3. \A at \in {"gaps", "doctor"}, next \in {"doctor", "push"} :
          Publish(s, at, next) => branch' = branch
    BY DEF Publish, FailStep
<1>4. PushFails(s) \/ Recall(s) \/ Watchdog(s) => branch' = branch
    BY DEF PushFails, Recall, Watchdog, FailStep
<1> QED
    BY <1>1, <1>2, <1>3, <1>4 DEF ScanJob

LEMMA UnpushedWas ==
    ASSUME IInv, NEW s \in Scans, ScanJob(s), step'[s] \in Unpushed
    PROVE  step[s] \in Unpushed /\ branch' = branch
<1>1. s \in Jobs
    BY DEF Jobs
<1>2. ~Push(s) /\ ~Recall(s) /\ ~Watchdog(s)
    BY <1>1 DEF Push, Recall, Watchdog, Goto, Unpushed, IInv, Types
<1>3. step[s] \in Unpushed
    BY <1>2 DEF ScanJob, Prepare, Restore, RunScan, ScanFails, Publish, PushFails, Unpushed
<1> QED
    BY <1>2, <1>3, BranchMoves

LEMMA KeptToItselfStep ==
    ASSUME IInv, KeptToItself, [Next]_vars
    PROVE  KeptToItself'
<1> SUFFICES ASSUME NEW t \in Scans, step'[t] \in Unpushed
             PROVE  NoneOf(branch', t) /\ \A j \in Jobs \ {t} : NoneOf(store'[j], t)
    BY DEF KeptToItself, NoneOf
<1>1. CASE UNCHANGED vars
    BY <1>1 DEF vars, KeptToItself
<1>2. ASSUME NEW s \in Scans, ScanJob(s)
      PROVE  NoneOf(branch', t) /\ \A j \in Jobs \ {t} : NoneOf(store'[j], t)
    <2>1. s \in Jobs /\ \A j \in Jobs \ {s} : store'[j] = store[j]
        BY <1>2, OthersAreLeft DEF Jobs
    <2>2. CASE s = t
        BY <1>2, <2>1, <2>2, UnpushedWas DEF KeptToItself
    <2>3. CASE s # t
        <3>1. /\ NoneOf(branch, t) /\ \A j \in Jobs \ {t} : NoneOf(store[j], t)
            BY <1>2, <2>3, OthersAreLeft DEF KeptToItself
        <3>2. NoneOf(branch', t)
            BY <1>2, <2>1, <2>3, <3>1, BranchMoves
        <3>3. NoneOf(store'[s], t)
            BY <1>2, <2>1, <2>3, <3>1, ScanStoreNoneOf
        <3> QED
            BY <2>1, <3>1, <3>2, <3>3
    <2> QED
        BY <2>2, <2>3
<1>3. ASSUME NEW c \in Chats, ChatJob(c)
      PROVE  NoneOf(branch', t) /\ \A j \in Jobs \ {t} : NoneOf(store'[j], t)
    <2>1. /\ c \in Jobs /\ c # t /\ step'[t] = step[t] /\ branch' = branch
          /\ \A j \in Jobs \ {c} : store'[j] = store[j]
        BY <1>3, ScansAreLeft, DeploymentAssumption DEF Jobs
    <2>2. /\ NoneOf(branch, t) /\ \A j \in Jobs \ {t} : NoneOf(store[j], t)
        BY <2>1 DEF KeptToItself
    <2>3. NoneOf(store'[c], t)
        BY <1>3, <2>1, <2>2, ChatStoreNoneOf
    <2> QED
        BY <2>1, <2>2, <2>3
<1>4. ASSUME NEW j \in Jobs, LoseRunner(j)
      PROVE  NoneOf(branch', t) /\ \A k \in Jobs \ {t} : NoneOf(store'[k], t)
    <2>1. /\ branch' = branch /\ store' = store /\ t \in Jobs
          /\ step' = [step EXCEPT ![j] = "lost"]
        BY <1>4 DEF LoseRunner, Goto, Jobs
    <2>2. step[t] \in Unpushed
        BY <2>1 DEF IInv, Types, Unpushed
    <2> QED
        BY <2>1, <2>2 DEF KeptToItself
<1>5. CASE Silence
    BY <1>5 DEF Silence, KeptToItself
<1>6. CASE ReportMiss
    <2>1. NoneOf(branch, t) /\ \A j \in Jobs \ {t} : NoneOf(store[j], t)
        BY <1>6 DEF ReportMiss, KeptToItself
    <2>2. Report(reports + 1) \in Commits /\ Report(reports + 1).by # t
        <3>1. reports + 1 \in Nat /\ Operator # t
            BY DeploymentAssumption DEF IInv, Types
        <3> QED
            BY <3>1, NewCommits DEF Report
    <2>3. branch \in Seq(Commits)
        BY DEF IInv, Types, Histories
    <2> QED
        BY <1>6, <2>1, <2>2, <2>3, AppendNoneOf DEF ReportMiss
<1> QED
    BY <1>1, <1>2, <1>3, <1>4, <1>5, <1>6 DEF Next

-----------------------------------------------------------------------------
(* The watchdog *)

LEMMA AppendScanIsHealthy ==
    ASSUME NEW h \in Seq(Commits), NEW s \in Scans, silences \in Nat
    PROVE  Healthy(Append(h, ScanRecord(s, TRUE)))
<1> DEFINE new == Append(h, ScanRecord(s, TRUE))
<1>1. /\ DOMAIN new = 1..(Len(h) + 1) /\ Len(h) \in Nat
      /\ new[Len(h) + 1] = ScanRecord(s, TRUE)
    <2>1. \A c \in Commits : /\ DOMAIN Append(h, c) = 1..(Len(h) + 1)
                              /\ Append(h, c)[Len(h) + 1] = c
        OBVIOUS
    <2>2. ScanRecord(s, TRUE) \in Commits
        BY NewCommits
    <2>3. Len(h) \in Nat
        OBVIOUS
    <2> QED
        BY <2>1, <2>2, <2>3
<1>2. Len(h) + 1 \in LoadScans(new) /\ \A k \in LoadScans(new) : k <= Len(h) + 1
    BY <1>1 DEF LoadScans, ScanRecord
<1>3. new[Len(h) + 1].ok /\ new[Len(h) + 1].at = silences
    BY <1>1 DEF ScanRecord
<1> QED
    BY <1>2, <1>3 DEF Healthy

LEMMA AppendOtherIsHealthy ==
    ASSUME NEW h \in Seq(Commits), NEW c \in Commits, c.kind # "scan", Healthy(h)
    PROVE  Healthy(Append(h, c))
<1> DEFINE new == Append(h, c)
<1>1. /\ DOMAIN new = 1..(Len(h) + 1) /\ Len(h) \in Nat /\ DOMAIN h = 1..Len(h)
      /\ new[Len(h) + 1] = c /\ \A i \in 1..Len(h) : new[i] = h[i]
    OBVIOUS
<1>2. LoadScans(new) = LoadScans(h)
    BY <1>1 DEF LoadScans
<1>3. \A i \in LoadScans(h) : new[i] = h[i]
    BY <1>1 DEF LoadScans
<1> QED
    BY <1>2, <1>3 DEF Healthy

Watched == {"gaps", "doctor", "push", "recall", "watchdog"}

\* Under a job that nothing fails, its steps keep its scan the newest.
LEMMA OwnScanStaysFresh ==
    ASSUME IInv, Fresh, NEW s \in Scans, ScanJob(s),
           s \notin struck', step'[s] \in Watched
    PROVE  Healthy(store'[s])
<1>1. /\ s \in Jobs /\ s \notin struck /\ store[s] \in Seq(Commits)
      /\ step[s] \in Watched => Healthy(store[s])
    BY OthersAreLeft DEF IInv, Types, Histories, Jobs, Fresh, Watched
<1>2. ~Fault(s)
    BY DEF Fault
<1>3. CASE RunScan(s)
    <2>1. OpenOrInit(s) \in Seq(Commits)
        BY OpenedHistory DEF Histories
    <2>2. store'[s] = Append(OpenOrInit(s), ScanRecord(s, TRUE))
        BY <1>1, <1>3 DEF RunScan, IInv, Types
    <2>3. silences \in Nat
        BY DeploymentAssumption DEF IInv, Types
    <2>4. Healthy(Append(OpenOrInit(s), ScanRecord(s, TRUE)))
        BY <2>1, <2>3, AppendScanIsHealthy
    <2> QED
        BY <2>2, <2>4
<1>4. ASSUME NEW at \in {"gaps", "doctor"}, NEW next \in {"doctor", "push"},
             Publish(s, at, next)
      PROVE  Healthy(store'[s])
    <2>1. Healthy(store[s])
        BY <1>1, <1>4 DEF Publish, Watched
    <2>2. Published(s) \in Commits /\ Published(s).kind # "scan"
        BY <1>1, NewCommits DEF Published
    <2>3. Healthy(Append(store[s], Published(s)))
        BY <1>1, <2>1, <2>2, AppendOtherIsHealthy
    <2>4. store'[s] \in {store[s], Append(store[s], Published(s))}
        BY <1>1, <1>4 DEF Publish, IInv, Types
    <2> QED
        BY <2>1, <2>3, <2>4
<1>5. CASE Push(s) \/ PushFails(s) \/ Recall(s) \/ Watchdog(s)
    <2>1. step[s] \in Watched /\ store' = store
        BY <1>5 DEF Push, PushFails, Recall, Watchdog, Watched
    <2> QED
        BY <1>1, <2>1
<1>6. ~Prepare(s) /\ ~Restore(s) /\ ~ScanFails(s)
    BY <1>1, <1>2 DEF Prepare, Restore, ScanFails, Goto, Watched, IInv, Types
<1> QED
    BY <1>3, <1>4, <1>5, <1>6 DEF ScanJob

\* Health is a matter of the history and of the time.
LEMMA HealthKeeps ==
    ASSUME NEW t \in Scans, store'[t] = store[t], silences' = silences
    PROVE  Healthy(store[t]) = Healthy(store[t])'
BY DEF Healthy, LoadScans

LEMMA FreshStep ==
    ASSUME IInv, Fresh, [Next]_vars
    PROVE  Fresh'
<1> SUFFICES ASSUME NEW t \in Scans, t \notin struck', step'[t] \in Watched
             PROVE  Healthy(store[t])'
    BY DEF Fresh, Watched
<1>0. t \in Jobs
    BY DEF Jobs
<1>1. ASSUME t \notin struck, step[t] \in Watched, store'[t] = store[t], silences' = silences
      PROVE  Healthy(store[t])'
    BY <1>1, HealthKeeps DEF Fresh, Watched
<1>2. CASE UNCHANGED vars
    BY <1>1, <1>2 DEF vars
<1>3. ASSUME NEW s \in Scans, ScanJob(s)
      PROVE  Healthy(store[t])'
    <2>1. CASE s = t
        <3>1. Healthy(store'[t]) /\ silences' = silences
            BY <1>3, <2>1, OwnScanStaysFresh, OthersAreLeft
        <3> QED
            BY <3>1 DEF Healthy, LoadScans
    <2>2. CASE s # t
        BY <1>0, <1>1, <1>3, <2>2, OthersAreLeft
    <2> QED
        BY <2>1, <2>2
<1>4. ASSUME NEW c \in Chats, ChatJob(c)
      PROVE  Healthy(store[t])'
    <2>1. c # t
        BY DeploymentAssumption
    <2> QED
        BY <1>0, <1>1, <1>4, <2>1, ScansAreLeft
<1>5. ASSUME NEW j \in Jobs, LoseRunner(j)
      PROVE  Healthy(store[t])'
    <2>1. /\ step' = [step EXCEPT ![j] = "lost"] /\ store' = store /\ silences' = silences
          /\ struck \subseteq struck'
        BY <1>5 DEF LoseRunner, Goto, Scanned, Fault
    <2>2. step[t] \in Watched
        BY <1>0, <2>1 DEF IInv, Types, Watched
    <2> QED
        BY <1>1, <2>1, <2>2
<1>6. ~Silence
    BY <1>0 DEF Silence, Running, Watched
<1>7. CASE ReportMiss
    BY <1>1, <1>7 DEF ReportMiss
<1> QED
    BY <1>2, <1>3, <1>4, <1>5, <1>6, <1>7 DEF Next

-----------------------------------------------------------------------------
(* Excuses *)

\* What was published stays where it was.
LEMMA StepGrowsBranch ==
    ASSUME IInv, [Next]_vars
    PROVE  /\ FastForward(branch, branch')
           /\ DOMAIN branch \subseteq DOMAIN branch'
           /\ \A i \in DOMAIN branch : branch'[i] = branch[i]
<1>1. FastForward(branch, branch')
    <2>1. CASE branch' = branch
        BY <2>1, Reflexive DEF IInv, Types
    <2>2. ASSUME NEW s \in Scans, ScanJob(s)
          PROVE  FastForward(branch, branch')
        BY <2>1, <2>2, BranchMoves DEF Push
    <2>3. ASSUME NEW c \in Chats, ChatJob(c)
          PROVE  FastForward(branch, branch')
        BY <2>1, <2>3, ScansAreLeft
    <2>4. CASE ReportMiss
        BY <2>4, ReportedBranch
    <2> QED
        BY <2>1, <2>2, <2>3, <2>4 DEF Next, vars, LoseRunner, Silence
<1>2. branch \in Seq(Commits) /\ branch' \in Seq(Commits)
    BY NextIInv DEF IInv, Types, Histories
<1>3. /\ DOMAIN branch = 1..Len(branch) /\ DOMAIN branch' = 1..Len(branch')
      /\ Len(branch) \in Nat /\ Len(branch') \in Nat /\ Len(branch) <= Len(branch')
    BY <1>1, <1>2 DEF FastForward
<1>4. \A i \in 1..Len(branch) : branch'[i] = branch[i]
    <2> TAKE i \in 1..Len(branch)
    <2>1. SubSeq(branch', 1, Len(branch))[i] = branch'[i]
        BY <1>2, <1>3
    <2> QED
        BY <1>1, <2>1 DEF FastForward
<1> QED
    BY <1>1, <1>3, <1>4

LEMMA StaysOvertaken ==
    ASSUME IInv, [Next]_vars, NEW t \in Scans, Overtaken(t), store'[t] = store[t]
    PROVE  Overtaken(t)'
BY StepGrowsBranch DEF Overtaken

\* A push is refused only to a store that lacks another's commit.
LEMMA RefusedIsOvertaken ==
    ASSUME IInv, KeptToItself, NEW s \in Scans, step[s] = "push",
           ~FastForward(branch, store[s])
    PROVE  Overtaken(s)
<1>1. s \in Jobs /\ branch \in Seq(Commits) /\ store[s] \in Seq(Commits)
    BY DEF IInv, Types, Histories, Jobs
<1>2. /\ DOMAIN branch = 1..Len(branch) /\ DOMAIN store[s] = 1..Len(store[s])
      /\ Len(branch) \in Nat /\ Len(store[s]) \in Nat
    BY <1>1
<1>3. \A i \in DOMAIN branch : branch[i].by # s
    BY DEF KeptToItself, NoneOf, Unpushed
<1>4. CASE Len(store[s]) < Len(branch)
    <2>1. Len(branch) \in DOMAIN branch /\ Len(branch) \notin DOMAIN store[s]
        BY <1>2, <1>4
    <2> QED
        BY <1>3, <2>1 DEF Overtaken
<1>5. CASE Len(branch) <= Len(store[s])
    <2>1. SUFFICES ASSUME \A i \in DOMAIN branch : store[s][i] = branch[i]
                   PROVE  FALSE
        BY <1>3 DEF Overtaken
    <2>2. /\ SubSeq(store[s], 1, Len(branch)) \in Seq(Commits)
          /\ Len(SubSeq(store[s], 1, Len(branch))) = Len(branch)
          /\ \A i \in 1..Len(branch) : SubSeq(store[s], 1, Len(branch))[i] = store[s][i]
        BY <1>1, <1>2, <1>5
    <2>3. SubSeq(store[s], 1, Len(branch)) = branch
        BY <1>1, <1>2, <2>1, <2>2
    <2> QED
        BY <1>5, <2>3 DEF FastForward
<1> QED
    BY <1>2, <1>4, <1>5

\* The step of a scan job that turns it red, if nothing fails in it.
LEMMA OwnExcuse ==
    ASSUME IInv, Reasons, [Next]_vars, NEW s \in Scans, ScanJob(s),
           s \notin struck', red'[s]
    PROVE  missed'[s] \/ Overtaken(s)'
<1>1. s \in Jobs /\ s \notin struck /\ ~Fault(s)
    BY OthersAreLeft DEF Jobs, Fault
<1>2. red[s] => step[s] \in {"watchdog", "over", "lost"}
    BY <1>1 DEF IInv, RedWatches
<1>3. CASE PushFails(s)
    <2>1. step[s] = "push" /\ ~FastForward(branch, store[s])
        BY <1>1, <1>3 DEF PushFails
    <2>2. Overtaken(s) /\ store' = store
        BY <1>3, <2>1, RefusedIsOvertaken DEF Reasons, PushFails
    <2> QED
        BY <2>2, StaysOvertaken
<1>4. CASE Recall(s)
    <2>1. ~red[s] /\ red'[s] = (red[s] \/ RecallRed(store[s])) /\ missed'[s] = RecallRed(store[s])
        BY <1>1, <1>2, <1>4 DEF Recall, IInv, Types
    <2> QED
        BY <2>1
<1>5. CASE Watchdog(s)
    <2>1. Healthy(store[s])
        BY <1>1, <1>5 DEF Watchdog, Reasons, Fresh
    <2>2. red'[s] = (red[s] \/ ~Healthy(store[s]))
        BY <1>1, <1>5 DEF Watchdog, IInv, Types
    <2>3. missed[s] \/ Overtaken(s)
        BY <1>1, <2>1, <2>2 DEF Reasons, Excused
    <2>4. missed' = missed /\ store' = store
        BY <1>5 DEF Watchdog, Scanned
    <2> QED
        BY <2>3, <2>4, StaysOvertaken
<1>6. ~(Prepare(s) \/ Restore(s) \/ RunScan(s) \/ ScanFails(s) \/ Push(s))
    BY <1>1, <1>2 DEF Prepare, Restore, RunScan, ScanFails, Push
<1>7. \A at \in {"gaps", "doctor"}, next \in {"doctor", "push"} : ~Publish(s, at, next)
    BY <1>1, <1>2 DEF Publish
<1> QED
    BY <1>3, <1>4, <1>5, <1>6, <1>7 DEF ScanJob

LEMMA ExcusedStep ==
    ASSUME IInv, Reasons, [Next]_vars
    PROVE  Excused'
<1> SUFFICES ASSUME NEW t \in Scans, t \notin struck', red'[t]
             PROVE  missed'[t] \/ Overtaken(t)'
    BY DEF Excused
<1>0. t \in Jobs /\ t \notin Chats
    BY DeploymentAssumption DEF Jobs
<1>1. ASSUME t \notin struck, red[t], store'[t] = store[t], missed'[t] = missed[t]
      PROVE  missed'[t] \/ Overtaken(t)'
    BY <1>1, StaysOvertaken DEF Reasons, Excused
<1>2. ASSUME NEW s \in Scans, ScanJob(s)
      PROVE  missed'[t] \/ Overtaken(t)'
    BY <1>0, <1>1, <1>2, OwnExcuse, OthersAreLeft
<1>3. ASSUME NEW c \in Chats, ChatJob(c)
      PROVE  missed'[t] \/ Overtaken(t)'
    BY <1>0, <1>1, <1>3, ScansAreLeft
<1>4. ASSUME NEW j \in Jobs, LoseRunner(j)
      PROVE  missed'[t] \/ Overtaken(t)'
    BY <1>1, <1>4 DEF LoseRunner, Scanned, Fault
<1> QED
    BY <1>1, <1>2, <1>3, <1>4 DEF Next, vars, Silence, ReportMiss

LEMMA MissIsReportedStep ==
    ASSUME IInv, MissIsReported, [Next]_vars
    PROVE  MissIsReported'
<1> SUFFICES ASSUME NEW t \in Scans
             PROVE  /\ step'[t] = "recall" => Elements(store'[t]) \subseteq Elements(branch')
                    /\ missed'[t] => Reported(branch')
    BY DEF MissIsReported, Reported, Elements
<1>0. t \in Jobs /\ t \notin Chats
    BY DeploymentAssumption DEF Jobs
<1>1. Elements(branch) \subseteq Elements(branch')
    BY StepGrowsBranch DEF Elements
<1>2. Reported(branch) => Reported(branch')
    BY <1>1 DEF Reported
<1>3. ASSUME step'[t] = step[t], store'[t] = store[t], missed'[t] = missed[t]
      PROVE  /\ step'[t] = "recall" => Elements(store'[t]) \subseteq Elements(branch')
             /\ missed'[t] => Reported(branch')
    BY <1>1, <1>2, <1>3 DEF MissIsReported
<1>4. ASSUME NEW s \in Scans, ScanJob(s)
      PROVE  /\ step'[t] = "recall" => Elements(store'[t]) \subseteq Elements(branch')
             /\ missed'[t] => Reported(branch')
    <2>1. CASE s # t
        BY <1>0, <1>3, <1>4, <2>1, OthersAreLeft
    <2>2. CASE s = t /\ Push(t)
        <3>1. branch' = store[t] /\ store' = store /\ missed' = missed
            BY <2>2 DEF Push, Scanned
        <3> QED
            BY <1>2, <3>1 DEF MissIsReported
    <2>3. CASE s = t /\ Recall(t)
        <3>1. /\ step[t] = "recall" /\ step'[t] # "recall"
              /\ missed'[t] = RecallRed(store[t]) /\ branch' = branch
            BY <1>0, <2>3 DEF Recall, Goto, IInv, Types
        <3>2. RecallRed(store[t]) => Reported(store[t])
            BY DEF RecallRed, Reported, Elements
        <3> QED
            BY <3>1, <3>2 DEF MissIsReported, Reported
    <2>4. CASE s = t /\ ~Push(t) /\ ~Recall(t)
        <3>1. missed' = missed /\ step'[t] # "recall"
            <4>1. Prepare(t) \/ Restore(t) \/ RunScan(t) \/ ScanFails(t) =>
                     missed' = missed /\ step'[t] # "recall"
                BY <1>0 DEF Prepare, Restore, RunScan, ScanFails, FailStep, Scanned, Goto,
                            IInv, Types
            <4>2. \A at \in {"gaps", "doctor"}, next \in {"doctor", "push"} :
                     Publish(t, at, next) => missed' = missed /\ step'[t] # "recall"
                BY <1>0 DEF Publish, FailStep, Scanned, Goto, IInv, Types
            <4>3. PushFails(t) \/ Watchdog(t) => missed' = missed /\ step'[t] # "recall"
                BY <1>0 DEF PushFails, Watchdog, FailStep, Scanned, Goto, IInv, Types
            <4> QED
                BY <1>4, <2>4, <4>1, <4>2, <4>3 DEF ScanJob
        <3> QED
            BY <1>2, <3>1 DEF MissIsReported
    <2> QED
        BY <2>1, <2>2, <2>3, <2>4
<1>5. ASSUME NEW c \in Chats, ChatJob(c)
      PROVE  /\ step'[t] = "recall" => Elements(store'[t]) \subseteq Elements(branch')
             /\ missed'[t] => Reported(branch')
    BY <1>0, <1>3, <1>5, ScansAreLeft
<1>6. ASSUME NEW j \in Jobs, LoseRunner(j)
      PROVE  /\ step'[t] = "recall" => Elements(store'[t]) \subseteq Elements(branch')
             /\ missed'[t] => Reported(branch')
    <2>1. /\ step' = [step EXCEPT ![j] = "lost"] /\ store' = store /\ missed' = missed
        BY <1>6 DEF LoseRunner, Goto, Scanned
    <2>2. CASE j = t
        BY <1>0, <1>2, <2>1, <2>2 DEF IInv, Types, MissIsReported
    <2>3. CASE j # t
        BY <1>0, <1>3, <2>1, <2>3 DEF IInv, Types
    <2> QED
        BY <2>2, <2>3
<1> QED
    BY <1>3, <1>4, <1>5, <1>6 DEF Next, vars, Silence, ReportMiss

LEMMA InitReasons == Init => Reasons
<1> SUFFICES ASSUME Init PROVE Reasons
    OBVIOUS
<1>1. KeptToItself
    BY DEF Init, KeptToItself, NoneOf
<1>2. Fresh /\ Excused /\ MissIsReported
    BY DEF Init, Fresh, Excused, MissIsReported, Jobs
<1> QED
    BY <1>1, <1>2 DEF Reasons

LEMMA NextReasons == IInv /\ Reasons /\ [Next]_vars => Reasons'
BY KeptToItselfStep, FreshStep, ExcusedStep, MissIsReportedStep DEF Reasons

LEMMA ReasonsInvariance == Spec => []Reasons
BY InitReasons, NextReasons, Invariance, PTL DEF Spec

LEMMA ReasonsExplain == Reasons => RedHasReason
BY DEF Reasons, Excused, MissIsReported, Reported, RedHasReason

\* A red scan job is no false alarm: what failed under it, a miss somebody
\* reported, or a commit of another job that its push could not keep.
THEOREM RedIsExplained == Spec => []RedHasReason
BY ReasonsInvariance, ReasonsExplain, PTL
=============================================================================
