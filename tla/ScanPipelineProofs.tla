------------------------- MODULE ScanPipelineProofs -------------------------
(***************************************************************************)
(* Proofs about ScanPipeline: its types, and that the streams account for  *)
(* every scan, hold no event twice, miss no alarming event and flag a new  *)
(* actor once, for any connectors, any events and any number of scans,     *)
(* failures and kills.                                                     *)
(***************************************************************************)
EXTENDS ScanPipeline, SequenceLemmas

\* The loop of dedupeEvents, one pulled event at a time.
DedupeStep(pulled, prior, kept, i) ==
    IF i = 0 THEN <<>>
    ELSE IF pulled[i] \in prior \cup ToSet(kept[i - 1]) THEN kept[i - 1]
    ELSE Append(kept[i - 1], pulled[i])

LEMMA DedupeDefined ==
    ASSUME NEW pulled, NEW prior, Len(pulled) \in Nat
    PROVE  \E kept : /\ kept = [i \in 0..Len(pulled) |-> DedupeStep(pulled, prior, kept, i)]
                     /\ Dedupe(pulled, prior) = kept[Len(pulled)]
<1> DEFINE Runs(g, m) == \A i \in 0..m : g[i] = DedupeStep(pulled, prior, g, i)
           S == {m \in Nat : \E g : Runs(g, m)}
<1>1. 0 \in S
  <2>1. Runs([i \in {0} |-> <<>>], 0)
    BY DEF DedupeStep
  <2> QED  BY <2>1
<1>2. ASSUME NEW m \in Nat, m \in S PROVE m + 1 \in S
  <2>1. PICK g : Runs(g, m)
    BY <1>2
  <2> DEFINE h == [i \in 0..(m + 1) |->
                      IF i = m + 1 THEN DedupeStep(pulled, prior, g, m + 1) ELSE g[i]]
  <2>2. \A i \in 0..m : h[i] = g[i]
    OBVIOUS
  <2>3. \A i \in 1..(m + 1) : i - 1 \in 0..m
    OBVIOUS
  <2>4. \A i \in 0..(m + 1) :
           DedupeStep(pulled, prior, h, i) = DedupeStep(pulled, prior, g, i)
    BY <2>2, <2>3 DEF DedupeStep
  <2>5. Runs(h, m + 1)
    BY <2>1, <2>2, <2>4
  <2> HIDE DEF h, Runs
  <2> QED  BY <2>5
<1>3. Len(pulled) \in S
  <2> HIDE DEF S
  <2> QED  BY <1>1, <1>2, SetInduction
<1>4. PICK g : Runs(g, Len(pulled))
  BY <1>3
<1> DEFINE IsRun(kept) == kept = [i \in 0..Len(pulled) |-> DedupeStep(pulled, prior, kept, i)]
<1>5. \E kept : IsRun(kept)
  <2> DEFINE h == [i \in 0..Len(pulled) |-> g[i]]
  <2>1. \A i \in 0..Len(pulled) :
           DedupeStep(pulled, prior, h, i) = DedupeStep(pulled, prior, g, i)
    BY DEF DedupeStep
  <2>2. h = [i \in 0..Len(pulled) |-> DedupeStep(pulled, prior, h, i)]
    BY <1>4, <2>1
  <2> QED  BY <2>2
<1>6. IsRun(CHOOSE kept : IsRun(kept))
  BY <1>5
<1>7. Dedupe(pulled, prior) = (CHOOSE kept : IsRun(kept))[Len(pulled)]
  BY DEF Dedupe, DedupeStep
<1> QED  BY <1>6, <1>7

\* The deduplicated batch: every pulled event that was not stored before, once.
LEMMA DedupeProperties ==
    ASSUME NEW E, NEW pulled \in Seq(E), NEW prior
    PROVE  /\ Dedupe(pulled, prior) \in Seq(E)
           /\ IsInjective(Dedupe(pulled, prior))
           /\ ToSet(Dedupe(pulled, prior)) = ToSet(pulled) \ prior
<1>1. Len(pulled) \in Nat /\ DOMAIN pulled = 1..Len(pulled)
  OBVIOUS
<1>2. PICK kept :
         /\ kept = [i \in 0..Len(pulled) |-> DedupeStep(pulled, prior, kept, i)]
         /\ Dedupe(pulled, prior) = kept[Len(pulled)]
  BY <1>1, DedupeDefined
<1> DEFINE First(i) == {pulled[j] : j \in 1..i}
           Right(i) == /\ kept[i] \in Seq(E)
                       /\ IsInjective(kept[i])
                       /\ ToSet(kept[i]) = First(i) \ prior
           S == {i \in Nat : i <= Len(pulled) => Right(i)}
<1>3. \A i \in 0..Len(pulled) : kept[i] = DedupeStep(pulled, prior, kept, i)
  BY <1>2
<1>4. 0 \in S
  <2>1. kept[0] = <<>>
    BY <1>1, <1>3 DEF DedupeStep
  <2>2. First(0) = {} /\ <<>> \in Seq(E) /\ IsInjective(<<>>) /\ ToSet(<<>>) = {}
    BY DEF IsInjective, ToSet
  <2> HIDE DEF First
  <2> QED  BY <2>1, <2>2
<1>5. ASSUME NEW i \in Nat, i \in S PROVE i + 1 \in S
  <2> SUFFICES ASSUME i + 1 <= Len(pulled) PROVE Right(i + 1)
    OBVIOUS
  <2>1. /\ kept[i] \in Seq(E) /\ IsInjective(kept[i])
        /\ ToSet(kept[i]) = First(i) \ prior
    BY <1>1, <1>5
  <2>2. /\ i + 1 \in 0..Len(pulled) /\ i + 1 # 0 /\ (i + 1) - 1 = i
        /\ i + 1 \in 1..Len(pulled)
    BY <1>1
  <2>3. kept[i + 1] = IF pulled[i + 1] \in prior \cup ToSet(kept[i]) THEN kept[i]
                      ELSE Append(kept[i], pulled[i + 1])
    BY <1>3, <2>2 DEF DedupeStep
  <2>4. pulled[i + 1] \in E
    BY <2>2
  <2>5. First(i + 1) = First(i) \cup {pulled[i + 1]}
    <3>1. 1..(i + 1) = 1..i \cup {i + 1}
      OBVIOUS
    <3> QED  BY <3>1
  <2> HIDE DEF First
  <2>6. CASE pulled[i + 1] \in prior \cup ToSet(kept[i])
    BY <2>1, <2>3, <2>5, <2>6
  <2>7. CASE pulled[i + 1] \notin prior \cup ToSet(kept[i])
    <3>1. kept[i + 1] = Append(kept[i], pulled[i + 1])
      BY <2>3, <2>7
    <3>2. IsInjective(kept[i + 1])
      BY <2>1, <2>4, <2>7, <3>1, InjectiveAppend
    <3>3. ToSet(kept[i + 1]) = ToSet(kept[i]) \cup {pulled[i + 1]}
      BY <2>1, <2>4, <3>1, ToSetOfAppend
    <3>4. kept[i + 1] \in Seq(E)
      BY <2>1, <2>4, <3>1
    <3> QED  BY <2>1, <2>5, <2>7, <3>2, <3>3, <3>4
  <2> QED  BY <2>6, <2>7
<1>6. Len(pulled) \in S
  <2> HIDE DEF S
  <2> QED  BY <1>1, <1>4, <1>5, SetInduction
<1>7. First(Len(pulled)) = ToSet(pulled)
  BY <1>1 DEF ToSet
<1> HIDE DEF First
<1> QED  BY <1>1, <1>2, <1>6, <1>7

-----------------------------------------------------------------------------
(* The rows of a stream, scan by scan. *)

\* What a stream of [finding, scan] rows says of scan k.
Of(rows, k) == {rows[i].finding : i \in {j \in DOMAIN rows : rows[j].scan = k}}

LEMMA StreamsByScan ==
    \A k : FindingsOf(k) = Of(findings, k) /\ ResolvedIn(k) = Of(resolutions, k)
BY DEF FindingsOf, ResolvedIn, Of

LEMMA RowsProperties ==
    ASSUME NEW S, IsFiniteSet(S)
    PROVE  /\ IsInjective(Rows(S))
           /\ Rows(S) \in Seq({[finding |-> f, scan |-> scan] : f \in S})
           /\ ToSet(Rows(S)) = {[finding |-> f, scan |-> scan] : f \in S}
<1> DEFINE row == [f \in S |-> [finding |-> f, scan |-> scan]]
<1>1. {row[f] : f \in S} = {[finding |-> f, scan |-> scan] : f \in S}
  OBVIOUS
<1>2. IsFiniteSet({[finding |-> f, scan |-> scan] : f \in S})
  <2> HIDE DEF row
  <2>1. IsFiniteSet({row[f] : f \in S})
    BY FiniteImage
  <2> QED  BY <1>1, <2>1
<1> QED  BY <1>2, SetToSeqProperties DEF Rows

\* Rows(S) adds the findings S to the running scan, and nothing to any other.
LEMMA RowsAdded ==
    ASSUME NEW rows \in Seq([finding : Findings, scan : Nat]),
           NEW S \in SUBSET Findings, IsFiniteSet(S), scan \in Nat, NEW k
    PROVE  /\ rows \o Rows(S) \in Seq([finding : Findings, scan : Nat])
           /\ Of(rows \o Rows(S), k) = Of(rows, k) \cup (IF k = scan THEN S ELSE {})
<1> DEFINE new == {[finding |-> f, scan |-> scan] : f \in S}
<1>1. new \subseteq [finding : Findings, scan : Nat]
  OBVIOUS
<1>2. Rows(S) \in Seq(new) /\ ToSet(Rows(S)) = new
  BY RowsProperties
<1>3. Rows(S) \in Seq([finding : Findings, scan : Nat])
  <2> HIDE DEF new
  <2> QED  BY <1>1, <1>2, SeqMonotonic
<1>4. ToSet(rows \o Rows(S)) = ToSet(rows) \cup new
  <2> HIDE DEF new
  <2> QED  BY <1>2, <1>3, ToSetOfConcat
<1>5. \A r : Of(r, k) = {e.finding : e \in {d \in ToSet(r) : d.scan = k}}
  BY DEF Of, ToSet
<1>6. {e.finding : e \in {d \in new : d.scan = k}} = IF k = scan THEN S ELSE {}
  <2>1. \A e \in new : e.scan = scan /\ e.finding \in S
    OBVIOUS
  <2>2. ASSUME NEW f \in S PROVE \E e \in new : e.finding = f
    <3>1. [finding |-> f, scan |-> scan] \in new
      OBVIOUS
    <3> HIDE DEF new
    <3> QED  BY <3>1
  <2> HIDE DEF new
  <2> QED  BY <2>1, <2>2
<1>7. Of(rows \o Rows(S), k) = Of(rows, k) \cup (IF k = scan THEN S ELSE {})
  <2> HIDE DEF new
  <2> QED  BY <1>4, <1>5, <1>6
<1> QED  BY <1>3, <1>7

-----------------------------------------------------------------------------
(* Type correctness. *)

\* The invariant behind TypeOK, in three parts: the world outside the scan ...
WorldTyped ==
    /\ emitted \in [Sources -> Nat] /\ cursor \in [Sources -> Nat]
    /\ \A s \in Sources : cursor[s] <= emitted[s] /\ (s \notin Cursored => cursor[s] = 0)
    /\ \A s \in Sources : \A n \in 1..emitted[s] : [src |-> s, n |-> n] \in Events
    /\ delivered \subseteq Events /\ suppressed \subseteq Findings
    /\ forgotten \subseteq Actors

\* ... the store ...
StreamsTyped ==
    /\ events \in Seq(Events) /\ baselines \in Seq(SUBSET Actors)
    /\ findings \in Seq([finding : Findings, scan : 1..scan])
    /\ snapshot \subseteq Findings
    /\ resolutions \in Seq([finding : Findings, scan : 1..scan])
    /\ scans \in Seq([scan : 1..scan, success : BOOLEAN, stage : Stages \cup {None}])

\* ... and the scan, whose findings can be listed and which has a number.
ScanTyped ==
    /\ batch \in Seq(Events) /\ known \subseteq Actors
    /\ found \subseteq Findings /\ IsFiniteSet(found)
    /\ stage \in Stages /\ failedAt \in Stages \cup {None}
    /\ scan \in 0..MaxScans /\ pos \in 1..(Len(SourceOrder) + 1)
    /\ stage # "idle" => scan # 0
    /\ broken \subseteq 1..scan /\ blind \in BOOLEAN
    /\ faults \in Nat /\ rotations \in Nat /\ directives \in Nat

Typed == WorldTyped /\ StreamsTyped /\ ScanTyped

LEMMA TypedImpliesTypeOK == Typed => TypeOK
BY DEF Typed, WorldTyped, StreamsTyped, ScanTyped, TypeOK

LEMMA SourceTyped ==
    ASSUME NEW i \in 1..Len(SourceOrder)
    PROVE  Len(SourceOrder) \in Nat /\ SourceOrder[i] \in Sources
BY EventAssumption

LEMMA WindowTyped ==
    ASSUME Typed, NEW s \in Sources
    PROVE  Window(s) \in Seq(Events)
<1> DEFINE first == IF s \in Cursored THEN cursor[s] + 1 ELSE 1
           n == emitted[s] + 1 - first
<1>1. /\ emitted[s] \in Nat /\ cursor[s] \in Nat /\ cursor[s] <= emitted[s]
  BY DEF Typed, WorldTyped
<1>2. first \in Nat \ {0} /\ n \in Nat
  BY <1>1
<1>3. \A i \in 1..n : first + i - 1 \in 1..emitted[s]
  BY <1>1, <1>2
<1>4. \A i \in 1..n : [src |-> s, n |-> first + i - 1] \in Events
  BY <1>3 DEF Typed, WorldTyped
<1>5. Window(s) = [i \in 1..n |-> [src |-> s, n |-> first + i - 1]]
  BY DEF Window
<1>6. Window(s) \in [1..n -> Events]
  <2> HIDE DEF first, n
  <2> QED  BY <1>4, <1>5
<1> HIDE DEF n
<1> QED  BY <1>2, <1>6, FunctionIsSeq

LEMMA ActorTyped ==
    ASSUME NEW e \in Events
    PROVE  ActorOf[e] \in Actors
BY DEF Actors

LEMMA DetectTyped ==
    ASSUME batch \in Seq(Events)
    PROVE  Detect \subseteq Findings /\ IsFiniteSet(Detect)
<1> DEFINE R == ToSet(batch) \cap Alarming
           A == {ActorOf[e] : e \in ToSet(batch)}
           rule == [e \in R |-> RuleFinding(e)]
           actor == [a \in A |-> ActorFinding(a)]
<1>1. ToSet(batch) \subseteq Events /\ IsFiniteSet(ToSet(batch))
  BY FiniteToSet DEF ToSet
<1>2. IsFiniteSet(R) /\ IsFiniteSet({ActorOf[e] : e \in ToSet(batch)})
  BY <1>1, FS_Subset, FiniteImage
<1>3. IsFiniteSet(A \ known)
  BY <1>2, FS_Subset
<1>4. IsFiniteSet({RuleFinding(e) : e \in R})
  <2>1. {rule[e] : e \in R} = {RuleFinding(e) : e \in R}
    OBVIOUS
  <2> HIDE DEF rule
  <2> QED  BY <1>2, <2>1, FiniteImage
<1>5. IsFiniteSet({ActorFinding(a) : a \in A \ known})
  <2>1. {actor[a] : a \in A \ known} = {ActorFinding(a) : a \in A \ known}
    OBVIOUS
  <2> HIDE DEF actor, A
  <2> QED  BY <1>3, <2>1, FiniteImage
<1>6. R \subseteq Alarming /\ A \ known \subseteq Actors
  BY <1>1, ActorTyped
<1>7. Detect = {RuleFinding(e) : e \in R} \cup {ActorFinding(a) : a \in A \ known}
  BY DEF Detect
<1>8. Detect \subseteq Findings
  <2> HIDE DEF R, A
  <2> QED  BY <1>6, <1>7 DEF Findings
<1> QED  BY <1>4, <1>5, <1>7, <1>8, FS_Union

\* What an append leaves behind: all its rows and the next stage, or an error.
LEMMA StoreOutcome ==
    ASSUME NEW after, NEW before, NEW rows, NEW next, Store(after, before, rows, next)
    PROVE  \/ after = before \o rows /\ stage' = next /\ failedAt' = failedAt /\ faults' = faults
           \/ /\ after \in {before, before \o rows}
              /\ stage' = "record" /\ failedAt' = stage /\ faults' = faults + 1
BY DEF Store, Advance, Fault, Fail

LEMMA FoundRows ==
    ASSUME Typed, stage # "idle"
    PROVE  Rows(found) \in Seq([finding : Findings, scan : 1..scan])
<1>1. {[finding |-> f, scan |-> scan] : f \in found} \subseteq [finding : Findings, scan : 1..scan]
  BY DEF Typed, ScanTyped
<1>2. Rows(found) \in Seq({[finding |-> f, scan |-> scan] : f \in found})
  BY RowsProperties DEF Typed, ScanTyped
<1> QED  BY <1>1, <1>2, SeqMonotonic

\* A stage that leaves the scan's number, its connector and the bounds alone.
LEMMA StageTyped ==
    ASSUME ScanTyped, stage # "idle", Len(SourceOrder) \in Nat,
           batch' \in Seq(Events), known' \subseteq Actors,
           found' \subseteq Findings, IsFiniteSet(found'),
           stage' \in Stages, failedAt' \in Stages \cup {None},
           faults' \in {faults, faults + 1}, blind' \in {blind, TRUE},
           UNCHANGED <<scan, pos, broken, rotations, directives>>
    PROVE  ScanTyped'
<1>1. /\ scan' \in 0..MaxScans /\ pos' \in 1..(Len(SourceOrder) + 1)
      /\ stage' # "idle" => scan' # 0
      /\ broken' \subseteq 1..scan'
  BY DEF ScanTyped
<1>2. blind' \in BOOLEAN /\ faults' \in Nat /\ rotations' \in Nat /\ directives' \in Nat
  <2>1. blind' \in BOOLEAN
    BY Zenon DEF ScanTyped
  <2>2. faults' \in Nat /\ rotations' \in Nat /\ directives' \in Nat
    BY DEF ScanTyped
  <2> QED  BY <2>1, <2>2
<1>3. /\ batch' \in Seq(Events) /\ known' \subseteq Actors
      /\ found' \subseteq Findings /\ IsFiniteSet(found')
      /\ stage' \in Stages /\ failedAt' \in Stages \cup {None}
  OBVIOUS
<1> QED  BY <1>1, <1>2, <1>3, Zenon DEF ScanTyped

LEMMA TypedInit == Init => Typed
<1> SUFFICES ASSUME Init PROVE Typed
  OBVIOUS
<1>1. Len(SourceOrder) \in Nat
  BY EventAssumption
<1>2. IsFiniteSet(found)
  BY FS_EmptySet DEF Init
<1>3. WorldTyped /\ StreamsTyped
  BY DEF Init, WorldTyped, StreamsTyped
<1>4. "idle" \in Stages /\ 0 \in 0..MaxScans /\ 1 \in 1..(Len(SourceOrder) + 1)
  BY <1>1, BoundAssumption DEF Stages
<1>5. batch \in Seq(Events) /\ failedAt \in Stages \cup {None} /\ broken \subseteq 1..scan
  BY DEF Init
<1>6. ScanTyped
  BY <1>2, <1>4, <1>5 DEF Init, ScanTyped
<1> QED  BY <1>3, <1>6 DEF Typed

LEMMA TypedStep == Typed /\ [Next]_vars => Typed'
<1> SUFFICES ASSUME Typed, [Next]_vars PROVE Typed'
  OBVIOUS
<1> USE DEF streams, local, world, ghosts, budget
<1> USE BoundAssumption
<1>0. WorldTyped /\ StreamsTyped /\ ScanTyped /\ Len(SourceOrder) \in Nat
  BY EventAssumption DEF Typed
<1>1. CASE StartScan
  <2>1. WorldTyped'
    BY <1>0, <1>1 DEF StartScan, WorldTyped
  <2>2. StreamsTyped'
    <3>1. scan \in Nat /\ scan' = scan + 1 /\ 1..scan \subseteq 1..scan'
      BY <1>0, <1>1 DEF StartScan, ScanTyped
    <3>2. \A T : [finding : T, scan : 1..scan] \subseteq [finding : T, scan : 1..scan']
      BY <3>1
    <3>3. \A T : [scan : 1..scan, success : BOOLEAN, stage : T]
                    \subseteq [scan : 1..scan', success : BOOLEAN, stage : T]
      BY <3>1
    <3>4. UNCHANGED streams
      BY <1>1 DEF StartScan
    <3> QED  BY <1>0, <3>2, <3>3, <3>4, SeqMonotonic DEF StreamsTyped
  <2>3. ScanTyped'
    BY <1>0, <1>1 DEF StartScan, ScanTyped, Stages
  <2> QED  BY <2>1, <2>2, <2>3 DEF Typed
<1>2. CASE PullSource
  <2>1. WorldTyped'
    <3>1. SourceOrder[pos] \in Sources /\ Window(SourceOrder[pos]) \in Seq(Events)
      BY <1>0, <1>2, SourceTyped, WindowTyped DEF PullSource, ScanTyped
    <3>2. delivered' \subseteq Events
      BY <1>0, <1>2, <3>1 DEF PullSource, WorldTyped, ToSet
    <3>3. /\ cursor' \in [Sources -> Nat]
          /\ \A s \in Sources : /\ cursor'[s] <= emitted[s]
                                /\ s \notin Cursored => cursor'[s] = 0
      BY <1>0, <1>2, <3>1 DEF PullSource, WorldTyped
    <3> QED  BY <1>0, <1>2, <3>1, <3>2, <3>3 DEF PullSource, WorldTyped
  <2>2. StreamsTyped'
    BY <1>0, <1>2 DEF PullSource, StreamsTyped
  <2>3. ScanTyped'
    <3>1. Window(SourceOrder[pos]) \in Seq(Events)
      BY <1>0, <1>2, SourceTyped, WindowTyped DEF PullSource, ScanTyped
    <3>2. batch' \in Seq(Events)
      BY <1>0, <1>2, <3>1 DEF PullSource, ScanTyped
    <3>3. pos' \in 1..(Len(SourceOrder) + 1)
      BY <1>0, <1>2 DEF PullSource, ScanTyped
    <3> QED  BY <1>0, <1>2, <3>2, <3>3 DEF PullSource, ScanTyped
  <2> QED  BY <2>1, <2>2, <2>3 DEF Typed
<1>3. CASE PullFails
  <2>1. WorldTyped'
    BY <1>0, <1>3 DEF PullFails, WorldTyped
  <2>2. StreamsTyped'
    BY <1>0, <1>3 DEF PullFails, StreamsTyped
  <2>3. ScanTyped'
    BY <1>0, <1>3 DEF PullFails, Fault, Fail, ScanTyped, Stages
  <2> QED  BY <2>1, <2>2, <2>3 DEF Typed
<1>4. CASE PullDone
  <2>1. WorldTyped'
    BY <1>0, <1>4 DEF PullDone, WorldTyped
  <2>2. StreamsTyped'
    BY <1>0, <1>4 DEF PullDone, StreamsTyped
  <2>3. ScanTyped'
    BY <1>0, <1>4 DEF PullDone, Advance, ScanTyped, Stages
  <2> QED  BY <2>1, <2>2, <2>3 DEF Typed
<1>5. CASE ConfirmGrants
  <2>1. WorldTyped'
    BY <1>0, <1>5 DEF ConfirmGrants, WorldTyped
  <2>2. StreamsTyped'
    BY <1>0, <1>5 DEF ConfirmGrants, StreamsTyped
  <2>3. ScanTyped'
    BY <1>0, <1>5 DEF ConfirmGrants, Advance, Fault, Fail, ScanTyped, Stages
  <2> QED  BY <2>1, <2>2, <2>3 DEF Typed
<1>6. CASE DeriveBaseline
  <2>1. WorldTyped'
    BY <1>0, <1>6 DEF DeriveBaseline, WorldTyped
  <2>2. StreamsTyped'
    BY <1>0, <1>6 DEF DeriveBaseline, StreamsTyped
  <2>3. ScanTyped'
    <3>1. LastBaseline \subseteq Actors
      BY <1>0 DEF StreamsTyped, LastBaseline, Last
    <3>2. ASSUME NEW prior \in {ToSet(events), {}}, NEW kept \in {LastBaseline, {}},
                 known' = {ActorOf[e] : e \in prior} \cup kept, batch' = Dedupe(batch, prior)
          PROVE  batch' \in Seq(Events) /\ known' \subseteq Actors
      <4>1. prior \subseteq Events
        BY <1>0 DEF StreamsTyped, ToSet
      <4>2. {ActorOf[e] : e \in prior} \subseteq Actors
        BY <4>1, ActorTyped
      <4> QED  BY <1>0, <3>1, <3>2, <4>2, DedupeProperties DEF ScanTyped
    <3>3. batch' \in Seq(Events) /\ known' \subseteq Actors
      BY <1>0, <1>6, <3>2 DEF DeriveBaseline, ScanTyped
    <3>4. /\ stage' \in {"store_events", "record"} /\ failedAt' \in {failedAt, stage}
          /\ faults' \in {faults, faults + 1} /\ blind' \in {blind, TRUE}
          /\ stage # "idle" /\ UNCHANGED <<found, scan, pos, broken, rotations, directives>>
      BY <1>6 DEF DeriveBaseline, Advance, BlindRead, Fault, Fail
    <3>5. stage' \in Stages /\ failedAt' \in Stages \cup {None}
      BY <1>0, <3>4 DEF ScanTyped, Stages
    <3>6. found' \subseteq Findings /\ IsFiniteSet(found')
      BY <1>0, <3>4 DEF ScanTyped
    <3> QED  BY <1>0, <3>3, <3>4, <3>5, <3>6, StageTyped
  <2> QED  BY <2>1, <2>2, <2>3 DEF Typed
<1>7. CASE StoreEvents
  <2>1. WorldTyped'
    BY <1>0, <1>7 DEF StoreEvents, WorldTyped
  <2>2. StreamsTyped'
    <3>1. events' \in Seq(Events)
      <4>1. events' \in {events, events \o batch}
        BY <1>7, StoreOutcome DEF StoreEvents
      <4>2. events \in Seq(Events) /\ batch \in Seq(Events)
        BY <1>0 DEF StreamsTyped, ScanTyped
      <4> QED  BY <4>1, <4>2, ConcatProperties
    <3> QED  BY <1>0, <1>7, <3>1 DEF StoreEvents, StreamsTyped
  <2>3. ScanTyped'
    <3>1. found' \subseteq Findings /\ IsFiniteSet(found')
      BY <1>0, <1>7, DetectTyped DEF StoreEvents, ScanTyped
    <3>2. /\ stage' \in {"store_baseline_snapshot", "record"}
          /\ failedAt' \in {failedAt, stage} /\ faults' \in {faults, faults + 1}
      BY <1>7, StoreOutcome DEF StoreEvents, Advance
    <3> QED  BY <1>0, <1>7, <3>1, <3>2 DEF StoreEvents, ScanTyped, Stages
  <2> QED  BY <2>1, <2>2, <2>3 DEF Typed
<1>8. CASE StoreBaseline
  <2>1. WorldTyped'
    BY <1>0, <1>8 DEF StoreBaseline, WorldTyped
  <2>2. StreamsTyped'
    <3>1. baselines' \in Seq(SUBSET Actors)
      <4>1. baselines' \in {baselines, baselines \o <<known>>}
        BY <1>8, StoreOutcome DEF StoreBaseline
      <4>2. <<known>> \in Seq(SUBSET Actors)
        BY <1>0 DEF ScanTyped
      <4>3. baselines \in Seq(SUBSET Actors)
        BY <1>0 DEF StreamsTyped
      <4> QED  BY <4>1, <4>2, <4>3, ConcatProperties
    <3> QED  BY <1>0, <1>8, <3>1 DEF StoreBaseline, StreamsTyped
  <2>3. ScanTyped'
    <3>1. /\ stage' \in {"load_directives", "record"}
          /\ failedAt' \in {failedAt, stage} /\ faults' \in {faults, faults + 1}
      BY <1>8, StoreOutcome DEF StoreBaseline
    <3> QED  BY <1>0, <1>8, <3>1 DEF StoreBaseline, ScanTyped, Stages
  <2> QED  BY <2>1, <2>2, <2>3 DEF Typed
<1>9. CASE LoadDirectives
  <2>1. WorldTyped'
    BY <1>0, <1>9 DEF LoadDirectives, WorldTyped
  <2>2. StreamsTyped'
    BY <1>0, <1>9 DEF LoadDirectives, StreamsTyped
  <2>3. ScanTyped'
    <3>1. found' \subseteq found /\ IsFiniteSet(found')
      BY <1>0, <1>9, FS_Subset DEF LoadDirectives, ScanTyped
    <3>2. /\ stage' \in {"store_findings", "record"} /\ failedAt' \in {failedAt, stage}
          /\ faults' \in {faults, faults + 1} /\ blind' \in {blind, TRUE}
          /\ stage # "idle"
          /\ UNCHANGED <<scan, pos, batch, known, broken, rotations, directives>>
      BY <1>9 DEF LoadDirectives, Advance, BlindRead, Fault, Fail
    <3>3. stage' \in Stages /\ failedAt' \in Stages \cup {None}
      BY <1>0, <3>2 DEF ScanTyped, Stages
    <3>4. found' \subseteq Findings /\ batch' \in Seq(Events) /\ known' \subseteq Actors
      BY <1>0, <3>1, <3>2 DEF ScanTyped
    <3> QED  BY <1>0, <3>1, <3>2, <3>3, <3>4, StageTyped
  <2> QED  BY <2>1, <2>2, <2>3 DEF Typed
<1>10. CASE StoreFindings
  <2>1. WorldTyped'
    BY <1>0, <1>10 DEF StoreFindings, WorldTyped
  <2>2. StreamsTyped'
    <3>1. findings' \in Seq([finding : Findings, scan : 1..scan])
      <4>1. findings' \in {findings, findings \o Rows(found)}
        BY <1>10, StoreOutcome DEF StoreFindings
      <4>2. Rows(found) \in Seq([finding : Findings, scan : 1..scan])
        BY <1>10, FoundRows DEF StoreFindings
      <4>3. findings \in Seq([finding : Findings, scan : 1..scan])
        BY <1>0 DEF StreamsTyped
      <4> QED  BY <4>1, <4>2, <4>3, ConcatProperties
    <3> QED  BY <1>0, <1>10, <3>1 DEF StoreFindings, StreamsTyped
  <2>3. ScanTyped'
    <3>1. /\ stage' \in {"write_findings_snapshot", "record"}
          /\ failedAt' \in {failedAt, stage} /\ faults' \in {faults, faults + 1}
      BY <1>10, StoreOutcome DEF StoreFindings, Advance
    <3> QED  BY <1>0, <1>10, <3>1 DEF StoreFindings, ScanTyped, Stages
  <2> QED  BY <2>1, <2>2, <2>3 DEF Typed
<1>11. CASE WriteFindingsSnapshot
  <2>1. WorldTyped'
    BY <1>0, <1>11 DEF WriteFindingsSnapshot, WorldTyped
  <2>2. StreamsTyped'
    BY <1>0, <1>11 DEF WriteFindingsSnapshot, StreamsTyped, ScanTyped
  <2>3. ScanTyped'
    <3>1. /\ stage' \in {"record", "resolve"} /\ failedAt' \in {failedAt, stage}
          /\ faults' \in {faults, faults + 1} /\ stage # "idle"
      BY <1>11 DEF WriteFindingsSnapshot, Advance, Fault, Fail
    <3> QED  BY <1>0, <1>11, <3>1 DEF WriteFindingsSnapshot, ScanTyped, Stages
  <2> QED  BY <2>1, <2>2, <2>3 DEF Typed
<1>12. CASE Resolve
  <2>1. WorldTyped'
    BY <1>0, <1>12 DEF Resolve, WorldTyped
  <2>2. StreamsTyped'
    BY <1>0, <1>12 DEF Resolve, StreamsTyped
  <2>3. ScanTyped'
    BY <1>0, <1>12 DEF Resolve, Advance, ScanTyped, Stages
  <2> QED  BY <2>1, <2>2, <2>3 DEF Typed
<1>13. CASE StoreResolutions
  <2>1. WorldTyped'
    BY <1>0, <1>13 DEF StoreResolutions, WorldTyped
  <2>2. StreamsTyped'
    <3>1. resolutions' \in Seq([finding : Findings, scan : 1..scan])
      <4>1. resolutions' \in {resolutions, resolutions \o Rows(found)}
        BY <1>13, StoreOutcome DEF StoreResolutions
      <4>2. Rows(found) \in Seq([finding : Findings, scan : 1..scan])
        BY <1>13, FoundRows DEF StoreResolutions
      <4>3. resolutions \in Seq([finding : Findings, scan : 1..scan])
        BY <1>0 DEF StreamsTyped
      <4> QED  BY <4>1, <4>2, <4>3, ConcatProperties
    <3> QED  BY <1>0, <1>13, <3>1 DEF StoreResolutions, StreamsTyped
  <2>3. ScanTyped'
    <3>1. /\ stage' \in {"record", "record"}
          /\ failedAt' \in {failedAt, stage} /\ faults' \in {faults, faults + 1}
      BY <1>13, StoreOutcome DEF StoreResolutions, Advance
    <3> QED  BY <1>0, <1>13, <3>1 DEF StoreResolutions, ScanTyped, Stages
  <2> QED  BY <2>1, <2>2, <2>3 DEF Typed
<1>14. CASE RecordScan
  <2>1. WorldTyped'
    BY <1>0, <1>14 DEF RecordScan, WorldTyped
  <2>2. StreamsTyped'
    <3> DEFINE row == [scan |-> scan, success |-> failedAt = None, stage |-> failedAt]
    <3>1. row \in [scan : 1..scan, success : BOOLEAN, stage : Stages \cup {None}]
      BY <1>0, <1>14 DEF RecordScan, ScanTyped
    <3>2. scans' \in {scans, Append(scans, row)}
      BY <1>14 DEF RecordScan
    <3> HIDE DEF row
    <3>3. scans' \in Seq([scan : 1..scan, success : BOOLEAN, stage : Stages \cup {None}])
      <4>1. scans \in Seq([scan : 1..scan, success : BOOLEAN, stage : Stages \cup {None}])
        BY <1>0 DEF StreamsTyped
      <4> DEFINE R == [scan : 1..scan, success : BOOLEAN, stage : Stages \cup {None}]
      <4>2. row \in R /\ scans \in Seq(R)
        BY <3>1, <4>1
      <4> HIDE DEF R
      <4>3. Append(scans, row) \in Seq(R)
        BY <4>2, AppendProperties
      <4>4. scans' \in Seq(R)
        BY <3>2, <4>2, <4>3
      <4> QED  BY <4>4 DEF R
    <3> QED  BY <1>0, <1>14, <3>3 DEF RecordScan, StreamsTyped
  <2>3. ScanTyped'
    <3>1. IsFiniteSet(found')
      BY <1>14, FS_EmptySet DEF RecordScan, Forget
    <3>2. faults' \in {faults, faults + 1} /\ broken' \in {broken, broken \cup {scan}}
      BY <1>14 DEF RecordScan, Fault
    <3> QED  BY <1>0, <1>14, <3>1, <3>2 DEF RecordScan, Forget, ScanTyped, Stages, None
  <2> QED  BY <2>1, <2>2, <2>3 DEF Typed
<1>15. CASE Crash
  <2>1. WorldTyped'
    BY <1>0, <1>15 DEF Crash, WorldTyped
  <2>2. StreamsTyped'
    BY <1>0, <1>15 DEF Crash, StreamsTyped
  <2>3. ScanTyped'
    <3>1. IsFiniteSet(found')
      BY <1>15, FS_EmptySet DEF Crash, Forget
    <3>2. /\ batch' = <<>> /\ known' = {} /\ found' = {} /\ stage' = "idle"
          /\ failedAt' = None /\ pos' = 1 /\ broken' = broken \cup {scan}
          /\ faults' = faults + 1 /\ stage # "idle"
          /\ UNCHANGED <<scan, blind, rotations, directives>>
      BY <1>15 DEF Crash, Forget, Fault
    <3>3. scan \in 1..scan /\ broken \subseteq 1..scan
      BY <1>0, <3>2 DEF ScanTyped
    <3>4. broken' \subseteq 1..scan'
      BY <3>2, <3>3
    <3> QED  BY <1>0, <3>1, <3>2, <3>4 DEF ScanTyped, Stages
  <2> QED  BY <2>1, <2>2, <2>3 DEF Typed
<1>16. CASE RotateEvents
  <2>1. WorldTyped'
    <3>1. forgotten' \subseteq Actors
      BY <1>0, <1>16, ActorTyped DEF RotateEvents, WorldTyped, StreamsTyped, ToSet
    <3> QED  BY <1>0, <1>16, <3>1 DEF RotateEvents, WorldTyped
  <2>2. StreamsTyped'
    BY <1>0, <1>16 DEF RotateEvents, StreamsTyped
  <2>3. ScanTyped'
    BY <1>0, <1>16 DEF RotateEvents, ScanTyped
  <2> QED  BY <2>1, <2>2, <2>3 DEF Typed
<1>17. ASSUME NEW s \in Sources, Emit(s) PROVE Typed'
  <2>1. WorldTyped'
    <3>1. /\ emitted' \in [Sources -> Nat]
          /\ \A r \in Sources :
                /\ emitted[r] <= emitted'[r]
                /\ \A n \in 1..emitted'[r] : [src |-> r, n |-> n] \in Events
      BY <1>0, <1>17 DEF Emit, WorldTyped
    <3>2. \A r \in Sources : cursor[r] <= emitted'[r]
      BY <1>0, <3>1 DEF WorldTyped
    <3> QED  BY <1>0, <1>17, <3>1, <3>2 DEF Emit, WorldTyped
  <2>2. StreamsTyped'
    BY <1>0, <1>17 DEF Emit, StreamsTyped
  <2>3. ScanTyped'
    BY <1>0, <1>17 DEF Emit, ScanTyped
  <2> QED  BY <2>1, <2>2, <2>3 DEF Typed
<1>18. ASSUME NEW f \in Findings, Suppress(f) PROVE Typed'
  <2>1. WorldTyped'
    BY <1>0, <1>18 DEF Suppress, WorldTyped
  <2>2. StreamsTyped'
    BY <1>0, <1>18 DEF Suppress, StreamsTyped
  <2>3. ScanTyped'
    BY <1>0, <1>18 DEF Suppress, ScanTyped
  <2> QED  BY <2>1, <2>2, <2>3 DEF Typed
<1>19. CASE UNCHANGED vars
  <2>1. WorldTyped'
    BY <1>0, <1>19 DEF vars, WorldTyped
  <2>2. StreamsTyped'
    BY <1>0, <1>19 DEF vars, StreamsTyped
  <2>3. ScanTyped'
    BY <1>0, <1>19 DEF vars, ScanTyped
  <2> QED  BY <2>1, <2>2, <2>3 DEF Typed
<1> QED
  BY <1>1, <1>2, <1>3, <1>4, <1>5, <1>6, <1>7, <1>8, <1>9, <1>10, <1>11, <1>12,
     <1>13, <1>14, <1>15, <1>16, <1>17, <1>18, <1>19
     DEF Next, Scan

\* Every stream, cursor and scan record keeps its shape, whichever write fails
\* and wherever the process is killed, for any connectors and any events.
THEOREM TypeCorrect == Spec => []TypeOK
BY TypedInit, TypedStep, TypedImpliesTypeOK, PTL DEF Spec

-----------------------------------------------------------------------------
(* What the streams say of every scan. *)

\* Before the dedupe's outcome is stored, before the findings are, before the
\* answers are.
Pulling == {"connect", "confirm_grants", "baseline", "store_events"}
Deciding == {"store_baseline_snapshot", "load_directives", "store_findings"}
Answering == {"write_findings_snapshot", "resolve", "store_resolutions"}

\* The running scan has no record yet.
Unrecorded == stage # "idle" => \A i \in DOMAIN scans : scans[i].scan < scan

\* How much of its story the running scan has written, stage by stage.
SoFar ==
    /\ stage # "record" => failedAt = None
    /\ stage \in Pulling \cup Deciding => FindingsOf(scan) = {}
    /\ stage \in Pulling \cup Deciding \cup Answering => ResolvedIn(scan) = {}
    /\ stage \in Answering => FindingsOf(scan) = found
    /\ stage \in {"resolve", "store_resolutions"} => snapshot = found
    /\ stage = "record" /\ failedAt = None =>
          FindingsOf(scan) = ResolvedIn(scan) /\ snapshot = FindingsOf(scan)

\* RecordedOnce without Cardinality.
OneRecord ==
    \A k \in 1..scan : k \notin broken /\ (k = scan => stage = "idle") =>
        \E i \in DOMAIN scans : {j \in DOMAIN scans : scans[j].scan = k} = {i}

\* Answered, scan by scan.
AnsweredByScan == (\A k : ResolvedIn(k) \subseteq FindingsOf(k)) /\ IsInjective(resolutions)

Accounted == Unrecorded /\ SoFar /\ OneRecord /\ AnsweredByScan /\ SuccessIsComplete

LEMMA AnsweredAgrees == AnsweredByScan => Answered
BY DEF AnsweredByScan, Answered, ResolvedIn

LEMMA AccountedImpliesScansAreAccounted == Accounted => ScansAreAccounted
<1> SUFFICES ASSUME Accounted PROVE RecordedOnce
  BY AnsweredAgrees DEF Accounted, ScansAreAccounted
<1> SUFFICES ASSUME NEW k \in 1..scan, k \notin broken, k = scan => stage = "idle"
             PROVE  Cardinality({i \in DOMAIN scans : scans[i].scan = k}) = 1
  BY DEF RecordedOnce
<1>1. PICK i \in DOMAIN scans : {j \in DOMAIN scans : scans[j].scan = k} = {i}
  BY DEF Accounted, OneRecord
<1> QED  BY <1>1, FS_Singleton

\* A step that writes nothing about the scan, and where it goes from here.
Quiet ==
    /\ UNCHANGED <<findings, resolutions, scans, snapshot, scan, broken>>
    /\ \/ UNCHANGED <<stage, failedAt, found>>
       \/ /\ stage \in Pulling \cup Deciding /\ stage' \in Pulling \cup Deciding
          /\ failedAt' = failedAt
       \/ /\ stage = "resolve" /\ stage' = "store_resolutions"
          /\ UNCHANGED <<failedAt, found>>
       \/ stage \notin {"idle", "record"} /\ stage' = "record" /\ failedAt' = stage

LEMMA StepKinds ==
    ASSUME [Next]_vars
    PROVE  Quiet \/ StartScan \/ StoreFindings \/ WriteFindingsSnapshot
           \/ StoreResolutions \/ RecordScan \/ Crash
<1> USE DEF streams, local, world, ghosts, budget, Quiet, Pulling, Deciding
<1>1. CASE PullSource
  BY <1>1 DEF PullSource
<1>2. CASE PullFails
  BY <1>2 DEF PullFails, Fail
<1>3. CASE PullDone
  BY <1>3 DEF PullDone, Advance
<1>4. CASE ConfirmGrants
  BY <1>4 DEF ConfirmGrants, Advance, Fail
<1>5. CASE DeriveBaseline
  BY <1>5 DEF DeriveBaseline, Advance, BlindRead, Fail
<1>6. CASE StoreEvents
  BY <1>6, StoreOutcome DEF StoreEvents, Advance
<1>7. CASE StoreBaseline
  BY <1>7, StoreOutcome DEF StoreBaseline
<1>8. CASE LoadDirectives
  BY <1>8 DEF LoadDirectives, Advance, BlindRead, Fail
<1>9. CASE Resolve
  BY <1>9 DEF Resolve, Advance
<1>10. CASE RotateEvents
  BY <1>10 DEF RotateEvents
<1>11. ASSUME NEW s \in Sources, Emit(s) PROVE Quiet
  BY <1>11 DEF Emit
<1>12. ASSUME NEW f \in Findings, Suppress(f) PROVE Quiet
  BY <1>12 DEF Suppress
<1>13. CASE UNCHANGED vars
  BY <1>13 DEF vars
<1> QED
  BY <1>1, <1>2, <1>3, <1>4, <1>5, <1>6, <1>7, <1>8, <1>9, <1>10, <1>11, <1>12, <1>13
     DEF Next, Scan

LEMMA FindingsKept ==
    ASSUME findings' = findings, NEW k
    PROVE  FindingsOf(k)' = FindingsOf(k)
BY DEF FindingsOf

LEMMA ResolutionsKept ==
    ASSUME resolutions' = resolutions, NEW k
    PROVE  ResolvedIn(k)' = ResolvedIn(k)
BY DEF ResolvedIn

\* What an append of Rows(found) adds to what a stream says of scan k.
LEMMA FoundAdded ==
    ASSUME Typed, stage # "idle", NEW rows \in Seq([finding : Findings, scan : 1..scan]), NEW k
    PROVE  Of(rows \o Rows(found), k) = Of(rows, k) \cup (IF k = scan THEN found ELSE {})
<1>1. scan \in Nat /\ found \in SUBSET Findings /\ IsFiniteSet(found)
  BY BoundAssumption DEF Typed, ScanTyped
<1>2. [finding : Findings, scan : 1..scan] \subseteq [finding : Findings, scan : Nat]
  BY <1>1
<1> DEFINE Now == [finding : Findings, scan : 1..scan]
           Ever == [finding : Findings, scan : Nat]
<1>3. rows \in Seq(Ever)
  <2>1. rows \in Seq(Now) /\ Now \subseteq Ever
    BY <1>2
  <2> HIDE DEF Now, Ever
  <2> QED  BY <2>1, SeqMonotonic
<1>4. rows \in Seq([finding : Findings, scan : Nat])
  BY <1>3
<1>5. found \in SUBSET Findings /\ IsFiniteSet(found) /\ scan \in Nat
  BY <1>1
<1> HIDE DEF Now, Ever
<1> QED  BY <1>4, <1>5, RowsAdded

LEMMA FindingsAdded ==
    ASSUME Typed, stage # "idle", findings' = findings \o Rows(found), NEW k
    PROVE  FindingsOf(k)' = FindingsOf(k) \cup (IF k = scan THEN found ELSE {})
<1>1. FindingsOf(k)' = Of(findings', k) /\ FindingsOf(k) = Of(findings, k)
  BY DEF FindingsOf, Of
<1> QED  BY <1>1, FoundAdded DEF Typed, StreamsTyped

LEMMA ResolutionsAdded ==
    ASSUME Typed, stage # "idle", resolutions' = resolutions \o Rows(found), NEW k
    PROVE  ResolvedIn(k)' = ResolvedIn(k) \cup (IF k = scan THEN found ELSE {})
<1>1. ResolvedIn(k)' = Of(resolutions', k) /\ ResolvedIn(k) = Of(resolutions, k)
  BY DEF ResolvedIn, Of
<1> QED  BY <1>1, FoundAdded DEF Typed, StreamsTyped

\* A scan that has not been started has left nothing.
LEMMA NothingAhead ==
    ASSUME Typed
    PROVE  FindingsOf(scan + 1) = {} /\ ResolvedIn(scan + 1) = {}
<1>1. scan \in Nat
  BY BoundAssumption DEF Typed, ScanTyped
<1> DEFINE R == [finding : Findings, scan : 1..scan]
<1>2. findings \in Seq(R) /\ resolutions \in Seq(R)
  BY DEF Typed, StreamsTyped
<1>3. \A r \in R : r.scan \in 1..scan
  OBVIOUS
<1> HIDE DEF R
<1>4. \A i \in DOMAIN findings : findings[i].scan \in 1..scan
  BY <1>2, <1>3
<1>5. \A i \in DOMAIN resolutions : resolutions[i].scan \in 1..scan
  BY <1>2, <1>3
<1> QED  BY <1>1, <1>4, <1>5 DEF FindingsOf, ResolvedIn

LEMMA AccountedInit == Init => Accounted
<1> SUFFICES ASSUME Init PROVE Accounted
  OBVIOUS
<1>1. Unrecorded /\ OneRecord /\ SuccessIsComplete
  BY DEF Init, Unrecorded, OneRecord, SuccessIsComplete
<1>2. SoFar
  BY DEF Init, SoFar, Pulling, Deciding, Answering
<1>3. AnsweredByScan
  BY DEF Init, AnsweredByScan, FindingsOf, ResolvedIn, IsInjective
<1> QED  BY <1>1, <1>2, <1>3 DEF Accounted

\* The rows of the scan record.
LEMMA RecordTyped ==
    ASSUME Typed
    PROVE  /\ scan \in Nat /\ Len(scans) \in Nat /\ DOMAIN scans = 1..Len(scans)
           /\ \A i \in DOMAIN scans : scans[i].scan \in 1..scan
<1> DEFINE R == [scan : 1..scan, success : BOOLEAN, stage : Stages \cup {None}]
<1>1. scans \in Seq(R)
  BY DEF Typed, StreamsTyped
<1>2. \A r \in R : r.scan \in 1..scan
  OBVIOUS
<1>3. scan \in Nat
  BY BoundAssumption DEF Typed, ScanTyped
<1> HIDE DEF R
<1> QED  BY <1>1, <1>2, <1>3

LEMMA RecordWritten ==
    ASSUME Typed, RecordScan
    PROVE  /\ stage = "record" /\ stage' = "idle"
           /\ UNCHANGED <<findings, resolutions, snapshot, scan>> /\ failedAt' = None
           /\ \/ UNCHANGED scans /\ broken' = broken \cup {scan}
              \/ /\ broken' \in {broken, broken \cup {scan}}
                 /\ DOMAIN scans' = 1..(Len(scans) + 1)
                 /\ \A i \in DOMAIN scans : scans'[i] = scans[i]
                 /\ scans'[Len(scans) + 1].scan = scan
                 /\ scans'[Len(scans) + 1].success <=> failedAt = None
<1> DEFINE row == [scan |-> scan, success |-> failedAt = None, stage |-> failedAt]
           R == [scan : 1..scan, success : BOOLEAN, stage : Stages \cup {None}]
<1>1. scans \in Seq(R)
  BY DEF Typed, StreamsTyped
<1>2. row.scan = scan /\ (row.success <=> failedAt = None)
  OBVIOUS
<1>3. /\ stage = "record" /\ stage' = "idle"
      /\ UNCHANGED <<findings, resolutions, snapshot, scan>> /\ failedAt' = None
      /\ \/ UNCHANGED scans /\ broken' = broken \cup {scan}
         \/ scans' = Append(scans, row) /\ broken' \in {broken, broken \cup {scan}}
  BY DEF RecordScan, Forget
<1> HIDE DEF row, R
<1>4. /\ DOMAIN Append(scans, row) = 1..(Len(scans) + 1)
      /\ \A i \in DOMAIN scans : Append(scans, row)[i] = scans[i]
      /\ Append(scans, row)[Len(scans) + 1] = row
  BY <1>1
<1> QED  BY <1>2, <1>3, <1>4

LEMMA UnrecordedStep ==
    ASSUME Typed, Unrecorded, [Next]_vars
    PROVE  Unrecorded'
<1>1. CASE Quiet
  BY <1>1 DEF Quiet, Unrecorded, Pulling, Deciding
<1>2. CASE StartScan
  BY <1>2, RecordTyped DEF StartScan, Unrecorded, streams
<1>3. CASE StoreFindings \/ WriteFindingsSnapshot \/ StoreResolutions
  BY <1>3 DEF StoreFindings, WriteFindingsSnapshot, StoreResolutions, Unrecorded
<1>4. CASE RecordScan \/ Crash
  BY <1>4 DEF RecordScan, Crash, Unrecorded
<1> QED  BY <1>1, <1>2, <1>3, <1>4, StepKinds

LEMMA SoFarStep ==
    ASSUME Typed, SoFar, [Next]_vars
    PROVE  SoFar'
<1> USE DEF Pulling, Deciding, Answering
<1>1. CASE Quiet
  <2>1. FindingsOf(scan)' = FindingsOf(scan) /\ ResolvedIn(scan)' = ResolvedIn(scan)
    BY <1>1 DEF Quiet, FindingsOf, ResolvedIn
  <2> QED  BY <1>1, <2>1 DEF Quiet, SoFar, None, Typed, ScanTyped, Stages
<1>2. CASE StartScan
  <2>1. FindingsOf(scan)' = {} /\ ResolvedIn(scan)' = {}
    BY <1>2, NothingAhead DEF StartScan, streams, FindingsOf, ResolvedIn
  <2> QED  BY <1>2, <2>1 DEF StartScan, local, SoFar
<1>3. CASE StoreFindings
  <2>0. stage = "store_findings" /\ UNCHANGED <<snapshot, resolutions, scan, found>>
    BY <1>3 DEF StoreFindings
  <2>1. ResolvedIn(scan)' = ResolvedIn(scan)
    BY <2>0 DEF ResolvedIn
  <2>2. CASE stage' = "record" /\ failedAt' = stage
    BY <2>0, <2>1, <2>2 DEF SoFar, None
  <2>3. CASE findings' = findings /\ found = {} /\ Advance("write_findings_snapshot")
    <3>1. FindingsOf(scan)' = FindingsOf(scan)
      BY <2>0, <2>3 DEF FindingsOf
    <3> QED  BY <2>0, <2>1, <2>3, <3>1 DEF SoFar, Advance
  <2>4. CASE findings' = findings \o Rows(found) /\ stage' = "write_findings_snapshot"
             /\ failedAt' = failedAt
    <3>1. FindingsOf(scan)' = FindingsOf(scan) \cup found
      <4>1. FindingsOf(scan)' = Of(findings', scan) /\ FindingsOf(scan) = Of(findings, scan)
        BY <2>0 DEF FindingsOf, Of
      <4> QED  BY <2>0, <2>4, <4>1, FoundAdded DEF Typed, StreamsTyped
    <3> QED  BY <2>0, <2>1, <2>4, <3>1 DEF SoFar
  <2> QED  BY <1>3, <2>2, <2>3, <2>4, StoreOutcome DEF StoreFindings
<1>4. CASE WriteFindingsSnapshot
  <2>1. FindingsOf(scan)' = FindingsOf(scan) /\ ResolvedIn(scan)' = ResolvedIn(scan)
    BY <1>4 DEF WriteFindingsSnapshot, FindingsOf, ResolvedIn
  <2> QED  BY <1>4, <2>1 DEF WriteFindingsSnapshot, Advance, Fail, SoFar, None
<1>5. CASE StoreResolutions
  <2>0. stage = "store_resolutions" /\ UNCHANGED <<findings, snapshot, scan, found>>
    BY <1>5 DEF StoreResolutions
  <2>1. FindingsOf(scan)' = FindingsOf(scan)
    BY <2>0 DEF FindingsOf
  <2>2. CASE stage' = "record" /\ failedAt' = stage
    BY <2>0, <2>2 DEF SoFar, None
  <2>3. CASE resolutions' = resolutions \o Rows(found) /\ stage' = "record"
             /\ failedAt' = failedAt
    <3>1. ResolvedIn(scan)' = ResolvedIn(scan) \cup found
      <4>1. ResolvedIn(scan)' = Of(resolutions', scan) /\ ResolvedIn(scan) = Of(resolutions, scan)
        BY <2>0 DEF ResolvedIn, Of
      <4> QED  BY <2>0, <2>3, <4>1, FoundAdded DEF Typed, StreamsTyped
    <3> QED  BY <2>0, <2>1, <2>3, <3>1 DEF SoFar
  <2> QED  BY <1>5, <2>2, <2>3, StoreOutcome DEF StoreResolutions
<1>6. CASE RecordScan \/ Crash
  BY <1>6 DEF RecordScan, Crash, Forget, SoFar
<1> QED  BY <1>1, <1>2, <1>3, <1>4, <1>5, <1>6, StepKinds

LEMMA OneRecordStep ==
    ASSUME Typed, Unrecorded, OneRecord, [Next]_vars
    PROVE  OneRecord'
<1> SUFFICES ASSUME NEW k \in 1..scan', k \notin broken', k = scan' => stage' = "idle"
             PROVE  \E i \in DOMAIN scans' : {j \in DOMAIN scans' : scans'[j].scan = k} = {i}
  BY DEF OneRecord
<1>0. /\ scan \in Nat /\ Len(scans) \in Nat /\ DOMAIN scans = 1..Len(scans)
      /\ \A i \in DOMAIN scans : scans[i].scan \in 1..scan
  BY RecordTyped
<1>1. ASSUME scans' = scans, k \in 1..scan, k \notin broken, k = scan => stage = "idle"
      PROVE  \E i \in DOMAIN scans' : {j \in DOMAIN scans' : scans'[j].scan = k} = {i}
  BY <1>1 DEF OneRecord
<1>2. CASE Quiet
  BY <1>1, <1>2 DEF Quiet, Pulling, Deciding
<1>3. CASE StartScan
  <2>1. k # scan'
    BY <1>3 DEF StartScan
  <2> QED  BY <1>0, <1>1, <1>3, <2>1 DEF StartScan, streams, ghosts
<1>4. CASE StoreFindings \/ WriteFindingsSnapshot \/ StoreResolutions
  <2>1. /\ UNCHANGED <<scans, scan, broken>>
        /\ stage \in {"store_findings", "write_findings_snapshot", "store_resolutions"}
        /\ stage' # "idle"
    BY <1>4, StoreOutcome
       DEF StoreFindings, WriteFindingsSnapshot, StoreResolutions, ghosts, Advance, Fail
  <2> QED  BY <1>1, <2>1
<1>5. CASE RecordScan
  <2>1. k \in 1..scan
    BY <1>5, RecordWritten
  <2>2. CASE UNCHANGED scans /\ broken' = broken \cup {scan}
    BY <1>1, <2>1, <2>2
  <2>3. CASE /\ broken' \in {broken, broken \cup {scan}}
             /\ DOMAIN scans' = 1..(Len(scans) + 1)
             /\ \A i \in DOMAIN scans : scans'[i] = scans[i]
             /\ scans'[Len(scans) + 1].scan = scan
    <3> DEFINE n == Len(scans) + 1
    <3>1. DOMAIN scans' = DOMAIN scans \cup {n} /\ n \notin DOMAIN scans
      BY <1>0, <2>3
    <3>2. CASE k = scan
      <4>1. \A j \in DOMAIN scans : scans[j].scan # k
        BY <1>0, <1>5, <3>2 DEF RecordScan, Unrecorded
      <4>2. {j \in DOMAIN scans' : scans'[j].scan = k} = {n}
        BY <2>3, <3>1, <3>2, <4>1
      <4> QED  BY <3>1, <4>2
    <3>3. CASE k # scan
      <4>1. k \notin broken
        BY <2>3
      <4>2. PICK i \in DOMAIN scans : {j \in DOMAIN scans : scans[j].scan = k} = {i}
        BY <2>1, <3>3, <4>1 DEF OneRecord
      <4>3. {j \in DOMAIN scans' : scans'[j].scan = k} = {j \in DOMAIN scans : scans[j].scan = k}
        BY <2>3, <3>1, <3>3
      <4> QED  BY <3>1, <4>2, <4>3
    <3> QED  BY <3>2, <3>3
  <2> QED  BY <1>5, <2>2, <2>3, RecordWritten
<1>6. CASE Crash
  BY <1>1, <1>6 DEF Crash, streams
<1> QED  BY <1>2, <1>3, <1>4, <1>5, <1>6, StepKinds

LEMMA AnsweredStep ==
    ASSUME Typed, SoFar, AnsweredByScan, [Next]_vars
    PROVE  AnsweredByScan'
<1> SUFFICES (\A k : ResolvedIn(k)' \subseteq FindingsOf(k)') /\ IsInjective(resolutions')
  BY DEF AnsweredByScan
<1>1. ASSUME UNCHANGED <<findings, resolutions>>
      PROVE  (\A k : ResolvedIn(k)' \subseteq FindingsOf(k)') /\ IsInjective(resolutions')
  BY <1>1 DEF AnsweredByScan, FindingsOf, ResolvedIn
<1>2. CASE Quiet \/ StartScan \/ WriteFindingsSnapshot \/ RecordScan \/ Crash
  BY <1>1, <1>2 DEF Quiet, StartScan, WriteFindingsSnapshot, RecordScan, Crash, streams
<1>3. CASE StoreFindings
  <2>0. stage = "store_findings" /\ UNCHANGED resolutions
    BY <1>3 DEF StoreFindings
  <2>1. \A k : ResolvedIn(k)' = ResolvedIn(k)
    BY <2>0 DEF ResolvedIn
  <2>2. CASE findings' = findings
    BY <1>1, <2>0, <2>2
  <2>3. CASE findings' = findings \o Rows(found)
    <3>1. ASSUME NEW k PROVE FindingsOf(k) \subseteq FindingsOf(k)'
      <4>1. FindingsOf(k)' = FindingsOf(k) \cup (IF k = scan THEN found ELSE {})
        BY <2>0, <2>3, FindingsAdded
      <4> QED  BY <4>1
    <3> QED  BY <2>0, <2>1, <3>1 DEF AnsweredByScan
  <2> QED  BY <1>3, <2>2, <2>3, StoreOutcome DEF StoreFindings
<1>4. CASE StoreResolutions
  <2>0. stage = "store_resolutions" /\ UNCHANGED findings
    BY <1>4 DEF StoreResolutions
  <2>1. \A k : FindingsOf(k)' = FindingsOf(k)
    BY <2>0 DEF FindingsOf
  <2>2. CASE resolutions' = resolutions
    BY <1>1, <2>0, <2>2
  <2>3. CASE resolutions' = resolutions \o Rows(found)
    <3>1. FindingsOf(scan) = found /\ ResolvedIn(scan) = {}
      BY <2>0 DEF SoFar, Pulling, Deciding, Answering
    <3>2. ASSUME NEW k PROVE ResolvedIn(k)' \subseteq FindingsOf(k)'
      <4>1. ResolvedIn(k)' = Of(resolutions', k) /\ ResolvedIn(k) = Of(resolutions, k)
        BY DEF ResolvedIn, Of
      <4>2. ResolvedIn(k)' = ResolvedIn(k) \cup (IF k = scan THEN found ELSE {})
        BY <2>0, <2>3, <4>1, FoundAdded DEF Typed, StreamsTyped
      <4> QED  BY <2>1, <3>1, <4>2 DEF AnsweredByScan
    <3>3. IsInjective(resolutions')
      <4> DEFINE R == [finding : Findings, scan : 1..scan]
      <4>1. resolutions \in Seq(R) /\ Rows(found) \in Seq(R)
        BY <2>0, FoundRows DEF Typed, StreamsTyped
      <4>2. /\ IsInjective(Rows(found))
            /\ ToSet(Rows(found)) = {[finding |-> f, scan |-> scan] : f \in found}
        BY RowsProperties DEF Typed, ScanTyped
      <4>3. \A r \in ToSet(resolutions) : r.scan # scan
        BY <3>1 DEF ResolvedIn, ToSet
      <4>4. \A r \in ToSet(Rows(found)) : r.scan = scan
        BY <4>2
      <4>5. ToSet(resolutions) \cap ToSet(Rows(found)) = {}
        BY <4>3, <4>4
      <4> HIDE DEF R
      <4> QED  BY <2>3, <4>1, <4>2, <4>5, InjectiveConcat DEF AnsweredByScan
    <3> QED  BY <3>2, <3>3
  <2> QED  BY <1>4, <2>2, <2>3, StoreOutcome DEF StoreResolutions
<1> QED  BY <1>2, <1>3, <1>4, StepKinds

LEMMA CompleteStep ==
    ASSUME Typed, Unrecorded, SoFar, SuccessIsComplete, [Next]_vars
    PROVE  SuccessIsComplete'
<1> DEFINE Whole(k) == FindingsOf(k) = ResolvedIn(k)
<1>0. /\ scan \in Nat /\ Len(scans) \in Nat /\ DOMAIN scans = 1..Len(scans)
      /\ \A i \in DOMAIN scans : scans[i].scan \in 1..scan
  BY RecordTyped
<1>1. \A i \in DOMAIN scans : scans[i].success =>
         /\ Whole(scans[i].scan)
         /\ scans[i].scan = scan => snapshot = FindingsOf(scan)
  BY DEF SuccessIsComplete
<1> SUFFICES ASSUME NEW i \in DOMAIN scans', scans'[i].success, NEW k, k = scans'[i].scan
             PROVE  Whole(k)' /\ (k = scan' => snapshot' = FindingsOf(k)')
  BY DEF SuccessIsComplete
<1>2. CASE Quiet
  <2>1. FindingsOf(k)' = FindingsOf(k) /\ ResolvedIn(k)' = ResolvedIn(k)
    BY <1>2 DEF Quiet, FindingsOf, ResolvedIn
  <2> QED  BY <1>1, <1>2, <2>1 DEF Quiet
<1>3. CASE StartScan
  <2>1. FindingsOf(k)' = FindingsOf(k) /\ ResolvedIn(k)' = ResolvedIn(k)
    BY <1>3 DEF StartScan, streams, FindingsOf, ResolvedIn
  <2>2. scans' = scans /\ scan' = scan + 1
    BY <1>3 DEF StartScan, streams
  <2> QED  BY <1>0, <1>1, <2>1, <2>2
<1>4. CASE StoreFindings \/ WriteFindingsSnapshot \/ StoreResolutions
  <2>1. scans' = scans /\ scan' = scan /\ stage # "idle"
    BY <1>4 DEF StoreFindings, WriteFindingsSnapshot, StoreResolutions
  <2>2. k # scan
    BY <1>0, <2>1 DEF Unrecorded
  <2>3. /\ findings' \in {findings, findings \o Rows(found)}
        /\ resolutions' \in {resolutions, resolutions \o Rows(found)}
    BY <1>4, StoreOutcome DEF StoreFindings, WriteFindingsSnapshot, StoreResolutions
  <2>4. FindingsOf(k)' = FindingsOf(k)
    <3>1. CASE findings' = findings
      BY <3>1, FindingsKept
    <3>2. CASE findings' = findings \o Rows(found)
      BY <2>1, <2>2, <3>2, FindingsAdded
    <3> QED  BY <2>3, <3>1, <3>2
  <2>5. ResolvedIn(k)' = ResolvedIn(k)
    <3>1. CASE resolutions' = resolutions
      BY <3>1, ResolutionsKept
    <3>2. CASE resolutions' = resolutions \o Rows(found)
      BY <2>1, <2>2, <3>2, ResolutionsAdded
    <3> QED  BY <2>3, <3>1, <3>2
  <2> QED  BY <1>1, <2>1, <2>2, <2>4, <2>5
<1>5. CASE RecordScan
  <2>1. stage = "record" /\ UNCHANGED <<findings, resolutions, snapshot, scan>>
    BY <1>5, RecordWritten
  <2>2. FindingsOf(k)' = FindingsOf(k) /\ ResolvedIn(k)' = ResolvedIn(k)
    BY <2>1 DEF FindingsOf, ResolvedIn
  <2>3. CASE scans' = scans
    BY <1>1, <2>1, <2>2, <2>3
  <2>4. CASE /\ DOMAIN scans' = 1..(Len(scans) + 1)
             /\ \A j \in DOMAIN scans : scans'[j] = scans[j]
             /\ scans'[Len(scans) + 1].scan = scan
             /\ scans'[Len(scans) + 1].success <=> failedAt = None
    <3>1. CASE i \in DOMAIN scans
      BY <1>1, <2>1, <2>2, <2>4, <3>1
    <3>2. CASE i = Len(scans) + 1
      <4>1. k = scan /\ failedAt = None
        BY <2>4, <3>2
      <4> QED  BY <2>1, <2>2, <4>1 DEF SoFar
    <3> QED  BY <1>0, <2>4, <3>1, <3>2
  <2> QED  BY <1>5, <2>3, <2>4, RecordWritten
<1>6. CASE Crash
  <2>1. FindingsOf(k)' = FindingsOf(k) /\ ResolvedIn(k)' = ResolvedIn(k)
    BY <1>6 DEF Crash, streams, FindingsOf, ResolvedIn
  <2> QED  BY <1>1, <1>6, <2>1 DEF Crash, streams
<1> QED  BY <1>2, <1>3, <1>4, <1>5, <1>6, StepKinds

LEMMA AccountedStep == Typed /\ Accounted /\ [Next]_vars => Accounted'
BY UnrecordedStep, SoFarStep, OneRecordStep, AnsweredStep, CompleteStep DEF Accounted

\* However many scans run, and wherever each of them fails or is killed: a scan
\* that is over left one record, a success answered all that it flagged, and no
\* answer stands without its finding or stands twice.
THEOREM EveryScanIsAccounted == Spec => []ScansAreAccounted
BY TypedInit, TypedStep, AccountedInit, AccountedStep,
   AccountedImpliesScansAreAccounted, PTL DEF Spec

-----------------------------------------------------------------------------
(* No event is stored twice. *)

\* Between the dedupe and its append, nothing of the batch is in the stream.
FreshBatch ==
    stage = "store_events" => IsInjective(batch) /\ ToSet(batch) \cap ToSet(events) = {}

NoRepeat == blind \/ (IsInjective(events) /\ FreshBatch)

LEMMA NoRepeatInit == Init => NoRepeat
BY DEF Init, NoRepeat, FreshBatch, IsInjective

LEMMA NoRepeatStep == Typed /\ NoRepeat /\ [Next]_vars => NoRepeat'
<1> SUFFICES ASSUME Typed, NoRepeat, [Next]_vars, ~blind' PROVE (IsInjective(events) /\ FreshBatch)'
  BY DEF NoRepeat
<1> USE DEF streams, local, world, ghosts, budget
<1>1. ASSUME ~blind, UNCHANGED events, stage' # "store_events"
      PROVE  (IsInjective(events) /\ FreshBatch)'
  BY <1>1 DEF NoRepeat, FreshBatch
<1>2. CASE \/ StartScan \/ PullSource \/ PullFails \/ PullDone \/ ConfirmGrants
           \/ StoreBaseline \/ LoadDirectives \/ StoreFindings \/ WriteFindingsSnapshot
           \/ Resolve \/ StoreResolutions \/ RecordScan \/ Crash
  <2>1. blind' = blind \/ LoadDirectives
    BY <1>2
       DEF StartScan, PullSource, PullFails, PullDone, ConfirmGrants, StoreBaseline,
           StoreFindings, WriteFindingsSnapshot, Resolve, StoreResolutions, RecordScan, Crash
  <2>2. ~blind
    BY <2>1 DEF LoadDirectives, BlindRead
  <2>3. UNCHANGED events
    BY <1>2
       DEF StartScan, PullSource, PullFails, PullDone, ConfirmGrants, StoreBaseline,
           LoadDirectives, StoreFindings, WriteFindingsSnapshot, Resolve, StoreResolutions,
           RecordScan, Crash
  <2>4. CASE StoreBaseline \/ StoreFindings \/ StoreResolutions
    <3>1. stage' # "store_events"
      BY <2>4, StoreOutcome DEF StoreBaseline, StoreFindings, StoreResolutions, Advance
    <3> QED  BY <1>1, <2>2, <2>3, <3>1
  <2>5. CASE ~(StoreBaseline \/ StoreFindings \/ StoreResolutions)
    <3>1. stage' # "store_events"
      BY <1>2, <2>5
         DEF StartScan, PullSource, PullFails, PullDone, ConfirmGrants, LoadDirectives,
             WriteFindingsSnapshot, Resolve, RecordScan, Crash, Advance, Fail, BlindRead
    <3> QED  BY <1>1, <2>2, <2>3, <3>1
  <2> QED  BY <2>4, <2>5
<1>3. CASE DeriveBaseline
  <2>1. stage = "baseline" /\ UNCHANGED events
    BY <1>3 DEF DeriveBaseline
  <2>2. ~blind /\ (stage' = "store_events" => batch' = Dedupe(batch, ToSet(events)))
    BY <1>3 DEF DeriveBaseline, BlindRead, Fail
  <2>3. /\ IsInjective(Dedupe(batch, ToSet(events)))
        /\ ToSet(Dedupe(batch, ToSet(events))) = ToSet(batch) \ ToSet(events)
    BY DedupeProperties DEF Typed, ScanTyped
  <2> QED  BY <2>1, <2>2, <2>3 DEF NoRepeat, FreshBatch
<1>4. CASE StoreEvents
  <2>1. stage = "store_events" /\ stage' # "store_events" /\ ~blind
    BY <1>4, StoreOutcome DEF StoreEvents, Advance
  <2>2. events' \in {events, events \o batch}
    BY <1>4, StoreOutcome DEF StoreEvents
  <2>3. /\ events \in Seq(Events) /\ batch \in Seq(Events)
        /\ IsInjective(events) /\ IsInjective(batch) /\ ToSet(events) \cap ToSet(batch) = {}
    BY <2>1 DEF Typed, StreamsTyped, ScanTyped, NoRepeat, FreshBatch
  <2>4. IsInjective(events')
    BY <2>2, <2>3, InjectiveConcat
  <2> QED  BY <2>1, <2>4 DEF FreshBatch
<1>5. CASE RotateEvents
  <2>1. IsInjective(<<>>)
    BY DEF IsInjective
  <2> QED  BY <1>5, <2>1 DEF RotateEvents, FreshBatch
<1>6. ASSUME NEW s \in Sources, Emit(s) PROVE (IsInjective(events) /\ FreshBatch)'
  BY <1>1, <1>6 DEF Emit
<1>7. ASSUME NEW f \in Findings, Suppress(f) PROVE (IsInjective(events) /\ FreshBatch)'
  BY <1>1, <1>7 DEF Suppress
<1>8. CASE UNCHANGED vars
  BY <1>8 DEF vars, NoRepeat, FreshBatch
<1> QED
  BY <1>2, <1>3, <1>4, <1>5, <1>6, <1>7, <1>8 DEF Next, Scan

\* The events stream never holds an event twice, although a source may deliver
\* it again, a failed append may have stored it and a killed scan forgets that
\* it did; unless a read took the store for empty.
THEOREM EventsAreStoredOnce == Spec => []NoRepeatedEvent
<1>1. NoRepeat => NoRepeatedEvent
  BY DEF NoRepeat, NoRepeatedEvent
<1> QED  BY <1>1, TypedInit, TypedStep, NoRepeatInit, NoRepeatStep, PTL DEF Spec

-----------------------------------------------------------------------------
(* No alarming event is missed. *)

Flagged(f) == \E k \in 1..scan : f \in FindingsOf(k)

AllWell == broken = {} /\ \A i \in DOMAIN scans : scans[i].success

\* The operator does not want the alarm of event e, or a scan has raised it.
Settled(e) == RuleFinding(e) \in suppressed \/ Flagged(RuleFinding(e))

\* The running scan is going to raise it.
Caught(e) == stage \in Deciding /\ RuleFinding(e) \in found

\* An alarming event is on its way through every stage: pulled and not yet
\* looked at, found and not yet recorded, or settled; and one that is stored,
\* which the dedupe will drop, is past the first of these.
OnItsWay ==
    AllWell /\ failedAt = None =>
       /\ \A e \in delivered \cap Alarming :
             Settled(e) \/ Caught(e) \/ (stage \in Pulling /\ e \in ToSet(batch))
       /\ \A e \in ToSet(events) \cap Alarming : Settled(e) \/ Caught(e)

LEMMA OnItsWayInit == Init => OnItsWay
BY DEF Init, OnItsWay, ToSet

\* What a scan flagged stays flagged.
LEMMA FlaggedStays ==
    ASSUME Typed, [Next]_vars, NEW f, Flagged(f)
    PROVE  Flagged(f)'
<1>1. PICK k \in 1..scan : f \in FindingsOf(k)
  BY DEF Flagged
<1>2. scan \in Nat
  BY RecordTyped
<1>3. scan' \in {scan, scan + 1}
  <2>1. CASE Quiet
    BY <2>1 DEF Quiet
  <2>2. CASE ~Quiet
    BY <2>2, StepKinds
       DEF StartScan, StoreFindings, WriteFindingsSnapshot, StoreResolutions, RecordScan, Crash
  <2> QED  BY <2>1, <2>2
<1>4. CASE findings' = findings
  BY <1>1, <1>2, <1>3, <1>4, FindingsKept DEF Flagged
<1>5. CASE StoreFindings
  <2>1. stage # "idle" /\ findings' \in {findings, findings \o Rows(found)}
    BY <1>5, StoreOutcome DEF StoreFindings
  <2>2. CASE findings' = findings \o Rows(found)
    <3>1. f \in FindingsOf(k)'
      BY <1>1, <2>1, <2>2, FindingsAdded
    <3> QED  BY <1>1, <1>2, <1>3, <3>1 DEF Flagged
  <2> QED  BY <1>4, <2>1, <2>2
<1> QED
  BY <1>4, <1>5, StepKinds
     DEF Quiet, StartScan, WriteFindingsSnapshot, StoreResolutions, RecordScan, Crash, streams

LEMMA AllWellWas ==
    ASSUME Typed, [Next]_vars, AllWell', stage # "record"
    PROVE  AllWell
<1>1. scans' = scans /\ broken \subseteq broken'
  <2>1. CASE Quiet
    BY <2>1 DEF Quiet
  <2>2. CASE ~Quiet
    BY <2>2, StepKinds
       DEF StartScan, StoreFindings, WriteFindingsSnapshot, StoreResolutions, RecordScan,
           Crash, streams, ghosts
  <2> QED  BY <2>1, <2>2
<1> QED  BY <1>1 DEF AllWell

LEMMA OnItsWayStep == Typed /\ SoFar /\ OnItsWay /\ [Next]_vars => OnItsWay'
<1> SUFFICES ASSUME Typed, SoFar, OnItsWay, [Next]_vars, AllWell', failedAt' = None
             PROVE  /\ \A e \in delivered' \cap Alarming :
                          \/ Settled(e)' \/ Caught(e)'
                          \/ stage' \in Pulling /\ e \in ToSet(batch')
                    /\ \A e \in ToSet(events') \cap Alarming : Settled(e)' \/ Caught(e)'
  BY DEF OnItsWay
<1> USE DEF streams, local, world, ghosts, budget
<1> DEFINE Goal == /\ \A e \in delivered' \cap Alarming :
                          \/ Settled(e)' \/ Caught(e)'
                          \/ stage' \in Pulling /\ e \in ToSet(batch')
                   /\ \A e \in ToSet(events') \cap Alarming : Settled(e)' \/ Caught(e)'
<1>0. /\ batch \in Seq(Events) /\ events \in Seq(Events)
  BY DEF Typed, StreamsTyped, ScanTyped
<1>1. suppressed \subseteq suppressed'
  BY DEF Next, Scan, vars, StartScan, PullSource, PullFails, PullDone, ConfirmGrants,
         DeriveBaseline, StoreEvents, StoreBaseline, LoadDirectives, StoreFindings,
         WriteFindingsSnapshot, Resolve, StoreResolutions, RecordScan, Crash, RotateEvents,
         Emit, Suppress
<1>2. \A e : Settled(e) => Settled(e)'
  BY <1>1, FlaggedStays DEF Settled
\* What OnItsWay says here, once the step is known not to hide a failure.
<1>3. ASSUME stage # "record", failedAt = None
      PROVE  /\ \A e \in delivered \cap Alarming :
                   Settled(e) \/ Caught(e) \/ (stage \in Pulling /\ e \in ToSet(batch))
             /\ \A e \in ToSet(events) \cap Alarming : Settled(e) \/ Caught(e)
  BY <1>3, AllWellWas DEF OnItsWay
<1>4. stage # "record" => failedAt = None
  BY DEF SoFar
<1> HIDE DEF Goal
<1> SUFFICES Goal
  BY DEF Goal
\* A stage that leaves the events where they are.
<1>5. ASSUME stage # "record", UNCHANGED <<delivered, events, found, batch>>,
             stage \in Deciding => stage' \in Deciding,
             stage \in Pulling => stage' \in Pulling
      PROVE  Goal
  BY <1>2, <1>3, <1>4, <1>5 DEF Goal, Caught
<1>6. CASE StartScan
  <2>1. /\ stage # "record" /\ UNCHANGED <<delivered, events, found, batch>>
        /\ stage \in Deciding => stage' \in Deciding
        /\ stage \in Pulling => stage' \in Pulling
    BY <1>6 DEF StartScan, Pulling, Deciding
  <2> QED  BY <1>5, <2>1
<1>7. CASE PullSource
  <2>1. /\ stage = "connect" /\ stage' = stage /\ UNCHANGED <<events, found>>
        /\ Window(SourceOrder[pos]) \in Seq(Events)
        /\ batch' = batch \o Window(SourceOrder[pos])
        /\ delivered' = delivered \cup ToSet(Window(SourceOrder[pos]))
    <3>1. SourceOrder[pos] \in Sources
      BY <1>7, SourceTyped DEF PullSource, Typed, ScanTyped
    <3> QED  BY <1>7, <3>1, WindowTyped DEF PullSource
  <2>2. ToSet(batch') = ToSet(batch) \cup ToSet(Window(SourceOrder[pos]))
    BY <1>0, <2>1, ToSetOfConcat
  <2> QED  BY <1>2, <1>3, <1>4, <2>1, <2>2 DEF Goal, Caught, Pulling, Deciding
<1>8. CASE PullFails
  BY <1>8 DEF PullFails, Fail, None
<1>9. CASE PullDone \/ ConfirmGrants
  <2>1. \/ stage = "connect" /\ stage' = "confirm_grants"
        \/ stage = "confirm_grants" /\ stage' = "baseline"
    BY <1>9 DEF PullDone, ConfirmGrants, Advance, Fail, None
  <2>2. UNCHANGED <<delivered, events, found, batch>>
    BY <1>9 DEF PullDone, ConfirmGrants
  <2>3. /\ stage # "record" /\ UNCHANGED <<delivered, events, found, batch>>
        /\ stage \in Deciding => stage' \in Deciding
        /\ stage \in Pulling => stage' \in Pulling
    BY <2>1, <2>2 DEF Pulling, Deciding
  <2> QED  BY <1>5, <2>3
<1>10. CASE DeriveBaseline
  <2>1. PICK prior \in {ToSet(events), {}} :
          /\ stage = "baseline" /\ stage' = "store_events"
          /\ UNCHANGED <<events, delivered, found>> /\ batch' = Dedupe(batch, prior)
    BY <1>10 DEF DeriveBaseline, Advance, BlindRead, Fail, None
  <2>2. ToSet(batch') = ToSet(batch) \ prior
    BY <1>0, <2>1, DedupeProperties
  <2> QED  BY <1>2, <1>3, <1>4, <2>1, <2>2 DEF Goal, Caught, Pulling, Deciding
<1>11. CASE StoreEvents
  <2>1. /\ stage = "store_events" /\ stage' = "store_baseline_snapshot"
        /\ UNCHANGED delivered /\ found' = Detect
        /\ events' \in {events, events \o batch}
    BY <1>11, StoreOutcome DEF StoreEvents, Advance, None
  <2>2. \A e \in ToSet(batch) \cap Alarming : RuleFinding(e) \in found'
    BY <2>1 DEF Detect
  <2>3. ToSet(events') \subseteq ToSet(events) \cup ToSet(batch)
    BY <1>0, <2>1, ToSetOfConcat
  <2> QED  BY <1>2, <1>3, <1>4, <2>1, <2>2, <2>3 DEF Goal, Caught, Pulling, Deciding
<1>12. CASE StoreBaseline
  <2>1. stage = "store_baseline_snapshot" /\ stage' = "load_directives"
    BY <1>12, StoreOutcome DEF StoreBaseline, None
  <2>2. /\ stage # "record" /\ UNCHANGED <<delivered, events, found, batch>>
        /\ stage \in Deciding => stage' \in Deciding
        /\ stage \in Pulling => stage' \in Pulling
    BY <1>12, <2>1 DEF StoreBaseline, Pulling, Deciding
  <2> QED  BY <1>5, <2>2
<1>13. CASE LoadDirectives
  <2>1. /\ stage = "load_directives" /\ stage' = "store_findings"
        /\ UNCHANGED <<events, delivered, batch>> /\ found \ suppressed \subseteq found'
    BY <1>13 DEF LoadDirectives, Advance, BlindRead, Fail, None
  <2>2. \A e : Caught(e) => Settled(e) \/ Caught(e)'
    BY <2>1 DEF Caught, Settled, Deciding
  <2> QED  BY <1>2, <1>3, <1>4, <2>1, <2>2 DEF Goal, Pulling
<1>14. CASE StoreFindings
  <2>1. /\ stage = "store_findings" /\ stage' = "write_findings_snapshot"
        /\ UNCHANGED <<events, delivered, scan>>
        /\ \/ findings' = findings \o Rows(found)
           \/ found = {}
    BY <1>14, StoreOutcome DEF StoreFindings, Advance, None
  <2>2. ASSUME NEW e, Caught(e) PROVE Settled(e)'
    <3>1. RuleFinding(e) \in found /\ findings' = findings \o Rows(found)
      BY <2>1, <2>2 DEF Caught
    <3>2. scan \in 1..scan
      BY <2>1, RecordTyped DEF Typed, ScanTyped
    <3>3. RuleFinding(e) \in FindingsOf(scan)'
      <4>1. FindingsOf(scan)' = Of(findings', scan) /\ FindingsOf(scan) = Of(findings, scan)
        BY <2>1 DEF FindingsOf, Of
      <4>2. FindingsOf(scan)' = FindingsOf(scan) \cup found
        BY <2>1, <3>1, <4>1, FoundAdded DEF Typed, StreamsTyped
      <4> QED  BY <3>1, <4>2
    <3> QED  BY <2>1, <3>2, <3>3 DEF Settled, Flagged
  <2> QED  BY <1>2, <1>3, <1>4, <2>1, <2>2 DEF Goal, Pulling
<1>15. CASE WriteFindingsSnapshot \/ Resolve \/ StoreResolutions
  <2>1. /\ stage \in Answering /\ UNCHANGED <<delivered, events, found, batch>>
    BY <1>15 DEF WriteFindingsSnapshot, Resolve, StoreResolutions, Answering
  <2>2. /\ stage # "record" /\ UNCHANGED <<delivered, events, found, batch>>
        /\ stage \in Deciding => stage' \in Deciding
        /\ stage \in Pulling => stage' \in Pulling
    BY <2>1 DEF Answering, Pulling, Deciding
  <2> QED  BY <1>5, <2>2
<1>16. CASE RecordScan
  <2>1. /\ stage = "record" /\ stage' = "idle" /\ UNCHANGED <<delivered, events>>
    BY <1>16 DEF RecordScan
  <2>2. broken' = {} /\ \A i \in DOMAIN scans' : scans'[i].success
    BY DEF AllWell
  <2>3. /\ broken' = broken
        /\ DOMAIN scans' = 1..(Len(scans) + 1)
        /\ \A i \in DOMAIN scans : scans'[i] = scans[i]
        /\ scans'[Len(scans) + 1].success <=> failedAt = None
    BY <1>16, <2>2, RecordWritten
  <2>4. /\ DOMAIN scans \subseteq DOMAIN scans' /\ Len(scans) + 1 \in DOMAIN scans'
    BY <2>3, RecordTyped
  <2>5. AllWell /\ failedAt = None
    BY <2>2, <2>3, <2>4 DEF AllWell
  <2> QED  BY <1>2, <2>1, <2>5 DEF Goal, OnItsWay, Caught, Pulling, Deciding
<1>17. CASE Crash
  BY <1>17 DEF Crash, AllWell
<1>18. CASE RotateEvents
  <2>1. ToSet(events') = {}
    BY <1>18 DEF RotateEvents, ToSet
  <2> QED  BY <1>2, <1>3, <1>4, <1>18, <2>1 DEF RotateEvents, Goal, Caught, Pulling, Deciding
<1>19. ASSUME NEW s \in Sources, Emit(s) PROVE Goal
  BY <1>5, <1>19 DEF Emit, Deciding
<1>20. ASSUME NEW f \in Findings, Suppress(f) PROVE Goal
  BY <1>5, <1>20 DEF Suppress
<1>21. CASE UNCHANGED vars
  <2>1. UNCHANGED <<delivered, events, found, batch, stage, failedAt, broken, scans>>
    BY <1>21 DEF vars
  <2>2. AllWell /\ failedAt = None
    BY <2>1 DEF AllWell
  <2> QED  BY <1>2, <2>1, <2>2 DEF Goal, OnItsWay, Caught
<1> QED
  BY <1>6, <1>7, <1>8, <1>9, <1>10, <1>11, <1>12, <1>13, <1>14, <1>15, <1>16, <1>17,
     <1>18, <1>19, <1>20, <1>21 DEF Next, Scan

\* While every scan goes through, an alarming event that a connector handed over
\* is flagged or was suppressed when the scan is over: neither the cursor, which
\* moves before anything is stored, nor the dedupe, which hides what is stored,
\* loses it.
THEOREM DeliveredIsFlagged == Spec => []NothingMissed
<1>1. SoFar /\ OnItsWay => NothingMissed
  BY DEF SoFar, OnItsWay, NothingMissed, AllWell, Settled, Caught, Flagged, Deciding, Pulling
<1>2. Accounted => SoFar
  BY DEF Accounted
<1> QED  BY <1>1, <1>2, TypedInit, TypedStep, AccountedInit, AccountedStep,
            OnItsWayInit, OnItsWayStep, PTL DEF Spec

-----------------------------------------------------------------------------
(* A new actor is flagged once. *)

ActorsOf(E) == {ActorOf[e] : e \in E}

\* Every baseline contains the ones before it.
BaselineGrows ==
    /\ UNION ToSet(baselines) \subseteq LastBaseline
    /\ stage \in {"store_events", "store_baseline_snapshot"} => LastBaseline \subseteq known

\* Actor a, once flagged, is remembered by the stored events or the last
\* baseline, and so by the running scan's baseline ...
Remembered(a) ==
    Flagged(ActorFinding(a)) =>
       /\ a \in ActorsOf(ToSet(events)) \cup LastBaseline
       /\ stage \in {"store_events"} \cup Deciding => a \in known

\* ... which keeps it from flagging a again.
FlaggedByOne(a) ==
    \A j, k \in 1..scan : ActorFinding(a) \in FindingsOf(j) \cap FindingsOf(k) => j = k

\* What the running scan is about to flag is new to it, and already stored.
FoundIsNew(a) ==
    stage \in Deciding /\ ActorFinding(a) \in found => a \in ActorsOf(ToSet(events)) \ known

OnlyNews ==
    blind \/ /\ BaselineGrows
             /\ \A a \in Actors \ forgotten : Remembered(a) /\ FlaggedByOne(a) /\ FoundIsNew(a)

LEMMA OnlyNewsInit == Init => OnlyNews
<1> SUFFICES ASSUME Init PROVE OnlyNews
  OBVIOUS
<1>1. BaselineGrows
  BY DEF Init, BaselineGrows, LastBaseline, ToSet
<1>2. scan = 0 /\ stage = "idle"
  BY DEF Init
<1> QED  BY <1>1, <1>2
         DEF OnlyNews, Remembered, FlaggedByOne, FoundIsNew, Flagged, Deciding

\* An append to the baseline stream replaces the last baseline.
LEMMA BaselineAppended ==
    ASSUME Typed, baselines' = baselines \o <<known>>
    PROVE  LastBaseline' = known /\ ToSet(baselines') = ToSet(baselines) \cup {known}
<1>1. baselines \in Seq(SUBSET Actors) /\ known \in SUBSET Actors
  BY DEF Typed, StreamsTyped, ScanTyped
<1>2. <<known>> \in Seq(SUBSET Actors) /\ ToSet(<<known>>) = {known}
  <2>1. <<known>> \in Seq(SUBSET Actors)
    BY <1>1
  <2> QED  BY <2>1, ToSetOfOne, Zenon
<1>3. ToSet(baselines') = ToSet(baselines) \cup {known}
  <2> DEFINE one == <<known>>
  <2>1. /\ one \in Seq(SUBSET Actors) /\ ToSet(one) = {known}
        /\ baselines' = baselines \o one
    BY <1>2
  <2> HIDE DEF one
  <2> QED  BY <1>1, <2>1, ToSetOfConcat
<1>4. /\ Len(baselines \o <<known>>) = Len(baselines) + 1 /\ Len(baselines) \in Nat
      /\ (baselines \o <<known>>)[Len(baselines) + 1] = known
  BY <1>1
<1>5. baselines' # <<>>
  BY <1>4
<1>6. Last(baselines') = known
  BY <1>4 DEF Last
<1> QED  BY <1>3, <1>5, <1>6 DEF LastBaseline

\* Only StoreFindings flags, and it flags what the scan found.
LEMMA FlaggedBefore ==
    ASSUME Typed, [Next]_vars
    PROVE  \/ /\ ~StoreFindings
              /\ \A k \in 1..scan' : FindingsOf(k)' # {} => k \in 1..scan /\ FindingsOf(k)' = FindingsOf(k)
           \/ /\ StoreFindings /\ scan' = scan
              /\ \A k \in 1..scan : FindingsOf(k)' \subseteq
                    FindingsOf(k) \cup (IF k = scan THEN found ELSE {})
<1>0. scan \in Nat
  BY RecordTyped
<1>1. CASE StoreFindings
  <2>1. stage # "idle" /\ scan' = scan /\ findings' \in {findings, findings \o Rows(found)}
    BY <1>1, StoreOutcome DEF StoreFindings
  <2>2. ASSUME NEW k \in 1..scan
        PROVE  FindingsOf(k)' \subseteq FindingsOf(k) \cup (IF k = scan THEN found ELSE {})
    <3>1. CASE findings' = findings
      BY <3>1, FindingsKept
    <3>2. CASE findings' = findings \o Rows(found)
      BY <2>1, <3>2, FindingsAdded
    <3> QED  BY <2>1, <3>1, <3>2
  <2> QED  BY <1>1, <2>1, <2>2
<1>2. CASE ~StoreFindings
  <2>1. findings' = findings /\ (scan' = scan \/ scan' = scan + 1)
    <3>1. CASE Quiet
      BY <3>1 DEF Quiet
    <3>2. CASE ~Quiet
      BY <1>2, <3>2, StepKinds
         DEF StartScan, WriteFindingsSnapshot, StoreResolutions, RecordScan, Crash, streams
    <3> QED  BY <3>1, <3>2
  <2>2. ASSUME NEW k \in 1..scan', FindingsOf(k)' # {}
        PROVE  k \in 1..scan /\ FindingsOf(k)' = FindingsOf(k)
    <3>1. FindingsOf(k)' = FindingsOf(k)
      BY <2>1, FindingsKept
    <3>2. k # scan + 1
      BY <2>2, <3>1, NothingAhead
    <3> QED  BY <1>0, <2>1, <3>1, <3>2
  <2> QED  BY <1>2, <2>2
<1> QED  BY <1>1, <1>2

\* The steps that move none of what OnlyNews speaks of to where it matters.
Aside ==
    /\ UNCHANGED <<events, baselines>> /\ forgotten \subseteq forgotten'
    /\ \/ stage' \notin {"store_events"} \cup Deciding
       \/ UNCHANGED <<stage, known, found>>
       \/ LoadDirectives

LEMMA OnlyNewsKinds ==
    ASSUME [Next]_vars
    PROVE  /\ Aside \/ DeriveBaseline \/ StoreEvents \/ StoreBaseline \/ RotateEvents
           /\ blind => blind'
<1> USE DEF streams, local, world, ghosts, budget, Deciding
<1>1. CASE StartScan \/ PullSource \/ PullFails \/ PullDone \/ ConfirmGrants
  BY <1>1 DEF Aside, StartScan, PullSource, PullFails, PullDone, ConfirmGrants, Advance, Fail
<1>2. CASE LoadDirectives
  BY <1>2 DEF Aside, LoadDirectives, BlindRead
<1>3. CASE StoreFindings \/ StoreResolutions
  BY <1>3, StoreOutcome DEF Aside, StoreFindings, StoreResolutions, Advance
<1>4. CASE WriteFindingsSnapshot \/ Resolve
  BY <1>4 DEF Aside, WriteFindingsSnapshot, Resolve, Advance, Fail
<1>5. CASE RecordScan \/ Crash
  BY <1>5 DEF Aside, RecordScan, Crash
<1>6. CASE DeriveBaseline
  BY <1>6 DEF DeriveBaseline, BlindRead
<1>7. CASE StoreEvents \/ StoreBaseline \/ RotateEvents
  BY <1>7 DEF StoreEvents, StoreBaseline, RotateEvents
<1>8. ASSUME NEW s \in Sources, Emit(s) PROVE Aside /\ (blind => blind')
  BY <1>8 DEF Aside, Emit
<1>9. ASSUME NEW f \in Findings, Suppress(f) PROVE Aside /\ (blind => blind')
  BY <1>9 DEF Aside, Suppress
<1>10. CASE UNCHANGED vars
  BY <1>10 DEF vars, Aside
<1> QED
  BY <1>1, <1>2, <1>3, <1>4, <1>5, <1>6, <1>7, <1>8, <1>9, <1>10 DEF Next, Scan

LEMMA BaselineGrowsStep ==
    ASSUME Typed, BaselineGrows, [Next]_vars, ~blind'
    PROVE  BaselineGrows'
<1>1. CASE Aside
  <2>1. LastBaseline' = LastBaseline /\ baselines' = baselines
    BY <1>1 DEF Aside, LastBaseline
  <2>2. CASE LoadDirectives
    BY <2>1, <2>2 DEF LoadDirectives, Advance, BlindRead, Fail, BaselineGrows
  <2> QED  BY <1>1, <2>1, <2>2 DEF Aside, BaselineGrows, Deciding
<1>2. CASE DeriveBaseline
  <2>1. LastBaseline' = LastBaseline /\ baselines' = baselines
    BY <1>2 DEF DeriveBaseline, streams, LastBaseline
  <2>2. stage' = "record" \/ (stage' = "store_events" /\ LastBaseline \subseteq known')
    BY <1>2 DEF DeriveBaseline, BlindRead, Advance, Fail
  <2> QED  BY <2>1, <2>2 DEF BaselineGrows
<1>3. CASE StoreEvents
  <2>1. /\ LastBaseline' = LastBaseline /\ baselines' = baselines
        /\ stage = "store_events" /\ known' = known
    BY <1>3 DEF StoreEvents, LastBaseline
  <2> QED  BY <2>1 DEF BaselineGrows
<1>4. CASE StoreBaseline
  <2>1. /\ stage = "store_baseline_snapshot"
        /\ stage' \notin {"store_events", "store_baseline_snapshot"}
        /\ baselines' \in {baselines, baselines \o <<known>>}
    BY <1>4, StoreOutcome DEF StoreBaseline
  <2>2. CASE baselines' = baselines
    BY <2>1, <2>2 DEF BaselineGrows, LastBaseline
  <2>3. CASE baselines' = baselines \o <<known>>
    BY <2>1, <2>3, BaselineAppended DEF BaselineGrows
  <2> QED  BY <2>1, <2>2, <2>3
<1>5. CASE RotateEvents
  BY <1>5 DEF RotateEvents, BaselineGrows, LastBaseline
<1> QED  BY <1>1, <1>2, <1>3, <1>4, <1>5, OnlyNewsKinds

LEMMA FlaggedByOneStep ==
    ASSUME Typed, SoFar, [Next]_vars, NEW a \in Actors,
           Remembered(a), FlaggedByOne(a), FoundIsNew(a)
    PROVE  FlaggedByOne(a)'
<1> DEFINE f == ActorFinding(a)
<1> SUFFICES ASSUME NEW j \in 1..scan', NEW k \in 1..scan', f \in FindingsOf(j)', f \in FindingsOf(k)'
             PROVE  j = k
  BY DEF FlaggedByOne
<1> HIDE DEF f
<1>1. CASE ~StoreFindings
  <2>1. /\ j \in 1..scan /\ f \in FindingsOf(j)
        /\ k \in 1..scan /\ f \in FindingsOf(k)
    BY <1>1, FlaggedBefore
  <2> QED  BY <2>1 DEF FlaggedByOne, f
<1>2. CASE StoreFindings
  <2>1. stage = "store_findings" /\ FindingsOf(scan) = {}
    BY <1>2 DEF StoreFindings, SoFar, Pulling, Deciding
  <2>2. /\ j \in 1..scan /\ f \in FindingsOf(j) \cup (IF j = scan THEN found ELSE {})
        /\ k \in 1..scan /\ f \in FindingsOf(k) \cup (IF k = scan THEN found ELSE {})
    BY <1>2, FlaggedBefore
  <2>3. CASE f \notin found
    BY <2>2, <2>3 DEF FlaggedByOne, f
  <2>4. CASE f \in found
    <3>1. ~Flagged(f)
      BY <2>1, <2>4 DEF FoundIsNew, Remembered, Deciding, f
    <3> QED  BY <2>2, <3>1 DEF Flagged
  <2> QED  BY <2>3, <2>4
<1> QED  BY <1>1, <1>2

\* A step that is not StoreFindings flags nothing.
LEMMA FlaggedWas ==
    ASSUME Typed, [Next]_vars, ~StoreFindings, NEW f, Flagged(f)'
    PROVE  Flagged(f)
BY FlaggedBefore DEF Flagged

LEMMA RememberedStep ==
    ASSUME Typed, [Next]_vars, BaselineGrows, BaselineGrows', ~blind', NEW a \in Actors,
           a \notin forgotten', Remembered(a), FoundIsNew(a)
    PROVE  Remembered(a)'
<1> SUFFICES ASSUME Flagged(ActorFinding(a))'
             PROVE  /\ a \in ActorsOf(ToSet(events')) \cup LastBaseline'
                    /\ stage' \in {"store_events"} \cup Deciding => a \in known'
  BY DEF Remembered
<1>0. events \in Seq(Events) /\ batch \in Seq(Events)
  BY DEF Typed, StreamsTyped, ScanTyped
<1>1. ASSUME ~StoreFindings
      PROVE  /\ a \in ActorsOf(ToSet(events)) \cup LastBaseline
             /\ stage \in {"store_events"} \cup Deciding => a \in known
  BY <1>1, FlaggedWas DEF Remembered
<1>2. CASE StoreFindings
  <2>1. /\ stage = "store_findings" /\ stage' \in {"write_findings_snapshot", "record"}
        /\ scan' = scan /\ UNCHANGED <<events, baselines>>
    BY <1>2, StoreOutcome DEF StoreFindings, Advance
  <2>2. LastBaseline' = LastBaseline
    BY <2>1 DEF LastBaseline
  <2>3. Flagged(ActorFinding(a)) \/ ActorFinding(a) \in found
    BY <1>2, <2>1, FlaggedBefore DEF Flagged
  <2>4. a \in ActorsOf(ToSet(events)) \cup LastBaseline
    BY <2>1, <2>3 DEF Remembered, FoundIsNew, Deciding
  <2> QED  BY <2>1, <2>2, <2>4 DEF Deciding
<1>3. CASE Aside /\ ~StoreFindings
  <2>1. LastBaseline' = LastBaseline /\ events' = events
    BY <1>3 DEF Aside, LastBaseline
  <2>2. LoadDirectives => stage \in Deciding /\ known' = known
    BY DEF LoadDirectives, Deciding
  <2> QED  BY <1>1, <1>3, <2>1, <2>2 DEF Aside
<1>4. CASE DeriveBaseline
  <2>1. stage = "baseline" /\ LastBaseline' = LastBaseline /\ events' = events
    BY <1>4 DEF DeriveBaseline, streams, LastBaseline
  <2>2. stage' = "record" \/ known' = ActorsOf(ToSet(events)) \cup LastBaseline
    BY <1>4 DEF DeriveBaseline, BlindRead, Fail, ActorsOf
  <2> QED  BY <1>1, <2>1, <2>2 DEF StoreFindings, Deciding
<1>5. CASE StoreEvents
  <2>1. /\ stage = "store_events" /\ UNCHANGED <<baselines, known>>
        /\ events' \in {events, events \o batch}
    BY <1>5, StoreOutcome DEF StoreEvents
  <2>2. LastBaseline' = LastBaseline
    BY <2>1 DEF LastBaseline
  <2>3. ToSet(events \o batch) = ToSet(events) \cup ToSet(batch)
    BY <1>0, ToSetOfConcat
  <2>4. ToSet(events) \subseteq ToSet(events')
    BY <2>1, <2>3
  <2> QED  BY <1>1, <2>1, <2>2, <2>4 DEF StoreFindings, ActorsOf
<1>6. CASE StoreBaseline
  <2>1. /\ stage = "store_baseline_snapshot" /\ UNCHANGED <<events, known>>
        /\ baselines' \in {baselines, baselines \o <<known>>}
    BY <1>6, StoreOutcome DEF StoreBaseline
  <2>2. LastBaseline' \in {LastBaseline, known}
    BY <2>1, BaselineAppended DEF LastBaseline
  <2>3. a \in known
    BY <1>1, <2>1 DEF StoreFindings, Deciding
  <2>4. LastBaseline \subseteq known
    BY <2>1 DEF BaselineGrows
  <2> QED  BY <1>1, <2>1, <2>2, <2>3, <2>4 DEF StoreFindings
<1>7. CASE RotateEvents
  <2>1. /\ stage' = "idle" /\ stage = "idle" /\ baselines' = baselines
        /\ forgotten' = forgotten \cup (ActorsOf(ToSet(events)) \ UNION ToSet(baselines))
    BY <1>7 DEF RotateEvents, ActorsOf
  <2>2. LastBaseline' = LastBaseline
    BY <2>1 DEF LastBaseline
  <2> QED  BY <1>1, <2>1, <2>2 DEF StoreFindings, BaselineGrows, Deciding
<1> QED  BY <1>2, <1>3, <1>4, <1>5, <1>6, <1>7, OnlyNewsKinds

LEMMA FoundIsNewStep ==
    ASSUME Typed, [Next]_vars, ~blind', NEW a \in Actors, FoundIsNew(a)
    PROVE  FoundIsNew(a)'
<1> SUFFICES ASSUME stage' \in Deciding, ActorFinding(a) \in found'
             PROVE  a \in ActorsOf(ToSet(events')) \ known'
  BY DEF FoundIsNew
<1>0. events \in Seq(Events) /\ batch \in Seq(Events)
  BY DEF Typed, StreamsTyped, ScanTyped
<1>1. CASE Aside
  <2>1. LoadDirectives => stage \in Deciding /\ known' = known /\ found' \subseteq found
    BY DEF LoadDirectives, Deciding
  <2> QED  BY <1>1, <2>1 DEF Aside, FoundIsNew
<1>2. CASE DeriveBaseline
  BY <1>2 DEF DeriveBaseline, BlindRead, Advance, Fail, Deciding
<1>3. CASE StoreEvents
  <2>1. /\ stage' = "store_baseline_snapshot" /\ known' = known /\ found' = Detect
        /\ IF batch = <<>> THEN events' = events ELSE events' = events \o batch
    BY <1>3, StoreOutcome DEF StoreEvents, Advance, Deciding
  <2>2. a \in ActorsOf(ToSet(batch)) \ known
    BY <2>1 DEF Detect, ActorsOf, ActorFinding, RuleFinding
  <2>3. ToSet(events \o batch) = ToSet(events) \cup ToSet(batch)
    BY <1>0, ToSetOfConcat
  <2>4. ToSet(<<>>) = {}
    BY DEF ToSet
  <2>5. ToSet(batch) \subseteq ToSet(events')
    BY <2>1, <2>3, <2>4
  <2> QED  BY <2>1, <2>2, <2>5 DEF ActorsOf
<1>4. CASE StoreBaseline
  BY <1>4 DEF StoreBaseline, FoundIsNew, Deciding
<1>5. CASE RotateEvents
  BY <1>5 DEF RotateEvents, Deciding
<1> QED  BY <1>1, <1>2, <1>3, <1>4, <1>5, OnlyNewsKinds

LEMMA OnlyNewsStep == Typed /\ SoFar /\ OnlyNews /\ [Next]_vars => OnlyNews'
<1> SUFFICES ASSUME Typed, SoFar, OnlyNews, [Next]_vars, ~blind'
             PROVE  /\ BaselineGrows'
                    /\ \A a \in Actors \ forgotten' :
                          Remembered(a)' /\ FlaggedByOne(a)' /\ FoundIsNew(a)'
  BY DEF OnlyNews
<1>1. /\ BaselineGrows
      /\ \A a \in Actors \ forgotten : Remembered(a) /\ FlaggedByOne(a) /\ FoundIsNew(a)
  BY OnlyNewsKinds DEF OnlyNews
<1>2. forgotten \subseteq forgotten'
  BY OnlyNewsKinds DEF Aside, DeriveBaseline, StoreEvents, StoreBaseline, RotateEvents, ghosts
<1>3. BaselineGrows'
  BY <1>1, BaselineGrowsStep
<1>4. ASSUME NEW a \in Actors \ forgotten'
      PROVE  Remembered(a)' /\ FlaggedByOne(a)' /\ FoundIsNew(a)'
  BY <1>1, <1>2, <1>3, RememberedStep, FlaggedByOneStep, FoundIsNewStep
<1> QED  BY <1>3, <1>4

LEMMA OnlyNewsImpliesOnce == OnlyNews => ActorFlaggedOnce
<1> SUFFICES ASSUME OnlyNews, ~blind, NEW a \in Actors \ forgotten
             PROVE  TimesFlagged(ActorFinding(a)) <= 1
  BY DEF ActorFlaggedOnce
<1> DEFINE by == {k \in 1..scan : ActorFinding(a) \in FindingsOf(k)}
<1>1. \A j, k \in by : j = k
  BY DEF OnlyNews, FlaggedByOne
<1>2. CASE by = {}
  <2>1. Cardinality(by) = 0
    BY <1>2, FS_EmptySet
  <2> QED  BY <2>1 DEF TimesFlagged
<1>3. CASE by # {}
  <2>1. PICK k \in by : by = {k}
    BY <1>1, <1>3
  <2>2. Cardinality({k}) = 1
    BY FS_Singleton
  <2>3. Cardinality(by) = 1
    BY <2>1, <2>2, Zenon
  <2> QED  BY <2>3 DEF TimesFlagged
<1> QED  BY <1>2, <1>3

\* However many scans meet an actor, it is flagged as new by one of them, whatever
\* else fails, unless a rotation dropped the only events that name it or a read
\* took the store for empty.
THEOREM NewActorIsFlaggedOnce == Spec => []ActorFlaggedOnce
<1>1. Accounted => SoFar
  BY DEF Accounted
<1> QED  BY <1>1, TypedInit, TypedStep, AccountedInit, AccountedStep,
            OnlyNewsInit, OnlyNewsStep, OnlyNewsImpliesOnce, PTL DEF Spec
=============================================================================
