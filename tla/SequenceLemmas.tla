--------------------------- MODULE SequenceLemmas ---------------------------
(***************************************************************************)
(* What the proofs about append-only streams need to know of IsPrefix,     *)
(* ToSet, Append and \o, of the finite sets that sequences list, and of    *)
(* induction: over a set of naturals, not over a predicate, so that a      *)
(* recursive function can be reasoned about.                               *)
(***************************************************************************)
EXTENDS Integers, SequencesExt, SequenceTheorems, FunctionTheorems,
        FiniteSetTheorems, WellFoundedInduction, TLAPS

\* A prefix, element by element.
LEMMA PrefixElements ==
    ASSUME NEW S, NEW s \in Seq(S), NEW t \in Seq(S)
    PROVE  IsPrefix(s, t) <=>
             Len(s) <= Len(t) /\ \A i \in 1..Len(s) : s[i] = t[i]
<1>1. SubSeq(s, 1, Len(s)) = s
  BY SubSeqFull
<1>2. CASE Len(s) <= Len(t)
  <2>1. \A i \in 1..Len(s) : t[i] \in S
    BY <1>2
  <2>2. /\ SubSeq(t, 1, Len(s)) \in Seq(S)
        /\ Len(SubSeq(t, 1, Len(s))) = Len(s)
        /\ \A i \in 1..Len(s) : SubSeq(t, 1, Len(s))[i] = t[i]
    <3>1. Len(s) \in Nat
      OBVIOUS
    <3> QED  BY <2>1, <3>1, SubSeqProperties
  <2>3. SubSeq(t, 1, Len(s)) = s <=> \A i \in 1..Len(s) : s[i] = t[i]
    BY <2>2, SeqEqual
  <2> QED  BY <1>1, <1>2, <2>3 DEF IsPrefix
<1>3. CASE ~(Len(s) <= Len(t))
  BY <1>3 DEF IsPrefix
<1> QED  BY <1>2, <1>3

LEMMA PrefixReflexive ==
    ASSUME NEW S, NEW s \in Seq(S)
    PROVE  IsPrefix(s, s)
BY PrefixElements

LEMMA PrefixTransitive ==
    ASSUME NEW S, NEW s \in Seq(S), NEW t \in Seq(S), NEW u \in Seq(S),
           IsPrefix(s, t), IsPrefix(t, u)
    PROVE  IsPrefix(s, u)
BY PrefixElements

LEMMA PrefixOfAppend ==
    ASSUME NEW S, NEW s \in Seq(S), NEW t \in Seq(S), NEW e \in S, IsPrefix(s, t)
    PROVE  IsPrefix(s, Append(t, e))
<1>1. Append(t, e) \in Seq(S)
  OBVIOUS
<1>2. Len(s) <= Len(t) /\ \A i \in 1..Len(s) : s[i] = t[i]
  BY PrefixElements
<1>3. Len(s) <= Len(Append(t, e)) /\ \A i \in 1..Len(s) : s[i] = Append(t, e)[i]
  BY <1>2
<1> QED  BY <1>1, <1>3, PrefixElements

LEMMA PrefixToSet ==
    ASSUME NEW S, NEW s \in Seq(S), NEW t \in Seq(S), IsPrefix(s, t)
    PROVE  ToSet(s) \subseteq ToSet(t)
BY PrefixElements DEF ToSet

LEMMA ToSetOfAppend ==
    ASSUME NEW S, NEW s \in Seq(S), NEW e \in S
    PROVE  ToSet(Append(s, e)) = ToSet(s) \cup {e}
<1>1. /\ DOMAIN Append(s, e) = 1..Len(s) + 1 /\ DOMAIN s = 1..Len(s)
      /\ Len(s) \in Nat
  OBVIOUS
<1>2. /\ \A i \in 1..Len(s) : Append(s, e)[i] = s[i]
      /\ Append(s, e)[Len(s) + 1] = e
  OBVIOUS
<1> QED  BY <1>1, <1>2 DEF ToSet

LEMMA ToSetOfOne ==
    ASSUME NEW e
    PROVE  ToSet(<<e>>) = {e}
<1> DEFINE s == <<e>>
<1>1. DOMAIN s = {1} /\ s[1] = e
  OBVIOUS
<1> HIDE DEF s
<1>2. ToSet(s) = {e}
  BY <1>1 DEF ToSet
<1> QED  BY <1>2 DEF s

LEMMA FunctionIsSeq ==
    ASSUME NEW S, NEW n \in Nat, NEW f \in [1..n -> S]
    PROVE  f \in Seq(S) /\ Len(f) = n
OBVIOUS

LEMMA ToSetOfConcat ==
    ASSUME NEW S, NEW s \in Seq(S), NEW t \in Seq(S)
    PROVE  ToSet(s \o t) = ToSet(s) \cup ToSet(t)
<1>1. /\ DOMAIN (s \o t) = 1..(Len(s) + Len(t))
      /\ DOMAIN s = 1..Len(s) /\ DOMAIN t = 1..Len(t)
      /\ Len(s) \in Nat /\ Len(t) \in Nat
  OBVIOUS
<1>2. /\ \A i \in 1..Len(s) : (s \o t)[i] = s[i]
      /\ \A i \in 1..Len(t) : Len(s) + i \in 1..(Len(s) + Len(t)) /\ (s \o t)[Len(s) + i] = t[i]
  OBVIOUS
<1>3. \A i \in 1..(Len(s) + Len(t)) :
         \/ i \in 1..Len(s)
         \/ i - Len(s) \in 1..Len(t) /\ (s \o t)[i] = t[i - Len(s)]
  BY <1>1
<1>4. ToSet(s \o t) \subseteq ToSet(s) \cup ToSet(t)
  BY <1>1, <1>2, <1>3 DEF ToSet
<1>5. ToSet(s) \subseteq ToSet(s \o t)
  BY <1>1, <1>2 DEF ToSet
<1>6. ToSet(t) \subseteq ToSet(s \o t)
  BY <1>1, <1>2 DEF ToSet
<1> QED  BY <1>4, <1>5, <1>6

LEMMA InjectiveAppend ==
    ASSUME NEW S, NEW s \in Seq(S), NEW e \in S, IsInjective(s), e \notin ToSet(s)
    PROVE  IsInjective(Append(s, e))
<1>1. /\ DOMAIN Append(s, e) = 1..(Len(s) + 1) /\ DOMAIN s = 1..Len(s)
      /\ Len(s) \in Nat
      /\ \A i \in 1..Len(s) : Append(s, e)[i] = s[i]
      /\ Append(s, e)[Len(s) + 1] = e
  OBVIOUS
<1>2. \A i \in 1..Len(s) : s[i] # e
  BY <1>1 DEF ToSet
<1> QED  BY <1>1, <1>2 DEF IsInjective

LEMMA InjectiveConcat ==
    ASSUME NEW S, NEW s \in Seq(S), NEW t \in Seq(S),
           IsInjective(s), IsInjective(t), ToSet(s) \cap ToSet(t) = {}
    PROVE  IsInjective(s \o t)
<1>1. /\ DOMAIN (s \o t) = 1..(Len(s) + Len(t))
      /\ DOMAIN s = 1..Len(s) /\ DOMAIN t = 1..Len(t)
      /\ Len(s) \in Nat /\ Len(t) \in Nat
      /\ \A i \in 1..Len(s) : (s \o t)[i] = s[i]
  OBVIOUS
<1>2. \A i \in 1..(Len(s) + Len(t)) :
         \/ i \in 1..Len(s)
         \/ i - Len(s) \in 1..Len(t) /\ (s \o t)[i] = t[i - Len(s)]
  BY <1>1
<1>3. \A i \in 1..Len(s), j \in 1..Len(t) : s[i] # t[j]
  BY <1>1 DEF ToSet
<1> QED  BY <1>1, <1>2, <1>3 DEF IsInjective

-----------------------------------------------------------------------------
(* Finite sets and the sequences that list them. *)

LEMMA FiniteToSet ==
    ASSUME NEW S, NEW s \in Seq(S)
    PROVE  IsFiniteSet(ToSet(s))
<1>1. DOMAIN s = 1..Len(s) /\ Len(s) \in Nat
  OBVIOUS
<1>2. s \in Surjection(1..Len(s), ToSet(s))
  BY <1>1, Fun_IsSurj DEF ToSet
<1> QED  BY <1>1, <1>2, FS_Interval, FS_Surjection

LEMMA FiniteImage ==
    ASSUME NEW S, IsFiniteSet(S), NEW f
    PROVE  IsFiniteSet({f[x] : x \in S})
<1> DEFINE g == [x \in S |-> f[x]]
<1>1. g \in Surjection(S, {f[x] : x \in S})
  BY Fun_IsSurj
<1> QED  BY <1>1, FS_Surjection

LEMMA SetToSeqProperties ==
    ASSUME NEW S, IsFiniteSet(S)
    PROVE  /\ SetToSeq(S) \in Seq(S)
           /\ IsInjective(SetToSeq(S))
           /\ ToSet(SetToSeq(S)) = S
<1> DEFINE n == Cardinality(S)
<1>1. n \in Nat /\ ExistsBijection(1..n, S)
  BY FS_CardinalityType
<1>2. PICK f : f \in Bijection(1..n, S)
  BY <1>1 DEF ExistsBijection
<1>3. f \in [1..n -> S] /\ IsInjective(f)
  BY <1>2 DEF Bijection, Injection, IsInjective
<1>4. SetToSeq(S) \in [1..n -> S] /\ IsInjective(SetToSeq(S))
  BY <1>3 DEF SetToSeq
<1>5. SetToSeq(S) \in Injection(1..n, S)
  BY <1>4, Fun_IsInj DEF IsInjective
<1>6. IsFiniteSet(1..n) /\ Cardinality(1..n) = n
  BY <1>1, FS_Interval
<1>7. SetToSeq(S) \in Surjection(1..n, S)
  BY <1>5, <1>6, FS_Injection
<1>8. \A x \in S : \E i \in 1..n : SetToSeq(S)[i] = x
  BY <1>7 DEF Surjection
<1>9. SetToSeq(S) \in Seq(S) /\ DOMAIN SetToSeq(S) = 1..n
  BY <1>1, <1>4
<1> QED  BY <1>4, <1>8, <1>9 DEF ToSet

-----------------------------------------------------------------------------
(* Induction. *)

\* A non-empty set of naturals has a least element.
LEMMA LeastNumber ==
    ASSUME NEW S, S \subseteq Nat, S # {}
    PROVE  \E m \in S : \A n \in S : m <= n
<1>1. IsWellFoundedOn(OpToRel(<, Nat), Nat)
  BY NatLessThanWellFounded
<1>2. \A m, n \in Nat : n < m => <<n, m>> \in OpToRel(<, Nat)
  BY DEF OpToRel
<1>3. \E R : IsWellFoundedOn(R, Nat) /\ \A m, n \in Nat : n < m => <<n, m>> \in R
  <2> WITNESS OpToRel(<, Nat)
  <2> QED BY <1>1, <1>2
<1>4. PICK R : IsWellFoundedOn(R, Nat) /\ \A m, n \in Nat : n < m => <<n, m>> \in R
  BY <1>3
<1>5. PICK m \in S : \A n \in S : <<n, m>> \notin R
  BY <1>4, WFMin
<1>6. \A n \in S : ~(n < m)
  BY <1>4, <1>5, Zenon
<1>7. \A n \in S : m <= n
  BY <1>6
<1> QED  BY <1>7

\* A set of naturals closed under successor holds them all.
LEMMA SetInduction ==
    ASSUME NEW S, 0 \in S, \A n \in Nat : n \in S => n + 1 \in S
    PROVE  Nat \subseteq S
<1> SUFFICES ASSUME Nat \ S # {} PROVE FALSE
  OBVIOUS
<1>1. PICK m \in Nat \ S : \A n \in Nat \ S : m <= n
  BY LeastNumber
<1>2. m # 0 /\ m - 1 \in Nat
  BY <1>1
<1>3. m - 1 \in S
  BY <1>1, <1>2
<1>4. m - 1 + 1 \in S
  BY <1>2, <1>3
<1> QED  BY <1>4

-----------------------------------------------------------------------------
(* The loop that collects, in order, the values of the chosen positions.   *)

CollectStep(d, chosen, value, i) ==
    IF i = 0 THEN <<>>
    ELSE IF i \in chosen THEN Append(d[i - 1], value[i])
    ELSE d[i - 1]

Collects(d, n, chosen, value) == \A i \in 0..n : d[i] = CollectStep(d, chosen, value, i)

LEMMA CollectDefined ==
    ASSUME NEW n \in Nat, NEW chosen, NEW value
    PROVE  \E d : d = [i \in 0..n |-> CollectStep(d, chosen, value, i)]
<1> DEFINE S == {m \in Nat : \E d : Collects(d, m, chosen, value)}
<1>1. 0 \in S
  <2>1. Collects([i \in {0} |-> <<>>], 0, chosen, value)
    BY DEF Collects, CollectStep
  <2> QED  BY <2>1
<1>2. ASSUME NEW m \in Nat, m \in S PROVE m + 1 \in S
  <2>1. PICK d : Collects(d, m, chosen, value)
    BY <1>2
  <2> DEFINE h == [i \in 0..(m + 1) |->
                      IF i = m + 1 THEN CollectStep(d, chosen, value, m + 1) ELSE d[i]]
  <2>2. \A i \in 0..m : h[i] = d[i]
    OBVIOUS
  <2>3. \A i \in 1..(m + 1) : i - 1 \in 0..m
    OBVIOUS
  <2>4. \A i \in 0..(m + 1) :
           CollectStep(h, chosen, value, i) = CollectStep(d, chosen, value, i)
    BY <2>2, <2>3 DEF CollectStep
  <2>5. Collects(h, m + 1, chosen, value)
    BY <2>1, <2>2, <2>4 DEF Collects
  <2> HIDE DEF h
  <2> QED  BY <2>5
<1>3. n \in S
  <2> HIDE DEF S
  <2> QED  BY <1>1, <1>2, SetInduction
<1>4. PICK d : Collects(d, n, chosen, value)
  BY <1>3
<1> DEFINE h == [i \in 0..n |-> d[i]]
<1>5. \A i \in 0..n : CollectStep(h, chosen, value, i) = CollectStep(d, chosen, value, i)
  BY DEF CollectStep
<1>6. h = [i \in 0..n |-> CollectStep(h, chosen, value, i)]
  BY <1>4, <1>5 DEF Collects
<1> QED  BY <1>6

\* What is collected depends on the positions collected from only.
LEMMA CollectUnique ==
    ASSUME NEW n \in Nat, NEW chosen, NEW value, NEW d, NEW chosen2, NEW value2, NEW d2,
           Collects(d, n, chosen, value), Collects(d2, n, chosen2, value2),
           \A i \in 1..n : (i \in chosen <=> i \in chosen2) /\ value[i] = value2[i]
    PROVE  \A i \in 0..n : d[i] = d2[i]
<1> DEFINE S == {i \in Nat : i <= n => d[i] = d2[i]}
<1>1. 0 \in S
  BY DEF Collects, CollectStep
<1>2. ASSUME NEW i \in Nat, i \in S PROVE i + 1 \in S
  <2> SUFFICES ASSUME i + 1 <= n PROVE d[i + 1] = d2[i + 1]
    OBVIOUS
  <2>1. /\ i + 1 \in 0..n /\ i + 1 \in 1..n /\ (i + 1) - 1 = i /\ i + 1 # 0
        /\ d[i] = d2[i]
    BY <1>2
  <2>2. d[i + 1] = CollectStep(d, chosen, value, i + 1)
    BY <2>1 DEF Collects
  <2>3. d2[i + 1] = CollectStep(d2, chosen2, value2, i + 1)
    BY <2>1 DEF Collects
  <2> QED  BY <2>1, <2>2, <2>3 DEF CollectStep
<1>3. Nat \subseteq S
  <2> HIDE DEF S
  <2> QED  BY <1>1, <1>2, SetInduction
<1> QED  BY <1>3

\* The values of the chosen positions up to i.
Picked(value, chosen, i) == {value[k] : k \in (1..i) \cap chosen}

LEMMA CollectTyped ==
    ASSUME NEW n \in Nat, NEW chosen, NEW value, NEW d,
           Collects(d, n, chosen, value), \A i \in 1..n : value[i] \in Nat
    PROVE  \A i \in 0..n : /\ d[i] \in Seq(Nat)
                          /\ ToSet(d[i]) = Picked(value, chosen, i)
<1> DEFINE Of(i) == {value[k] : k \in (1..i) \cap chosen}
           S == {i \in Nat : i <= n => d[i] \in Seq(Nat) /\ ToSet(d[i]) = Of(i)}
<1>1. 0 \in S
  <2>1. d[0] = <<>> /\ Of(0) = {}
    BY DEF Collects, CollectStep
  <2>2. ToSet(<<>>) = {} /\ <<>> \in Seq(Nat)
    BY DEF ToSet
  <2>3. d[0] \in Seq(Nat) /\ ToSet(d[0]) = Of(0)
    BY ONLY <2>1, <2>2, Zenon
  <2> QED  BY <2>3
<1>2. ASSUME NEW i \in Nat, i \in S PROVE i + 1 \in S
  <2> SUFFICES ASSUME i + 1 <= n PROVE d[i + 1] \in Seq(Nat) /\ ToSet(d[i + 1]) = Of(i + 1)
    OBVIOUS
  <2>1. /\ i + 1 \in 0..n /\ i + 1 \in 1..n /\ (i + 1) - 1 = i /\ i + 1 # 0
        /\ d[i] \in Seq(Nat) /\ ToSet(d[i]) = Of(i) /\ value[i + 1] \in Nat
    BY <1>2
  <2>2. d[i + 1] = IF i + 1 \in chosen THEN Append(d[i], value[i + 1]) ELSE d[i]
    BY <2>1 DEF Collects, CollectStep
  <2>3. Of(i + 1) = Of(i) \cup (IF i + 1 \in chosen THEN {value[i + 1]} ELSE {})
    <3>1. 1..(i + 1) = 1..i \cup {i + 1}
      OBVIOUS
    <3>2. (1..(i + 1)) \cap chosen =
             ((1..i) \cap chosen) \cup (IF i + 1 \in chosen THEN {i + 1} ELSE {})
      BY <3>1
    <3> QED  BY <3>2
  <2> HIDE DEF Of
  <2>4. ToSet(Append(d[i], value[i + 1])) = ToSet(d[i]) \cup {value[i + 1]}
    BY <2>1, ToSetOfAppend
  <2>5. Append(d[i], value[i + 1]) \in Seq(Nat)
    BY <2>1
  <2> QED  BY <2>1, <2>2, <2>3, <2>4, <2>5
<1>3. Nat \subseteq S
  <2> HIDE DEF S
  <2> QED  BY <1>1, <1>2, SetInduction
<1> HIDE DEF Of
<1>4. \A i \in 0..n : d[i] \in Seq(Nat) /\ ToSet(d[i]) = Of(i)
  BY <1>3
<1> QED  BY <1>4 DEF Of, Picked

\* The numbers from 1 to c, in order.
Upto(c) == [i \in 1..c |-> i]

LEMMA UptoNext ==
    ASSUME NEW i \in Nat
    PROVE  Append(Upto(i), i + 1) = Upto(i + 1)
<1>1. Upto(i) \in Seq(Nat) /\ Len(Upto(i)) = i
  BY DEF Upto
<1>2. Upto(i + 1) \in Seq(Nat) /\ Len(Upto(i + 1)) = i + 1
  BY DEF Upto
<1>3. /\ Append(Upto(i), i + 1) \in Seq(Nat) /\ Len(Append(Upto(i), i + 1)) = i + 1
      /\ \A k \in 1..i : Append(Upto(i), i + 1)[k] = Upto(i)[k]
      /\ Append(Upto(i), i + 1)[i + 1] = i + 1
  BY <1>1
<1>4. \A k \in 1..(i + 1) : Append(Upto(i), i + 1)[k] = Upto(i + 1)[k]
  BY <1>3 DEF Upto
<1> QED  BY <1>2, <1>3, <1>4, SeqEqual

\* If the loop ends with the numbers in order, it never had anything else.
LEMMA CollectedInOrder ==
    ASSUME NEW n \in Nat, NEW chosen, NEW value, NEW d, NEW c \in Nat,
           Collects(d, n, chosen, value), \A i \in 1..n : value[i] \in Nat, d[n] = Upto(c)
    PROVE  \A i \in 0..n : \E e \in 0..c : d[i] = Upto(e)
<1> DEFINE S == {j \in Nat : j <= n => \E e \in 0..c : d[n - j] = Upto(e)}
<1>1. 0 \in S
  <2>1. n - 0 = n /\ c \in 0..c
    OBVIOUS
  <2> QED  BY <2>1
<1>2. ASSUME NEW j \in Nat, j \in S PROVE j + 1 \in S
  <2> SUFFICES ASSUME j + 1 <= n PROVE \E e \in 0..c : d[n - (j + 1)] = Upto(e)
    OBVIOUS
  <2> DEFINE i == n - j
  <2>1. /\ i \in 0..n /\ i \in 1..n /\ i - 1 = n - (j + 1) /\ i # 0 /\ i - 1 \in 0..n
    OBVIOUS
  <2>2. PICK e \in 0..c : d[i] = Upto(e)
    BY <1>2
  <2> HIDE DEF i
  <2>3. d[i] = IF i \in chosen THEN Append(d[i - 1], value[i]) ELSE d[i - 1]
    BY <2>1 DEF Collects, CollectStep
  <2>4. CASE i \notin chosen
    BY <2>1, <2>2, <2>3, <2>4
  <2>5. CASE i \in chosen
    <3> DEFINE s == d[i - 1]
    <3>1. s \in Seq(Nat) /\ value[i] \in Nat
      BY <2>1, CollectTyped
    <3>2. Append(s, value[i]) = Upto(e)
      BY <2>2, <2>3, <2>5
    <3> HIDE DEF s
    <3>3. /\ Len(s) \in Nat /\ DOMAIN Append(s, value[i]) = 1..(Len(s) + 1)
          /\ \A k \in 1..Len(s) : Append(s, value[i])[k] = s[k]
      BY <3>1
    <3>4. DOMAIN Upto(e) = 1..e
      BY DEF Upto
    <3>5. Len(s) + 1 = e
      <4>1. 1..(Len(s) + 1) = 1..e
        BY <3>2, <3>3, <3>4
      <4>2. Len(s) + 1 \in 1..e
        BY <3>3, <4>1
      <4>3. e \in 1..(Len(s) + 1)
        BY <4>1, <4>2
      <4> QED  BY <3>3, <4>2, <4>3
    <3>6. \A k \in 1..Len(s) : s[k] = k
      <4>1. \A k \in 1..e : Upto(e)[k] = k
        BY DEF Upto
      <4>2. \A k \in 1..Len(s) : k \in 1..e
        BY <3>3, <3>5
      <4> QED  BY <3>2, <3>3, <4>1, <4>2
    <3>7. s = Upto(Len(s)) /\ Len(s) \in 0..c
      BY <3>1, <3>3, <3>5, <3>6 DEF Upto
    <3> QED  BY <2>1, <3>7 DEF s
  <2> QED  BY <2>4, <2>5
<1>3. Nat \subseteq S
  <2> HIDE DEF S
  <2> QED  BY <1>1, <1>2, SetInduction
<1>4. ASSUME NEW i \in 0..n PROVE \E e \in 0..c : d[i] = Upto(e)
  <2>1. n - i \in Nat /\ n - i <= n /\ n - (n - i) = i
    OBVIOUS
  <2> QED  BY <1>3, <2>1
<1> QED  BY <1>4

\* The numbers from 1 to e lead in s.
Leads(e, s) == s \in Seq(Nat) /\ e <= Len(s) /\ \A k \in 1..e : s[k] = k

\* If the first positions are all chosen, and worth their number, they lead.
LEMMA CollectedFirst ==
    ASSUME NEW n \in Nat, NEW chosen, NEW value, NEW d, NEW e \in 0..n,
           Collects(d, n, chosen, value),
           \A i \in 1..n : value[i] = i, 1..e \subseteq chosen
    PROVE  Leads(e, d[n])
<1>0. \A i \in 0..n : d[i] \in Seq(Nat)
  BY CollectTyped
<1> DEFINE A == {i \in Nat : i <= e => d[i] = Upto(i)}
<1>1. 0 \in A
  <2>1. d[0] = <<>> /\ Upto(0) = <<>>
    BY DEF Collects, CollectStep, Upto
  <2> QED  BY <2>1
<1>2. ASSUME NEW i \in Nat, i \in A PROVE i + 1 \in A
  <2> SUFFICES ASSUME i + 1 <= e PROVE d[i + 1] = Upto(i + 1)
    OBVIOUS
  <2>1. /\ i + 1 \in 0..n /\ i + 1 \in chosen /\ (i + 1) - 1 = i /\ i + 1 # 0
        /\ value[i + 1] = i + 1 /\ d[i] = Upto(i)
    BY <1>2
  <2>2. d[i + 1] = Append(Upto(i), i + 1)
    BY <2>1 DEF Collects, CollectStep
  <2>3. Append(Upto(i), i + 1) = Upto(i + 1)
    BY UptoNext
  <2> QED  BY <2>2, <2>3
<1>3. d[e] = Upto(e)
  <2> HIDE DEF A
  <2>1. e \in A
    BY <1>1, <1>2, SetInduction
  <2> QED  BY <2>1 DEF A
<1> DEFINE B == {j \in Nat : e + j <= n =>
                     e <= Len(d[e + j]) /\ \A k \in 1..e : d[e + j][k] = k}
<1>4. 0 \in B
  BY <1>3 DEF Upto
<1>5. ASSUME NEW j \in Nat, j \in B PROVE j + 1 \in B
  <2> SUFFICES ASSUME e + (j + 1) <= n
               PROVE  /\ e <= Len(d[e + (j + 1)])
                      /\ \A k \in 1..e : d[e + (j + 1)][k] = k
    OBVIOUS
  <2> DEFINE i == e + j
  <2>1. /\ e + (j + 1) = i + 1 /\ i + 1 \in 0..n /\ i \in 0..n /\ i + 1 # 0
        /\ (i + 1) - 1 = i
        /\ e <= Len(d[i]) /\ \A k \in 1..e : d[i][k] = k
    BY <1>5
  <2> HIDE DEF i
  <2>2. d[i + 1] = Append(d[i], value[i + 1]) \/ d[i + 1] = d[i]
    BY <2>1 DEF Collects, CollectStep
  <2>3. d[i] \in Seq(Nat)
    BY <1>0, <2>1
  <2>4. CASE d[i + 1] = d[i]
    BY <2>1, <2>4
  <2>5. CASE d[i + 1] = Append(d[i], value[i + 1])
    <3>1. /\ Len(d[i]) \in Nat /\ Len(d[i + 1]) = Len(d[i]) + 1
          /\ \A k \in 1..Len(d[i]) : d[i + 1][k] = d[i][k]
      BY <2>3, <2>5
    <3> QED  BY <2>1, <3>1
  <2> QED  BY <2>2, <2>4, <2>5
<1>6. n - e \in B
  <2> HIDE DEF B
  <2>1. n - e \in Nat
    OBVIOUS
  <2> QED  BY <1>4, <1>5, <2>1, SetInduction
<1> QED  BY <1>0, <1>6 DEF Leads

-----------------------------------------------------------------------------
(* The greatest element of a finite set of naturals.                       *)

LEMMA FiniteMax ==
    ASSUME NEW T, T \subseteq Nat, IsFiniteSet(T), T # {}
    PROVE  \E m \in T : \A x \in T : x <= m
<1> DEFINE n == Cardinality(T)
<1>1. n \in Nat /\ ExistsBijection(1..n, T)
  BY FS_CardinalityType
<1>2. PICK f : f \in Bijection(1..n, T)
  BY <1>1 DEF ExistsBijection
<1>3. /\ \A i \in 1..n : f[i] \in T
      /\ \A x \in T : \E i \in 1..n : f[i] = x
  BY <1>2 DEF Bijection, Injection, Surjection
<1> HIDE DEF n
<1>0. \A i \in 1..n : f[i] \in Nat
  BY <1>3
<1> DEFINE S == {k \in Nat : k + 1 <= n =>
                     \E i \in 1..(k + 1) : \A j \in 1..(k + 1) : f[j] <= f[i]}
<1>4. 0 \in S
  <2>1. 1 <= n => f[1] \in Nat
    BY <1>0, <1>1
  <2>2. 1..(0 + 1) = {1}
    OBVIOUS
  <2> QED  BY <2>1, <2>2
<1>5. ASSUME NEW k \in Nat, k \in S PROVE k + 1 \in S
  <2> SUFFICES ASSUME k + 2 <= n
               PROVE  \E i \in 1..(k + 2) : \A j \in 1..(k + 2) : f[j] <= f[i]
    OBVIOUS
  <2>1. PICK i \in 1..(k + 1) : \A j \in 1..(k + 1) : f[j] <= f[i]
    BY <1>1, <1>5
  <2>2. /\ 1..(k + 2) = 1..(k + 1) \cup {k + 2}
        /\ \A j \in 1..(k + 2) : f[j] \in Nat
    BY <1>0, <1>1
  <2>3. CASE f[k + 2] <= f[i]
    BY <2>1, <2>2, <2>3
  <2>4. CASE ~(f[k + 2] <= f[i])
    <3>1. f[i] <= f[k + 2]
      BY <2>2, <2>4
    <3>2. \A j \in 1..(k + 2) : f[j] <= f[k + 2]
      BY <2>1, <2>2, <3>1
    <3> QED  BY <2>2, <3>2
  <2> QED  BY <2>3, <2>4
<1>6. n # 0
  <2>1. PICK x \in T : TRUE
    OBVIOUS
  <2>2. PICK i \in 1..n : f[i] = x
    BY <1>3, <2>1
  <2> QED  BY <1>1, <2>2
<1>7. n - 1 \in S
  <2> HIDE DEF S
  <2>1. n - 1 \in Nat
    BY <1>1, <1>6
  <2> QED  BY <1>4, <1>5, <2>1, SetInduction
<1>8. PICK i \in 1..n : \A j \in 1..n : f[j] <= f[i]
  BY <1>1, <1>6, <1>7
<1> QED  BY <1>3, <1>8

-----------------------------------------------------------------------------
(* A finite set of naturals, listed in increasing order. *)

Increasing(s) == \A i, j \in DOMAIN s : i < j => s[i] < s[j]

LEMMA IncreasingList ==
    ASSUME NEW T, T \subseteq Nat, IsFiniteSet(T)
    PROVE  \E s \in [1..Cardinality(T) -> T] : Increasing(s)
<1> DEFINE Listed(X) == \E s \in [1..Cardinality(X) -> X] : Increasing(s)
           S == {n \in Nat : \A X \in SUBSET Nat :
                     IsFiniteSet(X) /\ Cardinality(X) = n => Listed(X)}
<1>1. 0 \in S
  <2>1. ASSUME NEW X \in SUBSET Nat, IsFiniteSet(X), Cardinality(X) = 0
        PROVE  Listed(X)
    <3> DEFINE s == [i \in 1..0 |-> 0]
    <3>1. 1..0 = {}
      OBVIOUS
    <3>2. s \in [1..0 -> X] /\ DOMAIN s = {}
      BY <3>1
    <3> HIDE DEF s
    <3>3. Increasing(s)
      BY <3>2 DEF Increasing
    <3> QED  BY <2>1, <3>2, <3>3
  <2> QED  BY <2>1
<1>2. ASSUME NEW n \in Nat, n \in S PROVE n + 1 \in S
  <2>1. ASSUME NEW X \in SUBSET Nat, IsFiniteSet(X), Cardinality(X) = n + 1
        PROVE  Listed(X)
    <3>1. X # {}
      BY <2>1, FS_EmptySet
    <3>2. PICK m \in X : \A x \in X : x <= m
      BY <2>1, <3>1, FiniteMax
    <3> DEFINE Y == X \ {m}
    <3>0. X \subseteq Nat /\ m \in Nat
      BY <3>2
    <3>3. IsFiniteSet(Y) /\ Cardinality(Y) = n
      <4>1. IsFiniteSet(Y) /\ Cardinality(Y) = Cardinality(X) - 1
        BY <2>1, <3>2, FS_RemoveElement
      <4> QED  BY <2>1, <4>1
    <3>4. PICK t \in [1..n -> Y] : Increasing(t)
      BY <1>2, <3>3
    <3> DEFINE s == [i \in 1..(n + 1) |-> IF i = n + 1 THEN m ELSE t[i]]
    <3>5. s \in [1..(n + 1) -> X]
      BY <3>2, <3>4
    <3>6. \A i \in 1..n : t[i] \in Nat /\ t[i] < m
      <4>1. ASSUME NEW i \in 1..n PROVE t[i] \in Nat /\ t[i] < m
        <5>1. t[i] \in X /\ t[i] # m
          BY <3>4
        <5>2. t[i] \in Nat /\ t[i] <= m
          BY <3>0, <3>2, <5>1
        <5> QED  BY <3>0, <5>1, <5>2
      <4> QED  BY <4>1
    <3>7. ASSUME NEW i \in 1..(n + 1), NEW j \in 1..(n + 1), i < j PROVE s[i] < s[j]
      <4>1. i \in 1..n /\ s[i] = t[i]
        BY <3>7
      <4>2. CASE j = n + 1
        BY <3>6, <4>1, <4>2
      <4>3. CASE j # n + 1
        <5>1. j \in 1..n /\ s[j] = t[j]
          BY <4>3
        <5> QED  BY <3>4, <3>7, <4>1, <5>1 DEF Increasing
      <4> QED  BY <4>2, <4>3
    <3>8. DOMAIN s = 1..(n + 1)
      OBVIOUS
    <3> HIDE DEF s
    <3>9. Increasing(s)
      BY <3>7, <3>8 DEF Increasing
    <3> QED  BY <2>1, <3>5, <3>9
  <2> HIDE DEF Listed
  <2> QED  BY <2>1
<1>3. Nat \subseteq S
  <2> HIDE DEF S
  <2> QED  BY <1>1, <1>2, SetInduction
<1>4. Cardinality(T) \in S
  BY <1>3, FS_CardinalityType
<1> QED  BY <1>4

LEMMA HeadAndTail ==
    ASSUME NEW S, NEW s \in Seq(S), s # <<>>
    PROVE  /\ Head(s) \in S /\ Head(s) \in ToSet(s)
           /\ Tail(s) \in Seq(S) /\ ToSet(Tail(s)) \subseteq ToSet(s)
<1>1. /\ Len(s) \in Nat \ {0} /\ DOMAIN s = 1..Len(s)
      /\ Head(s) = s[1] /\ 1 \in 1..Len(s)
  OBVIOUS
<1>2. /\ Tail(s) \in Seq(S) /\ DOMAIN Tail(s) = 1..(Len(s) - 1)
      /\ \A i \in 1..(Len(s) - 1) : Tail(s)[i] = s[i + 1] /\ i + 1 \in 1..Len(s)
  OBVIOUS
<1> QED  BY <1>1, <1>2 DEF ToSet
=============================================================================
