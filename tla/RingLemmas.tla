----------------------------- MODULE RingLemmas -----------------------------
(***************************************************************************)
(* What the proofs about the rings share: Succ, Dist and Span of RingIndex *)
(* without the remainder, how they change when an index or the origin they *)
(* are counted from moves, and what the operations on sequences do to the  *)
(* set of their elements.                                                  *)
(***************************************************************************)
EXTENDS RingIndex, Sequences, FiniteSets, SequencesExt, WellFoundedInduction,
        SequenceTheorems, FiniteSetTheorems, TLAPS

\* Going one slot forward wraps from the last slot to slot 0.
LEMMA SuccValue ==
  ASSUME NEW i \in Slots
  PROVE  Succ(i) = IF i + 1 = Count THEN 0 ELSE i + 1
BY CountAssumption DEF Succ, Slots

LEMMA SuccInSlots ==
  ASSUME NEW i \in Slots
  PROVE  Succ(i) \in Slots
<1>1. i \in 0..(Count - 1) /\ Succ(i) = IF i + 1 = Count THEN 0 ELSE i + 1
  BY SuccValue DEF Slots
<1> QED BY <1>1, CountAssumption DEF Slots

\* Ring distance without the remainder.
LEMMA DistValue ==
  ASSUME NEW a \in Slots, NEW b \in Slots
  PROVE  Dist(a, b) = IF b >= a THEN b - a ELSE b - a + Count
BY CountAssumption DEF Dist, Slots

\* Distances are natural numbers below Count, and 0 only from a slot to itself.
LEMMA DistRange ==
  ASSUME NEW a \in Slots, NEW b \in Slots
  PROVE  /\ Dist(a, b) \in 0..(Count - 1)
         /\ Dist(a, b) = 0 <=> a = b
<1>1. a \in 0..(Count - 1) /\ b \in 0..(Count - 1)
  BY DEF Slots
<1>2. Dist(a, b) = IF b >= a THEN b - a ELSE b - a + Count
  BY DistValue
<1>3. Dist(a, b) \in 0..(Count - 1)
  BY <1>1, <1>2, CountAssumption
<1>4. Dist(a, b) = 0 <=> a = b
  BY <1>1, <1>2, CountAssumption
<1> QED BY <1>3, <1>4

\* Two slots at the same distance are the same slot.
LEMMA DistInjective ==
  ASSUME NEW a \in Slots, NEW b \in Slots, NEW o \in Slots,
         Dist(a, b) = Dist(a, o)
  PROVE  b = o
<1>1. a \in 0..(Count - 1) /\ b \in 0..(Count - 1) /\ o \in 0..(Count - 1)
  BY DEF Slots
<1>2. /\ Dist(a, b) = IF b >= a THEN b - a ELSE b - a + Count
      /\ Dist(a, o) = IF o >= a THEN o - a ELSE o - a + Count
  BY DistValue
<1>3. CASE b >= a /\ o >= a
  <2>1. b - a = o - a
    BY <1>2, <1>3
  <2> QED BY <1>1, <2>1, CountAssumption
<1>4. CASE ~(b >= a) /\ ~(o >= a)
  <2>1. b - a + Count = o - a + Count
    BY <1>2, <1>4
  <2> QED BY <1>1, <2>1, CountAssumption
<1>5. CASE b >= a /\ ~(o >= a)
  <2>1. b - a = o - a + Count
    BY <1>2, <1>5
  <2> QED BY <1>1, <1>5, <2>1, CountAssumption
<1>6. CASE ~(b >= a) /\ o >= a
  <2>1. b - a + Count = o - a
    BY <1>2, <1>6
  <2> QED BY <1>1, <1>6, <2>1, CountAssumption
<1> QED BY <1>3, <1>4, <1>5, <1>6

\* Moving the origin forward to a slot that is not beyond b.
LEMMA DistRebase ==
  ASSUME NEW a \in Slots, NEW o \in Slots, NEW b \in Slots,
         Dist(a, o) <= Dist(a, b)
  PROVE  Dist(o, b) = Dist(a, b) - Dist(a, o)
<1>1. a \in 0..(Count - 1) /\ b \in 0..(Count - 1) /\ o \in 0..(Count - 1)
  BY DEF Slots
<1>2. /\ Dist(a, b) = IF b >= a THEN b - a ELSE b - a + Count
      /\ Dist(a, o) = IF o >= a THEN o - a ELSE o - a + Count
      /\ Dist(o, b) = IF b >= o THEN b - o ELSE b - o + Count
  BY DistValue
<1> QED BY <1>1, <1>2, CountAssumption

\* A slot that is behind the new origin is nearly a whole round away from it.
LEMMA DistWrap ==
  ASSUME NEW a \in Slots, NEW o \in Slots, NEW b \in Slots,
         Dist(a, b) < Dist(a, o)
  PROVE  Dist(o, b) = Count - (Dist(a, o) - Dist(a, b))
<1>1. a \in 0..(Count - 1) /\ b \in 0..(Count - 1) /\ o \in 0..(Count - 1)
  BY DEF Slots
<1>2. /\ Dist(a, b) = IF b >= a THEN b - a ELSE b - a + Count
      /\ Dist(a, o) = IF o >= a THEN o - a ELSE o - a + Count
      /\ Dist(o, b) = IF b >= o THEN b - o ELSE b - o + Count
  BY DistValue
<1> QED BY <1>1, <1>2, CountAssumption

\* One slot forward is one step further from any slot but the one it enters.
LEMMA DistSucc ==
  ASSUME NEW a \in Slots, NEW b \in Slots, Succ(b) # a
  PROVE  Dist(a, Succ(b)) = Dist(a, b) + 1
<1>1. a \in 0..(Count - 1) /\ b \in 0..(Count - 1) /\ Succ(b) \in Slots
  BY SuccInSlots DEF Slots
<1>2. Succ(b) = IF b + 1 = Count THEN 0 ELSE b + 1
  BY SuccValue
<1>3. /\ Dist(a, b) = IF b >= a THEN b - a ELSE b - a + Count
      /\ Dist(a, Succ(b)) = IF Succ(b) >= a THEN Succ(b) - a ELSE Succ(b) - a + Count
  BY <1>1, DistValue
<1> QED BY <1>1, <1>2, <1>3, CountAssumption

\* The slot just before a is the farthest from it.
LEMMA DistNotFarthest ==
  ASSUME NEW a \in Slots, NEW b \in Slots, Dist(a, b) < Count - 1
  PROVE  Succ(b) # a
<1>1. a \in 0..(Count - 1) /\ b \in 0..(Count - 1)
  BY DEF Slots
<1>2. /\ Succ(b) = IF b + 1 = Count THEN 0 ELSE b + 1
      /\ Dist(a, b) = IF b >= a THEN b - a ELSE b - a + Count
  BY SuccValue, DistValue
<1> QED BY <1>1, <1>2, CountAssumption

\* A slot short of another, seen from a, can take one more step.
LEMMA DistStep ==
  ASSUME NEW a \in Slots, NEW b \in Slots, NEW e \in Slots,
         b # e, Dist(a, b) <= Dist(a, e)
  PROVE  /\ Dist(a, Succ(b)) = Dist(a, b) + 1
         /\ Dist(a, Succ(b)) <= Dist(a, e)
<1>1. Dist(a, b) \in 0..(Count - 1) /\ Dist(a, e) \in 0..(Count - 1)
  BY DistRange
<1>2. Dist(a, b) # Dist(a, e)
  BY DistInjective
<1>3. Dist(a, b) < Count - 1
  BY <1>1, <1>2, CountAssumption
<1>4. Dist(a, Succ(b)) = Dist(a, b) + 1
  BY <1>3, DistNotFarthest, DistSucc
<1> QED BY <1>1, <1>2, <1>4, CountAssumption

\* A span grows by the slot its end leaves behind.
LEMMA SpanGrows ==
  ASSUME NEW a \in Slots, NEW b \in Slots, Succ(b) # a
  PROVE  Span(a, Succ(b)) = Span(a, b) \cup {b} /\ b \notin Span(a, b)
<1>1. Dist(a, Succ(b)) = Dist(a, b) + 1
  BY DistSucc
<1>2. \A s \in Slots : Dist(a, s) \in Int /\ (Dist(a, s) = Dist(a, b) => s = b)
  BY DistRange, DistInjective
<1>3. \A s \in Slots : Dist(a, s) < Dist(a, b) + 1 <=> Dist(a, s) < Dist(a, b) \/ s = b
  BY <1>2
<1>4. ~(Dist(a, b) < Dist(a, b))
  BY <1>2
<1> QED BY <1>1, <1>3, <1>4 DEF Span

\* A span loses the slot its beginning leaves behind.
LEMMA SpanShrinks ==
  ASSUME NEW a \in Slots, NEW b \in Slots, a # b
  PROVE  Span(Succ(a), b) = Span(a, b) \ {a} /\ a \in Span(a, b)
<1>1. /\ Dist(a, a) = 0 /\ Dist(a, b) > 0 /\ Succ(a) \in Slots
      /\ \A s \in Slots : Dist(a, s) \in 0..(Count - 1)
  BY DistRange, SuccInSlots, CountAssumption
<1>2. Dist(a, Succ(a)) = 1
  BY <1>1, DistStep
<1>3. ASSUME NEW s \in Slots, s # a
      PROVE  Dist(Succ(a), s) = Dist(a, s) - 1
  <2>1. Dist(a, s) >= 1
    BY <1>1, <1>3, DistRange
  <2> QED BY <1>1, <1>2, <2>1, DistRebase
<1>4. Dist(Succ(a), a) = Count - 1
  BY <1>1, <1>2, DistWrap, CountAssumption
<1>5. ASSUME NEW s \in Slots
      PROVE  s \in Span(Succ(a), b) <=> s \in Span(a, b) /\ s # a
  <2>1. CASE s = a
    BY <1>1, <1>3, <1>4, <2>1, CountAssumption DEF Span
  <2>2. CASE s # a
    BY <1>1, <1>3, <2>2, CountAssumption DEF Span
  <2> QED BY <2>1, <2>2
<1> QED BY <1>1, <1>5 DEF Span

----------------------------------------------------------------------------
(* Sequences and their elements.                                           *)

LEMMA ToSetOfSeq ==
  ASSUME NEW S, NEW s \in Seq(S)
  PROVE  ToSet(s) = {s[i] : i \in 1..Len(s)} /\ ToSet(s) \subseteq S
BY ElementOfSeq, LenProperties DEF ToSet

\* LIST_INSERT_HEAD of an element that is not there.
LEMMA PushSet ==
  ASSUME NEW S, NEW s \in Seq(S), NEW t \in S, t \notin ToSet(s), IsInjective(s)
  PROVE  /\ <<t>> \o s \in Seq(S)
         /\ ToSet(<<t>> \o s) = {t} \cup ToSet(s)
         /\ IsInjective(<<t>> \o s)
<1> DEFINE r == <<t>> \o s
<1>1. <<t>> \in Seq(S) /\ Len(<<t>>) = 1 /\ <<t>>[1] = t
  OBVIOUS
<1>2. /\ r \in Seq(S) /\ Len(s) \in Nat /\ Len(r) = 1 + Len(s)
      /\ \A i \in 1..(1 + Len(s)) : r[i] = IF i <= 1 THEN <<t>>[i] ELSE s[i - 1]
  BY <1>1, ConcatProperties, LenProperties
<1> HIDE DEF r
<1>3. \A i \in 1..Len(r) : r[i] = IF i = 1 THEN t ELSE s[i - 1]
  BY <1>1, <1>2
<1>4. DOMAIN r = 1..Len(r) /\ DOMAIN s = 1..Len(s)
  BY <1>2, LenProperties
<1>5. ToSet(r) \subseteq {t} \cup ToSet(s)
  <2> SUFFICES ASSUME NEW i \in 1..(1 + Len(s)), r[i] # t
               PROVE  r[i] \in ToSet(s)
    BY <1>2, <1>4 DEF ToSet
  <2>1. i - 1 \in DOMAIN s /\ r[i] = s[i - 1]
    BY <1>2, <1>3, <1>4
  <2> QED BY <2>1 DEF ToSet
<1>6. {t} \cup ToSet(s) \subseteq ToSet(r)
  <2>1. t = r[1] /\ 1 \in DOMAIN r
    BY <1>2, <1>3, <1>4
  <2>2. \A i \in DOMAIN s : s[i] = r[i + 1] /\ i + 1 \in DOMAIN r
    BY <1>2, <1>3, <1>4
  <2> QED BY <2>1, <2>2 DEF ToSet
<1>7. IsInjective(r)
  <2> SUFFICES ASSUME NEW i \in 1..Len(r), NEW j \in 1..Len(r), r[i] = r[j]
               PROVE  i = j
    BY <1>4 DEF IsInjective
  <2>0. \A k \in 1..Len(r) : k # 1 => k - 1 \in DOMAIN s /\ r[k] = s[k - 1]
    BY <1>2, <1>3, <1>4
  <2>1. \A k \in 1..Len(r) : k # 1 => k - 1 \in DOMAIN s /\ r[k] \in ToSet(s)
    BY <2>0 DEF ToSet
  <2>2. CASE i = 1 \/ j = 1
    BY <2>1, <2>2, <1>2, <1>3
  <2>3. CASE i # 1 /\ j # 1
    <3>1. s[i - 1] = s[j - 1] /\ i - 1 \in DOMAIN s /\ j - 1 \in DOMAIN s
      BY <2>1, <2>3, <1>3
    <3>2. i - 1 = j - 1
      BY <3>1 DEF IsInjective
    <3> QED BY <3>2, <1>2
  <2> QED BY <2>2, <2>3
<1> QED BY <1>2, <1>5, <1>6, <1>7 DEF r

\* The first element of a sequence without repetitions is taken off.
LEMMA PopSet ==
  ASSUME NEW S, NEW s \in Seq(S), s # <<>>
  PROVE  /\ Head(s) \in S /\ Head(s) \in ToSet(s)
         /\ Tail(s) \in Seq(S)
         /\ ToSet(s) = {Head(s)} \cup ToSet(Tail(s))
         /\ IsInjective(s) => IsInjective(Tail(s)) /\ Head(s) \notin ToSet(Tail(s))
<1> DEFINE r == Tail(s)
<1>1. /\ r \in Seq(S) /\ Len(s) \in Nat \ {0} /\ Len(r) = Len(s) - 1
      /\ \A i \in 1..Len(r) : r[i] = s[i + 1]
      /\ Head(s) \in S /\ Head(s) = s[1]
  BY HeadTailProperties, EmptySeq
<1> HIDE DEF r
<1>2. DOMAIN r = 1..Len(r) /\ DOMAIN s = 1..Len(s)
  BY <1>1, LenProperties
<1>3. 1 \in DOMAIN s /\ \A i \in DOMAIN r : i + 1 \in DOMAIN s /\ r[i] = s[i + 1]
  BY <1>1, <1>2
<1>4. \A j \in DOMAIN s : j # 1 => j - 1 \in DOMAIN r /\ s[j] = r[j - 1]
  BY <1>1, <1>2
<1>5. ToSet(s) = {Head(s)} \cup ToSet(r)
  <2>1. ToSet(s) \subseteq {Head(s)} \cup ToSet(r)
    BY <1>1, <1>4 DEF ToSet
  <2>2. {Head(s)} \cup ToSet(r) \subseteq ToSet(s)
    BY <1>1, <1>3 DEF ToSet
  <2> QED BY <2>1, <2>2
<1>6. ASSUME IsInjective(s)
      PROVE  IsInjective(r) /\ Head(s) \notin ToSet(r)
  <2>1. IsInjective(r)
    <3> SUFFICES ASSUME NEW i \in DOMAIN r, NEW j \in DOMAIN r, r[i] = r[j]
                 PROVE  i = j
      BY DEF IsInjective
    <3>1. i + 1 = j + 1
      BY <1>3, <1>6 DEF IsInjective
    <3> QED BY <3>1, <1>1, <1>2
  <2>2. Head(s) \notin ToSet(r)
    <3> SUFFICES ASSUME NEW i \in DOMAIN r, r[i] = Head(s) PROVE FALSE
      BY DEF ToSet
    <3>1. i + 1 = 1
      BY <1>1, <1>3, <1>6 DEF IsInjective
    <3> QED BY <3>1, <1>1, <1>2
  <2> QED BY <2>1, <2>2
<1> QED BY <1>1, <1>3, <1>5, <1>6 DEF r, ToSet

\* An element that is not there is put at the end.
LEMMA AppendSet ==
  ASSUME NEW S, NEW s \in Seq(S), NEW t \in S
  PROVE  /\ Append(s, t) \in Seq(S)
         /\ ToSet(Append(s, t)) = ToSet(s) \cup {t}
         /\ IsInjective(s) /\ t \notin ToSet(s) => IsInjective(Append(s, t))
<1> DEFINE r == Append(s, t)
           n == Len(s)
<1>1. /\ r \in Seq(S) /\ n \in Nat /\ Len(r) = n + 1
      /\ \A i \in 1..n : r[i] = s[i]
      /\ r[n + 1] = t
      /\ DOMAIN s = 1..n /\ DOMAIN r = 1..(n + 1)
  <2>1. /\ r \in Seq(S) /\ Len(r) = n + 1
        /\ \A i \in 1..n : r[i] = s[i]
        /\ r[n + 1] = t
    BY AppendProperties
  <2>2. n \in Nat /\ DOMAIN s = 1..n /\ DOMAIN r = 1..Len(r)
    BY <2>1, LenProperties
  <2> QED BY <2>1, <2>2
<1> HIDE DEF r, n
<1>2. /\ \A i \in 1..(n + 1) : i = n + 1 \/ i \in 1..n
      /\ \A i \in 1..n : i \in 1..(n + 1) /\ i # n + 1
      /\ n + 1 \in 1..(n + 1)
  BY <1>1
<1>3. ToSet(r) = ToSet(s) \cup {t}
  <2>1. ToSet(r) \subseteq ToSet(s) \cup {t}
    BY <1>1, <1>2 DEF ToSet
  <2>2. ToSet(s) \cup {t} \subseteq ToSet(r)
    BY <1>1, <1>2 DEF ToSet
  <2> QED BY <2>1, <2>2
<1>4. ASSUME IsInjective(s), t \notin ToSet(s)
      PROVE  IsInjective(r)
  <2>1. \A i \in 1..n : r[i] # t
    BY <1>1, <1>4 DEF ToSet
  <2>2. \A i, j \in 1..(n + 1) : r[i] = r[j] => i = j
    BY <1>1, <1>2, <1>4, <2>1 DEF IsInjective
  <2> QED BY <1>1, <2>2 DEF IsInjective
<1> QED BY <1>1, <1>3, <1>4 DEF r

\* A set of numbers that is not empty has a least one.
LEMMA LeastNumber ==
  ASSUME NEW T, T \subseteq Nat, T # {}
  PROVE  \E m \in T : \A k \in T : m <= k
<1>1. IsWellFoundedOn(OpToRel(<, Nat), Nat)
  BY NatLessThanWellFounded
<1>2. \E m \in T : \A k \in T : <<k, m>> \notin OpToRel(<, Nat)
  BY <1>1, WFMin
<1>3. \A k, m \in Nat : <<k, m>> \in OpToRel(<, Nat) <=> k < m
  BY DEF OpToRel
<1>4. \E m \in T : \A k \in T : ~(k < m)
  BY <1>2, <1>3, Zenon
<1> QED BY <1>4

\* LIST_REMOVE of anything leaves a list.
LEMMA RemoveType ==
  ASSUME NEW S, NEW s \in Seq(S), NEW t
  PROVE  RemoveFirst(s, t) \in Seq(S)
<1> DEFINE n == Len(s)
           at == {i \in 1..Len(s) : s[i] = t}
<1>1. n \in Nat /\ DOMAIN s = 1..n /\ \A i \in 1..n : s[i] \in S
  BY LenProperties, ElementOfSeq
<1>2. CASE at = {}
  BY <1>2 DEF RemoveFirst
<1>3. CASE at # {}
  <2>1. \E m \in at : \A i \in at : m <= i
    <3>1. at \subseteq Nat
      BY <1>1
    <3> HIDE DEF at
    <3> QED BY <1>3, <3>1, LeastNumber
  <2> DEFINE k == Min(at)
  <2>2. k \in 1..n
    <3>1. k \in at
      BY <2>1 DEF Min
    <3> QED BY <3>1
  <2>3. RemoveFirst(s, t) = SubSeq(s, 1, k - 1) \o SubSeq(s, k + 1, n)
    BY <1>3 DEF RemoveFirst, RemoveAt, SelectInSeq
  <2> HIDE DEF k
  <2>4. SubSeq(s, 1, k - 1) \in Seq(S)
    BY <1>1, <2>2, SubSeqProperties
  <2>5. SubSeq(s, k + 1, n) \in Seq(S)
    <3>1. k + 1 \in Int /\ n \in Int /\ \A i \in (k + 1)..n : s[i] \in S
      BY <1>1, <2>2
    <3> HIDE DEF n
    <3> QED BY <3>1, SubSeqProperties
  <2> QED BY <2>3, <2>4, <2>5, ConcatProperties
<1> QED BY <1>2, <1>3

\* LIST_REMOVE of an element of a sequence without repetitions.
LEMMA RemoveSet ==
  ASSUME NEW S, NEW s \in Seq(S), IsInjective(s), NEW t \in ToSet(s)
  PROVE  /\ RemoveFirst(s, t) \in Seq(S)
         /\ ToSet(RemoveFirst(s, t)) = ToSet(s) \ {t}
         /\ IsInjective(RemoveFirst(s, t))
<1> DEFINE n == Len(s)
           r == RemoveFirst(s, t)
<1>1. n \in Nat /\ DOMAIN s = 1..n /\ \A i \in 1..n : s[i] \in S
  BY LenProperties, ElementOfSeq
<1>2. PICK k \in 1..n : s[k] = t
  BY <1>1 DEF ToSet
<1>3. \A i \in 1..n : s[i] = t <=> i = k
  BY <1>1, <1>2 DEF IsInjective
<1>4. r = SubSeq(s, 1, k - 1) \o SubSeq(s, k + 1, n)
  <2>1. {i \in 1..Len(s) : s[i] = t} = {k}
    BY <1>3
  <2>2. Min({k}) = k
    BY <1>1 DEF Min
  <2>3. SelectInSeq(s, LAMBDA v : v = t) = k
    BY <2>1, <2>2 DEF SelectInSeq
  <2> QED BY <1>2, <2>3 DEF RemoveFirst, RemoveAt
<1> HIDE DEF r
<1> DEFINE a == SubSeq(s, 1, k - 1)
           b == SubSeq(s, k + 1, n)
<1>5. /\ a \in Seq(S) /\ Len(a) = k - 1 /\ \A i \in 1..(k - 1) : a[i] = s[i]
      /\ b \in Seq(S) /\ Len(b) = n - k /\ \A i \in 1..(n - k) : b[i] = s[k + i]
  <2>1. a \in Seq(S) /\ Len(a) = k - 1 /\ \A i \in 1..(k - 1) : a[i] = s[i]
    BY <1>1, SubSeqProperties
  <2>2. b \in Seq(S) /\ Len(b) = n - k /\ \A i \in 1..(n - k) : b[i] = s[k + i]
    <3>1. k + 1 \in Int /\ n \in Int /\ \A i \in (k + 1)..n : s[i] \in S
      BY <1>1
    <3>2. /\ b \in Seq(S) /\ Len(b) = IF k + 1 <= n THEN n - (k + 1) + 1 ELSE 0
          /\ \A i \in 1..(n - (k + 1) + 1) : b[i] = s[(k + 1) + i - 1]
      BY <3>1, SubSeqProperties
    <3> HIDE DEF b, n
    <3>3. n - (k + 1) + 1 = n - k /\ \A i \in Int : (k + 1) + i - 1 = k + i
      BY <1>1
    <3> QED BY <1>1, <3>2, <3>3
  <2> QED BY <2>1, <2>2
<1> HIDE DEF a, b
<1>6. /\ r \in Seq(S) /\ Len(r) = n - 1 /\ DOMAIN r = 1..(n - 1)
      /\ \A i \in 1..(n - 1) : r[i] = IF i < k THEN s[i] ELSE s[i + 1]
  <2>1. /\ r \in Seq(S) /\ Len(r) = Len(a) + Len(b)
        /\ \A i \in 1..(Len(a) + Len(b)) :
             r[i] = IF i <= Len(a) THEN a[i] ELSE b[i - Len(a)]
    BY <1>4, <1>5, ConcatProperties DEF a, b
  <2>2. Len(r) = n - 1 /\ DOMAIN r = 1..(n - 1)
    BY <1>1, <1>5, <2>1, LenProperties
  <2>3. ASSUME NEW i \in 1..(n - 1)
        PROVE  r[i] = IF i < k THEN s[i] ELSE s[i + 1]
    <3> HIDE DEF n
    <3>1. CASE i < k
      <4>1. i \in 1..(Len(a) + Len(b)) /\ i <= Len(a) /\ i \in 1..(k - 1)
        BY <1>1, <1>5, <3>1
      <4> QED BY <1>5, <2>1, <3>1, <4>1
    <3>2. CASE ~(i < k)
      <4>1. i \in 1..(Len(a) + Len(b)) /\ ~(i <= Len(a))
        BY <1>1, <1>5, <3>2
      <4>2. i - Len(a) \in 1..(n - k) /\ k + (i - Len(a)) = i + 1
        BY <1>1, <1>5, <3>2
      <4>3. r[i] = b[i - Len(a)]
        BY <2>1, <4>1
      <4>4. b[i - Len(a)] = s[i + 1]
        BY <1>5, <4>2
      <4> QED BY <3>2, <4>3, <4>4
    <3> QED BY <3>1, <3>2
  <2> QED BY <2>1, <2>2, <2>3
<1> HIDE DEF n
<1>7. ToSet(r) \subseteq ToSet(s) \ {t}
  <2> SUFFICES ASSUME NEW i \in 1..(n - 1) PROVE r[i] \in ToSet(s) /\ r[i] # t
    BY <1>6 DEF ToSet
  <2>1. PICK j \in 1..n : r[i] = s[j] /\ j # k
    BY <1>1, <1>6
  <2> QED BY <1>1, <1>3, <2>1 DEF ToSet
<1>8. ToSet(s) \ {t} \subseteq ToSet(r)
  <2> SUFFICES ASSUME NEW j \in 1..n, s[j] # t PROVE s[j] \in ToSet(r)
    BY <1>1 DEF ToSet
  <2>1. \E i \in 1..(n - 1) : r[i] = s[j]
    <3>1. CASE j < k
      BY <1>1, <1>6, <3>1
    <3>2. CASE j > k
      <4>1. j - 1 \in 1..(n - 1) /\ r[j - 1] = s[j]
        BY <1>1, <1>6, <3>2
      <4> QED BY <4>1
    <3> QED BY <1>1, <1>2, <3>1, <3>2
  <2> QED BY <1>6, <2>1 DEF ToSet
<1>9. IsInjective(r)
  <2> SUFFICES ASSUME NEW i \in 1..(n - 1), NEW j \in 1..(n - 1), r[i] = r[j]
               PROVE  i = j
    BY <1>6 DEF IsInjective
  <2> DEFINE At(m) == IF m < k THEN m ELSE m + 1
  <2>1. At(i) \in 1..n /\ At(j) \in 1..n /\ r[i] = s[At(i)] /\ r[j] = s[At(j)]
    BY <1>1, <1>6
  <2>2. At(i) = At(j)
    BY <1>1, <2>1 DEF IsInjective
  <2> QED BY <1>1, <2>2
<1> QED BY <1>6, <1>7, <1>8, <1>9 DEF r

\* The elements of a finite set in some order, each once.
LEMMA ListsOfSet ==
  ASSUME NEW S, IsFiniteSet(S)
  PROVE  /\ SetToSeq(S) \in SetToSeqs(S)
         /\ \A s \in SetToSeqs(S) : s \in Seq(S) /\ ToSet(s) = S /\ IsInjective(s)
<1> DEFINE n == Cardinality(S)
<1>1. n \in Nat /\ ExistsBijection(1..n, S) /\ Cardinality(1..n) = n
  BY FS_CardinalityType, FS_Interval
<1> HIDE DEF n
<1>2. SetToSeqs(S) = {f \in [1..n -> S] : IsInjective(f)}
  BY DEF SetToSeqs, IsInjective, n
<1>3. SetToSeq(S) \in SetToSeqs(S)
  <2>1. \E f \in [1..n -> S] : IsInjective(f)
    BY <1>1 DEF ExistsBijection, Bijection, Injection
  <2> QED BY <1>2, <2>1 DEF SetToSeq, n
<1>4. ASSUME NEW s \in SetToSeqs(S)
      PROVE  s \in Seq(S) /\ ToSet(s) = S /\ IsInjective(s)
  <2>1. s \in [1..n -> S] /\ IsInjective(s)
    BY <1>2
  <2>2. s \in Injection(1..n, S)
    BY <2>1 DEF Injection
  <2>3. s \in Surjection(1..n, S)
    BY <1>1, <2>2, FS_Injection DEF n
  <2>4. ToSet(s) = S
    BY <2>1, <2>3 DEF ToSet, Surjection
  <2>5. s \in Seq(S)
    BY <1>1, <2>1
  <2> QED BY <2>1, <2>4, <2>5
<1> QED BY <1>3, <1>4

----------------------------------------------------------------------------
(* Sequences of sequences.                                                 *)

Elements(ls) == UNION {ToSet(ls[i]) : i \in DOMAIN ls}

\* No element is in two of the sequences or twice in one.
Apart(ls) ==
  /\ \A i \in DOMAIN ls : IsInjective(ls[i])
  /\ \A i, j \in DOMAIN ls : i # j => ToSet(ls[i]) \cap ToSet(ls[j]) = {}

LEMMA AppendLists ==
  ASSUME NEW S, NEW ls \in Seq(Seq(S)), NEW l \in Seq(S)
  PROVE  /\ Append(ls, l) \in Seq(Seq(S))
         /\ Elements(Append(ls, l)) = Elements(ls) \cup ToSet(l)
         /\ Apart(ls) /\ IsInjective(l) /\ ToSet(l) \cap Elements(ls) = {}
              => Apart(Append(ls, l))
<1> DEFINE r == Append(ls, l)
           n == Len(ls)
<1>1. /\ r \in Seq(Seq(S)) /\ n \in Nat /\ Len(r) = n + 1
      /\ \A i \in 1..n : r[i] = ls[i]
      /\ r[n + 1] = l
      /\ DOMAIN ls = 1..n /\ DOMAIN r = 1..(n + 1)
  <2>1. /\ r \in Seq(Seq(S)) /\ Len(r) = n + 1
        /\ \A i \in 1..n : r[i] = ls[i]
        /\ r[n + 1] = l
    BY AppendProperties
  <2>2. n \in Nat /\ DOMAIN ls = 1..n /\ DOMAIN r = 1..Len(r)
    BY <2>1, LenProperties
  <2> QED BY <2>1, <2>2
<1> HIDE DEF r, n
<1>2. \A i \in 1..(n + 1) : i = n + 1 \/ i \in 1..n
  BY <1>1
<1>3. \A i \in 1..n : i \in 1..(n + 1) /\ i # n + 1
  BY <1>1
<1>4. n + 1 \in 1..(n + 1)
  BY <1>1
<1>5. Elements(r) = Elements(ls) \cup ToSet(l)
  <2>1. Elements(r) \subseteq Elements(ls) \cup ToSet(l)
    BY <1>1, <1>2 DEF Elements
  <2>2. Elements(ls) \cup ToSet(l) \subseteq Elements(r)
    BY <1>1, <1>3, <1>4 DEF Elements
  <2> QED BY <2>1, <2>2
<1>6. ASSUME Apart(ls), IsInjective(l), ToSet(l) \cap Elements(ls) = {}
      PROVE  Apart(r)
  <2>1. \A i \in 1..n : ToSet(ls[i]) \cap ToSet(l) = {}
    BY <1>1, <1>6 DEF Elements
  <2>2. \A i \in 1..(n + 1) : IsInjective(r[i])
    BY <1>1, <1>2, <1>6 DEF Apart
  <2>3. ASSUME NEW i \in 1..(n + 1), NEW j \in 1..(n + 1), i # j
        PROVE  ToSet(r[i]) \cap ToSet(r[j]) = {}
    BY <1>1, <1>2, <1>6, <2>1, <2>3 DEF Apart
  <2> QED BY <1>1, <2>2, <2>3 DEF Apart
<1> QED BY <1>1, <1>5, <1>6 DEF r

LEMMA PopLists ==
  ASSUME NEW S, NEW ls \in Seq(Seq(S)), ls # <<>>
  PROVE  /\ Head(ls) \in Seq(S) /\ Tail(ls) \in Seq(Seq(S))
         /\ Elements(ls) = ToSet(Head(ls)) \cup Elements(Tail(ls))
         /\ Apart(ls) => /\ IsInjective(Head(ls)) /\ Apart(Tail(ls))
                         /\ ToSet(Head(ls)) \cap Elements(Tail(ls)) = {}
<1> DEFINE r == Tail(ls)
           n == Len(ls)
<1>1. /\ r \in Seq(Seq(S)) /\ n \in Nat \ {0} /\ Len(r) = n - 1
      /\ \A i \in 1..(n - 1) : r[i] = ls[i + 1]
      /\ Head(ls) \in Seq(S) /\ Head(ls) = ls[1]
  BY HeadTailProperties, EmptySeq
<1> HIDE DEF r
<1>2. DOMAIN r = 1..(n - 1) /\ DOMAIN ls = 1..n
  BY <1>1, LenProperties
<1> HIDE DEF n
<1>3. /\ 1 \in DOMAIN ls
      /\ \A i \in DOMAIN r : i + 1 \in DOMAIN ls /\ r[i] = ls[i + 1] /\ i + 1 # 1
      /\ \A i, j \in DOMAIN r : i # j => i + 1 # j + 1
  BY <1>1, <1>2
<1>4. \A j \in DOMAIN ls : j # 1 => j - 1 \in DOMAIN r /\ ls[j] = r[j - 1]
  BY <1>1, <1>2
<1>5. Elements(ls) = ToSet(Head(ls)) \cup Elements(r)
  <2>1. Elements(ls) \subseteq ToSet(Head(ls)) \cup Elements(r)
    <3> SUFFICES ASSUME NEW j \in DOMAIN ls, NEW x \in ToSet(ls[j]), j # 1
                 PROVE  x \in Elements(r)
      BY <1>1 DEF Elements
    <3> QED BY <1>4 DEF Elements
  <2>2. ToSet(Head(ls)) \cup Elements(r) \subseteq Elements(ls)
    BY <1>1, <1>3 DEF Elements
  <2> QED BY <2>1, <2>2
<1>6. ASSUME Apart(ls)
      PROVE  /\ IsInjective(Head(ls)) /\ Apart(r)
             /\ ToSet(Head(ls)) \cap Elements(r) = {}
  <2>1. \A i \in DOMAIN r : ToSet(ls[1]) \cap ToSet(ls[i + 1]) = {}
    BY <1>3, <1>6 DEF Apart
  <2>2. ToSet(Head(ls)) \cap Elements(r) = {}
    BY <1>1, <1>3, <2>1 DEF Elements
  <2>3. Apart(r)
    BY <1>3, <1>6 DEF Apart
  <2> QED BY <1>1, <1>3, <1>6, <2>2, <2>3 DEF Apart
<1> QED BY <1>1, <1>5, <1>6 DEF r
=============================================================================
