--------------------------- MODULE SequenceLemmas ---------------------------
(* Facts about numbers and about the queues of the models, which the       *)
(* proofs about several components rest on.                                *)
EXTENDS Integers, Sequences, FiniteSets, SequencesExt, FiniteSetTheorems,
        SequenceTheorems, WellFoundedInduction, TLAPS

\* Every set of numbers that is not empty has a least one.
LEMMA SmallestNat ==
    ASSUME NEW S \in SUBSET Nat, S # {}
    PROVE  \E m \in S : \A k \in S : m <= k
<1> DEFINE R == OpToRel(<, Nat)
<1>1. IsWellFoundedOn(R, Nat)
  BY NatLessThanWellFounded
<1>2. \A k, m \in Nat : <<k, m>> \in R <=> k < m
  BY DEF OpToRel
<1> HIDE DEF R
<1>3. \E m \in S : \A k \in S : ~(<<k, m>> \in R)
  <2>1. S \subseteq Nat
    OBVIOUS
  <2> QED BY <1>1, <2>1, WFMin, Zenon
<1>4. PICK m \in S : \A k \in S : ~(<<k, m>> \in R)
  BY <1>3
<1>5. \A k \in S : ~(k < m)
  BY <1>2, <1>4
<1>6. \A k \in S : m <= k
  BY <1>5
<1> QED BY <1>6

\* The places of a queue are finitely many.
LEMMA SeqDomainFinite ==
    ASSUME NEW S, NEW s \in Seq(S)
    PROVE  IsFiniteSet(DOMAIN s)
<1>1. Len(s) \in Nat /\ DOMAIN s = 1..Len(s)
  OBVIOUS
<1> QED BY <1>1, FS_Interval

\* Cutting a sequence in two.
LEMMA SplitSeq ==
    ASSUME NEW S, NEW s \in Seq(S), NEW r \in 0..Len(s)
    PROVE  /\ SubSeq(s, 1, r) \in Seq(S)
           /\ Len(SubSeq(s, 1, r)) = r
           /\ \A i \in 1..r : SubSeq(s, 1, r)[i] = s[i]
           /\ SubSeq(s, r + 1, Len(s)) \in Seq(S)
           /\ Len(SubSeq(s, r + 1, Len(s))) = Len(s) - r
           /\ \A i \in 1..(Len(s) - r) :
                 SubSeq(s, r + 1, Len(s))[i] = s[r + i]
<1>1. Len(s) \in Nat /\ r \in Int /\ r <= Len(s) /\ 0 <= r
  OBVIOUS
<1>2. /\ SubSeq(s, 1, r) \in Seq(S)
      /\ Len(SubSeq(s, 1, r)) = r
      /\ \A i \in 1..r : SubSeq(s, 1, r)[i] = s[i]
  BY <1>1
<1>3. \A i \in (r + 1)..Len(s) : s[i] \in S
  BY <1>1
<1> DEFINE back == SubSeq(s, r + 1, Len(s))
<1>4. /\ back \in Seq(S)
      /\ Len(back) = IF r + 1 <= Len(s) THEN Len(s) - (r + 1) + 1 ELSE 0
      /\ \A i \in 1..(Len(s) - (r + 1) + 1) : back[i] = s[r + 1 + i - 1]
  BY <1>1, <1>3, SubSeqProperties
<1> HIDE DEF back
<1>5. Len(back) = Len(s) - r
  <2>1. CASE r = Len(s)
    BY <1>1, <1>4, <2>1
  <2>2. CASE r < Len(s)
    BY <1>1, <1>4, <2>2
  <2> QED BY <1>1, <2>1, <2>2
<1>6. \A i \in 1..(Len(s) - r) : back[i] = s[r + i]
  BY <1>1, <1>4
<1> QED BY <1>2, <1>4, <1>5, <1>6 DEF back

\* What a concatenation holds.
LEMMA ConcatToSet ==
    ASSUME NEW S, NEW s \in Seq(S), NEW t \in Seq(S)
    PROVE  ToSet(s \o t) = ToSet(s) \cup ToSet(t)
<1>1. /\ s \o t \in Seq(S)
      /\ DOMAIN (s \o t) = 1..(Len(s) + Len(t))
      /\ \A i \in 1..(Len(s) + Len(t)) : (s \o t)[i] =
            IF i <= Len(s) THEN s[i] ELSE t[i - Len(s)]
  BY ConcatProperties
<1>2. /\ DOMAIN s = 1..Len(s)
      /\ DOMAIN t = 1..Len(t)
      /\ Len(s) \in Nat
      /\ Len(t) \in Nat
  OBVIOUS
<1>3. \A i \in 1..(Len(s) + Len(t)) : (s \o t)[i] \in ToSet(s) \cup ToSet(t)
  <2> TAKE i \in 1..(Len(s) + Len(t))
  <2>1. CASE i <= Len(s)
    BY <1>1, <1>2, <2>1 DEF ToSet
  <2>2. CASE ~(i <= Len(s))
    <3>1. i - Len(s) \in 1..Len(t)
      BY <1>2, <2>2
    <3> QED BY <1>1, <1>2, <2>2, <3>1 DEF ToSet
  <2> QED BY <2>1, <2>2
<1>4. \A i \in 1..Len(s) : s[i] = (s \o t)[i] /\ i \in 1..(Len(s) + Len(t))
  BY <1>1, <1>2
<1>5. \A i \in 1..Len(t) : /\ t[i] = (s \o t)[Len(s) + i]
                           /\ Len(s) + i \in 1..(Len(s) + Len(t))
  <2> TAKE i \in 1..Len(t)
  <2>1. Len(s) + i \in 1..(Len(s) + Len(t)) /\ ~(Len(s) + i <= Len(s))
        /\ (Len(s) + i) - Len(s) = i
    BY <1>2
  <2> QED BY <1>1, <2>1
<1>6. ToSet(s \o t) \subseteq ToSet(s) \cup ToSet(t)
  BY <1>1, <1>3 DEF ToSet
<1>7. ToSet(s) \subseteq ToSet(s \o t)
  BY <1>1, <1>2, <1>4 DEF ToSet
<1>8. ToSet(t) \subseteq ToSet(s \o t)
  <2>1. \A i \in 1..Len(t) : t[i] \in ToSet(s \o t)
    <3> TAKE i \in 1..Len(t)
    <3> DEFINE k == Len(s) + i
    <3>1. t[i] = (s \o t)[k] /\ k \in DOMAIN (s \o t)
      BY <1>1, <1>5
    <3> HIDE DEF k
    <3> QED BY <3>1 DEF ToSet
  <2> QED BY <1>2, <2>1 DEF ToSet
<1> QED BY <1>6, <1>7, <1>8

\* The first element of a queue, and the rest.
LEMMA HeadTailToSet ==
    ASSUME NEW S, NEW s \in Seq(S), s # <<>>
    PROVE  /\ Head(s) \in S /\ Tail(s) \in Seq(S)
           /\ ToSet(s) = {Head(s)} \cup ToSet(Tail(s))
           /\ IsInjective(s) => IsInjective(Tail(s)) /\ Head(s) \notin ToSet(Tail(s))
<1>1. /\ Head(s) \in S
      /\ Tail(s) \in Seq(S)
      /\ Len(Tail(s)) = Len(s) - 1
      /\ \A i \in 1..Len(Tail(s)) : Tail(s)[i] = s[i + 1]
  BY HeadTailProperties
<1>2. Len(s) \in Nat \ {0} /\ Head(s) = s[1]
  BY EmptySeq
<1>3. DOMAIN s = 1..Len(s) /\ DOMAIN Tail(s) = 1..(Len(s) - 1)
  BY <1>1, LenProperties
<1> DEFINE t == Tail(s)
<1>4. \A i \in DOMAIN t : i + 1 \in DOMAIN s /\ t[i] = s[i + 1]
  BY <1>1, <1>2, <1>3
<1>5. \A i \in DOMAIN s : i # 1 => i - 1 \in DOMAIN t /\ t[i - 1] = s[i]
  <2> SUFFICES ASSUME NEW i \in DOMAIN s, i # 1
               PROVE  i - 1 \in DOMAIN t /\ t[i - 1] = s[i]
    OBVIOUS
  <2>1. i - 1 \in 1..(Len(s) - 1) /\ (i - 1) + 1 = i
    BY <1>2, <1>3
  <2> QED BY <1>1, <1>3, <2>1
<1>6. 1 \in DOMAIN s
  BY <1>2, <1>3
<1>7. ToSet(s) \subseteq {Head(s)} \cup ToSet(t)
  BY <1>2, <1>5 DEF ToSet
<1>8. {Head(s)} \cup ToSet(t) \subseteq ToSet(s)
  BY <1>2, <1>4, <1>6 DEF ToSet
<1>9. ASSUME IsInjective(s)
      PROVE  IsInjective(t) /\ Head(s) \notin ToSet(t)
  <2>1. \A i, j \in DOMAIN s : s[i] = s[j] => i = j
    BY <1>9 DEF IsInjective
  <2>2. \A i, j \in DOMAIN t : t[i] = t[j] => i = j
    <3> TAKE i, j \in DOMAIN t
    <3> HAVE t[i] = t[j]
    <3>1. i + 1 = j + 1
      BY <1>4, <2>1
    <3>2. i \in Int /\ j \in Int
      BY <1>3
    <3> QED BY <3>1, <3>2
  <2>3. \A i \in DOMAIN t : s[1] # t[i]
    <3> SUFFICES ASSUME NEW i \in DOMAIN t, s[1] = t[i] PROVE FALSE
      OBVIOUS
    <3>1. i + 1 = 1
      BY <1>4, <1>6, <2>1
    <3>2. i \in Nat /\ i >= 1
      BY <1>3
    <3> QED BY <3>1, <3>2
  <2> QED BY <1>2, <2>2, <2>3 DEF IsInjective, ToSet
<1> QED BY <1>1, <1>7, <1>8, <1>9

\* An element at the end of a queue.
LEMMA AppendToSet ==
    ASSUME NEW S, NEW s \in Seq(S), NEW e \in S
    PROVE  /\ Append(s, e) \in Seq(S)
           /\ Append(s, e) # <<>>
           /\ ToSet(Append(s, e)) = ToSet(s) \cup {e}
           /\ IsInjective(s) /\ e \notin ToSet(s) => IsInjective(Append(s, e))
<1> DEFINE a == Append(s, e)
           n == Len(s)
<1>1. /\ a \in Seq(S)
      /\ a # <<>>
      /\ Len(a) = n + 1
      /\ \A i \in 1..n : a[i] = s[i]
      /\ a[n + 1] = e
  BY AppendProperties
<1>2. n \in Nat /\ DOMAIN s = 1..n /\ DOMAIN a = 1..(n + 1)
  BY <1>1, LenProperties
<1> HIDE DEF a, n
<1>3. \A i \in DOMAIN a : i = n + 1 \/ i \in DOMAIN s
  BY <1>2
<1>4. \A i \in DOMAIN s : i \in DOMAIN a /\ a[i] = s[i]
  BY <1>1, <1>2
<1>5. n + 1 \in DOMAIN a
  BY <1>2
<1>6. ToSet(a) = ToSet(s) \cup {e}
  BY <1>1, <1>3, <1>4, <1>5 DEF ToSet
<1>7. ASSUME IsInjective(s), e \notin ToSet(s)
      PROVE  IsInjective(a)
  <2>1. \A i, j \in DOMAIN s : s[i] = s[j] => i = j
    BY <1>7 DEF IsInjective
  <2>2. \A i \in DOMAIN s : s[i] # e
    BY <1>7 DEF ToSet
  <2> QED BY <1>1, <1>3, <1>4, <2>1, <2>2 DEF IsInjective
<1> QED BY <1>1, <1>6, <1>7 DEF a

\* Two queues without a common element, one before the other.
LEMMA ConcatInjective ==
    ASSUME NEW S, NEW s \in Seq(S), NEW t \in Seq(S),
           IsInjective(s), IsInjective(t), ToSet(s) \cap ToSet(t) = {}
    PROVE  IsInjective(s \o t)
<1> DEFINE c == s \o t
           m == Len(s)
           n == Len(t)
<1>1. /\ DOMAIN c = 1..(m + n)
      /\ \A i \in 1..(m + n) : c[i] = IF i <= m THEN s[i] ELSE t[i - m]
      /\ m \in Nat /\ n \in Nat
      /\ DOMAIN s = 1..m /\ DOMAIN t = 1..n
  BY ConcatProperties, LenProperties
<1> HIDE DEF c, m, n
<1>2. \A i \in DOMAIN s, j \in DOMAIN t : s[i] # t[j]
  BY DEF ToSet
<1>3. \A i, j \in DOMAIN s : s[i] = s[j] => i = j
  BY DEF IsInjective
<1>4. \A i, j \in DOMAIN t : t[i] = t[j] => i = j
  BY DEF IsInjective
<1>5. ASSUME NEW i \in DOMAIN c, NEW j \in DOMAIN c, c[i] = c[j]
      PROVE  i = j
  <2>1. CASE i <= m /\ j <= m
    <3>1. i \in DOMAIN s /\ j \in DOMAIN s /\ c[i] = s[i] /\ c[j] = s[j]
      BY <1>1, <2>1
    <3> QED BY <1>3, <1>5, <3>1
  <2>2. CASE i <= m /\ ~(j <= m)
    <3>1. i \in DOMAIN s /\ j - m \in DOMAIN t /\ c[i] = s[i] /\ c[j] = t[j - m]
      BY <1>1, <2>2
    <3> QED BY <1>2, <1>5, <3>1
  <2>3. CASE ~(i <= m) /\ j <= m
    <3>1. j \in DOMAIN s /\ i - m \in DOMAIN t /\ c[j] = s[j] /\ c[i] = t[i - m]
      BY <1>1, <2>3
    <3> QED BY <1>2, <1>5, <3>1
  <2>4. CASE ~(i <= m) /\ ~(j <= m)
    <3>1. /\ i - m \in DOMAIN t /\ j - m \in DOMAIN t
          /\ c[i] = t[i - m] /\ c[j] = t[j - m]
      BY <1>1, <2>4
    <3>2. i - m = j - m
      BY <1>4, <1>5, <3>1
    <3> QED BY <1>1, <3>2
  <2> QED BY <2>1, <2>2, <2>3, <2>4
<1> QED BY <1>5 DEF c, IsInjective

\* push_front of one element after the other.
LEMMA ReverseFacts ==
    ASSUME NEW S, NEW s \in Seq(S)
    PROVE  /\ Reverse(s) \in Seq(S)
           /\ ToSet(Reverse(s)) = ToSet(s)
           /\ IsInjective(s) => IsInjective(Reverse(s))
<1> DEFINE r == Reverse(s)
           n == Len(s)
<1>1. n \in Nat /\ DOMAIN s = 1..n
  BY LenProperties
<1>2. r = [i \in 1..n |-> s[(n - i) + 1]]
  BY DEF Reverse
<1> HIDE DEF r, n
<1>3. \A i \in 1..n : (n - i) + 1 \in 1..n
  BY <1>1
<1>4. DOMAIN r = 1..n /\ \A i \in 1..n : r[i] = s[(n - i) + 1] /\ r[i] \in S
  BY <1>1, <1>2, <1>3, ElementOfSeq DEF n
<1>5. r \in Seq(S)
  <2>1. r \in [1..n -> S]
    BY <1>2, <1>4
  <2> QED BY <1>1, <2>1
<1>6. \A i \in 1..n : s[i] = r[(n - i) + 1]
  <2> TAKE i \in 1..n
  <2>1. (n - i) + 1 \in 1..n /\ (n - ((n - i) + 1)) + 1 = i
    BY <1>1
  <2> QED BY <1>4, <2>1
<1>7. ToSet(r) = ToSet(s)
  <2>1. ToSet(r) \subseteq ToSet(s)
    BY <1>1, <1>3, <1>4 DEF ToSet
  <2>2. ToSet(s) \subseteq ToSet(r)
    BY <1>1, <1>3, <1>4, <1>6 DEF ToSet
  <2> QED BY <2>1, <2>2
<1>8. ASSUME IsInjective(s)
      PROVE  IsInjective(r)
  <2> SUFFICES ASSUME NEW i \in 1..n, NEW j \in 1..n, r[i] = r[j]
               PROVE  i = j
    BY <1>4 DEF IsInjective
  <2>1. (n - i) + 1 = (n - j) + 1
    BY <1>1, <1>3, <1>4, <1>8 DEF IsInjective
  <2> QED BY <1>1, <2>1
<1> QED BY <1>5, <1>7, <1>8 DEF r

\* A sequence cut after r elements: nothing is lost, nothing is in both parts.
LEMMA SplitToSet ==
    ASSUME NEW S, NEW s \in Seq(S), NEW r \in 0..Len(s)
    PROVE  LET front == SubSeq(s, 1, r)
               back == SubSeq(s, r + 1, Len(s))
           IN  /\ ToSet(front) \cup ToSet(back) = ToSet(s)
               /\ IsFiniteSet(ToSet(front))
               /\ Cardinality(ToSet(front)) <= r
               /\ IsInjective(s) => /\ IsInjective(back)
                                    /\ ToSet(front) \cap ToSet(back) = {}
<1> DEFINE front == SubSeq(s, 1, r)
           back == SubSeq(s, r + 1, Len(s))
           n == Len(s)
<1>1. /\ n \in Nat /\ r \in Nat /\ r <= n
      /\ DOMAIN s = 1..n
      /\ front \in Seq(S) /\ DOMAIN front = 1..r
      /\ back \in Seq(S) /\ DOMAIN back = 1..(n - r)
      /\ \A i \in 1..r : front[i] = s[i]
      /\ \A i \in 1..(n - r) : back[i] = s[r + i]
  BY SplitSeq, LenProperties
<1> HIDE DEF front, back, n
<1>2. /\ \A x : x \in ToSet(front) <=> \E i \in 1..r : x = s[i]
      /\ \A x : x \in ToSet(s) <=> \E i \in 1..n : x = s[i]
  BY <1>1 DEF ToSet
<1>3. ASSUME NEW x
      PROVE  x \in ToSet(back) <=> \E i \in (r + 1)..n : x = s[i]
  <2>1. ASSUME NEW i \in 1..(n - r), x = back[i]
        PROVE  \E j \in (r + 1)..n : x = s[j]
    <3>1. r + i \in (r + 1)..n /\ x = s[r + i]
      BY <1>1, <2>1
    <3> QED BY <3>1
  <2>2. ASSUME NEW j \in (r + 1)..n, x = s[j]
        PROVE  \E i \in 1..(n - r) : x = back[i]
    <3>1. j - r \in 1..(n - r) /\ r + (j - r) = j
      BY <1>1
    <3>2. back[j - r] = s[j]
      BY <1>1, <3>1
    <3> QED BY <2>2, <3>1, <3>2
  <2>3. x \in ToSet(back) <=> \E i \in 1..(n - r) : x = back[i]
    BY <1>1 DEF ToSet
  <2> QED BY <2>1, <2>2, <2>3
<1>4. ToSet(front) \cup ToSet(back) = ToSet(s)
  <2>1. \A i : i \in 1..n <=> i \in 1..r \/ i \in (r + 1)..n
    BY <1>1
  <2> QED BY <1>2, <1>3, <2>1
<1>5. IsFiniteSet(ToSet(front)) /\ Cardinality(ToSet(front)) <= r
  <2>1. front \in Surjection(1..r, ToSet(front))
    <3>1. front \in [1..r -> ToSet(front)]
      BY <1>1 DEF ToSet
    <3> QED BY <1>1, <3>1 DEF Surjection, ToSet
  <2>2. IsFiniteSet(1..r) /\ Cardinality(1..r) = r
    <3>1. /\ IsFiniteSet(1..r)
          /\ Cardinality(1..r) = IF 1 > r THEN 0 ELSE r - 1 + 1
      BY <1>1, FS_Interval
    <3> QED BY <1>1, <3>1
  <2> QED BY <2>1, <2>2, FS_Surjection
<1>6. ASSUME IsInjective(s)
      PROVE  IsInjective(back) /\ ToSet(front) \cap ToSet(back) = {}
  <2>1. \A i, j \in 1..n : s[i] = s[j] => i = j
    BY <1>1, <1>6 DEF IsInjective
  <2>2. IsInjective(back)
    <3> SUFFICES ASSUME NEW i \in 1..(n - r), NEW j \in 1..(n - r),
                        back[i] = back[j]
                 PROVE  i = j
      BY <1>1 DEF IsInjective
    <3>1. r + i \in 1..n /\ r + j \in 1..n
      BY <1>1
    <3>2. r + i = r + j
      BY <1>1, <2>1, <3>1
    <3> QED BY <1>1, <3>2
  <2>3. ToSet(front) \cap ToSet(back) = {}
    <3> SUFFICES ASSUME NEW i \in 1..r, NEW j \in (r + 1)..n, s[i] = s[j]
                 PROVE  FALSE
      BY <1>2, <1>3
    <3>1. i \in 1..n /\ j \in 1..n /\ i # j
      BY <1>1
    <3> QED BY <2>1, <3>1
  <2> QED BY <2>2, <2>3
<1> QED BY <1>4, <1>5, <1>6 DEF front, back, n

=============================================================================
