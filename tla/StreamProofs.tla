---------------------------- MODULE StreamProofs ----------------------------
(* Machine-checked proofs about the unordered traversal streams:           *)
(* LimitedByKey strands no input, and both LimitedByKey and                *)
(* BoundedTraversalStream implement UnfoldStream.                          *)
EXTENDS LimitedByKey, SequenceLemmas, FiniteSetTheorems, SequenceTheorems,
        TLAPS

-----------------------------------------------------------------------------
(* The inductive invariant.                                                *)

\* The maps are taken as parameters, so that the lemmas about them are free
\* of primes.
QueuedByKey(m) == UNION {ToSet(m[k]) : k \in DOMAIN m}

QueuedByShard(m) == UNION {ToSet(m[s].queue) : s \in DOMAIN m}

InShard(i, s) == HasShard(i) /\ ShardOf[i][1] = s

\* An input waits once, behind its own key ...
KeysOK(m) ==
    /\ m \in [DOMAIN m -> Seq(Items)]
    /\ \A k \in DOMAIN m :
          IsInjective(m[k]) /\ \A i \in ToSet(m[k]) : KeyOf[i] = k

\* ... or behind its own shard.
ShardsOK(m) ==
    /\ m \in [DOMAIN m -> ShardEntries]
    /\ \A s \in DOMAIN m :
          IsInjective(m[s].queue) /\ \A i \in ToSet(m[s].queue) : InShard(i, s)

\* An input is in one place only.
Apart(U, K, H, R, F) ==
    /\ U \cap K = {} /\ U \cap H = {} /\ U \cap R = {} /\ U \cap F = {}
    /\ K \cap H = {} /\ K \cap R = {} /\ K \cap F = {}
    /\ H \cap R = {} /\ H \cap F = {}
    /\ R \cap F = {}

OnePlace ==
    /\ IsInjective(unscheduled)
    /\ KeysOK(waiting_for_key)
    /\ ShardsOK(waiting_for_shard)
    /\ Apart(ToSet(unscheduled), QueuedByKey(waiting_for_key),
             QueuedByShard(waiting_for_shard), scheduled, finished)

SlotsKept == IsFiniteSet(scheduled) /\ Cardinality(scheduled) <= ScheduledMax

IInv == TypeOK /\ OnePlace /\ SlotsKept /\ WaitersServed

-----------------------------------------------------------------------------
(* The map of keys.                                                        *)

LEMMA InKeyQueue ==
    ASSUME NEW m, NEW i
    PROVE  i \in QueuedByKey(m) <=> \E k \in DOMAIN m : i \in ToSet(m[k])
BY DEF QueuedByKey

\* An input is parked behind a key that is taken.
LEMMA KeyParked ==
    ASSUME NEW m, KeysOK(m), NEW i \in Items, KeyOf[i] \in DOMAIN m,
           i \notin QueuedByKey(m)
    PROVE  LET m2 == [m EXCEPT ![KeyOf[i]] = Append(@, i)]
           IN  /\ KeysOK(m2)
               /\ DOMAIN m2 = DOMAIN m
               /\ QueuedByKey(m2) = QueuedByKey(m) \cup {i}
<1> DEFINE k == KeyOf[i]
           m2 == [m EXCEPT ![k] = Append(@, i)]
<1>1. m \in [DOMAIN m -> Seq(Items)] /\ k \in DOMAIN m
  BY DEF KeysOK
<1>2. /\ DOMAIN m2 = DOMAIN m
      /\ m2[k] = Append(m[k], i)
      /\ \A x \in DOMAIN m : x # k => m2[x] = m[x]
  BY <1>1
<1>3. m[k] \in Seq(Items) /\ IsInjective(m[k]) /\ i \notin ToSet(m[k])
  BY <1>1, InKeyQueue DEF KeysOK
<1>4. /\ m2[k] \in Seq(Items)
      /\ ToSet(m2[k]) = ToSet(m[k]) \cup {i}
      /\ IsInjective(m2[k])
  BY <1>2, <1>3, AppendToSet
<1>5. m2 \in [DOMAIN m -> Seq(Items)]
  BY <1>1, <1>4
<1> HIDE DEF m2
<1>6. KeysOK(m2)
  <2>1. ASSUME NEW x \in DOMAIN m2
        PROVE  IsInjective(m2[x]) /\ \A j \in ToSet(m2[x]) : KeyOf[j] = x
    <3>1. CASE x = k
      BY <1>1, <1>4, <3>1 DEF KeysOK
    <3>2. CASE x # k
      BY <1>2, <3>2 DEF KeysOK
    <3> QED BY <3>1, <3>2
  <2> QED BY <1>2, <1>5, <2>1 DEF KeysOK
<1>7. QueuedByKey(m2) = QueuedByKey(m) \cup {i}
  <2>1. ASSUME NEW j
        PROVE  j \in QueuedByKey(m2) <=> j \in QueuedByKey(m) \cup {i}
    <3>1. j \in QueuedByKey(m2) => j \in QueuedByKey(m) \cup {i}
      <4> HAVE j \in QueuedByKey(m2)
      <4>1. PICK x \in DOMAIN m2 : j \in ToSet(m2[x])
        BY InKeyQueue
      <4> QED BY <1>2, <1>4, <4>1, InKeyQueue
    <3>2. j \in QueuedByKey(m) => j \in QueuedByKey(m2)
      <4> HAVE j \in QueuedByKey(m)
      <4>1. PICK x \in DOMAIN m : j \in ToSet(m[x])
        BY InKeyQueue
      <4> QED BY <1>2, <1>4, <4>1, InKeyQueue
    <3>3. i \in QueuedByKey(m2)
      BY <1>1, <1>2, <1>4, InKeyQueue
    <3> QED BY <3>1, <3>2, <3>3
  <2> QED BY <2>1
<1> QED BY <1>2, <1>6, <1>7 DEF m2

\* A key that was free is taken.
LEMMA KeyTaken ==
    ASSUME NEW m, KeysOK(m), NEW k, k \notin DOMAIN m
    PROVE  /\ KeysOK(Put(m, k, <<>>))
           /\ DOMAIN Put(m, k, <<>>) = DOMAIN m \cup {k}
           /\ QueuedByKey(Put(m, k, <<>>)) = QueuedByKey(m)
<1> DEFINE m2 == Put(m, k, <<>>)
<1>1. /\ DOMAIN m2 = DOMAIN m \cup {k}
      /\ m2[k] = <<>>
      /\ \A x \in DOMAIN m : m2[x] = m[x]
      /\ m2 = [x \in DOMAIN m2 |-> m2[x]]
  BY DEF Put
<1> HIDE DEF m2
<1>2. m2[k] \in Seq(Items) /\ ToSet(m2[k]) = {} /\ IsInjective(m2[k])
  BY <1>1, EmptySeq DEF ToSet, IsInjective
<1>3. \A x \in DOMAIN m : m[x] \in Seq(Items)
  BY DEF KeysOK
<1>4. m2 \in [DOMAIN m2 -> Seq(Items)]
  BY <1>1, <1>2, <1>3
<1>5. KeysOK(m2)
  <2>1. ASSUME NEW x \in DOMAIN m2
        PROVE  IsInjective(m2[x]) /\ \A j \in ToSet(m2[x]) : KeyOf[j] = x
    BY <1>1, <1>2 DEF KeysOK
  <2> QED BY <1>4, <2>1 DEF KeysOK
<1>6. ASSUME NEW j
      PROVE  j \in QueuedByKey(m2) <=> j \in QueuedByKey(m)
  BY <1>1, <1>2, InKeyQueue
<1> QED BY <1>1, <1>5, <1>6 DEF m2

\* The end of an unfold with key k takes the first input out of k's queue,
\* and k's entry stays only while inputs are left in it.
LEMMA KeyFreed ==
    ASSUME KeysOK(waiting_for_key), NEW k
    PROVE  /\ KeysOK(KeyReleased(k))
           /\ DOMAIN KeyReleased(k) \subseteq DOMAIN waiting_for_key
           /\ k \in DOMAIN KeyReleased(k) => NextOfKey(k) # {}
           /\ NextOfKey(k) \subseteq QueuedByKey(waiting_for_key)
           /\ \A i \in NextOfKey(k) : KeyOf[i] = k
           /\ \A i, j \in NextOfKey(k) : i = j
           /\ QueuedByKey(KeyReleased(k)) =
                 QueuedByKey(waiting_for_key) \ NextOfKey(k)
<1> DEFINE m == waiting_for_key
           m2 == KeyReleased(k)
           N == NextOfKey(k)
<1>1. m \in [DOMAIN m -> Seq(Items)]
  BY DEF KeysOK
<1>2. CASE k \notin DOMAIN m
  <2>1. m2 = m /\ N = {}
    BY <1>2 DEF KeyReleased, NextOfKey
  <2> QED BY <1>2, <2>1
<1>3. CASE k \in DOMAIN m
  <2>1. m[k] \in Seq(Items) /\ IsInjective(m[k])
    BY <1>1, <1>3 DEF KeysOK
  <2>2. CASE m[k] = <<>>
    <3>1. Len(m[k]) = 0
      BY <2>2, EmptySeq
    <3>2. N = {} /\ m2 = Without(m, k)
      BY <1>3, <2>2, <3>1 DEF KeyReleased, NextOfKey
    <3>3. DOMAIN m2 = DOMAIN m \ {k} /\ \A x \in DOMAIN m2 : m2[x] = m[x]
      BY <3>2 DEF Without, Restrict
    <3>4. m2 \in [DOMAIN m2 -> Seq(Items)]
      BY <1>1, <3>2, <3>3 DEF Without, Restrict
    <3>5. KeysOK(m2)
      BY <3>3, <3>4 DEF KeysOK
    <3>6. ToSet(m[k]) = {}
      BY <2>2 DEF ToSet
    <3>7. ASSUME NEW j
          PROVE  j \in QueuedByKey(m2) <=> j \in QueuedByKey(m)
      BY <3>3, <3>6, InKeyQueue
    <3> QED BY <3>2, <3>3, <3>5, <3>7
  <2>3. CASE m[k] # <<>>
    <3> DEFINE h == Head(m[k])
               t == Tail(m[k])
    <3>1. N = {h}
      BY <1>3, <2>3 DEF NextOfKey
    <3>2. /\ t \in Seq(Items)
          /\ ToSet(m[k]) = {h} \cup ToSet(t)
          /\ IsInjective(t)
          /\ h \notin ToSet(t)
      BY <2>1, <2>3, HeadTailToSet
    <3>3. Len(m[k]) \in Nat \ {0} /\ Len(t) = Len(m[k]) - 1
      BY <2>1, <2>3, EmptySeq, HeadTailProperties
    <3>4. KeyOf[h] = k /\ h \in QueuedByKey(m)
      BY <1>3, <3>2, InKeyQueue DEF KeysOK
    <3>5. \A x \in DOMAIN m : x # k => h \notin ToSet(m[x])
      BY <3>4 DEF KeysOK
    <3> HIDE DEF h, t
    <3>6. CASE Len(m[k]) > 1
      <4>1. m2 = [m EXCEPT ![k] = t]
        BY <1>3, <3>6 DEF KeyReleased, t
      <4>2. /\ DOMAIN m2 = DOMAIN m
            /\ m2[k] = t
            /\ \A x \in DOMAIN m : x # k => m2[x] = m[x]
            /\ m2 \in [DOMAIN m2 -> Seq(Items)]
        BY <1>1, <1>3, <3>2, <4>1
      <4>3. ASSUME NEW x \in DOMAIN m2
            PROVE  IsInjective(m2[x]) /\ \A j \in ToSet(m2[x]) : KeyOf[j] = x
        <5>1. CASE x = k
          BY <1>3, <3>2, <4>2, <5>1 DEF KeysOK
        <5>2. CASE x # k
          BY <4>2, <5>2 DEF KeysOK
        <5> QED BY <5>1, <5>2
      <4>4. KeysOK(m2)
        BY <4>2, <4>3 DEF KeysOK
      <4>5. ASSUME NEW j
            PROVE  j \in QueuedByKey(m2) <=> j \in QueuedByKey(m) /\ j # h
        <5>1. j \in QueuedByKey(m2) => j \in QueuedByKey(m) /\ j # h
          <6> HAVE j \in QueuedByKey(m2)
          <6>1. PICK x \in DOMAIN m2 : j \in ToSet(m2[x])
            BY InKeyQueue
          <6> QED BY <3>2, <3>5, <4>2, <6>1, InKeyQueue
        <5>2. j \in QueuedByKey(m) /\ j # h => j \in QueuedByKey(m2)
          <6> HAVE j \in QueuedByKey(m) /\ j # h
          <6>1. PICK x \in DOMAIN m : j \in ToSet(m[x])
            BY InKeyQueue
          <6> QED BY <3>2, <4>2, <6>1, InKeyQueue
        <5> QED BY <5>1, <5>2
      <4> QED BY <3>1, <3>4, <4>2, <4>4, <4>5
    <3>7. CASE ~(Len(m[k]) > 1)
      <4>1. m2 = Without(m, k)
        BY <1>3, <3>7 DEF KeyReleased
      <4>2. DOMAIN m2 = DOMAIN m \ {k} /\ \A x \in DOMAIN m2 : m2[x] = m[x]
        BY <4>1 DEF Without, Restrict
      <4>3. m2 \in [DOMAIN m2 -> Seq(Items)]
        BY <1>1, <4>1, <4>2 DEF Without, Restrict
      <4>4. KeysOK(m2)
        BY <4>2, <4>3 DEF KeysOK
      <4>5. ToSet(t) = {}
        <5>1. Len(m[k]) = 1
          <6>1. \A n \in Nat \ {0} : ~(n > 1) => n = 1
            OBVIOUS
          <6> QED BY <3>3, <3>7, <6>1
        <5>3. Len(t) = 0
          BY <3>3, <5>1
        <5>2. t = <<>>
          BY <3>2, <5>3, EmptySeq
        <5> QED BY <5>2 DEF ToSet
      <4>6. ASSUME NEW j
            PROVE  j \in QueuedByKey(m2) <=> j \in QueuedByKey(m) /\ j # h
        <5>1. j \in QueuedByKey(m2) => j \in QueuedByKey(m) /\ j # h
          <6> HAVE j \in QueuedByKey(m2)
          <6>1. PICK x \in DOMAIN m2 : j \in ToSet(m2[x])
            BY InKeyQueue
          <6> QED BY <3>5, <4>2, <6>1, InKeyQueue
        <5>2. j \in QueuedByKey(m) /\ j # h => j \in QueuedByKey(m2)
          <6> HAVE j \in QueuedByKey(m) /\ j # h
          <6>1. PICK x \in DOMAIN m : j \in ToSet(m[x])
            BY InKeyQueue
          <6> QED BY <3>2, <4>2, <4>5, <6>1, InKeyQueue
        <5> QED BY <5>1, <5>2
      <4> QED BY <3>1, <3>4, <4>2, <4>4, <4>6
    <3> QED BY <3>6, <3>7
  <2> QED BY <2>2, <2>3
<1> QED BY <1>2, <1>3

-----------------------------------------------------------------------------
(* The map of shards.                                                      *)

LEMMA InShardQueue ==
    ASSUME NEW m, NEW i
    PROVE  i \in QueuedByShard(m) <=> \E s \in DOMAIN m : i \in ToSet(m[s].queue)
BY DEF QueuedByShard

\* The entry of a shard is replaced or added.
LEMMA ShardPut ==
    ASSUME NEW m, ShardsOK(m), NEW s, NEW e \in ShardEntries,
           IsInjective(e.queue), \A i \in ToSet(e.queue) : InShard(i, s)
    PROVE  /\ ShardsOK(Put(m, s, e))
           /\ DOMAIN Put(m, s, e) = DOMAIN m \cup {s}
           /\ Put(m, s, e)[s] = e
           /\ \A x \in DOMAIN m : x # s => Put(m, s, e)[x] = m[x]
<1> DEFINE m2 == Put(m, s, e)
<1>1. /\ DOMAIN m2 = DOMAIN m \cup {s}
      /\ m2[s] = e
      /\ \A x \in DOMAIN m : x # s => m2[x] = m[x]
      /\ m2 = [x \in DOMAIN m2 |-> m2[x]]
  BY DEF Put
<1> HIDE DEF m2
<1>2. \A x \in DOMAIN m : m[x] \in ShardEntries
  BY DEF ShardsOK
<1>3. m2 \in [DOMAIN m2 -> ShardEntries]
  BY <1>1, <1>2
<1>4. ASSUME NEW x \in DOMAIN m2
      PROVE  IsInjective(m2[x].queue) /\ \A i \in ToSet(m2[x].queue) : InShard(i, x)
  <2>1. CASE x = s
    BY <1>1, <2>1
  <2>2. CASE x # s
    BY <1>1, <2>2 DEF ShardsOK
  <2> QED BY <2>1, <2>2
<1>5. ShardsOK(m2)
  BY <1>3, <1>4 DEF ShardsOK
<1> QED BY <1>1, <1>5 DEF m2

LEMMA ShardEntryOK ==
    ASSUME ShardsOK(waiting_for_shard), NEW s
    PROVE  /\ ShardEntry(s) \in ShardEntries
           /\ IsInjective(ShardEntry(s).queue)
           /\ \A i \in ToSet(ShardEntry(s).queue) : InShard(i, s)
           /\ s \notin DOMAIN waiting_for_shard =>
                 ShardEntry(s).inflight = 0 /\ ToSet(ShardEntry(s).queue) = {}
           /\ s \in DOMAIN waiting_for_shard =>
                 ShardEntry(s) = waiting_for_shard[s]
<1>1. CASE s \in DOMAIN waiting_for_shard
  BY <1>1 DEF ShardEntry, ShardsOK
<1>2. CASE s \notin DOMAIN waiting_for_shard
  <2>1. ShardEntry(s) = [inflight |-> 0, queue |-> <<>>]
    BY <1>2 DEF ShardEntry
  <2>2. /\ ShardEntry(s).inflight = 0
        /\ ShardEntry(s).queue = <<>>
    BY <2>1
  <2>3. ToSet(<<>>) = {} /\ IsInjective(<<>>) /\ <<>> \in Seq(Items)
    BY EmptySeq DEF ToSet, IsInjective
  <2>4. ShardEntry(s) \in ShardEntries
    BY <2>1, <2>3 DEF ShardEntries
  <2> QED BY <1>2, <2>2, <2>3, <2>4
<1> QED BY <1>1, <1>2

\* An input is parked behind its shard.
LEMMA ShardParked ==
    ASSUME ShardsOK(waiting_for_shard), NEW i \in Items, HasShard(i),
           i \notin QueuedByShard(waiting_for_shard)
    PROVE  LET s == ShardOf[i][1]
               m2 == Put(waiting_for_shard, s,
                         [ShardEntry(s) EXCEPT !.queue = Append(@, i)])
           IN  /\ ShardsOK(m2)
               /\ DOMAIN m2 = DOMAIN waiting_for_shard \cup {s}
               /\ m2[s].inflight = ShardEntry(s).inflight
               /\ \A x \in DOMAIN waiting_for_shard :
                     x # s => m2[x] = waiting_for_shard[x]
               /\ QueuedByShard(m2) = QueuedByShard(waiting_for_shard) \cup {i}
<1> DEFINE m == waiting_for_shard
           s == ShardOf[i][1]
           q == ShardEntry(s).queue
           e == [ShardEntry(s) EXCEPT !.queue = Append(@, i)]
           m2 == Put(m, s, e)
<1>1. /\ ShardEntry(s) \in ShardEntries
      /\ IsInjective(q)
      /\ \A j \in ToSet(q) : InShard(j, s)
      /\ s \notin DOMAIN m => ToSet(q) = {}
      /\ s \in DOMAIN m => q = m[s].queue
  BY ShardEntryOK
<1>2. i \notin ToSet(q)
  BY <1>1, InShardQueue
<1>3. q \in Seq(Items)
  BY <1>1 DEF ShardEntries
<1>4. /\ e \in ShardEntries
      /\ e.queue = Append(q, i)
      /\ e.inflight = ShardEntry(s).inflight
  BY <1>1, <1>3, AppendToSet DEF ShardEntries
<1>5. ToSet(e.queue) = ToSet(q) \cup {i} /\ IsInjective(e.queue)
  BY <1>1, <1>2, <1>3, <1>4, AppendToSet
<1>6. \A j \in ToSet(e.queue) : InShard(j, s)
  BY <1>1, <1>5 DEF InShard
<1> HIDE DEF e, q
<1>7. /\ ShardsOK(m2)
      /\ DOMAIN m2 = DOMAIN m \cup {s}
      /\ m2[s] = e
      /\ \A x \in DOMAIN m : x # s => m2[x] = m[x]
  <2>1. ShardsOK(m) /\ e \in ShardEntries /\ IsInjective(e.queue)
    BY <1>4, <1>5
  <2> QED BY <1>6, <2>1, ShardPut
<1> HIDE DEF m2
<1>8. ASSUME NEW j
      PROVE  j \in QueuedByShard(m2) <=> j \in QueuedByShard(m) \cup {i}
  <2>1. j \in QueuedByShard(m2) => j \in QueuedByShard(m) \cup {i}
    <3> HAVE j \in QueuedByShard(m2)
    <3>1. PICK x \in DOMAIN m2 : j \in ToSet(m2[x].queue)
      BY InShardQueue
    <3>2. CASE x = s
      BY <1>1, <1>5, <1>7, <3>1, <3>2, InShardQueue
    <3>3. CASE x # s
      BY <1>7, <3>1, <3>3, InShardQueue
    <3> QED BY <3>2, <3>3
  <2>2. j \in QueuedByShard(m) => j \in QueuedByShard(m2)
    <3> HAVE j \in QueuedByShard(m)
    <3>1. PICK x \in DOMAIN m : j \in ToSet(m[x].queue)
      BY InShardQueue
    <3>2. CASE x = s
      BY <1>1, <1>5, <1>7, <3>1, <3>2, InShardQueue
    <3>3. CASE x # s
      BY <1>7, <3>1, <3>3, InShardQueue
    <3> QED BY <3>2, <3>3
  <2>3. i \in QueuedByShard(m2)
    BY <1>5, <1>7, InShardQueue
  <2> QED BY <2>1, <2>2, <2>3
<1>9. QueuedByShard(m2) = QueuedByShard(m) \cup {i}
  BY <1>8
<1> QED BY <1>4, <1>7, <1>9 DEF m2, e

\* An unfold is counted in its shard.
LEMMA ShardCounted ==
    ASSUME ShardsOK(waiting_for_shard), NEW s
    PROVE  LET m2 == Put(waiting_for_shard, s,
                         [ShardEntry(s) EXCEPT !.inflight = @ + 1])
           IN  /\ ShardsOK(m2)
               /\ DOMAIN m2 = DOMAIN waiting_for_shard \cup {s}
               /\ m2[s].inflight = ShardEntry(s).inflight + 1
               /\ m2[s].queue = ShardEntry(s).queue
               /\ \A x \in DOMAIN waiting_for_shard :
                     x # s => m2[x] = waiting_for_shard[x]
               /\ QueuedByShard(m2) = QueuedByShard(waiting_for_shard)
<1> DEFINE m == waiting_for_shard
           q == ShardEntry(s).queue
           e == [ShardEntry(s) EXCEPT !.inflight = @ + 1]
           m2 == Put(m, s, e)
<1>1. /\ ShardEntry(s) \in ShardEntries
      /\ IsInjective(q)
      /\ \A j \in ToSet(q) : InShard(j, s)
      /\ s \notin DOMAIN m => ToSet(q) = {}
      /\ s \in DOMAIN m => q = m[s].queue
  BY ShardEntryOK
<1>2. /\ e \in ShardEntries
      /\ e.queue = q
      /\ e.inflight = ShardEntry(s).inflight + 1
  BY <1>1 DEF ShardEntries
<1> HIDE DEF e, q
<1>3. /\ ShardsOK(m2)
      /\ DOMAIN m2 = DOMAIN m \cup {s}
      /\ m2[s] = e
      /\ \A x \in DOMAIN m : x # s => m2[x] = m[x]
  <2>1. /\ ShardsOK(m) /\ e \in ShardEntries /\ IsInjective(e.queue)
        /\ \A j \in ToSet(e.queue) : InShard(j, s)
    BY <1>1, <1>2
  <2>2. ShardsOK(m2)
    BY <2>1, ShardPut
  <2>3. /\ DOMAIN m2 = DOMAIN m \cup {s}
        /\ m2[s] = e
        /\ \A x \in DOMAIN m : x # s => m2[x] = m[x]
    BY DEF Put
  <2> QED BY <2>2, <2>3
<1> HIDE DEF m2
<1>4. ASSUME NEW j
      PROVE  j \in QueuedByShard(m2) <=> j \in QueuedByShard(m)
  <2>1. j \in QueuedByShard(m2) => j \in QueuedByShard(m)
    <3> HAVE j \in QueuedByShard(m2)
    <3>1. PICK x \in DOMAIN m2 : j \in ToSet(m2[x].queue)
      BY InShardQueue
    <3>2. CASE x = s
      BY <1>1, <1>2, <1>3, <3>1, <3>2, InShardQueue
    <3>3. CASE x # s
      BY <1>3, <3>1, <3>3, InShardQueue
    <3> QED BY <3>2, <3>3
  <2>2. j \in QueuedByShard(m) => j \in QueuedByShard(m2)
    <3> HAVE j \in QueuedByShard(m)
    <3>1. PICK x \in DOMAIN m : j \in ToSet(m[x].queue)
      BY InShardQueue
    <3>2. CASE x = s
      BY <1>1, <1>2, <1>3, <3>1, <3>2, InShardQueue
    <3>3. CASE x # s
      BY <1>3, <3>1, <3>3, InShardQueue
    <3> QED BY <3>2, <3>3
  <2> QED BY <2>1, <2>2
<1>5. QueuedByShard(m2) = QueuedByShard(m)
  BY <1>4
<1> QED BY <1>2, <1>3, <1>5 DEF m2, e, q

\* The end of an unfold counts it out of its shard and takes the first input
\* out of the shard's queue.
LEMMA ShardFreed ==
    ASSUME ShardsOK(waiting_for_shard), NEW i
    PROVE  LET m == waiting_for_shard
               m2 == ShardReleased(i)
           IN  /\ ShardsOK(m2)
               /\ DOMAIN m2 = DOMAIN m
               /\ \A s \in DOMAIN m : ~InShard(i, s) => m2[s] = m[s]
               /\ \A s \in DOMAIN m : InShard(i, s) =>
                     /\ m2[s].inflight <= m[s].inflight
                     /\ m2[s].inflight # 0 => m2[s].inflight = m[s].inflight - 1
                     /\ m[s].queue # <<>> => NextOfShard(i) # <<>>
               /\ NextOfShard(i) \in Seq(Items)
               /\ IsInjective(NextOfShard(i))
               /\ ToSet(NextOfShard(i)) \subseteq QueuedByShard(m)
               /\ \A j \in ToSet(NextOfShard(i)) : InShard(j, ShardOf[i][1])
               /\ NextOfShard(i) # <<>> => ToSet(NextOfShard(i)) # {}
               /\ QueuedByShard(m2) =
                     QueuedByShard(m) \ ToSet(NextOfShard(i))
<1> DEFINE m == waiting_for_shard
           m2 == ShardReleased(i)
           next == NextOfShard(i)
           s0 == ShardOf[i][1]
<1>1. \A s \in DOMAIN m : m[s] \in ShardEntries
  BY DEF ShardsOK
<1>2. \A s \in DOMAIN m : s \in ReleasedShard(i) <=> InShard(i, s)
  BY DEF ReleasedShard, InShard
<1>3. DOMAIN m2 = DOMAIN m /\ m2 = [s \in DOMAIN m2 |-> m2[s]]
  BY DEF ShardReleased
<1>4. \A s \in DOMAIN m : ~InShard(i, s) => m2[s] = m[s]
  BY <1>2 DEF ShardReleased
<1>5. ASSUME NEW s \in DOMAIN m, InShard(i, s)
      PROVE  /\ m2[s].inflight \in Nat
             /\ m2[s].inflight <= m[s].inflight
             /\ m2[s].inflight # 0 => m2[s].inflight = m[s].inflight - 1
             /\ m2[s].queue = IF m[s].queue = <<>> THEN <<>> ELSE Tail(m[s].queue)
             /\ DOMAIN m2[s] = {"inflight", "queue"}
             /\ m2[s] = [inflight |-> m2[s].inflight, queue |-> m2[s].queue]
  <2> DEFINE n == m[s].inflight
  <2>1. n \in Nat
    BY <1>1 DEF ShardEntries
  <2>2. m2[s] = [inflight |-> Max({n - 1, 0}),
                 queue |-> IF m[s].queue = <<>> THEN <<>> ELSE Tail(m[s].queue)]
    BY <1>2, <1>5 DEF ShardReleased
  <2> HIDE DEF n
  <2>3. Max({n - 1, 0}) = IF n - 1 >= 0 THEN n - 1 ELSE 0
    <3>1. CASE n - 1 >= 0
      <4>1. \A y \in {n - 1, 0} : n - 1 >= y
        BY <2>1, <3>1
      <4>2. \A x \in {n - 1, 0} : (\A y \in {n - 1, 0} : x >= y) => x = n - 1
        BY <2>1, <3>1
      <4> QED BY <3>1, <4>1, <4>2 DEF Max
    <3>2. CASE ~(n - 1 >= 0)
      <4>1. \A y \in {n - 1, 0} : 0 >= y
        BY <2>1, <3>2
      <4>2. \A x \in {n - 1, 0} : (\A y \in {n - 1, 0} : x >= y) => x = 0
        BY <2>1, <3>2
      <4> QED BY <3>2, <4>1, <4>2 DEF Max
    <3> QED BY <3>1, <3>2
  <2>4. m2[s].inflight = IF n - 1 >= 0 THEN n - 1 ELSE 0
    BY <2>2, <2>3
  <2>5. /\ m2[s].inflight \in Nat
        /\ m2[s].inflight <= n
        /\ m2[s].inflight # 0 => m2[s].inflight = n - 1
    BY <2>1, <2>4
  <2>6. /\ m2[s].queue = IF m[s].queue = <<>> THEN <<>> ELSE Tail(m[s].queue)
        /\ DOMAIN m2[s] = {"inflight", "queue"}
        /\ m2[s] = [inflight |-> m2[s].inflight, queue |-> m2[s].queue]
    BY <2>2
  <2> QED BY <2>5, <2>6 DEF n
<1>6. ASSUME NEW s \in DOMAIN m, InShard(i, s), m[s].queue # <<>>
      PROVE  /\ next = <<Head(m[s].queue)>>
             /\ s = s0
  <2>1. s \in {x \in ReleasedShard(i) : waiting_for_shard[x].queue # <<>>}
    BY <1>2, <1>6
  <2>2. s = s0
    BY <1>6 DEF InShard
  <2> QED BY <2>1, <2>2 DEF NextOfShard
<1>7. ASSUME \A s \in DOMAIN m : InShard(i, s) => m[s].queue = <<>>
      PROVE  next = <<>>
  <2>1. {x \in ReleasedShard(i) : waiting_for_shard[x].queue # <<>>} = {}
    BY <1>2, <1>7 DEF ReleasedShard
  <2> QED BY <2>1 DEF NextOfShard
<1>8. ToSet(<<>>) = {} /\ IsInjective(<<>>) /\ <<>> \in Seq(Items)
  BY EmptySeq DEF ToSet, IsInjective
<1> HIDE DEF m2, next, s0
<1>9. CASE \A s \in DOMAIN m : InShard(i, s) => m[s].queue = <<>>
  <2>1. \A s \in DOMAIN m : m2[s].queue = m[s].queue
    BY <1>4, <1>5, <1>9
  <2>2. \A s \in DOMAIN m : m2[s] \in ShardEntries
    <3> TAKE s \in DOMAIN m
    <3>1. CASE ~InShard(i, s)
      BY <1>1, <1>4, <3>1
    <3>2. CASE InShard(i, s)
      <4>1. m2[s].queue \in Seq(Items)
        BY <1>8, <1>9, <2>1, <3>2
      <4>2. /\ m2[s].inflight \in Nat
            /\ m2[s] = [inflight |-> m2[s].inflight, queue |-> m2[s].queue]
        BY <1>5, <3>2
      <4> QED BY <4>1, <4>2 DEF ShardEntries
    <3> QED BY <3>1, <3>2
  <2>3. m2 \in [DOMAIN m2 -> ShardEntries]
    BY <1>3, <2>2
  <2>4. ShardsOK(m2)
    BY <1>3, <2>1, <2>3 DEF ShardsOK
  <2>5. ASSUME NEW j
        PROVE  j \in QueuedByShard(m2) <=> j \in QueuedByShard(m)
    BY <1>3, <2>1, InShardQueue
  <2>6. next = <<>>
    BY <1>7, <1>9
  <2> QED BY <1>3, <1>4, <1>5, <1>8, <1>9, <2>4, <2>5, <2>6 DEF m2, next
<1>10. CASE \E s \in DOMAIN m : InShard(i, s) /\ m[s].queue # <<>>
  <2>1. PICK s \in DOMAIN m : InShard(i, s) /\ m[s].queue # <<>>
    BY <1>10
  <2>2. next = <<Head(m[s].queue)>> /\ s = s0
    BY <1>6, <2>1
  <2> DEFINE h == Head(m[s].queue)
             t == Tail(m[s].queue)
  <2>3. m[s].queue \in Seq(Items) /\ IsInjective(m[s].queue)
    BY <1>1 DEF ShardsOK, ShardEntries
  <2>4. /\ h \in Items /\ t \in Seq(Items)
        /\ ToSet(m[s].queue) = {h} \cup ToSet(t)
        /\ IsInjective(t)
        /\ h \notin ToSet(t)
    BY <2>1, <2>3, HeadTailToSet
  <2>5. InShard(h, s) /\ h \in QueuedByShard(m)
    BY <2>1, <2>4, InShardQueue DEF ShardsOK
  <2>6. m2[s].queue = t
    BY <1>5, <2>1
  <2>7. \A x \in DOMAIN m : x # s => m2[x] = m[x] /\ ~InShard(i, x)
    BY <1>4, <2>1 DEF InShard
  <2>8. \A x \in DOMAIN m : x # s => h \notin ToSet(m[x].queue)
    BY <2>5 DEF ShardsOK, InShard
  <2> HIDE DEF h, t
  <2>9. ToSet(next) = {h} /\ IsInjective(next) /\ next \in Seq(Items)
        /\ next # <<>>
    <3>1. next = <<h>>
      BY <2>2 DEF h
    <3> QED BY <2>4, <3>1 DEF ToSet, IsInjective
  <2>10. m2[s] \in ShardEntries
    <3>1. /\ m2[s].inflight \in Nat
          /\ m2[s] = [inflight |-> m2[s].inflight, queue |-> m2[s].queue]
      BY <1>5, <2>1
    <3>2. m2[s].queue \in Seq(Items)
      BY <2>4, <2>6
    <3> QED BY <3>1, <3>2 DEF ShardEntries
  <2>11. m2 \in [DOMAIN m2 -> ShardEntries]
    BY <1>1, <1>3, <2>7, <2>10
  <2>12. ASSUME NEW x \in DOMAIN m2
         PROVE  IsInjective(m2[x].queue) /\ \A j \in ToSet(m2[x].queue) : InShard(j, x)
    <3>1. CASE x = s
      BY <2>4, <2>6, <3>1 DEF ShardsOK
    <3>2. CASE x # s
      BY <1>3, <2>7, <3>2 DEF ShardsOK
    <3> QED BY <3>1, <3>2
  <2>13. ShardsOK(m2)
    BY <2>11, <2>12 DEF ShardsOK
  <2>14. ASSUME NEW j
         PROVE  j \in QueuedByShard(m2) <=> j \in QueuedByShard(m) /\ j # h
    <3>1. j \in QueuedByShard(m2) => j \in QueuedByShard(m) /\ j # h
      <4> HAVE j \in QueuedByShard(m2)
      <4>1. PICK x \in DOMAIN m2 : j \in ToSet(m2[x].queue)
        BY InShardQueue
      <4>2. CASE x = s
        BY <2>4, <2>6, <4>1, <4>2, InShardQueue
      <4>3. CASE x # s
        BY <1>3, <2>7, <2>8, <4>1, <4>3, InShardQueue
      <4> QED BY <4>2, <4>3
    <3>2. j \in QueuedByShard(m) /\ j # h => j \in QueuedByShard(m2)
      <4> HAVE j \in QueuedByShard(m) /\ j # h
      <4>1. PICK x \in DOMAIN m : j \in ToSet(m[x].queue)
        BY InShardQueue
      <4>2. CASE x = s
        BY <1>3, <2>4, <2>6, <4>1, <4>2, InShardQueue
      <4>3. CASE x # s
        BY <1>3, <2>7, <4>1, <4>3, InShardQueue
      <4> QED BY <4>2, <4>3
    <3> QED BY <3>1, <3>2
  <2>15. /\ ToSet(next) \subseteq QueuedByShard(m)
         /\ \A j \in ToSet(next) : InShard(j, s0)
         /\ QueuedByShard(m2) = QueuedByShard(m) \ ToSet(next)
    BY <2>2, <2>5, <2>9, <2>14
  <2> QED BY <1>3, <1>4, <1>5, <2>9, <2>13, <2>15 DEF m2, next, s0
<1> QED BY <1>9, <1>10

-----------------------------------------------------------------------------
(* Every step keeps the invariant and is a step of UnfoldStream.           *)

AbstractStep == [Abstract!Next]_(Abstract!vars)

\* The unfolds of shard s that run.
RunningOf(s) == {i \in scheduled : InShard(i, s)}

\* The inputs that run or are on their way to run.
Moving == scheduled \cup ToSet(unscheduled) \cup QueuedByKey(waiting_for_key)

PendingParts ==
    /\ Pending = ToSet(unscheduled) \cup QueuedByKey(waiting_for_key)
                     \cup QueuedByShard(waiting_for_shard)
    /\ KeyQueued = QueuedByKey(waiting_for_key)
    /\ Known = Pending \cup scheduled \cup finished

\* What waits behind a shard, said of Moving and RunningOf.
ServedParts ==
    /\ ShardWaitersServed <=>
          \A s \in DOMAIN waiting_for_shard :
              waiting_for_shard[s].queue # <<>> => \E i \in Moving : InShard(i, s)
    /\ InflightNotOver <=>
          \A s \in DOMAIN waiting_for_shard :
              waiting_for_shard[s].inflight <= Cardinality(RunningOf(s))

LEMMA PendingIs == PendingParts /\ PendingParts'
<1>1. PendingParts
  BY DEF PendingParts, Pending, Known, KeyQueued, ShardQueued, QueuedByKey,
         QueuedByShard
<1> QED BY <1>1, PTL

LEMMA ServedIs == ServedParts /\ ServedParts'
<1>1. \A s : {i \in scheduled : HasShard(i) /\ ShardOf[i][1] = s} = RunningOf(s)
  BY DEF RunningOf, InShard
<1>2. InflightNotOver <=>
          \A s \in DOMAIN waiting_for_shard :
              waiting_for_shard[s].inflight <= Cardinality(RunningOf(s))
  BY <1>1 DEF InflightNotOver
<1>3. Moving = scheduled \cup ToSet(unscheduled) \cup KeyQueued
  BY PendingIs DEF Moving, PendingParts
<1>4. ShardWaitersServed <=>
          \A s \in DOMAIN waiting_for_shard :
              waiting_for_shard[s].queue # <<>> => \E i \in Moving : InShard(i, s)
  BY <1>3 DEF ShardWaitersServed, InShard
<1>5. ServedParts
  BY <1>2, <1>4 DEF ServedParts
<1> QED BY <1>5, PTL

\* The input at the front of the queue is nowhere else.
LEMMA FrontInput ==
    ASSUME TypeOK, OnePlace, unscheduled # <<>>
    PROVE  LET i == Head(unscheduled)
               rest == Tail(unscheduled)
           IN  /\ i \in Items
               /\ rest \in Seq(Items)
               /\ IsInjective(rest)
               /\ ToSet(unscheduled) = {i} \cup ToSet(rest)
               /\ i \notin ToSet(rest)
               /\ i \notin QueuedByKey(waiting_for_key)
               /\ i \notin QueuedByShard(waiting_for_shard)
               /\ i \notin scheduled
               /\ i \notin finished
<1>1. unscheduled \in Seq(Items) /\ IsInjective(unscheduled)
  BY DEF TypeOK, OnePlace
<1> DEFINE i == Head(unscheduled)
           rest == Tail(unscheduled)
<1>2. /\ i \in Items /\ rest \in Seq(Items)
      /\ ToSet(unscheduled) = {i} \cup ToSet(rest)
      /\ IsInjective(rest) /\ i \notin ToSet(rest)
  BY <1>1, HeadTailToSet
<1> HIDE DEF i, rest
<1>3. /\ i \notin QueuedByKey(waiting_for_key)
      /\ i \notin QueuedByShard(waiting_for_shard)
      /\ i \notin scheduled
      /\ i \notin finished
  BY <1>2 DEF OnePlace, Apart
<1> QED BY <1>2, <1>3 DEF i, rest

LEMMA ParkOnKeyInv == IInv /\ ParkOnKey => IInv' /\ UNCHANGED Abstract!vars
<1> SUFFICES ASSUME IInv, ParkOnKey PROVE IInv' /\ UNCHANGED Abstract!vars
  OBVIOUS
<1> DEFINE i == Head(unscheduled)
           U == ToSet(unscheduled)
           K == QueuedByKey(waiting_for_key)
           H == QueuedByShard(waiting_for_shard)
<1>1. /\ unscheduled # <<>>
      /\ KeyOf[i] \in DOMAIN waiting_for_key
      /\ waiting_for_key' = [waiting_for_key EXCEPT ![KeyOf[i]] = Append(@, i)]
      /\ unscheduled' = Tail(unscheduled)
      /\ UNCHANGED <<scheduled, waiting_for_shard, finished, ended>>
  BY DEF ParkOnKey, HasSlot
<1>2. /\ i \in Items
      /\ unscheduled' \in Seq(Items)
      /\ IsInjective(unscheduled')
      /\ U = {i} \cup U'
      /\ i \notin U' /\ i \notin K /\ i \notin H /\ i \notin scheduled
      /\ i \notin finished
  BY <1>1, FrontInput DEF IInv
<1>3. KeysOK(waiting_for_key)
  BY DEF IInv, OnePlace
<1>4. /\ KeysOK(waiting_for_key')
      /\ DOMAIN waiting_for_key' = DOMAIN waiting_for_key
      /\ K' = K \cup {i}
  BY <1>1, <1>2, <1>3, KeyParked
<1>5. H' = H
  BY <1>1 DEF QueuedByShard
<1>6. OnePlace'
  <2>1. Apart(U, K, H, scheduled, finished)
    BY DEF IInv, OnePlace
  <2> HIDE DEF U, K, H, i
  <2>2. Apart(U', K', H', scheduled', finished')
    BY <1>1, <1>2, <1>4, <1>5, <2>1 DEF Apart
  <2>3. ShardsOK(waiting_for_shard')
    BY <1>1 DEF IInv, OnePlace
  <2> QED BY <1>2, <1>4, <2>2, <2>3 DEF OnePlace, U, K, H
<1>7. TypeOK'
  BY <1>1, <1>2, <1>4 DEF IInv, TypeOK, KeysOK
<1>8. SlotsKept'
  BY <1>1 DEF IInv, SlotsKept
<1>9. Moving' = Moving
  BY <1>1, <1>2, <1>4 DEF Moving
<1>10. \A s : RunningOf(s)' = RunningOf(s)
  BY <1>1 DEF RunningOf
<1>11. WaitersServed'
  <2>1. KeyWaitersServed'
    BY <1>1, <1>4 DEF IInv, WaitersServed, KeyWaitersServed
  <2>2. ShardWaitersServed' /\ InflightNotOver'
    BY <1>1, <1>9, <1>10, ServedIs DEF IInv, WaitersServed, ServedParts
  <2> QED BY <2>1, <2>2 DEF WaitersServed
<1>12. Pending' = Pending
  BY <1>2, <1>4, <1>5, PendingIs DEF PendingParts
<1> QED BY <1>1, <1>6, <1>7, <1>8, <1>11, <1>12 DEF IInv, Abstract!vars

LEMMA RunningFinite ==
    ASSUME SlotsKept, NEW s
    PROVE  IsFiniteSet(RunningOf(s)) /\ Cardinality(RunningOf(s)) \in Nat
<1>1. RunningOf(s) \subseteq scheduled /\ IsFiniteSet(scheduled)
  BY DEF RunningOf, SlotsKept
<1>2. IsFiniteSet(RunningOf(s))
  BY <1>1, FS_Subset
<1> QED BY <1>2, FS_CardinalityType

\* A shard is busy only while one of its unfolds runs.
LEMMA ParkOnShardInv == IInv /\ ParkOnShard => IInv' /\ UNCHANGED Abstract!vars
<1> SUFFICES ASSUME IInv, ParkOnShard PROVE IInv' /\ UNCHANGED Abstract!vars
  OBVIOUS
<1> DEFINE i == Head(unscheduled)
           s == ShardOf[i][1]
           U == ToSet(unscheduled)
           K == QueuedByKey(waiting_for_key)
           H == QueuedByShard(waiting_for_shard)
<1>1. /\ unscheduled # <<>>
      /\ ShardBusy(i)
      /\ waiting_for_shard' =
            Put(waiting_for_shard, s,
                [ShardEntry(s) EXCEPT !.queue = Append(@, i)])
      /\ unscheduled' = Tail(unscheduled)
      /\ UNCHANGED <<scheduled, waiting_for_key, finished, ended>>
  BY DEF ParkOnShard, HasSlot
<1>2. /\ i \in Items
      /\ unscheduled' \in Seq(Items)
      /\ IsInjective(unscheduled')
      /\ U = {i} \cup U'
      /\ i \notin U' /\ i \notin K /\ i \notin H /\ i \notin scheduled
      /\ i \notin finished
  BY <1>1, FrontInput DEF IInv
<1>3. HasShard(i) /\ ShardEntry(s).inflight > ShardOf[i][2]
  BY <1>1 DEF ShardBusy
<1>4. ShardsOK(waiting_for_shard)
  BY DEF IInv, OnePlace
<1>5. /\ ShardsOK(waiting_for_shard')
      /\ DOMAIN waiting_for_shard' = DOMAIN waiting_for_shard \cup {s}
      /\ waiting_for_shard'[s].inflight = ShardEntry(s).inflight
      /\ \A x \in DOMAIN waiting_for_shard :
            x # s => waiting_for_shard'[x] = waiting_for_shard[x]
      /\ H' = H \cup {i}
  BY <1>1, <1>2, <1>3, <1>4, ShardParked
<1>6. /\ s \in DOMAIN waiting_for_shard
      /\ ShardEntry(s) = waiting_for_shard[s]
      /\ waiting_for_shard[s].inflight \in Nat
      /\ waiting_for_shard[s].inflight # 0
  <2>1. ShardOf[i][2] \in Nat
    BY <1>2, <1>3, LimitedByKeyConstants DEF HasShard
  <2>2. ShardEntry(s).inflight \in Nat
    BY <1>4, ShardEntryOK DEF ShardEntries
  <2>3. ShardEntry(s).inflight # 0
    BY <1>3, <2>1, <2>2
  <2> QED BY <1>4, <2>2, <2>3, ShardEntryOK
<1> HIDE DEF U, K, H, i, s
<1>7. K' = K
  BY <1>1 DEF K
<1>8. OnePlace'
  <2>1. Apart(U, K, H, scheduled, finished)
    BY DEF IInv, OnePlace, U, K, H
  <2>2. Apart(U', K', H', scheduled', finished')
    BY <1>1, <1>2, <1>5, <1>7, <2>1 DEF Apart
  <2>3. KeysOK(waiting_for_key')
    BY <1>1 DEF IInv, OnePlace
  <2> QED BY <1>2, <1>5, <2>2, <2>3 DEF OnePlace, U, K, H
<1>9. TypeOK'
  BY <1>1, <1>2, <1>5 DEF IInv, TypeOK, ShardsOK
<1>10. SlotsKept'
  BY <1>1 DEF IInv, SlotsKept
<1>11. \A x : RunningOf(x)' = RunningOf(x)
  BY <1>1 DEF RunningOf
<1>12. PICK j \in scheduled : InShard(j, s)
  <2>1. waiting_for_shard[s].inflight <= Cardinality(RunningOf(s))
    BY <1>6, ServedIs DEF IInv, WaitersServed, ServedParts
  <2>2. Cardinality(RunningOf(s)) # 0
    BY <1>6, <2>1, RunningFinite DEF IInv
  <2>3. RunningOf(s) # {}
    BY <2>2, FS_EmptySet
  <2> QED BY <2>3 DEF RunningOf
<1>13. WaitersServed'
  <2>1. KeyWaitersServed'
    BY <1>1 DEF IInv, WaitersServed, KeyWaitersServed
  <2>2. ASSUME NEW x \in DOMAIN waiting_for_shard',
               waiting_for_shard'[x].queue # <<>>
        PROVE  \E k \in Moving' : InShard(k, x)
    <3>1. CASE x = s
      BY <1>1, <1>12, <3>1 DEF Moving
    <3>2. CASE x # s
      <4>1. x \in DOMAIN waiting_for_shard /\ waiting_for_shard[x].queue # <<>>
        BY <1>5, <2>2, <3>2
      <4>2. PICK k \in Moving : InShard(k, x)
        BY <4>1, ServedIs DEF IInv, WaitersServed, ServedParts
      <4>3. k # i
        BY <3>2, <4>2 DEF InShard, s
      <4>4. k \in Moving'
        BY <1>1, <1>2, <4>2, <4>3 DEF Moving, U
      <4> QED BY <4>2, <4>4
    <3> QED BY <3>1, <3>2
  <2>3. ASSUME NEW x \in DOMAIN waiting_for_shard'
        PROVE  waiting_for_shard'[x].inflight <= Cardinality(RunningOf(x)')
    <3>1. x \in DOMAIN waiting_for_shard
          /\ waiting_for_shard'[x].inflight = waiting_for_shard[x].inflight
      BY <1>5, <1>6
    <3>2. waiting_for_shard[x].inflight <= Cardinality(RunningOf(x))
      BY <3>1, ServedIs DEF IInv, WaitersServed, ServedParts
    <3> QED BY <1>11, <3>1, <3>2
  <2>4. ShardWaitersServed' /\ InflightNotOver'
    BY <2>2, <2>3, ServedIs DEF ServedParts
  <2> QED BY <2>1, <2>4 DEF WaitersServed
<1>14. Pending' = Pending
  BY <1>2, <1>5, <1>7, PendingIs DEF PendingParts, U, K, H
<1> QED BY <1>1, <1>8, <1>9, <1>10, <1>13, <1>14 DEF IInv, Abstract!vars

\* UnfoldStream counts as LimitedByKey does.
LEMMA SameCount == \A S : Abstract!Cardinality(S) = Cardinality(S)
BY DEF Abstract!Cardinality, Cardinality

LEMMA StartUnfoldInv == IInv /\ StartUnfold => IInv' /\ Abstract!Next
<1> SUFFICES ASSUME IInv, StartUnfold PROVE IInv' /\ Abstract!Next
  OBVIOUS
<1> DEFINE i == Head(unscheduled)
           s == ShardOf[i][1]
           U == ToSet(unscheduled)
           K == QueuedByKey(waiting_for_key)
           H == QueuedByShard(waiting_for_shard)
<1>1. /\ unscheduled # <<>>
      /\ Cardinality(scheduled) < ScheduledMax
      /\ KeyOf[i] \notin DOMAIN waiting_for_key
      /\ waiting_for_shard' =
            IF HasShard(i)
            THEN Put(waiting_for_shard, s,
                     [ShardEntry(s) EXCEPT !.inflight = @ + 1])
            ELSE waiting_for_shard
      /\ waiting_for_key' = Put(waiting_for_key, KeyOf[i], <<>>)
      /\ scheduled' = scheduled \cup {i}
      /\ unscheduled' = Tail(unscheduled)
      /\ UNCHANGED <<finished, ended>>
  BY DEF StartUnfold, HasSlot
<1>2. /\ i \in Items
      /\ unscheduled' \in Seq(Items)
      /\ IsInjective(unscheduled')
      /\ U = {i} \cup U'
      /\ i \notin U' /\ i \notin K /\ i \notin H /\ i \notin scheduled
      /\ i \notin finished
  BY <1>1, FrontInput DEF IInv
<1>3. ShardsOK(waiting_for_shard) /\ KeysOK(waiting_for_key)
  BY DEF IInv, OnePlace
<1>4. /\ KeysOK(waiting_for_key')
      /\ DOMAIN waiting_for_key' = DOMAIN waiting_for_key \cup {KeyOf[i]}
      /\ K' = K
  BY <1>1, <1>3, KeyTaken
<1>5. ASSUME HasShard(i)
      PROVE  /\ ShardsOK(waiting_for_shard')
             /\ DOMAIN waiting_for_shard' = DOMAIN waiting_for_shard \cup {s}
             /\ waiting_for_shard'[s].inflight = ShardEntry(s).inflight + 1
             /\ \A x \in DOMAIN waiting_for_shard :
                   x # s => waiting_for_shard'[x] = waiting_for_shard[x]
             /\ H' = H
  BY <1>1, <1>3, <1>5, ShardCounted
<1>6. ASSUME ~HasShard(i)
      PROVE  waiting_for_shard' = waiting_for_shard
  BY <1>1, <1>6
<1>7. ShardsOK(waiting_for_shard') /\ H' = H
  BY <1>3, <1>5, <1>6
<1>8. /\ ShardEntry(s).inflight \in Nat
      /\ s \notin DOMAIN waiting_for_shard => ShardEntry(s).inflight = 0
      /\ s \in DOMAIN waiting_for_shard =>
            ShardEntry(s) = waiting_for_shard[s]
  BY <1>3, ShardEntryOK DEF ShardEntries
<1> HIDE DEF U, K, H, i, s
<1>9. OnePlace'
  <2>1. Apart(U, K, H, scheduled, finished)
    BY DEF IInv, OnePlace, U, K, H
  <2>2. Apart(U', K', H', scheduled', finished')
    BY <1>1, <1>2, <1>4, <1>7, <2>1 DEF Apart
  <2> QED BY <1>2, <1>4, <1>7, <2>2 DEF OnePlace, U, K, H
<1>10. TypeOK'
  BY <1>1, <1>2, <1>4, <1>7 DEF IInv, TypeOK, ShardsOK, KeysOK
<1>11. SlotsKept'
  <2>1. /\ IsFiniteSet(scheduled')
        /\ Cardinality(scheduled') = Cardinality(scheduled) + 1
    BY <1>1, <1>2, FS_AddElement DEF IInv, SlotsKept
  <2>2. Cardinality(scheduled) \in Nat
    BY FS_CardinalityType DEF IInv, SlotsKept
  <2> QED BY <1>1, <2>1, <2>2, LimitedByKeyConstants DEF SlotsKept
<1>12. Moving' = Moving
  BY <1>1, <1>2, <1>4 DEF Moving, U, K
<1>13. i \in Moving'
  BY <1>1 DEF Moving
<1>14. \A x : RunningOf(x)' = IF InShard(i, x) THEN RunningOf(x) \cup {i}
                              ELSE RunningOf(x)
  BY <1>1 DEF RunningOf
<1>15. WaitersServed'
  <2>1. KeyWaitersServed'
    BY <1>1, <1>4 DEF IInv, WaitersServed, KeyWaitersServed
  <2>2. ASSUME NEW x \in DOMAIN waiting_for_shard',
               waiting_for_shard'[x].queue # <<>>
        PROVE  \E k \in Moving' : InShard(k, x)
    <3>1. CASE InShard(i, x)
      BY <1>13, <3>1
    <3>2. CASE ~InShard(i, x)
      <4>1. x \in DOMAIN waiting_for_shard /\ waiting_for_shard[x].queue # <<>>
        BY <1>5, <1>6, <2>2, <3>2 DEF InShard, s
      <4> QED BY <1>12, <4>1, ServedIs DEF IInv, WaitersServed, ServedParts
    <3> QED BY <3>1, <3>2
  <2>3. ASSUME NEW x \in DOMAIN waiting_for_shard'
        PROVE  waiting_for_shard'[x].inflight <= Cardinality(RunningOf(x)')
    <3>1. CASE InShard(i, x)
      <4>1. x = s /\ HasShard(i)
        BY <3>1 DEF InShard, s
      <4>2. i \notin RunningOf(x)
        BY <1>2 DEF RunningOf
      <4>3. Cardinality(RunningOf(x)') = Cardinality(RunningOf(x)) + 1
        BY <1>14, <3>1, <4>2, RunningFinite, FS_AddElement DEF IInv
      <4>4. ShardEntry(s).inflight <= Cardinality(RunningOf(x))
        BY <1>8, <4>1, ServedIs, RunningFinite
           DEF IInv, WaitersServed, ServedParts
      <4> QED BY <1>5, <1>8, <4>1, <4>3, <4>4, RunningFinite DEF IInv
    <3>2. CASE ~InShard(i, x)
      <4>1. x \in DOMAIN waiting_for_shard
            /\ waiting_for_shard'[x] = waiting_for_shard[x]
        BY <1>5, <1>6, <3>2 DEF InShard, s
      <4>2. waiting_for_shard[x].inflight <= Cardinality(RunningOf(x))
        BY <4>1, ServedIs DEF IInv, WaitersServed, ServedParts
      <4> QED BY <1>14, <3>2, <4>1, <4>2
    <3> QED BY <3>1, <3>2
  <2>4. ShardWaitersServed' /\ InflightNotOver'
    BY <2>2, <2>3, ServedIs DEF ServedParts
  <2> QED BY <2>1, <2>4 DEF WaitersServed
<1>16. Abstract!Start({i})
  <2>1. i \in Pending /\ Pending' = Pending \ {i}
    BY <1>2, <1>4, <1>7, PendingIs DEF PendingParts, U, K, H
  <2>2. Cardinality(scheduled \cup {i}) <= ScheduledMax
    BY <1>1, <1>11 DEF SlotsKept
  <2> QED BY <1>1, <2>1, <2>2, SameCount DEF Abstract!Start
<1>17. Abstract!Next
  <2>1. {i} \in SUBSET Pending
    BY <1>16 DEF Abstract!Start
  <2> QED BY <1>16, <2>1 DEF Abstract!Next
<1> QED BY <1>9, <1>10, <1>11, <1>15, <1>17 DEF IInv

\* The children of an unfold are inputs never seen before.
LEMMA NewInputs ==
    ASSUME NEW kids \in Children
    PROVE  /\ kids \in Seq(Items)
           /\ Reverse(kids) \in Seq(Items)
           /\ IsInjective(Reverse(kids))
           /\ ToSet(Reverse(kids)) = ToSet(kids)
           /\ ToSet(kids) \in SUBSET (Items \ Known)
<1>1. PICK n \in 0..MaxChildren : kids \in [1..n -> Items \ Known]
  BY DEF Children
<1>2. IsInjective(kids)
  BY DEF Children
<1>3. n \in Nat
  BY LimitedByKeyConstants
<1>4. kids \in Seq(Items \ Known)
  BY <1>1, <1>3
<1>5. kids \in Seq(Items)
  BY <1>1, <1>3
<1>6. ToSet(kids) \subseteq Items \ Known
  BY <1>1 DEF ToSet
<1> QED BY <1>2, <1>5, <1>6, ReverseFacts

\* A slot that is given up is taken by at most one input.
LEMMA SlotReused ==
    ASSUME NEW R, IsFiniteSet(R), NEW i \in R, NEW N, \A x, y \in N : x = y
    PROVE  /\ IsFiniteSet((R \ {i}) \cup N)
           /\ Cardinality((R \ {i}) \cup N) <= Cardinality(R)
<1>1. /\ IsFiniteSet(R \ {i})
      /\ Cardinality(R \ {i}) = Cardinality(R) - 1
  BY FS_RemoveElement
<1>2. Cardinality(R) \in Nat /\ Cardinality(R \ {i}) \in Nat
  BY <1>1, FS_CardinalityType
<1>3. CASE N = {}
  <2>1. (R \ {i}) \cup N = R \ {i}
    BY <1>3
  <2> QED BY <1>1, <1>2, <2>1
<1>4. CASE N # {}
  <2>1. PICK x \in N : TRUE
    BY <1>4
  <2>2. N = {x}
    BY <2>1
  <2>3. /\ IsFiniteSet((R \ {i}) \cup {x})
        /\ Cardinality((R \ {i}) \cup {x}) =
              IF x \in R \ {i} THEN Cardinality(R \ {i})
              ELSE Cardinality(R \ {i}) + 1
    BY <1>1, FS_AddElement
  <2> QED BY <1>1, <1>2, <2>2, <2>3
<1> QED BY <1>3, <1>4

LEMMA UnfoldDoneInv == IInv /\ UnfoldDone => IInv' /\ Abstract!Next
<1> SUFFICES ASSUME IInv, UnfoldDone PROVE IInv' /\ Abstract!Next
  OBVIOUS
<1>1. PICK i \in scheduled, kids \in Children :
          /\ scheduled' = (scheduled \ {i}) \cup NextOfKey(KeyOf[i])
          /\ waiting_for_key' = KeyReleased(KeyOf[i])
          /\ waiting_for_shard' = ShardReleased(i)
          /\ unscheduled' = Reverse(kids) \o NextOfShard(i) \o unscheduled
          /\ finished' = finished \cup {i}
  BY DEF UnfoldDone
<1>2. ended' = ended
  BY DEF UnfoldDone
<1> DEFINE k == KeyOf[i]
           U == ToSet(unscheduled)
           K == QueuedByKey(waiting_for_key)
           H == QueuedByShard(waiting_for_shard)
           N1 == NextOfKey(k)
           N2 == ToSet(NextOfShard(i))
           C == ToSet(kids)
<1>3. /\ unscheduled \in Seq(Items) /\ scheduled \subseteq Items
      /\ finished \subseteq Items /\ ended \in BOOLEAN
      /\ IsInjective(unscheduled)
      /\ KeysOK(waiting_for_key)
      /\ ShardsOK(waiting_for_shard)
      /\ Apart(U, K, H, scheduled, finished)
  BY DEF IInv, TypeOK, OnePlace
<1>4. /\ KeysOK(waiting_for_key')
      /\ DOMAIN waiting_for_key' \subseteq DOMAIN waiting_for_key
      /\ k \in DOMAIN waiting_for_key' => N1 # {}
      /\ N1 \subseteq K
      /\ \A j \in N1 : KeyOf[j] = k
      /\ \A x, y \in N1 : x = y
      /\ K' = K \ N1
  BY <1>1, <1>3, KeyFreed
<1>5. /\ ShardsOK(waiting_for_shard')
      /\ DOMAIN waiting_for_shard' = DOMAIN waiting_for_shard
      /\ \A s \in DOMAIN waiting_for_shard :
            ~InShard(i, s) => waiting_for_shard'[s] = waiting_for_shard[s]
      /\ \A s \in DOMAIN waiting_for_shard : InShard(i, s) =>
            /\ waiting_for_shard'[s].inflight <= waiting_for_shard[s].inflight
            /\ waiting_for_shard'[s].inflight # 0 =>
                  waiting_for_shard'[s].inflight =
                      waiting_for_shard[s].inflight - 1
            /\ waiting_for_shard[s].queue # <<>> => NextOfShard(i) # <<>>
      /\ NextOfShard(i) \in Seq(Items)
      /\ IsInjective(NextOfShard(i))
      /\ N2 \subseteq H
      /\ \A j \in N2 : InShard(j, ShardOf[i][1])
      /\ NextOfShard(i) # <<>> => N2 # {}
      /\ H' = H \ N2
  BY <1>1, <1>3, ShardFreed
<1>6. /\ Reverse(kids) \in Seq(Items)
      /\ IsInjective(Reverse(kids))
      /\ ToSet(Reverse(kids)) = C
      /\ C \in SUBSET (Items \ Known)
  BY NewInputs
<1>7. C \cap (U \cup K \cup H \cup scheduled \cup finished) = {}
  BY <1>6, PendingIs DEF PendingParts
<1> HIDE DEF U, K, H, N1, N2, C, k
\* The children C and the shard's next input N2 are queued, the key's next
\* input N1 runs.
<1>8. /\ Apart(C \cup N2 \cup U, K \ N1, H \ N2, (scheduled \ {i}) \cup N1,
               finished \cup {i})
      /\ (C \cup N2 \cup U) \cup (K \ N1) \cup (H \ N2) =
            ((U \cup K \cup H) \ N1) \cup C
      /\ N1 \subseteq U \cup K \cup H
      /\ C \cap N2 = {} /\ (C \cup N2) \cap U = {}
      /\ N1 \cap scheduled = {}
  <2>1. Apart(U, K, H, scheduled, finished)
    BY <1>3
  <2>2. N1 \in SUBSET K /\ N2 \in SUBSET H
    BY <1>4, <1>5
  <2>3. i \in scheduled
    BY <1>1
  <2>4. Apart(C \cup N2 \cup U, K \ N1, H \ N2, (scheduled \ {i}) \cup N1,
              finished \cup {i})
    BY <1>7, <2>1, <2>2, <2>3, SMT DEF Apart
  <2>5. (C \cup N2 \cup U) \cup (K \ N1) \cup (H \ N2) =
            ((U \cup K \cup H) \ N1) \cup C
    BY <1>7, <2>1, <2>2, SMT DEF Apart
  <2>6. /\ N1 \subseteq U \cup K \cup H
        /\ C \cap N2 = {} /\ (C \cup N2) \cap U = {}
        /\ N1 \cap scheduled = {}
    BY <1>7, <2>1, <2>2, SMT DEF Apart
  <2> QED BY <2>4, <2>5, <2>6
<1>9. /\ unscheduled' \in Seq(Items)
      /\ IsInjective(unscheduled')
      /\ U' = C \cup N2 \cup U
  <2> DEFINE front == Reverse(kids) \o NextOfShard(i)
  <2>1. front \in Seq(Items)
    BY <1>5, <1>6, ConcatProperties
  <2>2. ToSet(front) = C \cup N2
    BY <1>5, <1>6, ConcatToSet DEF N2
  <2>3. IsInjective(front)
    <3>1. ToSet(Reverse(kids)) \cap ToSet(NextOfShard(i)) = {}
      BY <1>6, <1>8 DEF N2
    <3> QED BY <1>5, <1>6, <3>1, ConcatInjective
  <2>4. unscheduled' = front \o unscheduled
    BY <1>1
  <2> HIDE DEF front
  <2>5. unscheduled' \in Seq(Items)
    BY <1>3, <2>1, <2>4, ConcatProperties
  <2>6. U' = C \cup N2 \cup U
    BY <1>3, <2>1, <2>2, <2>4, ConcatToSet DEF U
  <2>7. IsInjective(unscheduled')
    <3>1. ToSet(front) \cap ToSet(unscheduled) = {}
      BY <1>8, <2>2 DEF U
    <3> QED BY <1>3, <2>1, <2>3, <2>4, <3>1, ConcatInjective
  <2> QED BY <2>5, <2>6, <2>7
<1>10. scheduled' = (scheduled \ {i}) \cup N1
  BY <1>1 DEF N1, k
<1>11. OnePlace'
  <2>1. Apart(U', K', H', scheduled', finished')
    BY <1>1, <1>4, <1>5, <1>8, <1>9, <1>10
  <2> QED BY <1>4, <1>5, <1>9, <2>1 DEF OnePlace, U, K, H
<1>12. TypeOK'
  <2>1. K \subseteq Items
    <3> SUFFICES ASSUME NEW j \in K PROVE j \in Items
      OBVIOUS
    <3>1. PICK x \in DOMAIN waiting_for_key : j \in ToSet(waiting_for_key[x])
      BY InKeyQueue DEF K
    <3>2. waiting_for_key[x] \in Seq(Items)
      BY <1>3 DEF KeysOK
    <3>3. PICK n \in DOMAIN waiting_for_key[x] : j = waiting_for_key[x][n]
      BY <3>1 DEF ToSet
    <3> QED BY <3>2, <3>3
  <2>2. scheduled' \subseteq Items /\ finished' \subseteq Items
    BY <1>1, <1>3, <1>4, <1>10, <2>1
  <2>3. /\ waiting_for_key' \in [DOMAIN waiting_for_key' -> Seq(Items)]
        /\ waiting_for_shard' \in [DOMAIN waiting_for_shard' -> ShardEntries]
    BY <1>4, <1>5 DEF KeysOK, ShardsOK
  <2> QED BY <1>2, <1>3, <1>9, <2>2, <2>3 DEF TypeOK
<1>13. SlotsKept'
  <2>1. /\ IsFiniteSet(scheduled') 
        /\ Cardinality(scheduled') <= Cardinality(scheduled)
    BY <1>4, <1>10, SlotReused DEF IInv, SlotsKept
  <2>2. Cardinality(scheduled) \in Nat /\ Cardinality(scheduled') \in Nat
    BY <2>1, FS_CardinalityType DEF IInv, SlotsKept
  <2> QED BY <2>1, <2>2, LimitedByKeyConstants DEF IInv, SlotsKept
<1>14. KeyWaitersServed'
  <2> SUFFICES ASSUME NEW x \in DOMAIN waiting_for_key'
               PROVE  \E j \in scheduled' : KeyOf[j] = x
    BY DEF KeyWaitersServed
  <2>1. CASE x = k
    BY <1>4, <1>10, <2>1
  <2>2. CASE x # k
    <3>1. PICK j \in scheduled : KeyOf[j] = x
      BY <1>4 DEF IInv, WaitersServed, KeyWaitersServed
    <3>2. j # i
      BY <2>2, <3>1 DEF k
    <3> QED BY <1>10, <3>1, <3>2
  <2> QED BY <2>1, <2>2
<1>15. Moving \ {i} \subseteq Moving' /\ N2 \subseteq Moving'
  BY <1>4, <1>9, <1>10 DEF Moving, U, K
<1>16. ASSUME NEW x \in DOMAIN waiting_for_shard',
              waiting_for_shard'[x].queue # <<>>
       PROVE  \E j \in Moving' : InShard(j, x)
  <2>1. CASE ~InShard(i, x)
    <3>1. x \in DOMAIN waiting_for_shard /\ waiting_for_shard[x].queue # <<>>
      BY <1>5, <1>16, <2>1
    <3>2. PICK j \in Moving : InShard(j, x)
      BY <3>1, ServedIs DEF IInv, WaitersServed, ServedParts
    <3> QED BY <1>15, <2>1, <3>2
  <2>2. CASE InShard(i, x)
    <3>1. waiting_for_shard[x].queue # <<>>
      <4> SUFFICES ASSUME waiting_for_shard[x].queue = <<>> PROVE FALSE
        OBVIOUS
      <4>1. x \in ReleasedShard(i) /\ x \in DOMAIN waiting_for_shard
        BY <1>5, <2>2 DEF ReleasedShard, InShard
      <4>2. waiting_for_shard'[x].queue = <<>>
        BY <1>1, <4>1 DEF ShardReleased
      <4> QED BY <1>16, <4>2
    <3>2. N2 # {}
      BY <1>5, <2>2, <3>1
    <3>3. PICK j \in N2 : TRUE
      BY <3>2
    <3>4. InShard(j, x)
      BY <1>5, <2>2, <3>3 DEF InShard
    <3> QED BY <1>15, <3>3, <3>4
  <2> QED BY <2>1, <2>2
<1>17. ASSUME NEW x \in DOMAIN waiting_for_shard'
       PROVE  waiting_for_shard'[x].inflight <= Cardinality(RunningOf(x)')
  <2>1. x \in DOMAIN waiting_for_shard
        /\ waiting_for_shard[x].inflight <= Cardinality(RunningOf(x))
    BY <1>5, ServedIs DEF IInv, WaitersServed, ServedParts
  <2>2. waiting_for_shard'[x].inflight \in Nat
        /\ waiting_for_shard[x].inflight \in Nat
    BY <1>3, <1>5, <2>1 DEF ShardsOK, ShardEntries
  <2>3. IsFiniteSet(RunningOf(x)) /\ Cardinality(RunningOf(x)) \in Nat
    BY RunningFinite DEF IInv
  <2>4. IsFiniteSet(RunningOf(x)') /\ Cardinality(RunningOf(x)') \in Nat
    <3>1. RunningOf(x)' \subseteq scheduled' /\ IsFiniteSet(scheduled')
      BY <1>13 DEF RunningOf, SlotsKept
    <3>2. IsFiniteSet(RunningOf(x)')
      BY <3>1, FS_Subset
    <3> QED BY <3>2, FS_CardinalityType
  <2>5. CASE ~InShard(i, x)
    <3>1. RunningOf(x) \subseteq RunningOf(x)'
      BY <1>10, <2>5 DEF RunningOf
    <3>2. Cardinality(RunningOf(x)) <= Cardinality(RunningOf(x)')
      BY <2>4, <3>1, FS_Subset
    <3>3. waiting_for_shard'[x] = waiting_for_shard[x]
      BY <1>5, <2>1, <2>5
    <3> QED BY <2>1, <2>2, <2>3, <2>4, <3>2, <3>3
  <2>6. CASE InShard(i, x)
    <3>1. i \in RunningOf(x) /\ RunningOf(x) \ {i} \subseteq RunningOf(x)'
      BY <1>10, <2>6 DEF RunningOf
    <3>2. Cardinality(RunningOf(x) \ {i}) = Cardinality(RunningOf(x)) - 1
      BY <2>3, <3>1, FS_RemoveElement
    <3>3. Cardinality(RunningOf(x) \ {i}) <= Cardinality(RunningOf(x)')
      BY <2>4, <3>1, FS_Subset
    <3>4. waiting_for_shard'[x].inflight # 0 =>
              waiting_for_shard'[x].inflight = waiting_for_shard[x].inflight - 1
      BY <1>5, <2>1, <2>6
    <3> QED BY <2>1, <2>2, <2>3, <2>4, <3>2, <3>3, <3>4
  <2> QED BY <2>5, <2>6
<1>18. WaitersServed'
  BY <1>14, <1>16, <1>17, ServedIs DEF WaitersServed, ServedParts
<1>19. Abstract!Finish(i, C, N1)
  <2>1. Pending = U \cup K \cup H /\ Pending' = U' \cup K' \cup H'
    BY PendingIs DEF PendingParts, U, K, H
  <2>2. Pending' = (Pending \ N1) \cup C /\ N1 \subseteq Pending
    BY <1>4, <1>5, <1>8, <1>9, <2>1
  <2>3. Cardinality((scheduled \ {i}) \cup N1) <= ScheduledMax
    BY <1>10, <1>13 DEF SlotsKept
  <2>4. C \cap (Pending \cup scheduled \cup finished) = {}
    BY <1>7, <2>1
  <2> QED
    BY <1>1, <1>2, <1>10, <2>2, <2>3, <2>4, SameCount
       DEF Abstract!Finish, Abstract!Known
<1>20. Abstract!Next
  <2>1. C \in SUBSET (Items \ Abstract!Known)
    BY <1>6, PendingIs DEF PendingParts, Abstract!Known
  <2>2. N1 \in SUBSET Pending
    BY <1>19 DEF Abstract!Finish
  <2> QED BY <1>19, <2>1, <2>2 DEF Abstract!Next
<1> QED BY <1>11, <1>12, <1>13, <1>18, <1>20 DEF IInv

\* Whatever is parked has somebody to wait for, so that None comes when
\* nothing is left.
LEMMA EndOfStreamInv == IInv /\ EndOfStream => IInv' /\ Abstract!Next
<1> SUFFICES ASSUME IInv, EndOfStream PROVE IInv' /\ Abstract!Next
  OBVIOUS
<1>1. /\ scheduled = {} /\ unscheduled = <<>> /\ ended' = TRUE
      /\ UNCHANGED <<unscheduled, scheduled, waiting_for_key,
                     waiting_for_shard, finished>>
  BY DEF EndOfStream
<1>2. IInv'
  <2>1. TypeOK'
    BY <1>1 DEF IInv, TypeOK
  <2>2. OnePlace' /\ SlotsKept'
    BY <1>1 DEF IInv, OnePlace, SlotsKept
  <2>3. WaitersServed'
    BY <1>1 DEF IInv, WaitersServed, KeyWaitersServed, ShardWaitersServed,
                InflightNotOver, KeyQueued
  <2> QED BY <2>1, <2>2, <2>3 DEF IInv
<1>3. ToSet(unscheduled) = {}
  BY <1>1 DEF ToSet
<1>4. QueuedByKey(waiting_for_key) = {}
  <2>1. DOMAIN waiting_for_key = {}
    BY <1>1 DEF IInv, WaitersServed, KeyWaitersServed
  <2> QED BY <2>1 DEF QueuedByKey
<1>5. QueuedByShard(waiting_for_shard) = {}
  <2>1. Moving = {}
    BY <1>1, <1>3, <1>4 DEF Moving
  <2>2. \A s \in DOMAIN waiting_for_shard : waiting_for_shard[s].queue = <<>>
    BY <2>1, ServedIs DEF IInv, WaitersServed, ServedParts
  <2>3. \A s \in DOMAIN waiting_for_shard : ToSet(waiting_for_shard[s].queue) = {}
    BY <2>2 DEF ToSet
  <2> QED BY <2>3 DEF QueuedByShard
<1>6. Pending = {} /\ Pending' = Pending
  BY <1>1, <1>3, <1>4, <1>5, PendingIs DEF PendingParts
<1>7. Abstract!End
  BY <1>1, <1>6 DEF Abstract!End
<1> QED BY <1>2, <1>7 DEF Abstract!Next

LEMMA InitInv == Init => IInv /\ Abstract!Init
<1> SUFFICES ASSUME Init PROVE IInv /\ Abstract!Init
  OBVIOUS
<1>1. /\ unscheduled \in Seq(Items) /\ IsInjective(unscheduled)
      /\ scheduled = {} /\ finished = {} /\ ended = FALSE
      /\ waiting_for_key = <<>> /\ waiting_for_shard = <<>>
  BY LimitedByKeyConstants DEF Init
<1>2. DOMAIN waiting_for_key = {} /\ DOMAIN waiting_for_shard = {}
  BY <1>1
<1>3. KeysOK(waiting_for_key) /\ ShardsOK(waiting_for_shard)
  BY <1>1, <1>2 DEF KeysOK, ShardsOK
<1>4. QueuedByKey(waiting_for_key) = {} /\ QueuedByShard(waiting_for_shard) = {}
  BY <1>2 DEF QueuedByKey, QueuedByShard
<1>5. OnePlace
  BY <1>1, <1>3, <1>4 DEF OnePlace, Apart
<1>6. TypeOK
  BY <1>1, <1>3 DEF TypeOK, KeysOK, ShardsOK
<1>7. SlotsKept
  BY <1>1, FS_EmptySet, LimitedByKeyConstants DEF SlotsKept
<1>8. WaitersServed
  BY <1>2 DEF WaitersServed, KeyWaitersServed, ShardWaitersServed, InflightNotOver
<1>9. Pending \subseteq Items
  <2>1. Pending = ToSet(unscheduled)
    BY <1>4, PendingIs DEF PendingParts
  <2> QED BY <1>1, <2>1 DEF ToSet
<1> QED BY <1>1, <1>5, <1>6, <1>7, <1>8, <1>9 DEF IInv, Abstract!Init

LEMMA StepInv == IInv /\ [Next]_vars => IInv' /\ AbstractStep
<1> SUFFICES ASSUME IInv, [Next]_vars PROVE IInv' /\ AbstractStep
  OBVIOUS
<1>1. CASE ParkOnKey
  BY <1>1, ParkOnKeyInv DEF AbstractStep
<1>2. CASE ParkOnShard
  BY <1>2, ParkOnShardInv DEF AbstractStep
<1>3. CASE StartUnfold
  BY <1>3, StartUnfoldInv DEF AbstractStep
<1>4. CASE UnfoldDone
  BY <1>4, UnfoldDoneInv DEF AbstractStep
<1>5. CASE EndOfStream
  BY <1>5, EndOfStreamInv DEF AbstractStep
<1>6. CASE UNCHANGED vars
  <2>1. TypeOK'
    BY <1>6 DEF IInv, TypeOK, vars
  <2>2. OnePlace' /\ SlotsKept'
    BY <1>6 DEF IInv, OnePlace, SlotsKept, vars
  <2>3. WaitersServed'
    BY <1>6 DEF IInv, WaitersServed, KeyWaitersServed, ShardWaitersServed,
                InflightNotOver, KeyQueued, vars
  <2>4. Pending' = Pending
    BY <1>6, PendingIs DEF PendingParts, vars
  <2> QED BY <1>6, <2>1, <2>2, <2>3, <2>4 DEF IInv, AbstractStep, Abstract!vars, vars
<1> QED BY <1>1, <1>2, <1>3, <1>4, <1>5, <1>6 DEF Next

LEMMA Invariance == Spec => []IInv
BY InitInv, StepInv, PTL DEF Spec

-----------------------------------------------------------------------------
(* Theorems about limited_by_key_shardable.                                *)

\* Every variable keeps the type of its Rust counterpart.
THEOREM TypeCorrect == Spec => []TypeOK
<1>1. IInv => TypeOK
  BY DEF IInv
<1> QED BY <1>1, Invariance, PTL

\* No input is stranded behind a key or a shard, for any keys, shards, limits
\* and children.
THEOREM NoneStranded == Spec => []WaitersServed
<1>1. IInv => WaitersServed
  BY DEF IInv
<1> QED BY <1>1, Invariance, PTL

\* limited_by_key_shardable implements UnfoldStream: every input is unfolded
\* once, at most scheduled_max at a time, and None comes when none is left.
THEOREM LimitedByKeyRefines == Spec => IsUnfoldStream
<1>1. Init => Abstract!Init
  BY InitInv
<1>2. IInv /\ [Next]_vars => [Abstract!Next]_(Abstract!vars)
  BY StepInv DEF AbstractStep
<1> QED BY <1>1, <1>2, Invariance, PTL DEF Spec, IsUnfoldStream, Abstract!Spec

-----------------------------------------------------------------------------
(* bounded_traversal_stream, which parks nothing, over the same inputs.    *)

VARIABLE pc

Plain == INSTANCE BoundedTraversalStream

PlainAbstract == INSTANCE UnfoldStream
    WITH pending <- ToSet(unscheduled), running <- scheduled,
         ended <- (pc = "end")

PlainInv ==
    /\ pc \in {"top", "poll", "end"}
    /\ unscheduled \in Seq(Items)
    /\ IsInjective(unscheduled)
    /\ scheduled \subseteq Items /\ finished \subseteq Items
    /\ ToSet(unscheduled) \cap (scheduled \cup finished) = {}
    /\ scheduled \cap finished = {}
    /\ SlotsKept

PlainAbstractStep == [PlainAbstract!Next]_(PlainAbstract!vars)

\* The instances have copies of the library's operators.
LEMMA PlainOperators ==
    /\ \A S : PlainAbstract!Cardinality(S) = Cardinality(S)
    /\ \A S : Plain!Cardinality(S) = Cardinality(S)
    /\ \A q : Plain!ToSet(q) = ToSet(q)
    /\ \A q : Plain!Reverse(q) = Reverse(q)
    /\ \A q : Plain!IsInjective(q) <=> IsInjective(q)
    /\ \A S : Plain!Min(S) = Min(S)
<1>1. \A S : PlainAbstract!Cardinality(S) = Cardinality(S)
  BY DEF PlainAbstract!Cardinality, Cardinality
<1>2. \A S : Plain!Cardinality(S) = Cardinality(S)
  BY DEF Plain!Cardinality, Cardinality
<1>3. \A q : Plain!ToSet(q) = ToSet(q)
  BY DEF Plain!ToSet, ToSet
<1>4. \A q : Plain!Reverse(q) = Reverse(q)
  BY DEF Plain!Reverse, Reverse
<1>5. \A q : Plain!IsInjective(q) <=> IsInjective(q)
  BY DEF Plain!IsInjective, IsInjective
<1>6. \A S : Plain!Min(S) = Min(S)
  BY DEF Plain!Min, Min
<1> QED BY <1>1, <1>2, <1>3, <1>4, <1>5, <1>6

LEMMA PlainInitInv == Plain!Init => PlainInv /\ PlainAbstract!Init
<1> SUFFICES ASSUME Plain!Init PROVE PlainInv /\ PlainAbstract!Init
  OBVIOUS
<1>1. /\ pc = "top" /\ unscheduled = InitItems /\ scheduled = {}
      /\ finished = {}
      /\ unscheduled \in Seq(Items) /\ IsInjective(unscheduled)
  BY LimitedByKeyConstants DEF Plain!Init
<1>2. SlotsKept
  BY <1>1, FS_EmptySet, LimitedByKeyConstants DEF SlotsKept
<1>3. ToSet(unscheduled) \subseteq Items
  BY <1>1 DEF ToSet
<1>4. PlainInv
  BY <1>1, <1>2 DEF PlainInv
<1> QED BY <1>1, <1>3, <1>4 DEF PlainAbstract!Init

\* The inputs that get a slot fit: Room never exceeds what is free.
LEMMA PlainDrainInv == PlainInv /\ Plain!Drain => PlainInv' /\ PlainAbstractStep
<1> SUFFICES ASSUME PlainInv, Plain!Drain PROVE PlainInv' /\ PlainAbstractStep
  OBVIOUS
<1> DEFINE r == Plain!Room
           front == SubSeq(unscheduled, 1, r)
           back == SubSeq(unscheduled, r + 1, Len(unscheduled))
           A == ToSet(front)
<1>1. /\ pc = "top" /\ pc' = "poll" /\ finished' = finished
      /\ scheduled' = scheduled \cup A
      /\ unscheduled' = back
  BY PlainOperators DEF Plain!Drain
<1>2. /\ unscheduled \in Seq(Items) /\ IsInjective(unscheduled)
      /\ scheduled \subseteq Items /\ finished \subseteq Items
      /\ ToSet(unscheduled) \cap (scheduled \cup finished) = {}
      /\ scheduled \cap finished = {}
      /\ IsFiniteSet(scheduled) /\ Cardinality(scheduled) <= ScheduledMax
  BY DEF PlainInv, SlotsKept
<1>3. /\ Len(unscheduled) \in Nat
      /\ Cardinality(scheduled) \in Nat /\ ScheduledMax \in Nat
  BY <1>2, FS_CardinalityType, LimitedByKeyConstants
<1>4. /\ r \in 0..Len(unscheduled)
      /\ Cardinality(scheduled) + r <= ScheduledMax
  <2>1. r = Min({Len(unscheduled), ScheduledMax - Cardinality(scheduled)})
    BY PlainOperators DEF Plain!Room
  <2> QED BY <1>2, <1>3, <2>1 DEF Min
<1> HIDE DEF r
<1>5. /\ A \cup ToSet(back) = ToSet(unscheduled)
      /\ IsFiniteSet(A) /\ Cardinality(A) <= r
      /\ IsInjective(back) /\ A \cap ToSet(back) = {}
      /\ back \in Seq(Items)
  BY <1>2, <1>4, SplitToSet, SplitSeq
<1> HIDE DEF A, back
<1>6. A \subseteq Items
  <2>1. ToSet(unscheduled) \subseteq Items
    BY <1>2 DEF ToSet
  <2> QED BY <1>5, <2>1
<1>7. /\ IsFiniteSet(scheduled \cup A)
      /\ Cardinality(scheduled \cup A) <= ScheduledMax
  <2>1. scheduled \cap A = {}
    BY <1>2, <1>5
  <2>2. /\ IsFiniteSet(scheduled \cup A)
        /\ Cardinality(scheduled \cup A) =
              Cardinality(scheduled) + Cardinality(A) - Cardinality({})
    BY <1>2, <1>5, <2>1, FS_Union
  <2>3. Cardinality({}) = 0 /\ Cardinality(A) \in Nat
    BY <1>5, FS_EmptySet, FS_CardinalityType
  <2> QED BY <1>3, <1>4, <1>5, <2>2, <2>3
<1>8. PlainInv'
  <2>1. /\ pc' \in {"top", "poll", "end"}
        /\ unscheduled' \in Seq(Items) /\ IsInjective(unscheduled')
        /\ scheduled' \subseteq Items /\ finished' \subseteq Items
    BY <1>1, <1>2, <1>5, <1>6
  <2>2. /\ ToSet(unscheduled') \cap (scheduled' \cup finished') = {}
        /\ scheduled' \cap finished' = {}
    BY <1>1, <1>2, <1>5
  <2>3. SlotsKept'
    BY <1>1, <1>7 DEF SlotsKept
  <2> QED BY <2>1, <2>2, <2>3 DEF PlainInv
<1>9. ToSet(unscheduled)' = ToSet(unscheduled) \ A
  BY <1>1, <1>5
<1>10. CASE A = {}
  BY <1>1, <1>8, <1>9, <1>10 DEF PlainAbstractStep, PlainAbstract!vars
<1>11. CASE A # {}
  <2>1. PlainAbstract!Start(A)
    BY <1>1, <1>5, <1>7, <1>9, <1>11, PlainOperators DEF PlainAbstract!Start
  <2>2. A \in SUBSET ToSet(unscheduled)
    BY <1>5
  <2>3. PlainAbstract!Next
    BY <2>1, <2>2 DEF PlainAbstract!Next
  <2> QED BY <1>8, <2>3 DEF PlainAbstractStep
<1> QED BY <1>10, <1>11

\* The end of the unfold of i, with or without children.
LEMMA PlainFinishInv ==
    ASSUME PlainInv, pc = "poll", pc' = "top", NEW i \in scheduled, NEW q,
           q \in Seq(Items), IsInjective(q),
           ToSet(q) \in SUBSET (Items \ (ToSet(unscheduled) \cup scheduled
                                           \cup finished)),
           scheduled' = scheduled \ {i},
           unscheduled' = q \o unscheduled,
           finished' = finished \cup {i}
    PROVE  PlainInv' /\ PlainAbstractStep
<1> DEFINE C == ToSet(q)
           U == ToSet(unscheduled)
<1>1. /\ unscheduled \in Seq(Items) /\ IsInjective(unscheduled)
      /\ scheduled \subseteq Items /\ finished \subseteq Items
      /\ U \cap (scheduled \cup finished) = {}
      /\ scheduled \cap finished = {}
      /\ IsFiniteSet(scheduled) /\ Cardinality(scheduled) <= ScheduledMax
  BY DEF PlainInv, SlotsKept
<1>2. /\ ToSet(unscheduled') = C \cup U
      /\ unscheduled' \in Seq(Items)
  BY <1>1, ConcatToSet, ConcatProperties
<1>3. IsInjective(unscheduled')
  <2>1. C \cap U = {}
    OBVIOUS
  <2> QED BY <1>1, <2>1, ConcatInjective
<1>4. C \cap (U \cup scheduled \cup finished) = {}
  OBVIOUS
<1> HIDE DEF C, U
<1>5. IsFiniteSet(scheduled') /\ Cardinality(scheduled') <= ScheduledMax
  <2>1. /\ IsFiniteSet(scheduled \ {i})
        /\ Cardinality(scheduled \ {i}) = Cardinality(scheduled) - 1
    BY <1>1, FS_RemoveElement
  <2>2. Cardinality(scheduled) \in Nat /\ ScheduledMax \in Nat
    BY <1>1, FS_CardinalityType, LimitedByKeyConstants
  <2> QED BY <1>1, <2>1, <2>2
<1>6. PlainInv'
  <2>1. /\ pc' \in {"top", "poll", "end"}
        /\ scheduled' \subseteq Items /\ finished' \subseteq Items
    BY <1>1
  <2>2. ToSet(unscheduled') \cap (scheduled' \cup finished') = {}
    BY <1>1, <1>2, <1>4
  <2>3. scheduled' \cap finished' = {}
    BY <1>1
  <2>4. SlotsKept'
    BY <1>5 DEF SlotsKept
  <2> QED BY <1>2, <1>3, <2>1, <2>2, <2>3, <2>4 DEF PlainInv
<1>7. PlainAbstract!Finish(i, C, {})
  <2>1. (scheduled \ {i}) \cup {} = scheduled'
    OBVIOUS
  <2>2. (U \ {}) \cup C = ToSet(unscheduled')
    BY <1>2
  <2>3. Cardinality((scheduled \ {i}) \cup {}) <= ScheduledMax
    BY <1>5, <2>1
  <2> QED
    BY <1>4, <2>1, <2>2, <2>3, PlainOperators
       DEF PlainAbstract!Finish, PlainAbstract!Known, U
<1>8. C \in SUBSET (Items \ PlainAbstract!Known) /\ {} \in SUBSET U
  BY DEF PlainAbstract!Known, C
<1> QED BY <1>6, <1>7, <1>8 DEF PlainAbstract!Next, PlainAbstractStep, U

LEMMA PlainStepInv ==
    PlainInv /\ [Plain!Next]_(Plain!vars) => PlainInv' /\ PlainAbstractStep
<1> SUFFICES ASSUME PlainInv, [Plain!Next]_(Plain!vars)
             PROVE  PlainInv' /\ PlainAbstractStep
  OBVIOUS
<1>1. CASE Plain!EndOfStream
  <2>1. /\ pc' = "end" /\ scheduled = {} /\ unscheduled = <<>>
        /\ UNCHANGED <<unscheduled, scheduled, finished>>
    BY <1>1 DEF Plain!EndOfStream
  <2>2. PlainInv'
    BY <2>1 DEF PlainInv, SlotsKept
  <2>3. ToSet(unscheduled) = {} /\ ToSet(unscheduled)' = {}
    BY <2>1 DEF ToSet
  <2> QED
    BY <2>1, <2>2, <2>3 DEF PlainAbstractStep, PlainAbstract!Next,
                            PlainAbstract!End
<1>2. CASE Plain!Drain
  BY <1>2, PlainDrainInv
<1>3. CASE Plain!UnfoldDone
  <2>1. PICK i \in scheduled, kids \in Plain!Children :
            /\ scheduled' = scheduled \ {i}
            /\ unscheduled' = Reverse(kids) \o unscheduled
            /\ finished' = finished \cup {i}
    BY <1>3, PlainOperators DEF Plain!UnfoldDone, Plain!Queued
  <2>2. pc = "poll" /\ pc' = "top"
    BY <1>3 DEF Plain!UnfoldDone
  <2> DEFINE New == Items \ (ToSet(unscheduled) \cup scheduled \cup finished)
  <2>3. PICK n \in 0..MaxChildren : kids \in [1..n -> New]
    BY PlainOperators DEF Plain!Children, Plain!Known
  <2>4. IsInjective(kids)
    BY PlainOperators DEF Plain!Children
  <2>5. kids \in Seq(Items) /\ ToSet(kids) \in SUBSET New
    <3>1. n \in Nat
      BY LimitedByKeyConstants
    <3>2. kids \in Seq(New)
      BY <2>3, <3>1
    <3> QED BY <2>3, <3>1, <3>2 DEF ToSet
  <2>6. /\ Reverse(kids) \in Seq(Items)
        /\ IsInjective(Reverse(kids))
        /\ ToSet(Reverse(kids)) \in SUBSET New
    BY <2>4, <2>5, ReverseFacts
  <2> HIDE DEF New
  <2> QED BY <2>1, <2>2, <2>6, PlainFinishInv DEF New
<1>4. CASE Plain!UnfoldFailed
  <2>1. PICK i \in scheduled : /\ scheduled' = scheduled \ {i}
                               /\ finished' = finished \cup {i}
    BY <1>4 DEF Plain!UnfoldFailed
  <2>2. pc = "poll" /\ pc' = "top" /\ unscheduled' = unscheduled
    BY <1>4 DEF Plain!UnfoldFailed
  <2>3. /\ <<>> \in Seq(Items) /\ IsInjective(<<>>)
        /\ ToSet(<<>>) = {}
    BY DEF IsInjective, ToSet
  <2>4. unscheduled' = <<>> \o unscheduled
    BY <2>2 DEF PlainInv
  <2> QED BY <2>1, <2>2, <2>3, <2>4, PlainFinishInv
<1>5. CASE UNCHANGED Plain!vars
  <2>1. UNCHANGED <<pc, unscheduled, scheduled, finished>>
    BY <1>5 DEF Plain!vars
  <2>2. PlainInv'
    BY <2>1 DEF PlainInv, SlotsKept
  <2> QED BY <2>1, <2>2 DEF PlainAbstractStep, PlainAbstract!vars
<1> QED BY <1>1, <1>2, <1>3, <1>4, <1>5 DEF Plain!Next

\* bounded_traversal_stream implements UnfoldStream too: every input it is
\* given is unfolded exactly once, never more than ScheduledMax at a time, and
\* None comes only when nothing waits or runs.
THEOREM PlainStreamRefines == Plain!Spec => PlainAbstract!Spec
<1>1. PlainInv /\ [Plain!Next]_(Plain!vars) =>
          PlainInv' /\ [PlainAbstract!Next]_(PlainAbstract!vars)
  BY PlainStepInv DEF PlainAbstractStep
<1> QED BY <1>1, PlainInitInv, PTL DEF Plain!Spec, PlainAbstract!Spec

=============================================================================
