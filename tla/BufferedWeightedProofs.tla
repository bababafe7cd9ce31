----------------------- MODULE BufferedWeightedProofs -----------------------
(* Machine-checked proofs about BufferedWeighted.                          *)
EXTENDS BufferedWeighted, SequenceLemmas, SequenceTheorems, TLAPS

-----------------------------------------------------------------------------
(* The inductive invariant.                                                *)

\* A source that was seen to end has ended, and nothing of it is left over.
EndSeen ==
    /\ terminated => closed /\ source = <<>> /\ peeked = <<>>
    /\ pc = "ended" => terminated /\ queue = <<>>

\* With nothing queued, a poll that is past its filling loop has left the
\* waker with the source, unless the source has used it since.
SourceAsked ==
    pc = "drain" /\ queue = <<>> /\ ~terminated =>
        woken \/ (source_waker /\ source = <<>> /\ ~closed)

IInv ==
    /\ TypeOK
    /\ WeightBalanced
    /\ OrderKept
    /\ EndSeen
    /\ SourceAsked
    /\ WillBeWoken

-----------------------------------------------------------------------------
(* GlobalWeight.                                                           *)

\* A clamped weight is a weight the limit allows.
LEMMA ClampType ==
    \A w \in Nat : Clamp(w) \in Nat /\ Clamp(w) <= MaxWeight
BY BufferedWeightedConstants DEF Clamp

\* Nothing queued weighs nothing.
LEMMA NothingWeighsZero ==
    ASSUME NEW n \in Nat, AddUpTo(<<>>, n)
    PROVE  n = 0
BY DEF AddUpTo

\* add_weight: a future at the end of the queue adds its weight.
LEMMA AddUpToAppend ==
    ASSUME NEW q \in Seq(Future), NEW n \in Nat, NEW f \in Future,
           AddUpTo(q, n)
    PROVE  AddUpTo(Append(q, f), n + Clamp(f.weight))
<1> DEFINE w == Clamp(f.weight)
           len == Len(q)
           a == Append(q, f)
<1>1. w \in Nat
  BY ClampType DEF Future
<1>2. PICK sums \in [0..len -> 0..n] :
          /\ sums[0] = 0
          /\ sums[len] = n
          /\ \A i \in 1..len : sums[i] = sums[i - 1] + Clamp(q[i].weight)
  BY DEF AddUpTo
<1>3. /\ Len(a) = len + 1
      /\ a[len + 1] = f
      /\ \A i \in 1..len : a[i] = q[i]
  BY AppendProperties
<1>4. len \in Nat
  BY LenProperties
<1> DEFINE more == [i \in 0..(len + 1) |-> IF i = len + 1 THEN n + w ELSE sums[i]]
<1> HIDE DEF w, a, len
<1>5. more \in [0..(len + 1) -> 0..(n + w)]
  BY <1>1, <1>2, <1>4
<1>6. more[0] = 0 /\ more[len + 1] = n + w
  BY <1>2, <1>4
<1>7. ASSUME NEW i \in 1..(len + 1)
      PROVE  more[i] = more[i - 1] + Clamp(a[i].weight)
  <2>1. CASE i = len + 1
    <3>1. more[i] = n + w /\ more[i - 1] = sums[len]
      BY <1>4, <2>1
    <3> QED BY <1>2, <1>3, <2>1, <3>1 DEF w
  <2>2. CASE i # len + 1
    <3>1. i \in 1..len /\ i - 1 \in 0..len
      BY <1>4, <2>2
    <3>2. more[i] = sums[i] /\ more[i - 1] = sums[i - 1]
      BY <1>4, <3>1
    <3> QED BY <1>2, <1>3, <3>1, <3>2
  <2> QED BY <2>1, <2>2
<1> HIDE DEF more
<1> QED BY <1>3, <1>5, <1>6, <1>7 DEF AddUpTo, a, w

\* sub_weight: the first future takes its weight with it, and the weight in
\* use is at least that, so that checked_sub does not fail.
LEMMA AddUpToTail ==
    ASSUME NEW q \in Seq(Future), q # <<>>, NEW n \in Nat, AddUpTo(q, n)
    PROVE  /\ n - Clamp(q[1].weight) \in Nat
           /\ AddUpTo(Tail(q), n - Clamp(q[1].weight))
<1> DEFINE w == Clamp(q[1].weight)
           len == Len(q)
           t == Tail(q)
<1>1. PICK sums \in [0..len -> 0..n] :
          /\ sums[0] = 0
          /\ sums[len] = n
          /\ \A i \in 1..len : sums[i] = sums[i - 1] + Clamp(q[i].weight)
  BY DEF AddUpTo
<1>2. /\ len \in Nat \ {0}
      /\ Len(t) = len - 1
      /\ \A i \in 1..(len - 1) : t[i] = q[i + 1]
  BY EmptySeq, HeadTailProperties, LenProperties
<1>3. \A i \in 1..len : Clamp(q[i].weight) \in Nat
  <2> TAKE i \in 1..len
  <2>1. q[i] \in Future
    BY ElementOfSeq
  <2>2. q[i].weight \in Nat
    BY <2>1 DEF Future
  <2> QED BY <2>2, ClampType
<1>4. sums[1] = w
  <2>1. w \in Nat
    BY <1>2, <1>3
  <2> QED BY <1>1, <1>2, <2>1
<1> HIDE DEF w, t, len
<1>5. \A i \in 1..len : sums[1] <= sums[i]
  <2> SUFFICES ASSUME NEW j \in 1..len, sums[1] > sums[j]
               PROVE  FALSE
    BY <1>1, <1>2
  <2> DEFINE Low == {i \in Nat : i \in 1..len /\ sums[1] > sums[i]}
  <2>1. Low # {} /\ Low \in SUBSET Nat
    <3>1. j \in Low
      BY <1>2
    <3> QED BY <3>1
  <2>2. PICK m \in Low : \A i \in Low : m <= i
    BY <2>1, SmallestNat
  <2>3. m \in 1..len /\ sums[1] > sums[m]
    OBVIOUS
  <2>4. m - 1 \in 1..len
    BY <1>1, <1>2, <2>3
  <2>5. sums[m] >= sums[m - 1]
    <3>1. /\ sums[m] = sums[m - 1] + Clamp(q[m].weight)
          /\ Clamp(q[m].weight) \in Nat
      BY <1>1, <1>3, <2>3
    <3>2. sums[m - 1] \in Nat
      BY <1>1, <1>2, <2>4
    <3> QED BY <3>1, <3>2
  <2>6. m - 1 \in Low
    <3>1. sums[m - 1] \in Nat /\ sums[m] \in Nat /\ sums[1] \in Nat
      BY <1>1, <1>2, <2>3, <2>4
    <3>2. sums[1] > sums[m - 1]
      BY <2>3, <2>5, <3>1
    <3> QED BY <1>2, <2>4, <3>2
  <2> QED BY <2>2, <2>3, <2>6
<1>6. n - w \in Nat
  BY <1>1, <1>2, <1>4, <1>5
<1> DEFINE rest == [i \in 0..(len - 1) |-> sums[i + 1] - w]
<1>7. rest \in [0..(len - 1) -> 0..(n - w)]
  <2> SUFFICES ASSUME NEW i \in 0..(len - 1)
               PROVE  sums[i + 1] - w \in 0..(n - w)
    OBVIOUS
  <2>1. i + 1 \in 1..len
    BY <1>2
  <2>2. sums[i + 1] \in 0..n /\ sums[1] <= sums[i + 1]
    BY <1>1, <1>2, <1>5, <2>1
  <2> QED BY <1>1, <1>2, <1>4, <1>6, <2>2
<1>8. rest[0] = 0 /\ rest[len - 1] = n - w
  BY <1>1, <1>2, <1>4
<1>9. ASSUME NEW i \in 1..(len - 1)
      PROVE  rest[i] = rest[i - 1] + Clamp(t[i].weight)
  <2>1. i + 1 \in 1..len /\ i \in 0..(len - 1) /\ i - 1 \in 0..(len - 1)
    BY <1>2
  <2>2. rest[i] = sums[i + 1] - w /\ rest[i - 1] = sums[i] - w
    BY <1>2, <2>1
  <2>3. sums[i + 1] = sums[i] + Clamp(t[i].weight)
    <3>1. sums[i + 1] = sums[(i + 1) - 1] + Clamp(q[i + 1].weight)
      BY <1>1, <2>1
    <3>2. (i + 1) - 1 = i /\ t[i] = q[i + 1]
      BY <1>2
    <3> QED BY <3>1, <3>2
  <2>4. sums[i] \in Int /\ Clamp(t[i].weight) \in Int /\ w \in Int
    <3>1. t[i] = q[i + 1]
      BY <1>2
    <3>2. Clamp(q[i + 1].weight) \in Int
      BY <1>3, <2>1
    <3> QED BY <1>1, <1>2, <1>4, <2>1, <3>1, <3>2
  <2> QED BY <2>2, <2>3, <2>4
<1> HIDE DEF rest
<1> QED BY <1>2, <1>6, <1>7, <1>8, <1>9 DEF AddUpTo, w, t

\* The weight in use depends on the futures' weights only.
LEMMA AddUpToWeights ==
    ASSUME NEW q \in Seq(Future), NEW r \in Seq(Future), NEW n \in Nat,
           Len(r) = Len(q),
           \A i \in 1..Len(q) : r[i].weight = q[i].weight,
           AddUpTo(q, n)
    PROVE  AddUpTo(r, n)
BY DEF AddUpTo

-----------------------------------------------------------------------------
(* Every step keeps the invariant.                                         *)

LEMMA InitInv == Init => IInv
<1> SUFFICES ASSUME Init PROVE IInv
  OBVIOUS
<1>1. TypeOK
  <2>1. /\ source \in Seq(Nat) /\ out \in Seq(Nat)
        /\ queue \in Seq(Future) /\ peeked \in Seq(Future)
        /\ Len(peeked) <= 1
    BY EmptySeq DEF Init
  <2> QED BY <2>1 DEF Init, TypeOK
<1>4. OrderKept
  BY DEF Init, OrderKept
<1>5. EndSeen /\ SourceAsked /\ WillBeWoken
  BY DEF Init, EndSeen, SourceAsked, WillBeWoken
<1>2. AddUpTo(<<>>, 0)
  <2> DEFINE sums == [i \in 0..0 |-> 0]
  <2>1. sums \in [0..Len(<<>>) -> 0..0] /\ sums[0] = 0 /\ sums[Len(<<>>)] = 0
    OBVIOUS
  <2>2. \A i \in 1..Len(<<>>) : FALSE
    OBVIOUS
  <2> HIDE DEF sums
  <2> QED BY <2>1, <2>2 DEF AddUpTo
<1>3. WeightBalanced
  BY <1>2, BufferedWeightedConstants DEF WeightBalanced, Init
<1> QED BY <1>1, <1>3, <1>4, <1>5 DEF IInv

\* A poll that fills takes the source's next future, or asks to be woken, or
\* sees the end.
LEMMA PeekInv == IInv /\ (PeekReady \/ PeekPending \/ PeekEnd) => IInv'
<1> SUFFICES ASSUME IInv, PeekReady \/ PeekPending \/ PeekEnd PROVE IInv'
  OBVIOUS
<1> USE DEF IInv
<1>1. WeightBalanced'
  BY DEF PeekReady, PeekPending, PeekEnd, WeightBalanced
<1>2. CASE PeekReady
  <2>1. /\ Len(source) \in Nat \ {0}
        /\ Head(source) \in Nat
        /\ Tail(source) \in Seq(Nat)
        /\ Len(Tail(source)) = Len(source) - 1
    BY <1>2, EmptySeq, HeadTailProperties DEF TypeOK, PeekReady
  <2>2. produced = Len(out) + Len(queue) + Len(source)
    BY <1>2 DEF PeekReady, OrderKept, TypeOK
  <2> DEFINE f == [id |-> produced - Len(source) + 1, weight |-> Head(source),
                   done |-> FALSE]
  <2>3. f.id = Len(out) + Len(queue) + 1 /\ f \in Future
    BY <2>1, <2>2 DEF TypeOK, Future
  <2>4. peeked' = <<f>>
    BY <1>2 DEF PeekReady
  <2> HIDE DEF f
  <2>5. TypeOK'
    <3>1. peeked' \in Seq(Future) /\ Len(peeked') <= 1
      BY <2>3, <2>4
    <3> QED BY <1>2, <2>1, <3>1 DEF PeekReady, TypeOK, wakers
  <2>6. OrderKept'
    BY <1>2, <2>1, <2>2, <2>3, <2>4 DEF PeekReady, OrderKept, TypeOK
  <2>7. EndSeen' /\ SourceAsked' /\ WillBeWoken'
    BY <1>2 DEF PeekReady, EndSeen, SourceAsked, WillBeWoken
  <2> QED BY <1>1, <2>5, <2>6, <2>7
<1>3. CASE PeekPending \/ PeekEnd
  <2>1. TypeOK' /\ OrderKept'
    BY <1>3 DEF PeekPending, PeekEnd, TypeOK, OrderKept, srcVars, wakers
  <2>2. EndSeen' /\ SourceAsked' /\ WillBeWoken'
    BY <1>3 DEF PeekPending, PeekEnd, EndSeen, SourceAsked, WillBeWoken,
                srcVars, wakers
  <2> QED BY <1>1, <2>1, <2>2
<1> QED BY <1>2, <1>3

\* A future is refused only while others run: with nothing queued there is
\* room for any weight.
LEMMA RefuseInv == IInv /\ Refuse => IInv'
<1> SUFFICES ASSUME IInv, Refuse PROVE IInv'
  OBVIOUS
<1> USE DEF IInv
<1>1. queue # <<>>
  <2> SUFFICES ASSUME queue = <<>> PROVE FALSE
    OBVIOUS
  <2>1. current = 0
    BY NothingWeighsZero DEF WeightBalanced, TypeOK
  <2>2. peeked[1] \in Future
    BY EmptySeq, ElementOfSeq DEF Refuse, TypeOK
  <2>3. HasSpaceFor(peeked[1].weight)
    BY <2>1, <2>2, ClampType, BufferedWeightedConstants DEF HasSpaceFor, Future
  <2> QED BY <2>3 DEF Refuse, Refused
<1>2. TypeOK' /\ OrderKept' /\ WeightBalanced'
  BY DEF Refuse, TypeOK, OrderKept, WeightBalanced, srcVars, wakers
<1>3. EndSeen' /\ SourceAsked' /\ WillBeWoken'
  BY <1>1 DEF Refuse, EndSeen, SourceAsked, WillBeWoken, srcVars, wakers
<1> QED BY <1>2, <1>3

LEMMA AdmitInv == IInv /\ Admit => IInv'
<1> SUFFICES ASSUME IInv, Admit PROVE IInv'
  OBVIOUS
<1> USE DEF IInv
<1> DEFINE f == peeked[1]
<1>1. f \in Future /\ Len(peeked) = 1
  <2>1. peeked \in Seq(Future) /\ peeked # <<>> /\ Len(peeked) <= 1
    BY DEF Admit, TypeOK
  <2>2. Len(peeked) \in Nat \ {0}
    BY <2>1, EmptySeq
  <2> QED BY <2>1, <2>2, ElementOfSeq
<1>2. Clamp(f.weight) \in Nat
  BY <1>1, ClampType DEF Future
<1>3. /\ queue' = Append(queue, f)
      /\ current' = current + Clamp(f.weight)
      /\ peeked' = <<>>
  BY DEF Admit, AddWeight
<1>4. current + Clamp(f.weight) <= MaxWeight
  BY <1>2, BufferedWeightedConstants DEF Admit, Refused, HasSpaceFor, TypeOK
<1>5. f.id = Len(out) + Len(queue) + 1
  BY DEF Admit, OrderKept
<1> HIDE DEF f
<1>6. WeightBalanced'
  BY <1>1, <1>3, <1>4, AddUpToAppend DEF WeightBalanced, TypeOK
<1>7. /\ queue' \in Seq(Future)
      /\ Len(queue') = Len(queue) + 1
      /\ queue'[Len(queue) + 1] = f
      /\ \A i \in 1..Len(queue) : queue'[i] = queue[i]
      /\ queue' # <<>>
  <2>1. queue \in Seq(Future)
    BY DEF TypeOK
  <2> QED BY <1>1, <1>3, <2>1, AppendProperties
<1>8. TypeOK'
  BY <1>2, <1>3, <1>7 DEF Admit, TypeOK, srcVars, wakers
<1>9. OrderKept'
  <2>1. \A i \in 1..Len(queue') : queue'[i].id = Len(out) + i
    <3> TAKE i \in 1..Len(queue')
    <3>1. CASE i = Len(queue) + 1
      BY <1>5, <1>7, <3>1 DEF TypeOK
    <3>2. CASE i # Len(queue) + 1
      <4>1. i \in 1..Len(queue)
        BY <1>7, <3>2 DEF TypeOK
      <4> QED BY <1>7, <4>1 DEF OrderKept
    <3> QED BY <3>1, <3>2
  <2>2. out' = out /\ produced' = produced /\ source' = source
    BY DEF Admit, srcVars
  <2>3. produced = Len(out) + Len(queue) + Len(peeked) + Len(source)
    BY DEF OrderKept
  <2>4. produced' = Len(out') + Len(queue') + Len(peeked') + Len(source')
    BY <1>1, <1>3, <1>7, <2>2, <2>3 DEF TypeOK
  <2> QED BY <1>3, <2>1, <2>2, <2>4 DEF OrderKept
<1>10. EndSeen' /\ SourceAsked' /\ WillBeWoken'
  BY <1>1, <1>7 DEF Admit, EndSeen, SourceAsked, WillBeWoken, srcVars, wakers
<1> QED BY <1>6, <1>8, <1>9, <1>10

LEMMA YieldInv == IInv /\ Yield => IInv'
<1> SUFFICES ASSUME IInv, Yield PROVE IInv'
  OBVIOUS
<1> USE DEF IInv
<1>1. /\ queue' = Tail(queue)
      /\ out' = Append(out, queue[1].id)
      /\ current' = current - Clamp(queue[1].weight)
      /\ queue # <<>>
  BY DEF Yield, SubWeight
<1>2. current' \in Nat /\ AddUpTo(queue', current')
  BY <1>1, AddUpToTail DEF TypeOK, WeightBalanced
<1>3. queue[1] \in Future /\ Len(queue) \in Nat \ {0}
  BY <1>1, EmptySeq, ElementOfSeq DEF TypeOK
<1>4. WeightBalanced'
  <2>1. Clamp(queue[1].weight) \in Nat
    BY <1>3, ClampType DEF Future
  <2> QED
    BY <1>1, <1>2, <2>1, BufferedWeightedConstants DEF TypeOK, WeightBalanced
<1>5. /\ queue' \in Seq(Future)
      /\ Len(queue') = Len(queue) - 1
      /\ \A i \in 1..Len(queue') : queue'[i] = queue[i + 1]
  BY <1>1, HeadTailProperties DEF TypeOK
<1>6. queue[1].id = Len(out) + 1
  BY <1>3 DEF OrderKept
<1>7. /\ out' \in Seq(Nat)
      /\ Len(out') = Len(out) + 1
      /\ out'[Len(out) + 1] = Len(out) + 1
      /\ \A i \in 1..Len(out) : out'[i] = out[i]
  BY <1>1, <1>3, <1>6, AppendProperties DEF TypeOK, Future
<1>8. TypeOK'
  BY <1>2, <1>5, <1>7 DEF Yield, TypeOK, srcVars, wakers
<1>9. OrderKept'
  <2>1. \A i \in 1..Len(out') : out'[i] = i
    <3> TAKE i \in 1..Len(out')
    <3>1. CASE i = Len(out) + 1
      BY <1>7, <3>1
    <3>2. CASE i # Len(out) + 1
      <4>1. i \in 1..Len(out)
        BY <1>7, <3>2 DEF TypeOK
      <4> QED BY <1>7, <4>1 DEF OrderKept
    <3> QED BY <3>1, <3>2
  <2>2. \A i \in 1..Len(queue') : queue'[i].id = Len(out') + i
    <3> TAKE i \in 1..Len(queue')
    <3>1. i + 1 \in 1..Len(queue)
      BY <1>3, <1>5
    <3>2. queue[i + 1].id = Len(out) + (i + 1)
      BY <3>1 DEF OrderKept
    <3>3. Len(out) + (i + 1) = Len(out') + i
      BY <1>3, <1>5, <1>7 DEF TypeOK
    <3> QED BY <1>5, <3>2, <3>3
  <2>3. Len(out') + Len(queue') = Len(out) + Len(queue)
    BY <1>3, <1>5, <1>7 DEF TypeOK
  <2>4. peeked' = peeked /\ produced' = produced /\ source' = source
    BY DEF Yield, srcVars
  <2> QED BY <2>1, <2>2, <2>3, <2>4 DEF OrderKept
<1>10. EndSeen' /\ SourceAsked' /\ WillBeWoken'
  BY DEF Yield, EndSeen, SourceAsked, WillBeWoken, srcVars, wakers
<1> QED BY <1>4, <1>8, <1>9, <1>10

\* The steps that only decide what the poll returns, and the next poll.
LEMMA ReturnInv ==
    IInv /\ (QueuePending \/ EndOfStream \/ SourcePending \/ Polled \/ Ended)
        => IInv'
<1> SUFFICES ASSUME IInv,
                    QueuePending \/ EndOfStream \/ SourcePending \/ Polled
                        \/ Ended
             PROVE  IInv'
  OBVIOUS
<1> USE DEF IInv, QueuePending, EndOfStream, SourcePending, Polled, Ended,
            srcVars, wakers, vars
<1>1. TypeOK'
  BY DEF TypeOK
<1>2. OrderKept' /\ WeightBalanced'
  BY DEF OrderKept, WeightBalanced
<1>3. EndSeen'
  BY DEF EndSeen
<1>4. SourceAsked' /\ WillBeWoken'
  BY DEF SourceAsked, WillBeWoken
<1> QED BY <1>1, <1>2, <1>3, <1>4

\* The source goes on while the task runs or sleeps.
LEMMA SourceInv == IInv /\ (Produce \/ Close) => IInv'
<1> SUFFICES ASSUME IInv, Produce \/ Close PROVE IInv'
  OBVIOUS
<1> USE DEF IInv
<1>1. WeightBalanced'
  BY DEF Produce, Close, WeightBalanced
<1>2. CASE Produce
  <2>1. PICK weight \in Weights : source' = Append(source, weight)
    BY <1>2 DEF Produce
  <2>2. source' \in Seq(Nat) /\ Len(source') = Len(source) + 1
    <3>1. source \in Seq(Nat) /\ weight \in Nat
      BY BufferedWeightedConstants DEF TypeOK
    <3> QED BY <2>1, <3>1, AppendProperties
  <2>3. TypeOK'
    <3>1. woken' \in BOOLEAN /\ source_waker' \in BOOLEAN
      BY <1>2 DEF Produce, TypeOK, WakeFromSource
    <3>2. produced' \in Nat
      BY <1>2 DEF Produce, TypeOK
    <3> QED BY <1>2, <2>2, <3>1, <3>2 DEF Produce, TypeOK, WakeFromSource
  <2>4. OrderKept'
    BY <1>2, <2>2 DEF Produce, OrderKept, TypeOK
  <2>5. EndSeen' /\ SourceAsked' /\ WillBeWoken'
    BY <1>2 DEF Produce, EndSeen, SourceAsked, WillBeWoken, WakeFromSource,
                TypeOK
  <2> QED BY <1>1, <2>3, <2>4, <2>5
<1>3. CASE Close
  <2>1. TypeOK' /\ OrderKept'
    BY <1>3 DEF Close, TypeOK, OrderKept, WakeFromSource
  <2>2. EndSeen' /\ SourceAsked' /\ WillBeWoken'
    BY <1>3 DEF Close, EndSeen, SourceAsked, WillBeWoken, WakeFromSource
  <2> QED BY <1>1, <2>1, <2>2
<1> QED BY <1>2, <1>3

\* Futures complete while the task runs or sleeps.
LEMMA CompleteInv == IInv /\ Complete => IInv'
<1> SUFFICES ASSUME IInv, Complete PROVE IInv'
  OBVIOUS
<1> USE DEF IInv
<1>1. PICK i \in 1..Len(queue) :
          ~queue[i].done /\ queue' = [queue EXCEPT ![i].done = TRUE]
  BY DEF Complete
<1> DEFINE f == [queue[i] EXCEPT !.done = TRUE]
<1>2. queue[i] \in Future
  BY ElementOfSeq DEF TypeOK
<1>3. /\ f \in Future
      /\ f.weight = queue[i].weight
      /\ f.id = queue[i].id
  BY <1>2 DEF Future
<1>4. queue' = [queue EXCEPT ![i] = f]
  BY <1>1
<1> HIDE DEF f
<1>5. /\ queue' \in Seq(Future)
      /\ Len(queue') = Len(queue)
      /\ \A j \in 1..Len(queue) : queue'[j] = IF j = i THEN f ELSE queue[j]
  BY <1>3, <1>4, ExceptSeq DEF TypeOK
<1>6. \A j \in 1..Len(queue) : /\ queue'[j].weight = queue[j].weight
                               /\ queue'[j].id = queue[j].id
  BY <1>3, <1>5
<1>7. WeightBalanced'
  BY <1>5, <1>6, AddUpToWeights DEF Complete, TypeOK, WeightBalanced
<1>8. TypeOK'
  BY <1>5 DEF Complete, TypeOK, srcVars
<1>9. OrderKept'
  BY <1>5, <1>6 DEF Complete, OrderKept, srcVars
<1>10. queue # <<>> /\ queue' # <<>>
  BY <1>5 DEF TypeOK
<1>11. EndSeen' /\ SourceAsked' /\ WillBeWoken'
  BY <1>10 DEF Complete, EndSeen, SourceAsked, WillBeWoken, srcVars
<1> QED BY <1>7, <1>8, <1>9, <1>11

LEMMA StepInv == IInv /\ [Next]_vars => IInv'
<1> SUFFICES ASSUME IInv, [Next]_vars PROVE IInv'
  OBVIOUS
<1>1. CASE Poll
  BY <1>1, PeekInv, RefuseInv, AdmitInv, YieldInv, ReturnInv DEF Poll
<1>2. CASE Produce \/ Close
  BY <1>2, SourceInv
<1>3. CASE Complete
  BY <1>3, CompleteInv
<1>4. CASE Ended
  BY <1>4, ReturnInv
<1>5. CASE UNCHANGED vars
  BY <1>5 DEF IInv, TypeOK, WeightBalanced, OrderKept, EndSeen, SourceAsked,
              WillBeWoken, vars
<1> QED BY <1>1, <1>2, <1>3, <1>4, <1>5 DEF Next

LEMMA Invariance == Spec => []IInv
BY InitInv, StepInv, PTL DEF Spec

-----------------------------------------------------------------------------
(* Theorems.                                                               *)

\* The weight in use never goes below zero: sub_weight's checked_sub has no
\* underflow to report.
THEOREM TypeCorrect == Spec => []TypeOK
<1>1. IInv => TypeOK
  BY DEF IInv
<1> QED BY <1>1, Invariance, PTL

\* What is admitted is what is released, and the futures that run never
\* weigh more than the maximum, for any maximum and any weights.
THEOREM WeightCorrect == Spec => []WeightBalanced
<1>1. IInv => WeightBalanced
  BY DEF IInv
<1> QED BY <1>1, Invariance, PTL

\* The outputs come in the source's order, each once, and at the end of the
\* stream none is missing: a peeked future cannot be left behind by is_done().
THEOREM OutputCorrect == Spec => []OutputOrdered
<1>1. IInv => OutputOrdered
  BY DEF IInv, OutputOrdered, NothingLeft, OrderKept, EndSeen, TypeOK
<1> QED BY <1>1, Invariance, PTL

\* poll_next never returns Pending without having left the waker with
\* somebody who will use it.
THEOREM NoLostWakeup == Spec => []WillBeWoken
<1>1. IInv => WillBeWoken
  BY DEF IInv
<1> QED BY <1>1, Invariance, PTL
=============================================================================
