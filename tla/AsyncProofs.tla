----------------------------- MODULE AsyncProofs -----------------------------
(* Proofs about MCAsync: first the state that threads and tasks share (the   *)
(* cells, the statistics, the detector and the knobs), then the adaptors of  *)
(* streams and futures, the retries, the bounded queues and the junctions.   *)
EXTENDS MCAsync, SequenceLemmas

-----------------------------------------------------------------------------
(* The cells.                                                                *)

CallerStates == {"idle", "locking", "initialising", "writing", "publishing",
                 "sharing", "returned", "dropped"}

\* Where a caller of AsyncOnceCell holds the mutex for sure.
Inside == {"initialising", "writing", "publishing"}

CellTypes ==
    /\ cell \in {"once", "lazy"}
    /\ caller \in [Callers -> CallerStates]
    /\ op \in [Callers -> Cells!Ops \cup {"none"}]
    /\ got \in [Callers -> Int]
    /\ holder \in Callers \cup {0}
    /\ lockers \in Seq(Callers)
    /\ value \in Nat
    /\ is_initialized \in BOOLEAN
    /\ shared \in Callers \cup {0}

\* The mutex: those who wait for it are waiting, each once, and its holder is
\* a caller that will hand it on.
Mutex ==
    /\ \A c \in ToSet(lockers) : caller[c] = "locking" /\ c # holder
    /\ IsInjective(lockers)
    /\ lockers # <<>> => holder # 0
    /\ holder # 0 => caller[holder] \in {"locking"} \cup Inside
    /\ \A c \in Callers : caller[c] \in Inside => holder = c

\* The slot is empty until the holder has written it, and then for the flag.
Slot ==
    /\ is_initialized => value # 0
    /\ value # 0 /\ ~is_initialized =>
           holder # 0 /\ caller[holder] = "publishing"
    /\ \A c \in Callers : caller[c] \in Inside => ~is_initialized
    /\ \A c \in Callers : caller[c] = "publishing" => value = c
    /\ \A c \in Callers :
           caller[c] = "returned" /\ got[c] > 0 =>
               got[c] = value /\ is_initialized
    /\ \A c \in Callers :
           caller[c] = "returned" /\ op[c] = "set" /\ got[c] = 0 => value = c

\* LazyShared has no mutex; AsyncOnceCell no shared future.
Kinds ==
    /\ cell = "lazy" =>
           /\ holder = 0 /\ lockers = <<>>
           /\ \A c \in Callers :
                  caller[c] \in {"idle", "sharing", "returned", "dropped"}
           /\ shared # 0 => value = IF is_initialized THEN shared ELSE 0
    /\ cell = "once" => \A c \in Callers : caller[c] # "sharing"
    /\ \A c \in Callers : caller[c] = "sharing" => shared # 0

CellInv == CellTypes /\ Mutex /\ Slot /\ Kinds

LEMMA CellsStart == Cells!Init => CellInv
<1> SUFFICES ASSUME Cells!Init PROVE CellInv
  OBVIOUS
<1> USE AsyncConstants DEF Cells!Init
<1>1. CellTypes
  <2>1. caller \in [Callers -> CallerStates]
    BY DEF CallerStates
  <2>2. op \in [Callers -> Cells!Ops \cup {"none"}] /\ got \in [Callers -> Int]
    OBVIOUS
  <2>3. lockers \in Seq(Callers) /\ value \in Nat
    OBVIOUS
  <2>4. is_initialized \in BOOLEAN
    BY Zenon
  <2> QED BY <2>1, <2>2, <2>3, <2>4 DEF CellTypes
<1>2. Mutex
  BY DEF Mutex, ToSet, IsInjective, Inside
<1>3. Slot
  BY DEF Slot, Inside
<1>4. Kinds
  BY DEF Kinds
<1> QED BY <1>1, <1>2, <1>3, <1>4 DEF CellInv

\* The invariant is what CellsSound says, and more.
LEMMA CellsImply == CellInv => Cells!CellsSound
<1> SUFFICES ASSUME CellInv PROVE Cells!CellsSound
  OBVIOUS
<1> USE AsyncConstants DEF CellInv
<1>1. \A c \in Callers : Cells!Wrote(c) => value = c
  BY DEF Slot, Cells!Wrote
<1>2. \A c \in Callers : caller[c] = "writing" => value = 0 /\ holder = c
  BY DEF Slot, Mutex, Inside
<1>3. holder # 0 =>
        caller[holder] \in {"locking", "initialising", "writing", "publishing"}
  BY DEF Mutex, Inside
<1> QED BY <1>1, <1>2, <1>3 DEF Slot, Mutex, Cells!CellsSound


\* RemoveAt takes one element out.
LEMMA RemoveAtFacts ==
    ASSUME NEW S, NEW s \in Seq(S), NEW i \in DOMAIN s, IsInjective(s)
    PROVE  /\ Cells!RemoveAt(s, i) \in Seq(S)
           /\ ToSet(Cells!RemoveAt(s, i)) \subseteq ToSet(s) \ {s[i]}
           /\ IsInjective(Cells!RemoveAt(s, i))
<1> DEFINE n == Len(s)
           r == Cells!RemoveAt(s, i)
           at(j) == IF j < i THEN j ELSE j + 1
<1>1. n \in Nat /\ DOMAIN s = 1..n /\ i \in 1..n
  OBVIOUS
<1>2. /\ SubSeq(s, 1, i - 1) \in Seq(S)
      /\ Len(SubSeq(s, 1, i - 1)) = i - 1
      /\ \A j \in 1..(i - 1) : SubSeq(s, 1, i - 1)[j] = s[j]
  <2>1. i - 1 \in 0..Len(s)
    BY <1>1
  <2> QED BY <2>1, SplitSeq
<1>3. /\ SubSeq(s, i + 1, n) \in Seq(S)
      /\ Len(SubSeq(s, i + 1, n)) = n - i
      /\ \A j \in 1..(n - i) : SubSeq(s, i + 1, n)[j] = s[i + j]
  <2>1. i \in 0..Len(s)
    BY <1>1
  <2> QED BY <2>1, SplitSeq
<1>4. r = SubSeq(s, 1, i - 1) \o SubSeq(s, i + 1, n)
  BY DEF Cells!RemoveAt
<1> HIDE DEF n, r
<1>5. r \in Seq(S) /\ Len(r) = n - 1
  BY <1>1, <1>2, <1>3, <1>4
<1>6. \A j \in 1..(n - 1) : r[j] = s[at(j)]
  <2> TAKE j \in 1..(n - 1)
  <2>1. r[j] = IF j <= i - 1 THEN SubSeq(s, 1, i - 1)[j]
               ELSE SubSeq(s, i + 1, n)[j - (i - 1)]
    <3> DEFINE front == SubSeq(s, 1, i - 1)
               back == SubSeq(s, i + 1, n)
    <3>1. front \in Seq(S) /\ back \in Seq(S) /\ Len(front) = i - 1
      BY <1>2, <1>3
    <3>2. j \in 1..(Len(front) + Len(back))
      BY <1>1, <1>2, <1>3
    <3> HIDE DEF front, back
    <3>3. (front \o back)[j] =
            IF j <= Len(front) THEN front[j] ELSE back[j - Len(front)]
      BY <3>1, <3>2, ConcatProperties
    <3> QED BY <1>4, <3>1, <3>3 DEF front, back
  <2>2. CASE j < i
    BY <1>1, <1>2, <2>1, <2>2
  <2>3. CASE j >= i
    <3>1. j - (i - 1) \in 1..(n - i) /\ i + (j - (i - 1)) = j + 1
      BY <1>1, <2>3
    <3> QED BY <1>1, <1>3, <2>1, <2>3, <3>1, SMTT(20)
  <2> QED BY <1>1, <2>2, <2>3
<1>7. /\ DOMAIN r = 1..(n - 1)
      /\ \A j \in 1..(n - 1) : at(j) \in DOMAIN s /\ at(j) # i
      /\ \A j, k \in 1..(n - 1) : at(j) = at(k) => j = k
  BY <1>1, <1>5
<1> HIDE DEF at
<1>8. ToSet(r) \subseteq ToSet(s) \ {s[i]}
  BY <1>6, <1>7 DEF ToSet, IsInjective
<1>9. IsInjective(r)
  BY <1>6, <1>7 DEF IsInjective
<1> QED BY <1>5, <1>8, <1>9 DEF r

\* The mutex goes to the first that waits, if any.
LEMMA UnlockFacts ==
    ASSUME CellInv, NEW c \in Callers, holder = c, Cells!Unlock
    PROVE  /\ holder' \in Callers \cup {0} /\ lockers' \in Seq(Callers)
           /\ IsInjective(lockers') /\ ToSet(lockers') \subseteq ToSet(lockers)
           /\ holder' \notin ToSet(lockers') /\ c \notin ToSet(lockers)
           /\ holder' # c
           /\ lockers' # <<>> => holder' # 0
           /\ holder' # 0 => caller[holder'] = "locking"
<1> USE AsyncConstants DEF CellInv, CellTypes
<1>1. c \notin ToSet(lockers)
  BY DEF Mutex
<1>2. CASE lockers = <<>>
  BY <1>1, <1>2 DEF Mutex, Cells!Unlock, ToSet
<1>3. CASE lockers # <<>>
  <2>1. /\ Head(lockers) \in Callers /\ Tail(lockers) \in Seq(Callers)
        /\ ToSet(lockers) = {Head(lockers)} \cup ToSet(Tail(lockers))
        /\ IsInjective(Tail(lockers)) /\ Head(lockers) \notin ToSet(Tail(lockers))
    BY <1>3, HeadTailToSet DEF Mutex
  <2>2. holder' = Head(lockers) /\ lockers' = Tail(lockers)
    BY <1>3 DEF Cells!Unlock
  <2>3. Head(lockers) # 0
    BY <2>1
  <2> QED BY <1>1, <2>1, <2>2, <2>3 DEF Mutex
<1> QED BY <1>2, <1>3

\* A caller that leaves hands the mutex on, and nothing else changes for it.
LEMMA LeavesMutex ==
    ASSUME CellInv, NEW c \in Callers, NEW s \in CallerStates, holder = c,
           Cells!Unlock, s \in {"returned", "dropped"},
           caller' = [caller EXCEPT ![c] = s]
    PROVE  Mutex'
<1> USE AsyncConstants DEF CellInv, CellTypes
<1>1. \A d \in Callers : caller'[d] = IF d = c THEN s ELSE caller[d]
  OBVIOUS
<1>2. /\ holder' \in Callers \cup {0} /\ lockers' \in Seq(Callers)
      /\ IsInjective(lockers') /\ ToSet(lockers') \subseteq ToSet(lockers)
      /\ holder' \notin ToSet(lockers') /\ c \notin ToSet(lockers)
      /\ holder' # c
      /\ lockers' # <<>> => holder' # 0
      /\ holder' # 0 => caller[holder'] = "locking"
  BY UnlockFacts
<1>3. ToSet(lockers) \subseteq Callers
  BY DEF ToSet
<1>4. \A d \in Callers : caller'[d] \notin Inside
  BY <1>1 DEF Mutex, Inside
<1>5. \A d \in ToSet(lockers') : caller'[d] = "locking" /\ d # holder'
  BY <1>1, <1>2, <1>3 DEF Mutex
<1>6. holder' # 0 => caller'[holder'] = "locking"
  BY <1>1, <1>2
<1> QED BY <1>2, <1>4, <1>5, <1>6 DEF Mutex


\* Every step of the cells keeps the invariant.
LEMMA CellsKept == CellInv /\ Cells!Next => CellInv'
<1> SUFFICES ASSUME CellInv, Cells!Next PROVE CellInv'
  OBVIOUS
<1> USE AsyncConstants DEF CellInv
<1>1. PICK c \in Callers :
        \/ \E o \in Cells!Ops : Cells!Call(c, o)
        \/ Cells!Locked(c) \/ Cells!WriteSlot(c) \/ Cells!Publish(c)
        \/ Cells!GetOrInit(c) \/ Cells!SharedReady(c) \/ Cells!Drop(c)
        \/ \E ok \in BOOLEAN : Cells!Initialised(c, ok)
  BY DEF Cells!Next
<1>2. ToSet(lockers) \subseteq Callers /\ c # 0
  BY DEF CellTypes, ToSet
<1>3. ASSUME NEW o \in Cells!Ops, Cells!Call(c, o) PROVE CellInv'
  <2>1. /\ cell = "once" /\ caller[c] = "idle" /\ op' = [op EXCEPT ![c] = o]
        /\ UNCHANGED <<cell, value, is_initialized, shared>>
    BY <1>3 DEF Cells!Call
  <2>2. c \notin ToSet(lockers) /\ holder # c
    BY <2>1 DEF Mutex, Inside
  <2>3. ASSUME NEW v \in Int, Cells!Return(c, v), UNCHANGED <<holder, lockers>>,
               v > 0 => v = value /\ is_initialized, o = "set" => v # 0
        PROVE  CellInv'
    <3>1. /\ caller' = [caller EXCEPT ![c] = "returned"]
          /\ got' = [got EXCEPT ![c] = v]
      BY <2>3 DEF Cells!Return
    <3>2. CellTypes'
      BY <2>1, <2>3, <3>1 DEF CellTypes, CallerStates
    <3>3. Mutex'
      BY <1>2, <2>1, <2>2, <2>3, <3>1 DEF Mutex, CellTypes, Inside
    <3>4. Slot'
      BY <1>2, <2>1, <2>2, <2>3, <3>1 DEF Slot, CellTypes, Inside
    <3>5. Kinds'
      BY <1>2, <2>1, <2>2, <2>3, <3>1 DEF Kinds, CellTypes, Inside
    <3> QED BY <3>2, <3>3, <3>4, <3>5
  <2>4. CASE is_initialized
    <3>1. Cells!Return(c, Cells!Found(o)) /\ UNCHANGED <<holder, lockers>>
      BY <1>3, <2>4 DEF Cells!Call
    <3>2. Cells!Found(o) \in Int /\ (o = "set" => Cells!Found(o) # 0)
          /\ (Cells!Found(o) > 0 => Cells!Found(o) = value)
      BY DEF Cells!Found, CellTypes
    <3> QED BY <2>3, <2>4, <3>1, <3>2
  <2>5. CASE ~is_initialized /\ o = "get"
    <3>1. Cells!Return(c, 0) /\ UNCHANGED <<holder, lockers>>
      BY <1>3, <2>5 DEF Cells!Call
    <3> QED BY <2>3, <2>5, <3>1
  <2>6. CASE ~is_initialized /\ o # "get"
    <3>1. /\ caller' = [caller EXCEPT ![c] = "locking"]
          /\ UNCHANGED got
          /\ IF holder = 0 THEN holder' = c /\ UNCHANGED lockers
             ELSE lockers' = Append(lockers, c) /\ UNCHANGED holder
      BY <1>3, <2>6 DEF Cells!Call
    <3>2. /\ Append(lockers, c) \in Seq(Callers)
          /\ ToSet(Append(lockers, c)) = ToSet(lockers) \cup {c}
          /\ IsInjective(Append(lockers, c))
      BY <2>2, AppendToSet DEF Mutex, CellTypes
    <3>3. CellTypes'
      BY <2>1, <3>1, <3>2 DEF CellTypes, CallerStates
    <3>4. Mutex'
      <4>1. CASE holder = 0
        <5>1. lockers = <<>> /\ ToSet(lockers) = {}
          BY <4>1 DEF Mutex, ToSet
        <5> QED BY <2>1, <3>1, <4>1, <5>1 DEF Mutex, CellTypes, Inside
      <4>2. CASE holder # 0
        BY <1>2, <2>1, <2>2, <3>1, <3>2, <4>2, ZenonT(20) DEF Mutex, CellTypes, Inside
      <4> QED BY <4>1, <4>2
    <3>5. Slot'
      <4>1. CASE holder = 0
        BY <2>1, <2>6, <3>1, <4>1 DEF Slot, CellTypes, Inside
      <4>2. CASE holder # 0
        BY <2>1, <2>2, <2>6, <3>1, <4>2 DEF Slot, CellTypes, Inside
      <4> QED BY <4>1, <4>2
    <3>6. Kinds'
      BY <2>1, <3>1 DEF Kinds, CellTypes
    <3> QED BY <3>3, <3>4, <3>5, <3>6
  <2> QED BY <2>4, <2>5, <2>6
<1>4. CASE Cells!Locked(c)
  <2>1. /\ caller[c] = "locking" /\ holder = c
        /\ UNCHANGED <<cell, op, value, is_initialized, shared>>
    BY <1>4 DEF Cells!Locked
  <2>2. CASE is_initialized
    <3>1. Cells!Return(c, Cells!Found(op[c])) /\ Cells!Unlock
      BY <1>4, <2>2 DEF Cells!Locked, Cells!Recheck
    <3>2. Cells!Found(op[c]) \in Int /\ (op[c] = "set" => Cells!Found(op[c]) # 0)
          /\ (Cells!Found(op[c]) > 0 => Cells!Found(op[c]) = value)
      BY DEF Cells!Found, CellTypes
    <3>3. /\ caller' = [caller EXCEPT ![c] = "returned"]
          /\ got' = [got EXCEPT ![c] = Cells!Found(op[c])]
      BY <3>1 DEF Cells!Return
    <3>4. Mutex'
      BY <2>1, <3>1, <3>3, LeavesMutex DEF CallerStates
    <3>5. holder' \in Callers \cup {0} /\ lockers' \in Seq(Callers)
      BY <2>1, <3>1, UnlockFacts
    <3>6. CellTypes'
      BY <2>1, <3>2, <3>3, <3>5 DEF CellTypes, CallerStates
    <3>7. Slot'
      BY <2>1, <2>2, <3>2, <3>3 DEF Slot, CellTypes, Inside
    <3>8. Kinds'
      BY <1>2, <2>1, <3>3 DEF Kinds, CellTypes
    <3> QED BY <3>4, <3>6, <3>7, <3>8
  <2>3. CASE ~is_initialized
    <3>1. /\ caller' = [caller EXCEPT ![c] =
                IF op[c] = "set" THEN "writing" ELSE "initialising"]
          /\ UNCHANGED <<got, holder, lockers>>
      BY <1>4, <2>3 DEF Cells!Locked, Cells!Recheck
    <3>2. CellTypes'
      BY <2>1, <3>1 DEF CellTypes, CallerStates
    <3>3. Mutex'
      BY <1>2, <2>1, <3>1 DEF Mutex, CellTypes, Inside
    <3>4. Slot'
      BY <1>2, <2>1, <2>3, <3>1 DEF Slot, Mutex, CellTypes, Inside
    <3>5. Kinds'
      BY <1>2, <2>1, <3>1 DEF Kinds, CellTypes
    <3> QED BY <3>2, <3>3, <3>4, <3>5
  <2> QED BY <2>2, <2>3
<1>5. CASE Cells!WriteSlot(c)
  <2>1. /\ caller[c] = "writing" /\ value' = c
        /\ caller' = [caller EXCEPT ![c] = "publishing"]
        /\ UNCHANGED <<cell, op, got, holder, lockers, is_initialized, shared>>
    BY <1>5 DEF Cells!WriteSlot
  <2>2. holder = c /\ ~is_initialized /\ value = 0 /\ cell = "once"
    BY <2>1 DEF Mutex, Slot, Inside, Kinds, CellTypes
  <2>3. CellTypes'
    BY <2>1 DEF CellTypes, CallerStates
  <2>4. Mutex'
    BY <1>2, <2>1, <2>2 DEF Mutex, CellTypes, Inside
  <2>5. Slot'
    BY <1>2, <2>1, <2>2 DEF Slot, Mutex, CellTypes, Inside
  <2>6. Kinds'
    BY <1>2, <2>1, <2>2 DEF Kinds, CellTypes
  <2> QED BY <2>3, <2>4, <2>5, <2>6
<1>6. CASE Cells!Publish(c)
  <2>1. /\ caller[c] = "publishing" /\ is_initialized' = TRUE
        /\ caller' = [caller EXCEPT ![c] = "returned"]
        /\ got' = [got EXCEPT ![c] = IF op[c] = "set" THEN 0 ELSE value]
        /\ Cells!Unlock
        /\ UNCHANGED <<cell, op, value, shared>>
    BY <1>6 DEF Cells!Publish, Cells!Return
  <2>2. holder = c /\ value = c /\ cell = "once"
    BY <2>1 DEF Mutex, Slot, Inside, Kinds, CellTypes
  <2>3. Mutex'
    BY <2>1, <2>2, LeavesMutex DEF CallerStates
  <2>4. holder' \in Callers \cup {0} /\ lockers' \in Seq(Callers)
    BY <2>1, <2>2, UnlockFacts
  <2>5. CellTypes'
    <3>1. caller' \in [Callers -> CallerStates]
      BY <2>1 DEF CellTypes, CallerStates
    <3>2. got' \in [Callers -> Int]
      BY <2>1 DEF CellTypes
    <3> QED BY <2>1, <2>4, <3>1, <3>2 DEF CellTypes
  <2>6. Slot'
    BY <1>2, <2>1, <2>2 DEF Slot, Mutex, CellTypes, Inside
  <2>7. Kinds'
    BY <1>2, <2>1, <2>2 DEF Kinds, CellTypes
  <2> QED BY <2>3, <2>5, <2>6, <2>7
<1>7. CASE Cells!GetOrInit(c)
  <2>1. /\ cell = "lazy" /\ caller[c] = "idle"
        /\ op' = [op EXCEPT ![c] = "get_or_init"]
        /\ UNCHANGED <<cell, holder, lockers, value, is_initialized>>
    BY <1>7 DEF Cells!GetOrInit
  <2>2. holder = 0 /\ lockers = <<>> /\ ToSet(lockers) = {}
    BY <2>1 DEF Kinds, ToSet
  <2>3. CASE is_initialized /\ shared = 0
    <3>1. /\ caller' = [caller EXCEPT ![c] = "returned"]
          /\ got' = [got EXCEPT ![c] = value]
          /\ UNCHANGED shared
      BY <1>7, <2>3 DEF Cells!GetOrInit, Cells!Return
    <3>2. CellTypes'
      <4>1. caller' \in [Callers -> CallerStates]
        BY <3>1 DEF CellTypes, CallerStates
      <4>2. got' \in [Callers -> Int]
        BY <3>1 DEF CellTypes
      <4>3. op' \in [Callers -> Cells!Ops \cup {"none"}]
        BY <2>1 DEF CellTypes, Cells!Ops
      <4> QED BY <2>1, <3>1, <4>1, <4>2, <4>3 DEF CellTypes
    <3>3. Mutex'
      BY <2>1, <2>2, <3>1 DEF Mutex, CellTypes, Inside
    <3>4. Slot'
      BY <2>1, <2>2, <2>3, <3>1 DEF Slot, CellTypes, Inside
    <3>5. Kinds'
      BY <2>1, <2>2, <2>3, <3>1 DEF Kinds, CellTypes
    <3> QED BY <3>2, <3>3, <3>4, <3>5
  <2>4. CASE ~(is_initialized /\ shared = 0)
    <3>1. /\ caller' = [caller EXCEPT ![c] = "sharing"]
          /\ shared' = IF shared = 0 THEN c ELSE shared
          /\ UNCHANGED got
      BY <1>7, <2>4 DEF Cells!GetOrInit
    <3>2. CellTypes'
      <4>1. caller' \in [Callers -> CallerStates]
        BY <3>1 DEF CellTypes, CallerStates
      <4>2. got' \in [Callers -> Int]
        BY <3>1 DEF CellTypes
      <4>3. op' \in [Callers -> Cells!Ops \cup {"none"}]
        BY <2>1 DEF CellTypes, Cells!Ops
      <4> QED BY <2>1, <3>1, <4>1, <4>2, <4>3 DEF CellTypes
    <3>3. Mutex'
      BY <2>1, <2>2, <3>1 DEF Mutex, CellTypes, Inside
    <3>4. Slot'
      BY <2>1, <2>2, <2>4, <3>1 DEF Slot, CellTypes, Inside
    <3>5. Kinds'
      BY <1>2, <2>1, <2>2, <2>4, <3>1 DEF Kinds, Slot, CellTypes
    <3> QED BY <3>2, <3>3, <3>4, <3>5
  <2> QED BY <2>3, <2>4
<1>8. CASE Cells!SharedReady(c)
  <2>1. /\ caller[c] = "sharing"
        /\ value' = shared /\ is_initialized' = TRUE
        /\ caller' = [caller EXCEPT ![c] = "returned"]
        /\ got' = [got EXCEPT ![c] = shared]
        /\ UNCHANGED <<cell, op, holder, lockers, shared>>
    BY <1>8 DEF Cells!SharedReady, Cells!Return
  <2>2. /\ cell = "lazy" /\ holder = 0 /\ lockers = <<>> /\ ToSet(lockers) = {}
        /\ shared # 0 /\ value = IF is_initialized THEN shared ELSE 0
    BY <2>1 DEF Kinds, CellTypes, ToSet
  <2>3. CellTypes'
    BY <2>1, <2>2 DEF CellTypes, CallerStates
  <2>4. Mutex'
    BY <2>1, <2>2 DEF Mutex, CellTypes, Inside
  <2>5. Slot'
    <3>1. \A d \in Callers : caller'[d] \notin Inside
      BY <2>1, <2>2 DEF Kinds, Inside, CellTypes
    <3> QED BY <2>1, <2>2, <3>1 DEF Slot, CellTypes, Inside
  <2>6. Kinds'
    BY <2>1, <2>2 DEF Kinds, CellTypes
  <2> QED BY <2>3, <2>4, <2>5, <2>6
<1>9. CASE Cells!Drop(c)
  <2>1. /\ caller[c] \in {"locking", "initialising", "sharing"}
        /\ caller' = [caller EXCEPT ![c] = "dropped"]
        /\ UNCHANGED <<cell, op, got, value, is_initialized, shared>>
    BY <1>9 DEF Cells!Drop
  <2>2. /\ Mutex' /\ holder' \in Callers \cup {0} /\ lockers' \in Seq(Callers)
        /\ (holder = c \/ holder' = holder)
        /\ (cell = "lazy" => holder' = 0 /\ lockers' = <<>>)
    <3>1. CASE holder = c /\ Cells!Unlock
      BY <1>2, <2>1, <3>1, UnlockFacts, LeavesMutex DEF CallerStates, Kinds
    <3>2. CASE /\ holder # c
               /\ \E i \in DOMAIN lockers :
                     lockers[i] = c /\ lockers' = Cells!RemoveAt(lockers, i)
               /\ UNCHANGED holder
      <4>1. PICK i \in DOMAIN lockers :
                  lockers[i] = c /\ lockers' = Cells!RemoveAt(lockers, i)
        BY <3>2
      <4>2. /\ lockers' \in Seq(Callers) /\ IsInjective(lockers')
            /\ ToSet(lockers') \subseteq ToSet(lockers) \ {c}
        BY <4>1, RemoveAtFacts DEF Mutex, CellTypes
      <4>3. lockers # <<>> /\ holder # 0
        BY <4>1 DEF Mutex, CellTypes
      <4> QED BY <1>2, <2>1, <3>2, <4>2, <4>3 DEF Mutex, CellTypes, Inside, Kinds
    <3>3. CASE caller[c] = "sharing" /\ UNCHANGED <<holder, lockers>>
      <4>1. cell = "lazy" /\ holder = 0 /\ lockers = <<>> /\ ToSet(lockers) = {}
        BY <3>3 DEF Kinds, CellTypes, ToSet
      <4> QED BY <2>1, <3>3, <4>1 DEF Mutex, CellTypes, Inside
    <3> QED BY <1>9, <3>1, <3>2, <3>3 DEF Cells!Drop
  <2>3. CellTypes'
    BY <2>1, <2>2 DEF CellTypes, CallerStates
  <2>4. Slot'
    <3>1. value # 0 /\ ~is_initialized => holder # c
      BY <2>1 DEF Slot
    <3> QED BY <1>2, <2>1, <2>2, <3>1 DEF Slot, CellTypes, Inside
  <2>5. Kinds'
    BY <2>1, <2>2 DEF Kinds, CellTypes
  <2> QED BY <2>2, <2>3, <2>4, <2>5
<1>10. ASSUME NEW ok \in BOOLEAN, Cells!Initialised(c, ok) PROVE CellInv'
  <2>1. /\ caller[c] = "initialising"
        /\ UNCHANGED <<cell, op, value, is_initialized, shared>>
    BY <1>10 DEF Cells!Initialised
  <2>2. holder = c /\ ~is_initialized /\ value = 0 /\ cell = "once"
    BY <2>1 DEF Mutex, Slot, Inside, Kinds, CellTypes
  <2>3. CASE ok
    <3>1. /\ caller' = [caller EXCEPT ![c] = "writing"]
          /\ UNCHANGED <<got, holder, lockers>>
      BY <1>10, <2>3 DEF Cells!Initialised
    <3>2. CellTypes'
      BY <2>1, <3>1 DEF CellTypes, CallerStates
    <3>3. Mutex'
      BY <1>2, <2>1, <2>2, <3>1 DEF Mutex, CellTypes, Inside
    <3>4. Slot'
      BY <1>2, <2>1, <2>2, <3>1 DEF Slot, Mutex, CellTypes, Inside
    <3>5. Kinds'
      BY <1>2, <2>1, <2>2, <3>1 DEF Kinds, CellTypes
    <3> QED BY <3>2, <3>3, <3>4, <3>5
  <2>4. CASE ~ok
    <3>1. /\ caller' = [caller EXCEPT ![c] = "returned"]
          /\ got' = [got EXCEPT ![c] = -1]
          /\ op[c] = "get_or_try_init"
          /\ Cells!Unlock
      BY <1>10, <2>4 DEF Cells!Initialised, Cells!Return
    <3>2. Mutex'
      BY <2>1, <2>2, <3>1, LeavesMutex DEF CallerStates
    <3>3. holder' \in Callers \cup {0} /\ lockers' \in Seq(Callers)
      BY <2>2, <3>1, UnlockFacts
    <3>4. CellTypes'
      <4>1. caller' \in [Callers -> CallerStates]
        BY <3>1 DEF CellTypes, CallerStates
      <4>2. got' \in [Callers -> Int]
        BY <3>1 DEF CellTypes
      <4> QED BY <2>1, <3>3, <4>1, <4>2 DEF CellTypes
    <3>5. Slot'
      BY <1>2, <2>1, <2>2, <3>1 DEF Slot, Mutex, CellTypes, Inside
    <3>6. Kinds'
      BY <1>2, <2>1, <2>2, <3>1 DEF Kinds, CellTypes
    <3> QED BY <3>2, <3>4, <3>5, <3>6
  <2> QED BY <2>3, <2>4
<1> QED BY <1>1, <1>3, <1>4, <1>5, <1>6, <1>7, <1>8, <1>9, <1>10


-----------------------------------------------------------------------------
(* The statistics.                                                           *)

StatsTypes ==
    /\ factory \in {"none", "default", "registered"}
    /\ poisoned \in BOOLEAN
    /\ registrations \in Seq({"ok", "panicked"})
    /\ thread \in [Stat!Owners -> {"new", "unset", "created", "live", "freeing",
                                    "dead", "panicked"}]
    /\ Threads \subseteq Stat!Owners
    /\ manager \in [Stat!Owners -> {"none", factory}]
    /\ made \in [Stat!Owners -> [Stat!Kinds -> {"none", "builtin", factory}]]
    /\ \A o \in Stat!Owners, kind \in Stat!Kinds \ {"singleton"} :
           made[o][kind] \in {"none", factory}
    /\ walking \in BOOLEAN

\* The map holds the box of a thread only while the thread is live, and a walk
\* has before it handles of the map only.
Registry ==
    /\ \A h \in DOMAIN threadmap :
           threadmap[h] \in Threads /\ thread[threadmap[h]] = "live"
    /\ \A t \in Threads : thread[t] \in {"live", "freeing"} => t \in boxes
    /\ visiting \subseteq IF walking THEN DOMAIN threadmap ELSE {}
    /\ walking => visited \union {threadmap[h] : h \in visiting}
                    = {threadmap[h] : h \in DOMAIN threadmap}

\* Only a registration that panicked poisons, and one that succeeded stays.
Registrations ==
    /\ poisoned => \E i \in DOMAIN registrations : registrations[i] = "panicked"
    /\ \A i \in DOMAIN registrations :
           registrations[i] = "ok" => factory = "registered"

StatsInv == StatsTypes /\ Registry /\ Registrations

LEMMA StatsStart == Stat!Init => StatsInv
<1> SUFFICES ASSUME Stat!Init PROVE StatsInv
  OBVIOUS
<1> USE DEF Stat!Init
<1>1. StatsTypes
  <2>1. registrations \in Seq({"ok", "panicked"})
    OBVIOUS
  <2>2. poisoned \in BOOLEAN /\ walking \in BOOLEAN
    OBVIOUS
  <2> QED BY <2>1, <2>2 DEF StatsTypes, Stat!Owners
<1>2. Registry
  BY DEF Registry, Stat!Owners
<1>3. Registrations
  BY DEF Registrations
<1> QED BY <1>1, <1>2, <1>3 DEF StatsInv

LEMMA StatsImply == StatsInv => Stat!StatsSound
<1> SUFFICES ASSUME StatsInv PROVE Stat!StatsSound
  OBVIOUS
<1> USE DEF StatsInv
<1>1. \A h \in DOMAIN threadmap : threadmap[h] \in boxes
  BY DEF Registry
<1>2. \A o \in Stat!Owners, kind \in Stat!Kinds \ {"singleton"} :
        {manager[o], made[o][kind]} \subseteq {"none", factory}
  BY DEF StatsTypes
<1> QED BY <1>1, <1>2 DEF Registry, Registrations, Stat!StatsSound

\* Every step of the statistics keeps the invariant.
LEMMA StatsKept == StatsInv /\ Stat!Next => StatsInv'
<1> SUFFICES ASSUME StatsInv, Stat!Next PROVE StatsInv'
  OBVIOUS
<1> USE DEF StatsInv
<1>1. CASE Stat!RegisterFactory
  <2> DEFINE ok == ~poisoned /\ factory = "none"
  <2>1. /\ factory' = IF ok THEN "registered" ELSE factory
        /\ poisoned' = (poisoned \/ ~ok)
        /\ registrations' = Append(registrations, IF ok THEN "ok" ELSE "panicked")
        /\ UNCHANGED <<thread, manager, made, idx, threadmap, boxes, visiting,
                       visited, walking>>
    BY <1>1 DEF Stat!RegisterFactory, Stat!mapVars
  <2>2. /\ registrations' \in Seq({"ok", "panicked"})
        /\ DOMAIN registrations' = DOMAIN registrations \cup {Len(registrations) + 1}
        /\ \A i \in DOMAIN registrations : registrations'[i] = registrations[i]
        /\ registrations'[Len(registrations) + 1] =
              IF ok THEN "ok" ELSE "panicked"
    BY <2>1 DEF StatsTypes
  <2>3. poisoned' \in BOOLEAN
    BY <2>1, Zenon
  <2>4. /\ manager \in [Stat!Owners -> {"none", factory'}]
        /\ made \in [Stat!Owners -> [Stat!Kinds -> {"none", "builtin", factory'}]]
        /\ \A o \in Stat!Owners, kind \in Stat!Kinds \ {"singleton"} :
              made[o][kind] \in {"none", factory'}
        /\ factory' \in {"none", "default", "registered"}
    <3>1. CASE ok
      <4>1. /\ {"none", factory} \subseteq {"none", factory'}
            /\ {"none", "builtin", factory} \subseteq {"none", "builtin", factory'}
        BY <2>1, <3>1
      <4> QED BY <2>1, <3>1, <4>1 DEF StatsTypes
    <3>2. CASE ~ok
      BY <2>1, <3>2 DEF StatsTypes
    <3> QED BY <3>1, <3>2
  <2>5. StatsTypes'
    BY <2>1, <2>2, <2>3, <2>4 DEF StatsTypes
  <2>6. Registry'
    BY <2>1 DEF Registry
  <2>7. Registrations'
    <3>1. CASE ok
      BY <2>1, <2>2, <3>1 DEF Registrations
    <3>2. CASE ~ok
      BY <2>1, <2>2, <3>2 DEF Registrations
    <3> QED BY <3>1, <3>2
  <2> QED BY <2>5, <2>6, <2>7
<1>2. CASE Stat!Schedule
  BY <1>2 DEF Stat!Schedule, Stat!mapVars, StatsTypes, Registry, Registrations
<1>3. CASE Stat!Aggregate
  <2>1. /\ walking' = TRUE /\ visited' = {} /\ visiting' = DOMAIN threadmap
        /\ UNCHANGED <<factory, poisoned, registrations, thread, manager, made,
                       threadmap, boxes>>
    BY <1>3 DEF Stat!Aggregate
  <2> QED BY <2>1 DEF StatsTypes, Registry, Registrations
<1>4. CASE Stat!Walked
  <2>1. /\ visiting = {} /\ walking' = FALSE
        /\ UNCHANGED <<factory, poisoned, registrations, thread, manager, made,
                       threadmap, boxes, visiting, visited>>
    BY <1>4 DEF Stat!Walked
  <2> QED BY <2>1 DEF StatsTypes, Registry, Registrations
<1>5. ASSUME NEW h \in visiting, Stat!Visit(h) PROVE StatsInv'
  <2>1. /\ walking /\ visiting' = visiting \ {h}
        /\ visited' = visited \union {threadmap[h]}
        /\ UNCHANGED <<factory, poisoned, registrations, thread, manager, made,
                       threadmap, boxes, walking>>
    BY <1>5 DEF Stat!Visit
  <2>2. visited' \union {threadmap[g] : g \in visiting'}
          = visited \union {threadmap[g] : g \in visiting}
    BY <2>1
  <2> QED BY <2>1, <2>2 DEF StatsTypes, Registry, Registrations
<1>6. ASSUME NEW t \in Stat!Owners, Stat!ReadFactory(t) PROVE StatsInv'
  <2>1. /\ thread[t] = "new"
        /\ manager' = [manager EXCEPT ![t] = IF poisoned THEN "none" ELSE factory]
        /\ thread' = [thread EXCEPT ![t] =
             IF poisoned THEN "panicked"
             ELSE IF factory = "none" THEN "unset" ELSE "created"]
        /\ UNCHANGED <<factory, poisoned, registrations, made, threadmap, boxes,
                       visiting, visited, walking>>
    BY <1>6 DEF Stat!ReadFactory, Stat!mapVars
  <2>2. StatsTypes'
    BY <2>1 DEF StatsTypes
  <2>3. Registry'
    BY <2>1 DEF Registry, StatsTypes
  <2> QED BY <2>1, <2>2, <2>3 DEF Registrations
<1>7. ASSUME NEW t \in Stat!Owners, Stat!WriteFactory(t) PROVE StatsInv'
  <2>1. /\ thread[t] = "unset"
        /\ UNCHANGED <<poisoned, registrations, made, threadmap, boxes,
                       visiting, visited, walking>>
    BY <1>7 DEF Stat!WriteFactory, Stat!mapVars
  <2>2. CASE poisoned
    <3>1. thread' = [thread EXCEPT ![t] = "panicked"] /\ UNCHANGED <<factory, manager>>
      BY <1>7, <2>2 DEF Stat!WriteFactory
    <3>2. StatsTypes'
      BY <2>1, <3>1 DEF StatsTypes
    <3>3. Registry'
      <4>1. \A o \in Stat!Owners \ {t} : thread'[o] = thread[o]
        BY <3>1 DEF StatsTypes
      <4>2. thread'[t] = "panicked"
        BY <3>1 DEF StatsTypes
      <4> QED BY <2>1, <4>1, <4>2 DEF Registry, StatsTypes
    <3> QED BY <2>1, <3>1, <3>2, <3>3 DEF Registrations
  <2>3. CASE ~poisoned
    <3>1. /\ factory' = IF factory = "none" THEN "default" ELSE factory
          /\ manager' = [manager EXCEPT ![t] = factory']
          /\ thread' = [thread EXCEPT ![t] = "created"]
      BY <1>7, <2>3 DEF Stat!WriteFactory, Stat!GetOrInsert
    <3>2. /\ {"none", factory} \subseteq {"none", factory'}
          /\ {"none", "builtin", factory} \subseteq {"none", "builtin", factory'}
      BY <3>1
    <3>3. StatsTypes'
      BY <2>1, <3>1, <3>2 DEF StatsTypes
    <3>4. Registry'
      <4>1. \A o \in Stat!Owners \ {t} : thread'[o] = thread[o]
        BY <3>1 DEF StatsTypes
      <4>2. thread'[t] = "created"
        BY <3>1 DEF StatsTypes
      <4> QED BY <2>1, <4>1, <4>2 DEF Registry, StatsTypes
    <3>5. Registrations'
      BY <2>1, <3>1 DEF Registrations
    <3> QED BY <3>3, <3>4, <3>5
  <2> QED BY <2>2, <2>3
<1>8. ASSUME NEW t \in Threads, Stat!Register(t) PROVE StatsInv'
  <2>1. /\ thread[t] = "created" /\ ~walking
        /\ boxes' = boxes \union {t}
        /\ threadmap' = [h \in DOMAIN threadmap \union {idx} |->
                            IF h = idx THEN t ELSE threadmap[h]]
        /\ thread' = [thread EXCEPT ![t] = "live"]
        /\ UNCHANGED <<factory, poisoned, registrations, manager, made,
                       visiting, visited, walking>>
    BY <1>8 DEF Stat!Register
  <2>2. StatsTypes'
    BY <2>1 DEF StatsTypes
  <2>3. Registry'
    BY <2>1 DEF Registry, StatsTypes
  <2> QED BY <2>1, <2>2, <2>3 DEF Registrations
<1>9. ASSUME NEW t \in Threads, Stat!Unregister(t) PROVE StatsInv'
  <2>1. /\ thread[t] = "live" /\ ~walking
        /\ threadmap' = [h \in {g \in DOMAIN threadmap : threadmap[g] # t} |->
                            threadmap[h]]
        /\ thread' = [thread EXCEPT ![t] = "freeing"]
        /\ UNCHANGED <<factory, poisoned, registrations, manager, made, boxes,
                       visiting, visited, walking>>
    BY <1>9 DEF Stat!Unregister
  <2>2. StatsTypes'
    BY <2>1 DEF StatsTypes
  <2>3. Registry'
    BY <2>1 DEF Registry, StatsTypes
  <2> QED BY <2>1, <2>2, <2>3 DEF Registrations
<1>10. ASSUME NEW t \in Threads, Stat!FreeBox(t) PROVE StatsInv'
  <2>1. /\ thread[t] = "freeing" /\ boxes' = boxes \ {t}
        /\ thread' = [thread EXCEPT ![t] = "dead"]
        /\ UNCHANGED <<factory, poisoned, registrations, manager, made,
                       threadmap, visiting, visited, walking>>
    BY <1>10 DEF Stat!FreeBox
  <2>2. StatsTypes'
    BY <2>1 DEF StatsTypes
  <2>3. Registry'
    BY <2>1 DEF Registry, StatsTypes
  <2> QED BY <2>1, <2>2, <2>3 DEF Registrations
<1>11. ASSUME NEW o \in Stat!Owners, NEW kind \in Stat!Kinds, Stat!GetOrDefault(o, kind)
       PROVE  StatsInv'
  <2> DEFINE new == IF kind = "singleton" THEN "builtin" ELSE manager[o]
  <2>1. /\ made' = [made EXCEPT ![o][kind] =
                       IF made[o][kind] = "none" THEN new ELSE made[o][kind]]
        /\ UNCHANGED <<factory, poisoned, registrations, thread, manager,
                       threadmap, boxes, visiting, visited, walking>>
    BY <1>11 DEF Stat!GetOrDefault, Stat!Initialize, Stat!StatGenerator, Stat!mapVars
  <2>2. /\ new \in {"none", "builtin", factory}
        /\ kind # "singleton" => new \in {"none", factory}
    BY DEF StatsTypes
  <2> HIDE DEF new
  <2>3. StatsTypes'
    BY <2>1, <2>2 DEF StatsTypes
  <2> QED BY <2>1, <2>3 DEF Registry, Registrations
<1> QED BY <1>1, <1>2, <1>3, <1>4, <1>5, <1>6, <1>7, <1>8, <1>9, <1>10, <1>11
        DEF Stat!Next


-----------------------------------------------------------------------------
(* The detector.                                                             *)

DetectorTypes ==
    /\ stop_flag \in BOOLEAN
    /\ monitor \in Seq({"check", "begin", "probing", "late", "sleeping", "over",
                        "panicked"})
    /\ task \in Seq({"none", "spawned", "sent", "failed"})
    /\ DOMAIN task = DOMAIN monitor /\ DOMAIN overrun = DOMAIN monitor
    /\ \A i \in DOMAIN overrun : overrun[i] \in Nat

\* A monitor about to probe once the flag is set has not done so before: it
\* looked at the flag before it was set, and will look again afterwards.
Probes ==
    /\ stop_flag => \A i \in DOMAIN monitor :
           overrun[i] <= IF monitor[i] = "begin" THEN 0 ELSE 1
    /\ reported = {i \in DOMAIN monitor : monitor[i] \in {"late", "panicked"}}
    /\ \A i \in DOMAIN monitor :
           monitor[i] = "panicked" => task[i] \in {"spawned", "failed"}

DetectorInv == DetectorTypes /\ Probes

LEMMA DetectorStart == Detect!Init => DetectorInv
<1> SUFFICES ASSUME Detect!Init PROVE DetectorInv
  OBVIOUS
<1> USE DEF Detect!Init
<1>1. DOMAIN monitor = {} /\ DOMAIN task = {} /\ DOMAIN overrun = {}
  OBVIOUS
<1>2. DetectorTypes
  BY <1>1 DEF DetectorTypes
<1>3. Probes
  BY <1>1 DEF Probes
<1> QED BY <1>2, <1>3 DEF DetectorInv

LEMMA DetectorImply == DetectorInv => Detect!MonitorsSound
<1> SUFFICES ASSUME DetectorInv PROVE Detect!MonitorsSound
  OBVIOUS
<1>1. \A i \in DOMAIN monitor : stop_flag => overrun[i] <= 1
  BY DEF DetectorInv, DetectorTypes, Probes
<1> QED BY <1>1 DEF DetectorInv, Probes, Detect!MonitorsSound

\* Every step of the detector keeps the invariant.
LEMMA DetectorKept == DetectorInv /\ Detect!Next => DetectorInv'
<1> SUFFICES ASSUME DetectorInv, Detect!Next PROVE DetectorInv'
  OBVIOUS
<1> USE DEF DetectorInv
<1>1. CASE Detect!Start
  <2> DEFINE n == Len(monitor) + 1
  <2>1. /\ stop_flag' = FALSE
        /\ monitor' = Append(monitor, "check") /\ task' = Append(task, "none")
        /\ overrun' = [i \in 1..n |-> 0]
        /\ UNCHANGED reported
    BY <1>1 DEF Detect!Start
  <2>2. Len(task) = Len(monitor) /\ Len(monitor) \in Nat
    BY DEF DetectorTypes
  <2>3. /\ DOMAIN monitor' = DOMAIN monitor \cup {n} /\ monitor'[n] = "check"
        /\ \A i \in DOMAIN monitor :
               monitor'[i] = monitor[i] /\ task'[i] = task[i] /\ i # n
    <3>1. DOMAIN monitor = 1..Len(monitor) /\ DOMAIN task = 1..Len(monitor)
      BY <2>2 DEF DetectorTypes
    <3>2. DOMAIN monitor' = 1..n /\ 1..n = 1..Len(monitor) \cup {n}
      BY <2>1, <2>2 DEF DetectorTypes
    <3> QED BY <2>1, <2>2, <3>1, <3>2 DEF DetectorTypes
  <2>4. DetectorTypes'
    <3>1. DOMAIN monitor' = 1..n /\ DOMAIN task' = 1..n /\ DOMAIN overrun' = 1..n
      BY <2>1, <2>2 DEF DetectorTypes
    <3>2. /\ monitor' \in Seq({"check", "begin", "probing", "late", "sleeping",
                             "over", "panicked"})
          /\ task' \in Seq({"none", "spawned", "sent", "failed"})
      BY <2>1 DEF DetectorTypes
    <3>3. stop_flag' \in BOOLEAN /\ \A i \in DOMAIN overrun' : overrun'[i] \in Nat
      BY <2>1
    <3> QED BY <3>1, <3>2, <3>3 DEF DetectorTypes
  <2>5. Probes'
    BY <2>1, <2>3 DEF Probes
  <2> QED BY <2>4, <2>5
<1>2. CASE Detect!Stop
  <2>1. /\ stop_flag' = TRUE /\ overrun' = [i \in DOMAIN overrun |-> 0]
        /\ UNCHANGED <<monitor, task, reported>>
    BY <1>2 DEF Detect!Stop
  <2> QED BY <2>1 DEF DetectorTypes, Probes
<1>3. ASSUME NEW w \in Workers, Detect!ThreadStart(w) \/ Detect!ThreadStop(w)
      PROVE  DetectorInv'
  BY <1>3 DEF Detect!ThreadStart, Detect!ThreadStop, DetectorTypes, Probes
<1>4. ASSUME NEW i \in DOMAIN monitor,
             \/ Detect!Check(i) \/ Detect!Probe(i) \/ Detect!DoNothing(i)
             \/ Detect!Answered(i) \/ Detect!BlockingDetected(i)
             \/ Detect!Panic(i) \/ Detect!Slept(i)
      PROVE  DetectorInv'
  <2>1. CASE Detect!Check(i)
    BY <1>4, <2>1 DEF Detect!Check, DetectorTypes, Probes
  <2>2. CASE Detect!Probe(i)
    BY <1>4, <2>2 DEF Detect!Probe, DetectorTypes, Probes
  <2>3. CASE Detect!DoNothing(i)
    BY <1>4, <2>3 DEF Detect!DoNothing, DetectorTypes, Probes
  <2>4. CASE Detect!Answered(i)
    BY <1>4, <2>4 DEF Detect!Answered, DetectorTypes, Probes
  <2>5. CASE Detect!BlockingDetected(i)
    BY <1>4, <2>5 DEF Detect!BlockingDetected, DetectorTypes, Probes
  <2>6. CASE Detect!Panic(i)
    BY <1>4, <2>6 DEF Detect!Panic, DetectorTypes, Probes
  <2>7. CASE Detect!Slept(i)
    BY <1>4, <2>7 DEF Detect!Slept, DetectorTypes, Probes
  <2> QED BY <1>4, <2>1, <2>2, <2>3, <2>4, <2>5, <2>6, <2>7
<1> QED BY <1>1, <1>2, <1>3, <1>4 DEF Detect!Next


-----------------------------------------------------------------------------
(* The shared knobs.                                                         *)

ConfigTypes ==
    /\ version \in Nat \ {0}
    /\ knobs \in 0..version /\ seen \in 0..version /\ borrowed \in 0..version
    /\ inits \in Seq(Nat) /\ \A i \in DOMAIN inits : inits[i] <= version
    /\ worker \in {"none", "spawned", "waiting", "changed", "updating"}
    /\ last \in {"none", "init", "worker"}

\* What the worker borrows and installs is no older than what it has seen.
\* The first caller has swapped before there is a worker, and as long as the
\* worker has changed nothing it has seen version 1 only.
Worker ==
    /\ worker = "updating" => borrowed > 0 /\ seen <= borrowed
    /\ worker = "waiting" /\ last = "worker" => seen <= knobs
    /\ worker \in {"none", "spawned"} => last # "worker"
    /\ worker # "none" => knobs > 0 /\ Len(inits) > 0
    /\ worker # "none" /\ Len(inits) = 1 => inits[1] = 0
    /\ worker = "waiting" /\ last # "worker" /\ Len(inits) = 1 => seen = 1

ConfigInv == ConfigTypes /\ Worker

LEMMA ConfigStart == Knob!Init => ConfigInv
<1> SUFFICES ASSUME Knob!Init PROVE ConfigInv
  OBVIOUS
<1>1. inits \in Seq(Nat) /\ DOMAIN inits = {}
  BY DEF Knob!Init
<1> QED BY <1>1 DEF Knob!Init, ConfigInv, ConfigTypes, Worker

LEMMA ConfigImply == ConfigInv => Knob!KnobsCurrent
BY DEF ConfigInv, ConfigTypes, Worker, Knob!KnobsCurrent

\* Every step of the worker, the callers and the store keeps the invariant.
LEMMA ConfigKept == ConfigInv /\ Knob!ConfigNext => ConfigInv'
<1> SUFFICES ASSUME ConfigInv, Knob!ConfigNext PROVE ConfigInv'
  OBVIOUS
<1> USE DEF ConfigInv
<1>1. CASE Knob!PublishConfig
  BY <1>1 DEF Knob!PublishConfig, ConfigTypes, Worker
<1>2. CASE Knob!InitRead
  <2>1. /\ inits' = Append(inits, version)
        /\ UNCHANGED <<version, knobs, worker, seen, borrowed, last>>
    BY <1>2 DEF Knob!InitRead
  <2>2. /\ inits' \in Seq(Nat) /\ Len(inits') = Len(inits) + 1
        /\ \A i \in DOMAIN inits' : inits'[i] <= version
    BY <2>1 DEF ConfigTypes
  <2>3. Len(inits) \in Nat
    BY DEF ConfigTypes
  <2> QED BY <2>1, <2>2, <2>3 DEF ConfigTypes, Worker
<1>3. CASE Knob!WorkerStart
  BY <1>3 DEF Knob!WorkerStart, Knob!SeenAtStart, ConfigTypes, Worker
<1>4. CASE Knob!Changed
  BY <1>4 DEF Knob!Changed, ConfigTypes, Worker
<1>5. CASE Knob!Borrow
  BY <1>5 DEF Knob!Borrow, ConfigTypes, Worker
<1>6. CASE Knob!UpdateJustKnobs
  BY <1>6 DEF Knob!UpdateJustKnobs, ConfigTypes, Worker
<1>7. ASSUME NEW i \in DOMAIN inits, NEW w \in BOOLEAN, Knob!InitSwap(i, w)
      PROVE  ConfigInv'
  <2>1. /\ inits[i] > 0 /\ knobs' = inits[i] /\ last' = "init"
        /\ inits' = [inits EXCEPT ![i] = 0]
        /\ worker' \in {worker, "spawned"}
        /\ worker' # worker => worker = "none"
        /\ UNCHANGED <<version, seen, borrowed>>
    BY <1>7 DEF Knob!InitSwap
  <2>2. /\ inits' \in Seq(Nat) /\ Len(inits') = Len(inits)
        /\ \A j \in DOMAIN inits' : inits'[j] <= version
        /\ Len(inits) > 0 /\ (Len(inits) = 1 => i = 1 /\ inits'[1] = 0)
    BY <2>1 DEF ConfigTypes
  <2>3. inits[i] \in 1..version
    BY <2>1 DEF ConfigTypes
  <2>4. ConfigTypes'
    BY <2>1, <2>2, <2>3 DEF ConfigTypes
  <2>5. Worker'
    BY <2>1, <2>2, <2>3 DEF ConfigTypes, Worker
  <2> QED BY <2>4, <2>5
<1> QED BY <1>1, <1>2, <1>3, <1>4, <1>5, <1>6, <1>7 DEF Knob!ConfigNext


-----------------------------------------------------------------------------
(* The overrides.                                                            *)

KnobNames == UNION {DOMAIN new : new \in NewKnobs}

KnobSets == UNION {[D -> STRING \ {"missing"}] : D \in SUBSET KnobNames}

\* A thread's JUST_KNOBS: none, or a set of knobs.
Overrides == {<<>>} \cup {<<f>> : f \in KnobSets}

LocalTypes ==
    /\ local \in [Threads -> Overrides]
    /\ saved \in [Threads -> Seq(Overrides)]
    /\ base \in [Threads -> Overrides]
    /\ future \in Overrides
    /\ polling \in {<<>>} \cup (Threads \X Nat)
    /\ overrides \in Nat

\* What the scope entered d-th on thread t has put in place.
Inner(t, d) == IF d < Len(saved[t]) THEN saved[t][d + 1] ELSE local[t]

\* Outside of the scopes is what was there before the first one.
Outermost(t) ==
    t \notin unwound =>
        IF saved[t] = <<>> THEN local[t] = base[t] ELSE saved[t][1] = base[t]

\* A scope of a closure hides no knob, a poll has the future's knobs.
Nested(t) ==
    \A d \in 1..Len(saved[t]) :
        /\ Inner(t, d) # <<>>
        /\ saved[t][d] # <<>> /\ polling # <<t, d>> =>
              DOMAIN saved[t][d][1] \subseteq DOMAIN Inner(t, d)[1]
        /\ polling = <<t, d>> =>
              /\ DOMAIN future[1] \subseteq DOMAIN Inner(t, d)[1]
              /\ overrides = 0 => Inner(t, d) = future

\* The poll is one of the scopes of its thread.
Polled ==
    polling # <<>> =>
        future # <<>> /\ polling[2] \in 1..Len(saved[polling[1]])

LocalInv ==
    /\ LocalTypes
    /\ \A t \in Threads : Outermost(t)
    /\ \A t \in Threads : Nested(t)
    /\ Polled

\* Knobs merged over others hide none of them.
LEMMA MergeFacts ==
    ASSUME NEW old \in Overrides, NEW new \in NewKnobs
    PROVE  /\ Knob!Merge(old, new) \in Overrides
           /\ Knob!Merge(old, new) # <<>>
           /\ old # <<>> => DOMAIN old[1] \subseteq DOMAIN Knob!Merge(old, new)[1]
<1>1. new \in [DOMAIN new -> STRING \ {"missing"}] /\ DOMAIN new \subseteq KnobNames
  BY AsyncConstants DEF KnobNames
<1>2. new \in KnobSets
  BY <1>1 DEF KnobSets
<1>3. CASE old = <<>>
  <2>1. Knob!Merge(old, new) = <<new>>
    BY <1>3 DEF Knob!Merge
  <2> QED BY <1>2, <1>3, <2>1 DEF Overrides
<1>4. CASE old # <<>>
  <2>1. PICK f \in KnobSets : old = <<f>>
    BY <1>4 DEF Overrides
  <2>2. PICK D \in SUBSET KnobNames : f \in [D -> STRING \ {"missing"}]
    BY <2>1 DEF KnobSets
  <2> DEFINE E == DOMAIN new \union D
             m == [k \in E |-> IF k \in DOMAIN new THEN new[k] ELSE f[k]]
  <2>3. Knob!Merge(old, new) = <<m>>
    BY <1>4, <2>1, <2>2 DEF Knob!Merge
  <2>4. m \in [E -> STRING \ {"missing"}] /\ E \in SUBSET KnobNames
    BY <1>1, <2>2
  <2>5. m \in KnobSets
    BY <2>4 DEF KnobSets
  <2> QED BY <2>1, <2>2, <2>3, <2>4, <2>5 DEF Overrides
<1> QED BY <1>3, <1>4

LEMMA LocalStart == Knob!Init => LocalInv
<1> SUFFICES ASSUME Knob!Init PROVE LocalInv
  OBVIOUS
<1> USE DEF Knob!Init
<1>1. LocalTypes
  BY DEF LocalTypes, Overrides
<1>2. \A t \in Threads : Outermost(t)
  BY DEF Outermost
<1>3. \A t \in Threads : Nested(t)
  BY DEF Nested
<1>4. Polled
  BY DEF Polled
<1> QED BY <1>1, <1>2, <1>3, <1>4 DEF LocalInv

\* The knobs of a thread that has some are not the missing ones.
LEMMA KnobValues ==
    ASSUME NEW o \in Overrides, o # <<>>, NEW k \in DOMAIN o[1]
    PROVE  o[1][k] # "missing"
BY DEF Overrides, KnobSets

LEMMA LocalImply == LocalInv => Knob!OverridesScoped
<1> SUFFICES ASSUME LocalInv PROVE Knob!OverridesScoped
  OBVIOUS
<1> USE DEF LocalInv
<1>1. ASSUME NEW t \in Threads \ unwound, saved[t] = <<>>
      PROVE  /\ local[t] = base[t]
             /\ Knob!Implementation(t) = "thread_local_in_memory" => base[t] # <<>>
  BY <1>1 DEF Outermost, Knob!Implementation
<1>2. ASSUME NEW t \in Threads, NEW d \in DOMAIN saved[t]
      PROVE  /\ Inner(t, d) # <<>>
             /\ saved[t][d] # <<>> /\ polling # <<t, d>> =>
                   DOMAIN saved[t][d][1] \subseteq DOMAIN Inner(t, d)[1]
             /\ polling = <<t, d>> =>
                   DOMAIN future[1] \subseteq DOMAIN Inner(t, d)[1]
  <2>1. d \in 1..Len(saved[t])
    BY <1>2 DEF LocalTypes
  <2> QED BY <2>1 DEF Nested
<1>3. ASSUME NEW t \in Threads, polling = <<t, Len(saved[t])>>,
             NEW k \in DOMAIN future[1]
      PROVE  /\ Knob!Lookup(t, k) # "missing"
             /\ overrides = 0 => Knob!Lookup(t, k) = future[1][k]
  <2> DEFINE d == Len(saved[t])
  <2>1. polling # <<>> /\ polling[1] = t /\ polling[2] = d
    BY <1>3
  <2>2. d \in 1..Len(saved[t])
    BY <2>1 DEF Polled
  <2>3. Inner(t, d) = local[t]
    BY <2>2 DEF Inner, LocalTypes
  <2>4. /\ local[t] # <<>> /\ DOMAIN future[1] \subseteq DOMAIN local[t][1]
        /\ overrides = 0 => local[t] = future
    BY <1>3, <2>2, <2>3 DEF Nested
  <2>5. local[t] \in Overrides
    BY DEF LocalTypes
  <2> QED BY <1>3, <2>4, <2>5, KnobValues DEF Knob!Lookup
<1> QED BY <1>1, <1>2, <1>3 DEF Knob!OverridesScoped, Inner


\* Entering a scope adds one inside of the others.
LEMMA EnterFacts ==
    ASSUME LocalInv, NEW t \in Threads, NEW new \in Overrides,
           Knob!Enter(t, new), UNCHANGED <<base, unwound>>
    PROVE  /\ local' \in [Threads -> Overrides]
           /\ saved' \in [Threads -> Seq(Overrides)]
           /\ \A u \in Threads : Outermost(u)'
           /\ \A u \in Threads \ {t} : Len(saved'[u]) = Len(saved[u])
           /\ Len(saved'[t]) = Len(saved[t]) + 1
           /\ \A u \in Threads : \A d \in 1..Len(saved[u]) :
                 saved'[u][d] = saved[u][d] /\ Inner(u, d)' = Inner(u, d)
           /\ saved'[t][Len(saved[t]) + 1] = local[t]
           /\ \A d : d = Len(saved[t]) + 1 => Inner(t, d)' = new
<1> DEFINE n == Len(saved[t])
<1>1. /\ saved' = [saved EXCEPT ![t] = Append(saved[t], local[t])]
      /\ local' = [local EXCEPT ![t] = new]
  BY DEF Knob!Enter
<1>2. /\ local \in [Threads -> Overrides] /\ saved \in [Threads -> Seq(Overrides)]
      /\ saved[t] \in Seq(Overrides) /\ local[t] \in Overrides /\ n \in Nat
  BY DEF LocalInv, LocalTypes
<1>3. /\ Append(saved[t], local[t]) \in Seq(Overrides)
      /\ Len(Append(saved[t], local[t])) = n + 1
      /\ \A d \in 1..n : Append(saved[t], local[t])[d] = saved[t][d]
      /\ Append(saved[t], local[t])[n + 1] = local[t]
  BY <1>2
<1>4. /\ local' \in [Threads -> Overrides]
      /\ saved' \in [Threads -> Seq(Overrides)]
      /\ saved'[t] = Append(saved[t], local[t]) /\ local'[t] = new
      /\ \A u \in Threads \ {t} : saved'[u] = saved[u] /\ local'[u] = local[u]
  BY <1>1, <1>2, <1>3
<1>5. ASSUME NEW u \in Threads PROVE Outermost(u)'
  <2>1. Outermost(u)
    BY DEF LocalInv
  <2>2. CASE u # t
    BY <1>4, <2>1, <2>2 DEF Outermost
  <2>3. CASE u = t /\ saved[t] = <<>>
    <3>1. n = 0 /\ saved'[t][1] = local[t] /\ saved'[t] # <<>>
      BY <1>2, <1>3, <1>4, <2>3
    <3> QED BY <2>1, <2>3, <3>1 DEF Outermost
  <2>4. CASE u = t /\ saved[t] # <<>>
    <3>1. 1 \in 1..n
      BY <1>2, <2>4
    <3>2. saved'[t][1] = saved[t][1] /\ saved'[t] # <<>>
      BY <1>2, <1>3, <1>4, <3>1
    <3> QED BY <2>1, <2>4, <3>2 DEF Outermost
  <2> QED BY <2>2, <2>3, <2>4
<1>6. ASSUME NEW u \in Threads, NEW d \in 1..Len(saved[u])
      PROVE  saved'[u][d] = saved[u][d] /\ Inner(u, d)' = Inner(u, d)
  <2>1. CASE u # t
    BY <1>4, <2>1 DEF Inner
  <2>2. CASE u = t
    <3>1. saved'[t][d] = saved[t][d]
      BY <1>3, <1>4, <2>2
    <3>2. CASE d < n
      <4>1. d + 1 \in 1..n /\ d < n + 1
        BY <1>2, <2>2, <3>2
      <4> QED BY <1>3, <1>4, <2>2, <3>1, <3>2, <4>1 DEF Inner
    <3>3. CASE d = n
      BY <1>2, <1>3, <1>4, <2>2, <3>1, <3>3 DEF Inner
    <3> QED BY <1>2, <2>2, <3>2, <3>3
  <2> QED BY <2>1, <2>2
<1>7. \A d : d = n + 1 => Inner(t, d)' = new
  BY <1>2, <1>3, <1>4 DEF Inner
<1> QED BY <1>3, <1>4, <1>5, <1>6, <1>7

\* A scope of a closure, or the poll of the future, is entered.
LEMMA EnterKept ==
    ASSUME LocalInv, NEW t \in Threads, NEW new \in Overrides, new # <<>>,
           Knob!Enter(t, new), UNCHANGED <<base, unwound, future, overrides>>,
           \/ /\ UNCHANGED polling
              /\ local[t] # <<>> => DOMAIN local[t][1] \subseteq DOMAIN new[1]
           \/ /\ polling = <<>> /\ new = future
              /\ polling' = <<t, Len(saved[t]) + 1>>
    PROVE  LocalInv'
<1> DEFINE n == Len(saved[t])
<1>1. /\ local' \in [Threads -> Overrides]
      /\ saved' \in [Threads -> Seq(Overrides)]
      /\ \A u \in Threads : Outermost(u)'
      /\ \A u \in Threads \ {t} : Len(saved'[u]) = Len(saved[u])
      /\ Len(saved'[t]) = n + 1
      /\ \A u \in Threads : \A d \in 1..Len(saved[u]) :
            saved'[u][d] = saved[u][d] /\ Inner(u, d)' = Inner(u, d)
      /\ saved'[t][n + 1] = local[t]
      /\ \A d : d = n + 1 => Inner(t, d)' = new
  BY EnterFacts
<1>2. n \in Nat
  BY DEF LocalInv, LocalTypes
<1>3. LocalTypes'
  BY <1>1, <1>2 DEF LocalInv, LocalTypes
<1>4. polling # <<t, n + 1>>
  <2>1. CASE polling = <<t, n + 1>>
    <3>1. polling # <<>> /\ polling[1] = t /\ polling[2] = n + 1
      BY <2>1
    <3>2. n + 1 \in 1..n
      BY <3>1 DEF LocalInv, Polled
    <3> QED BY <1>2, <3>2
  <2> QED BY <2>1
<1>5. ASSUME NEW u \in Threads, NEW d \in 1..Len(saved'[u])
      PROVE  /\ Inner(u, d)' # <<>>
             /\ saved'[u][d] # <<>> /\ polling' # <<u, d>> =>
                   DOMAIN saved'[u][d][1] \subseteq DOMAIN (Inner(u, d)')[1]
             /\ polling' = <<u, d>> =>
                   /\ DOMAIN future[1] \subseteq DOMAIN (Inner(u, d)')[1]
                   /\ overrides = 0 => Inner(u, d)' = future
  <2>1. CASE u = t /\ d = n + 1
    <3>1. Inner(u, d)' = new /\ saved'[u][d] = local[t]
      BY <1>1, <2>1
    <3>2. CASE UNCHANGED polling
      BY <1>4, <2>1, <3>1, <3>2
    <3>3. CASE polling' = <<t, n + 1>> /\ new = future
      BY <2>1, <3>1, <3>3
    <3> QED BY <3>2, <3>3
  <2>2. CASE ~(u = t /\ d = n + 1)
    <3>1. d \in 1..Len(saved[u])
      BY <1>1, <1>2, <2>2
    <3>2. polling' = <<u, d>> <=> polling = <<u, d>>
      BY <2>2
    <3>3. Nested(u)
      BY DEF LocalInv
    <3> QED BY <1>1, <3>1, <3>2, <3>3 DEF Nested
  <2> QED BY <2>1, <2>2
<1>6. \A u \in Threads : Nested(u)'
  BY <1>5 DEF Nested
<1>7. Polled'
  <2>1. CASE polling' = <<t, n + 1>>
    <3>1. polling'[1] = t /\ polling'[2] = n + 1 /\ n + 1 \in 1..(n + 1)
      BY <1>2, <2>1
    <3>2. future # <<>>
      BY <1>4, <2>1
    <3> QED BY <1>1, <3>1, <3>2 DEF Polled
  <2>2. CASE UNCHANGED polling /\ polling # <<>>
    <3>1. polling[1] \in Threads /\ polling[2] \in 1..Len(saved[polling[1]])
      BY <2>2 DEF LocalInv, LocalTypes, Polled
    <3>2. polling[2] \in 1..Len(saved'[polling[1]])
      <4>1. CASE polling[1] = t
        BY <1>1, <1>2, <3>1, <4>1
      <4>2. CASE polling[1] # t
        BY <1>1, <3>1, <4>2
      <4> QED BY <4>1, <4>2
    <3> QED BY <2>2, <3>2 DEF LocalInv, Polled
  <2>3. CASE UNCHANGED polling /\ polling = <<>>
    BY <2>3 DEF Polled
  <2> QED BY <2>1, <2>2, <2>3
<1> QED BY <1>1, <1>3, <1>6, <1>7 DEF LocalInv


\* A scope is left, and what was there before it comes back.
LEMMA LeaveKept ==
    ASSUME LocalInv, NEW t \in Threads, Knob!Leave(t)
    PROVE  LocalInv'
<1> DEFINE n == Len(saved[t])
<1>1. /\ n > 0
      /\ local' = [local EXCEPT ![t] = saved[t][n]]
      /\ saved' = [saved EXCEPT ![t] = SubSeq(saved[t], 1, n - 1)]
      /\ polling' = IF polling = <<t, n>> THEN <<>> ELSE polling
      /\ UNCHANGED <<base, unwound, future, overrides>>
  BY DEF Knob!Leave
<1>2. /\ local \in [Threads -> Overrides] /\ saved \in [Threads -> Seq(Overrides)]
      /\ saved[t] \in Seq(Overrides) /\ n \in Nat /\ n \in DOMAIN saved[t]
      /\ saved[t][n] \in Overrides
  BY <1>1 DEF LocalInv, LocalTypes
<1>3. /\ SubSeq(saved[t], 1, n - 1) \in Seq(Overrides)
      /\ Len(SubSeq(saved[t], 1, n - 1)) = n - 1
      /\ \A d \in 1..(n - 1) : SubSeq(saved[t], 1, n - 1)[d] = saved[t][d]
  <2>1. n - 1 \in 0..Len(saved[t])
    BY <1>1, <1>2
  <2> QED BY <1>2, <2>1, SplitSeq, ZenonT(20)
<1>4. /\ local' \in [Threads -> Overrides]
      /\ saved' \in [Threads -> Seq(Overrides)]
      /\ saved'[t] \in Seq(Overrides) /\ Len(saved'[t]) = n - 1
      /\ \A d \in 1..(n - 1) : saved'[t][d] = saved[t][d]
      /\ local'[t] = saved[t][n] /\ Len(saved[t]) = n
      /\ \A u \in Threads \ {t} : saved'[u] = saved[u] /\ local'[u] = local[u]
  BY <1>1, <1>2, <1>3
<1> HIDE DEF n
<1>5. LocalTypes'
  BY <1>1, <1>4 DEF LocalInv, LocalTypes
<1>6. ASSUME NEW u \in Threads PROVE Outermost(u)'
  <2>1. Outermost(u)
    BY DEF LocalInv
  <2>2. CASE u # t
    BY <1>1, <1>4, <2>1, <2>2 DEF Outermost
  <2>3. CASE u = t /\ n = 1
    <3>1. saved'[t] = <<>> /\ saved[t] # <<>>
      <4>1. Len(saved'[t]) = 0 /\ saved'[t] \in Seq(Overrides)
        BY <1>4, <2>3
      <4> QED BY <1>1, <1>2, <1>4, <4>1, EmptySeq
    <3> QED BY <1>1, <1>4, <2>1, <2>3, <3>1 DEF Outermost
  <2>4. CASE u = t /\ n > 1
    <3>1. 1 \in 1..(n - 1)
      BY <1>2, <2>4
    <3>2. saved'[t] # <<>> /\ saved[t] # <<>> /\ saved'[t][1] = saved[t][1]
      <4>1. /\ Len(saved'[t]) # 0 /\ saved'[t] \in Seq(Overrides)
            /\ saved'[t][1] = saved[t][1]
        BY <1>2, <1>4, <2>4, <3>1
      <4>2. saved'[t] # <<>>
        BY <4>1, EmptySeq
      <4>3. Len(saved[t]) # 0
        BY <1>2, <1>4, <2>4
      <4>4. saved[t] # <<>>
        BY <1>2, <4>3, EmptySeq
      <4> QED BY <4>1, <4>2, <4>4
    <3> QED BY <1>1, <2>1, <2>4, <3>2 DEF Outermost
  <2>5. n = 1 \/ n > 1
    BY <1>1, <1>2
  <2> QED BY <2>2, <2>3, <2>4, <2>5
<1>7. ASSUME NEW u \in Threads, NEW d \in 1..Len(saved'[u])
      PROVE  /\ d \in 1..Len(saved[u]) /\ saved'[u][d] = saved[u][d]
             /\ Inner(u, d)' = Inner(u, d) /\ <<u, d>> # <<t, n>>
  <2>1. CASE u # t
    BY <1>4, <2>1 DEF Inner
  <2>2. CASE u = t
    <3>1. d \in 1..(n - 1) /\ saved'[t][d] = saved[t][d] /\ d # n /\ d < n
      BY <1>2, <1>4, <2>2
    <3>2. CASE d < n - 1
      <4>1. d + 1 \in 1..(n - 1)
        BY <1>2, <3>1, <3>2
      <4> QED BY <1>2, <1>4, <2>2, <3>1, <3>2, <4>1 DEF Inner
    <3>3. CASE d = n - 1
      <4>1. d + 1 = n /\ Len(saved'[t]) = d /\ ~(d < d)
        BY <1>2, <1>4, <3>1, <3>3
      <4>2. Inner(t, d) = saved[t][n]
        BY <1>4, <3>1, <4>1 DEF Inner
      <4>3. Inner(t, d)' = local'[t]
        BY <4>1 DEF Inner
      <4>4. d \in 1..Len(saved[t]) /\ <<t, d>> # <<t, n>>
        BY <1>2, <3>1
      <4> QED BY <1>4, <2>2, <3>1, <4>2, <4>3, <4>4
    <3> QED BY <1>2, <3>1, <3>2, <3>3
  <2> QED BY <2>1, <2>2
<1>8. ASSUME NEW u \in Threads PROVE Nested(u)'
  <2>1. Nested(u)
    BY DEF LocalInv
  <2>2. \A d \in 1..Len(saved'[u]) : <<u, d>> # <<>>
    OBVIOUS
  <2>3. \A d \in 1..Len(saved'[u]) : polling' = <<u, d>> <=> polling = <<u, d>>
    <3> TAKE d \in 1..Len(saved'[u])
    <3>1. <<u, d>> # <<t, n>>
      BY <1>7
    <3>2. CASE polling = <<t, n>>
      BY <1>1, <2>2, <3>1, <3>2
    <3>3. CASE polling # <<t, n>>
      BY <1>1, <3>3
    <3> QED BY <3>2, <3>3
  <2>4. \A d \in 1..Len(saved'[u]) :
          /\ d \in 1..Len(saved[u]) /\ saved'[u][d] = saved[u][d]
          /\ Inner(u, d)' = Inner(u, d)
    BY <1>7
  <2> QED BY <1>1, <2>1, <2>3, <2>4 DEF Nested
<1>9. Polled'
  <2>1. CASE polling' = <<>>
    BY <2>1 DEF Polled
  <2>2. CASE polling' # <<>>
    <3>1. polling' = polling /\ polling # <<t, n>>
      BY <1>1, <2>2
    <3>2. /\ polling \in Threads \X Nat /\ future # <<>>
          /\ polling[2] \in 1..Len(saved[polling[1]])
      BY <2>2, <3>1 DEF LocalInv, LocalTypes, Polled
    <3>3. CASE polling[1] # t
      BY <1>1, <1>4, <3>1, <3>2, <3>3 DEF Polled
    <3>4. CASE polling[1] = t
      <4>1. polling = <<polling[1], polling[2]>>
        BY <3>2
      <4>2. polling[2] # n
        BY <3>1, <3>4, <4>1
      <4>3. polling[2] \in 1..(n - 1)
        BY <1>2, <1>4, <3>2, <3>4, <4>2
      <4> QED BY <1>1, <1>4, <3>1, <3>2, <3>4, <4>3 DEF Polled
    <3> QED BY <3>3, <3>4
  <2> QED BY <2>1, <2>2
<1> QED BY <1>5, <1>6, <1>8, <1>9 DEF LocalInv

\* A panic leaves all scopes of the thread.
LEMMA UnwindKept ==
    ASSUME LocalInv, NEW t \in Threads, Knob!Unwind(t)
    PROVE  LocalInv'
<1>1. /\ saved' = [saved EXCEPT ![t] = <<>>]
      /\ unwound' = unwound \union {t}
      /\ polling' = IF polling # <<>> /\ polling[1] = t THEN <<>> ELSE polling
      /\ UNCHANGED <<local, base, future, overrides>>
  BY DEF Knob!Unwind
<1>2. saved \in [Threads -> Seq(Overrides)] /\ polling \in {<<>>} \cup (Threads \X Nat)
  BY DEF LocalInv, LocalTypes
<1>3. /\ saved' \in [Threads -> Seq(Overrides)]
      /\ saved'[t] = <<>> /\ Len(saved'[t]) = 0
      /\ \A u \in Threads \ {t} : saved'[u] = saved[u]
  BY <1>1, <1>2
<1>4. LocalTypes'
  BY <1>1, <1>3 DEF LocalInv, LocalTypes
<1>5. \A u \in Threads : Outermost(u)'
  BY <1>1, <1>3 DEF LocalInv, Outermost
<1>6. ASSUME NEW u \in Threads PROVE Nested(u)'
  <2>1. CASE u = t
    BY <1>3, <2>1 DEF Nested
  <2>2. CASE u # t
    <3>1. \A d \in 1..Len(saved[u]) : polling' = <<u, d>> <=> polling = <<u, d>>
      <4> TAKE d \in 1..Len(saved[u])
      <4>1. CASE polling # <<>> /\ polling[1] = t
        <5>1. polling # <<u, d>> /\ <<u, d>> # <<>>
          BY <2>2, <4>1
        <5> QED BY <1>1, <4>1, <5>1
      <4>2. CASE ~(polling # <<>> /\ polling[1] = t)
        BY <1>1, <4>2
      <4> QED BY <4>1, <4>2
    <3>2. \A d \in 1..Len(saved[u]) : Inner(u, d)' = Inner(u, d)
      BY <1>1, <1>3, <2>2 DEF Inner
    <3> QED BY <1>1, <1>3, <2>2, <3>1, <3>2 DEF LocalInv, Nested
  <2> QED BY <2>1, <2>2
<1>7. Polled'
  BY <1>1, <1>2, <1>3 DEF LocalInv, Polled
<1> QED BY <1>4, <1>5, <1>6, <1>7 DEF LocalInv

\* An override adds to the innermost scope, or to what is outside of all.
LEMMA OverrideKept ==
    ASSUME LocalInv, NEW t \in Threads, NEW new \in NewKnobs,
           Knob!OverrideJustKnobs(t, new)
    PROVE  LocalInv'
<1> DEFINE m == Knob!Merge(local[t], new)
<1>1. /\ overrides' = overrides + 1
      /\ local' = [local EXCEPT ![t] = m]
      /\ base' = IF saved[t] = <<>>
                 THEN [base EXCEPT ![t] = Knob!Merge(base[t], new)] ELSE base
      /\ UNCHANGED <<saved, unwound, future, polling>>
  BY DEF Knob!OverrideJustKnobs
<1>2. /\ local \in [Threads -> Overrides] /\ saved \in [Threads -> Seq(Overrides)]
      /\ local[t] \in Overrides /\ base[t] \in Overrides
      /\ base \in [Threads -> Overrides] /\ overrides \in Nat
  BY DEF LocalInv, LocalTypes
<1>3. /\ m \in Overrides /\ m # <<>>
      /\ local[t] # <<>> => DOMAIN local[t][1] \subseteq DOMAIN m[1]
      /\ Knob!Merge(base[t], new) \in Overrides
  BY <1>2, MergeFacts
<1> HIDE DEF m
<1>4. LocalTypes'
  BY <1>1, <1>2, <1>3 DEF LocalInv, LocalTypes
<1>5. ASSUME NEW u \in Threads PROVE Outermost(u)'
  <2>1. Outermost(u)
    BY DEF LocalInv
  <2>2. CASE u # t
    BY <1>1, <1>2, <2>1, <2>2 DEF Outermost
  <2>3. CASE u = t
    BY <1>1, <1>2, <2>1, <2>3 DEF Outermost, m
  <2> QED BY <2>2, <2>3
<1>6. ASSUME NEW u \in Threads PROVE Nested(u)'
  <2>1. Nested(u)
    BY DEF LocalInv
  <2>2. ASSUME NEW d \in 1..Len(saved[u])
        PROVE  /\ Inner(u, d)' # <<>>
               /\ DOMAIN Inner(u, d)[1] \subseteq DOMAIN (Inner(u, d)')[1]
    <3>1. Inner(u, d) # <<>>
      BY <2>1 DEF Nested
    <3>2. CASE u = t /\ ~(d < Len(saved[u]))
      <4>1. Inner(u, d)' = m /\ Inner(u, d) = local[t]
        BY <1>1, <1>2, <3>2 DEF Inner
      <4> QED BY <1>3, <3>1, <4>1
    <3>3. CASE ~(u = t /\ ~(d < Len(saved[u])))
      <4>1. Inner(u, d)' = Inner(u, d)
        BY <1>1, <1>2, <3>3 DEF Inner
      <4> QED BY <3>1, <4>1
    <3> QED BY <3>2, <3>3
  <2>3. overrides' # 0
    BY <1>1, <1>2
  <2> QED BY <1>1, <2>1, <2>2, <2>3 DEF Nested
<1>7. Polled'
  BY <1>1 DEF LocalInv, Polled
<1> QED BY <1>4, <1>5, <1>6, <1>7 DEF LocalInv

\* Every step on a thread keeps the invariant.
LEMMA LocalKept == LocalInv /\ Knob!LocalNext => LocalInv'
<1> SUFFICES ASSUME LocalInv, Knob!LocalNext PROVE LocalInv'
  OBVIOUS
<1>1. PICK t \in Threads :
        \/ Knob!PollFuture(t) \/ Knob!Leave(t) \/ Knob!Unwind(t)
        \/ \E new \in NewKnobs :
              \/ Knob!WithJustKnobs(t, new) \/ Knob!MakeFuture(t, new)
              \/ Knob!OverrideJustKnobs(t, new)
  BY DEF Knob!LocalNext
<1>2. local[t] \in Overrides /\ future \in Overrides
  BY DEF LocalInv, LocalTypes
<1>3. CASE Knob!PollFuture(t)
  <2>1. /\ future # <<>> /\ polling = <<>>
        /\ polling' = <<t, Len(saved[t]) + 1>>
        /\ Knob!Enter(t, future)
        /\ UNCHANGED <<base, unwound, future, overrides>>
    BY <1>3 DEF Knob!PollFuture
  <2> QED BY <1>2, <2>1, EnterKept
<1>4. ASSUME NEW new \in NewKnobs, Knob!WithJustKnobs(t, new) PROVE LocalInv'
  <2>1. /\ Knob!Enter(t, Knob!Merge(local[t], new))
        /\ UNCHANGED <<base, unwound, future, polling, overrides>>
    BY <1>4 DEF Knob!WithJustKnobs
  <2> QED BY <1>2, <2>1, MergeFacts, EnterKept
<1>5. ASSUME NEW new \in NewKnobs, Knob!MakeFuture(t, new) PROVE LocalInv'
  <2>1. /\ future = <<>> /\ future' = Knob!Merge(local[t], new)
        /\ UNCHANGED <<local, saved, base, unwound, polling, overrides>>
    BY <1>5 DEF Knob!MakeFuture
  <2>2. polling = <<>>
    BY <2>1 DEF LocalInv, Polled
  <2>3. LocalTypes'
    BY <1>2, <2>1, MergeFacts DEF LocalInv, LocalTypes
  <2>4. \A u \in Threads : Outermost(u)'
    BY <2>1 DEF LocalInv, Outermost
  <2>5. \A u \in Threads : Nested(u)'
    <3>1. \A u, d : polling # <<u, d>>
      BY <2>2
    <3> QED BY <2>1, <3>1 DEF LocalInv, Nested, Inner
  <2>6. Polled'
    BY <2>1, <2>2 DEF Polled
  <2> QED BY <2>3, <2>4, <2>5, <2>6 DEF LocalInv
<1> QED BY <1>1, <1>3, <1>4, <1>5, LeaveKept, UnwindKept, OverrideKept


-----------------------------------------------------------------------------
(* The composition.                                                          *)

\* Every part keeps its own invariant; the parts without one are at rest.
SharedInv ==
    /\ active = "cell" => CellInv
    /\ StatsInv /\ DetectorInv /\ ConfigInv /\ LocalInv

\* A part that takes no step keeps what its variables say.
LEMMA AtRest ==
    /\ CellInv /\ UNCHANGED cellVars => CellInv'
    /\ StatsInv /\ UNCHANGED statsVars => StatsInv'
    /\ DetectorInv /\ UNCHANGED detectorVars => DetectorInv'
    /\ ConfigInv /\ UNCHANGED configVars => ConfigInv'
    /\ LocalInv /\ UNCHANGED localVars => LocalInv'
<1>1. CellInv /\ UNCHANGED cellVars => CellInv'
  BY DEF cellVars, CellInv, CellTypes, Mutex, Slot, Kinds
<1>2. StatsInv /\ UNCHANGED statsVars => StatsInv'
  BY DEF statsVars, StatsInv, StatsTypes, Registry, Registrations
<1>3. DetectorInv /\ UNCHANGED detectorVars => DetectorInv'
  BY DEF detectorVars, DetectorInv, DetectorTypes, Probes
<1>4. ConfigInv /\ UNCHANGED configVars => ConfigInv'
  BY DEF configVars, ConfigInv, ConfigTypes, Worker
<1>5. LocalInv /\ UNCHANGED localVars => LocalInv'
  BY DEF localVars, LocalInv, LocalTypes, Outermost, Nested, Inner, Polled
<1> QED BY <1>1, <1>2, <1>3, <1>4, <1>5

LEMMA SharedStep == SharedInv /\ [Next]_vars => SharedInv'
<1> SUFFICES ASSUME SharedInv, [Next]_vars PROVE SharedInv'
  OBVIOUS
<1>1. CASE CellStep
  <2>1. /\ active = "cell" /\ Cells!Next
        /\ UNCHANGED <<active, statsVars, detectorVars, configVars, localVars>>
    BY <1>1 DEF CellStep
  <2> QED BY <2>1, CellsKept, AtRest DEF SharedInv
<1>2. CASE StatsStep
  <2>1. /\ active = "stats" /\ Stat!Next
        /\ UNCHANGED <<active, cellVars, detectorVars, configVars, localVars>>
    BY <1>2 DEF StatsStep
  <2> QED BY <2>1, StatsKept, AtRest DEF SharedInv
<1>3. CASE DetectorStep
  <2>1. /\ active = "detector" /\ Detect!Next
        /\ UNCHANGED <<active, cellVars, statsVars, configVars, localVars>>
    BY <1>3 DEF DetectorStep
  <2> QED BY <2>1, DetectorKept, AtRest DEF SharedInv
<1>4. CASE ConfigStep
  <2>1. /\ active = "config" /\ Knob!ConfigNext
        /\ UNCHANGED <<active, cellVars, statsVars, detectorVars, localVars>>
    BY <1>4 DEF ConfigStep
  <2> QED BY <2>1, ConfigKept, AtRest DEF SharedInv
<1>5. CASE LocalStep
  <2>1. /\ active = "local" /\ Knob!LocalNext
        /\ UNCHANGED <<active, cellVars, statsVars, detectorVars, configVars>>
    BY <1>5 DEF LocalStep
  <2> QED BY <2>1, LocalKept, AtRest DEF SharedInv
<1>6. CASE \/ StreamStep \/ FutureStep \/ RetryStep \/ WeightStep
           \/ JunctionStep \/ UNCHANGED vars
  <2>1. UNCHANGED <<active, cellVars, statsVars, detectorVars, configVars,
                    localVars>>
    BY <1>6 DEF StreamStep, FutureStep, RetryStep, WeightStep, JunctionStep, vars
  <2> QED BY <2>1, AtRest DEF SharedInv
<1> QED BY <1>1, <1>2, <1>3, <1>4, <1>5, <1>6 DEF Next

(* The state that threads and tasks share is sound under every interleaving, *)
(* for any number of callers, threads, monitors, versions and scopes:        *)
(* async_once_cell and futures_lazy_shared give everyone one value, also     *)
(* when initialisers fail or are dropped; perthread's map has no dangling    *)
(* pointer, and the managers of the threads and of the process, with the     *)
(* stats they make, have one factory; detectors stop; justknobs has the last *)
(* version and its overrides do not leave their scopes.                      *)
THEOREM InterleavingsCorrect == Spec => []InterleavingsSound
<1>1. Init => SharedInv
  BY CellsStart, StatsStart, DetectorStart, ConfigStart, LocalStart
     DEF Init, SharedInv
<1>2. SharedInv => InterleavingsSound
  BY CellsImply, StatsImply, DetectorImply, ConfigImply, LocalImply
     DEF SharedInv, InterleavingsSound, Knob!KnobsSound
<1> QED BY <1>1, <1>2, SharedStep, PTL DEF Spec

-----------------------------------------------------------------------------
(* The wrappers of a stream.                                                 *)

StreamTypes ==
    /\ given \in Seq(Int) /\ out \in Seq(Int)
    /\ over \in BOOLEAN /\ repolled \in BOOLEAN
    /\ armed \in BOOLEAN /\ dropped \in BOOLEAN

BatchInv == adaptor = "batch" => own \in [err : Int]

CollectInv == adaptor = "collect" => own \in [items : Seq(Int \ {0})]

\* The receiver gets the rest of the stream when it has ended, not before.
RemainderInv == adaptor = "return_remainder" =>
    /\ own \in [inner : BOOLEAN, chan : {"open", "sent", "canceled"}]
    /\ own.inner <=> ~over
    /\ own.chan = "sent" <=> over
    /\ own.chan = "canceled" => dropped
    /\ side # <<>> => \/ side = <<"stream">> /\ over
                      \/ side = <<"Canceled">> /\ dropped /\ ~over
                      \/ side = <<"ReceiveBeforeSend">>

\* The timeout's error is the last thing to be handed over.
TimeoutInv == adaptor = "timeout" =>
    /\ own \in [done : BOOLEAN, deadline : {"unset", "running", "fired"}]
    /\ ~own.done => ~over /\ ret # "end" /\ \A i \in DOMAIN out : out[i] # 0
    /\ own.done => over \/ (out # <<>> /\ out[Len(out)] = 0)

\* What is left of the budget and what was used make the budget.
YieldInv == adaptor = "yield_periodically" =>
    /\ own \in [left : Nat, must_yield : BOOLEAN, ran : Nat]
    /\ IF own.must_yield THEN own.left = Budget /\ own.ran > Budget
                         ELSE own.left + own.ran = Budget

TimedFields == [count : Nat, poll_count : Nat, error_count : Nat,
                first_error : Int, completed : BOOLEAN, callback : BOOLEAN]

IsFirst(f, E) == f \in E /\ \A i \in E : f <= i

\* The statistics are those of what was handed over, until they are reported.
TimedInv == adaptor = "timed" =>
    /\ own \in TimedFields
    /\ own.completed <=> over
    /\ own.completed <=> ret = "end"
    /\ own.callback <=> ~own.completed /\ ~dropped
    /\ own.count = Len(out)
    /\ own.error_count = Cardinality(Streams!ErrorsAt(out))
    /\ IF Streams!ErrorsAt(out) = {} THEN own.first_error = -1
                                     ELSE IsFirst(own.first_error + 1,
                                                  Streams!ErrorsAt(out))
    /\ side = IF own.callback THEN <<>> ELSE <<own>>

\* Only the timeout's error is 0, and it comes last.
ZeroLast == \A i \in DOMAIN out :
    out[i] = 0 => adaptor = "timeout" /\ i = Len(out) /\ ~over

EndOver == ret = "end" => over \/ adaptor = "timeout"

StreamInv ==
    /\ StreamTypes
    /\ BatchInv /\ CollectInv /\ RemainderInv /\ TimeoutInv /\ YieldInv /\ TimedInv
    /\ ZeroLast /\ EndOver
    /\ Streams!WakeKept

\* The instance has copies of the library's operators.
LEMMA StreamOperators ==
    /\ \A s : Streams!Last(s) = s[Len(s)]
    /\ \A S : Streams!Cardinality(S) = Cardinality(S)
<1>1. \A s : Streams!Last(s) = s[Len(s)]
  BY DEF Streams!Last
<1>2. \A S : Streams!Cardinality(S) = Cardinality(S)
  BY DEF Streams!Cardinality, Cardinality
<1> QED BY <1>1, <1>2

LEMMA StreamStart == Streams!Init => StreamInv
<1> SUFFICES ASSUME Streams!Init PROVE StreamInv
  OBVIOUS
<1>1. /\ given = <<>> /\ out = <<>> /\ side = <<>> /\ ret = "new"
      /\ over = FALSE /\ repolled = FALSE /\ armed = FALSE /\ dropped = FALSE
      /\ own = Streams!Own[adaptor]
  BY DEF Streams!Init
<1>2. StreamTypes /\ ZeroLast /\ EndOver /\ Streams!WakeKept
  <2>1. given \in Seq(Int) /\ out \in Seq(Int) /\ DOMAIN out = {}
    BY <1>1
  <2>2. StreamTypes
    BY <1>1, <2>1, Zenon DEF StreamTypes
  <2>3. ZeroLast /\ EndOver
    BY <1>1, <2>1 DEF ZeroLast, EndOver
  <2>4. Streams!WakeKept
    BY <1>1 DEF Streams!WakeKept
  <2> QED BY <2>2, <2>3, <2>4
<1>3. BatchInv /\ CollectInv /\ RemainderInv /\ TimeoutInv
  <2>1. BatchInv
    BY <1>1 DEF BatchInv, Streams!Own
  <2>2. CollectInv
    <3>1. adaptor = "collect" => own = [items |-> <<>>]
      BY <1>1 DEF Streams!Own
    <3>2. <<>> \in Seq(Int \ {0})
      OBVIOUS
    <3>3. \A S : <<>> \in S => [items |-> <<>>] \in [items : S]
      OBVIOUS
    <3> QED BY <3>1, <3>2, <3>3, Zenon DEF CollectInv
  <2>3. RemainderInv
    <3>1. adaptor = "return_remainder" => own = [inner |-> TRUE, chan |-> "open"]
      BY <1>1 DEF Streams!Own
    <3>2. [inner |-> TRUE, chan |-> "open"]
             \in [inner : BOOLEAN, chan : {"open", "sent", "canceled"}]
      OBVIOUS
    <3>3. adaptor = "return_remainder" =>
            /\ own \in [inner : BOOLEAN, chan : {"open", "sent", "canceled"}]
            /\ own.inner = TRUE /\ own.chan = "open"
      BY <3>1, <3>2
    <3> QED BY <1>1, <3>3 DEF RemainderInv
  <2>4. TimeoutInv
    <3>1. adaptor = "timeout" => own = [done |-> FALSE, deadline |-> "unset"]
      BY <1>1 DEF Streams!Own
    <3>2. DOMAIN out = {}
      BY <1>1
    <3>3. [done |-> FALSE, deadline |-> "unset"]
             \in [done : BOOLEAN, deadline : {"unset", "running", "fired"}]
      OBVIOUS
    <3>4. adaptor = "timeout" =>
            /\ own \in [done : BOOLEAN, deadline : {"unset", "running", "fired"}]
            /\ own.done = FALSE
      BY <3>1, <3>3
    <3> QED BY <1>1, <3>2, <3>4 DEF TimeoutInv
  <2> QED BY <2>1, <2>2, <2>3, <2>4
<1>4. YieldInv
  BY <1>1, AsyncConstants DEF YieldInv, Streams!Own
<1>5. TimedInv
  <2>1. Streams!ErrorsAt(out) = {}
    BY <1>1 DEF Streams!ErrorsAt
  <2>2. Cardinality({}) = 0
    BY FS_EmptySet
  <2>3. adaptor = "timed" =>
          own = [count |-> 0, poll_count |-> 0, error_count |-> 0,
                 first_error |-> -1, completed |-> FALSE, callback |-> TRUE]
    BY <1>1 DEF Streams!Own
  <2>4. Len(out) = 0
    BY <1>1
  <2>5. ASSUME adaptor = "timed"
        PROVE
          /\ own \in TimedFields
          /\ own.count = 0 /\ own.error_count = 0 /\ own.first_error = -1
          /\ own.completed = FALSE /\ own.callback = TRUE
    <3>1. /\ own.count = 0 /\ own.error_count = 0 /\ own.first_error = -1
          /\ own.completed = FALSE /\ own.callback = TRUE
      BY <2>3, <2>5
    <3>2. \A x : x \in Int =>
             [count |-> 0, poll_count |-> 0, error_count |-> 0,
              first_error |-> x, completed |-> FALSE, callback |-> TRUE]
               \in TimedFields
      BY DEF TimedFields
    <3>3. -1 \in Int
      OBVIOUS
    <3> QED BY <2>3, <2>5, <3>1, <3>2, <3>3
  <2> QED BY <1>1, <2>1, <2>2, <2>4, <2>5 DEF TimedInv
<1> QED BY <1>2, <1>3, <1>4, <1>5 DEF StreamInv

\* What a poll of the stream gives that answers r at once.
Got(r) == IF r = "item" THEN <<Len(given) + 1>>
          ELSE IF r = "err" THEN <<-(Len(given) + 1)>> ELSE <<>>

\* The stream gives k items and what r adds.
LEMMA GivenMore ==
    ASSUME given \in Seq(Int), NEW k \in Nat, NEW r, Streams!Ask(k, r)
    PROVE  /\ given' \in Seq(Int) /\ Len(given') >= Len(given)
           /\ \A i \in 1..Len(given) : given'[i] = given[i]
           /\ r = "err" => given' # <<>> /\ given'[Len(given')] < 0
           /\ over' = (over \/ r = "end") /\ repolled' = (repolled \/ over)
<1> DEFINE m == [i \in 1..k |-> Len(given) + i]
           e == IF r = "item" THEN <<Len(given) + k + 1>>
                ELSE IF r = "err" THEN <<-(Len(given) + k + 1)>> ELSE <<>>
<1>1. /\ given' = (given \o m) \o e
      /\ over' = (over \/ r = "end") /\ repolled' = (repolled \/ over)
  BY DEF Streams!Ask
<1>2. Len(given) \in Nat /\ m \in Seq(Int) /\ Len(m) = k
  OBVIOUS
<1>3. e \in Seq(Int) /\ (r = "err" => Len(e) = 1 /\ e[1] < 0)
  BY <1>2
<1> HIDE DEF m, e
<1>4. /\ given \o m \in Seq(Int) /\ Len(given \o m) = Len(given) + k
      /\ \A i \in 1..Len(given) : (given \o m)[i] = given[i]
  BY <1>2
<1>5. /\ given' \in Seq(Int) /\ Len(given') = Len(given) + k + Len(e)
      /\ \A i \in 1..Len(given) : given'[i] = given[i]
      /\ r = "err" => given'[Len(given')] = e[1]
  <2> DEFINE g == given \o m
  <2>1. g \in Seq(Int) /\ Len(g) = Len(given) + k /\ given' = g \o e
    BY <1>1, <1>4
  <2>2. \A i \in 1..Len(given) : g[i] = given[i]
    BY <1>4
  <2> HIDE DEF g
  <2>3. e \in Seq(Int)
    BY <1>3
  <2>4. /\ g \o e \in Seq(Int) /\ Len(g \o e) = Len(g) + Len(e)
        /\ \A i \in 1..Len(g) + Len(e) :
              (g \o e)[i] = IF i <= Len(g) THEN g[i] ELSE e[i - Len(g)]
    BY <2>1, <2>3, ConcatProperties, Zenon
  <2>5. Len(g) \in Nat /\ Len(e) \in Nat
    BY <2>1, <2>3
  <2>6. \A i \in 1..Len(given) : given'[i] = given[i]
    <3>1. Len(given) \in Nat /\ Len(g) = Len(given) + k
      BY <1>2, <2>1
    <3>2. \A p, q \in Nat : \A i \in 1..p : i \in 1..(p + k) + q /\ i <= p + k
      OBVIOUS
    <3>3. \A i \in 1..Len(given) : i \in 1..Len(g) + Len(e) /\ i <= Len(g)
      BY <2>5, <3>1, <3>2, Zenon
    <3> QED BY <2>1, <2>2, <2>4, <3>3, Zenon
  <2>7. ASSUME r = "err" PROVE given'[Len(given')] = e[1]
    <3>1. Len(e) = 1
      BY <1>3, <2>7
    <3>2. /\ Len(g) + 1 \in 1..Len(g) + Len(e)
          /\ ~(Len(g) + 1 <= Len(g)) /\ (Len(g) + 1) - Len(g) = 1
      BY <2>5, <3>1
    <3>3. (g \o e)[Len(g) + 1] = e[1]
      BY <2>4, <3>2
    <3> QED BY <2>1, <2>4, <3>1, <3>3, Zenon
  <2>8. given' \in Seq(Int) /\ Len(given') = Len(given) + k + Len(e)
    BY <2>1, <2>4, Zenon
  <2> QED BY <2>6, <2>7, <2>8
<1>6. r = "err" => given' # <<>> /\ given'[Len(given')] < 0
  BY <1>2, <1>3, <1>5
<1>7. Len(e) \in Nat
  BY <1>3
<1> QED BY <1>1, <1>2, <1>5, <1>6, <1>7, SMTT(20)

\* A reply without items before it.
LEMMA GivenOne ==
    ASSUME given \in Seq(Int), NEW r, Streams!Ask(0, r)
    PROVE  /\ given' = given \o Got(r) /\ Got(r) \in Seq(Int \ {0})
           /\ SubSeq(given', Len(given) + 1, Len(given')) = Got(r)
<1> DEFINE m == [i \in 1..0 |-> Len(given) + i]
<1>1. given' = (given \o m) \o Got(r)
  <2>1. Len(given) + 0 = Len(given)
    OBVIOUS
  <2> QED BY <2>1 DEF Streams!Ask, Got
<1>2. m = <<>>
  OBVIOUS
<1> HIDE DEF m
<1>3. given' = given \o Got(r)
  BY <1>1, <1>2
<1>4. Got(r) \in Seq(Int \ {0}) /\ Len(Got(r)) \in {0, 1}
  <2>1. Len(given) + 1 \in Int \ {0} /\ -(Len(given) + 1) \in Int \ {0}
    OBVIOUS
  <2>2. \A x \in Int \ {0} : <<x>> \in Seq(Int \ {0}) /\ Len(<<x>>) = 1
    OBVIOUS
  <2>3. <<>> \in Seq(Int \ {0}) /\ Len(<<>>) = 0
    OBVIOUS
  <2> QED BY <2>1, <2>2, <2>3 DEF Got
<1>5. SubSeq(given', Len(given) + 1, Len(given')) = Got(r)
  <2> DEFINE n == Len(given)
             s == SubSeq(given', n + 1, Len(given'))
  <2>1. n \in Nat /\ Len(given') = n + Len(Got(r)) /\ given' \in Seq(Int)
    BY <1>3, <1>4
  <2>2. \A i \in 1..Len(Got(r)) : given'[n + i] = Got(r)[i]
    BY <1>3, <1>4
  <2>3. s \in Seq(Int) /\ Len(s) = Len(Got(r))
    BY <1>4, <2>1
  <2>4. \A i \in 1..Len(Got(r)) : s[i] = Got(r)[i]
    <3> TAKE i \in 1..Len(Got(r))
    <3>1. i = 1 /\ Len(Got(r)) = 1
      <4>1. CASE Len(Got(r)) = 0
        BY <4>1
      <4>2. CASE Len(Got(r)) = 1
        BY <4>2
      <4> QED BY <1>4, <4>1, <4>2
    <3>2. s[1] = given'[n + 1]
      BY <2>1, <3>1
    <3> QED BY <2>2, <3>1, <3>2
  <2> HIDE DEF s, n
  <2>5. s = Got(r)
    <3>1. Got(r) \in Seq(Int)
      BY <1>4
    <3> QED BY <2>3, <2>4, <3>1, SMTT(20)
  <2> QED BY <2>5 DEF s, n
<1> QED BY <1>3, <1>4, <1>5

\* The items s that are handed over are not errors of the timeout.
LEMMA HandedOver ==
    ASSUME out \in Seq(Int), NEW s \in Seq(Int \ {0}), out' = out \o s
    PROVE  /\ out' \in Seq(Int)
           /\ (\A i \in DOMAIN out : out[i] # 0) => \A i \in DOMAIN out' : out'[i] # 0
<1>1. s \in Seq(Int) /\ Len(s) \in Nat /\ \A i \in 1..Len(s) : s[i] # 0
  OBVIOUS
<1>2. /\ out' \in Seq(Int) /\ Len(out') = Len(out) + Len(s) /\ Len(out) \in Nat
      /\ \A i \in 1..Len(out) : out'[i] = out[i]
      /\ \A i \in 1..Len(s) : out'[Len(out) + i] = s[i]
  BY <1>1
<1>3. ASSUME \A i \in DOMAIN out : out[i] # 0, NEW i \in DOMAIN out'
      PROVE  out'[i] # 0
  <2>1. i \in 1..Len(out) \/ (i - Len(out) \in 1..Len(s) /\ i = Len(out) + (i - Len(out)))
    BY <1>1, <1>2
  <2>2. CASE i \in 1..Len(out)
    BY <1>2, <1>3, <2>2
  <2>3. CASE i - Len(out) \in 1..Len(s) /\ i = Len(out) + (i - Len(out))
    <3>1. out'[Len(out) + (i - Len(out))] = s[i - Len(out)]
      BY <1>2, <2>3
    <3> QED BY <1>1, <2>3, <3>1
  <2> QED BY <2>1, <2>2, <2>3
<1> QED BY <1>2, <1>3

\* What an answer with the items s does to all but the wrapper's own fields.
LEMMA Answered ==
    ASSUME StreamInv, NEW r, NEW s \in Seq(Int \ {0}), NEW w \in BOOLEAN,
           Streams!Answer(r, s, w),
           given' \in Seq(Int), over' \in BOOLEAN, repolled' \in BOOLEAN,
           ~(adaptor = "timeout" /\ own.done),
           r = "end" => over',
           r = "pending" /\ ~w =>
               adaptor = "split_err" /\ Streams!ErrorsAt(given') # {},
           adaptor \in Streams!Fusing => ~repolled'
    PROVE  /\ StreamTypes' /\ ZeroLast' /\ EndOver' /\ Streams!WakeKept'
           /\ \A i \in DOMAIN out' : out'[i] # 0
           /\ ret' = r /\ out' = out \o s /\ UNCHANGED <<adaptor, dropped>>
<1>1. ret' = r /\ out' = out \o s /\ armed' = w /\ UNCHANGED <<adaptor, dropped>>
  BY DEF Streams!Answer
<1>2. \A i \in DOMAIN out : out[i] # 0
  BY DEF StreamInv, TimeoutInv, ZeroLast
<1>3. out' \in Seq(Int) /\ \A i \in DOMAIN out' : out'[i] # 0
  BY <1>1, <1>2, HandedOver DEF StreamInv, StreamTypes
<1>4. StreamTypes'
  BY <1>1, <1>3 DEF StreamInv, StreamTypes
<1>5. ZeroLast' /\ EndOver'
  BY <1>1, <1>3 DEF ZeroLast, EndOver
<1>6. Streams!WakeKept'
  BY <1>1 DEF Streams!WakeKept
<1> QED BY <1>1, <1>3, <1>4, <1>5, <1>6

\* A poll that asks the stream and passes its answer on.
LEMMA PassedOn ==
    ASSUME StreamInv, NEW r, Streams!Ask(0, r), Streams!PassOn(r),
           ~(adaptor = "timeout" /\ own.done),
           adaptor \in Streams!Fusing => ~over
    PROVE  /\ StreamTypes' /\ ZeroLast' /\ EndOver' /\ Streams!WakeKept'
           /\ \A i \in DOMAIN out' : out'[i] # 0
           /\ ret' = r /\ out' = out \o Got(r) /\ UNCHANGED <<adaptor, dropped>>
           /\ over' = (over \/ r = "end")
<1>1. given \in Seq(Int) /\ over \in BOOLEAN /\ repolled \in BOOLEAN
  BY DEF StreamInv, StreamTypes
<1>2. /\ Got(r) \in Seq(Int \ {0})
      /\ SubSeq(given', Len(given) + 1, Len(given')) = Got(r)
  BY <1>1, GivenOne
<1>3. Streams!Answer(r, Got(r), r = "pending")
  BY <1>2 DEF Streams!PassOn
<1>4. /\ given' \in Seq(Int) /\ over' = (over \/ r = "end")
      /\ repolled' = (repolled \/ over)
  <2>1. 0 \in Nat
    OBVIOUS
  <2> QED BY <1>1, <2>1, GivenMore
<1>5. adaptor \in Streams!Fusing => ~repolled'
  BY <1>4 DEF StreamInv, Streams!WakeKept
<1>6. over' \in BOOLEAN /\ repolled' \in BOOLEAN /\ (r = "pending") \in BOOLEAN
  BY <1>1, <1>4
<1>7. (r = "end" => over') /\ ~(r = "pending" /\ ~(r = "pending"))
  BY <1>4
<1> QED BY <1>2, <1>3, <1>4, <1>5, <1>6, <1>7, Answered

\* An answer that needs no poll of the stream.
LEMMA Unasked ==
    ASSUME StreamInv, NEW r, NEW s \in Seq(Int \ {0}), NEW w \in BOOLEAN,
           Streams!Answer(r, s, w), Streams!DontAsk,
           ~(adaptor = "timeout" /\ own.done),
           r = "end" => over, r = "pending" => w
    PROVE  /\ StreamTypes' /\ ZeroLast' /\ EndOver' /\ Streams!WakeKept'
           /\ \A i \in DOMAIN out' : out'[i] # 0
           /\ ret' = r /\ out' = out \o s /\ UNCHANGED <<adaptor, dropped, over>>
<1>1. UNCHANGED <<given, over, repolled>>
  BY DEF Streams!DontAsk
<1>2. given' \in Seq(Int) /\ over' \in BOOLEAN /\ repolled' \in BOOLEAN
  BY <1>1 DEF StreamInv, StreamTypes
<1>3. adaptor \in Streams!Fusing => ~repolled'
  BY <1>1 DEF StreamInv, Streams!WakeKept
<1> QED BY <1>1, <1>2, <1>3, Answered

LEMMA NoMore == out \in Seq(Int) => out \o <<>> = out
OBVIOUS

LEMMA EnumerateKept == StreamInv /\ Streams!PollEnumerate => StreamInv'
<1> SUFFICES ASSUME StreamInv, Streams!PollEnumerate PROVE StreamInv'
  OBVIOUS
<1>1. adaptor = "enumerate"
  BY DEF Streams!PollEnumerate, Streams!Polled
<1>2. PICK r \in Streams!Replies : Streams!Ask(0, r) /\ Streams!PassOn(r)
  BY DEF Streams!PollEnumerate
<1>3. adaptor \notin Streams!Fusing
  BY <1>1 DEF Streams!Fusing
<1>4. /\ StreamTypes' /\ ZeroLast' /\ EndOver' /\ Streams!WakeKept'
      /\ UNCHANGED adaptor
  BY <1>1, <1>2, <1>3, PassedOn
<1> QED BY <1>1, <1>4 DEF StreamInv, BatchInv, CollectInv, RemainderInv,
           TimeoutInv, YieldInv, TimedInv

LEMMA BatchKept == StreamInv /\ Streams!PollBatch => StreamInv'
<1> SUFFICES ASSUME StreamInv, Streams!PollBatch PROVE StreamInv'
  OBVIOUS
<1>1. adaptor = "batch" /\ own \in [err : Int]
  BY DEF Streams!PollBatch, Streams!Polled, StreamInv, BatchInv
<1>2. given \in Seq(Int) /\ out \in Seq(Int) /\ over \in BOOLEAN
      /\ repolled \in BOOLEAN /\ ~repolled
  BY <1>1 DEF StreamInv, StreamTypes, Streams!WakeKept, Streams!Fusing
<1>3. SUFFICES /\ StreamTypes' /\ ZeroLast' /\ EndOver' /\ Streams!WakeKept'
               /\ UNCHANGED adaptor /\ own' \in [err : Int]
  BY <1>1 DEF StreamInv, BatchInv, CollectInv, RemainderInv, TimeoutInv,
              YieldInv, TimedInv
<1>4. CASE own.err # 0 /\ Streams!Answer("err", <<own.err>>, FALSE)
           /\ own' = [own EXCEPT !.err = 0] /\ Streams!DontAsk
  <2>1. own' \in [err : Int]
    BY <1>1, <1>4
  <2>2. own.err \in Int \ {0}
    BY <1>1, <1>4
  <2>3. <<own.err>> \in Seq(Int \ {0})
    BY <2>2
  <2> QED BY <1>1, <1>4, <2>1, <2>3, Unasked
<1>5. ASSUME NEW k \in 0..Limit, NEW r \in {"err", "end", "pending", "full"},
             Streams!AskFused(k, r),
             own' = [own EXCEPT !.err = IF r = "err" /\ k > 0
                                        THEN Streams!Last(given') ELSE 0],
             IF k > 0 THEN Streams!Answer("item", [i \in 1..k |-> Len(given) + i],
                                          r = "pending")
                      ELSE Streams!PassOn(r)
      PROVE  /\ StreamTypes' /\ ZeroLast' /\ EndOver' /\ Streams!WakeKept'
             /\ UNCHANGED adaptor /\ own' \in [err : Int]
  <2>1. k \in Nat
    BY AsyncConstants
  <2>2. /\ given' \in Seq(Int) /\ over' \in BOOLEAN /\ repolled' \in BOOLEAN
        /\ ~repolled' /\ (r = "end" => over')
        /\ r = "err" => given' # <<>>
    <3>1. CASE over
      BY <1>2, <1>5, <3>1 DEF Streams!AskFused
    <3>2. CASE ~over
      <4>1. Streams!Ask(k, r)
        BY <1>5, <3>2 DEF Streams!AskFused
      <4> QED BY <1>2, <2>1, <3>2, <4>1, GivenMore
    <3> QED BY <3>1, <3>2
  <2>3. own' \in [err : Int]
    <3>1. r = "err" => Streams!Last(given') \in Int
      <4>1. r = "err" => given'[Len(given')] \in Int
        BY <2>2
      <4> QED BY <4>1, StreamOperators
    <3> QED BY <1>1, <1>5, <3>1
  <2>4. CASE k > 0
    <3> DEFINE s == [i \in 1..k |-> Len(given) + i]
    <3>1. s \in Seq(Int \ {0})
      BY <1>2, <2>1
    <3> HIDE DEF s
    <3>2. Streams!Answer("item", s, r = "pending")
      BY <1>5, <2>4 DEF s
    <3> QED BY <1>1, <2>2, <2>3, <3>1, <3>2, Answered
  <2>5. CASE ~(k > 0)
    <3>1. k = 0 /\ Streams!PassOn(r)
      BY <1>5, <2>1, <2>5
    <3>2. CASE ~over
      <4>1. Streams!Ask(0, r)
        BY <1>5, <3>1, <3>2 DEF Streams!AskFused
      <4> QED BY <1>1, <2>3, <3>1, <3>2, <4>1, PassedOn
    <3>3. CASE over
      <4>1. r = "end" /\ Streams!DontAsk /\ given' = given
        BY <1>5, <3>3 DEF Streams!AskFused, Streams!DontAsk
      <4>2. SubSeq(given', Len(given) + 1, Len(given')) = <<>>
        BY <1>2, <4>1
      <4>3. Streams!Answer("end", <<>>, FALSE)
        BY <3>1, <4>1, <4>2 DEF Streams!PassOn
      <4>4. <<>> \in Seq(Int \ {0})
        OBVIOUS
      <4> QED BY <1>1, <2>3, <3>3, <4>1, <4>3, <4>4, Unasked
    <3> QED BY <3>2, <3>3
  <2> QED BY <2>4, <2>5
<1> QED BY <1>4, <1>5 DEF Streams!PollBatch

LEMMA RemainderKept == StreamInv /\ Streams!PollReturnRemainder => StreamInv'
<1> SUFFICES ASSUME StreamInv, Streams!PollReturnRemainder PROVE StreamInv'
  OBVIOUS
<1>1. adaptor = "return_remainder" /\ ~dropped /\ UNCHANGED side
  BY DEF Streams!PollReturnRemainder, Streams!Polled
<1>2. /\ own \in [inner : BOOLEAN, chan : {"open", "sent", "canceled"}]
      /\ own.inner <=> ~over
      /\ own.chan = "sent" <=> over
      /\ own.chan # "canceled"
      /\ side # <<>> => \/ side = <<"stream">> /\ over
                        \/ side = <<"ReceiveBeforeSend">>
  BY <1>1 DEF StreamInv, RemainderInv
<1>3. CASE ~own.inner /\ Streams!Answer("end", <<>>, FALSE) /\ Streams!DontAsk
           /\ UNCHANGED own
  <2>1. <<>> \in Seq(Int \ {0})
    OBVIOUS
  <2>2. /\ StreamTypes' /\ ZeroLast' /\ EndOver' /\ Streams!WakeKept'
        /\ UNCHANGED <<adaptor, dropped, over>>
    BY <1>1, <1>2, <1>3, <2>1, Unasked
  <2> QED BY <1>1, <1>2, <1>3, <2>2 DEF StreamInv, BatchInv, CollectInv,
             RemainderInv, TimeoutInv, YieldInv, TimedInv
<1>4. ASSUME own.inner, NEW r \in Streams!Replies,
             Streams!Ask(0, r), Streams!PassOn(r),
             own' = IF r = "end" THEN [inner |-> FALSE, chan |-> "sent"] ELSE own
      PROVE  StreamInv'
  <2>1. /\ StreamTypes' /\ ZeroLast' /\ EndOver' /\ Streams!WakeKept'
        /\ UNCHANGED <<adaptor, dropped>> /\ over' = (over \/ r = "end")
    BY <1>1, <1>2, <1>4, PassedOn
  <2>2. RemainderInv'
    <3>1. CASE r = "end"
      <4>1. own' = [inner |-> FALSE, chan |-> "sent"] /\ over'
        BY <1>4, <2>1, <3>1
      <4>2. /\ own' \in [inner : BOOLEAN, chan : {"open", "sent", "canceled"}]
            /\ own'.inner = FALSE /\ own'.chan = "sent"
        BY <4>1
      <4> QED BY <1>1, <1>2, <2>1, <4>1, <4>2 DEF RemainderInv
    <3>2. CASE r # "end"
      BY <1>1, <1>2, <1>4, <2>1, <3>2 DEF RemainderInv
    <3> QED BY <3>1, <3>2
  <2> QED BY <1>1, <2>1, <2>2 DEF StreamInv, BatchInv, CollectInv, TimeoutInv,
             YieldInv, TimedInv
<1> QED BY <1>3, <1>4 DEF Streams!PollReturnRemainder

\* The receiver of the rest, the receiver of the error and the deadline.
LEMMA AsideKept ==
    StreamInv /\ (Streams!ReceiveRemainder \/ Streams!PollErrFuture \/ Streams!Elapse)
        => StreamInv'
<1> SUFFICES ASSUME StreamInv,
                    Streams!ReceiveRemainder \/ Streams!PollErrFuture \/ Streams!Elapse
             PROVE  StreamInv'
  OBVIOUS
<1>1. UNCHANGED <<adaptor, given, over, repolled, out, ret, armed, dropped>>
  BY DEF Streams!ReceiveRemainder, Streams!PollErrFuture, Streams!Elapse
<1>2. StreamTypes' /\ ZeroLast' /\ EndOver' /\ Streams!WakeKept'
  BY <1>1 DEF StreamInv, StreamTypes, ZeroLast, EndOver, Streams!WakeKept,
              Streams!ErrorsAt
<1>3. CASE Streams!ReceiveRemainder
  <2>1. /\ adaptor = "return_remainder" /\ UNCHANGED own
        /\ side' = <<Streams!Received(own.chan)>>
    BY <1>3 DEF Streams!ReceiveRemainder
  <2>2. /\ own \in [inner : BOOLEAN, chan : {"open", "sent", "canceled"}]
        /\ own.chan = "sent" <=> over
        /\ own.chan = "canceled" => dropped
        /\ own.inner <=> ~over
    BY <2>1 DEF StreamInv, RemainderInv
  <2>3. \/ side' = <<"stream">> /\ over
        \/ side' = <<"Canceled">> /\ dropped /\ ~over
        \/ side' = <<"ReceiveBeforeSend">>
    BY <2>1, <2>2 DEF Streams!Received
  <2> QED BY <1>1, <1>2, <2>1, <2>2, <2>3 DEF StreamInv, BatchInv, CollectInv,
             RemainderInv, TimeoutInv, YieldInv, TimedInv
<1>4. CASE Streams!PollErrFuture
  <2>1. adaptor = "split_err"
    BY <1>4 DEF Streams!PollErrFuture
  <2> QED BY <1>1, <1>2, <2>1 DEF StreamInv, BatchInv, CollectInv,
             RemainderInv, TimeoutInv, YieldInv, TimedInv
<1>5. CASE Streams!Elapse
  <2>1. adaptor = "timeout" /\ own' = [own EXCEPT !.deadline = "fired"]
    BY <1>5 DEF Streams!Elapse
  <2>2. TimeoutInv'
    <3>1. own \in [done : BOOLEAN, deadline : {"unset", "running", "fired"}]
      BY <2>1 DEF StreamInv, TimeoutInv
    <3>2. /\ own' \in [done : BOOLEAN, deadline : {"unset", "running", "fired"}]
          /\ own'.done = own.done
      BY <2>1, <3>1
    <3> QED BY <1>1, <3>2 DEF StreamInv, TimeoutInv
  <2> QED BY <1>1, <1>2, <2>1, <2>2 DEF StreamInv, BatchInv, CollectInv,
             RemainderInv, YieldInv, TimedInv
<1> QED BY <1>3, <1>4, <1>5

LEMMA SplitKept == StreamInv /\ Streams!PollSplitErr => StreamInv'
<1> SUFFICES ASSUME StreamInv, Streams!PollSplitErr PROVE StreamInv'
  OBVIOUS
<1>1. adaptor = "split_err" /\ adaptor \notin Streams!Fusing
  BY DEF Streams!PollSplitErr, Streams!Polled, Streams!Fusing
<1>2. PICK r \in Streams!Replies :
         /\ Streams!Ask(0, r)
         /\ IF r = "err" THEN Streams!Answer("pending", <<>>, FALSE)
                         ELSE Streams!PassOn(r)
  BY DEF Streams!PollSplitErr
<1>3. /\ StreamTypes' /\ ZeroLast' /\ EndOver' /\ Streams!WakeKept'
      /\ UNCHANGED adaptor
  <2>1. CASE r # "err"
    BY <1>1, <1>2, <2>1, PassedOn
  <2>2. CASE r = "err"
    <3>1. Streams!Answer("pending", <<>>, FALSE)
      BY <1>2, <2>2
    <3>2. /\ given \in Seq(Int) /\ over \in BOOLEAN /\ repolled \in BOOLEAN
      BY DEF StreamInv, StreamTypes
    <3>3. 0 \in Nat
      OBVIOUS
    <3>4. /\ given' \in Seq(Int) /\ given' # <<>> /\ given'[Len(given')] < 0
          /\ over' = (over \/ r = "end") /\ repolled' = (repolled \/ over)
      BY <1>2, <2>2, <3>2, <3>3, GivenMore
    <3>5. Streams!ErrorsAt(given') # {}
      <4>1. Len(given') \in DOMAIN given'
        BY <3>4
      <4> QED BY <3>4, <4>1 DEF Streams!ErrorsAt
    <3>6. <<>> \in Seq(Int \ {0})
      OBVIOUS
    <3>7. over' \in BOOLEAN /\ repolled' \in BOOLEAN
      BY <3>2, <3>4
    <3> QED BY <1>1, <3>1, <3>4, <3>5, <3>6, <3>7, Answered
  <2> QED BY <2>1, <2>2
<1> QED BY <1>1, <1>3 DEF StreamInv, BatchInv, CollectInv, RemainderInv,
           TimeoutInv, YieldInv, TimedInv

LEMMA TimeoutKept == StreamInv /\ Streams!PollTimeout => StreamInv'
<1> SUFFICES ASSUME StreamInv, Streams!PollTimeout PROVE StreamInv'
  OBVIOUS
<1> DEFINE Fields == [done : BOOLEAN, deadline : {"unset", "running", "fired"}]
<1>1. adaptor = "timeout"
  BY DEF Streams!PollTimeout, Streams!Polled
<1>2. /\ own \in Fields
      /\ ~own.done => ~over /\ ret # "end" /\ \A i \in DOMAIN out : out[i] # 0
      /\ own.done => over \/ (out # <<>> /\ out[Len(out)] = 0)
  BY <1>1 DEF StreamInv, TimeoutInv
<1>3. StreamTypes /\ out \in Seq(Int) /\ ZeroLast /\ Streams!WakeKept
  BY DEF StreamInv, StreamTypes
<1>4. SUFFICES /\ StreamTypes' /\ ZeroLast' /\ EndOver' /\ Streams!WakeKept'
               /\ TimeoutInv' /\ UNCHANGED adaptor
  BY <1>1 DEF StreamInv, BatchInv, CollectInv, RemainderInv, YieldInv, TimedInv
<1>5. CASE own.done /\ Streams!Answer("end", <<>>, FALSE) /\ Streams!DontAsk
           /\ UNCHANGED own
  <2>1. /\ ret' = "end" /\ out' = out \o <<>> /\ armed' = FALSE
        /\ UNCHANGED <<adaptor, dropped, given, over, repolled, own>>
    BY <1>5 DEF Streams!Answer, Streams!DontAsk
  <2>2. out' = out
    BY <1>3, <2>1, NoMore
  <2>3. StreamTypes' /\ ZeroLast' /\ EndOver' /\ Streams!WakeKept'
    BY <1>1, <1>3, <2>1, <2>2 DEF StreamTypes, ZeroLast, EndOver,
       Streams!WakeKept, Streams!ErrorsAt
  <2> QED BY <1>2, <1>5, <2>1, <2>2, <2>3 DEF TimeoutInv
<1>6. CASE /\ ~own.done /\ Streams!Answer("err", <<0>>, FALSE) /\ Streams!DontAsk
           /\ own' = [own EXCEPT !.done = TRUE]
  <2>1. /\ ret' = "err" /\ out' = out \o <<0>> /\ armed' = FALSE
        /\ UNCHANGED <<adaptor, dropped, given, over, repolled>>
    BY <1>6 DEF Streams!Answer, Streams!DontAsk
  <2>2. /\ out' \in Seq(Int) /\ Len(out') = Len(out) + 1 /\ Len(out) \in Nat
        /\ out'[Len(out')] = 0 /\ \A i \in 1..Len(out) : out'[i] = out[i]
    BY <1>3, <2>1
  <2>3. \A i \in DOMAIN out' : out'[i] = 0 => i = Len(out')
    <3> SUFFICES ASSUME NEW i \in DOMAIN out', i # Len(out') PROVE out'[i] # 0
      OBVIOUS
    <3>1. i \in 1..Len(out)
      BY <2>2
    <3> QED BY <1>2, <1>3, <1>6, <2>2, <3>1
  <2>4. StreamTypes' /\ Streams!WakeKept'
    BY <1>1, <1>3, <2>1, <2>2 DEF StreamTypes, Streams!WakeKept
  <2>5. ZeroLast' /\ EndOver'
    BY <1>1, <1>2, <1>6, <2>1, <2>3 DEF ZeroLast, EndOver
  <2>6. own' \in Fields /\ own'.done = TRUE
    BY <1>2, <1>6
  <2>7. out' # <<>>
    BY <2>2
  <2> QED BY <2>1, <2>2, <2>4, <2>5, <2>6, <2>7 DEF TimeoutInv
<1>7. ASSUME ~own.done, NEW r \in Streams!Replies,
             Streams!Ask(0, r), Streams!PassOn(r),
             own' = [done |-> r = "end", deadline |-> "running"]
      PROVE  /\ StreamTypes' /\ ZeroLast' /\ EndOver' /\ Streams!WakeKept'
             /\ TimeoutInv' /\ UNCHANGED adaptor
  <2>1. /\ StreamTypes' /\ ZeroLast' /\ EndOver' /\ Streams!WakeKept'
        /\ \A i \in DOMAIN out' : out'[i] # 0
        /\ ret' = r /\ UNCHANGED adaptor /\ over' = (over \/ r = "end")
    BY <1>1, <1>2, <1>7, PassedOn
  <2>2. own' \in Fields /\ own'.done = (r = "end")
    BY <1>7
  <2> QED BY <1>2, <1>7, <2>1, <2>2 DEF TimeoutInv
<1> QED BY <1>5, <1>6, <1>7 DEF Streams!PollTimeout

LEMMA YieldKept == StreamInv /\ Streams!PollYieldPeriodically => StreamInv'
<1> SUFFICES ASSUME StreamInv, Streams!PollYieldPeriodically PROVE StreamInv'
  OBVIOUS
<1> DEFINE Fields == [left : Nat, must_yield : BOOLEAN, ran : Nat]
<1>1. adaptor = "yield_periodically" /\ adaptor \notin Streams!Fusing
  BY DEF Streams!PollYieldPeriodically, Streams!Polled, Streams!Fusing
<1>2. /\ own \in Fields /\ Budget \in Nat
      /\ IF own.must_yield THEN own.left = Budget /\ own.ran > Budget
                           ELSE own.left + own.ran = Budget
  BY <1>1, AsyncConstants DEF StreamInv, YieldInv
<1>3. SUFFICES /\ StreamTypes' /\ ZeroLast' /\ EndOver' /\ Streams!WakeKept'
               /\ UNCHANGED adaptor /\ own' \in Fields
               /\ IF own'.must_yield THEN own'.left = Budget /\ own'.ran > Budget
                                     ELSE own'.left + own'.ran = Budget
  BY <1>1 DEF StreamInv, BatchInv, CollectInv, RemainderInv, TimeoutInv,
              YieldInv, TimedInv
<1>4. CASE /\ own.must_yield /\ Streams!Answer("pending", <<>>, TRUE)
           /\ Streams!DontAsk
           /\ own' = [own EXCEPT !.must_yield = FALSE, !.ran = 0]
  <2>1. <<>> \in Seq(Int \ {0})
    OBVIOUS
  <2>2. /\ StreamTypes' /\ ZeroLast' /\ EndOver' /\ Streams!WakeKept'
        /\ UNCHANGED adaptor
    BY <1>1, <1>4, <2>1, Unasked
  <2>3. /\ own' \in Fields /\ own'.must_yield = FALSE /\ own'.ran = 0
        /\ own'.left = own.left
    BY <1>2, <1>4
  <2> QED BY <1>2, <1>4, <2>2, <2>3
<1>5. ASSUME ~own.must_yield, NEW r \in Streams!Replies, NEW e \in 0..MaxElapsed,
             Streams!Ask(0, r), Streams!PassOn(r),
             own' = [left |-> Streams!Spend(own.left, e, r).left,
                     must_yield |-> Streams!Spend(own.left, e, r).must_yield,
                     ran |-> IF r = "pending" THEN 0 ELSE own.ran + e]
      PROVE  /\ StreamTypes' /\ ZeroLast' /\ EndOver' /\ Streams!WakeKept'
             /\ UNCHANGED adaptor /\ own' \in Fields
             /\ IF own'.must_yield THEN own'.left = Budget /\ own'.ran > Budget
                                   ELSE own'.left + own'.ran = Budget
  <2>1. /\ StreamTypes' /\ ZeroLast' /\ EndOver' /\ Streams!WakeKept'
        /\ UNCHANGED adaptor
    BY <1>1, <1>5, PassedOn
  <2>2. e \in Nat /\ own.left \in Nat /\ own.ran \in Nat /\ own.left + own.ran = Budget
    BY <1>2, <1>5, AsyncConstants
  <2>3. /\ own'.left = Streams!Spend(own.left, e, r).left
        /\ own'.must_yield = Streams!Spend(own.left, e, r).must_yield
        /\ own'.ran = IF r = "pending" THEN 0 ELSE own.ran + e
    BY <1>5
  <2>4. own'.left \in Nat /\ own'.must_yield \in BOOLEAN /\ own'.ran \in Nat
          => own' \in Fields
    <3>1. own' = [left |-> own'.left, must_yield |-> own'.must_yield,
                  ran |-> own'.ran]
      BY <1>5
    <3>2. \A x \in Nat, y \in BOOLEAN, z \in Nat :
             [left |-> x, must_yield |-> y, ran |-> z] \in Fields
      OBVIOUS
    <3> QED BY <3>1, <3>2, Zenon
  <2> HIDE DEF Fields
  <2>5. CASE r = "pending"
    <3>1. own'.left = Budget /\ own'.must_yield = FALSE /\ own'.ran = 0
      BY <2>3, <2>5 DEF Streams!Spend
    <3>2. own' \in Fields
      <4>1. own'.left \in Nat /\ own'.ran \in Nat
        BY <1>2, <3>1
      <4>2. own'.must_yield \in BOOLEAN
        BY <3>1, Zenon
      <4> QED BY <2>4, <4>1, <4>2, Zenon
    <3> QED BY <1>2, <2>1, <3>1, <3>2
  <2>6. CASE r # "pending" /\ e <= own.left
    <3>1. /\ own'.left = own.left - e /\ own'.must_yield = FALSE
          /\ own'.ran = own.ran + e
      BY <2>3, <2>6 DEF Streams!Spend
    <3>2. own' \in Fields
      <4>1. own'.left \in Nat /\ own'.ran \in Nat
        BY <2>2, <2>6, <3>1
      <4>2. own'.must_yield \in BOOLEAN
        BY <3>1, Zenon
      <4> QED BY <2>4, <4>1, <4>2, Zenon
    <3> QED BY <1>2, <2>1, <2>2, <3>1, <3>2
  <2>7. CASE r # "pending" /\ ~(e <= own.left)
    <3>1. /\ own'.left = Budget /\ own'.must_yield = TRUE
          /\ own'.ran = own.ran + e
      BY <2>3, <2>7 DEF Streams!Spend
    <3>2. own' \in Fields
      <4>1. own'.left \in Nat /\ own'.ran \in Nat
        BY <1>2, <2>2, <3>1
      <4>2. own'.must_yield \in BOOLEAN
        BY <3>1, Zenon
      <4> QED BY <2>4, <4>1, <4>2, Zenon
    <3>3. own.ran + e > Budget
      BY <1>2, <2>2, <2>7
    <3> QED BY <2>1, <3>1, <3>2, <3>3
  <2> QED BY <2>5, <2>6, <2>7
<1> QED BY <1>4, <1>5 DEF Streams!PollYieldPeriodically

LEMMA CollectKept == StreamInv /\ Streams!PollCollect => StreamInv'
<1> SUFFICES ASSUME StreamInv, Streams!PollCollect PROVE StreamInv'
  OBVIOUS
<1>1. adaptor = "collect" /\ adaptor \notin Streams!Fusing
  BY DEF Streams!PollCollect, Streams!Polled, Streams!Fusing
<1>2. /\ given \in Seq(Int) /\ over \in BOOLEAN /\ repolled \in BOOLEAN
      /\ own \in [items : Seq(Int \ {0})]
  BY <1>1 DEF StreamInv, StreamTypes, CollectInv
<1>3. PICK k \in 0..MaxGiven, r \in {"err", "end", "pending"} :
         LET items == own.items \o [i \in 1..k |-> Len(given) + i]
         IN  /\ Streams!Ask(k, r)
             /\ own' = [items |-> IF r = "pending" THEN items ELSE <<>>]
             /\ Streams!Answer(r, Streams!Finished(items, r), r = "pending")
  BY DEF Streams!PollCollect
<1> DEFINE m == [i \in 1..k |-> Len(given) + i]
           items == own.items \o m
           s == Streams!Finished(items, r)
<1>4. k \in Nat
  BY AsyncConstants
<1>5. items \in Seq(Int \ {0})
  <2>1. m \in Seq(Int \ {0})
    BY <1>2, <1>4
  <2>2. own.items \in Seq(Int \ {0})
    BY <1>2
  <2> HIDE DEF m
  <2> QED BY <2>1, <2>2
<1>6. /\ given' \in Seq(Int) /\ over' = (over \/ r = "end")
      /\ repolled' = (repolled \/ over)
      /\ r = "err" => given' # <<>> /\ given'[Len(given')] < 0
  BY <1>2, <1>3, <1>4, GivenMore
<1> HIDE DEF items
<1>7. s \in Seq(Int \ {0})
  <2>1. CASE r = "end"
    BY <1>5, <2>1 DEF Streams!Finished
  <2>2. CASE r = "pending"
    BY <2>2 DEF Streams!Finished
  <2>3. CASE r = "err"
    <3>1. given'[Len(given')] \in Int \ {0}
      BY <1>6, <2>3
    <3>2. s = <<given'[Len(given')]>>
      BY <2>3, StreamOperators DEF Streams!Finished
    <3> QED BY <3>1, <3>2
  <2> QED BY <2>1, <2>2, <2>3
<1> HIDE DEF s
<1>8. Streams!Answer(r, s, r = "pending")
  BY <1>3 DEF s, items
<1>9. over' \in BOOLEAN /\ repolled' \in BOOLEAN /\ (r = "end" => over')
  BY <1>2, <1>6
<1>10. /\ StreamTypes' /\ ZeroLast' /\ EndOver' /\ Streams!WakeKept'
       /\ UNCHANGED adaptor
  BY <1>1, <1>6, <1>7, <1>8, <1>9, Answered
<1>11. own' \in [items : Seq(Int \ {0})]
  <2>1. <<>> \in Seq(Int \ {0})
    OBVIOUS
  <2>2. own' = [items |-> IF r = "pending" THEN items ELSE <<>>]
    BY <1>3 DEF items
  <2>3. (IF r = "pending" THEN items ELSE <<>>) \in Seq(Int \ {0})
    BY <1>5, <2>1
  <2>4. \A S, x : x \in S => [items |-> x] \in [items : S]
    OBVIOUS
  <2> QED BY <2>2, <2>3, <2>4, Zenon
<1> QED BY <1>1, <1>10, <1>11 DEF StreamInv, BatchInv, CollectInv, RemainderInv,
           TimeoutInv, YieldInv, TimedInv

\* The errors of a sequence, and of one that has one more item.
LEMMA ErrorsWithin ==
    ASSUME NEW s \in Seq(Int)
    PROVE  /\ IsFiniteSet(Streams!ErrorsAt(s))
           /\ Streams!ErrorsAt(s) \subseteq 1..Len(s)
<1>1. Streams!ErrorsAt(s) \subseteq 1..Len(s) /\ Streams!ErrorsAt(s) \subseteq DOMAIN s
  BY DEF Streams!ErrorsAt
<1> QED BY <1>1, SeqDomainFinite, FS_Subset

LEMMA ErrorsMore ==
    ASSUME NEW s \in Seq(Int), NEW x \in Int
    PROVE  Streams!ErrorsAt(s \o <<x>>) =
              IF x < 0 THEN Streams!ErrorsAt(s) \cup {Len(s) + 1}
                       ELSE Streams!ErrorsAt(s)
<1> DEFINE t == s \o <<x>>
<1>1. /\ DOMAIN t = 1..(Len(s) + 1) /\ DOMAIN s = 1..Len(s)
      /\ Len(s) \in Nat /\ t[Len(s) + 1] = x
      /\ \A i \in 1..Len(s) : t[i] = s[i]
  OBVIOUS
<1> HIDE DEF t
<1>2. \A i \in 1..Len(s) : i \in Streams!ErrorsAt(t) <=> i \in Streams!ErrorsAt(s)
  BY <1>1 DEF Streams!ErrorsAt
<1>3. Len(s) + 1 \in Streams!ErrorsAt(t) <=> x < 0
  BY <1>1 DEF Streams!ErrorsAt
<1>4. /\ Streams!ErrorsAt(t) \subseteq 1..(Len(s) + 1)
      /\ Streams!ErrorsAt(s) \subseteq 1..Len(s)
  BY <1>1 DEF Streams!ErrorsAt
<1>5. \A i \in 1..(Len(s) + 1) : i \in 1..Len(s) \/ i = Len(s) + 1
  BY <1>1
<1>6. Len(s) + 1 \notin 1..Len(s) /\ 1..Len(s) \subseteq 1..(Len(s) + 1)
  BY <1>1
<1>7. CASE x < 0
  <2>1. \A i : i \in Streams!ErrorsAt(t) <=> i \in Streams!ErrorsAt(s) \cup {Len(s) + 1}
    BY <1>2, <1>3, <1>4, <1>5, <1>7, Zenon
  <2> QED BY <1>7, <2>1 DEF t
<1>8. CASE ~(x < 0)
  <2>1. \A i : i \in Streams!ErrorsAt(t) <=> i \in Streams!ErrorsAt(s)
    BY <1>2, <1>3, <1>4, <1>5, <1>8, Zenon
  <2> QED BY <1>8, <2>1 DEF t
<1> QED BY <1>7, <1>8

\* How a reply of the stream changes what TimedInv says of out.
LEMMA CountsMore ==
    ASSUME given \in Seq(Int), out \in Seq(Int), NEW r, out' = out \o Got(r)
    PROVE  /\ Len(out') = IF r \in {"item", "err"} THEN Len(out) + 1 ELSE Len(out)
           /\ Streams!ErrorsAt(out') =
                 IF r = "err" THEN Streams!ErrorsAt(out) \cup {Len(out) + 1}
                              ELSE Streams!ErrorsAt(out)
<1>1. Len(given) + 1 \in Int /\ -(Len(given) + 1) \in Int
      /\ ~(Len(given) + 1 < 0) /\ -(Len(given) + 1) < 0
  OBVIOUS
<1>2. CASE r = "item"
  <2>1. out' = out \o <<Len(given) + 1>>
    BY <1>2 DEF Got
  <2>2. Len(out') = Len(out) + 1
    BY <2>1
  <2> QED BY <1>1, <1>2, <2>1, <2>2, ErrorsMore
<1>3. CASE r = "err"
  <2>1. out' = out \o <<-(Len(given) + 1)>>
    BY <1>3 DEF Got
  <2>2. Len(out') = Len(out) + 1
    BY <2>1
  <2> QED BY <1>1, <1>3, <2>1, <2>2, ErrorsMore
<1>4. CASE r \notin {"item", "err"}
  <2>1. out' = out \o <<>>
    BY <1>4 DEF Got
  <2>2. out' = out
    BY <2>1, NoMore, SMTT(20)
  <2> QED BY <1>4, <2>2
<1> QED BY <1>2, <1>3, <1>4

LEMMA TimedKept == StreamInv /\ Streams!PollTimed => StreamInv'
<1> SUFFICES ASSUME StreamInv, Streams!PollTimed PROVE StreamInv'
  OBVIOUS
<1> DEFINE E == Streams!ErrorsAt(out)
<1>1. adaptor = "timed" /\ ~dropped
  BY DEF Streams!PollTimed, Streams!Polled
<1>2. /\ own \in TimedFields
      /\ own.completed <=> over
      /\ own.completed <=> ret = "end"
      /\ own.callback <=> ~own.completed /\ ~dropped
      /\ own.count = Len(out)
      /\ own.error_count = Cardinality(E)
      /\ IF E = {} THEN own.first_error = -1 ELSE IsFirst(own.first_error + 1, E)
      /\ side = IF own.callback THEN <<>> ELSE <<own>>
  BY <1>1 DEF StreamInv, TimedInv
<1>3. given \in Seq(Int) /\ out \in Seq(Int)
  BY DEF StreamInv, StreamTypes
<1>4. SUFFICES /\ StreamTypes' /\ ZeroLast' /\ EndOver' /\ Streams!WakeKept'
               /\ TimedInv' /\ UNCHANGED adaptor
  BY <1>1 DEF StreamInv, BatchInv, CollectInv, RemainderInv, TimeoutInv, YieldInv
<1>5. CASE own.completed /\ Streams!Answer("end", <<>>, FALSE) /\ Streams!DontAsk
           /\ UNCHANGED <<own, side>>
  <2>1. <<>> \in Seq(Int \ {0})
    OBVIOUS
  <2>2. /\ StreamTypes' /\ ZeroLast' /\ EndOver' /\ Streams!WakeKept'
        /\ ret' = "end" /\ out' = out \o <<>> /\ UNCHANGED <<adaptor, dropped, over>>
    BY <1>1, <1>2, <1>5, <2>1, Unasked
  <2>3. out' = out
    BY <1>3, <2>2, NoMore
  <2> QED BY <1>2, <1>5, <2>2, <2>3 DEF TimedInv, IsFirst
<1>6. ASSUME ~own.completed, NEW r \in Streams!Replies, NEW o,
             o = [Streams!CountErrors(own, r) EXCEPT
                     !.poll_count = @ + 1,
                     !.count = IF r \in {"item", "err"} THEN @ + 1 ELSE @,
                     !.completed = (r = "end")],
             Streams!Ask(0, r), Streams!PassOn(r),
             own' = IF r = "end" THEN [o EXCEPT !.callback = FALSE] ELSE o,
             side' = IF r = "end" THEN Streams!Report(o) ELSE side
      PROVE  /\ StreamTypes' /\ ZeroLast' /\ EndOver' /\ Streams!WakeKept'
             /\ TimedInv' /\ UNCHANGED adaptor
  <2>1. /\ StreamTypes' /\ ZeroLast' /\ EndOver' /\ Streams!WakeKept'
        /\ ret' = r /\ out' = out \o Got(r) /\ UNCHANGED <<adaptor, dropped>>
        /\ over' = (over \/ r = "end")
    BY <1>1, <1>2, <1>6, PassedOn
  <2>2. /\ Len(out') = IF r \in {"item", "err"} THEN Len(out) + 1 ELSE Len(out)
        /\ Streams!ErrorsAt(out') = IF r = "err" THEN E \cup {Len(out) + 1} ELSE E
    BY <1>3, <2>1, CountsMore
  <2>3. IsFiniteSet(E) /\ E \subseteq 1..Len(out) /\ Len(out) \in Nat
    <3>1. Len(out) \in Nat
      BY <1>3
    <3> QED BY <1>3, <3>1, ErrorsWithin
  <2>4. side = <<>> /\ own.callback /\ ~over
    BY <1>1, <1>2, <1>6
  <2> DEFINE c == Streams!CountErrors(own, r)
  <2>5. /\ c \in TimedFields /\ c.count = own.count /\ c.poll_count = own.poll_count
        /\ c.error_count = IF r = "err" THEN own.error_count + 1 ELSE own.error_count
        /\ c.first_error = IF r = "err" /\ own.first_error = -1
                           THEN own.count ELSE own.first_error
        /\ c.callback = own.callback
    <3> DEFINE e == IF r = "err" THEN own.error_count + 1 ELSE own.error_count
               f == IF r = "err" /\ own.first_error = -1
                    THEN own.count ELSE own.first_error
    <3>1. c = [own EXCEPT !.error_count = e, !.first_error = f]
      BY <1>2 DEF Streams!CountErrors, TimedFields
    <3>2. e \in Nat /\ f \in Int
      BY <1>2 DEF TimedFields
    <3> HIDE DEF c, e, f
    <3>3. /\ c \in TimedFields /\ c.count = own.count
          /\ c.poll_count = own.poll_count /\ c.error_count = e
          /\ c.first_error = f /\ c.callback = own.callback
      BY <1>2, <3>1, <3>2 DEF TimedFields
    <3> QED BY <3>3 DEF e, f
  <2> HIDE DEF c
  <2>6. /\ o \in TimedFields
        /\ o.count = IF r \in {"item", "err"} THEN own.count + 1 ELSE own.count
        /\ o.error_count = c.error_count /\ o.first_error = c.first_error
        /\ o.completed = (r = "end") /\ o.callback = c.callback
    <3>1. o = [c EXCEPT !.poll_count = @ + 1,
                        !.count = IF r \in {"item", "err"} THEN @ + 1 ELSE @,
                        !.completed = (r = "end")]
      BY <1>6 DEF c
    <3> DEFINE p == c.poll_count + 1
               n == IF r \in {"item", "err"} THEN c.count + 1 ELSE c.count
               b == (r = "end")
    <3>2. p \in Nat /\ n \in Nat /\ b \in BOOLEAN
      BY <2>5 DEF TimedFields
    <3>3. o = [c EXCEPT !.poll_count = p, !.count = n, !.completed = b]
      BY <2>5, <3>1 DEF TimedFields
    <3> HIDE DEF p, n, b
    <3>4. /\ o \in TimedFields /\ o.count = n /\ o.error_count = c.error_count
          /\ o.first_error = c.first_error /\ o.completed = b
          /\ o.callback = c.callback
      BY <2>5, <3>2, <3>3 DEF TimedFields
    <3> QED BY <2>5, <3>4 DEF n, b
  <2>7. /\ own' \in TimedFields
        /\ own'.count = Len(out')
        /\ own'.error_count = c.error_count /\ own'.first_error = c.first_error
        /\ own'.completed = (r = "end") /\ own'.callback = (r # "end")
    BY <1>2, <1>6, <2>2, <2>4, <2>5, <2>6, ZenonT(20) DEF TimedFields
  <2>8. own'.error_count = Cardinality(Streams!ErrorsAt(out'))
    <3>1. CASE r = "err"
      <4>1. Len(out) + 1 \notin E
        BY <2>3
      <4>2. Cardinality(E \cup {Len(out) + 1}) = Cardinality(E) + 1
        BY <2>3, <4>1, FS_AddElement
      <4> QED BY <1>2, <2>2, <2>5, <2>7, <3>1, <4>2
    <3>2. CASE r # "err"
      BY <1>2, <2>2, <2>5, <2>7, <3>2
    <3> QED BY <3>1, <3>2
  <2>9. IF Streams!ErrorsAt(out') = {} THEN own'.first_error = -1
                                       ELSE IsFirst(own'.first_error + 1, Streams!ErrorsAt(out'))
    <3>1. CASE r # "err"
      BY <1>2, <2>2, <2>5, <2>7, <3>1 DEF IsFirst
    <3>2. CASE r = "err" /\ E = {}
      <4>1. own'.first_error = Len(out) /\ Streams!ErrorsAt(out') = {Len(out) + 1}
        BY <1>2, <2>2, <2>5, <2>7, <3>2
      <4> QED BY <2>3, <4>1 DEF IsFirst
    <3>3. CASE r = "err" /\ E # {}
      <4>1. /\ own.first_error + 1 \in E
            /\ \A i \in E : own.first_error + 1 <= i
        BY <1>2, <3>3 DEF IsFirst
      <4>2. own.first_error \in Int /\ own.first_error # -1
            /\ own.first_error + 1 <= Len(out) + 1
        BY <1>2, <2>3, <4>1 DEF TimedFields
      <4>3. own'.first_error = own.first_error
        BY <2>5, <2>7, <3>3, <4>2
      <4> QED BY <2>2, <3>3, <4>1, <4>2, <4>3 DEF IsFirst
    <3> QED BY <3>1, <3>2, <3>3
  <2>10. side' = IF own'.callback THEN <<>> ELSE <<own'>>
    <3>1. CASE r = "end"
      <4>1. o.callback
        BY <2>4, <2>5, <2>6
      <4>2. side' = Append(<<>>, own')
        BY <1>6, <2>4, <3>1, <4>1 DEF Streams!Report
      <4>3. ~own'.callback
        BY <2>7, <3>1
      <4>4. side' = <<own'>>
        BY <4>2
      <4> QED BY <4>3, <4>4
    <3>2. CASE r # "end"
      <4>1. own'.callback
        BY <2>7, <3>2
      <4> QED BY <1>6, <2>4, <3>2, <4>1
    <3> QED BY <3>1, <3>2
  <2> QED BY <1>1, <2>1, <2>4, <2>7, <2>8, <2>9, <2>10 DEF TimedInv
<1> QED BY <1>5, <1>6, ZenonT(20) DEF Streams!PollTimed

LEMMA DropKept == StreamInv /\ Streams!Drop => StreamInv'
<1> SUFFICES ASSUME StreamInv, Streams!Drop PROVE StreamInv'
  OBVIOUS
<1>1. /\ UNCHANGED <<adaptor, given, over, repolled, out, ret, armed>>
      /\ ~dropped /\ dropped' = TRUE
  BY DEF Streams!Drop
<1>2. StreamTypes' /\ ZeroLast' /\ EndOver' /\ Streams!WakeKept'
  BY <1>1 DEF StreamInv, StreamTypes, ZeroLast, EndOver, Streams!WakeKept,
              Streams!ErrorsAt
<1>3. CASE adaptor = "timed"
  <2>1. /\ side' = Streams!Report(own) /\ own' = [own EXCEPT !.callback = FALSE]
    BY <1>3 DEF Streams!Drop
  <2>2. /\ own \in TimedFields /\ side = IF own.callback THEN <<>> ELSE <<own>>
    BY <1>3 DEF StreamInv, TimedInv
  <2>3. /\ own' \in TimedFields /\ own'.callback = FALSE
        /\ own'.count = own.count /\ own'.error_count = own.error_count
        /\ own'.first_error = own.first_error /\ own'.completed = own.completed
    BY <2>1, <2>2 DEF TimedFields
  <2>4. side' = <<own'>>
    <3>1. CASE own.callback
      <4>1. side' = Append(<<>>, own')
        BY <2>1, <2>2, <3>1 DEF Streams!Report
      <4> QED BY <4>1
    <3>2. CASE ~own.callback
      <4>1. own' = own
        BY <2>1, <2>2, <3>2 DEF TimedFields
      <4> QED BY <2>1, <2>2, <3>2, <4>1 DEF Streams!Report
    <3> QED BY <3>1, <3>2
  <2>5. TimedInv'
    BY <1>1, <1>3, <2>3, <2>4 DEF StreamInv, TimedInv, IsFirst
  <2> QED BY <1>1, <1>2, <1>3, <2>5 DEF StreamInv, BatchInv, CollectInv,
             RemainderInv, TimeoutInv, YieldInv
<1>4. CASE adaptor = "return_remainder"
  <2>1. /\ UNCHANGED side
        /\ own' = IF own.chan = "open" THEN [own EXCEPT !.chan = "canceled"] ELSE own
    BY <1>4 DEF Streams!Drop
  <2>2. RemainderInv'
    <3>1. /\ own \in [inner : BOOLEAN, chan : {"open", "sent", "canceled"}]
          /\ own.inner <=> ~over
          /\ own.chan = "sent" <=> over
          /\ side # <<>> => \/ side = <<"stream">> /\ over
                            \/ side = <<"Canceled">> /\ dropped /\ ~over
                            \/ side = <<"ReceiveBeforeSend">>
      BY <1>4 DEF StreamInv, RemainderInv
    <3>2. /\ own' \in [inner : BOOLEAN, chan : {"open", "sent", "canceled"}]
          /\ own'.inner = own.inner
          /\ own'.chan = IF own.chan = "open" THEN "canceled" ELSE own.chan
      BY <2>1, <3>1
    <3> QED BY <1>1, <2>1, <3>1, <3>2 DEF RemainderInv
  <2> QED BY <1>1, <1>2, <1>4, <2>2 DEF StreamInv, BatchInv, CollectInv,
             TimeoutInv, YieldInv, TimedInv
<1>5. CASE adaptor \notin {"timed", "return_remainder"}
  <2>1. UNCHANGED <<own, side>>
    BY <1>5 DEF Streams!Drop
  <2> QED BY <1>1, <1>2, <1>5, <2>1 DEF StreamInv, BatchInv, CollectInv,
             RemainderInv, TimeoutInv, YieldInv, TimedInv
<1> QED BY <1>3, <1>4, <1>5

LEMMA StreamKept == StreamInv /\ Streams!Next => StreamInv'
BY EnumerateKept, BatchKept, RemainderKept, AsideKept, SplitKept, TimeoutKept,
   YieldKept, TimedKept, CollectKept, DropKept DEF Streams!Next

LEMMA StreamImplies == StreamInv => Streams!WakeKept /\ Streams!EndsTruthful
<1> SUFFICES ASSUME StreamInv PROVE Streams!EndsTruthful
  BY DEF StreamInv
<1> USE DEF StreamInv
<1>1. ret = "end" => over \/ (adaptor = "timeout" /\ Streams!Last(out) = 0)
  BY StreamOperators DEF EndOver, TimeoutInv
<1>2. \A i \in DOMAIN out : out[i] = 0 => i = Len(out) /\ ~over
  BY DEF ZeroLast
<1>3. adaptor = "return_remainder" /\ side # <<>> =>
        /\ side[1] = "stream" => over
        /\ side[1] = "Canceled" => dropped /\ ~over
  BY DEF RemainderInv
<1>4. adaptor = "yield_periodically" => (own.ran > Budget <=> own.must_yield)
  BY AsyncConstants DEF YieldInv
<1>5. ASSUME adaptor = "timed"
      PROVE  /\ Len(side) = IF ret = "end" \/ dropped THEN 1 ELSE 0
             /\ side # <<>> =>
                  /\ side[1].count = Len(out)
                  /\ side[1].error_count = Cardinality(Streams!ErrorsAt(out))
                  /\ side[1].completed <=> over
                  /\ side[1].error_count > 0 =>
                       /\ side[1].first_error + 1 \in Streams!ErrorsAt(out)
                       /\ \A i \in Streams!ErrorsAt(out) : side[1].first_error + 1 <= i
  <2>1. /\ own.completed <=> over
        /\ own.completed <=> ret = "end"
        /\ own.callback <=> ~own.completed /\ ~dropped
        /\ own.count = Len(out)
        /\ own.error_count = Cardinality(Streams!ErrorsAt(out))
        /\ IF Streams!ErrorsAt(out) = {} THEN own.first_error = -1
                                         ELSE IsFirst(own.first_error + 1,
                                                      Streams!ErrorsAt(out))
        /\ side = IF own.callback THEN <<>> ELSE <<own>>
    BY <1>5 DEF TimedInv
  <2>2. Len(side) = IF ret = "end" \/ dropped THEN 1 ELSE 0
    BY <2>1
  <2>3. side # <<>> => side[1] = own
    BY <2>1
  <2>4. own.error_count > 0 => IsFirst(own.first_error + 1, Streams!ErrorsAt(out))
    <3>1. Cardinality({}) = 0
      BY FS_EmptySet
    <3>2. CASE Streams!ErrorsAt(out) = {}
      <4>1. own.error_count = 0
        BY <2>1, <3>1, <3>2
      <4> QED BY <4>1
    <3>3. CASE Streams!ErrorsAt(out) # {}
      BY <2>1, <3>3
    <3> QED BY <3>2, <3>3
  <2> QED BY <2>1, <2>2, <2>3, <2>4 DEF IsFirst
<1> QED BY <1>1, <1>2, <1>3, <1>4, <1>5, StreamOperators DEF Streams!EndsTruthful

-----------------------------------------------------------------------------
(* The wrappers of a future.                                                 *)

\* The results that the closure of a wrapper is for.
Meant == IF wrapper = "inspect_result" THEN {"ok", "err"} ELSE {"err"}

FutureTypes ==
    /\ answers \in Seq({"pending", "ok", "err"})
    /\ callback \in BOOLEAN /\ gone \in BOOLEAN /\ aborted \in BOOLEAN
    /\ handles \in Nat

\* The closure is there until the first result it is for, and no other such
\* result is passed on afterwards.
InspectInv == wrapper \in {"inspect_result", "inspect_err"} =>
    IF callback
    THEN ran = <<>> /\ \A i \in DOMAIN answers : answers[i] \notin Meant
    ELSE \E k \in DOMAIN answers :
            /\ answers[k] \in Meant /\ ran = <<answers[k]>>
            /\ \A i \in DOMAIN answers : answers[i] \in Meant => i = k

\* The closure is there until the future completes or is dropped.
CancelInv == wrapper = "on_cancel" =>
    IF gone
    THEN ~callback /\ ran = IF fut = "pending" THEN <<Len(answers)>> ELSE <<>>
    ELSE ran = <<>> /\ (callback <=> fut = "pending")

HandleInv == wrapper = "controlled" => ran = <<>> /\ (aborted <=> handles = 0)

FutureInv ==
    /\ wrapper \in Futures!Wrappers
    /\ FutureTypes /\ InspectInv /\ CancelInv /\ HandleInv

LEMMA FutureStart == Futures!Init => FutureInv
<1> SUFFICES ASSUME Futures!Init PROVE FutureInv
  OBVIOUS
<1> USE DEF Futures!Init
<1>1. /\ answers \in Seq({"pending", "ok", "err"}) /\ DOMAIN answers = {}
      /\ handles \in Nat
  OBVIOUS
<1>2. FutureTypes
  BY <1>1, Zenon DEF FutureTypes
<1>3. InspectInv /\ CancelInv /\ HandleInv
  BY <1>1 DEF InspectInv, CancelInv, HandleInv
<1> QED BY <1>2, <1>3 DEF FutureInv

LEMMA InspectKept ==
    ASSUME FutureInv, NEW r \in {"pending", "ok", "err"}, Futures!PollInspect(r)
    PROVE  FutureInv'
<1> DEFINE a == IF r \in Meant /\ ~callback THEN "pending" ELSE r
<1>1. /\ wrapper \in {"inspect_err", "inspect_result"}
      /\ ran' = IF r \in Meant /\ callback THEN Append(ran, r) ELSE ran
      /\ callback' = (callback /\ r \notin Meant)
      /\ answers' = Append(answers, a)
      /\ UNCHANGED <<wrapper, handles, aborted, gone>>
  <2>1. wrapper \in {"inspect_err", "inspect_result"}
    BY DEF Futures!PollInspect
  <2>2. r \in Meant <=> r = "err" \/ (r = "ok" /\ wrapper = "inspect_result")
    BY <2>1 DEF Meant
  <2> QED BY <2>1, <2>2 DEF Futures!PollInspect
<1>2. /\ a \in {"pending", "ok", "err"} /\ "pending" \notin Meant
      /\ answers \in Seq({"pending", "ok", "err"}) /\ callback \in BOOLEAN
  BY DEF FutureInv, FutureTypes, Meant
<1> HIDE DEF a
<1>3. /\ answers' \in Seq({"pending", "ok", "err"})
      /\ DOMAIN answers = 1..Len(answers) /\ Len(answers) \in Nat
      /\ DOMAIN answers' = 1..(Len(answers) + 1)
      /\ answers'[Len(answers) + 1] = a
      /\ \A i \in 1..Len(answers) : answers'[i] = answers[i]
  BY <1>1, <1>2
<1>4. \A i \in DOMAIN answers' : i \in DOMAIN answers \/ i = Len(answers) + 1
  BY <1>3
<1>5. Meant' = Meant
  BY <1>1 DEF Meant
<1>6. FutureTypes'
  <2>1. callback' \in BOOLEAN
    BY <1>1
  <2> QED BY <1>1, <1>3, <2>1 DEF FutureInv, FutureTypes
<1>7. InspectInv'
  <2>1. CASE callback /\ r \in Meant
    <3>1. /\ ~callback' /\ a = r /\ ran = <<>>
          /\ \A i \in DOMAIN answers : answers[i] \notin Meant
      BY <1>1, <2>1 DEF FutureInv, InspectInv, a
    <3>2. ran' = <<r>>
      BY <1>1, <2>1, <3>1
    <3>3. Len(answers) + 1 \in DOMAIN answers'
      BY <1>3
    <3>4. \A i \in DOMAIN answers' : answers'[i] \in Meant => i = Len(answers) + 1
      BY <1>3, <1>4, <3>1
    <3>5. answers'[Len(answers) + 1] = r
      BY <1>3, <3>1
    <3> QED BY <1>5, <2>1, <3>1, <3>2, <3>3, <3>4, <3>5 DEF InspectInv
  <2>2. CASE callback /\ r \notin Meant
    <3>1. /\ callback' /\ a = r /\ ran = <<>> /\ ran' = ran
          /\ \A i \in DOMAIN answers : answers[i] \notin Meant
      BY <1>1, <2>2 DEF FutureInv, InspectInv, a
    <3>2. \A i \in DOMAIN answers' : answers'[i] \notin Meant
      BY <1>3, <1>4, <2>2, <3>1
    <3> QED BY <1>5, <3>1, <3>2 DEF InspectInv
  <2>3. CASE ~callback
    <3>1. ~callback' /\ a \notin Meant /\ ran' = ran
      BY <1>1, <1>2, <2>3 DEF a
    <3>2. PICK k \in DOMAIN answers :
             /\ answers[k] \in Meant /\ ran = <<answers[k]>>
             /\ \A i \in DOMAIN answers : answers[i] \in Meant => i = k
      BY <1>1, <2>3 DEF FutureInv, InspectInv
    <3>3. k \in DOMAIN answers' /\ answers'[k] = answers[k]
      BY <1>3
    <3>4. \A i \in DOMAIN answers' : answers'[i] \in Meant => i = k
      BY <1>3, <1>4, <3>1, <3>2
    <3> QED BY <1>5, <3>1, <3>2, <3>3, <3>4 DEF InspectInv
  <2> QED BY <1>2, <2>1, <2>2, <2>3
<1> QED BY <1>1, <1>6, <1>7 DEF FutureInv, CancelInv, HandleInv

LEMMA FutureKept == FutureInv /\ Futures!Next => FutureInv'
<1> SUFFICES ASSUME FutureInv, Futures!Next PROVE FutureInv'
  OBVIOUS
<1>1. CASE \E r \in {"pending", "ok", "err"} : Futures!PollInspect(r)
  BY <1>1, InspectKept
<1>2. CASE \E r \in {"pending", "ok", "err"} : Futures!PollOnCancel(r)
  <2> PICK r \in {"pending", "ok", "err"} : Futures!PollOnCancel(r)
    BY <1>2
  <2>1. /\ wrapper = "on_cancel" /\ ~gone /\ fut = "pending" /\ fut' = r
        /\ callback' = (r = "pending") /\ answers' = Append(answers, r)
        /\ UNCHANGED <<wrapper, ran, handles, aborted, gone>>
    BY DEF Futures!PollOnCancel, Futures!AskFuture, Futures!Disarm
  <2>2. answers' \in Seq({"pending", "ok", "err"})
    BY <2>1 DEF FutureInv, FutureTypes
  <2>3. FutureTypes'
    BY <2>1, <2>2 DEF FutureInv, FutureTypes
  <2>4. CancelInv'
    BY <2>1 DEF FutureInv, CancelInv
  <2> QED BY <2>1, <2>3, <2>4 DEF FutureInv, InspectInv, HandleInv
<1>3. CASE \E r \in {"pending", "ok", "err"} : Futures!PollTask(r)
  <2> PICK r \in {"pending", "ok", "err"} : Futures!PollTask(r)
    BY <1>3
  <2>1. /\ wrapper = "controlled" /\ (answers' = Append(answers, r) \/ answers' = answers)
        /\ gone' \in BOOLEAN
        /\ UNCHANGED <<wrapper, callback, ran, handles, aborted>>
    BY DEF Futures!PollTask
  <2>2. answers' \in Seq({"pending", "ok", "err"})
    BY <2>1 DEF FutureInv, FutureTypes
  <2> QED BY <2>1, <2>2 DEF FutureInv, FutureTypes, InspectInv, CancelInv, HandleInv
<1>4. CASE Futures!DropOnCancel
  <2>1. /\ wrapper = "on_cancel" /\ ~gone /\ gone' = TRUE /\ callback' = FALSE
        /\ ran' = IF callback THEN Append(ran, Len(answers)) ELSE ran
        /\ UNCHANGED <<wrapper, fut, answers, handles, aborted>>
    BY <1>4 DEF Futures!DropOnCancel, Futures!Polls
  <2>2. ran = <<>> /\ (callback <=> fut = "pending")
    BY <2>1 DEF FutureInv, CancelInv
  <2>3. ran' = IF fut = "pending" THEN <<Len(answers)>> ELSE <<>>
    BY <2>1, <2>2
  <2>4. CancelInv'
    BY <2>1, <2>3 DEF CancelInv
  <2> QED BY <2>1, <2>4 DEF FutureInv, FutureTypes, InspectInv, HandleInv
<1>5. CASE Futures!CloneHandle
  <2>1. /\ wrapper = "controlled" /\ handles \in 1..MaxHandles - 1
        /\ handles' = handles + 1
        /\ UNCHANGED <<wrapper, fut, callback, ran, answers, aborted, gone>>
    BY <1>5 DEF Futures!CloneHandle
  <2>2. handles \in Nat /\ handles # 0 /\ handles' \in Nat /\ handles' # 0
    BY <2>1, AsyncConstants
  <2> QED BY <2>1, <2>2 DEF FutureInv, FutureTypes, InspectInv, CancelInv, HandleInv
<1>6. CASE Futures!DropHandle
  <2>1. /\ wrapper = "controlled" /\ handles > 0 /\ handles' = handles - 1
        /\ aborted' = (handles' = 0)
        /\ UNCHANGED <<wrapper, fut, callback, ran, answers, gone>>
    BY <1>6 DEF Futures!DropHandle
  <2>2. handles' \in Nat
    BY <2>1 DEF FutureInv, FutureTypes
  <2> QED BY <2>1, <2>2 DEF FutureInv, FutureTypes, InspectInv, CancelInv, HandleInv
<1> QED BY <1>1, <1>2, <1>3, <1>4, <1>5, <1>6 DEF Futures!Next

LEMMA FutureImplies == FutureInv => Futures!CallbacksTruthful
<1> SUFFICES ASSUME FutureInv PROVE Futures!CallbacksTruthful
  OBVIOUS
<1> USE DEF FutureInv
<1>1. wrapper \in {"inspect_result", "inspect_err"} =>
         Len(ran) <= 1 /\ Futures!CalledWith(Meant)
  <2> SUFFICES ASSUME wrapper \in {"inspect_result", "inspect_err"}
               PROVE  Len(ran) <= 1 /\ Futures!CalledWith(Meant)
    OBVIOUS
  <2>1. CASE callback
    <3>1. ran = <<>> /\ \A i \in DOMAIN answers : answers[i] \notin Meant
      BY <2>1 DEF InspectInv
    <3>2. Len(ran) <= 1 /\ DOMAIN ran = {}
      BY <3>1
    <3>3. {answers[i] : i \in DOMAIN answers} \cap Meant = {}
      BY <3>1
    <3> QED BY <3>1, <3>2, <3>3 DEF Futures!CalledWith
  <2>2. CASE ~callback
    <3>1. PICK k \in DOMAIN answers :
             /\ answers[k] \in Meant /\ ran = <<answers[k]>>
             /\ \A i \in DOMAIN answers : answers[i] \in Meant => i = k
      BY <2>2 DEF InspectInv
    <3>2. Len(ran) <= 1 /\ DOMAIN ran = {1} /\ ran[1] = answers[k]
      BY <3>1
    <3>3. {answers[i] : i \in DOMAIN answers} \cap Meant = {answers[k]}
      BY <3>1
    <3>4. {ran[i] : i \in DOMAIN ran} = {answers[k]}
      BY <3>2
    <3> QED BY <3>1, <3>2, <3>3, <3>4 DEF Futures!CalledWith
  <2> QED BY <2>1, <2>2 DEF FutureTypes
<1>2. wrapper = "on_cancel" =>
         /\ Len(ran) <= 1 /\ (ran # <<>> <=> gone /\ fut = "pending")
         /\ ran # <<>> => ran[1] = Len(answers)
  <2> SUFFICES ASSUME wrapper = "on_cancel"
               PROVE  /\ Len(ran) <= 1 /\ (ran # <<>> <=> gone /\ fut = "pending")
                      /\ ran # <<>> => ran[1] = Len(answers)
    OBVIOUS
  <2>1. CASE gone /\ fut = "pending"
    <3>1. ran = <<Len(answers)>>
      BY <2>1 DEF CancelInv
    <3>2. Len(ran) <= 1 /\ ran # <<>> /\ ran[1] = Len(answers)
      BY <3>1
    <3> QED BY <2>1, <3>2
  <2>2. CASE ~(gone /\ fut = "pending")
    <3>1. ran = <<>>
      BY <2>2 DEF CancelInv
    <3> QED BY <2>2, <3>1
  <2> QED BY <2>1, <2>2
<1>3. wrapper = "controlled" => Len(ran) <= 1 /\ (aborted <=> handles = 0)
  BY DEF HandleInv
<1> QED BY <1>1, <1>2, <1>3 DEF Futures!CallbacksTruthful, Futures!Wrappers, Meant

-----------------------------------------------------------------------------
(* The retries.                                                              *)

RetryTypes ==
    /\ strategy \in [kind : {"fixed", "exponential", "fibonacci"},
                     current : Nat, next : Nat]
    /\ limit \in Nat /\ ceiling \in Nat /\ attempt \in Nat
    /\ doing \in {"start", "fut", "sleep", "done"}
    /\ inspected \in Seq(Nat) /\ slept \in Seq(Nat)
    /\ outcome \in {"none", "ok", "err", "panic"}
    /\ outcome # "none" <=> doing = "done"

\* Between two attempts there is one left; after the first one has begun, all
\* are within the limit.
AttemptsInv ==
    IF doing \in {"start", "sleep"} THEN limit = 0 \/ attempt < limit
    ELSE attempt > 0 /\ (limit = 0 \/ attempt <= limit)

\* The attempts that have failed.
Failed == IF outcome \in {"err", "panic"} \/ doing \in {"sleep", "start"}
          THEN attempt ELSE attempt - 1

InspectedInv == Len(inspected) = Failed /\ \A i \in 1..Failed : inspected[i] = i

SleptInv ==
    /\ Len(slept) = IF doing \in {"sleep", "start"} THEN attempt ELSE attempt - 1
    /\ ceiling > 0 => \A i \in 1..Len(slept) : slept[i] <= ceiling

GivenUp == outcome = "err" => refused \/ (limit > 0 /\ attempt >= limit)

RetryInv == RetryTypes /\ AttemptsInv /\ InspectedInv /\ SleptInv /\ GivenUp

LEMMA RetryStart == Retries!Init => RetryInv
<1> SUFFICES ASSUME Retries!Init PROVE RetryInv
  OBVIOUS
<1>1. /\ strategy \in {Retries!FixedInterval(1), Retries!ExponentialBackoff(1),
                       Retries!FibonacciBackoff(1)}
      /\ limit \in Attempts /\ ceiling \in MaxIntervals
      /\ attempt = 0 /\ doing = "start"
      /\ inspected = <<>> /\ slept = <<>> /\ outcome = "none"
  BY DEF Retries!Init
<1>2. strategy \in [kind : {"fixed", "exponential", "fibonacci"},
                    current : Nat, next : Nat]
  <2>1. \A k \in {"fixed", "exponential", "fibonacci"} :
           [kind |-> k, current |-> 1, next |-> 1]
             \in [kind : {"fixed", "exponential", "fibonacci"},
                  current : Nat, next : Nat]
    OBVIOUS
  <2> QED BY <1>1, <2>1, Zenon DEF Retries!FixedInterval,
             Retries!ExponentialBackoff, Retries!FibonacciBackoff
<1>3. limit \in Nat /\ ceiling \in Nat
  BY <1>1, AsyncConstants
<1>4. /\ attempt \in Nat /\ inspected \in Seq(Nat) /\ slept \in Seq(Nat)
      /\ Len(inspected) = 0 /\ Len(slept) = 0
  BY <1>1
<1>5. RetryTypes
  <2>1. outcome # "none" <=> doing = "done"
    BY <1>1
  <2> QED BY <1>1, <1>2, <1>3, <1>4, <2>1, Zenon DEF RetryTypes
<1>6. AttemptsInv
  BY <1>1, <1>3 DEF AttemptsInv
<1>7. InspectedInv /\ SleptInv /\ GivenUp
  BY <1>1, <1>4 DEF InspectedInv, Failed, SleptInv, GivenUp
<1> QED BY <1>5, <1>6, <1>7 DEF RetryInv

LEMMA AppendAt ==
    ASSUME NEW S, NEW s \in Seq(S), NEW e \in S, NEW n \in Nat \ {0},
           Len(s) = n - 1
    PROVE  /\ Append(s, e) \in Seq(S) /\ Len(Append(s, e)) = n
           /\ Append(s, e)[n] = e
           /\ \A i \in 1..n : i = n \/ (i \in 1..Len(s) /\ Append(s, e)[i] = s[i])
OBVIOUS

\* The attempt that failed is inspected.
LEMMA InspectedMore ==
    ASSUME RetryInv, doing = "fut", inspected' = Append(inspected, attempt),
           attempt' = attempt,
           outcome' \in {"err", "panic"} \/ doing' = "sleep"
    PROVE  InspectedInv' /\ inspected' \in Seq(Nat)
<1>1. /\ attempt \in Nat /\ attempt > 0 /\ inspected \in Seq(Nat)
      /\ outcome = "none"
      /\ Len(inspected) = attempt - 1 /\ \A i \in 1..attempt - 1 : inspected[i] = i
  <2>1. attempt \in Nat /\ inspected \in Seq(Nat) /\ outcome = "none"
    BY DEF RetryInv, RetryTypes
  <2>2. Failed = attempt - 1
    BY <2>1 DEF Failed
  <2> QED BY <2>1, <2>2 DEF RetryInv, AttemptsInv, InspectedInv
<1>2. /\ inspected' \in Seq(Nat) /\ Len(inspected') = attempt
      /\ inspected'[attempt] = attempt
      /\ \A i \in 1..attempt : i = attempt \/
            (i \in 1..Len(inspected) /\ inspected'[i] = inspected[i])
  <2>1. attempt \in Nat \ {0}
    BY <1>1
  <2> QED BY <1>1, <2>1, AppendAt
<1>3. Failed' = attempt
  BY DEF Failed
<1>4. \A i \in 1..attempt : inspected'[i] = i
  BY <1>1, <1>2
<1> QED BY <1>2, <1>3, <1>4 DEF InspectedInv

LEMMA FailKept ==
    ASSUME RetryInv, NEW agrees \in BOOLEAN, Retries!Fail(agrees)
    PROVE  RetryInv'
<1> DEFINE again == Retries!MayRetry /\ agrees
<1>1. /\ doing = "fut" /\ inspected' = Append(inspected, attempt)
      /\ refused' = (Retries!MayRetry /\ ~agrees)
      /\ UNCHANGED <<limit, ceiling, attempt>>
  BY DEF Retries!Fail
<1>2. RetryTypes /\ AttemptsInv /\ SleptInv /\ outcome = "none"
  BY <1>1 DEF RetryInv, RetryTypes
<1>3. /\ attempt \in Nat /\ attempt > 0 /\ limit \in Nat /\ ceiling \in Nat
      /\ limit = 0 \/ attempt <= limit
      /\ slept \in Seq(Nat) /\ Len(slept) = attempt - 1
      /\ ceiling > 0 => \A i \in 1..Len(slept) : slept[i] <= ceiling
      /\ strategy \in [kind : {"fixed", "exponential", "fibonacci"},
                       current : Nat, next : Nat]
  BY <1>1, <1>2 DEF RetryTypes, AttemptsInv, SleptInv
<1>4. CASE /\ doing' = "done" /\ outcome' \in {"err", "panic"}
           /\ UNCHANGED <<strategy, slept>>
           /\ outcome' = "err" => ~again
  <2>1. InspectedInv' /\ inspected' \in Seq(Nat)
    BY <1>1, <1>4, InspectedMore
  <2>2. RetryTypes'
    BY <1>1, <1>2, <1>4, <2>1 DEF RetryTypes
  <2>3. AttemptsInv'
    BY <1>1, <1>3, <1>4 DEF AttemptsInv
  <2>4. SleptInv'
    BY <1>1, <1>3, <1>4 DEF SleptInv
  <2>5. GivenUp'
    <3>1. CASE Retries!MayRetry
      <4>1. outcome' = "err" => refused'
        BY <1>1, <1>4, <3>1
      <4> QED BY <4>1 DEF GivenUp
    <3>2. CASE ~Retries!MayRetry
      <4>1. limit > 0 /\ attempt >= limit
        BY <1>3, <3>2 DEF Retries!MayRetry
      <4> QED BY <1>1, <4>1 DEF GivenUp
    <3> QED BY <3>1, <3>2
  <2> QED BY <2>1, <2>2, <2>3, <2>4, <2>5 DEF RetryInv
<1>5. CASE /\ again /\ doing' = "sleep" /\ outcome' = outcome
           /\ \E j \in Retries!Jitters :
                 slept' = Append(slept, Retries!Clamp(strategy.current + j))
           /\ strategy' = Retries!Advanced(strategy)
  <2>1. InspectedInv' /\ inspected' \in Seq(Nat)
    BY <1>1, <1>5, InspectedMore
  <2>2. PICK j \in {0, 1} : slept' = Append(slept, Retries!Clamp(strategy.current + j))
    BY <1>5 DEF Retries!Jitters
  <2> DEFINE c == Retries!Clamp(strategy.current + j)
  <2>3. c \in Nat /\ (ceiling > 0 => c <= ceiling)
    <3>1. strategy.current + j \in Nat
      BY <1>3, <2>2
    <3> QED BY <1>3, <3>1 DEF Retries!Clamp
  <2> HIDE DEF c
  <2>4. /\ slept' \in Seq(Nat) /\ Len(slept') = attempt /\ slept'[attempt] = c
        /\ \A i \in 1..attempt - 1 : slept'[i] = slept[i]
    BY <1>3, <2>2, <2>3 DEF c
  <2>5. ceiling > 0 => \A i \in 1..Len(slept') : slept'[i] <= ceiling
    <3> SUFFICES ASSUME ceiling > 0, NEW i \in 1..attempt PROVE slept'[i] <= ceiling
      BY <2>4
    <3>1. i = attempt \/ i \in 1..attempt - 1
      BY <1>3
    <3> QED BY <1>3, <2>3, <2>4, <3>1
  <2>6. strategy' \in [kind : {"fixed", "exponential", "fibonacci"},
                       current : Nat, next : Nat]
    <3>1. /\ strategy.kind \in {"fixed", "exponential", "fibonacci"}
          /\ strategy.current \in Nat /\ strategy.next \in Nat
      BY <1>3
    <3>2. CASE strategy.kind = "fixed"
      BY <1>3, <1>5, <3>2 DEF Retries!Advanced
    <3>3. CASE strategy.kind = "exponential"
      <4>1. strategy' = [strategy EXCEPT !.current = 2 * strategy.current]
        BY <1>3, <1>5, <3>3 DEF Retries!Advanced
      <4>2. 2 * strategy.current \in Nat
        BY <3>1
      <4> QED BY <1>3, <4>1, <4>2
    <3>4. CASE strategy.kind = "fibonacci"
      <4>1. strategy' = [strategy EXCEPT !.current = strategy.next,
                                         !.next = strategy.current + strategy.next]
        BY <1>3, <1>5, <3>4 DEF Retries!Advanced
      <4>2. strategy.current + strategy.next \in Nat
        BY <3>1
      <4> QED BY <1>3, <3>1, <4>1, <4>2
    <3> QED BY <3>1, <3>2, <3>3, <3>4
  <2>7. RetryTypes'
    BY <1>1, <1>2, <1>5, <2>1, <2>4, <2>6 DEF RetryTypes
  <2>8. AttemptsInv'
    BY <1>1, <1>3, <1>5 DEF AttemptsInv, Retries!MayRetry
  <2>9. SleptInv'
    BY <1>1, <1>5, <2>4, <2>5 DEF SleptInv
  <2>10. GivenUp'
    BY <1>2, <1>5 DEF GivenUp
  <2> QED BY <2>1, <2>7, <2>8, <2>9, <2>10 DEF RetryInv
<1>6. \/ /\ doing' = "done" /\ outcome' \in {"err", "panic"}
         /\ UNCHANGED <<strategy, slept>>
         /\ outcome' = "err" => ~again
      \/ /\ again /\ doing' = "sleep" /\ outcome' = outcome
         /\ \E j \in Retries!Jitters :
               slept' = Append(slept, Retries!Clamp(strategy.current + j))
         /\ strategy' = Retries!Advanced(strategy)
  BY DEF Retries!Fail
<1> QED BY <1>4, <1>5, <1>6

LEMMA RetryKept == RetryInv /\ Retries!Next => RetryInv'
<1> SUFFICES ASSUME RetryInv, Retries!Next PROVE RetryInv'
  OBVIOUS
<1>1. CASE Retries!Start
  <2>1. /\ doing = "start" /\ attempt' = attempt + 1 /\ doing' = "fut"
        /\ UNCHANGED <<strategy, limit, ceiling, inspected, refused, slept, outcome>>
    BY <1>1 DEF Retries!Start
  <2>2. /\ RetryTypes /\ AttemptsInv /\ InspectedInv /\ SleptInv /\ GivenUp
        /\ attempt \in Nat /\ limit \in Nat /\ outcome = "none" /\ Failed = attempt
    BY <2>1 DEF RetryInv, RetryTypes, Failed
  <2>3. RetryTypes' /\ GivenUp'
    BY <2>1, <2>2 DEF RetryTypes, GivenUp
  <2>4. AttemptsInv'
    BY <2>1, <2>2 DEF AttemptsInv
  <2>5. Failed' = attempt
    BY <2>1, <2>2 DEF Failed
  <2>6. InspectedInv'
    BY <2>1, <2>2, <2>5 DEF InspectedInv
  <2>7. SleptInv'
    BY <2>1, <2>2 DEF SleptInv
  <2> QED BY <2>3, <2>4, <2>6, <2>7 DEF RetryInv
<1>2. CASE Retries!Succeed
  BY <1>2 DEF Retries!Succeed, RetryInv, RetryTypes, AttemptsInv, InspectedInv,
              Failed, SleptInv, GivenUp
<1>3. CASE \E agrees \in BOOLEAN : Retries!Fail(agrees)
  BY <1>3, FailKept
<1>4. CASE Retries!Wake
  BY <1>4 DEF Retries!Wake, RetryInv, RetryTypes, AttemptsInv, InspectedInv,
              Failed, SleptInv, GivenUp
<1> QED BY <1>1, <1>2, <1>3, <1>4 DEF Retries!Next

LEMMA RetryImplies == RetryInv => Retries!RetriesRight
<1> SUFFICES ASSUME RetryInv PROVE Retries!RetriesRight
  OBVIOUS
<1>1. limit > 0 => attempt <= limit
  <2>1. AttemptsInv /\ limit \in Nat /\ attempt \in Nat
    BY DEF RetryInv, RetryTypes
  <2> QED BY <2>1 DEF AttemptsInv
<1>2. inspected = [i \in 1..Failed |-> i]
  <2>1. /\ inspected \in Seq(Nat) /\ Len(inspected) = Failed
        /\ \A i \in 1..Failed : inspected[i] = i
    BY DEF RetryInv, RetryTypes, InspectedInv
  <2> QED BY <2>1
<1>3. ceiling > 0 => \A i \in DOMAIN slept : slept[i] <= ceiling
  <2>1. DOMAIN slept = 1..Len(slept)
    <3>1. slept \in Seq(Nat)
      BY DEF RetryInv, RetryTypes
    <3> QED BY <3>1
  <2> QED BY <2>1 DEF RetryInv, SleptInv
<1> QED BY <1>1, <1>2, <1>3
        DEF Retries!RetriesRight, RetryInv, GivenUp, SleptInv, Failed

-----------------------------------------------------------------------------
(* The bounded queues.                                                       *)

\* A future in the queue.
Queued == [n : Int, weight : Int, state : {"running", "ok", "err"}]

\* S sums the weights of the queue up, from those that were leaked.
Sums(S, q, from) ==
    /\ S \in [0..Len(q) -> Int]
    /\ S[0] = from
    /\ \A i \in 1..Len(q) : S[i] = S[i - 1] + q[i].weight

WeightTypes ==
    /\ pc \in {"idle", "fill", "queue", "dead"}
    /\ taken \in Nat /\ ended \in BOOLEAN
    /\ queue \in Seq(Queued)
    /\ current_weight \in Int /\ leaked \in Int /\ gap \in Int
    /\ woken \in BOOLEAN

\* The weight on the books is that of the queue and what was leaked.
Books == \E S : Sums(S, queue, leaked) /\ current_weight = S[Len(queue)]

\* Whoever finds the queue empty has left its waker with the stream, unless
\* what was leaked alone is too heavy.
Asked == pc = "queue" /\ queue = <<>> /\ ~ended /\ ~woken => leaked >= WeightLimit

WeightInv == WeightTypes /\ Books /\ Asked /\ Weighted!QueueWakes

LEMMA WeightStart == Weighted!Init => WeightInv
<1> SUFFICES ASSUME Weighted!Init PROVE WeightInv
  OBVIOUS
<1> USE DEF Weighted!Init
<1>1. WeightTypes
  <2>1. queue \in Seq(Queued)
    OBVIOUS
  <2>2. taken \in Nat /\ current_weight \in Int /\ leaked \in Int /\ gap \in Int
    OBVIOUS
  <2> QED BY <2>1, <2>2, Zenon DEF WeightTypes
<1>2. Books
  <2> DEFINE S == [i \in 0..Len(queue) |-> 0]
  <2>1. Sums(S, queue, leaked) /\ current_weight = S[Len(queue)]
    BY DEF Sums
  <2> QED BY <2>1 DEF Books
<1>3. Asked /\ Weighted!QueueWakes
  BY DEF Asked, Weighted!QueueWakes
<1> QED BY <1>1, <1>2, <1>3 DEF WeightInv

\* A future goes to the end of the queue ...
LEMMA AppendSums ==
    ASSUME NEW q \in Seq(Queued), NEW f \in Queued, NEW S, NEW from \in Int,
           Sums(S, q, from)
    PROVE  \E R : Sums(R, Append(q, f), from)
                  /\ R[Len(Append(q, f))] = S[Len(q)] + f.weight
<1> DEFINE n == Len(q)
           p == Append(q, f)
           R == [i \in 0..n + 1 |-> IF i = n + 1 THEN S[n] + f.weight ELSE S[i]]
<1>1. n \in Nat /\ Len(p) = n + 1 /\ p[n + 1] = f /\ \A i \in 1..n : p[i] = q[i]
  OBVIOUS
<1>2. f.weight \in Int /\ S \in [0..n -> Int]
  BY DEF Sums, Queued
<1>3. S[0] = from /\ \A i \in 1..n : S[i] = S[i - 1] + q[i].weight
  BY DEF Sums
<1> HIDE DEF n, p
<1>4. R \in [0..n + 1 -> Int] /\ R[0] = from /\ R[n + 1] = S[n] + f.weight
  BY <1>1, <1>2, <1>3
<1>5. \A i \in 1..n + 1 : R[i] = R[i - 1] + p[i].weight
  <2> TAKE i \in 1..n + 1
  <2>1. CASE i = n + 1
    <3>1. R[i - 1] = S[n]
      BY <1>1, <2>1
    <3> QED BY <1>1, <1>4, <2>1, <3>1
  <2>2. CASE i # n + 1
    <3>1. i \in 1..n /\ i - 1 \in 0..n
      BY <1>1, <2>2
    <3>2. R[i] = S[i] /\ R[i - 1] = S[i - 1]
      BY <1>1, <3>1
    <3> QED BY <1>1, <1>3, <3>1, <3>2
  <2> QED BY <2>1, <2>2
<1>6. Sums(R, p, from)
  BY <1>1, <1>4, <1>5 DEF Sums
<1> QED BY <1>1, <1>4, <1>6 DEF n, p

\* ... leaves it at the front, its weight being given back ...
LEMMA TailSums ==
    ASSUME NEW q \in Seq(Queued), q # <<>>, NEW S, NEW from \in Int,
           Sums(S, q, from)
    PROVE  \E R : Sums(R, Tail(q), from) /\ R[Len(Tail(q))] = S[Len(q)] - Head(q).weight
<1> DEFINE n == Len(q)
           p == Tail(q)
           w == Head(q).weight
           R == [i \in 0..n - 1 |-> S[i + 1] - w]
<1>1. /\ n \in Nat \ {0} /\ Len(p) = n - 1 /\ q[1] = Head(q)
      /\ \A i \in 1..n - 1 : p[i] = q[i + 1]
  OBVIOUS
<1>2. w \in Int
  <2>1. Head(q) \in Queued
    OBVIOUS
  <2> QED BY <2>1 DEF Queued
<1>3. /\ S \in [0..n -> Int] /\ S[0] = from
      /\ \A i \in 1..n : S[i] = S[i - 1] + q[i].weight
  BY DEF Sums
<1>4. S[1] = from + w
  <2>1. S[1] = S[1 - 1] + q[1].weight
    BY <1>1, <1>3
  <2> QED BY <1>1, <1>3, <2>1
<1> HIDE DEF n, p, w
<1>5. /\ R \in [0..n - 1 -> Int] /\ R[0] = from
      /\ R[n - 1] = S[n] - w
  BY <1>1, <1>2, <1>3, <1>4, SMTT(20)
<1>6. \A i \in 1..n - 1 : R[i] = R[i - 1] + p[i].weight
  <2> TAKE i \in 1..n - 1
  <2>1. i \in 0..n - 1 /\ i - 1 \in 0..n - 1 /\ i + 1 \in 1..n /\ i \in 0..n
    BY <1>1
  <2>2. S[i + 1] = S[i] + q[i + 1].weight
    BY <1>3, <2>1
  <2>3. R[i] = S[i + 1] - w /\ R[i - 1] = S[i] - w
    BY <2>1
  <2>4. S[i] \in Int /\ S[i + 1] \in Int
    BY <1>3, <2>1
  <2>5. q[i + 1] \in Queued
    BY <2>1 DEF n
  <2>6. q[i + 1].weight \in Int
    BY <2>5 DEF Queued
  <2>7. p[i].weight = q[i + 1].weight
    BY <1>1
  <2> QED BY <1>2, <2>2, <2>3, <2>4, <2>6, <2>7
<1>7. Sums(R, p, from)
  BY <1>1, <1>5, <1>6 DEF Sums
<1> QED BY <1>1, <1>5, <1>7 DEF n, p, w

\* ... or, failed, leaves it anywhere, its weight being leaked.
Without(q, i) == [j \in 1..Len(q) - 1 |-> q[IF j < i THEN j ELSE j + 1]]

LEMMA WithoutShape ==
    ASSUME NEW q \in Seq(Queued), NEW i \in 1..Len(q)
    PROVE  /\ Without(q, i) \in Seq(Queued) /\ Len(Without(q, i)) = Len(q) - 1
           /\ \A j \in 1..Len(q) - 1 :
                Without(q, i)[j] = IF j < i THEN q[j] ELSE q[j + 1]
<1> DEFINE n == Len(q)
<1>1. n \in Nat \ {0} /\ \A j \in 1..n : q[j] \in Queued
  OBVIOUS
<1>2. \A j \in 1..n - 1 : (IF j < i THEN j ELSE j + 1) \in 1..n
  BY <1>1
<1>3. Without(q, i) \in [1..n - 1 -> Queued] /\ n - 1 \in Nat
  BY <1>1, <1>2 DEF Without
<1>4. Without(q, i) \in Seq(Queued) /\ Len(Without(q, i)) = n - 1
  BY <1>3 DEF Without
<1> QED BY <1>4 DEF Without

LEMMA RemoveSums ==
    ASSUME NEW q \in Seq(Queued), NEW i \in 1..Len(q), NEW S, NEW from \in Int,
           Sums(S, q, from)
    PROVE  \E R : /\ Sums(R, Without(q, i), from + q[i].weight)
                  /\ R[Len(Without(q, i))] = S[Len(q)]
<1> DEFINE n == Len(q)
           p == Without(q, i)
           w == q[i].weight
           R == [k \in 0..n - 1 |-> IF k < i THEN S[k] + w ELSE S[k + 1]]
<1>1. /\ n \in Nat \ {0} /\ Len(p) = n - 1 /\ i \in 1..n
      /\ \A j \in 1..n - 1 : p[j] = IF j < i THEN q[j] ELSE q[j + 1]
  BY WithoutShape
<1>2. /\ S \in [0..n -> Int] /\ S[0] = from
      /\ \A k \in 1..n : S[k] = S[k - 1] + q[k].weight
  BY DEF Sums
<1>3. \A k \in 1..n : q[k].weight \in Int
  <2> TAKE k \in 1..n
  <2>1. q[k] \in Queued
    OBVIOUS
  <2> QED BY <2>1 DEF Queued
<1>4. w \in Int /\ S[i] = S[i - 1] + w
  BY <1>1, <1>2, <1>3
<1> HIDE DEF n, p, w
<1>5. \A k \in 0..n : S[k] \in Int
  BY <1>2
<1>6. R \in [0..n - 1 -> Int] /\ R[0] = from + w
  BY <1>1, <1>2, <1>4, <1>5, SMTT(20)
<1>7. R[n - 1] = S[n]
  <2>1. CASE n - 1 < i
    BY <1>1, <1>4, <1>5, <2>1
  <2>2. CASE ~(n - 1 < i)
    BY <1>1, <1>5, <2>2
  <2> QED BY <2>1, <2>2
<1>8. \A k \in 1..n - 1 : R[k] = R[k - 1] + p[k].weight
  <2> TAKE k \in 1..n - 1
  <2>1. /\ k \in 0..n - 1 /\ k - 1 \in 0..n - 1 /\ k \in 1..n /\ k + 1 \in 1..n
        /\ k - 1 \in 0..n /\ k \in 0..n /\ k + 1 \in 0..n
    BY <1>1
  <2>2. S[k] = S[k - 1] + q[k].weight /\ S[k + 1] = S[k] + q[k + 1].weight
    BY <1>2, <2>1
  <2>3. /\ S[k] \in Int /\ S[k - 1] \in Int /\ S[k + 1] \in Int
        /\ q[k].weight \in Int /\ q[k + 1].weight \in Int
    BY <1>3, <1>5, <2>1
  <2>4. CASE k < i
    <3>1. R[k] = S[k] + w /\ R[k - 1] = S[k - 1] + w /\ p[k] = q[k]
      BY <1>1, <2>1, <2>4
    <3>2. R[k - 1] + p[k].weight = (S[k - 1] + w) + q[k].weight
      BY <3>1
    <3>3. (S[k - 1] + w) + q[k].weight = (S[k - 1] + q[k].weight) + w
      BY <1>4, <2>3
    <3> QED BY <2>2, <3>1, <3>2, <3>3
  <2>5. CASE k = i
    <3>1. R[k] = S[k + 1] /\ R[k - 1] = S[k - 1] + w /\ p[k] = q[k + 1]
      BY <1>1, <2>1, <2>5
    <3>2. S[k] = S[k - 1] + w
      BY <1>4, <2>5
    <3> QED BY <1>4, <2>2, <2>3, <3>1, <3>2
  <2>6. CASE k > i
    <3>1. R[k] = S[k + 1] /\ R[k - 1] = S[k] /\ p[k] = q[k + 1]
      BY <1>1, <2>1, <2>6
    <3> QED BY <2>2, <2>3, <3>1
  <2> QED BY <1>1, <2>4, <2>5, <2>6
<1>9. Sums(R, p, from + w)
  BY <1>1, <1>6, <1>8 DEF Sums
<1> QED BY <1>1, <1>7, <1>9 DEF n, p, w

\* The completion of a future changes no weight.
LEMMA SameSums ==
    ASSUME NEW q \in Seq(Queued), NEW p \in Seq(Queued), NEW S, NEW from,
           Len(p) = Len(q), \A i \in 1..Len(q) : p[i].weight = q[i].weight,
           Sums(S, q, from)
    PROVE  Sums(S, p, from)
BY DEF Sums

LEMMA WeightKept == WeightInv /\ Weighted!Next => WeightInv'
<1> SUFFICES ASSUME WeightInv, Weighted!Next PROVE WeightInv'
  OBVIOUS
<1> USE DEF WeightInv
<1>1. CASE Weighted!PollNext
  <2> USE <1>1 DEF Weighted!PollNext
  <2>1. WeightTypes' /\ Asked' /\ Weighted!QueueWakes'
    BY DEF WeightTypes, Asked, Weighted!QueueWakes
  <2>2. Books'
    BY DEF Books
  <2> QED BY <2>1, <2>2
<1>2. CASE \E w \in Weights : Weighted!FillItem(w)
  <2> PICK w \in Weights : Weighted!FillItem(w)
    BY <1>2
  <2> USE DEF Weighted!FillItem
  <2> DEFINE f == [n |-> taken + 1, weight |-> w, state |-> "running"]
  <2>1. f \in Queued /\ f.weight = w /\ w \in Int
    BY AsyncConstants DEF Queued, WeightTypes
  <2> HIDE DEF f
  <2>2. queue' = Append(queue, f) /\ queue' \in Seq(Queued) /\ queue' # <<>>
    BY <2>1 DEF f, WeightTypes
  <2>3. WeightTypes'
    BY <2>1, <2>2 DEF WeightTypes
  <2>4. Books'
    <3>1. PICK S : Sums(S, queue, leaked) /\ current_weight = S[Len(queue)]
      BY DEF Books
    <3>2. PICK R : /\ Sums(R, Append(queue, f), leaked)
                   /\ R[Len(Append(queue, f))] = S[Len(queue)] + f.weight
      BY <2>1, <3>1, AppendSums DEF WeightTypes
    <3> QED BY <2>1, <2>2, <3>1, <3>2 DEF Books
  <2>5. Asked' /\ Weighted!QueueWakes'
    BY <2>2 DEF Asked, Weighted!QueueWakes
  <2> QED BY <2>3, <2>4, <2>5
<1>3. CASE Weighted!FillError
  <2> USE <1>3 DEF Weighted!FillError
  <2>1. CASE flavour = "try"
    <3> DEFINE f == [n |-> taken + 1, weight |-> 0, state |-> "err"]
    <3>1. f \in Queued /\ f.weight = 0
      BY DEF Queued, WeightTypes
    <3> HIDE DEF f
    <3>2. queue' = Append(queue, f) /\ queue' \in Seq(Queued) /\ pc' = "fill"
      BY <2>1, <3>1, SMTT(20) DEF f, WeightTypes
    <3>3. Books'
      <4>1. PICK S : Sums(S, queue, leaked) /\ current_weight = S[Len(queue)]
        BY DEF Books
      <4>2. PICK R : /\ Sums(R, Append(queue, f), leaked)
                     /\ R[Len(Append(queue, f))] = S[Len(queue)] + f.weight
        BY <3>1, <4>1, AppendSums DEF WeightTypes
      <4>3. S[Len(queue)] + f.weight = current_weight
        BY <3>1, <4>1 DEF WeightTypes
      <4> QED BY <3>2, <4>2, <4>3 DEF Books
    <3> QED BY <3>2, <3>3 DEF WeightTypes, Asked, Weighted!QueueWakes
  <2>2. CASE flavour # "try"
    <3>1. /\ pc' = "idle" /\ answer' = "err"
          /\ UNCHANGED <<queue, ended, current_weight, leaked, gap, woken, flavour>>
      BY <2>2
    <3>2. Books'
      BY <3>1 DEF Books
    <3> QED BY <3>1, <3>2 DEF WeightTypes, Asked, Weighted!QueueWakes
  <2> QED BY <2>1, <2>2
<1>4. CASE Weighted!FillStop
  <2> USE <1>4 DEF Weighted!FillStop
  <2>1. Books' /\ WeightTypes' /\ Weighted!QueueWakes'
    BY DEF Books, WeightTypes, Weighted!QueueWakes
  <2>2. Asked'
    <3> SUFFICES ASSUME queue = <<>>, ~ended', ~woken' PROVE leaked >= WeightLimit
      BY DEF Asked
    <3>1. ~Weighted!Room
      OBVIOUS
    <3>2. PICK S : Sums(S, queue, leaked) /\ current_weight = S[Len(queue)]
      BY DEF Books
    <3>3. current_weight = leaked
      BY <3>2 DEF Sums
    <3> QED BY <3>1, <3>3, AsyncConstants DEF Weighted!Room, WeightTypes
  <2> QED BY <2>1, <2>2
<1>5. CASE Weighted!QueueItem
  <2> USE <1>5 DEF Weighted!QueueItem
  <2> DEFINE w == Head(queue).weight
  <2>1. /\ queue # <<>> /\ queue' = Tail(queue) /\ pc' = "idle"
        /\ answer' \in {"item", "err"}
        /\ current_weight' = current_weight - w
        /\ UNCHANGED <<flavour, taken, ended, leaked, gap, woken>>
    OBVIOUS
  <2>2. Head(queue) \in Queued /\ queue' \in Seq(Queued)
    BY <2>1 DEF WeightTypes
  <2>3. w \in Int
    BY <2>2 DEF Queued
  <2> HIDE DEF w, Weighted!QueueItem
  <2>4. WeightTypes'
    BY <2>1, <2>2, <2>3 DEF WeightTypes
  <2>5. Books'
    <3>1. PICK S : Sums(S, queue, leaked) /\ current_weight = S[Len(queue)]
      BY DEF Books
    <3>2. PICK R : /\ Sums(R, Tail(queue), leaked)
                   /\ R[Len(Tail(queue))] = S[Len(queue)] - Head(queue).weight
      BY <2>1, <3>1, TailSums DEF WeightTypes
    <3> QED BY <2>1, <3>1, <3>2 DEF Books, w
  <2>6. Asked' /\ Weighted!QueueWakes'
    BY <2>1 DEF Asked, Weighted!QueueWakes
  <2> QED BY <2>4, <2>5, <2>6
<1>6. CASE Weighted!QueuePending
  <2> USE <1>6 DEF Weighted!QueuePending
  <2>1. /\ pc' = "idle" /\ queue # <<>> /\ Weighted!Failing = {} /\ ~Weighted!Ready
        /\ woken' = (woken \/ \E i \in DOMAIN queue : queue[i].state = "running")
        /\ UNCHANGED <<flavour, taken, ended, queue, current_weight, leaked, gap>>
    OBVIOUS
  <2> HIDE DEF Weighted!QueuePending
  <2>2. WeightTypes' /\ Asked'
    BY <2>1 DEF WeightTypes, Asked
  <2>3. Books'
    BY <2>1 DEF Books
  <2>4. Weighted!QueueWakes'
    <3> DEFINE h == Head(queue)
    <3>1. SUFFICES ASSUME ~woken'
                   PROVE  /\ Weighted!Stuck(h)
                          /\ \A i \in DOMAIN queue : queue[i].state = "ok"
      BY <2>1 DEF Weighted!QueueWakes, Weighted!Stuck
    <3>2. /\ DOMAIN queue = 1..Len(queue) /\ 1 \in DOMAIN queue /\ h = queue[1]
          /\ \A i \in DOMAIN queue : queue[i] \in Queued
      BY <2>1 DEF WeightTypes
    <3>3. \A i \in DOMAIN queue : queue[i].state \in {"ok", "err"}
      BY <2>1, <3>1, <3>2 DEF Queued
    <3>4. Weighted!Stuck(h)
      <4> HIDE DEF h
      <4>1. h.state # "running"
        BY <3>2, <3>3
      <4> QED BY <2>1, <4>1 DEF Weighted!Ready, h
    <3>5. gap # 0
      BY <3>4 DEF Weighted!Stuck
    <3>6. flavour = "v01"
      BY <3>5 DEF Weighted!QueueWakes
    <3>7. \A i \in DOMAIN queue : queue[i].state # "err"
      BY <2>1, <3>6 DEF Weighted!Failing
    <3> QED BY <3>3, <3>4, <3>7
  <2> QED BY <2>2, <2>3, <2>4
<1>7. CASE Weighted!QueueEmpty
  <2> USE <1>7 DEF Weighted!QueueEmpty
  <2> QED BY DEF Books, WeightTypes, Asked, Weighted!QueueWakes
<1>8. CASE \E i \in DOMAIN queue, r \in {"ok", "err"} : Weighted!Complete(i, r)
  <2> PICK i \in DOMAIN queue, r \in {"ok", "err"} : Weighted!Complete(i, r)
    BY <1>8
  <2> USE DEF Weighted!Complete
  <2>1. \A j \in 1..Len(queue) : queue[j] \in Queued
    BY DEF WeightTypes
  <2>2. /\ queue' = [queue EXCEPT ![i].state = r] /\ DOMAIN queue = 1..Len(queue)
        /\ UNCHANGED <<flavour, pc, taken, ended, current_weight, leaked, gap, answer, woken>>
    BY DEF WeightTypes
  <2>3. /\ queue' \in Seq(Queued) /\ Len(queue') = Len(queue)
        /\ \A j \in 1..Len(queue) : queue'[j].weight = queue[j].weight
    <3>1. [queue[i] EXCEPT !.state = r] \in Queued
          /\ [queue[i] EXCEPT !.state = r].weight = queue[i].weight
      BY <2>1, <2>2 DEF Queued
    <3>2. queue' = [queue EXCEPT ![i] = [queue[i] EXCEPT !.state = r]]
      BY <2>2
    <3> HIDE DEF Weighted!Complete
    <3>3. queue' \in Seq(Queued) /\ Len(queue') = Len(queue)
      BY <3>1, <3>2 DEF WeightTypes
    <3>4. \A j \in 1..Len(queue) : queue'[j].weight = queue[j].weight
      BY <2>2, <3>1, <3>2 DEF WeightTypes
    <3> QED BY <3>3, <3>4
  <2> HIDE DEF Weighted!Complete
  <2>4. Books'
    <3>1. PICK S : Sums(S, queue, leaked) /\ current_weight = S[Len(queue)]
      BY DEF Books
    <3>2. Sums(S, queue', leaked)
      BY <2>3, <3>1, SameSums DEF WeightTypes
    <3> QED BY <2>2, <2>3, <3>1, <3>2 DEF Books
  <2>5. pc = "idle"
    BY DEF Weighted!Complete
  <2>6. queue[i].state = "running" /\ queue[i].state # "ok"
    BY DEF Weighted!Complete
  <2>7. Weighted!QueueWakes'
    <3> SUFFICES ASSUME answer = "pending", ~woken PROVE leaked >= WeightLimit
      BY <2>2 DEF Weighted!QueueWakes
    <3> QED BY <2>5, <2>6 DEF Weighted!QueueWakes
  <2> QED BY <2>2, <2>3, <2>4, <2>5, <2>7 DEF WeightTypes, Asked
<1>9. CASE \E i \in DOMAIN queue : Weighted!QueueFailed(i)
  <2> PICK i \in DOMAIN queue : Weighted!QueueFailed(i)
    BY <1>9
  <2> USE DEF Weighted!QueueFailed
  <2> DEFINE w == queue[i].weight
  <2>1. /\ i \in 1..Len(queue) /\ queue' = Without(queue, i) /\ pc' = "idle"
        /\ answer' = "err" /\ leaked' = leaked + w /\ flavour = "v01"
        /\ gap' = IF Weighted!Stuck(queue[i]) THEN gap ELSE queue[i].n
        /\ UNCHANGED <<flavour, taken, ended, current_weight, woken>>
    BY DEF Without, WeightTypes, Weighted!Failing
  <2>2. queue[i] \in Queued
    BY <2>1 DEF WeightTypes
  <2>3. w \in Int /\ queue[i].n \in Int
    BY <2>2 DEF Queued
  <2>4. queue' \in Seq(Queued)
    BY <2>1, WithoutShape DEF WeightTypes
  <2> HIDE DEF w, Weighted!QueueFailed
  <2>5. WeightTypes'
    BY <2>1, <2>3, <2>4 DEF WeightTypes
  <2>6. Books'
    <3>1. PICK S : Sums(S, queue, leaked) /\ current_weight = S[Len(queue)]
      BY DEF Books
    <3>2. PICK R : /\ Sums(R, Without(queue, i), leaked + queue[i].weight)
                   /\ R[Len(Without(queue, i))] = S[Len(queue)]
      BY <2>1, <3>1, RemoveSums DEF WeightTypes
    <3> QED BY <2>1, <3>1, <3>2 DEF Books, w
  <2>7. Asked' /\ Weighted!QueueWakes'
    BY <2>1 DEF Asked, Weighted!QueueWakes
  <2> QED BY <2>5, <2>6, <2>7
<1> QED BY <1>1, <1>2, <1>3, <1>4, <1>5, <1>6, <1>7, <1>8, <1>9 DEF Weighted!Next

-----------------------------------------------------------------------------
(* The junctions of streams.                                                 *)

JunctionInv ==
    /\ DOMAIN buf = Junctions!Sinks
    /\ unflushed \subseteq Junctions!Sinks
    /\ Junctions!JunctionsWake

LEMMA JunctionStart == Junctions!Init => JunctionInv
BY DEF Junctions!Init, JunctionInv, Junctions!JunctionsWake

LEMMA JunctionKept == JunctionInv /\ Junctions!Next => JunctionInv'
<1> SUFFICES ASSUME JunctionInv, Junctions!Next PROVE JunctionInv'
  OBVIOUS
<1> USE DEF JunctionInv, Junctions!JunctionsWake, Junctions!Answer
<1>1. CASE Junctions!PollFork
  BY <1>1 DEF Junctions!PollFork
<1>2. CASE Junctions!Pushed
  BY <1>2 DEF Junctions!Pushed
<1>3. CASE Junctions!ForkFails
  BY <1>3 DEF Junctions!ForkFails
\* A sink that takes no item keeps it waiting, and has the waker.
<1>4. CASE \E s \in Junctions!Sinks, a \in BOOLEAN :
              Junctions!Push(s, a) \/ Junctions!ForkItem(s, a)
  <2> PICK s \in Junctions!Sinks, a \in BOOLEAN :
              Junctions!Push(s, a) \/ Junctions!ForkItem(s, a)
    BY <1>4
  <2>1. PICK item : Junctions!StartSend(s, item, a)
    BY DEF Junctions!Push, Junctions!ForkItem
  <2>2. DOMAIN buf' = Junctions!Sinks /\ unflushed' \subseteq Junctions!Sinks
    BY <2>1 DEF Junctions!StartSend
  <2>3. CASE a
    <3>1. stage' # "idle"
      BY <2>3 DEF Junctions!Push, Junctions!ForkItem
    <3> QED BY <2>2, <3>1
  <2>4. CASE ~a
    <3>1. buf'[s] = <<item>> /\ <<"sink", s>> \in awaiting'
      BY <2>1, <2>4 DEF Junctions!StartSend, Junctions!Push, Junctions!ForkItem
    <3>2. buf'[s] # <<>>
      BY <3>1
    <3> QED BY <2>2, <3>1, <3>2
  <2> QED BY <2>3, <2>4
\* Every sink that did not flush everything has the waker.
<1>5. CASE \E ready \in SUBSET Junctions!Sinks :
              \/ Junctions!ForkPending(ready) \/ Junctions!Finish(ready)
              \/ \E how \in {"ended", "failed"} : Junctions!ForkOver(how, ready)
  <2> PICK ready \in SUBSET Junctions!Sinks :
              \/ Junctions!ForkPending(ready) \/ Junctions!Finish(ready)
              \/ \E how \in {"ended", "failed"} : Junctions!ForkOver(how, ready)
    BY <1>5
  <2>1. /\ unflushed' = unflushed \ ready /\ UNCHANGED buf
        /\ \A s \in Junctions!Sinks \ ready : <<"sink", s>> \in awaiting'
    BY DEF Junctions!ForkPending, Junctions!Finish, Junctions!ForkOver,
           Junctions!PollCompleteBoth
  <2>2. stage' = "idle" => awaiting' # {}
    <3>1. CASE Junctions!ForkPending(ready)
      BY <3>1 DEF Junctions!ForkPending
    <3>2. CASE ~Junctions!ForkPending(ready)
      <4>1. stage' = "idle" => ready # Junctions!Sinks
        BY <3>2 DEF Junctions!Finish, Junctions!ForkOver
      <4> QED BY <2>1, <4>1
    <3> QED BY <3>1, <3>2
  <2> QED BY <2>1, <2>2
<1>6. CASE \E s \in Sources : Junctions!SelectItem(s) \/ Junctions!SelectError(s)
  BY <1>6 DEF Junctions!SelectItem, Junctions!SelectError
<1>7. CASE \E ends \in SUBSET Sources : Junctions!SelectWaits(ends)
  <2> PICK ends \in SUBSET Sources : Junctions!SelectWaits(ends)
    BY <1>7
  <2>1. /\ junction' = "select" /\ UNCHANGED <<buf, unflushed>>
        /\ result' = "pending" => awaiting' # {}
    BY DEF Junctions!SelectWaits
  <2> QED BY <2>1
<1>8. CASE \E r \in {"pending", "item", "err"} : Junctions!OrderedPoll(r)
  BY <1>8 DEF Junctions!OrderedPoll
<1> QED BY <1>1, <1>2, <1>3, <1>4, <1>5, <1>6, <1>7, <1>8 DEF Junctions!Next

-----------------------------------------------------------------------------
(* The composition of the adaptors.                                          *)

\* The active part keeps its invariant.
AdaptorInv ==
    /\ active = "stream" => StreamInv
    /\ active = "future" => FutureInv
    /\ active = "retry" => RetryInv
    /\ active = "weight" => WeightInv
    /\ active = "junction" => JunctionInv

LEMMA AdaptorStart == Init => AdaptorInv
BY StreamStart, FutureStart, RetryStart, WeightStart, JunctionStart
   DEF Init, AdaptorInv

LEMMA AdaptorsAtRest ==
    /\ StreamInv /\ UNCHANGED streamVars => StreamInv'
    /\ FutureInv /\ UNCHANGED futureVars => FutureInv'
    /\ RetryInv /\ UNCHANGED retryVars => RetryInv'
    /\ WeightInv /\ UNCHANGED weightVars => WeightInv'
    /\ JunctionInv /\ UNCHANGED junctionVars => JunctionInv'
<1>1. StreamInv /\ UNCHANGED streamVars => StreamInv'
  <2> SUFFICES ASSUME StreamInv, UNCHANGED streamVars PROVE StreamInv'
    OBVIOUS
  <2>1. UNCHANGED <<adaptor, own, given, over, repolled, out, ret, armed,
                    dropped, side>>
    BY DEF streamVars
  <2>2. StreamTypes' /\ BatchInv' /\ CollectInv' /\ RemainderInv' /\ TimeoutInv'
    BY <2>1 DEF StreamInv, StreamTypes, BatchInv, CollectInv, RemainderInv,
                TimeoutInv
  <2>3. YieldInv' /\ TimedInv'
    BY <2>1 DEF StreamInv, YieldInv, TimedInv
  <2>4. ZeroLast' /\ EndOver' /\ Streams!WakeKept'
    BY <2>1 DEF StreamInv, ZeroLast, EndOver, Streams!WakeKept
  <2> QED BY <2>2, <2>3, <2>4 DEF StreamInv
<1>2. FutureInv /\ UNCHANGED futureVars => FutureInv'
  BY DEF futureVars, FutureInv, FutureTypes, InspectInv, Meant, CancelInv, HandleInv
<1>3. RetryInv /\ UNCHANGED retryVars => RetryInv'
  BY DEF retryVars, RetryInv, RetryTypes, AttemptsInv, InspectedInv, Failed,
         SleptInv, GivenUp
<1>4. WeightInv /\ UNCHANGED weightVars => WeightInv'
  BY DEF weightVars, WeightInv, WeightTypes, Books, Asked, Weighted!QueueWakes,
         Weighted!Stuck
<1>5. JunctionInv /\ UNCHANGED junctionVars => JunctionInv'
  BY DEF junctionVars, JunctionInv, Junctions!JunctionsWake
<1> QED BY <1>1, <1>2, <1>3, <1>4, <1>5

LEMMA AdaptorStep == AdaptorInv /\ [Next]_vars => AdaptorInv'
<1> SUFFICES ASSUME AdaptorInv, [Next]_vars PROVE AdaptorInv'
  OBVIOUS
<1>1. CASE StreamStep
  <2>1. active = "stream" /\ active' = active /\ Streams!Next
    BY <1>1 DEF StreamStep
  <2> QED BY <2>1, StreamKept DEF AdaptorInv
<1>2. CASE FutureStep
  <2>1. active = "future" /\ active' = active /\ Futures!Next
    BY <1>2 DEF FutureStep
  <2> QED BY <2>1, FutureKept DEF AdaptorInv
<1>3. CASE RetryStep
  <2>1. active = "retry" /\ active' = active /\ Retries!Next
    BY <1>3 DEF RetryStep
  <2> QED BY <2>1, RetryKept DEF AdaptorInv
<1>4. CASE WeightStep
  <2>1. active = "weight" /\ active' = active /\ Weighted!Next
    BY <1>4 DEF WeightStep
  <2> QED BY <2>1, WeightKept DEF AdaptorInv
<1>5. CASE JunctionStep
  <2>1. active = "junction" /\ active' = active /\ Junctions!Next
    BY <1>5 DEF JunctionStep
  <2> QED BY <2>1, JunctionKept DEF AdaptorInv
<1>6. CASE CellStep \/ StatsStep \/ DetectorStep \/ ConfigStep \/ LocalStep
  <2>1. /\ active \in {"cell", "stats", "detector", "config", "local"}
        /\ active' = active
    BY <1>6 DEF CellStep, StatsStep, DetectorStep, ConfigStep, LocalStep
  <2> QED BY <2>1 DEF AdaptorInv
<1>7. CASE UNCHANGED vars
  <2>1. UNCHANGED <<active, streamVars, futureVars, retryVars, weightVars,
                    junctionVars>>
    BY <1>7 DEF vars
  <2> QED BY <2>1, AdaptorsAtRest DEF AdaptorInv
<1> QED BY <1>1, <1>2, <1>3, <1>4, <1>5, <1>6, <1>7 DEF Next

(* No wake-up is lost: a consumer that the wrappers of futures_ext,          *)
(* futures_01_ext and futures_stats, the weight-limited queues, streamfork,  *)
(* select_all or futures_ordered told to wait has left its waker with        *)
(* something that was not ready, but for the exceptions the property names   *)
(* (a failed future of futures 0.1 keeps its weight and holds back what is   *)
(* behind it); for any limits, weights, sources and lengths of streams.      *)
THEOREM PendingCorrect == Spec => []PendingIsWoken
<1>1. AdaptorInv => PendingIsWoken
  BY StreamImplies DEF AdaptorInv, PendingIsWoken, WeightInv, JunctionInv
<1> QED BY <1>1, AdaptorStart, AdaptorStep, PTL DEF Spec

(* Outcomes are those that happened: ends and timeouts of wrapped streams,   *)
(* the statistics that futures_stats reports once, callbacks on results and  *)
(* on cancellation, and the attempts, sleeps and errors of futures_retry; for *)
(* any number of polls, items, attempts and intervals.                       *)
THEOREM OutcomesCorrect == Spec => []OutcomesTruthful
<1>1. AdaptorInv => OutcomesTruthful
  BY StreamImplies, FutureImplies, RetryImplies DEF AdaptorInv, OutcomesTruthful
<1> QED BY <1>1, AdaptorStart, AdaptorStep, PTL DEF Spec

-----------------------------------------------------------------------------
(* What wrapped streams deliver.                                             *)

\* The error at position i of what the stream gave is its first.
FirstError(e, s) == \E i \in Streams!ErrorsAt(s) :
    e = s[i] /\ \A j \in Streams!ErrorsAt(s) : i <= j

\* Items are split off as they come, and the first error is kept.
SplitHeld == adaptor = "split_err" =>
    /\ own \in [tx : BOOLEAN, err : Int]
    /\ IF own.tx THEN own.err = 0 /\ Streams!ErrorsAt(given) = {}
                 ELSE FirstError(own.err, given)
    /\ \A i \in DOMAIN given : given[i] \in {i, -i}
    /\ Streams!Increasing(out)
    /\ Streams!Members(out) = {x \in Streams!Members(given) : x > 0}

TimeoutHeld == adaptor = "timeout" =>
    out = given \/ (own.done /\ out = Append(given, 0))

\* Nothing is handed over until the stream ends or fails.
CollectHeld == adaptor = "collect" =>
    /\ ret \notin {"end", "err"} =>
        out = <<>> /\ own.items = given /\ Streams!ErrorsAt(given) = {}
    /\ ret = "end" => out = given /\ own.items = <<>>
    /\ ret = "err" => /\ Streams!ErrorsAt(given) = {Len(given)}
                      /\ out = <<given[Len(given)]>>

BatchHeld == adaptor = "batch" =>
    out \o (IF own.err = 0 THEN <<>> ELSE <<own.err>>) = given

PlainHeld == adaptor \notin {"collect", "split_err", "timeout", "batch"} =>
    out = given

StreamHeld == SplitHeld /\ TimeoutHeld /\ CollectHeld /\ BatchHeld /\ PlainHeld

LEMMA HeldStart == Streams!Init => StreamHeld
<1> SUFFICES ASSUME Streams!Init PROVE StreamHeld
  OBVIOUS
<1>1. /\ given = <<>> /\ out = <<>> /\ ret = "new"
      /\ own = Streams!Own[adaptor] /\ DOMAIN given = {} /\ DOMAIN out = {}
  BY DEF Streams!Init
<1>2. Streams!ErrorsAt(given) = {}
  BY <1>1 DEF Streams!ErrorsAt
<1>3. SplitHeld
  <2> SUFFICES ASSUME adaptor = "split_err" PROVE SplitHeld
    BY DEF SplitHeld
  <2>1. own = [tx |-> TRUE, err |-> 0]
    BY <1>1 DEF Streams!Own
  <2>2. own \in [tx : BOOLEAN, err : Int] /\ own.tx /\ own.err = 0
    BY <2>1
  <2>3. /\ Streams!Increasing(out)
        /\ Streams!Members(out) = {x \in Streams!Members(given) : x > 0}
    BY <1>1 DEF Streams!Increasing, Streams!Members
  <2> QED BY <1>1, <1>2, <2>2, <2>3 DEF SplitHeld
<1>4. CollectHeld
  <2> SUFFICES ASSUME adaptor = "collect" PROVE CollectHeld
    BY DEF CollectHeld
  <2>1. own.items = <<>>
    BY <1>1 DEF Streams!Own
  <2> QED BY <1>1, <1>2, <2>1 DEF CollectHeld
<1>5. BatchHeld
  <2> SUFFICES ASSUME adaptor = "batch" PROVE BatchHeld
    BY DEF BatchHeld
  <2>1. own.err = 0
    BY <1>1 DEF Streams!Own
  <2>2. <<>> \o <<>> = <<>>
    OBVIOUS
  <2> QED BY <1>1, <2>1, <2>2 DEF BatchHeld
<1> QED BY <1>1, <1>3, <1>4, <1>5 DEF StreamHeld, TimeoutHeld, PlainHeld

LEMMA HeldImplies == StreamInv /\ StreamHeld => Streams!NothingLost
<1> SUFFICES ASSUME StreamInv, StreamHeld PROVE Streams!NothingLost
  OBVIOUS
<1> USE DEF StreamHeld, Streams!NothingLost
<1>1. CASE adaptor = "collect"
  <2>1. <<>> \o given = given /\ given \o <<>> = given
    BY DEF StreamInv, StreamTypes
  <2>2. CASE ret = "err"
    BY <1>1, <2>2, StreamOperators DEF CollectHeld
  <2>3. CASE ret # "err"
    BY <1>1, <2>1, <2>3 DEF CollectHeld
  <2> QED BY <2>2, <2>3
<1>2. CASE adaptor = "split_err"
  <2>1. own.err # 0 => FirstError(own.err, given)
    BY <1>2 DEF SplitHeld
  <2> QED BY <1>2, <2>1 DEF SplitHeld, FirstError
<1>3. CASE adaptor = "timeout"
  BY <1>3 DEF TimeoutHeld
<1>4. CASE adaptor = "batch"
  BY <1>4 DEF BatchHeld
<1>5. CASE adaptor \notin {"collect", "split_err", "timeout", "batch"}
  BY <1>5 DEF PlainHeld
<1> QED BY <1>1, <1>2, <1>3, <1>4, <1>5

\* A wrapper that passes every answer on has handed over what was given.
LEMMA PlainStep ==
    ASSUME StreamInv, StreamHeld, UNCHANGED adaptor,
           adaptor \notin {"collect", "split_err", "timeout", "batch"},
           \/ out' = out /\ given' = given
           \/ \E r : Streams!Ask(0, r) /\ out' = out \o Got(r)
    PROVE  StreamHeld'
<1>1. out = given /\ given \in Seq(Int)
  BY DEF StreamHeld, PlainHeld, StreamInv, StreamTypes
<1>2. out' = given'
  <2>1. CASE \E r : Streams!Ask(0, r) /\ out' = out \o Got(r)
    <3> PICK r : Streams!Ask(0, r) /\ out' = out \o Got(r)
      BY <2>1
    <3> QED BY <1>1, GivenOne
  <2> QED BY <1>1, <2>1
<1> QED BY <1>2 DEF StreamHeld, SplitHeld, TimeoutHeld, CollectHeld, BatchHeld, PlainHeld

LEMMA EnumerateHeld == StreamInv /\ StreamHeld /\ Streams!PollEnumerate => StreamHeld'
<1> SUFFICES ASSUME StreamInv, StreamHeld, Streams!PollEnumerate PROVE StreamHeld'
  OBVIOUS
<1>1. adaptor = "enumerate" /\ adaptor \notin Streams!Fusing
  BY DEF Streams!PollEnumerate, Streams!Polled, Streams!Fusing
<1>2. PICK r \in Streams!Replies : Streams!Ask(0, r) /\ Streams!PassOn(r)
  BY DEF Streams!PollEnumerate
<1>3. out' = out \o Got(r) /\ UNCHANGED adaptor
  BY <1>1, <1>2, PassedOn
<1> QED BY <1>1, <1>2, <1>3, PlainStep

LEMMA RemainderHeld == StreamInv /\ StreamHeld /\ Streams!PollReturnRemainder => StreamHeld'
<1> SUFFICES ASSUME StreamInv, StreamHeld, Streams!PollReturnRemainder PROVE StreamHeld'
  OBVIOUS
<1>1. adaptor = "return_remainder"
  BY DEF Streams!PollReturnRemainder, Streams!Polled
<1>2. own.inner <=> ~over
  BY <1>1 DEF StreamInv, RemainderInv
<1>3. CASE Streams!Answer("end", <<>>, FALSE) /\ Streams!DontAsk
  <2>1. out' = out \o <<>> /\ UNCHANGED <<adaptor, given>>
    BY <1>3 DEF Streams!Answer, Streams!DontAsk
  <2> QED BY <1>1, <2>1, NoMore, PlainStep DEF StreamInv, StreamTypes
<1>4. ASSUME own.inner, NEW r \in Streams!Replies, Streams!Ask(0, r), Streams!PassOn(r)
      PROVE  StreamHeld'
  <2>1. out' = out \o Got(r) /\ UNCHANGED adaptor
    BY <1>1, <1>2, <1>4, PassedOn
  <2> QED BY <1>1, <1>4, <2>1, PlainStep
<1> QED BY <1>3, <1>4 DEF Streams!PollReturnRemainder

LEMMA YieldHeld == StreamInv /\ StreamHeld /\ Streams!PollYieldPeriodically => StreamHeld'
<1> SUFFICES ASSUME StreamInv, StreamHeld, Streams!PollYieldPeriodically PROVE StreamHeld'
  OBVIOUS
<1>1. adaptor = "yield_periodically" /\ adaptor \notin Streams!Fusing
  BY DEF Streams!PollYieldPeriodically, Streams!Polled, Streams!Fusing
<1>3. CASE Streams!Answer("pending", <<>>, TRUE) /\ Streams!DontAsk
  <2>1. out' = out \o <<>> /\ UNCHANGED <<adaptor, given>>
    BY <1>3 DEF Streams!Answer, Streams!DontAsk
  <2> QED BY <1>1, <2>1, NoMore, PlainStep DEF StreamInv, StreamTypes
<1>4. ASSUME NEW r \in Streams!Replies, Streams!Ask(0, r), Streams!PassOn(r)
      PROVE  StreamHeld'
  <2>1. out' = out \o Got(r) /\ UNCHANGED adaptor
    BY <1>1, <1>4, PassedOn, SMTT(20)
  <2> QED BY <1>1, <1>4, <2>1, PlainStep
<1> QED BY <1>3, <1>4 DEF Streams!PollYieldPeriodically

LEMMA TimedHeld == StreamInv /\ StreamHeld /\ Streams!PollTimed => StreamHeld'
<1> SUFFICES ASSUME StreamInv, StreamHeld, Streams!PollTimed PROVE StreamHeld'
  OBVIOUS
<1>1. adaptor = "timed"
  BY DEF Streams!PollTimed, Streams!Polled
<1>2. own.completed <=> over
  BY <1>1 DEF StreamInv, TimedInv
<1>3. CASE Streams!Answer("end", <<>>, FALSE) /\ Streams!DontAsk
  <2>1. out' = out \o <<>> /\ UNCHANGED <<adaptor, given>>
    BY <1>3 DEF Streams!Answer, Streams!DontAsk
  <2> QED BY <1>1, <2>1, NoMore, PlainStep DEF StreamInv, StreamTypes
<1>4. ASSUME ~own.completed, NEW r \in Streams!Replies, Streams!Ask(0, r), Streams!PassOn(r)
      PROVE  StreamHeld'
  <2>1. out' = out \o Got(r) /\ UNCHANGED adaptor
    BY <1>1, <1>2, <1>4, PassedOn
  <2> QED BY <1>1, <1>4, <2>1, PlainStep
<1> QED BY <1>3, <1>4 DEF Streams!PollTimed

\* Receivers, clocks and dropping hand nothing over.
LEMMA AsideHeld ==
    StreamInv /\ StreamHeld /\ (\/ Streams!ReceiveRemainder \/ Streams!PollErrFuture
                               \/ Streams!Elapse \/ Streams!Drop) => StreamHeld'
<1> SUFFICES ASSUME StreamInv, StreamHeld,
                    \/ Streams!ReceiveRemainder \/ Streams!PollErrFuture
                    \/ Streams!Elapse \/ Streams!Drop
             PROVE  StreamHeld'
  OBVIOUS
<1>1. UNCHANGED <<adaptor, given, out, ret>>
  BY DEF Streams!ReceiveRemainder, Streams!PollErrFuture, Streams!Elapse, Streams!Drop
<1>2. adaptor \notin {"timeout", "return_remainder", "timed"} => own' = own
  BY DEF Streams!ReceiveRemainder, Streams!PollErrFuture, Streams!Elapse, Streams!Drop
<1>3. adaptor = "timeout" => own'.done = own.done
  <2>1. adaptor = "timeout" =>
          own \in [done : BOOLEAN, deadline : {"unset", "running", "fired"}]
    BY DEF StreamInv, TimeoutInv
  <2> QED BY <2>1 DEF Streams!ReceiveRemainder, Streams!PollErrFuture,
                      Streams!Elapse, Streams!Drop
<1>4. SplitHeld' /\ CollectHeld' /\ BatchHeld'
  BY <1>1, <1>2 DEF StreamHeld, SplitHeld, CollectHeld, BatchHeld
<1> QED BY <1>1, <1>3, <1>4 DEF StreamHeld, TimeoutHeld, PlainHeld

LEMMA TimeoutPollHeld == StreamInv /\ StreamHeld /\ Streams!PollTimeout => StreamHeld'
<1> SUFFICES ASSUME StreamInv, StreamHeld, Streams!PollTimeout PROVE StreamHeld'
  OBVIOUS
<1>1. adaptor = "timeout"
  BY DEF Streams!PollTimeout, Streams!Polled
<1>2. /\ own \in [done : BOOLEAN, deadline : {"unset", "running", "fired"}]
      /\ ~own.done => ~over
      /\ out \in Seq(Int) /\ given \in Seq(Int)
      /\ out = given \/ (own.done /\ out = Append(given, 0))
  BY <1>1 DEF StreamInv, StreamTypes, TimeoutInv, StreamHeld, TimeoutHeld
<1>3. SUFFICES /\ UNCHANGED adaptor
               /\ out' = given' \/ (own'.done /\ out' = Append(given', 0))
  BY <1>1 DEF StreamHeld, SplitHeld, TimeoutHeld, CollectHeld, BatchHeld, PlainHeld
<1>4. CASE own.done /\ Streams!Answer("end", <<>>, FALSE) /\ Streams!DontAsk
           /\ UNCHANGED own
  <2>1. out' = out \o <<>> /\ UNCHANGED <<adaptor, given, own>>
    BY <1>4 DEF Streams!Answer, Streams!DontAsk
  <2> QED BY <1>2, <2>1, NoMore
<1>5. CASE /\ ~own.done /\ Streams!Answer("err", <<0>>, FALSE) /\ Streams!DontAsk
           /\ own' = [own EXCEPT !.done = TRUE]
  <2>1. out' = out \o <<0>> /\ UNCHANGED <<adaptor, given>>
    BY <1>5 DEF Streams!Answer, Streams!DontAsk
  <2>2. own'.done = TRUE
    BY <1>2, <1>5
  <2>3. given \o <<0>> = Append(given, 0)
    BY <1>2
  <2> QED BY <1>2, <1>5, <2>1, <2>2, <2>3
<1>6. ASSUME ~own.done, NEW r \in Streams!Replies, Streams!Ask(0, r), Streams!PassOn(r)
      PROVE  UNCHANGED adaptor /\ out' = given'
  <2>1. out' = out \o Got(r) /\ UNCHANGED adaptor
    BY <1>1, <1>2, <1>6, PassedOn
  <2>2. given' = given \o Got(r)
    BY <1>2, <1>6, GivenOne
  <2> QED BY <1>2, <1>6, <2>1, <2>2
<1> QED BY <1>4, <1>5, <1>6 DEF Streams!PollTimeout

\* What the stream gives: k items, then what r adds.
LEMMA GivenExactly ==
    ASSUME given \in Seq(Int), NEW k \in Nat, NEW r, Streams!Ask(k, r)
    PROVE  LET m == [i \in 1..k |-> Len(given) + i]
               x == -((Len(given) + k) + 1)
           IN  /\ m \in Seq(Int) /\ given \o m \in Seq(Int)
               /\ \A i \in DOMAIN given : (given \o m)[i] = given[i]
               /\ \A i \in DOMAIN (given \o m) \ DOMAIN given : (given \o m)[i] > 0
               /\ x \in Int /\ x < 0
               /\ r = "err" => given' = (given \o m) \o <<x>>
               /\ r \notin {"item", "err"} => given' = given \o m
<1> DEFINE m == [i \in 1..k |-> Len(given) + i]
           x == -((Len(given) + k) + 1)
           e == IF r = "item" THEN <<Len(given) + k + 1>>
                ELSE IF r = "err" THEN <<x>> ELSE <<>>
<1>1. given' = (given \o m) \o e
  BY DEF Streams!Ask
<1>2. Len(given) \in Nat /\ m \in Seq(Int) /\ Len(m) = k /\ x \in Int /\ x < 0
  OBVIOUS
<1>3. \A i \in 1..k : m[i] = Len(given) + i /\ m[i] > 0
  BY <1>2
<1>4. (r = "err" => e = <<x>>) /\ (r \notin {"item", "err"} => e = <<>>)
  OBVIOUS
<1> HIDE DEF m, e, x
<1>5. /\ given \o m \in Seq(Int) /\ Len(given \o m) = Len(given) + k
      /\ DOMAIN (given \o m) = 1..Len(given) + k
      /\ \A i \in 1..Len(given) : (given \o m)[i] = given[i]
      /\ \A i \in 1..k : (given \o m)[Len(given) + i] = m[i]
  BY <1>2
<1>6. \A i \in 1..Len(given) + k :
         i \in 1..Len(given) \/ (i - Len(given) \in 1..k /\ i = Len(given) + (i - Len(given)))
  BY <1>2
<1>7. DOMAIN given = 1..Len(given) /\ 1..Len(given) \subseteq 1..Len(given) + k
  BY <1>2
<1>8. \A i \in DOMAIN (given \o m) \ DOMAIN given : (given \o m)[i] > 0
  <2> SUFFICES ASSUME NEW i \in 1..Len(given) + k, i \notin 1..Len(given)
               PROVE  (given \o m)[i] > 0
    BY <1>5, <1>7
  <2>1. i - Len(given) \in 1..k /\ i = Len(given) + (i - Len(given))
    BY <1>6
  <2>2. (given \o m)[Len(given) + (i - Len(given))] = m[i - Len(given)]
    BY <1>5, <2>1
  <2> QED BY <1>3, <2>1, <2>2
<1>9. \A i \in DOMAIN given : (given \o m)[i] = given[i]
  BY <1>5, <1>7
<1>10. r \notin {"item", "err"} => given' = given \o m
  <2>1. \A s \in Seq(Int) : s \o <<>> = s
    OBVIOUS
  <2> QED BY <1>1, <1>4, <1>5, <2>1
<1>11. r = "err" => given' = (given \o m) \o <<x>>
  BY <1>1, <1>4
<1> QED BY <1>2, <1>5, <1>8, <1>9, <1>10, <1>11, Zenon DEF m, x

LEMMA BatchPollHeld == StreamInv /\ StreamHeld /\ Streams!PollBatch => StreamHeld'
<1> SUFFICES ASSUME StreamInv, StreamHeld, Streams!PollBatch PROVE StreamHeld'
  OBVIOUS
<1>1. adaptor = "batch"
  BY DEF Streams!PollBatch, Streams!Polled
<1>2. /\ own \in [err : Int] /\ out \in Seq(Int) /\ given \in Seq(Int)
      /\ out \o (IF own.err = 0 THEN <<>> ELSE <<own.err>>) = given
  BY <1>1 DEF StreamInv, StreamTypes, BatchInv, StreamHeld, BatchHeld
<1>3. SUFFICES /\ UNCHANGED adaptor
               /\ out' \o (IF own'.err = 0 THEN <<>> ELSE <<own'.err>>) = given'
  BY <1>1 DEF StreamHeld, SplitHeld, TimeoutHeld, CollectHeld, BatchHeld, PlainHeld
<1>4. CASE own.err # 0 /\ Streams!Answer("err", <<own.err>>, FALSE)
           /\ own' = [own EXCEPT !.err = 0] /\ Streams!DontAsk
  <2>1. out' = out \o <<own.err>> /\ UNCHANGED <<adaptor, given>>
    BY <1>4 DEF Streams!Answer, Streams!DontAsk
  <2>2. own'.err = 0
    BY <1>2, <1>4
  <2>3. given \o <<>> = given
    BY <1>2
  <2> QED BY <1>2, <1>4, <2>1, <2>2, <2>3
<1>5. ASSUME own.err = 0,
             NEW k \in 0..Limit, NEW r \in {"err", "end", "pending", "full"},
             Streams!AskFused(k, r),
             own' = [own EXCEPT !.err = IF r = "err" /\ k > 0
                                        THEN Streams!Last(given') ELSE 0],
             IF k > 0 THEN Streams!Answer("item", [i \in 1..k |-> Len(given) + i],
                                          r = "pending")
                      ELSE Streams!PassOn(r)
      PROVE  /\ UNCHANGED adaptor
             /\ out' \o (IF own'.err = 0 THEN <<>> ELSE <<own'.err>>) = given'
  <2>1. k \in Nat
    BY AsyncConstants
  <2>2. out = given
    <3>1. out \o <<>> = out
      BY <1>2
    <3> QED BY <1>2, <1>5, <3>1
  <2>3. own'.err = IF r = "err" /\ k > 0 THEN given'[Len(given')] ELSE 0
    BY <1>2, <1>5, StreamOperators
  <2>4. CASE k > 0
    <3> DEFINE m == [i \in 1..k |-> Len(given) + i]
               x == -((Len(given) + k) + 1)
    <3>1. Streams!Ask(k, r)
      <4>1. k # 0
        BY <2>1, <2>4
      <4> QED BY <1>5, <4>1 DEF Streams!AskFused
    <3>2. /\ given \o m \in Seq(Int) /\ x \in Int /\ x < 0
          /\ r = "err" => given' = (given \o m) \o <<x>>
          /\ r \notin {"item", "err"} => given' = given \o m
      BY <1>2, <2>1, <3>1, GivenExactly
    <3>3. out' = out \o m /\ UNCHANGED adaptor
      BY <1>5, <2>4 DEF Streams!Answer
    <3> HIDE DEF m, x
    <3>4. CASE r = "err"
      <4>1. \A s \in Seq(Int) : (s \o <<x>>)[Len(s \o <<x>>)] = x
        BY <3>2
      <4>2. own'.err = x
        BY <2>3, <2>4, <3>2, <3>4, <4>1
      <4>3. x # 0
        BY <3>2
      <4> QED BY <2>2, <3>2, <3>3, <3>4, <4>2, <4>3, Zenon
    <3>5. CASE r # "err"
      <4>1. \A s \in Seq(Int) : s \o <<>> = s
        OBVIOUS
      <4>2. own'.err = 0 /\ given' = given \o m
        BY <2>3, <3>2, <3>5
      <4> QED BY <2>2, <3>2, <3>3, <4>1, <4>2
    <3> QED BY <3>4, <3>5
  <2>5. CASE ~(k > 0)
    <3>1. k = 0 /\ Streams!PassOn(r) /\ own'.err = 0
      BY <1>5, <2>1, <2>3, <2>5
    <3>2. UNCHANGED adaptor /\ out' = given' /\ given' \in Seq(Int)
      <4>1. CASE ~over
        <5>1. Streams!Ask(0, r)
          BY <1>5, <3>1, <4>1 DEF Streams!AskFused
        <5>2. out' = out \o Got(r) /\ UNCHANGED adaptor
          BY <1>1, <3>1, <4>1, <5>1, PassedOn
        <5>3. given' = given \o Got(r) /\ Got(r) \in Seq(Int \ {0})
          BY <1>2, <5>1, GivenOne
        <5>4. Got(r) \in Seq(Int)
          BY <5>3
        <5> HIDE DEF Got
        <5> QED BY <1>2, <2>2, <5>2, <5>3, <5>4
      <4>2. CASE over
        <5>1. given' = given
          BY <1>5, <4>2 DEF Streams!AskFused
        <5>2. SubSeq(given', Len(given) + 1, Len(given')) = <<>>
          BY <1>2, <5>1
        <5>3. out' = out \o <<>> /\ UNCHANGED adaptor
          BY <3>1, <5>2 DEF Streams!PassOn, Streams!Answer
        <5> QED BY <1>2, <2>2, <5>1, <5>3, NoMore
      <4> QED BY <4>1, <4>2
    <3>3. given' \o <<>> = given'
      BY <3>2
    <3> QED BY <3>1, <3>2, <3>3
  <2> QED BY <2>4, <2>5
<1> QED BY <1>4, <1>5 DEF Streams!PollBatch

LEMMA CollectPollHeld == StreamInv /\ StreamHeld /\ Streams!PollCollect => StreamHeld'
<1> SUFFICES ASSUME StreamInv, StreamHeld, Streams!PollCollect PROVE StreamHeld'
  OBVIOUS
<1>1. adaptor = "collect" /\ ret \notin {"end", "err"}
  BY DEF Streams!PollCollect, Streams!Polled
<1>2. /\ given \in Seq(Int) /\ out = <<>> /\ own.items = given
      /\ Streams!ErrorsAt(given) = {}
  BY <1>1 DEF StreamInv, StreamTypes, StreamHeld, CollectHeld
<1>3. PICK k \in 0..MaxGiven, r \in {"err", "end", "pending"} :
         LET items == own.items \o [i \in 1..k |-> Len(given) + i]
         IN  /\ Streams!Ask(k, r)
             /\ own' = [items |-> IF r = "pending" THEN items ELSE <<>>]
             /\ Streams!Answer(r, Streams!Finished(items, r), r = "pending")
  BY DEF Streams!PollCollect
<1> DEFINE m == [i \in 1..k |-> Len(given) + i]
           items == given \o m
           x == -((Len(given) + k) + 1)
<1>4. k \in Nat
  BY AsyncConstants
<1>5. /\ items \in Seq(Int) /\ x \in Int /\ x < 0
      /\ \A i \in DOMAIN given : items[i] = given[i]
      /\ \A i \in DOMAIN items \ DOMAIN given : items[i] > 0
      /\ r = "err" => given' = items \o <<x>>
      /\ r \notin {"item", "err"} => given' = items
  BY <1>2, <1>3, <1>4, GivenExactly
<1>6. /\ own' = [items |-> IF r = "pending" THEN items ELSE <<>>]
      /\ ret' = r /\ out' = out \o Streams!Finished(items, r) /\ UNCHANGED adaptor
  BY <1>2, <1>3 DEF Streams!Answer
<1> HIDE DEF m, items, x
<1>7. Streams!ErrorsAt(items) = {}
  <2> SUFFICES ASSUME NEW i \in DOMAIN items PROVE ~(items[i] < 0)
    BY DEF Streams!ErrorsAt
  <2>1. CASE i \in DOMAIN given
    BY <1>2, <1>5, <2>1 DEF Streams!ErrorsAt
  <2>2. CASE i \notin DOMAIN given
    <3>1. items[i] \in Int /\ items[i] > 0
      BY <1>5, <2>2
    <3> QED BY <3>1
  <2> QED BY <2>1, <2>2
<1>8. SUFFICES CollectHeld'
  BY <1>1, <1>6 DEF StreamHeld, SplitHeld, TimeoutHeld, BatchHeld, PlainHeld
<1>9. \A s \in Seq(Int) : <<>> \o s = s
  OBVIOUS
<1>10. CASE r = "pending"
  <2>1. given' = items /\ own'.items = items /\ Streams!Finished(items, r) = <<>>
    BY <1>5, <1>6, <1>10 DEF Streams!Finished
  <2>2. <<>> \o <<>> = <<>>
    OBVIOUS
  <2> QED BY <1>2, <1>6, <1>7, <1>10, <2>1, <2>2 DEF CollectHeld
<1>11. CASE r = "end"
  <2>1. given' = items /\ own'.items = <<>> /\ Streams!Finished(items, r) = items
    BY <1>5, <1>6, <1>11 DEF Streams!Finished
  <2> QED BY <1>2, <1>5, <1>6, <1>9, <1>11, <2>1 DEF CollectHeld
<1>12. CASE r = "err"
  <2>1. given' = items \o <<x>>
    BY <1>5, <1>12
  <2>2. \A s \in Seq(Int) : /\ Len(s \o <<x>>) = Len(s) + 1
                            /\ (s \o <<x>>)[Len(s \o <<x>>)] = x
    BY <1>5
  <2>3. given'[Len(given')] = x /\ Len(given') = Len(items) + 1
    BY <1>5, <2>1, <2>2
  <2>4. Streams!Finished(items, r) = <<x>>
    BY <1>12, <2>3, StreamOperators DEF Streams!Finished
  <2>5. <<x>> \in Seq(Int)
    BY <1>5
  <2>6. out' = <<given'[Len(given')]>>
    BY <1>2, <1>6, <1>9, <2>3, <2>4, <2>5
  <2>7. Streams!ErrorsAt(given') = {Len(given')}
    BY <1>5, <1>7, <2>1, <2>3, ErrorsMore
  <2> QED BY <1>6, <1>12, <2>6, <2>7 DEF CollectHeld
<1> QED BY <1>10, <1>11, <1>12

\* One more member, at the end.
LEMMA OneMore ==
    ASSUME NEW S, NEW s \in Seq(S), NEW x \in S
    PROVE  /\ s \o <<x>> \in Seq(S) /\ Len(s \o <<x>>) = Len(s) + 1
           /\ DOMAIN (s \o <<x>>) = DOMAIN s \cup {Len(s) + 1}
           /\ Len(s) + 1 \notin DOMAIN s
           /\ \A i \in DOMAIN s : (s \o <<x>>)[i] = s[i] /\ i < Len(s) + 1
           /\ (s \o <<x>>)[Len(s) + 1] = x
           /\ Streams!Members(s \o <<x>>) = Streams!Members(s) \cup {x}
           /\ (/\ Streams!Increasing(s)
               /\ \A y \in Streams!Members(s) : y < x) => Streams!Increasing(s \o <<x>>)
<1> DEFINE t == s \o <<x>>
           n == Len(s)
<1>1. /\ t \in Seq(S) /\ Len(t) = n + 1 /\ n \in Nat
      /\ DOMAIN t = 1..n + 1 /\ DOMAIN s = 1..n
      /\ \A i \in 1..n : t[i] = s[i]
      /\ t[n + 1] = x
  OBVIOUS
<1> HIDE DEF t
<1>2. /\ 1..n + 1 = 1..n \cup {n + 1} /\ n + 1 \notin 1..n
      /\ \A i \in 1..n : i < n + 1 /\ ~(n + 1 < i)
      /\ ~(n + 1 < n + 1)
  BY <1>1
<1> HIDE DEF n
<1>3. Streams!Members(t) = Streams!Members(s) \cup {x}
  <2>1. \A y : y \in Streams!Members(t) <=> y \in Streams!Members(s) \cup {x}
    BY <1>1, <1>2, Zenon DEF Streams!Members
  <2> QED BY <2>1
<1>4. ASSUME Streams!Increasing(s), \A y \in Streams!Members(s) : y < x
      PROVE  Streams!Increasing(t)
  <2> SUFFICES ASSUME NEW i \in DOMAIN t, NEW j \in DOMAIN t, i < j
               PROVE  t[i] < t[j]
    BY DEF Streams!Increasing
  <2>1. i \in 1..n
    BY <1>1, <1>2
  <2>2. CASE j \in 1..n
    BY <1>1, <1>4, <2>1, <2>2 DEF Streams!Increasing
  <2>3. CASE j = n + 1
    <3>1. s[i] \in Streams!Members(s)
      BY <1>1, <2>1 DEF Streams!Members
    <3> QED BY <1>1, <1>4, <2>1, <2>3, <3>1
  <2> QED BY <1>1, <1>2, <2>2, <2>3
<1> QED BY <1>1, <1>2, <1>3, <1>4 DEF t, n

LEMMA SplitPollHeld == StreamInv /\ StreamHeld /\ Streams!PollSplitErr => StreamHeld'
<1> SUFFICES ASSUME StreamInv, StreamHeld, Streams!PollSplitErr PROVE StreamHeld'
  OBVIOUS
<1>1. adaptor = "split_err" /\ adaptor \notin Streams!Fusing
  BY DEF Streams!PollSplitErr, Streams!Polled, Streams!Fusing
<1>2. PICK r \in Streams!Replies :
         /\ Streams!Ask(0, r)
         /\ IF r = "err" THEN Streams!Answer("pending", <<>>, FALSE)
                         ELSE Streams!PassOn(r)
         /\ own' = IF r = "err" /\ own.tx
                   THEN [tx |-> FALSE, err |-> Streams!Last(given')] ELSE own
  BY DEF Streams!PollSplitErr
<1>3. /\ given \in Seq(Int) /\ out \in Seq(Int)
      /\ own \in [tx : BOOLEAN, err : Int]
      /\ IF own.tx THEN own.err = 0 /\ Streams!ErrorsAt(given) = {}
                   ELSE FirstError(own.err, given)
      /\ \A i \in DOMAIN given : given[i] \in {i, -i}
      /\ Streams!Increasing(out)
      /\ Streams!Members(out) = {x \in Streams!Members(given) : x > 0}
  BY <1>1 DEF StreamInv, StreamTypes, StreamHeld, SplitHeld
<1>4. given' = given \o Got(r)
  BY <1>2, <1>3, GivenOne
<1>5. UNCHANGED adaptor /\ out' = out \o (IF r = "err" THEN <<>> ELSE Got(r))
  <2>1. CASE r = "err"
    BY <1>2, <2>1 DEF Streams!Answer
  <2>2. CASE r # "err"
    BY <1>1, <1>2, <2>2, PassedOn
  <2> QED BY <2>1, <2>2
<1> DEFINE n == Len(given)
<1>6. n \in Nat /\ DOMAIN given = 1..n
  BY <1>3
<1>7. Streams!Members(given) \subseteq Int /\ \A x \in Streams!Members(given) : x <= n
  BY <1>3, <1>6 DEF Streams!Members
<1>8. SUFFICES SplitHeld'
  BY <1>1, <1>5 DEF StreamHeld, TimeoutHeld, CollectHeld, BatchHeld, PlainHeld
<1>9. CASE r \notin {"item", "err"}
  <2>1. Got(r) = <<>> /\ own' = own
    BY <1>2, <1>9 DEF Got
  <2>2. given' = given /\ out' = out
    BY <1>3, <1>4, <1>5, <1>9, <2>1
  <2> QED BY <1>3, <2>1, <2>2 DEF SplitHeld
<1>10. CASE r = "item"
  <2> DEFINE x == n + 1
  <2>1. given' = given \o <<x>> /\ out' = out \o <<x>> /\ own' = own
    BY <1>2, <1>4, <1>5, <1>10 DEF Got
  <2>2. x \in Int /\ x > 0 /\ ~(x < 0) /\ x = n + 1
    BY <1>6
  <2> HIDE DEF x, n
  <2>3. /\ DOMAIN given' = DOMAIN given \cup {n + 1}
        /\ \A i \in DOMAIN given : given'[i] = given[i] /\ i < n + 1
        /\ given'[n + 1] = x
        /\ Streams!Members(given') = Streams!Members(given) \cup {x}
    <3>1. given' = given \o <<x>> /\ given \in Seq(Int) /\ x \in Int
      BY <1>3, <2>1, <2>2
    <3> QED BY <3>1, OneMore DEF n
  <2>4. \A i \in DOMAIN given' : given'[i] \in {i, -i}
    BY <1>3, <2>2, <2>3
  <2>5. Streams!ErrorsAt(given') = Streams!ErrorsAt(given)
    BY <1>3, <2>1, <2>2, ErrorsMore
  <2>6. Streams!ErrorsAt(given) \subseteq DOMAIN given
    BY DEF Streams!ErrorsAt
  <2>7. FirstError(own.err, given) => FirstError(own.err, given')
    BY <2>3, <2>5, <2>6 DEF FirstError
  <2>8. \A y \in Streams!Members(out) : y < x
    BY <1>3, <1>6, <1>7, <2>2
  <2>9. Streams!Increasing(out') /\ Streams!Members(out') = Streams!Members(out) \cup {x}
    BY <1>3, <2>1, <2>2, <2>8, OneMore
  <2>10. Streams!Members(out') = {y \in Streams!Members(given') : y > 0}
    BY <1>3, <2>2, <2>3, <2>9
  <2> QED BY <1>3, <2>1, <2>4, <2>5, <2>7, <2>9, <2>10 DEF SplitHeld
<1>11. CASE r = "err"
  <2> DEFINE x == -(n + 1)
  <2>1. given' = given \o <<x>>
    BY <1>4, <1>11 DEF Got
  <2>2. x \in Int /\ x < 0 /\ ~(x > 0) /\ x = -(n + 1)
    BY <1>6
  <2>3. out' = out
    BY <1>3, <1>5, <1>11
  <2> HIDE DEF x, n
  <2>4. /\ DOMAIN given' = DOMAIN given \cup {n + 1} /\ Len(given') = n + 1
        /\ \A i \in DOMAIN given : given'[i] = given[i] /\ i < n + 1
        /\ given'[n + 1] = x
        /\ Streams!Members(given') = Streams!Members(given) \cup {x}
    BY <1>3, <2>1, <2>2, OneMore, SMTT(20) DEF n
  <2>5. \A i \in DOMAIN given' : given'[i] \in {i, -i}
    BY <1>3, <2>2, <2>4
  <2>6. Streams!ErrorsAt(given') = Streams!ErrorsAt(given) \cup {n + 1}
    BY <1>3, <2>1, <2>2, ErrorsMore DEF n
  <2>7. Streams!ErrorsAt(given) \subseteq DOMAIN given
    BY DEF Streams!ErrorsAt
  <2>8. Streams!Members(out') = {y \in Streams!Members(given') : y > 0}
    BY <1>3, <2>2, <2>3, <2>4
  <2>9. CASE own.tx
    <3>1. own' = [tx |-> FALSE, err |-> x]
      BY <1>2, <1>11, <2>4, <2>9, StreamOperators
    <3>2. own' \in [tx : BOOLEAN, err : Int] /\ ~own'.tx /\ own'.err = x
      BY <2>2, <3>1
    <3>3. FirstError(x, given')
      <4>1. Streams!ErrorsAt(given') = {n + 1}
        BY <1>3, <2>6, <2>9
      <4>2. n + 1 <= n + 1
        BY <1>6
      <4> QED BY <2>4, <4>1, <4>2 DEF FirstError
    <3> QED BY <1>3, <2>3, <2>5, <2>8, <3>2, <3>3 DEF SplitHeld
  <2>10. CASE ~own.tx
    <3>1. own' = own
      BY <1>2, <2>10
    <3>2. PICK i \in Streams!ErrorsAt(given) :
             own.err = given[i] /\ \A j \in Streams!ErrorsAt(given) : i <= j
      BY <1>3, <2>10 DEF FirstError
    <3>3. i \in DOMAIN given /\ given'[i] = given[i] /\ i <= n + 1
      BY <1>6, <2>4, <2>7, <3>2
    <3>4. FirstError(own.err, given')
      BY <2>6, <3>2, <3>3 DEF FirstError
    <3> QED BY <1>3, <2>3, <2>5, <2>8, <2>10, <3>1, <3>4 DEF SplitHeld
  <2> QED BY <1>3, <2>9, <2>10
<1> QED BY <1>9, <1>10, <1>11

LEMMA StreamDelivers == StreamInv /\ StreamHeld /\ Streams!Next => StreamHeld'
BY EnumerateHeld, BatchPollHeld, RemainderHeld, AsideHeld, SplitPollHeld,
   TimeoutPollHeld, YieldHeld, TimedHeld, CollectPollHeld DEF Streams!Next

-----------------------------------------------------------------------------
(* What the bounded queues deliver.                                          *)

\* The futures are numbered; results come out in that order, and so do those
\* of futures 0.1 but for the errors, which overtake.
InOrder == flavour # "v01" =>
    /\ Len(yielded) + Len(queue) = taken
    /\ \A i \in DOMAIN yielded : yielded[i] = i
    /\ \A i \in DOMAIN queue : queue[i].n = Len(yielded) + i

Overtaken == flavour = "v01" =>
    /\ \A i \in DOMAIN queue : queue[i].n \in 1..taken
    /\ \A i, j \in DOMAIN queue : i < j => queue[i].n < queue[j].n
    /\ \A i \in DOMAIN yielded : /\ yielded[i] <= taken
                                 /\ \A j \in DOMAIN queue : yielded[i] < queue[j].n
    /\ \A i, j \in DOMAIN yielded :
          i < j /\ yielded[i] > 0 /\ yielded[j] > 0 => yielded[i] < yielded[j]
    /\ \A n \in 1..taken : \/ \E i \in DOMAIN yielded : yielded[i] \in {n, -n}
                           \/ \E i \in DOMAIN queue : queue[i].n = n

\* Nothing comes out from behind a failed future of futures 0.1.
Behind == gap \in Nat /\ (gap # 0 => \A i \in DOMAIN yielded : yielded[i] < gap)

WithinLimit == current_weight > WeightLimit =>
    \E w \in Weights : current_weight < WeightLimit + w

QueueHeld ==
    /\ flavour \in Weighted!Flavours
    /\ yielded \in Seq(Int)
    /\ \A i \in DOMAIN queue : queue[i].weight >= 0
    /\ InOrder /\ Overtaken /\ Behind /\ WithinLimit
    /\ answer = "end" => pc = "dead" /\ ended /\ queue = <<>>

LEMMA QueueHeldStart == Weighted!Init => QueueHeld
<1> SUFFICES ASSUME Weighted!Init PROVE QueueHeld
  OBVIOUS
<1>1. /\ queue = <<>> /\ yielded = <<>> /\ taken = 0 /\ current_weight = 0
      /\ flavour \in Weighted!Flavours /\ gap = 0
      /\ answer = "new" /\ DOMAIN queue = {} /\ DOMAIN yielded = {}
      /\ Len(yielded) = 0 /\ Len(queue) = 0 /\ yielded \in Seq(Int)
  BY DEF Weighted!Init
<1>2. 1..taken = {} /\ ~(current_weight > WeightLimit) /\ 0 + 0 = taken
  BY <1>1, AsyncConstants
<1>3. InOrder /\ Overtaken /\ Behind /\ WithinLimit
  BY <1>1, <1>2 DEF InOrder, Overtaken, Behind, WithinLimit
<1> QED BY <1>1, <1>3 DEF QueueHeld

\* The partial sums of the queue's weights give its weight.
LEMMA SumsWeight ==
    ASSUME NEW q \in Seq(Queued), NEW S, NEW from \in Int, Sums(S, q, from)
    PROVE  S[Len(q)] = Weighted!Weight(q) + from
<1> DEFINE n == Len(q)
           Rec(f) == f = [k \in 0..n |-> IF k = 0 THEN 0 ELSE f[k - 1] + q[k].weight]
           g == [k \in 0..n |-> S[k] - from]
<1>1. n \in Nat /\ \A k \in 1..n : q[k].weight \in Int
  <2>1. n \in Nat /\ \A k \in 1..n : q[k] \in Queued
    OBVIOUS
  <2>2. \A f \in Queued : f.weight \in Int
    BY DEF Queued
  <2> QED BY <2>1, <2>2
<1>2. /\ S \in [0..n -> Int] /\ S[0] = from
      /\ \A i \in 1..n : S[i] = S[i - 1] + q[i].weight
  BY DEF Sums
<1> HIDE DEF n
<1>3. Rec(g)
  <2>1. \A k \in 0..n : g[k] = IF k = 0 THEN 0 ELSE g[k - 1] + q[k].weight
    <3> TAKE k \in 0..n
    <3>1. CASE k = 0
      BY <1>2, <3>1
    <3>2. CASE k # 0
      <4>1. k \in 1..n /\ k - 1 \in 0..n
        BY <1>1, <3>2
      <4>2. S[k] = S[k - 1] + q[k].weight /\ S[k - 1] \in Int /\ q[k].weight \in Int
        BY <1>1, <1>2, <4>1
      <4>3. g[k] = S[k] - from /\ g[k - 1] = S[k - 1] - from
        BY <4>1
      <4> HIDE DEF g
      <4> QED BY <3>2, <4>2, <4>3
    <3> QED BY <3>1, <3>2
  <2> QED BY <2>1
<1> DEFINE h == CHOOSE f : Rec(f)
<1>4. Rec(h)
  BY <1>3
<1>5. Weighted!Weight(q) = h[n]
  BY DEF Weighted!Weight, n
<1>6. \A k \in 0..n : h[k] = IF k = 0 THEN 0 ELSE h[k - 1] + q[k].weight
  <2> HIDE DEF h
  <2> QED BY <1>4
<1> HIDE DEF h, g, Rec
<1> DEFINE Bad == {k \in Nat : k <= n /\ ~(h[k] \in Int /\ h[k] + from = S[k])}
<1>7. Bad = {}
  <2>1. SUFFICES ASSUME Bad # {} PROVE FALSE
    OBVIOUS
  <2>2. PICK k \in Bad : \A j \in Bad : k <= j
    <3> Bad \in SUBSET Nat
      OBVIOUS
    <3> HIDE DEF Bad
    <3> QED BY <2>1, SmallestNat
  <2>3. k \in 0..n /\ ~(h[k] \in Int /\ h[k] + from = S[k])
    BY <1>1, <2>2
  <2>4. k # 0
    BY <1>2, <1>6, <2>3
  <2>5. k \in 1..n /\ k - 1 \in 0..n /\ k - 1 \in Nat /\ k - 1 <= n /\ k - 1 < k
    BY <1>1, <2>3, <2>4
  <2>6. h[k - 1] \in Int /\ h[k - 1] + from = S[k - 1]
    <3>1. k - 1 \notin Bad
      <4> HIDE DEF Bad
      <4> QED BY <1>1, <2>2, <2>5
    <3> QED BY <2>5, <3>1
  <2>7. h[k] = h[k - 1] + q[k].weight /\ S[k] = S[k - 1] + q[k].weight
    BY <1>2, <1>6, <2>4, <2>3, <2>5
  <2>8. S[k - 1] \in Int /\ q[k].weight \in Int
    BY <1>1, <1>2, <2>5
  <2> QED BY <2>3, <2>6, <2>7, <2>8
<1>8. n \in Nat /\ n <= n
  BY <1>1
<1>9. h[n] + from = S[n]
  BY <1>7, <1>8
<1> QED BY <1>5, <1>9 DEF n

LEMMA QueueHeldImplies == WeightInv /\ QueueHeld => Weighted!QueueBalanced
<1> SUFFICES ASSUME WeightInv, QueueHeld PROVE Weighted!QueueBalanced
  OBVIOUS
<1>1. /\ queue \in Seq(Queued) /\ leaked \in Int /\ taken \in Nat
      /\ yielded \in Seq(Int) /\ Books
  BY DEF WeightInv, WeightTypes, QueueHeld
<1>2. current_weight = Weighted!Weight(queue) + leaked
  BY <1>1, SumsWeight DEF Books
<1>3. ASSUME flavour # "v01"
      PROVE  yielded \o [i \in DOMAIN queue |-> queue[i].n] = [i \in 1..taken |-> i]
  <2> DEFINE q == [i \in DOMAIN queue |-> queue[i].n]
             y == Len(yielded)
  <2>1. /\ y + Len(queue) = taken
        /\ \A i \in DOMAIN yielded : yielded[i] = i
        /\ \A i \in DOMAIN queue : queue[i].n = y + i
    BY <1>3 DEF QueueHeld, InOrder
  <2>2. y \in Nat /\ Len(queue) \in Nat /\ DOMAIN queue = 1..Len(queue)
        /\ DOMAIN yielded = 1..y
    BY <1>1
  <2>3. q \in Seq(Int) /\ Len(q) = Len(queue) /\ \A i \in 1..Len(queue) : q[i] = y + i
    <3>1. \A i \in 1..Len(queue) : queue[i].n \in Int
      BY <2>1, <2>2
    <3> QED BY <2>1, <2>2, <3>1
  <2> HIDE DEF q
  <2>4. /\ DOMAIN (yielded \o q) = 1..y + Len(queue)
        /\ \A i \in 1..y + Len(queue) :
              (yielded \o q)[i] = IF i <= y THEN yielded[i] ELSE q[i - y]
        /\ yielded \o q \in Seq(Int)
    BY <1>1, <2>2, <2>3, SMTT(20)
  <2>5. \A i \in 1..taken : (yielded \o q)[i] = i
    <3> TAKE i \in 1..taken
    <3>1. CASE i <= y
      BY <1>1, <2>1, <2>2, <2>4, <3>1
    <3>2. CASE ~(i <= y)
      <4>1. i - y \in 1..Len(queue) /\ y + (i - y) = i
        BY <1>1, <2>1, <2>2, <3>2
      <4> QED BY <2>1, <2>3, <2>4, <3>2, <4>1
    <3> QED BY <3>1, <3>2
  <2>6. \A s \in Seq(Int) : DOMAIN s = 1..taken => s = [i \in 1..taken |-> s[i]]
    OBVIOUS
  <2>7. yielded \o q = [i \in 1..taken |-> (yielded \o q)[i]]
    BY <2>1, <2>4, <2>6
  <2> QED BY <2>5, <2>7 DEF q
<1> QED BY <1>2, <1>3 
        DEF Weighted!QueueBalanced, QueueHeld, Overtaken, Behind, WithinLimit

LEMMA QueueDelivers == WeightInv /\ QueueHeld /\ Weighted!Next => QueueHeld'
<1> SUFFICES ASSUME WeightInv, QueueHeld, Weighted!Next PROVE QueueHeld'
  OBVIOUS
<1>1. /\ queue \in Seq(Queued) /\ taken \in Nat /\ current_weight \in Int
      /\ yielded \in Seq(Int) /\ \A i \in DOMAIN queue : queue[i].weight >= 0
      /\ DOMAIN queue = 1..Len(queue) /\ DOMAIN yielded = 1..Len(yielded)
      /\ Len(queue) \in Nat /\ Len(yielded) \in Nat
  BY DEF WeightInv, WeightTypes, QueueHeld
<1>2. flavour \in Weighted!Flavours /\ InOrder /\ Overtaken /\ Behind /\ WithinLimit
      /\ (answer = "end" => pc = "dead" /\ ended /\ queue = <<>>)
  BY DEF QueueHeld
\* A future, or an error in its place, joins the end of the queue.
<1>3. ASSUME NEW f \in Queued, f.n = taken + 1, f.weight >= 0,
             queue' = Append(queue, f), taken' = taken + 1,
             UNCHANGED <<yielded, flavour, answer, pc, gap>>, pc = "fill",
             WithinLimit'
      PROVE  QueueHeld'
  <2>1. /\ Len(queue') = Len(queue) + 1 /\ DOMAIN queue' = 1..Len(queue) + 1
        /\ queue'[Len(queue) + 1] = f
        /\ \A i \in 1..Len(queue) : queue'[i] = queue[i]
    BY <1>1, <1>3
  <2>2. \A i \in 1..Len(queue) + 1 : i \in 1..Len(queue) \/ i = Len(queue) + 1
    BY <1>1
  <2>3. \A i \in DOMAIN queue' : queue'[i].weight >= 0
    BY <1>1, <1>3, <2>1, <2>2
  <2>4. InOrder'
    <3> SUFFICES ASSUME flavour # "v01" PROVE InOrder'
      BY <1>3 DEF InOrder
    <3>1. /\ Len(yielded) + Len(queue) = taken
          /\ \A i \in DOMAIN yielded : yielded[i] = i
          /\ \A i \in DOMAIN queue : queue[i].n = Len(yielded) + i
      BY <1>2 DEF InOrder
    <3>2. Len(yielded) + (Len(queue) + 1) = taken + 1
      <4>1. \A a, b \in Nat : a + (b + 1) = (a + b) + 1
        OBVIOUS
      <4> QED BY <1>1, <3>1, <4>1, Zenon
    <3>3. \A i \in DOMAIN queue' : queue'[i].n = Len(yielded) + i
      BY <1>1, <1>3, <2>1, <2>2, <3>1, <3>2
    <3> QED BY <1>3, <2>1, <3>1, <3>2, <3>3 DEF InOrder
  <2>5. Overtaken'
    <3> SUFFICES ASSUME flavour = "v01" PROVE Overtaken'
      BY <1>3 DEF Overtaken
    <3>1. /\ \A i \in DOMAIN queue : queue[i].n \in 1..taken
          /\ \A i, j \in DOMAIN queue : i < j => queue[i].n < queue[j].n
      BY <1>2 DEF Overtaken
    <3>2. \A i \in DOMAIN yielded : /\ yielded[i] <= taken
                                    /\ \A j \in DOMAIN queue : yielded[i] < queue[j].n
      BY <1>2 DEF Overtaken
    <3>3. \A n \in 1..taken : \/ \E i \in DOMAIN yielded : yielded[i] \in {n, -n}
                              \/ \E i \in DOMAIN queue : queue[i].n = n
      BY <1>2 DEF Overtaken
    <3>4. \A i \in DOMAIN queue' : queue'[i].n \in 1..taken'
      BY <1>1, <1>3, <2>1, <2>2, <3>1
    <3>5. \A i, j \in DOMAIN queue' : i < j => queue'[i].n < queue'[j].n
      <4> SUFFICES ASSUME NEW i \in DOMAIN queue', NEW j \in DOMAIN queue', i < j
                   PROVE  queue'[i].n < queue'[j].n
        OBVIOUS
      <4>1. i \in 1..Len(queue)
        BY <1>1, <2>1
      <4>2. CASE j \in 1..Len(queue)
        BY <1>1, <2>1, <3>1, <4>1, <4>2
      <4>3. CASE j = Len(queue) + 1
        <5>1. queue[i].n \in 1..taken
          BY <1>1, <3>1, <4>1
        <5> QED BY <1>1, <1>3, <2>1, <4>1, <4>3, <5>1
      <4> QED BY <2>1, <2>2, <4>2, <4>3
    <3>6. \A i \in DOMAIN yielded' :
             /\ yielded'[i] <= taken'
             /\ \A j \in DOMAIN queue' : yielded'[i] < queue'[j].n
      <4> SUFFICES ASSUME NEW i \in DOMAIN yielded
                   PROVE  /\ yielded[i] <= taken + 1
                          /\ \A j \in DOMAIN queue' : yielded[i] < queue'[j].n
        BY <1>3
      <4>1. yielded[i] \in Int /\ yielded[i] <= taken
        BY <1>1, <3>2
      <4>2. yielded[i] < taken + 1 /\ yielded[i] <= taken + 1
        BY <1>1, <4>1
      <4> QED BY <1>1, <1>3, <2>1, <2>2, <3>2, <4>2
    <3>7. \A n \in 1..taken' : \/ \E i \in DOMAIN yielded' : yielded'[i] \in {n, -n}
                               \/ \E i \in DOMAIN queue' : queue'[i].n = n
      <4> SUFFICES ASSUME NEW n \in 1..taken + 1
                   PROVE  \/ \E i \in DOMAIN yielded : yielded[i] \in {n, -n}
                          \/ \E i \in DOMAIN queue' : queue'[i].n = n
        BY <1>3
      <4>1. CASE n = taken + 1
        <5>1. Len(queue) + 1 \in DOMAIN queue'
          BY <1>1, <2>1
        <5> QED BY <1>3, <2>1, <4>1, <5>1
      <4>2. CASE n \in 1..taken
        <5>1. \A i \in DOMAIN queue : i \in DOMAIN queue' /\ queue'[i] = queue[i]
          BY <1>1, <2>1
        <5> QED BY <3>3, <4>2, <5>1
      <4> QED BY <1>1, <4>1, <4>2
    <3> QED BY <1>2, <1>3, <3>4, <3>5, <3>6, <3>7 DEF Overtaken
  <2>6. yielded' \in Seq(Int) /\ answer' # "end" /\ Behind'
    BY <1>1, <1>2, <1>3 DEF Behind
  <2> QED BY <1>3, <2>3, <2>4, <2>5, <2>6 DEF QueueHeld
<1>4. CASE \E w \in Weights : Weighted!FillItem(w)
  <2> PICK w \in Weights : Weighted!FillItem(w)
    BY <1>4
  <2> DEFINE f == [n |-> taken + 1, weight |-> w, state |-> "running"]
  <2>1. f \in Queued /\ f.weight = w /\ f.n = taken + 1 /\ w \in Int /\ w >= 0
    BY <1>1, AsyncConstants DEF Queued
  <2> HIDE DEF f
  <2>2. /\ queue' = Append(queue, f) /\ taken' = taken + 1 /\ pc = "fill"
        /\ current_weight' = current_weight + w /\ current_weight < WeightLimit
        /\ UNCHANGED <<yielded, flavour, answer, pc, gap>>
    BY DEF Weighted!FillItem, Weighted!Room, f
  <2>3. WithinLimit'
    <3>1. current_weight' < WeightLimit + w
      BY <1>1, <2>1, <2>2, AsyncConstants
    <3> QED BY <3>1 DEF WithinLimit
  <2> QED BY <1>3, <2>1, <2>2, <2>3
<1>5. CASE Weighted!FillError /\ flavour = "try"
  <2> DEFINE f == [n |-> taken + 1, weight |-> 0, state |-> "err"]
  <2>1. f \in Queued /\ f.weight >= 0 /\ f.n = taken + 1
    BY <1>1 DEF Queued
  <2> HIDE DEF f
  <2>2. /\ queue' = Append(queue, f) /\ taken' = taken + 1 /\ pc = "fill"
        /\ UNCHANGED <<yielded, flavour, answer, pc, gap, current_weight>>
    BY <1>5 DEF Weighted!FillError, f
  <2>3. WithinLimit'
    BY <1>2, <2>2 DEF WithinLimit
  <2> QED BY <1>3, <2>1, <2>2, <2>3
\* In futures 0.1 an error of the stream does not join the queue.
<1>6. CASE Weighted!FillError /\ flavour # "try"
  <2>1. /\ flavour # "stream" /\ taken' = taken + 1 /\ answer' = "err"
        /\ yielded' = Append(yielded, -(taken + 1))
        /\ UNCHANGED <<queue, flavour, current_weight, gap>>
    BY <1>6 DEF Weighted!FillError
  <2> DEFINE e == -(taken + 1)
             m == Len(yielded)
  <2>2. e \in Int /\ e < 0 /\ ~(e > 0) /\ e <= taken + 1 /\ e = -(taken + 1)
    BY <1>1
  <2>3. yielded' = Append(yielded, e)
    BY <2>1
  <2> HIDE DEF e
  <2>4. /\ yielded' \in Seq(Int) /\ DOMAIN yielded' = 1..m + 1 /\ yielded'[m + 1] = e
        /\ \A i \in 1..m : yielded'[i] = yielded[i]
        /\ \A i \in 1..m + 1 : i \in 1..m \/ i = m + 1
    BY <1>1, <2>2, <2>3
  <2>5. ASSUME flavour = "v01" PROVE Overtaken'
    <3>1. /\ \A i \in DOMAIN queue : queue[i].n \in 1..taken
          /\ \A i, j \in DOMAIN queue : i < j => queue[i].n < queue[j].n
      BY <1>2, <2>5 DEF Overtaken
    <3>2. \A i \in DOMAIN yielded : /\ yielded[i] <= taken
                                    /\ \A j \in DOMAIN queue : yielded[i] < queue[j].n
      BY <1>2, <2>5 DEF Overtaken
    <3>3. \A n \in 1..taken : \/ \E i \in DOMAIN yielded : yielded[i] \in {n, -n}
                              \/ \E i \in DOMAIN queue : queue[i].n = n
      BY <1>2, <2>5 DEF Overtaken
    <3>4. \A i \in DOMAIN queue' : queue'[i].n \in 1..taken'
      <4>1. \A n \in 1..taken : n \in 1..taken + 1
        BY <1>1
      <4> QED BY <2>1, <3>1, <4>1
    <3>5. \A i, j \in DOMAIN queue' : i < j => queue'[i].n < queue'[j].n
      BY <2>1, <3>1
    <3>6. \A i \in DOMAIN yielded' :
             /\ yielded'[i] <= taken'
             /\ \A j \in DOMAIN queue' : yielded'[i] < queue'[j].n
      <4> SUFFICES ASSUME NEW i \in 1..m + 1
                   PROVE  /\ yielded'[i] <= taken + 1
                          /\ \A j \in DOMAIN queue : yielded'[i] < queue[j].n
        BY <2>1, <2>4
      <4>1. CASE i \in 1..m
        <5>1. yielded[i] \in Int /\ yielded[i] <= taken
          BY <1>1, <3>2, <4>1, SMTT(20)
        <5>2. yielded[i] <= taken + 1
          BY <1>1, <5>1
        <5> QED BY <1>1, <2>4, <3>2, <4>1, <5>2
      <4>2. CASE i = m + 1
        <5>1. \A n \in 1..taken : e < n
          BY <1>1, <2>2
        <5> QED BY <2>2, <2>4, <3>1, <4>2, <5>1
      <4> QED BY <2>4, <4>1, <4>2
    <3>7. \A i, j \in DOMAIN yielded' :
             i < j /\ yielded'[i] > 0 /\ yielded'[j] > 0 => yielded'[i] < yielded'[j]
      <4>1. \A i, j \in 1..m : i < j /\ yielded[i] > 0 /\ yielded[j] > 0
                                  => yielded[i] < yielded[j]
        BY <1>1, <1>2, <2>5 DEF Overtaken
      <4> QED BY <2>2, <2>4, <4>1
    <3>8. \A n \in 1..taken' : \/ \E i \in DOMAIN yielded' : yielded'[i] \in {n, -n}
                               \/ \E i \in DOMAIN queue' : queue'[i].n = n
      <4> SUFFICES ASSUME NEW n \in 1..taken + 1
                   PROVE  \/ \E i \in DOMAIN yielded' : yielded'[i] \in {n, -n}
                          \/ \E i \in DOMAIN queue : queue[i].n = n
        BY <2>1
      <4>1. CASE n = taken + 1
        <5>1. m + 1 \in DOMAIN yielded' /\ yielded'[m + 1] = -n
          BY <1>1, <2>2, <2>4, <4>1
        <5> QED BY <5>1
      <4>2. CASE n \in 1..taken
        <5>1. \A i \in DOMAIN yielded : i \in DOMAIN yielded' /\ yielded'[i] = yielded[i]
          BY <1>1, <2>4
        <5> QED BY <3>3, <4>2, <5>1
      <4> QED BY <1>1, <4>1, <4>2
    <3> QED BY <3>4, <3>5, <3>6, <3>7, <3>8 DEF Overtaken
  <2>6. flavour = "v01"
    BY <1>2, <1>6, <2>1 DEF Weighted!Flavours
  <2>7. InOrder' /\ WithinLimit'
    BY <1>2, <2>1, <2>6 DEF InOrder, WithinLimit
  <2>8. Behind'
    <3>1. gap \in Nat /\ (gap # 0 => \A i \in 1..m : yielded[i] < gap)
      BY <1>1, <1>2 DEF Behind
    <3>2. gap # 0 => e < gap
      BY <2>2, <3>1
    <3> QED BY <2>1, <2>4, <3>1, <3>2 DEF Behind
  <2> QED BY <1>1, <2>1, <2>4, <2>5, <2>6, <2>7, <2>8 DEF QueueHeld
\* The first future of the queue comes out.
<1>7. CASE Weighted!QueueItem
  <2> DEFINE f == Head(queue)
             m == Len(yielded)
             k == Len(queue)
  <2>1. /\ queue # <<>> /\ queue' = Tail(queue) /\ yielded' = Append(yielded, f.n)
        /\ answer' # "end" /\ UNCHANGED <<flavour, taken, gap>>
        /\ current_weight' = current_weight - f.weight
        /\ gap # 0 => ~(f.n >= gap)
    BY <1>7 DEF Weighted!QueueItem, Weighted!Ready, Weighted!Stuck
  <2>2. /\ f \in Queued /\ f = queue[1] /\ k \in Nat \ {0} /\ 1 \in 1..k
        /\ DOMAIN queue' = 1..k - 1 /\ Len(queue') = k - 1
        /\ \A i \in 1..k - 1 : queue'[i] = queue[i + 1] /\ i + 1 \in 1..k
    BY <1>1, <2>1
  <2>3. f.n \in Int /\ f.weight \in Int /\ f.weight >= 0
    <3>1. f.n \in Int /\ f.weight \in Int
      BY <2>2 DEF Queued
    <3> QED BY <1>1, <2>2, <3>1
  <2> HIDE DEF f, k
  <2>4. /\ yielded' \in Seq(Int) /\ DOMAIN yielded' = 1..m + 1 /\ Len(yielded') = m + 1
        /\ yielded'[m + 1] = f.n
        /\ \A i \in 1..m : yielded'[i] = yielded[i]
        /\ \A i \in 1..m + 1 : i \in 1..m \/ i = m + 1
    BY <1>1, <2>1, <2>3
  <2> HIDE DEF m
  <2>5. DOMAIN queue = 1..k /\ DOMAIN yielded = 1..m /\ m \in Nat
    BY <1>1 DEF k, m
  <2>6. \A i \in DOMAIN queue' : queue'[i].weight >= 0
    BY <1>1, <2>2, <2>5
  <2>7. WithinLimit'
    <3> SUFFICES ASSUME current_weight' > WeightLimit
                 PROVE  \E w \in Weights : current_weight' < WeightLimit + w
      BY DEF WithinLimit
    <3>1. current_weight' \in Int /\ current_weight' <= current_weight /\ WeightLimit \in Int
      BY <1>1, <2>1, <2>3, AsyncConstants, SMTT(20)
    <3>2. PICK w \in Weights : current_weight < WeightLimit + w
      BY <1>1, <1>2, <3>1 DEF WithinLimit
    <3>3. current_weight' < WeightLimit + w
      BY <1>1, <3>1, <3>2, AsyncConstants, SMTT(20)
    <3> QED BY <3>3
  <2>8. InOrder'
    <3> SUFFICES ASSUME flavour # "v01" PROVE InOrder'
      BY <2>1 DEF InOrder
    <3>1. /\ m + k = taken
          /\ \A i \in 1..m : yielded[i] = i
          /\ \A i \in 1..k : queue[i].n = m + i
      BY <1>2, <2>5 DEF InOrder, m, k
    <3>2. f.n = m + 1
      BY <2>2, <3>1
    <3>3. \A i \in 1..m + 1 : yielded'[i] = i
      BY <2>4, <3>1, <3>2
    <3>4. \A i \in 1..k - 1 : queue'[i].n = (m + 1) + i
      <4> TAKE i \in 1..k - 1
      <4>1. queue'[i].n = m + (i + 1)
        BY <2>2, <3>1, SMTT(20)
      <4> QED BY <2>2, <2>5, <4>1
    <3>5. (m + 1) + (k - 1) = taken
      BY <2>2, <2>5, <3>1
    <3> QED BY <2>1, <2>2, <2>4, <3>3, <3>4, <3>5 DEF InOrder
  <2>9. Overtaken'
    <3> SUFFICES ASSUME flavour = "v01" PROVE Overtaken'
      BY <2>1 DEF Overtaken
    <3>1. /\ \A i \in 1..k : queue[i].n \in 1..taken
          /\ \A i, j \in 1..k : i < j => queue[i].n < queue[j].n
      BY <1>2, <2>5 DEF Overtaken
    <3>2. \A i \in 1..m : yielded[i] <= taken /\ \A j \in 1..k : yielded[i] < queue[j].n
      BY <1>2, <2>5 DEF Overtaken
    <3>3. \A i, j \in 1..m : i < j /\ yielded[i] > 0 /\ yielded[j] > 0
                                => yielded[i] < yielded[j]
      BY <1>2, <2>5 DEF Overtaken
    <3>4. \A n \in 1..taken : \/ \E i \in 1..m : yielded[i] \in {n, -n}
                              \/ \E i \in 1..k : queue[i].n = n
      BY <1>2, <2>5 DEF Overtaken
    <3>5. \A i \in 1..k - 1 : queue'[i].n \in 1..taken
      BY <2>2, <3>1
    <3>6. \A i, j \in 1..k - 1 : i < j => queue'[i].n < queue'[j].n
      <4> SUFFICES ASSUME NEW i \in 1..k - 1, NEW j \in 1..k - 1, i < j
                   PROVE  queue'[i].n < queue'[j].n
        OBVIOUS
      <4>1. i + 1 < j + 1
        BY <2>2
      <4> QED BY <2>2, <3>1, <4>1
    <3>7. \A j \in 1..k - 1 : f.n < queue'[j].n
      <4> TAKE j \in 1..k - 1
      <4>1. 1 < j + 1
        BY <2>2
      <4> QED BY <2>2, <3>1, <4>1
    <3>8. f.n \in 1..taken /\ f.n <= taken
      BY <1>1, <2>2, <3>1
    <3>9. \A i \in 1..m + 1 : /\ yielded'[i] <= taken
                              /\ \A j \in 1..k - 1 : yielded'[i] < queue'[j].n
      BY <2>2, <2>4, <3>2, <3>7, <3>8
    <3>10. \A i, j \in 1..m + 1 : i < j /\ yielded'[i] > 0 /\ yielded'[j] > 0
                                    => yielded'[i] < yielded'[j]
      <4> SUFFICES ASSUME NEW i \in 1..m + 1, NEW j \in 1..m + 1, i < j,
                          yielded'[i] > 0, yielded'[j] > 0
                   PROVE  yielded'[i] < yielded'[j]
        OBVIOUS
      <4>1. i \in 1..m
        BY <2>5
      <4>2. CASE j \in 1..m
        BY <2>4, <3>3, <4>1, <4>2
      <4>3. CASE j = m + 1
        BY <2>2, <2>4, <3>2, <4>1, <4>3
      <4> QED BY <2>4, <4>2, <4>3
    <3>11. \A n \in 1..taken : \/ \E i \in 1..m + 1 : yielded'[i] \in {n, -n}
                               \/ \E i \in 1..k - 1 : queue'[i].n = n
      <4> TAKE n \in 1..taken
      <4>1. CASE \E i \in 1..m : yielded[i] \in {n, -n}
        <5> PICK i \in 1..m : yielded[i] \in {n, -n}
          BY <4>1
        <5>1. i \in 1..m + 1 /\ yielded'[i] = yielded[i]
          BY <2>4, <2>5
        <5> QED BY <5>1
      <4>2. CASE \E i \in 1..k : queue[i].n = n
        <5> PICK i \in 1..k : queue[i].n = n
          BY <4>2
        <5>1. CASE i = 1
          <6>1. m + 1 \in 1..m + 1 /\ yielded'[m + 1] = n
            BY <2>2, <2>4, <2>5, <5>1
          <6> QED BY <6>1
        <5>2. CASE i # 1
          <6>1. i - 1 \in 1..k - 1 /\ (i - 1) + 1 = i
            BY <2>2, <5>2
          <6>2. queue'[i - 1].n = n
            BY <2>2, <6>1
          <6> QED BY <6>1, <6>2
        <5> QED BY <5>1, <5>2
      <4> QED BY <3>4, <4>1, <4>2
    <3> QED BY <2>1, <2>2, <2>4, <3>5, <3>6, <3>9, <3>10, <3>11, ZenonT(30) DEF Overtaken
  <2>10. Behind'
    <3>1. gap \in Nat /\ (gap # 0 => \A i \in 1..m : yielded[i] < gap)
      BY <1>2, <2>5 DEF Behind
    <3>2. gap # 0 => f.n < gap
      BY <2>1, <2>3, <3>1
    <3> QED BY <2>1, <2>4, <3>1, <3>2 DEF Behind
  <2> QED BY <2>1, <2>4, <2>6, <2>7, <2>8, <2>9, <2>10 DEF QueueHeld
<1>8. CASE Weighted!PollNext \/ Weighted!FillStop \/ Weighted!QueuePending
           \/ Weighted!QueueEmpty
  <2>1. UNCHANGED <<flavour, taken, queue, current_weight, yielded, gap>>
    BY <1>8 DEF Weighted!PollNext, Weighted!FillStop, Weighted!QueuePending,
                Weighted!QueueEmpty
  <2>2. answer' = "end" => pc' = "dead" /\ ended' /\ queue' = <<>>
    BY <1>2, <1>8 DEF Weighted!PollNext, Weighted!FillStop, Weighted!QueuePending,
                      Weighted!QueueEmpty
  <2>3. InOrder' /\ Overtaken' /\ Behind' /\ WithinLimit'
    BY <1>2, <2>1 DEF InOrder, Overtaken, Behind, WithinLimit
  <2> QED BY <1>1, <2>1, <2>2, <2>3 DEF QueueHeld
<1>9. CASE \E i \in DOMAIN queue, r \in {"ok", "err"} : Weighted!Complete(i, r)
  <2> PICK i \in DOMAIN queue, r \in {"ok", "err"} : Weighted!Complete(i, r)
    BY <1>9
  <2>1. /\ queue' = [queue EXCEPT ![i].state = r] /\ pc = "idle"
        /\ UNCHANGED <<flavour, taken, current_weight, yielded, gap, answer, ended, pc>>
    BY DEF Weighted!Complete
  <2>2. \A j \in DOMAIN queue : queue[j] \in Queued
    BY <1>1
  <2>3. /\ DOMAIN queue' = DOMAIN queue /\ Len(queue') = Len(queue)
        /\ \A j \in DOMAIN queue :
              queue'[j].weight = queue[j].weight /\ queue'[j].n = queue[j].n
    <3>1. /\ [queue[i] EXCEPT !.state = r].weight = queue[i].weight
          /\ [queue[i] EXCEPT !.state = r].n = queue[i].n
          /\ [queue[i] EXCEPT !.state = r] \in Queued
      BY <2>2 DEF Queued
    <3>2. queue' = [queue EXCEPT ![i] = [queue[i] EXCEPT !.state = r]]
      BY <2>1
    <3>3. DOMAIN queue' = DOMAIN queue /\ queue' \in Seq(Queued)
      BY <1>1, <3>1, <3>2
    <3>4. Len(queue') = Len(queue)
      BY <1>1, <3>3
    <3>5. \A j \in DOMAIN queue :
              queue'[j] = IF j = i THEN [queue[i] EXCEPT !.state = r] ELSE queue[j]
      BY <3>2
    <3> QED BY <3>1, <3>3, <3>4, <3>5
  <2>4. InOrder' /\ Behind' /\ WithinLimit'
    BY <1>2, <2>1, <2>3 DEF InOrder, Behind, WithinLimit
  <2>5. Overtaken'
    BY <1>2, <2>1, <2>3 DEF Overtaken
  <2>6. \A j \in DOMAIN queue' : queue'[j].weight >= 0
    BY <1>1, <2>3
  <2> QED BY <1>1, <1>2, <2>1, <2>4, <2>5, <2>6 DEF QueueHeld
\* A failed future of futures 0.1 comes out from anywhere in the queue.
<1>10. CASE \E i \in DOMAIN queue : Weighted!QueueFailed(i)
  <2> PICK i \in DOMAIN queue : Weighted!QueueFailed(i)
    BY <1>10
  <2> DEFINE f == queue[i]
             e == -f.n
             m == Len(yielded)
             k == Len(queue)
  <2>1. /\ i \in 1..k /\ queue' = Without(queue, i) /\ yielded' = Append(yielded, e)
        /\ answer' # "end" /\ flavour = "v01"
        /\ gap' = IF gap # 0 /\ f.n >= gap THEN gap ELSE f.n
        /\ UNCHANGED <<flavour, taken, current_weight>>
    BY <1>1 DEF Weighted!QueueFailed, Weighted!Failing, Weighted!Stuck, Without
  <2>2. /\ \A a \in 1..k : queue[a].n \in 1..taken
        /\ \A a, b \in 1..k : a < b => queue[a].n < queue[b].n
    BY <1>1, <1>2, <2>1 DEF Overtaken
  <2>3. \A a \in 1..m : yielded[a] <= taken /\ \A b \in 1..k : yielded[a] < queue[b].n
    BY <1>1, <1>2, <2>1 DEF Overtaken
  <2>4. \A a, b \in 1..m : a < b /\ yielded[a] > 0 /\ yielded[b] > 0
                              => yielded[a] < yielded[b]
    BY <1>1, <1>2, <2>1 DEF Overtaken
  <2>5. \A n \in 1..taken : \/ \E a \in 1..m : yielded[a] \in {n, -n}
                            \/ \E a \in 1..k : queue[a].n = n
    BY <1>1, <1>2, <2>1 DEF Overtaken
  <2>6. /\ DOMAIN queue' = 1..k - 1 /\ Len(queue') = k - 1 /\ k \in Nat \ {0}
        /\ \A j \in 1..k - 1 : queue'[j] = IF j < i THEN queue[j] ELSE queue[j + 1]
    <3>1. queue' \in Seq(Queued) /\ Len(queue') = k - 1
      BY <1>1, <2>1, WithoutShape
    <3>2. \A j \in 1..k - 1 : queue'[j] = IF j < i THEN queue[j] ELSE queue[j + 1]
      BY <1>1, <2>1, WithoutShape
    <3> QED BY <1>1, <2>1, <3>1, <3>2
  <2>7. f.n \in 1..taken /\ f.n \in Nat /\ f.n > 0 /\ taken \in Nat /\ m \in Nat
    BY <1>1, <2>1, <2>2
  <2>8. e \in Int /\ e < 0 /\ ~(e > 0) /\ e <= taken
    BY <2>7
  <2> HIDE DEF e
  <2>9. /\ yielded' \in Seq(Int) /\ DOMAIN yielded' = 1..m + 1 /\ yielded'[m + 1] = e
        /\ \A a \in 1..m : yielded'[a] = yielded[a]
        /\ \A a \in 1..m + 1 : a \in 1..m \/ a = m + 1
    BY <1>1, <2>1, <2>8
  <2> DEFINE was(j) == IF j < i THEN j ELSE j + 1
  <2>10. \A j \in 1..k - 1 : was(j) \in 1..k /\ queue'[j] = queue[was(j)]
    BY <2>1, <2>6
  <2>11. \A a, b \in 1..k - 1 : a < b => was(a) < was(b)
    BY <2>1, <2>6
  <2>12. \A b \in 1..k : b = i \/ \E j \in 1..k - 1 : was(j) = b
    <3> SUFFICES ASSUME NEW b \in 1..k, b # i PROVE \E j \in 1..k - 1 : was(j) = b
      OBVIOUS
    <3>1. CASE b < i
      <4>1. b \in 1..k - 1 /\ was(b) = b
        BY <2>1, <2>6, <3>1
      <4> QED BY <4>1
    <3>2. CASE ~(b < i)
      <4>1. b - 1 \in 1..k - 1 /\ was(b - 1) = b
        BY <2>1, <2>6, <3>2
      <4> QED BY <4>1
    <3> QED BY <3>1, <3>2
  <2>13. DOMAIN queue = 1..k /\ DOMAIN yielded = 1..m
    BY <1>1
  <2> HIDE DEF was, f, m, k
  <2>14. \A j \in DOMAIN queue' : queue'[j].weight >= 0
    BY <1>1, <2>6, <2>10, <2>13
  <2>15. \A j \in 1..k - 1 : queue'[j].n \in 1..taken
    BY <2>2, <2>10
  <2>16. \A a, b \in 1..k - 1 : a < b => queue'[a].n < queue'[b].n
    BY <2>2, <2>10, <2>11
  <2>17. \A n \in 1..taken : e < n
    BY <2>7, <2>8
  <2>18. \A a \in 1..m + 1 : /\ yielded'[a] <= taken
                             /\ \A j \in 1..k - 1 : yielded'[a] < queue'[j].n
    <3> TAKE a \in 1..m + 1
    <3>1. CASE a \in 1..m
      BY <2>3, <2>9, <2>10, <3>1
    <3>2. CASE a = m + 1
      BY <2>8, <2>9, <2>15, <2>17, <3>2
    <3> QED BY <2>9, <3>1, <3>2
  <2>19. \A a, b \in 1..m + 1 : a < b /\ yielded'[a] > 0 /\ yielded'[b] > 0
                                => yielded'[a] < yielded'[b]
    BY <2>4, <2>8, <2>9
  <2>20. \A n \in 1..taken : \/ \E a \in 1..m + 1 : yielded'[a] \in {n, -n}
                             \/ \E a \in 1..k - 1 : queue'[a].n = n
    <3> TAKE n \in 1..taken
    <3>1. CASE \E a \in 1..m : yielded[a] \in {n, -n}
      <4> PICK a \in 1..m : yielded[a] \in {n, -n}
        BY <3>1
      <4>1. a \in 1..m + 1 /\ yielded'[a] = yielded[a]
        BY <2>7, <2>9
      <4> QED BY <4>1
    <3>2. CASE \E b \in 1..k : queue[b].n = n
      <4> PICK b \in 1..k : queue[b].n = n
        BY <3>2
      <4>1. CASE b = i
        <5>1. m + 1 \in 1..m + 1 /\ yielded'[m + 1] = -n
          BY <2>7, <2>9, <4>1 DEF e, f
        <5> QED BY <5>1
      <4>2. CASE b # i
        BY <2>10, <2>12, <4>2
      <4> QED BY <4>1, <4>2
    <3> QED BY <2>5, <3>1, <3>2
  <2>21. Overtaken'
    BY <2>1, <2>6, <2>9, <2>15, <2>16, <2>18, <2>19, <2>20, ZenonT(30) DEF Overtaken
  <2>22. Behind'
    <3>1. gap \in Nat /\ (gap # 0 => \A a \in 1..m : yielded[a] < gap)
      BY <1>2, <2>13 DEF Behind
    <3>2. \A a \in 1..m : yielded[a] < f.n
      BY <2>1, <2>3 DEF f
    <3>3. gap' \in Nat /\ gap' > 0 /\ gap' \in {gap, f.n} /\ (gap' # f.n => gap # 0)
      BY <2>1, <2>7, <3>1
    <3>4. \A a \in 1..m : yielded[a] < gap'
      BY <3>1, <3>2, <3>3
    <3>5. e < gap'
      BY <2>8, <3>3
    <3> QED BY <2>9, <3>3, <3>4, <3>5 DEF Behind
  <2>23. InOrder' /\ WithinLimit'
    BY <1>2, <2>1 DEF InOrder, WithinLimit
  <2> QED BY <1>2, <2>1, <2>9, <2>14, <2>21, <2>22, <2>23 DEF QueueHeld
<1> QED BY <1>4, <1>5, <1>6, <1>7, <1>8, <1>9, <1>10 DEF Weighted!Next

-----------------------------------------------------------------------------
(* What the junctions deliver.                                               *)

\* What a sink was sent and what it would not take yet.
Line(s) == sent[s] \o buf[s]

\* A fork sends each item to the sink that was chosen for it; it keeps one
\* back at most, and none once its input is over.
ForkHeld == junction = "fork" =>
    /\ stage \in {"idle", "push", "loop", "finish", "gone"}
    /\ fetched \in Seq({1} \X Nat \X Junctions!Sinks)
    /\ \A i \in DOMAIN fetched : fetched[i][1] = 1 /\ fetched[i][2] = i
    /\ sent \in [Junctions!Sinks -> Seq(Nat)]
    /\ buf \in [Junctions!Sinks -> Seq(Nat)]
    /\ \A s \in Junctions!Sinks : Len(buf[s]) <= 1
    /\ \A s \in Junctions!Sinks : /\ Junctions!Increasing(Line(s))
                                  /\ Junctions!Members(Line(s)) = Junctions!Chosen(s)
    /\ buf[1] = <<>> \/ buf[2] = <<>>
    /\ stage \in {"push", "loop"} => finished = "none"
    /\ finished # "none" \/ stage \in {"loop", "finish"} =>
          \A s \in Junctions!Sinks : buf[s] = <<>>
    /\ result \in {"done", "err"} =>
          /\ stage = "gone" /\ unflushed = {}
          /\ \A s \in Junctions!Sinks : buf[s] = <<>>

\* A selection hands over the items of each stream in turn.
SelectHeld == junction = "select" =>
    /\ stage \in {"idle", "gone"}
    /\ fetched \in Seq(Sources \X Nat \X {1})
    /\ DOMAIN sent = Junctions!Sinks /\ sent[1] \in Seq(Sources \X Nat)
    /\ \A s \in Sources : {x \in Junctions!Members(sent[1]) : x[1] = s}
                          = {<<s, i>> : i \in 1..Junctions!Count(s)}
    /\ \A i, j \in DOMAIN sent[1] :
          i < j /\ sent[1][i][1] = sent[1][j][1] => sent[1][i][2] < sent[1][j][2]
    /\ DOMAIN input = Sources
    /\ result = "end" => stage = "gone" /\ \A s \in Sources : input[s] # "open"

\* Ordered futures are driven one after the other.
OrderedHeld == junction = "ordered" =>
    /\ stage \in {"idle", "gone"}
    /\ fetched \in Seq(Nat \X {1} \X {1}) /\ Len(fetched) <= MaxItems
    /\ DOMAIN sent = Junctions!Sinks /\ sent[1] \in Seq(Nat)
    /\ \A x \in Junctions!Members(sent[1]) : x <= Len(fetched)
    /\ Junctions!Increasing(sent[1])
    /\ result = "end" => stage = "gone" /\ Len(fetched) = MaxItems

JunctionHeld == ForkHeld /\ SelectHeld /\ OrderedHeld

LEMMA JunctionHeldStart == Junctions!Init => JunctionHeld
<1> SUFFICES ASSUME Junctions!Init PROVE JunctionHeld
  OBVIOUS
<1>1. /\ stage = "idle" /\ fetched = <<>> /\ result = "new" /\ finished = "none"
      /\ input = [s \in Sources |-> "open"]
      /\ buf = [s \in Junctions!Sinks |-> <<>>] /\ sent = [s \in Junctions!Sinks |-> <<>>]
      /\ DOMAIN fetched = {} /\ Len(fetched) = 0
  BY DEF Junctions!Init
<1>2. \A s \in Junctions!Sinks : /\ buf[s] = <<>> /\ sent[s] = <<>> /\ Line(s) = <<>>
                                 /\ DOMAIN sent[s] = {} /\ Len(buf[s]) <= 1
  BY <1>1 DEF Line
<1>3. \A T : <<>> \in Seq(T)
  OBVIOUS
<1>4. DOMAIN <<>> = {} /\ 1 \in Junctions!Sinks /\ 2 \in Junctions!Sinks
  BY DEF Junctions!Sinks
<1>5. /\ Junctions!Increasing(<<>>) /\ Junctions!Members(<<>>) = {}
      /\ \A s : Junctions!Chosen(s) = {}
  BY <1>1, <1>4 DEF Junctions!Increasing, Junctions!Members, Junctions!Chosen
<1>6. \A s : Junctions!Count(s) = 0
  <2> TAKE s
  <2>1. {i \in DOMAIN fetched : fetched[i][1] = s} = {}
    BY <1>1
  <2>2. Junctions!Cardinality({}) = 0
    BY FS_EmptySet DEF Junctions!Cardinality, Cardinality
  <2> QED BY <2>1, <2>2 DEF Junctions!Count
<1>7. ForkHeld
  <2>1. /\ sent \in [Junctions!Sinks -> Seq(Nat)] /\ buf \in [Junctions!Sinks -> Seq(Nat)]
    BY <1>1, <1>3
  <2> QED BY <1>1, <1>2, <1>3, <1>4, <1>5, <2>1, Zenon DEF ForkHeld
<1>8. SelectHeld
  <2>1. \A s : {<<s, i>> : i \in 1..0} = {}
    OBVIOUS
  <2>2. DOMAIN input = Sources /\ DOMAIN sent = Junctions!Sinks
    BY <1>1
  <2> QED BY <1>1, <1>2, <1>3, <1>4, <1>5, <1>6, <2>1, <2>2, Zenon DEF SelectHeld
<1>9. OrderedHeld
  <2>1. 0 <= MaxItems /\ DOMAIN sent = Junctions!Sinks
    BY <1>1, AsyncConstants
  <2> QED BY <1>1, <1>2, <1>3, <1>4, <1>5, <2>1, Zenon DEF OrderedHeld
<1> QED BY <1>7, <1>8, <1>9 DEF JunctionHeld

LEMMA JunctionHeldImplies == JunctionHeld => Junctions!JunctionsFaithful
<1> SUFFICES ASSUME JunctionHeld PROVE Junctions!JunctionsFaithful
  OBVIOUS
<1>1. ASSUME junction = "fork", result \in {"done", "err"}, NEW s \in Junctions!Sinks
      PROVE  Junctions!Members(sent[s]) = Junctions!Chosen(s)
  <2>1. buf[s] = <<>> /\ sent[s] \in Seq(Nat)
    BY <1>1 DEF JunctionHeld, ForkHeld
  <2>2. Line(s) = sent[s]
    BY <2>1 DEF Line
  <2> QED BY <1>1, <2>2 DEF JunctionHeld, ForkHeld
<1>2. CASE junction = "fork"
  BY <1>1, <1>2 DEF Junctions!JunctionsFaithful, JunctionHeld, ForkHeld, Line
<1>3. CASE junction = "select"
  BY <1>3 DEF Junctions!JunctionsFaithful, JunctionHeld, SelectHeld
<1>4. CASE junction = "ordered"
  BY <1>4 DEF Junctions!JunctionsFaithful, JunctionHeld, OrderedHeld
<1> QED BY <1>2, <1>3, <1>4 DEF Junctions!JunctionsFaithful

\* The instance has copies of the operators.
LEMMA JunctionOperators ==
    /\ \A q : Junctions!Members(q) = Streams!Members(q)
    /\ \A q : Junctions!Increasing(q) <=> Streams!Increasing(q)
    /\ \A S : Junctions!Cardinality(S) = Cardinality(S)
<1>1. \A q : Junctions!Members(q) = Streams!Members(q)
  BY DEF Junctions!Members, Streams!Members
<1>2. \A q : Junctions!Increasing(q) <=> Streams!Increasing(q)
  BY DEF Junctions!Increasing, Streams!Increasing
<1>3. \A S : Junctions!Cardinality(S) = Cardinality(S)
  BY DEF Junctions!Cardinality, Cardinality
<1> QED BY <1>1, <1>2, <1>3

\* How many items a source has given when it gives one more.
LEMMA CountMore ==
    ASSUME NEW T, fetched \in Seq(T), NEW f \in T, fetched' = Append(fetched, f)
    PROVE  \A s : /\ Junctions!Count(s) \in Nat
                  /\ Junctions!Count(s)' = IF f[1] = s THEN Junctions!Count(s) + 1
                                           ELSE Junctions!Count(s)
<1> TAKE s
<1> DEFINE C == {i \in DOMAIN fetched : fetched[i][1] = s}
           D == {i \in DOMAIN fetched' : fetched'[i][1] = s}
           n == Len(fetched)
<1>1. /\ DOMAIN fetched = 1..n /\ DOMAIN fetched' = 1..n + 1 /\ n \in Nat
      /\ fetched'[n + 1] = f /\ \A i \in 1..n : fetched'[i] = fetched[i]
  OBVIOUS
<1>2. 1..n + 1 = 1..n \cup {n + 1} /\ n + 1 \notin 1..n
  BY <1>1
<1>3. IsFiniteSet(C)
  BY SeqDomainFinite, FS_Subset
<1>4. Junctions!Count(s) = Cardinality(C) /\ Junctions!Count(s)' = Cardinality(D)
  BY JunctionOperators DEF Junctions!Count
<1>5. Cardinality(C) \in Nat
  BY <1>3, FS_CardinalityType
<1>6. CASE f[1] = s
  <2>1. \A i : i \in D <=> i \in C \cup {n + 1}
    BY <1>1, <1>2, <1>6, Zenon
  <2>2. D = C \cup {n + 1} /\ n + 1 \notin C
    BY <1>1, <1>2, <2>1
  <2> HIDE DEF C, D, n
  <2> QED BY <1>3, <1>4, <1>5, <1>6, <2>2, FS_AddElement, ZenonT(30)
<1>7. CASE f[1] # s
  <2>1. \A i : i \in D <=> i \in C
    BY <1>1, <1>2, <1>7, Zenon
  <2>2. D = C
    BY <2>1
  <2> QED BY <1>4, <1>5, <1>7, <2>2
<1> QED BY <1>6, <1>7

\* A step of a fork that moves no item.
LEMMA ForkRests ==
    ASSUME ForkHeld, junction = "fork",
           UNCHANGED <<junction, fetched, sent, buf>>,
           stage' \in {"idle", "push", "loop", "finish", "gone"},
           stage' \in {"push", "loop"} => finished' = "none",
           finished' # "none" \/ stage' \in {"loop", "finish"} =>
               \A s \in Junctions!Sinks : buf[s] = <<>>,
           result' \in {"done", "err"} =>
               /\ stage' = "gone" /\ unflushed' = {}
               /\ \A s \in Junctions!Sinks : buf[s] = <<>>
    PROVE  JunctionHeld'
<1>1. \A s \in Junctions!Sinks : /\ Junctions!Increasing(Line(s)')
                                 /\ Junctions!Members(Line(s)') = Junctions!Chosen(s)'
  BY DEF ForkHeld, Line, Junctions!Chosen
<1>2. ForkHeld'
  BY <1>1 DEF ForkHeld, Line
<1> QED BY <1>2 DEF JunctionHeld, SelectHeld, OrderedHeld

\* A step in which the line of one sink stays or grows by an item.
LEMMA PushHeld ==
    ASSUME JunctionHeld, NEW s \in Junctions!Sinks, NEW a \in BOOLEAN, Junctions!Push(s, a)
    PROVE  JunctionHeld'
<1>1. stage = "push" /\ buf[s] # <<>> /\ Junctions!StartSend(s, buf[s][1], a)
      /\ UNCHANGED <<junction, fetched, input, finished>>
      /\ IF a THEN stage' = "push" /\ UNCHANGED result
              ELSE stage' = "idle" /\ result' = "pending"
  BY DEF Junctions!Push, Junctions!Answer
<1>2. SUFFICES ASSUME junction = "fork" PROVE ForkHeld'
  BY <1>1 DEF JunctionHeld, ForkHeld, SelectHeld, OrderedHeld
<1>3. /\ sent \in [Junctions!Sinks -> Seq(Nat)] /\ buf \in [Junctions!Sinks -> Seq(Nat)]
      /\ \A t \in Junctions!Sinks : Len(buf[t]) <= 1
      /\ finished = "none" /\ (buf[1] = <<>> \/ buf[2] = <<>>)
      /\ result \notin {"done", "err"}
  BY <1>1, <1>2 DEF JunctionHeld, ForkHeld
<1>4. /\ sent[s] \in Seq(Nat) /\ buf[s] \in Seq(Nat)
      /\ buf[s][1] \in Nat /\ buf[s] = <<buf[s][1]>>
  <2>1. sent[s] \in Seq(Nat) /\ buf[s] \in Seq(Nat) /\ Len(buf[s]) <= 1
    BY <1>3
  <2>2. \A b \in Seq(Nat) : b # <<>> /\ Len(b) <= 1 => b[1] \in Nat /\ b = <<b[1]>>
    <3> SUFFICES ASSUME NEW b \in Seq(Nat), b # <<>>, Len(b) <= 1
                 PROVE  b[1] \in Nat /\ b = <<b[1]>>
      OBVIOUS
    <3>1. Len(b) = 1 /\ b[1] \in Nat
      <4>1. Len(b) # 0 /\ Len(b) \in Nat
        BY EmptySeq
      <4>2. \A n \in Nat : n # 0 /\ n <= 1 => n = 1
        OBVIOUS
      <4>3. Len(b) = 1
        BY <4>1, <4>2, Zenon
      <4> QED BY <4>3, ElementOfSeq
    <3> DEFINE c == <<b[1]>>
    <3>2. c \in Seq(Nat) /\ Len(c) = 1 /\ c[1] = b[1]
      BY <3>1
    <3> HIDE DEF c
    <3>3. \A i \in 1..1 : c[i] = b[i]
      BY <3>2
    <3>4. c = b
      BY <3>1, <3>2, <3>3, SMTT(20)
    <3> QED BY <3>1, <3>4 DEF c
  <2> QED BY <1>1, <2>1, <2>2
<1> DEFINE x == buf[s][1]
<1>5. /\ sent' = [sent EXCEPT ![s] = IF a THEN Append(@, x) ELSE @]
      /\ buf' = [buf EXCEPT ![s] = IF a THEN <<>> ELSE <<x>>]
  BY <1>1 DEF Junctions!StartSend
<1>6. /\ sent'[s] = (IF a THEN Append(sent[s], x) ELSE sent[s])
      /\ buf'[s] = (IF a THEN <<>> ELSE <<x>>)
      /\ \A t \in Junctions!Sinks \ {s} : sent'[t] = sent[t] /\ buf'[t] = buf[t]
  BY <1>3, <1>5
<1>7. x \in Nat /\ buf[s] = <<x>>
  BY <1>4
<1> HIDE DEF x
<1>8. /\ sent'[s] \in Seq(Nat) /\ buf'[s] \in Seq(Nat) /\ Len(buf'[s]) <= 1
      /\ sent'[s] \o buf'[s] = sent[s] \o buf[s]
  <2>1. CASE a
    <3>1. sent'[s] = Append(sent[s], x) /\ buf'[s] = <<>>
      BY <1>6, <2>1
    <3>2. \A q \in Seq(Nat) : /\ Append(q, x) \in Seq(Nat)
                              /\ Append(q, x) \o <<>> = q \o <<x>>
      BY <1>7
    <3>3. <<>> \in Seq(Nat) /\ Len(<<>>) <= 1
      OBVIOUS
    <3> QED BY <1>4, <1>7, <3>1, <3>2, <3>3
  <2>2. CASE ~a
    <3>1. sent'[s] = sent[s] /\ buf'[s] = buf[s]
      BY <1>6, <1>7, <2>2
    <3> QED BY <1>3, <1>4, <3>1
  <2> QED BY <2>1, <2>2
<1>9. /\ sent' \in [Junctions!Sinks -> Seq(Nat)] /\ buf' \in [Junctions!Sinks -> Seq(Nat)]
      /\ \A t \in Junctions!Sinks : Len(buf'[t]) <= 1
  <2>1. DOMAIN sent' = Junctions!Sinks /\ DOMAIN buf' = Junctions!Sinks
    BY <1>3, <1>5
  <2>2. \A t \in Junctions!Sinks : /\ sent'[t] \in Seq(Nat) /\ buf'[t] \in Seq(Nat)
                                   /\ Len(buf'[t]) <= 1
    BY <1>3, <1>6, <1>8
  <2>3. /\ sent' = [t \in Junctions!Sinks |-> sent'[t]]
        /\ buf' = [t \in Junctions!Sinks |-> buf'[t]]
    BY <1>3, <1>5
  <2> QED BY <2>2, <2>3
<1>10. \A t \in Junctions!Sinks : /\ Junctions!Increasing(Line(t)')
                                  /\ Junctions!Members(Line(t)') = Junctions!Chosen(t)'
  <2>1. \A t \in Junctions!Sinks : Line(t)' = Line(t)
    BY <1>6, <1>8 DEF Line
  <2>2. \A t \in Junctions!Sinks : Junctions!Chosen(t)' = Junctions!Chosen(t)
    BY <1>1 DEF Junctions!Chosen
  <2> QED BY <1>2, <2>1, <2>2 DEF JunctionHeld, ForkHeld
<1>11. buf'[1] = <<>> \/ buf'[2] = <<>>
  <2>1. \A t \in Junctions!Sinks : buf[t] = <<>> => buf'[t] = <<>>
    BY <1>1, <1>6
  <2> QED BY <1>3, <2>1 DEF Junctions!Sinks
<1>12. stage' \in {"idle", "push"} /\ finished' = "none" /\ result' \notin {"done", "err"}
  BY <1>1, <1>3
<1>13. /\ fetched' \in Seq({1} \X Nat \X Junctions!Sinks)
       /\ \A i \in DOMAIN fetched' : fetched'[i][1] = 1 /\ fetched'[i][2] = i
  BY <1>1, <1>2 DEF JunctionHeld, ForkHeld
<1> QED BY <1>9, <1>10, <1>11, <1>12, <1>13 DEF ForkHeld

LEMMA ForkItemHeld ==
    ASSUME JunctionHeld, NEW s \in Junctions!Sinks, NEW a \in BOOLEAN,
           Junctions!ForkItem(s, a)
    PROVE  JunctionHeld'
<1> DEFINE N == Len(fetched)
           x == Junctions!Count(1) + 1
           f == <<1, x, s>>
<1>1. /\ junction = "fork" /\ stage = "loop"
      /\ fetched' = Append(fetched, f) /\ Junctions!StartSend(s, x, a)
      /\ UNCHANGED <<junction, finished>>
      /\ IF a THEN UNCHANGED <<stage, result>> ELSE stage' = "idle" /\ result' = "pending"
  BY DEF Junctions!ForkItem, Junctions!Answer
<1>2. /\ fetched \in Seq({1} \X Nat \X Junctions!Sinks)
      /\ \A i \in DOMAIN fetched : fetched[i][1] = 1 /\ fetched[i][2] = i
      /\ sent \in [Junctions!Sinks -> Seq(Nat)] /\ buf \in [Junctions!Sinks -> Seq(Nat)]
      /\ finished = "none" /\ result \notin {"done", "err"}
      /\ \A t \in Junctions!Sinks : buf[t] = <<>>
  BY <1>1 DEF JunctionHeld, ForkHeld
<1>3. \A t \in Junctions!Sinks : /\ Junctions!Increasing(Line(t))
                                 /\ Junctions!Members(Line(t)) = Junctions!Chosen(t)
  BY <1>1 DEF JunctionHeld, ForkHeld
<1>4. x = N + 1 /\ N \in Nat /\ DOMAIN fetched = 1..N
  <2>1. N \in Nat /\ DOMAIN fetched = 1..N
    BY <1>2
  <2>2. {i \in DOMAIN fetched : fetched[i][1] = 1} = 1..N
    BY <1>2, <2>1
  <2>3. Junctions!Count(1) = Cardinality(1..N)
    BY <2>2, JunctionOperators DEF Junctions!Count
  <2> HIDE DEF N
  <2>4. Cardinality(1..N) = N
    BY <2>1, FS_Interval
  <2> QED BY <2>1, <2>3, <2>4
<1> HIDE DEF N, x
<1>5. f \in {1} \X Nat \X Junctions!Sinks /\ f[1] = 1 /\ f[2] = x /\ f[3] = s
  BY <1>4
<1> HIDE DEF f
<1>6. /\ fetched' \in Seq({1} \X Nat \X Junctions!Sinks)
      /\ DOMAIN fetched' = 1..N + 1 /\ fetched'[N + 1] = f
      /\ \A i \in 1..N : fetched'[i] = fetched[i]
      /\ \A i \in 1..N + 1 : i \in 1..N \/ i = N + 1
      /\ \A i \in 1..N : i \in 1..N + 1
      /\ N + 1 \in 1..N + 1
  BY <1>1, <1>2, <1>4, <1>5 DEF N
<1>7. \A i \in DOMAIN fetched' : fetched'[i][1] = 1 /\ fetched'[i][2] = i
  BY <1>2, <1>4, <1>5, <1>6
<1>8. /\ Junctions!Chosen(s)' = Junctions!Chosen(s) \cup {x}
      /\ \A t \in Junctions!Sinks \ {s} : Junctions!Chosen(t)' = Junctions!Chosen(t)
  <2>1. \A t, y : y \in Junctions!Chosen(t) <=>
                     \E i \in 1..N : fetched[i][3] = t /\ y = fetched[i][2]
    BY <1>4 DEF Junctions!Chosen
  <2>2. \A t, y : y \in Junctions!Chosen(t)' <=>
                     \E i \in 1..N + 1 : fetched'[i][3] = t /\ y = fetched'[i][2]
    BY <1>6 DEF Junctions!Chosen
  <2>3. \A t, y : y \in Junctions!Chosen(t)' <=>
                     \/ y \in Junctions!Chosen(t)
                     \/ t = s /\ y = x
    <3> TAKE t, y
    <3>1. (\E i \in 1..N + 1 : fetched'[i][3] = t /\ y = fetched'[i][2]) <=>
             \/ \E i \in 1..N : fetched'[i][3] = t /\ y = fetched'[i][2]
             \/ fetched'[N + 1][3] = t /\ y = fetched'[N + 1][2]
      BY <1>6, Zenon
    <3>2. (\E i \in 1..N : fetched'[i][3] = t /\ y = fetched'[i][2]) <=>
             \E i \in 1..N : fetched[i][3] = t /\ y = fetched[i][2]
      BY <1>6
    <3>3. fetched'[N + 1][3] = s /\ fetched'[N + 1][2] = x
      BY <1>5, <1>6
    <3> QED BY <2>1, <2>2, <3>1, <3>2, <3>3
  <2>4. \A y : y \in Junctions!Chosen(s)' <=> y \in Junctions!Chosen(s) \cup {x}
    BY <2>3
  <2>5. \A t \in Junctions!Sinks \ {s} : \A y :
           y \in Junctions!Chosen(t)' <=> y \in Junctions!Chosen(t)
    BY <2>3
  <2>6. \A t \in Junctions!Sinks \ {s} : Junctions!Chosen(t)' = Junctions!Chosen(t)
    <3> TAKE t \in Junctions!Sinks \ {s}
    <3> DEFINE C == Junctions!Chosen(t)
               D == Junctions!Chosen(t)'
    <3>1. \A y : y \in D <=> y \in C
      BY <2>5
    <3> HIDE DEF C, D
    <3>2. D = C
      BY <3>1
    <3> QED BY <3>2 DEF C, D
  <2>7. Junctions!Chosen(s)' = Junctions!Chosen(s) \cup {x}
    <3> DEFINE C == Junctions!Chosen(s)
               D == Junctions!Chosen(s)'
    <3>1. \A y : y \in D <=> y \in C \cup {x}
      BY <2>4
    <3> HIDE DEF C, D
    <3>2. D = C \cup {x}
      BY <3>1
    <3> QED BY <3>2 DEF C, D
  <2> QED BY <2>6, <2>7
<1>9. \A y \in Junctions!Chosen(s) : y < x
  BY <1>2, <1>4 DEF Junctions!Chosen
<1>10. /\ sent' = [sent EXCEPT ![s] = IF a THEN Append(@, x) ELSE @]
       /\ buf' = [buf EXCEPT ![s] = IF a THEN <<>> ELSE <<x>>]
  BY <1>1 DEF Junctions!StartSend
<1>11. /\ sent'[s] = (IF a THEN Append(sent[s], x) ELSE sent[s])
       /\ buf'[s] = (IF a THEN <<>> ELSE <<x>>)
       /\ \A t \in Junctions!Sinks \ {s} : sent'[t] = sent[t] /\ buf'[t] = buf[t]
  BY <1>2, <1>10
<1>12. sent[s] \in Seq(Nat) /\ x \in Nat /\ Line(s) = sent[s]
  <2>1. sent[s] \in Seq(Nat) /\ buf[s] = <<>>
    BY <1>2
  <2> QED BY <1>4, <2>1 DEF Line
<1>13. /\ sent'[s] \in Seq(Nat) /\ buf'[s] \in Seq(Nat) /\ Len(buf'[s]) <= 1
       /\ sent'[s] \o buf'[s] = sent[s] \o <<x>>
  <2>1. CASE a
    <3>1. sent'[s] = Append(sent[s], x) /\ buf'[s] = <<>>
      BY <1>11, <2>1
    <3>2. \A q \in Seq(Nat) : /\ Append(q, x) \in Seq(Nat)
                              /\ Append(q, x) \o <<>> = q \o <<x>>
      <4>1. x \in Nat
        BY <1>12
      <4> QED BY <4>1
    <3>3. <<>> \in Seq(Nat) /\ Len(<<>>) <= 1
      OBVIOUS
    <3> QED BY <1>12, <3>1, <3>2, <3>3
  <2>2. CASE ~a
    <3>1. sent'[s] = sent[s] /\ buf'[s] = <<x>>
      BY <1>11, <2>2
    <3>2. <<x>> \in Seq(Nat) /\ Len(<<x>>) <= 1
      BY <1>12
    <3> QED BY <1>12, <3>1, <3>2
  <2> QED BY <2>1, <2>2
<1>14. /\ sent' \in [Junctions!Sinks -> Seq(Nat)] /\ buf' \in [Junctions!Sinks -> Seq(Nat)]
       /\ \A t \in Junctions!Sinks : Len(buf'[t]) <= 1
  <2>1. \A t \in Junctions!Sinks : /\ sent'[t] \in Seq(Nat) /\ buf'[t] \in Seq(Nat)
                                   /\ Len(buf'[t]) <= 1
    <3>1. \A t \in Junctions!Sinks : sent[t] \in Seq(Nat) /\ buf[t] \in Seq(Nat)
      BY <1>2
    <3>2. Len(<<>>) <= 1
      OBVIOUS
    <3> QED BY <1>2, <1>11, <1>13, <3>1, <3>2
  <2>2. /\ sent' = [t \in Junctions!Sinks |-> sent'[t]]
        /\ buf' = [t \in Junctions!Sinks |-> buf'[t]]
    BY <1>2, <1>10
  <2> QED BY <2>1, <2>2
<1>15. \A t \in Junctions!Sinks : /\ Junctions!Increasing(Line(t)')
                                  /\ Junctions!Members(Line(t)') = Junctions!Chosen(t)'
  <2>1. Line(s)' = sent[s] \o <<x>>
    BY <1>13 DEF Line
  <2>2. /\ Streams!Increasing(sent[s]) /\ Streams!Members(sent[s]) = Junctions!Chosen(s)
    BY <1>3, <1>12, JunctionOperators
  <2>3. /\ Streams!Increasing(sent[s] \o <<x>>)
        /\ Streams!Members(sent[s] \o <<x>>) = Junctions!Chosen(s) \cup {x}
    BY <1>9, <1>12, <2>2, OneMore
  <2>4. \A t \in Junctions!Sinks \ {s} : Line(t)' = Line(t)
    BY <1>11 DEF Line
  <2> QED BY <1>3, <1>8, <2>1, <2>3, <2>4, JunctionOperators
<1>16. buf'[1] = <<>> \/ buf'[2] = <<>>
  <2>1. 1 \in Junctions!Sinks /\ 2 \in Junctions!Sinks /\ (1 # s \/ 2 # s)
    BY DEF Junctions!Sinks
  <2> QED BY <1>2, <1>11, <2>1
<1>17. /\ stage' \in {"idle", "loop"} /\ finished' = "none" /\ result' \notin {"done", "err"}
       /\ stage' = "loop" => \A t \in Junctions!Sinks : buf'[t] = <<>>
  BY <1>1, <1>2, <1>11
<1>18. ForkHeld'
  BY <1>6, <1>7, <1>14, <1>15, <1>16, <1>17 DEF ForkHeld
<1> QED BY <1>1, <1>18 DEF JunctionHeld, SelectHeld, OrderedHeld

\* A stream of a selection has an item.
LEMMA SelectItemHeld ==
    ASSUME JunctionHeld, NEW s \in Sources, Junctions!SelectItem(s)
    PROVE  JunctionHeld'
<1> DEFINE c == Junctions!Count(s)
           x == <<s, c + 1>>
           q == sent[1]
           n == Len(q)
<1>1. /\ junction = "select" /\ stage' = "idle" /\ result' = "item"
      /\ fetched' = Append(fetched, <<s, c + 1, 1>>)
      /\ sent' = [sent EXCEPT ![1] = Append(@, x)]
      /\ UNCHANGED <<junction, input>>
  BY DEF Junctions!SelectItem, Junctions!Answer
<1>2. /\ fetched \in Seq(Sources \X Nat \X {1})
      /\ DOMAIN sent = Junctions!Sinks /\ q \in Seq(Sources \X Nat)
      /\ DOMAIN input = Sources
  BY <1>1 DEF JunctionHeld, SelectHeld
<1>3. \A t \in Sources : {y \in Junctions!Members(q) : y[1] = t}
                         = {<<t, i>> : i \in 1..Junctions!Count(t)}
  BY <1>1 DEF JunctionHeld, SelectHeld
<1>4. \A i, j \in DOMAIN q : i < j /\ q[i][1] = q[j][1] => q[i][2] < q[j][2]
  BY <1>1 DEF JunctionHeld, SelectHeld
<1>5. c \in Nat
  <2>1. IsFiniteSet({i \in DOMAIN fetched : fetched[i][1] = s})
    BY <1>2, SeqDomainFinite, FS_Subset
  <2>2. c = Cardinality({i \in DOMAIN fetched : fetched[i][1] = s})
    BY JunctionOperators DEF Junctions!Count
  <2> QED BY <2>1, <2>2, FS_CardinalityType
<1> HIDE DEF c
<1>6. /\ x \in Sources \X Nat /\ x[1] = s /\ x[2] = c + 1
      /\ <<s, c + 1, 1>> \in Sources \X Nat \X {1} /\ <<s, c + 1, 1>>[1] = s
  BY <1>5
<1>7. /\ fetched' \in Seq(Sources \X Nat \X {1})
      /\ \A t : /\ Junctions!Count(t) \in Nat
                /\ Junctions!Count(t)' = IF t = s THEN Junctions!Count(t) + 1
                                         ELSE Junctions!Count(t)
  <2> DEFINE T == Sources \X Nat \X {1}
             f == <<s, c + 1, 1>>
  <2>1. fetched \in Seq(T) /\ f \in T /\ f[1] = s /\ fetched' = Append(fetched, f)
    BY <1>1, <1>2, <1>6
  <2> HIDE DEF T, f
  <2>2. fetched' \in Seq(T)
    BY <2>1
  <2>3. \A t : /\ Junctions!Count(t) \in Nat
               /\ Junctions!Count(t)' = IF f[1] = t THEN Junctions!Count(t) + 1
                                        ELSE Junctions!Count(t)
    BY <2>1, CountMore
  <2> QED BY <2>1, <2>2, <2>3 DEF T
<1>8. Append(q, x) = q \o <<x>> /\ 1 \in Junctions!Sinks
  BY <1>2, <1>6 DEF Junctions!Sinks
<1>9. sent'[1] = q \o <<x>> /\ DOMAIN sent' = Junctions!Sinks
  BY <1>1, <1>2, <1>8
<1> HIDE DEF x, q
<1>10. /\ q \o <<x>> \in Seq(Sources \X Nat) /\ DOMAIN (q \o <<x>>) = DOMAIN q \cup {n + 1}
       /\ n + 1 \notin DOMAIN q
       /\ \A i \in DOMAIN q : (q \o <<x>>)[i] = q[i] /\ i < n + 1
       /\ (q \o <<x>>)[n + 1] = x
       /\ Streams!Members(q \o <<x>>) = Streams!Members(q) \cup {x}
  BY <1>2, <1>6, OneMore
<1>11. ASSUME NEW t \in Sources
       PROVE  {y \in Junctions!Members(sent[1])' : y[1] = t}
              = {<<t, i>> : i \in 1..Junctions!Count(t)'}
  <2> DEFINE M == Junctions!Members(q)
             P == Junctions!Members(sent[1])'
             k == Junctions!Count(t)
  <2>1. P = M \cup {x}
    BY <1>9, <1>10, JunctionOperators
  <2>2. {y \in M : y[1] = t} = {<<t, i>> : i \in 1..k}
    BY <1>3
  <2>3. k \in Nat /\ (t = s => k = c)
    BY <1>7 DEF c
  <2>4. Junctions!Count(t)' = IF t = s THEN k + 1 ELSE k
    BY <1>7
  <2> HIDE DEF M, P, k
  <2>5. CASE t = s
    <3>1. x = <<t, k + 1>>
      BY <2>3, <2>5 DEF x
    <3>2. {y \in P : y[1] = t} = {<<t, i>> : i \in 1..k} \cup {x}
      BY <1>6, <2>1, <2>2, <2>5
    <3>3. 1..k + 1 = 1..k \cup {k + 1}
      BY <2>3
    <3>4. {<<t, i>> : i \in 1..k + 1} = {<<t, i>> : i \in 1..k} \cup {x}
      BY <3>1, <3>3
    <3> QED BY <2>4, <2>5, <3>2, <3>4 DEF P
  <2>6. CASE t # s
    <3>1. {y \in P : y[1] = t} = {y \in M : y[1] = t}
      BY <1>6, <2>1, <2>6
    <3> QED BY <2>2, <2>4, <2>6, <3>1 DEF P
  <2> QED BY <2>5, <2>6
<1>12. \A i, j \in DOMAIN (sent'[1]) :
          i < j /\ sent'[1][i][1] = sent'[1][j][1] => sent'[1][i][2] < sent'[1][j][2]
  <2> DEFINE p == q \o <<x>>
  <2> SUFFICES ASSUME NEW i \in DOMAIN p, NEW j \in DOMAIN p, i < j, p[i][1] = p[j][1]
               PROVE  p[i][2] < p[j][2]
    BY <1>9
  <2>1. n \in Nat /\ DOMAIN q = 1..n
    BY <1>2
  <2>2. i \in DOMAIN q
    BY <1>10, <2>1
  <2>3. CASE j \in DOMAIN q
    BY <1>4, <1>10, <2>2, <2>3
  <2>4. CASE j = n + 1
    <3>1. p[j] = x /\ p[i] = q[i]
      BY <1>10, <2>2, <2>4
    <3>2. q[i] \in Junctions!Members(q)
      BY <2>2 DEF Junctions!Members
    <3>3. q[i][1] = s
      BY <1>6, <3>1
    <3>4. q[i] \in {<<s, d>> : d \in 1..c}
      BY <1>3, <3>2, <3>3 DEF c
    <3>5. PICK d \in 1..c : q[i] = <<s, d>>
      BY <3>4
    <3>6. q[i][2] = d /\ d < c + 1
      BY <1>5, <3>5
    <3> QED BY <1>6, <3>1, <3>6
  <2> QED BY <1>10, <2>3, <2>4
<1>13. sent'[1] \in Seq(Sources \X Nat)
  BY <1>9, <1>10
<1>14. SelectHeld'
  BY <1>1, <1>2, <1>7, <1>9, <1>11, <1>12, <1>13 DEF SelectHeld
<1> QED BY <1>1, <1>14 DEF JunctionHeld, ForkHeld, OrderedHeld

\* A selection that hands nothing over.
LEMMA SelectRests ==
    ASSUME JunctionHeld, junction = "select", UNCHANGED <<junction, fetched, sent>>,
           stage' \in {"idle", "gone"}, DOMAIN input' = Sources,
           result' = "end" => stage' = "gone" /\ \A s \in Sources : input'[s] # "open"
    PROVE  JunctionHeld'
<1>1. \A s : Junctions!Count(s)' = Junctions!Count(s)
  BY DEF Junctions!Count
<1>2. Junctions!Members(sent[1])' = Junctions!Members(sent[1])
  BY DEF Junctions!Members
<1>3. SelectHeld'
  BY <1>1, <1>2 DEF JunctionHeld, SelectHeld
<1> QED BY <1>3 DEF JunctionHeld, ForkHeld, OrderedHeld

LEMMA OrderedPollHeld ==
    ASSUME JunctionHeld, NEW r \in {"pending", "item", "err"}, Junctions!OrderedPoll(r)
    PROVE  JunctionHeld'
<1> DEFINE n == Len(fetched)
           q == sent[1]
<1>1. /\ junction = "ordered" /\ stage = "idle" /\ UNCHANGED junction
      /\ IF n + 1 > MaxItems
         THEN result' = "end" /\ stage' = "gone" /\ UNCHANGED <<fetched, sent>>
         ELSE /\ result' = r /\ stage' = "idle"
              /\ fetched' = IF r = "pending" THEN fetched ELSE Append(fetched, <<n + 1, 1, 1>>)
              /\ sent' = IF r = "item" THEN [sent EXCEPT ![1] = Append(@, n + 1)] ELSE sent
  BY DEF Junctions!OrderedPoll, Junctions!Answer
<1>2. /\ fetched \in Seq(Nat \X {1} \X {1}) /\ n <= MaxItems
      /\ DOMAIN sent = Junctions!Sinks /\ q \in Seq(Nat)
      /\ \A x \in Junctions!Members(q) : x <= n
      /\ Junctions!Increasing(q)
  BY <1>1 DEF JunctionHeld, OrderedHeld
<1>3. n \in Nat /\ MaxItems \in Nat
  BY <1>2, AsyncConstants
<1>4. SUFFICES OrderedHeld'
  BY <1>1 DEF JunctionHeld, ForkHeld, SelectHeld
<1>5. CASE n + 1 > MaxItems
  <2>1. n = MaxItems
    BY <1>2, <1>3, <1>5
  <2>2. result' = "end" /\ stage' = "gone" /\ UNCHANGED <<fetched, sent>>
    BY <1>1, <1>5
  <2> QED BY <1>2, <2>1, <2>2 DEF OrderedHeld
<1>6. CASE ~(n + 1 > MaxItems)
  <2>1. /\ result' = r /\ stage' = "idle" /\ result' # "end"
        /\ fetched' = IF r = "pending" THEN fetched ELSE Append(fetched, <<n + 1, 1, 1>>)
        /\ sent' = IF r = "item" THEN [sent EXCEPT ![1] = Append(@, n + 1)] ELSE sent
    BY <1>1, <1>6
  <2>2. CASE r = "pending"
    <3>1. UNCHANGED <<fetched, sent>>
      BY <2>1, <2>2
    <3> QED BY <1>2, <2>1, <3>1 DEF OrderedHeld
  <2>3. CASE r # "pending"
    <3>1. fetched' = Append(fetched, <<n + 1, 1, 1>>)
      BY <2>1, <2>3
    <3>2. <<n + 1, 1, 1>> \in Nat \X {1} \X {1}
      BY <1>3
    <3>3. /\ fetched' \in Seq(Nat \X {1} \X {1}) /\ Len(fetched') = n + 1
      BY <1>2, <3>1, <3>2
    <3>4. n + 1 <= MaxItems
      BY <1>3, <1>6
    <3>5. Junctions!Members(q) \subseteq Nat
      BY <1>2 DEF Junctions!Members
    <3> HIDE DEF n
    <3>6. \A x \in Junctions!Members(q) : x <= n + 1 /\ x < n + 1
      BY <1>2, <1>3, <3>5
    <3>7. CASE r = "item"
      <4>1. Append(q, n + 1) = q \o <<n + 1>> /\ 1 \in Junctions!Sinks /\ n + 1 \in Nat
        <5>1. \A p \in Seq(Nat), x \in Nat : Append(p, x) = p \o <<x>>
          OBVIOUS
        <5>2. n + 1 \in Nat /\ q \in Seq(Nat)
          BY <1>2, <1>3
        <5> QED BY <5>1, <5>2 DEF Junctions!Sinks
      <4>2. sent'[1] = q \o <<n + 1>> /\ DOMAIN sent' = Junctions!Sinks
        BY <1>2, <2>1, <3>7, <4>1
      <4> HIDE DEF q
      <4>3. /\ q \o <<n + 1>> \in Seq(Nat)
            /\ Streams!Members(q \o <<n + 1>>) = Streams!Members(q) \cup {n + 1}
            /\ Streams!Increasing(q \o <<n + 1>>)
        BY <1>2, <3>6, <4>1, JunctionOperators, OneMore
      <4>4. \A x \in Junctions!Members(sent'[1]) : x <= n + 1
        BY <1>3, <3>6, <4>2, <4>3, JunctionOperators
      <4>5. Junctions!Increasing(sent'[1]) /\ sent'[1] \in Seq(Nat)
        BY <4>2, <4>3, JunctionOperators
      <4> QED BY <2>1, <3>3, <3>4, <4>2, <4>4, <4>5 DEF OrderedHeld
    <3>8. CASE r # "item"
      <4>1. sent' = sent
        BY <2>1, <3>8
      <4> QED BY <1>2, <2>1, <3>3, <3>4, <3>6, <4>1 DEF OrderedHeld
    <3> QED BY <3>7, <3>8
  <2> QED BY <2>2, <2>3
<1> QED BY <1>5, <1>6

LEMMA JunctionDelivers ==
    JunctionInv /\ JunctionHeld /\ Junctions!Next => JunctionHeld'
<1> SUFFICES ASSUME JunctionInv, JunctionHeld, Junctions!Next PROVE JunctionHeld'
  OBVIOUS
<1>1. JunctionHeld /\ ForkHeld
  BY DEF JunctionHeld
<1>2. stage \in {"push", "loop", "finish"} => junction \notin {"select", "ordered"}
  BY DEF JunctionHeld, SelectHeld, OrderedHeld
\* The junction is one of the three: otherwise nothing is said of it.
<1>3. ASSUME junction \notin {"fork", "select", "ordered"}, UNCHANGED junction
      PROVE  JunctionHeld'
  BY <1>3 DEF JunctionHeld, ForkHeld, SelectHeld, OrderedHeld
<1>4. CASE Junctions!PollFork
  <2>1. /\ junction = "fork" /\ stage = "idle"
        /\ stage' = (IF finished # "none" THEN "finish" ELSE "push")
        /\ UNCHANGED <<junction, fetched, sent, buf, unflushed, finished, result>>
    BY <1>4 DEF Junctions!PollFork
  <2>2. result' \notin {"done", "err"}
    BY <2>1 DEF JunctionHeld, ForkHeld
  <2>3. finished # "none" => \A s \in Junctions!Sinks : buf[s] = <<>>
    BY <2>1 DEF JunctionHeld, ForkHeld
  <2> QED BY <1>1, <2>1, <2>2, <2>3, ForkRests
<1>5. CASE Junctions!Pushed
  <2>1. /\ stage = "push" /\ stage' = "loop" /\ \A s \in Junctions!Sinks : buf[s] = <<>>
        /\ UNCHANGED <<junction, fetched, sent, buf, unflushed, finished, result>>
    BY <1>5 DEF Junctions!Pushed
  <2>2. CASE junction = "fork"
    <3>1. finished' = "none" /\ result' \notin {"done", "err"}
      BY <2>1, <2>2 DEF JunctionHeld, ForkHeld
    <3> QED BY <1>1, <2>1, <2>2, <3>1, ForkRests
  <2> QED BY <1>2, <1>3, <2>1, <2>2
<1>6. CASE Junctions!ForkFails
  <2>1. /\ junction = "fork" /\ stage' = "gone" /\ result' = "sink_err"
        /\ UNCHANGED <<junction, fetched, sent, buf, unflushed, finished>>
    BY <1>6 DEF Junctions!ForkFails, Junctions!Answer
  <2>2. finished # "none" => \A s \in Junctions!Sinks : buf[s] = <<>>
    BY <2>1 DEF JunctionHeld, ForkHeld
  <2> QED BY <1>1, <2>1, <2>2, ForkRests
<1>7. CASE \E s \in Junctions!Sinks, a \in BOOLEAN :
              Junctions!Push(s, a) \/ Junctions!ForkItem(s, a)
  BY <1>7, PushHeld, ForkItemHeld
\* The outputs are asked to flush: all have when the fork is done.
<1>8. CASE \E ready \in SUBSET Junctions!Sinks :
              \/ Junctions!ForkPending(ready) \/ Junctions!Finish(ready)
              \/ \E how \in {"ended", "failed"} : Junctions!ForkOver(how, ready)
  <2> PICK ready \in SUBSET Junctions!Sinks :
              \/ Junctions!ForkPending(ready) \/ Junctions!Finish(ready)
              \/ \E how \in {"ended", "failed"} : Junctions!ForkOver(how, ready)
    BY <1>8
  <2> USE DEF Junctions!ForkPending, Junctions!Finish, Junctions!ForkOver,
              Junctions!PollCompleteBoth, Junctions!Answer
  <2>1. /\ stage \in {"loop", "finish"} /\ UNCHANGED <<junction, fetched, sent, buf>>
        /\ unflushed' = unflushed \ ready
    OBVIOUS
  <2>2. \/ stage' = "idle" /\ result' = "pending"
        \/ stage' = "gone" /\ result' \in {"done", "err"} /\ ready = Junctions!Sinks
    OBVIOUS
  <2>3. CASE junction = "fork"
    <3>1. \A s \in Junctions!Sinks : buf[s] = <<>>
      BY <2>1, <2>3 DEF JunctionHeld, ForkHeld
    <3>2. ready = Junctions!Sinks => unflushed' = {}
      BY <2>1 DEF JunctionInv
    <3> HIDE DEF Junctions!ForkPending, Junctions!Finish, Junctions!ForkOver
    <3> QED BY <1>1, <2>1, <2>2, <2>3, <3>1, <3>2, ForkRests
  <2> QED BY <1>2, <1>3, <2>1, <2>3
<1>9. CASE \E s \in Sources : Junctions!SelectItem(s)
  BY <1>9, SelectItemHeld
<1>10. CASE \E s \in Sources : Junctions!SelectError(s)
  <2> PICK s \in Sources : Junctions!SelectError(s)
    BY <1>10
  <2>1. /\ junction = "select" /\ stage' = "idle" /\ result' = "err"
        /\ input' = [input EXCEPT ![s] = "failed"]
        /\ UNCHANGED <<junction, fetched, sent>>
    BY DEF Junctions!SelectError, Junctions!Answer
  <2>2. DOMAIN input' = Sources
    BY <2>1 DEF JunctionHeld, SelectHeld
  <2> QED BY <1>1, <2>1, <2>2, SelectRests
<1>11. CASE \E ends \in SUBSET Sources : Junctions!SelectWaits(ends)
  <2> PICK ends \in SUBSET Sources : Junctions!SelectWaits(ends)
    BY <1>11
  <2> DEFINE left == {s \in Sources : input[s] = "open"} \ ends
  <2>1. /\ junction = "select" /\ UNCHANGED <<junction, fetched, sent>>
        /\ input' = [s \in DOMAIN input |-> IF s \in ends THEN "ended" ELSE input[s]]
        /\ IF left = {} THEN result' = "end" /\ stage' = "gone"
                        ELSE result' = "pending" /\ stage' = "idle"
    BY DEF Junctions!SelectWaits, Junctions!Answer
  <2>2. DOMAIN input = Sources
    BY <2>1 DEF JunctionHeld, SelectHeld
  <2>3. DOMAIN input' = Sources /\ stage' \in {"idle", "gone"}
    BY <2>1, <2>2
  <2>4. result' = "end" => stage' = "gone" /\ \A s \in Sources : input'[s] # "open"
    BY <2>1, <2>2
  <2> QED BY <1>1, <2>1, <2>3, <2>4, SelectRests
<1>12. CASE \E r \in {"pending", "item", "err"} : Junctions!OrderedPoll(r)
  BY <1>12, OrderedPollHeld
<1> QED BY <1>4, <1>5, <1>6, <1>7, <1>8, <1>9, <1>10, <1>11, <1>12 DEF Junctions!Next

-----------------------------------------------------------------------------
(* The composition again.                                                    *)

DeliveryInv ==
    /\ active = "stream" => StreamHeld
    /\ active = "weight" => QueueHeld
    /\ active = "junction" => JunctionHeld

LEMMA DeliveryStart == Init => DeliveryInv
BY HeldStart, QueueHeldStart, JunctionHeldStart DEF Init, DeliveryInv

LEMMA DeliveryAtRest ==
    /\ StreamHeld /\ UNCHANGED streamVars => StreamHeld'
    /\ QueueHeld /\ UNCHANGED weightVars => QueueHeld'
    /\ JunctionHeld /\ UNCHANGED junctionVars => JunctionHeld'
<1>1. StreamHeld /\ UNCHANGED streamVars => StreamHeld'
  BY DEF streamVars, StreamHeld, SplitHeld, TimeoutHeld, CollectHeld, BatchHeld,
         PlainHeld, FirstError
<1>2. QueueHeld /\ UNCHANGED weightVars => QueueHeld'
  BY DEF weightVars, QueueHeld, InOrder, Overtaken, Behind, WithinLimit
<1>3. JunctionHeld /\ UNCHANGED junctionVars => JunctionHeld'
  <2> SUFFICES ASSUME JunctionHeld, UNCHANGED junctionVars PROVE JunctionHeld'
    OBVIOUS
  <2>1. UNCHANGED <<junction, stage, fetched, input, buf, sent, unflushed, finished, result>>
    BY DEF junctionVars
  <2>2. \A s : /\ Junctions!Chosen(s)' = Junctions!Chosen(s)
               /\ Junctions!Count(s)' = Junctions!Count(s) /\ Line(s)' = Line(s)
    BY <2>1 DEF Junctions!Chosen, Junctions!Count, Line
  <2>3. ForkHeld'
    BY <2>1, <2>2 DEF JunctionHeld, ForkHeld
  <2>4. SelectHeld' /\ OrderedHeld'
    BY <2>1, <2>2 DEF JunctionHeld, SelectHeld, OrderedHeld
  <2> QED BY <2>3, <2>4 DEF JunctionHeld
<1> QED BY <1>1, <1>2, <1>3

LEMMA DeliveryStep == AdaptorInv /\ DeliveryInv /\ [Next]_vars => DeliveryInv'
<1> SUFFICES ASSUME AdaptorInv, DeliveryInv, [Next]_vars PROVE DeliveryInv'
  OBVIOUS
<1>1. CASE StreamStep
  <2>1. active = "stream" /\ active' = active /\ Streams!Next
    BY <1>1 DEF StreamStep
  <2> QED BY <2>1, StreamDelivers DEF AdaptorInv, DeliveryInv
<1>2. CASE WeightStep
  <2>1. active = "weight" /\ active' = active /\ Weighted!Next
    BY <1>2 DEF WeightStep
  <2> QED BY <2>1, QueueDelivers DEF AdaptorInv, DeliveryInv
<1>3. CASE JunctionStep
  <2>1. active = "junction" /\ active' = active /\ Junctions!Next
    BY <1>3 DEF JunctionStep
  <2> QED BY <2>1, JunctionDelivers DEF AdaptorInv, DeliveryInv
<1>4. CASE FutureStep \/ RetryStep \/ CellStep \/ StatsStep \/ DetectorStep
           \/ ConfigStep \/ LocalStep
  <2>1. active \notin {"stream", "weight", "junction"} /\ active' = active
    BY <1>4 DEF FutureStep, RetryStep, CellStep, StatsStep, DetectorStep,
                ConfigStep, LocalStep
  <2> QED BY <2>1 DEF DeliveryInv
<1>5. CASE UNCHANGED vars
  <2>1. UNCHANGED <<active, streamVars, weightVars, junctionVars>>
    BY <1>5 DEF vars
  <2> QED BY <2>1, DeliveryAtRest DEF DeliveryInv
<1> QED BY <1>1, <1>2, <1>3, <1>4, <1>5 DEF Next

(* What goes in comes out, in order: of the wrappers of futures_ext,         *)
(* futures_01_ext and futures_stats, of the weight-limited queues (with the  *)
(* weights on their books, and but for what futures 0.1 does when a future   *)
(* fails: the failure overtakes and no result behind it comes out), and of   *)
(* streamfork, select_all and futures_ordered; for any limits, weights,      *)
(* sources and lengths of streams.                                           *)
THEOREM DeliveryCorrect == Spec => []ItemsDelivered
<1>1. AdaptorInv /\ DeliveryInv => ItemsDelivered
  BY HeldImplies, QueueHeldImplies, JunctionHeldImplies
     DEF AdaptorInv, DeliveryInv, ItemsDelivered
<1> QED BY <1>1, AdaptorStart, AdaptorStep, DeliveryStart, DeliveryStep, PTL DEF Spec
=============================================================================
