---------------------------- MODULE LimitedByKey ----------------------------
(***************************************************************************)
(* limited_by_key_shardable (shed/bounded_traversal/src/stream.rs): an     *)
(* unordered traversal that parks an input while another input with the    *)
(* same key runs, or while the input's shard is busy.                      *)
(*                                                                         *)
(* The closure given to poll_fn owns all the state and runs without        *)
(* interruption; what is concurrent is the set of unfold futures in        *)
(* `scheduled', which finish in any order and with any children.           *)
(***************************************************************************)
EXTENDS Integers, Sequences, FiniteSets, SequencesExt, FiniteSetsExt

CONSTANTS
    Items,          \* the inputs, each with an identity of its own
    InitItems,      \* the sequence `init'
    KeyOf,          \* key_fn: the key of an input
    ShardOf,        \* key_fn: None (<<>>) or Some (<<shard key, max per shard>>)
    ScheduledMax,   \* bound on the unfolds that run at once
    MaxChildren     \* model bound: children one unfold may return

ASSUME LimitedByKeyConstants ==
    /\ ScheduledMax \in Nat \ {0}
    /\ MaxChildren \in Nat
    /\ InitItems \in Seq(Items)
    /\ IsInjective(InitItems)
    /\ DOMAIN KeyOf = Items
    /\ DOMAIN ShardOf = Items
    /\ \A i \in Items : ShardOf[i] # <<>> =>
          Len(ShardOf[i]) = 2 /\ ShardOf[i][2] \in Nat

VARIABLES
    unscheduled,        \* VecDeque of inputs
    scheduled,          \* FuturesUnordered: the inputs being unfolded
    waiting_for_key,    \* key -> queue of the inputs parked behind it
    waiting_for_shard,  \* shard key -> [inflight, queue]
    finished,           \* history: inputs whose unfold has finished
    ended               \* the stream returned Poll::Ready(None)

vars == <<unscheduled, scheduled, waiting_for_key, waiting_for_shard,
          finished, ended>>

-----------------------------------------------------------------------------

KeyQueued == UNION {ToSet(waiting_for_key[k]) : k \in DOMAIN waiting_for_key}

ShardQueued ==
    UNION {ToSet(waiting_for_shard[s].queue) : s \in DOMAIN waiting_for_shard}

Pending == ToSet(unscheduled) \cup KeyQueued \cup ShardQueued

Known == Pending \cup scheduled \cup finished

\* HashMap::insert and HashMap::remove on a function.
Put(map, k, v) == [x \in DOMAIN map \cup {k} |-> IF x = k THEN v ELSE map[x]]

Without(map, k) == Restrict(map, DOMAIN map \ {k})

HasShard(i) == ShardOf[i] # <<>>

\* waiting_for_shard.entry(shard_key).or_default()
ShardEntry(s) ==
    IF s \in DOMAIN waiting_for_shard THEN waiting_for_shard[s]
    ELSE [inflight |-> 0, queue |-> <<>>]

\* `*inflight > max_per_shard'
ShardBusy(i) ==
    HasShard(i) /\ ShardEntry(ShardOf[i][1]).inflight > ShardOf[i][2]

Init ==
    /\ unscheduled = InitItems
    /\ scheduled = {}
    /\ waiting_for_key = <<>>
    /\ waiting_for_shard = <<>>
    /\ finished = {}
    /\ ended = FALSE

MutantHasSlot == Cardinality(scheduled) <= ScheduledMax /\ unscheduled # <<>>

\* Condition of the inner while: a free slot and an input to consider.
HasSlot == Cardinality(scheduled) < ScheduledMax /\ unscheduled # <<>>

\* The first input has a key that is taken: park it behind that key.
ParkOnKey ==
    /\ HasSlot
    /\ LET i == Head(unscheduled)
       IN  /\ KeyOf[i] \in DOMAIN waiting_for_key
           /\ waiting_for_key' =
                 [waiting_for_key EXCEPT ![KeyOf[i]] = Append(@, i)]
    /\ unscheduled' = Tail(unscheduled)
    /\ UNCHANGED <<scheduled, waiting_for_shard, finished, ended>>

MutantParkOnShard ==
    /\ HasSlot
    /\ KeyOf[Head(unscheduled)] \notin DOMAIN waiting_for_key
    /\ ShardBusy(Head(unscheduled))
    /\ unscheduled' = Append(Tail(unscheduled), Head(unscheduled))
    /\ UNCHANGED <<scheduled, waiting_for_key, waiting_for_shard, finished,
                   ended>>

\* Its key is free but its shard is busy: park it behind the shard.
ParkOnShard ==
    /\ HasSlot
    /\ LET i == Head(unscheduled)
           s == ShardOf[i][1]
       IN  /\ KeyOf[i] \notin DOMAIN waiting_for_key
           /\ ShardBusy(i)
           /\ waiting_for_shard' =
                 Put(waiting_for_shard, s,
                     [ShardEntry(s) EXCEPT !.queue = Append(@, i)])
    /\ unscheduled' = Tail(unscheduled)
    /\ UNCHANGED <<scheduled, waiting_for_key, finished, ended>>

\* Neither: count it in its shard, take the key and start the unfold.
StartUnfold ==
    /\ HasSlot
    /\ LET i == Head(unscheduled)
           s == ShardOf[i][1]
       IN  /\ KeyOf[i] \notin DOMAIN waiting_for_key
           /\ ~ShardBusy(i)
           /\ waiting_for_shard' =
                 IF HasShard(i)
                 THEN Put(waiting_for_shard, s,
                          [ShardEntry(s) EXCEPT !.inflight = @ + 1])
                 ELSE waiting_for_shard
           /\ waiting_for_key' = Put(waiting_for_key, KeyOf[i], <<>>)
           /\ scheduled' = scheduled \cup {i}
    /\ unscheduled' = Tail(unscheduled)
    /\ UNCHANGED <<finished, ended>>

\* What is left of waiting_for_key when an unfold with key k finishes: the
\* entry is removed, its first input taken out, and the entry put back only
\* if inputs remain in it.
KeyReleased(k) ==
    IF k \notin DOMAIN waiting_for_key THEN waiting_for_key
    ELSE IF Len(waiting_for_key[k]) > 1
         THEN [waiting_for_key EXCEPT ![k] = Tail(@)]
         ELSE Without(waiting_for_key, k)

\* The input taken out of key k's queue, if any, which is started at once.
NextOfKey(k) ==
    IF k \in DOMAIN waiting_for_key /\ waiting_for_key[k] # <<>>
    THEN {Head(waiting_for_key[k])}
    ELSE {}

MutantReleasedShard(i) == {}

\* The shard of input i, when it has an entry.
ReleasedShard(i) == {s \in DOMAIN waiting_for_shard :
                        HasShard(i) /\ s = ShardOf[i][1]}

\* Its counter goes down by one, not below zero (saturating_sub), and its
\* first parked input is taken out ...
ShardReleased(i) ==
    [s \in DOMAIN waiting_for_shard |->
        IF s \notin ReleasedShard(i) THEN waiting_for_shard[s]
        ELSE [inflight |-> Max({waiting_for_shard[s].inflight - 1, 0}),
              queue |-> IF waiting_for_shard[s].queue = <<>> THEN <<>>
                        ELSE Tail(waiting_for_shard[s].queue)]]

\* ... and goes back to the front of the unscheduled inputs.
NextOfShard(i) ==
    LET some == {s \in ReleasedShard(i) : waiting_for_shard[s].queue # <<>>}
    IN  IF some = {} THEN <<>>
        ELSE <<Head(waiting_for_shard[ShardOf[i][1]].queue)>>

\* The sequences of children an unfold may return: new inputs.  An unfold
\* that returns None or an error has none.
Children ==
    {kids \in UNION {[1..n -> Items \ Known] : n \in 0..MaxChildren} :
        IsInjective(kids)}

\* scheduled.poll_next yields input i, with its children.
UnfoldDone ==
    /\ ~HasSlot
    /\ \E i \in scheduled, kids \in Children :
          /\ scheduled' = (scheduled \ {i}) \cup NextOfKey(KeyOf[i])
          /\ waiting_for_key' = KeyReleased(KeyOf[i])
          /\ waiting_for_shard' = ShardReleased(i)
          /\ unscheduled' = Reverse(kids) \o NextOfShard(i) \o unscheduled
          /\ finished' = finished \cup {i}
    /\ UNCHANGED ended

\* Top of the loop: nothing runs and nothing is left to schedule.
EndOfStream ==
    /\ scheduled = {}
    /\ unscheduled = <<>>
    /\ ended' = TRUE
    /\ UNCHANGED <<unscheduled, scheduled, waiting_for_key, waiting_for_shard,
                   finished>>

Next == ParkOnKey \/ ParkOnShard \/ StartUnfold \/ UnfoldDone \/ EndOfStream

Spec == Init /\ [][Next]_vars

\* The consumer polls the stream to its end, and the unfolds finish.
FairSpec == Spec /\ WF_vars(Next)

-----------------------------------------------------------------------------
(* Properties.                                                             *)

ShardEntries == [inflight : Nat, queue : Seq(Items)]

\* Every variable keeps the type of its Rust counterpart.
TypeOK ==
    /\ unscheduled \in Seq(Items)
    /\ scheduled \subseteq Items
    /\ waiting_for_key \in [DOMAIN waiting_for_key -> Seq(Items)]
    /\ waiting_for_shard \in [DOMAIN waiting_for_shard -> ShardEntries]
    /\ finished \subseteq Items
    /\ ended \in BOOLEAN

\* Inputs parked behind a key are always behind a running one.
KeyWaitersServed ==
    \A k \in DOMAIN waiting_for_key : \E i \in scheduled : KeyOf[i] = k

\* Inputs parked behind a shard have another input of that shard ahead of
\* them, running or on its way to run, whose end will release them.
ShardWaitersServed ==
    \A s \in DOMAIN waiting_for_shard :
        waiting_for_shard[s].queue # <<>> =>
            \E i \in scheduled \cup ToSet(unscheduled) \cup KeyQueued :
                HasShard(i) /\ ShardOf[i][1] = s

\* The count of a shard never exceeds the unfolds of that shard that run, so
\* a shard whose unfolds are over is never taken for busy.
InflightNotOver ==
    \A s \in DOMAIN waiting_for_shard :
        waiting_for_shard[s].inflight <=
            Cardinality({i \in scheduled : HasShard(i) /\ ShardOf[i][1] = s})

\* No input is stranded: whatever is parked, the end of an unfold that runs
\* or will run takes it out, so the closure cannot return None, or wait for
\* ever, with inputs in either map.
WaitersServed == KeyWaitersServed /\ ShardWaitersServed /\ InflightNotOver

\* The traversal is an unfold stream: every input is unfolded exactly once,
\* at most scheduled_max at a time, and None comes when none is left.
Abstract == INSTANCE UnfoldStream WITH pending <- Pending, running <- scheduled

IsUnfoldStream == Abstract!Spec

\* A consumer that keeps polling sees the end of the stream.
StreamEnds == <>ended

-----------------------------------------------------------------------------
(* What the documentation says and the code does not do.                   *)

\* stream.rs:81: "prevents items with duplicate keys executing concurrently".
DuplicateKeysExcluded ==
    \A i, j \in scheduled : KeyOf[i] = KeyOf[j] => i = j
=============================================================================
