------------------------------- MODULE HashMemo -------------------------------
(* hash_memo: keys that carry the hash of the value they wrap, and the       *)
(* MemoHasher that takes it over instead of hashing it.  Threads look a key  *)
(* up in a map whose hashers come from BuildMemoHasher; a lazy key is shared *)
(* by them and filled by the first one to hash it (std::sync::OnceLock).     *)
(* A value is the sequence of numbers its Hash writes.  The inner hasher     *)
(* (external) is any function of what was written to it; the model takes an  *)
(* injective one, which tells apart whatever a hasher could.                 *)
EXTENDS Integers, Sequences, SequencesExt

CONSTANTS Threads, Values,  \* non-empty sequences of 1..8
          Places            \* sequences of "key" and "field": where in a compound key

VARIABLES place,  \* the compound key of the map, <<"key">> when there is none
          key,    \* [wrap, val]: the key each thread hashes
          lazy,   \* LazyHashMemoizer::hash_memo, 0 while unset
          hasher, \* each thread's MemoHasher
          todo,   \* what each thread has still to write
          result  \* what its finish() returned, 0 before

vars == <<place, key, lazy, hasher, todo, result>>

Field == 9  \* what the other fields of a compound key write

Inner(writes) == FoldLeft(LAMBDA acc, w : (acc * 31 + w) % 1000003, 1, writes)

New == [inner |-> <<>>, finish_memo |-> 0, needs_finish |-> FALSE, accept_memo |-> FALSE]

(* finish() on a hasher nothing was written to announces a memo.             *)
FinishValue(h) ==
    IF h.finish_memo # 0 THEN h.finish_memo
    ELSE IF h.needs_finish THEN Inner(h.inner) ELSE 0

finish(h) ==
    [h EXCEPT !.accept_memo = @ \/ (h.finish_memo = 0 /\ ~h.needs_finish),
              !.needs_finish = FALSE]

(* Mutant: a memo is taken for data.                                         *)
MutantWrite(h, v) == [h EXCEPT !.needs_finish = TRUE, !.inner = Append(@, v)]

write_u64(h, v) ==
    IF h.accept_memo THEN [h EXCEPT !.finish_memo = v]
    ELSE [h EXCEPT !.needs_finish = TRUE, !.inner = Append(@, v)]

(* write(), write_u8(), ... write_isize(): passed on.                        *)
write(h, v) == [h EXCEPT !.needs_finish = TRUE, !.inner = Append(@, v)]

(* Hash for EagerHashMemoizer and LazyHashMemoizer: an empty finish, then    *)
(* the memo.                                                                 *)
HashMemoized(h, memo) == write_u64(finish(h), memo)

(* hash_one() of a factory: what the memo holds.                             *)
hash_one(val) == Inner(val)

Write(t) ==
    /\ todo[t] # <<>> /\ Head(todo[t]) = "field"
    /\ hasher' = [hasher EXCEPT ![t] = write(@, Field)]
    /\ todo' = [todo EXCEPT ![t] = Tail(@)]
    /\ UNCHANGED <<place, key, lazy, result>>

(* The unwrapped value, as a lookup through Borrow hashes it.                *)
HashPlain(t) ==
    /\ todo[t] # <<>> /\ Head(todo[t]) = "key" /\ key[t].wrap = "plain"
    /\ hasher' = [hasher EXCEPT ![t] = FoldLeft(LAMBDA h, w : write_u64(h, w), @, key[t].val)]
    /\ todo' = [todo EXCEPT ![t] = Tail(@)]
    /\ UNCHANGED <<place, key, lazy, result>>

HashEager(t) ==
    /\ todo[t] # <<>> /\ Head(todo[t]) = "key" /\ key[t].wrap = "eager"
    /\ hasher' = [hasher EXCEPT ![t] = HashMemoized(@, hash_one(key[t].val))]
    /\ todo' = [todo EXCEPT ![t] = Tail(@)]
    /\ UNCHANGED <<place, key, lazy, result>>

HashLazy(t) ==
    /\ todo[t] # <<>> /\ Head(todo[t]) = "key" /\ key[t].wrap = "lazy"
    /\ lazy' = IF lazy = 0 THEN hash_one(key[t].val) ELSE lazy
    /\ hasher' = [hasher EXCEPT ![t] = HashMemoized(@, lazy')]
    /\ todo' = [todo EXCEPT ![t] = Tail(@)]
    /\ UNCHANGED <<place, key, result>>

Finish(t) ==
    /\ todo[t] = <<>> /\ result[t] = 0
    /\ result' = [result EXCEPT ![t] = FinishValue(hasher[t])]
    /\ hasher' = [hasher EXCEPT ![t] = finish(@)]
    /\ UNCHANGED <<place, key, lazy, todo>>

Init ==
    /\ key \in [Threads -> [wrap : {"plain", "eager", "lazy"}, val : Values]]
    /\ \A s, t \in Threads : key[s].wrap = "lazy" /\ key[t].wrap = "lazy" => key[s] = key[t]
    /\ lazy = 0
    /\ hasher = [t \in Threads |-> New]
    /\ place \in Places
    /\ todo = [t \in Threads |-> place]
    /\ result = [t \in Threads |-> 0]

Next == \E t \in Threads : Write(t) \/ HashPlain(t) \/ HashEager(t) \/ HashLazy(t) \/ Finish(t)

Spec == Init /\ [][Next]_vars

(* Hash agrees with Eq and Borrow.  A value that is the whole key has the    *)
(* hash the inner hasher gives it, wrapped or not, whoever computes it; in a *)
(* compound key, equal keys of one type have equal hashes.                   *)
HashesAgree ==
    \A s, t \in Threads : result[s] # 0 /\ result[t] # 0 =>
        /\ place = <<"key">> => result[t] = Inner(key[t].val)
        /\ key[s] = key[t] => result[s] = result[t]
=============================================================================
