--------------------------- MODULE SortedVectorMap ---------------------------
(* sorted_vector_map/src/map.rs: an ordered map kept in a sorted vector of   *)
(* key and value pairs.  One action per method; `rest` is a second map, the  *)
(* `other` of append() and the result of split_off().  Positions are those   *)
(* of the vector, from 0 as in the code; sequences are indexed from 1.       *)
EXTENDS Integers, Sequences, FiniteSets, TLC, SequencesExt

CONSTANTS Keys, Vals, Vectors

VARIABLES vec, rest, op, out

vars == <<vec, rest, op, out>>

Nothing == [items |-> <<>>, panic |-> FALSE]

(* slice::binary_search_by on a sorted vector: whether the key is there, and *)
(* its position or the one it would be inserted at.                          *)
find_index(v, k) == [ok |-> \E i \in DOMAIN v : v[i][1] = k,
                     index |-> Cardinality({i \in DOMAIN v : v[i][1] < k})]

Found(v, k) == LET f == find_index(v, k) IN IF f.ok THEN <<v[f.index + 1]>> ELSE <<>>

(* DedupIter: of neighbours with equal keys only the last one comes out.     *)
DedupIter(s) ==
    LET last == SetToSortSeq({i \in DOMAIN s : i < Len(s) => s[i + 1][1] > s[i][1]}, <)
    IN  [n \in DOMAIN last |-> s[last[n]]]

(* MergeIter: the smaller head first; on equal keys left is dropped.         *)
MergeIter(l, new) ==
    LET r == DedupIter(new)
        from[i \in 1..Len(l) + 1, j \in 1..Len(r) + 1] ==
            IF i > Len(l) THEN SubSeq(r, j, Len(r))
            ELSE IF j > Len(r) THEN SubSeq(l, i, Len(l))
            ELSE IF l[i][1] < r[j][1] THEN <<l[i]>> \o from[i + 1, j]
            ELSE IF l[i][1] > r[j][1] THEN <<r[j]>> \o from[i, j + 1]
            ELSE <<r[j]>> \o from[i + 1, j + 1]
    IN  from[1, 1]

(* Mutant: the fast path also takes a key equal to the last one.             *)
MutantInsert(v, k, x) ==
    IF v = <<>> \/ Last(v)[1] <= k THEN Append(v, <<k, x>>)
    ELSE LET f == find_index(v, k)
         IN  IF f.ok THEN [v EXCEPT ![f.index + 1] = <<k, x>>]
             ELSE InsertAt(v, f.index + 1, <<k, x>>)

insert(v, k, x) ==
    IF v = <<>> \/ Last(v)[1] < k THEN Append(v, <<k, x>>)
    ELSE LET f == find_index(v, k)
         IN  IF f.ok THEN [v EXCEPT ![f.index + 1] = <<k, x>>]
             ELSE InsertAt(v, f.index + 1, <<k, x>>)

(* sort_by of the standard library: by key, equal keys in their old order.   *)
StableSort(s) ==
    LET before(a, b) == s[a][1] < s[b][1] \/ (s[a][1] = s[b][1] /\ a < b)
        idx == SetToSortSeq(DOMAIN s, before)
    IN  [n \in DOMAIN s |-> s[idx[n]]]

(* The sorted `new` without its duplicates: taken as it is up to the first.  *)
Deduplicated(new) ==
    LET dup == {i \in 1..Len(new) - 1 : new[i][1] = new[i + 1][1]}
        first == CHOOSE i \in dup : \A j \in dup : i <= j
    IN  IF dup = {} THEN new
        ELSE SubSeq(new, 1, first - 1) \o DedupIter(SubSeq(new, first, Len(new)))

extend_with_vec(v, s) ==
    LET new == StableSort(s)
    IN  IF s = <<>> THEN v
        ELSE IF Len(s) = 1 THEN insert(v, s[1][1], s[1][2])
        ELSE IF v = <<>> THEN Deduplicated(new)
        ELSE IF Last(v)[1] < new[1][1] THEN v \o Deduplicated(new)
        ELSE MergeIter(v, new)

(* The position a range starts at, and the one it ends before.               *)
range_index_start(v, b) ==
    LET f == find_index(v, b.key)
    IN  CASE b.kind = "unbounded" -> 0
          [] b.kind = "included" -> f.index
          [] b.kind = "excluded" -> IF f.ok THEN f.index + 1 ELSE f.index

range_index_end(v, b) ==
    LET f == find_index(v, b.key)
    IN  CASE b.kind = "unbounded" -> Len(v)
          [] b.kind = "included" -> IF f.ok THEN f.index + 1 ELSE f.index
          [] b.kind = "excluded" -> f.index

Bounds == {[kind |-> "unbounded", key |-> 0]} \cup [kind : {"included", "excluded"}, key : Keys]

(* A method returns `items`, or panics, and leaves the two vectors v and r.  *)
Does(name, v, r, items, panics) ==
    /\ op = "none" /\ op' = name
    /\ vec' = v /\ rest' = r
    /\ out' = [items |-> items, panic |-> panics]

Get(k) == Does("get", vec, rest, Found(vec, k), FALSE)

Index(k) == Does("index", vec, rest, Found(vec, k), ~find_index(vec, k).ok)

Insert(k, x) == Does("insert", insert(vec, k, x), rest, Found(vec, k), FALSE)

RemoveKey(k) ==
    LET f == find_index(vec, k)
    IN  Does("remove", IF f.ok THEN RemoveAt(vec, f.index + 1) ELSE vec, rest, Found(vec, k), FALSE)

Retain(S) == Does("retain", SelectSeq(vec, LAMBDA e : e[1] \in S), rest, <<>>, FALSE)

AppendOther ==
    Does("append", IF rest = <<>> THEN vec ELSE IF vec = <<>> THEN rest ELSE MergeIter(vec, rest),
         <<>>, <<>>, FALSE)

InRange(lo, hi) ==
    LET start == range_index_start(vec, lo)
        end == range_index_end(vec, hi)
    IN  Does("range", vec, rest, IF start > end THEN <<>> ELSE SubSeq(vec, start + 1, end), start > end)

SplitOff(k) ==
    LET i == find_index(vec, k).index
    IN  Does("split_off", SubSeq(vec, 1, i), SubSeq(vec, i + 1, Len(vec)), <<>>, FALSE)

(* entry(k): where the key is, or would be inserted; or_insert() and its     *)
(* variants fill a vacant entry, and_modify() and insert() change an         *)
(* occupied one.                                                             *)
EntryOrInsert(k, x) ==
    LET f == find_index(vec, k)
        v == IF f.ok THEN vec ELSE InsertAt(vec, f.index + 1, <<k, x>>)
    IN  Does("or_insert", v, rest, <<v[f.index + 1]>>, FALSE)

EntryAndModify(k, x) ==
    LET f == find_index(vec, k)
    IN  Does("and_modify", IF f.ok THEN [vec EXCEPT ![f.index + 1][2] = x] ELSE vec,
             rest, Found(vec, k), FALSE)

Iterate == Does("iter", vec, rest, vec, FALSE)

PopLast ==
    Does("pop_last", IF vec = <<>> THEN vec ELSE Front(vec), rest,
         IF vec = <<>> THEN <<>> ELSE <<Last(vec)>>, FALSE)

Extend(s) == Does("extend", extend_with_vec(vec, s), rest, <<>>, FALSE)

Return == op # "none" /\ op' = "none" /\ out' = Nothing /\ UNCHANGED <<vec, rest>>

Init == vec = <<>> /\ rest = <<>> /\ op = "none" /\ out = Nothing

Next ==
    \/ \E k \in Keys : Get(k) \/ Index(k) \/ RemoveKey(k) \/ SplitOff(k)
    \/ \E k \in Keys, x \in Vals : Insert(k, x) \/ EntryOrInsert(k, x) \/ EntryAndModify(k, x)
    \/ \E S \in SUBSET Keys : Retain(S)
    \/ \E lo, hi \in Bounds : InRange(lo, hi)
    \/ \E s \in Vectors : Extend(s)
    \/ AppendOther \/ Iterate \/ PopLast \/ Return

Spec == Init /\ [][Next]_vars

(* The vectors as maps: on equal keys the pair found first.                  *)
AsMap(v) == [k \in {v[i][1] : i \in DOMAIN v} |-> Found(v, k)[1][2]]

(* Keys are strictly ascending in both vectors: binary search is sound.      *)
Sorted == \A v \in {vec, rest} : \A i \in 1..Len(v) - 1 : v[i][1] < v[i + 1][1]

Abstract == INSTANCE OrderedMap WITH map <- AsMap(vec), rest <- AsMap(rest)

(* The sorted vector is an ordered map: whatever the sequence of calls, each *)
(* leaves and returns what the abstract map does, fast paths included.       *)
IsOrderedMap == Abstract!Spec

(* range()'s own documentation, here and in set.rs: "Panics if the range     *)
(* start is after the range end".                                            *)
RangeAsDocumented ==
    \A lo, hi \in Bounds \ {[kind |-> "unbounded", key |-> 0]} :
        hi.key < lo.key => range_index_start(vec, lo) > range_index_end(vec, hi)
=============================================================================
