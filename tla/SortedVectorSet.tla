--------------------------- MODULE SortedVectorSet ---------------------------
(* sorted_vector_map/src/set.rs: an ordered set kept in a sorted vector.     *)
(* Elements that compare equal can still differ (Ord is the element type's), *)
(* so an element is a pair: the key it is compared by, and the rest of it.   *)
(* The set operations walk two sets with one merging iterator.               *)
EXTENDS Integers, Sequences, FiniteSets, TLC, SequencesExt

CONSTANTS Keys, Vals, Vectors

VARIABLES vec, rest, op, out

vars == <<vec, rest, op, out>>

Nothing == [items |-> <<>>, panic |-> FALSE]

find_index(v, k) == [ok |-> \E i \in DOMAIN v : v[i][1] = k,
                     index |-> Cardinality({i \in DOMAIN v : v[i][1] < k})]

get(v, k) == LET f == find_index(v, k) IN IF f.ok THEN <<v[f.index + 1]>> ELSE <<>>

(* The element replaces the equal one, which is returned; insert() only says *)
(* whether there was one.                                                    *)
replace(v, e) ==
    IF v = <<>> \/ Last(v)[1] < e[1] THEN Append(v, e)
    ELSE LET f == find_index(v, e[1])
         IN  IF f.ok THEN [v EXCEPT ![f.index + 1] = e] ELSE InsertAt(v, f.index + 1, e)

take(v, k) == LET f == find_index(v, k) IN IF f.ok THEN RemoveAt(v, f.index + 1) ELSE v

DedupIter(s) ==
    LET last == SetToSortSeq({i \in DOMAIN s : i < Len(s) => s[i + 1][1] > s[i][1]}, <)
    IN  [n \in DOMAIN last |-> s[last[n]]]

(* OperationInner: the two sets in step, each pair holding the next element  *)
(* of the left set, of the right set, or of both when they are equal.        *)
OperationInner(l, r) ==
    LET from[i \in 1..Len(l) + 1, j \in 1..Len(r) + 1] ==
            IF i > Len(l) /\ j > Len(r) THEN <<>>
            ELSE IF j > Len(r) \/ (i <= Len(l) /\ l[i][1] < r[j][1])
                 THEN <<[left |-> <<l[i]>>, right |-> <<>>]>> \o from[i + 1, j]
            ELSE IF i > Len(l) \/ l[i][1] > r[j][1]
                 THEN <<[left |-> <<>>, right |-> <<r[j]>>]>> \o from[i, j + 1]
            ELSE <<[left |-> <<l[i]>>, right |-> <<r[j]>>]>> \o from[i + 1, j + 1]
    IN  from[1, 1]

(* Mutant: on equal elements both come out, the left one first.              *)
MutantMergeIter(l, new) ==
    FlattenSeq([i \in DOMAIN OperationInner(l, DedupIter(new)) |->
        LET p == OperationInner(l, DedupIter(new))[i] IN p.left \o p.right])

MergeIter(l, new) ==
    FlattenSeq([i \in DOMAIN OperationInner(l, DedupIter(new)) |->
        LET p == OperationInner(l, DedupIter(new))[i] IN IF p.right = <<>> THEN p.left ELSE p.right])

difference(l, r) ==
    FlattenSeq([i \in DOMAIN OperationInner(l, r) |->
        LET p == OperationInner(l, r)[i] IN IF p.right = <<>> THEN p.left ELSE <<>>])

symmetric_difference(l, r) ==
    FlattenSeq([i \in DOMAIN OperationInner(l, r) |->
        LET p == OperationInner(l, r)[i] IN IF <<>> \in {p.left, p.right} THEN p.left \o p.right ELSE <<>>])

intersection(l, r) ==
    FlattenSeq([i \in DOMAIN OperationInner(l, r) |->
        LET p == OperationInner(l, r)[i] IN IF p.right # <<>> THEN p.left ELSE <<>>])

union(l, r) ==
    FlattenSeq([i \in DOMAIN OperationInner(l, r) |->
        LET p == OperationInner(l, r)[i] IN IF p.right # <<>> THEN p.right ELSE p.left])

is_disjoint(self, other) == intersection(self, other) = <<>>

is_subset(self, other) == difference(other, self) = <<>>

is_superset(self, other) == is_subset(other, self)

StableSort(s) ==
    LET before(a, b) == s[a][1] < s[b][1] \/ (s[a][1] = s[b][1] /\ a < b)
        idx == SetToSortSeq(DOMAIN s, before)
    IN  [n \in DOMAIN s |-> s[idx[n]]]

(* A sorted vector is scanned for equal neighbours before it is taken over.  *)
Deduplicated(new) ==
    LET dup == {i \in 1..Len(new) - 1 : new[i][1] = new[i + 1][1]}
        first == CHOOSE i \in dup : \A j \in dup : i <= j
    IN  IF dup = {} THEN new
        ELSE SubSeq(new, 1, first - 1) \o DedupIter(SubSeq(new, first, Len(new)))

extend_with_vec(v, s) ==
    LET new == StableSort(s)
    IN  IF s = <<>> THEN v
        ELSE IF Len(s) = 1 THEN replace(v, s[1])
        ELSE IF v = <<>> THEN Deduplicated(new)
        ELSE IF Last(v)[1] < new[1][1] THEN v \o Deduplicated(new)
        ELSE MergeIter(v, new)

range_index_start(v, b) ==
    LET f == find_index(v, b.key)
    IN  CASE b.kind = "unbounded" -> 0
          [] b.kind = "included" -> f.index
          [] b.kind = "excluded" -> IF f.ok THEN f.index + 1 ELSE f.index

range_index_end(v, b) ==
    LET f == find_index(v, b.key)
    IN  CASE b.kind = "unbounded" -> Len(v)
          [] b.kind = "included" -> IF f.ok THEN f.index + 1 ELSE f.index
          [] b.kind = "excluded" -> f.index

Bounds == {[kind |-> "unbounded", key |-> 0]} \cup [kind : {"included", "excluded"}, key : Keys]

Does(name, v, r, items, panics) ==
    /\ op = "none" /\ op' = name
    /\ vec' = v /\ rest' = r
    /\ out' = [items |-> items, panic |-> panics]

Query(name, items) == Does(name, vec, rest, items, FALSE)

Get(k) == Query("get", get(vec, k))

Replace(k, x) == Does("insert", replace(vec, <<k, x>>), rest, get(vec, k), FALSE)

Take(k) == Does("remove", take(vec, k), rest, get(vec, k), FALSE)

Retain(S) == Does("retain", SelectSeq(vec, LAMBDA e : e[1] \in S), rest, <<>>, FALSE)

AppendOther ==
    Does("append", IF rest = <<>> THEN vec ELSE IF vec = <<>> THEN rest ELSE MergeIter(vec, rest),
         <<>>, <<>>, FALSE)

InRange(lo, hi) ==
    LET start == range_index_start(vec, lo)
        end == range_index_end(vec, hi)
    IN  Does("range", vec, rest, IF start > end THEN <<>> ELSE SubSeq(vec, start + 1, end), start > end)

SplitOff(k) ==
    LET i == find_index(vec, k).index
    IN  Does("split_off", SubSeq(vec, 1, i), SubSeq(vec, i + 1, Len(vec)), <<>>, FALSE)

Extend(s) == Does("extend", extend_with_vec(vec, s), rest, <<>>, FALSE)

PopLast ==
    Does("pop_last", IF vec = <<>> THEN vec ELSE Front(vec), rest,
         IF vec = <<>> THEN <<>> ELSE <<Last(vec)>>, FALSE)

Truth(b) == IF b THEN <<<<1, 1>>>> ELSE <<>>

(* is_subset() and is_superset() answer each other's question, so their      *)
(* answers go by the name of the question.                                   *)
SetOperation ==
    \/ Query("difference", difference(vec, rest))
    \/ Query("symmetric_difference", symmetric_difference(vec, rest))
    \/ Query("intersection", intersection(vec, rest))
    \/ Query("union", union(vec, rest))
    \/ Query("is_disjoint", Truth(is_disjoint(vec, rest)))
    \/ Query("is_superset", Truth(is_subset(vec, rest)))
    \/ Query("is_subset", Truth(is_superset(vec, rest)))

Return == op # "none" /\ op' = "none" /\ out' = Nothing /\ UNCHANGED <<vec, rest>>

Init == vec = <<>> /\ rest = <<>> /\ op = "none" /\ out = Nothing

Next ==
    \/ \E k \in Keys : Get(k) \/ Take(k) \/ SplitOff(k)
    \/ \E k \in Keys, x \in Vals : Replace(k, x)
    \/ \E S \in SUBSET Keys : Retain(S)
    \/ \E lo, hi \in Bounds : InRange(lo, hi)
    \/ \E s \in Vectors : Extend(s)
    \/ AppendOther \/ SetOperation \/ PopLast \/ Return

Spec == Init /\ [][Next]_vars

AsMap(v) == [k \in {v[i][1] : i \in DOMAIN v} |-> get(v, k)[1][2]]

(* Elements are strictly ascending in both vectors.                          *)
Sorted == \A v \in {vec, rest} : \A i \in 1..Len(v) - 1 : v[i][1] < v[i + 1][1]

Abstract == INSTANCE OrderedMap WITH map <- AsMap(vec), rest <- AsMap(rest)

(* Every sequence of calls leaves and returns what an ordered set does, when *)
(* is_subset() and is_superset() are taken for each other (SetOperation).    *)
IsOrderedSet == Abstract!Spec

(* is_subset()'s own documentation: `other` contains at least all values in  *)
(* `self`.                                                                   *)
SubsetAsDocumented == is_subset(vec, rest) <=> DOMAIN AsMap(vec) \subseteq DOMAIN AsMap(rest)
=============================================================================
