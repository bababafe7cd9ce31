----------------------------- MODULE OrderedMap -----------------------------
(* What an ordered map, or an ordered set whose equal elements can be told   *)
(* apart, promises: the abstract specification of SortedVectorMap and        *)
(* SortedVectorSet, whose documentation refers to the standard library's     *)
(* BTreeMap and BTreeSet.  `map` and `rest` are two containers, as functions *)
(* from their keys; `op` is the call being answered and `out` what it returns. *)
EXTENDS Integers, Sequences, FiniteSets, TLC, SequencesExt

CONSTANTS Keys, Vals,  \* keys and values of the calls
          Vectors      \* vectors of pairs that extend() is called with

VARIABLES map, rest, op, out

vars == <<map, rest, op, out>>

Items(m) == LET ks == SetToSortSeq(DOMAIN m, <) IN [i \in DOMAIN ks |-> <<ks[i], m[ks[i]]>>]

Only(m, S) == [k \in DOMAIN m \cap S |-> m[k]]

At(m, k) == Items(Only(m, {k}))

Insert(m, k, v) == (k :> v) @@ m

(* Later pairs of a vector replace earlier ones, and those of the map.       *)
Extended(m, s) == FoldLeft(LAMBDA acc, e : Insert(acc, e[1], e[2]), m, s)

(* The call `name` is made and leaves the containers m and r; it returns     *)
(* `items` or panics.                                                        *)
Answer(name, m, r, items, panics) ==
    /\ op = "none"
    /\ op' = name
    /\ map' = m
    /\ rest' = r
    /\ out' = [items |-> items, panic |-> panics]

Query(name, items) == Answer(name, map, rest, items, FALSE)

Return == op # "none" /\ op' = "none" /\ out' = [items |-> <<>>, panic |-> FALSE] /\ UNCHANGED <<map, rest>>

Bounds == {[kind |-> "unbounded", key |-> 0]} \cup [kind : {"included", "excluded"}, key : Keys]

AfterStart(b, k) == b.kind = "unbounded" \/ b.key < k \/ (b.kind = "included" /\ b.key = k)
BeforeEnd(b, k) == b.kind = "unbounded" \/ k < b.key \/ (b.kind = "included" /\ b.key = k)

(* A range panics when it starts after its end and passes over a key of the  *)
(* map on the way back; with no key in between it is empty.  (Both types say *)
(* that they panic whenever it starts after its end: RangeAsDocumented.)     *)
InRange(lo, hi) ==
    LET between == {k \in DOMAIN map : ~AfterStart(lo, k) /\ ~BeforeEnd(hi, k)}
    IN  Answer("range", map, rest,
               Items(Only(map, {k \in Keys : AfterStart(lo, k) /\ BeforeEnd(hi, k)})),
               between # {})

Highest(m) == {k \in DOMAIN m : \A j \in DOMAIN m : j <= k}

Common == DOMAIN map \cap DOMAIN rest

Truth(b) == IF b THEN <<<<1, 1>>>> ELSE <<>>

Next ==
    \/ Return
    \/ \E k \in Keys :
        \/ Query("get", At(map, k))
        \/ Answer("index", map, rest, At(map, k), k \notin DOMAIN map)
        \/ Answer("remove", Only(map, Keys \ {k}), rest, At(map, k), FALSE)
        \/ Answer("split_off", Only(map, {j \in Keys : j < k}),
                               Only(map, {j \in Keys : j >= k}), <<>>, FALSE)
        \/ \E v \in Vals :
            \/ Answer("insert", Insert(map, k, v), rest, At(map, k), FALSE)
            \/ LET m == map @@ (k :> v) IN Answer("or_insert", m, rest, At(m, k), FALSE)
            \/ Answer("and_modify", IF k \in DOMAIN map THEN Insert(map, k, v) ELSE map,
                      rest, At(map, k), FALSE)
    \/ \E S \in SUBSET Keys : Answer("retain", Only(map, S), rest, <<>>, FALSE)
    \/ Answer("append", rest @@ map, <<>>, <<>>, FALSE)
    \/ \E s \in Vectors : Answer("extend", Extended(map, s), rest, <<>>, FALSE)
    \/ Answer("pop_last", Only(map, Keys \ Highest(map)), rest, Items(Only(map, Highest(map))), FALSE)
    \/ \E lo, hi \in Bounds : InRange(lo, hi)
    \/ Query("iter", Items(map))
    \/ \E m \in {map @@ rest, rest @@ map} :
        \/ Query("union", Items(m))
        \/ Query("intersection", Items(Only(m, Common)))
        \/ Query("difference", Items(Only(map, Keys \ Common)))
        \/ Query("symmetric_difference", Items(Only(m, Keys \ Common)))
    \/ Query("is_disjoint", Truth(Common = {}))
    \/ Query("is_subset", Truth(DOMAIN map \subseteq DOMAIN rest))
    \/ Query("is_superset", Truth(DOMAIN rest \subseteq DOMAIN map))

Init == map = <<>> /\ rest = <<>> /\ op = "none" /\ out = [items |-> <<>>, panic |-> FALSE]

Spec == Init /\ [][Next]_vars
=============================================================================
