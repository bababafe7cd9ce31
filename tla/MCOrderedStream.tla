--------------------------- MODULE MCOrderedStream ---------------------------
(***************************************************************************)
(* Trees of depth up to 3 below one or two roots, with weights that are    *)
(* too low or too high, budgets of 1 to 3, with and without a limit.       *)
(***************************************************************************)
EXTENDS OrderedStream

SomeLimits == {<<>>, <<0>>, <<1>>, <<3>>}

OneLimit == {<<3>>}

OneOrTwoRoots == {<<1>>, <<3, 0>>}

TwoOfOne == {<<1, 1>>}
==============================================================================
