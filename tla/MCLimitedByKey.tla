--------------------------- MODULE MCLimitedByKey ---------------------------
(***************************************************************************)
(* The two unordered traversal streams over the same seven inputs: the     *)
(* first four are given at the start, the others come as children of some  *)
(* unfold.  For limited_by_key_shardable three inputs share key "a" and    *)
(* two key "b"; five are of a shard allowed one key, one of another shard, *)
(* one of none.  bounded_traversal_stream parks nothing, so that the       *)
(* mapping to UnfoldStream is the same for both.                           *)
(***************************************************************************)
EXTENDS LimitedByKey

VARIABLES
    keyed,      \* the stream is limited_by_key_shardable
    pc          \* where the loop of bounded_traversal_stream is

Plain == INSTANCE BoundedTraversalStream

MCItems == 1..7

MCInit == <<1, 2, 3, 4>>

MCKeyOf == <<"a", "a", "b", "c", "a", "d", "b">>

MCShardOf ==
    << <<"s", 1>>, <<"s", 1>>, <<"s", 1>>, <<"s", 1>>, <<"s", 1>>,
       <<>>, <<"t", 0>> >>

MCVars == <<vars, keyed, pc>>

Start == Init /\ keyed \in BOOLEAN /\ pc = "top"

KeyedStep == keyed /\ Next /\ UNCHANGED <<keyed, pc>>

PlainStep ==
    /\ ~keyed /\ Plain!Next
    /\ ended' = (pc' = "end")
    /\ UNCHANGED <<keyed, waiting_for_key, waiting_for_shard>>

\* The consumer polls either stream to its end, and the unfolds finish.
FairStreams ==
    Start /\ [][KeyedStep \/ PlainStep]_MCVars /\ WF_MCVars(KeyedStep \/ PlainStep)
=============================================================================
