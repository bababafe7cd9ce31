----------------------- MODULE BoundedTraversalStream -----------------------
(***************************************************************************)
(* bounded_traversal_stream (shed/bounded_traversal/src/stream.rs): unfold *)
(* an implicit tree with at most ScheduledMax unfolds running, yielding    *)
(* each output as it comes.  A failed unfold yields its error and the      *)
(* stream can be polled on.                                                *)
(***************************************************************************)
EXTENDS Integers, Sequences, FiniteSets, SequencesExt, FiniteSetsExt

CONSTANTS
    Items,          \* the inputs, each with an identity of its own
    InitItems,      \* the sequence `init'
    ScheduledMax,   \* bound on the unfolds that run at once
    MaxChildren     \* model bound: children one unfold may return

VARIABLES
    pc,             \* "top", "poll" or "end" of the loop in the closure
    unscheduled,    \* VecDeque of inputs
    scheduled,      \* FuturesUnordered: the inputs being unfolded
    finished        \* history: inputs whose unfold has finished

vars == <<pc, unscheduled, scheduled, finished>>

Known == ToSet(unscheduled) \cup scheduled \cup finished

-----------------------------------------------------------------------------

Init ==
    /\ pc = "top"
    /\ unscheduled = InitItems
    /\ scheduled = {}
    /\ finished = {}

\* min(unscheduled.len(), scheduled_max - scheduled.len())
Room == Min({Len(unscheduled), ScheduledMax - Cardinality(scheduled)})

MutantEndOfStream ==
    /\ pc = "top"
    /\ scheduled = {}
    /\ pc' = "end"
    /\ UNCHANGED <<unscheduled, scheduled, finished>>

\* Nothing runs and nothing waits: None.
EndOfStream ==
    /\ pc = "top"
    /\ scheduled = {}
    /\ unscheduled = <<>>
    /\ pc' = "end"
    /\ UNCHANGED <<unscheduled, scheduled, finished>>

\* Start the inputs at the front of the queue while there is room.
Drain ==
    /\ pc = "top"
    /\ scheduled # {} \/ unscheduled # <<>>
    /\ scheduled' = scheduled \cup ToSet(SubSeq(unscheduled, 1, Room))
    /\ unscheduled' = SubSeq(unscheduled, Room + 1, Len(unscheduled))
    /\ pc' = "poll"
    /\ UNCHANGED finished

Children ==
    {kids \in UNION {[1..n -> Items \ Known] : n \in 0..MaxChildren} :
        IsInjective(kids)}

\* Each child is pushed at the front.
Queued(kids) == Reverse(kids) \o unscheduled

\* An unfold succeeds: its children are queued and its output is yielded.
UnfoldDone ==
    /\ pc = "poll"
    /\ \E i \in scheduled, kids \in Children :
          /\ scheduled' = scheduled \ {i}
          /\ unscheduled' = Queued(kids)
          /\ finished' = finished \cup {i}
    /\ pc' = "top"

MutantUnfoldFailed ==
    /\ pc = "poll"
    /\ \E i \in scheduled :
          /\ scheduled' = scheduled \ {i}
          /\ unscheduled' = Append(unscheduled, i)
    /\ pc' = "top"
    /\ UNCHANGED finished

\* An unfold fails: its error is yielded, nothing else changes.
UnfoldFailed ==
    /\ pc = "poll"
    /\ \E i \in scheduled :
          /\ scheduled' = scheduled \ {i}
          /\ finished' = finished \cup {i}
    /\ pc' = "top"
    /\ UNCHANGED unscheduled

Next == EndOfStream \/ Drain \/ UnfoldDone \/ UnfoldFailed
        \/ (pc = "end" /\ UNCHANGED vars)

Spec == Init /\ [][Next]_vars
=============================================================================
