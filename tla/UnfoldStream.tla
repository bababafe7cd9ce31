---------------------------- MODULE UnfoldStream ----------------------------
(***************************************************************************)
(* What the unordered traversal streams promise (bounded_traversal_stream  *)
(* and limited_by_key_shardable, shed/bounded_traversal/src/stream.rs):    *)
(* every input handed to the traversal is unfolded exactly once, at most   *)
(* ScheduledMax at a time, and the stream ends when none is left.  Which   *)
(* of the waiting inputs start, and when, is left open.                    *)
(***************************************************************************)
EXTENDS Integers, FiniteSets

CONSTANTS
    Items,          \* the inputs, each with an identity of its own
    ScheduledMax    \* bound on the unfolds that run at once

VARIABLES
    pending,        \* handed to the traversal, not started
    running,        \* being unfolded
    finished,       \* unfolded, successfully or not
    ended           \* the stream returned Poll::Ready(None)

vars == <<pending, running, finished, ended>>

Known == pending \cup running \cup finished

Init ==
    /\ pending \in SUBSET Items
    /\ running = {}
    /\ finished = {}
    /\ ended = FALSE

\* Some waiting inputs get a slot.
Start(S) ==
    /\ S \subseteq pending
    /\ S # {}
    /\ Cardinality(running \cup S) <= ScheduledMax
    /\ running' = running \cup S
    /\ pending' = pending \ S
    /\ UNCHANGED <<finished, ended>>

\* The unfold of i finishes and hands over children never seen before; the
\* slot may go to some of the inputs that were waiting.
Finish(i, kids, S) ==
    /\ i \in running
    /\ kids \cap Known = {}
    /\ S \subseteq pending
    /\ Cardinality((running \ {i}) \cup S) <= ScheduledMax
    /\ running' = (running \ {i}) \cup S
    /\ pending' = (pending \ S) \cup kids
    /\ finished' = finished \cup {i}
    /\ UNCHANGED ended

End ==
    /\ pending = {}
    /\ running = {}
    /\ ended' = TRUE
    /\ UNCHANGED <<pending, running, finished>>

Next ==
    \/ \E S \in SUBSET pending : Start(S)
    \/ \E i \in running, kids \in SUBSET (Items \ Known), S \in SUBSET pending :
          Finish(i, kids, S)
    \/ End

Spec == Init /\ [][Next]_vars
=============================================================================
