-------------------------- MODULE BufferedWeighted --------------------------
(***************************************************************************)
(* The buffered_weighted stream adaptor (shed/buffered_weighted/src): run  *)
(* the futures of a stream concurrently as long as their weights add up to *)
(* at most MaxWeight, and yield their outputs in the stream's order.       *)
(*                                                                         *)
(* poll_next() is called by the consumer's task, which sleeps after a      *)
(* Poll::Pending until something that was polled wakes it.  The source and *)
(* the futures make progress on their own, also while poll_next() runs, so *)
(* the model keeps track of who holds the task's waker: an adaptor that    *)
(* returned Pending without having asked to be woken would hang.           *)
(***************************************************************************)
EXTENDS Integers, Sequences, FiniteSets, SequencesExt, FiniteSetsExt

CONSTANTS
    MaxWeight,      \* max_weight
    Weights,        \* weights the source may give its futures
    MaxItems        \* model bound: futures the source may produce

ASSUME BufferedWeightedConstants ==
    /\ MaxWeight \in Nat
    /\ Weights \subseteq Nat
    /\ MaxItems \in Nat

VARIABLES
    pc,             \* "fill", "drain", "asleep" or "ended"
    source,         \* weights of the futures the source has ready
    produced,       \* number of futures the source has produced
    closed,         \* the source has no more futures
    terminated,     \* Fuse: the source has returned None
    peeked,         \* PeekableFused: None or Some(future)
    queue,          \* in_progress_queue: FuturesOrdered
    current,        \* global_weight.current
    out,            \* history: the outputs yielded, by source position
    source_waker,   \* the source will wake the task
    queue_waker,    \* a future that completes will wake the task
    woken           \* the task is due to be polled

vars == <<pc, source, produced, closed, terminated, peeked, queue, current,
          out, source_waker, queue_waker, woken>>

srcVars == <<source, produced, closed>>

wakers == <<source_waker, queue_waker, woken>>

-----------------------------------------------------------------------------
(* GlobalWeight.                                                           *)

\* A weight above the maximum counts as the maximum.
Clamp(weight) == IF weight < MaxWeight THEN weight ELSE MaxWeight

MutantHasSpaceFor(weight) == current <= MaxWeight

HasSpaceFor(weight) == current <= MaxWeight - Clamp(weight)

AddWeight(weight) == current + Clamp(weight)

MutantSubWeight(weight) == current - weight

SubWeight(weight) == current - Clamp(weight)

-----------------------------------------------------------------------------

Init ==
    /\ pc = "fill"
    /\ source = <<>>
    /\ produced = 0
    /\ closed = FALSE
    /\ terminated = FALSE
    /\ peeked = <<>>
    /\ queue = <<>>
    /\ current = 0
    /\ out = <<>>
    /\ source_waker = FALSE
    /\ queue_waker = FALSE
    /\ woken = FALSE

\* poll_peek() with nothing peeked takes the source's next future ...
PeekReady ==
    /\ pc = "fill"
    /\ peeked = <<>>
    /\ source # <<>>
    /\ peeked' = <<[id |-> produced - Len(source) + 1, weight |-> Head(source),
                    done |-> FALSE]>>
    /\ source' = Tail(source)
    /\ UNCHANGED <<pc, produced, closed, terminated, queue, current, out, wakers>>

MutantPeekPending ==
    /\ pc = "fill"
    /\ peeked = <<>>
    /\ source = <<>>
    /\ ~closed
    /\ pc' = "drain"
    /\ UNCHANGED <<srcVars, terminated, peeked, queue, current, out, wakers>>

\* ... or leaves the waker with it when there is none yet ...
PeekPending ==
    /\ pc = "fill"
    /\ peeked = <<>>
    /\ source = <<>>
    /\ ~closed
    /\ source_waker' = TRUE
    /\ pc' = "drain"
    /\ UNCHANGED <<srcVars, terminated, peeked, queue, current, out, queue_waker,
                   woken>>

\* ... or finds that it has ended.
PeekEnd ==
    /\ pc = "fill"
    /\ peeked = <<>>
    /\ source = <<>>
    /\ closed
    /\ terminated' = TRUE
    /\ pc' = "drain"
    /\ UNCHANGED <<srcVars, peeked, queue, current, out, wakers>>

MutantRefused(weight, within) ==
    \/ ~HasSpaceFor(weight)
    \/ ~within

\* The test that ends the filling loop.  `within' is what within_bound()
\* reads off the process's memory, which may be anything.
Refused(weight, within) ==
    \/ ~HasSpaceFor(weight)
    \/ ~within /\ queue # <<>>

\* The peeked future waits for later: stop filling.
Refuse ==
    /\ pc = "fill"
    /\ peeked # <<>>
    /\ \E within \in BOOLEAN : Refused(peeked[1].weight, within)
    /\ pc' = "drain"
    /\ UNCHANGED <<srcVars, terminated, peeked, queue, current, out, wakers>>

\* The peeked future joins the queue.
Admit ==
    /\ pc = "fill"
    /\ peeked # <<>>
    /\ \E within \in BOOLEAN : ~Refused(peeked[1].weight, within)
    /\ queue' = Append(queue, peeked[1])
    /\ current' = AddWeight(peeked[1].weight)
    /\ peeked' = <<>>
    /\ UNCHANGED <<pc, srcVars, terminated, out, wakers>>

MutantYield ==
    /\ pc = "drain"
    /\ \E i \in 1..Len(queue) :
          /\ queue[i].done
          /\ current' = SubWeight(queue[i].weight)
          /\ out' = Append(out, queue[i].id)
          /\ queue' = RemoveAt(queue, i)
    /\ pc' = "fill"
    /\ UNCHANGED <<srcVars, terminated, peeked, wakers>>

\* The first future of the queue is done: its output is yielded, and the
\* consumer polls again.
Yield ==
    /\ pc = "drain"
    /\ queue # <<>>
    /\ queue[1].done
    /\ current' = SubWeight(queue[1].weight)
    /\ out' = Append(out, queue[1].id)
    /\ queue' = Tail(queue)
    /\ pc' = "fill"
    /\ UNCHANGED <<srcVars, terminated, peeked, wakers>>

\* It is not: the futures hold the waker.
QueuePending ==
    /\ pc = "drain"
    /\ queue # <<>>
    /\ ~queue[1].done
    /\ queue_waker' = TRUE
    /\ pc' = "asleep"
    /\ UNCHANGED <<srcVars, terminated, peeked, queue, current, out, source_waker,
                   woken>>

\* Nothing is queued: the end, if the source is done.
EndOfStream ==
    /\ pc = "drain"
    /\ queue = <<>>
    /\ terminated
    /\ pc' = "ended"
    /\ UNCHANGED <<srcVars, terminated, peeked, queue, current, out, wakers>>

SourcePending ==
    /\ pc = "drain"
    /\ queue = <<>>
    /\ ~terminated
    /\ pc' = "asleep"
    /\ UNCHANGED <<srcVars, terminated, peeked, queue, current, out, wakers>>

\* The executor polls the task that was woken.
Polled ==
    /\ pc = "asleep"
    /\ woken
    /\ woken' = FALSE
    /\ pc' = "fill"
    /\ UNCHANGED <<srcVars, terminated, peeked, queue, current, out, source_waker,
                   queue_waker>>

-----------------------------------------------------------------------------
(* The environment.                                                        *)

WakeFromSource ==
    /\ woken' = (woken \/ source_waker)
    /\ source_waker' = FALSE
    /\ UNCHANGED queue_waker

Produce ==
    /\ ~closed
    /\ produced < MaxItems
    /\ \E weight \in Weights : source' = Append(source, weight)
    /\ produced' = produced + 1
    /\ WakeFromSource
    /\ UNCHANGED <<pc, closed, terminated, peeked, queue, current, out>>

Close ==
    /\ ~closed
    /\ closed' = TRUE
    /\ WakeFromSource
    /\ UNCHANGED <<pc, source, produced, terminated, peeked, queue, current,
                   out>>

\* Any future of the queue may complete, in any order.
Complete ==
    /\ \E i \in 1..Len(queue) :
          /\ ~queue[i].done
          /\ queue' = [queue EXCEPT ![i].done = TRUE]
    /\ woken' = (woken \/ queue_waker)
    /\ queue_waker' = FALSE
    /\ UNCHANGED <<pc, srcVars, terminated, peeked, current, out, source_waker>>

Ended ==
    /\ pc = "ended"
    /\ UNCHANGED vars

Poll == PeekReady \/ PeekPending \/ PeekEnd \/ Refuse \/ Admit \/ Yield
        \/ QueuePending \/ EndOfStream \/ SourcePending \/ Polled

Next == Poll \/ Produce \/ Close \/ Complete \/ Ended

Spec == Init /\ [][Next]_vars

\* The task runs when woken, the source ends and the futures complete.
FairSpec == Spec /\ WF_vars(Poll) /\ WF_vars(Close) /\ WF_vars(Complete)

-----------------------------------------------------------------------------
(* Properties.                                                             *)

Future == [id : Nat, weight : Nat, done : BOOLEAN]

\* Every variable keeps the type of its Rust counterpart; the current weight
\* is a usize, so checked_sub never fails.
TypeOK ==
    /\ pc \in {"fill", "drain", "asleep", "ended"}
    /\ source \in Seq(Nat)
    /\ produced \in Nat
    /\ peeked \in Seq(Future) /\ Len(peeked) <= 1
    /\ queue \in Seq(Future)
    /\ current \in Nat
    /\ out \in Seq(Nat)
    /\ closed \in BOOLEAN /\ terminated \in BOOLEAN
    /\ source_waker \in BOOLEAN /\ queue_waker \in BOOLEAN /\ woken \in BOOLEAN

\* The clamped weights of the futures of q add up to n, by their partial sums.
AddUpTo(q, n) ==
    \E sums \in [0..Len(q) -> 0..n] :
        /\ sums[0] = 0
        /\ sums[Len(q)] = n
        /\ \A i \in 1..Len(q) : sums[i] = sums[i - 1] + Clamp(q[i].weight)

\* The weight in use is that of the futures queued, so that what is admitted
\* is what is released, and "the maximum weight is never exceeded while
\* futures are being run" (lib.rs:54).
WeightBalanced == AddUpTo(queue, current) /\ current <= MaxWeight

\* Futures are started and their outputs returned in the source's order: the
\* outputs, the queue, the peeked future and the source are consecutive
\* stretches of it, and none is lost or repeated.
OrderKept ==
    /\ \A i \in 1..Len(out) : out[i] = i
    /\ \A i \in 1..Len(queue) : queue[i].id = Len(out) + i
    /\ peeked # <<>> => peeked[1].id = Len(out) + Len(queue) + 1
    /\ produced = Len(out) + Len(queue) + Len(peeked) + Len(source)

\* At the end of the stream every future has run: is_done() looks at the
\* source only, not at the peeked future.
NothingLeft == pc = "ended" => closed /\ Len(out) = produced

\* The stream yields the source's futures, all of them, in order.
OutputOrdered == OrderKept /\ NothingLeft

\* A task that sleeps has left its waker where it will be used: with the
\* source if nothing is queued, with the futures otherwise.
WillBeWoken ==
    pc = "asleep" /\ ~woken =>
        IF queue = <<>> THEN source_waker /\ source = <<>> /\ ~closed
        ELSE queue_waker /\ ~queue[1].done

\* If the source ends and the futures complete, so does the stream.
StreamEnds == <>(pc = "ended")
=============================================================================
