---------------------------- MODULE FutureAdaptors ----------------------------
(* The wrappers around one future of futures_01_ext, futures_ext and         *)
(* futures_stats: callbacks on its result (InspectErr, InspectResult), on    *)
(* its being dropped (OnCancel, OnCancelWithData around a TimedFuture), and  *)
(* a spawned task that lives as long as its ControlledHandles.               *)
EXTENDS Integers, Sequences

CONSTANTS MaxPolls, MaxHandles

VARIABLES wrapper,
          fut,      \* the future inside: "pending", "ok", "err"
          callback, \* the closure is still there
          ran,      \* the calls of the closure, with what it was given
          answers,  \* what the polls of the wrapper returned
          handles,  \* ControlledHandles alive
          aborted,  \* AbortHandle::abort() was called
          gone      \* the wrapper was dropped

vars == <<wrapper, fut, callback, ran, answers, handles, aborted, gone>>

Wrappers == {"inspect_err", "inspect_result", "on_cancel", "controlled"}

Polls == Len(answers)

(* A poll of the future inside; one that has completed is a caller's mistake *)
(* the wrappers for futures 0.1 allow for, and may answer anything.          *)
AskFuture(r) ==
    /\ Polls < MaxPolls /\ ~gone
    /\ wrapper \in {"on_cancel", "controlled"} => fut = "pending"
    /\ fut' = IF fut = "pending" THEN r ELSE fut

(* The closure is called on the first result it is meant for; then the       *)
(* wrapper acts as if it were fused.                                         *)
PollInspect(r) ==
    LET meant == r = "err" \/ (r = "ok" /\ wrapper = "inspect_result")
    IN  /\ wrapper \in {"inspect_err", "inspect_result"}
        /\ AskFuture(r)
        /\ ran' = IF meant /\ callback THEN Append(ran, r) ELSE ran
        /\ callback' = (callback /\ ~meant)
        /\ answers' = Append(answers, IF meant /\ ~callback THEN "pending" ELSE r)
        /\ UNCHANGED <<wrapper, handles, aborted, gone>>

(* Mutant: the closure is kept when the future completes.                    *)
MutantDisarm(r) == TRUE

Disarm(r) == r = "pending"

PollOnCancel(r) ==
    /\ wrapper = "on_cancel"
    /\ AskFuture(r)
    /\ callback' = Disarm(r)
    /\ answers' = Append(answers, r)
    /\ UNCHANGED <<wrapper, ran, handles, aborted, gone>>

(* Dropped: the closure that is still there is called with the statistics,   *)
(* here the number of polls.                                                 *)
DropOnCancel ==
    /\ wrapper = "on_cancel" /\ ~gone
    /\ gone' = TRUE
    /\ ran' = IF callback THEN Append(ran, Polls) ELSE ran
    /\ callback' = FALSE
    /\ UNCHANGED <<wrapper, fut, answers, handles, aborted>>

(* The runtime polls the spawned task; Abortable (external) looks at the     *)
(* flag before it polls the future.                                          *)
PollTask(r) ==
    /\ wrapper = "controlled"
    /\ \/ /\ ~aborted /\ AskFuture(r)
          /\ answers' = Append(answers, r)
          /\ gone' = (r # "pending")
       \/ /\ aborted /\ ~gone /\ r = "pending"
          /\ gone' = TRUE
          /\ UNCHANGED <<fut, answers>>
    /\ UNCHANGED <<wrapper, callback, ran, handles, aborted>>

CloneHandle ==
    /\ wrapper = "controlled" /\ handles \in 1..MaxHandles - 1
    /\ handles' = handles + 1
    /\ UNCHANGED <<wrapper, fut, callback, ran, answers, aborted, gone>>

(* The last handle drops Inner, whose drop() aborts the task.                *)
DropHandle ==
    /\ wrapper = "controlled" /\ handles > 0
    /\ handles' = handles - 1
    /\ aborted' = (handles' = 0)
    /\ UNCHANGED <<wrapper, fut, callback, ran, answers, gone>>

Init ==
    /\ wrapper \in Wrappers
    /\ fut = "pending" /\ callback = TRUE /\ ran = <<>> /\ answers = <<>>
    /\ handles = (IF wrapper = "controlled" THEN 1 ELSE 0)
    /\ aborted = FALSE /\ gone = FALSE

Next ==
    \/ \E r \in {"pending", "ok", "err"} : PollInspect(r) \/ PollOnCancel(r) \/ PollTask(r)
    \/ DropOnCancel \/ CloneHandle \/ DropHandle

Spec == Init /\ [][Next]_vars

(* The caller got at most one of the results rs, and what it got is what the *)
(* closure was called with.                                                  *)
CalledWith(rs) ==
    /\ \A i, j \in DOMAIN answers : {answers[i], answers[j]} \subseteq rs => i = j
    /\ {ran[i] : i \in DOMAIN ran} = {answers[i] : i \in DOMAIN answers} \cap rs

(* A closure on a result is called at most once, with the first result the   *)
(* caller gets, and no later error reaches the caller; a closure on          *)
(* cancellation is called exactly when the future was dropped unfinished,    *)
(* with all its polls counted.  A task is aborted exactly when its last      *)
(* handle is dropped.                                                        *)
CallbacksTruthful ==
    /\ Len(ran) <= 1
    /\ wrapper = "inspect_result" => CalledWith({"ok", "err"})
    /\ wrapper = "inspect_err" => CalledWith({"err"})
    /\ wrapper = "on_cancel" => (ran # <<>> <=> gone /\ fut = "pending")
    /\ wrapper = "on_cancel" /\ ran # <<>> => ran[1] = Len(answers)
    /\ wrapper = "controlled" => (aborted <=> handles = 0)
=============================================================================
