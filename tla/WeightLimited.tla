---------------------------- MODULE WeightLimited ----------------------------
(* The three streams that run futures in a queue bounded by their number and *)
(* their weight: futures_ext's WeightLimitedBufferedStream and               *)
(* WeightLimitedBufferedTryStream, and futures_01_ext's of the first name.   *)
(* One poll is a sequence of steps, from PollNext to an answer; futures in   *)
(* the queue complete in between, in any order.  FuturesOrdered (external)   *)
(* answers with its first future once that is complete.  That of futures 0.1 *)
(* hands out a failure at once, before any result, and never gets past the   *)
(* place of the failed future: the results behind it stay in the queue.      *)
EXTENDS Integers, Sequences

CONSTANTS Weights, MaxBufferSize, WeightLimit,  \* a size of at least 1
          MaxTaken                              \* futures the stream gives

VARIABLES flavour,         \* "stream", "try" or "v01"
          pc,              \* "idle", "fill", "queue", "dead"
          taken, ended,    \* the stream inside
          queue,           \* [n, weight, state]: state "running", "ok" or "err"
          current_weight,
          leaked, gap,     \* futures 0.1: weights of failed futures never given
                           \* back, and the first of their numbers, or 0
          yielded,         \* numbers of the futures whose results came out, in
                           \* futures 0.1 negative for errors
          answer, woken    \* the last answer, and what will wake the task

vars == <<flavour, pc, taken, ended, queue, current_weight, leaked, gap, yielded, answer,
          woken>>

Flavours == {"stream", "try", "v01"}

PollNext ==
    /\ pc = "idle"
    /\ pc' = "fill" /\ woken' = FALSE
    /\ UNCHANGED <<flavour, taken, ended, queue, current_weight, leaked, gap, yielded, answer>>

(* Mutant: the weight is not looked at.                                      *)
MutantRoom == Len(queue) < MaxBufferSize

Room == Len(queue) < MaxBufferSize /\ current_weight < WeightLimit

(* The stream gives a future, queued with its weight.                        *)
FillItem(w) ==
    /\ pc = "fill" /\ Room /\ ~ended /\ taken < MaxTaken
    /\ taken' = taken + 1
    /\ current_weight' = current_weight + w
    /\ queue' = Append(queue, [n |-> taken + 1, weight |-> w, state |-> "running"])
    /\ UNCHANGED <<flavour, pc, ended, leaked, gap, yielded, answer, woken>>

(* The stream gives an error: queued in its place with no weight, or, in     *)
(* futures 0.1, returned at once.                                            *)
FillError ==
    /\ pc = "fill" /\ Room /\ ~ended /\ taken < MaxTaken /\ flavour # "stream"
    /\ taken' = taken + 1
    /\ IF flavour = "try"
       THEN /\ queue' = Append(queue, [n |-> taken + 1, weight |-> 0, state |-> "err"])
            /\ UNCHANGED <<pc, answer, yielded>>
       ELSE /\ pc' = "idle" /\ answer' = "err"
            /\ yielded' = Append(yielded, -(taken + 1))
            /\ UNCHANGED queue
    /\ UNCHANGED <<flavour, ended, current_weight, leaked, gap, woken>>

(* No room, or the stream is pending or has ended.                           *)
FillStop ==
    /\ pc = "fill"
    /\ \/ ~Room /\ UNCHANGED <<ended, woken>>
       \/ Room /\ ~ended /\ woken' = TRUE /\ UNCHANGED ended
       \/ Room /\ ended' = TRUE /\ UNCHANGED woken
    /\ pc' = "queue"
    /\ UNCHANGED <<flavour, taken, queue, current_weight, leaked, gap, yielded, answer>>

Failing == {i \in DOMAIN queue : flavour = "v01" /\ queue[i].state = "err"}
Stuck(f) == gap # 0 /\ f.n >= gap
Ready == Failing = {} /\ Head(queue).state # "running" /\ ~Stuck(Head(queue))

(* The queue's first future has completed, and its weight is given back ...  *)
QueueItem ==
    LET f == Head(queue)
    IN  /\ pc = "queue" /\ queue # <<>> /\ Ready
        /\ queue' = Tail(queue)
        /\ current_weight' = current_weight - f.weight
        /\ yielded' = Append(yielded, f.n)
        /\ answer' = IF f.state = "ok" THEN "item" ELSE "err"
        /\ pc' = "idle"
        /\ UNCHANGED <<flavour, taken, ended, leaked, gap, woken>>

(* ... or, in futures 0.1, one has failed, and its weight is not.            *)
QueueFailed(i) ==
    LET f == queue[i]
    IN  /\ pc = "queue" /\ i \in Failing
        /\ queue' = [j \in 1..Len(queue) - 1 |-> queue[IF j < i THEN j ELSE j + 1]]
        /\ leaked' = leaked + f.weight
        /\ gap' = IF Stuck(f) THEN gap ELSE f.n
        /\ yielded' = Append(yielded, -f.n)
        /\ answer' = "err" /\ pc' = "idle"
        /\ UNCHANGED <<flavour, taken, ended, current_weight, woken>>

(* Only a future that still runs will wake the task.                         *)
QueuePending ==
    /\ pc = "queue" /\ queue # <<>> /\ Failing = {} /\ ~Ready
    /\ pc' = "idle" /\ answer' = "pending"
    /\ woken' = (woken \/ \E i \in DOMAIN queue : queue[i].state = "running")
    /\ UNCHANGED <<flavour, taken, ended, queue, current_weight, leaked, gap, yielded>>

QueueEmpty ==
    /\ pc = "queue" /\ queue = <<>>
    /\ pc' = IF ended THEN "dead" ELSE "idle"
    /\ answer' = IF ended THEN "end" ELSE "pending"
    /\ UNCHANGED <<flavour, taken, ended, queue, current_weight, leaked, gap, yielded, woken>>

Complete(i, result) ==
    /\ pc = "idle" /\ queue[i].state = "running"
    /\ flavour = "stream" => result = "ok"
    /\ queue' = [queue EXCEPT ![i].state = result]
    /\ UNCHANGED <<flavour, pc, taken, ended, current_weight, leaked, gap, yielded, answer, woken>>

Init ==
    /\ flavour \in Flavours
    /\ pc = "idle" /\ taken = 0 /\ ended = FALSE
    /\ queue = <<>> /\ current_weight = 0 /\ leaked = 0 /\ gap = 0
    /\ yielded = <<>> /\ answer = "new" /\ woken = FALSE

Next ==
    \/ PollNext \/ FillError \/ FillStop \/ QueueItem \/ QueuePending \/ QueueEmpty
    \/ \E w \in Weights : FillItem(w)
    \/ \E i \in DOMAIN queue : QueueFailed(i)
    \/ \E i \in DOMAIN queue, r \in {"ok", "err"} : Complete(i, r)

Spec == Init /\ [][Next]_vars

Weight(q) == LET upTo[k \in 0..Len(q)] == IF k = 0 THEN 0 ELSE upTo[k - 1] + q[k].weight
             IN  upTo[Len(q)]

(* Results come out in the order of the stream, none lost; only futures 0.1  *)
(* lets errors overtake results, and gives no result from behind a failed    *)
(* future.  The weight on the books is that of the queue and what was        *)
(* leaked, and passes the limit by less than the last future's.              *)
QueueBalanced ==
    /\ current_weight = Weight(queue) + leaked
    /\ current_weight > WeightLimit => \E w \in Weights : current_weight < WeightLimit + w
    /\ flavour # "v01" =>
        yielded \o [i \in DOMAIN queue |-> queue[i].n] = [i \in 1..taken |-> i]
    /\ flavour = "v01" =>
        /\ \A i, j \in DOMAIN yielded :
            i < j /\ yielded[i] > 0 /\ yielded[j] > 0 => yielded[i] < yielded[j]
        /\ \A n \in 1..taken : \/ \E i \in DOMAIN yielded : yielded[i] \in {n, -n}
                              \/ \E i \in DOMAIN queue : queue[i].n = n
        /\ \A i \in DOMAIN yielded : gap # 0 => yielded[i] < gap
    /\ answer = "end" => ended /\ queue = <<>>

(* A task told to wait is woken by the stream or by the queue.  Only futures *)
(* 0.1 can leave it asleep: when the weights of failed futures have used up  *)
(* the limit, so that nothing is polled any more, or when all that is left   *)
(* in the queue are results behind a failed future.                          *)
QueueWakes ==
    /\ pc = "idle" /\ answer = "pending" /\ ~woken =>
        \/ leaked >= WeightLimit
        \/ /\ queue # <<>> /\ Stuck(Head(queue))
           /\ \A i \in DOMAIN queue : queue[i].state = "ok"
    /\ flavour # "v01" => leaked = 0 /\ gap = 0
=============================================================================
