-------------------------------- MODULE Retry --------------------------------
(* futures_retry: a future started again when it fails, after an interval.   *)
(* Every step is a part of Retry::poll() between two answers of what it      *)
(* polls: the attempt's future and the timer (both external).  Durations are *)
(* small numbers; one past MaxDuration overflows, and Duration panics.       *)
EXTENDS Integers, Sequences, SequencesExt

CONSTANTS Attempts,     \* what max_attempts may be, 0 for None
          MaxIntervals, \* what max_interval may be, 0 for None
          MaxDuration,
          MaxRetries    \* bound on the attempts of a run without a limit

VARIABLES strategy,     \* the backoff: [kind, current, next]
          limit, ceiling,
          attempt, doing,     \* "start", "fut", "sleep", "done"
          inspected,    \* attempts inspect_err() was called for
          refused,      \* retry_if() has said no
          slept,        \* the intervals waited
          outcome       \* "none", "ok", "err", "panic"

vars == <<strategy, limit, ceiling, attempt, doing, inspected, refused, slept, outcome>>

FixedInterval(i) == [kind |-> "fixed", current |-> i, next |-> i]
ExponentialBackoff(i) == [kind |-> "exponential", current |-> i, next |-> i]
FibonacciBackoff(i) == [kind |-> "fibonacci", current |-> i, next |-> i]

(* Iterator::next(): the interval is `current`; what follows is computed at  *)
(* once.                                                                     *)
Advanced(b) ==
    CASE b.kind = "fixed" -> b
      [] b.kind = "exponential" -> [b EXCEPT !.current = 2 * @]
      [] b.kind = "fibonacci" -> [b EXCEPT !.current = b.next, !.next = b.current + b.next]

Overflows(b) == Advanced(b).current > MaxDuration \/ Advanced(b).next > MaxDuration

(* Jitter adds up to the jitter duration, here 0 or 1.                       *)
Jitters == {0, 1}

Clamp(interval) == IF ceiling > 0 /\ interval > ceiling THEN ceiling ELSE interval

Start ==
    /\ doing = "start" /\ attempt < MaxRetries
    /\ attempt' = attempt + 1
    /\ doing' = "fut"
    /\ UNCHANGED <<strategy, limit, ceiling, inspected, refused, slept, outcome>>

Succeed ==
    /\ doing = "fut"
    /\ doing' = "done" /\ outcome' = "ok"
    /\ UNCHANGED <<strategy, limit, ceiling, attempt, inspected, refused, slept>>

(* Mutant: the attempt that reached the limit is followed by another one.    *)
MutantMayRetry == limit = 0 \/ attempt <= limit

MayRetry == limit = 0 \/ attempt < limit

(* The attempt failed.  retry_if() is asked only below the limit, and the    *)
(* backoff only if it agrees.                                                *)
Fail(agrees) ==
    LET again == MayRetry /\ agrees
    IN  /\ doing = "fut"
        /\ inspected' = Append(inspected, attempt)
        /\ refused' = (MayRetry /\ ~agrees)
        /\ \/ /\ ~again
              /\ doing' = "done" /\ outcome' = "err"
              /\ UNCHANGED <<strategy, slept>>
           \/ /\ again /\ Overflows(strategy)
              /\ doing' = "done" /\ outcome' = "panic"
              /\ UNCHANGED <<strategy, slept>>
           \/ /\ again /\ ~Overflows(strategy)
              /\ doing' = "sleep"
              /\ \E j \in Jitters : slept' = Append(slept, Clamp(strategy.current + j))
              /\ strategy' = Advanced(strategy)
              /\ UNCHANGED outcome
        /\ UNCHANGED <<limit, ceiling, attempt>>

Wake ==
    /\ doing = "sleep"
    /\ doing' = "start"
    /\ UNCHANGED <<strategy, limit, ceiling, attempt, inspected, refused, slept, outcome>>

Init ==
    /\ strategy \in {FixedInterval(1), ExponentialBackoff(1), FibonacciBackoff(1)}
    /\ limit \in Attempts /\ ceiling \in MaxIntervals
    /\ attempt = 0 /\ doing = "start"
    /\ inspected = <<>> /\ refused = FALSE /\ slept = <<>> /\ outcome = "none"

Next == Start \/ Succeed \/ (\E agrees \in BOOLEAN : Fail(agrees)) \/ Wake

Spec == Init /\ [][Next]_vars

(* An error is the caller's only when the limit was reached or the predicate *)
(* said no; there are never more attempts than the limit (one at least), and *)
(* every failed attempt was inspected once, in order, and followed by one    *)
(* sleep no longer than the ceiling before the next.                         *)
RetriesRight ==
    /\ outcome = "err" => refused \/ (limit > 0 /\ attempt >= limit)
    /\ limit > 0 => attempt <= limit
    /\ inspected = [i \in 1..(IF outcome \in {"err", "panic"} \/ doing \in {"sleep", "start"} THEN attempt ELSE attempt - 1) |-> i]
    /\ Len(slept) = (IF doing \in {"sleep", "start"} THEN attempt ELSE attempt - 1)
    /\ ceiling > 0 => \A i \in DOMAIN slept : slept[i] <= ceiling

(* retry()'s documentation: retries "will continue until the future is       *)
(* successful", the limit and the predicate aside.                           *)
RetriesUntilSuccess == outcome # "none" => outcome = "ok" \/ refused \/ (limit > 0 /\ attempt >= limit)
=============================================================================
