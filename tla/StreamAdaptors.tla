---------------------------- MODULE StreamAdaptors ----------------------------
(* The wrappers around one stream of futures_01_ext, futures_ext and         *)
(* futures_stats.  A poll of the wrapper is one step: it takes what the      *)
(* stream inside answers (external: any answer) and returns.  Items are      *)
(* numbered as the stream gives them, an error is the negative of its number *)
(* and 0 is the error a timeout adds.  After Pending the consumer polls      *)
(* again only when woken, and `armed` says whether anything will wake it.    *)
EXTENDS Integers, Sequences, SequencesExt, FiniteSets

CONSTANTS MaxGiven,   \* items and errors the stream gives; polls are counted to twice that
          Limit,      \* BatchStream::limit, at least 1
          Budget,     \* YieldPeriodically::budget
          MaxElapsed  \* the longest poll of the stream

VARIABLES adaptor, own,   \* which wrapper, and its fields
          given, over,    \* the stream: what it gave, whether it ended
          repolled,       \* it was polled after its end
          out, ret,       \* what the consumer got, and the last answer
          armed, dropped,
          side            \* what came out elsewhere: a channel, a callback

vars == <<adaptor, own, given, over, repolled, out, ret, armed, dropped, side>>

Own == [enumerate |-> [count |-> 0],
        batch |-> [err |-> 0],
        return_remainder |-> [inner |-> TRUE, chan |-> "open"],
        split_err |-> [tx |-> TRUE, err |-> 0],
        timeout |-> [done |-> FALSE, deadline |-> "unset"],
        yield_periodically |-> [left |-> Budget, must_yield |-> FALSE, ran |-> 0],
        timed |-> [count |-> 0, poll_count |-> 0, error_count |-> 0, first_error |-> -1,
                   completed |-> FALSE, callback |-> TRUE],
        collect |-> [items |-> <<>>]]

Replies == {"item", "err", "end", "pending"}

(* The stream inside is polled and answers r, after k items without a pause. *)
Ask(k, r) ==
    LET n == Len(given) + k
    IN  /\ over => k = 0 /\ r = "end"
        /\ n + (IF r \in {"item", "err"} THEN 1 ELSE 0) <= MaxGiven
        /\ given' = given \o [i \in 1..k |-> Len(given) + i]
                          \o (IF r = "item" THEN <<n + 1>> ELSE IF r = "err" THEN <<-(n + 1)>> ELSE <<>>)
        /\ over' = (over \/ r = "end")
        /\ repolled' = (repolled \/ over)

(* One that is fused keeps its end to itself.                                *)
AskFused(k, r) ==
    IF over THEN k = 0 /\ r = "end" /\ UNCHANGED <<given, over, repolled>> ELSE Ask(k, r)

DontAsk == UNCHANGED <<given, over, repolled>>

(* The wrapper answers `answer`, handing over the items.                     *)
Answer(answer, items, wakes) ==
    /\ ret' = answer
    /\ out' = out \o items
    /\ armed' = wakes
    /\ UNCHANGED <<adaptor, dropped>>

Polled(a) == adaptor = a /\ ~dropped

(* What the stream just gave is passed on as it is.                          *)
PassOn(r) == Answer(r, SubSeq(given', Len(given) + 1, Len(given')), r = "pending")

(* Wrappers that are not fused are not polled after their end.               *)
PollEnumerate ==
    /\ Polled("enumerate") /\ ret # "end"
    /\ \E r \in Replies :
        /\ Ask(0, r) /\ PassOn(r)
        /\ own' = [own EXCEPT !.count = IF r = "item" THEN @ + 1 ELSE @]
    /\ UNCHANGED side

(* BatchStream: up to `limit` items at once; an error waits for the next     *)
(* poll when there is a batch to hand over first.                            *)
PollBatch ==
    /\ Polled("batch")
    /\ \/ /\ own.err # 0
          /\ Answer("err", <<own.err>>, FALSE)
          /\ own' = [own EXCEPT !.err = 0]
          /\ DontAsk
       \/ /\ own.err = 0
          /\ \E k \in 0..Limit, r \in {"err", "end", "pending", "full"} :
              /\ (r = "full") <=> (k = Limit)
              /\ AskFused(k, r)
              /\ LET batch == [i \in 1..k |-> Len(given) + i]
                 IN  /\ own' = [own EXCEPT !.err = IF r = "err" /\ k > 0 THEN Last(given') ELSE 0]
                     /\ IF k > 0 THEN Answer("item", batch, r = "pending") ELSE PassOn(r)
    /\ UNCHANGED side

(* ReturnRemainder sends the stream to the receiver when it ends.            *)
PollReturnRemainder ==
    /\ Polled("return_remainder")
    /\ \/ ~own.inner /\ Answer("end", <<>>, FALSE) /\ DontAsk /\ UNCHANGED own
       \/ /\ own.inner
          /\ \E r \in Replies :
              /\ Ask(0, r) /\ PassOn(r)
              /\ own' = IF r = "end" THEN [inner |-> FALSE, chan |-> "sent"] ELSE own
    /\ UNCHANGED side

(* ConservativeReceiver: an answer at once, whatever it is.                  *)
Received(chan) ==
    CASE chan = "sent" -> "stream"
      [] chan = "canceled" -> "Canceled"
      [] chan = "open" -> "ReceiveBeforeSend"

ReceiveRemainder ==
    /\ adaptor = "return_remainder" /\ side = <<>>
    /\ side' = <<Received(own.chan)>>
    /\ UNCHANGED <<adaptor, own, given, over, repolled, out, ret, armed, dropped>>

(* split_err(): the first error goes to the other half and this one stays    *)
(* pending; nothing wakes it.                                                *)
PollSplitErr ==
    /\ Polled("split_err") /\ ret # "end"
    /\ \E r \in Replies :
        /\ Ask(0, r)
        /\ IF r = "err" THEN Answer("pending", <<>>, FALSE) ELSE PassOn(r)
        /\ own' = IF r = "err" /\ own.tx THEN [tx |-> FALSE, err |-> Last(given')] ELSE own
    /\ UNCHANGED side

PollErrFuture ==
    /\ adaptor = "split_err" /\ side = <<>> /\ own.err # 0
    /\ side' = <<own.err>>
    /\ UNCHANGED <<adaptor, own, given, over, repolled, out, ret, armed, dropped>>

(* StreamWithTimeout: the deadline runs from the first poll.                 *)
PollTimeout ==
    /\ Polled("timeout")
    /\ \/ own.done /\ Answer("end", <<>>, FALSE) /\ DontAsk /\ UNCHANGED own
       \/ /\ ~own.done /\ own.deadline = "fired"
          /\ Answer("err", <<0>>, FALSE) /\ DontAsk
          /\ own' = [own EXCEPT !.done = TRUE]
       \/ /\ ~own.done /\ own.deadline # "fired"
          /\ \E r \in Replies :
              /\ Ask(0, r) /\ PassOn(r)
              /\ own' = [done |-> r = "end", deadline |-> "running"]
    /\ UNCHANGED side

Elapse ==
    /\ adaptor = "timeout" /\ own.deadline = "running"
    /\ own' = [own EXCEPT !.deadline = "fired"]
    /\ UNCHANGED <<adaptor, given, over, repolled, out, ret, armed, dropped, side>>

(* Mutant: the budget left is not reset when the stream itself was pending.  *)
MutantSpend(left, elapsed, r) ==
    IF elapsed <= left THEN [left |-> left - elapsed, must_yield |-> FALSE]
    ELSE [left |-> Budget, must_yield |-> TRUE]

(* YieldPeriodically: what one poll of the stream leaves of the budget.      *)
Spend(left, elapsed, r) ==
    IF r = "pending" THEN [left |-> Budget, must_yield |-> FALSE]
    ELSE IF elapsed <= left THEN [left |-> left - elapsed, must_yield |-> FALSE]
    ELSE [left |-> Budget, must_yield |-> TRUE]

(* `ran` is the time since the wrapper last returned Pending.                *)
PollYieldPeriodically ==
    /\ Polled("yield_periodically")
    /\ \/ /\ own.must_yield
          /\ Answer("pending", <<>>, TRUE) /\ DontAsk
          /\ own' = [own EXCEPT !.must_yield = FALSE, !.ran = 0]
          /\ UNCHANGED side
       \/ /\ ~own.must_yield /\ ret # "end"
          /\ \E r \in Replies, elapsed \in 0..MaxElapsed :
              LET spent == Spend(own.left, elapsed, r)
              IN  /\ Ask(0, r) /\ PassOn(r)
                  /\ own' = [left |-> spent.left, must_yield |-> spent.must_yield,
                             ran |-> IF r = "pending" THEN 0 ELSE own.ran + elapsed]
                  /\ side' = IF r # "pending" /\ elapsed - own.left > 3 * Budget
                             THEN <<"overshoot", elapsed>> ELSE side

(* TimedTryStream: what is reported once, at the end or when dropped.        *)
Report(o) == IF o.callback THEN Append(side, [o EXCEPT !.callback = FALSE]) ELSE side

(* What TimedTryStream counts of a reply that TimedStream passes on.         *)
CountErrors(o, r) ==
    [o EXCEPT !.error_count = IF r = "err" THEN @ + 1 ELSE @,
              !.first_error = IF r = "err" /\ @ = -1 THEN own.count ELSE @]

PollTimed ==
    /\ Polled("timed")
    /\ \/ own.completed /\ Answer("end", <<>>, FALSE) /\ DontAsk /\ UNCHANGED <<own, side>>
       \/ /\ ~own.completed
          /\ \E r \in Replies :
              LET o == [CountErrors(own, r) EXCEPT
                            !.poll_count = @ + 1,
                            !.count = IF r \in {"item", "err"} THEN @ + 1 ELSE @,
                            !.completed = (r = "end")]
              IN  /\ Ask(0, r) /\ PassOn(r)
                  /\ own.poll_count < 2 * MaxGiven
                  /\ own' = IF r = "end" THEN [o EXCEPT !.callback = FALSE] ELSE o
                  /\ side' = IF r = "end" THEN Report(o) ELSE side

(* CollectTo and CollectNoConsume: a future; on an error what was collected  *)
(* is lost.                                                                  *)
Finished(items, r) ==
    CASE r = "end" -> items
      [] r = "err" -> <<Last(given')>>
      [] r = "pending" -> <<>>

PollCollect ==
    /\ Polled("collect") /\ ret \notin {"end", "err"}
    /\ \E k \in 0..MaxGiven, r \in {"err", "end", "pending"} :
        LET items == own.items \o [i \in 1..k |-> Len(given) + i]
        IN  /\ Ask(k, r)
            /\ own' = [items |-> IF r = "pending" THEN items ELSE <<>>]
            /\ Answer(r, Finished(items, r), r = "pending")
    /\ UNCHANGED side

Drop ==
    /\ ~dropped /\ dropped' = TRUE
    /\ side' = IF adaptor = "timed" THEN Report(own) ELSE side
    /\ own' = CASE adaptor = "return_remainder" /\ own.chan = "open" -> [own EXCEPT !.chan = "canceled"]
                [] adaptor = "timed" -> [own EXCEPT !.callback = FALSE]
                [] OTHER -> own
    /\ UNCHANGED <<adaptor, given, over, repolled, out, ret, armed>>

Init ==
    /\ adaptor \in DOMAIN Own /\ own = Own[adaptor]
    /\ given = <<>> /\ over = FALSE /\ repolled = FALSE
    /\ out = <<>> /\ ret = "new" /\ armed = FALSE /\ dropped = FALSE /\ side = <<>>

Next ==
    \/ PollEnumerate \/ PollBatch \/ PollReturnRemainder \/ ReceiveRemainder
    \/ PollSplitErr \/ PollErrFuture \/ PollTimeout \/ Elapse
    \/ PollYieldPeriodically \/ PollTimed \/ PollCollect \/ Drop

Spec == Init /\ [][Next]_vars

Members(s) == {s[i] : i \in DOMAIN s}
Increasing(s) == \A i, j \in DOMAIN s : i < j => s[i] < s[j]
ErrorsAt(s) == {i \in DOMAIN s : s[i] < 0}
Fusing == {"batch", "return_remainder", "timeout", "timed"}

(* Nothing the stream gave is lost, repeated or out of order: it has been    *)
(* handed over or is held, an error in its place, but for the collection an  *)
(* error throws away and the errors split off.                               *)
NothingLost ==
    CASE adaptor = "collect" ->
            IF ret = "err" THEN ErrorsAt(given) = {Len(given)} /\ out = <<Last(given)>>
            ELSE out \o own.items = given
      [] adaptor = "split_err" ->
            /\ Increasing(out) /\ Members(out) = {x \in Members(given) : x > 0}
            /\ own.err # 0 =>
                \E i \in ErrorsAt(given) : own.err = given[i] /\ \A j \in ErrorsAt(given) : i <= j
      [] adaptor = "timeout" -> out = given \/ out = Append(given, 0)
      [] adaptor = "batch" -> out \o (IF own.err = 0 THEN <<>> ELSE <<own.err>>) = given
      [] OTHER -> out = given

(* A consumer told to wait will be woken, except by the half of a split      *)
(* stream that has seen an error; and a wrapper that remembers the end never *)
(* polls the stream past it.                                                 *)
WakeKept ==
    /\ ret = "pending" /\ ~armed => adaptor = "split_err" /\ ErrorsAt(given) # {}
    /\ adaptor \in Fusing => ~repolled

(* The consumer gets the end only at the end or after a timeout; the timeout *)
(* comes at most once, last, and never after the end.  The rest of the       *)
(* stream reaches the receiver exactly when the stream ended.  A stream that *)
(* has run over its budget yields next.  The statistics are reported once    *)
(* and count what the consumer saw.                                          *)
EndsTruthful ==
    /\ ret = "end" => over \/ (adaptor = "timeout" /\ Last(out) = 0)
    /\ \A i \in DOMAIN out : out[i] = 0 => i = Len(out) /\ ~over
    /\ adaptor = "return_remainder" /\ side # <<>> =>
        /\ side[1] = "stream" => over
        /\ side[1] = "Canceled" => dropped /\ ~over
    /\ adaptor = "yield_periodically" => (own.ran > Budget <=> own.must_yield)
    /\ adaptor = "timed" =>
        /\ Len(side) = IF ret = "end" \/ dropped THEN 1 ELSE 0
        /\ side # <<>> =>
            /\ side[1].count = Len(out)
            /\ side[1].error_count = Cardinality(ErrorsAt(out))
            /\ side[1].completed <=> over
            /\ side[1].error_count > 0 =>
                LET first == side[1].first_error + 1
                IN  first \in ErrorsAt(out) /\ \A i \in ErrorsAt(out) : first <= i
=============================================================================
