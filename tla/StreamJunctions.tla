--------------------------- MODULE StreamJunctions ---------------------------
(* futures_01_ext's streams with several ends: streamfork (one stream into   *)
(* two sinks), SelectAll (several streams into one) and FuturesOrdered       *)
(* (several futures into one stream).  A poll is a run of steps from "idle"  *)
(* back to "idle" or to "gone"; what streams, sinks and futures answer is    *)
(* chosen by them.  Items are numbered per source.                           *)
EXTENDS Integers, Sequences, SequencesExt, FiniteSets

CONSTANTS MaxItems, Sources     \* items in all, and the streams of a SelectAll

VARIABLES junction,
          stage,       \* "idle", "push", "loop", "finish", "gone"
          fetched,     \* items read: <<source, number, sink the predicate chose>>
          input,       \* source -> "open", "ended", "failed"
          buf,         \* sink -> the item it would not take, as <<>> or <<item>>
          sent,        \* sink -> items it took
          unflushed,   \* sinks that hold items they were not asked to flush, or did not
          finished,    \* Forker::finished: "none", "ok", "err"
          awaiting,    \* what was polled last and will wake the task
          result       \* the answer of the last poll

vars == <<junction, stage, fetched, input, buf, sent, unflushed, finished, awaiting, result>>

Sinks == 1..2
Count(s) == Cardinality({i \in DOMAIN fetched : fetched[i][1] = s})

Answer(r, next) == result' = r /\ stage' = next

(* Forker::poll: a Forker whose input is over only completes its outputs;    *)
(* any other first pushes what they would not take.                          *)
PollFork ==
    /\ junction = "fork" /\ stage = "idle"
    /\ stage' = IF finished # "none" THEN "finish" ELSE "push"
    /\ awaiting' = {}
    /\ UNCHANGED <<junction, fetched, input, buf, sent, unflushed, finished, result>>

(* Out::try_start_send: the sink takes the item, keeps it waiting, or fails. *)
StartSend(s, item, accept) ==
    /\ sent' = [sent EXCEPT ![s] = IF accept THEN Append(@, item) ELSE @]
    /\ unflushed' = IF accept THEN unflushed \union {s} ELSE unflushed
    /\ buf' = [buf EXCEPT ![s] = IF accept THEN <<>> ELSE <<item>>]

(* Both outputs push; at most one of them has something to push.             *)
Push(s, accept) ==
    /\ stage = "push" /\ buf[s] # <<>>
    /\ StartSend(s, buf[s][1], accept)
    /\ IF accept
       THEN /\ stage' = "push" /\ UNCHANGED <<result, awaiting>>
       ELSE /\ Answer("pending", "idle")
            /\ awaiting' = awaiting \union {<<"sink", s>>}
    /\ UNCHANGED <<junction, fetched, input, finished>>

Pushed ==
    /\ stage = "push" /\ \A s \in Sinks : buf[s] = <<>>
    /\ stage' = "loop"
    /\ UNCHANGED <<junction, fetched, input, buf, sent, unflushed, finished, awaiting, result>>

(* The input has an item: the predicate chooses its output.                  *)
ForkItem(s, accept) ==
    LET item == Count(1) + 1
    IN  /\ junction = "fork" /\ stage = "loop" /\ input[1] = "open"
        /\ Len(fetched) < MaxItems
        /\ fetched' = Append(fetched, <<1, item, s>>)
        /\ StartSend(s, item, accept)
        /\ IF accept
           THEN UNCHANGED <<stage, result, awaiting>>
           ELSE /\ Answer("pending", "idle")
                /\ awaiting' = awaiting \union {<<"sink", s>>}
        /\ UNCHANGED <<junction, input, finished>>

(* Mutant: the second output is only completed when the first one is.        *)
MutantPollCompleteBoth(ready) ==
    /\ unflushed' = IF 1 \in ready THEN unflushed \ ready ELSE unflushed
    /\ awaiting' = awaiting \union
        {<<"sink", s>> : s \in IF 1 \in ready THEN Sinks \ ready ELSE {1}}

(* poll_complete() of both outputs: those in ready have flushed everything.  *)
PollCompleteBoth(ready) ==
    /\ unflushed' = unflushed \ ready
    /\ awaiting' = awaiting \union {<<"sink", s>> : s \in Sinks \ ready}

ForkPending(ready) ==
    /\ junction = "fork" /\ stage = "loop" /\ input[1] = "open"
    /\ unflushed' = unflushed \ ready
    /\ awaiting' = awaiting \union {<<"source", 1>>} \union {<<"sink", s>> : s \in Sinks \ ready}
    /\ Answer("pending", "idle")
    /\ UNCHANGED <<junction, fetched, input, buf, sent, finished>>

(* Mutant: an input error is returned without completing the outputs.        *)
MutantForkOver(how, ready) ==
    /\ junction = "fork" /\ stage = "loop" /\ input[1] = "open"
    /\ input' = [input EXCEPT ![1] = how]
    /\ Answer(IF how = "ended" THEN "done" ELSE "err", "gone")
    /\ UNCHANGED <<junction, fetched, buf, sent, unflushed, finished, awaiting>>

(* The input ends or fails: the answer waits until both outputs are flushed. *)
ForkOver(how, ready) ==
    /\ junction = "fork" /\ stage = "loop" /\ input[1] = "open"
    /\ input' = [input EXCEPT ![1] = how]
    /\ PollCompleteBoth(ready)
    /\ IF ready = Sinks
       THEN /\ Answer(IF how = "ended" THEN "done" ELSE "err", "gone")
            /\ UNCHANGED finished
       ELSE /\ Answer("pending", "idle")
            /\ finished' = IF how = "ended" THEN "ok" ELSE "err"
    /\ UNCHANGED <<junction, fetched, buf, sent>>

Finish(ready) ==
    /\ stage = "finish"
    /\ PollCompleteBoth(ready)
    /\ IF ready = Sinks
       THEN Answer(IF finished = "ok" THEN "done" ELSE "err", "gone") /\ finished' = "none"
       ELSE Answer("pending", "idle") /\ UNCHANGED finished
    /\ UNCHANGED <<junction, fetched, input, buf, sent>>

(* The predicate or a sink fails: the error is the answer, at once.          *)
ForkFails ==
    /\ junction = "fork" /\ stage \in {"push", "loop", "finish"}
    /\ Answer("sink_err", "gone")
    /\ UNCHANGED <<junction, fetched, input, buf, sent, unflushed, finished, awaiting>>

(* SelectAll::poll: FuturesUnordered (external) hands over any stream that   *)
(* is ready; a stream with an item goes back in, one that has ended or       *)
(* failed does not.                                                          *)
SelectItem(s) ==
    /\ junction = "select" /\ stage = "idle" /\ input[s] = "open"
    /\ Len(fetched) < MaxItems
    /\ fetched' = Append(fetched, <<s, Count(s) + 1, 1>>)
    /\ sent' = [sent EXCEPT ![1] = Append(@, <<s, Count(s) + 1>>)]
    /\ Answer("item", "idle") /\ awaiting' = {}
    /\ UNCHANGED <<junction, input, buf, unflushed, finished>>

SelectError(s) ==
    /\ junction = "select" /\ stage = "idle" /\ input[s] = "open"
    /\ input' = [input EXCEPT ![s] = "failed"]
    /\ Answer("err", "idle") /\ awaiting' = {}
    /\ UNCHANGED <<junction, fetched, buf, sent, unflushed, finished>>

(* Any number of streams end before the poll that finds the rest pending, or *)
(* finds none.                                                               *)
SelectWaits(ends) ==
    LET left == {s \in Sources : input[s] = "open"} \ ends
    IN  /\ junction = "select" /\ stage = "idle"
        /\ \A s \in ends : input[s] = "open"
        /\ input' = [s \in DOMAIN input |-> IF s \in ends THEN "ended" ELSE input[s]]
        /\ awaiting' = {<<"source", s>> : s \in left}
        /\ IF left = {} THEN Answer("end", "gone") ELSE Answer("pending", "idle")
        /\ UNCHANGED <<junction, fetched, buf, sent, unflushed, finished>>

(* FuturesOrdered::poll: the source is a future of the list, the next one is *)
(* only taken from it when this one has answered.                            *)
OrderedPoll(r) ==
    LET s == Len(fetched) + 1
    IN  /\ junction = "ordered" /\ stage = "idle"
        /\ IF s > MaxItems
           THEN Answer("end", "gone") /\ awaiting' = {} /\ UNCHANGED <<fetched, sent>>
           ELSE /\ Answer(r, "idle")
                /\ awaiting' = IF r = "pending" THEN {<<"source", s>>} ELSE {}
                /\ fetched' = IF r = "pending" THEN fetched ELSE Append(fetched, <<s, 1, 1>>)
                /\ sent' = IF r = "item" THEN [sent EXCEPT ![1] = Append(@, s)] ELSE sent
        /\ UNCHANGED <<junction, input, buf, unflushed, finished>>

Init ==
    /\ junction \in {"fork", "select", "ordered"}
    /\ stage = "idle" /\ fetched = <<>>
    /\ input = [s \in Sources |-> "open"]
    /\ buf = [s \in Sinks |-> <<>>] /\ sent = [s \in Sinks |-> <<>>]
    /\ unflushed = {} /\ finished = "none" /\ awaiting = {} /\ result = "new"

Next ==
    \/ PollFork \/ Pushed \/ ForkFails
    \/ \E s \in Sinks, a \in BOOLEAN : Push(s, a) \/ ForkItem(s, a)
    \/ \E ready \in SUBSET Sinks :
        ForkPending(ready) \/ Finish(ready) \/ \E how \in {"ended", "failed"} : ForkOver(how, ready)
    \/ \E s \in Sources : SelectItem(s) \/ SelectError(s)
    \/ \E ends \in SUBSET Sources : SelectWaits(ends)
    \/ \E r \in {"pending", "item", "err"} : OrderedPoll(r)

Spec == Init /\ [][Next]_vars

Chosen(s) == {fetched[i][2] : i \in {j \in DOMAIN fetched : fetched[j][3] = s}}
Members(q) == {q[i] : i \in DOMAIN q}
Increasing(q) == \A i, j \in DOMAIN q : i < j => q[i] < q[j]

(* Forking: each sink is sent exactly the items the predicate chose for it,  *)
(* in their order, the one being held back last, and only one is ever held   *)
(* back, so none is overwritten; a Forker that says its input is over, well  *)
(* or badly, has sent and flushed everything it read.  Selecting: no item of *)
(* a stream is lost, repeated or overtakes another of the stream, and the    *)
(* end is told only when every stream has ended or failed.  Ordered futures: *)
(* every one is driven, past those that fail, and results keep their order.  *)
JunctionsFaithful ==
    /\ junction = "fork" =>
        /\ \A s \in Sinks : Increasing(sent[s] \o buf[s]) /\ Members(sent[s] \o buf[s]) = Chosen(s)
        /\ buf[1] = <<>> \/ buf[2] = <<>>
        /\ finished # "none" => \A s \in Sinks : buf[s] = <<>>
        /\ result \in {"done", "err"} =>
            unflushed = {} /\ \A s \in Sinks : Members(sent[s]) = Chosen(s)
    /\ junction = "select" =>
        /\ \A s \in Sources : {x \in Members(sent[1]) : x[1] = s} = {<<s, i>> : i \in 1..Count(s)}
        /\ \A i, j \in DOMAIN sent[1] :
            i < j /\ sent[1][i][1] = sent[1][j][1] => sent[1][i][2] < sent[1][j][2]
        /\ result = "end" => \A s \in Sources : input[s] # "open"
    /\ junction = "ordered" =>
        Increasing(sent[1]) /\ (result = "end" => Len(fetched) = MaxItems)

(* A task that was told to wait waits for something: the source that had     *)
(* nothing, or the sink that is full, and for a sink with unflushed items it *)
(* is asked to flush unless another one is blocked.                          *)
JunctionsWake ==
    stage = "idle" /\ result = "pending" =>
        /\ awaiting # {}
        /\ junction = "fork" =>
            \A s \in unflushed : <<"sink", s>> \in awaiting \/ \E t \in Sinks : buf[t] # <<>>
=============================================================================
