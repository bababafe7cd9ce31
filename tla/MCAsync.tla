------------------------------- MODULE MCAsync -------------------------------
(* The asynchronous and the shared building blocks of the library, checked   *)
(* in one run: adaptors of streams and futures, retries, the bounded queues, *)
(* the junctions of streams, shared cells, thread local statistics, the      *)
(* detector and the knobs.  The component that is `active` takes all the     *)
(* steps, the others stay at rest.                                           *)
EXTENDS Integers, Sequences, TLC

VARIABLES active, adaptor, own, given, over, repolled, out, ret, armed,
          dropped, side, wrapper, fut, callback, ran, answers, handles,
          aborted, gone, strategy, limit, ceiling, attempt, doing, inspected,
          refused, slept, outcome, flavour, pc, taken, ended, queue,
          current_weight, leaked, gap, yielded, answer, woken, junction, stage,
          fetched, input, buf, sent, unflushed, finished, awaiting, result,
          cell, caller, op, got, holder, lockers, value, is_initialized,
          shared, factory, poisoned, registrations, schedules, thread,
          manager, idx, threadmap, boxes, visiting, visited, walking, made,
          stop_flag, monitor, task, workers, reported, begun, overrun,
          version, knobs, inits, worker, seen, borrowed, last, local, saved,
          base, unwound, future, polling, scopes, overrides

CONSTANTS
    MaxGiven, Limit, Budget, MaxElapsed,                  \* StreamAdaptors
    MaxPolls, MaxHandles,                                 \* FutureAdaptors
    Attempts, MaxIntervals, MaxDuration, MaxRetries,      \* Retry
    Weights, MaxBufferSize, WeightLimit, MaxTaken,        \* WeightLimited
    MaxItems, Sources,                                    \* StreamJunctions
    Callers,                                              \* SharedCells
    Threads, MaxRegistrations, MaxSchedules,              \* Stats
    Workers, MaxStarts, MaxProbes,                        \* Detectors
    NewKnobs, MaxVersion, MaxInits, MaxScopes, MaxOverrides  \* JustKnobs

(* Limits, weights and durations are numbers.  A queue has room for one      *)
(* future: nothing checks that, and without room it never asks its stream.   *)
(* A caller of a cell names the value it computes, which is neither 0, for   *)
(* none, nor an error; a knob's value is not the answer that it is missing.  *)
ASSUME AsyncConstants ==
    /\ {MaxGiven, Limit, Budget, MaxElapsed, MaxHandles, MaxItems} \subseteq Nat
    /\ Attempts \subseteq Nat /\ MaxIntervals \subseteq Nat
    /\ Weights \subseteq Nat
    /\ MaxBufferSize \in Nat \ {0} /\ WeightLimit \in Nat
    /\ Callers \subseteq Nat \ {0}
    /\ \A new \in NewKnobs : new \in [DOMAIN new -> STRING \ {"missing"}]

(* Two sets of knobs that overlap in knob 1.                                 *)
TwoKnobs == {1 :> "a", 1 :> "b" @@ 2 :> "b"}

Streams == INSTANCE StreamAdaptors
Futures == INSTANCE FutureAdaptors
Retries == INSTANCE Retry
Weighted == INSTANCE WeightLimited
Junctions == INSTANCE StreamJunctions
Cells == INSTANCE SharedCells
Stat == INSTANCE Stats
Detect == INSTANCE Detectors
Knob == INSTANCE JustKnobs

streamVars == <<adaptor, own, given, over, repolled, out, ret, armed,
                 dropped, side>>
futureVars == <<wrapper, fut, callback, ran, answers, handles, aborted, gone>>
retryVars == <<strategy, limit, ceiling, attempt, doing, inspected, refused,
                slept, outcome>>
weightVars == <<flavour, pc, taken, ended, queue, current_weight, leaked,
                 gap, yielded, answer, woken>>
junctionVars == <<junction, stage, fetched, input, buf, sent, unflushed,
                   finished, awaiting, result>>
cellVars == <<cell, caller, op, got, holder, lockers, value, is_initialized,
               shared>>
statsVars == <<factory, poisoned, registrations, schedules, thread, manager,
                idx, threadmap, boxes, visiting, visited, walking, made>>
detectorVars == <<stop_flag, monitor, task, workers, reported, begun, overrun>>
configVars == <<version, knobs, inits, worker, seen, borrowed, last>>
localVars == <<local, saved, base, unwound, future, polling, scopes,
                overrides>>

Components == {"stream", "future", "retry", "weight", "junction", "cell",
               "stats", "detector", "config", "local"}

Init ==
    /\ active \in Components
    /\ Stat!Init /\ Detect!Init /\ Knob!Init
    /\ IF active = "stream" THEN Streams!Init
       ELSE /\ adaptor = 0 /\ own = 0 /\ given = 0 /\ over = 0 /\ repolled = 0
            /\ out = 0 /\ ret = 0 /\ armed = 0 /\ dropped = 0 /\ side = 0
    /\ IF active = "future" THEN Futures!Init
       ELSE /\ wrapper = 0 /\ fut = 0 /\ callback = 0 /\ ran = 0
            /\ answers = 0 /\ handles = 0 /\ aborted = 0 /\ gone = 0
    /\ IF active = "retry" THEN Retries!Init
       ELSE /\ strategy = 0 /\ limit = 0 /\ ceiling = 0 /\ attempt = 0
            /\ doing = 0 /\ inspected = 0 /\ refused = 0 /\ slept = 0
            /\ outcome = 0
    /\ IF active = "weight" THEN Weighted!Init
       ELSE /\ flavour = 0 /\ pc = 0 /\ taken = 0 /\ ended = 0 /\ queue = 0
            /\ current_weight = 0 /\ leaked = 0 /\ gap = 0 /\ yielded = 0 /\ answer = 0
            /\ woken = 0
    /\ IF active = "junction" THEN Junctions!Init
       ELSE /\ junction = 0 /\ stage = 0 /\ fetched = 0 /\ input = 0
            /\ buf = 0 /\ sent = 0 /\ unflushed = 0 /\ finished = 0
            /\ awaiting = 0 /\ result = 0
    /\ IF active = "cell" THEN Cells!Init
       ELSE /\ cell = 0 /\ caller = 0 /\ op = 0 /\ got = 0 /\ holder = 0
            /\ lockers = 0 /\ value = 0 /\ is_initialized = 0 /\ shared = 0

StreamStep ==
    /\ active = "stream" /\ Streams!Next
    /\ UNCHANGED <<active, futureVars, retryVars, weightVars, junctionVars,
                   cellVars, statsVars, detectorVars, configVars, localVars>>

FutureStep ==
    /\ active = "future" /\ Futures!Next
    /\ UNCHANGED <<active, streamVars, retryVars, weightVars, junctionVars,
                   cellVars, statsVars, detectorVars, configVars, localVars>>

RetryStep ==
    /\ active = "retry" /\ Retries!Next
    /\ UNCHANGED <<active, streamVars, futureVars, weightVars, junctionVars,
                   cellVars, statsVars, detectorVars, configVars, localVars>>

WeightStep ==
    /\ active = "weight" /\ Weighted!Next
    /\ UNCHANGED <<active, streamVars, futureVars, retryVars, junctionVars,
                   cellVars, statsVars, detectorVars, configVars, localVars>>

JunctionStep ==
    /\ active = "junction" /\ Junctions!Next
    /\ UNCHANGED <<active, streamVars, futureVars, retryVars, weightVars,
                   cellVars, statsVars, detectorVars, configVars, localVars>>

CellStep ==
    /\ active = "cell" /\ Cells!Next
    /\ UNCHANGED <<active, streamVars, futureVars, retryVars, weightVars,
                   junctionVars, statsVars, detectorVars, configVars,
                   localVars>>

StatsStep ==
    /\ active = "stats" /\ Stat!Next
    /\ UNCHANGED <<active, streamVars, futureVars, retryVars, weightVars,
                   junctionVars, cellVars, detectorVars, configVars,
                   localVars>>

DetectorStep ==
    /\ active = "detector" /\ Detect!Next
    /\ UNCHANGED <<active, streamVars, futureVars, retryVars, weightVars,
                   junctionVars, cellVars, statsVars, configVars, localVars>>

ConfigStep ==
    /\ active = "config" /\ Knob!ConfigNext
    /\ UNCHANGED <<active, streamVars, futureVars, retryVars, weightVars,
                   junctionVars, cellVars, statsVars, detectorVars, localVars>>

LocalStep ==
    /\ active = "local" /\ Knob!LocalNext
    /\ UNCHANGED <<active, streamVars, futureVars, retryVars, weightVars,
                   junctionVars, cellVars, statsVars, detectorVars,
                   configVars>>

Next == StreamStep \/ FutureStep \/ RetryStep \/ WeightStep \/
        JunctionStep \/ CellStep \/ StatsStep \/ DetectorStep \/
        ConfigStep \/ LocalStep

vars == <<active, streamVars, futureVars, retryVars, weightVars, junctionVars, cellVars, statsVars, detectorVars, configVars, localVars>>
Spec == Init /\ [][Next]_vars

(* What goes in comes out: no adaptor loses, repeats or reorders an item     *)
(* (StreamAdaptors), the bounded queues give results in order and their      *)
(* weights back (WeightLimited, but for what a failed future of futures 0.1  *)
(* holds back), a forked stream reaches its sinks, flushed, and selected     *)
(* ones keep their order (StreamJunctions).                                  *)
ItemsDelivered ==
    /\ active = "stream" => Streams!NothingLost
    /\ active = "weight" => Weighted!QueueBalanced
    /\ active = "junction" => Junctions!JunctionsFaithful

(* A task told to wait will be woken: something that was polled and was not  *)
(* ready has its waker.  The parts name what they except, such as results    *)
(* stuck behind a failed future of futures 0.1 (WeightLimited).              *)
PendingIsWoken ==
    /\ active = "stream" => Streams!WakeKept
    /\ active = "weight" => Weighted!QueueWakes
    /\ active = "junction" => Junctions!JunctionsWake

(* The ends and results reported are those that happened: ends of streams,   *)
(* callbacks on results and cancellations, errors retried and given up.      *)
OutcomesTruthful ==
    /\ active = "stream" => Streams!EndsTruthful
    /\ active = "future" => Futures!CallbacksTruthful
    /\ active = "retry" => Retries!RetriesRight

(* State shared by threads and tasks is sound under every interleaving: one  *)
(* value per cell, no dangling pointer and one factory for statistics,       *)
(* monitors that stop, knobs that are current and overrides that are scoped. *)
InterleavingsSound ==
    /\ active = "cell" => Cells!CellsSound
    /\ active = "stats" => Stat!StatsSound
    /\ active = "detector" => Detect!MonitorsSound
    /\ active \in {"config", "local"} => Knob!KnobsSound

(* futures_retry's promise that retries go on until the future succeeds:     *)
(* with no limit on attempts no error is final, whatever the backoff.        *)
RetriesUntilSuccess == active = "retry" => Retries!RetriesUntilSuccess
=============================================================================
