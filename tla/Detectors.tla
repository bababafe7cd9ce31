------------------------------ MODULE Detectors ------------------------------
(* tokio-detectors' LongRunningTaskDetector: monitoring threads that probe   *)
(* the runtime with an empty task, report its workers when the answer is     *)
(* late, and panic when it does not come at all; start() and stop() with a   *)
(* flag they share; workers that come and go.                                *)
EXTENDS Integers, Sequences, FiniteSets

CONSTANTS Workers, MaxStarts, MaxProbes    \* bounds on start() and on probes begun

VARIABLES stop_flag,
          monitor,    \* the monitoring threads, in the order of their start()s:
                      \* "check", "begin", "probing", "late", "sleeping", "over", "panicked"
          task,       \* each one's probe: "none", "spawned", "sent", "failed"
          workers,    \* WorkerSet: threads between on_thread_start and on_thread_stop
          reported,   \* monitors whose present probe was reported
          begun,      \* probes begun in all
          overrun     \* per monitor: probes begun since the flag was last set

vars == <<stop_flag, monitor, task, workers, reported, begun, overrun>>

(* start_with_custom_action: the flag is cleared for every monitor there is, *)
(* and a new one is spawned.                                                 *)
Start ==
    /\ Len(monitor) < MaxStarts
    /\ stop_flag' = FALSE
    /\ monitor' = Append(monitor, "check") /\ task' = Append(task, "none")
    /\ overrun' = [i \in 1..Len(monitor) + 1 |-> 0]
    /\ UNCHANGED <<workers, reported, begun>>

(* stop(), and drop().                                                       *)
Stop ==
    /\ ~stop_flag
    /\ stop_flag' = TRUE
    /\ overrun' = [i \in DOMAIN overrun |-> 0]
    /\ UNCHANGED <<monitor, task, workers, reported, begun>>

(* Mutant: the flag is looked at once, when the thread starts.               *)
MutantCheck(i) ==
    /\ monitor[i] = "check"
    /\ monitor' = [monitor EXCEPT ![i] = "begin"]
    /\ UNCHANGED <<stop_flag, task, workers, reported, begun, overrun>>

Check(i) ==
    /\ monitor[i] = "check"
    /\ monitor' = [monitor EXCEPT ![i] = IF stop_flag THEN "over" ELSE "begin"]
    /\ UNCHANGED <<stop_flag, task, workers, reported, begun, overrun>>

(* probe: the empty task is spawned on the runtime.                          *)
Probe(i) ==
    /\ monitor[i] = "begin" /\ begun < MaxProbes
    /\ monitor' = [monitor EXCEPT ![i] = "probing"]
    /\ task' = [task EXCEPT ![i] = "spawned"]
    /\ begun' = begun + 1
    /\ overrun' = [overrun EXCEPT ![i] = IF stop_flag THEN @ + 1 ELSE @]
    /\ UNCHANGED <<stop_flag, workers, reported>>

(* do_nothing runs on some worker; the channel is gone when the monitor has  *)
(* given up on it.                                                           *)
DoNothing(i) ==
    /\ task[i] = "spawned" /\ workers # {}
    /\ task' = [task EXCEPT ![i] = IF monitor[i] = "panicked" THEN "failed" ELSE "sent"]
    /\ UNCHANGED <<stop_flag, monitor, workers, reported, begun, overrun>>

(* recv_timeout answers, at once or after a report.                          *)
Answered(i) ==
    /\ monitor[i] \in {"probing", "late"} /\ task[i] = "sent"
    /\ monitor' = [monitor EXCEPT ![i] = "sleeping"]
    /\ task' = [task EXCEPT ![i] = "none"]
    /\ reported' = reported \ {i}
    /\ UNCHANGED <<stop_flag, workers, begun, overrun>>

(* The probe is late: the workers there are now are reported.                *)
BlockingDetected(i) ==
    /\ monitor[i] = "probing" /\ task[i] = "spawned"
    /\ reported' = reported \union {i}
    /\ monitor' = [monitor EXCEPT ![i] = "late"]
    /\ UNCHANGED <<stop_flag, task, workers, begun, overrun>>

(* The answer does not come within the last timeout either: unwrap() panics, *)
(* in this thread only.                                                      *)
Panic(i) ==
    /\ monitor[i] = "late" /\ task[i] = "spawned"
    /\ monitor' = [monitor EXCEPT ![i] = "panicked"]
    /\ UNCHANGED <<stop_flag, task, workers, reported, begun, overrun>>

Slept(i) ==
    /\ monitor[i] = "sleeping"
    /\ monitor' = [monitor EXCEPT ![i] = "check"]
    /\ UNCHANGED <<stop_flag, task, workers, reported, begun, overrun>>

(* on_thread_start and on_thread_stop of the runtime's builder.              *)
ThreadStart(w) ==
    /\ w \notin workers
    /\ workers' = workers \union {w}
    /\ UNCHANGED <<stop_flag, monitor, task, reported, begun, overrun>>

ThreadStop(w) ==
    /\ w \in workers
    /\ workers' = workers \ {w}
    /\ UNCHANGED <<stop_flag, monitor, task, reported, begun, overrun>>

Init ==
    /\ stop_flag = TRUE
    /\ monitor = <<>> /\ task = <<>> /\ overrun = <<>>
    /\ workers = {} /\ reported = {} /\ begun = 0

Next ==
    \/ Start \/ Stop
    \/ \E i \in DOMAIN monitor :
        \/ Check(i) \/ Probe(i) \/ DoNothing(i) \/ Answered(i)
        \/ BlockingDetected(i) \/ Panic(i) \/ Slept(i)
    \/ \E w \in Workers : ThreadStart(w) \/ ThreadStop(w)

Spec == Init /\ [][Next]_vars

(* Stopping works with no handshake, however many monitors start() has left  *)
(* behind: each begins one more probe at most, the one it had looked at the  *)
(* flag for.  A monitor only gives up on a probe it has reported and that no *)
(* worker had run, and a probe only finds its channel gone after that.       *)
MonitorsSound ==
    /\ \A i \in DOMAIN monitor : stop_flag => overrun[i] <= 1
    /\ \A i \in DOMAIN monitor : monitor[i] \in {"late", "panicked"} => i \in reported
    /\ \A i \in reported : monitor[i] \in {"late", "panicked"}
    /\ \A i \in DOMAIN monitor : monitor[i] = "panicked" => task[i] \in {"spawned", "failed"}
=============================================================================
