----------------------------- MODULE ChromeTrace -----------------------------
(* chrome_trace/src/lib.rs: events are built, added to a trace, and the trace *)
(* is saved to a file as JSON, plain or compressed, and loaded again.  A save *)
(* creates the file, encodes the trace and writes, in this order; each can    *)
(* fail, or the process can end between them.                                *)
(*                                                                           *)
(* A duration is <<seconds, nanoseconds>>; an optional field is <<>> or       *)
(* <<value>>; JSON is a function from the field names that are written.       *)
EXTENDS Integers, Sequences, FiniteSets, SequencesExt

CONSTANTS Kinds,          \* the phases that events are created with
          Durations,
          NanosPerMicro, MicrosPerSec,
          U64,            \* u64 holds 0..U64 - 1
          MaxEvents, MaxSets, MaxSaves

VARIABLES event,          \* the event that is being built, if any: <<>> or <<event>>
          trace,          \* trace_events
          saving,         \* the save that is under way, [format, step, json]
          disk,           \* what the file holds, [format, json, whole]
          last,           \* the trace that was saved last: <<>> once it is overwritten
          made, sets, saves   \* events built, setters called, saves begun

vars == <<event, trace, saving, disk, last, made, sets, saves>>

Formats == {"json", "gzip", "zstd"}

\* The phases and the letters they are written as.
Phase ==
    [Begin |-> "B", End |-> "E", Complete |-> "X", Instant |-> "I",
     AsyncBegin |-> "b", AsyncEnd |-> "e", AsyncInstant |-> "n",
     FlowStart |-> "s", FlowStep |-> "t", FlowEnd |-> "f",
     ObjectCreate |-> "N", ObjectSnapshot |-> "O", ObjectDestroy |-> "D", Metadata |-> "M"]

Timed == {"ts", "tts", "dur", "tdur"}
Optional == {"cname", "id", "scope"} \cup Timed
Fields == {"name", "cat", "ph", "pid", "tid", "args"} \cup Optional

\* Event::default()
Default ==
    [f \in Fields |->
        IF f = "ph" THEN "Unspecified" ELSE IF f \in Optional \cup {"args"} THEN <<>> ELSE 0]

MutantAsMicros(dur) == dur[1] * MicrosPerSec + dur[2]

\* In a release build the sum wraps.
as_micros(dur) == (dur[1] * MicrosPerSec + (dur[2] \div NanosPerMicro)) % U64

from_micros(n) == <<n \div MicrosPerSec, (n % MicrosPerSec) * NanosPerMicro>>

\* Serialize for Event: an optional field without a value, and no arguments,
\* are left out.
Written(e) ==
    [f \in {g \in Fields : g \in Optional \cup {"args"} => e[g] # <<>>} |->
        CASE f = "ph" -> Phase[e.ph]
          [] f \in Timed -> as_micros(e[f][1])
          [] f \in Optional \ Timed -> e[f][1]
          [] OTHER -> e[f]]

\* There is no letter for Phase::Unspecified.
Serializable(events) == \A i \in DOMAIN events : events[i].ph \in DOMAIN Phase

\* Deserialize for Event, `default' for what is not there.
Read(json) ==
    [f \in Fields |->
        CASE f \notin DOMAIN json -> Default[f]
          [] f \in DOMAIN json /\ f = "ph" -> CHOOSE p \in DOMAIN Phase : Phase[p] = json.ph
          [] f \in DOMAIN json /\ f \in Timed -> <<from_micros(json[f])>>
          [] f \in DOMAIN json /\ f \in Optional \ Timed -> <<json[f]>>
          [] OTHER -> json[f]]

to_json(events) == [i \in DOMAIN events |-> Written(events[i])]

-----------------------------------------------------------------------------

Idle == [format |-> "json", step |-> "idle", json |-> <<>>]
NoFile == [format |-> "none", json |-> <<>>, whole |-> FALSE]
NotLoaded == [ok |-> FALSE, trace |-> <<>>]

Init ==
    /\ event = <<>> /\ trace = <<>> /\ saving = Idle
    /\ disk = NoFile /\ last = <<>>
    /\ made = 0 /\ sets = 0 /\ saves = 0

\* Event::new(), or Event::now() with the time.
NewEvent(ph, time) ==
    /\ event = <<>> /\ saving = Idle /\ made < MaxEvents
    /\ made' = made + 1
    /\ event' = <<[Default EXCEPT !.name = 1, !.ph = ph, !.pid = 1, !.tid = 1, !.ts = time]>>
    /\ UNCHANGED <<trace, saving, disk, last, sets, saves>>

\* name() .. tdur(): the builder's setters.
SetField(f, v) ==
    /\ event # <<>> /\ sets < MaxSets
    /\ event' = <<[event[1] EXCEPT ![f] = v]>> /\ sets' = sets + 1
    /\ UNCHANGED <<trace, saving, disk, last, made, saves>>

Values(f) ==
    CASE f = "ph" -> DOMAIN Phase
      [] f \in Timed -> {<<d>> : d \in Durations}
      [] f \in (Optional \ Timed) \cup {"args"} -> {<<7>>}
      [] OTHER -> {7}

\* add_event(), and add_events() one by one.
AddEvent ==
    /\ event # <<>>
    /\ trace' = trace \o event /\ event' = <<>>
    /\ UNCHANGED <<saving, disk, last, made, sets, saves>>

\* save(), save_gzip(), save_zstd(): File::create() truncates.
Create(format) ==
    /\ event = <<>> /\ saving = Idle /\ saves < MaxSaves
    /\ saving' = [format |-> format, step |-> "created", json |-> <<>>]
    /\ disk' = NoFile /\ last' = <<>>
    /\ saves' = saves + 1
    /\ UNCHANGED <<event, trace, made, sets>>

\* to_json_string(), to_json_gzip(), to_json_zstd()
Encode ==
    /\ saving.step = "created"
    /\ saving' = IF Serializable(trace)
                 THEN [saving EXCEPT !.step = "encoded", !.json = to_json(trace)]
                 ELSE Idle
    /\ UNCHANGED <<event, trace, disk, last, made, sets, saves>>

\* write_all(), up to some point when it fails.
Write(whole) ==
    /\ saving.step = "encoded"
    /\ disk' = [format |-> saving.format, json |-> saving.json, whole |-> whole]
    /\ last' = IF whole THEN <<trace>> ELSE last
    /\ saving' = Idle
    /\ UNCHANGED <<event, trace, made, sets, saves>>

\* The process ends; another one starts without events.
Restart ==
    /\ event' = <<>> /\ trace' = <<>> /\ saving' = Idle
    /\ <<event, trace, saving>> # <<<<>>, <<>>, Idle>>
    /\ UNCHANGED <<disk, last, made, sets, saves>>

MutantParsed(format) ==
    IF disk.format = format
    THEN [ok |-> TRUE, trace |-> [i \in DOMAIN disk.json |-> Read(disk.json[i])]]
    ELSE NotLoaded

\* What is cut off or of another format is not parsed.
Parsed(format) ==
    IF disk.whole /\ disk.format = format
    THEN [ok |-> TRUE, trace |-> [i \in DOMAIN disk.json |-> Read(disk.json[i])]]
    ELSE NotLoaded

\* load(), load_gzip(), load_zstd()
Load(format) ==
    /\ event = <<>> /\ saving = Idle
    /\ Parsed(format).ok
    /\ trace' = Parsed(format).trace
    /\ UNCHANGED <<event, saving, disk, last, made, sets, saves>>

Next ==
    \/ \E ph \in Kinds, time \in {<<>>} \cup {<<d>> : d \in Durations} : NewEvent(ph, time)
    \/ \E f \in Fields : \E v \in Values(f) : SetField(f, v)
    \/ AddEvent
    \/ \E format \in Formats : Create(format) \/ Load(format)
    \/ Encode
    \/ \E whole \in BOOLEAN : Write(whole)
    \/ Restart

Spec == Init /\ [][Next]_vars

-----------------------------------------------------------------------------

\* To the microsecond, as long as u64 holds it.
Rounded(dur) ==
    <<dur[1], (dur[2] \div NanosPerMicro) * NanosPerMicro>>

Representable(dur) == dur[1] * MicrosPerSec + dur[2] \div NanosPerMicro < U64

SameField(f, saved, read) ==
    IF f \in Timed /\ saved # <<>>
    THEN Representable(saved[1]) => read = <<Rounded(saved[1])>>
    ELSE read = saved

Faithful(saved, read) ==
    /\ Len(read) = Len(saved)
    /\ \A i \in DOMAIN saved : \A f \in Fields : SameField(f, saved[i][f], read[i][f])

(* Whenever the file is loaded, during a save too: a load that succeeds      *)
(* returns the trace of the last save, event for event and to the            *)
(* microsecond, and a file that a save has created and not finished, whether *)
(* it is under way, failed or died, gives an error: no part of a trace, and  *)
(* nothing of the one that was saved before.                                 *)
TraceComesBack ==
    \A format \in Formats :
        LET now == Parsed(format)
        IN  /\ now.ok => last # <<>> /\ Faithful(last[1], now.trace)
            /\ (last # <<>> /\ disk.format = format) => now.ok
            /\ saving # Idle => ~now.ok
=============================================================================
