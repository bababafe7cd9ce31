----------------------------- MODULE ScubaSample -----------------------------
(* scuba_sample: a ScubaSample, the ScubaSampleBuilder that logs it, and the *)
(* Sampling that decides whether it does.  Clones of one builder, each in a  *)
(* thread of its own, share the log file and its mutex and the sequence      *)
(* counter; the sample and the sampling are copied.  A column's value is     *)
(* [section, v], the section being the type it is filed under in the JSON.   *)
EXTENDS Integers, Sequences, TLC, SequencesExt

CONSTANTS Clones, Rates, Columns,
          MaxOps,  \* calls each clone makes
          U64      \* one more than the largest u64, for the product of rates

VARIABLES builder,      \* each clone: [values, subset, sampling, pc, ops]
          seq,     \* the shared AtomicU64
          locked,  \* the clones that hold the mutex of the log file
          file,    \* the lines of the log file
          failed   \* a write to the file has failed

vars == <<builder, seq, locked, file, failed>>

IntValue(n) == [section |-> "int", v |-> n]
Inputs == {IntValue(7), [section |-> "normal", v |-> 8]}
Now == 5  \* the time of every log(), no input's

NoSampling == [kind |-> "NoSampling", rate |-> 1]

Builder == [values |-> <<>>, subset |-> "", sampling |-> NoSampling, pc |-> "idle", ops |-> 0]

add(m, k, v) == (k :> v) @@ m
remove(m, k) == [c \in DOMAIN m \ {k} |-> m[c]]
join_values(m, other) == other @@ m

(* Mutant: a column called time is not left out.                             *)
MutantToJson(m, time) == m @@ [c \in {"time"} |-> IntValue(time)]

(* Every column in the section of its type; `time` is the sample's own and   *)
(* a value filed under that name is left out.                                *)
to_json(m, time) == [c \in DOMAIN m \cup {"time"} |-> IF c = "time" THEN IntValue(time) ELSE m[c]]

(* One in `rate` is sampled in; once out, a sample stays out.                *)
subsampled(s, rate, hit) ==
    [kind |-> IF hit /\ s.kind # "SampledOut" THEN "SampledIn" ELSE "SampledOut",
     rate |-> (s.rate * rate) % U64]

(* A call of clone c that only changes its own sample or sampling.           *)
Call(c, new) ==
    /\ builder[c].pc = "idle" /\ builder[c].ops < MaxOps
    /\ builder' = [builder EXCEPT ![c] = [new EXCEPT !.ops = @ + 1]]
    /\ UNCHANGED <<seq, locked, file, failed>>

Add(c, k, v) == Call(c, [builder[c] EXCEPT !.values = add(@, k, v)])

RemoveColumn(c, k) == Call(c, [builder[c] EXCEPT !.values = remove(@, k)])

JoinValues(c, d) == Call(c, [builder[c] EXCEPT !.values = join_values(@, builder[d].values)])

SetSubset(c, s) == Call(c, [builder[c] EXCEPT !.subset = s])

Sampled(c, rate) ==
    /\ (builder[c].sampling.rate * rate) % U64 # 0  \* else the code panics
    /\ \E hit \in IF rate = 1 THEN {TRUE} ELSE BOOLEAN :
        Call(c, [builder[c] EXCEPT !.sampling = subsampled(@, rate, hit)])

Unsampled(c) == Call(c, [builder[c] EXCEPT !.sampling = NoSampling])

(* log(): set_time, next_seq() and Sampling::apply().  A sample left out has *)
(* used up a number all the same.                                            *)
Log(c) ==
    LET s == builder[c].sampling
        numbered == add(builder[c].values, "seq", IntValue(seq))
    IN  /\ builder[c].pc = "idle" /\ builder[c].ops < MaxOps
        /\ seq' = seq + 1
        /\ builder' = [builder EXCEPT ![c].ops = @ + 1,
                          ![c].values = IF s.kind = "SampledIn" THEN add(numbered, "sample_rate", IntValue(s.rate))
                                        ELSE numbered,
                          ![c].pc = IF s.kind = "SampledOut" THEN "idle" ELSE "lock"]
        /\ UNCHANGED <<locked, file, failed>>

(* Mutant: the file is written without its mutex.                            *)
MutantLock(c) ==
    /\ builder[c].pc = "lock"
    /\ locked' = locked \cup {c}
    /\ builder' = [builder EXCEPT ![c].pc = "write"]
    /\ UNCHANGED <<seq, file, failed>>

(* The mutex of the log file.                                                *)
Lock(c) ==
    /\ builder[c].pc = "lock" /\ locked = {}
    /\ locked' = {c}
    /\ builder' = [builder EXCEPT ![c].pc = "write"]
    /\ UNCHANGED <<seq, file, failed>>

(* write_all of the rendered sample: it goes on the line that is open.       *)
Open == file # <<>> /\ ~Last(file).ended

WriteSample(c) ==
    LET line == [json |-> to_json(builder[c].values, Now), by |-> c, sampling |-> builder[c].sampling,
                 subset |-> builder[c].subset, parts |-> 1, ended |-> FALSE]
    IN  /\ builder[c].pc = "write"
        /\ file' = IF Open THEN [file EXCEPT ![Len(file)].parts = @ + 1] ELSE Append(file, line)
        /\ builder' = [builder EXCEPT ![c].pc = "newline"]
        /\ UNCHANGED <<seq, locked, failed>>

WriteNewline(c) ==
    /\ builder[c].pc = "newline"
    /\ file' = IF Open THEN [file EXCEPT ![Len(file)].ended = TRUE] ELSE file
    /\ builder' = [builder EXCEPT ![c].pc = "idle"]
    /\ locked' = locked \ {c}
    /\ UNCHANGED <<seq, failed>>

(* A write fails and what was written stays.  try_log() returns the error,   *)
(* which releases the lock and which log() ignores; log_with_time() goes on  *)
(* to the newline all the same.                                              *)
WriteFails(c) ==
    /\ ~failed /\ builder[c].pc \in {"write", "newline"}
    /\ failed' = TRUE
    /\ \E next \in {"idle"} \cup IF builder[c].pc = "write" THEN {"newline"} ELSE {} :
        /\ builder' = [builder EXCEPT ![c].pc = next]
        /\ locked' = IF next = "idle" THEN locked \ {c} ELSE locked
    /\ UNCHANGED <<seq, file>>

Init ==
    /\ builder = [c \in Clones |-> Builder]
    /\ seq = 0 /\ locked = {} /\ file = <<>> /\ failed = FALSE

Next ==
    \E c \in Clones :
        \/ \E k \in Columns, v \in Inputs : Add(c, k, v)
        \/ \E k \in Columns : RemoveColumn(c, k)
        \/ \E d \in Clones \ {c} : JoinValues(c, d)
        \/ \E s \in {"", "subset"} : SetSubset(c, s)
        \/ \E r \in Rates : Sampled(c, r)
        \/ Unsampled(c) \/ Log(c) \/ Lock(c)
        \/ WriteSample(c) \/ WriteNewline(c) \/ WriteFails(c)

Spec == Init /\ [][Next]_vars

(* Every line of the log is one sample unless a write failed, and tells the  *)
(* truth about it: its own time whatever columns it has, a number no other   *)
(* line has and later than the earlier ones of its clone, and the rate it    *)
(* stands for when it was sampled in.                                        *)
LogTrue ==
    /\ ~failed => \A i \in DOMAIN file : file[i].parts = 1 /\ (i < Len(file) => file[i].ended)
    /\ \A i \in DOMAIN file :
        /\ file[i].json["time"] = IntValue(Now)
        /\ file[i].sampling.kind # "SampledOut"
        /\ file[i].sampling.kind = "SampledIn" => file[i].json["sample_rate"] = IntValue(file[i].sampling.rate)
        /\ \A j \in DOMAIN file : i < j =>
            /\ file[i].json["seq"] # file[j].json["seq"]
            /\ file[i].by = file[j].by => file[i].json["seq"].v < file[j].json["seq"].v

-----------------------------------------------------------------------------
(* scuba_sample/derive: what derive(StructuredSample) and                    *)
(* derive(TryFromSample) accept, and what the code they generate does with a *)
(* struct.  A field is [column, skip, flatten, value]: the column is its     *)
(* name or its `name = "..."`, `flatten` the columns of the nested sample.   *)

CONSTANTS Structs  \* sequences of fields

VARIABLES fields, stage, sample, parsed

deriveVars == <<fields, stage, sample, parsed>>

(* get_fields(): only StructuredSample leaves the skipped fields out.        *)
get_fields(s, can_skip) == SelectSeq(s, LAMBDA f : ~(can_skip /\ f.skip))

(* check_unique(): by the fields' own columns.                               *)
check_unique(s) == \A i, j \in DOMAIN s : i # j => s[i].column # s[j].column

(* get_adder(): one column, or those of the flattened sample, which replace  *)
(* the ones that are there.                                                  *)
get_adder(acc, f) ==
    IF f.flatten # {} THEN [c \in f.flatten |-> f.value] @@ acc ELSE (f.column :> f.value) @@ acc

structured_sample(s) == FoldLeft(get_adder, <<>>, get_fields(s, TRUE))

(* The generated try_from(): a column that is missing is an error, checked   *)
(* for all the fields before any is parsed.                                  *)
try_from_sample(s, from) ==
    LET want == get_fields(s, FALSE)
    IN  IF \E i \in DOMAIN want : want[i].column \notin DOMAIN from
        THEN [ok |-> FALSE, got |-> <<>>]
        ELSE [ok |-> TRUE, got |-> [i \in DOMAIN want |-> from[want[i].column]]]

DeriveInit == fields \in Structs /\ stage = "derive" /\ sample = <<>> /\ parsed = [ok |-> FALSE, got |-> <<>>]

(* Compilation fails on duplicate columns.                                   *)
Derive ==
    /\ stage = "derive"
    /\ stage' = IF check_unique(get_fields(fields, TRUE)) /\ check_unique(get_fields(fields, FALSE))
                THEN "accepted" ELSE "rejected"
    /\ UNCHANGED <<fields, sample, parsed>>

IntoSample ==
    /\ stage = "accepted"
    /\ stage' = "sampled" /\ sample' = structured_sample(fields)
    /\ UNCHANGED <<fields, parsed>>

TryFromSample ==
    /\ stage = "sampled"
    /\ stage' = "back" /\ parsed' = try_from_sample(fields, sample)
    /\ UNCHANGED <<fields, sample>>

DeriveNext == Derive \/ IntoSample \/ TryFromSample

DeriveSpec == DeriveInit /\ [][DeriveNext]_deriveVars

OwnColumns == {fields[i].column : i \in {j \in DOMAIN fields : ~fields[j].skip /\ fields[j].flatten = {}}}
Flattened == UNION {fields[i].flatten : i \in {j \in DOMAIN fields : ~fields[j].skip}}

(* A struct of an accepted derive comes back as it was, when no field is     *)
(* skipped or flattened; otherwise it comes back only if another field's     *)
(* columns stand in, and a field whose column no flattened sample holds is   *)
(* never changed.                                                            *)
StructsComeBack ==
    stage = "back" =>
        /\ (\A i \in DOMAIN fields : ~fields[i].skip /\ fields[i].flatten = {}) => parsed.ok
        /\ \A i \in DOMAIN fields :
            parsed.ok /\ ~fields[i].skip /\ fields[i].flatten = {} /\ fields[i].column \notin Flattened
                => parsed.got[i] = fields[i].value
        /\ parsed.ok <=> \A i \in DOMAIN fields : fields[i].column \in OwnColumns \cup Flattened
=============================================================================
