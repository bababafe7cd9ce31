----------------------------- MODULE MCStructures -----------------------------
(* The data structures, the encodings and the small tools, checked in one    *)
(* run: the component that is `active` takes all the steps, the others stay  *)
(* at rest.                                                                  *)
EXTENDS Integers, Sequences, FiniteSets, SequencesExt, TLC

VARIABLES active,
          vec, rest, op, out,                              \* map and set
          sent, wire, buf, state, got, broken, spoiled,    \* netstring
          place, key, lazy, hasher, todo, result,          \* hash_memo
          rust, scuba, via, back,                          \* scuba values
          builder, seq, locked, file, failed,              \* scuba samples
          fields, stage, sample, parsed,                   \* scuba derive
          deps, container, is_async, phase, queue, ident_depths, lets,
          needed, running, built, calls, asks, stack,      \* facet
          adapter, origin, first, passed, returned, hop,   \* thrift adapters
          install_dirs, platform, strip, system_dest, left, dest,
          processed_deps, munging, raised,                 \* dyndeps
          type, tables, saved, query, before, answers, count,  \* queries!
          event, trace, saving, disk, last, made, sets, saves, \* chrome_trace
          gen_context, srcs, crate, input, version, steps,
          outcome, refused                                 \* thrift_compiler

Keys == 1..3
Vals == 1..2
Vectors ==
    {<<>>} \cup {[i \in DOMAIN ks |-> <<ks[i], 1 + (i % 2)>>] : ks \in UNION {[1..n -> Keys] : n \in 1..3}}

Messages == {<<>>, <<11>>, <<1, 10>>, [i \in 1..11 |-> 12]}
MaxSent == 3
Word == 64
Garbage == {0, 10, 11, 12}

Threads == {1, 2}
Values == {<<1>>, <<2>>, <<1, 2>>}
Places == {<<"key">>, <<"field", "key">>, <<"key", "field">>}

Strings == {<<1>>, <<2>>, <<1, 2>>}

Clones == {1, 2}
Rates == {2}
Columns == {"time"}
MaxOps == 2
U64 == 16

Field(v) ==
    [column : {"a", "b"}, skip : BOOLEAN, flatten : {{}, {"a"}, {"b", "c"}}, value : {v}]
Structs ==
    {<<f, g>> : f \in Field(1), g \in Field(2)} \cup
    {<<f, g, [column |-> "c", skip |-> FALSE, flatten |-> {}, value |-> 3]>> : f \in Field(1), g \in Field(2)}

Facets == 1..4
Graphs ==
    {[f \in Facets |-> CASE f = 1 -> a [] f = 2 -> b [] f = 3 -> c [] f = 4 -> d] :
        a \in SUBSET {2, 3, 4}, b \in SUBSET {3, 4}, c \in SUBSET {2, 4}, d \in SUBSET {1}}
Containers ==
    {<<[attrs |-> <<"facet">>, facets |-> {1}], [attrs |-> <<"init">>, facets |-> {}]>>,
     <<[attrs |-> <<"facet">>, facets |-> {3}], [attrs |-> <<"delegate">>, facets |-> {2, 4}]>>,
     <<[attrs |-> <<"init", "facet">>, facets |-> {1}]>>}

MaxTicks == 40
MaxDate == 4

Platforms == {"elf", "mach", "win"}
Programs == {"app"}
Need(kind, dir, sub, n) == [kind |-> kind, dir |-> dir, file |-> <<sub, n>>]
Named(n) == Need("name", 0, "", n)
LibC == Need("system", 0, "", "libc")
LibNeeds == {<<>>, <<LibC>>, <<Named("b")>>, <<Named("c"), Named("a")>>,
             <<Need("path", 2, "lib", "c"), LibC>>}
\* Libraries that need each other, c in both packages, b only in lib64.
Packages ==
    {<<(<<"lib", "a">> :> a @@ <<"lib64", "b">> :> b @@ <<"lib", "c">> :> <<LibC>>),
       (<<"bin", "app">> :> app @@ <<"lib", "c">> :> c)>> :
        a \in LibNeeds, b \in LibNeeds, c \in LibNeeds,
        app \in {<<Named("a"), Named("b")>>, <<LibC, Named("c")>>}}

\* A value that u64 holds and i64 does not, and types that are read as others.
Data ==
    "i64" :> {-8, 1} @@ "u64" :> {1, 9} @@ "bool" :> BOOLEAN @@
    "Vec<u8>" :> {<<>>, <<3>>} @@ "[u8; 1]" :> {<<3>>} @@ "f64" :> {2} @@
    "NaiveDateTime" :> {5} @@ "Option<i64>" :> {<<>>, <<4>>}
MaxQueries == 2

Kinds == {"Begin", "Unspecified"}
Durations == {<<1, 23>>, <<7, 0>>}

InputLists ==
    {<<>>, <<<<"x", "a">>>>, <<<<"x", "a">>, <<"x", "b">>>>, <<<<"x", "a">>, <<"y", "a">>>>}
Srcs == {<<>>, <<<<"..", "s.rs">>, <<"s.rs">>>>}
Paths == {<<"/">>, <<"/", "x">>, <<"/", "x", "y">>, <<"/", "x", "z">>, <<"/", "y", "x", "z">>}

Map == INSTANCE SortedVectorMap
Set == INSTANCE SortedVectorSet
Net == INSTANCE Netstring
Memo == INSTANCE HashMemo
Scuba == INSTANCE ScubaValue
Sample == INSTANCE ScubaSample
Facet == INSTANCE FacetFactory
Wire == INSTANCE WireTypes
Libraries == INSTANCE DynDeps
Sql == INSTANCE SqlQueries WITH Keys <- {1, 9}, Bits <- 4, MaxValues <- 2
Trace == INSTANCE ChromeTrace WITH
    NanosPerMicro <- 10, MicrosPerSec <- 10, U64 <- 64, MaxEvents <- 2, MaxSets <- 1, MaxSaves <- 2
Thrift == INSTANCE ThriftCompiler WITH
    out <- crate, todo <- steps, result <- outcome, MaxRuns <- 2

Components == {"map", "set", "netstring", "hash_memo", "value", "sample", "derive", "facet",
               "wire", "libraries", "sql", "trace", "thrift"}

Init ==
    /\ active \in Components
    /\ Map!Init /\ Net!Init /\ Sample!Init
    /\ IF active = "hash_memo" THEN Memo!Init
       ELSE place = 0 /\ key = 0 /\ lazy = 0 /\ hasher = 0 /\ todo = 0 /\ result = 0
    /\ IF active = "value" THEN Scuba!Init
       ELSE rust = 0 /\ scuba = 0 /\ via = 0 /\ back = 0
    /\ IF active = "derive" THEN Sample!DeriveInit
       ELSE fields = 0 /\ stage = 0 /\ sample = 0 /\ parsed = 0
    /\ IF active = "facet" THEN Facet!Init
       ELSE /\ deps = 0 /\ container = 0 /\ is_async = 0 /\ phase = 0 /\ queue = 0
            /\ ident_depths = 0 /\ lets = 0 /\ needed = 0 /\ running = 0 /\ built = 0
            /\ calls = 0 /\ asks = 0 /\ stack = 0
    /\ IF active = "wire" THEN Wire!Init
       ELSE adapter = 0 /\ origin = 0 /\ first = 0 /\ passed = 0 /\ returned = 0 /\ hop = 0
    /\ IF active = "libraries" THEN Libraries!Init
       ELSE /\ install_dirs = 0 /\ platform = 0 /\ strip = 0 /\ system_dest = 0 /\ left = 0 /\ dest = 0
            /\ processed_deps = 0 /\ munging = 0 /\ raised = 0
    /\ IF active = "sql" THEN Sql!Init
       ELSE /\ type = 0 /\ tables = 0 /\ saved = 0 /\ query = 0 /\ before = 0
            /\ answers = 0 /\ count = 0
    /\ IF active = "trace" THEN Trace!Init
       ELSE /\ event = 0 /\ trace = 0 /\ saving = 0 /\ disk = 0 /\ last = 0
            /\ made = 0 /\ sets = 0 /\ saves = 0
    /\ IF active = "thrift" THEN Thrift!Init
       ELSE /\ gen_context = 0 /\ srcs = 0 /\ crate = 0 /\ input = 0 /\ version = 0
            /\ steps = 0 /\ outcome = 0 /\ refused = 0

mapVars == <<vec, rest, op, out>>
netVars == <<sent, wire, buf, state, got, broken, spoiled>>
memoVars == <<place, key, lazy, hasher, todo, result>>
valueVars == <<rust, scuba, via, back>>
sampleVars == <<builder, seq, locked, file, failed>>
deriveVars == <<fields, stage, sample, parsed>>
facetVars == <<deps, container, is_async, phase, queue, ident_depths, lets,
               needed, running, built, calls, asks, stack>>
wireVars == <<adapter, origin, first, passed, returned, hop>>
libraryVars ==
    <<install_dirs, platform, strip, system_dest, left, dest, processed_deps, munging, raised>>
sqlVars == <<type, tables, saved, query, before, answers, count>>
traceVars == <<event, trace, saving, disk, last, made, sets, saves>>
thriftVars == <<gen_context, srcs, crate, input, version, steps, outcome, refused>>
toolVars == <<wireVars, libraryVars, sqlVars, traceVars, thriftVars>>
structureVars == <<mapVars, netVars, memoVars, valueVars, sampleVars, deriveVars, facetVars>>

MapStep ==
    /\ active = "map" /\ Map!Next
    /\ UNCHANGED <<active, netVars, memoVars, valueVars, sampleVars, deriveVars, facetVars, toolVars>>

SetStep ==
    /\ active = "set" /\ Set!Next
    /\ UNCHANGED <<active, netVars, memoVars, valueVars, sampleVars, deriveVars, facetVars, toolVars>>

NetStep ==
    /\ active = "netstring" /\ Net!Next
    /\ UNCHANGED <<active, mapVars, memoVars, valueVars, sampleVars, deriveVars, facetVars, toolVars>>

MemoStep ==
    /\ active = "hash_memo" /\ Memo!Next
    /\ UNCHANGED <<active, mapVars, netVars, valueVars, sampleVars, deriveVars, facetVars, toolVars>>

ValueStep ==
    /\ active = "value" /\ Scuba!Next
    /\ UNCHANGED <<active, mapVars, netVars, memoVars, sampleVars, deriveVars, facetVars, toolVars>>

SampleStep ==
    /\ active = "sample" /\ Sample!Next
    /\ UNCHANGED <<active, mapVars, netVars, memoVars, valueVars, deriveVars, facetVars, toolVars>>

DeriveStep ==
    /\ active = "derive" /\ Sample!DeriveNext
    /\ UNCHANGED <<active, mapVars, netVars, memoVars, valueVars, sampleVars, facetVars, toolVars>>

FacetStep ==
    /\ active = "facet" /\ Facet!Next
    /\ UNCHANGED <<active, mapVars, netVars, memoVars, valueVars, sampleVars, deriveVars, toolVars>>

WireStep ==
    /\ active = "wire" /\ Wire!Next
    /\ UNCHANGED <<active, structureVars, libraryVars, sqlVars, traceVars, thriftVars>>

LibraryStep ==
    /\ active = "libraries" /\ Libraries!Next
    /\ UNCHANGED <<active, structureVars, wireVars, sqlVars, traceVars, thriftVars>>

SqlStep ==
    /\ active = "sql" /\ Sql!Next
    /\ UNCHANGED <<active, structureVars, wireVars, libraryVars, traceVars, thriftVars>>

TraceStep ==
    /\ active = "trace" /\ Trace!Next
    /\ UNCHANGED <<active, structureVars, wireVars, libraryVars, sqlVars, thriftVars>>

ThriftStep ==
    /\ active = "thrift" /\ Thrift!Next
    /\ UNCHANGED <<active, structureVars, wireVars, libraryVars, sqlVars, traceVars>>

Next == MapStep \/ SetStep \/ NetStep \/ MemoStep \/ ValueStep \/ SampleStep \/ DeriveStep \/ FacetStep \/
        WireStep \/ LibraryStep \/ SqlStep \/ TraceStep \/ ThriftStep

vars == <<active, structureVars, toolVars>>

Spec == Init /\ [][Next]_vars

(* SortedVectorMap and SortedVectorSet, fast paths and merges included, leave *)
(* and return after every call what the ordered map of OrderedMap does.      *)
ImplementsOrderedMap == Map!IsOrderedMap

(* What goes through an encoding comes back: netstrings however the stream   *)
(* is cut, scuba values of every type, the structs of the derive macros,     *)
(* what crosses to other programs through the thrift adapters, the rows and  *)
(* arguments of a query on every kind of connection, and a trace that is     *)
(* saved, unless the save was cut short.                                     *)
EncodingsFaithful ==
    /\ active = "netstring" => Net!FramingKept
    /\ active = "value" => Scuba!ConversionsFaithful
    /\ active = "derive" => Sample!StructsComeBack
    /\ active = "wire" => Wire!ValuesSurvive
    /\ active = "sql" => Sql!DialectsAgree
    /\ active = "trace" => Trace!TraceComesBack

(* What several threads, futures or objects share is used by all of them as  *)
(* by one: the memoised hash, the log file and its counter, the facets of a  *)
(* build, the libraries of a package, the output directory that one run of a *)
(* build script leaves to the next.                                          *)
SharedUseSound ==
    /\ active = "hash_memo" => Memo!HashesAgree
    /\ active = "sample" => Sample!LogTrue
    /\ active = "facet" => Facet!FacetsBuiltOnce
    /\ active = "libraries" => Libraries!LibrariesClosed
    /\ active = "thrift" => Thrift!CrateWhole

(* range() against its documentation, for the maps the calls build.          *)
RangeAsDocumented == active = "map" => Map!RangeAsDocumented

(* is_subset() against its documentation, for the sets the calls build.      *)
SubsetAsDocumented == active = "set" => Set!SubsetAsDocumented
=============================================================================
