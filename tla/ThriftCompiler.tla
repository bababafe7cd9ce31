---------------------------- MODULE ThriftCompiler ----------------------------
(* The wrapper of the thrift compiler (thrift_compiler/src/lib.rs), run by   *)
(* the build script of a crate: Config::run() is a sequence of operations on *)
(* the output directory, any of which may fail and end the run.  The         *)
(* directory outlives the run: the next one, of the same crate and perhaps   *)
(* other input files, finds what was left there.                             *)
(*                                                                           *)
(* A path is a sequence of components.                                       *)
EXTENDS Integers, Sequences, FiniteSets, SequencesExt

CONSTANTS InputLists,   \* the input files, one list for each run: <<directory, stem>>
          Srcs,         \* what include_srcs and extra_srcs may be, relative paths
          Paths,        \* absolute paths, for relative_path()
          MaxRuns

VARIABLES gen_context,  \* which crate is built
          srcs,         \* include_srcs and extra_srcs
          out,          \* the files of the output directory
          input,        \* the input files of this run
          version,      \* the version of the input files, and the number of runs
          todo,         \* the operations left
          result,       \* "none", "running", "ok" or "err"
          refused       \* an operation failed for what it found in the directory

vars == <<gen_context, srcs, out, input, version, todo, result, refused>>

GenContext == {"Types", "Clients", "Services", "Mocks"}

\* What the compiler generates for an input file.
Generated == {"client.rs", "consts.rs", "errors.rs", "mock.rs", "server.rs", "services.rs", "types.rs"}

-----------------------------------------------------------------------------

\* Leading `..' become `_t'.
remap_to_out_dir(path) ==
    [i \in DOMAIN path |->
        IF \A j \in 1..i : path[j] = ".." THEN "_t" ELSE path[i]]

MutantRelativePath(base, destination) ==
    LET up == CHOOSE n \in 0..Len(base) : IsPrefix(SubSeq(base, 1, Len(base) - n), destination)
    IN  [i \in 1..up |-> ".."] \o SubSeq(destination, up + 1, Len(destination))

\* Up from the base to the nearest directory that holds the destination.
relative_path(base, destination) ==
    LET Holds(n) == IsPrefix(SubSeq(base, 1, Len(base) - n), destination)
        up == CHOOSE n \in 0..Len(base) : Holds(n) /\ \A m \in 0..(n - 1) : ~Holds(m)
    IN  [i \in 1..up |-> ".."] \o
        SubSeq(destination, Len(base) - up + 1, Len(destination))

\* A path is absolute if it starts with the root.
Absolute(dir, path) == IF path # <<>> /\ Head(path) = "/" THEN path ELSE dir \o path

\* infer_thrift_binary(): beside the thrift files, if it is there.
infer_thrift_binary(base_path, exists) ==
    IF base_path # <<>> /\ exists THEN base_path \o <<"thrift", "facebook", "rpm", "thrift1">>
    ELSE <<"thrift1">>

\* which(): a name is looked for in PATH.
which(path) == IF Len(path) = 1 THEN <<"/", "usr", "bin">> \o path ELSE path

MutantResolveThriftBin(thrift_bin, base_path, exists, cwd) ==
    which(IF thrift_bin # <<>> THEN thrift_bin ELSE infer_thrift_binary(base_path, exists))

\* resolve_thrift_bin(): made absolute if the compiler runs in another directory.
resolve_thrift_bin(thrift_bin, base_path, exists, cwd) ==
    LET bin == which(IF thrift_bin # <<>> THEN thrift_bin
                     ELSE infer_thrift_binary(base_path, exists))
    IN  IF base_path # <<>> THEN Absolute(cwd, bin) ELSE bin

\* The options of run_compiler() after `mstch_rust': the first follows a colon,
\* the others a comma.
mstch_rust_args(context, given) ==
    LET included == IF "include_srcs" \in given /\ context # "Mocks" THEN <<context>> ELSE <<>>
        optional(option) == IF option \in given THEN <<option>> ELSE <<>>
        args == optional("cratemap") \o optional("types_crate") \o
                optional("clients_crate") \o included \o optional("options")
    IN  FlattenSeq([i \in DOMAIN args |-> <<IF i = 1 THEN ":" ELSE ",", args[i]>>])

\* The file that becomes lib.rs or mod.rs.
Root(context) ==
    CASE context = "Types" -> "types.rs"
      [] context = "Clients" -> "client.rs"
      [] context = "Services" -> "server.rs"
      [] context = "Mocks" -> "mock.rs"

MutantRemoved(context, single) ==
    IF context = "Types" THEN <<"client.rs", "errors.rs", "mock.rs">>
    ELSE <<"client.rs", "consts.rs", "errors.rs", "server.rs", "services.rs", "types.rs">>

\* The files that are removed, in this order.  With one input file the types
\* lose errors.rs and the clients keep it; with several it is the other way.
Removed(context, single) ==
    CASE context = "Types" ->
             <<"client.rs">> \o (IF single THEN <<"errors.rs">> ELSE <<>>) \o
             <<"mock.rs", "server.rs">>
      [] context = "Clients" ->
             <<"consts.rs">> \o (IF single THEN <<>> ELSE <<"errors.rs">>) \o
             <<"mock.rs", "server.rs", "services.rs", "types.rs">>
      [] context = "Services" ->
             <<"client.rs", "consts.rs", "errors.rs", "mock.rs", "services.rs", "types.rs">>
      [] context = "Mocks" ->
             <<"client.rs", "consts.rs", "errors.rs", "server.rs", "services.rs", "types.rs">>

Op(kind, dir, from, to) == [kind |-> kind, dir |-> dir, from |-> from, to |-> to]

\* One input file: compile it, keep what this crate needs, rename the root.
Compile(context, dir, file, single) ==
    LET removed == Removed(context, single)
    IN  <<Op("compile", dir, file, "")>> \o
        [i \in DOMAIN removed |-> Op("remove", dir, removed[i], "")] \o
        <<Op("rename", dir, Root(context), IF single THEN "lib.rs" ELSE "mod.rs")>>

\* name_and_path_from_input(): the file_stem().
name(file) == file[2]

\* The operations of run() after the sources are copied.
Operations(context, files) ==
    IF Len(files) = 1 THEN Compile(context, <<>>, files[1], TRUE)
    ELSE FlattenSeq([i \in DOMAIN files |->
             Compile(context, <<name(files[i])>>, files[i], FALSE)]) \o
         <<Op("lib", <<>>, [i \in DOMAIN files |-> name(files[i])], "lib.rs")>>

\* Only the types have them copied.
Copies(context, paths) ==
    IF context = "Types" THEN [i \in DOMAIN paths |-> Op("copy", <<>>, paths[i], "")]
    ELSE <<>>

-----------------------------------------------------------------------------

Init ==
    /\ gen_context \in GenContext
    /\ srcs \in Srcs
    /\ out = <<>>
    /\ input = <<>> /\ version = 0 /\ todo = <<>>
    /\ result = "none" /\ refused = FALSE

\* run(): the build script is started again after a change.
Run(files) ==
    /\ result # "running" /\ version < MaxRuns
    /\ input' = files /\ version' = version + 1
    /\ todo' = Copies(gen_context, srcs) \o Operations(gen_context, files)
    /\ result' = "running"
    /\ UNCHANGED <<gen_context, srcs, out, refused>>

With(files, more) ==
    [path \in DOMAIN files \cup DOMAIN more |->
        IF path \in DOMAIN more THEN more[path] ELSE files[path]]

Without(files, path) == [p \in DOMAIN files \ {path} |-> files[p]]

\* What the compiler writes into a directory.
Output(op, names) ==
    [path \in {Append(op.dir, n) : n \in names} |->
        <<op.from, Last(path), version>>]

\* remove_file() and rename() need their file.
Missing(op) ==
    op.kind \in {"remove", "rename"} /\ Append(op.dir, op.from) \notin DOMAIN out

\* One operation that succeeds.
Step ==
    /\ result = "running" /\ ~Missing(Head(todo))
    /\ LET op == Head(todo)
           from == Append(op.dir, op.from)
           to == Append(op.dir, op.to)
       IN  CASE op.kind = "compile" -> out' = With(out, Output(op, Generated))
             [] op.kind = "copy" ->
                    out' = With(out, [p \in {remap_to_out_dir(op.from)} |-> op.from])
             [] op.kind = "lib" -> out' = With(out, [p \in {to} |-> op.from])
             [] op.kind = "remove" -> out' = Without(out, from)
             [] op.kind = "rename" ->
                    out' = With(Without(out, from), [p \in {to} |-> out[from]])
    /\ todo' = Tail(todo)
    /\ result' = IF Len(todo) = 1 THEN "ok" ELSE result
    /\ UNCHANGED <<gen_context, srcs, input, version, refused>>

\* An operation fails, or the build is stopped; the compiler may have written
\* some of its files.
Fail(names) ==
    /\ result = "running"
    /\ names # {} => Head(todo).kind = "compile"
    /\ out' = IF names = {} THEN out ELSE With(out, Output(Head(todo), names))
    /\ result' = "err" /\ todo' = <<>>
    /\ refused' = (refused \/ Missing(Head(todo)))
    /\ UNCHANGED <<gen_context, srcs, input, version>>

Next ==
    \/ \E files \in InputLists : Run(files)
    \/ Step
    \/ \E names \in {{}, {"client.rs", "types.rs"}} : Fail(names)

Spec == Init /\ [][Next]_vars

-----------------------------------------------------------------------------

\* Where a path that is relative to `base' leads.
Resolve(base, path) ==
    FoldLeft(LAMBDA at, part : IF part = ".." THEN Front(at) ELSE Append(at, part), base, path)

Kept(context, single) == Generated \ (ToSet(Removed(context, single)) \cup {Root(context)})

(* The crate is whole: after a run that succeeds, whatever an earlier one    *)
(* that failed midway or had other input files left in the output directory, *)
(* lib.rs is the root of the input file or names a module for each, every    *)
(* root and every file it keeps is of this run, nothing that should have     *)
(* been removed is left beside it, and the copied sources are in place.  No  *)
(* run fails for want of a file.  Of two input files of the same name the    *)
(* last one is in the crate.  A relative path leads from the base to its     *)
(* file, and the compiler that runs in base_path is the one that was found.  *)
CrateWhole ==
    /\ ~refused
    /\ result = "ok" =>
        LET single == Len(input) = 1
            In(i) == IF single THEN <<>> ELSE <<name(input[i])>>
            From(i, n) == <<input[i], n, version>>
            Shadowed(i) == ~single /\ \E j \in DOMAIN input : j > i /\ In(j) = In(i)
        IN  /\ ~single => out[<<"lib.rs">>] = [i \in DOMAIN input |-> name(input[i])]
            /\ \A i \in {j \in DOMAIN input : ~Shadowed(j)} :
                /\ out[Append(In(i), IF single THEN "lib.rs" ELSE "mod.rs")] =
                       From(i, Root(gen_context))
                /\ \A n \in Kept(gen_context, single) : out[Append(In(i), n)] = From(i, n)
                /\ \A n \in Generated \ Kept(gen_context, single) :
                       Append(In(i), n) \notin DOMAIN out
            /\ gen_context = "Types" =>
                   \A i \in DOMAIN srcs :
                       \E path \in DOMAIN out :
                           /\ out[path] = srcs[i] /\ ".." \notin ToSet(path)
                           /\ Len(path) = Len(srcs[i]) /\ Last(path) = Last(srcs[i])
    /\ version = 0 =>
        /\ \A base, destination \in Paths :
               Resolve(base, relative_path(base, destination)) = destination
        /\ \A cwd \in Paths, base \in Paths, bin \in {<<>>, <<"thrift1">>, <<"bin", "thrift1">>},
              exists \in BOOLEAN :
               Absolute(IF base = <<>> THEN cwd ELSE base,
                        resolve_thrift_bin(bin, base, exists, cwd)) =
               Absolute(cwd, resolve_thrift_bin(bin, base, exists, cwd))
        /\ \A given \in SUBSET {"cratemap", "types_crate", "include_srcs", "options"} :
               LET args == mstch_rust_args(gen_context, given)
               IN  /\ \A i \in DOMAIN args : (args[i] = ":") <=> (i = 1)
                   /\ Cardinality({i \in DOMAIN args : i % 2 = 0}) =
                          Cardinality(given \ (IF gen_context = "Mocks" THEN {"include_srcs"} ELSE {}))
=============================================================================
