------------------------------ MODULE Getdeps ------------------------------
(***************************************************************************)
(* The build tool of the repository (build/fbcode_builder/getdeps.py with  *)
(* load.py, fetcher.py and builder.py): one command at a time works on a   *)
(* scratch directory that outlives it, and may be killed between any two   *)
(* of its changes to the disk.  What the compilers and git do is external: *)
(* a build turns a source tree and the installed dependencies into files.  *)
(*                                                                         *)
(* A source tree is a function from Files to versions, 0 if the file is    *)
(* absent and Half for what is left of it, if anything, when it was being  *)
(* written or removed.  Times of files are reduced to the comparison that the code *)
(* makes (`newer').  No project here has git submodules or subprojects.    *)
(***************************************************************************)
EXTENDS Naturals, Sequences, FiniteSets, SequencesExt

CONSTANTS
    Loads,          \* what sets of manifests say, see Loaded in Manifest
    Root,           \* the project named on the command line, in whose
                    \* repository getdeps runs
    Commands,       \* command lines, see Start
    max_attempts,   \* of ArchiveFetcher._download()
    Edits,          \* <<p, f, how>>: what may change, see Change
    MaxCommands,    \* bound on command lines run
    MaxChanges,     \* bound on changes of sources
    MaxCrashes      \* bound on kills

Files == {"src", "make"}

\* The builders that create_builder() knows.
Builders == {"make", "cmakebootstrap", "autoconf", "boost", "cmake", "sqlite",
             "ninja_bootstrap", "nop", "openssl", "iproute2", "systemd",
             "setup-py", "cargo", "python-wheel"}

(***************************************************************************)
(* ProjectCmdBase.run() and ContextGenerator: the root gets `test' from    *)
(* --no-tests, the others from --test-dependencies.  The other variables   *)
(* of a context are the same for all projects.                             *)
(***************************************************************************)
Contexts == {"on", "off"}       \* by the value of `test'
Settings == {[tests |-> args.tests, test_deps |-> args.test_deps] : args \in Commands}
CtxOf(p, s) == IF p = Root THEN s.tests ELSE s.test_deps

\* What manifests say fits together: dependencies have manifests, what is
\* built has a builder, the closure of a project is the least set that has it
\* and the dependencies of its members; and, as in the manifests of the
\* repository, where a project comes from does not depend on `test'.
Consistent(l) ==
    LET names == DOMAIN l.fetcher
        Closed(S, s) == \A q \in S : Range(l.deps[q][CtxOf(q, s)]) \subseteq S
    IN /\ Root \in names
       /\ l.deps \in [names -> [Contexts -> Seq(names)]]
       /\ \A p \in names : \A c, d \in Contexts :
             /\ l.fetcher[p][c] = l.fetcher[p][d]
             /\ l.fetcher[p][c] # "system" => l.builder[p][c] \in Builders
             /\ DOMAIN l.install_files[p][c] \in {{}, Files}
       /\ \A s \in Settings : \A p \in names :
             /\ p \in l.closure[s][p]
             /\ l.closure[s][p] \subseteq names
             /\ Closed(l.closure[s][p], s)
             /\ \A S \in SUBSET names :
                   p \in S /\ Closed(S, s) => l.closure[s][p] \subseteq S

ASSUME GetdepsConstants ==
    /\ max_attempts \in Nat /\ MaxChanges \in Nat
    /\ \A e \in Edits : e[2] \in Files
    /\ \A args \in Commands :
          /\ args.cmd \in {"build", "fetch", "test", "clean"}
          /\ args.cmd = "build" => args.recursive
          /\ args.cmd = "clean" => args.clean
          /\ args.clean => args.cmd \in {"build", "clean"}
          /\ args.tests \in {"on", "off"} /\ args.test_deps \in {"on", "off"}
    /\ \A l \in Loads : Consistent(l)

NoTree == [f \in Files |-> 0]
At(v) == [f \in Files |-> v]
Half == MaxChanges + 3      \* no version is that high

VARIABLES
    loader,     \* what the ManifestLoader has read, see Init
    upstream,   \* what the manifest or the repository says the sources are
    src,        \* the source directories
    hash_file,  \* ArchiveFetcher.hash_file: the version it names, or 0
    file,       \* the downloaded archive: its version, 0 if there is none
    patched,    \* "no", "applied" or "sentinel" (.getdeps_patched exists)
    shipped,    \* .shipit_shipped: the files mirrored last time
    inst,       \* install directories by name
    bdir,       \* build directories by name: what is in them, see Effect
    newer,      \* <<d, e>>: d has files newer than the marker in e
    cache,      \* the build cache: name and hash to installed files
    proc,       \* the running command
    hurt,       \* history: what is wrong without a sign of it, see Init
    started, changes, crashes   \* how many there were

disk == <<src, hash_file, file, patched, shipped, inst, bdir, newer, cache>>
fixed == <<loader, started, changes, crashes>>
vars == <<upstream, disk, proc, hurt, fixed>>

Projects == DOMAIN loader.fetcher
Set(field, v) == [proc EXCEPT ![field] = v]
Goto(pc) == proc' = [proc EXCEPT !.pc = pc]

\* The process has these registers; `use' says whether the fetcher's status
\* is taken, n counts attempts.
NoProc == [pc |-> "idle", args |-> [cmd |-> "none"], deps |-> <<>>,
           seen |-> {}, order |-> <<>>, todo |-> <<>>, i |-> 1, use |-> FALSE,
           reconfigure |-> FALSE, changed |-> FALSE, n |-> 0, at |-> <<>>,
           keep |-> {}]

Setting == [tests |-> proc.args.tests, test_deps |-> proc.args.test_deps]
Ctx(p) == CtxOf(p, Setting)

DepList(p) == loader.deps[p][Ctx(p)]
Fetcher(p) == loader.fetcher[p][Ctx(p)]
Builder(p) == loader.builder[p][Ctx(p)]
HasPatch(p) == loader.patch[p][Ctx(p)]
Prepares(p) == loader.prepares[p][Ctx(p)]
InstallFiles(p) == loader.install_files[p][Ctx(p)]
Closure(p) == loader.closure[Setting][p]

\* Fetcher.hash(): the revision or the sha256 in the manifest, or a constant.
FetcherHash(p) ==
    IF Fetcher(p) \in {"git", "archive"} THEN upstream[p]["src"] ELSE 0

\* get_project_hash(): what goes into it, for the project and recursively for
\* its dependencies.
ProjectHash(p) ==
    [q \in Closure(p) |-> <<FetcherHash(q), loader.digest[q][Ctx(q)]>>]
NoHash == [q \in {} |-> 0]

\* _get_project_dir_name()
Dir(p) == IF p \in loader.ours THEN <<p, NoHash>>
          ELSE <<p, ProjectHash(p)>>

Exists(d) == d \in DOMAIN inst
Marked(d) == Exists(d) /\ inst[d].marker # NoHash
Put(d, r) == [e \in DOMAIN inst \cup {d} |-> IF e = d THEN r ELSE inst[e]]
DirOf(d) == IF Exists(d) THEN inst[d]
            ELSE [files |-> NoHash, marker |-> NoHash, cached |-> FALSE]
\* Mutant: the marker is left when a build starts.
MutantUnmark(d) == inst
Unmark(d) == IF Exists(d) THEN [inst EXCEPT ![d].marker = NoHash] ELSE inst

M == proc.order[proc.i]         \* the manifest the loop is at
D == Dir(M)                     \* its install directory
Local(p) == Fetcher(p) = "local"
Tree(p) == IF Local(p) THEN upstream[p] ELSE src[p]
Built(p) == {q \in Closure(p) : Fetcher(q) # "system"}

\* What a build of p makes of its sources and of what is installed.
BuildContent(p) ==
    [q \in Built(p) |-> IF q = p THEN Tree(p)
                        ELSE IF Exists(Dir(q)) /\ q \in DOMAIN inst[Dir(q)].files
                             THEN inst[Dir(q)].files[q] ELSE NoTree]
Expected(p) == [q \in Built(p) |-> upstream[q]]

----------------------------------------------------------------------------

Init ==
    /\ loader \in Loads
    /\ upstream = [p \in Projects |-> At(1)]
    /\ src = [p \in Projects |-> NoTree]
    /\ hash_file = [p \in Projects |-> 0]
    /\ file = [p \in Projects |-> 0]
    /\ patched = [p \in Projects |-> "no"]
    /\ shipped = [p \in Projects |-> {}]
    /\ inst = [d \in {} |-> 0] /\ bdir = [d \in {} |-> 0] /\ newer = {} /\ cache = [k \in {} |-> 0]
    /\ proc = NoProc
    /\ hurt = [dirs |-> {}, keys |-> {}, trees |-> {}]
    /\ started = 0 /\ changes = 0 /\ crashes = 0

(***************************************************************************)
(* The history `hurt' has the install directories (dirs), the keys of the  *)
(* cache (keys) and the source trees (trees) that an interruption would    *)
(* leave, or has left, or that a builder which keeps old files has left,   *)
(* wrong without a sign that the next command looks at.                    *)
(***************************************************************************)
Hurt(d) == [hurt EXCEPT !.dirs = @ \cup {d}]
Healed(d) == [hurt EXCEPT !.dirs = @ \ {d}]

\* The user's repository changes or loses a file of a project in it, or a
\* manifest names another revision of a project that is fetched by revision.
Change(p, f, how) ==
    /\ proc.pc \in {"idle", "done"} /\ changes < MaxChanges
    /\ p \in Projects
    /\ changes' = changes + 1
    /\ upstream' = IF \E c \in Contexts :
                            loader.fetcher[p][c] \in {"local", "simple_shipit"}
                   THEN [upstream EXCEPT ![p][f] = IF how = "gone" THEN 0
                                                   ELSE changes + 2]
                   ELSE [upstream EXCEPT ![p] = At(changes + 2)]
    /\ proc' = NoProc
    /\ UNCHANGED <<loader, disk, hurt, started, crashes>>

\* A command starts; fetch without --recursive and test work on the root alone.
Start(args) ==
    /\ proc.pc \in {"idle", "done"} /\ started < MaxCommands
    /\ started' = started + 1
    /\ proc' = [NoProc EXCEPT
                    !.args = args,
                    !.deps = IF args.recursive THEN <<Root>> ELSE <<>>,
                    !.order = IF args.recursive THEN <<>> ELSE <<Root>>,
                    !.todo = IF args.clean THEN <<"build", "installed", "extracted", "shipit">>
                             ELSE <<>>,
                    !.pc = IF args.clean THEN "clean"
                           ELSE IF args.cmd = "test" THEN "test" ELSE "order"]
    /\ UNCHANGED <<upstream, disk, hurt, loader, changes, crashes>>

(***************************************************************************)
(* clean_dirs(), for `build --clean' and `clean': rmtree() of four         *)
(* directories in turn, each file by file, one subdirectory after the      *)
(* other (`at' is the one begun) in whatever order they are listed.  In    *)
(* "extracted" are the trees of archives and beside them their hash files, *)
(* in "shipit" the mirrored trees with the lists of what was mirrored.     *)
(***************************************************************************)
Cleaning(dir) == proc.todo # <<>> /\ Head(proc.todo) = dir
Of(kind) == {p \in Projects : \E c \in Contexts : loader.fetcher[p][c] = kind}
Free(x) == proc.at \in {<<>>, <<x>>}
Begun(x, more) == proc' = Set("at", IF more THEN <<x>> ELSE <<>>)

\* A tree with one file less; left is Half where it matters that the directory
\* is still there when it has lost all its files.
Fewer(tree, left) == {[tree EXCEPT ![f] = left] : f \in {g \in Files : tree[g] \notin {0, left}}}
Empty(tree) == \A f \in Files : tree[f] \in {0, Half}

CleanBuild(d) ==
    /\ Cleaning("build") /\ Free(d)
    /\ \/ /\ \E x \in bdir[d] : bdir' = [bdir EXCEPT ![d] = @ \ {x}]
          /\ Begun(d, TRUE)
       \/ /\ bdir[d] = {} /\ bdir' = [e \in DOMAIN bdir \ {d} |-> bdir[e]]
          /\ Begun(d, FALSE)
    /\ UNCHANGED <<upstream, src, hash_file, file, patched, shipped, inst, newer, cache,
                   hurt, fixed>>
OwnTree(d) == IF d[1] \in DOMAIN inst[d].files THEN inst[d].files[d[1]] ELSE NoTree
CleanInstalled(d) ==
    /\ Cleaning("installed") /\ Free(d)
    /\ \/ /\ Marked(d) /\ inst' = Unmark(d)
          /\ Begun(d, TRUE) /\ UNCHANGED <<newer, hurt>>
       \/ /\ \E t \in Fewer(OwnTree(d), Half) : inst' = [inst EXCEPT ![d].files[d[1]] = t]
          /\ hurt' = IF Marked(d) THEN Hurt(d) ELSE hurt
          /\ Begun(d, TRUE) /\ UNCHANGED newer
       \/ /\ ~ Marked(d) /\ Empty(OwnTree(d))
          /\ inst' = [e \in DOMAIN inst \ {d} |-> inst[e]]
          /\ newer' = {x \in newer : x[1] # d /\ x[2] # d}
          /\ hurt' = Healed(d) /\ Begun(d, FALSE)
    /\ UNCHANGED <<upstream, src, hash_file, file, patched, shipped, bdir, cache, fixed>>
\* The tree of p becomes another one; its patch goes with it.
Shrink(p, tree) ==
    /\ src' = [src EXCEPT ![p] = tree]
    /\ patched' = [patched EXCEPT ![p] = IF tree = NoTree THEN "no" ELSE @]
    /\ Begun(p, tree # NoTree)
CleanExtracted(p) ==
    /\ Cleaning("extracted") /\ Free(p)
    /\ \/ /\ hash_file[p] # 0 /\ proc.at = <<>>
          /\ hash_file' = [hash_file EXCEPT ![p] = 0]
          /\ hurt' = [hurt EXCEPT !.trees = @ \ {p}]
          /\ UNCHANGED <<src, patched, proc>>
       \/ /\ \E t \in Fewer(src[p], Half) : Shrink(p, t)
          /\ hurt' = IF hash_file[p] # 0 THEN [hurt EXCEPT !.trees = @ \cup {p}] ELSE hurt
          /\ UNCHANGED hash_file
       \/ /\ src[p] # NoTree /\ Empty(src[p]) /\ Shrink(p, NoTree)
          /\ hurt' = [hurt EXCEPT !.trees = @ \ {p}]
          /\ UNCHANGED hash_file
       \/ /\ patched[p] = "sentinel"
          /\ patched' = [patched EXCEPT ![p] = "applied"]
          /\ Begun(p, TRUE) /\ UNCHANGED <<src, hash_file, hurt>>
    /\ UNCHANGED <<upstream, file, shipped, inst, bdir, newer, cache, fixed>>
CleanShipit(p) ==
    /\ Cleaning("shipit") /\ Free(p)
    /\ \/ /\ \E t \in Fewer(src[p], 0) : Shrink(p, t)
          /\ hurt' = IF src'[p] = NoTree THEN [hurt EXCEPT !.trees = @ \ {p}] ELSE hurt
          /\ UNCHANGED shipped
       \/ /\ shipped[p] # {} /\ shipped' = [shipped EXCEPT ![p] = {}]
          /\ hurt' = IF src[p] # NoTree THEN [hurt EXCEPT !.trees = @ \cup {p}] ELSE hurt
          /\ Begun(p, src[p] # NoTree) /\ UNCHANGED <<src, patched>>
    /\ UNCHANGED <<upstream, hash_file, file, inst, bdir, newer, cache, fixed>>
Cleaned(dir) ==
    CASE dir = "build" -> DOMAIN bdir = {}
      [] dir = "installed" -> DOMAIN inst = {}
      [] dir = "extracted" -> \A p \in Of("archive") : src[p] = NoTree /\ hash_file[p] = 0
      [] dir = "shipit" -> \A p \in Of("simple_shipit") : src[p] = NoTree /\ shipped[p] = {}
CleanNext ==
    /\ proc.todo # <<>> /\ Cleaned(Head(proc.todo))
    /\ proc' = [proc EXCEPT !.todo = Tail(@), !.at = <<>>,
                            !.pc = IF Len(proc.todo) > 1 THEN "clean"
                                   ELSE IF proc.args.cmd = "clean" THEN "done" ELSE "order"]
    /\ UNCHANGED <<upstream, disk, hurt, fixed>>
CleanDirs ==
    /\ proc.pc = "clean"
    /\ \/ \E d \in DOMAIN bdir : CleanBuild(d)
       \/ \E d \in DOMAIN inst : CleanInstalled(d)
       \/ \E p \in Of("archive") : CleanExtracted(p)
       \/ \E p \in Of("simple_shipit") : CleanShipit(p)
       \/ CleanNext

\* The dependencies in a list that are not done, to be queued in its order.
Unseen(list) ==
    LET queued[k \in 0..Len(list)] ==
            IF k = 0 THEN <<>>
            ELSE IF list[k] \in proc.seen THEN queued[k - 1]
            ELSE Append(queued[k - 1], list[k])
    IN queued[Len(list)]
\* Mutant: a project is built before what it depends on.
MutantOrderStep ==
    /\ proc.pc = "order" /\ proc.deps # <<>>
    /\ LET m == Head(proc.deps)
           todo == Unseen(DepList(m))
       IN proc' = IF m \in proc.seen THEN Set("deps", Tail(proc.deps))
                  ELSE [proc EXCEPT !.deps = Tail(proc.deps) \o todo,
                                    !.seen = @ \cup {m}, !.order = Append(@, m)]
    /\ UNCHANGED <<upstream, disk, hurt, fixed>>
\* The loop of manifests_in_dependency_order().
OrderStep ==
    /\ proc.pc = "order" /\ proc.deps # <<>>
    /\ LET m == Head(proc.deps)
           rest == Tail(proc.deps)
           todo == Unseen(DepList(m))
       IN proc' = IF m \in proc.seen THEN Set("deps", rest)
                  ELSE IF todo # <<>>
                       THEN Set("deps", rest \o todo \o <<m>>)
                       ELSE [proc EXCEPT !.deps = rest,
                                         !.seen = @ \cup {m},
                                         !.order = Append(@, m)]
    /\ UNCHANGED <<upstream, disk, hurt, fixed>>
OrderDone ==
    /\ proc.pc = "order" /\ proc.deps = <<>>
    /\ Goto("next")
    /\ UNCHANGED <<upstream, disk, hurt, fixed>>

Selected(p) == \/ p = Root /\ ~ proc.args.only_deps
               \/ p # Root /\ ~ proc.args.no_deps
Skip == proc' = [proc EXCEPT !.i = @ + 1, !.pc = "next"]
Fail == Goto("failed")

\* fetcher.clean(): git clean removes the sentinel but not the patch.  The trees
\* of archives and mirrors have gone already: clean_dirs() of the same command
\* has removed them.
FetcherClean ==
    CASE Fetcher(M) \in {"archive", "simple_shipit"} ->
            /\ src' = [src EXCEPT ![M] = NoTree]
            /\ patched' = [patched EXCEPT ![M] = "no"]
            /\ shipped' = [shipped EXCEPT ![M] = {}]
      [] Fetcher(M) = "git" ->
            /\ patched' = [patched EXCEPT ![M] =
                               IF @ = "sentinel" THEN "applied" ELSE @]
            /\ UNCHANGED <<src, shipped>>
      [] OTHER -> UNCHANGED <<src, patched, shipped>>

\* The head of the loops of BuildCmd and FetchCmd.
NextProject ==
    /\ proc.pc = "next" /\ proc.i <= Len(proc.order)
    /\ IF Fetcher(M) = "system" THEN Skip /\ UNCHANGED <<src, patched, shipped>>
       ELSE /\ IF proc.args.clean THEN FetcherClean
               ELSE UNCHANGED <<src, patched, shipped>>
            /\ IF Selected(M)
               THEN proc' = [proc EXCEPT !.pc = "download", !.n = 0,
                                 !.reconfigure = FALSE, !.changed = FALSE]
               ELSE Skip
    /\ UNCHANGED <<upstream, hash_file, file, inst, newer, cache,
                   hurt, bdir, fixed>>
CommandDone ==
    /\ proc.pc = "next" /\ proc.i > Len(proc.order)
    /\ proc' = [NoProc EXCEPT !.pc = "done", !.args = proc.args,
                              !.order = proc.order]
    /\ UNCHANGED <<upstream, disk, hurt, fixed>>

(***************************************************************************)
(* Most builders write all of the install directory.  NopBuilder.build()   *)
(* copies the source tree only if there is no install directory, or, with  *)
(* a section install.files, every plain file but only those directories    *)
(* that are not there; Iproute2Builder does so with two directories.       *)
(***************************************************************************)
Whole(p) == Builder(p) = "nop" /\ DOMAIN InstallFiles(p) = {}
Kept(p) == CASE Whole(p) -> Files
             [] Builder(p) = "nop" /\ ~ Whole(p) ->
                   {f \in Files : InstallFiles(p)[f] = "directory"}
             [] Builder(p) = "iproute2" -> {"src"}
             [] OTHER -> {}
Old(f) == IF Exists(D) THEN OwnTree(D)[f] ELSE 0
\* What may be kept now: what is half there may be not there at all.
Keeps == {keep \in SUBSET {f \in Kept(M) : Old(f) # 0} :
              \A f \in Kept(M) : Old(f) \notin {0, Half} => f \in keep}
\* While files are written, only what is kept is there to be used.
Partial(keep) ==
    [q \in {M} |-> [f \in Files |-> IF f \in keep THEN Old(f) ELSE Half]]

----------------------------------------------------------------------------
(***************************************************************************)
(* CachedProject.download() and upload().  The archive's first member is   *)
(* the marker (tar adds names in sorted order), so an extraction that is   *)
(* cut short may have left the marker and only some of the files.  An      *)
(* exception is caught and counts as a miss.  The key in the cache has the *)
(* name and the hash, as the name of the install directory has.            *)
(***************************************************************************)
Cacheable(p) == proc.args.use_cache /\ p \notin loader.ours
Hit == Cacheable(M) /\ ~ Exists(D) /\ D \in DOMAIN cache
CacheMiss ==
    /\ proc.pc = "download"
    /\ Goto("status")
    /\ UNCHANGED <<upstream, disk, hurt, fixed>>
CacheExtract ==
    /\ proc.pc = "download" /\ Hit
    /\ \E marker \in {NoHash, ProjectHash(M)} :
        inst' = Put(D, [files |-> Partial({}), marker |-> marker, cached |-> FALSE])
    /\ hurt' = Hurt(D)
    /\ Goto("extract")
    /\ UNCHANGED <<upstream, src, hash_file, file, patched, shipped, newer,
                   cache, bdir, fixed>>
CacheExtracted ==
    /\ proc.pc = "extract"
    /\ inst' = Put(D, [files |-> cache[D], marker |-> ProjectHash(M),
                       cached |-> TRUE])
    /\ hurt' = IF D \in hurt.keys THEN Hurt(D) ELSE Healed(D)
    /\ Skip
    /\ UNCHANGED <<upstream, src, hash_file, file, patched, shipped, newer,
                   cache, bdir, fixed>>
CacheExtractFailed ==
    /\ proc.pc = "extract"
    /\ Goto("status")
    /\ UNCHANGED <<upstream, disk, hurt, fixed>>

(***************************************************************************)
(* compute_source_change_status() after a miss, or the same question as    *)
(* FetchCmd asks it: is the marker there and does it hold the hash?        *)
(***************************************************************************)
Status ==
    /\ proc.pc = "status"
    /\ LET same == Marked(D) /\ inst[D].marker = ProjectHash(M)
       IN IF proc.args.cmd = "fetch"
          THEN IF same THEN Skip /\ UNCHANGED inst
               ELSE proc' = [proc EXCEPT !.pc = "update", !.use = FALSE]
                    /\ UNCHANGED inst
          ELSE IF same /\ Cacheable(M)
          THEN Goto("deps") /\ UNCHANGED inst
          ELSE IF Marked(D) /\ ~ same
          THEN /\ inst' = Unmark(D)
               /\ proc' = [proc EXCEPT !.pc = "update", !.use = FALSE,
                               !.reconfigure = TRUE, !.changed = TRUE]
          ELSE /\ proc' = [proc EXCEPT !.pc = "update", !.use = TRUE]
               /\ UNCHANGED inst
    /\ UNCHANGED <<upstream, src, hash_file, file, patched, shipped, newer,
                   cache, hurt, bdir, fixed>>

\* The caller of fetcher.update() goes on with its ChangeStatus.
Updated(build_changed, sources_changed) ==
    IF proc.args.cmd = "fetch" THEN Skip
    ELSE proc' = [proc EXCEPT !.pc = "deps",
                     !.reconfigure = IF proc.use THEN @ \/ build_changed ELSE @,
                     !.changed = IF proc.use THEN @ \/ sources_changed ELSE @]

----------------------------------------------------------------------------
(***************************************************************************)
(* fetcher.update(), by kind of fetcher.                                   *)
(***************************************************************************)
UpdateLocal ==
    /\ proc.pc = "update" /\ Local(M)
    /\ Updated(TRUE, TRUE)
    /\ UNCHANGED <<upstream, disk, hurt, fixed>>

\* ShipitPathMap.mirror(): copy_if_different() for one file after the other,
\* then the files shipped before that are gone are removed (os.unlink()
\* fails for one that an earlier, interrupted command removed), then the list
\* is written.
Different(f) == upstream[M][f] # 0 /\ src[M][f] # upstream[M][f]
Record(f) == IF f = "make" THEN "reconfigure" ELSE "changed"
MirrorFile(f) ==
    /\ proc.pc = "update" /\ Fetcher(M) = "simple_shipit"
    /\ Different(f)
    /\ src' = [src EXCEPT ![M][f] = upstream[M][f]]
    /\ proc' = IF proc.use THEN Set(Record(f), TRUE) ELSE proc
    /\ hurt' = Hurt(D)
    /\ UNCHANGED <<upstream, hash_file, file, patched, shipped, inst, newer,
                   cache, bdir, fixed>>
Listed(p) == {f \in Files : upstream[p][f] # 0}
Removed == shipped[M] \ Listed(M)
MirrorRemove ==
    /\ proc.pc = "update" /\ Fetcher(M) = "simple_shipit"
    /\ \A f \in Files : ~ Different(f)
    /\ IF \E f \in Removed : src[M][f] = 0
       THEN Fail /\ UNCHANGED <<src, hurt>>
       ELSE /\ src' = [src EXCEPT ![M] =
                          [f \in Files |-> IF f \in Removed THEN 0 ELSE @[f]]]
            /\ hurt' = IF Removed = {} THEN hurt ELSE Hurt(D)
            /\ Goto("list")
    /\ UNCHANGED <<upstream, hash_file, file, patched, shipped, inst, newer, cache,
                   bdir, fixed>>
MirrorDone ==
    /\ proc.pc = "list" /\ Fetcher(M) = "simple_shipit"
    /\ shipped' = [shipped EXCEPT ![M] = Listed(M)]
    /\ Updated("make" \in Removed, "src" \in Removed)
    /\ hurt' = IF src[M] = upstream[M] THEN [hurt EXCEPT !.trees = @ \ {M}] ELSE hurt
    /\ UNCHANGED <<upstream, src, hash_file, file, patched, inst, newer, cache,
                   bdir, fixed>>

\* GitFetcher: clone (of the branch, wherever that is) and _update().
GitClone ==
    /\ proc.pc = "update" /\ Fetcher(M) = "git" /\ src[M] = NoTree
    /\ \E v \in {upstream[M]["src"], MaxChanges + 2} :
            src' = [src EXCEPT ![M] = At(v)]
    /\ proc' = IF proc.use THEN [proc EXCEPT !.reconfigure = TRUE, !.changed = TRUE]
               ELSE proc
    /\ UNCHANGED <<upstream, hash_file, file, patched, shipped, inst, newer,
                   cache, hurt, bdir, fixed>>
\* Mutant: when the checkout fails, the clone is made again, any number of times.
MutantGitUpdate ==
    /\ proc.pc = "update" /\ Fetcher(M) = "git" /\ src[M] # NoTree
    /\ LET different == src[M] # upstream[M]
       IN \/ src' = [src EXCEPT ![M] = upstream[M]] /\ Updated(different, different)
          \/ different /\ src' = [src EXCEPT ![M] = NoTree] /\ UNCHANGED proc
    /\ UNCHANGED <<upstream, hash_file, file, patched, shipped, inst, newer,
                   cache, hurt, bdir, fixed>>
GitUpdate ==
    /\ proc.pc = "update" /\ Fetcher(M) = "git" /\ src[M] # NoTree
    /\ LET different == src[M] # upstream[M]
       IN \/ src' = [src EXCEPT ![M] = upstream[M]] /\ Updated(different, different)
          \/ different /\ Fail /\ UNCHANGED src
    /\ UNCHANGED <<upstream, hash_file, file, patched, shipped, inst, newer,
                   cache, hurt, bdir, fixed>>

\* Mutant: the old hash file stays until the new one is written.
MutantArchiveCheck ==
    /\ proc.pc = "update" /\ Fetcher(M) = "archive"
    /\ IF hash_file[M] = upstream[M]["src"] /\ src[M] # NoTree
       THEN Updated(FALSE, FALSE) ELSE Goto("remove")
    /\ UNCHANGED <<upstream, src, file, hash_file, patched, shipped, inst, newer,
                   cache, hurt, bdir, fixed>>
\* ArchiveFetcher.update()
ArchiveCheck ==
    /\ proc.pc = "update" /\ Fetcher(M) = "archive"
    /\ IF hash_file[M] = upstream[M]["src"] /\ src[M] # NoTree
       THEN Updated(FALSE, FALSE) /\ UNCHANGED <<hash_file, hurt>>
       ELSE /\ hash_file' = [hash_file EXCEPT ![M] = 0]
            /\ hurt' = [hurt EXCEPT !.trees = @ \ {M}]
            /\ Goto("remove")
    /\ UNCHANGED <<upstream, src, file, patched, shipped, inst, newer, cache,
                   bdir, fixed>>
\* rmtree(src_dir): what is left of the tree after a kill has no hash file and
\* is removed by the next update().
ArchiveRemove ==
    /\ proc.pc = "remove"
    /\ src' = [src EXCEPT ![M] = NoTree]
    /\ patched' = [patched EXCEPT ![M] = "no"]
    /\ IF file[M] = upstream[M]["src"]
       THEN Goto("unpack") /\ UNCHANGED file
       ELSE /\ file' = [file EXCEPT ![M] = 0]
            /\ proc' = [proc EXCEPT !.pc = "fetch", !.n = 0]
    /\ UNCHANGED <<upstream, hash_file, shipped, inst, newer, cache,
                   hurt, bdir, fixed>>
\* An attempt of _download() succeeds, breaks off leaving some of the file, or
\* brings something else, which _verify_hash() removes.
Attempt ==
    /\ proc.pc = "fetch"
    /\ \/ /\ file' = [file EXCEPT ![M] = upstream[M]["src"]]
          /\ Goto("unpack")
       \/ /\ file' = [file EXCEPT ![M] = MaxChanges + 2]
          /\ proc' = IF proc.n < max_attempts - 1 THEN Set("n", proc.n + 1)
                     ELSE Set("pc", "failed")
       \/ file' = [file EXCEPT ![M] = 0] /\ Fail
    /\ UNCHANGED <<upstream, src, hash_file, patched, shipped, inst, newer,
                   cache, hurt, bdir, fixed>>
Unpack ==
    /\ proc.pc = "unpack"
    /\ \E f \in Files : src' = [src EXCEPT ![M] = [NoTree EXCEPT ![f] = file[M]]]
    /\ Goto("unpacking")
    /\ UNCHANGED <<upstream, hash_file, file, patched, shipped, inst, newer,
                   cache, hurt, bdir, fixed>>
Unpacked ==
    /\ proc.pc = "unpacking"
    /\ src' = [src EXCEPT ![M] = At(file[M])]
    /\ Goto("hash")
    /\ UNCHANGED <<upstream, hash_file, file, patched, shipped, inst, newer,
                   cache, hurt, bdir, fixed>>
WriteHash ==
    /\ proc.pc = "hash"
    /\ hash_file' = [hash_file EXCEPT ![M] = upstream[M]["src"]]
    /\ Updated(TRUE, TRUE)
    /\ UNCHANGED <<upstream, src, file, patched, shipped, inst, newer, cache,
                   hurt, bdir, fixed>>

----------------------------------------------------------------------------
\* compute_dep_change_status(), for a project with a marker that was not taken
\* from the cache.
DepsChanged ==
    \E q \in Range(DepList(M)) : <<Dir(q), D>> \in newer
DepStatus ==
    /\ proc.pc = "deps"
    /\ IF Marked(D) /\ ~ inst[D].cached /\ DepsChanged
       THEN \/ proc' = [proc EXCEPT !.pc = "decide", !.reconfigure = TRUE]
            \/ proc' = [proc EXCEPT !.pc = "decide", !.changed = TRUE]
       ELSE Goto("decide")
    /\ UNCHANGED <<upstream, disk, hurt, fixed>>

\* Anything to do?  Then the marker goes first.
Decide ==
    /\ proc.pc = "decide"
    /\ IF proc.changed \/ proc.reconfigure \/ ~ Marked(D)
       THEN /\ inst' = Unmark(D) /\ Goto("mkdir")
            /\ hurt' = IF Fetcher(M) = "simple_shipit" /\ src[M] = upstream[M]
                       THEN Healed(D) ELSE hurt
       ELSE UNCHANGED <<inst, hurt>> /\ Skip
    /\ UNCHANGED <<upstream, src, hash_file, file, patched, shipped, newer,
                   cache, bdir, fixed>>

\* BuilderBase._reconfigure(), which NopBuilder.build() does without.  A prepare
\* builder comes first: its prepare() makes the directory, and build() is not
\* told that it is new.
BuildFiles == IF D \in DOMAIN bdir THEN bdir[D] ELSE {}
PutBuildDir(v) == bdir' = [d \in DOMAIN bdir \cup {D} |-> IF d = D THEN v ELSE bdir[d]]
MakeBuildDir ==
    /\ proc.pc = "mkdir"
    /\ IF Builder(M) = "nop" /\ ~ Prepares(M) THEN Goto("build") /\ UNCHANGED bdir
       ELSE IF D \in DOMAIN bdir THEN Goto("patch") /\ UNCHANGED bdir
       ELSE /\ PutBuildDir({})
            /\ proc' = [proc EXCEPT !.pc = "patch", !.reconfigure = @ \/ ~ Prepares(M)]
    /\ UNCHANGED <<upstream, src, hash_file, file, patched, shipped, inst, newer,
                   cache, hurt, fixed>>

\* _apply_patchfile(): git apply fails on a tree that has the patch already.
ApplyPatch ==
    /\ proc.pc = "patch"
    /\ IF ~ HasPatch(M) \/ patched[M] = "sentinel"
       THEN Goto("build") /\ UNCHANGED patched
       ELSE IF patched[M] = "applied" THEN Fail /\ UNCHANGED patched
       ELSE /\ patched' = [patched EXCEPT ![M] = "applied"]
            /\ Goto("sentinel")
    /\ UNCHANGED <<upstream, src, hash_file, file, shipped, inst, newer,
                   cache, hurt, bdir, fixed>>
TouchSentinel ==
    /\ proc.pc = "sentinel"
    /\ patched' = [patched EXCEPT ![M] = "sentinel"]
    /\ Goto("build")
    /\ UNCHANGED <<upstream, src, hash_file, file, shipped, inst, newer,
                   cache, hurt, bdir, fixed>>

Dependents == {e \in DOMAIN inst : M \in Range(DepList(e[1]))}
Install(content) ==
    /\ inst' = Put(D, [DirOf(D) EXCEPT !.files = content])
    /\ newer' = newer \cup {<<D, e>> : e \in Dependents}
(***************************************************************************)
(* The builders of getdeps (build/fbcode_builder/getdeps/builder.py,       *)
(* cargo.py and py_wheel_builder.py): what build() runs, one name per      *)
(* command, in order.  `o' is what the builder looks at:                   *)
(*   reconfigure   its argument, after _reconfigure()                      *)
(*   files         what is in the build directory                          *)
(*   script        a configure script is in the source tree                *)
(*   shared        shared libraries are wanted as well                     *)
(*   cargo         how many Cargo manifests to build, 0 for the workspace  *)
(* "install" writes the install directory, "mark" a marker that holds no   *)
(* hash.  The arguments of commands are left out.                          *)
(***************************************************************************)
MakeBuild(o) == <<"compile", "install">>
CMakeBootStrapBuild(o) == <<"configure">> \o MakeBuild(o)
AutoconfBuild(o) ==
    (IF o.script THEN <<>> ELSE <<"libtoolize", "autogen">>)
        \o <<"configure", "compile", "install">>
Iproute2Build(o) == <<"configure", "rmtree", "copytree", "compile", "install">>
SystemdBuild(o) == <<"configure", "compile", "install">>

\* Mutant: only CMake's cache is looked for.
MutantNeedsReconfigure(o) == "cache" \notin o.files
NeedsReconfigure(o) == ~ {"cache", "rules"} \subseteq o.files
\* CMakeBuilder.build(): the cache is dropped before a new configuration, which
\* writes first the cache and then the rules.
CMakeBuild(o) ==
    (IF o.reconfigure \/ NeedsReconfigure(o) THEN <<"invalidate", "cache", "configure">>
     ELSE <<>>) \o <<"install">>
NinjaBootstrapBuild(o) == <<"configure", "install">>
OpenSSLBuild(o) == <<"configure", "compile", "install">>
BoostBuild(o) ==
    <<"configure", "install">>
        \o (IF o.shared THEN <<"configure", "install">> ELSE <<>>)
SetupPyBuild(o) == <<"install", "mark">>
SqliteBuild(o) == <<"copy", "configure", "install">>
CargoBuild(o) ==
    <<"copy", "configure">> \o [i \in 1..(IF o.cargo = 0 THEN 1 ELSE o.cargo) |->
                                     "compile"] \o <<"install">>
\* PythonWheelBuilder: CMake, on rules written into the build directory.
PythonWheelBuild(o) == <<"copy">> \o CMakeBuild(o)
NopBuild(o) == <<"install">>

\* ManifestParser.create_builder()
BuildPlan(builder, o) ==
    CASE builder = "make" -> MakeBuild(o)
      [] builder = "cmakebootstrap" -> CMakeBootStrapBuild(o)
      [] builder = "autoconf" -> AutoconfBuild(o)
      [] builder = "boost" -> BoostBuild(o)
      [] builder = "cmake" -> CMakeBuild(o)
      [] builder = "python-wheel" -> PythonWheelBuild(o)
      [] builder = "sqlite" -> SqliteBuild(o)
      [] builder = "ninja_bootstrap" -> NinjaBootstrapBuild(o)
      [] builder = "nop" -> NopBuild(o)
      [] builder = "openssl" -> OpenSSLBuild(o)
      [] builder = "iproute2" -> Iproute2Build(o)
      [] builder = "systemd" -> SystemdBuild(o)
      [] builder = "setup-py" -> SetupPyBuild(o)
      [] builder = "cargo" -> CargoBuild(o)

\* What a command makes of the files of the build directory: "cache" is
\* CMakeCache.txt, "rules" are build.ninja or makefiles, "old" says that they
\* are those of an earlier configuration, "copy" is a copy of sources.
Effect(c, files) ==
    CASE c = "invalidate" ->
            (files \ {"cache"}) \cup (IF "rules" \in files THEN {"old"} ELSE {})
      [] c \in {"cache", "copy"} -> files \cup {c}
      [] c = "configure" -> (files \cup {"cache", "rules"}) \ {"old"}
      [] c = "copytree" -> {"copy"}
      [] OTHER -> files

\* The prepare builder, if there is one, copies the sources; then builder.build()
\* runs its commands one after the other.  Each may fail.
Observed == [reconfigure |-> proc.reconfigure, shared |-> TRUE, cargo |-> 2,
             files |-> BuildFiles, script |-> Tree(M)["make"] # 0]
Plan ==
    /\ proc.pc = "build"
    /\ proc' = [proc EXCEPT !.pc = "step",
                            !.todo = (IF Prepares(M) THEN <<"copy">> ELSE <<>>)
                                         \o BuildPlan(Builder(M), Observed)]
    /\ UNCHANGED <<upstream, disk, hurt, fixed>>
BuildMark == [q \in {"built"} |-> 0]      \* of SetupPyBuilder
BuildStep ==
    /\ proc.pc = "step" /\ proc.todo # <<>> /\ Head(proc.todo) # "install"
    /\ LET c == Head(proc.todo)
       IN /\ IF c \in {"invalidate", "cache", "copy", "configure", "copytree"}
             THEN PutBuildDir(Effect(c, BuildFiles))
             ELSE IF c = "rmtree" THEN bdir' = [d \in DOMAIN bdir \ {D} |-> bdir[d]]
             ELSE UNCHANGED bdir
          /\ IF c = "mark" THEN inst' = [inst EXCEPT ![D].marker = BuildMark]
             ELSE UNCHANGED inst
    /\ proc' = Set("todo", Tail(proc.todo))
    /\ UNCHANGED <<upstream, src, hash_file, file, patched, shipped, newer, cache,
                   hurt, fixed>>

\* NopBuilder cannot copy a listed file that is not there.
Missing == Builder(M) = "nop" /\ ~ Whole(M) /\ \E f \in Files : Tree(M)[f] = 0
InstallStart ==
    /\ proc.pc = "step" /\ proc.todo # <<>> /\ Head(proc.todo) = "install"
    /\ IF Whole(M) /\ Exists(D)
       THEN /\ proc' = Set("todo", <<>>)
            /\ hurt' = IF OwnTree(D) # Tree(M) THEN Hurt(D) ELSE hurt
            /\ UNCHANGED <<inst, newer>>
       ELSE /\ \E keep \in Keeps :
                  proc' = [proc EXCEPT !.pc = "install", !.keep = keep] /\ Install(Partial(keep))
            /\ hurt' = IF Kept(M) # {} THEN Hurt(D) ELSE hurt
    /\ UNCHANGED <<upstream, src, hash_file, file, patched, shipped, cache,
                   bdir, fixed>>
Content ==
    [BuildContent(M) EXCEPT ![M] =
        [f \in Files |-> IF f \in proc.keep THEN Old(f) ELSE Tree(M)[f]]]
InstallDone ==
    /\ proc.pc = "install" /\ ~ Missing
    /\ Install(Content)
    /\ hurt' = IF Content = Expected(M) THEN Healed(D)
               ELSE IF Content[M] # Tree(M) \/ M \in hurt.trees THEN Hurt(D)
               ELSE IF Kept(M) # {} THEN Healed(D) ELSE hurt
    /\ proc' = [proc EXCEPT !.pc = "step", !.todo = Tail(@), !.keep = {}]
    /\ UNCHANGED <<upstream, src, hash_file, file, patched, shipped, cache,
                   bdir, fixed>>
BuildFailed ==
    /\ proc.pc \in {"step", "install"}
    /\ Fail
    /\ UNCHANGED <<upstream, disk, hurt, fixed>>
BuildFinished ==
    /\ proc.pc = "step" /\ proc.todo = <<>>
    /\ Goto("marker")
    /\ UNCHANGED <<upstream, disk, hurt, fixed>>

\* The marker, unless a target other than install was asked for.
WriteMarker ==
    /\ proc.pc = "marker"
    /\ IF M = Root /\ proc.args.target # "install"
       THEN Skip /\ UNCHANGED <<inst, newer>>
       ELSE /\ inst' = [inst EXCEPT ![D].marker = ProjectHash(M)]
            /\ newer' = {x \in newer : x[2] # D}
            /\ Goto("upload")
    /\ UNCHANGED <<upstream, src, hash_file, file, patched, shipped, cache,
                   hurt, bdir, fixed>>
Upload ==
    /\ proc.pc = "upload"
    /\ \/ UNCHANGED <<cache, hurt>>
       \/ /\ proc.args.upload /\ Cacheable(M)
          /\ cache' = [k \in DOMAIN cache \cup {D} |->
                          IF k = D THEN inst[D].files ELSE cache[k]]
          /\ hurt' = [hurt EXCEPT !.keys = IF {Dir(q) : q \in Built(M)} \cap hurt.dirs = {}
                                           THEN @ \ {D} ELSE @ \cup {D}]
    /\ Skip
    /\ UNCHANGED <<upstream, src, hash_file, file, patched, shipped, inst,
                   newer, bdir, fixed>>

----------------------------------------------------------------------------
(***************************************************************************)
(* TestCmd and CMakeBuilder.run_tests().  _check_cmd() returns nothing when*)
(* the tests pass and raises when they do not.                             *)
(***************************************************************************)
Test(passed) ==
    /\ proc.pc = "test"
    /\ IF ~ Marked(Dir(Root)) THEN Goto("failed")
       ELSE IF ~ passed THEN proc' = [proc EXCEPT !.pc = "failed", !.n = @ + 1]
       ELSE IF proc.n < proc.args.retry THEN proc' = Set("n", proc.n + 1)
       ELSE Goto("done")
    /\ UNCHANGED <<upstream, disk, hurt, fixed>>

\* An exception ends the command; a kill may come at any time.
Exit ==
    /\ proc.pc = "failed"
    /\ proc' = NoProc
    /\ UNCHANGED <<upstream, disk, hurt, fixed>>
Crash ==
    /\ proc.pc \notin {"idle", "done"} /\ crashes < MaxCrashes
    /\ crashes' = crashes + 1
    /\ proc' = NoProc
    /\ UNCHANGED <<loader, upstream, disk, hurt, started, changes>>

Fetch == \/ UpdateLocal
         \/ (\E f \in Files : MirrorFile(f)) \/ MirrorRemove \/ MirrorDone
         \/ GitClone \/ GitUpdate
         \/ ArchiveCheck \/ ArchiveRemove \/ Attempt
         \/ Unpack \/ Unpacked \/ WriteHash
Step == \/ CleanDirs \/ OrderStep \/ OrderDone \/ NextProject \/ CommandDone
        \/ CacheMiss \/ CacheExtract \/ CacheExtracted \/ CacheExtractFailed
        \/ Status \/ Fetch \/ DepStatus \/ Decide
        \/ MakeBuildDir \/ ApplyPatch \/ TouchSentinel
        \/ Plan \/ BuildStep \/ InstallStart \/ InstallDone
        \/ BuildFailed \/ BuildFinished \/ WriteMarker \/ Upload
        \/ \E passed \in BOOLEAN : Test(passed)
        \/ Exit
Next == \/ \E e \in Edits : Change(e[1], e[2], e[3])
        \/ \E args \in Commands : Start(args)
        \/ Step \/ Crash

\* A running command runs on.
Spec == Init /\ [][Next]_vars /\ WF_vars(Step)

----------------------------------------------------------------------------
(***************************************************************************)
(* Properties                                                              *)
(***************************************************************************)

Finished == proc.pc = "done" /\ proc.args.cmd = "build" /\ ~ proc.args.no_deps
Rebuilt == {m \in Range(proc.order) :
                Fetcher(m) # "system" /\ (m # Root \/ ~ proc.args.only_deps)}
GoodDir(m) == /\ Exists(Dir(m))
              /\ inst[Dir(m)].files = Expected(m)

(***************************************************************************)
(* When `getdeps build' succeeds, every project it had to build is         *)
(* installed as made from the sources its manifest and the repository name,*)
(* and from dependencies made the same way, whatever was killed, failed or *)
(* changed before (the markers, hashes and times of BuildCmd), except for  *)
(* what `hurt' lists: a kill in the middle of a mirroring, of an           *)
(* extraction, of a clean or of a copy that is not repeated, and           *)
(* directories that a builder keeps.                                       *)
(***************************************************************************)
SoundBuild ==
    Finished => \A m \in Rebuilt :
                    {Dir(q) : q \in Built(m)} \cap hurt.dirs = {} => GoodDir(m)

(***************************************************************************)
(* The same without the exception.                                         *)
(***************************************************************************)
BuildInvalidated == Finished => \A m \in Rebuilt : GoodDir(m)

(***************************************************************************)
(* ArchiveFetcher: a hash file next to an extracted tree speaks the truth, *)
(* also after a kill at any point of update(), and after a clean: all that *)
(* is in the tree is of that version, and nothing is missing unless a kill *)
(* has cut clean_dirs() short while it was removing that tree.             *)
(***************************************************************************)
HashFileTruth ==
    /\ \A p \in Projects : hash_file[p] # 0 /\ src[p] # NoTree =>
          /\ \A f \in Files : src[p][f] \in {0, Half, hash_file[p]}
          /\ p \notin hurt.trees => src[p] = At(hash_file[p])
    /\ hurt.trees # {} => crashes > 0 \/ proc.pc = "clean"

(***************************************************************************)
(* No project is built before everything it depends on has been built for  *)
(* the present configuration (the order of manifests_in_dependency_order). *)
(***************************************************************************)
DepsReady ==
    proc.pc \in {"step", "install"} /\ ~ proc.args.no_deps =>
        \A q \in Built(M) \ {M} : Marked(Dir(q)) /\ inst[Dir(q)].marker = ProjectHash(q)

(***************************************************************************)
(* Nothing is compiled or installed in a build directory that lacks what   *)
(* the builder puts there first, also when an earlier command was killed   *)
(* after it made the directory, dropped CMake's cache or wrote only that,  *)
(* and when no change was reported (_reconfigure(), _needs_reconfigure()); *)
(* and not by rules of an earlier configuration when the fetcher or a      *)
(* dependency asked for a new one.  Iproute2Builder needs the copy of the  *)
(* sources only: it removes what its configure has written.                *)
(***************************************************************************)
Needed(builder) == CASE builder \in {"make", "nop", "setup-py"} -> {}
                     [] builder = "iproute2" -> {"copy"}
                     [] OTHER -> {"cache", "rules"}
ConfiguredBuild ==
    /\ proc.pc = "step" /\ proc.todo # <<>>
    /\ Head(proc.todo) \in {"compile", "install"}
    => /\ Needed(Builder(M)) \subseteq BuildFiles
       /\ proc.reconfigure /\ Builder(M) \in {"cmake", "python-wheel"} => "old" \notin BuildFiles

(***************************************************************************)
(* A command ends: a clean comes to an end, the dependency order is found, *)
(* downloads are not tried for ever, tests are not repeated for ever.      *)
(***************************************************************************)
CommandEnds == proc.pc \in {"clean", "order", "test"} ~> proc.pc \in {"idle", "done"}

(***************************************************************************)
(* TestCmd's --retry: tests are given up only after that many retries.     *)
(***************************************************************************)
TestsRetried ==
    proc.pc = "failed" /\ proc.args.cmd = "test" /\ proc.n > 0
        => proc.n > proc.args.retry
=============================================================================
