------------------------------- MODULE DynDeps -------------------------------
(* getdeps/dyndeps.py: `fixup-dyn-deps` copies the objects of the package    *)
(* installed last, and the libraries they need, into one directory and makes *)
(* their references point there.  munge_in_place() calls itself for every    *)
(* library it copies; its calls are the stack `munging`.                     *)
(* A file is <<subdirectory, name>>; a reference says how it was written:    *)
(* "name" (to be searched), "path" (absolute), "system", or "final".         *)
EXTENDS Integers, Sequences, FiniteSets, SequencesExt

CONSTANTS Packages,  \* sets of install_dirs: sequences of functions from files to needs
          Platforms, \* a subset of {"elf", "mach", "win"}
          Programs   \* the names that end in ".exe" on Windows

VARIABLES install_dirs, platform, strip,
          system_dest,    \* destdir is below a directory of the system
          left,           \* objects of the leaf package not considered yet
          dest,           \* what is under destdir: [needs, strip] by file
          processed_deps,
          munging,        \* calls of munge_in_place(): [obj, deps]
          raised          \* an exception ended the command

vars == <<install_dirs, platform, strip, system_dest, left, dest, processed_deps, munging, raised>>

OBJECT_SUBDIRS == <<"bin", "lib", "lib64">>
Rank(f) == CHOOSE i \in DOMAIN OBJECT_SUBDIRS : OBJECT_SUBDIRS[i] = f[1]

Needs(kind, dir, f) == [kind |-> kind, dir |-> dir, file |-> f]
NAME(n) == Needs("name", 0, <<"", n>>)
PATH(dir, f) == Needs("path", dir, f)
SYSTEM == Needs("system", 0, <<"", "libc">>)
Final(n) == Needs("final", 0, <<"", n>>)

lib_dir == IF platform = "win" THEN "bin" ELSE "lib"
Leaf == Len(install_dirs)
Contents(r) == install_dirs[r.dir][r.file]
DestDep(r) == <<lib_dir, r.file[2]>>

is_objfile(f) == platform = "win" => f[2] \in Programs

interesting_dep(d) == platform = "elf" \/ d.kind # "system"

(* patchelf prints nothing for an object that needs nothing, which is split  *)
(* into one empty line.                                                      *)
ElfNeeds(needs) == IF needs = <<>> THEN <<NAME("")>> ELSE needs

(* MachDeps asks interesting_dep() of the object too, and answers None for   *)
(* one below /usr/lib or /System, which nobody can iterate over.             *)
Listable == ~ (platform = "mach" /\ system_dest)

(* otool prints a library's own name among its needs.                        *)
MachNeeds(obj, needs) == SelectSeq(needs, LAMBDA d : d.file[2] # obj[2])

list_dynamic_deps(obj, needs) ==
    CASE platform = "elf" -> ElfNeeds(needs)
      [] platform = "mach" -> MachNeeds(obj, needs)
      [] platform = "win" -> needs

(* The places where resolve_loader_path() looks, in this order.              *)
Candidates(n) ==
    {PATH(i, <<OBJECT_SUBDIRS[s], n>>) : i \in 1..Leaf, s \in DOMAIN OBJECT_SUBDIRS}
Exists(r) ==
    IF r.file[2] = "" THEN \E f \in DOMAIN install_dirs[r.dir] : f[1] = r.file[1]
    ELSE r.file \in DOMAIN install_dirs[r.dir]
Earlier(r, q) == \/ r.dir < q.dir
                 \/ r.dir = q.dir /\ Rank(r.file) < Rank(q.file)

(* The file a reference stands for, as a set: none or one.  An empty name    *)
(* finds a directory.                                                        *)
resolve_loader_path(d) ==
    IF d.kind = "path" THEN {d}
    ELSE LET found == {r \in Candidates(d.file[2]) : Exists(r)}
         IN  {r \in found : \A q \in found : q = r \/ Earlier(r, q)}

copyfile(files, r, to) ==
    [f \in DOMAIN files \cup {to} |->
        IF f = to THEN [needs |-> Contents(r), strip |-> FALSE] ELSE files[f]]

rewrite_dep(files, obj, d, new) ==
    IF platform = "win" THEN files
    ELSE [files EXCEPT ![obj].needs =
            [i \in DOMAIN @ |-> IF @[i] = d THEN Final(new[2]) ELSE @[i]]]

Call(obj, needs) == [obj |-> obj, deps |-> list_dynamic_deps(obj, needs)]
Top == Last(munging)
Dep == Head(Top.deps)
NextDep == [munging EXCEPT ![Len(munging)].deps = Tail(@)]

Init ==
    /\ install_dirs \in Packages /\ platform \in Platforms /\ strip \in BOOLEAN
    /\ system_dest \in IF platform = "mach" THEN BOOLEAN ELSE {FALSE}
    /\ left = {f \in DOMAIN install_dirs[Leaf] : is_objfile(f)}
    /\ dest = <<>> /\ processed_deps = {} /\ munging = <<>> /\ raised = FALSE

(* process_deps(): the next object, directory by directory.  Its munging     *)
(* begins with the list of its needs.                                        *)
process_deps ==
    /\ munging = <<>> /\ ~ raised
    /\ \E f \in left :
        /\ \A g \in left : Rank(f) <= Rank(g)
        /\ left' = left \ {f}
        /\ dest' = copyfile(dest, PATH(Leaf, f), f)
        /\ munging' = IF Listable THEN <<Call(f, dest'[f].needs)>> ELSE <<>>
        /\ raised' = ~ Listable
    /\ UNCHANGED <<install_dirs, platform, strip, system_dest, processed_deps>>

Calling == munging # <<>> /\ ~ raised /\ Top.deps # <<>>

PassOver ==
    /\ Calling
    /\ ~ interesting_dep(Dep) \/ resolve_loader_path(Dep) = {}
    /\ munging' = NextDep
    /\ UNCHANGED <<install_dirs, platform, strip, system_dest, left, dest, processed_deps, raised>>

(* Mutant: a library is marked when it has been munged, not before.          *)
MutantCopyDep ==
    /\ Calling /\ interesting_dep(Dep)
    /\ \E r \in resolve_loader_path(Dep) :
        /\ DestDep(r) \notin processed_deps
        /\ processed_deps' = processed_deps
        /\ IF Exists(r) /\ r.file[2] # ""
           THEN /\ dest' = copyfile(dest, r, DestDep(r))
                /\ munging' = Append(munging, Call(DestDep(r), dest'[DestDep(r)].needs))
                /\ UNCHANGED raised
           ELSE raised' = TRUE /\ UNCHANGED <<dest, munging>>
    /\ UNCHANGED <<install_dirs, platform, strip, system_dest, left>>

(* A library not copied yet: marked, copied, and munged before the caller    *)
(* goes on (with RewriteDep).  A directory, or a path to nothing, cannot be  *)
(* copied.                                                                   *)
CopyDep ==
    /\ Calling /\ interesting_dep(Dep)
    /\ \E r \in resolve_loader_path(Dep) :
        /\ DestDep(r) \notin processed_deps
        /\ processed_deps' = processed_deps \cup {DestDep(r)}
        /\ IF Exists(r) /\ r.file[2] # ""
           THEN /\ dest' = copyfile(dest, r, DestDep(r))
                /\ munging' = Append(munging, Call(DestDep(r), dest'[DestDep(r)].needs))
                /\ UNCHANGED raised
           ELSE raised' = TRUE /\ UNCHANGED <<dest, munging>>
    /\ UNCHANGED <<install_dirs, platform, strip, system_dest, left>>

RewriteDep ==
    /\ Calling /\ interesting_dep(Dep)
    /\ \E r \in resolve_loader_path(Dep) :
        /\ DestDep(r) \in processed_deps
        /\ dest' = rewrite_dep(dest, Top.obj, Dep, DestDep(r))
    /\ munging' = NextDep
    /\ UNCHANGED <<install_dirs, platform, strip, system_dest, left, processed_deps, raised>>

Return ==
    /\ munging # <<>> /\ ~ raised /\ Top.deps = <<>>
    /\ dest' = [dest EXCEPT ![Top.obj].strip = @ \/ (strip /\ platform = "elf")]
    /\ munging' = Front(munging)
    /\ UNCHANGED <<install_dirs, platform, strip, system_dest, left, processed_deps, raised>>

Next == process_deps \/ PassOver \/ CopyDep \/ RewriteDep \/ Return

Spec == Init /\ [][Next]_vars

-----------------------------------------------------------------------------
(* What an object still refers to outside of destdir although it could be    *)
(* found there.                                                              *)
Loose(obj) ==
    {d \in ToSet(list_dynamic_deps(obj, dest[obj].needs)) :
        /\ d.kind # "final" /\ interesting_dep(d) /\ resolve_loader_path(d) # {}
        /\ platform = "win" => \A r \in resolve_loader_path(d) : DestDep(r) \notin DOMAIN dest}

(* However the objects share their libraries, and also when libraries need   *)
(* each other or carry the name of an object of the package: a reference     *)
(* never points to a library that is not there; the recursion never enters a *)
(* library a second time; and when the command ends, everything copied is    *)
(* stripped if asked for and refers only to what is there or to the system.  *)
(* The command fails only at an ELF object that needs nothing, or at the     *)
(* first object of a Mac that is copied into a directory of the system.      *)
LibrariesClosed ==
    /\ \A f \in DOMAIN dest : \A d \in ToSet(dest[f].needs) :
        d.kind = "final" => <<lib_dir, d.file[2]>> \in DOMAIN dest
    /\ \A i, j \in 2..Len(munging) : i # j => munging[i].obj # munging[j].obj
    /\ munging = <<>> /\ left = {} /\ ~ raised =>
        \A f \in DOMAIN dest : Loose(f) = {} /\ (strip /\ platform = "elf" => dest[f].strip)
    /\ raised => \/ platform = "elf" /\ dest[Top.obj].needs = <<>>
                 \/ platform = "mach" /\ system_dest /\ Cardinality(DOMAIN dest) = 1
=============================================================================
