----------------------------- MODULE MCGetdeps -----------------------------
(* getdeps over small sets of manifests: what the command lines of          *)
(* MCCommands leave on disk when sources change and commands are killed.     *)
EXTENDS Getdeps, TLC

MCOptions == [fbsource_dir |-> TRUE, use_shipit |-> FALSE, shipit |-> FALSE,
              allow_system_packages |-> FALSE, preinstalled |-> {"cmake", "libtool"},
              packages |-> {}]
MCSorted(S) == SelectSeq(<<"app", "cmake", "lib", "libtool", "tool", "zlib">>,
                         LAMBDA p : p \in S)
INSTANCE Manifest WITH Sorted <- MCSorted, Options <- MCOptions

Sec(name, text, opts) == [name |-> name, text |-> text, opts |-> opts]
Build(builder) == Sec("build", <<>>, <<<<"builder", builder>>>>)
Git == Sec("git", <<>>, <<<<"repo_url", 1>>>>)
Needs(p) == Sec("dependencies", <<>>, <<<<p, 0>>>>)

\* Our project, or somebody else's.
Ours(name, sections) ==
    <<Sec("manifest", <<>>, <<<<"name", name>>, <<"shipit_project", 1>>>>)>> \o sections
Theirs(name, sections) == <<Sec("manifest", <<>>, <<<<"name", name>>>>)>> \o sections

\* A directory of manifests with a mirrored project on top of a patched archive,
\* one with a git project that only the tests need, and a small one for every
\* builder; the last has a condition that cannot be read and is refused.
ArchiveWorld ==
    "app" :> Ours("app", <<Build("make"), Needs("lib")>>) @@
    "lib" :> <<Sec("manifest", <<>>, <<<<"name", "lib">>, <<"shipit_project", 1>>,
                                       <<"fbsource_path", 1>>>>),
               Build("make"), Needs("zlib")>> @@
    "zlib" :> Theirs("zlib",
        <<Sec("download", <<"not", "(", "os", "=", "plan9", ")">>,
              <<<<"url", 1>>, <<"sha256", 1>>>>),
          Sec("build", <<>>, <<<<"builder", "make">>, <<"patchfile", 1>>>>)>>)
GitWorld ==
    "app" :> Ours("app",
        <<Build("cmake"), Sec("cargo", <<>>, <<<<"workspace_dir", 1>>>>),
          Sec("dependencies",
              <<"any", "(", "test", "=", "on", ",", "os", "=", "plan9", ")">>,
              <<<<"tool", 0>>>>)>>) @@
    "tool" :> Theirs("tool", <<Git, Build("nop")>>) @@
    "cmake" :> Theirs("cmake", <<Build("cmakebootstrap")>>)
SmallWorld(sections) ==
    "app" :> Ours("app", <<Build("make"), Needs("lib")>>) @@
    "lib" :> Ours("lib", <<Git>> \o sections) @@
    "cmake" :> Theirs("cmake", <<Build("cmakebootstrap")>>) @@
    "libtool" :> Theirs("libtool", <<Build("make")>>)
Kinds == {"cmakebootstrap", "autoconf", "boost", "cmake", "sqlite", "ninja_bootstrap", "nop",
          "openssl", "iproute2", "systemd", "setup-py", "cargo", "python-wheel"}
MCWorlds ==
    {ArchiveWorld, GitWorld} \cup {SmallWorld(<<Build(b)>>) : b \in Kinds} \cup
    {SmallWorld(<<Build("nop"), Sec("install.files", <<>>,
                                    <<<<"make", "file">>, <<"src", "directory">>>>)>>),
     SmallWorld(<<Sec("build", <<"os", "(">>, <<<<"builder", "make">>>>)>>)}
MCLoads == LoadAll(MCWorlds)

MCEdits == {<<"lib", "src", "new">>,
            <<"lib", "make", "gone">>, <<"zlib", "src", "new">>,
            <<"tool", "src", "new">>}

Command == [cmd |-> "build", clean |-> FALSE, recursive |-> TRUE,
            only_deps |-> FALSE, no_deps |-> FALSE, use_cache |-> FALSE,
            upload |-> FALSE, target |-> "install", tests |-> "on",
            test_deps |-> "off", retry |-> 1]
MCCommands ==
    {[Command EXCEPT !.use_cache = TRUE, !.upload = TRUE],
     [Command EXCEPT !.clean = TRUE, !.use_cache = TRUE, !.tests = "off"],
     [Command EXCEPT !.cmd = "fetch", !.tests = "off"],
     [Command EXCEPT !.cmd = "test", !.recursive = FALSE]}
=============================================================================
