------------------------------ MODULE Manifest ------------------------------
(***************************************************************************)
(* Manifests of getdeps (build/fbcode_builder/getdeps/manifest.py and      *)
(* expr.py).  A file is a sequence of sections [name, text, opts]: text    *)
(* holds the tokens of the section's condition, none if it has none, opts  *)
(* is a sequence of <<key, value>>, with value 0 for a key written alone.  *)
(* A manifest read from it has sections [name, cond, opts], where cond is  *)
(* an expression tree: a sequence tagged by its first member.              *)
(***************************************************************************)
EXTENDS Naturals, Sequences, FiniteSets, FiniteSetsExt, SequencesExt

CONSTANTS
    Sorted(_),      \* a set of projects in alphabetical order
    Root,           \* the project that getdeps runs in the repository of
    Options,        \* the build options, see CreateFetcher
    Contexts,       \* contexts by the value of `test', see ManifestContext
    Settings,       \* what a command line says about contexts
    CtxOf(_, _)     \* the context of a project under a setting

TrueExpr == <<"true">>
NotExpr(e) == <<"not", <<e>>>>
AllExpr(es) == <<"all", es>>
AnyExpr(es) == <<"any", es>>
EqualExpr(k, v) == <<"eq", k, v>>

\* ExprNode.eval(): the value of a condition in a context.
RECURSIVE Eval(_, _)
Eval(e, ctx) ==
    CASE e[1] = "true" -> TRUE
      [] e[1] = "not" -> ~ Eval(e[2][1], ctx)
      [] e[1] = "all" -> \A i \in DOMAIN e[2] : Eval(e[2][i], ctx)
      [] e[1] = "any" -> \E i \in DOMAIN e[2] : Eval(e[2][i], ctx)
      [] e[1] = "eq" -> ctx[e[2]] = e[3]

\* What a parser returns: the node and the tokens that are left, or an error.
Parsed(e, rest) == [ok |-> TRUE, node |-> e, rest |-> rest]
ParseError == [ok |-> FALSE, node |-> TrueExpr, rest |-> <<>>]
Punctuation == {"(", ")", ",", "="}

(***************************************************************************)
(* Parser.top() and parse_not(), parse_any(), parse_all().  Args(n, ...)   *)
(* is the loop of the last two: `nodes' so far, a comma goes on, a         *)
(* parenthesis ends it; `not' takes exactly one node.                      *)
(***************************************************************************)
Node(name, nodes) == CASE name = "not" -> NotExpr(nodes[1])
                       [] name = "all" -> AllExpr(nodes)
                       [] name = "any" -> AnyExpr(nodes)
RECURSIVE Top(_, _), Args(_, _, _, _)
Top(toks, vars) ==
    IF Len(toks) < 2 \/ toks[1] \in Punctuation THEN ParseError
    ELSE LET name == toks[1]
             op == toks[2]
             rest == SubSeq(toks, 3, Len(toks))
         IN CASE op = "(" -> IF name \in {"not", "any", "all"}
                             THEN Args(name, <<>>, rest, vars)
                             ELSE ParseError
              [] op = "=" -> IF name \notin vars THEN ParseError
                             ELSE IF rest = <<>> THEN Parsed(EqualExpr(name, ""), <<>>)
                             ELSE Parsed(EqualExpr(name, rest[1]), Tail(rest))
              [] OTHER -> ParseError
Args(name, nodes, toks, vars) ==
    LET r == Top(toks, vars)
        all == Append(nodes, r.node)
    IN IF ~ r.ok \/ r.rest = <<>> THEN ParseError
       ELSE IF r.rest[1] = ")" THEN Parsed(Node(name, all), Tail(r.rest))
       ELSE IF r.rest[1] = "," /\ name # "not"
            THEN Args(name, all, Tail(r.rest), vars)
            ELSE ParseError

\* parse_expr(): nothing may be left over.
ParseExpr(toks, vars) ==
    LET r == Top(toks, vars)
    IN IF r.ok /\ r.rest = <<>> THEN r ELSE ParseError

----------------------------------------------------------------------------

\* SCHEMA, ALLOWED_EXPR_SECTIONS and ManifestContext.ALLOWED_VARIABLES, for the
\* sections that the fetchers and the builders of Getdeps depend on and the
\* variables that its contexts tell apart.  The fields of a section are
\* required or not; a section without fields takes any.
Required == {"name", "repo_url", "url", "sha256", "builder"}
Fields ==
    [manifest |-> {"name", "fbsource_path", "shipit_project", "use_shipit"},
     git |-> {"repo_url", "rev"}, download |-> {"url", "sha256"},
     build |-> {"builder", "patchfile"}, cargo |-> {"workspace_dir", "manifests_to_build"}]
Sections == DOMAIN Fields \cup {"dependencies", "install.files"}
Conditional == {"build", "dependencies", "download", "git", "install.files"}
ManifestContext(c) == [os |-> "linux", test |-> c]
Variables == UNION {DOMAIN ManifestContext(c) : c \in Contexts}

\* parse_conditional_section_name()
Condition(s) ==
    IF s.text = <<>> THEN [ParseError EXCEPT !.ok = TRUE] ELSE ParseExpr(s.text, Variables)

\* validate_section()
ValidSection(s) ==
    LET keys == {o[1] : o \in Range(s.opts)}
    IN /\ s.name \in Sections
       /\ s.text # <<>> => s.name \in Conditional /\ Condition(s).ok
       /\ s.name \in DOMAIN Fields =>
             /\ keys \subseteq Fields[s.name]
             /\ Fields[s.name] \cap Required \subseteq keys
       /\ s.name = "dependencies" => \A o \in Range(s.opts) : o[2] = 0

\* ManifestParser.__init__(): the file `name' is refused, or read.
ValidManifest(name, file) ==
    /\ \A s \in Range(file) : ValidSection(s)
    /\ \E s \in Range(file) :
          s.name = "manifest" /\ <<"name", name>> \in Range(s.opts)
ReadManifest(name, file) ==
    [name |-> name,
     sections |-> [i \in DOMAIN file |->
         [name |-> file[i].name, cond |-> Condition(file[i]).node, opts |-> file[i].opts]]]

Applies(s, section, ctx) == s.name = section /\ Eval(s.cond, ctx)

HasOption(s, key) == \E i \in DOMAIN s.opts : s.opts[i][1] = key

\* ManifestParser.get(): the first section that applies and has the key; the
\* section without a condition ends the search whether or not it has it.
Get(m, section, key, defval, ctx) ==
    LET found == {i \in DOMAIN m.sections :
                    /\ Applies(m.sections[i], section, ctx)
                    /\ \/ m.sections[i].cond = TrueExpr
                       \/ HasOption(m.sections[i], key)}
    IN IF found = {} THEN defval
       ELSE LET s == m.sections[Min(found)]
            IN IF HasOption(s, key)
               THEN (CHOOSE o \in Range(s.opts) : o[1] = key)[2]
               ELSE defval

\* get_section_as_ordered_pairs(), get_section_as_args(): the options of all
\* sections that apply, in file order.
OrderedPairs(m, section, ctx) ==
    FlattenSeq([i \in 1..Len(m.sections) |->
                    IF Applies(m.sections[i], section, ctx)
                    THEN m.sections[i].opts ELSE <<>>])

\* get_section_as_dict(): the keys of the same, the last value wins.
SectionAsDict(m, section, ctx) ==
    LET pairs == OrderedPairs(m, section, ctx)
        At(k) == {i \in DOMAIN pairs : pairs[i][1] = k}
    IN [k \in {pairs[i][1] : i \in DOMAIN pairs} |-> pairs[Max(At(k))][2]]

\* get_dependencies(): sorted, with the tool a builder needs in front.
GetDependencies(m, ctx) ==
    LET listed == Sorted(DOMAIN SectionAsDict(m, "dependencies", ctx))
        builder == Get(m, "build", "builder", "none", ctx)
    IN IF builder \in {"cmake", "python-wheel"} THEN <<"cmake">> \o listed
       ELSE IF /\ builder = "autoconf"
               /\ m.name \notin {"autoconf", "libtool", "automake"}
            THEN <<"libtool">> \o listed
       ELSE listed

\* update_hash(): what is hashed of the configuration in a context: for every
\* section its pairs sorted by key, that is, the values of every key in file
\* order.
UpdateHash(m, ctx) ==
    LET Values(s, k) ==
            LET of == SelectSeq(OrderedPairs(m, s, ctx), LAMBDA o : o[1] = k)
            IN [i \in 1..Len(of) |-> of[i][2]]
    IN [s \in {m.sections[i].name : i \in DOMAIN m.sections} |->
            [k \in DOMAIN SectionAsDict(m, s, ctx) |-> Values(s, k)]]

\* The fields of the `manifest' section that are set.
Flags(m) == {o[1] : o \in UNION {Range(s.opts) : s \in {t \in Range(m.sections) : t.name = "manifest"}}}
IsFirstParty(m) == "shipit_project" \in Flags(m)

(***************************************************************************)
(* _create_fetcher(): `o' holds the build options fbsource_dir, use_shipit,*)
(* allow_system_packages and what the host offers: shipit (the real tool), *)
(* preinstalled and packages (sets of projects satisfied by the            *)
(* environment or by installed system packages).                           *)
(***************************************************************************)
CreateFetcher(m, o, ctx) ==
    LET real == o.shipit /\ (o.use_shipit \/ "use_shipit" \in Flags(m))
        ours == {"fbsource_path", "shipit_project"} \subseteq Flags(m)
                    /\ o.fbsource_dir
        git == Get(m, "git", "repo_url", 0, ctx)
        url == Get(m, "download", "url", 0, ctx)
        system == (git = 0 /\ url = 0) \/ o.allow_system_packages
    IN CASE ours /\ ~ real -> "simple_shipit"
         [] ours /\ real -> "shipit"
         [] ~ ours /\ system /\ m.name \in o.preinstalled \cup o.packages
              -> "system"
         [] OTHER -> IF git # 0 THEN "git"
                     ELSE IF url # 0 THEN "archive" ELSE "none"

-----------------------------------------------------------------------------

\* What the manifests say in every context.  A digest of a configuration is
\* represented by the first context that gives the same configuration.
DependenciesIn(w) ==
    [p \in DOMAIN w |-> [c \in Contexts |-> GetDependencies(w[p], ManifestContext(c))]]
FetcherIn(w) ==
    [p \in DOMAIN w |-> [c \in Contexts |->
        IF p = Root THEN "local" ELSE CreateFetcher(w[p], Options, ManifestContext(c))]]
DigestIn(w) ==
    [p \in DOMAIN w |-> [c \in Contexts |->
        CHOOSE d \in Contexts : UpdateHash(w[p], ManifestContext(d))
                                   = UpdateHash(w[p], ManifestContext(c))]]
\* All projects a project needs, itself included.
ClosureIn(w) ==
    LET deps == DependenciesIn(w)
        Needs(s, p) ==
            LET Grow[S \in SUBSET DOMAIN w] ==
                    LET T == S \cup UNION {Range(deps[q][CtxOf(q, s)]) : q \in S}
                    IN IF T = S THEN S ELSE Grow[T]
            IN Grow[{p}]
    IN [s \in Settings |-> [p \in DOMAIN w |-> Needs(s, p)]]
BuilderIn(w) ==
    [p \in DOMAIN w |-> [c \in Contexts |-> Get(w[p], "build", "builder", "none", ManifestContext(c))]]
PatchIn(w) ==
    [p \in DOMAIN w |-> [c \in Contexts |-> Get(w[p], "build", "patchfile", 0, ManifestContext(c)) # 0]]
\* create_prepare_builders(): a project that Cargo does not build and that has a
\* `cargo' section.
PreparesIn(w) ==
    [p \in DOMAIN w |-> [c \in Contexts |->
        /\ Get(w[p], "build", "builder", "none", ManifestContext(c)) # "cargo"
        /\ DOMAIN SectionAsDict(w[p], "cargo", ManifestContext(c)) # {}]]
InstallFilesIn(w) ==
    [p \in DOMAIN w |-> [c \in Contexts |-> SectionAsDict(w[p], "install.files", ManifestContext(c))]]

\* ManifestLoader over a directory of files: what it has of every manifest.
Loaded(dir) ==
    LET w == [p \in DOMAIN dir |-> ReadManifest(p, dir[p])]
    IN [deps |-> DependenciesIn(w), fetcher |-> FetcherIn(w), digest |-> DigestIn(w),
        builder |-> BuilderIn(w), patch |-> PatchIn(w), closure |-> ClosureIn(w),
        prepares |-> PreparesIn(w), install_files |-> InstallFilesIn(w),
        ours |-> {p \in DOMAIN w : IsFirstParty(w[p])}]
LoadAll(dirs) ==
    {Loaded(dir) : dir \in {d \in dirs : \A p \in DOMAIN d : ValidManifest(p, d[p])}}
=============================================================================
