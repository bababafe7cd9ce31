----------------------------- MODULE FacetFactory -----------------------------
(* facet: the checks and the build order that #[facet::factory] and          *)
(* #[facet::container] work out at compile time, and the code they generate  *)
(* to build a container, synchronously or with shared futures.  Facets are   *)
(* numbers, in the order of their identifiers; a factory method takes        *)
(* references to other facets (deps, also in that order; factory parameters  *)
(* need no building and are left out).  A container is a sequence of fields, *)
(* each with its attributes and the facets it stands for.                    *)
EXTENDS Integers, Sequences, FiniteSets, SequencesExt, FiniteSetsExt

CONSTANTS Facets,      \* 1..n
          Graphs,      \* what deps may be: functions from Facets to sets of facets
          Containers   \* sequences of [attrs, facets]

VARIABLES deps, container, is_async, phase,
          queue, ident_depths,  \* the breadth-first walk from the heads
          lets,                 \* the futures in the order they are declared
          needed, running, built, calls,
          asks, stack           \* synchronous builder: requests, and open build()s

compile == <<queue, ident_depths, lets>>
build == <<needed, running, built, calls, asks, stack>>
vars == <<deps, container, is_async, phase, queue, ident_depths, lets,
          needed, running, built, calls, asks, stack>>

Sorted(S) == SetToSortSeq(S, <)

(* ContainerMembers::extract: each field has exactly one of the attributes.  *)
extract(c) == \A i \in DOMAIN c : Len(c[i].attrs) = 1

FieldsOf(c, attr) == {i \in DOMAIN c : c[i].attrs = <<attr>>}
FacetsOf(c, attr) == UNION {c[i].facets : i \in FieldsOf(c, attr)}

(* check_no_cycles(): what a facet reaches through its parameters, breadth   *)
(* first, each facet once.                                                   *)
ReachedIn[n \in Nat] ==
    [f \in Facets |-> IF n = 0 THEN deps[f]
                      ELSE ReachedIn[n - 1][f] \cup UNION {deps[g] : g \in ReachedIn[n - 1][f]}]
check_no_cycles(f) == f \notin ReachedIn[Cardinality(Facets)][f]

heads == Facets \ UNION {deps[f] : f \in Facets}

Extract ==
    /\ phase = "extract"
    /\ phase' = IF extract(container) /\ \A f \in Facets : check_no_cycles(f) THEN "walk" ELSE "rejected"
    /\ queue' = [i \in 1..Cardinality(heads) |-> <<Sorted(heads)[i], 0>>]
    /\ UNCHANGED <<deps, container, is_async, ident_depths, lets, build>>

(* Mutant: the depth it was first reached at is kept.                        *)
MutantSetDepth(depths, f, d) == IF depths[f] >= 0 THEN depths ELSE [depths EXCEPT ![f] = d]

(* A facet reached again gets its later, greater depth.                      *)
SetDepth(depths, f, d) == [depths EXCEPT ![f] = d]

PopFront ==
    LET f == Head(queue)[1]
        d == Head(queue)[2]
        next == Sorted(deps[f])
    IN  /\ phase = "walk" /\ queue # <<>>
        /\ ident_depths' = SetDepth(ident_depths, f, d)
        /\ queue' = Tail(queue) \o [i \in DOMAIN next |-> <<next[i], d + 1>>]
        /\ UNCHANGED <<deps, container, is_async, phase, lets, build>>

(* The levels, deepest first.                                                *)
Levels ==
    /\ phase = "walk" /\ queue = <<>>
    /\ lets' = SetToSortSeq(Facets, LAMBDA f, g : \/ ident_depths[f] > ident_depths[g]
                                                  \/ ident_depths[f] = ident_depths[g] /\ f < g)
    /\ phase' = IF is_async THEN "mark" ELSE "build"
    /\ asks' = IF is_async THEN <<>>
               ELSE Sorted(FacetsOf(container, "delegate")) \o Sorted(FacetsOf(container, "facet"))
    /\ UNCHANGED <<deps, container, is_async, queue, ident_depths, needed, running, built, calls, stack>>

(* mark_needed() and need(): the facets of the container and its delegates,  *)
(* and what they depend on.                                                  *)
MarkNeeded ==
    /\ phase = "mark"
    /\ needed' = LET asked == FacetsOf(container, "facet") \cup FacetsOf(container, "delegate")
                 IN  asked \cup UNION {ReachedIn[Cardinality(Facets)][f] : f \in asked}
    /\ phase' = "build"
    /\ UNCHANGED <<deps, container, is_async, compile, running, built, calls, asks, stack>>

(* build_needed(): a shared future first joins those of its dependencies,    *)
(* then calls the factory method; a future that is not needed gives None.    *)
Ready(f) == deps[f] \subseteq built

Start(f) ==
    /\ phase = "build" /\ is_async
    /\ f \in needed \ (running \cup built) /\ Ready(f)
    /\ running' = running \cup {f}
    /\ calls' = Append(calls, f)
    /\ UNCHANGED <<deps, container, is_async, phase, compile, needed, built, asks, stack>>

Finish(f) ==
    /\ phase = "build" /\ f \in running
    /\ running' = running \ {f}
    /\ built' = built \cup {f}
    /\ UNCHANGED <<deps, container, is_async, phase, compile, needed, calls, asks, stack>>

(* A fallible method fails: try_join! drops the other futures.               *)
Fail(f) ==
    /\ phase = "build" /\ f \in running
    /\ phase' = "error"
    /\ UNCHANGED <<deps, container, is_async, compile, build>>

(* All futures joined: construct() takes every facet out with get().         *)
Construct ==
    /\ phase = "build" /\ is_async /\ needed \subseteq built
    /\ phase' = IF FacetsOf(container, "facet") \cup FacetsOf(container, "delegate") \subseteq built
                THEN "done" ELSE "panic"
    /\ UNCHANGED <<deps, container, is_async, compile, build>>

(* The synchronous builder: build() of a facet builds the facets its method  *)
(* takes, one after the other, unless it is there already.                   *)
Ask ==
    /\ phase = "build" /\ ~is_async /\ stack = <<>> /\ asks # <<>>
    /\ stack' = IF Head(asks) \in built THEN <<>> ELSE <<Head(asks)>>
    /\ asks' = Tail(asks)
    /\ UNCHANGED <<deps, container, is_async, phase, compile, needed, running, built, calls>>

BuildDependency ==
    LET missing == deps[Last(stack)] \ built
    IN  /\ phase = "build" /\ ~is_async /\ stack # <<>> /\ missing # {}
        /\ stack' = Append(stack, Min(missing))
        /\ UNCHANGED <<deps, container, is_async, phase, compile, needed, running, built, calls, asks>>

CallMethod ==
    /\ phase = "build" /\ ~is_async /\ stack # <<>> /\ deps[Last(stack)] \subseteq built
    /\ calls' = Append(calls, Last(stack))
    /\ \/ /\ built' = built \cup {Last(stack)} /\ stack' = Front(stack)
          /\ UNCHANGED phase
       \/ phase' = "error" /\ UNCHANGED <<built, stack>>
    /\ UNCHANGED <<deps, container, is_async, compile, needed, running, asks>>

Done ==
    /\ phase = "build" /\ ~is_async /\ stack = <<>> /\ asks = <<>>
    /\ phase' = "done"
    /\ UNCHANGED <<deps, container, is_async, compile, build>>

Init ==
    /\ deps \in Graphs /\ container \in Containers /\ is_async \in BOOLEAN
    /\ phase = "extract"
    /\ queue = <<>> /\ ident_depths = [f \in Facets |-> -1] /\ lets = <<>>
    /\ needed = {} /\ running = {} /\ built = {} /\ calls = <<>>
    /\ asks = <<>> /\ stack = <<>>

Next ==
    \/ Extract \/ PopFront \/ Levels \/ MarkNeeded \/ Construct
    \/ \E f \in Facets : Start(f) \/ Finish(f) \/ Fail(f)
    \/ Ask \/ BuildDependency \/ CallMethod \/ Done

Spec == Init /\ [][Next]_vars

Asked == FacetsOf(container, "facet") \cup FacetsOf(container, "delegate")

(* In an accepted factory every future is declared after those it captures,  *)
(* so the generated code compiles.  A method is called at most once, with    *)
(* all it takes already built, and only for a container that needs it; a     *)
(* container that is finished has all its facets.                            *)
FacetsBuiltOnce ==
    /\ lets # <<>> => \A i \in DOMAIN lets : \A g \in deps[lets[i]] : \E j \in 1..i - 1 : lets[j] = g
    /\ IsInjective(calls)
    /\ \A i \in DOMAIN calls :
        /\ deps[calls[i]] \subseteq {calls[j] : j \in 1..i - 1}
        /\ \E a \in Asked : a = calls[i] \/ calls[i] \in ReachedIn[Cardinality(Facets)][a]
    /\ phase = "done" => Asked \subseteq built
    /\ phase # "panic"
=============================================================================
