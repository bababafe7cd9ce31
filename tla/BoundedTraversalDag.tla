------------------------ MODULE BoundedTraversalDag ------------------------
(***************************************************************************)
(* The bounded traversal of an implicit graph                              *)
(* (shed/bounded_traversal/src/dag.rs).  A value reached along several     *)
(* edges is unfolded and folded once; its result is delivered to every     *)
(* slot that waits for it.  The graph is whatever the unfolds return, so   *)
(* it may have cycles, and a value may list the same child twice.          *)
(*                                                                         *)
(* The result folded from a value is named by the value.                   *)
(***************************************************************************)
EXTENDS Integers, Sequences, FiniteSets, SequencesExt, FiniteSetsExt

CONSTANTS
    Values,         \* In: the graph's nodes
    Root,           \* init
    None,           \* unfold_limit of a traversal without a limit
    Limits,         \* values of unfold_limit
    ScheduledMaxes, \* values of scheduled_max
    MaxChildren     \* model bound: children one unfold may return

ASSUME DagConstants ==
    /\ Root \in Values
    /\ None \notin Nat
    /\ Limits \subseteq Nat \cup {None}
    /\ ScheduledMaxes \subseteq Nat \ {0}
    /\ MaxChildren \in Nat

VARIABLES
    pc,              \* "run", or how poll() ended: "ok", "none", "err"
    scheduled_max,   \* bound on the futures that run at once
    unfold_limit,
    unscheduled,     \* VecDeque of jobs waiting for a slot
    scheduled,       \* FuturesUnordered of running jobs
    execution_tree,  \* value -> Node
    edges            \* history: value -> the children it was given

params == <<scheduled_max, unfold_limit>>

vars == <<pc, params, unscheduled, scheduled, execution_tree, edges>>

-----------------------------------------------------------------------------

NodeLocation == [node_index : Values, child_index : Nat]

Location(v, c) == [node_index |-> v, child_index |-> c]

\* The location init is enqueued for; its fold returns instead of using it.
RootLocation == Location(Root, 1)

UnfoldJob(v) == [kind |-> "unfold", value |-> v, args |-> <<>>]

\* args is the slots; the closure is given them flattened.
FoldJob(v, args) == [kind |-> "fold", value |-> v, args |-> args]

Job == [kind : {"unfold", "fold"}, value : Values, args : Seq(Seq(Values))]

\* The waiting state of a node whose children are not all resolved.
Children == [children : Seq(Seq(Values)), children_left : Nat]

\* A node is Pending, with or without children to wait for, or Done.
PendingNode(loc) == [done |-> FALSE, parents |-> <<loc>>, wait |-> <<>>]

DoneNode == [done |-> TRUE, parents |-> <<>>, wait |-> <<>>]

Node == [done : BOOLEAN, parents : Seq(NodeLocation), wait : Seq(Children)]

\* The traversal's mutable part, as the helpers below transform it.
Work(tree, jobs) == [tree |-> tree, jobs |-> jobs]

\* A further parent of a pending value is not recorded.
MutantForgetParent(w, loc, v) ==
    IF v \in DOMAIN w.tree THEN w
    ELSE Work([x \in DOMAIN w.tree \cup {v} |->
                  IF x = v THEN PendingNode(loc) ELSE w.tree[x]],
              <<UnfoldJob(v)>> \o w.jobs)

\* An unseen value gets a node and an unfold job; a pending one records
\* another parent; a resolved one needs nothing.
EnqueueUnfold(w, loc, v) ==
    IF v \notin DOMAIN w.tree
    THEN Work([x \in DOMAIN w.tree \cup {v} |->
                  IF x = v THEN PendingNode(loc) ELSE w.tree[x]],
              <<UnfoldJob(v)>> \o w.jobs)
    ELSE IF w.tree[v].done THEN w
    ELSE [w EXCEPT !.tree[v].parents = Append(@, loc)]

\* What enqueue_unfold returns: the result of a resolved value.
Resolved(v) ==
    IF v \in DOMAIN execution_tree /\ execution_tree[v].done
    THEN <<v>> ELSE <<>>

EnqueueFold(w, v, args) == Work(w.tree, <<FoldJob(v, args)>> \o w.jobs)

Init ==
    LET w == EnqueueUnfold(Work(<<>>, <<>>), RootLocation, Root)
    IN  /\ pc = "run"
        /\ scheduled_max \in ScheduledMaxes
        /\ unfold_limit \in Limits
        /\ unscheduled = w.jobs
        /\ scheduled = {}
        /\ execution_tree = w.tree
        /\ edges = <<>>

-----------------------------------------------------------------------------

\* How many children of an unfold are kept: unfold_limit less the nodes seen.
Budget ==
    IF unfold_limit = None THEN MaxChildren
    ELSE Max({0, unfold_limit - Cardinality(DOMAIN execution_tree)})

Take(kids, n) == SubSeq(kids, 1, Min({n, Len(kids)}))

MutantKept(kids) == kids

Kept(kids) == Take(kids, Budget)

MustWait(left) == left # 0

\* What a pending node waits for: <<>> is nothing.
SetWait(w, n, wait) == [w EXCEPT !.tree[n].wait = wait]

\* The loop of process_unfold over the children.
EnqueueChildren(v, kids) ==
    LET after[c \in 0..Len(kids)] ==
            IF c = 0 THEN Work(execution_tree, unscheduled)
            ELSE EnqueueUnfold(after[c - 1], Location(v, c), kids[c])
    IN  after[Len(kids)]

\* process_unfold: enqueue the children in order, then wait for the
\* unresolved ones, or fold at once if there is none.
ProcessUnfold(v, kids) ==
    LET w == EnqueueChildren(v, kids)
        slots == [c \in 1..Len(kids) |-> Resolved(kids[c])]
        left == Cardinality({c \in 1..Len(kids) : slots[c] = <<>>})
    IN  IF MustWait(left)
        THEN SetWait(w, v, <<[children |-> slots, children_left |-> left]>>)
        ELSE EnqueueFold(w, v, slots)

MutantUpdateLocation(w, loc, v) ==
    LET n == loc.node_index
        old == w.tree[n].wait[1]
    IN  EnqueueFold(SetWait(w, n, <<>>), n,
                    [old.children EXCEPT ![loc.child_index] = <<v>>])

\* update_location: fill the slot, and fold the parent when it was the last.
UpdateLocation(w, loc, v) ==
    LET n == loc.node_index
        old == w.tree[n].wait[1]
        new == [children |-> [old.children EXCEPT ![loc.child_index] = <<v>>],
                children_left |-> old.children_left - 1]
    IN  IF new.children_left = 0
        THEN EnqueueFold(SetWait(w, n, <<>>), n, new.children)
        ELSE SetWait(w, n, <<new>>)

\* process_fold: the node is done, and all its parents are told.
ProcessFold(v) ==
    LET parents == execution_tree[v].parents
        after[i \in 0..Len(parents)] ==
            IF i = 0
            THEN Work([execution_tree EXCEPT ![v] = DoneNode], unscheduled)
            ELSE UpdateLocation(after[i - 1], parents[i], v)
    IN  after[Len(parents)]

-----------------------------------------------------------------------------

\* Part of the loop in poll(): move the front of the queue into the pool.
Room == Min({Len(unscheduled), scheduled_max - Cardinality(scheduled)})

Schedule ==
    /\ pc = "run"
    /\ Room > 0
    /\ scheduled' = scheduled \cup ToSet(SubSeq(unscheduled, 1, Room))
    /\ unscheduled' = SubSeq(unscheduled, Room + 1, Len(unscheduled))
    /\ UNCHANGED <<pc, params, execution_tree, edges>>

\* poll_next() of the pool yields `job'; the queue has been drained before.
Yielded(job) ==
    /\ pc = "run"
    /\ Room = 0
    /\ job \in scheduled
    /\ scheduled' = scheduled \ {job}
    /\ UNCHANGED params

UnfoldDone ==
    \E job \in scheduled, kids \in BoundedSeq(Values, MaxChildren) :
        LET w == ProcessUnfold(job.value, Kept(kids))
        IN  /\ Yielded(job)
            /\ job.kind = "unfold"
            /\ execution_tree' = w.tree
            /\ unscheduled' = w.jobs
            /\ edges' = [v \in DOMAIN edges \cup {job.value} |->
                            IF v = job.value THEN Kept(kids) ELSE edges[v]]
            /\ UNCHANGED pc

FoldDone ==
    \E job \in scheduled :
        LET w == ProcessFold(job.value)
        IN  /\ Yielded(job)
            /\ job.kind = "fold"
            /\ job.value # Root
            /\ execution_tree' = w.tree
            /\ unscheduled' = w.jobs
            /\ UNCHANGED <<pc, edges>>

\* The fold of init returns at once, without process_fold.
RootDone ==
    \E job \in scheduled :
        /\ Yielded(job)
        /\ job.kind = "fold"
        /\ job.value = Root
        /\ pc' \in {"ok", "err"}
        /\ UNCHANGED <<unscheduled, execution_tree, edges>>

JobFailed ==
    \E job \in scheduled :
        /\ Yielded(job)
        /\ ~(job.kind = "fold" /\ job.value = Root)
        /\ pc' = "err"
        /\ UNCHANGED <<unscheduled, execution_tree, edges>>

MutantCycleFound ==
    /\ pc = "run"
    /\ unscheduled = <<>>
    /\ scheduled = {}
    /\ UNCHANGED vars

\* Nothing runs and nothing waits, yet init has no result.
CycleFound ==
    /\ pc = "run"
    /\ unscheduled = <<>>
    /\ scheduled = {}
    /\ pc' = "none"
    /\ UNCHANGED <<params, unscheduled, scheduled, execution_tree, edges>>

Returned ==
    /\ pc # "run"
    /\ UNCHANGED vars

Next == Schedule \/ UnfoldDone \/ FoldDone \/ RootDone \/ JobFailed
        \/ CycleFound \/ Returned

Spec == Init /\ [][Next]_vars

\* The executor polls a woken future, and the user's futures finish.
FairSpec == Spec /\ WF_vars(Schedule \/ CycleFound)
                 /\ WF_vars(UnfoldDone \/ FoldDone \/ RootDone)

-----------------------------------------------------------------------------
(* Properties.                                                             *)

Jobs == ToSet(unscheduled) \cup scheduled

Pending(v) == v \in DOMAIN execution_tree /\ ~execution_tree[v].done

\* Every slot registered with a pending value belongs to a pending value that
\* waits for it, and is still empty: update_location meets none of its
\* expects, its unreachable! and its debug_assert.
ParentsWait ==
    \A v \in DOMAIN execution_tree :
        \A l \in ToSet(execution_tree[v].parents) :
            LET n == execution_tree[l.node_index]
            IN  v # Root \/ l # RootLocation =>
                    /\ Pending(l.node_index)
                    /\ n.wait # <<>>
                    /\ n.wait[1].children[l.child_index] = <<>>

\* A value is unfolded and folded at most once: it has one job exactly while
\* it is pending and waits for no child, and no other job ever.
OneJobPerValue ==
    pc = "run" =>
        \A v \in Values :
            Cardinality({j \in Jobs : j.value = v}) =
                IF Pending(v) /\ execution_tree[v].wait = <<>> THEN 1 ELSE 0

\* The two asserts in poll(): when init is folded no other job is left.
RootFoldLast ==
    \A j \in Jobs : j.kind = "fold" /\ j.value = Root => Jobs = {j}

\* None of the expects, unreachables and asserts of dag.rs fails.
NoPanic == ParentsWait /\ OneJobPerValue /\ RootFoldLast

\* A fold is given the results of all the children kept for its value, in
\* their order, whether they were done before, are shared, or are listed
\* twice.
FoldGetsChildren ==
    \A j \in Jobs :
        j.kind = "fold" =>
            /\ j.value \in DOMAIN edges
            /\ j.args = [c \in 1..Len(edges[j.value]) |->
                            <<edges[j.value][c]>>]

\* In a finite graph there is a cycle exactly when one can go on for ever
\* inside some set of values.
Cyclic ==
    \E S \in SUBSET DOMAIN edges :
        S # {} /\ \A v \in S : ToSet(edges[v]) \cap S # {}

\* The result is None exactly when the graph that was unfolded has a cycle.
NoneIffCycle == (pc = "none" => Cyclic) /\ (pc = "ok" => ~Cyclic)

\* With a limit, no more than that many values are visited (init always is).
LimitKept ==
    unfold_limit # None =>
        Cardinality(DOMAIN execution_tree) <= Max({1, unfold_limit})

\* If the user's futures finish, so does the traversal, cycles included.
Terminates == <>(pc # "run")
=============================================================================
