-------------------------- MODULE BoundedTraversal --------------------------
(***************************************************************************)
(* The bounded traversal of an implicit tree                               *)
(* (shed/bounded_traversal/src/tree.rs).                                   *)
(*                                                                         *)
(* One future, BoundedTraversal, owns all the state and is advanced by     *)
(* poll().  The concurrency is that of the user's unfold and fold futures: *)
(* at most ScheduledMax of them are in `scheduled', and they complete, or  *)
(* fail, in any order.  A tree node is named by its path from the root (a  *)
(* sequence of child numbers), and the value folded from a node is named   *)
(* by the same path, so that the arguments of a fold say which results it  *)
(* was given and in which order.                                           *)
(***************************************************************************)
EXTENDS Integers, Sequences, FiniteSets, SequencesExt

CONSTANTS
    ScheduledMax,   \* bound on the futures that run at once
    MaxChildren,    \* model bound: children one unfold may return
    MaxDepth        \* model bound: depth of the unfolded tree

ASSUME BTConstants ==
    /\ ScheduledMax \in Nat \ {0}
    /\ MaxChildren \in Nat
    /\ MaxDepth \in Nat

VARIABLES
    pc,                    \* "schedule", "run", or how poll() ended
    unscheduled,           \* VecDeque of jobs waiting for a slot
    scheduled,             \* FuturesUnordered of running jobs
    execution_tree,        \* node index -> Node
    execution_tree_index,  \* last allocated node index
    unfolded               \* history: path -> number of children returned

vars == <<pc, unscheduled, scheduled, execution_tree, execution_tree_index,
          unfolded>>

-----------------------------------------------------------------------------
(* Jobs and nodes.                                                         *)

\* Option<Out>: None and Some(out), as sequences of length 0 and 1.
NoOut == <<>>

SomeOut(path) == <<path>>

Path == Seq(Nat)

\* The path of the c-th child of the value at p.
Child(p, c) == Append(p, c)

\* The location of a value: the node that waits for it and the child slot.
NodeLocation == [node_index : Nat, child_index : Nat]

RootLocation == [node_index |-> 0, child_index |-> 1]

UnfoldJob(loc, path) ==
    [kind |-> "unfold", loc |-> loc, path |-> path, args |-> <<>>]

\* The fold closure runs when the job is enqueued.  It is given the child
\* slots flattened, which silently skips the ones that are None; args is the
\* slots themselves.
FoldJob(loc, path, args) ==
    [kind |-> "fold", loc |-> loc, path |-> path, args |-> args]

Job == [kind : {"unfold", "fold"}, loc : NodeLocation, path : Path,
        args : Seq(Seq(Path))]

Node == [parent : NodeLocation, context : Path,
         children : Seq(Seq(Path)), children_left : Nat]

NodeWith(job, count, left) ==
    [parent |-> job.loc, context |-> job.path,
     children |-> [c \in 1..count |-> NoOut], children_left |-> left]

MutantNewNode(job, count) == NodeWith(job, count, count - 1)

\* The node allocated for a value with `count' children, none resolved.
NewNode(job, count) == NodeWith(job, count, count)

MutantChildJobs(n, path, count) ==
    [i \in 1..count |->
        UnfoldJob([node_index |-> n, child_index |-> 1],
                  Child(path, count + 1 - i))]

\* The unfold jobs of node n's children; each is pushed at the front, so the
\* last child ends up first.
ChildJobs(n, path, count) ==
    [i \in 1..count |->
        UnfoldJob([node_index |-> n, child_index |-> count + 1 - i],
                  Child(path, count + 1 - i))]

-----------------------------------------------------------------------------

Init ==
    /\ pc = "schedule"
    /\ unscheduled = <<UnfoldJob(RootLocation, <<>>)>>
    /\ scheduled = {}
    /\ execution_tree = <<>>
    /\ execution_tree_index = 0
    /\ unfolded = <<>>

\* min(unscheduled.len(), scheduled_max - scheduled.len())
Room ==
    LET free == ScheduledMax - Cardinality(scheduled)
    IN  IF Len(unscheduled) < free THEN Len(unscheduled) ELSE free

\* Top of the loop in poll(): move the front of the queue into the pool.
Schedule ==
    /\ pc = "schedule"
    /\ scheduled' = scheduled \cup ToSet(SubSeq(unscheduled, 1, Room))
    /\ unscheduled' = SubSeq(unscheduled, Room + 1, Len(unscheduled))
    /\ pc' = "run"
    /\ UNCHANGED <<execution_tree, execution_tree_index, unfolded>>

\* The unfold of job's value returned `count' children.
ProcessUnfold(job, count) ==
    LET n == execution_tree_index + 1
    IN  /\ execution_tree_index' = n
        /\ unfolded' = [p \in DOMAIN unfolded \cup {job.path} |->
                           IF p = job.path THEN count ELSE unfolded[p]]
        /\ \/ /\ count # 0
              /\ unscheduled' = ChildJobs(n, job.path, count) \o unscheduled
              /\ execution_tree' = [i \in DOMAIN execution_tree \cup {n} |->
                    IF i = n THEN NewNode(job, count) ELSE execution_tree[i]]
           \/ /\ count = 0
              /\ unscheduled' = <<FoldJob(job.loc, job.path, <<>>)>>
                                \o unscheduled
              /\ UNCHANGED execution_tree

MutantFilled(job) ==
    LET node == execution_tree[job.loc.node_index]
    IN  [node EXCEPT !.children[job.loc.child_index] = SomeOut(job.path)]

\* The node with the result in the slot the job's location names.
Filled(job) ==
    LET node == execution_tree[job.loc.node_index]
    IN  [node EXCEPT !.children[job.loc.child_index] = SomeOut(job.path),
                     !.children_left = @ - 1]

\* The fold of a node other than the root returned.
ProcessFold(job) ==
    LET i == job.loc.node_index
        node == Filled(job)
    IN  /\ UNCHANGED <<execution_tree_index, unfolded>>
        /\ \/ /\ node.children_left # 0
              /\ execution_tree' = [execution_tree EXCEPT ![i] = node]
              /\ UNCHANGED unscheduled
           \/ /\ node.children_left = 0
              /\ execution_tree' = [j \in DOMAIN execution_tree \ {i} |->
                                       execution_tree[j]]
              /\ unscheduled' = <<FoldJob(node.parent, node.context,
                                          node.children)>>
                                \o unscheduled

\* poll_next() of the pool yields a completed unfold.
UnfoldDone ==
    /\ pc = "run"
    /\ \E job \in scheduled, count \in 0..MaxChildren :
          /\ job.kind = "unfold"
          /\ Len(job.path) >= MaxDepth => count = 0
          /\ scheduled' = scheduled \ {job}
          /\ ProcessUnfold(job, count)
    /\ pc' = "schedule"

\* poll_next() of the pool yields a completed fold of an inner node or leaf.
FoldDone ==
    /\ pc = "run"
    /\ \E job \in scheduled :
          /\ job.kind = "fold"
          /\ job.loc.node_index # 0
          /\ scheduled' = scheduled \ {job}
          /\ ProcessFold(job)
    /\ pc' = "schedule"

\* Index 0 marks the fold of the root: its result, good or bad, is returned.
RootDone ==
    /\ pc = "run"
    /\ \E job \in scheduled :
          /\ job.kind = "fold"
          /\ job.loc.node_index = 0
          /\ scheduled' = scheduled \ {job}
    /\ pc' \in {"ok", "err"}
    /\ UNCHANGED <<unscheduled, execution_tree, execution_tree_index, unfolded>>

\* Any other future fails: `?' returns the error and drops the rest.
JobFailed ==
    /\ pc = "run"
    /\ \E job \in scheduled :
          /\ ~(job.kind = "fold" /\ job.loc.node_index = 0)
          /\ scheduled' = scheduled \ {job}
    /\ pc' = "err"
    /\ UNCHANGED <<unscheduled, execution_tree, execution_tree_index, unfolded>>

\* The future has returned Poll::Ready.
Returned ==
    /\ pc \in {"ok", "err"}
    /\ UNCHANGED vars

Next == Schedule \/ UnfoldDone \/ FoldDone \/ RootDone \/ JobFailed
        \/ Returned

Spec == Init /\ [][Next]_vars

\* The executor polls a woken future, and the user's futures finish.
FairSpec == Spec /\ WF_vars(Schedule)
                 /\ WF_vars(UnfoldDone \/ FoldDone \/ RootDone)

-----------------------------------------------------------------------------
(* Properties.                                                             *)

Jobs == ToSet(unscheduled) \cup scheduled

\* Every field keeps the type of its Rust counterpart; children_left and the
\* indices are usize, so they never go below zero.
TypeOK ==
    /\ pc \in {"schedule", "run", "ok", "err"}
    /\ unscheduled \in Seq(Job)
    /\ scheduled \subseteq Job
    /\ IsFiniteSet(scheduled)
    /\ execution_tree_index \in Nat
    /\ DOMAIN execution_tree \subseteq 1..execution_tree_index
    /\ execution_tree \in [DOMAIN execution_tree -> Node]
    /\ unfolded \in [DOMAIN unfolded -> Nat]

\* At most scheduled_max futures run, so that the subtraction in poll() does
\* not underflow.
ScheduledBound == Cardinality(scheduled) <= ScheduledMax

\* The location `loc' still waits for a value: the root's own slot, or an
\* empty child slot of a node of the execution tree.
Awaited(loc) ==
    \/ loc = RootLocation
    \/ /\ loc.node_index \in DOMAIN execution_tree
       /\ loc.child_index \in
             DOMAIN execution_tree[loc.node_index].children
       /\ execution_tree[loc.node_index].children[loc.child_index] = NoOut

\* Every job and every node delivers to a slot that still waits (neither
\* expect("fold referenced invalid node") nor the debug_assert of
\* process_fold fails), and no two of them deliver to the same slot.
SlotsOwned ==
    /\ \A job \in Jobs : Awaited(job.loc)
    /\ \A i \in DOMAIN execution_tree : Awaited(execution_tree[i].parent)
    /\ \A j1, j2 \in Jobs : j1.loc = j2.loc => j1 = j2
    /\ \A i, j \in DOMAIN execution_tree :
          execution_tree[i].parent = execution_tree[j].parent => i = j
    /\ \A job \in Jobs, i \in DOMAIN execution_tree :
          job.loc # execution_tree[i].parent

\* When the fold of the root runs nothing else is left: the three asserts
\* in poll() hold.
RootFoldLast ==
    \A job \in Jobs :
        job.kind = "fold" /\ job.loc.node_index = 0 =>
            /\ DOMAIN execution_tree = {}
            /\ Jobs = {job}
            /\ scheduled # {} => unscheduled = <<>>

\* While the traversal runs the pool is never empty, so poll() never goes
\* round its loop without waiting for a future.
NeverSpins == pc = "run" => scheduled # {}

\* A fold is called with the results of all the children its unfold
\* returned, each once and in the order they were returned: flatten() never
\* drops an unresolved slot.
FoldGetsChildren ==
    \A job \in Jobs :
        job.kind = "fold" =>
            /\ job.path \in DOMAIN unfolded
            /\ job.args = [c \in 1..unfolded[job.path] |->
                               SomeOut(Child(job.path, c))]

\* A successful traversal has unfolded every value any unfold returned.
WholeTreeVisited ==
    pc = "ok" =>
        /\ <<>> \in DOMAIN unfolded
        /\ \A p \in DOMAIN unfolded : \A c \in 1..unfolded[p] :
              Child(p, c) \in DOMAIN unfolded

\* If the user's futures finish, so does the traversal.
Terminates == <>(pc \in {"ok", "err"})
=============================================================================
