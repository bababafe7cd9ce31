---------------------------- MODULE OrderedStream ----------------------------
(***************************************************************************)
(* The traversal of a tree as a stream with ordered output                 *)
(* (shed/bounded_traversal/src/ordered_stream.rs).                         *)
(*                                                                         *)
(* Unfolds run concurrently and finish in any order, but their outputs are *)
(* yielded in the order of the tree.  How far ahead of the output the      *)
(* unfolds may run is a budget of queued_max, which moves between the      *)
(* nodes of the execution tree: down to the children that may run, back up *)
(* as outputs are yielded, and out of the stream near the limit.           *)
(*                                                                         *)
(* An input or output is named by its path from the virtual root, whose    *)
(* children are the inputs given in `init'.  Node indices start at 0 and   *)
(* child indices at 1.                                                     *)
(***************************************************************************)
EXTENDS Integers, Sequences, FiniteSets, SequencesExt, FiniteSetsExt, TLC

CONSTANTS
    ScheduledMax,   \* bound on the unfolds that run at once
    QueuedMaxes,    \* values of queued_max
    Limits,         \* values of limit: None (<<>>) and Some (<<n>>)
    Inits,          \* values of init: sequences of weights
    Weights,        \* weights an unfold may give to its recursion items
    MaxItems,       \* model bound: items one unfold may return
    MaxDepth,       \* model bound: depth of the tree
    MaxTotal        \* model bound: items returned in a behaviour

ASSUME OrderedStreamConstants ==
    /\ ScheduledMax \in Nat \ {0}
    /\ QueuedMaxes \subseteq Nat \ {0}
    /\ \A l \in Limits : l = <<>> \/ l \in [{1} -> Nat]
    /\ Inits \subseteq Seq(Nat)
    /\ Weights \subseteq Nat
    /\ {MaxItems, MaxDepth, MaxTotal} \subseteq Nat

VARIABLES
    pc,                     \* where poll_next() is: "poll", "schedule", "yield",
                            \* "wait"; or "ended", "err"
    total_budget,
    limit,
    schedule_queue,         \* started unfolds that wait for a slot
    scheduled,              \* FuturesUnordered: the unfolds that run
    execution_tree,         \* node index -> Node
    execution_tree_index,
    yield_next_location,    \* None or Some(location)
    queued_max,             \* the argument of new()
    shape,                  \* history: path -> what its unfold returned
    out,                    \* history: the outputs yielded
    balanced                \* history: nodes completed with no weight left

vars == <<pc, total_budget, limit, schedule_queue, scheduled, execution_tree,
          execution_tree_index, yield_next_location, queued_max, shape, out,
          balanced>>

\* The part of the state that yield_next() changes.
yieldVars == <<total_budget, limit, schedule_queue, scheduled, execution_tree,
               yield_next_location, out, balanced>>

-----------------------------------------------------------------------------
(* Nodes.  The weight of a child is kept in its record: 1 for an output    *)
(* and 0 once it is yielded.                                               *)

Child(kind, weight, path, node) ==
    [kind |-> kind, weight |-> weight, path |-> path, node |-> node]

Unscheduled(weight, path) == Child("unscheduled", weight, path, 0)

Output(path) == Child("output", 1, path, 0)

Yielded == Child("yielded", 0, <<>>, 0)

Loc(n, c) == [node_index |-> n, child_index |-> c]

NewNode(parent, children) ==
    [parent |-> parent, children |-> children,
     remaining_weight |->
         SumFunction([c \in DOMAIN children |-> children[c].weight]),
     budget |-> 0, expired |-> 0, schedule_next_index |-> 1]

\* usize::saturating_sub
Monus(a, b) == Max({a - b, 0})

\* add_budget(): the node keeps what it needs; the rest is the surplus.
AddBudget(node, budget) ==
    [node EXCEPT !.budget = Min({@ + budget, node.remaining_weight})]

Surplus(node, budget) ==
    Monus(node.budget + budget, node.remaining_weight)

BudgetNeeded(node) == Monus(node.remaining_weight, node.budget)

\* take_expired(): how much expired budget the surplus covers.
Expired(node) ==
    Min({node.expired, Monus(node.budget, node.remaining_weight)})

MutantTrimmed(node) ==
    [node EXCEPT !.expired = @ - Expired(node),
                 !.budget = Min({@, node.remaining_weight + Expired(node)})]

\* take_expired() then take_surplus() on the node that yielded.
Trimmed(node) ==
    [node EXCEPT !.expired = @ - Expired(node),
                 !.budget = Min({@ - Expired(node), node.remaining_weight})]

\* child_yielded(): the child needs less budget than was set aside for it.
ChildYielded(node, c, needed) ==
    LET cancelled == Monus(node.children[c].weight, needed)
    IN  IF node.children[c].kind # "node" THEN node
        ELSE [node EXCEPT !.children[c].weight = @ - cancelled,
                          !.remaining_weight = @ - cancelled]

MutantChildComplete(node, c, surplus) ==
    [node EXCEPT !.children[c] = Yielded,
                 !.remaining_weight = @ - node.children[c].weight]

\* child_complete(): the child node has yielded everything.
ChildComplete(node, c, surplus) ==
    [node EXCEPT !.children[c] = Yielded,
                 !.budget = @ + surplus,
                 !.remaining_weight = @ - node.children[c].weight]

InitWith(max, lim, weights) ==
    LET children == [c \in 1..Len(weights) |->
                        Unscheduled(Max({weights[c], 1}), <<c>>)]
        root == NewNode(<<>>, children)
    IN  /\ queued_max = max
        /\ limit = lim
        /\ execution_tree = (0 :> AddBudget(root, max))
        /\ total_budget = max - Surplus(root, max)
        /\ yield_next_location = IF lim = <<0>> THEN <<>> ELSE <<Loc(0, 1)>>
        /\ shape = (<<>> :> children)

Init ==
    /\ \E max \in QueuedMaxes, lim \in Limits, weights \in Inits :
          InitWith(max, lim, weights)
    /\ pc = "poll"
    /\ schedule_queue = <<>>
    /\ scheduled = {}
    /\ execution_tree_index = 0
    /\ out = <<>>
    /\ balanced = TRUE

-----------------------------------------------------------------------------
(* schedule_next(): a depth first walk of the execution tree from the root *)
(* that starts the unfolds the budget allows.  The walk carries            *)
(*   w : the execution tree, the queue and the pool,                       *)
(* and, for the node it is in,                                             *)
(*   budget, pending : the NodeSchedule, and surplus : what goes back up.  *)

Work(tree, queue, pool) == [tree |-> tree, queue |-> queue, pool |-> pool]

\* The future that unfolds child c of node n, with its location.
Job(w, n, c) == [loc |-> Loc(n, c), path |-> w.tree[n].children[c].path]

MutantPoolFull(w) == Cardinality(w.pool) > ScheduledMax

PoolFull(w) == Cardinality(w.pool) >= ScheduledMax

\* The unfold of child c of node n is started, or queued if the pool is full.
Started(w, n, c) ==
    LET job == Job(w, n, c)
        tree == [w.tree EXCEPT ![n].children[c].kind = "pending"]
    IN  IF PoolFull(w)
        THEN Work(tree, Append(w.queue, job), w.pool)
        ELSE Work(tree, w.queue, w.pool \cup {job})

MutantMoved(w, n, c, b) == w

\* Budget b is moved from node n into its child c.
Moved(w, n, c, b) ==
    [w EXCEPT !.tree[n].children[c].weight = @ - b,
              !.tree[n].remaining_weight = @ - b,
              !.tree[n].budget = @ - b]

\* The walk comes to node n with `additional' budget for it.  What the node's
\* children may use is the budget it had before.
Enter(w, n, additional) ==
    LET node == w.tree[n]
    IN  [w |-> [w EXCEPT !.tree[n] = AddBudget(node, additional)],
         budget |-> node.budget,
         pending |-> 0,
         surplus |-> Surplus(node, additional)]

MutantConsumed(child, budget) == child.weight

\* consume_budget(): what of the schedule's budget a child takes.
Consumed(child, budget) == Min({child.weight, budget})

\* next_action() and what schedule_next() does with it, for child c of node
\* n and then the ones after it.  A child node is visited in its turn.
RECURSIVE VisitFrom(_, _, _)
VisitFrom(acc, n, c) ==
    IF c > Len(acc.w.tree[n].children)
    THEN [w |-> acc.w, complete |-> acc.pending = 0, surplus |-> acc.surplus]
    ELSE
    LET child == acc.w.tree[n].children[c]
        b == Consumed(child, acc.budget)
        next == [acc EXCEPT !.budget = @ - b]
    IN  CASE child.kind = "unscheduled" ->
               VisitFrom([next EXCEPT
                             !.pending = @ + 1,
                             !.w = IF b > 0 THEN Started(@, n, c) ELSE @],
                         n, c + 1)
          [] child.kind = "pending" ->
               VisitFrom([next EXCEPT !.pending = @ + 1], n, c + 1)
          [] child.kind = "yielded" ->
               VisitFrom([next EXCEPT !.w.tree[n].schedule_next_index =
                             IF @ = c THEN c + 1 ELSE @],
                         n, c + 1)
          [] child.kind = "output" -> VisitFrom(next, n, c + 1)
          [] child.kind = "node" ->
               LET moved == Moved(acc.w, n, c, b)
                   sub == VisitFrom(Enter(moved, child.node, b), child.node,
                              moved.tree[child.node].schedule_next_index)
                   me == sub.w.tree[n]
               IN  VisitFrom([next EXCEPT
                                 !.pending = IF sub.complete THEN @ ELSE @ + 1,
                                 !.w = [sub.w EXCEPT !.tree[n] =
                                           AddBudget(me, sub.surplus)],
                                 !.surplus = @ + Surplus(me, sub.surplus)],
                             n, c + 1)

ScheduleNext ==
    LET start == Enter(Work(execution_tree, schedule_queue, scheduled), 0, 0)
        walk == VisitFrom(start, 0, execution_tree[0].schedule_next_index)
    IN  /\ pc = "schedule"
        /\ execution_tree' = walk.w.tree
        /\ schedule_queue' = walk.w.queue
        /\ scheduled' = walk.w.pool
        /\ total_budget' = total_budget - walk.surplus
        /\ pc' = "yield"
        /\ UNCHANGED <<limit, execution_tree_index, yield_next_location,
                       queued_max, shape, out, balanced>>

-----------------------------------------------------------------------------
(* yield_next(): from the location recorded last, find the next output in  *)
(* the order of the tree, removing the nodes that have yielded everything. *)

\* What the walk ends with: "none" (the stream is over), "pending" or
\* "output", at location loc, in tree.
Found(what, tree, loc, ok) ==
    [what |-> what, tree |-> tree, loc |-> loc, ok |-> ok]

MutantUnyielded(node, from) ==
    {c \in from..Len(node.children) :
        node.children[c].kind \notin {"yielded", "pending"}}

MutantEager(node, from) ==
    LET ready == {c \in from..Len(node.children) :
                     node.children[c].kind \in {"output", "node"}}
    IN  IF ready # {} THEN ready ELSE MutantUnyielded(node, from) \cup
            {c \in from..Len(node.children) : node.children[c].kind = "pending"}

\* The children of a node that are still to be yielded, from an index on.
Unyielded(node, from) ==
    {c \in from..Len(node.children) : node.children[c].kind # "yielded"}

RECURSIVE Seek(_, _, _)
Seek(tree, loc, ok) ==
    IF loc = <<>> \/ loc[1].node_index \notin DOMAIN tree
    THEN Found("none", tree, <<>>, ok)
    ELSE
    LET n == loc[1].node_index
        node == tree[n]
        rest == Unyielded(node, loc[1].child_index)
        c == Min(rest)
        up == node.parent
        above == Restrict(tree, DOMAIN tree \ {n})
    IN  CASE rest = {} ->
               Seek(IF up = <<>> \/ up[1].node_index \notin DOMAIN above
                    THEN above
                    ELSE [above EXCEPT ![up[1].node_index] =
                             ChildComplete(@, up[1].child_index, node.budget)],
                    up, ok /\ node.remaining_weight = 0)
          [] rest # {} /\ node.children[c].kind = "node" ->
               Seek(tree, <<Loc(node.children[c].node, 1)>>, ok)
          [] rest # {} /\ node.children[c].kind \in {"unscheduled", "pending"} ->
               Found("pending", tree, <<Loc(n, c)>>, ok)
          [] rest # {} /\ node.children[c].kind = "output" ->
               Found(IF node.budget = 0 THEN "pending" ELSE "output",
                     tree, <<Loc(n, c)>>, ok)

\* A yielded value is recorded in the ancestors of node n, from its parent
\* up, and the surplus goes up with it; what is left at the root leaves the
\* stream.
RECURSIVE PassUp(_, _, _)
PassUp(tree, n, surplus) ==
    IF tree[n].parent = <<>> THEN [tree |-> tree, surplus |-> surplus]
    ELSE LET up == tree[n].parent[1]
             node == ChildYielded(tree[up.node_index], up.child_index,
                                  BudgetNeeded(tree[n]))
         IN  PassUp([tree EXCEPT ![up.node_index] = AddBudget(node, surplus)],
                    up.node_index, Surplus(node, surplus))

LimitAfter == IF limit = <<>> THEN <<>> ELSE <<limit[1] - 1>>

MutantNoLimit == FALSE

MutantEarlyLimit == LimitAfter = <<1>>

LimitReached == LimitAfter = <<0>>

\* Node n after child c was yielded; near the limit its budget expires.
YieldedFrom(node, c) ==
    [node EXCEPT
        !.children[c] = Yielded,
        !.remaining_weight = @ - 1,
        !.expired = IF LimitAfter # <<>> /\ LimitAfter[1] < total_budget
                    THEN @ + 1 ELSE @]

\* Child c of node n is yielded and the limit is reached: clear().
YieldLast ==
    /\ execution_tree' = <<>>
    /\ schedule_queue' = <<>>
    /\ scheduled' = {}
    /\ total_budget' = 0
    /\ yield_next_location' = <<>>

\* Child c of node n is yielded, and the stream goes on.
YieldChild(tree, n, c) ==
    LET node == YieldedFrom(tree[n], c)
        surplus == Monus(node.budget - Expired(node), node.remaining_weight)
        up == PassUp([tree EXCEPT ![n] = Trimmed(node)], n, surplus)
    IN  /\ execution_tree' = up.tree
        /\ total_budget' = total_budget - Expired(node) - up.surplus
        /\ yield_next_location' = <<Loc(n, c + 1)>>
        /\ UNCHANGED <<schedule_queue, scheduled>>

\* yield_next() as called at `from'; pending takes poll_next() on to `then'.
YieldNext(from, then) ==
    LET found == Seek(execution_tree, yield_next_location, balanced)
        at == found.loc[1]
    IN  /\ pc = from
        /\ balanced' = found.ok
        /\ UNCHANGED <<execution_tree_index, queued_max, shape>>
        /\ \/ /\ found.what = "none"
              /\ pc' = "ended"
              /\ execution_tree' = found.tree
              /\ yield_next_location' = <<>>
              /\ UNCHANGED <<total_budget, limit, schedule_queue, scheduled, out>>
           \/ /\ found.what = "pending"
              /\ pc' = then
              /\ execution_tree' = found.tree
              /\ yield_next_location' = found.loc
              /\ UNCHANGED <<total_budget, limit, schedule_queue, scheduled, out>>
           \/ /\ found.what = "output"
              /\ pc' = "poll"
              /\ limit' = LimitAfter
              /\ out' = Append(out, found.tree[at.node_index]
                                        .children[at.child_index].path)
              /\ IF LimitReached THEN YieldLast
                 ELSE YieldChild(found.tree, at.node_index, at.child_index)

YieldReady == YieldNext("poll", "schedule")

YieldAfterSchedule == YieldNext("yield", "wait")

-----------------------------------------------------------------------------

Items == [kind : {"output"}] \cup [kind : {"recurse"}, weight : Weights]

TotalItems == SumFunction([p \in DOMAIN shape |-> Len(shape[p])])

\* What the unfold of the input at `path' may return.
Unfolded(path) ==
    {items \in BoundedSeq(Items, MaxItems) :
        /\ TotalItems + Len(items) <= MaxTotal
        /\ Len(path) >= MaxDepth =>
               \A c \in DOMAIN items : items[c].kind = "output"}

\* The pool yields a finished unfold; its slot goes to the queue's first.
Refilled(job) ==
    /\ pc = "wait"
    /\ scheduled' = (scheduled \ {job}) \cup
                        (IF schedule_queue = <<>> THEN {}
                         ELSE {Head(schedule_queue)})
    /\ schedule_queue' = IF schedule_queue = <<>> THEN <<>>
                         ELSE Tail(schedule_queue)
    /\ UNCHANGED <<total_budget, limit, yield_next_location, queued_max, out,
                   balanced>>

ChildrenOf(path, items) ==
    [c \in 1..Len(items) |->
        IF items[c].kind = "output" THEN Output(Append(path, c))
        ELSE Unscheduled(Max({items[c].weight, 1}), Append(path, c))]

\* process_unfold(): the children replace the input, whose weight shrinks to
\* what they need; an input with no children is as good as yielded.
ProcessUnfold(job, items) ==
    LET children == ChildrenOf(job.path, items)
        n == execution_tree_index + 1
        node == NewNode(<<job.loc>>, children)
        p == job.loc.node_index
        c == job.loc.child_index
        original == execution_tree[p].children[c].weight
        kept == Min({node.remaining_weight, original})
        parent == [execution_tree[p] EXCEPT
                      !.remaining_weight = @ - (original - kept),
                      !.children[c] = IF items = <<>> THEN Yielded
                                      ELSE Child("node", kept, <<>>, n)]
    IN  /\ execution_tree_index' = n
        /\ shape' = (job.path :> children) @@ shape
        /\ execution_tree' = IF items = <<>>
                             THEN [execution_tree EXCEPT ![p] = parent]
                             ELSE (n :> node) @@
                                  [execution_tree EXCEPT ![p] = parent]

UnfoldDone ==
    /\ \E job \in scheduled : \E items \in Unfolded(job.path) :
          Refilled(job) /\ ProcessUnfold(job, items)
    /\ pc' = "poll"

UnfoldFailed ==
    /\ \E job \in scheduled : Refilled(job)
    /\ pc' = "err"
    /\ UNCHANGED <<execution_tree, execution_tree_index, shape>>

\* An empty pool does not suspend poll_next(): it goes round its loop.
GoRound ==
    /\ pc = "wait"
    /\ scheduled = {}
    /\ pc' = "poll"
    /\ UNCHANGED <<yieldVars, execution_tree_index, queued_max, shape>>

\* The stream is over, or the consumer has stopped at an error.
Returned ==
    /\ pc \in {"ended", "err"}
    /\ UNCHANGED vars

Next == YieldReady \/ ScheduleNext \/ YieldAfterSchedule \/ UnfoldDone
        \/ UnfoldFailed \/ GoRound \/ Returned

Spec == Init /\ [][Next]_vars

\* poll_next() gets on, to whatever comes next.
Advance ==
    /\ pc \notin {"ended", "err"}
    /\ pc' \in {"poll", "schedule", "yield", "wait", "ended", "err"} \ {pc}

\* The consumer polls the stream on, and the unfolds finish.  Only outputs
\* leave pc as it is, and there are finitely many, so this is the weak
\* fairness of Next.
FairSpec == Spec /\ WF_pc(Advance)

-----------------------------------------------------------------------------
(* Properties.                                                             *)

ChildType ==
    [kind : {"unscheduled", "pending", "output", "node", "yielded"},
     weight : Nat, path : Seq(Nat), node : Nat]

LocType == [node_index : Nat, child_index : Nat]

NodeType ==
    [parent : Seq(LocType), children : Seq(ChildType),
     remaining_weight : Nat, budget : Nat, expired : Nat,
     schedule_next_index : Nat]

\* Every field keeps the type of its Rust counterpart; the weights, budgets
\* and the limit are usize, so no subtraction in the stream underflows.
TypeOK ==
    /\ pc \in {"poll", "schedule", "yield", "wait", "ended", "err"}
    /\ total_budget \in Nat
    /\ limit = <<>> \/ limit \in Seq(Nat)
    /\ execution_tree \in [DOMAIN execution_tree -> NodeType]
    /\ execution_tree_index \in Nat
    /\ Len(yield_next_location) <= 1

\* check_budget(), which the code asserts after every schedule_next() in test
\* builds: the nodes' budgets add up to the total, which queued_max bounds.
BudgetBalanced ==
    /\ total_budget <= queued_max
    /\ pc = "yield" =>
          total_budget = SumFunction([n \in DOMAIN execution_tree |->
                                         execution_tree[n].budget])

\* A node's remaining weight is that of its children, and a node that has
\* yielded everything has none left (the debug_assert in yield_next()).
WeightBalanced ==
    /\ balanced
    /\ \A n \in DOMAIN execution_tree :
          LET node == execution_tree[n]
          IN  node.remaining_weight =
                 SumFunction([c \in DOMAIN node.children |->
                                 node.children[c].weight])

\* Nodes and children point at each other, and every unfold that is started
\* fills a pending child: no programming_error! is raised.
TreeLinked ==
    /\ \A n \in DOMAIN execution_tree \ {0} :
          LET up == execution_tree[n].parent[1]
          IN  /\ up.node_index \in DOMAIN execution_tree
              /\ execution_tree[up.node_index].children[up.child_index].node = n
    /\ \A job \in scheduled \cup ToSet(schedule_queue) :
          /\ job.loc.node_index \in DOMAIN execution_tree
          /\ execution_tree[job.loc.node_index]
                .children[job.loc.child_index].kind = "pending"

\* The books balance after every step of poll_next().
BooksBalanced == BudgetBalanced /\ WeightBalanced /\ TreeLinked

\* The outputs of the tree below path as far as it is known, in order, with
\* the inputs that have not been unfolded in their places.
RECURSIVE Flat(_)
Flat(path) ==
    IF path \notin DOMAIN shape THEN <<path>>
    ELSE FlattenSeq([c \in 1..Len(shape[path]) |->
                        IF shape[path][c].kind = "output"
                        THEN <<Append(path, c)>>
                        ELSE Flat(Append(path, c))])

\* Outputs come in the order of the tree, and none overtakes an input that
\* has not been unfolded, whatever the order in which the unfolds finish.
OrderKept == IsPrefix(out, Flat(<<>>))

\* When the stream ends it has yielded everything, or as much as the limit
\* allows.
EndComplete ==
    pc = "ended" =>
        \/ out = Flat(<<>>)
        \/ limit = <<0>>

\* The stream is the tree's outputs in order, all of them or up to the limit.
OutputOrdered == OrderKept /\ EndComplete

\* No more unfolds run than scheduled_max, no more are started than
\* queued_max, and an unfold is queued only when the pool is full.
StartedBound ==
    /\ Cardinality(scheduled) <= ScheduledMax
    /\ Cardinality(scheduled) + Len(schedule_queue) <= queued_max
    /\ schedule_queue # <<>> => Cardinality(scheduled) = ScheduledMax

\* However the budget has been divided, a stream without a limit makes
\* progress: if the unfolds finish and the consumer polls on, it ends.
StreamEnds == limit = <<>> => <>(pc \in {"ended", "err"})

-----------------------------------------------------------------------------

\* A comment in process_unfold() (ordered_stream.rs:773) says of nodes whose
\* weight was estimated too low that "The child will still be able to make
\* progress with a lower budget": then every stream ends, also a limited one.
EveryStreamEnds == <>(pc \in {"ended", "err"})
=============================================================================
