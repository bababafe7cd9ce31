---------------------- MODULE BoundedTraversalDagProofs ----------------------
(* Machine-checked proofs about BoundedTraversalDag.                       *)
EXTENDS BoundedTraversalDag, SequenceLemmas

-----------------------------------------------------------------------------
(* The inductive invariant.  Its parts are stated over the execution tree  *)
(* T, the set of jobs J, the history of edges E and a set L of locations   *)
(* whose value is done but which have not been told yet, so that the       *)
(* lemmas about their preservation are free of primes and hold in the      *)
(* middle of the loops as well.                                            *)

\* The slots that wait for value v.
Locs(E, v) ==
    {l \in NodeLocation :
        /\ l.node_index \in DOMAIN E
        /\ l.child_index \in 1..Len(E[l.node_index])
        /\ E[l.node_index][l.child_index] = v}

\* The children of n whose result n does not have.
Empties(T, E, L, n) ==
    {c \in 1..Len(E[n]) : ~T[E[n][c]].done \/ Location(n, c) \in L}

Slots(T, E, L, n) ==
    [c \in 1..Len(E[n]) |->
        IF c \in Empties(T, E, L, n) THEN <<>> ELSE <<E[n][c]>>]

WaitOf(T, E, L, n) ==
    IF n \in DOMAIN E /\ Empties(T, E, L, n) # {}
    THEN <<[children |-> Slots(T, E, L, n),
            children_left |-> Cardinality(Empties(T, E, L, n))]>>
    ELSE <<>>

\* Values, sequences and nodes are what they should be, and every child of
\* an unfolded value has a node.
Typed(T, E) ==
    /\ DOMAIN T \subseteq Values
    /\ IsFiniteSet(DOMAIN T)
    /\ T \in [DOMAIN T -> Node]
    /\ Root \in DOMAIN T
    /\ DOMAIN E \subseteq DOMAIN T
    /\ E \in [DOMAIN E -> Seq(Values)]
    /\ \A n \in DOMAIN E : \A c \in 1..Len(E[n]) : E[n][c] \in DOMAIN T

\* A node waits exactly while a child's result is missing, has the results
\* of the others, and is done only after it has all of them.
Shaped(T, E, L) ==
    \A n \in DOMAIN T :
        /\ T[n].wait = WaitOf(T, E, L, n)
        /\ T[n].done => n # Root /\ n \in DOMAIN E /\ Empties(T, E, L, n) = {}

\* s lists the members of S, each of them once.
Lists(s, S) == s \in Seq(NodeLocation) /\ ToSet(s) = S /\ IsInjective(s)

\* A pending value knows each slot that waits for it, once.
Registered(T, E) ==
    \A n \in DOMAIN T :
        /\ T[n].done => T[n].parents = <<>>
        /\ ~T[n].done /\ n # Root => Lists(T[n].parents, Locs(E, n))
        /\ n = Root => ToSet(T[n].parents) \subseteq
                          {RootLocation} \cup Locs(E, n)

\* The only job a value may have: its fold once it was unfolded.
JobOf(E, n) ==
    IF n \in DOMAIN E
    THEN FoldJob(n, [c \in 1..Len(E[n]) |-> <<E[n][c]>>])
    ELSE UnfoldJob(n)

Idle(T, n) == n \in DOMAIN T /\ ~T[n].done /\ T[n].wait = <<>>

\* A job is the job of a value that waits for nothing else ...
Justified(T, J, E) == \A j \in J : Idle(T, j.value) /\ j = JobOf(E, j.value)

\* ... and each of those values has its job.
Present(T, J, E) == \A n \in DOMAIN T : Idle(T, n) => JobOf(E, n) \in J

\* Every value was reached from init: any set of others is entered from
\* outside.
Reached(T, E) ==
    \A S \in SUBSET (DOMAIN T \ {Root}) :
        S # {} => \E n \in DOMAIN E \ S : ToSet(E[n]) \cap S # {}

\* The values whose children are all done.
Folded(T, E) == {n \in DOMAIN E : T[n].wait = <<>>}

\* There is no cycle among them.
Acyclic(T, E) ==
    \A S \in SUBSET Folded(T, E) :
        S # {} => \E n \in S : ToSet(E[n]) \cap S = {}

Inv(T, J, E, L) ==
    /\ Typed(T, E)
    /\ Shaped(T, E, L)
    /\ Registered(T, E)
    /\ Justified(T, J, E)

TypeInv ==
    /\ pc \in {"run", "ok", "none", "err"}
    /\ scheduled_max \in Nat \ {0}
    /\ unfold_limit \in Nat \cup {None}
    /\ unscheduled \in Seq(Job)
    /\ scheduled \in SUBSET Job
    /\ IsFiniteSet(scheduled)

\* A job is in one place only.
QueueDistinct ==
    IsInjective(unscheduled) /\ ToSet(unscheduled) \cap scheduled = {}

IInv ==
    /\ TypeInv
    /\ QueueDistinct
    /\ Inv(execution_tree, Jobs, edges, {})
    /\ Reached(execution_tree, edges)
    /\ Acyclic(execution_tree, edges)
    /\ pc \in {"run", "none"} => Present(execution_tree, Jobs, edges)
    /\ pc = "none" => Jobs = {}
    /\ pc = "ok" => Root \in Folded(execution_tree, edges)
    /\ LimitKept

-----------------------------------------------------------------------------
(* The loops.                                                              *)

\* The loop over the children of an unfold: a sequence of states, each made
\* from the one before.
LEMMA EnqueueLoop ==
    ASSUME NEW v, NEW kids \in Seq(Values)
    PROVE  \E f : /\ f[0] = Work(execution_tree, unscheduled)
                  /\ \A c \in 1..Len(kids) :
                        f[c] = EnqueueUnfold(f[c - 1], Location(v, c), kids[c])
                  /\ EnqueueChildren(v, kids) = f[Len(kids)]
<1> DEFINE base == Work(execution_tree, unscheduled)
           Step(w, c) == EnqueueUnfold(w, Location(v, c), kids[c])
           Rec(f, n) == f = [c \in 0..n |-> IF c = 0 THEN base
                                            ELSE Step(f[c - 1], c)]
           Bad == {n \in Nat : ~ \E f : Rec(f, n)}
<1>1. Bad = {}
  <2>1. SUFFICES ASSUME Bad # {} PROVE FALSE
    OBVIOUS
  <2>2. PICK n \in Bad : \A k \in Bad : n <= k
    <3> Bad \in SUBSET Nat
      OBVIOUS
    <3> HIDE DEF Bad
    <3> QED BY <2>1, SmallestNat
  <2>3. n \in Nat /\ ~ \E f : Rec(f, n)
    BY <2>2
  <2> HIDE DEF Step, base
  <2>4. CASE n = 0
    <3> DEFINE g == [c \in 0..0 |-> base]
    <3>1. Rec(g, 0)
      OBVIOUS
    <3> HIDE DEF g
    <3>2. Rec(g, n)
      BY <3>1, <2>4
    <3> QED BY <3>2, <2>3
  <2>5. CASE n # 0
    <3>1. n - 1 \in Nat /\ n - 1 \notin Bad
      <4> HIDE DEF Bad, Rec
      <4> QED BY <2>2, <2>3, <2>5
    <3>2. PICK f : Rec(f, n - 1)
      BY <3>1
    <3> DEFINE g == [c \in 0..n |-> IF c = n THEN Step(f[n - 1], n) ELSE f[c]]
    <3>3. \A c \in 0..n : g[c] = IF c = 0 THEN base ELSE Step(g[c - 1], c)
      BY <3>2, <2>3, <2>5
    <3>4. Rec(g, n)
      BY <3>3
    <3> QED BY <3>4, <2>3
  <2> QED BY <2>4, <2>5
<1>2. Len(kids) \in Nat
  OBVIOUS
<1>3. \E f : Rec(f, Len(kids))
  BY <1>1, <1>2
<1> DEFINE g == CHOOSE f : Rec(f, Len(kids))
<1>4. Rec(g, Len(kids))
  BY <1>3
<1>5. EnqueueChildren(v, kids) = g[Len(kids)]
  BY DEF EnqueueChildren
<1> HIDE DEF g
<1>6. g[0] = base
  BY <1>4, <1>2
<1>7. \A c \in 1..Len(kids) : g[c] = Step(g[c - 1], c)
  <2> HIDE DEF Step, base
  <2> QED BY <1>4, <1>2
<1> QED BY <1>5, <1>6, <1>7

\* The loop over the parents of a folded value.
LEMMA FoldLoop ==
    ASSUME NEW v, NEW locs \in Seq(NodeLocation),
           execution_tree[v].parents = locs
    PROVE  \E f : /\ f[0] = Work([execution_tree EXCEPT ![v] = DoneNode],
                                 unscheduled)
                  /\ \A i \in 1..Len(locs) :
                        f[i] = UpdateLocation(f[i - 1], locs[i], v)
                  /\ ProcessFold(v) = f[Len(locs)]
<1> DEFINE base == Work([execution_tree EXCEPT ![v] = DoneNode], unscheduled)
           Step(w, i) == UpdateLocation(w, locs[i], v)
           Rec(f, n) == f = [i \in 0..n |-> IF i = 0 THEN base
                                            ELSE Step(f[i - 1], i)]
           Bad == {n \in Nat : ~ \E f : Rec(f, n)}
<1>1. Bad = {}
  <2>1. SUFFICES ASSUME Bad # {} PROVE FALSE
    OBVIOUS
  <2>2. PICK n \in Bad : \A k \in Bad : n <= k
    <3> Bad \in SUBSET Nat
      OBVIOUS
    <3> HIDE DEF Bad
    <3> QED BY <2>1, SmallestNat
  <2>3. n \in Nat /\ ~ \E f : Rec(f, n)
    BY <2>2
  <2> HIDE DEF Step, base
  <2>4. CASE n = 0
    <3> DEFINE g == [i \in 0..0 |-> base]
    <3>1. Rec(g, 0)
      OBVIOUS
    <3> HIDE DEF g
    <3>2. Rec(g, n)
      BY <3>1, <2>4
    <3> QED BY <3>2, <2>3
  <2>5. CASE n # 0
    <3>1. n - 1 \in Nat /\ n - 1 \notin Bad
      <4> HIDE DEF Bad, Rec
      <4> QED BY <2>2, <2>3, <2>5
    <3>2. PICK f : Rec(f, n - 1)
      BY <3>1
    <3> DEFINE g == [i \in 0..n |-> IF i = n THEN Step(f[n - 1], n) ELSE f[i]]
    <3>3. \A i \in 0..n : g[i] = IF i = 0 THEN base ELSE Step(g[i - 1], i)
      BY <3>2, <2>3, <2>5
    <3>4. Rec(g, n)
      BY <3>3
    <3> QED BY <3>4, <2>3
  <2> QED BY <2>4, <2>5
<1>2. Len(locs) \in Nat
  OBVIOUS
<1>3. \E f : Rec(f, Len(locs))
  BY <1>1, <1>2
<1> DEFINE g == CHOOSE f : Rec(f, Len(locs))
<1>4. Rec(g, Len(locs))
  BY <1>3
<1>5. ProcessFold(v) = g[Len(locs)]
  BY DEF ProcessFold
<1> HIDE DEF g
<1>6. g[0] = base
  BY <1>4, <1>2
<1>7. \A i \in 1..Len(locs) : g[i] = Step(g[i - 1], i)
  <2> HIDE DEF Step, base
  <2> QED BY <1>4, <1>2
<1> QED BY <1>5, <1>6, <1>7

-----------------------------------------------------------------------------
(* Lemmas about the parts of the invariant.                                *)

LEMMA LocationParts ==
    ASSUME NEW l \in NodeLocation
    PROVE  /\ l.node_index \in Values /\ l.child_index \in Nat
           /\ l = Location(l.node_index, l.child_index)
BY DEF NodeLocation, Location

LEMMA LocationIsOne ==
    ASSUME NEW n, NEW c, NEW m, NEW d, Location(n, c) = Location(m, d)
    PROVE  n = m /\ c = d
<1>1. /\ Location(n, c).node_index = n /\ Location(n, c).child_index = c
      /\ Location(m, d).node_index = m /\ Location(m, d).child_index = d
  BY DEF Location
<1> QED BY <1>1

LEMMA KidsTyped ==
    ASSUME NEW T, NEW E, NEW n \in DOMAIN E, Typed(T, E)
    PROVE  /\ E[n] \in Seq(Values)
           /\ Len(E[n]) \in Nat
           /\ \A c \in 1..Len(E[n]) : E[n][c] \in Values /\ E[n][c] \in DOMAIN T
<1>1. E[n] \in Seq(Values)
  BY DEF Typed
<1> QED BY <1>1 DEF Typed

\* The slots of a node are as many as its children, and those that are empty
\* can be counted.
LEMMA SlotsTyped ==
    ASSUME NEW T, NEW E, NEW L, NEW n, E[n] \in Seq(Values)
    PROVE  /\ Slots(T, E, L, n) \in Seq(Seq(Values))
           /\ Empties(T, E, L, n) \subseteq 1..Len(E[n])
           /\ IsFiniteSet(Empties(T, E, L, n))
           /\ Cardinality(Empties(T, E, L, n)) \in Nat
           /\ WaitOf(T, E, L, n) \in Seq(Children)
<1>2. Len(E[n]) \in Nat /\ \A c \in 1..Len(E[n]) : E[n][c] \in Values
  OBVIOUS
<1>3. Slots(T, E, L, n) \in Seq(Seq(Values))
  <2>1. \A c \in 1..Len(E[n]) :
           Slots(T, E, L, n)[c] \in Seq(Values)
    BY <1>2 DEF Slots
  <2>2. Slots(T, E, L, n) \in [1..Len(E[n]) -> Seq(Values)]
    BY <2>1 DEF Slots
  <2> QED BY <1>2, <2>2
<1>4. Empties(T, E, L, n) \subseteq 1..Len(E[n])
  BY DEF Empties
<1>5. IsFiniteSet(1..Len(E[n]))
  BY <1>2, FS_Interval
<1>6. /\ IsFiniteSet(Empties(T, E, L, n))
      /\ Cardinality(Empties(T, E, L, n)) \in Nat
  BY <1>4, <1>5, FS_Subset, FS_CardinalityType
<1>7. WaitOf(T, E, L, n) \in Seq(Children)
  <2> DEFINE r == [children |-> Slots(T, E, L, n),
                   children_left |-> Cardinality(Empties(T, E, L, n))]
  <2>1. r \in Children
    BY <1>3, <1>6 DEF Children
  <2>2. WaitOf(T, E, L, n) = <<r>> \/ WaitOf(T, E, L, n) = <<>>
    BY DEF WaitOf
  <2> HIDE DEF r
  <2>3. <<r>> \in Seq(Children)
    BY <2>1
  <2>4. \A x : x = <<r>> => x \in Seq(Children)
    BY <2>3
  <2>5. \A x : x = <<>> => x \in Seq(Children)
    OBVIOUS
  <2> QED BY <2>2, <2>4, <2>5
<1> QED BY <1>3, <1>4, <1>6, <1>7

LEMMA SetWaitWork ==
    ASSUME NEW T, NEW q, NEW n \in DOMAIN T, T[n] \in Node, NEW x
    PROVE  SetWait(Work(T, q), n, x) =
             Work([T EXCEPT ![n] = [T[n] EXCEPT !.wait = x]], q)
BY DEF SetWait, Work, Node

\* A new job at the front of the queue.
LEMMA PushFront ==
    ASSUME NEW q \in Seq(Job), NEW j \in Job
    PROVE  /\ <<j>> \o q \in Seq(Job)
           /\ ToSet(<<j>> \o q) = ToSet(q) \cup {j}
           /\ IsInjective(q) /\ j \notin ToSet(q) => IsInjective(<<j>> \o q)
<1>1. /\ <<j>> \in Seq(Job) /\ ToSet(<<j>>) = {j} /\ IsInjective(<<j>>)
  BY DEF ToSet, IsInjective
<1>2. ToSet(<<j>> \o q) = ToSet(<<j>>) \cup ToSet(q)
  BY <1>1, ConcatToSet
<1>3. ASSUME IsInjective(q), j \notin ToSet(q)
      PROVE  IsInjective(<<j>> \o q)
  <2>1. ToSet(<<j>>) \cap ToSet(q) = {}
    BY <1>1, <1>3
  <2> QED BY <1>1, <1>3, <2>1, ConcatInjective
<1> QED BY <1>1, <1>2, <1>3

\* Nothing about a set of values can go round in circles when the values that
\* were settled before did not, and the new ones only lead to them.
LEMMA AcyclicStep ==
    ASSUME NEW T, NEW E, NEW T2, NEW E2,
           Acyclic(T, E),
           \A n \in Folded(T, E) : n \in Folded(T2, E2) => E2[n] = E[n],
           \A n \in Folded(T2, E2) : ToSet(E2[n]) \cap Folded(T2, E2)
                                        \subseteq Folded(T, E)
    PROVE  Acyclic(T2, E2)
<1> SUFFICES ASSUME NEW S \in SUBSET Folded(T2, E2), S # {},
                    \A n \in S : ToSet(E2[n]) \cap S # {}
             PROVE  FALSE
  BY DEF Acyclic
<1> DEFINE R == S \cap Folded(T, E)
<1>1. \A n \in S : ToSet(E2[n]) \cap R # {}
  OBVIOUS
<1>2. R # {}
  BY <1>1
<1>3. \A n \in R : ToSet(E[n]) \cap R # {}
  BY <1>1
<1>4. R \in SUBSET Folded(T, E)
  OBVIOUS
<1> HIDE DEF R
<1> QED BY <1>2, <1>3, <1>4 DEF Acyclic

-----------------------------------------------------------------------------
(* Telling one parent.                                                     *)

\* The queue q and the pool R in the middle of a step: typed, without
\* repetition, and each of their jobs is justified.
Queued(T, E, q, R) ==
    /\ q \in Seq(Job)
    /\ IsInjective(q)
    /\ ToSet(q) \cap R = {}
    /\ Justified(T, ToSet(q) \cup R, E)

\* In the middle of process_fold(v): the locations in L are still to be told.
Telling(w, E, R, L) ==
    /\ w = Work(w.tree, w.jobs)
    /\ Typed(w.tree, E)
    /\ Shaped(w.tree, E, L)
    /\ Registered(w.tree, E)
    /\ Queued(w.tree, E, w.jobs, R)

\* update_location for one of them.
LEMMA TellOne ==
    ASSUME NEW w, NEW E, NEW R, NEW L, NEW v, NEW l \in L,
           L \subseteq Locs(E, v), Telling(w, E, R, L),
           v \in DOMAIN w.tree, w.tree[v].done
    PROVE  LET u == UpdateLocation(w, l, v)
           IN  /\ Telling(u, E, R, L \ {l})
               /\ DOMAIN u.tree = DOMAIN w.tree
               /\ \A m \in DOMAIN w.tree : u.tree[m].done = w.tree[m].done
               /\ Present(w.tree, ToSet(w.jobs) \cup R, E) =>
                     Present(u.tree, ToSet(u.jobs) \cup R, E)
<1> DEFINE T == w.tree
           q == w.jobs
           n == l.node_index
           c == l.child_index
           M == L \ {l}
           u == UpdateLocation(w, l, v)
           Rest == Empties(T, E, L, n) \ {c}
           new == [children |-> [Slots(T, E, L, n) EXCEPT ![c] = <<v>>],
                   children_left |-> Cardinality(Empties(T, E, L, n)) - 1]
           After(x) == [T EXCEPT ![n] = [T[n] EXCEPT !.wait = x]]
<1>1. /\ Typed(T, E) /\ Shaped(T, E, L) /\ Registered(T, E)
      /\ Queued(T, E, q, R) /\ w = Work(T, q)
  BY DEF Telling
<1>2. /\ l \in NodeLocation /\ n \in DOMAIN E /\ c \in 1..Len(E[n])
      /\ E[n][c] = v /\ l = Location(n, c)
  BY LocationParts DEF Locs
<1>3. n \in DOMAIN T /\ T[n] \in Node /\ n \in Values /\ v \in Values
  BY <1>1, <1>2 DEF Typed
<1>4. c \in Empties(T, E, L, n)
  BY <1>2 DEF Empties
<1>5. /\ T[n].wait = <<[children |-> Slots(T, E, L, n),
                        children_left |-> Cardinality(Empties(T, E, L, n))]>>
      /\ ~T[n].done
  BY <1>1, <1>2, <1>3, <1>4 DEF Shaped, WaitOf
<1>6. /\ T[n].wait[1].children = Slots(T, E, L, n)
      /\ T[n].wait[1].children_left = Cardinality(Empties(T, E, L, n))
  BY <1>5
<1>7. u = IF new.children_left = 0
          THEN Work(After(<<>>), <<FoldJob(n, new.children)>> \o q)
          ELSE Work(After(<<new>>), q)
  <2>1. w.tree = T /\ w.jobs = q
    OBVIOUS
  <2>2. \A x : SetWait(w, n, x) = Work(After(x), q)
    BY <1>1, <1>3, SetWaitWork
  <2>3. \A x, a : EnqueueFold(Work(After(x), q), n, a) =
                     Work(After(x), <<FoldJob(n, a)>> \o q)
    BY DEF EnqueueFold, Work
  <2> DEFINE old == w.tree[n].wait[1]
             upd == [children |-> [old.children EXCEPT ![c] = <<v>>],
                     children_left |-> old.children_left - 1]
  <2>4. u = IF upd.children_left = 0
            THEN EnqueueFold(SetWait(w, n, <<>>), n, upd.children)
            ELSE SetWait(w, n, <<upd>>)
    BY DEF UpdateLocation
  <2>5. upd = new
    BY <1>6
  <2> HIDE DEF upd, new, After, u, T, q, n
  <2> QED BY <2>2, <2>3, <2>4, <2>5
<1>8. ASSUME NEW T2, DOMAIN T2 = DOMAIN T,
             \A m \in DOMAIN T : T2[m].done = T[m].done,
             NEW m \in DOMAIN E
      PROVE  /\ Empties(T2, E, M, m) = IF m = n THEN Rest
                                       ELSE Empties(T, E, L, m)
             /\ Slots(T2, E, M, m) = IF m = n THEN new.children
                                     ELSE Slots(T, E, L, m)
  <2>1. \A d \in 1..Len(E[m]) : E[m][d] \in DOMAIN T
    BY <1>1 DEF Typed
  <2>2. \A d : Location(m, d) \in M <=> /\ Location(m, d) \in L
                                        /\ ~(m = n /\ d = c)
    BY <1>2, LocationIsOne
  <2>3. Empties(T2, E, M, m) = IF m = n THEN Rest ELSE Empties(T, E, L, m)
    <3>1. \A d \in 1..Len(E[m]) : T2[E[m][d]].done = T[E[m][d]].done
      BY <2>1, <1>8
    <3>2. \A d : d \in Empties(T2, E, M, m) <=>
                    /\ d \in Empties(T, E, L, m)
                    /\ ~(m = n /\ d = c)
      <4> HIDE DEF T, n, c, M
      <4> QED BY <2>2, <3>1, <1>2 DEF Empties, T
    <3> HIDE DEF T, n, c, M
    <3> QED BY <3>2 DEF Rest
  <2>4. Slots(T2, E, M, m) = IF m = n THEN new.children
                             ELSE Slots(T, E, L, m)
    <3>1. CASE m # n
      BY <2>3, <3>1 DEF Slots
    <3>2. CASE m = n
      <4>1. new.children = [d \in 1..Len(E[n]) |->
                              IF d = c THEN <<v>> ELSE Slots(T, E, L, n)[d]]
        <5> HIDE DEF T, n, c
        <5> QED BY <1>2 DEF Slots, new
      <4>2. \A d \in 1..Len(E[n]) : Slots(T2, E, M, n)[d] =
               IF d = c THEN <<v>> ELSE Slots(T, E, L, n)[d]
        <5> HIDE DEF T, n, c, M
        <5> QED BY <2>3, <3>2, <1>2 DEF Slots, Rest
      <4>3. DOMAIN Slots(T2, E, M, n) = 1..Len(E[n])
        BY DEF Slots
      <4>4. Slots(T2, E, M, n) =
              [d \in 1..Len(E[n]) |-> Slots(T2, E, M, n)[d]]
        BY <4>3 DEF Slots
      <4> HIDE DEF T, n, c, M, new
      <4> QED BY <4>1, <4>2, <4>4, <3>2
    <3> QED BY <3>1, <3>2
  <2> QED BY <2>3, <2>4
<1>9. /\ Cardinality(Rest) = new.children_left
      /\ Rest = {} <=> new.children_left = 0
  <2>1. IsFiniteSet(Empties(T, E, L, n))
    BY <1>1, <1>2, KidsTyped, SlotsTyped
  <2>2. /\ IsFiniteSet(Rest)
        /\ Cardinality(Rest) = Cardinality(Empties(T, E, L, n)) - 1
    <3> DEFINE X == Empties(T, E, L, n)
    <3>1. c \in X /\ IsFiniteSet(X)
      BY <1>4, <2>1
    <3> HIDE DEF X, c
    <3>2. IsFiniteSet(X \ {c}) /\ Cardinality(X \ {c}) = Cardinality(X) - 1
      BY <3>1, FS_RemoveElement
    <3> QED BY <3>2 DEF X
  <2> HIDE DEF Rest
  <2> QED BY <2>2, FS_EmptySet
<1>10. Rest = {} => FoldJob(n, new.children) = JobOf(E, n)
  <2> SUFFICES ASSUME Rest = {} PROVE FoldJob(n, new.children) = JobOf(E, n)
    OBVIOUS
  <2>1. Slots(T, E, M, n) = new.children
    BY <1>2, <1>8
  <2>2. Empties(T, E, M, n) = {}
    BY <1>2, <1>8
  <2>3. Slots(T, E, M, n) = [d \in 1..Len(E[n]) |-> <<E[n][d]>>]
    BY <2>2 DEF Slots
  <2> QED BY <1>2, <2>1, <2>3 DEF JobOf
<1> DEFINE x == IF Rest = {} THEN <<>> ELSE <<new>>
           T2 == After(x)
           p == IF Rest = {} THEN <<JobOf(E, n)>> \o q ELSE q
<1>11. u = Work(T2, p) /\ u.tree = T2 /\ u.jobs = p
  <2>1. u = Work(T2, p)
    <3> HIDE DEF Rest, new, After, u
    <3> QED BY <1>7, <1>9, <1>10
  <2> HIDE DEF u, T2, p
  <2> QED BY <2>1 DEF Work
<1>12. /\ DOMAIN T2 = DOMAIN T
       /\ T2[n].done = T[n].done /\ T2[n].parents = T[n].parents
       /\ T2[n].wait = x
       /\ T2[n] = [done |-> T[n].done, parents |-> T[n].parents, wait |-> x]
       /\ \A m \in DOMAIN T : m # n => T2[m] = T[m]
  <2> HIDE DEF x
  <2> QED BY <1>3 DEF Node
<1>13. /\ \A m \in DOMAIN T : T2[m].done = T[m].done
       /\ \A m \in DOMAIN T : T2[m].parents = T[m].parents
  <2> HIDE DEF T2, x
  <2> QED BY <1>12
<1> HIDE DEF u, T2, p
<1>14. \A m \in DOMAIN T : T2[m].wait = WaitOf(T2, E, M, m)
  <2> TAKE m \in DOMAIN T
  <2>1. CASE m \notin DOMAIN E
    BY <2>1, <1>2, <1>12, <1>1 DEF Shaped, WaitOf
  <2>2. CASE m \in DOMAIN E /\ m # n
    <3>1. /\ Empties(T2, E, M, m) = Empties(T, E, L, m)
          /\ Slots(T2, E, M, m) = Slots(T, E, L, m)
      BY <2>2, <1>8, <1>12, <1>13
    <3>2. T2[m].wait = WaitOf(T, E, L, m)
      BY <2>2, <1>1, <1>12 DEF Shaped
    <3> QED BY <3>1, <3>2 DEF WaitOf
  <2>3. CASE m = n
    <3>1. Empties(T2, E, M, n) = Rest /\ Slots(T2, E, M, n) = new.children
      BY <1>2, <1>8, <1>12, <1>13
    <3>2. new = [children |-> new.children, children_left |-> new.children_left]
      OBVIOUS
    <3> HIDE DEF Rest, new
    <3> QED BY <2>3, <3>1, <3>2, <1>2, <1>9, <1>12 DEF WaitOf
  <2> QED BY <2>1, <2>2, <2>3
<1>15. Typed(T2, E)
  <2>1. x \in Seq(Children)
    <3>1. WaitOf(T2, E, M, n) \in Seq(Children)
      BY <1>1, <1>2, KidsTyped, SlotsTyped
    <3> QED BY <3>1, <1>3, <1>12, <1>14
  <2>2. T2[n] \in Node
    <3> HIDE DEF x
    <3> QED BY <2>1, <1>3, <1>12 DEF Node
  <2>3. \A m \in DOMAIN T : T2[m] \in Node
    BY <2>2, <1>1, <1>12 DEF Typed
  <2>4. T2 = [m \in DOMAIN T |-> T2[m]]
    BY DEF T2
  <2>5. T2 \in [DOMAIN T2 -> Node]
    BY <2>3, <2>4, <1>12
  <2> QED BY <1>1, <1>12, <2>5 DEF Typed
<1>16. Shaped(T2, E, M)
  <2> SUFFICES ASSUME NEW m \in DOMAIN T, T2[m].done
               PROVE  m # Root /\ m \in DOMAIN E /\ Empties(T2, E, M, m) = {}
    BY <1>12, <1>14 DEF Shaped
  <2>1. m # Root /\ m \in DOMAIN E /\ Empties(T, E, L, m) = {}
    BY <1>1, <1>13 DEF Shaped
  <2>2. Empties(T2, E, M, m) \subseteq Empties(T, E, L, m)
    BY <2>1, <1>8, <1>12, <1>13
  <2> QED BY <2>1, <2>2
<1>17. Registered(T2, E)
  BY <1>1, <1>12, <1>13 DEF Registered
<1>18. /\ ~Idle(T, n)
       /\ Rest = {} => Idle(T2, n)
       /\ Rest # {} => ~Idle(T2, n)
       /\ \A m \in DOMAIN T : m # n => Idle(T2, m) = Idle(T, m)
  <2>1. T[n].wait # <<>> /\ <<new>> # <<>>
    <3> HIDE DEF new
    <3> QED BY <1>5
  <2> HIDE DEF new, Rest
  <2> QED BY <2>1, <1>3, <1>5, <1>12 DEF Idle
<1>19. JobOf(E, n) \in Job /\ JobOf(E, n).value = n
  <2>1. Len(E[n]) \in Nat /\ \A d \in 1..Len(E[n]) : E[n][d] \in Values
    BY <1>1, <1>2, KidsTyped
  <2>2. [d \in 1..Len(E[n]) |-> <<E[n][d]>>] \in Seq(Seq(Values))
    BY <2>1
  <2> QED BY <2>2, <1>2, <1>3 DEF JobOf, FoldJob, Job
<1>20. JobOf(E, n) \notin ToSet(q) \cup R
  BY <1>1, <1>18, <1>19 DEF Queued, Justified
<1>21. /\ p \in Seq(Job) /\ IsInjective(p) /\ ToSet(p) \cap R = {}
       /\ ToSet(p) = IF Rest = {} THEN ToSet(q) \cup {JobOf(E, n)}
                     ELSE ToSet(q)
  <2> HIDE DEF Rest
  <2>1. q \in Seq(Job) /\ IsInjective(q) /\ ToSet(q) \cap R = {}
    BY <1>1 DEF Queued
  <2> HIDE DEF q, n
  <2> QED BY <2>1, <1>19, <1>20, PushFront DEF p
<1>22. Justified(T2, ToSet(p) \cup R, E)
  <2> SUFFICES ASSUME NEW j \in ToSet(p) \cup R
               PROVE  Idle(T2, j.value) /\ j = JobOf(E, j.value)
    BY DEF Justified
  <2>1. CASE j \in ToSet(q) \cup R
    <3>1. Idle(T, j.value) /\ j = JobOf(E, j.value)
      BY <2>1, <1>1 DEF Queued, Justified
    <3>2. j.value \in DOMAIN T /\ j.value # n
      BY <3>1, <1>18 DEF Idle
    <3> QED BY <3>1, <3>2, <1>18
  <2>2. CASE j \notin ToSet(q) \cup R
    <3>1. Rest = {} /\ j = JobOf(E, n)
      BY <2>2, <1>21
    <3> QED BY <3>1, <1>18, <1>19
  <2> QED BY <2>1, <2>2
<1>23. ASSUME Present(T, ToSet(q) \cup R, E)
       PROVE  Present(T2, ToSet(p) \cup R, E)
  <2> SUFFICES ASSUME NEW m \in DOMAIN T, Idle(T2, m)
               PROVE  JobOf(E, m) \in ToSet(p) \cup R
    BY <1>12 DEF Present
  <2>1. CASE m = n
    BY <2>1, <1>18, <1>21
  <2>2. CASE m # n
    <3>1. JobOf(E, m) \in ToSet(q) \cup R
      BY <2>2, <1>18, <1>23 DEF Present
    <3> QED BY <3>1, <1>21
  <2> QED BY <2>1, <2>2
<1>24. Telling(u, E, R, M)
  BY <1>11, <1>15, <1>16, <1>17, <1>21, <1>22 DEF Telling, Queued
<1> QED BY <1>11, <1>12, <1>13, <1>23, <1>24 DEF u

\* All of process_fold(v): v is done, its parents have its result, and those
\* that have all results are to be folded.
LEMMA TellAll ==
    ASSUME NEW v \in DOMAIN edges, NEW R,
           Typed(execution_tree, edges), Shaped(execution_tree, edges, {}),
           Registered(execution_tree, edges),
           Queued(execution_tree, edges, unscheduled, R),
           Idle(execution_tree, v), v # Root,
           \A j \in ToSet(unscheduled) \cup R : j.value # v
    PROVE  LET w == ProcessFold(v)
           IN  /\ Telling(w, edges, R, {})
               /\ DOMAIN w.tree = DOMAIN execution_tree
               /\ \A m \in DOMAIN execution_tree :
                     w.tree[m].done = (m = v \/ execution_tree[m].done)
               /\ (\A m \in DOMAIN execution_tree :
                     Idle(execution_tree, m) /\ m # v =>
                        JobOf(edges, m) \in ToSet(unscheduled) \cup R) =>
                     Present(w.tree, ToSet(w.jobs) \cup R, edges)
<1> DEFINE T == execution_tree
           q == unscheduled
           E == edges
           locs == T[v].parents
           N == Len(locs)
           T0 == [T EXCEPT ![v] = DoneNode]
           Before == \A m \in DOMAIN T : Idle(T, m) /\ m # v =>
                        JobOf(E, m) \in ToSet(q) \cup R
           Left(i) == {locs[k] : k \in (i + 1)..N}
           P(w, i) == /\ Telling(w, E, R, Left(i))
                      /\ DOMAIN w.tree = DOMAIN T
                      /\ \A m \in DOMAIN T :
                            w.tree[m].done = (m = v \/ T[m].done)
                      /\ Before => Present(w.tree, ToSet(w.jobs) \cup R, E)
<1>1. v \in DOMAIN T /\ ~T[v].done /\ T[v].wait = <<>> /\ T[v] \in Node
  BY DEF Idle, Typed
<1>2. Lists(locs, Locs(E, v))
  BY <1>1 DEF Registered
<1>3. /\ locs \in Seq(NodeLocation) /\ N \in Nat /\ DOMAIN locs = 1..N
      /\ Locs(E, v) = {locs[k] : k \in 1..N}
      /\ \A i, k \in 1..N : locs[i] = locs[k] => i = k
  BY <1>2 DEF Lists, ToSet, IsInjective
<1>4. PICK f : /\ f[0] = Work(T0, q)
               /\ \A i \in 1..N : f[i] = UpdateLocation(f[i - 1], locs[i], v)
               /\ ProcessFold(v) = f[N]
  BY <1>3, FoldLoop
<1>5. /\ DOMAIN T0 = DOMAIN T
      /\ T0[v] = DoneNode
      /\ \A m \in DOMAIN T : m # v => T0[m] = T[m]
      /\ \A m \in DOMAIN T : T0[m].done = (m = v \/ T[m].done)
  <2>1. \A m \in DOMAIN T : T[m].done \in BOOLEAN
    BY DEF Typed, Node
  <2> QED BY <1>1, <2>1 DEF DoneNode
<1> DEFINE A == Locs(E, v)
<1>6. ASSUME NEW n \in DOMAIN E
      PROVE  Empties(T0, E, A, n) = Empties(T, E, {}, n)
  <2>1. /\ n \in Values
        /\ \A d \in 1..Len(E[n]) : E[n][d] \in DOMAIN T /\ d \in Nat
    BY KidsTyped DEF Typed
  <2>2. ASSUME NEW d \in 1..Len(E[n])
        PROVE  Location(n, d) \in A <=> E[n][d] = v
    <3>1. Location(n, d) \in NodeLocation
      BY <2>1 DEF Location, NodeLocation
    <3>2. Location(n, d).node_index = n /\ Location(n, d).child_index = d
      BY DEF Location
    <3> HIDE DEF E
    <3> QED BY <3>1, <3>2, <2>2 DEF Locs, E
  <2>3. \A d \in 1..Len(E[n]) :
           (~T0[E[n][d]].done \/ Location(n, d) \in A) <=> ~T[E[n][d]].done
    <3> HIDE DEF T, E, T0, A
    <3> QED BY <2>1, <2>2, <1>1, <1>5
  <2> HIDE DEF T0, A
  <2> QED BY <2>3 DEF Empties
<1>7. \A n : WaitOf(T0, E, A, n) = WaitOf(T, E, {}, n)
  <2> TAKE n
  <2>1. CASE n \notin DOMAIN E
    BY <2>1 DEF WaitOf
  <2>2. CASE n \in DOMAIN E
    <3>1. Empties(T0, E, A, n) = Empties(T, E, {}, n)
      BY <2>2, <1>6
    <3>2. Slots(T0, E, A, n) = Slots(T, E, {}, n)
      BY <3>1 DEF Slots
    <3> QED BY <3>1, <3>2 DEF WaitOf
  <2> QED BY <2>1, <2>2
<1>8. Telling(Work(T0, q), E, R, A)
  <2>1. Work(T0, q).tree = T0 /\ Work(T0, q).jobs = q
    BY DEF Work
  <2>2. DoneNode \in Node
    BY DEF DoneNode, Node
  <2>3. Typed(T0, E)
    <3>1. \A m \in DOMAIN T : T0[m] \in Node
      BY <2>2, <1>5 DEF Typed
    <3>2. T0 \in [DOMAIN T0 -> Node]
      BY <3>1, <1>5
    <3> HIDE DEF T0
    <3> QED BY <3>2, <1>5 DEF Typed
  <2> HIDE DEF T0, A
  <2>4. Shaped(T0, E, A)
    <3> SUFFICES ASSUME NEW m \in DOMAIN T
                 PROVE  /\ T0[m].wait = WaitOf(T0, E, A, m)
                        /\ T0[m].done => /\ m # Root /\ m \in DOMAIN E
                                         /\ Empties(T0, E, A, m) = {}
      BY <1>5 DEF Shaped
    <3>1. T0[m].wait = T[m].wait
      BY <1>1, <1>5 DEF DoneNode
    <3>2. T[m].wait = WaitOf(T, E, {}, m)
      BY DEF Shaped
    <3>3. m = v => Empties(T, E, {}, m) = {}
      BY <3>2, <1>1 DEF WaitOf
    <3>4. T[m].done => /\ m # Root /\ m \in DOMAIN E
                       /\ Empties(T, E, {}, m) = {}
      BY DEF Shaped
    <3> QED BY <3>1, <3>2, <3>3, <3>4, <1>5, <1>6, <1>7
  <2>5. Registered(T0, E)
    BY <1>1, <1>5 DEF Registered, DoneNode
  <2>6. Justified(T0, ToSet(q) \cup R, E)
    BY <1>5 DEF Queued, Justified, Idle
  <2> QED BY <2>1, <2>3, <2>4, <2>5, <2>6 DEF Telling, Queued
<1>9. P(f[0], 0)
  <2>1. Left(0) = A
    BY <1>3
  <2>2. f[0].tree = T0 /\ f[0].jobs = q
    BY <1>4 DEF Work
  <2>3. Before => Present(T0, ToSet(q) \cup R, E)
    BY <1>5 DEF Present, Idle
  <2> HIDE DEF T0, A, Left, Before
  <2> QED BY <2>1, <2>2, <2>3, <1>4, <1>5, <1>8
<1>10. ASSUME NEW i \in 0..(N - 1), P(f[i], i)
       PROVE  P(f[i + 1], i + 1)
  <2> DEFINE l == locs[i + 1]
             w == f[i]
             u == UpdateLocation(w, l, v)
  <2>1. i + 1 \in 1..N /\ (i + 1) - 1 = i
    BY <1>3
  <2>2. f[i + 1] = u
    BY <2>1, <1>4
  <2>3. l \in Left(i) /\ Left(i) \subseteq A
    BY <2>1, <1>3
  <2>4. Left(i) \ {l} = Left(i + 1)
    BY <2>1, <1>3
  <2>5. w.tree[v].done /\ v \in DOMAIN w.tree
    BY <1>1, <1>10
  <2>6. /\ Telling(u, E, R, Left(i) \ {l})
        /\ DOMAIN u.tree = DOMAIN w.tree
        /\ \A m \in DOMAIN w.tree : u.tree[m].done = w.tree[m].done
        /\ Present(w.tree, ToSet(w.jobs) \cup R, E) =>
              Present(u.tree, ToSet(u.jobs) \cup R, E)
    <3>1. Telling(w, E, R, Left(i))
      BY <1>10
    <3> HIDE DEF w, l, Left, E, A
    <3> QED BY <3>1, <2>3, <2>5, TellOne DEF A
  <2> HIDE DEF u, Left, Before, l
  <2> QED BY <2>2, <2>4, <2>6, <1>10
<1> HIDE DEF P
<1>11. P(f[N], N)
  <2> DEFINE Bad == {i \in 0..N : ~P(f[i], i)}
  <2>1. SUFFICES ASSUME Bad # {} PROVE FALSE
    BY <1>3
  <2>2. PICK i \in Bad : \A k \in Bad : i <= k
    <3> Bad \in SUBSET Nat
      BY <1>3
    <3> HIDE DEF Bad
    <3> QED BY <2>1, SmallestNat
  <2>3. i \in 0..N /\ ~P(f[i], i)
    BY <2>2
  <2>4. i # 0
    BY <2>3, <1>9
  <2>5. i - 1 \in 0..(N - 1) /\ (i - 1) + 1 = i /\ i - 1 \in 0..N
    BY <2>3, <2>4, <1>3
  <2>6. i - 1 \notin Bad
    <3> HIDE DEF Bad
    <3> QED BY <2>2, <2>5, <2>3
  <2>7. P(f[i - 1], i - 1)
    BY <2>5, <2>6
  <2>8. P(f[(i - 1) + 1], (i - 1) + 1)
    BY <2>5, <2>7, <1>10
  <2> QED BY <2>3, <2>5, <2>8
<1>12. Left(N) = {}
  BY <1>3
<1> HIDE DEF Left
<1> QED BY <1>4, <1>11, <1>12 DEF P

-----------------------------------------------------------------------------
(* Enqueueing the children of v.                                           *)

\* The slots that wait for x once the first i children are enqueued.
NewLocs(E, v, kids, i, x) ==
    Locs(E, x) \cup {Location(v, k) : k \in {k \in 1..i : kids[k] = x}}

\* The state after the first i children, made from the tree T and the queue q.
Enqueued(T, q, E, R, v, kids, i, w) ==
    /\ w = Work(w.tree, w.jobs)
    /\ DOMAIN w.tree = DOMAIN T \cup {kids[k] : k \in 1..i}
    /\ w.tree \in [DOMAIN w.tree -> Node]
    /\ \A x \in DOMAIN T : /\ w.tree[x].done = T[x].done
                           /\ w.tree[x].wait = T[x].wait
    /\ \A x \in DOMAIN w.tree \ DOMAIN T : /\ w.tree[x].done = FALSE
                                           /\ w.tree[x].wait = <<>>
    /\ \A x \in DOMAIN w.tree :
          /\ w.tree[x].done => w.tree[x].parents = <<>>
          /\ ~w.tree[x].done /\ x # Root =>
                Lists(w.tree[x].parents, NewLocs(E, v, kids, i, x))
          /\ x = Root => ToSet(w.tree[x].parents) \subseteq
                            {RootLocation} \cup NewLocs(E, v, kids, i, x)
    /\ w.jobs \in Seq(Job)
    /\ IsInjective(w.jobs)
    /\ ToSet(w.jobs) \cap R = {}
    /\ ToSet(w.jobs) =
          ToSet(q) \cup {UnfoldJob(x) : x \in DOMAIN w.tree \ DOMAIN T}

\* enqueue_unfold for the next child.
LEMMA EnqueueOne ==
    ASSUME NEW T, NEW q, NEW E, NEW R, NEW v \in DOMAIN T \ DOMAIN E,
           NEW kids \in Seq(Values), NEW i \in 0..(Len(kids) - 1), NEW w,
           Typed(T, E), Shaped(T, E, {}),
           Enqueued(T, q, E, R, v, kids, i, w),
           \A j \in ToSet(q) \cup R : j.value \in DOMAIN T
    PROVE  Enqueued(T, q, E, R, v, kids, i + 1,
                    EnqueueUnfold(w, Location(v, i + 1), kids[i + 1]))
<1> DEFINE y == kids[i + 1]
           l == Location(v, i + 1)
           u == EnqueueUnfold(w, l, y)
           S == w.tree
           p == w.jobs
           Old(x) == NewLocs(E, v, kids, i, x)
           New(x) == NewLocs(E, v, kids, i + 1, x)
<1>1. /\ i \in Nat /\ i + 1 \in 1..Len(kids) /\ y \in Values
      /\ v \in Values /\ l \in NodeLocation
  BY DEF Typed, Location, NodeLocation
<1>2. /\ w = Work(S, p) /\ DOMAIN S = DOMAIN T \cup {kids[k] : k \in 1..i}
      /\ S \in [DOMAIN S -> Node]
      /\ p \in Seq(Job) /\ IsInjective(p) /\ ToSet(p) \cap R = {}
      /\ ToSet(p) = ToSet(q) \cup {UnfoldJob(x) : x \in DOMAIN S \ DOMAIN T}
  BY DEF Enqueued
<1>3. /\ \A x \in DOMAIN T : S[x].done = T[x].done /\ S[x].wait = T[x].wait
      /\ \A x \in DOMAIN S \ DOMAIN T : S[x].done = FALSE /\ S[x].wait = <<>>
      /\ \A x \in DOMAIN S :
           /\ S[x].done => S[x].parents = <<>>
           /\ ~S[x].done /\ x # Root => Lists(S[x].parents, Old(x))
           /\ x = Root => ToSet(S[x].parents) \subseteq
                             {RootLocation} \cup Old(x)
  BY DEF Enqueued
<1>4. {kids[k] : k \in 1..(i + 1)} = {kids[k] : k \in 1..i} \cup {y}
  <2>1. \A k : k \in 1..(i + 1) <=> k \in 1..i \/ k = i + 1
    BY <1>1
  <2> QED BY <2>1
<1>5. \A x : New(x) = IF x = y THEN Old(x) \cup {l} ELSE Old(x)
  <2>1. \A k : k \in 1..(i + 1) <=> k \in 1..i \/ k = i + 1
    BY <1>1
  <2> TAKE x
  <2>2. {Location(v, k) : k \in {k \in 1..(i + 1) : kids[k] = x}} =
          IF x = y
          THEN {Location(v, k) : k \in {k \in 1..i : kids[k] = x}} \cup {l}
          ELSE {Location(v, k) : k \in {k \in 1..i : kids[k] = x}}
    BY <2>1
  <2> QED BY <2>2 DEF NewLocs
<1>6. \A x : l \notin Old(x)
  <2> SUFFICES ASSUME NEW x, l \in Old(x) PROVE FALSE
    OBVIOUS
  <2>1. l.node_index = v
    BY DEF Location
  <2>2. l \notin Locs(E, x)
    BY <2>1 DEF Locs
  <2>3. PICK k \in 1..i : l = Location(v, k)
    BY <2>2 DEF NewLocs
  <2>4. k = i + 1
    BY <2>3, LocationIsOne
  <2> QED BY <2>4, <1>1
<1> HIDE DEF l, y, Old, New
<1>7. CASE y \notin DOMAIN S
  <2> DEFINE S2 == [x \in DOMAIN S \cup {y} |->
                      IF x = y THEN PendingNode(l) ELSE S[x]]
             p2 == <<UnfoldJob(y)>> \o p
  <2>1. u = Work(S2, p2)
    BY <1>7 DEF EnqueueUnfold
  <2>2. u.tree = S2 /\ u.jobs = p2
    <3> HIDE DEF S2, p2, u
    <3> QED BY <2>1 DEF Work
  <2>3. /\ PendingNode(l) \in Node
        /\ PendingNode(l).done = FALSE /\ PendingNode(l).wait = <<>>
        /\ PendingNode(l).parents = <<l>>
    BY <1>1 DEF PendingNode, Node
  <2>4. UnfoldJob(y) \in Job /\ UnfoldJob(y).value = y
    BY <1>1 DEF UnfoldJob, Job
  <2>5. UnfoldJob(y) \notin ToSet(p) \cup R
    <3>1. \A x : UnfoldJob(x).value = x
      BY DEF UnfoldJob
    <3>2. \A j \in ToSet(p) \cup R : j.value \in DOMAIN S
      BY <1>2, <3>1
    <3> QED BY <3>2, <2>4, <1>7
  <2>6. /\ p2 \in Seq(Job) /\ IsInjective(p2)
        /\ ToSet(p2) = ToSet(p) \cup {UnfoldJob(y)}
        /\ ToSet(p2) \cap R = {}
    <3> HIDE DEF p
    <3> QED BY <1>2, <2>4, <2>5, PushFront
  <2>7. Old(y) = {}
    <3>1. y \notin DOMAIN T /\ \A k \in 1..i : kids[k] # y
      BY <1>2, <1>7
    <3>2. Locs(E, y) = {}
      BY <3>1 DEF Locs, Typed
    <3> QED BY <3>1, <3>2 DEF NewLocs, Old
  <2>8. Lists(<<l>>, {l})
    BY <1>1 DEF Lists, ToSet, IsInjective
  <2>9. y # Root
    BY <1>7, <1>2 DEF Typed
  <2>10. /\ DOMAIN S2 = DOMAIN S \cup {y}
         /\ S2[y] = PendingNode(l)
         /\ \A x \in DOMAIN S : S2[x] = S[x]
    BY <1>7
  <2>11. S2 \in [DOMAIN S2 -> Node]
    BY <2>3, <1>2
  <2> HIDE DEF S2, p2, u
  <2>12. /\ \A x \in DOMAIN T : /\ S2[x].done = T[x].done
                                /\ S2[x].wait = T[x].wait
         /\ \A x \in DOMAIN S2 \ DOMAIN T : /\ S2[x].done = FALSE
                                            /\ S2[x].wait = <<>>
    BY <1>2, <1>3, <2>3, <2>10
  <2>13. ASSUME NEW x \in DOMAIN S2
         PROVE  /\ S2[x].done => S2[x].parents = <<>>
                /\ ~S2[x].done /\ x # Root => Lists(S2[x].parents, New(x))
                /\ x = Root => ToSet(S2[x].parents) \subseteq
                                  {RootLocation} \cup New(x)
    <3>1. CASE x = y
      BY <3>1, <2>3, <2>7, <2>8, <2>9, <2>10, <1>5
    <3>2. CASE x # y
      BY <3>2, <2>10, <1>3, <1>5
    <3> QED BY <3>1, <3>2
  <2>14. ToSet(p2) =
           ToSet(q) \cup {UnfoldJob(x) : x \in DOMAIN S2 \ DOMAIN T}
    <3>1. DOMAIN S2 \ DOMAIN T = (DOMAIN S \ DOMAIN T) \cup {y}
      BY <2>10, <1>2, <1>7
    <3> QED BY <3>1, <2>6, <1>2
  <2>15. DOMAIN S2 = DOMAIN T \cup {kids[k] : k \in 1..(i + 1)}
    BY <2>10, <1>2, <1>4
  <2>16. Enqueued(T, q, E, R, v, kids, i + 1, u)
    BY <2>1, <2>2, <2>6, <2>11, <2>12, <2>13, <2>14, <2>15 DEF Enqueued, New
  <2> QED BY <2>16 DEF u, l, y
<1>8. CASE y \in DOMAIN S /\ S[y].done
  <2>1. u = w
    BY <1>8 DEF EnqueueUnfold
  <2>2. DOMAIN S = DOMAIN T \cup {kids[k] : k \in 1..(i + 1)}
    BY <1>2, <1>4, <1>8
  <2>3. y # Root
    BY <1>3, <1>8 DEF Typed, Shaped
  <2>4. ASSUME NEW x \in DOMAIN S
        PROVE  /\ S[x].done => S[x].parents = <<>>
               /\ ~S[x].done /\ x # Root => Lists(S[x].parents, New(x))
               /\ x = Root => ToSet(S[x].parents) \subseteq
                                 {RootLocation} \cup New(x)
    BY <2>3, <1>3, <1>5, <1>8
  <2>5. Enqueued(T, q, E, R, v, kids, i + 1, w)
    BY <2>2, <2>4, <1>2, <1>3 DEF Enqueued, New
  <2> HIDE DEF u
  <2> QED BY <2>1, <2>5 DEF u, l, y
<1>9. CASE y \in DOMAIN S /\ ~S[y].done
  <2> DEFINE node == [S[y] EXCEPT !.parents = Append(S[y].parents, l)]
             S2 == [S EXCEPT ![y] = node]
  <2>1. u = Work(S2, p)
    <3>1. u = [w EXCEPT !.tree[y].parents = Append(@, l)]
      BY <1>9 DEF EnqueueUnfold
    <3> QED BY <3>1, <1>2 DEF Work
  <2>2. u.tree = S2 /\ u.jobs = p
    <3> HIDE DEF S2, u
    <3> QED BY <2>1 DEF Work
  <2>3. S[y] \in Node /\ S[y].parents \in Seq(NodeLocation)
    BY <1>2, <1>9 DEF Node
  <2>4. /\ Append(S[y].parents, l) \in Seq(NodeLocation)
        /\ ToSet(Append(S[y].parents, l)) = ToSet(S[y].parents) \cup {l}
        /\ IsInjective(S[y].parents) /\ l \notin ToSet(S[y].parents) =>
              IsInjective(Append(S[y].parents, l))
    BY <2>3, <1>1, AppendToSet
  <2>5. /\ node \in Node
        /\ node.done = S[y].done /\ node.wait = S[y].wait
        /\ node.parents = Append(S[y].parents, l)
    BY <2>3, <2>4 DEF Node
  <2> HIDE DEF node
  <2>6. /\ DOMAIN S2 = DOMAIN S /\ S2[y] = node
        /\ \A x \in DOMAIN S : x # y => S2[x] = S[x]
    BY <1>9
  <2>7. S2 \in [DOMAIN S2 -> Node]
    BY <2>5, <1>2
  <2> HIDE DEF S2, u
  <2>8. /\ \A x \in DOMAIN T : /\ S2[x].done = T[x].done
                               /\ S2[x].wait = T[x].wait
        /\ \A x \in DOMAIN S2 \ DOMAIN T : /\ S2[x].done = FALSE
                                           /\ S2[x].wait = <<>>
    BY <1>2, <1>3, <2>5, <2>6
  <2>9. ASSUME NEW x \in DOMAIN S
        PROVE  /\ S2[x].done => S2[x].parents = <<>>
               /\ ~S2[x].done /\ x # Root => Lists(S2[x].parents, New(x))
               /\ x = Root => ToSet(S2[x].parents) \subseteq
                                 {RootLocation} \cup New(x)
    <3>1. CASE x = y /\ x # Root
      <4>1. Lists(S[y].parents, Old(y))
        BY <3>1, <1>3, <1>9
      <4>2. Lists(Append(S[y].parents, l), Old(y) \cup {l})
        BY <4>1, <2>4, <1>6 DEF Lists
      <4> QED BY <3>1, <4>2, <2>5, <2>6, <1>5, <1>9
    <3>2. CASE x = y /\ x = Root
      BY <3>2, <2>4, <2>5, <2>6, <1>3, <1>5, <1>9
    <3>3. CASE x # y
      BY <3>3, <2>6, <1>3, <1>5
    <3> QED BY <3>1, <3>2, <3>3
  <2>10. DOMAIN S2 = DOMAIN T \cup {kids[k] : k \in 1..(i + 1)}
    BY <2>6, <1>2, <1>4, <1>9
  <2>11. ToSet(p) = ToSet(q) \cup {UnfoldJob(x) : x \in DOMAIN S2 \ DOMAIN T}
    BY <2>6, <1>2
  <2>12. \A x \in DOMAIN S2 :
           /\ S2[x].done => S2[x].parents = <<>>
           /\ ~S2[x].done /\ x # Root => Lists(S2[x].parents, New(x))
           /\ x = Root => ToSet(S2[x].parents) \subseteq
                             {RootLocation} \cup New(x)
    BY <2>6, <2>9
  <2>13. Enqueued(T, q, E, R, v, kids, i + 1, u)
    <3>1. u = Work(u.tree, u.jobs)
      BY <2>1, <2>2
    <3>2. p \in Seq(Job) /\ IsInjective(p) /\ ToSet(p) \cap R = {}
      BY <1>2
    <3> HIDE DEF S, p
    <3> QED BY <3>1, <3>2, <2>2, <2>7, <2>8, <2>10, <2>11, <2>12
            DEF Enqueued, New
  <2> QED BY <2>13 DEF u, l, y
<1> QED BY <1>7, <1>8, <1>9

\* The loop over the children.
LEMMA EnqueueAll ==
    ASSUME NEW v \in DOMAIN execution_tree \ DOMAIN edges, NEW R,
           NEW kids \in Seq(Values),
           Typed(execution_tree, edges), Shaped(execution_tree, edges, {}),
           Registered(execution_tree, edges),
           Queued(execution_tree, edges, unscheduled, R)
    PROVE  Enqueued(execution_tree, unscheduled, edges, R, v, kids, Len(kids),
                    EnqueueChildren(v, kids))
<1> DEFINE T == execution_tree
           q == unscheduled
           E == edges
           N == Len(kids)
           P(w, i) == Enqueued(T, q, E, R, v, kids, i, w)
<1>1. N \in Nat
  OBVIOUS
<1>2. PICK f : /\ f[0] = Work(T, q)
               /\ \A c \in 1..N :
                     f[c] = EnqueueUnfold(f[c - 1], Location(v, c), kids[c])
               /\ EnqueueChildren(v, kids) = f[N]
  BY EnqueueLoop
<1>3. \A j \in ToSet(q) \cup R : j.value \in DOMAIN T
  BY DEF Queued, Justified, Idle
<1>4. P(f[0], 0)
  <2>1. f[0].tree = T /\ f[0].jobs = q
    BY <1>2 DEF Work
  <2>2. \A x : NewLocs(E, v, kids, 0, x) = Locs(E, x)
    BY DEF NewLocs
  <2>3. {kids[k] : k \in 1..0} = {}
    OBVIOUS
  <2> HIDE DEF T, q, E
  <2>4. Typed(T, E) /\ Registered(T, E) /\ Queued(T, E, q, R)
    BY DEF T, q, E
  <2>5. \A x \in DOMAIN T :
           /\ T[x].done => T[x].parents = <<>>
           /\ ~T[x].done /\ x # Root => Lists(T[x].parents, Locs(E, x))
           /\ x = Root => ToSet(T[x].parents) \subseteq
                             {RootLocation} \cup Locs(E, x)
    BY <2>4 DEF Registered
  <2>6. /\ q \in Seq(Job) /\ IsInjective(q) /\ ToSet(q) \cap R = {}
        /\ T \in [DOMAIN T -> Node]
    BY <2>4 DEF Queued, Typed
  <2> QED BY <2>1, <2>2, <2>3, <2>5, <2>6, <1>2 DEF Enqueued
<1>5. ASSUME NEW i \in 0..(N - 1), P(f[i], i)
      PROVE  P(f[i + 1], i + 1)
  <2>1. i + 1 \in 1..N /\ (i + 1) - 1 = i
    BY <1>1
  <2>2. f[i + 1] = EnqueueUnfold(f[i], Location(v, i + 1), kids[i + 1])
    BY <2>1, <1>2
  <2> DEFINE w == f[i]
  <2>3. Enqueued(T, q, E, R, v, kids, i, w)
    BY <1>5
  <2> HIDE DEF T, q, E, w
  <2>4. Typed(T, E) /\ Shaped(T, E, {}) /\ v \in DOMAIN T \ DOMAIN E
    BY DEF T, E
  <2>5. Enqueued(T, q, E, R, v, kids, i + 1,
                 EnqueueUnfold(w, Location(v, i + 1), kids[i + 1]))
    BY <2>3, <2>4, <1>3, EnqueueOne
  <2> QED BY <2>2, <2>5 DEF w
<1> HIDE DEF P
<1>6. P(f[N], N)
  <2> DEFINE Bad == {i \in 0..N : ~P(f[i], i)}
  <2>1. SUFFICES ASSUME Bad # {} PROVE FALSE
    BY <1>1
  <2>2. PICK i \in Bad : \A k \in Bad : i <= k
    <3> Bad \in SUBSET Nat
      BY <1>1
    <3> HIDE DEF Bad
    <3> QED BY <2>1, SmallestNat
  <2>3. i \in 0..N /\ ~P(f[i], i)
    BY <2>2
  <2>4. i # 0
    BY <2>3, <1>4
  <2>5. i - 1 \in 0..(N - 1) /\ (i - 1) + 1 = i /\ i - 1 \in 0..N
    BY <2>3, <2>4, <1>1
  <2>6. i - 1 \notin Bad
    <3> HIDE DEF Bad
    <3> QED BY <2>2, <2>5, <2>3
  <2>7. P(f[i - 1], i - 1)
    BY <2>5, <2>6
  <2>8. P(f[(i - 1) + 1], (i - 1) + 1)
    BY <2>5, <2>7, <1>5
  <2> QED BY <2>3, <2>5, <2>8
<1> QED BY <1>2, <1>6 DEF P

\* A value's job.
LEMMA JobOfTyped ==
    ASSUME NEW T, NEW E, NEW n \in DOMAIN T, Typed(T, E)
    PROVE  JobOf(E, n) \in Job /\ JobOf(E, n).value = n
<1>1. n \in Values
  BY DEF Typed
<1>2. CASE n \in DOMAIN E
  <2>1. Len(E[n]) \in Nat /\ \A d \in 1..Len(E[n]) : E[n][d] \in Values
    BY <1>2, KidsTyped
  <2>2. [d \in 1..Len(E[n]) |-> <<E[n][d]>>] \in Seq(Seq(Values))
    BY <2>1
  <2> QED BY <2>2, <1>1, <1>2 DEF JobOf, FoldJob, Job
<1>3. CASE n \notin DOMAIN E
  BY <1>1, <1>3 DEF JobOf, UnfoldJob, Job
<1> QED BY <1>2, <1>3

\* A sequence has no more different elements than its length.
LEMMA ToSetCount ==
    ASSUME NEW S, NEW s \in Seq(S)
    PROVE  /\ IsFiniteSet(ToSet(s))
           /\ Cardinality(ToSet(s)) <= Len(s)
           /\ ToSet(s) = {s[k] : k \in 1..Len(s)}
           /\ ToSet(s) \subseteq S
<1>1. Len(s) \in Nat /\ DOMAIN s = 1..Len(s)
  OBVIOUS
<1>2. s \in Surjection(1..Len(s), ToSet(s))
  <2>1. s \in [1..Len(s) -> ToSet(s)]
    BY <1>1 DEF ToSet
  <2> QED BY <1>1, <2>1 DEF Surjection, ToSet
<1>3. IsFiniteSet(1..Len(s)) /\ Cardinality(1..Len(s)) = Len(s)
  <2>1. /\ IsFiniteSet(1..Len(s))
        /\ Cardinality(1..Len(s)) = IF 1 > Len(s) THEN 0 ELSE Len(s) - 1 + 1
    BY <1>1, FS_Interval
  <2> QED BY <1>1, <2>1
<1>4. IsFiniteSet(ToSet(s)) /\ Cardinality(ToSet(s)) <= Len(s)
  BY <1>2, <1>3, FS_Surjection
<1>5. ToSet(s) = {s[k] : k \in 1..Len(s)} /\ ToSet(s) \subseteq S
  BY <1>1 DEF ToSet
<1> QED BY <1>4, <1>5

\* The history once v is given its children.
WithEdges(E, v, kids) ==
    [x \in DOMAIN E \cup {v} |-> IF x = v THEN kids ELSE E[x]]

\* All of process_unfold(v).
LEMMA UnfoldAll ==
    ASSUME NEW v \in DOMAIN execution_tree \ DOMAIN edges, NEW R,
           NEW kids \in Seq(Values),
           Typed(execution_tree, edges), Shaped(execution_tree, edges, {}),
           Registered(execution_tree, edges),
           Queued(execution_tree, edges, unscheduled, R),
           \A j \in ToSet(unscheduled) \cup R : j.value # v
    PROVE  LET w == ProcessUnfold(v, kids)
               F == WithEdges(edges, v, kids)
           IN  /\ Telling(w, F, R, {})
               /\ DOMAIN w.tree = DOMAIN execution_tree \cup ToSet(kids)
               /\ \A m \in DOMAIN w.tree :
                     w.tree[m].done <=> /\ m \in DOMAIN execution_tree
                                        /\ execution_tree[m].done
               /\ (\A m \in DOMAIN execution_tree :
                     Idle(execution_tree, m) /\ m # v =>
                        JobOf(edges, m) \in ToSet(unscheduled) \cup R) =>
                     Present(w.tree, ToSet(w.jobs) \cup R, F)
<1> DEFINE T == execution_tree
           q == unscheduled
           E == edges
           F == WithEdges(E, v, kids)
           N == Len(kids)
           W == EnqueueChildren(v, kids)
           S == W.tree
           w == ProcessUnfold(v, kids)
           slots == [c \in 1..N |-> Resolved(kids[c])]
           open == {c \in 1..N : slots[c] = <<>>}
           node(x) == [S[v] EXCEPT !.wait = x]
           x0 == <<[children |-> slots, children_left |-> Cardinality(open)]>>
           T2 == IF open # {} THEN [S EXCEPT ![v] = node(x0)] ELSE S
           p2 == IF open # {} THEN W.jobs ELSE <<FoldJob(v, slots)>> \o W.jobs
<1>1. Enqueued(T, q, E, R, v, kids, N, W)
  BY EnqueueAll
<1>2. N \in Nat /\ v \in Values /\ v \in DOMAIN T /\ v \notin DOMAIN E
  BY DEF Typed
<1>3. /\ W = Work(S, W.jobs)
      /\ DOMAIN S = DOMAIN T \cup {kids[k] : k \in 1..N}
      /\ S \in [DOMAIN S -> Node]
      /\ \A m \in DOMAIN T : S[m].done = T[m].done /\ S[m].wait = T[m].wait
      /\ \A m \in DOMAIN S \ DOMAIN T : S[m].done = FALSE /\ S[m].wait = <<>>
  BY <1>1 DEF Enqueued
<1>4. /\ W.jobs \in Seq(Job) /\ IsInjective(W.jobs)
      /\ ToSet(W.jobs) \cap R = {}
      /\ ToSet(W.jobs) = ToSet(q) \cup {UnfoldJob(m) : m \in DOMAIN S \ DOMAIN T}
  BY <1>1 DEF Enqueued
<1>5. \A m \in DOMAIN S :
         /\ S[m].done => S[m].parents = <<>>
         /\ ~S[m].done /\ m # Root =>
               Lists(S[m].parents, NewLocs(E, v, kids, N, m))
         /\ m = Root => ToSet(S[m].parents) \subseteq
                           {RootLocation} \cup NewLocs(E, v, kids, N, m)
  BY <1>1 DEF Enqueued
<1>6. DOMAIN S = DOMAIN T \cup ToSet(kids)
  BY <1>3, ToSetCount
<1>7. IsFiniteSet(open) /\ Cardinality(open) \in Nat
      /\ (Cardinality(open) # 0 <=> open # {})
  <2>1. IsFiniteSet(1..N) /\ open \subseteq 1..N
    BY <1>2, FS_Interval
  <2> HIDE DEF open
  <2> QED BY <2>1, FS_Subset, FS_CardinalityType, FS_EmptySet
<1>8. v \in DOMAIN S /\ S[v] \in Node
  BY <1>2, <1>3
<1>9. w = Work(T2, p2) /\ w.tree = T2 /\ w.jobs = p2
  <2> DEFINE left == Cardinality(open)
  <2>1. w = IF MustWait(left)
            THEN SetWait(W, v, <<[children |-> slots, children_left |-> left]>>)
            ELSE EnqueueFold(W, v, slots)
    BY DEF ProcessUnfold
  <2>2. \A x : SetWait(W, v, x) = Work([S EXCEPT ![v] = node(x)], W.jobs)
    <3>1. W = Work(S, W.jobs)
      BY <1>3
    <3> DEFINE jobs == W.jobs
    <3>2. \A x : SetWait(Work(S, jobs), v, x) =
                   Work([S EXCEPT ![v] = node(x)], jobs)
      <4> HIDE DEF jobs, S
      <4> QED BY <1>8, SetWaitWork
    <3> HIDE DEF node
    <3> QED BY <3>1, <3>2
  <2>3. EnqueueFold(W, v, slots) = Work(S, <<FoldJob(v, slots)>> \o W.jobs)
    BY DEF EnqueueFold
  <2>4. MustWait(left) <=> open # {}
    BY <1>7 DEF MustWait
  <2> HIDE DEF W, open, slots, node, w
  <2>5. w = Work(T2, p2)
    BY <2>1, <2>2, <2>3, <2>4
  <2> HIDE DEF T2, p2
  <2> QED BY <2>5 DEF Work
<1> HIDE DEF w, W
<1>10. /\ DOMAIN T2 = DOMAIN S
       /\ \A m \in DOMAIN S : m # v => T2[m] = S[m]
       /\ T2[v].done = S[v].done /\ T2[v].parents = S[v].parents
       /\ T2[v].wait = IF open # {} THEN x0 ELSE S[v].wait
       /\ open # {} => T2[v] = [done |-> S[v].done, parents |-> S[v].parents,
                                wait |-> x0]
       /\ T2 = [m \in DOMAIN S |-> T2[m]]
  <2> HIDE DEF open, slots, x0
  <2>1. /\ node(x0).done = S[v].done /\ node(x0).parents = S[v].parents
        /\ node(x0).wait = x0
        /\ node(x0) = [done |-> S[v].done, parents |-> S[v].parents,
                       wait |-> x0]
    BY <1>8 DEF Node
  <2> HIDE DEF node
  <2> QED BY <2>1, <1>3, <1>8
<1>11. /\ \A m \in DOMAIN S : T2[m].done = S[m].done
       /\ \A m \in DOMAIN S : T2[m].parents = S[m].parents
  <2> HIDE DEF T2
  <2> QED BY <1>10
<1>12. /\ DOMAIN F = DOMAIN E \cup {v} /\ F[v] = kids
       /\ \A m \in DOMAIN E : F[m] = E[m]
       /\ F = [m \in DOMAIN F |-> F[m]]
  BY <1>2 DEF WithEdges
<1> HIDE DEF T2, F, S
<1>13. \A m \in DOMAIN S : S[m].done <=> m \in DOMAIN T /\ T[m].done
  BY <1>3
<1>14. open = Empties(T2, F, {}, v) /\ slots = Slots(T2, F, {}, v)
  <2>1. \A c \in 1..N : kids[c] \in DOMAIN S
    BY <1>3
  <2>2. \A c \in 1..N : slots[c] = IF T2[kids[c]].done THEN <<kids[c]>> ELSE <<>>
    <3>1. \A c \in 1..N : T2[kids[c]].done <=> kids[c] \in DOMAIN T
                                               /\ T[kids[c]].done
      BY <2>1, <1>11, <1>13
    <3> QED BY <3>1 DEF Resolved
  <2>3. \A c \in 1..N : slots[c] = <<>> <=> ~T2[kids[c]].done
    <3> HIDE DEF slots
    <3>1. \A c \in 1..N : <<kids[c]>> # <<>>
      OBVIOUS
    <3> QED BY <2>2, <3>1
  <2>4. Empties(T2, F, {}, v) = {c \in 1..N : ~T2[kids[c]].done}
    BY <1>12 DEF Empties
  <2>5. open = Empties(T2, F, {}, v)
    <3> HIDE DEF slots
    <3> QED BY <2>3, <2>4
  <2>6. Slots(T2, F, {}, v) =
          [c \in 1..N |-> IF c \in open THEN <<>> ELSE <<kids[c]>>]
    <3> HIDE DEF open
    <3> QED BY <2>5, <1>12 DEF Slots
  <2>7. \A c \in 1..N : slots[c] = IF c \in open THEN <<>> ELSE <<kids[c]>>
    <3> HIDE DEF slots
    <3> QED BY <2>2, <2>3
  <2>8. slots = [c \in 1..N |-> slots[c]]
    OBVIOUS
  <2> HIDE DEF slots, open
  <2> QED BY <2>5, <2>6, <2>7, <2>8
<1> HIDE DEF slots, open
<1>15. ASSUME NEW m \in DOMAIN E
       PROVE  /\ Empties(T2, F, {}, m) = Empties(T, E, {}, m)
              /\ WaitOf(T2, F, {}, m) = WaitOf(T, E, {}, m)
  <2>1. \A c \in 1..Len(E[m]) : E[m][c] \in DOMAIN T
    BY KidsTyped
  <2>2. \A c \in 1..Len(E[m]) : T2[E[m][c]].done = T[E[m][c]].done
    BY <2>1, <1>3, <1>11
  <2>3. F[m] = E[m] /\ m \in DOMAIN F
    BY <1>12
  <2>4. Empties(T2, F, {}, m) = Empties(T, E, {}, m)
    BY <2>2, <2>3 DEF Empties
  <2>5. Slots(T2, F, {}, m) = Slots(T, E, {}, m)
    BY <2>3, <2>4 DEF Slots
  <2> QED BY <2>3, <2>4, <2>5 DEF WaitOf
<1>16. S[v].wait = <<>>
  BY <1>2, <1>3 DEF Shaped, WaitOf
<1>17. Shaped(T2, F, {})
  <2> SUFFICES ASSUME NEW m \in DOMAIN S
               PROVE  /\ T2[m].wait = WaitOf(T2, F, {}, m)
                      /\ T2[m].done => /\ m # Root /\ m \in DOMAIN F
                                       /\ Empties(T2, F, {}, m) = {}
    BY <1>10 DEF Shaped
  <2>1. T2[m].wait = WaitOf(T2, F, {}, m)
    <3>1. CASE m = v
      BY <3>1, <1>10, <1>12, <1>14, <1>16 DEF WaitOf
    <3>2. CASE m \in DOMAIN E
      <4>1. m # v /\ m \in DOMAIN T
        BY <3>2, <1>2 DEF Typed
      <4>2. T2[m].wait = T[m].wait
        BY <4>1, <1>3, <1>10
      <4> QED BY <3>2, <4>1, <4>2, <1>15 DEF Shaped
    <3>3. CASE m # v /\ m \notin DOMAIN E
      <4>1. T2[m].wait = S[m].wait
        BY <3>3, <1>10
      <4>2. S[m].wait = <<>>
        BY <3>3, <1>3 DEF Shaped, WaitOf
      <4> QED BY <3>3, <4>1, <4>2, <1>12 DEF WaitOf
    <3> QED BY <3>1, <3>2, <3>3
  <2>2. ASSUME T2[m].done
        PROVE  m # Root /\ m \in DOMAIN F /\ Empties(T2, F, {}, m) = {}
    <3>1. m \in DOMAIN T /\ T[m].done
      BY <2>2, <1>11, <1>13
    <3>2. m # Root /\ m \in DOMAIN E /\ Empties(T, E, {}, m) = {}
      BY <3>1 DEF Shaped
    <3> QED BY <3>2, <1>12, <1>15
  <2> QED BY <2>1, <2>2
<1>18. Typed(T2, F)
  <2>1. x0 \in Seq(Children)
    <3>1. F[v] \in Seq(Values)
      BY <1>12
    <3>2. /\ Slots(T2, F, {}, v) \in Seq(Seq(Values))
          /\ Cardinality(Empties(T2, F, {}, v)) \in Nat
      BY <3>1, SlotsTyped
    <3>3. [children |-> slots, children_left |-> Cardinality(open)] \in Children
      BY <3>2, <1>14 DEF Children
    <3> QED BY <3>3
  <2>2. T2[v] \in Node
    <3>1. CASE open = {}
      BY <3>1, <1>8 DEF T2
    <3>2. CASE open # {}
      <4> HIDE DEF x0
      <4> QED BY <3>2, <2>1, <1>8, <1>10 DEF Node
    <3> QED BY <3>1, <3>2
  <2>3. \A m \in DOMAIN S : T2[m] \in Node
    BY <2>2, <1>3, <1>10
  <2>4. T2 \in [DOMAIN T2 -> Node]
    BY <2>3, <1>10
  <2>5. F \in [DOMAIN F -> Seq(Values)]
    <3>1. \A m \in DOMAIN F : F[m] \in Seq(Values)
      BY <1>12, KidsTyped
    <3> QED BY <3>1, <1>12
  <2>6. /\ DOMAIN S \subseteq Values /\ IsFiniteSet(DOMAIN S)
        /\ Root \in DOMAIN S /\ DOMAIN F \subseteq DOMAIN S
    <3>1. IsFiniteSet(ToSet(kids)) /\ ToSet(kids) \subseteq Values
      BY ToSetCount
    <3>2. IsFiniteSet(DOMAIN T) /\ DOMAIN T \subseteq Values
          /\ Root \in DOMAIN T /\ DOMAIN E \subseteq DOMAIN T
      BY DEF Typed
    <3>3. IsFiniteSet(DOMAIN T \cup ToSet(kids))
      BY <3>1, <3>2, FS_Union
    <3> QED BY <3>1, <3>2, <3>3, <1>2, <1>6, <1>12
  <2>7. \A m \in DOMAIN F : \A c \in 1..Len(F[m]) : F[m][c] \in DOMAIN S
    <3> TAKE m \in DOMAIN F
    <3> TAKE c \in 1..Len(F[m])
    <3>1. CASE m = v
      BY <3>1, <1>3, <1>12
    <3>2. CASE m # v
      <4>1. m \in DOMAIN E /\ F[m] = E[m]
        BY <3>2, <1>12
      <4> QED BY <4>1, <1>3, KidsTyped
    <3> QED BY <3>1, <3>2
  <2> QED BY <2>4, <2>5, <2>6, <2>7, <1>10 DEF Typed
<1>19. Registered(T2, F)
  <2>1. ASSUME NEW m
        PROVE  Locs(F, m) = NewLocs(E, v, kids, N, m)
    <3>1. ASSUME NEW l \in Locs(F, m)
          PROVE  l \in NewLocs(E, v, kids, N, m)
      <4>1. /\ l \in NodeLocation /\ l.node_index \in DOMAIN F
            /\ l.child_index \in 1..Len(F[l.node_index])
            /\ F[l.node_index][l.child_index] = m
            /\ l = Location(l.node_index, l.child_index)
        BY LocationParts DEF Locs
      <4>2. CASE l.node_index = v
        <5>1. l.child_index \in {k \in 1..N : kids[k] = m}
          BY <4>1, <4>2, <1>12
        <5> QED BY <5>1, <4>1, <4>2 DEF NewLocs
      <4>3. CASE l.node_index # v
        <5>1. l.node_index \in DOMAIN E /\ F[l.node_index] = E[l.node_index]
          BY <4>1, <4>3, <1>12
        <5> HIDE DEF E
        <5>2. l \in Locs(E, m)
          BY <5>1, <4>1 DEF Locs
        <5> QED BY <5>2 DEF NewLocs
      <4> QED BY <4>2, <4>3
    <3>2. ASSUME NEW l \in NewLocs(E, v, kids, N, m)
          PROVE  l \in Locs(F, m)
      <4>1. CASE l \in Locs(E, m)
        BY <4>1, <1>12 DEF Locs
      <4>2. CASE l \notin Locs(E, m)
        <5>1. PICK k \in 1..N : kids[k] = m /\ l = Location(v, k)
          BY <4>2 DEF NewLocs
        <5>2. l \in NodeLocation /\ l.node_index = v /\ l.child_index = k
          BY <5>1, <1>2 DEF NodeLocation, Location
        <5> QED BY <5>1, <5>2, <1>12 DEF Locs
      <4> QED BY <4>1, <4>2
    <3> QED BY <3>1, <3>2
  <2> QED BY <2>1, <1>5, <1>10, <1>11 DEF Registered
<1>20. /\ \A m \in DOMAIN T : m # v => Idle(T2, m) = Idle(T, m)
       /\ \A m \in DOMAIN S \ DOMAIN T : Idle(T2, m)
       /\ Idle(T2, v) <=> open = {}
  <2>1. \A m \in DOMAIN T : m # v => Idle(T2, m) = Idle(T, m)
    BY <1>3, <1>10 DEF Idle
  <2>2. \A m \in DOMAIN S \ DOMAIN T : Idle(T2, m)
    BY <1>2, <1>3, <1>10 DEF Idle
  <2>3. ~S[v].done
    <3>1. ~T[v].done
      BY <1>2 DEF Shaped
    <3> QED BY <3>1, <1>2, <1>3
  <2>4. x0 # <<>>
    OBVIOUS
  <2> HIDE DEF x0
  <2>5. Idle(T2, v) <=> open = {}
    BY <2>3, <2>4, <1>8, <1>10, <1>16 DEF Idle
  <2> QED BY <2>1, <2>2, <2>5
<1>21. /\ \A m \in DOMAIN T : m # v => JobOf(F, m) = JobOf(E, m)
       /\ \A m \in DOMAIN S \ DOMAIN T : JobOf(F, m) = UnfoldJob(m)
       /\ open = {} => JobOf(F, v) = FoldJob(v, slots)
  <2>1. \A m \in DOMAIN T : m # v => JobOf(F, m) = JobOf(E, m)
    BY <1>12 DEF JobOf
  <2>2. \A m \in DOMAIN S \ DOMAIN T : JobOf(F, m) = UnfoldJob(m)
    BY <1>2, <1>12 DEF JobOf, Typed
  <2>3. ASSUME open = {} PROVE JobOf(F, v) = FoldJob(v, slots)
    <3>1. slots = [c \in 1..Len(F[v]) |-> <<F[v][c]>>]
      BY <2>3, <1>14 DEF Slots
    <3> QED BY <3>1, <1>12 DEF JobOf
  <2> QED BY <2>1, <2>2, <2>3
<1>22. \A j \in ToSet(W.jobs) \cup R : j.value \in DOMAIN S /\ j.value # v
  <2>1. \A j \in ToSet(q) \cup R : j.value \in DOMAIN T
    BY DEF Queued, Justified, Idle
  <2>2. \A m : UnfoldJob(m).value = m
    BY DEF UnfoldJob
  <2> QED BY <2>1, <2>2, <1>2, <1>3, <1>4
<1>23. /\ p2 \in Seq(Job) /\ IsInjective(p2) /\ ToSet(p2) \cap R = {}
       /\ ToSet(p2) = IF open = {} THEN ToSet(W.jobs) \cup {JobOf(F, v)}
                      ELSE ToSet(W.jobs)
  <2>1. CASE open # {}
    BY <2>1, <1>4
  <2>2. CASE open = {}
    <3> DEFINE j == FoldJob(v, slots)
               jobs == W.jobs
    <3>1. j = JobOf(F, v)
      BY <2>2, <1>21
    <3>2. j \in Job /\ j.value = v
      BY <3>1, <1>8, <1>10, <1>18, JobOfTyped
    <3>3. j \notin ToSet(jobs) \cup R
      BY <3>2, <1>22
    <3>4. p2 = <<j>> \o jobs
      BY <2>2
    <3>5. jobs \in Seq(Job) /\ IsInjective(jobs) /\ ToSet(jobs) \cap R = {}
      BY <1>4
    <3> HIDE DEF j, jobs, p2
    <3>6. /\ <<j>> \o jobs \in Seq(Job)
          /\ ToSet(<<j>> \o jobs) = ToSet(jobs) \cup {j}
          /\ IsInjective(<<j>> \o jobs)
      BY <3>2, <3>3, <3>5, PushFront
    <3> QED BY <2>2, <3>1, <3>3, <3>4, <3>5, <3>6 DEF jobs
  <2> QED BY <2>1, <2>2
<1> HIDE DEF p2
<1>24. Justified(T2, ToSet(p2) \cup R, F)
  <2> SUFFICES ASSUME NEW j \in ToSet(p2) \cup R
               PROVE  Idle(T2, j.value) /\ j = JobOf(F, j.value)
    BY DEF Justified
  <2>1. CASE j \in ToSet(q) \cup R
    <3>1. Idle(T, j.value) /\ j = JobOf(E, j.value)
      BY <2>1 DEF Queued, Justified
    <3>2. j.value \in DOMAIN T /\ j.value # v
      BY <2>1, <3>1 DEF Idle
    <3> QED BY <3>1, <3>2, <1>20, <1>21
  <2>2. CASE \E m \in DOMAIN S \ DOMAIN T : j = UnfoldJob(m)
    <3>1. PICK m \in DOMAIN S \ DOMAIN T : j = UnfoldJob(m)
      BY <2>2
    <3>2. j.value = m
      BY <3>1 DEF UnfoldJob
    <3> QED BY <3>1, <3>2, <1>20, <1>21
  <2>3. CASE open = {} /\ j = JobOf(F, v)
    <3>1. JobOf(F, v).value = v
      BY <1>8, <1>10, <1>18, JobOfTyped
    <3> QED BY <2>3, <3>1, <1>20
  <2> QED BY <2>1, <2>2, <2>3, <1>4, <1>23
<1>25. ASSUME \A m \in DOMAIN T : Idle(T, m) /\ m # v =>
                 JobOf(E, m) \in ToSet(q) \cup R
       PROVE  Present(T2, ToSet(p2) \cup R, F)
  <2> SUFFICES ASSUME NEW m \in DOMAIN S, Idle(T2, m)
               PROVE  JobOf(F, m) \in ToSet(p2) \cup R
    BY <1>10 DEF Present
  <2>1. CASE m = v
    BY <2>1, <1>20, <1>23
  <2>2. CASE m \in DOMAIN T /\ m # v
    BY <2>2, <1>4, <1>20, <1>21, <1>23, <1>25
  <2>3. CASE m \notin DOMAIN T
    BY <2>3, <1>4, <1>21, <1>23
  <2> QED BY <2>1, <2>2, <2>3
<1>26. Telling(w, F, R, {})
  BY <1>9, <1>17, <1>18, <1>19, <1>23, <1>24 DEF Telling, Queued
<1>27. \A m \in DOMAIN T2 : T2[m].done <=> m \in DOMAIN T /\ T[m].done
  BY <1>10, <1>11, <1>13
<1> QED BY <1>6, <1>9, <1>10, <1>25, <1>26, <1>27 DEF w, F

-----------------------------------------------------------------------------
(* What the invariant says about values that are done.                     *)

\* A value with all results has only children that are done, and a value that
\* is done had all results.
LEMMA FoldedKids ==
    ASSUME NEW T, NEW E, Typed(T, E), Shaped(T, E, {})
    PROVE  /\ \A n \in Folded(T, E) : \A y \in ToSet(E[n]) :
                 y \in DOMAIN T /\ T[y].done
           /\ \A n \in DOMAIN T : T[n].done => n \in Folded(T, E)
           /\ \A n \in DOMAIN E : n \notin Folded(T, E) =>
                 \E y \in ToSet(E[n]) : y \in DOMAIN T /\ ~T[y].done
<1>1. ASSUME NEW n \in DOMAIN E
      PROVE  /\ n \in Folded(T, E) <=> Empties(T, E, {}, n) = {}
             /\ ToSet(E[n]) = {E[n][c] : c \in 1..Len(E[n])}
             /\ \A c \in 1..Len(E[n]) : E[n][c] \in DOMAIN T
             /\ \A c \in 1..Len(E[n]) :
                   c \in Empties(T, E, {}, n) <=> ~T[E[n][c]].done
  <2>1. n \in DOMAIN T
    BY DEF Typed
  <2>2. T[n].wait = WaitOf(T, E, {}, n)
    BY <2>1 DEF Shaped
  <2>3. n \in Folded(T, E) <=> Empties(T, E, {}, n) = {}
    <3> DEFINE r == [children |-> Slots(T, E, {}, n),
                     children_left |-> Cardinality(Empties(T, E, {}, n))]
    <3>1. WaitOf(T, E, {}, n) =
             IF Empties(T, E, {}, n) # {} THEN <<r>> ELSE <<>>
      BY DEF WaitOf
    <3> HIDE DEF r
    <3>2. <<r>> # <<>>
      OBVIOUS
    <3> QED BY <2>2, <3>1, <3>2 DEF Folded
  <2>4. E[n] \in Seq(Values) /\ \A c \in 1..Len(E[n]) : E[n][c] \in DOMAIN T
    BY KidsTyped
  <2>5. ToSet(E[n]) = {E[n][c] : c \in 1..Len(E[n])}
    BY <2>4, ToSetCount
  <2> QED BY <2>3, <2>4, <2>5 DEF Empties
<1>2. ASSUME NEW n \in Folded(T, E), NEW y \in ToSet(E[n])
      PROVE  y \in DOMAIN T /\ T[y].done
  <2>1. n \in DOMAIN E
    BY DEF Folded
  <2>2. PICK c \in 1..Len(E[n]) : y = E[n][c]
    BY <2>1, <1>1
  <2> QED BY <2>1, <2>2, <1>1
<1>3. ASSUME NEW n \in DOMAIN T, T[n].done
      PROVE  n \in Folded(T, E)
  <2>1. n \in DOMAIN E /\ Empties(T, E, {}, n) = {}
    BY <1>3 DEF Shaped
  <2> QED BY <2>1, <1>1
<1>4. ASSUME NEW n \in DOMAIN E, n \notin Folded(T, E)
      PROVE  \E y \in ToSet(E[n]) : y \in DOMAIN T /\ ~T[y].done
  <2>1. PICK c \in Empties(T, E, {}, n) : TRUE
    BY <1>1, <1>4
  <2>2. c \in 1..Len(E[n]) /\ ~T[E[n][c]].done
    BY <2>1 DEF Empties
  <2> QED BY <2>2, <1>1
<1> QED BY <1>2, <1>3, <1>4

\* When the root has all results, every other value is done.
LEMMA RootIsLast ==
    ASSUME NEW T, NEW E, Typed(T, E), Shaped(T, E, {}), Reached(T, E),
           Root \in Folded(T, E)
    PROVE  \A n \in DOMAIN T \ {Root} : T[n].done
<1> DEFINE S == {n \in DOMAIN T \ {Root} : ~T[n].done}
<1>1. SUFFICES ASSUME S # {} PROVE FALSE
  OBVIOUS
<1>2. S \in SUBSET (DOMAIN T \ {Root})
  OBVIOUS
<1>3. PICK n \in DOMAIN E \ S : ToSet(E[n]) \cap S # {}
  <2> HIDE DEF S
  <2> QED BY <1>1, <1>2 DEF Reached
<1>4. PICK y \in ToSet(E[n]) : y \in S
  BY <1>3
<1>5. n \notin Folded(T, E)
  BY <1>4, FoldedKids
<1>6. n \in DOMAIN T /\ n # Root
  BY <1>3, <1>5 DEF Typed
<1>7. T[n].done
  BY <1>3, <1>6
<1> QED BY <1>5, <1>6, <1>7, FoldedKids

\* The job taken from the pool was its value's only one.
LEMMA YieldedJob ==
    ASSUME IInv, NEW job, Yielded(job)
    PROVE  LET R == scheduled \ {job}
           IN  /\ job \in Jobs
               /\ Idle(execution_tree, job.value)
               /\ job = JobOf(edges, job.value)
               /\ Queued(execution_tree, edges, unscheduled, R)
               /\ \A j \in ToSet(unscheduled) \cup R : j.value # job.value
               /\ \A m \in DOMAIN execution_tree :
                     Idle(execution_tree, m) /\ m # job.value =>
                        JobOf(edges, m) \in ToSet(unscheduled) \cup R
               /\ scheduled' = R /\ R \in SUBSET Job /\ IsFiniteSet(R)
               /\ pc = "run" /\ params' = params
<1> DEFINE R == scheduled \ {job}
           T == execution_tree
           E == edges
<1>1. /\ job \in scheduled /\ pc = "run" /\ scheduled' = R
      /\ params' = params
  BY DEF Yielded
<1>2. /\ Typed(T, E) /\ Justified(T, Jobs, E) /\ Present(T, Jobs, E)
      /\ QueueDistinct /\ TypeInv
  BY <1>1 DEF IInv, Inv
<1>3. Jobs = ToSet(unscheduled) \cup scheduled
  BY DEF Jobs
<1>4. job \in Jobs /\ Idle(T, job.value) /\ job = JobOf(E, job.value)
  BY <1>1, <1>2, <1>3 DEF Justified
<1>5. job \notin ToSet(unscheduled) \cup R
  BY <1>1, <1>2 DEF QueueDistinct
<1>6. ToSet(unscheduled) \cup R = Jobs \ {job}
  BY <1>3, <1>5
<1>7. \A j \in ToSet(unscheduled) \cup R : j.value # job.value
  BY <1>2, <1>4, <1>6 DEF Justified
<1>8. Justified(T, ToSet(unscheduled) \cup R, E)
  BY <1>2, <1>6 DEF Justified
<1>9. Queued(T, E, unscheduled, R)
  BY <1>2, <1>8 DEF Queued, TypeInv, QueueDistinct
<1>10. ASSUME NEW m \in DOMAIN T, Idle(T, m), m # job.value
       PROVE  JobOf(E, m) \in ToSet(unscheduled) \cup R
  <2>1. JobOf(E, m).value = m /\ JobOf(E, m) \in Jobs
    BY <1>2, <1>10, JobOfTyped DEF Present
  <2> QED BY <2>1, <1>6, <1>10
<1>11. R \in SUBSET Job /\ IsFiniteSet(R)
  BY <1>2, FS_Subset DEF TypeInv
<1> QED BY <1>1, <1>4, <1>7, <1>9, <1>10, <1>11

-----------------------------------------------------------------------------
(* The actions.                                                            *)

\* init is the only value known, and its unfold the only job.
LEMMA InitInv == Init => IInv
<1> SUFFICES ASSUME Init PROVE IInv
  OBVIOUS
<1> DEFINE T == execution_tree
           node == PendingNode(RootLocation)
<1>1. Root \in Values
  BY DagConstants
<1>2. /\ pc = "run" /\ scheduled = {} /\ edges = <<>>
      /\ scheduled_max \in ScheduledMaxes /\ unfold_limit \in Limits
  BY DEF Init
<1>3. /\ execution_tree = [x \in {Root} |-> node]
      /\ unscheduled = <<UnfoldJob(Root)>>
  <2>1. DOMAIN <<>> = {} /\ <<UnfoldJob(Root)>> \o <<>> = <<UnfoldJob(Root)>>
    OBVIOUS
  <2>2. Work(<<>>, <<>>).tree = <<>> /\ Work(<<>>, <<>>).jobs = <<>>
    BY DEF Work
  <2>3. EnqueueUnfold(Work(<<>>, <<>>), RootLocation, Root) =
          Work([x \in {Root} |-> node], <<UnfoldJob(Root)>>)
    <3>1. [x \in {} \cup {Root} |-> IF x = Root THEN node ELSE <<>>[x]] =
             [x \in {Root} |-> node]
      OBVIOUS
    <3> QED BY <2>1, <2>2, <3>1 DEF EnqueueUnfold
  <2>4. /\ Work([x \in {Root} |-> node], <<UnfoldJob(Root)>>).tree =
              [x \in {Root} |-> node]
        /\ Work([x \in {Root} |-> node], <<UnfoldJob(Root)>>).jobs =
              <<UnfoldJob(Root)>>
    BY DEF Work
  <2> QED BY <2>3, <2>4 DEF Init
<1>4. DOMAIN edges = {} /\ edges \in [DOMAIN edges -> Seq(Values)]
  BY <1>2
<1>5. /\ DOMAIN T = {Root} /\ T[Root] = node /\ node \in Node
      /\ node.done = FALSE /\ node.wait = <<>> /\ node.parents = <<RootLocation>>
  BY <1>1, <1>3 DEF PendingNode, Node, RootLocation, Location, NodeLocation
<1>6. Jobs = {UnfoldJob(Root)}
  BY <1>2, <1>3 DEF Jobs, ToSet
<1>7. UnfoldJob(Root) \in Job /\ UnfoldJob(Root).value = Root
  BY <1>1 DEF UnfoldJob, Job
<1>8. TypeInv
  <2>1. unscheduled \in Seq(Job) /\ IsFiniteSet(scheduled)
    BY <1>2, <1>3, <1>7, FS_EmptySet
  <2> QED BY <1>2, <2>1, DagConstants DEF TypeInv
<1>9. QueueDistinct
  BY <1>2, <1>3 DEF QueueDistinct, IsInjective
<1>10. Typed(T, edges)
  <2>1. IsFiniteSet({Root})
    BY FS_Singleton
  <2>2. T \in [DOMAIN T -> Node]
    BY <1>3, <1>5
  <2> QED BY <1>1, <1>4, <1>5, <2>1, <2>2 DEF Typed
<1>11. Shaped(T, edges, {})
  BY <1>4, <1>5 DEF Shaped, WaitOf
<1>12. Registered(T, edges)
  <2>1. ToSet(<<RootLocation>>) = {RootLocation}
    BY DEF ToSet
  <2> QED BY <1>5, <2>1 DEF Registered
<1>13. JobOf(edges, Root) = UnfoldJob(Root) /\ Idle(T, Root)
  BY <1>4, <1>5 DEF JobOf, Idle
<1>14. Justified(T, Jobs, edges) /\ Present(T, Jobs, edges)
  BY <1>5, <1>6, <1>7, <1>13 DEF Justified, Present
<1>15. Reached(T, edges) /\ Acyclic(T, edges)
  BY <1>4, <1>5 DEF Reached, Acyclic, Folded
<1>16. LimitKept
  <2>1. Cardinality(DOMAIN execution_tree) = 1
    BY <1>5, FS_Singleton
  <2>2. ASSUME NEW n \in Nat PROVE 1 <= Max({1, n})
    BY DEF Max
  <2> QED BY <1>2, <2>1, <2>2, DagConstants DEF LimitKept
<1> QED BY <1>2, <1>8, <1>9, <1>10, <1>11, <1>12, <1>14, <1>15, <1>16
        DEF IInv, Inv

\* The number of jobs that Schedule moves.
LEMMA RoomBounds ==
    ASSUME TypeInv, Room > 0
    PROVE  Room \in 0..Len(unscheduled)
<1> DEFINE a == Len(unscheduled)
           b == scheduled_max - Cardinality(scheduled)
<1>1. a \in Nat /\ b \in Int
  BY FS_CardinalityType DEF TypeInv
<1>2. Room = Min({a, b})
  BY DEF Room
<1> HIDE DEF a, b
<1>3. Min({a, b}) = IF a <= b THEN a ELSE b
  BY <1>1 DEF Min
<1> QED BY <1>1, <1>2, <1>3 DEF a

LEMMA ScheduleInv == IInv /\ Schedule => IInv'
<1> SUFFICES ASSUME IInv, Schedule PROVE IInv'
  OBVIOUS
<1> DEFINE front == SubSeq(unscheduled, 1, Room)
           back == SubSeq(unscheduled, Room + 1, Len(unscheduled))
<1>1. /\ pc = "run" /\ pc' = pc /\ params' = params /\ edges' = edges
      /\ execution_tree' = execution_tree
      /\ scheduled' = scheduled \cup ToSet(front)
      /\ unscheduled' = back
  BY DEF Schedule
<1>2. TypeInv /\ QueueDistinct
  BY DEF IInv
<1>3. Room \in 0..Len(unscheduled) /\ unscheduled \in Seq(Job)
  BY <1>2, RoomBounds DEF Schedule, TypeInv
<1>4. /\ ToSet(front) \cup ToSet(back) = ToSet(unscheduled)
      /\ IsFiniteSet(ToSet(front))
      /\ IsInjective(back) /\ ToSet(front) \cap ToSet(back) = {}
  BY <1>2, <1>3, SplitToSet DEF QueueDistinct
<1>5. front \in Seq(Job) /\ back \in Seq(Job)
  BY <1>3, SplitSeq
<1>6. ToSet(front) \in SUBSET Job
  BY <1>5, ToSetCount
<1> HIDE DEF front, back
<1>7. Jobs' = Jobs
  <2>1. Jobs' = ToSet(unscheduled') \cup scheduled'
    BY DEF Jobs
  <2> QED BY <2>1, <1>1, <1>4 DEF Jobs
<1>8. TypeInv'
  <2>1. IsFiniteSet(scheduled')
    BY <1>1, <1>2, <1>4, FS_Union DEF TypeInv
  <2> QED BY <2>1, <1>1, <1>2, <1>5, <1>6 DEF TypeInv, params
<1>9. QueueDistinct'
  BY <1>1, <1>2, <1>4 DEF QueueDistinct
<1>10. /\ Inv(execution_tree, Jobs, edges, {})'
       /\ Reached(execution_tree, edges)' /\ Acyclic(execution_tree, edges)'
       /\ Present(execution_tree, Jobs, edges)'
  BY <1>1, <1>7 DEF IInv
<1>11. LimitKept'
  BY <1>1 DEF IInv, LimitKept, params
<1> QED BY <1>1, <1>8, <1>9, <1>10, <1>11 DEF IInv

\* The children that an unfold keeps.
LEMMA KeptKids ==
    ASSUME NEW kids \in BoundedSeq(Values, MaxChildren), TypeInv,
           IsFiniteSet(DOMAIN execution_tree)
    PROVE  /\ Kept(kids) \in Seq(Values)
           /\ unfold_limit # None =>
                 \/ Len(Kept(kids)) = 0
                 \/ Cardinality(DOMAIN execution_tree) + Len(Kept(kids))
                       <= unfold_limit
<1> DEFINE card == Cardinality(DOMAIN execution_tree)
           r == Min({Budget, Len(kids)})
<1>1. kids \in Seq(Values) /\ Len(kids) \in Nat
  <2>1. PICK m \in 0..MaxChildren : kids \in [1..m -> Values]
    BY DEF BoundedSeq, SeqOf
  <2>2. m \in Nat
    BY DagConstants
  <2> QED BY <2>1, <2>2
<1>2. card \in Nat
  BY FS_CardinalityType
<1>3. /\ Budget \in Nat
      /\ unfold_limit # None =>
            \/ Budget = 0
            \/ card + Budget <= unfold_limit
  <2>1. CASE unfold_limit = None
    BY <2>1, DagConstants DEF Budget
  <2>2. CASE unfold_limit # None
    <3> DEFINE b == unfold_limit - card
    <3>1. unfold_limit \in Nat /\ b \in Int
      BY <2>2, <1>2 DEF TypeInv
    <3>2. Budget = Max({0, b})
      BY <2>2 DEF Budget
    <3> HIDE DEF b
    <3>3. Max({0, b}) = IF b >= 0 THEN b ELSE 0
      BY <3>1 DEF Max
    <3> HIDE DEF card
    <3> QED BY <1>2, <3>1, <3>2, <3>3 DEF b
  <2> QED BY <2>1, <2>2
<1>4. r \in 0..Len(kids) /\ r <= Budget
  <2> DEFINE n == Len(kids)
  <2>1. n \in Nat
    BY <1>1
  <2> HIDE DEF n
  <2>2. Min({Budget, n}) = IF Budget <= n THEN Budget ELSE n
    BY <2>1, <1>3 DEF Min
  <2> QED BY <2>1, <2>2, <1>3 DEF n
<1>5. Kept(kids) = SubSeq(kids, 1, r)
  BY DEF Kept, Take
<1> HIDE DEF r
<1>6. SubSeq(kids, 1, r) \in Seq(Values) /\ Len(SubSeq(kids, 1, r)) = r
  BY <1>1, <1>4, SplitSeq
<1> HIDE DEF card
<1>7. unfold_limit # None => r = 0 \/ card + r <= unfold_limit
  <2> SUFFICES ASSUME unfold_limit # None
               PROVE  r = 0 \/ card + r <= unfold_limit
    OBVIOUS
  <2>1. unfold_limit \in Nat
    BY DEF TypeInv
  <2> QED BY <2>1, <1>1, <1>2, <1>3, <1>4
<1> QED BY <1>5, <1>6, <1>7 DEF card

LEMMA UnfoldInv == IInv /\ UnfoldDone => IInv'
<1> SUFFICES ASSUME IInv, UnfoldDone PROVE IInv'
  OBVIOUS
<1>1. PICK job \in scheduled, ks \in BoundedSeq(Values, MaxChildren) :
         LET w == ProcessUnfold(job.value, Kept(ks))
         IN  /\ Yielded(job)
             /\ job.kind = "unfold"
             /\ execution_tree' = w.tree
             /\ unscheduled' = w.jobs
             /\ edges' = [v \in DOMAIN edges \cup {job.value} |->
                             IF v = job.value THEN Kept(ks) ELSE edges[v]]
             /\ UNCHANGED pc
  BY DEF UnfoldDone
<1> DEFINE v == job.value
           kids == Kept(ks)
           R == scheduled \ {job}
           w == ProcessUnfold(v, kids)
           T == execution_tree
           E == edges
           T2 == execution_tree'
           F == edges'
           J2 == ToSet(unscheduled') \cup R
<1>2. /\ TypeInv /\ Typed(T, E) /\ Shaped(T, E, {}) /\ Registered(T, E)
      /\ Reached(T, E) /\ Acyclic(T, E) /\ LimitKept
  BY DEF IInv, Inv
<1>3. /\ Idle(T, v) /\ job = JobOf(E, v)
      /\ Queued(T, E, unscheduled, R)
      /\ \A j \in ToSet(unscheduled) \cup R : j.value # v
      /\ \A m \in DOMAIN T : Idle(T, m) /\ m # v =>
            JobOf(E, m) \in ToSet(unscheduled) \cup R
      /\ scheduled' = R /\ R \in SUBSET Job /\ IsFiniteSet(R)
      /\ pc = "run" /\ params' = params
  BY <1>1, YieldedJob
<1>4. v \in DOMAIN T \ DOMAIN E
  <2>1. v \in DOMAIN E => job.kind = "fold"
    BY <1>3 DEF JobOf, FoldJob
  <2> QED BY <2>1, <1>1, <1>3 DEF Idle
<1>5. IsFiniteSet(DOMAIN T)
  BY <1>2 DEF Typed
<1>6. /\ kids \in Seq(Values)
      /\ unfold_limit # None =>
            \/ Len(kids) = 0
            \/ Cardinality(DOMAIN T) + Len(kids) <= unfold_limit
  BY <1>2, <1>5, KeptKids
<1>7. T2 = w.tree /\ unscheduled' = w.jobs /\ F = WithEdges(E, v, kids)
      /\ pc' = pc
  BY <1>1 DEF WithEdges
<1> HIDE DEF kids
<1>8. /\ Telling(w, F, R, {})
      /\ DOMAIN w.tree = DOMAIN T \cup ToSet(kids)
      /\ \A m \in DOMAIN w.tree :
            w.tree[m].done <=> m \in DOMAIN T /\ T[m].done
      /\ Present(w.tree, ToSet(w.jobs) \cup R, F)
  <2> HIDE DEF v, R
  <2> QED BY <1>2, <1>3, <1>4, <1>6, <1>7, UnfoldAll
<1> HIDE DEF w
<1>9. /\ Typed(T2, F) /\ Shaped(T2, F, {}) /\ Registered(T2, F)
      /\ Queued(T2, F, unscheduled', R)
      /\ DOMAIN T2 = DOMAIN T \cup ToSet(kids)
      /\ \A m \in DOMAIN T2 : T2[m].done <=> m \in DOMAIN T /\ T[m].done
      /\ Present(T2, J2, F)
  BY <1>7, <1>8 DEF Telling
<1>10. Jobs' = J2
  BY <1>3 DEF Jobs
<1>11. TypeInv' /\ QueueDistinct'
  BY <1>2, <1>3, <1>7, <1>9 DEF TypeInv, QueueDistinct, Queued, params
<1>12. /\ DOMAIN F = DOMAIN E \cup {v} /\ F[v] = kids
       /\ \A m \in DOMAIN E : F[m] = E[m]
  BY <1>4, <1>7 DEF WithEdges
<1>13. Reached(T2, F)
  <2> SUFFICES ASSUME NEW S \in SUBSET (DOMAIN T2 \ {Root}), S # {}
               PROVE  \E n \in DOMAIN F \ S : ToSet(F[n]) \cap S # {}
    BY DEF Reached
  <2> DEFINE A == S \cap DOMAIN T
  <2>1. CASE A # {}
    <3>1. A \in SUBSET (DOMAIN T \ {Root})
      OBVIOUS
    <3>2. PICK n \in DOMAIN E \ A : ToSet(E[n]) \cap A # {}
      <4> HIDE DEF A
      <4> QED BY <2>1, <3>1, <1>2 DEF Reached
    <3>3. n \in DOMAIN T
      BY <3>2, <1>2 DEF Typed
    <3>4. n \in DOMAIN F \ S /\ F[n] = E[n]
      BY <3>2, <3>3, <1>12
    <3> QED BY <3>2, <3>4
  <2>2. CASE A = {}
    <3>1. S \subseteq ToSet(kids) /\ v \notin S
      BY <2>2, <1>4, <1>9
    <3> QED BY <3>1, <1>12
  <2> QED BY <2>1, <2>2
<1>14. Acyclic(T2, F)
  <2>1. \A n \in Folded(T, E) : F[n] = E[n]
    BY <1>12 DEF Folded
  <2>2. \A n \in Folded(T2, F) : ToSet(F[n]) \subseteq Folded(T, E)
    BY <1>2, <1>9, FoldedKids
  <2> HIDE DEF T2, F, T, E
  <2> QED BY <2>1, <2>2, <1>2, AcyclicStep
<1>15. LimitKept'
  <2> SUFFICES ASSUME unfold_limit # None
               PROVE  Cardinality(DOMAIN T2) <= Max({1, unfold_limit})
    BY <1>3 DEF LimitKept, params
  <2> DEFINE card == Cardinality(DOMAIN T)
             K == ToSet(kids)
  <2>1. /\ unfold_limit \in Nat /\ card \in Nat
        /\ card <= Max({1, unfold_limit})
    BY <1>2, <1>5, FS_CardinalityType DEF TypeInv, LimitKept
  <2>2. IsFiniteSet(K) /\ Cardinality(K) <= Len(kids)
    BY <1>6, ToSetCount
  <2>3. /\ Cardinality(DOMAIN T \cup K) =
              card + Cardinality(K) - Cardinality(DOMAIN T \cap K)
        /\ Cardinality(K) \in Nat /\ Cardinality(DOMAIN T \cap K) \in Nat
    <3>1. IsFiniteSet(DOMAIN T \cap K)
      BY <2>2, FS_Subset
    <3> HIDE DEF K
    <3> QED BY <3>1, <2>2, <1>5, FS_Union, FS_CardinalityType
  <2>4. Max({1, unfold_limit}) = IF unfold_limit >= 1 THEN unfold_limit ELSE 1
    BY <2>1 DEF Max
  <2>5. Len(kids) \in Nat
    BY <1>6
  <2>6. DOMAIN T2 = DOMAIN T \cup K
    BY <1>9
  <2> HIDE DEF K, T2, T
  <2> QED BY <2>1, <2>2, <2>3, <2>4, <2>5, <2>6, <1>6
<1>16. Inv(T2, Jobs', F, {}) /\ Present(T2, Jobs', F)
  BY <1>9, <1>10 DEF Inv, Queued
<1> QED BY <1>3, <1>7, <1>11, <1>13, <1>14, <1>15, <1>16 DEF IInv

LEMMA FoldInv == IInv /\ FoldDone => IInv'
<1> SUFFICES ASSUME IInv, FoldDone PROVE IInv'
  OBVIOUS
<1>1. PICK job \in scheduled :
         LET w == ProcessFold(job.value)
         IN  /\ Yielded(job)
             /\ job.kind = "fold"
             /\ job.value # Root
             /\ execution_tree' = w.tree
             /\ unscheduled' = w.jobs
             /\ UNCHANGED <<pc, edges>>
  BY DEF FoldDone
<1> DEFINE v == job.value
           R == scheduled \ {job}
           w == ProcessFold(v)
           T == execution_tree
           E == edges
           T2 == execution_tree'
           J2 == ToSet(unscheduled') \cup R
<1>2. /\ TypeInv /\ Typed(T, E) /\ Shaped(T, E, {}) /\ Registered(T, E)
      /\ Reached(T, E) /\ Acyclic(T, E) /\ LimitKept
  BY DEF IInv, Inv
<1>3. /\ Idle(T, v) /\ job = JobOf(E, v)
      /\ Queued(T, E, unscheduled, R)
      /\ \A j \in ToSet(unscheduled) \cup R : j.value # v
      /\ \A m \in DOMAIN T : Idle(T, m) /\ m # v =>
            JobOf(E, m) \in ToSet(unscheduled) \cup R
      /\ scheduled' = R /\ R \in SUBSET Job /\ IsFiniteSet(R)
      /\ pc = "run" /\ params' = params
  BY <1>1, YieldedJob
<1>4. v \in DOMAIN E
  <2>1. v \notin DOMAIN E => job.kind = "unfold"
    BY <1>3 DEF JobOf, UnfoldJob
  <2> QED BY <2>1, <1>1
<1>5. /\ v # Root /\ T2 = w.tree /\ unscheduled' = w.jobs /\ edges' = E
      /\ pc' = pc
  BY <1>1
<1>6. /\ Telling(w, E, R, {})
      /\ DOMAIN w.tree = DOMAIN T
      /\ \A m \in DOMAIN T : w.tree[m].done = (m = v \/ T[m].done)
      /\ Present(w.tree, ToSet(w.jobs) \cup R, E)
  <2> HIDE DEF v, R
  <2> QED BY <1>2, <1>3, <1>4, <1>5, TellAll
<1> HIDE DEF w
<1>7. /\ Typed(T2, E) /\ Shaped(T2, E, {}) /\ Registered(T2, E)
      /\ Queued(T2, E, unscheduled', R)
      /\ DOMAIN T2 = DOMAIN T
      /\ \A m \in DOMAIN T : T2[m].done = (m = v \/ T[m].done)
      /\ Present(T2, J2, E)
  BY <1>5, <1>6 DEF Telling
<1>8. Jobs' = J2
  BY <1>3 DEF Jobs
<1>9. TypeInv' /\ QueueDistinct'
  BY <1>2, <1>3, <1>5, <1>7 DEF TypeInv, QueueDistinct, Queued, params
<1>10. Reached(T2, E)
  BY <1>2, <1>7 DEF Reached
<1>11. Acyclic(T2, E)
  <2>1. v \in Folded(T, E)
    BY <1>3, <1>4 DEF Idle, Folded
  <2>2. \A m \in DOMAIN T : T2[m].done => m \in Folded(T, E)
    BY <2>1, <1>2, <1>7, FoldedKids
  <2>3. \A n \in Folded(T2, E) : ToSet(E[n]) \subseteq Folded(T, E)
    BY <2>2, <1>7, FoldedKids
  <2> HIDE DEF T2, T, E
  <2> QED BY <2>3, <1>2, AcyclicStep
<1>12. LimitKept'
  BY <1>2, <1>3, <1>7 DEF LimitKept, params
<1>13. Inv(T2, Jobs', E, {}) /\ Present(T2, Jobs', E)
  BY <1>7, <1>8 DEF Inv, Queued
<1> QED BY <1>3, <1>5, <1>9, <1>10, <1>11, <1>12, <1>13 DEF IInv

\* A job fails, or init's fold returns.
LEMMA EndInv == IInv /\ (RootDone \/ JobFailed) => IInv'
<1> SUFFICES ASSUME IInv, RootDone \/ JobFailed PROVE IInv'
  OBVIOUS
<1>1. PICK job \in scheduled :
         /\ Yielded(job)
         /\ \/ job.kind = "fold" /\ job.value = Root /\ pc' \in {"ok", "err"}
            \/ pc' = "err"
         /\ UNCHANGED <<unscheduled, execution_tree, edges>>
  BY DEF RootDone, JobFailed
<1> DEFINE R == scheduled \ {job}
<1>2. /\ TypeInv /\ QueueDistinct /\ Inv(execution_tree, Jobs, edges, {})
      /\ Reached(execution_tree, edges) /\ Acyclic(execution_tree, edges)
      /\ LimitKept
  BY DEF IInv
<1>3. /\ Idle(execution_tree, job.value) /\ job = JobOf(edges, job.value)
      /\ Queued(execution_tree, edges, unscheduled, R)
      /\ scheduled' = R /\ R \in SUBSET Job /\ IsFiniteSet(R)
      /\ params' = params
  BY <1>1, YieldedJob
<1>4. Jobs' = ToSet(unscheduled) \cup R
  BY <1>1, <1>3 DEF Jobs
<1>5. TypeInv' /\ QueueDistinct'
  BY <1>1, <1>2, <1>3 DEF TypeInv, QueueDistinct, Queued, params
<1>6. Inv(execution_tree, Jobs, edges, {})'
  BY <1>1, <1>2, <1>3, <1>4 DEF Inv, Queued
<1>7. pc' = "ok" => Root \in Folded(execution_tree, edges)
  <2> SUFFICES ASSUME pc' = "ok"
               PROVE  Root \in Folded(execution_tree, edges)
    OBVIOUS
  <2>1. job.kind = "fold" /\ job.value = Root
    BY <1>1
  <2>2. Root \in DOMAIN edges
    BY <2>1, <1>3 DEF JobOf, UnfoldJob
  <2> QED BY <2>1, <2>2, <1>3 DEF Folded, Idle
<1>8. LimitKept'
  BY <1>1, <1>2, <1>3 DEF LimitKept, params
<1> QED BY <1>1, <1>2, <1>5, <1>6, <1>7, <1>8 DEF IInv

LEMMA CycleInv == IInv /\ CycleFound => IInv'
<1> SUFFICES ASSUME IInv, CycleFound PROVE IInv'
  OBVIOUS
<1>1. /\ pc = "run" /\ pc' = "none" /\ unscheduled = <<>> /\ scheduled = {}
      /\ UNCHANGED <<params, unscheduled, scheduled, execution_tree, edges>>
  BY DEF CycleFound
<1>2. Jobs = {} /\ Jobs' = Jobs
  BY <1>1 DEF Jobs, ToSet
<1>3. TypeInv' /\ QueueDistinct' /\ LimitKept'
  BY <1>1 DEF IInv, TypeInv, QueueDistinct, LimitKept, params
<1> QED BY <1>1, <1>2, <1>3 DEF IInv

LEMMA StutterInv == IInv /\ UNCHANGED vars => IInv'
<1> SUFFICES ASSUME IInv, UNCHANGED vars PROVE IInv'
  OBVIOUS
<1>1. UNCHANGED <<pc, scheduled_max, unfold_limit, unscheduled, scheduled,
                  execution_tree, edges>>
  BY DEF vars, params
<1>2. Jobs' = Jobs
  BY <1>1 DEF Jobs
<1>3. TypeInv' /\ QueueDistinct' /\ LimitKept'
  BY <1>1 DEF IInv, TypeInv, QueueDistinct, LimitKept
<1> QED BY <1>1, <1>2, <1>3 DEF IInv

LEMMA NextInv == IInv /\ [Next]_vars => IInv'
BY ScheduleInv, UnfoldInv, FoldInv, EndInv, CycleInv, StutterInv
   DEF Next, Returned

\* The inductive invariant holds in every state.
THEOREM Invariance == Spec => []IInv
BY InitInv, NextInv, PTL DEF Spec

-----------------------------------------------------------------------------
(* What the invariant implies.                                             *)

LEMMA WaitingParents == IInv => ParentsWait
<1> SUFFICES ASSUME IInv, NEW v \in DOMAIN execution_tree,
                    NEW l \in ToSet(execution_tree[v].parents),
                    v # Root \/ l # RootLocation
             PROVE  /\ Pending(l.node_index)
                    /\ execution_tree[l.node_index].wait # <<>>
                    /\ execution_tree[l.node_index].wait[1]
                          .children[l.child_index] = <<>>
  BY DEF ParentsWait
<1> DEFINE T == execution_tree
           E == edges
           n == l.node_index
           c == l.child_index
<1>1. Typed(T, E) /\ Shaped(T, E, {}) /\ Registered(T, E)
  BY DEF IInv, Inv
<1>2. ~T[v].done
  <2>1. T[v].done => T[v].parents = <<>>
    BY <1>1 DEF Registered
  <2> QED BY <2>1 DEF ToSet
<1>3. l \in Locs(E, v)
  <2>1. CASE v # Root
    BY <2>1, <1>1, <1>2 DEF Registered, Lists
  <2>2. CASE v = Root
    BY <2>2, <1>1 DEF Registered
  <2> QED BY <2>1, <2>2
<1>4. n \in DOMAIN E /\ c \in 1..Len(E[n]) /\ E[n][c] = v
  BY <1>3 DEF Locs
<1>5. c \in Empties(T, E, {}, n) /\ n \in DOMAIN T
  BY <1>1, <1>2, <1>4 DEF Empties, Typed
<1>6. /\ T[n].wait = <<[children |-> Slots(T, E, {}, n),
                        children_left |-> Cardinality(Empties(T, E, {}, n))]>>
      /\ ~T[n].done
  BY <1>1, <1>4, <1>5 DEF Shaped, WaitOf
<1>7. Slots(T, E, {}, n)[c] = <<>>
  BY <1>4, <1>5 DEF Slots
<1>8. T[n].wait # <<>> /\ T[n].wait[1].children = Slots(T, E, {}, n)
  BY <1>6
<1> QED BY <1>5, <1>6, <1>7, <1>8 DEF Pending

LEMMA OneJob == IInv => OneJobPerValue
<1> SUFFICES ASSUME IInv, pc = "run", NEW v \in Values
             PROVE  Cardinality({j \in Jobs : j.value = v}) =
                       IF Pending(v) /\ execution_tree[v].wait = <<>>
                       THEN 1 ELSE 0
  BY DEF OneJobPerValue
<1> DEFINE T == execution_tree
           K == {j \in Jobs : j.value = v}
<1>1. /\ Typed(T, edges) /\ Justified(T, Jobs, edges)
      /\ Present(T, Jobs, edges)
  BY DEF IInv, Inv
<1>2. CASE Idle(T, v)
  <2>1. JobOf(edges, v) \in Jobs /\ JobOf(edges, v).value = v
    BY <1>1, <1>2, JobOfTyped DEF Present, Idle
  <2>2. K = {JobOf(edges, v)}
    BY <2>1, <1>1 DEF Justified
  <2>3. Cardinality(K) = 1
    BY <2>2, FS_Singleton
  <2> QED BY <2>3, <1>2 DEF Idle, Pending
<1>3. CASE ~Idle(T, v)
  <2>1. K = {}
    BY <1>1, <1>3 DEF Justified
  <2>2. Cardinality(K) = 0
    BY <2>1, FS_EmptySet
  <2> QED BY <2>2, <1>3 DEF Idle, Pending
<1> QED BY <1>2, <1>3

LEMMA RootLast == IInv => RootFoldLast
<1> SUFFICES ASSUME IInv, NEW j \in Jobs, j.kind = "fold", j.value = Root
             PROVE  Jobs = {j}
  BY DEF RootFoldLast
<1> DEFINE T == execution_tree
           E == edges
<1>1. /\ Typed(T, E) /\ Shaped(T, E, {}) /\ Justified(T, Jobs, E)
      /\ Reached(T, E)
  BY DEF IInv, Inv
<1>2. Idle(T, Root) /\ j = JobOf(E, Root)
  BY <1>1 DEF Justified
<1>3. Root \in DOMAIN E
  BY <1>2 DEF JobOf, UnfoldJob
<1>4. Root \in Folded(T, E)
  BY <1>2, <1>3 DEF Idle, Folded
<1>5. \A n \in DOMAIN T \ {Root} : T[n].done
  BY <1>1, <1>4, RootIsLast
<1>6. ASSUME NEW k \in Jobs PROVE k = j
  <2>1. Idle(T, k.value) /\ k = JobOf(E, k.value)
    BY <1>1 DEF Justified
  <2>2. k.value = Root
    BY <2>1, <1>5 DEF Idle
  <2> QED BY <2>1, <2>2, <1>2
<1> QED BY <1>6

LEMMA FoldArguments == IInv => FoldGetsChildren
<1> SUFFICES ASSUME IInv, NEW j \in Jobs, j.kind = "fold"
             PROVE  /\ j.value \in DOMAIN edges
                    /\ j.args = [c \in 1..Len(edges[j.value]) |->
                                    <<edges[j.value][c]>>]
  BY DEF FoldGetsChildren
<1>1. j = JobOf(edges, j.value)
  BY DEF IInv, Inv, Justified
<1>2. j.value \in DOMAIN edges
  BY <1>1 DEF JobOf, UnfoldJob
<1>3. j = FoldJob(j.value, [c \in 1..Len(edges[j.value]) |->
                               <<edges[j.value][c]>>])
  BY <1>1, <1>2 DEF JobOf
<1>4. \A v, a : FoldJob(v, a).args = a
  BY DEF FoldJob
<1>5. j.args = [c \in 1..Len(edges[j.value]) |-> <<edges[j.value][c]>>]
  BY <1>3, <1>4, Zenon
<1> QED BY <1>2, <1>5

LEMMA CycleSeen == IInv => NoneIffCycle
<1> SUFFICES ASSUME IInv
             PROVE  (pc = "none" => Cyclic) /\ (pc = "ok" => ~Cyclic)
  BY DEF NoneIffCycle
<1> DEFINE T == execution_tree
           E == edges
<1>1. /\ Typed(T, E) /\ Shaped(T, E, {}) /\ Reached(T, E) /\ Acyclic(T, E)
  BY DEF IInv, Inv
<1>2. ASSUME pc = "none" PROVE Cyclic
  <2> DEFINE S == {n \in DOMAIN T : ~T[n].done}
  <2>1. Present(T, Jobs, E) /\ Jobs = {}
    BY <1>2 DEF IInv
  <2>2. Root \in S
    BY <1>1 DEF Typed, Shaped
  <2>3. ASSUME NEW n \in S PROVE n \in DOMAIN E /\ n \notin Folded(T, E)
    <3>1. T[n].wait # <<>>
      BY <2>1 DEF Present, Idle
    <3>2. T[n].wait = WaitOf(T, E, {}, n)
      BY <1>1 DEF Shaped
    <3> QED BY <3>1, <3>2 DEF WaitOf, Folded
  <2>4. \A n \in S : ToSet(E[n]) \cap S # {}
    <3> TAKE n \in S
    <3>1. PICK y \in ToSet(E[n]) : y \in DOMAIN T /\ ~T[y].done
      BY <2>3, <1>1, FoldedKids
    <3> QED BY <3>1
  <2>5. S \in SUBSET DOMAIN E /\ S # {}
    BY <2>2, <2>3
  <2> HIDE DEF S
  <2> QED BY <2>4, <2>5 DEF Cyclic
<1>3. ASSUME pc = "ok", Cyclic PROVE FALSE
  <2>1. Root \in Folded(T, E)
    BY <1>3 DEF IInv
  <2>2. PICK S \in SUBSET DOMAIN E :
           S # {} /\ \A v \in S : ToSet(E[v]) \cap S # {}
    BY <1>3 DEF Cyclic
  <2>3. \A n \in DOMAIN T \ {Root} : T[n].done
    BY <2>1, <1>1, RootIsLast
  <2>4. \A n \in DOMAIN E : n \in Folded(T, E)
    BY <2>1, <2>3, <1>1, FoldedKids DEF Typed
  <2>5. S \in SUBSET Folded(T, E)
    BY <2>4
  <2> QED BY <2>2, <2>5, <1>1 DEF Acyclic
<1> QED BY <1>2, <1>3

\* The queue, the pool and the result have their types, whatever the graph,
\* the limit and the size of the pool.
THEOREM TypeCorrect == Spec => []TypeInv
<1>1. IInv => TypeInv
  BY DEF IInv
<1> QED BY <1>1, Invariance, PTL

\* No expect, unreachable! or assert of dag.rs fails: results only go to nodes
\* that wait for them, a value has at most one job, and nothing else is left
\* when init is folded.
THEOREM NoPanicCorrect == Spec => []NoPanic
<1>1. IInv => NoPanic
  BY WaitingParents, OneJob, RootLast DEF NoPanic
<1> QED BY <1>1, Invariance, PTL

\* process_unfold and update_location together give a fold the results of all
\* children that were kept, in their order.
THEOREM FoldsCorrect == Spec => []FoldGetsChildren
BY FoldArguments, Invariance, PTL

\* poll() returns None only for a graph with a cycle, and a result only for
\* one without.
THEOREM CyclesCorrect == Spec => []NoneIffCycle
BY CycleSeen, Invariance, PTL

\* process_unfold never visits more values than unfold_limit allows.
THEOREM LimitCorrect == Spec => []LimitKept
<1>1. IInv => LimitKept
  BY DEF IInv
<1> QED BY <1>1, Invariance, PTL
=============================================================================
