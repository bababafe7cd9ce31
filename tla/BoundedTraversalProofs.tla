----------------------- MODULE BoundedTraversalProofs -----------------------
(* Machine-checked proofs about BoundedTraversal.                          *)
EXTENDS BoundedTraversal, SequenceLemmas, FiniteSetTheorems, SequenceTheorems,
        TLAPS


-----------------------------------------------------------------------------
(* The inductive invariant.                                                *)

\* A job is in one place only.
QueueDistinct ==
    /\ \A i, j \in DOMAIN unscheduled :
          unscheduled[i] = unscheduled[j] => i = j
    /\ \A i \in DOMAIN unscheduled : unscheduled[i] \notin scheduled

\* The invariant that relates the jobs J, the execution tree T and the
\* history U is stated over parameters, so that the lemmas about its
\* preservation are free of primes.
Waits(T, loc) ==
    \/ loc = RootLocation
    \/ /\ loc.node_index \in DOMAIN T
       /\ loc.child_index \in DOMAIN T[loc.node_index].children
       /\ T[loc.node_index].children[loc.child_index] = NoOut

\* SlotsOwned.
Slots(J, T) ==
    /\ \A job \in J : Waits(T, job.loc)
    /\ \A i \in DOMAIN T : Waits(T, T[i].parent)
    /\ \A j1, j2 \in J : j1.loc = j2.loc => j1 = j2
    /\ \A i, j \in DOMAIN T : T[i].parent = T[j].parent => i = j
    /\ \A job \in J, i \in DOMAIN T : job.loc # T[i].parent

\* The bookkeeping of one node.  Parents have smaller indices than their
\* children, which is why the execution tree is well founded.
NodeOK(i, node, U) ==
    /\ node.parent.node_index < i
    /\ node.children_left =
          Cardinality({c \in DOMAIN node.children : node.children[c] = NoOut})
    /\ node.children_left # 0
    /\ node.context \in DOMAIN U
    /\ DOMAIN node.children = 1..U[node.context]
    /\ \A c \in DOMAIN node.children :
          node.children[c] # NoOut =>
              node.children[c] = SomeOut(Child(node.context, c))

Nodes(T, U) == \A i \in DOMAIN T : NodeOK(i, T[i], U)

\* `path' is the path of the value that location `loc' waits for.
PathAt(T, loc, path) ==
    /\ loc = RootLocation => path = <<>>
    /\ loc.node_index \in DOMAIN T =>
          path = Child(T[loc.node_index].context, loc.child_index)

Paths(J, T) ==
    /\ \A job \in J : PathAt(T, job.loc, job.path)
    /\ \A i \in DOMAIN T : PathAt(T, T[i].parent, T[i].context)

Owned(J, T, loc) ==
    \/ \E job \in J : job.loc = loc
    \/ \E i \in DOMAIN T : T[i].parent = loc

\* Whatever waits has somebody to wait for.
Live(J, T) ==
    /\ Owned(J, T, RootLocation)
    /\ \A i \in DOMAIN T : \A c \in DOMAIN T[i].children :
          T[i].children[c] = NoOut =>
              Owned(J, T, [node_index |-> i, child_index |-> c])

\* The value at `path' came from a value that has been unfolded.
Rooted(U, path) ==
    path = <<>> \/ \E q \in DOMAIN U, c \in Nat : path = Child(q, c)

\* A value is unfolded once, after the value it came from.
Fresh(J, U) ==
    /\ \A job \in J :
          job.kind = "unfold" =>
              job.path \notin DOMAIN U /\ Rooted(U, job.path)
    /\ \A p \in DOMAIN U : Rooted(U, p)
    /\ \A j1, j2 \in J :
          j1.kind = "unfold" /\ j2.kind = "unfold" /\ j1.path = j2.path
              => j1 = j2

\* A value that was returned has been unfolded or waits for it.
Reached(J, U, path) ==
    \/ path \in DOMAIN U
    \/ \E job \in J : job.kind = "unfold" /\ job.path = path

Visited(J, U) ==
    /\ Reached(J, U, <<>>)
    /\ \A p \in DOMAIN U : \A c \in 1..U[p] : Reached(J, U, Child(p, c))

ArgsOK(U, job) ==
    /\ job.path \in DOMAIN U
    /\ job.args = [c \in 1..U[job.path] |-> SomeOut(Child(job.path, c))]

\* FoldGetsChildren.
Folds(J, U) == \A job \in J : job.kind = "fold" => ArgsOK(U, job)

Types(J, T, U) ==
    /\ J \subseteq Job
    /\ DOMAIN T \subseteq Nat \ {0}
    /\ \A i \in DOMAIN T : T[i] \in Node
    /\ DOMAIN U \subseteq Path
    /\ \A p \in DOMAIN U : U[p] \in Nat

\* What every state of a traversal satisfies, failed ones too.
TreeInv(J, T, U) ==
    Slots(J, T) /\ Nodes(T, U) /\ Paths(J, T) /\ Fresh(J, U) /\ Folds(J, U)

IInv ==
    /\ TypeOK
    /\ DOMAIN unfolded \subseteq Path
    /\ ScheduledBound
    /\ QueueDistinct
    /\ TreeInv(Jobs, execution_tree, unfolded)
    /\ pc \in {"schedule", "run"} => Live(Jobs, execution_tree)
    /\ pc # "err" => Visited(Jobs, unfolded)
    /\ pc = "ok" => Jobs = {}
    /\ NeverSpins

-----------------------------------------------------------------------------
(* Types of the operators.                                                 *)

LEMMA JobTypes ==
    /\ \A loc \in NodeLocation, path \in Path : UnfoldJob(loc, path) \in Job
    /\ \A loc \in NodeLocation, path \in Path, args \in Seq(Seq(Path)) :
          FoldJob(loc, path, args) \in Job
    /\ RootLocation \in NodeLocation
BY DEF UnfoldJob, FoldJob, Job, NodeLocation, Path, RootLocation

LEMMA ChildJobsType ==
    ASSUME NEW n \in Nat, NEW path \in Path, NEW count \in Nat
    PROVE  /\ ChildJobs(n, path, count) \in Seq(Job)
           /\ Len(ChildJobs(n, path, count)) = count
           /\ \A i \in 1..count :
                 /\ ChildJobs(n, path, count)[i].kind = "unfold"
                 /\ ChildJobs(n, path, count)[i].loc =
                       [node_index |-> n, child_index |-> count + 1 - i]
                 /\ ChildJobs(n, path, count)[i].path =
                       Child(path, count + 1 - i)
<1>1. \A i \in 1..count :
         UnfoldJob([node_index |-> n, child_index |-> count + 1 - i],
                   Child(path, count + 1 - i)) \in Job
  <2> TAKE i \in 1..count
  <2>1. count + 1 - i \in Nat
    OBVIOUS
  <2>2. Child(path, count + 1 - i) \in Path
    BY <2>1 DEF Path, Child
  <2>3. [node_index |-> n, child_index |-> count + 1 - i] \in NodeLocation
    BY <2>1 DEF NodeLocation
  <2> QED BY <2>2, <2>3, JobTypes
<1>2. ChildJobs(n, path, count) \in [1..count -> Job]
  BY <1>1 DEF ChildJobs
<1>3. ChildJobs(n, path, count) \in Seq(Job)
  BY <1>2
<1>4. Len(ChildJobs(n, path, count)) = count
  BY <1>2, <1>3
<1>5. \A i \in 1..count :
        ChildJobs(n, path, count)[i] =
           UnfoldJob([node_index |-> n, child_index |-> count + 1 - i],
                     Child(path, count + 1 - i))
  BY DEF ChildJobs
<1> QED BY <1>3, <1>4, <1>5 DEF UnfoldJob

LEMMA NewNodeType ==
    ASSUME NEW job \in Job, NEW count \in Nat
    PROVE  NewNode(job, count) \in Node
<1>1. [c \in 1..count |-> NoOut] \in Seq(Seq(Path))
  BY DEF NoOut
<1> QED BY <1>1 DEF NewNode, NodeWith, Node, Job

LEMMA RoomBounds ==
    ASSUME TypeOK, ScheduledBound
    PROVE  /\ Room \in 0..Len(unscheduled)
           /\ Cardinality(scheduled) \in Nat
           /\ Cardinality(scheduled) + Room <= ScheduledMax
BY FS_CardinalityType, BTConstants DEF TypeOK, ScheduledBound, Room

LEMMA ChildInjective ==
    ASSUME NEW p \in Path, NEW q \in Path, NEW c \in Nat, NEW d \in Nat,
           Child(p, c) = Child(q, d)
    PROVE  p = q /\ c = d
BY AppendInjective DEF Path, Child

LEMMA ChildNotRoot ==
    ASSUME NEW p \in Path, NEW c \in Nat
    PROVE  Child(p, c) # <<>> /\ Child(p, c) \in Path
BY DEF Path, Child

-----------------------------------------------------------------------------
(* How the queue changes.                                                  *)

\* Moving the front of the queue into the pool keeps the set of jobs.
LEMMA ScheduleJobs ==
    ASSUME TypeOK, ScheduledBound, QueueDistinct, Schedule
    PROVE  /\ Jobs' = Jobs
           /\ unscheduled' \in Seq(Job)
           /\ scheduled' \subseteq Job
           /\ IsFiniteSet(scheduled')
           /\ ScheduledBound'
           /\ QueueDistinct'
           /\ Jobs # {} => scheduled' # {}
<1> DEFINE r == Room
           n == Len(unscheduled)
           front == SubSeq(unscheduled, 1, r)
           back == SubSeq(unscheduled, r + 1, Len(unscheduled))
<1>1. /\ r \in 0..n
      /\ Cardinality(scheduled) \in Nat
      /\ Cardinality(scheduled) + r <= ScheduledMax
  BY RoomBounds
<1>2. unscheduled \in Seq(Job) /\ DOMAIN unscheduled = 1..n /\ n \in Nat
  BY DEF TypeOK
<1>3. /\ front \in Seq(Job) /\ Len(front) = r
      /\ \A i \in 1..r : front[i] = unscheduled[i]
      /\ back \in Seq(Job) /\ Len(back) = n - r
      /\ \A i \in 1..(n - r) : back[i] = unscheduled[r + i]
  <2> HIDE DEF r
  <2> QED BY <1>1, <1>2, SplitSeq
<1>4. scheduled' = scheduled \cup ToSet(front) /\ unscheduled' = back
  BY DEF Schedule
<1>5. n = 0 \/ Cardinality(scheduled) # 0 \/ r >= 1
  BY <1>2, BTConstants DEF Room
<1> HIDE DEF r, front, back
<1>6. /\ DOMAIN front = 1..r /\ DOMAIN back = 1..(n - r)
      /\ front \in [1..r -> Job] /\ back \in [1..(n - r) -> Job]
  BY <1>3
<1> HIDE DEF n
<1>7. \A i \in 1..n : unscheduled[i] \in ToSet(front) \cup ToSet(back)
  <2> TAKE i \in 1..n
  <2>1. CASE i \in 1..r
    BY <1>3, <1>6, <2>1 DEF ToSet
  <2>2. CASE i \notin 1..r
    <3> DEFINE k == i - r
    <3>1. k \in 1..(n - r) /\ r + k = i
      BY <1>1, <1>2, <2>2
    <3> HIDE DEF k
    <3>2. back[k] = unscheduled[i]
      BY <1>3, <3>1
    <3> QED BY <1>6, <3>1, <3>2 DEF ToSet
  <2> QED BY <2>1, <2>2
<1>8. \A i \in 1..(n - r) : r + i \in 1..n
  BY <1>1, <1>2
<1>9. \A i \in 1..r : i \in 1..n
  BY <1>1, <1>2
<1>10. ToSet(front) \subseteq ToSet(unscheduled)
  BY <1>2, <1>3, <1>6, <1>9 DEF ToSet
<1>11. ToSet(back) \subseteq ToSet(unscheduled)
  <2>1. \A i \in 1..(n - r) : back[i] \in ToSet(unscheduled)
    <3> TAKE i \in 1..(n - r)
    <3> DEFINE k == r + i
    <3>1. k \in DOMAIN unscheduled /\ back[i] = unscheduled[k]
      BY <1>2, <1>3, <1>8
    <3> HIDE DEF k
    <3> QED BY <3>1 DEF ToSet
  <2> QED BY <1>6, <2>1 DEF ToSet
<1>12. Jobs' = Jobs
  <2>1. ToSet(unscheduled) \subseteq ToSet(front) \cup ToSet(back)
    BY <1>2, <1>7 DEF ToSet
  <2> QED BY <1>4, <1>10, <1>11, <2>1 DEF Jobs
<1>13. scheduled' \subseteq Job
  BY <1>4, <1>6 DEF ToSet, TypeOK
<1>14. IsFiniteSet(ToSet(front)) /\ Cardinality(ToSet(front)) <= r
  <2>1. front \in Surjection(1..r, ToSet(front))
    BY <1>6 DEF Surjection, ToSet
  <2>2. IsFiniteSet(1..r) /\ Cardinality(1..r) = r
    BY <1>1, FS_Interval
  <2> QED BY <2>1, <2>2, FS_Surjection
<1>15. IsFiniteSet(scheduled') /\ ScheduledBound'
  <2> DEFINE F == ToSet(front)
  <2>1. IsFiniteSet(scheduled)
    BY DEF TypeOK
  <2>2. /\ IsFiniteSet(scheduled \cup F)
        /\ Cardinality(scheduled \cup F) =
              Cardinality(scheduled) + Cardinality(F)
                  - Cardinality(scheduled \cap F)
    BY <1>14, <2>1, FS_Union
  <2>3. Cardinality(scheduled \cap F) \in Nat
    BY <2>1, FS_Intersection, FS_CardinalityType
  <2>4. Cardinality(F) \in Nat
    BY <1>14, FS_CardinalityType
  <2> HIDE DEF F
  <2>5. Cardinality(scheduled \cup F) <= ScheduledMax
    BY <1>1, <1>14, <2>2, <2>3, <2>4, BTConstants DEF F
  <2> QED BY <1>4, <2>2, <2>5 DEF ScheduledBound, F
<1>16. QueueDistinct'
  <2>1. ASSUME NEW i \in 1..(n - r), NEW j \in 1..(n - r), back[i] = back[j]
        PROVE  i = j
    <3>1. r + i = r + j
      BY <1>2, <1>3, <1>8, <2>1 DEF QueueDistinct
    <3> QED BY <1>1, <1>2, <3>1
  <2>2. \A i \in 1..(n - r) : back[i] \notin scheduled
    BY <1>2, <1>3, <1>8 DEF QueueDistinct
  <2>3. ASSUME NEW i \in 1..(n - r), NEW j \in 1..r, back[i] = front[j]
        PROVE  FALSE
    <3>1. r + i = j
      BY <1>2, <1>3, <1>8, <1>9, <2>3 DEF QueueDistinct
    <3> QED BY <1>1, <1>2, <3>1
  <2>4. \A i \in 1..(n - r) : back[i] \notin ToSet(front)
    BY <1>6, <2>3 DEF ToSet
  <2> QED BY <1>4, <1>6, <2>1, <2>2, <2>4 DEF QueueDistinct
<1>17. ASSUME Jobs # {}, scheduled' = {}
       PROVE  FALSE
  <2>1. scheduled = {} /\ ToSet(front) = {}
    BY <1>4, <1>17
  <2>2. Cardinality(scheduled) = 0
    BY <2>1, FS_EmptySet
  <2>3. n # 0
    BY <1>2, <1>17, <2>1 DEF Jobs, ToSet
  <2>4. 1 \in 1..r
    BY <1>1, <1>2, <1>5, <2>2, <2>3
  <2> QED BY <1>6, <2>1, <2>4 DEF ToSet
<1> QED BY <1>3, <1>4, <1>12, <1>13, <1>15, <1>16, <1>17

\* A job leaves the pool and new jobs go to the front of the queue.
LEMMA QueueStep ==
    ASSUME TypeOK, ScheduledBound, QueueDistinct,
           NEW job \in scheduled, NEW new \in Seq(Job),
           \A i, j \in DOMAIN new : new[i] = new[j] => i = j,
           \A i \in DOMAIN new : new[i] \notin Jobs,
           scheduled' = scheduled \ {job},
           unscheduled' = new \o unscheduled
    PROVE  /\ Jobs' = (Jobs \ {job}) \cup ToSet(new)
           /\ unscheduled' \in Seq(Job)
           /\ scheduled' \subseteq Job
           /\ IsFiniteSet(scheduled')
           /\ ScheduledBound'
           /\ QueueDistinct'
<1>1. unscheduled \in Seq(Job) /\ scheduled \subseteq Job
  BY DEF TypeOK
<1>2. ToSet(unscheduled') = ToSet(new) \cup ToSet(unscheduled)
  BY <1>1, ConcatToSet
<1>3. job \notin ToSet(unscheduled)
  BY DEF QueueDistinct, ToSet
<1>4. job \notin ToSet(new)
  BY DEF Jobs, ToSet
<1>5. Jobs' = (Jobs \ {job}) \cup ToSet(new)
  BY <1>2, <1>3, <1>4 DEF Jobs
<1>6. IsFiniteSet(scheduled') /\ ScheduledBound'
  <2>1. /\ IsFiniteSet(scheduled \ {job})
        /\ Cardinality(scheduled \ {job}) = Cardinality(scheduled) - 1
        /\ Cardinality(scheduled) \in Nat
    BY FS_RemoveElement, FS_CardinalityType DEF TypeOK
  <2> QED BY <2>1, BTConstants DEF ScheduledBound
<1>7. QueueDistinct'
  <2>1. /\ unscheduled' \in Seq(Job)
        /\ DOMAIN unscheduled' = 1..(Len(new) + Len(unscheduled))
        /\ \A i \in 1..(Len(new) + Len(unscheduled)) : unscheduled'[i] =
              IF i <= Len(new) THEN new[i] ELSE unscheduled[i - Len(new)]
    BY <1>1, ConcatProperties
  <2>2. /\ DOMAIN new = 1..Len(new)
        /\ DOMAIN unscheduled = 1..Len(unscheduled)
        /\ Len(new) \in Nat
        /\ Len(unscheduled) \in Nat
    BY <1>1
  <2>3. \A i \in 1..Len(new), k \in 1..Len(unscheduled) :
           new[i] # unscheduled[k]
    BY <2>2 DEF Jobs, ToSet
  <2>4. ASSUME NEW i \in DOMAIN unscheduled', NEW j \in DOMAIN unscheduled',
               unscheduled'[i] = unscheduled'[j]
        PROVE  i = j
    <3>1. CASE i <= Len(new) /\ j <= Len(new)
      BY <2>1, <2>2, <2>4, <3>1
    <3>2. CASE i <= Len(new) /\ ~(j <= Len(new))
      <4>1. j - Len(new) \in 1..Len(unscheduled) /\ i \in 1..Len(new)
        BY <2>1, <2>2, <3>2
      <4> QED BY <2>1, <2>3, <2>4, <3>2, <4>1
    <3>3. CASE ~(i <= Len(new)) /\ j <= Len(new)
      <4>1. i - Len(new) \in 1..Len(unscheduled) /\ j \in 1..Len(new)
        BY <2>1, <2>2, <3>3
      <4> QED BY <2>1, <2>3, <2>4, <3>3, <4>1
    <3>4. CASE ~(i <= Len(new)) /\ ~(j <= Len(new))
      <4>1. /\ i - Len(new) \in 1..Len(unscheduled)
            /\ j - Len(new) \in 1..Len(unscheduled)
        BY <2>1, <2>2, <3>4
      <4>2. unscheduled[i - Len(new)] = unscheduled[j - Len(new)]
        BY <2>1, <2>4, <3>4
      <4>3. i - Len(new) = j - Len(new)
        BY <2>2, <4>1, <4>2 DEF QueueDistinct
      <4> QED BY <2>1, <2>2, <4>3
    <3> QED BY <3>1, <3>2, <3>3, <3>4
  <2>5. ASSUME NEW i \in DOMAIN unscheduled'
        PROVE  unscheduled'[i] \notin scheduled'
    <3>1. CASE i <= Len(new)
      <4>1. i \in 1..Len(new)
        BY <2>1, <2>2, <3>1
      <4>2. new[i] \notin Jobs
        BY <2>2, <4>1
      <4> QED BY <2>1, <3>1, <4>2 DEF Jobs
    <3>2. CASE ~(i <= Len(new))
      <4>1. i - Len(new) \in 1..Len(unscheduled)
        BY <2>1, <2>2, <3>2
      <4> QED BY <2>1, <2>2, <3>2, <4>1 DEF QueueDistinct
    <3> QED BY <3>1, <3>2
  <2> QED BY <2>4, <2>5 DEF QueueDistinct
<1> QED BY <1>1, <1>5, <1>6, <1>7, ConcatProperties

-----------------------------------------------------------------------------
(* Every action preserves the invariant of jobs, tree and history.         *)

\* A completed unfold without children becomes a fold of the same value.
LeafStep(J, U, J2, U2, job) ==
    /\ job \in J
    /\ job.kind = "unfold"
    /\ J2 = (J \ {job}) \cup {FoldJob(job.loc, job.path, <<>>)}
    /\ DOMAIN U2 = DOMAIN U \cup {job.path}
    /\ U2[job.path] = 0
    /\ \A p \in DOMAIN U : p # job.path => U2[p] = U[p]

LEMMA LeafPreserves ==
    ASSUME NEW J, NEW T, NEW U, NEW J2, NEW U2, NEW job,
           Types(J, T, U), TreeInv(J, T, U), Live(J, T), Visited(J, U),
           LeafStep(J, U, J2, U2, job)
    PROVE  TreeInv(J2, T, U2) /\ Live(J2, T) /\ Visited(J2, U2)
<1> DEFINE new == FoldJob(job.loc, job.path, <<>>)
<1>1. /\ new.loc = job.loc /\ new.path = job.path
      /\ new.kind = "fold" /\ new.args = <<>>
  BY DEF FoldJob
<1>2. job \in J /\ job.kind = "unfold" /\ J2 = (J \ {job}) \cup {new}
  BY DEF LeafStep
<1> HIDE DEF new
<1>3. job.path \notin DOMAIN U
  BY <1>2 DEF TreeInv, Fresh
<1>4. /\ DOMAIN U2 = DOMAIN U \cup {job.path}
      /\ U2[job.path] = 0
      /\ \A p \in DOMAIN U : U2[p] = U[p]
  BY <1>3 DEF LeafStep
<1>5. Slots(J2, T)
  BY <1>1, <1>2 DEF TreeInv, Slots
<1>6. Nodes(T, U2)
  BY <1>4 DEF TreeInv, Nodes, NodeOK
<1>7. Paths(J2, T)
  BY <1>1, <1>2 DEF TreeInv, Paths
<1>8. Live(J2, T)
  BY <1>1, <1>2 DEF Live, Owned
<1>9. Fresh(J2, U2)
  <2>1. \A p : Rooted(U, p) => Rooted(U2, p)
    BY <1>4 DEF Rooted
  <2> QED BY <1>1, <1>2, <1>3, <1>4, <2>1 DEF TreeInv, Fresh
<1>10. Visited(J2, U2)
  <2>1. \A p : Reached(J, U, p) => Reached(J2, U2, p)
    BY <1>2, <1>4 DEF Reached
  <2> QED BY <1>4, <2>1 DEF Visited
<1>11. Folds(J2, U2)
  <2>1. ArgsOK(U2, new)
    BY <1>1, <1>4 DEF ArgsOK
  <2>2. \A j \in J : ArgsOK(U, j) => ArgsOK(U2, j)
    BY <1>4 DEF ArgsOK
  <2> QED BY <1>2, <2>1, <2>2 DEF TreeInv, Folds
<1> QED BY <1>5, <1>6, <1>7, <1>8, <1>9, <1>10, <1>11 DEF TreeInv

\* The job enqueued for the c-th child of node n.
KidJob(n, path, c) ==
    UnfoldJob([node_index |-> n, child_index |-> c], Child(path, c))

LEMMA ChildSet ==
    ASSUME NEW n \in Nat, NEW path \in Path, NEW count \in Nat
    PROVE  ToSet(ChildJobs(n, path, count)) =
              {KidJob(n, path, c) : c \in 1..count}
<1> DEFINE s == ChildJobs(n, path, count)
<1>1. DOMAIN s = 1..count
  BY DEF ChildJobs
<1>2. \A i \in 1..count : s[i] = KidJob(n, path, count + 1 - i)
  BY DEF ChildJobs, KidJob
<1> HIDE DEF s
<1>3. \A i \in 1..count : /\ count + 1 - i \in 1..count
                          /\ count + 1 - (count + 1 - i) = i
  OBVIOUS
<1>4. \A i \in 1..count : s[i] \in {KidJob(n, path, c) : c \in 1..count}
  BY <1>2, <1>3
<1>5. \A c \in 1..count : KidJob(n, path, c) \in ToSet(s)
  <2> TAKE c \in 1..count
  <2> DEFINE i == count + 1 - c
  <2>1. i \in 1..count /\ count + 1 - i = c
    BY <1>3
  <2> HIDE DEF i
  <2> QED BY <1>1, <1>2, <2>1 DEF ToSet
<1> QED BY <1>1, <1>4, <1>5 DEF ToSet, s

\* A completed unfold with children becomes node n, which waits for them.
InnerStep(J, T, U, J2, T2, U2, job, count, n) ==
    /\ job \in J
    /\ job.kind = "unfold"
    /\ count \in Nat \ {0}
    /\ n \in Nat
    /\ \A i \in DOMAIN T : i < n
    /\ n # 0
    /\ J2 = (J \ {job}) \cup {KidJob(n, job.path, c) : c \in 1..count}
    /\ DOMAIN U2 = DOMAIN U \cup {job.path}
    /\ U2[job.path] = count
    /\ \A p \in DOMAIN U : p # job.path => U2[p] = U[p]
    /\ DOMAIN T2 = DOMAIN T \cup {n}
    /\ T2[n] = NewNode(job, count)
    /\ \A i \in DOMAIN T : i # n => T2[i] = T[i]

LEMMA FreshNode ==
    ASSUME NEW job, NEW count \in Nat
    PROVE  /\ NewNode(job, count).parent = job.loc
           /\ NewNode(job, count).context = job.path
           /\ NewNode(job, count).children_left = count
           /\ DOMAIN NewNode(job, count).children = 1..count
           /\ \A c \in 1..count : NewNode(job, count).children[c] = NoOut
           /\ count = Cardinality({c \in DOMAIN NewNode(job, count).children :
                         NewNode(job, count).children[c] = NoOut})
<1> DEFINE ch == NewNode(job, count).children
<1>1. ch = [c \in 1..count |-> NoOut]
  BY DEF NewNode, NodeWith
<1>2. {c \in DOMAIN ch : ch[c] = NoOut} = 1..count
  BY <1>1
<1>3. Cardinality(1..count) = count
  BY FS_Interval
<1> QED BY <1>1, <1>2, <1>3 DEF NewNode, NodeWith

LEMMA InnerPreserves ==
    ASSUME NEW J, NEW T, NEW U, NEW J2, NEW T2, NEW U2, NEW job, NEW count,
           NEW n, Types(J, T, U), TreeInv(J, T, U), Live(J, T),
           Visited(J, U), InnerStep(J, T, U, J2, T2, U2, job, count, n)
    PROVE  TreeInv(J2, T2, U2) /\ Live(J2, T2) /\ Visited(J2, U2)
<1> DEFINE K(c) == KidJob(n, job.path, c)
           node == NewNode(job, count)
<1>1. /\ job \in J /\ job.kind = "unfold" /\ count \in Nat \ {0}
      /\ n \in Nat \ {0} /\ n \notin DOMAIN T
      /\ \A i \in DOMAIN T : i < n
      /\ J2 = (J \ {job}) \cup {K(c) : c \in 1..count}
  BY DEF InnerStep, Types
<1>2. job.path \in Path /\ job.loc \in NodeLocation
  BY <1>1 DEF Types, Job
<1>3. \A c \in 1..count : /\ K(c).kind = "unfold"
                          /\ K(c).path = Child(job.path, c)
                          /\ K(c).loc = [node_index |-> n, child_index |-> c]
                          /\ K(c).loc.node_index = n
                          /\ K(c).loc.child_index = c
  BY DEF KidJob, UnfoldJob
<1> HIDE DEF K
<1>4. /\ node.parent = job.loc /\ node.context = job.path
      /\ node.children_left = count /\ DOMAIN node.children = 1..count
      /\ \A c \in 1..count : node.children[c] = NoOut
      /\ count = Cardinality({c \in DOMAIN node.children :
                                 node.children[c] = NoOut})
  BY <1>1, FreshNode
<1>5. job.path \notin DOMAIN U /\ Rooted(U, job.path)
  BY <1>1 DEF TreeInv, Fresh
<1>6. /\ DOMAIN U2 = DOMAIN U \cup {job.path}
      /\ U2[job.path] = count
      /\ \A p \in DOMAIN U : U2[p] = U[p]
  BY <1>5 DEF InnerStep
<1>7. /\ DOMAIN T2 = DOMAIN T \cup {n}
      /\ T2[n] = node
      /\ \A i \in DOMAIN T : T2[i] = T[i]
  BY <1>1 DEF InnerStep
<1> HIDE DEF node
<1>8. \A loc : Waits(T, loc) => Waits(T2, loc) /\ loc.node_index # n
  BY <1>1, <1>7 DEF Waits, RootLocation
<1>9. \A c \in 1..count : Waits(T2, K(c).loc)
  BY <1>3, <1>4, <1>7 DEF Waits
<1>10. Slots(J2, T2)
  <2>1. \A j \in J2 : Waits(T2, j.loc)
    BY <1>1, <1>8, <1>9 DEF TreeInv, Slots
  <2>2. \A i \in DOMAIN T2 : Waits(T2, T2[i].parent)
    BY <1>1, <1>4, <1>7, <1>8 DEF TreeInv, Slots
  <2>3. \A j \in J, c \in 1..count : j.loc # K(c).loc
    BY <1>3, <1>8 DEF TreeInv, Slots
  <2>4. \A j1, j2 \in J2 : j1.loc = j2.loc => j1 = j2
    <3>1. \A c, d \in 1..count : K(c).loc = K(d).loc => c = d
      <4> TAKE c, d \in 1..count
      <4> QED BY <1>3
    <3>2. \A j1, j2 \in J : j1.loc = j2.loc => j1 = j2
      BY DEF TreeInv, Slots
    <3> QED BY <1>1, <2>3, <3>1, <3>2
  <2>5. \A i, j \in DOMAIN T2 : T2[i].parent = T2[j].parent => i = j
    BY <1>1, <1>4, <1>7 DEF TreeInv, Slots
  <2>6. \A i \in DOMAIN T2 : T2[i].parent.node_index # n
    BY <1>1, <1>4, <1>7, <1>8 DEF TreeInv, Slots
  <2>7. \A j \in J2, i \in DOMAIN T2 : j.loc # T2[i].parent
    <3> TAKE j \in J2, i \in DOMAIN T2
    <3>1. CASE j \in J /\ j # job
      BY <1>1, <1>4, <1>7, <3>1 DEF TreeInv, Slots
    <3>2. CASE j \in {K(c) : c \in 1..count}
      <4>1. PICK c \in 1..count : j = K(c)
        BY <3>2
      <4>2. j.loc.node_index = n
        BY <1>3, <4>1
      <4> QED BY <2>6, <4>2
    <3> QED BY <1>1, <3>1, <3>2
  <2> QED BY <2>1, <2>2, <2>4, <2>5, <2>7 DEF Slots
<1>11. Nodes(T2, U2)
  <2>1. job.loc.node_index < n
    BY <1>1, <1>2 DEF TreeInv, Slots, Waits, RootLocation, NodeLocation
  <2>2. NodeOK(n, node, U2)
    BY <1>1, <1>4, <1>6, <2>1 DEF NodeOK
  <2>3. \A i \in DOMAIN T : NodeOK(i, T[i], U2)
    BY <1>6 DEF TreeInv, Nodes, NodeOK
  <2> QED BY <1>7, <2>2, <2>3 DEF Nodes
<1>12. Paths(J2, T2)
  <2>1. \A loc, path : Waits(T, loc) /\ PathAt(T, loc, path)
                          => PathAt(T2, loc, path)
    BY <1>7, <1>8 DEF PathAt
  <2>2. \A c \in 1..count : PathAt(T2, K(c).loc, K(c).path)
    <3> TAKE c \in 1..count
    <3>1. K(c).loc.node_index = n /\ K(c).loc.child_index = c
      BY <1>3
    <3>2. RootLocation.node_index = 0
      BY DEF RootLocation
    <3>3. K(c).path = Child(job.path, c)
      BY <1>3
    <3> QED BY <1>1, <1>4, <1>7, <3>1, <3>2, <3>3 DEF PathAt
  <2>3. \A j \in J2 : PathAt(T2, j.loc, j.path)
    BY <1>1, <2>1, <2>2 DEF TreeInv, Paths, Slots
  <2>4. \A i \in DOMAIN T2 : PathAt(T2, T2[i].parent, T2[i].context)
    BY <1>1, <1>4, <1>7, <2>1 DEF TreeInv, Paths, Slots
  <2> QED BY <2>3, <2>4 DEF Paths
<1>13. Live(J2, T2)
  <2>1. \A loc : Owned(J, T, loc) => Owned(J2, T2, loc)
    BY <1>1, <1>4, <1>7 DEF Owned
  <2>2. \A c \in 1..count :
           Owned(J2, T2, [node_index |-> n, child_index |-> c])
    BY <1>1, <1>3 DEF Owned
  <2> QED BY <1>4, <1>7, <2>1, <2>2 DEF Live
<1>14. Fresh(J2, U2)
  <2>1. \A c \in 1..count : /\ Child(job.path, c) # <<>>
                            /\ Child(job.path, c) \in Path
    BY <1>2, ChildNotRoot
  <2>2. \A q \in Path, c \in 1..count, d \in Nat :
           Child(job.path, c) = Child(q, d) => q = job.path /\ c = d
    BY <1>2, ChildInjective
  <2>3. \A c \in 1..count : ~Rooted(U, Child(job.path, c))
    BY <1>5, <2>1, <2>2 DEF Rooted, Types
  <2>4. \A c \in 1..count : Child(job.path, c) \notin DOMAIN U2
    BY <1>5, <1>6, <2>3 DEF TreeInv, Fresh
  <2>5. \A p : Rooted(U, p) => Rooted(U2, p)
    BY <1>6 DEF Rooted
  <2>6. \A c \in 1..count : Rooted(U2, Child(job.path, c))
    BY <1>6 DEF Rooted
  <2>7. \A j \in J \ {job} : j.kind = "unfold" =>
           j.path \notin DOMAIN U2 /\ Rooted(U2, j.path)
    BY <1>1, <1>6, <2>5 DEF TreeInv, Fresh
  <2>8. \A c \in 1..count : K(c).path \notin DOMAIN U2
                            /\ Rooted(U2, K(c).path)
    BY <1>3, <2>4, <2>6
  <2>9. \A p \in DOMAIN U2 : Rooted(U2, p)
    BY <1>5, <1>6, <2>5 DEF TreeInv, Fresh
  <2>10. \A j \in J, c \in 1..count :
            j.kind = "unfold" => j.path # K(c).path
    <3>1. \A j \in J : j.kind = "unfold" => Rooted(U, j.path)
      BY DEF TreeInv, Fresh
    <3>2. \A c \in 1..count : ~Rooted(U, K(c).path)
      BY <1>3, <2>3
    <3> QED BY <3>1, <3>2
  <2>11. \A c, d \in 1..count : K(c).path = K(d).path => c = d
    <3> TAKE c, d \in 1..count
    <3>1. d \in Nat
      OBVIOUS
    <3>2. Child(job.path, c) = Child(job.path, d) => c = d
      BY <1>2, <2>2, <3>1
    <3>3. K(c).path = Child(job.path, c) /\ K(d).path = Child(job.path, d)
      BY <1>3
    <3> QED BY <3>2, <3>3
  <2>12. \A j1, j2 \in J2 :
            j1.kind = "unfold" /\ j2.kind = "unfold" /\ j1.path = j2.path
                => j1 = j2
    BY <1>1, <2>10, <2>11 DEF TreeInv, Fresh
  <2> QED BY <1>1, <2>7, <2>8, <2>9, <2>12 DEF Fresh
<1>15. Visited(J2, U2)
  <2>1. \A p : Reached(J, U, p) => Reached(J2, U2, p)
    BY <1>1, <1>6 DEF Reached
  <2>2. \A c \in 1..count : Reached(J2, U2, Child(job.path, c))
    BY <1>1, <1>3 DEF Reached
  <2> QED BY <1>6, <2>1, <2>2 DEF Visited
<1>16. Folds(J2, U2)
  <2>1. \A j \in J : ArgsOK(U, j) => ArgsOK(U2, j)
    BY <1>6 DEF ArgsOK
  <2> QED BY <1>1, <1>3, <2>1 DEF TreeInv, Folds
<1> QED BY <1>10, <1>11, <1>12, <1>13, <1>14, <1>15, <1>16 DEF TreeInv

\* The node T[i] with the result of `job' in its slot.
FilledNode(node, job) ==
    [node EXCEPT !.children[job.loc.child_index] = SomeOut(job.path),
                 !.children_left = @ - 1]

\* What filling the slot of a fold's result finds and leaves.
FillResult(T, job) ==
    LET i == job.loc.node_index
        c == job.loc.child_index
        node == FilledNode(T[i], job)
    IN  /\ i \in DOMAIN T
        /\ T[i] \in Node
        /\ c \in DOMAIN T[i].children
        /\ T[i].children[c] = NoOut
        /\ job.path = Child(T[i].context, c)
        /\ node \in Node
        /\ node.parent = T[i].parent
        /\ node.context = T[i].context
        /\ DOMAIN node.children = DOMAIN T[i].children
        /\ node.children[c] = SomeOut(job.path)
        /\ node.children[c] # NoOut
        /\ \A d \in DOMAIN node.children :
              d # c => node.children[d] = T[i].children[d]
        /\ node.children_left =
              Cardinality({d \in DOMAIN node.children :
                              node.children[d] = NoOut})
        /\ IsFiniteSet({d \in DOMAIN node.children :
                           node.children[d] = NoOut})

LEMMA FillFacts ==
    ASSUME NEW J, NEW T, NEW U, NEW job \in J, Types(J, T, U),
           TreeInv(J, T, U), job.loc.node_index # 0
    PROVE  FillResult(T, job)
<1> DEFINE i == job.loc.node_index
           c == job.loc.child_index
           node == FilledNode(T[i], job)
<1>1. job.loc \in NodeLocation /\ job.path \in Path
  BY DEF Types, Job
<1>2. job.loc # RootLocation
  BY DEF RootLocation
<1>3. /\ i \in DOMAIN T
      /\ c \in DOMAIN T[i].children
      /\ T[i].children[c] = NoOut
  BY <1>2 DEF TreeInv, Slots, Waits
<1>4. job.path = Child(T[i].context, c)
  BY <1>3 DEF TreeInv, Paths, PathAt
<1>5. T[i] \in Node
  BY <1>3 DEF Types
<1>6. /\ T[i].children \in Seq(Seq(Path)) /\ T[i].children_left \in Nat
      /\ T[i].parent \in NodeLocation /\ T[i].context \in Path
  BY <1>5 DEF Node
<1>7. /\ T[i].children_left # 0
      /\ T[i].children_left = Cardinality({d \in DOMAIN T[i].children :
                                              T[i].children[d] = NoOut})
  BY <1>3 DEF TreeInv, Nodes, NodeOK
<1>8. SomeOut(job.path) \in Seq(Path) /\ SomeOut(job.path) # NoOut
  BY <1>1 DEF SomeOut, NoOut
<1>18. node = FilledNode(T[i], job)
  OBVIOUS
<1> HIDE DEF i, c, node
<1>9. node = [parent |-> T[i].parent, context |-> T[i].context,
              children |-> [T[i].children EXCEPT ![c] = SomeOut(job.path)],
              children_left |-> T[i].children_left - 1]
  BY <1>5, <1>18 DEF Node, FilledNode, c
<1>10. [T[i].children EXCEPT ![c] = SomeOut(job.path)] \in Seq(Seq(Path))
  BY <1>3, <1>6, <1>8
<1>11. node \in Node
  BY <1>6, <1>7, <1>9, <1>10 DEF Node
<1>12. /\ DOMAIN node.children = DOMAIN T[i].children
       /\ node.children[c] = SomeOut(job.path)
       /\ \A d \in DOMAIN node.children :
             d # c => node.children[d] = T[i].children[d]
  BY <1>3, <1>9
<1> DEFINE Old == {d \in DOMAIN T[i].children : T[i].children[d] = NoOut}
           New == {d \in DOMAIN node.children : node.children[d] = NoOut}
<1>13. c \in Old /\ New = Old \ {c}
  BY <1>3, <1>8, <1>12
<1>14. IsFiniteSet(Old)
  <2>1. IsFiniteSet(DOMAIN T[i].children)
    BY <1>6, SeqDomainFinite
  <2> QED BY <2>1, FS_Subset
<1> HIDE DEF New, Old
<1>15. IsFiniteSet(New) /\ Cardinality(New) = Cardinality(Old) - 1
  BY <1>13, <1>14, FS_RemoveElement
<1>16. node.children_left = Cardinality(New)
  BY <1>7, <1>9, <1>15 DEF Old
<1>17. node.parent = T[i].parent /\ node.context = T[i].context
  BY <1>9
<1> QED BY <1>3, <1>4, <1>5, <1>8, <1>11, <1>12, <1>15, <1>16, <1>17
        DEF New, i, c, node, FillResult

\* A fold that is not the last one its parent waits for.
FillStep(J, T, J2, T2, job) ==
    LET i == job.loc.node_index
    IN  /\ job \in J
        /\ i # 0
        /\ J2 = J \ {job}
        /\ DOMAIN T2 = DOMAIN T
        /\ T2[i] = FilledNode(T[i], job)
        /\ \A k \in DOMAIN T : k # i => T2[k] = T[k]
        /\ T2[i].children_left # 0

LEMMA FillPreserves ==
    ASSUME NEW J, NEW T, NEW U, NEW J2, NEW T2, NEW job,
           job.kind = "fold", Types(J, T, U), TreeInv(J, T, U), Live(J, T),
           Visited(J, U), FillStep(J, T, J2, T2, job)
    PROVE  TreeInv(J2, T2, U) /\ Live(J2, T2) /\ Visited(J2, U)
<1> DEFINE i == job.loc.node_index
           c == job.loc.child_index
           node == FilledNode(T[i], job)
<1>1. /\ job \in J /\ i # 0 /\ J2 = J \ {job}
      /\ DOMAIN T2 = DOMAIN T /\ T2[i] = node
      /\ \A k \in DOMAIN T : k # i => T2[k] = T[k]
      /\ node.children_left # 0
  BY DEF FillStep
<1>2. /\ i \in DOMAIN T
      /\ c \in DOMAIN T[i].children
      /\ T[i].children[c] = NoOut
      /\ job.path = Child(T[i].context, c)
      /\ node.parent = T[i].parent /\ node.context = T[i].context
      /\ DOMAIN node.children = DOMAIN T[i].children
      /\ node.children[c] = SomeOut(job.path)
      /\ node.children[c] # NoOut
      /\ \A d \in DOMAIN node.children :
            d # c => node.children[d] = T[i].children[d]
      /\ node.children_left =
            Cardinality({d \in DOMAIN node.children :
                            node.children[d] = NoOut})
  <2>1. job \in J /\ job.loc.node_index # 0
    BY <1>1
  <2>2. FillResult(T, job)
    BY <2>1, FillFacts
  <2> QED BY <2>2 DEF FillResult
<1>3. job.loc \in NodeLocation
      /\ job.loc = [node_index |-> i, child_index |-> c]
  BY <1>1 DEF Types, Job, NodeLocation
<1> HIDE DEF node, i, c
<1>4. \A k \in DOMAIN T : /\ T2[k].parent = T[k].parent
                          /\ T2[k].context = T[k].context
                          /\ DOMAIN T2[k].children = DOMAIN T[k].children
  BY <1>1, <1>2
<1>5. \A loc \in NodeLocation :
         Waits(T, loc) /\ loc # job.loc => Waits(T2, loc)
  <2> SUFFICES ASSUME NEW loc \in NodeLocation, Waits(T, loc),
                      loc # job.loc, loc # RootLocation
               PROVE  Waits(T2, loc)
    BY DEF Waits
  <2>1. /\ loc.node_index \in DOMAIN T
        /\ loc.child_index \in DOMAIN T[loc.node_index].children
        /\ T[loc.node_index].children[loc.child_index] = NoOut
    BY DEF Waits
  <2>2. loc.node_index = i => loc.child_index # c
    BY <1>3 DEF NodeLocation
  <2>3. T2[loc.node_index].children[loc.child_index] = NoOut
    <3>1. CASE loc.node_index = i
      BY <1>1, <1>2, <2>1, <2>2, <3>1
    <3>2. CASE loc.node_index # i
      BY <1>1, <2>1, <3>2
    <3> QED BY <3>1, <3>2
  <2> QED BY <1>1, <1>4, <2>1, <2>3 DEF Waits
<1>6. \A j \in J : j.loc \in NodeLocation
  BY DEF Types, Job
<1>7. \A k \in DOMAIN T : T[k].parent \in NodeLocation
  BY DEF Types, Node
<1>8. Slots(J2, T2)
  <2>1. \A j \in J2 : j.loc # job.loc
    BY <1>1 DEF TreeInv, Slots
  <2>2. \A k \in DOMAIN T : T[k].parent # job.loc
    BY <1>1 DEF TreeInv, Slots
  <2>3. \A j \in J2 : Waits(T2, j.loc)
    BY <1>1, <1>5, <1>6, <2>1 DEF TreeInv, Slots
  <2>4. \A k \in DOMAIN T : Waits(T2, T2[k].parent)
    BY <1>4, <1>5, <1>7, <2>2 DEF TreeInv, Slots
  <2> QED BY <1>1, <1>4, <2>3, <2>4 DEF TreeInv, Slots
<1>9. Nodes(T2, U)
  <2>1. NodeOK(i, T[i], U)
    BY <1>2 DEF TreeInv, Nodes
  <2>2. NodeOK(i, node, U)
    BY <1>1, <1>2, <2>1 DEF NodeOK
  <2> QED BY <1>1, <2>2 DEF TreeInv, Nodes
<1>10. Paths(J2, T2)
  <2>1. \A loc, path : PathAt(T, loc, path) => PathAt(T2, loc, path)
    BY <1>1, <1>4 DEF PathAt
  <2> QED BY <1>1, <1>4, <2>1 DEF TreeInv, Paths
<1>11. Live(J2, T2)
  <2>1. \A loc : Owned(J, T, loc) /\ loc # job.loc => Owned(J2, T2, loc)
    BY <1>1, <1>4 DEF Owned
  <2>2. RootLocation # job.loc
    BY <1>1 DEF RootLocation, i
  <2>3. ASSUME NEW k \in DOMAIN T2, NEW d \in DOMAIN T2[k].children,
               T2[k].children[d] = NoOut
        PROVE  Owned(J2, T2, [node_index |-> k, child_index |-> d])
    <3>1. ~(k = i /\ d = c)
      BY <1>1, <1>2, <2>3
    <3>2. T[k].children[d] = NoOut /\ d \in DOMAIN T[k].children
      BY <1>1, <1>2, <1>4, <2>3, <3>1
    <3>3. Owned(J, T, [node_index |-> k, child_index |-> d])
      BY <1>1, <3>2 DEF Live
    <3>4. [node_index |-> k, child_index |-> d] # job.loc
      BY <1>3, <3>1
    <3> QED BY <2>1, <3>3, <3>4
  <2> QED BY <2>1, <2>2, <2>3 DEF Live
<1>12. Fresh(J2, U) /\ Folds(J2, U)
  BY <1>1 DEF TreeInv, Fresh, Folds
<1>13. Visited(J2, U)
  <2>1. \A p : Reached(J, U, p) => Reached(J2, U, p)
    BY <1>1 DEF Reached
  <2> QED BY <2>1 DEF Visited
<1> QED BY <1>8, <1>9, <1>10, <1>11, <1>12, <1>13 DEF TreeInv

\* The last fold a node waits for: the node goes and its own fold is queued.
FinishStep(J, T, J2, T2, job) ==
    LET i == job.loc.node_index
        node == FilledNode(T[i], job)
    IN  /\ job \in J
        /\ i # 0
        /\ node.children_left = 0
        /\ J2 = (J \ {job})
                \cup {FoldJob(node.parent, node.context, node.children)}
        /\ DOMAIN T2 = DOMAIN T \ {i}
        /\ \A k \in DOMAIN T : k # i => T2[k] = T[k]

LEMMA FinishPreserves ==
    ASSUME NEW J, NEW T, NEW U, NEW J2, NEW T2, NEW job,
           job.kind = "fold", Types(J, T, U), TreeInv(J, T, U), Live(J, T),
           Visited(J, U), FinishStep(J, T, J2, T2, job)
    PROVE  TreeInv(J2, T2, U) /\ Live(J2, T2) /\ Visited(J2, U)
<1> DEFINE i == job.loc.node_index
           c == job.loc.child_index
           node == FilledNode(T[i], job)
           new == FoldJob(node.parent, node.context, node.children)
<1>1. /\ job \in J /\ i # 0 /\ node.children_left = 0
      /\ J2 = (J \ {job}) \cup {new}
      /\ DOMAIN T2 = DOMAIN T \ {i}
      /\ \A k \in DOMAIN T : k # i => T2[k] = T[k]
  BY DEF FinishStep
<1>2. /\ i \in DOMAIN T
      /\ c \in DOMAIN T[i].children
      /\ T[i].children[c] = NoOut
      /\ job.path = Child(T[i].context, c)
      /\ node.parent = T[i].parent /\ node.context = T[i].context
      /\ DOMAIN node.children = DOMAIN T[i].children
      /\ node.children[c] = SomeOut(job.path)
      /\ \A d \in DOMAIN node.children :
            d # c => node.children[d] = T[i].children[d]
      /\ node.children_left =
            Cardinality({d \in DOMAIN node.children :
                            node.children[d] = NoOut})
      /\ IsFiniteSet({d \in DOMAIN node.children :
                         node.children[d] = NoOut})
      /\ node \in Node
  <2>1. job \in J /\ job.loc.node_index # 0
    BY <1>1
  <2>2. FillResult(T, job)
    BY <2>1, FillFacts
  <2> QED BY <2>2 DEF FillResult
<1>3. /\ new.kind = "fold" /\ new.loc = T[i].parent
      /\ new.path = T[i].context /\ new.args = node.children
  BY <1>2 DEF FoldJob
<1>4. job.loc \in NodeLocation
      /\ job.loc = [node_index |-> i, child_index |-> c]
  BY <1>1 DEF Types, Job, NodeLocation
<1> HIDE DEF i, c, node, new
<1>5. \A d \in DOMAIN node.children : node.children[d] # NoOut
  <2>1. {d \in DOMAIN node.children : node.children[d] = NoOut} = {}
    BY <1>1, <1>2, FS_EmptySet
  <2> QED BY <2>1
<1>6. \A d \in DOMAIN T[i].children : d # c => T[i].children[d] # NoOut
  BY <1>2, <1>5
<1>7. NodeOK(i, T[i], U)
  BY <1>2 DEF TreeInv, Nodes
<1>8. \A loc \in NodeLocation :
         Waits(T, loc) /\ loc # job.loc
            => Waits(T2, loc) /\ loc.node_index # i
  <2> SUFFICES ASSUME NEW loc \in NodeLocation, Waits(T, loc),
                      loc # job.loc
               PROVE  Waits(T2, loc) /\ loc.node_index # i
    OBVIOUS
  <2>1. CASE loc = RootLocation
    BY <1>1, <2>1 DEF Waits, RootLocation
  <2>2. CASE loc # RootLocation
    <3>1. /\ loc.node_index \in DOMAIN T
          /\ loc.child_index \in DOMAIN T[loc.node_index].children
          /\ T[loc.node_index].children[loc.child_index] = NoOut
      BY <2>2 DEF Waits
    <3>2. loc.node_index = i => loc.child_index # c
      BY <1>4 DEF NodeLocation
    <3>3. loc.node_index # i
      BY <1>6, <3>1, <3>2
    <3> QED BY <1>1, <3>1, <3>3 DEF Waits
  <2> QED BY <2>1, <2>2
<1>9. \A j \in J : j.loc \in NodeLocation
  BY DEF Types, Job
<1>10. \A k \in DOMAIN T : T[k].parent \in NodeLocation
  BY DEF Types, Node
<1>11. \A j \in J \ {job} : j.loc # job.loc
  BY <1>1 DEF TreeInv, Slots
<1>12. \A k \in DOMAIN T : T[k].parent # job.loc
  BY <1>1 DEF TreeInv, Slots
<1>13. /\ \A j \in J \ {job} : Waits(T2, j.loc) /\ j.loc.node_index # i
       /\ \A k \in DOMAIN T : /\ Waits(T2, T[k].parent)
                              /\ T[k].parent.node_index # i
  BY <1>1, <1>8, <1>9, <1>10, <1>11, <1>12 DEF TreeInv, Slots
<1>14. Slots(J2, T2)
  <2>1. \A j \in J2 : Waits(T2, j.loc)
    BY <1>1, <1>2, <1>3, <1>13
  <2>2. \A k \in DOMAIN T2 : Waits(T2, T2[k].parent)
    BY <1>1, <1>13
  <2>3. \A j1, j2 \in J2 : j1.loc = j2.loc => j1 = j2
    BY <1>1, <1>2, <1>3 DEF TreeInv, Slots
  <2>4. \A k, l \in DOMAIN T2 : T2[k].parent = T2[l].parent => k = l
    BY <1>1 DEF TreeInv, Slots
  <2>5. \A j \in J2, k \in DOMAIN T2 : j.loc # T2[k].parent
    BY <1>1, <1>2, <1>3 DEF TreeInv, Slots
  <2> QED BY <2>1, <2>2, <2>3, <2>4, <2>5 DEF Slots
<1>15. Nodes(T2, U)
  BY <1>1 DEF TreeInv, Nodes
<1>16. Paths(J2, T2)
  <2>1. \A loc, path : PathAt(T, loc, path) => PathAt(T2, loc, path)
    BY <1>1 DEF PathAt
  <2> QED BY <1>1, <1>2, <1>3, <2>1 DEF TreeInv, Paths
<1>17. Live(J2, T2)
  <2>1. \A loc : Owned(J, T, loc) /\ loc # job.loc => Owned(J2, T2, loc)
    BY <1>1, <1>2, <1>3 DEF Owned
  <2>2. RootLocation # job.loc
    BY <1>1 DEF RootLocation, i
  <2>3. ASSUME NEW k \in DOMAIN T2, NEW d \in DOMAIN T2[k].children,
               T2[k].children[d] = NoOut
        PROVE  Owned(J2, T2, [node_index |-> k, child_index |-> d])
    <3>1. k \in DOMAIN T /\ k # i /\ T2[k] = T[k]
      BY <1>1
    <3>2. Owned(J, T, [node_index |-> k, child_index |-> d])
      BY <2>3, <3>1 DEF Live
    <3>3. [node_index |-> k, child_index |-> d] # job.loc
      BY <1>4, <3>1
    <3> QED BY <2>1, <3>2, <3>3
  <2> QED BY <2>1, <2>2, <2>3 DEF Live
<1>18. Fresh(J2, U)
  BY <1>1, <1>3 DEF TreeInv, Fresh
<1>19. Visited(J2, U)
  <2>1. \A p : Reached(J, U, p) => Reached(J2, U, p)
    BY <1>1 DEF Reached
  <2> QED BY <2>1 DEF Visited
<1>20. Folds(J2, U)
  <2>1. T[i].context \in DOMAIN U
        /\ DOMAIN T[i].children = 1..U[T[i].context]
    BY <1>7 DEF NodeOK
  <2>2. \A d \in DOMAIN node.children :
           node.children[d] = SomeOut(Child(T[i].context, d))
    BY <1>2, <1>6, <1>7 DEF NodeOK
  <2>3. node.children \in [DOMAIN node.children -> Seq(Path)]
    <3>1. node.children \in Seq(Seq(Path))
      BY <1>2 DEF Node
    <3> QED BY <3>1
  <2>4. node.children = [d \in 1..U[T[i].context] |->
                            SomeOut(Child(T[i].context, d))]
    BY <1>2, <2>1, <2>2, <2>3
  <2>5. ArgsOK(U, new)
    BY <1>3, <2>1, <2>4 DEF ArgsOK
  <2> QED BY <1>1, <2>5 DEF TreeInv, Folds
<1> QED BY <1>14, <1>15, <1>16, <1>17, <1>18, <1>19, <1>20 DEF TreeInv

\* A job leaves without a successor: the root's fold, or a failure.
LEMMA DropPreserves ==
    ASSUME NEW J, NEW T, NEW U, NEW job, TreeInv(J, T, U)
    PROVE  TreeInv(J \ {job}, T, U)
BY DEF TreeInv, Slots, Paths, Fresh, Folds

-----------------------------------------------------------------------------
(* Well-foundedness of the execution tree.                                 *)

\* As long as something waits, some job is under way.
LEMMA SomeJob ==
    ASSUME NEW J, NEW T, NEW U, NEW bound \in Nat, Types(J, T, U),
           DOMAIN T \subseteq 1..bound, TreeInv(J, T, U), Live(J, T)
    PROVE  J # {}
<1> SUFFICES ASSUME J = {} PROVE FALSE
  OBVIOUS
<1>1. DOMAIN T # {}
  BY DEF Live, Owned
<1> DEFINE S == {bound - i : i \in DOMAIN T}
<1>2. S \in SUBSET Nat /\ S # {}
  BY <1>1
<1>3. PICK m \in S : \A k \in S : m <= k
  BY <1>2, SmallestNat
<1>4. PICK i \in DOMAIN T : m = bound - i
  OBVIOUS
<1>5. \A k \in DOMAIN T : k <= i
  <2> TAKE k \in DOMAIN T
  <2>1. bound - i <= bound - k
    BY <1>3, <1>4
  <2> QED BY <2>1
<1> HIDE DEF S
<1>6. PICK c \in DOMAIN T[i].children : T[i].children[c] = NoOut
  <2>1. /\ T[i].children_left # 0
        /\ T[i].children_left = Cardinality({c \in DOMAIN T[i].children :
                                                T[i].children[c] = NoOut})
    BY DEF TreeInv, Nodes, NodeOK
  <2>2. {c \in DOMAIN T[i].children : T[i].children[c] = NoOut} # {}
    BY <2>1, FS_EmptySet
  <2> QED BY <2>2
<1>7. Owned(J, T, [node_index |-> i, child_index |-> c])
  BY <1>6 DEF Live
<1>8. PICK k \in DOMAIN T :
         T[k].parent = [node_index |-> i, child_index |-> c]
  BY <1>7 DEF Owned
<1>9. i < k
  <2>1. NodeOK(k, T[k], U)
    BY DEF TreeInv, Nodes
  <2>2. T[k].parent.node_index < k
    BY <2>1 DEF NodeOK
  <2> QED BY <1>8, <2>2
<1> QED BY <1>5, <1>9

\* When the root's slot belongs to a job, nothing else is left.
LEMMA RootAlone ==
    ASSUME NEW J, NEW T, NEW U, Types(J, T, U), TreeInv(J, T, U),
           NEW job \in J, job.loc.node_index = 0
    PROVE  DOMAIN T = {} /\ J = {job}
<1>1. 0 \notin DOMAIN T
  BY DEF Types
<1>2. job.loc = RootLocation
  BY <1>1 DEF TreeInv, Slots, Waits
<1>3. ASSUME DOMAIN T # {} PROVE FALSE
  <2>1. DOMAIN T \in SUBSET Nat
    BY DEF Types
  <2>2. PICK m \in DOMAIN T : \A k \in DOMAIN T : m <= k
    BY <1>3, <2>1, SmallestNat
  <2>3. Waits(T, T[m].parent) /\ T[m].parent # job.loc
    BY DEF TreeInv, Slots
  <2>4. T[m].parent.node_index \in DOMAIN T
    BY <1>2, <2>3 DEF Waits
  <2>5. T[m].parent.node_index < m
    BY DEF TreeInv, Nodes, NodeOK
  <2> QED BY <2>1, <2>2, <2>4, <2>5
<1>4. \A j \in J : j.loc = RootLocation
  BY <1>3 DEF TreeInv, Slots, Waits
<1>5. \A j \in J : j = job
  BY <1>2, <1>4 DEF TreeInv, Slots
<1> QED BY <1>3, <1>5

-----------------------------------------------------------------------------
(* The theorems.                                                           *)

LEMMA Parameters ==
    ASSUME TypeOK, DOMAIN unfolded \subseteq Path
    PROVE  Types(Jobs, execution_tree, unfolded)
<1>1. Jobs \subseteq Job
  BY DEF TypeOK, Jobs, ToSet
<1>2. /\ DOMAIN execution_tree \subseteq Nat \ {0}
      /\ \A i \in DOMAIN execution_tree : execution_tree[i] \in Node
      /\ \A p \in DOMAIN unfolded : unfolded[p] \in Nat
  BY DEF TypeOK
<1> QED BY <1>1, <1>2 DEF Types

LEMMA InitInv == Init => IInv
<1> SUFFICES ASSUME Init PROVE IInv
  OBVIOUS
<1> DEFINE root == UnfoldJob(RootLocation, <<>>)
<1>1. /\ root \in Job /\ root.kind = "unfold"
      /\ root.loc = RootLocation /\ root.path = <<>>
  <2>1. <<>> \in Path
    BY DEF Path
  <2> QED BY <2>1, JobTypes DEF UnfoldJob
<1>2. unscheduled = <<root>> /\ scheduled = {} /\ pc = "schedule"
  BY DEF Init
<1>3. /\ execution_tree = <<>> /\ unfolded = <<>>
      /\ execution_tree_index = 0
      /\ DOMAIN execution_tree = {} /\ DOMAIN unfolded = {}
  BY DEF Init
<1> HIDE DEF root
<1>4. Jobs = {root}
  BY <1>2 DEF Jobs, ToSet
<1>5. IsFiniteSet(scheduled) /\ Cardinality(scheduled) = 0
  BY <1>2, FS_EmptySet
<1>6. TypeOK
  <2>1. unscheduled \in Seq(Job)
    BY <1>1, <1>2
  <2>2. /\ execution_tree \in [DOMAIN execution_tree -> Node]
        /\ unfolded \in [DOMAIN unfolded -> Nat]
    BY <1>3
  <2> QED BY <1>2, <1>3, <1>5, <2>1, <2>2 DEF TypeOK
<1>7. ScheduledBound
  BY <1>5, BTConstants DEF ScheduledBound
<1>8. QueueDistinct
  BY <1>2 DEF QueueDistinct
<1>9. TreeInv(Jobs, execution_tree, unfolded)
  BY <1>1, <1>3, <1>4
     DEF TreeInv, Slots, Waits, Nodes, Paths, PathAt, Fresh, Rooted, Folds,
         RootLocation
<1>10. Live(Jobs, execution_tree)
  BY <1>1, <1>3, <1>4 DEF Live, Owned
<1>11. Visited(Jobs, unfolded)
  BY <1>1, <1>3, <1>4 DEF Visited, Reached
<1> QED BY <1>2, <1>3, <1>6, <1>7, <1>8, <1>9, <1>10, <1>11
        DEF IInv, NeverSpins

\* Schedule only moves jobs, and moves at least one into an empty pool.
LEMMA ScheduleInv == IInv /\ Schedule => IInv'
<1> SUFFICES ASSUME IInv, Schedule PROVE IInv'
  OBVIOUS
<1>1. TypeOK /\ ScheduledBound /\ QueueDistinct
  BY DEF IInv
<1>2. /\ Jobs' = Jobs /\ unscheduled' \in Seq(Job)
      /\ scheduled' \subseteq Job /\ IsFiniteSet(scheduled')
      /\ ScheduledBound' /\ QueueDistinct'
      /\ Jobs # {} => scheduled' # {}
  BY <1>1, ScheduleJobs
<1>3. /\ pc = "schedule" /\ pc' = "run"
      /\ execution_tree' = execution_tree
      /\ execution_tree_index' = execution_tree_index
      /\ unfolded' = unfolded
  BY DEF Schedule
<1>4. TypeOK'
  BY <1>1, <1>2, <1>3 DEF TypeOK
<1>5. Jobs # {}
  <2>1. Types(Jobs, execution_tree, unfolded)
    BY <1>1, Parameters DEF IInv
  <2>2. Live(Jobs, execution_tree) /\ TreeInv(Jobs, execution_tree, unfolded)
    BY <1>3 DEF IInv
  <2>3. execution_tree_index \in Nat
        /\ DOMAIN execution_tree \subseteq 1..execution_tree_index
    BY <1>1 DEF TypeOK
  <2> QED BY <2>1, <2>2, <2>3, SomeJob
<1>6. NeverSpins'
  BY <1>2, <1>5 DEF NeverSpins
<1> QED BY <1>2, <1>3, <1>4, <1>6 DEF IInv

LEMMA UnfoldInv == IInv /\ UnfoldDone => IInv'
<1> SUFFICES ASSUME IInv, UnfoldDone PROVE IInv'
  OBVIOUS
<1>1. PICK job \in scheduled, count \in 0..MaxChildren :
         /\ job.kind = "unfold"
         /\ scheduled' = scheduled \ {job}
         /\ ProcessUnfold(job, count)
  BY DEF UnfoldDone
<1>2. pc = "run" /\ pc' = "schedule"
  BY DEF UnfoldDone
<1>3. TypeOK /\ ScheduledBound /\ QueueDistinct
      /\ DOMAIN unfolded \subseteq Path
      /\ TreeInv(Jobs, execution_tree, unfolded)
      /\ Live(Jobs, execution_tree) /\ Visited(Jobs, unfolded)
  BY <1>2 DEF IInv
<1>4. Types(Jobs, execution_tree, unfolded)
  BY <1>3, Parameters
<1>5. job \in Jobs /\ job \in Job /\ count \in Nat
      /\ job.path \in Path /\ job.loc \in NodeLocation
  <2>1. job \in Jobs
    BY DEF Jobs
  <2>2. job \in Job
    BY <1>4, <2>1 DEF Types
  <2> QED BY <2>1, <2>2, BTConstants DEF Job
<1> DEFINE n == execution_tree_index + 1
<1>6. execution_tree_index \in Nat /\ n \in Nat \ {0}
  BY <1>3 DEF TypeOK
<1>7. /\ execution_tree_index' = n
      /\ unfolded' = [p \in DOMAIN unfolded \cup {job.path} |->
                         IF p = job.path THEN count ELSE unfolded[p]]
  BY <1>1 DEF ProcessUnfold
<1>8. /\ DOMAIN unfolded' = DOMAIN unfolded \cup {job.path}
      /\ unfolded'[job.path] = count
      /\ \A p \in DOMAIN unfolded : p # job.path => unfolded'[p] = unfolded[p]
      /\ unfolded' \in [DOMAIN unfolded' -> Nat]
      /\ DOMAIN unfolded' \subseteq Path
  BY <1>3, <1>5, <1>7 DEF TypeOK
<1>9. CASE count = 0
  <2> DEFINE fold == FoldJob(job.loc, job.path, <<>>)
             new == <<fold>>
  <2>1. fold \in Job /\ fold.kind = "fold" /\ fold.loc = job.loc
    <3>1. <<>> \in Seq(Seq(Path))
      OBVIOUS
    <3> QED BY <1>5, <3>1, JobTypes DEF FoldJob
  <2>2. unscheduled' = new \o unscheduled /\ execution_tree' = execution_tree
    BY <1>1, <1>9 DEF ProcessUnfold
  <2>3. fold \notin Jobs
    <3> SUFFICES ASSUME fold \in Jobs PROVE FALSE
      OBVIOUS
    <3>1. fold = job
      BY <1>3, <1>5, <2>1 DEF TreeInv, Slots
    <3> QED BY <1>1, <2>1, <3>1
  <2> HIDE DEF fold
  <2>4. /\ new \in Seq(Job) /\ DOMAIN new = {1} /\ new[1] = fold
        /\ ToSet(new) = {fold}
    BY <2>1 DEF ToSet
  <2>5. /\ \A i, j \in DOMAIN new : new[i] = new[j] => i = j
        /\ \A i \in DOMAIN new : new[i] \notin Jobs
    BY <2>3, <2>4
  <2> HIDE DEF new
  <2>6. /\ Jobs' = (Jobs \ {job}) \cup {fold}
        /\ unscheduled' \in Seq(Job) /\ scheduled' \subseteq Job
        /\ IsFiniteSet(scheduled') /\ ScheduledBound' /\ QueueDistinct'
    BY <1>1, <1>3, <2>2, <2>4, <2>5, QueueStep
  <2>7. LeafStep(Jobs, unfolded, Jobs', unfolded', job)
    BY <1>1, <1>5, <1>8, <1>9, <2>6 DEF LeafStep, fold
  <2>8. /\ TreeInv(Jobs', execution_tree, unfolded')
        /\ Live(Jobs', execution_tree) /\ Visited(Jobs', unfolded')
    BY <1>3, <1>4, <2>7, LeafPreserves
  <2>9. TypeOK'
    <3>1. DOMAIN execution_tree \subseteq 1..n
          /\ execution_tree \in [DOMAIN execution_tree -> Node]
      BY <1>3, <1>6 DEF TypeOK
    <3> QED BY <1>2, <1>6, <1>7, <1>8, <2>2, <2>6, <3>1 DEF TypeOK
  <2> QED BY <1>2, <1>8, <2>2, <2>6, <2>8, <2>9 DEF IInv, NeverSpins
<1>10. CASE count # 0
  <2> DEFINE new == ChildJobs(n, job.path, count)
             node == NewNode(job, count)
  <2>1. /\ unscheduled' = new \o unscheduled
        /\ execution_tree' = [i \in DOMAIN execution_tree \cup {n} |->
               IF i = n THEN node ELSE execution_tree[i]]
    BY <1>1, <1>10 DEF ProcessUnfold
  <2>2. node \in Node
    BY <1>5, NewNodeType
  <2>3. /\ new \in Seq(Job) /\ Len(new) = count
        /\ \A i \in 1..count :
              new[i].loc = [node_index |-> n, child_index |-> count + 1 - i]
    BY <1>5, <1>6, ChildJobsType
  <2>4. ToSet(new) = {KidJob(n, job.path, c) : c \in 1..count}
    BY <1>5, <1>6, ChildSet
  <2> HIDE DEF new, node
  <2>5. /\ DOMAIN new = 1..count
        /\ \A i \in 1..count :
              /\ new[i].loc.node_index = n
              /\ new[i].loc.child_index = count + 1 - i
    <3>1. DOMAIN new = 1..count
      BY <2>3
    <3>2. ASSUME NEW i \in 1..count
          PROVE  /\ new[i].loc.node_index = n
                 /\ new[i].loc.child_index = count + 1 - i
      <4>1. new[i].loc = [node_index |-> n, child_index |-> count + 1 - i]
        BY <2>3
      <4> QED BY <4>1
    <3> QED BY <3>1, <3>2
  <2>6. \A i, j \in DOMAIN new : new[i] = new[j] => i = j
    <3> TAKE i, j \in DOMAIN new
    <3> HAVE new[i] = new[j]
    <3>1. count + 1 - i = count + 1 - j
      BY <2>5
    <3> QED BY <1>5, <2>5, <3>1
  <2>7. n \notin DOMAIN execution_tree
        /\ \A i \in DOMAIN execution_tree : i < n /\ i \in Nat
    BY <1>3, <1>6 DEF TypeOK
  <2>8. \A j \in Jobs : j.loc.node_index # n
    BY <1>3, <1>6, <2>7 DEF TreeInv, Slots, Waits, RootLocation
  <2>9. \A i \in DOMAIN new : new[i] \notin Jobs
    BY <2>5, <2>8
  <2>10. /\ Jobs' = (Jobs \ {job}) \cup ToSet(new)
         /\ unscheduled' \in Seq(Job) /\ scheduled' \subseteq Job
         /\ IsFiniteSet(scheduled') /\ ScheduledBound' /\ QueueDistinct'
    BY <1>1, <1>3, <2>1, <2>3, <2>6, <2>9, QueueStep
  <2>11. /\ DOMAIN execution_tree' = DOMAIN execution_tree \cup {n}
         /\ execution_tree'[n] = node
         /\ \A i \in DOMAIN execution_tree :
               i # n => execution_tree'[i] = execution_tree[i]
         /\ execution_tree' \in [DOMAIN execution_tree' -> Node]
    BY <1>3, <2>1, <2>2 DEF TypeOK
  <2>12. InnerStep(Jobs, execution_tree, unfolded, Jobs', execution_tree',
                   unfolded', job, count, n)
    BY <1>1, <1>5, <1>6, <1>8, <1>10, <2>4, <2>7, <2>10, <2>11
       DEF InnerStep, node
  <2>13. /\ TreeInv(Jobs', execution_tree', unfolded')
         /\ Live(Jobs', execution_tree') /\ Visited(Jobs', unfolded')
    BY <1>3, <1>4, <2>12, InnerPreserves
  <2>14. TypeOK'
    <3>1. DOMAIN execution_tree' \subseteq 1..n
      BY <1>3, <1>6, <2>11 DEF TypeOK
    <3> QED BY <1>2, <1>6, <1>7, <1>8, <2>10, <2>11, <3>1 DEF TypeOK
  <2> QED BY <1>2, <1>8, <2>10, <2>13, <2>14 DEF IInv, NeverSpins
<1> QED BY <1>9, <1>10

LEMMA FoldInv == IInv /\ FoldDone => IInv'
<1> SUFFICES ASSUME IInv, FoldDone PROVE IInv'
  OBVIOUS
<1>1. PICK job \in scheduled : /\ job.kind = "fold"
                               /\ job.loc.node_index # 0
                               /\ scheduled' = scheduled \ {job}
                               /\ ProcessFold(job)
  BY DEF FoldDone
<1>2. pc = "run" /\ pc' = "schedule"
  BY DEF FoldDone
<1>3. TypeOK /\ ScheduledBound /\ QueueDistinct
      /\ DOMAIN unfolded \subseteq Path
      /\ TreeInv(Jobs, execution_tree, unfolded)
      /\ Live(Jobs, execution_tree) /\ Visited(Jobs, unfolded)
  BY <1>2 DEF IInv
<1>4. Types(Jobs, execution_tree, unfolded)
  BY <1>3, Parameters
<1>5. job \in Jobs
  BY DEF Jobs
<1> DEFINE i == job.loc.node_index
           node == FilledNode(execution_tree[i], job)
<1>6. FillResult(execution_tree, job)
  BY <1>1, <1>3, <1>4, <1>5, FillFacts
<1>7. i \in DOMAIN execution_tree /\ node \in Node
      /\ node.parent = execution_tree[i].parent
      /\ node.context = execution_tree[i].context
  BY <1>6 DEF FillResult
<1>8. node = Filled(job)
  BY DEF FilledNode, Filled
<1>9. /\ execution_tree_index' = execution_tree_index
      /\ unfolded' = unfolded
      /\ \/ /\ node.children_left # 0
            /\ execution_tree' = [execution_tree EXCEPT ![i] = node]
            /\ unscheduled' = unscheduled
         \/ /\ node.children_left = 0
            /\ execution_tree' = [j \in DOMAIN execution_tree \ {i} |->
                                     execution_tree[j]]
            /\ unscheduled' = <<FoldJob(node.parent, node.context,
                                        node.children)>> \o unscheduled
  BY <1>1, <1>8 DEF ProcessFold
<1> HIDE DEF node
<1>10. CASE node.children_left # 0
  <2>1. execution_tree' = [execution_tree EXCEPT ![i] = node]
        /\ unscheduled' = unscheduled
    BY <1>9, <1>10
  <2>2. unscheduled' = <<>> \o unscheduled
    BY <1>3, <2>1 DEF TypeOK
  <2>3. ToSet(<<>>) = {} /\ <<>> \in Seq(Job) /\ DOMAIN <<>> = {}
    BY DEF ToSet
  <2>4. /\ Jobs' = (Jobs \ {job}) \cup ToSet(<<>>)
        /\ unscheduled' \in Seq(Job) /\ scheduled' \subseteq Job
        /\ IsFiniteSet(scheduled') /\ ScheduledBound' /\ QueueDistinct'
    BY <1>1, <1>3, <2>2, <2>3, QueueStep
  <2>5. /\ DOMAIN execution_tree' = DOMAIN execution_tree
        /\ execution_tree'[i] = node
        /\ \A k \in DOMAIN execution_tree :
              k # i => execution_tree'[k] = execution_tree[k]
        /\ execution_tree' \in [DOMAIN execution_tree' -> Node]
    BY <1>3, <1>7, <2>1 DEF TypeOK
  <2>6. FillStep(Jobs, execution_tree, Jobs', execution_tree', job)
    BY <1>1, <1>5, <1>10, <2>3, <2>4, <2>5 DEF FillStep, node
  <2>7. /\ TreeInv(Jobs', execution_tree', unfolded)
        /\ Live(Jobs', execution_tree') /\ Visited(Jobs', unfolded)
    BY <1>1, <1>3, <1>4, <2>6, FillPreserves
  <2>8. TypeOK'
    BY <1>2, <1>3, <1>9, <2>4, <2>5 DEF TypeOK
  <2> QED BY <1>2, <1>3, <1>9, <2>4, <2>7, <2>8 DEF IInv, NeverSpins
<1>11. CASE node.children_left = 0
  <2> DEFINE fold == FoldJob(node.parent, node.context, node.children)
             new == <<fold>>
  <2>1. /\ execution_tree' = [j \in DOMAIN execution_tree \ {i} |->
                                 execution_tree[j]]
        /\ unscheduled' = new \o unscheduled
    BY <1>9, <1>11
  <2>2. fold \in Job /\ fold.loc = execution_tree[i].parent
    <3>1. /\ node.parent \in NodeLocation /\ node.context \in Path
          /\ node.children \in Seq(Seq(Path))
      BY <1>7 DEF Node
    <3> QED BY <1>7, <3>1, JobTypes DEF FoldJob
  <2> HIDE DEF fold
  <2>3. fold \notin Jobs
    BY <1>3, <1>7, <2>2 DEF TreeInv, Slots
  <2>4. /\ new \in Seq(Job) /\ DOMAIN new = {1} /\ new[1] = fold
        /\ ToSet(new) = {fold}
    BY <2>2 DEF ToSet
  <2>5. /\ \A k, j \in DOMAIN new : new[k] = new[j] => k = j
        /\ \A k \in DOMAIN new : new[k] \notin Jobs
    BY <2>3, <2>4
  <2> HIDE DEF new
  <2>6. /\ Jobs' = (Jobs \ {job}) \cup {fold}
        /\ unscheduled' \in Seq(Job) /\ scheduled' \subseteq Job
        /\ IsFiniteSet(scheduled') /\ ScheduledBound' /\ QueueDistinct'
    BY <1>1, <1>3, <2>1, <2>4, <2>5, QueueStep
  <2>7. /\ DOMAIN execution_tree' = DOMAIN execution_tree \ {i}
        /\ \A k \in DOMAIN execution_tree :
              k # i => execution_tree'[k] = execution_tree[k]
        /\ execution_tree' \in [DOMAIN execution_tree' -> Node]
    BY <1>3, <2>1 DEF TypeOK
  <2>8. FinishStep(Jobs, execution_tree, Jobs', execution_tree', job)
    BY <1>1, <1>5, <1>11, <2>6, <2>7 DEF FinishStep, node, fold
  <2>9. /\ TreeInv(Jobs', execution_tree', unfolded)
        /\ Live(Jobs', execution_tree') /\ Visited(Jobs', unfolded)
    BY <1>1, <1>3, <1>4, <2>8, FinishPreserves
  <2>10. TypeOK'
    BY <1>2, <1>3, <1>9, <2>6, <2>7 DEF TypeOK
  <2> QED BY <1>2, <1>3, <1>9, <2>6, <2>9, <2>10 DEF IInv, NeverSpins
<1> QED BY <1>10, <1>11

\* The last step of a traversal, good or bad.
LEMMA EndInv == IInv /\ (RootDone \/ JobFailed) => IInv'
<1> SUFFICES ASSUME IInv, RootDone \/ JobFailed PROVE IInv'
  OBVIOUS
<1>1. PICK job \in scheduled :
         /\ scheduled' = scheduled \ {job}
         /\ \/ pc' = "err"
            \/ pc' = "ok" /\ job.kind = "fold" /\ job.loc.node_index = 0
  BY DEF RootDone, JobFailed
<1>2. /\ pc = "run" /\ unscheduled' = unscheduled
      /\ execution_tree' = execution_tree
      /\ execution_tree_index' = execution_tree_index
      /\ unfolded' = unfolded
  BY DEF RootDone, JobFailed
<1>3. TypeOK /\ ScheduledBound /\ QueueDistinct
      /\ DOMAIN unfolded \subseteq Path
      /\ TreeInv(Jobs, execution_tree, unfolded)
      /\ Visited(Jobs, unfolded)
  BY <1>2 DEF IInv
<1>4. unscheduled' = <<>> \o unscheduled
  BY <1>2, <1>3 DEF TypeOK
<1>5. ToSet(<<>>) = {} /\ <<>> \in Seq(Job) /\ DOMAIN <<>> = {}
  BY DEF ToSet
<1>6. /\ Jobs' = (Jobs \ {job}) \cup ToSet(<<>>)
      /\ unscheduled' \in Seq(Job) /\ scheduled' \subseteq Job
      /\ IsFiniteSet(scheduled') /\ ScheduledBound' /\ QueueDistinct'
  BY <1>1, <1>3, <1>4, <1>5, QueueStep
<1>7. Jobs' = Jobs \ {job}
  BY <1>5, <1>6
<1>8. TreeInv(Jobs', execution_tree, unfolded)
  BY <1>3, <1>7, DropPreserves
<1>9. TypeOK'
  BY <1>1, <1>2, <1>3, <1>6 DEF TypeOK
<1>10. ASSUME pc' = "ok"
       PROVE  Jobs' = {} /\ Visited(Jobs', unfolded)
  <2>1. job.kind = "fold" /\ job.loc.node_index = 0 /\ job \in Jobs
    BY <1>1, <1>10 DEF Jobs
  <2>2. Jobs = {job}
    BY <1>3, <2>1, Parameters, RootAlone
  <2>3. \A p : Reached(Jobs, unfolded, p) => Reached(Jobs', unfolded, p)
    BY <2>1, <2>2 DEF Reached
  <2> QED BY <1>3, <1>7, <2>2, <2>3 DEF Visited
<1> QED BY <1>1, <1>2, <1>3, <1>6, <1>8, <1>9, <1>10 DEF IInv, NeverSpins

LEMMA StepInv == IInv /\ [Next]_vars => IInv'
<1> SUFFICES ASSUME IInv, [Next]_vars PROVE IInv'
  OBVIOUS
<1>1. CASE Schedule
  BY <1>1, ScheduleInv
<1>2. CASE UnfoldDone
  BY <1>2, UnfoldInv
<1>3. CASE FoldDone
  BY <1>3, FoldInv
<1>4. CASE RootDone
  BY <1>4, EndInv
<1>5. CASE JobFailed
  BY <1>5, EndInv
<1>6. CASE Returned \/ UNCHANGED vars
  <2>1. UNCHANGED vars
    BY <1>6 DEF Returned
  <2>2. /\ pc' = pc /\ unscheduled' = unscheduled /\ scheduled' = scheduled
        /\ execution_tree' = execution_tree /\ unfolded' = unfolded
        /\ execution_tree_index' = execution_tree_index
    BY <2>1 DEF vars
  <2>3. Jobs' = Jobs
    BY <2>2 DEF Jobs
  <2>4. TypeOK' /\ ScheduledBound' /\ QueueDistinct' /\ NeverSpins'
    BY <2>2 DEF IInv, TypeOK, ScheduledBound, QueueDistinct, NeverSpins
  <2> QED BY <2>2, <2>3, <2>4 DEF IInv
<1> QED BY <1>1, <1>2, <1>3, <1>4, <1>5, <1>6 DEF Next

\* The invariant holds in every reachable state of BoundedTraversal, for
\* every bound on concurrency and every tree.
LEMMA Invariance == Spec => []IInv
BY InitInv, StepInv, PTL DEF Spec

\* The fields of BoundedTraversal keep their types: children_left and the
\* node indices never drop below zero.
THEOREM TypeCorrect == Spec => []TypeOK
<1>1. IInv => TypeOK
  BY DEF IInv
<1> QED BY <1>1, Invariance, PTL

\* poll() never runs more than scheduled_max futures, so the subtraction
\* scheduled_max - scheduled.len() cannot underflow.
THEOREM BoundKept == Spec => []ScheduledBound
<1>1. IInv => ScheduledBound
  BY DEF IInv
<1> QED BY <1>1, Invariance, PTL

\* The expect() and the debug_assert of process_fold never fail, and no
\* child slot is filled twice.
THEOREM SlotsCorrect == Spec => []SlotsOwned
<1>1. IInv => SlotsOwned
  BY DEF IInv, TreeInv, Slots, Waits, SlotsOwned, Awaited
<1> QED BY <1>1, Invariance, PTL

\* The three asserts poll() makes when the root's fold completes hold.
THEOREM RootCorrect == Spec => []RootFoldLast
<1>1. ASSUME IInv PROVE RootFoldLast
  <2> SUFFICES ASSUME NEW job \in Jobs, job.loc.node_index = 0
               PROVE  /\ DOMAIN execution_tree = {}
                      /\ Jobs = {job}
                      /\ scheduled # {} => unscheduled = <<>>
    BY DEF RootFoldLast
  <2>1. DOMAIN execution_tree = {} /\ Jobs = {job}
    BY <1>1, Parameters, RootAlone DEF IInv
  <2>2. ASSUME scheduled # {} PROVE unscheduled = <<>>
    <3>1. scheduled = {job}
      BY <2>1, <2>2 DEF Jobs
    <3>2. \A i \in DOMAIN unscheduled :
             unscheduled[i] \in Jobs /\ unscheduled[i] \notin scheduled
      BY <1>1 DEF IInv, QueueDistinct, Jobs, ToSet
    <3>3. DOMAIN unscheduled = {}
      BY <2>1, <3>1, <3>2
    <3>4. unscheduled \in Seq(Job)
      BY <1>1 DEF IInv, TypeOK
    <3> QED BY <3>3, <3>4
  <2> QED BY <2>1, <2>2
<1> QED BY <1>1, Invariance, PTL

\* poll() never goes round its loop with an empty pool.
THEOREM NoBusyLoop == Spec => []NeverSpins
<1>1. IInv => NeverSpins
  BY DEF IInv
<1> QED BY <1>1, Invariance, PTL

\* Every fold is given the results of all the children of its value, in
\* order.
THEOREM FoldsCorrect == Spec => []FoldGetsChildren
<1>1. IInv => FoldGetsChildren
  BY DEF IInv, TreeInv, Folds, ArgsOK, FoldGetsChildren
<1> QED BY <1>1, Invariance, PTL

\* A traversal that returns Ok has unfolded the whole tree.
THEOREM VisitCorrect == Spec => []WholeTreeVisited
<1>1. IInv => WholeTreeVisited
  BY DEF IInv, Visited, Reached, WholeTreeVisited
<1> QED BY <1>1, Invariance, PTL

=============================================================================
