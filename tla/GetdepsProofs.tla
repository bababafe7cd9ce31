---------------------------- MODULE GetdepsProofs ----------------------------
(***************************************************************************)
(* Proofs about getdeps for any consistent manifests, any command lines    *)
(* and any number of changes and kills.                                    *)
(***************************************************************************)
EXTENDS Getdeps, SequenceLemmas

Fields == {"pc", "args", "deps", "seen", "order", "todo", "i", "use",
           "reconfigure", "changed", "n", "at", "keep"}
IsProc == proc = [x \in Fields |-> proc[x]]

\* Where the loop is at a project, and where it fetches an archive.
Fetching == {"remove", "fetch", "unpack", "unpacking", "hash"}
Updating == {"update", "list"} \cup Fetching
Building == {"mkdir", "patch", "sentinel", "build", "step", "install", "marker",
             "upload"}
Working == {"download", "extract", "status", "deps", "decide"} \cup Updating
              \cup Building
Pcs == {"idle", "done", "failed", "test", "clean", "order", "next"} \cup Working

\* The registers of the process have their types, and the loop is at a project.
ProcOK ==
    /\ IsProc
    /\ loader \in Loads
    /\ proc.pc \in Pcs
    /\ proc.pc # "idle" => proc.args \in Commands
    /\ proc.deps \in Seq(Projects) /\ proc.order \in Seq(Projects)
    /\ proc.i \in Nat \ {0}
    /\ proc.pc \in Working => proc.i <= Len(proc.order)

\* How a step of the loop moves the process: within a project or to the next.
Stays ==
    /\ IsProc'
    /\ proc'.args = proc.args /\ proc'.deps = proc.deps
    /\ proc'.order = proc.order
Moves(pcs) == Stays /\ proc'.pc \in pcs /\ proc'.i = proc.i
Passes == Stays /\ proc'.pc = "next" /\ proc'.i = proc.i + 1
Fails == Moves({"failed"})
Still == loader' = loader /\ upstream' = upstream

-----------------------------------------------------------------------------

LEMMA GotoMoves ==
    ASSUME IsProc, NEW x
    PROVE  /\ Goto(x) => Moves({x}) /\ proc'.todo = proc.todo
           /\ Skip => Passes
           /\ Fail => Fails
<1> USE DEF IsProc, Fields, Stays
<1>1. Goto(x) => Moves({x}) /\ proc'.todo = proc.todo
  BY DEF Goto, Moves
<1>2. Skip => Passes
  BY DEF Skip, Passes
<1>3. Fail => Fails
  BY DEF Fail, Fails, Goto, Moves
<1> QED
  BY <1>1, <1>2, <1>3

LEMMA UpdatedMoves ==
    ASSUME IsProc, NEW b, NEW c, Updated(b, c)
    PROVE  IF proc.args.cmd = "fetch" THEN Passes ELSE Moves({"deps"})
<1>1. CASE proc.args.cmd = "fetch"
  BY <1>1, GotoMoves DEF Updated
<1>2. CASE proc.args.cmd # "fetch"
  BY <1>2 DEF Updated, IsProc, Fields, Stays, Moves
<1> QED
  BY <1>1, <1>2

\* Where every step of the loop leads.
LEMMA DownloadMoves ==
    ASSUME IsProc
    PROVE  /\ CacheMiss => proc.pc = "download" /\ Moves({"status"}) /\ Still
           /\ CacheExtract => proc.pc = "download" /\ Moves({"extract"}) /\ Still
           /\ CacheExtracted => proc.pc = "extract" /\ Passes /\ Still
           /\ CacheExtractFailed => proc.pc = "extract" /\ Moves({"status"}) /\ Still
<1> USE DEF Still, fixed
<1>1. CacheMiss => proc.pc = "download" /\ Moves({"status"}) /\ Still
  BY GotoMoves DEF CacheMiss
<1>2. CacheExtract => proc.pc = "download" /\ Moves({"extract"}) /\ Still
  BY GotoMoves DEF CacheExtract
<1>3. CacheExtracted => proc.pc = "extract" /\ Passes /\ Still
  BY GotoMoves DEF CacheExtracted
<1>4. CacheExtractFailed => proc.pc = "extract" /\ Moves({"status"}) /\ Still
  BY GotoMoves DEF CacheExtractFailed
<1> QED
  BY <1>1, <1>2, <1>3, <1>4

LEMMA StatusMoves ==
    ASSUME IsProc, Status
    PROVE  /\ proc.pc = "status" /\ Still
           /\ IF proc.args.cmd = "fetch" THEN Passes \/ Moves({"update"})
              ELSE Moves({"update", "deps"})
<1> DEFINE same == Marked(D) /\ inst[D].marker = ProjectHash(M)
           back == [proc EXCEPT !.pc = "update", !.use = FALSE]
           late == [proc EXCEPT !.pc = "update", !.use = FALSE,
                         !.reconfigure = TRUE, !.changed = TRUE]
           fine == [proc EXCEPT !.pc = "update", !.use = TRUE]
<1>1. /\ proc.pc = "status" /\ Still
      /\ \/ proc.args.cmd = "fetch" /\ (Skip \/ proc' = back)
         \/ proc.args.cmd # "fetch" /\ (Goto("deps") \/ proc' \in {late, fine})
  <2> HIDE DEF same, back, late, fine
  <2>1. Still /\ proc.pc = "status"
    BY DEF Status, Still, fixed
  <2>2. CASE proc.args.cmd = "fetch"
    BY <2>1, <2>2 DEF Status, same, back
  <2>3. CASE proc.args.cmd # "fetch"
    BY <2>1, <2>3 DEF Status, same, late, fine
  <2> QED
    BY <2>1, <2>2, <2>3
<1>2. proc' = back \/ proc' = late \/ proc' = fine => Moves({"update"})
  BY DEF IsProc, Fields, Moves, Stays
<1>3. Goto("deps") => Moves({"deps"})
  BY GotoMoves
<1>4. Moves({"update"}) \/ Moves({"deps"}) => Moves({"update", "deps"})
  BY DEF Moves
<1>5. Skip => Passes
  BY GotoMoves
<1> QED
  <2> HIDE DEF back, late, fine
  <2> QED
    BY <1>1, <1>2, <1>3, <1>4, <1>5

\* What a step of fetcher.update() does besides its change of the disk.
LEMMA FetchMoves ==
    ASSUME IsProc, Fetch
    PROVE  /\ proc.pc \in Updating /\ Still
           /\ \/ proc.args.cmd = "fetch" /\ Passes
              \/ proc.args.cmd # "fetch" /\ Moves({"deps"})
              \/ Moves(Updating \cup {"failed"})
<1> DEFINE Result == /\ proc.pc \in Updating /\ Still
                     /\ \/ proc.args.cmd = "fetch" /\ Passes
                        \/ proc.args.cmd # "fetch" /\ Moves({"deps"})
                        \/ Moves(Updating \cup {"failed"})
<1> USE DEF Still, fixed, Updating, Fetching
<1>1. ASSUME NEW x \in Updating \cup {"failed"}, Goto(x)
      PROVE  Moves(Updating \cup {"failed"})
  BY <1>1, GotoMoves DEF Moves
<1>2. Fail => Moves(Updating \cup {"failed"})
  BY GotoMoves DEF Fails, Moves
<1>3. ASSUME NEW b, NEW c, Updated(b, c)
      PROVE  \/ proc.args.cmd = "fetch" /\ Passes
             \/ proc.args.cmd # "fetch" /\ Moves({"deps"})
  BY <1>3, UpdatedMoves
<1>4. CASE UpdateLocal
  BY <1>3, <1>4 DEF UpdateLocal
<1>5. CASE \E f \in Files : MirrorFile(f)
  <2>1. PICK f \in Files : MirrorFile(f)
    BY <1>5
  <2>2. Record(f) \in {"reconfigure", "changed"}
    BY DEF Record
  <2>3. Moves({"update"})
    BY <2>1, <2>2 DEF MirrorFile, IsProc, Fields, Set, Moves, Stays
  <2> QED
    BY <2>1, <2>3 DEF MirrorFile, Moves
<1>6. CASE MirrorRemove
  BY <1>1, <1>2, <1>6 DEF MirrorRemove
<1>7. CASE MirrorDone
  <2>1. Updated("make" \in Removed, "src" \in Removed) /\ proc.pc = "list" /\ Still
    BY <1>7 DEF MirrorDone
  <2> QED
    BY <1>3, <2>1
<1>8. CASE GitClone
  <2>1. Moves({"update"})
    BY <1>8 DEF GitClone, IsProc, Fields, Moves, Stays
  <2> QED
    BY <1>8, <2>1 DEF GitClone, Moves
<1>9. CASE GitUpdate
  <2>1. /\ proc.pc = "update" /\ Still
        /\ Fail \/ Updated(src[M] # upstream[M], src[M] # upstream[M])
    BY <1>9 DEF GitUpdate
  <2> QED
    BY <1>2, <1>3, <2>1
<1>10. CASE ArchiveCheck
  BY <1>1, <1>3, <1>10 DEF ArchiveCheck
<1>11. CASE ArchiveRemove
  <2>1. proc' = [proc EXCEPT !.pc = "fetch", !.n = 0] => Moves({"fetch"})
    BY DEF IsProc, Fields, Moves, Stays
  <2> QED
    BY <1>1, <1>11, <2>1 DEF ArchiveRemove, Moves
<1>12. CASE Attempt
  <2>1. proc' = Set("n", proc.n + 1) \/ proc' = Set("pc", "failed")
          => Moves({"fetch", "failed"}) \/ proc.pc # "fetch"
    BY DEF IsProc, Fields, Moves, Stays, Set
  <2> QED
    BY <1>1, <1>2, <1>12, <2>1 DEF Attempt, Moves
<1>13. CASE Unpack \/ Unpacked
  BY <1>1, <1>13 DEF Unpack, Unpacked
<1>14. CASE WriteHash
  BY <1>3, <1>14 DEF WriteHash
<1> QED
  BY <1>4, <1>5, <1>6, <1>7, <1>8, <1>9, <1>10, <1>11, <1>12, <1>13, <1>14 DEF Fetch

Prepared == IF Prepares(M) THEN <<"copy">> ELSE <<>>

LEMMA BuildMoves ==
    ASSUME IsProc
    PROVE  /\ DepStatus => proc.pc = "deps" /\ Moves({"decide"}) /\ Still
           /\ Decide => /\ proc.pc = "decide" /\ Still
                        /\ Passes \/ Moves({"mkdir"})
           /\ MakeBuildDir => proc.pc = "mkdir" /\ Moves({"build", "patch"}) /\ Still
           /\ ApplyPatch => /\ proc.pc = "patch" /\ Still
                            /\ Moves({"build", "sentinel", "failed"})
           /\ TouchSentinel => proc.pc = "sentinel" /\ Moves({"build"}) /\ Still
           /\ Plan => /\ proc.pc = "build" /\ Moves({"step"}) /\ Still
                      /\ proc'.todo = Prepared \o BuildPlan(Builder(M), Observed)
                      /\ proc'.reconfigure = proc.reconfigure
           /\ BuildStep => /\ proc.pc = "step" /\ Moves({"step"}) /\ Still
                           /\ proc'.todo = Tail(proc.todo)
                           /\ proc'.reconfigure = proc.reconfigure
           /\ InstallStart => /\ proc.pc = "step" /\ Still
                              /\ proc'.reconfigure = proc.reconfigure
                              /\ \/ Moves({"step"}) /\ proc'.todo = <<>>
                                 \/ Moves({"install"}) /\ proc'.todo = proc.todo
           /\ InstallDone => /\ proc.pc = "install" /\ Moves({"step"}) /\ Still
                             /\ proc'.todo = Tail(proc.todo)
                             /\ proc'.reconfigure = proc.reconfigure
           /\ BuildFailed => proc.pc \in {"step", "install"} /\ Fails /\ Still
           /\ BuildFinished => proc.pc = "step" /\ Moves({"marker"}) /\ Still
           /\ WriteMarker => /\ proc.pc = "marker" /\ Still
                             /\ Passes \/ Moves({"upload"})
           /\ Upload => proc.pc = "upload" /\ Passes /\ Still
<1> USE DEF Still, fixed
<1>1. DepStatus => proc.pc = "deps" /\ Moves({"decide"}) /\ Still
  BY DEF DepStatus, Goto, Moves, Stays, IsProc, Fields
<1>2. Decide => proc.pc = "decide" /\ Still /\ (Passes \/ Moves({"mkdir"}))
  BY GotoMoves DEF Decide
<1>3. MakeBuildDir => proc.pc = "mkdir" /\ Moves({"build", "patch"}) /\ Still
  BY DEF MakeBuildDir, Goto, Moves, Stays, IsProc, Fields
<1>4. ApplyPatch => /\ proc.pc = "patch" /\ Still
                    /\ Moves({"build", "sentinel", "failed"})
  BY GotoMoves DEF ApplyPatch, Moves, Fails
<1>5. TouchSentinel => proc.pc = "sentinel" /\ Moves({"build"}) /\ Still
  BY GotoMoves DEF TouchSentinel
<1>6. Plan => /\ proc.pc = "build" /\ Moves({"step"}) /\ Still
              /\ proc'.todo = Prepared \o BuildPlan(Builder(M), Observed)
              /\ proc'.reconfigure = proc.reconfigure
  BY DEF Plan, Prepared, Moves, Stays, IsProc, Fields
<1>7. BuildStep => /\ proc.pc = "step" /\ Moves({"step"}) /\ Still
                   /\ proc'.todo = Tail(proc.todo) /\ proc'.reconfigure = proc.reconfigure
  BY DEF BuildStep, Set, Moves, Stays, IsProc, Fields
<1>8. InstallStart => /\ proc.pc = "step" /\ Still
                      /\ proc'.reconfigure = proc.reconfigure
                      /\ \/ Moves({"step"}) /\ proc'.todo = <<>>
                         \/ Moves({"install"}) /\ proc'.todo = proc.todo
  BY DEF InstallStart, Set, Goto, Moves, Stays, IsProc, Fields
<1>9. InstallDone => /\ proc.pc = "install" /\ Moves({"step"}) /\ Still
                     /\ proc'.todo = Tail(proc.todo)
                     /\ proc'.reconfigure = proc.reconfigure
  BY DEF InstallDone, Moves, Stays, IsProc, Fields
<1>10. BuildFailed => proc.pc \in {"step", "install"} /\ Fails /\ Still
  BY GotoMoves DEF BuildFailed
<1>11. BuildFinished => proc.pc = "step" /\ Moves({"marker"}) /\ Still
  BY GotoMoves DEF BuildFinished
<1>12. WriteMarker => proc.pc = "marker" /\ Still /\ (Passes \/ Moves({"upload"}))
  BY GotoMoves DEF WriteMarker
<1>13. Upload => proc.pc = "upload" /\ Passes /\ Still
  BY GotoMoves DEF Upload
<1> QED
  BY <1>1, <1>2, <1>3, <1>4, <1>5, <1>6, <1>7, <1>8, <1>9, <1>10, <1>11, <1>12, <1>13

LEMMA NextMoves ==
    ASSUME IsProc, NextProject
    PROVE  /\ proc.pc = "next" /\ proc.i <= Len(proc.order) /\ Still
           /\ Passes \/ Moves({"download"})
<1>1. proc' = [proc EXCEPT !.pc = "download", !.n = 0, !.reconfigure = FALSE,
                           !.changed = FALSE] => Moves({"download"})
  BY DEF Moves, Stays, IsProc, Fields
<1> QED
  BY <1>1, GotoMoves DEF NextProject, Still, fixed

-----------------------------------------------------------------------------

LEMMA RangeIsToSet == \A s : Range(s) = ToSet(s)
  BY DEF Range, ToSet

\* The loop over a list of dependencies queues members of it, and none only
\* if all of them are done.
LEMMA UnseenFacts ==
    ASSUME NEW S, NEW list \in Seq(S)
    PROVE  /\ Unseen(list) \in Seq(S)
           /\ Range(Unseen(list)) \subseteq Range(list)
           /\ Unseen(list) = <<>> => Range(list) \subseteq proc.seen
<1> DEFINE Rule(w, k) == IF list[k] \in proc.seen THEN w ELSE Append(w, list[k])
           Rec(f, n) == f = [k \in 0..n |-> IF k = 0 THEN <<>>
                                            ELSE Rule(f[k - 1], k)]
           Bad == {n \in Nat : ~ \E f : Rec(f, n)}
<1>1. Bad = {}
  <2>1. SUFFICES ASSUME Bad # {} PROVE FALSE
    OBVIOUS
  <2>2. PICK n \in Bad : \A k \in Bad : n <= k
    <3> Bad \in SUBSET Nat
      OBVIOUS
    <3> HIDE DEF Bad
    <3> QED BY <2>1, SmallestNat
  <2>3. n \in Nat /\ ~ \E f : Rec(f, n)
    BY <2>2
  <2> HIDE DEF Rule
  <2>4. CASE n = 0
    <3> DEFINE g == [k \in 0..0 |-> <<>>]
    <3>1. Rec(g, 0)
      OBVIOUS
    <3> HIDE DEF g
    <3>2. Rec(g, n)
      BY <3>1, <2>4
    <3> QED BY <3>2, <2>3
  <2>5. CASE n # 0
    <3>1. n - 1 \in Nat /\ n - 1 \notin Bad
      <4> HIDE DEF Bad, Rec
      <4> QED BY <2>2, <2>3, <2>5
    <3>2. PICK f : Rec(f, n - 1)
      BY <3>1
    <3> DEFINE g == [k \in 0..n |-> IF k = n THEN Rule(f[n - 1], n) ELSE f[k]]
    <3>3. \A k \in 0..n : g[k] = IF k = 0 THEN <<>> ELSE Rule(g[k - 1], k)
      BY <3>2, <2>3, <2>5
    <3>4. Rec(g, n)
      BY <3>3
    <3> QED BY <3>4, <2>3
  <2> QED BY <2>4, <2>5
<1>2. Len(list) \in Nat
  OBVIOUS
<1>3. \E f : Rec(f, Len(list))
  BY <1>1, <1>2
<1> DEFINE g == CHOOSE f : Rec(f, Len(list))
<1>4. Rec(g, Len(list))
  BY <1>3
<1>5. Unseen(list) = g[Len(list)]
  BY DEF Unseen
<1> HIDE DEF g
<1>6. g[0] = <<>>
  BY <1>4, <1>2
<1>7. \A k \in 1..Len(list) : g[k] = Rule(g[k - 1], k)
  <2> HIDE DEF Rule
  <2> QED BY <1>4, <1>2
<1> HIDE DEF Rec, Bad
<1> DEFINE Good(k) == /\ g[k] \in Seq(S)
                      /\ Range(g[k]) \subseteq Range(list)
                      /\ g[k] = <<>> => \A j \in 1..k : list[j] \in proc.seen
           Off == {k \in Nat : k <= Len(list) /\ ~ Good(k)}
<1>8. Good(0)
  BY <1>6 DEF Range
<1>9. ASSUME NEW k \in Nat, k + 1 <= Len(list), Good(k) PROVE Good(k + 1)
  <2>1. k + 1 \in 1..Len(list) /\ list[k + 1] \in S /\ list[k + 1] \in Range(list)
    BY <1>9 DEF Range
  <2>2. g[k + 1] = Rule(g[k], k + 1)
    BY <1>7, <2>1
  <2>3. CASE list[k + 1] \in proc.seen
    BY <1>9, <2>1, <2>2, <2>3
  <2>4. CASE list[k + 1] \notin proc.seen
    <3>1. g[k + 1] = Append(g[k], list[k + 1])
      BY <2>2, <2>4
    <3> HIDE DEF Rule
    <3>2. g[k + 1] \in Seq(S) /\ g[k + 1] # <<>>
      BY <1>9, <2>1, <3>1
    <3>3. Range(g[k + 1]) \subseteq Range(list)
      <4> HIDE DEF Good
      <4>1. g[k] \in Seq(S) /\ Range(g[k]) \subseteq Range(list)
        BY <1>9 DEF Good
      <4> QED
        BY <4>1, <2>1, <3>1, AppendToSet, RangeIsToSet
    <3> QED
      BY <3>2, <3>3
  <2> QED
    BY <2>3, <2>4
<1>10. Off = {}
  <2>1. SUFFICES ASSUME Off # {} PROVE FALSE
    OBVIOUS
  <2>2. PICK n \in Off : \A k \in Off : n <= k
    <3> Off \in SUBSET Nat
      OBVIOUS
    <3> HIDE DEF Off
    <3> QED BY <2>1, SmallestNat
  <2>3. n # 0
    BY <2>2, <1>8
  <2>4. n - 1 \in Nat /\ n - 1 \notin Off /\ n \in Nat /\ n <= Len(list) /\ ~ Good(n)
    <3> HIDE DEF Good
    <3> QED BY <2>2, <2>3
  <2>5. Good(n - 1)
    <3> HIDE DEF Good
    <3> QED BY <2>4, <1>2
  <2>6. Good((n - 1) + 1)
    <3> HIDE DEF Good
    <3> QED BY <2>4, <2>5, <1>9, <1>2
  <2> QED
    BY <2>4, <2>6
<1>11. Good(Len(list))
  <2> HIDE DEF Good
  <2> QED BY <1>10, <1>2
<1>12. (\A j \in 1..Len(list) : list[j] \in proc.seen) => Range(list) \subseteq proc.seen
  BY DEF Range
<1> QED
  BY <1>5, <1>11, <1>12

-----------------------------------------------------------------------------

\* The steps of the loop over the projects.
Download == CacheMiss \/ CacheExtract \/ CacheExtracted \/ CacheExtractFailed
Installs == InstallStart \/ InstallDone
Make == \/ DepStatus \/ Decide \/ MakeBuildDir \/ ApplyPatch \/ TouchSentinel
        \/ Plan \/ BuildStep \/ Installs \/ BuildFailed \/ BuildFinished
        \/ WriteMarker \/ Upload
Loop == NextProject \/ Download \/ Status \/ Fetch \/ Make

LEMMA LoopMoves ==
    ASSUME IsProc, Loop
    PROVE  /\ Still
           /\ proc.pc \in Working \/ (proc.pc = "next" /\ proc.i <= Len(proc.order))
           /\ Passes \/ Moves(Working \cup {"failed"})
<1> DEFINE all == Working \cup {"failed"}
           Here == proc.pc \in Working \/ (proc.pc = "next" /\ proc.i <= Len(proc.order))
<1>1. ASSUME NEW pcs \in SUBSET all, Moves(pcs) PROVE Moves(all)
  BY <1>1 DEF Moves
<1> HIDE DEF all
<1>2. CASE NextProject
  <2>1. Here /\ Still /\ (Passes \/ Moves({"download"}))
    BY <1>2, NextMoves
  <2>2. {"download"} \in SUBSET all
    BY DEF Working, all
  <2> QED
    BY <2>1, <2>2, <1>1 DEF all
<1>3. CASE Download
  <2>1. /\ proc.pc \in {"download", "extract"} /\ Still
        /\ Passes \/ Moves({"status"}) \/ Moves({"extract"})
    BY <1>3, DownloadMoves DEF Download
  <2>2. /\ {"status"} \in SUBSET all /\ {"extract"} \in SUBSET all
        /\ {"download", "extract"} \subseteq Working
    BY DEF Working, all
  <2> QED
    BY <2>1, <2>2, <1>1 DEF all
<1>4. CASE Status
  <2>1. /\ proc.pc = "status" /\ Still
        /\ Passes \/ Moves({"update"}) \/ Moves({"update", "deps"})
    BY <1>4, StatusMoves
  <2>2. /\ {"update"} \in SUBSET all /\ {"update", "deps"} \in SUBSET all
        /\ "status" \in Working
    BY DEF Working, Updating, all
  <2> QED
    BY <2>1, <2>2, <1>1 DEF all
<1>5. CASE Fetch
  <2>1. /\ proc.pc \in Updating /\ Still
        /\ Passes \/ Moves({"deps"}) \/ Moves(Updating \cup {"failed"})
    BY <1>5, FetchMoves
  <2>2. /\ {"deps"} \in SUBSET all /\ Updating \cup {"failed"} \in SUBSET all
        /\ Updating \subseteq Working
    BY DEF Working, Updating, all
  <2> QED
    BY <2>1, <2>2, <1>1 DEF all
<1>6. CASE Make
  <2> DEFINE Near == proc.pc \in Building \cup {"deps", "decide"}
             some == Building \cup {"decide", "failed"}
  <2>0. ASSUME NEW pcs \in SUBSET some, Moves(pcs) PROVE Moves(some)
    BY <2>0 DEF Moves
  <2>1. ASSUME DepStatus \/ Decide \/ MakeBuildDir
        PROVE  /\ Near /\ Still
               /\ \/ Passes \/ Moves({"decide"}) \/ Moves({"mkdir"})
                  \/ Moves({"build", "patch"})
    BY <2>1, BuildMoves DEF Building
  <2>2. ASSUME ApplyPatch \/ TouchSentinel \/ Plan \/ BuildStep
        PROVE  /\ Near /\ Still
               /\ \/ Moves({"build", "sentinel", "failed"}) \/ Moves({"build"})
                  \/ Moves({"step"})
    BY <2>2, BuildMoves DEF Building
  <2>3. ASSUME Installs \/ BuildFailed
        PROVE  /\ Near /\ Still
               /\ Moves({"step"}) \/ Moves({"install"}) \/ Moves({"failed"})
    BY <2>3, BuildMoves DEF Building, Installs, Fails
  <2>4. ASSUME BuildFinished \/ WriteMarker \/ Upload
        PROVE  Near /\ Still /\ (Passes \/ Moves({"marker"}) \/ Moves({"upload"}))
    BY <2>4, BuildMoves DEF Building
  <2>5. /\ {"decide"} \in SUBSET some /\ {"mkdir"} \in SUBSET some
        /\ {"build", "patch"} \in SUBSET some
        /\ {"build", "sentinel", "failed"} \in SUBSET some
        /\ {"build"} \in SUBSET some /\ {"step"} \in SUBSET some
        /\ {"install"} \in SUBSET some /\ {"failed"} \in SUBSET some
        /\ {"marker"} \in SUBSET some /\ {"upload"} \in SUBSET some
    BY DEF Building
  <2>6. some \in SUBSET all /\ (Near => proc.pc \in Working)
    BY DEF Working, all
  <2> HIDE DEF Near, some
  <2>7. Near /\ Still /\ (Passes \/ Moves(some))
    <3>1. CASE DepStatus \/ Decide \/ MakeBuildDir
      BY <3>1, <2>0, <2>1, <2>5
    <3>2. CASE ApplyPatch \/ TouchSentinel \/ Plan \/ BuildStep
      BY <3>2, <2>0, <2>2, <2>5
    <3>3. CASE Installs \/ BuildFailed
      BY <3>3, <2>0, <2>3, <2>5
    <3>4. CASE BuildFinished \/ WriteMarker \/ Upload
      BY <3>4, <2>0, <2>4, <2>5
    <3> QED
      BY <1>6, <3>1, <3>2, <3>3, <3>4 DEF Make
  <2> QED
    BY <2>6, <2>7, <1>1 DEF all
<1> QED
  BY <1>2, <1>3, <1>4, <1>5, <1>6 DEF Loop, all

\* Steps outside the loop, of which those of clean_dirs() change the disk.
Outside ==
    \/ CleanDirs
    \/ \E e \in Edits : Change(e[1], e[2], e[3])
    \/ \E args \in Commands : Start(args)
    \/ OrderStep \/ OrderDone \/ CommandDone
    \/ \E passed \in BOOLEAN : Test(passed)
    \/ Exit \/ Crash

LEMMA NextSplits == Next => Loop \/ Outside
  BY DEF Next, Step, Loop, Outside, Download, Make, Installs

\* What the assumption says of the manifests that were read.
LEMMA LoaderFacts ==
    ASSUME loader \in Loads
    PROVE  /\ Root \in Projects
           /\ \A p \in Projects : \A c \in Contexts : loader.deps[p][c] \in Seq(Projects)
           /\ \A p \in Projects : \A c, d \in Contexts :
                /\ loader.fetcher[p][c] = loader.fetcher[p][d]
                /\ loader.fetcher[p][c] # "system" => loader.builder[p][c] \in Builders
<1>1. Consistent(loader)
  BY GetdepsConstants
<1>3. Root \in Projects /\ loader.deps \in [Projects -> [Contexts -> Seq(Projects)]]
  BY <1>1 DEF Consistent, Projects
<1>4. \A p \in Projects : \A c, d \in Contexts :
          /\ loader.fetcher[p][c] = loader.fetcher[p][d]
          /\ loader.fetcher[p][c] # "system" => loader.builder[p][c] \in Builders
  BY <1>1 DEF Consistent, Projects
<1>5. \A p \in Projects : \A c \in Contexts : loader.deps[p][c] \in Seq(Projects)
  BY <1>3
<1> QED
  BY <1>3, <1>4, <1>5

\* The contexts of a command line.
LEMMA ContextFacts ==
    ASSUME proc.args \in Commands
    PROVE  /\ Setting \in Settings
           /\ \A p : Ctx(p) \in Contexts
           /\ proc.args.cmd \in {"build", "fetch", "test", "clean"}
           /\ proc.args.cmd = "build" => proc.args.recursive
<1>1. /\ proc.args.tests \in {"on", "off"} /\ proc.args.test_deps \in {"on", "off"}
      /\ proc.args.cmd \in {"build", "fetch", "test", "clean"}
      /\ proc.args.cmd = "build" => proc.args.recursive
  BY GetdepsConstants
<1>2. Setting \in Settings
  BY <1>1 DEF Setting, Settings
<1>3. \A p : Ctx(p) \in Contexts
  BY <1>1 DEF Ctx, CtxOf, Setting, Contexts
<1> QED
  BY <1>1, <1>2, <1>3

LEMMA NoProcFacts ==
    /\ NoProc = [x \in Fields |-> NoProc[x]]
    /\ NoProc.pc = "idle" /\ NoProc.i = 1
    /\ NoProc.deps = <<>> /\ NoProc.order = <<>> /\ NoProc.todo = <<>>
    /\ NoProc.seen = {}
  BY DEF NoProc, Fields

\* A step of clean_dirs() goes on cleaning, or to the loop, or ends the command.
LEMMA CleanMoves ==
    ASSUME IsProc, CleanDirs
    PROVE  /\ proc.pc = "clean" /\ Still /\ fixed' = fixed
           /\ Moves({"clean", "order", "done"}) /\ proc'.seen = proc.seen
           /\ CleanNext \/ (proc'.pc = "clean" /\ proc'.todo = proc.todo)
<1> DEFINE Result == /\ Still /\ fixed' = fixed
                     /\ Moves({"clean", "order", "done"}) /\ proc'.seen = proc.seen
                     /\ CleanNext \/ (proc'.pc = "clean" /\ proc'.todo = proc.todo)
<1>1. proc.pc = "clean"
  BY DEF CleanDirs
<1>2. ASSUME NEW x, NEW b, Begun(x, b)
      PROVE  /\ Moves({"clean", "order", "done"}) /\ proc'.seen = proc.seen
             /\ proc'.pc = "clean" /\ proc'.todo = proc.todo
  BY <1>1, <1>2 DEF Begun, Set, Moves, Stays, IsProc, Fields
<1>3. UNCHANGED proc => /\ Moves({"clean", "order", "done"}) /\ proc'.seen = proc.seen
                        /\ proc'.pc = "clean" /\ proc'.todo = proc.todo
  BY <1>1 DEF Moves, Stays, IsProc
<1>4. CASE \E d \in DOMAIN bdir : CleanBuild(d)
  <2>1. PICK d \in DOMAIN bdir : CleanBuild(d)
    BY <1>4
  <2>2. Still /\ fixed' = fixed /\ (Begun(d, TRUE) \/ Begun(d, FALSE))
    BY <2>1 DEF CleanBuild, Still, fixed
  <2> QED
    BY <1>1, <1>2, <2>2
<1>5. CASE \E d \in DOMAIN inst : CleanInstalled(d)
  <2>1. PICK d \in DOMAIN inst : CleanInstalled(d)
    BY <1>5
  <2>2. Still /\ fixed' = fixed /\ (Begun(d, TRUE) \/ Begun(d, FALSE))
    BY <2>1 DEF CleanInstalled, Still, fixed
  <2> QED
    BY <1>1, <1>2, <2>2
<1>6. CASE \E p \in Of("archive") : CleanExtracted(p)
  <2>1. PICK p \in Of("archive") : CleanExtracted(p)
    BY <1>6
  <2>2. Still /\ fixed' = fixed /\ (UNCHANGED proc \/ \E b : Begun(p, b))
    BY <2>1 DEF CleanExtracted, Shrink, Still, fixed
  <2> QED
    BY <1>1, <1>2, <1>3, <2>2
<1>7. CASE \E p \in Of("simple_shipit") : CleanShipit(p)
  <2>1. PICK p \in Of("simple_shipit") : CleanShipit(p)
    BY <1>7
  <2>2. Still /\ fixed' = fixed /\ (\E b : Begun(p, b))
    BY <2>1 DEF CleanShipit, Shrink, Still, fixed
  <2> QED
    BY <1>1, <1>2, <2>2
<1>8. CASE CleanNext
  <2>1. Still /\ fixed' = fixed
    BY <1>8 DEF CleanNext, Still, fixed
  <2>2. Moves({"clean", "order", "done"}) /\ proc'.seen = proc.seen
    BY <1>8 DEF CleanNext, Moves, Stays, IsProc, Fields
  <2> QED
    BY <1>1, <1>8, <2>1, <2>2
<1> QED
  BY <1>4, <1>5, <1>6, <1>7, <1>8 DEF CleanDirs

LEMMA StartProc ==
    ASSUME NEW args, Start(args)
    PROVE  /\ IsProc' /\ proc.pc \in {"idle", "done"}
           /\ proc'.args = args /\ proc'.i = 1 /\ proc'.seen = {}
           /\ proc'.deps = IF args.recursive THEN <<Root>> ELSE <<>>
           /\ proc'.order = IF args.recursive THEN <<>> ELSE <<Root>>
           /\ proc'.pc = IF args.clean THEN "clean"
                         ELSE IF args.cmd = "test" THEN "test" ELSE "order"
           /\ Still
<1> DEFINE a == IF args.recursive THEN <<Root>> ELSE <<>>
           b == IF args.recursive THEN <<>> ELSE <<Root>>
           c == IF args.clean THEN "clean"
                ELSE IF args.cmd = "test" THEN "test" ELSE "order"
           t == IF args.clean THEN <<"build", "installed", "extracted", "shipit">>
                ELSE <<>>
<1>1. /\ proc.pc \in {"idle", "done"} /\ Still
      /\ proc' = [NoProc EXCEPT !.args = args, !.deps = a, !.order = b, !.todo = t, !.pc = c]
  BY DEF Start, Still
<1> HIDE DEF a, b, c, t
<1>3. IsProc' /\ proc'.args = args /\ proc'.deps = a /\ proc'.order = b /\ proc'.pc = c
  BY <1>1, NoProcFacts DEF IsProc, Fields
<1>4. proc'.i = 1 /\ proc'.seen = {}
  BY <1>1, NoProcFacts DEF IsProc, Fields
<1> QED
  BY <1>1, <1>3, <1>4 DEF a, b, c

LEMMA LeaveProc ==
    ASSUME IsProc
    PROVE  /\ proc' = NoProc => IsProc' /\ proc'.pc = "idle"
           /\ CommandDone => /\ proc.pc = "next" /\ proc.i > Len(proc.order)
                             /\ IsProc' /\ proc'.pc = "done" /\ Still
                             /\ proc'.args = proc.args /\ proc'.order = proc.order
                             /\ proc'.i = 1 /\ proc'.deps = <<>>
           /\ \A passed : Test(passed) =>
                  /\ proc.pc = "test" /\ Moves({"failed", "test", "done"}) /\ Still
           /\ OrderDone => /\ proc.pc = "order" /\ proc.deps = <<>>
                           /\ Moves({"next"}) /\ Still /\ proc'.seen = proc.seen
<1>1. proc' = NoProc => IsProc' /\ proc'.pc = "idle"
  BY NoProcFacts DEF IsProc
<1>2. CommandDone => /\ proc.pc = "next" /\ proc.i > Len(proc.order)
                     /\ IsProc' /\ proc'.pc = "done" /\ Still
                     /\ proc'.args = proc.args /\ proc'.order = proc.order
                     /\ proc'.i = 1 /\ proc'.deps = <<>>
  BY NoProcFacts DEF CommandDone, IsProc, Fields, Still, fixed
<1>3. ASSUME NEW passed, Test(passed)
      PROVE  proc.pc = "test" /\ Moves({"failed", "test", "done"}) /\ Still
  <2>1. proc' = [proc EXCEPT !.pc = "failed", !.n = @ + 1] => Moves({"failed"})
    BY DEF Moves, Stays, IsProc, Fields
  <2>2. proc.pc = "test" /\ proc' = Set("n", proc.n + 1) => Moves({"test"})
    BY DEF Moves, Stays, IsProc, Fields, Set
  <2> QED
    BY <1>3, <2>1, <2>2, GotoMoves DEF Test, Moves, Still, fixed
<1>4. OrderDone => /\ proc.pc = "order" /\ proc.deps = <<>>
                   /\ Moves({"next"}) /\ Still /\ proc'.seen = proc.seen
  BY GotoMoves DEF OrderDone, Still, fixed, Goto, IsProc, Fields
<1> QED
  BY <1>1, <1>2, <1>3, <1>4

\* A step of manifests_in_dependency_order(): the head of the queue is
\* dropped, put off behind its dependencies, or added to the order.
LEMMA OrderMoves ==
    ASSUME ProcOK, OrderStep
    PROVE  /\ proc.pc = "order" /\ proc.deps # <<>> /\ Still
           /\ IsProc' /\ proc'.pc = "order" /\ proc'.args = proc.args
           /\ proc'.i = proc.i /\ proc'.deps \in Seq(Projects)
           /\ Head(proc.deps) \in Projects
           /\ ToSet(proc'.deps) \subseteq
                  ToSet(proc.deps) \cup ToSet(DepList(Head(proc.deps)))
           /\ \/ proc'.order = proc.order /\ proc'.seen = proc.seen
              \/ /\ Head(proc.deps) \notin proc.seen
                 /\ ToSet(DepList(Head(proc.deps))) \subseteq proc.seen
                 /\ proc'.order = Append(proc.order, Head(proc.deps))
                 /\ proc'.seen = proc.seen \cup {Head(proc.deps)}
<1> DEFINE m == Head(proc.deps)
           rest == Tail(proc.deps)
           todo == Unseen(DepList(m))
<1>1. /\ proc.pc = "order" /\ proc.deps # <<>> /\ Still
      /\ \/ proc' = Set("deps", rest)
         \/ proc' = Set("deps", rest \o todo \o <<m>>)
         \/ /\ m \notin proc.seen /\ todo = <<>>
            /\ proc' = [proc EXCEPT !.deps = rest, !.seen = @ \cup {m},
                                    !.order = Append(@, m)]
  BY DEF OrderStep, Still, fixed
<1>2. /\ proc.deps \in Seq(Projects) /\ proc.order \in Seq(Projects) /\ IsProc
      /\ loader \in Loads /\ proc.args \in Commands
  BY <1>1 DEF ProcOK
<1>3. m \in Projects /\ rest \in Seq(Projects)
  BY <1>1, <1>2
<1>4. ToSet(rest) \subseteq ToSet(proc.deps) /\ m \in ToSet(proc.deps)
  BY <1>1, <1>2, HeadTailToSet
<1>5. DepList(m) \in Seq(Projects)
  BY <1>2, <1>3, LoaderFacts, ContextFacts DEF DepList
<1>6. /\ todo \in Seq(Projects) /\ ToSet(todo) \subseteq ToSet(DepList(m))
      /\ todo = <<>> => ToSet(DepList(m)) \subseteq proc.seen
  BY <1>5, UnseenFacts, RangeIsToSet
<1> HIDE DEF m, rest, todo
<1>7. CASE proc' = Set("deps", rest)
  <2>1. /\ IsProc' /\ proc'.pc = proc.pc /\ proc'.args = proc.args
        /\ proc'.i = proc.i /\ proc'.deps = rest
        /\ proc'.order = proc.order /\ proc'.seen = proc.seen
    BY <1>2, <1>7 DEF Set, IsProc, Fields
  <2> QED
    BY <1>1, <1>3, <1>4, <2>1 DEF m
<1>8. CASE proc' = Set("deps", rest \o todo \o <<m>>)
  <2> DEFINE q == rest \o todo \o <<m>>
  <2>1. q \in Seq(Projects) /\ ToSet(q) = ToSet(rest) \cup ToSet(todo) \cup {m}
    <3>1. /\ rest \o todo \in Seq(Projects)
          /\ ToSet(rest \o todo) = ToSet(rest) \cup ToSet(todo)
      BY <1>3, <1>6, ConcatToSet
    <3>2. <<m>> \in Seq(Projects) /\ ToSet(<<m>>) = {m}
      BY <1>3 DEF ToSet
    <3> HIDE DEF q
    <3>3. q = (rest \o todo) \o <<m>>
      BY DEF q
    <3>4. /\ (rest \o todo) \o <<m>> \in Seq(Projects)
          /\ ToSet((rest \o todo) \o <<m>>) = ToSet(rest \o todo) \cup ToSet(<<m>>)
      <4> DEFINE a == rest \o todo
                 b == <<m>>
      <4> HIDE DEF a, b
      <4>1. a \in Seq(Projects) /\ b \in Seq(Projects)
        BY <3>1, <3>2 DEF a, b
      <4>2. a \o b \in Seq(Projects) /\ ToSet(a \o b) = ToSet(a) \cup ToSet(b)
        BY <4>1, ConcatToSet
      <4> QED
        BY <4>2 DEF a, b
    <3> QED
      BY <3>1, <3>2, <3>3, <3>4
  <2> HIDE DEF q
  <2>2. proc' = Set("deps", q)
    BY <1>8 DEF q
  <2>3. /\ IsProc' /\ proc'.pc = proc.pc /\ proc'.args = proc.args
        /\ proc'.i = proc.i /\ proc'.deps = q
        /\ proc'.order = proc.order /\ proc'.seen = proc.seen
    BY <1>2, <2>2 DEF Set, IsProc, Fields
  <2> QED
    BY <1>1, <1>3, <1>4, <1>6, <2>1, <2>3 DEF m
<1>9. CASE /\ m \notin proc.seen /\ todo = <<>>
           /\ proc' = [proc EXCEPT !.deps = rest, !.seen = @ \cup {m},
                                   !.order = Append(@, m)]
  <2>1. /\ IsProc' /\ proc'.pc = proc.pc /\ proc'.args = proc.args
        /\ proc'.i = proc.i /\ proc'.deps = rest
        /\ proc'.order = Append(proc.order, m) /\ proc'.seen = proc.seen \cup {m}
    BY <1>2, <1>9 DEF IsProc, Fields
  <2> QED
    BY <1>1, <1>3, <1>4, <1>6, <1>9, <2>1 DEF m
<1> QED
  BY <1>1, <1>7, <1>8, <1>9

LEMMA ProcInit == Init => ProcOK
<1> SUFFICES ASSUME Init PROVE ProcOK
  OBVIOUS
<1>1. proc = NoProc /\ loader \in Loads
  BY DEF Init
<1>2. IsProc /\ proc.pc = "idle" /\ proc.i = 1 /\ proc.deps = <<>> /\ proc.order = <<>>
  BY <1>1, NoProcFacts DEF IsProc
<1> QED
  BY <1>1, <1>2 DEF ProcOK, Pcs, Working, Updating, Fetching, Building

LEMMA ProcStep == ProcOK /\ [Next]_vars => ProcOK'
<1> SUFFICES ASSUME ProcOK, [Next]_vars PROVE ProcOK'
  OBVIOUS
<1>0. IsProc /\ loader \in Loads
  BY DEF ProcOK
<1> DEFINE Rest == /\ proc'.deps \in Seq(Projects') /\ proc'.order \in Seq(Projects')
                   /\ loader' \in Loads
<1>1. "idle" \notin Working /\ "done" \notin Working /\ "order" \notin Working
      /\ "test" \notin Working /\ "next" \notin Working /\ "failed" \notin Working
      /\ {"idle", "done", "failed", "test", "clean", "order", "next"} \subseteq Pcs
      /\ "clean" \notin Working
      /\ Working \subseteq Pcs
  BY DEF Pcs, Working, Updating, Fetching, Building
<1>2. CASE proc' = NoProc /\ loader' = loader
  <2>1. /\ IsProc' /\ proc'.pc = "idle" /\ proc'.i = 1
        /\ proc'.deps = <<>> /\ proc'.order = <<>>
    BY <1>2, NoProcFacts DEF IsProc
  <2> QED
    BY <2>1, <1>0, <1>1, <1>2 DEF ProcOK
<1>3. CASE Loop
  <2>1. /\ Still
        /\ Passes \/ Moves(Working \cup {"failed"})
        /\ proc.pc \in Working \/ (proc.pc = "next" /\ proc.i <= Len(proc.order))
    BY <1>0, <1>3, LoopMoves
  <2>2. /\ proc'.args = proc.args /\ proc'.deps = proc.deps
        /\ proc'.order = proc.order /\ IsProc' /\ loader' = loader
    BY <2>1 DEF Passes, Moves, Stays, Still
  <2>3. proc.args \in Commands /\ proc.i \in Nat \ {0} /\ proc.i <= Len(proc.order)
    BY <2>1, <1>1 DEF ProcOK
  <2>4. /\ proc'.pc \in Pcs /\ proc'.i \in Nat \ {0}
        /\ proc'.pc \in Working => proc'.i = proc.i
    BY <2>1, <2>3, <1>1 DEF Passes, Moves
  <2>5. Projects' = Projects
    BY <2>2 DEF Projects
  <2> QED
    BY <2>2, <2>3, <2>4, <2>5 DEF ProcOK
<1>4. ASSUME NEW args \in Commands, Start(args) PROVE ProcOK'
  <2>1. Root \in Projects /\ Projects' = Projects /\ loader' = loader
    BY <1>0, <1>4, LoaderFacts, StartProc DEF Still, Projects
  <2>2. proc'.deps \in Seq(Projects) /\ proc'.order \in Seq(Projects)
    <3>1. <<Root>> \in Seq(Projects) /\ <<>> \in Seq(Projects)
      BY <2>1
    <3>2. proc'.deps \in {<<Root>>, <<>>} /\ proc'.order \in {<<Root>>, <<>>}
      BY <1>4, StartProc
    <3> QED
      BY <3>1, <3>2
  <2>3. proc'.pc \in {"clean", "test", "order"}
    BY <1>4, StartProc
  <2> QED
    BY <1>0, <1>1, <1>4, <2>1, <2>2, <2>3, StartProc DEF ProcOK
<1>5. CASE OrderStep
  <2>1. /\ proc.pc = "order" /\ Still /\ IsProc' /\ proc'.pc = "order"
        /\ proc'.args = proc.args /\ proc'.i = proc.i /\ proc'.deps \in Seq(Projects)
        /\ Head(proc.deps) \in Projects
        /\ \/ proc'.order = proc.order
           \/ proc'.order = Append(proc.order, Head(proc.deps))
    BY <1>5, OrderMoves
  <2>2. Projects' = Projects /\ proc.order \in Seq(Projects)
    BY <2>1 DEF Still, Projects, ProcOK
  <2>3. Append(proc.order, Head(proc.deps)) \in Seq(Projects)
    BY <2>1, <2>2
  <2> QED
    BY <1>0, <1>1, <2>1, <2>2, <2>3 DEF ProcOK, Still
<1>6. CASE CommandDone
  <2>1. /\ proc.pc = "next" /\ IsProc' /\ proc'.pc = "done" /\ Still
        /\ proc'.args = proc.args /\ proc'.order = proc.order
        /\ proc'.i = 1 /\ proc'.deps = <<>>
    BY <1>0, <1>6, LeaveProc
  <2> QED
    BY <1>0, <1>1, <2>1 DEF ProcOK, Still, Projects
<1>7. CASE OrderDone \/ \E passed \in BOOLEAN : Test(passed)
  <2>1. /\ proc.pc \in {"test", "order"} /\ Still
        /\ Moves({"failed", "test", "done"}) \/ Moves({"next"})
    BY <1>0, <1>7, LeaveProc
  <2> QED
    BY <1>0, <1>1, <2>1 DEF ProcOK, Still, Projects, Moves, Stays
<1>11. CASE CleanDirs
  <2>1. proc.pc = "clean" /\ Still /\ Moves({"clean", "order", "done"})
    BY <1>0, <1>11, CleanMoves
  <2> QED
    BY <1>0, <1>1, <2>1 DEF ProcOK, Still, Projects, Moves, Stays
<1>8. CASE UNCHANGED vars
  BY <1>8 DEF vars, fixed, ProcOK, IsProc, Projects
<1>9. ASSUME NEW e \in Edits, Change(e[1], e[2], e[3]) PROVE ProcOK'
  BY <1>2, <1>9 DEF Change
<1>10. CASE Exit \/ Crash
  BY <1>2, <1>10 DEF Exit, Crash, fixed
<1> QED
  BY <1>3, <1>4, <1>5, <1>6, <1>7, <1>8, <1>9, <1>10, <1>11, NextSplits DEF Outside

-----------------------------------------------------------------------------
(* The hash file of ArchiveFetcher.                                        *)

IsArchive(p) == p \in Projects /\ \A c \in Contexts : loader.fetcher[p][c] = "archive"

IsTree(t) == t = [f \in Files |-> t[f]]
Upstreams == DOMAIN upstream = Projects /\ \A p \in Projects : IsTree(upstream[p])
IsHurt == hurt = [x \in {"dirs", "keys", "trees"} |-> hurt[x]]

\* What HashFileTruth says of the hash files.
FilesTell ==
    \A p \in Projects : hash_file[p] # 0 /\ src[p] # NoTree =>
        /\ \A f \in Files : src[p][f] \in {0, Half, hash_file[p]}
        /\ p \notin hurt.trees => src[p] = At(hash_file[p])

\* Before the first kill, the only tree that is wrong is one being removed.
OnlyCleaned ==
    crashes = 0 => \A p \in hurt.trees :
        /\ proc.pc = "clean" /\ src[p] # NoTree
        /\ \/ Head(proc.todo) = "extracted" /\ p \in Of("archive")
           \/ Head(proc.todo) = "shipit" /\ p \in Of("simple_shipit")

\* Only archives have hash files; update() works without one, on a download
\* that has been verified, and unpacks all of it before it writes one.
HashInv ==
    /\ DOMAIN src = Projects /\ DOMAIN hash_file = Projects /\ DOMAIN file = Projects
    /\ \A p \in Projects : IsTree(src[p])
    /\ IsHurt /\ crashes \in Nat
    /\ FilesTell /\ OnlyCleaned
    /\ \A p \in Projects : hash_file[p] # 0 => IsArchive(p)
    /\ proc.pc \in Fetching => IsArchive(M) /\ hash_file[M] = 0
    /\ proc.pc \in {"unpack", "unpacking"} => file[M] = upstream[M]["src"]
    /\ proc.pc = "hash" => src[M] = At(upstream[M]["src"])

\* The project the loop is at, and where it comes from.
LEMMA AtProject ==
    ASSUME ProcOK, proc.pc \in Working
    PROVE  /\ IsProc /\ M \in Projects /\ M \in Projects /\ proc.args \in Commands
           /\ Fetcher(M) = "archive" <=> IsArchive(M)
<1>1. proc.order \in Seq(Projects) /\ proc.i \in 1..Len(proc.order) /\ loader \in Loads
      /\ proc.args \in Commands /\ IsProc
  BY DEF ProcOK, Working, Updating, Fetching, Building
<1>2. M \in Projects /\ M \in Projects
  BY <1>1, LoaderFacts DEF M
<1>3. Ctx(M) \in Contexts
  BY <1>1, ContextFacts
<1>4. \A c \in Contexts : loader.fetcher[M][c] = Fetcher(M)
  BY <1>1, <1>2, <1>3, LoaderFacts DEF Fetcher
<1> QED
  BY <1>1, <1>2, <1>3, <1>4 DEF IsArchive

LEMMA SameProject ==
    ASSUME NEW pcs, Moves(pcs) PROVE M' = M
  BY DEF Moves, Stays, M

LEMMA HashInit == Init => HashInv
  BY DEF Init, HashInv, IsTree, NoTree, FilesTell, OnlyCleaned, IsHurt, NoProc, Fetching

\* The history changes, but not in what it says of source trees.
SameTrees == IsHurt' /\ hurt'.trees = hurt.trees

LEMMA HurtFacts ==
    ASSUME IsHurt, NEW d, NEW x
    PROVE  /\ hurt' = hurt \/ hurt' = Hurt(d) \/ hurt' = Healed(d) => SameTrees
           /\ hurt' = [hurt EXCEPT !.keys = x] => SameTrees
           /\ hurt' = [hurt EXCEPT !.trees = x] => IsHurt' /\ hurt'.trees = x
  BY DEF IsHurt, SameTrees, Hurt, Healed

\* A step that leaves these files alone and does not start to fetch.
LEMMA HashQuiet ==
    ASSUME HashInv, UNCHANGED <<loader, src, hash_file, file>>, SameTrees,
           crashes' \in Nat, crashes' >= crashes, proc.pc # "clean" \/ crashes' > 0,
           proc'.pc \notin Fetching
    PROVE  HashInv'
<1>1. FilesTell' /\ Projects' = Projects /\ \A p \in Projects : IsArchive(p)' <=> IsArchive(p)
  BY DEF HashInv, FilesTell, IsArchive, Projects, SameTrees
<1>2. OnlyCleaned'
  BY DEF HashInv, OnlyCleaned, SameTrees
<1> QED
  BY <1>1, <1>2 DEF HashInv, Fetching, SameTrees

\* A step that changes the sources of a project that is no archive, or
\* removes them.
LEMMA HashOther ==
    ASSUME HashInv, NEW p \in Projects, NEW tree, tree = NoTree \/ ~ IsArchive(p),
           IsTree(tree), src' = [src EXCEPT ![p] = tree],
           UNCHANGED <<loader, hash_file, file>>,
           SameTrees, crashes' = crashes, proc.pc # "clean", proc'.pc \notin Fetching
    PROVE  HashInv'
<1>1. Projects' = Projects /\ \A q \in Projects : IsArchive(q)' <=> IsArchive(q)
  BY DEF IsArchive, Projects
<1>2. FilesTell'
  BY <1>1 DEF HashInv, FilesTell, SameTrees
<1>3. OnlyCleaned'
  BY DEF HashInv, OnlyCleaned, SameTrees
<1> QED
  BY <1>1, <1>2, <1>3 DEF HashInv, Fetching, SameTrees

\* A step of clean_dirs() in the directories of builds and installations.
LEMMA HashElsewhere ==
    ASSUME HashInv, UNCHANGED <<loader, src, hash_file, file, crashes>>, SameTrees,
           proc'.pc = "clean", proc'.todo = proc.todo, proc.pc = "clean"
    PROVE  HashInv'
<1>1. FilesTell' /\ Projects' = Projects /\ \A p \in Projects : IsArchive(p)' <=> IsArchive(p)
  BY DEF HashInv, FilesTell, IsArchive, Projects, SameTrees
<1>2. OnlyCleaned'
  BY DEF HashInv, OnlyCleaned, SameTrees, Of, Projects
<1> QED
  BY <1>1, <1>2 DEF HashInv, Fetching, SameTrees

\* What a removal does to a tree.
LEMMA FewerFacts ==
    ASSUME NEW tree, IsTree(tree), NEW t \in Fewer(tree, Half)
    PROVE  /\ t # NoTree /\ IsTree(t)
           /\ \A f \in Files : t[f] \in {Half, tree[f]}
<1>1. Half # 0
  BY GetdepsConstants DEF Half
<1>2. PICK g \in Files : t = [tree EXCEPT ![g] = Half] /\ tree[g] \notin {0, Half}
  BY DEF Fewer
<1> QED
  BY <1>1, <1>2 DEF NoTree, IsTree

\* Where the sources come from changes only by an edit.
LEMMA UpstreamsInit == Init => Upstreams
  BY DEF Init, Upstreams, IsTree, At

LEMMA UpstreamsStep == ProcOK /\ Upstreams /\ [Next]_vars => Upstreams'
<1> SUFFICES ASSUME ProcOK, Upstreams, [Next]_vars PROVE Upstreams'
  OBVIOUS
<1>0. IsProc
  BY DEF ProcOK
<1>1. Still => Upstreams'
  BY DEF Still, Upstreams, Projects
<1>2. CASE Loop
  BY <1>0, <1>1, <1>2, LoopMoves
<1>3. ASSUME NEW e \in Edits, Change(e[1], e[2], e[3]) PROVE Upstreams'
  <2> DEFINE p == e[1]
  <2>1. p \in Projects /\ loader' = loader /\ e[2] \in Files
    BY <1>3, GetdepsConstants DEF Change
  <2>2. \E t : IsTree(t) /\ upstream' = [upstream EXCEPT ![p] = t]
    <3>1. CASE \E c \in Contexts : loader.fetcher[p][c] \in {"local", "simple_shipit"}
      <4> DEFINE v == IF e[3] = "gone" THEN 0 ELSE changes + 2
                 t == [upstream[p] EXCEPT ![e[2]] = v]
      <4>1. upstream' = [upstream EXCEPT ![p] = t]
        BY <1>3, <3>1 DEF Change
      <4>2. IsTree(t)
        BY <2>1 DEF Upstreams, IsTree
      <4> QED
        BY <4>1, <4>2
    <3>2. CASE ~ \E c \in Contexts : loader.fetcher[p][c] \in {"local", "simple_shipit"}
      <4>1. upstream' = [upstream EXCEPT ![p] = At(changes + 2)]
        BY <1>3, <3>2 DEF Change
      <4>2. IsTree(At(changes + 2))
        BY DEF IsTree, At
      <4> QED
        BY <4>1, <4>2
    <3> QED
      BY <3>1, <3>2
  <2> QED
    BY <2>1, <2>2 DEF Upstreams, Projects
<1>4. ASSUME NEW args \in Commands, Start(args) PROVE Upstreams'
  BY <1>1, <1>4, StartProc
<1>5. CASE CleanDirs \/ OrderStep \/ OrderDone \/ CommandDone
  BY <1>0, <1>1, <1>5, CleanMoves, OrderMoves, LeaveProc
<1>6. ASSUME NEW passed \in BOOLEAN, Test(passed) PROVE Upstreams'
  BY <1>0, <1>1, <1>6, LeaveProc
<1>7. CASE Exit \/ Crash
  BY <1>1, <1>7 DEF Exit, Crash, Still, fixed
<1>8. CASE UNCHANGED vars
  BY <1>1, <1>8 DEF vars, fixed, Still
<1> QED
  BY <1>2, <1>3, <1>4, <1>5, <1>6, <1>7, <1>8, NextSplits DEF Outside

\* A step of the loop that is not of a fetcher.
LEMMA QuietLoop ==
    ASSUME ProcOK, IsHurt, Download \/ Status \/ Make
    PROVE  /\ UNCHANGED <<loader, src, hash_file, file, crashes>> /\ SameTrees
           /\ proc.pc # "clean" /\ proc'.pc \notin Fetching
<1>0. IsProc /\ Loop
  BY DEF ProcOK, Loop
<1>1. loader' = loader /\ proc.pc # "clean"
  BY <1>0, LoopMoves DEF Still, Working, Updating, Fetching, Building
<1>2. proc'.pc \notin Fetching
  <2>1. CASE Download
    BY <1>0, <2>1, DownloadMoves DEF Download, Moves, Passes, Fetching
  <2>2. CASE Status
    BY <1>0, <2>2, StatusMoves DEF Moves, Passes, Fetching
  <2>3. CASE Make
    <3>1. proc'.pc \in {"decide", "mkdir", "build", "patch", "sentinel", "failed",
                        "step", "install", "marker", "upload", "next"}
      BY <1>0, <2>3, BuildMoves DEF Make, Installs, Moves, Passes, Fails
    <3> QED
      BY <3>1 DEF Fetching
  <2> QED
    BY <2>1, <2>2, <2>3
<1>3. UNCHANGED <<src, hash_file, file, crashes>> /\ SameTrees
  <2>0. /\ hurt' \in {hurt, Hurt(D), Healed(D)} => SameTrees
        /\ \A x : hurt' = [hurt EXCEPT !.keys = x] => SameTrees
    BY HurtFacts
  <2>1. CASE Download \/ Status
    BY <2>0, <2>1 DEF Download, Status, CacheMiss, CacheExtract, CacheExtracted,
                      CacheExtractFailed, disk, fixed
  <2>2. CASE DepStatus \/ Decide \/ MakeBuildDir \/ ApplyPatch \/ TouchSentinel
    BY <2>0, <2>2 DEF DepStatus, Decide, MakeBuildDir, ApplyPatch, TouchSentinel, disk, fixed
  <2>3. CASE Plan \/ BuildStep \/ Installs
    BY <2>0, <2>3 DEF Plan, BuildStep, Installs, InstallStart, InstallDone, disk, fixed
  <2>4. CASE BuildFailed \/ BuildFinished \/ WriteMarker \/ Upload
    BY <2>0, <2>4 DEF BuildFailed, BuildFinished, WriteMarker, Upload, disk, fixed
  <2> QED
    BY <2>1, <2>2, <2>3, <2>4 DEF Make
<1> QED
  BY <1>1, <1>2, <1>3

\* The steps of clean_dirs().
LEMMA HashClean ==
    ASSUME ProcOK, HashInv, CleanDirs PROVE HashInv'
<1>0. /\ proc.pc = "clean" /\ IsProc /\ IsHurt
      /\ UNCHANGED <<loader, crashes>> /\ Projects' = Projects
      /\ CleanNext \/ (proc'.pc = "clean" /\ proc'.todo = proc.todo)
  BY CleanMoves DEF ProcOK, HashInv, fixed, Projects
<1>1. \A p \in Projects : IsArchive(p)' <=> IsArchive(p)
  BY <1>0 DEF IsArchive
<1>2. \A kind : Of(kind)' = Of(kind)
  BY <1>0 DEF Of
<1>3. CASE CleanNext
  <2>1. /\ UNCHANGED <<src, hash_file, file, hurt>>
        /\ Cleaned(Head(proc.todo)) /\ proc'.pc \notin Fetching
    BY <1>0, <1>3, CleanMoves DEF CleanNext, disk, Moves, Fetching
  <2>2. crashes = 0 => hurt.trees = {}
    <3> SUFFICES ASSUME crashes = 0, NEW p \in hurt.trees PROVE FALSE
      OBVIOUS
    <3>1. /\ src[p] # NoTree
          /\ \/ Head(proc.todo) = "extracted" /\ p \in Of("archive")
             \/ Head(proc.todo) = "shipit" /\ p \in Of("simple_shipit")
      BY DEF HashInv, OnlyCleaned
    <3> QED
      BY <2>1, <3>1 DEF Cleaned
  <2>3. FilesTell' /\ OnlyCleaned'
    BY <1>0, <2>1, <2>2 DEF HashInv, FilesTell, OnlyCleaned
  <2> QED
    BY <1>0, <1>1, <2>1, <2>3 DEF HashInv, IsHurt, Fetching
<1>4. CASE \E d \in DOMAIN bdir : CleanBuild(d)
  <2>1. PICK d \in DOMAIN bdir : CleanBuild(d)
    BY <1>4
  <2>2. UNCHANGED <<src, hash_file, file, hurt>> /\ proc'.pc = "clean" /\ proc'.todo = proc.todo
    BY <1>0, <2>1 DEF CleanBuild, Begun, Set, IsProc, Fields
  <2> QED
    BY <1>0, <2>2, HurtFacts, HashElsewhere
<1>5. CASE \E d \in DOMAIN inst : CleanInstalled(d)
  <2>1. PICK d \in DOMAIN inst : CleanInstalled(d)
    BY <1>5
  <2>2. UNCHANGED <<src, hash_file, file>> /\ hurt' \in {hurt, Hurt(d), Healed(d)}
    BY <2>1 DEF CleanInstalled
  <2>3. proc'.pc = "clean" /\ proc'.todo = proc.todo
    BY <1>0, <2>1 DEF CleanInstalled, Begun, Set, IsProc, Fields
  <2> QED
    BY <1>0, <2>2, <2>3, HurtFacts, HashElsewhere
<1>6. CASE \E p \in Of("archive") : CleanExtracted(p)
  <2>1. PICK p \in Of("archive") : CleanExtracted(p)
    BY <1>6
  <2>2. /\ p \in Projects /\ Head(proc.todo) = "extracted" /\ file' = file
        /\ proc'.pc = "clean" /\ proc'.todo = proc.todo
    BY <1>0, <2>1 DEF CleanExtracted, Cleaning, Of, Shrink, Begun, Set, IsProc, Fields
  <2>3. CASE /\ hash_file' = [hash_file EXCEPT ![p] = 0] /\ src' = src
             /\ hurt' = [hurt EXCEPT !.trees = @ \ {p}]
    <3>1. IsHurt' /\ hurt'.trees = hurt.trees \ {p}
      BY <1>0, <2>3, HurtFacts
    <3>2. FilesTell' /\ OnlyCleaned'
      BY <1>0, <1>2, <2>2, <2>3, <3>1 DEF HashInv, FilesTell, OnlyCleaned
    <3> QED
      BY <1>0, <1>1, <2>2, <2>3, <3>1, <3>2 DEF HashInv, Fetching
  <2>4. ASSUME NEW t \in Fewer(src[p], Half), src' = [src EXCEPT ![p] = t],
               hash_file' = hash_file,
               hurt' = IF hash_file[p] # 0 THEN [hurt EXCEPT !.trees = @ \cup {p}] ELSE hurt
        PROVE  HashInv'
    <3>1. /\ IsHurt' /\ hurt'.trees \in {hurt.trees, hurt.trees \cup {p}}
          /\ hash_file[p] # 0 => hurt'.trees = hurt.trees \cup {p}
      BY <1>0, <2>4, HurtFacts DEF SameTrees
    <3>2. /\ t # NoTree /\ IsTree(t)
          /\ \A f \in Files : t[f] \in {Half, src[p][f]}
      BY <2>2, <2>4, FewerFacts DEF HashInv
    <3>3. FilesTell'
      BY <1>0, <2>2, <2>4, <3>1, <3>2 DEF HashInv, FilesTell, IsTree, NoTree
    <3>4. OnlyCleaned'
      BY <1>0, <1>2, <2>1, <2>2, <2>4, <3>1, <3>2 DEF HashInv, OnlyCleaned
    <3> QED
      BY <1>0, <1>1, <2>2, <2>4, <3>1, <3>2, <3>3, <3>4 DEF HashInv, Fetching
  <2>5. CASE /\ src' = [src EXCEPT ![p] = NoTree] /\ hash_file' = hash_file
             /\ hurt' = [hurt EXCEPT !.trees = @ \ {p}]
    <3>1. IsHurt' /\ hurt'.trees = hurt.trees \ {p}
      BY <1>0, <2>5, HurtFacts
    <3>2. FilesTell' /\ OnlyCleaned' /\ IsTree(NoTree)
      BY <1>0, <1>2, <2>2, <2>5, <3>1 DEF HashInv, FilesTell, OnlyCleaned, IsTree, NoTree
    <3> QED
      BY <1>0, <1>1, <2>2, <2>5, <3>1, <3>2 DEF HashInv, Fetching
  <2>6. CASE UNCHANGED <<src, hash_file, hurt>>
    BY <1>0, <2>2, <2>6, HurtFacts, HashElsewhere
  <2> QED
    BY <2>1, <2>3, <2>4, <2>5, <2>6 DEF CleanExtracted, Shrink
<1>7. CASE \E p \in Of("simple_shipit") : CleanShipit(p)
  <2>1. PICK p \in Of("simple_shipit") : CleanShipit(p)
    BY <1>7
  <2>2. /\ p \in Projects /\ Head(proc.todo) = "shipit" /\ UNCHANGED <<file, hash_file>>
        /\ proc'.pc = "clean" /\ proc'.todo = proc.todo /\ hash_file[p] = 0
    <3>1. p \in Projects /\ ~ IsArchive(p)
      BY DEF Of, IsArchive
    <3> QED
      BY <1>0, <2>1, <3>1 DEF CleanShipit, Cleaning, Shrink, Begun, Set, IsProc, Fields, HashInv
  <2>3. ASSUME NEW t \in Fewer(src[p], 0), src' = [src EXCEPT ![p] = t],
               hurt' = IF src'[p] = NoTree THEN [hurt EXCEPT !.trees = @ \ {p}] ELSE hurt
        PROVE  HashInv'
    <3>1. IsTree(t) /\ src'[p] = t
      BY <2>2, <2>3 DEF HashInv, IsTree, Fewer
    <3>2. /\ IsHurt' /\ hurt'.trees \in {hurt.trees, hurt.trees \ {p}}
          /\ t = NoTree => hurt'.trees = hurt.trees \ {p}
      BY <1>0, <2>3, <3>1, HurtFacts DEF SameTrees
    <3>3. FilesTell'
      BY <1>0, <2>2, <2>3, <3>2 DEF HashInv, FilesTell
    <3>4. OnlyCleaned'
      BY <1>0, <1>2, <2>2, <2>3, <3>1, <3>2 DEF HashInv, OnlyCleaned
    <3> QED
      BY <1>0, <1>1, <2>2, <2>3, <3>1, <3>2, <3>3, <3>4 DEF HashInv, Fetching
  <2>4. CASE /\ src' = src
             /\ hurt' = IF src[p] # NoTree THEN [hurt EXCEPT !.trees = @ \cup {p}] ELSE hurt
    <3>1. /\ IsHurt' /\ hurt'.trees \in {hurt.trees, hurt.trees \cup {p}}
          /\ src[p] = NoTree => hurt'.trees = hurt.trees
      BY <1>0, <2>4, HurtFacts DEF SameTrees
    <3>2. FilesTell' /\ OnlyCleaned'
      BY <1>0, <1>2, <2>1, <2>2, <2>4, <3>1 DEF HashInv, FilesTell, OnlyCleaned
    <3> QED
      BY <1>0, <1>1, <2>2, <2>4, <3>1, <3>2 DEF HashInv, Fetching
  <2> QED
    BY <2>1, <2>3, <2>4 DEF CleanShipit, Shrink
<1> QED
  BY <1>3, <1>4, <1>5, <1>6, <1>7 DEF CleanDirs

LEMMA HashFetch ==
    ASSUME HashInv, ProcOK, Upstreams, Fetch
    PROVE  HashInv'
<1>1. /\ proc.pc \in Updating /\ proc.pc \in Working
      /\ loader' = loader /\ upstream' = upstream
  BY FetchMoves DEF ProcOK, Still, Working
<1>2. /\ M \in Projects /\ M \in Projects /\ IsProc
      /\ Fetcher(M) = "archive" <=> IsArchive(M)
  BY <1>1, AtProject
<1>3. Projects' = Projects /\ \A p \in Projects : IsArchive(p)' <=> IsArchive(p)
  BY <1>1 DEF IsArchive, Projects
<1>17. IsHurt /\ crashes \in Nat /\ crashes' = crashes /\ proc.pc # "clean"
  <2>1. crashes' = crashes
    <3>1. CASE \/ UpdateLocal \/ (\E f \in Files : MirrorFile(f)) \/ MirrorRemove
              \/ MirrorDone \/ GitClone \/ GitUpdate
      BY <3>1 DEF UpdateLocal, MirrorFile, MirrorRemove, MirrorDone, GitClone, GitUpdate, fixed
    <3>2. CASE \/ ArchiveCheck \/ ArchiveRemove \/ Attempt \/ Unpack \/ Unpacked
              \/ WriteHash
      BY <3>2 DEF ArchiveCheck, ArchiveRemove, Attempt, Unpack, Unpacked, WriteHash, fixed
    <3> QED
      BY <3>1, <3>2 DEF Fetch
  <2> QED
    BY <1>1, <2>1 DEF HashInv, Updating, Fetching
<1>18. IsHurt' /\ hurt'.trees \subseteq hurt.trees => OnlyCleaned'
  BY <1>17 DEF HashInv, OnlyCleaned
<1>19. hurt' = hurt \/ hurt' = Hurt(D) => SameTrees
  BY <1>17, HurtFacts
<1>20. crashes' >= crashes
  BY <1>17
<1>4. ASSUME NEW b, NEW c, Updated(b, c) PROVE proc'.pc \notin Fetching
  BY <1>2, <1>4, UpdatedMoves DEF Passes, Moves, Fetching
<1>5. Fail => proc'.pc \notin Fetching
  BY <1>2, GotoMoves DEF Fails, Moves, Fetching
<1>6. CASE UpdateLocal
  BY <1>1, <1>4, <1>6, <1>17, <1>19, <1>20, HashQuiet DEF UpdateLocal, disk
<1>21. CASE MirrorDone
  <2>1. /\ UNCHANGED <<src, hash_file, file>> /\ proc'.pc \notin Fetching
        /\ hurt' = hurt \/ hurt' = [hurt EXCEPT !.trees = @ \ {M}]
    BY <1>4, <1>21 DEF MirrorDone
  <2>2. IsHurt' /\ hurt'.trees \in {hurt.trees, hurt.trees \ {M}}
    BY <1>17, <2>1, HurtFacts DEF SameTrees
  <2>3. proc.pc = "list" /\ hash_file[M] = 0
    BY <1>21, <1>2 DEF MirrorDone, HashInv
  <2>4. FilesTell'
    BY <1>3, <2>1, <2>2, <2>3 DEF HashInv, FilesTell
  <2> QED
    BY <1>3, <1>17, <1>18, <2>1, <2>2, <2>4 DEF HashInv, Fetching
<1>7. CASE \E f \in Files : MirrorFile(f)
  <2>1. PICK f \in Files : MirrorFile(f)
    BY <1>7
  <2>2. ~ IsArchive(M) /\ src' = [src EXCEPT ![M] = [src[M] EXCEPT ![f] = upstream[M][f]]]
        /\ UNCHANGED <<hash_file, file>> /\ SameTrees
    BY <2>1, <1>2, <1>19 DEF MirrorFile
  <2>3. proc'.pc = "update"
    BY <2>1, <1>2 DEF MirrorFile, Set, Record, IsProc, Fields
  <2>4. IsTree([src[M] EXCEPT ![f] = upstream[M][f]])
    BY <1>2 DEF HashInv, IsTree
  <2> QED
    BY <1>1, <1>2, <1>17, <2>2, <2>3, <2>4, HashOther DEF Fetching
<1>8. CASE MirrorRemove
  <2>1. CASE \E f \in Removed : src[M][f] = 0
    BY <1>1, <1>5, <1>8, <1>17, <1>19, <1>20, <2>1, HashQuiet DEF MirrorRemove
  <2>2. CASE ~ \E f \in Removed : src[M][f] = 0
    <3>1. /\ ~ IsArchive(M) /\ UNCHANGED <<hash_file, file>> /\ Goto("list") /\ SameTrees
          /\ src' = [src EXCEPT ![M] = [f \in Files |-> IF f \in Removed THEN 0
                                                        ELSE src[M][f]]]
      BY <1>2, <1>8, <1>19, <2>2 DEF MirrorRemove
    <3>2. proc'.pc = "list"
      BY <1>2, <3>1, GotoMoves DEF Moves
    <3>3. IsTree([f \in Files |-> IF f \in Removed THEN 0 ELSE src[M][f]])
      BY DEF IsTree
    <3> QED
      BY <1>1, <1>2, <1>17, <3>1, <3>2, <3>3, HashOther DEF Fetching
  <2> QED
    BY <2>1, <2>2
<1>9. CASE GitClone
  <2>1. PICK v : src' = [src EXCEPT ![M] = At(v)]
    BY <1>9 DEF GitClone
  <2>2. /\ ~ IsArchive(M) /\ UNCHANGED <<hash_file, file>> /\ proc'.pc = "update"
        /\ SameTrees /\ IsTree(At(v))
    BY <1>2, <1>9, <1>19 DEF GitClone, IsProc, Fields, IsTree, At
  <2> QED
    BY <1>1, <1>2, <1>17, <2>1, <2>2, HashOther DEF Fetching
<1>10. CASE GitUpdate
  <2>1. ~ IsArchive(M) /\ UNCHANGED <<hash_file, file>> /\ proc'.pc \notin Fetching
        /\ SameTrees
    BY <1>2, <1>4, <1>5, <1>10, <1>19 DEF GitUpdate
  <2>2. src' = [src EXCEPT ![M] = upstream[M]] \/ src' = src
    BY <1>10 DEF GitUpdate
  <2>3. IsTree(upstream[M])
    BY <1>2 DEF Upstreams
  <2> QED
    BY <1>1, <1>2, <1>17, <1>20, <2>1, <2>2, <2>3, HashOther, HashQuiet
<1>11. CASE ArchiveCheck
  <2>1. CASE hash_file[M] = upstream[M]["src"] /\ src[M] # NoTree
    BY <1>1, <1>4, <1>11, <1>17, <1>19, <1>20, <2>1, HashQuiet DEF ArchiveCheck
  <2>2. CASE ~ (hash_file[M] = upstream[M]["src"] /\ src[M] # NoTree)
    <3>1. /\ hash_file' = [hash_file EXCEPT ![M] = 0] /\ Goto("remove")
          /\ UNCHANGED <<src, file>> /\ IsArchive(M)
          /\ hurt' = [hurt EXCEPT !.trees = @ \ {M}]
      BY <1>2, <1>11, <2>2 DEF ArchiveCheck
    <3>2. proc'.pc = "remove" /\ M' = M
      BY <1>2, <3>1, GotoMoves, SameProject DEF Moves
    <3>3. IsHurt' /\ hurt'.trees = hurt.trees \ {M}
      BY <1>17, <3>1, HurtFacts
    <3>4. FilesTell' /\ OnlyCleaned'
      BY <1>2, <1>3, <1>18, <3>1, <3>3 DEF HashInv, FilesTell
    <3> QED
      BY <1>2, <1>3, <1>17, <3>1, <3>2, <3>3, <3>4 DEF HashInv
  <2> QED
    BY <2>1, <2>2
<1>12. CASE ArchiveRemove
  <2>1. /\ proc.pc = "remove" /\ src' = [src EXCEPT ![M] = NoTree] /\ hash_file' = hash_file
        /\ \/ Goto("unpack") /\ file' = file /\ file[M] = upstream[M]["src"]
           \/ /\ file' = [file EXCEPT ![M] = 0]
              /\ proc' = [proc EXCEPT !.pc = "fetch", !.n = 0]
    BY <1>12 DEF ArchiveRemove
  <2>2. proc' = [proc EXCEPT !.pc = "fetch", !.n = 0] => Moves({"fetch"})
    BY <1>2 DEF IsProc, Fields, Moves, Stays
  <2>3. M' = M /\ (\/ proc'.pc = "unpack" /\ file' = file /\ file[M] = upstream[M]["src"]
                   \/ proc'.pc = "fetch" /\ file' = [file EXCEPT ![M] = 0])
    BY <1>2, <2>1, <2>2, GotoMoves, SameProject DEF Moves
  <2>4. IsArchive(M) /\ hash_file[M] = 0
    BY <2>1 DEF HashInv, Fetching
  <2>7. SameTrees /\ OnlyCleaned' /\ IsTree(NoTree)
    BY <1>12, <1>18, <1>19 DEF ArchiveRemove, SameTrees, IsTree, NoTree
  <2>5. FilesTell'
    BY <1>3, <2>7, <1>2, <2>1, <2>4 DEF HashInv, FilesTell, SameTrees
  <2> QED
    BY <1>1, <1>17, <2>7, <1>2, <1>3, <2>1, <2>3, <2>4, <2>5 DEF HashInv, SameTrees
<1>13. CASE Attempt
  <2>1. /\ proc.pc = "fetch" /\ UNCHANGED <<src, hash_file>>
        /\ \/ file' = [file EXCEPT ![M] = upstream[M]["src"]] /\ Goto("unpack")
           \/ /\ \E v : file' = [file EXCEPT ![M] = v]
              /\ Fail \/ proc' = Set("n", proc.n + 1) \/ proc' = Set("pc", "failed")
    BY <1>13 DEF Attempt
  <2>2. proc' = Set("n", proc.n + 1) \/ proc' = Set("pc", "failed")
           => Moves({"fetch", "failed"})
    BY <1>2, <2>1 DEF IsProc, Fields, Moves, Stays, Set
  <2>3. /\ M' = M /\ DOMAIN file' = DOMAIN file
        /\ \/ file' = [file EXCEPT ![M] = upstream[M]["src"]] /\ proc'.pc = "unpack"
           \/ proc'.pc \in {"fetch", "failed"}
    BY <1>2, <2>1, <2>2, GotoMoves, SameProject DEF Moves, Fails
  <2>4. IsArchive(M) /\ hash_file[M] = 0
    BY <2>1 DEF HashInv, Fetching
  <2>7. SameTrees /\ OnlyCleaned' /\ IsTree(NoTree)
    BY <1>13, <1>18, <1>19 DEF Attempt, SameTrees, IsTree, NoTree
  <2>5. FilesTell'
    BY <1>3, <2>7, <2>1 DEF HashInv, FilesTell, SameTrees
  <2> QED
    BY <1>1, <1>17, <2>7, <1>2, <1>3, <2>1, <2>3, <2>4, <2>5 DEF HashInv, SameTrees
<1>14. CASE Unpack
  <2>1. PICK t : IsTree(t) /\ src' = [src EXCEPT ![M] = t]
    <3>1. PICK f \in Files : src' = [src EXCEPT ![M] = [NoTree EXCEPT ![f] = file[M]]]
      BY <1>14 DEF Unpack
    <3>2. IsTree([NoTree EXCEPT ![f] = file[M]])
      BY DEF IsTree, NoTree
    <3> QED
      BY <3>1, <3>2
  <2>2. /\ proc.pc = "unpack" /\ UNCHANGED <<hash_file, file>>
        /\ proc'.pc = "unpacking" /\ M' = M
    BY <1>2, <1>14, GotoMoves, SameProject DEF Unpack, Moves
  <2>3. IsArchive(M) /\ hash_file[M] = 0 /\ file[M] = upstream[M]["src"]
    BY <2>2 DEF HashInv, Fetching
  <2>7. SameTrees /\ OnlyCleaned' /\ IsTree(NoTree)
    BY <1>14, <1>18, <1>19 DEF Unpack, SameTrees, IsTree, NoTree
  <2>4. FilesTell'
    BY <1>3, <2>7, <1>2, <2>1, <2>2, <2>3 DEF HashInv, FilesTell, SameTrees
  <2> QED
    BY <1>1, <1>17, <2>7, <1>2, <1>3, <2>1, <2>2, <2>3, <2>4 DEF HashInv, SameTrees
<1>15. CASE Unpacked
  <2>1. /\ proc.pc = "unpacking" /\ UNCHANGED <<hash_file, file>>
        /\ proc'.pc = "hash" /\ M' = M /\ src' = [src EXCEPT ![M] = At(file[M])]
    BY <1>2, <1>15, GotoMoves, SameProject DEF Unpacked, Moves
  <2>2. /\ IsArchive(M) /\ hash_file[M] = 0 /\ file[M] = upstream[M]["src"]
        /\ IsTree(At(file[M]))
    BY <2>1 DEF HashInv, Fetching, IsTree, At
  <2>7. SameTrees /\ OnlyCleaned' /\ IsTree(NoTree)
    BY <1>15, <1>18, <1>19 DEF Unpacked, SameTrees, IsTree, NoTree
  <2>3. FilesTell'
    BY <1>3, <2>7, <1>2, <2>1, <2>2 DEF HashInv, FilesTell, SameTrees
  <2> QED
    BY <1>1, <1>17, <2>7, <1>2, <1>3, <2>1, <2>2, <2>3 DEF HashInv, SameTrees
<1>16. CASE WriteHash
  <2>1. /\ proc.pc = "hash" /\ UNCHANGED <<src, file>> /\ proc'.pc \notin Fetching
        /\ hash_file' = [hash_file EXCEPT ![M] = upstream[M]["src"]]
    BY <1>4, <1>16 DEF WriteHash
  <2>2. IsArchive(M) /\ src[M] = At(upstream[M]["src"])
    BY <2>1 DEF HashInv, Fetching
  <2>7. SameTrees /\ OnlyCleaned' /\ IsTree(NoTree)
    BY <1>16, <1>18, <1>19 DEF WriteHash, SameTrees, IsTree, NoTree
  <2>3. FilesTell'
    BY <1>3, <2>7, <1>2, <2>1, <2>2 DEF HashInv, FilesTell, SameTrees, At
  <2> QED
    BY <1>1, <1>17, <2>7, <1>2, <1>3, <2>1, <2>2, <2>3 DEF HashInv, SameTrees, Fetching
<1> QED
  BY <1>6, <1>7, <1>8, <1>9, <1>10, <1>11, <1>12, <1>13, <1>14, <1>15, <1>16, <1>21 DEF Fetch

LEMMA HashStep == ProcOK /\ Upstreams /\ HashInv /\ [Next]_vars => HashInv'
<1> SUFFICES ASSUME ProcOK, Upstreams, HashInv, [Next]_vars PROVE HashInv'
  OBVIOUS
<1>0. IsProc /\ IsHurt /\ crashes \in Nat
  BY DEF ProcOK, HashInv
<1>10. crashes' = crashes => crashes' \in Nat /\ crashes' >= crashes
  BY <1>0
<1>11. hurt' = hurt => SameTrees
  BY <1>0, HurtFacts
<1>1. CASE Download \/ Status \/ Make
  BY <1>0, <1>1, <1>10, QuietLoop, HashQuiet
<1>2. CASE NextProject
  <2>1. /\ proc.pc = "next" /\ proc.i <= Len(proc.order) /\ loader' = loader
        /\ proc'.pc \notin Fetching /\ proc.pc # "clean"
    BY <1>0, <1>2, NextMoves DEF Moves, Passes, Still, Fetching
  <2>2. M \in Projects
    <3>1. proc.order \in Seq(Projects) /\ proc.i \in 1..Len(proc.order) /\ loader \in Loads
      BY <2>1 DEF ProcOK
    <3> QED
      BY <3>1, LoaderFacts DEF M
  <2>3. src' = src \/ src' = [src EXCEPT ![M] = NoTree]
    BY <1>2 DEF NextProject, FetcherClean
  <2>4. UNCHANGED <<hash_file, file, hurt, crashes>> /\ IsTree(NoTree)
    BY <1>2 DEF NextProject, fixed, IsTree, NoTree
  <2> QED
    BY <1>10, <1>11, <2>1, <2>2, <2>3, <2>4, HashQuiet, HashOther
<1>3. CASE Fetch
  BY <1>3, HashFetch
<1>4. ASSUME NEW args \in Commands, Start(args) PROVE HashInv'
  <2>1. proc.pc # "clean" /\ proc'.pc \in {"clean", "test", "order"}
    BY <1>4, StartProc
  <2>2. UNCHANGED <<loader, src, hash_file, file, hurt, crashes>>
    BY <1>4 DEF Start, disk
  <2> QED
    BY <1>10, <1>11, <2>1, <2>2, HashQuiet DEF Fetching
<1>12. CASE CleanDirs
  BY <1>12, HashClean
<1>5. ASSUME NEW e \in Edits, Change(e[1], e[2], e[3]) PROVE HashInv'
  <2>1. /\ proc.pc # "clean" /\ proc'.pc \notin Fetching
        /\ UNCHANGED <<loader, src, hash_file, file, hurt, crashes>>
    BY <1>5, NoProcFacts DEF Change, disk, Fetching
  <2> QED
    BY <1>10, <1>11, <2>1, HashQuiet
<1>6. CASE OrderStep \/ OrderDone \/ CommandDone
  <2>1. UNCHANGED <<loader, src, hash_file, file, hurt, crashes>> /\ proc.pc # "clean"
    BY <1>6 DEF OrderStep, OrderDone, CommandDone, disk, fixed
  <2>2. proc'.pc \in {"order", "next", "done"}
    BY <1>0, <1>6, OrderMoves, LeaveProc DEF Moves
  <2> QED
    BY <1>10, <1>11, <2>1, <2>2, HashQuiet DEF Fetching
<1>7. ASSUME NEW passed \in BOOLEAN, Test(passed) PROVE HashInv'
  <2>1. UNCHANGED <<loader, src, hash_file, file, hurt, crashes>> /\ proc.pc # "clean"
    BY <1>7 DEF Test, disk, fixed
  <2>2. proc'.pc \in {"failed", "test", "done"}
    BY <1>0, <1>7, LeaveProc DEF Moves
  <2> QED
    BY <1>10, <1>11, <2>1, <2>2, HashQuiet DEF Fetching
<1>8. CASE Exit \/ Crash
  <2>1. /\ UNCHANGED <<loader, src, hash_file, file, hurt>> /\ proc'.pc \notin Fetching
        /\ \/ crashes' = crashes /\ proc.pc # "clean"
           \/ crashes' = crashes + 1
    BY <1>8, NoProcFacts DEF Exit, Crash, disk, fixed, Fetching
  <2>2. crashes' \in Nat /\ crashes' >= crashes /\ (proc.pc # "clean" \/ crashes' > 0)
    BY <1>0, <2>1
  <2> QED
    BY <1>11, <2>1, <2>2, HashQuiet
<1>9. CASE UNCHANGED vars
  BY <1>9 DEF vars, disk, fixed, HashInv, FilesTell, OnlyCleaned, IsHurt, IsArchive,
              Projects, Of, M
<1> QED
  BY <1>1, <1>2, <1>3, <1>4, <1>5, <1>6, <1>7, <1>8, <1>9, <1>12, NextSplits DEF Loop, Outside

\* ArchiveFetcher: for any manifests, commands, changes and kills, also in the
\* middle of an update() or of a removal by clean_dirs(), whatever is in a tree
\* with a hash file is of the version that it names, and nothing is missing but
\* what a kill of clean_dirs() has left removed.
THEOREM HashFileCorrect == Spec => []HashFileTruth
<1>1. Init => ProcOK /\ Upstreams /\ HashInv
  BY ProcInit, UpstreamsInit, HashInit
<1>2. ProcOK /\ Upstreams /\ HashInv /\ [Next]_vars => (ProcOK /\ Upstreams /\ HashInv)'
  BY ProcStep, UpstreamsStep, HashStep
<1>3. HashInv => HashFileTruth
  BY DEF HashInv, HashFileTruth, FilesTell, OnlyCleaned
<1> QED
  BY <1>1, <1>2, <1>3, PTL DEF Spec

-----------------------------------------------------------------------------
(* The commands of a build.                                                *)

PlanSteps == {"configure", "invalidate", "cache", "rmtree", "copytree", "copy",
              "libtoolize", "autogen", "compile", "install", "mark"}
Resets == {"invalidate", "rmtree", "copytree"}
Configuring == Builders \ {"make", "nop", "setup-py", "iproute2"}

\* Every compilation and installation of a plan finds what the command m makes
\* and the commands in R unmake, given whether it is there now.
GoodPlan(todo, d, m, R) ==
    \A k \in DOMAIN todo : todo[k] \in {"compile", "install"} =>
        \/ d /\ \A j \in 1..(k - 1) : todo[j] \notin R
        \/ \E j \in 1..(k - 1) : /\ todo[j] = m
                                 /\ \A h \in (j + 1)..(k - 1) : todo[h] \notin R

Installing(todo) == \E k \in DOMAIN todo : todo[k] = "install"

\* The build directory is configured, has the sources, has no old rules.
Configured == {"cache", "rules"} \subseteq BuildFiles
Copied == "copy" \in BuildFiles
Fresh == "old" \notin BuildFiles
CMakes == {"cmake", "python-wheel"}

PlanInv ==
    /\ proc.todo \in Seq(PlanSteps)
    /\ Builder(M) \in Configuring => GoodPlan(proc.todo, Configured, "configure", Resets)
    /\ Builder(M) = "iproute2" => GoodPlan(proc.todo, Copied, "copytree", {"rmtree"})
    /\ proc.reconfigure /\ Builder(M) \in CMakes =>
            GoodPlan(proc.todo, Fresh, "configure", {"invalidate"})

ConfInv ==
    /\ proc.pc \in {"step", "install"} /\ Builder(M) \in Builders => PlanInv
    /\ proc.pc = "install" => proc.todo # <<>> /\ Head(proc.todo) = "install"

\* What one command makes of the build directory.
LEMMA GoodPlanTail ==
    ASSUME NEW todo \in Seq(PlanSteps), todo # <<>>, NEW d \in BOOLEAN, NEW e \in BOOLEAN,
           NEW m, NEW R, GoodPlan(todo, d, m, R), Head(todo) = m => e,
           Head(todo) \notin R => (d => e)
    PROVE  Tail(todo) \in Seq(PlanSteps) /\ GoodPlan(Tail(todo), e, m, R)
<1> DEFINE t == Tail(todo)
<1>1. /\ t \in Seq(PlanSteps) /\ Len(todo) \in Nat /\ Head(todo) = todo[1]
      /\ \A k \in 1..(Len(todo) - 1) : t[k] = todo[k + 1]
      /\ DOMAIN todo = 1..Len(todo) /\ DOMAIN t = 1..(Len(todo) - 1)
  OBVIOUS
<1> HIDE DEF t
<1> SUFFICES ASSUME NEW k \in 1..(Len(todo) - 1), t[k] \in {"compile", "install"}
             PROVE  \/ e /\ \A j \in 1..(k - 1) : t[j] \notin R
                    \/ \E j \in 1..(k - 1) :
                          /\ t[j] = m
                          /\ \A h \in (j + 1)..(k - 1) : t[h] \notin R
  BY <1>1 DEF GoodPlan, t
<1>2. CASE d /\ \A j \in 1..k : todo[j] \notin R
  <2>1. todo[1] \notin R
    BY <1>1, <1>2
  <2>2. e
    BY <1>1, <1>2, <2>1
  <2>3. \A j \in 1..(k - 1) : t[j] = todo[j + 1] /\ j + 1 \in 1..k
    BY <1>1
  <2> QED
    BY <1>2, <2>2, <2>3
<1>3. ASSUME NEW j \in 1..k, todo[j] = m,
             \A h \in (j + 1)..k : todo[h] \notin R
      PROVE  \/ e /\ \A i \in 1..(k - 1) : t[i] \notin R
             \/ \E i \in 1..(k - 1) : /\ t[i] = m
                                      /\ \A h \in (i + 1)..(k - 1) : t[h] \notin R
  <2>1. CASE j = 1
    <3>1. \A i \in 1..(k - 1) : t[i] = todo[i + 1] /\ i + 1 \in (j + 1)..k
      BY <1>1, <2>1
    <3> QED
      BY <1>1, <1>3, <2>1, <3>1
  <2>2. CASE j # 1
    <3>1. j - 1 \in 1..(k - 1) /\ t[j - 1] = todo[j]
      BY <1>1, <2>2
    <3>2. \A h \in ((j - 1) + 1)..(k - 1) : t[h] = todo[h + 1] /\ h + 1 \in (j + 1)..k
      BY <1>1, <2>2
    <3> QED
      BY <1>3, <3>1, <3>2
  <2> QED
    BY <2>1, <2>2
<1>4. k + 1 \in DOMAIN todo /\ (k + 1) - 1 = k /\ todo[k + 1] \in {"compile", "install"}
  BY <1>1
<1> QED
  BY <1>2, <1>3, <1>4 DEF GoodPlan

\* A plan that runs m before anything that needs it, and for good.
LEMMA MadeFirst ==
    ASSUME NEW s \in Seq(PlanSteps), NEW j \in 1..Len(s), NEW d, NEW m, NEW R, s[j] = m,
           m \notin {"compile", "install"},
           \A k \in 1..(j - 1) : s[k] \notin {"compile", "install"},
           \A k \in (j + 1)..Len(s) : s[k] \notin R
    PROVE  GoodPlan(s, d, m, R)
<1> SUFFICES ASSUME NEW k \in 1..Len(s), s[k] \in {"compile", "install"}
             PROVE  \E h \in 1..(k - 1) : /\ s[h] = m
                                          /\ \A i \in (h + 1)..(k - 1) : s[i] \notin R
  BY DEF GoodPlan
<1>1. Len(s) \in Nat /\ k # j
  OBVIOUS
<1>2. j < k
  BY <1>1
<1> QED
  BY <1>1, <1>2

LEMMA ConfiguredFirst ==
    ASSUME NEW s \in Seq(PlanSteps), NEW j \in 1..Len(s), NEW d, s[j] = "configure",
           \A k \in 1..(j - 1) : s[k] \notin {"compile", "install"},
           \A k \in (j + 1)..Len(s) : s[k] \notin Resets
    PROVE  GoodPlan(s, d, "configure", Resets)
  BY MadeFirst

\* Two parts of a plan.
LEMMA PlanConcat ==
    ASSUME NEW s \in Seq(PlanSteps), NEW t \in Seq(PlanSteps)
    PROVE  /\ s \o t \in Seq(PlanSteps) /\ Len(s \o t) = Len(s) + Len(t)
           /\ \A k \in 1..Len(s) : (s \o t)[k] = s[k]
           /\ \A k \in 1..Len(t) : (s \o t)[Len(s) + k] = t[k]
<1>1. /\ s \o t \in Seq(PlanSteps) /\ Len(s \o t) = Len(s) + Len(t)
      /\ \A i \in 1..(Len(s) + Len(t)) : (s \o t)[i] =
            IF i <= Len(s) THEN s[i] ELSE t[i - Len(s)]
  BY ConcatProperties
<1>2. Len(s) \in Nat /\ Len(t) \in Nat
  OBVIOUS
<1>3. \A k \in 1..Len(t) : Len(s) + k \in 1..(Len(s) + Len(t)) /\ (Len(s) + k) - Len(s) = k
  BY <1>2
<1> QED
  BY <1>1, <1>2, <1>3

\* A copy of the sources in front of a plan.
LEMMA CopyFirst ==
    ASSUME NEW t \in Seq(PlanSteps)
    PROVE  /\ <<"copy">> \o t \in Seq(PlanSteps)
           /\ Installing(t) => Installing(<<"copy">> \o t)
           /\ \A d \in BOOLEAN : \A m, R : GoodPlan(t, d, m, R) /\ "copy" \notin R
                  => GoodPlan(<<"copy">> \o t, d, m, R)
<1> DEFINE s == <<"copy">>
           q == s \o t
<1>1. s \in Seq(PlanSteps) /\ Len(s) = 1 /\ s[1] = "copy"
  BY DEF PlanSteps
<1> HIDE DEF s
<1>2. /\ q \in Seq(PlanSteps) /\ Len(q) = 1 + Len(t) /\ Len(t) \in Nat
      /\ q[1] = "copy" /\ \A k \in 1..Len(t) : q[1 + k] = t[k]
  <2>1. /\ q \in Seq(PlanSteps) /\ Len(q) = Len(s) + Len(t)
        /\ \A k \in 1..Len(s) : q[k] = s[k]
        /\ \A k \in 1..Len(t) : q[Len(s) + k] = t[k]
    BY <1>1, PlanConcat
  <2>2. 1 \in 1..Len(s) /\ Len(t) \in Nat
    BY <1>1
  <2> QED
    BY <1>1, <2>1, <2>2
<1> HIDE DEF q
<1>d. DOMAIN t = 1..Len(t) /\ DOMAIN q = 1..Len(q)
  BY <1>2
<1>3. Installing(t) => Installing(q)
  <2> SUFFICES ASSUME NEW k \in 1..Len(t), t[k] = "install"
               PROVE  \E j \in 1..Len(q) : q[j] = "install"
    BY <1>d DEF Installing
  <2>1. 1 + k \in 1..Len(q) /\ q[1 + k] = "install"
    BY <1>2
  <2> QED
    BY <2>1
<1>4. ASSUME NEW d \in BOOLEAN, NEW m, NEW R, GoodPlan(t, d, m, R), "copy" \notin R
      PROVE  GoodPlan(q, d, m, R)
  <2> SUFFICES ASSUME NEW k \in 1..Len(q), q[k] \in {"compile", "install"}
               PROVE  \/ d /\ \A j \in 1..(k - 1) : q[j] \notin R
                      \/ \E j \in 1..(k - 1) :
                            /\ q[j] = m
                            /\ \A h \in (j + 1)..(k - 1) : q[h] \notin R
    <3>1. DOMAIN q = 1..Len(q)
      BY <1>2
    <3> QED
      BY <3>1 DEF GoodPlan
  <2>1. k - 1 \in 1..Len(t) /\ t[k - 1] = q[k]
    <3>1. k # 1
      BY <1>2
    <3>2. k - 1 \in 1..Len(t) /\ 1 + (k - 1) = k
      BY <1>2, <3>1
    <3> QED
      BY <1>2, <3>2
  <2>2. \A j \in 2..(k - 1) : q[j] = t[j - 1] /\ j - 1 \in 1..((k - 1) - 1)
    <3> SUFFICES ASSUME NEW j \in 2..(k - 1) PROVE q[j] = t[j - 1] /\ j - 1 \in 1..((k - 1) - 1)
      OBVIOUS
    <3>1. j - 1 \in 1..Len(t) /\ 1 + (j - 1) = j /\ j - 1 \in 1..((k - 1) - 1)
      BY <1>2
    <3> QED
      BY <1>2, <3>1
  <2>3. CASE d /\ \A j \in 1..((k - 1) - 1) : t[j] \notin R
    <3>1. \A j \in 1..(k - 1) : j = 1 \/ j \in 2..(k - 1)
      BY <1>2
    <3> QED
      BY <1>2, <1>4, <2>2, <2>3, <3>1
  <2>4. ASSUME NEW j \in 1..((k - 1) - 1), t[j] = m,
               \A h \in (j + 1)..((k - 1) - 1) : t[h] \notin R
        PROVE  \E i \in 1..(k - 1) : /\ q[i] = m
                                    /\ \A h \in (i + 1)..(k - 1) : q[h] \notin R
    <3>1. j + 1 \in 2..(k - 1) /\ (j + 1) - 1 = j /\ j + 1 \in 1..(k - 1)
      BY <1>2
    <3>2. \A h \in ((j + 1) + 1)..(k - 1) : h \in 2..(k - 1) /\ h - 1 \in (j + 1)..((k - 1) - 1)
      BY <1>2
    <3>3. q[j + 1] = m
      BY <2>2, <2>4, <3>1
    <3>4. \A h \in ((j + 1) + 1)..(k - 1) : q[h] \notin R
      BY <2>2, <2>4, <3>2
    <3> QED
      BY <3>1, <3>3, <3>4
  <2>5. k - 1 \in DOMAIN t
    BY <2>1
  <2> QED
    BY <1>4, <2>1, <2>3, <2>4, <2>5 DEF GoodPlan
<1> QED
  BY <1>2, <1>3, <1>4 DEF q, s

LEMMA PlanGood ==
    ASSUME NEW b \in Configuring, NEW o, NEW d \in BOOLEAN,
           d = ({"cache", "rules"} \subseteq o.files), o.cargo = 2
    PROVE  /\ BuildPlan(b, o) \in Seq(PlanSteps)
           /\ GoodPlan(BuildPlan(b, o), d, "configure", Resets)
           /\ Installing(BuildPlan(b, o))
           /\ b \in CMakes /\ o.reconfigure =>
                  \A f : GoodPlan(BuildPlan(b, o), f, "configure", {"invalidate"})
<1> DEFINE Good(s) == /\ s \in Seq(PlanSteps) /\ GoodPlan(s, d, "configure", Resets)
                      /\ Installing(s)
<1>1. Good(<<"configure", "compile", "install">>)
  <2> DEFINE s == <<"configure", "compile", "install">>
  <2>1. /\ s \in Seq(PlanSteps) /\ Len(s) = 3
        /\ s[1] = "configure" /\ s[2] = "compile" /\ s[3] = "install"
    BY DEF PlanSteps
  <2> SUFFICES Good(s)
    OBVIOUS
  <2> HIDE DEF s
  <2>2. 1 \in 1..Len(s) /\ \A k \in 1..(1 - 1) : FALSE
    BY <2>1
  <2>3. \A k \in (1 + 1)..Len(s) : s[k] \notin Resets
    BY <2>1 DEF Resets
  <2>4. GoodPlan(s, d, "configure", Resets)
    BY <2>1, <2>2, <2>3, ConfiguredFirst
  <2> QED
    BY <2>1, <2>4 DEF Installing
<1>2. Good(<<"configure", "install">>)
  <2> DEFINE s == <<"configure", "install">>
  <2>1. s \in Seq(PlanSteps) /\ Len(s) = 2 /\ s[1] = "configure" /\ s[2] = "install"
    BY DEF PlanSteps
  <2> SUFFICES Good(s)
    OBVIOUS
  <2> HIDE DEF s
  <2>2. \A k \in (1 + 1)..Len(s) : s[k] \notin Resets
    BY <2>1 DEF Resets
  <2>3. 1 \in 1..Len(s) /\ \A k \in 1..(1 - 1) : FALSE
    BY <2>1
  <2>4. GoodPlan(s, d, "configure", Resets)
    BY <2>1, <2>2, <2>3, ConfiguredFirst
  <2> QED
    BY <2>1, <2>4 DEF Installing
<1>3. Good(<<"copy", "configure", "install">>)
  <2> DEFINE s == <<"copy", "configure", "install">>
  <2>1. /\ s \in Seq(PlanSteps) /\ Len(s) = 3
        /\ s[1] = "copy" /\ s[2] = "configure" /\ s[3] = "install"
    BY DEF PlanSteps
  <2> SUFFICES Good(s)
    OBVIOUS
  <2> HIDE DEF s
  <2>2. \A k \in 1..(2 - 1) : s[k] \notin {"compile", "install"}
    BY <2>1
  <2>3. \A k \in (2 + 1)..Len(s) : s[k] \notin Resets
    BY <2>1 DEF Resets
  <2>4. 2 \in 1..Len(s)
    BY <2>1
  <2>5. Installing(s)
    BY <2>1 DEF Installing
  <2> QED
    BY <2>1, <2>2, <2>3, <2>4, <2>5, ConfiguredFirst
<1>5. ASSUME b = "autoconf" PROVE Good(BuildPlan(b, o))
  <2> DEFINE s == IF o.script THEN <<>> ELSE <<"libtoolize", "autogen">>
             t == <<"configure", "compile", "install">>
             q == s \o t
  <2>1. /\ s \in Seq(PlanSteps) /\ t \in Seq(PlanSteps) /\ Len(t) = 3
        /\ t[1] = "configure" /\ t[2] = "compile" /\ t[3] = "install"
    <3>1. <<>> \in Seq(PlanSteps) /\ <<"libtoolize", "autogen">> \in Seq(PlanSteps)
      BY DEF PlanSteps
    <3>2. t \in Seq(PlanSteps)
      BY DEF PlanSteps
    <3> QED
      BY <3>1, <3>2
  <2>2. \A k \in 1..Len(s) : s[k] \notin {"compile", "install"}
    OBVIOUS
  <2> HIDE DEF s, t
  <2>3. /\ q \in Seq(PlanSteps) /\ Len(q) = Len(s) + 3 /\ Len(s) \in Nat
        /\ \A k \in 1..Len(s) : q[k] = s[k]
        /\ q[Len(s) + 1] = "configure" /\ q[Len(s) + 2] = "compile"
        /\ q[Len(s) + 3] = "install"
    <3>0. /\ s \o t \in Seq(PlanSteps) /\ Len(s \o t) = Len(s) + Len(t)
          /\ \A k \in 1..Len(s) : (s \o t)[k] = s[k]
          /\ \A k \in 1..Len(t) : (s \o t)[Len(s) + k] = t[k]
      BY <2>1, PlanConcat
    <3>1. 1 \in 1..Len(t) /\ 2 \in 1..Len(t) /\ 3 \in 1..Len(t) /\ Len(s) \in Nat
      BY <2>1
    <3> QED
      BY <2>1, <3>0, <3>1
  <2> HIDE DEF q
  <2>4. Good(q)
    <3>1. Installing(q)
      BY <2>3 DEF Installing
    <3>2. GoodPlan(q, d, "configure", Resets)
      <4> DEFINE j == Len(s) + 1
      <4>1. j \in 1..Len(q) /\ q[j] = "configure"
        BY <2>3
      <4>2. \A k \in 1..(j - 1) : k \in 1..Len(s) /\ q[k] = s[k]
        BY <2>3
      <4>3. \A k \in (j + 1)..Len(q) : k = Len(s) + 2 \/ k = Len(s) + 3
        BY <2>3
      <4>4. \A k \in (j + 1)..Len(q) : q[k] \notin Resets
        BY <2>3, <4>3 DEF Resets
      <4>5. \A k \in 1..(j - 1) : q[k] \notin {"compile", "install"}
        BY <2>2, <4>2
      <4> HIDE DEF j
      <4> QED
        BY <2>3, <4>1, <4>4, <4>5, ConfiguredFirst
    <3> QED
      BY <2>3, <3>1, <3>2
  <2> QED
    BY <1>5, <2>4 DEF q, s, t, BuildPlan, AutoconfBuild
<1>6. ASSUME b = "cmakebootstrap" PROVE Good(BuildPlan(b, o))
  <2> DEFINE s == <<"configure">>
             t == <<"compile", "install">>
             q == s \o t
  <2>1. /\ s \in Seq(PlanSteps) /\ t \in Seq(PlanSteps) /\ Len(t) = 2 /\ Len(s) = 1
        /\ s[1] = "configure" /\ t[1] = "compile" /\ t[2] = "install"
    BY DEF PlanSteps
  <2> HIDE DEF s, t
  <2>2. /\ q \in Seq(PlanSteps) /\ Len(q) = 3
        /\ q[1] = "configure" /\ q[2] = "compile" /\ q[3] = "install"
    <3>1. /\ q \in Seq(PlanSteps) /\ Len(q) = Len(s) + Len(t)
          /\ \A k \in 1..Len(s) : q[k] = s[k]
          /\ \A k \in 1..Len(t) : q[Len(s) + k] = t[k]
      BY <2>1, PlanConcat
    <3>2. 1 \in 1..Len(s) /\ 1 \in 1..Len(t) /\ 2 \in 1..Len(t)
      BY <2>1
    <3> QED
      BY <2>1, <3>1, <3>2
  <2> HIDE DEF q
  <2>3. Good(q)
    <3>1. 1 \in 1..Len(q) /\ \A k \in 1..(1 - 1) : FALSE
      BY <2>2
    <3>2. \A k \in (1 + 1)..Len(q) : q[k] \notin Resets
      BY <2>2 DEF Resets
    <3>3. GoodPlan(q, d, "configure", Resets)
      BY <2>2, <3>1, <3>2, ConfiguredFirst
    <3> QED
      BY <2>2, <3>3 DEF Installing
  <2> QED
    BY <1>6, <2>3 DEF q, s, t, BuildPlan, CMakeBootStrapBuild, MakeBuild
<1>7. ASSUME b = "boost" PROVE Good(BuildPlan(b, o))
  <2> DEFINE s == <<"configure", "install">>
             t == IF o.shared THEN <<"configure", "install">> ELSE <<>>
             q == s \o t
  <2>1. /\ s \in Seq(PlanSteps) /\ t \in Seq(PlanSteps) /\ Len(s) = 2
        /\ s[1] = "configure" /\ s[2] = "install"
    <3>1. s \in Seq(PlanSteps) /\ <<>> \in Seq(PlanSteps)
      BY DEF PlanSteps
    <3> QED
      BY <3>1
  <2>2. \A k \in 1..Len(t) : t[k] \notin Resets
    BY DEF Resets
  <2> HIDE DEF s, t
  <2>3. /\ q \in Seq(PlanSteps) /\ Len(q) = 2 + Len(t) /\ Len(t) \in Nat
        /\ q[1] = "configure" /\ q[2] = "install"
        /\ \A k \in 1..Len(t) : q[2 + k] = t[k]
    <3>1. /\ q \in Seq(PlanSteps) /\ Len(q) = Len(s) + Len(t)
          /\ \A k \in 1..Len(s) : q[k] = s[k]
          /\ \A k \in 1..Len(t) : q[Len(s) + k] = t[k]
      BY <2>1, PlanConcat
    <3>2. 1 \in 1..Len(s) /\ 2 \in 1..Len(s) /\ Len(t) \in Nat
      BY <2>1
    <3> QED
      BY <2>1, <3>1, <3>2
  <2> HIDE DEF q
  <2>4. \A k \in 2..Len(q) : q[k] \notin Resets
    <3> SUFFICES ASSUME NEW k \in 2..Len(q), k # 2 PROVE q[k] \notin Resets
      BY <2>3 DEF Resets
    <3>1. k - 2 \in 1..Len(t) /\ 2 + (k - 2) = k
      BY <2>3
    <3> QED
      BY <2>2, <2>3, <3>1
  <2>5. Good(q)
    <3>1. 1 \in 1..Len(q) /\ \A k \in 1..(1 - 1) : FALSE
      BY <2>3
    <3>2. \A k \in (1 + 1)..Len(q) : q[k] \notin Resets
      BY <2>4
    <3>3. GoodPlan(q, d, "configure", Resets)
      BY <2>3, <3>1, <3>2, ConfiguredFirst
    <3>4. 2 \in 1..Len(q)
      BY <2>3
    <3> QED
      BY <2>3, <3>3, <3>4 DEF Installing
  <2> QED
    BY <1>7, <2>5 DEF q, s, t, BuildPlan, BoostBuild
<1>8. ASSUME b = "cargo" PROVE Good(BuildPlan(b, o))
  <2> DEFINE s == <<"copy", "configure">>
             c == [i \in 1..2 |-> "compile"]
             t == <<"install">>
             r == s \o c
             q == r \o t
  <2>1. /\ s \in Seq(PlanSteps) /\ t \in Seq(PlanSteps) /\ Len(s) = 2 /\ Len(t) = 1
        /\ s[1] = "copy" /\ s[2] = "configure" /\ t[1] = "install"
    BY DEF PlanSteps
  <2>2. c \in Seq(PlanSteps) /\ Len(c) = 2 /\ c[1] = "compile" /\ c[2] = "compile"
    BY DEF PlanSteps
  <2> HIDE DEF s, t, c
  <2>3. /\ r \in Seq(PlanSteps) /\ Len(r) = 4 /\ r[1] = "copy" /\ r[2] = "configure"
        /\ r[3] = "compile" /\ r[4] = "compile"
    <3>1. /\ r \in Seq(PlanSteps) /\ Len(r) = Len(s) + Len(c)
          /\ \A k \in 1..Len(s) : r[k] = s[k]
          /\ \A k \in 1..Len(c) : r[Len(s) + k] = c[k]
      BY <2>1, <2>2, PlanConcat
    <3>2. 1 \in 1..Len(s) /\ 2 \in 1..Len(s) /\ 1 \in 1..Len(c) /\ 2 \in 1..Len(c)
      BY <2>1, <2>2
    <3>3. r[1] = s[1] /\ r[2] = s[2] /\ r[2 + 1] = c[1] /\ r[2 + 2] = c[2]
      BY <2>1, <3>1, <3>2
    <3> QED
      BY <2>1, <2>2, <3>1, <3>3
  <2> HIDE DEF r
  <2>4. /\ q \in Seq(PlanSteps) /\ Len(q) = 5 /\ q[1] = "copy" /\ q[2] = "configure"
        /\ q[3] = "compile" /\ q[4] = "compile" /\ q[5] = "install"
    <3>0. /\ r \o t \in Seq(PlanSteps) /\ Len(r \o t) = Len(r) + Len(t)
          /\ \A k \in 1..Len(r) : (r \o t)[k] = r[k]
          /\ \A k \in 1..Len(t) : (r \o t)[Len(r) + k] = t[k]
      BY <2>1, <2>3, PlanConcat
    <3>1. /\ q \in Seq(PlanSteps) /\ Len(q) = 4 + 1
          /\ \A k \in 1..4 : q[k] = r[k]
          /\ \A k \in 1..1 : q[4 + k] = t[k]
      BY <2>1, <2>3, <3>0
    <3>2. q[1] = r[1] /\ q[2] = r[2] /\ q[3] = r[3] /\ q[4] = r[4]
      BY <3>1
    <3>3. q[5] = t[1]
      BY <3>1
    <3> QED
      BY <2>1, <2>3, <3>1, <3>2, <3>3
  <2> HIDE DEF q
  <2>5. Good(q)
    <3>1. 2 \in 1..Len(q) /\ \A k \in 1..(2 - 1) : q[k] \notin {"compile", "install"}
      BY <2>4
    <3>2. \A k \in (2 + 1)..Len(q) : q[k] \notin Resets
      BY <2>4 DEF Resets
    <3>3. GoodPlan(q, d, "configure", Resets)
      BY <2>4, <3>1, <3>2, ConfiguredFirst
    <3> QED
      BY <2>4, <3>3 DEF Installing
  <2> QED
    BY <1>8, <2>5 DEF q, r, s, t, c, BuildPlan, CargoBuild
<1>9. /\ Good(CMakeBuild(o))
      /\ o.reconfigure => \A f : GoodPlan(CMakeBuild(o), f, "configure", {"invalidate"})
  <2> DEFINE s == <<"invalidate", "cache", "configure">>
             t == <<"install">>
             q == s \o t
             e == <<>> \o t
  <2>1. /\ s \in Seq(PlanSteps) /\ t \in Seq(PlanSteps) /\ Len(s) = 3 /\ Len(t) = 1
        /\ s[1] = "invalidate" /\ s[2] = "cache" /\ s[3] = "configure" /\ t[1] = "install"
    BY DEF PlanSteps
  <2>2. e = t
    OBVIOUS
  <2> HIDE DEF s, t, e
  <2>3. /\ q \in Seq(PlanSteps) /\ Len(q) = 4
        /\ q[1] = "invalidate" /\ q[2] = "cache" /\ q[3] = "configure" /\ q[4] = "install"
    <3>0. /\ s \o t \in Seq(PlanSteps) /\ Len(s \o t) = Len(s) + Len(t)
          /\ \A k \in 1..Len(s) : (s \o t)[k] = s[k]
          /\ \A k \in 1..Len(t) : (s \o t)[Len(s) + k] = t[k]
      BY <2>1, PlanConcat
    <3>1. /\ q \in Seq(PlanSteps) /\ Len(q) = 3 + 1
          /\ \A k \in 1..3 : q[k] = s[k]
          /\ \A k \in 1..1 : q[3 + k] = t[k]
      BY <2>1, <3>0
    <3> QED
      BY <2>1, <3>1
  <2> HIDE DEF q
  <2>4. Good(q) /\ \A f : GoodPlan(q, f, "configure", {"invalidate"})
    <3>1. 3 \in 1..Len(q) /\ \A k \in 1..(3 - 1) : q[k] \notin {"compile", "install"}
      BY <2>3
    <3>2. \A k \in (3 + 1)..Len(q) : q[k] \notin Resets /\ q[k] \notin {"invalidate"}
      BY <2>3 DEF Resets
    <3>3. Installing(q)
      BY <2>3 DEF Installing
    <3>4. GoodPlan(q, d, "configure", Resets)
      BY <2>3, <3>1, <3>2, ConfiguredFirst
    <3>5. ASSUME NEW f PROVE GoodPlan(q, f, "configure", {"invalidate"})
      BY <2>3, <3>1, <3>2, MadeFirst
    <3> QED
      BY <2>3, <3>3, <3>4, <3>5
  <2>5. d => Good(e)
    BY <2>1, <2>2 DEF GoodPlan, Installing
  <2>6. CASE o.reconfigure \/ NeedsReconfigure(o)
    <3>1. CMakeBuild(o) = q
      BY <2>6 DEF q, s, t, CMakeBuild
    <3> QED
      BY <2>4, <3>1
  <2>7. CASE ~ (o.reconfigure \/ NeedsReconfigure(o))
    <3>1. CMakeBuild(o) = e /\ d
      BY <2>7 DEF e, t, CMakeBuild, NeedsReconfigure
    <3> QED
      BY <2>5, <2>7, <3>1
  <2> QED
    BY <2>6, <2>7
<1>12. CASE b = "cmake"
  BY <1>9, <1>12 DEF BuildPlan
<1>13. CASE b = "python-wheel"
  <2> DEFINE c == CMakeBuild(o)
             q == <<"copy">> \o c
  <2>1. BuildPlan(b, o) = q
    BY <1>13 DEF BuildPlan, PythonWheelBuild
  <2>2. Good(c) /\ (o.reconfigure => \A f : GoodPlan(c, f, "configure", {"invalidate"}))
    BY <1>9
  <2> HIDE DEF c
  <2>3. Good(q)
    BY <2>2, CopyFirst DEF Resets
  <2>4. ASSUME o.reconfigure, NEW f PROVE GoodPlan(q, f, "configure", {"invalidate"})
    <3>1. GoodPlan(c, FALSE, "configure", {"invalidate"})
      BY <2>2, <2>4
    <3>2. GoodPlan(q, FALSE, "configure", {"invalidate"})
      BY <2>2, <3>1, CopyFirst
    <3> QED
      BY <3>2 DEF GoodPlan
  <2> QED
    BY <2>1, <2>3, <2>4
<1> HIDE DEF Good
<1>10. ASSUME b \in {"openssl", "systemd", "ninja_bootstrap", "sqlite"} PROVE Good(BuildPlan(b, o))
  <2>1. CASE b \in {"openssl", "systemd"}
    <3>1. BuildPlan(b, o) = <<"configure", "compile", "install">>
      BY <2>1 DEF BuildPlan, OpenSSLBuild, SystemdBuild
    <3> QED
      BY <3>1, <1>1 DEF Good
  <2>2. CASE b = "ninja_bootstrap"
    <3>1. BuildPlan(b, o) = <<"configure", "install">>
      BY <2>2 DEF BuildPlan, NinjaBootstrapBuild
    <3> QED
      BY <3>1, <1>2 DEF Good
  <2>3. CASE b = "sqlite"
    <3>1. BuildPlan(b, o) = <<"copy", "configure", "install">>
      BY <2>3 DEF BuildPlan, SqliteBuild
    <3> QED
      BY <3>1, <1>3 DEF Good
  <2> QED
    BY <1>10, <2>1, <2>2, <2>3
<1>11. Good(BuildPlan(b, o))
  <2>1. b \in {"cmakebootstrap", "autoconf", "boost", "cmake", "sqlite", "ninja_bootstrap",
                "openssl", "systemd", "cargo", "python-wheel"}
    BY DEF Configuring, Builders
  <2> QED
    BY <2>1, <1>5, <1>6, <1>7, <1>8, <1>12, <1>13, <1>10 DEF Good
<1> QED
  BY <1>11, <1>12, <1>13 DEF Good, CMakes

\* Whatever the builder, a plan installs something.
LEMMA PlanInstalls ==
    ASSUME NEW b \in Builders, NEW o, o.cargo = 2
    PROVE  /\ BuildPlan(b, o) \in Seq(PlanSteps) /\ Installing(BuildPlan(b, o))
           /\ b = "iproute2" => \A d : GoodPlan(BuildPlan(b, o), d, "copytree", {"rmtree"})
<1>1. CASE b \in Configuring
  BY <1>1, PlanGood DEF Configuring
<1>2. CASE b = "make"
  <2> DEFINE s == <<"compile", "install">>
  <2>1. s \in Seq(PlanSteps) /\ Len(s) = 2 /\ s[2] = "install"
    BY DEF PlanSteps
  <2>2. BuildPlan(b, o) = s
    BY <1>2 DEF BuildPlan, MakeBuild
  <2> HIDE DEF s
  <2> QED
    BY <1>2, <2>1, <2>2 DEF Installing
<1>3. CASE b = "nop"
  <2> DEFINE s == <<"install">>
  <2>1. s \in Seq(PlanSteps) /\ Len(s) = 1 /\ s[1] = "install"
    BY DEF PlanSteps
  <2>2. BuildPlan(b, o) = s
    BY <1>3 DEF BuildPlan, NopBuild
  <2> HIDE DEF s
  <2> QED
    BY <1>3, <2>1, <2>2 DEF Installing
<1>4. CASE b = "iproute2"
  <2> DEFINE s == <<"configure", "rmtree", "copytree", "compile", "install">>
  <2>1. s \in Seq(PlanSteps)
    BY DEF PlanSteps
  <2>2. /\ Len(s) = 5 /\ s[1] = "configure" /\ s[2] = "rmtree" /\ s[3] = "copytree"
        /\ s[4] = "compile" /\ s[5] = "install"
    OBVIOUS
  <2>3. BuildPlan(b, o) = s
    BY <1>4 DEF BuildPlan, Iproute2Build
  <2> HIDE DEF s
  <2>4. 3 \in 1..Len(s) /\ \A k \in 1..(3 - 1) : s[k] \notin {"compile", "install"}
    BY <2>2
  <2>5. \A k \in (3 + 1)..Len(s) : s[k] \notin {"rmtree"}
    BY <2>2
  <2>6. ASSUME NEW d PROVE GoodPlan(s, d, "copytree", {"rmtree"})
    BY <2>1, <2>2, <2>4, <2>5, MadeFirst
  <2> QED
    BY <2>1, <2>2, <2>3, <2>6 DEF Installing
<1>5. CASE b = "setup-py"
  <2> DEFINE s == <<"install", "mark">>
  <2>1. s \in Seq(PlanSteps) /\ Len(s) = 2 /\ s[1] = "install"
    BY DEF PlanSteps
  <2>2. BuildPlan(b, o) = s
    BY <1>5 DEF BuildPlan, SetupPyBuild
  <2> HIDE DEF s
  <2> QED
    BY <1>5, <2>1, <2>2 DEF Installing
<1> QED
  BY <1>1, <1>2, <1>3, <1>4, <1>5 DEF Builders, Configuring

\* Within a command, hashes and the names of directories do not change.
LEMMA SameNames ==
    ASSUME proc'.args = proc.args, Still, NEW p
    PROVE  /\ Fetcher(p)' = Fetcher(p) /\ Builder(p)' = Builder(p)
           /\ DepList(p)' = DepList(p) /\ Closure(p)' = Closure(p)
           /\ ProjectHash(p)' = ProjectHash(p) /\ Dir(p)' = Dir(p)
<1>1. Setting' = Setting
  BY DEF Setting
<1>2. \A q : Ctx(q)' = Ctx(q)
  BY <1>1 DEF Ctx, CtxOf
<1>3. \A q : Fetcher(q)' = Fetcher(q) /\ Builder(q)' = Builder(q) /\ DepList(q)' = DepList(q)
  BY <1>2 DEF Fetcher, Builder, DepList, Still
<1>4. \A q : FetcherHash(q)' = FetcherHash(q)
  BY <1>3 DEF FetcherHash, Still
<1>5. Closure(p)' = Closure(p)
  BY <1>1 DEF Closure, Still
<1>6. ProjectHash(p)' = ProjectHash(p)
  BY <1>2, <1>4, <1>5 DEF ProjectHash, Still
<1>7. Dir(p)' = Dir(p)
  BY <1>6 DEF Dir, Still
<1> QED
  BY <1>3, <1>5, <1>6, <1>7

LEMMA SamePlace ==
    ASSUME NEW pcs, Moves(pcs), Still
    PROVE  M' = M /\ D' = D /\ Builder(M)' = Builder(M) /\ Fetcher(M)' = Fetcher(M)
           /\ ProjectHash(M)' = ProjectHash(M)
<1>1. M' = M /\ proc'.args = proc.args
  BY DEF Moves, Stays, M
<1>2. \A p : /\ Dir(p)' = Dir(p) /\ Builder(p)' = Builder(p)
             /\ Fetcher(p)' = Fetcher(p) /\ ProjectHash(p)' = ProjectHash(p)
  BY <1>1, SameNames
<1> QED
  BY <1>1, <1>2 DEF D

LEMMA ConfInit == Init => ConfInv
  BY NoProcFacts DEF Init, ConfInv

\* The files of the build directory decide about its state.
LEMMA SameBuildFiles ==
    ASSUME D' = D, bdir' = bdir
    PROVE  /\ BuildFiles' = BuildFiles /\ Configured' = Configured
           /\ Copied' = Copied /\ Fresh' = Fresh
  BY DEF BuildFiles, Configured, Copied, Fresh

LEMMA ConfStep == ProcOK /\ ConfInv /\ [Next]_vars => ConfInv'
<1> SUFFICES ASSUME ProcOK, ConfInv, [Next]_vars PROVE ConfInv'
  OBVIOUS
<1>0. IsProc
  BY DEF ProcOK
<1>1. proc'.pc \notin {"step", "install"} => ConfInv'
  BY DEF ConfInv
<1>10. /\ Configured \in BOOLEAN /\ Copied \in BOOLEAN /\ Fresh \in BOOLEAN
       /\ Configured' \in BOOLEAN /\ Copied' \in BOOLEAN /\ Fresh' \in BOOLEAN
  BY DEF Configured, Copied, Fresh
<1>2. ASSUME BuildStep PROVE ConfInv'
  <2>1. /\ proc.pc = "step" /\ proc.todo # <<>> /\ Head(proc.todo) # "install"
        /\ proc'.todo = Tail(proc.todo) /\ proc'.pc = "step" /\ Moves({"step"}) /\ Still
        /\ proc'.reconfigure = proc.reconfigure
    BY <1>0, <1>2, BuildMoves DEF BuildStep, Moves
  <2>2. M' = M /\ D' = D /\ Builder(M)' = Builder(M)
    BY <2>1, SamePlace
  <2> DEFINE c == Head(proc.todo)
             made == {"invalidate", "cache", "copy", "configure", "copytree"}
  <2>3. BuildFiles' = IF c \in made THEN Effect(c, BuildFiles)
                      ELSE IF c = "rmtree" THEN {} ELSE BuildFiles
    <3>1. CASE c \in made
      BY <1>2, <2>2, <3>1 DEF BuildStep, PutBuildDir, BuildFiles
    <3>2. CASE c = "rmtree"
      BY <1>2, <2>2, <3>2 DEF BuildStep, BuildFiles
    <3>3. CASE c \notin made \cup {"rmtree"}
      BY <1>2, <2>2, <3>3 DEF BuildStep, BuildFiles
    <3> QED
      BY <3>1, <3>2, <3>3
  <2> HIDE DEF c
  <2>4. /\ c = "configure" => Configured' /\ Fresh'
        /\ c = "copytree" => Copied'
        /\ c \notin Resets => (Configured => Configured')
        /\ c \notin {"rmtree"} => (Copied => Copied')
        /\ c \notin {"invalidate"} => (Fresh => Fresh')
    BY <2>3 DEF Effect, Resets, Configured, Copied, Fresh
  <2>5. ASSUME Builder(M) \in Builders PROVE PlanInv'
    <3>1. PlanInv
      BY <2>1, <2>5 DEF ConfInv
    <3>2. Tail(proc.todo) \in Seq(PlanSteps)
      BY <2>1, <3>1 DEF PlanInv
    <3>3. Builder(M) \in Configuring => GoodPlan(Tail(proc.todo), Configured', "configure", Resets)
      BY <1>10, <2>1, <2>4, <3>1, GoodPlanTail DEF PlanInv, c
    <3>4. Builder(M) = "iproute2" => GoodPlan(Tail(proc.todo), Copied', "copytree", {"rmtree"})
      BY <1>10, <2>1, <2>4, <3>1, GoodPlanTail DEF PlanInv, c
    <3>5. proc.reconfigure /\ Builder(M) \in CMakes =>
              GoodPlan(Tail(proc.todo), Fresh', "configure", {"invalidate"})
      BY <1>10, <2>1, <2>4, <3>1, GoodPlanTail DEF PlanInv, c
    <3> QED
      BY <2>1, <2>2, <3>2, <3>3, <3>4, <3>5 DEF PlanInv
  <2> QED
    BY <2>1, <2>2, <2>5 DEF ConfInv
<1>3. ASSUME InstallStart \/ InstallDone PROVE ConfInv'
  <2>1. bdir' = bdir
    BY <1>3 DEF InstallStart, InstallDone
  <2>2. /\ Still /\ proc.pc \in {"step", "install"} /\ proc'.reconfigure = proc.reconfigure
        /\ \/ Moves({"step"}) /\ proc'.todo = <<>>
           \/ /\ Moves({"install"}) /\ proc'.todo = proc.todo
              /\ proc.todo # <<>> /\ Head(proc.todo) = "install"
           \/ /\ Moves({"step"}) /\ proc'.todo = Tail(proc.todo)
              /\ proc.todo # <<>> /\ Head(proc.todo) = "install"
    <3>1. CASE InstallStart
      BY <1>0, <3>1, BuildMoves DEF InstallStart
    <3>2. CASE InstallDone
      BY <1>0, <3>2, BuildMoves DEF ConfInv
    <3> QED
      BY <1>3, <3>1, <3>2
  <2>3. M' = M /\ D' = D /\ Builder(M)' = Builder(M)
    BY <2>2, SamePlace
  <2>4. Configured' = Configured /\ Copied' = Copied /\ Fresh' = Fresh
    BY <2>1, <2>3, SameBuildFiles
  <2>5. ASSUME Builder(M) \in Builders PROVE PlanInv'
    <3>1. PlanInv
      BY <2>2, <2>5 DEF ConfInv
    <3> HIDE DEF Configured, Copied, Fresh
    <3>2. CASE proc'.todo = <<>>
      BY <2>2, <2>3, <3>2 DEF PlanInv, GoodPlan
    <3>3. CASE /\ proc'.todo = Tail(proc.todo)
               /\ proc.todo # <<>> /\ Head(proc.todo) = "install"
      <4>1. Tail(proc.todo) \in Seq(PlanSteps)
        BY <3>1, <3>3 DEF PlanInv
      <4>2. Builder(M) \in Configuring =>
                GoodPlan(Tail(proc.todo), Configured', "configure", Resets)
        BY <1>10, <2>4, <3>1, <3>3, GoodPlanTail DEF PlanInv
      <4>3. Builder(M) = "iproute2" =>
                GoodPlan(Tail(proc.todo), Copied', "copytree", {"rmtree"})
        BY <1>10, <2>4, <3>1, <3>3, GoodPlanTail DEF PlanInv
      <4>4. proc.reconfigure /\ Builder(M) \in CMakes =>
                GoodPlan(Tail(proc.todo), Fresh', "configure", {"invalidate"})
        BY <1>10, <2>4, <3>1, <3>3, GoodPlanTail DEF PlanInv
      <4> QED
        BY <2>2, <2>3, <3>3, <4>1, <4>2, <4>3, <4>4 DEF PlanInv
    <3>4. CASE proc'.todo = proc.todo
      BY <2>2, <2>3, <2>4, <3>1, <3>4 DEF PlanInv
    <3> QED
      BY <2>2, <3>2, <3>3, <3>4
  <2>6. proc'.pc = "install" => proc'.todo # <<>> /\ Head(proc'.todo) = "install"
    BY <2>2 DEF Moves
  <2> QED
    BY <2>3, <2>5, <2>6 DEF ConfInv
<1>4. ASSUME Plan PROVE ConfInv'
  <2>1. /\ Still /\ Moves({"step"}) /\ proc'.pc = "step" /\ bdir' = bdir
        /\ proc'.reconfigure = proc.reconfigure
        /\ proc'.todo = Prepared \o BuildPlan(Builder(M), Observed)
    BY <1>0, <1>4, BuildMoves DEF Plan, disk, Moves
  <2>2. M' = M /\ D' = D /\ Builder(M)' = Builder(M)
    BY <2>1, SamePlace
  <2>3. Configured' = Configured /\ Copied' = Copied /\ Fresh' = Fresh
    BY <2>1, <2>2, SameBuildFiles
  <2> DEFINE o == Observed
             q == BuildPlan(Builder(M), o)
  <2>4. /\ Configured = ({"cache", "rules"} \subseteq o.files) /\ o.cargo = 2
        /\ o.reconfigure = proc.reconfigure
    BY DEF Observed, Configured
  <2>5. ASSUME Builder(M) \in Builders PROVE PlanInv'
    <3> HIDE DEF o
    <3>1. q \in Seq(PlanSteps)
      BY <2>4, <2>5, PlanInstalls
    <3>2. Builder(M) \in Configuring => GoodPlan(q, Configured, "configure", Resets)
      BY <1>10, <2>4, PlanGood
    <3>3. Builder(M) = "iproute2" => GoodPlan(q, Copied, "copytree", {"rmtree"})
      BY <2>4, <2>5, PlanInstalls
    <3>4. proc.reconfigure /\ Builder(M) \in CMakes =>
              GoodPlan(q, Fresh, "configure", {"invalidate"})
      BY <1>10, <2>4, PlanGood DEF CMakes, Configuring, Builders
    <3> HIDE DEF q
    <3>5. proc'.todo = <<"copy">> \o q \/ proc'.todo = q
      <4>1. proc'.todo = Prepared \o q
        BY <2>1 DEF q, o
      <4>2. CASE Prepares(M)
        BY <4>1, <4>2 DEF Prepared
      <4>3. CASE ~ Prepares(M)
        <5>1. proc'.todo = <<>> \o q
          BY <4>1, <4>3 DEF Prepared
        <5> QED
          BY <3>1, <5>1
      <4> QED
        BY <4>2, <4>3
    <3>6. /\ proc'.todo \in Seq(PlanSteps)
          /\ Builder(M) \in Configuring => GoodPlan(proc'.todo, Configured, "configure", Resets)
          /\ Builder(M) = "iproute2" => GoodPlan(proc'.todo, Copied, "copytree", {"rmtree"})
          /\ proc.reconfigure /\ Builder(M) \in CMakes =>
                GoodPlan(proc'.todo, Fresh, "configure", {"invalidate"})
      <4>1. CASE proc'.todo = q
        BY <3>1, <3>2, <3>3, <3>4, <4>1
      <4>2. CASE proc'.todo = <<"copy">> \o q
        BY <1>10, <3>1, <3>2, <3>3, <3>4, <4>2, CopyFirst DEF Resets
      <4> QED
        BY <3>5, <4>1, <4>2
    <3> QED
      BY <2>1, <2>2, <2>3, <3>6 DEF PlanInv
  <2> QED
    BY <2>1, <2>2, <2>5 DEF ConfInv
<1>5. CASE UNCHANGED vars
  <2>1. proc' = proc /\ loader' = loader /\ upstream' = upstream /\ bdir' = bdir
    BY <1>5 DEF vars, disk, fixed
  <2>2. M' = M /\ D' = D /\ Builder(M)' = Builder(M)
    <3>1. \A p : Dir(p)' = Dir(p) /\ Builder(p)' = Builder(p)
      BY <2>1, SameNames DEF Still
    <3> QED
      BY <2>1, <3>1 DEF M, D
  <2>3. Configured' = Configured /\ Copied' = Copied /\ Fresh' = Fresh
    BY <2>1, <2>2, SameBuildFiles
  <2> QED
    BY <2>1, <2>2, <2>3 DEF ConfInv, PlanInv
<1>6. CASE NextProject \/ Download \/ Status \/ Fetch
  <2>1. CASE NextProject
    BY <1>0, <1>1, <2>1, NextMoves DEF Passes, Moves
  <2>2. CASE Download
    BY <1>0, <1>1, <2>2, DownloadMoves DEF Download, Passes, Moves
  <2>3. CASE Status
    BY <1>0, <1>1, <2>3, StatusMoves DEF Passes, Moves
  <2>4. CASE Fetch
    <3>1. proc'.pc \in Updating \cup {"failed", "deps", "next"}
      BY <1>0, <2>4, FetchMoves DEF Passes, Moves
    <3> QED
      BY <1>1, <3>1 DEF Updating, Fetching
  <2> QED
    BY <1>6, <2>1, <2>2, <2>3, <2>4
<1>7. CASE DepStatus \/ Decide \/ MakeBuildDir \/ ApplyPatch \/ TouchSentinel
  BY <1>0, <1>1, <1>7, BuildMoves DEF Passes, Moves
<1>8. CASE BuildFailed \/ BuildFinished \/ WriteMarker \/ Upload
  BY <1>0, <1>1, <1>8, BuildMoves DEF Passes, Moves, Fails
<1>9. CASE Outside
  <2>1. proc'.pc \in {"idle", "done", "test", "clean", "order", "next", "failed"}
    <3>1. ASSUME NEW e \in Edits, Change(e[1], e[2], e[3]) PROVE proc'.pc = "idle"
      BY <3>1, NoProcFacts DEF Change
    <3>2. ASSUME NEW args \in Commands, Start(args)
          PROVE  proc'.pc \in {"clean", "test", "order"}
      BY <3>2, StartProc
    <3>6. CASE CleanDirs
      BY <1>0, <3>6, CleanMoves DEF Moves
    <3>3. CASE OrderStep \/ OrderDone \/ CommandDone
      BY <1>0, <3>3, OrderMoves, LeaveProc DEF Moves
    <3>4. ASSUME NEW passed \in BOOLEAN, Test(passed)
          PROVE  proc'.pc \in {"failed", "test", "done"}
      BY <1>0, <3>4, LeaveProc DEF Moves
    <3>5. CASE Exit \/ Crash
      BY <3>5, NoProcFacts DEF Exit, Crash
    <3> QED
      BY <1>9, <3>1, <3>2, <3>3, <3>4, <3>5, <3>6 DEF Outside
  <2> QED
    BY <1>1, <2>1
<1> QED
  BY <1>2, <1>3, <1>4, <1>5, <1>6, <1>7, <1>8, <1>9, NextSplits DEF Loop, Make, Installs

-----------------------------------------------------------------------------
(* The order of the builds, and the markers.                               *)

Active == {"order", "next"} \cup Working

\* Which commands come where; preinstalled projects are passed over.
CmdInv ==
    /\ proc.pc \in Active => proc.args.cmd \in {"build", "fetch"}
    /\ proc.pc \in {"deps", "decide"} \cup Building => proc.args.cmd = "build"
    /\ proc.pc \in Working => Fetcher(M) # "system"
    /\ proc.pc \in {"clean", "order"} => proc.i = 1
    /\ proc.pc = "clean" => proc.args.cmd \in {"build", "clean"}

\* The order has no project twice, only what the root needs, and every
\* project after its dependencies.
OrderInv ==
    proc.pc \in Active \cup {"clean"} /\ proc.args.recursive =>
        /\ IsInjective(proc.order)
        /\ ToSet(proc.order) \subseteq Closure(Root)
        /\ \A j \in DOMAIN proc.order :
              ToSet(DepList(proc.order[j])) \subseteq {proc.order[k] : k \in 1..(j - 1)}
        /\ proc.pc \in {"clean", "order"} =>
              proc.seen = ToSet(proc.order) /\ ToSet(proc.deps) \subseteq Closure(Root)

LEMMA ClosureFacts ==
    ASSUME ProcOK, proc.args \in Commands
    PROVE  /\ Root \in Projects
           /\ \A p \in Projects :
                /\ p \in Closure(p) /\ Closure(p) \subseteq Projects
                /\ \A q \in Closure(p) : ToSet(DepList(q)) \subseteq Closure(p)
                /\ \A S \in SUBSET Projects :
                     p \in S /\ (\A q \in S : ToSet(DepList(q)) \subseteq S)
                        => Closure(p) \subseteq S
<1>1. loader \in Loads /\ Setting \in Settings
  BY ContextFacts DEF ProcOK
<1>2. Consistent(loader)
  BY <1>1, GetdepsConstants
<1>3. \A q : ToSet(DepList(q)) = Range(loader.deps[q][CtxOf(q, Setting)])
  BY RangeIsToSet DEF DepList, Ctx
<1>4. Root \in Projects
  BY <1>1, LoaderFacts
<1> DEFINE Deps(q) == Range(loader.deps[q][CtxOf(q, Setting)])
<1>5. \A p \in Projects :
        /\ p \in Closure(p) /\ Closure(p) \subseteq Projects
        /\ \A q \in Closure(p) : Deps(q) \subseteq Closure(p)
        /\ \A S \in SUBSET Projects :
              p \in S /\ (\A q \in S : Deps(q) \subseteq S) => Closure(p) \subseteq S
  <2>1. \A s \in Settings : \A p \in DOMAIN loader.fetcher :
          /\ p \in loader.closure[s][p]
          /\ loader.closure[s][p] \subseteq DOMAIN loader.fetcher
          /\ \A q \in loader.closure[s][p] :
                Range(loader.deps[q][CtxOf(q, s)]) \subseteq loader.closure[s][p]
          /\ \A S \in SUBSET DOMAIN loader.fetcher :
                p \in S /\ (\A q \in S : Range(loader.deps[q][CtxOf(q, s)]) \subseteq S)
                   => loader.closure[s][p] \subseteq S
    BY <1>2 DEF Consistent
  <2> QED
    BY <1>1, <2>1 DEF Closure, Projects
<1>6. \A q : ToSet(DepList(q)) = Deps(q)
  BY <1>3
<1> HIDE DEF Deps
<1> QED
  BY <1>4, <1>5, <1>6

LEMMA CmdInit == Init => CmdInv /\ OrderInv
<1> SUFFICES ASSUME Init PROVE CmdInv /\ OrderInv
  OBVIOUS
<1>1. proc.pc = "idle"
  BY NoProcFacts DEF Init
<1> QED
  BY <1>1 DEF CmdInv, OrderInv, Active, Working, Updating, Fetching, Building

LEMMA CmdStep == ProcOK /\ CmdInv /\ [Next]_vars => CmdInv'
<1> SUFFICES ASSUME ProcOK, CmdInv, [Next]_vars PROVE CmdInv'
  OBVIOUS
<1>0. IsProc
  BY DEF ProcOK
<1> DEFINE Late == {"deps", "decide"} \cup Building
<1>1. /\ Updating \subseteq Working /\ Late \subseteq Working /\ Working \subseteq Active
      /\ {"download", "extract", "status"} \subseteq Working
      /\ "next" \notin Working \cup Late /\ "failed" \notin Active
      /\ "order" \notin Working \cup Late
      /\ {"download", "extract", "status", "next", "order"} \cap Late = {}
      /\ Updating \cap Late = {} /\ {"next", "order"} \subseteq Active
      /\ {"idle", "done", "test", "failed", "clean"} \cap Active = {}
  BY DEF Active, Working, Updating, Fetching, Building
<1>2. \A p : proc'.args = proc.args /\ Still => Fetcher(p)' = Fetcher(p)
  BY SameNames
<1>3. ASSUME proc.pc \in Active, Still, Passes PROVE CmdInv'
  BY <1>1, <1>3 DEF CmdInv, Passes, Stays
<1>4. ASSUME proc.pc \in Working, Still, NEW pcs, Moves(pcs),
             \/ proc.args.cmd = "build" /\ pcs \in SUBSET (Working \cup {"failed"})
             \/ pcs \in SUBSET ((Working \ Late) \cup {"failed"})
      PROVE  CmdInv'
  <2>1. Fetcher(M)' = Fetcher(M) /\ proc'.pc \in pcs /\ proc'.args = proc.args
    BY <1>4, SamePlace DEF Moves, Stays
  <2>2. Fetcher(M) # "system" /\ proc.args.cmd \in {"build", "fetch"}
    BY <1>1, <1>4 DEF CmdInv
  <2>3. proc'.pc \notin {"clean", "order"}
    BY <1>1, <1>4, <2>1
  <2>4. proc'.pc \in Late => proc.args.cmd = "build"
    BY <1>1, <1>4, <2>1
  <2> HIDE DEF Late
  <2>5. proc'.pc \in Late => proc'.args.cmd = "build"
    BY <2>1, <2>4
  <2>6. proc'.args.cmd \in {"build", "fetch"}
    BY <2>1, <2>2
  <2> QED
    BY <2>1, <2>2, <2>3, <2>5, <2>6 DEF CmdInv, Late
<1>5. ASSUME proc'.pc \notin Active, proc'.pc # "clean" PROVE CmdInv'
  <2>1. proc'.pc \notin Working \cup Late \cup {"order"}
    BY <1>1, <1>5
  <2> QED
    BY <1>5, <2>1 DEF CmdInv
<1>6. CASE NextProject
  <2>1. /\ proc.pc = "next" /\ proc.i <= Len(proc.order) /\ Still
        /\ Passes \/ Moves({"download"})
    BY <1>0, <1>6, NextMoves
  <2>2. proc.pc \in Active /\ proc.args.cmd \in {"build", "fetch"}
    BY <1>1, <2>1 DEF CmdInv
  <2>3. CASE Moves({"download"})
    <3>1. Fetcher(M)' = Fetcher(M) /\ proc'.pc = "download" /\ proc'.args = proc.args
      BY <2>1, <2>3, SamePlace DEF Moves, Stays
    <3>2. Fetcher(M) # "system"
      <4> SUFFICES ASSUME Fetcher(M) = "system" PROVE FALSE
        OBVIOUS
      <4>1. Passes
        BY <1>0, <1>6, GotoMoves DEF NextProject
      <4> QED
        BY <3>1, <4>1 DEF Passes
    <3>3. proc'.pc \notin Late /\ proc'.pc \notin {"clean", "order"}
      BY <1>1, <3>1
    <3> HIDE DEF Late
    <3> QED
      BY <2>2, <3>1, <3>2, <3>3 DEF CmdInv, Late
  <2> QED
    BY <1>3, <2>1, <2>2, <2>3
<1>7. CASE Download
  <2>1. /\ proc.pc \in {"download", "extract"} /\ Still
        /\ Passes \/ Moves({"status"}) \/ Moves({"extract"})
    BY <1>0, <1>7, DownloadMoves DEF Download
  <2>2. {"status"} \in SUBSET (Working \ Late) /\ {"extract"} \in SUBSET (Working \ Late)
        /\ proc.pc \in Working /\ proc.pc \in Active
    BY <1>1, <2>1
  <2> HIDE DEF Late
  <2> QED
    BY <1>3, <1>4, <2>1, <2>2
<1>8. CASE Status
  <2>1. /\ proc.pc = "status" /\ Still
        /\ IF proc.args.cmd = "fetch" THEN Passes \/ Moves({"update"})
           ELSE Moves({"update", "deps"})
    BY <1>0, <1>8, StatusMoves
  <2>2. /\ {"update"} \in SUBSET (Working \ Late) /\ {"update", "deps"} \in SUBSET Working
        /\ proc.pc \in Working /\ proc.pc \in Active
    BY <1>1, <2>1 DEF Updating
  <2>3. proc.args.cmd # "fetch" => proc.args.cmd = "build"
    BY <2>2 DEF CmdInv
  <2> HIDE DEF Late
  <2> QED
    BY <1>3, <1>4, <2>1, <2>2, <2>3
<1>9. CASE Fetch
  <2>1. /\ proc.pc \in Updating /\ Still
        /\ \/ proc.args.cmd = "fetch" /\ Passes
           \/ proc.args.cmd # "fetch" /\ Moves({"deps"})
           \/ Moves(Updating \cup {"failed"})
    BY <1>0, <1>9, FetchMoves
  <2>2. /\ Updating \cup {"failed"} \in SUBSET ((Working \ Late) \cup {"failed"})
        /\ {"deps"} \in SUBSET Working /\ proc.pc \in Working /\ proc.pc \in Active
    BY <1>1, <2>1
  <2>3. proc.args.cmd # "fetch" => proc.args.cmd = "build"
    BY <2>2 DEF CmdInv
  <2> HIDE DEF Late
  <2> QED
    BY <1>3, <1>4, <2>1, <2>2, <2>3
<1>10. CASE Make
  <2>1. proc.pc \in Late /\ proc.pc \in Working /\ proc.pc \in Active
    <3>1. proc.pc \in {"deps", "decide", "mkdir", "patch", "sentinel", "build", "step",
                       "install", "marker", "upload"}
      BY <1>0, <1>10, BuildMoves DEF Make, Installs
    <3> QED
      BY <1>1, <3>1 DEF Building
  <2>2. proc.args.cmd = "build"
    BY <2>1 DEF CmdInv
  <2>3. Still /\ (Passes \/ Moves(Working \cup {"failed"}))
    BY <1>0, <1>10, LoopMoves DEF Loop
  <2> HIDE DEF Late
  <2> QED
    BY <1>3, <1>4, <2>1, <2>2, <2>3
<1>11. ASSUME NEW args \in Commands, Start(args) PROVE CmdInv'
  <2>1. /\ proc'.pc = IF args.clean THEN "clean"
                      ELSE IF args.cmd = "test" THEN "test" ELSE "order"
        /\ proc'.args = args /\ proc'.i = 1
    BY <1>11, StartProc
  <2>2. /\ args.cmd \in {"build", "fetch", "test", "clean"}
        /\ args.cmd = "clean" => args.clean
        /\ args.clean => args.cmd \in {"build", "clean"}
    BY GetdepsConstants
  <2>3. proc'.pc \notin Working \cup Late
    BY <1>1, <2>1
  <2>4. proc'.pc \in Active => proc'.args.cmd \in {"build", "fetch"}
    BY <1>1, <2>1, <2>2
  <2>5. proc'.pc = "clean" => proc'.args.cmd \in {"build", "clean"}
    BY <2>1, <2>2
  <2> QED
    BY <2>1, <2>3, <2>4, <2>5 DEF CmdInv
<1>12. CASE OrderStep \/ OrderDone
  <2>1. /\ proc.pc = "order" /\ proc'.args = proc.args /\ proc'.i = proc.i
        /\ proc'.pc \in {"order", "next"}
    BY <1>0, <1>12, OrderMoves, LeaveProc DEF Moves, Stays
  <2>2. proc'.pc \notin Working \cup Late /\ proc.pc \in Active
    BY <1>1, <2>1
  <2> QED
    BY <2>1, <2>2 DEF CmdInv
<1>13. CASE CommandDone \/ Exit \/ Crash
  <2>1. proc'.pc \in {"done", "idle"}
    BY <1>0, <1>13, LeaveProc DEF Exit, Crash
  <2> QED
    BY <1>1, <1>5, <2>1
<1>14. ASSUME NEW passed \in BOOLEAN, Test(passed) PROVE CmdInv'
  <2>1. proc'.pc \in {"failed", "test", "done"}
    BY <1>0, <1>14, LeaveProc DEF Moves
  <2> QED
    BY <1>1, <1>5, <2>1
<1>15. ASSUME NEW e \in Edits, Change(e[1], e[2], e[3]) PROVE CmdInv'
  <2>1. proc'.pc = "idle"
    BY <1>15, NoProcFacts DEF Change
  <2> QED
    BY <1>1, <1>5, <2>1
<1>17. CASE CleanDirs
  <2>1. /\ proc.pc = "clean" /\ proc'.i = proc.i /\ proc'.args = proc.args
        /\ proc'.pc \in {"clean", "order", "done"}
        /\ CleanNext \/ proc'.pc = "clean"
    BY <1>0, <1>17, CleanMoves DEF Moves, Stays
  <2>2. proc.i = 1 /\ proc.args.cmd \in {"build", "clean"}
    BY <2>1 DEF CmdInv
  <2>3. proc'.pc = "order" => proc.args.cmd = "build"
    BY <1>0, <2>1, <2>2 DEF CleanNext, IsProc, Fields
  <2>4. proc'.pc \notin Working \cup Late
    BY <1>1, <2>1
  <2>5. proc'.pc \in Active => proc'.args.cmd \in {"build", "fetch"}
    BY <1>1, <2>1, <2>3
  <2> QED
    BY <2>1, <2>2, <2>4, <2>5 DEF CmdInv
<1>16. CASE UNCHANGED vars
  <2>1. proc' = proc /\ Still
    BY <1>16 DEF vars, fixed, Still
  <2>2. M' = M /\ Fetcher(M)' = Fetcher(M)
    <3>1. \A p : Fetcher(p)' = Fetcher(p)
      BY <2>1, <1>2
    <3> QED
      BY <2>1, <3>1 DEF M
  <2> QED
    BY <2>1, <2>2 DEF CmdInv
<1> QED
  BY <1>6, <1>7, <1>8, <1>9, <1>10, <1>11, <1>12, <1>13, <1>14, <1>15, <1>16,
     <1>17, NextSplits DEF Loop, Outside

\* The builders: for any manifests, commands, changes and kills, nothing is
\* compiled or installed in a build directory that lacks what its builder puts
\* there first, nor by rules that a new configuration should have replaced.
THEOREM BuildsConfigured == Spec => []ConfiguredBuild
<1>1. Init => ProcOK /\ CmdInv /\ ConfInv
  BY ProcInit, CmdInit, ConfInit
<1>2. ProcOK /\ CmdInv /\ ConfInv /\ [Next]_vars => (ProcOK /\ CmdInv /\ ConfInv)'
  BY ProcStep, CmdStep, ConfStep
<1>3. ProcOK /\ CmdInv /\ ConfInv => ConfiguredBuild
  <2> SUFFICES ASSUME ProcOK, CmdInv, ConfInv, proc.pc = "step", proc.todo # <<>>,
                      Head(proc.todo) \in {"compile", "install"}
               PROVE  /\ Needed(Builder(M)) \subseteq BuildFiles
                      /\ proc.reconfigure /\ Builder(M) \in CMakes => "old" \notin BuildFiles
    BY DEF ConfiguredBuild, CMakes
  <2>1. Builder(M) \in Builders
    <3>1. proc.pc \in Working
      BY DEF Working, Building
    <3>2. M \in Projects /\ Fetcher(M) # "system" /\ loader \in Loads /\ Ctx(M) \in Contexts
      BY <3>1, AtProject, ContextFacts DEF CmdInv, ProcOK
    <3> QED
      BY <3>2, LoaderFacts DEF Builder, Fetcher
  <2>2. PlanInv
    BY <2>1 DEF ConfInv
  <2>3. 1 \in DOMAIN proc.todo /\ Head(proc.todo) = proc.todo[1] /\ 1..(1 - 1) = {}
    BY <2>2 DEF PlanInv
  <2>4. ASSUME NEW d, NEW m, NEW R, GoodPlan(proc.todo, d, m, R) PROVE d
    BY <2>3, <2>4 DEF GoodPlan
  <2>5. Builder(M) \in Configuring => Configured
    BY <2>2, <2>4 DEF PlanInv
  <2>6. Builder(M) = "iproute2" => Copied
    BY <2>2, <2>4 DEF PlanInv
  <2>7. proc.reconfigure /\ Builder(M) \in CMakes => Fresh
    BY <2>2, <2>4 DEF PlanInv
  <2>8. CASE Builder(M) \in Configuring
    BY <2>5, <2>7, <2>8 DEF Configuring, Configured, Fresh, Needed
  <2>9. CASE Builder(M) = "iproute2"
    BY <2>6, <2>9 DEF Copied, Needed, CMakes
  <2>10. CASE Builder(M) \in {"make", "nop", "setup-py"}
    BY <2>10 DEF Needed, CMakes
  <2> QED
    BY <2>1, <2>8, <2>9, <2>10 DEF Configuring
<1> QED
  BY <1>1, <1>2, <1>3, PTL DEF Spec

LEMMA OrderInvStep == ProcOK /\ OrderInv /\ [Next]_vars => OrderInv'
<1> SUFFICES ASSUME ProcOK, OrderInv, [Next]_vars PROVE OrderInv'
  OBVIOUS
<1>0. IsProc
  BY DEF ProcOK
<1> DEFINE Before(s, j) == {s[k] : k \in 1..(j - 1)}
<1>1. /\ {"idle", "done", "test", "failed", "clean"} \cap Active = {}
      /\ Working \subseteq Active /\ {"order", "next"} \subseteq Active
      /\ {"clean", "order"} \cap (Working \cup {"failed"}) = {}
  BY DEF Active, Working, Updating, Fetching, Building
<1>2. ASSUME proc.pc \in Active, Still, proc'.args = proc.args, proc'.order = proc.order,
             proc'.pc \notin {"clean", "order"}
      PROVE  OrderInv'
  <2>1. \A p : DepList(p)' = DepList(p) /\ Closure(p)' = Closure(p)
    BY <1>2, SameNames
  <2>2. ASSUME proc'.args.recursive
        PROVE  /\ IsInjective(proc'.order) /\ ToSet(proc'.order) \subseteq Closure(Root)'
               /\ \A j \in DOMAIN proc'.order :
                     ToSet(DepList(proc.order[j])') \subseteq Before(proc'.order, j)
    BY <1>2, <2>1, <2>2 DEF OrderInv
  <2> QED
    BY <1>2, <2>1, <2>2 DEF OrderInv
<1>3. ASSUME proc'.pc \notin Active \cup {"clean"} PROVE OrderInv'
  BY <1>3 DEF OrderInv
<1>4. CASE Loop
  <2>1. /\ Still
        /\ proc.pc \in Working \/ proc.pc = "next"
        /\ Passes \/ Moves(Working \cup {"failed"})
    BY <1>0, <1>4, LoopMoves
  <2>2. proc'.args = proc.args /\ proc'.order = proc.order
        /\ proc'.pc \in Working \cup {"failed", "next"}
    BY <2>1 DEF Passes, Moves, Stays
  <2> QED
    BY <1>1, <1>2, <2>1, <2>2
<1>5. ASSUME NEW args \in Commands, Start(args) PROVE OrderInv'
  <2> SUFFICES ASSUME proc'.pc \in Active \cup {"clean"}, proc'.args.recursive
               PROVE  OrderInv'
    BY DEF OrderInv
  <2>1. /\ proc'.args = args /\ args.recursive /\ proc'.seen = {}
        /\ proc'.deps = <<Root>> /\ proc'.order = <<>> /\ loader' = loader
    BY <1>5, StartProc DEF Still
  <2>2. Root \in Closure(Root)'
    <3>1. Setting' \in Settings
      BY <2>1, GetdepsConstants DEF Setting, Settings
    <3>2. Consistent(loader) /\ loader \in Loads
      BY GetdepsConstants DEF ProcOK
    <3>3. Root \in DOMAIN loader.fetcher /\ \A s \in Settings : Root \in loader.closure[s][Root]
      BY <3>2 DEF Consistent
    <3> QED
      BY <2>1, <3>1, <3>3 DEF Closure
  <2>3. ToSet(<<>>) = {} /\ ToSet(<<Root>>) = {Root} /\ IsInjective(<<>>)
    BY DEF ToSet, IsInjective
  <2>4. DOMAIN proc'.order = {} /\ ToSet(proc'.order) = {} /\ IsInjective(proc'.order)
    BY <2>1, <2>3
  <2>5. proc'.seen = ToSet(proc'.order) /\ ToSet(proc'.deps) \subseteq Closure(Root)'
    BY <2>1, <2>2, <2>3
  <2> QED
    BY <2>4, <2>5 DEF OrderInv
<1>6. CASE OrderStep
  <2> SUFFICES ASSUME proc.args.recursive PROVE OrderInv'
    BY <1>6, OrderMoves DEF OrderInv
  <2> DEFINE m == Head(proc.deps)
             o == proc.order
  <2>1. /\ proc.pc = "order" /\ proc.deps # <<>> /\ Still
        /\ proc'.pc = "order" /\ proc'.args = proc.args
        /\ m \in Projects /\ ToSet(proc'.deps) \subseteq ToSet(proc.deps) \cup ToSet(DepList(m))
        /\ \/ proc'.order = o /\ proc'.seen = proc.seen
           \/ /\ m \notin proc.seen /\ ToSet(DepList(m)) \subseteq proc.seen
              /\ proc'.order = Append(o, m) /\ proc'.seen = proc.seen \cup {m}
    BY <1>6, OrderMoves
  <2>2. /\ IsInjective(o) /\ ToSet(o) \subseteq Closure(Root) /\ proc.seen = ToSet(o)
        /\ \A j \in DOMAIN o : ToSet(DepList(o[j])) \subseteq Before(o, j)
        /\ ToSet(proc.deps) \subseteq Closure(Root)
    BY <1>1, <2>1 DEF OrderInv
  <2>3. /\ proc.args \in Commands /\ o \in Seq(Projects) /\ proc.deps \in Seq(Projects)
    BY <2>1 DEF ProcOK
  <2>4. m \in ToSet(proc.deps) /\ m \in Closure(Root)
    BY <2>1, <2>2, <2>3, HeadTailToSet
  <2>5. ToSet(DepList(m)) \subseteq Closure(Root)
    BY <2>3, <2>4, ClosureFacts
  <2>6. \A p : DepList(p)' = DepList(p) /\ Closure(p)' = Closure(p)
    BY <2>1, SameNames
  <2>7. ToSet(proc'.deps) \subseteq Closure(Root)
    BY <2>1, <2>2, <2>5
  <2> HIDE DEF m, o
  <2>8. CASE proc'.order = o /\ proc'.seen = proc.seen
    <3>1. \A j \in DOMAIN proc'.order :
             ToSet(DepList(proc.order[j])') \subseteq Before(proc'.order, j)
      BY <2>2, <2>6, <2>8
    <3> QED
      BY <2>1, <2>2, <2>6, <2>7, <2>8, <3>1 DEF OrderInv
  <2>9. CASE /\ m \notin proc.seen /\ ToSet(DepList(m)) \subseteq proc.seen
             /\ proc'.order = Append(o, m) /\ proc'.seen = proc.seen \cup {m}
    <3> DEFINE a == Append(o, m)
    <3>1. IsInjective(a) /\ ToSet(a) = ToSet(o) \cup {m}
      BY <2>1, <2>2, <2>3, <2>9, AppendToSet
    <3>2. /\ DOMAIN a = 1..(Len(o) + 1) /\ a[Len(o) + 1] = m /\ Len(o) \in Nat
          /\ \A k \in 1..Len(o) : a[k] = o[k]
          /\ DOMAIN o = 1..Len(o)
      BY <2>1, <2>3
    <3> HIDE DEF a
    <3>3. ASSUME NEW j \in DOMAIN a PROVE ToSet(DepList(a[j])) \subseteq Before(a, j)
      <4>1. CASE j = Len(o) + 1
        <5>1. ToSet(DepList(m)) \subseteq {o[k] : k \in 1..Len(o)}
          BY <2>2, <2>9, <3>2 DEF ToSet
        <5>2. \A x \in {o[k] : k \in 1..Len(o)} : x \in Before(a, j)
          BY <3>2, <4>1
        <5> QED
          BY <3>2, <4>1, <5>1, <5>2
      <4>2. CASE j # Len(o) + 1
        <5>1. j \in DOMAIN o /\ a[j] = o[j]
          BY <3>2, <4>2
        <5>2. \A k \in 1..(j - 1) : a[k] = o[k]
          BY <3>2, <5>1
        <5>3. Before(a, j) = Before(o, j)
          BY <5>2
        <5> QED
          BY <2>2, <5>1, <5>3
      <4> QED
        BY <4>1, <4>2
    <3>4. proc'.order = a
      BY <2>9 DEF a
    <3>5. \A j \in DOMAIN proc'.order :
             ToSet(DepList(proc.order[j])') \subseteq Before(proc'.order, j)
      BY <2>6, <3>3, <3>4
    <3>6. /\ IsInjective(proc'.order) /\ ToSet(proc'.order) \subseteq Closure(Root)'
          /\ proc'.seen = ToSet(proc'.order) /\ ToSet(proc'.deps) \subseteq Closure(Root)'
      BY <2>2, <2>4, <2>6, <2>7, <2>9, <3>1, <3>4
    <3> QED
      BY <3>5, <3>6 DEF OrderInv
  <2> QED
    BY <2>1, <2>8, <2>9
<1>7. CASE OrderDone
  <2>1. /\ proc.pc = "order" /\ Still /\ proc'.args = proc.args
        /\ proc'.order = proc.order /\ proc'.pc = "next"
    BY <1>0, <1>7, LeaveProc DEF Moves, Stays
  <2> QED
    BY <1>1, <1>2, <2>1
<1>8. CASE CommandDone \/ Exit \/ Crash
  <2>1. proc'.pc \in {"done", "idle"}
    BY <1>0, <1>8, LeaveProc DEF Exit, Crash
  <2> QED
    BY <1>1, <1>3, <2>1
<1>9. ASSUME NEW passed \in BOOLEAN, Test(passed) PROVE OrderInv'
  <2>1. proc'.pc \in {"failed", "test", "done"}
    BY <1>0, <1>9, LeaveProc DEF Moves
  <2> QED
    BY <1>1, <1>3, <2>1
<1>10. ASSUME NEW e \in Edits, Change(e[1], e[2], e[3]) PROVE OrderInv'
  <2>1. proc'.pc = "idle"
    BY <1>10, NoProcFacts DEF Change
  <2> QED
    BY <1>1, <1>3, <2>1
<1>12. CASE CleanDirs
  <2>1. /\ proc.pc = "clean" /\ Still /\ proc'.args = proc.args /\ proc'.deps = proc.deps
        /\ proc'.order = proc.order /\ proc'.seen = proc.seen
        /\ proc'.pc \in {"clean", "order", "done"}
    BY <1>0, <1>12, CleanMoves DEF Moves, Stays
  <2>2. \A p : DepList(p)' = DepList(p) /\ Closure(p)' = Closure(p)
    BY <2>1, SameNames
  <2>3. ASSUME proc.args.recursive
        PROVE  /\ IsInjective(proc'.order) /\ ToSet(proc'.order) \subseteq Closure(Root)'
               /\ \A j \in DOMAIN proc'.order :
                     ToSet(DepList(proc.order[j])') \subseteq Before(proc'.order, j)
               /\ proc'.seen = ToSet(proc'.order)
               /\ ToSet(proc'.deps) \subseteq Closure(Root)'
    BY <2>1, <2>2, <2>3 DEF OrderInv
  <2> QED
    BY <2>1, <2>2, <2>3 DEF OrderInv
<1>11. CASE UNCHANGED vars
  <2>1. proc' = proc /\ Still
    BY <1>11 DEF vars, fixed, Still
  <2>2. \A p : DepList(p)' = DepList(p) /\ Closure(p)' = Closure(p)
    BY <2>1, SameNames
  <2>3. \A j : DepList(proc.order[j])' = DepList(proc.order[j])
    BY <2>1, <2>2
  <2> QED
    BY <2>1, <2>2, <2>3 DEF OrderInv
<1> QED
  BY <1>4, <1>5, <1>6, <1>7, <1>8, <1>9, <1>10, <1>11, <1>12, NextSplits DEF Outside

-----------------------------------------------------------------------------
(* The markers of the install directories.                                 *)

IsEntry(r) == r = [x \in {"files", "marker", "cached"} |-> r[x]]
InstOK == \A d \in DOMAIN inst : IsEntry(inst[d])

\* Installed for the present configuration.
Ready(p) == Marked(Dir(p)) /\ inst[Dir(p)].marker = ProjectHash(p)

\* Every project that a build has passed is ready.
DoneInv ==
    proc.pc \in {"next"} \cup Working /\ proc.args.cmd = "build" /\ ~ proc.args.no_deps =>
        \A j \in 1..(proc.i - 1) :
            /\ j \in DOMAIN proc.order
            /\ proc.order[j] # Root /\ Fetcher(proc.order[j]) # "system"
            => Ready(proc.order[j])

\* A build that is not yet sure to do something has found no marker or the
\* right one; one that does something leaves an install directory.
HereInv ==
    /\ proc.pc \in Updating \cup {"deps", "decide"} /\ proc.args.cmd = "build" =>
            (Marked(D) => inst[D].marker = ProjectHash(M))
    /\ proc.pc \in {"step", "install"} =>
            proc.todo \in Seq(PlanSteps) /\ (Installing(proc.todo) \/ Exists(D))
    /\ proc.pc \in {"install", "marker", "upload"} => Exists(D)
    /\ proc.pc = "upload" => inst[D].marker = ProjectHash(M)

\* A step that changes no install directory but one.
Only(d) == \A e : e # d => /\ (e \in DOMAIN inst') = (e \in DOMAIN inst)
                           /\ e \in DOMAIN inst => inst'[e] = inst[e]

LEMMA EntryFacts ==
    /\ \A f, m, c : IsEntry([files |-> f, marker |-> m, cached |-> c])
    /\ \A r, h : IsEntry(r) => /\ IsEntry([r EXCEPT !.marker = h])
                               /\ [r EXCEPT !.marker = h].marker = h
                               /\ IsEntry([r EXCEPT !.files = h])
                               /\ [r EXCEPT !.files = h].marker = r.marker
<1>1. \A f, m, c : IsEntry([files |-> f, marker |-> m, cached |-> c])
  BY DEF IsEntry
<1>2. ASSUME NEW r, NEW h, IsEntry(r)
      PROVE  /\ IsEntry([r EXCEPT !.marker = h])
             /\ [r EXCEPT !.marker = h].marker = h
             /\ IsEntry([r EXCEPT !.files = h])
             /\ [r EXCEPT !.files = h].marker = r.marker
  BY <1>2 DEF IsEntry
<1> QED
  BY <1>1, <1>2

LEMMA PutFacts ==
    ASSUME InstOK, NEW d, NEW r, IsEntry(r), inst' = Put(d, r)
    PROVE  InstOK' /\ Only(d) /\ d \in DOMAIN inst' /\ inst'[d] = r
  BY DEF Put, InstOK, Only

LEMMA MarkerFacts ==
    ASSUME InstOK, NEW d, NEW h, inst' = [inst EXCEPT ![d].marker = h]
    PROVE  /\ InstOK' /\ Only(d)
           /\ DOMAIN inst' = DOMAIN inst
           /\ d \in DOMAIN inst => inst'[d].marker = h
<1>1. DOMAIN inst' = DOMAIN inst
  OBVIOUS
<1>2. \A e \in DOMAIN inst : e # d => inst'[e] = inst[e]
  OBVIOUS
<1>3. d \in DOMAIN inst => inst'[d] = [inst[d] EXCEPT !.marker = h]
  OBVIOUS
<1>4. d \in DOMAIN inst => IsEntry(inst'[d]) /\ inst'[d].marker = h
  BY <1>3, EntryFacts DEF InstOK
<1> QED
  BY <1>1, <1>2, <1>4 DEF InstOK, Only

LEMMA UnmarkFacts ==
    ASSUME InstOK, NEW d, inst' = Unmark(d)
    PROVE  /\ InstOK' /\ Only(d)
           /\ DOMAIN inst' = DOMAIN inst
           /\ d \in DOMAIN inst => inst'[d].marker = NoHash
<1>1. CASE Exists(d)
  BY <1>1, MarkerFacts DEF Unmark
<1>2. CASE ~ Exists(d)
  BY <1>2 DEF Unmark, Exists, InstOK, Only
<1> QED
  BY <1>1, <1>2

LEMMA InstallFacts ==
    ASSUME InstOK, NEW content, Install(content)
    PROVE  InstOK' /\ Only(D) /\ D \in DOMAIN inst'
<1>1. IsEntry(DirOf(D))
  BY EntryFacts DEF DirOf, InstOK, Exists
<1>2. IsEntry([DirOf(D) EXCEPT !.files = content])
  BY <1>1, EntryFacts
<1>3. inst' = Put(D, [DirOf(D) EXCEPT !.files = content])
  BY DEF Install
<1> QED
  BY <1>2, <1>3, PutFacts

LEMMA UnchangedInst ==
    ASSUME InstOK, inst' = inst PROVE InstOK' /\ \A d : Only(d)
  BY DEF InstOK, Only

\* The steps of the loop change the install directory of their project only.
LEMMA InstLoop ==
    ASSUME InstOK, Loop
    PROVE  InstOK' /\ Only(D)
<1>1. CASE CacheExtract
  <2>1. PICK marker : inst' = Put(D, [files |-> Partial({}), marker |-> marker,
                                      cached |-> FALSE])
    BY <1>1 DEF CacheExtract
  <2> QED
    BY <2>1, EntryFacts, PutFacts
<1>2. CASE CacheExtracted
  BY <1>2, EntryFacts, PutFacts DEF CacheExtracted
<1>3. CASE Status
  BY <1>3, UnmarkFacts, UnchangedInst DEF Status
<1>4. CASE Decide
  BY <1>4, UnmarkFacts, UnchangedInst DEF Decide
<1>5. CASE BuildStep
  BY <1>5, MarkerFacts, UnchangedInst DEF BuildStep
<1>6. CASE InstallStart
  BY <1>6, InstallFacts, UnchangedInst DEF InstallStart
<1>7. CASE InstallDone
  BY <1>7, InstallFacts DEF InstallDone
<1>8. CASE WriteMarker
  BY <1>8, MarkerFacts, UnchangedInst DEF WriteMarker
<1>9. CASE Fetch
  <2>1. inst' = inst
    BY <1>9 DEF Fetch, UpdateLocal, MirrorFile, MirrorRemove, MirrorDone, GitClone,
          GitUpdate, ArchiveCheck, ArchiveRemove, Attempt, Unpack, Unpacked,
          WriteHash, disk
  <2> QED
    BY <2>1, UnchangedInst
<1>10. CASE NextProject \/ CacheMiss \/ CacheExtractFailed
  BY <1>10, UnchangedInst DEF NextProject, CacheMiss, CacheExtractFailed, disk
<1>11. CASE DepStatus \/ MakeBuildDir \/ ApplyPatch \/ TouchSentinel \/ Plan
  BY <1>11, UnchangedInst DEF DepStatus, MakeBuildDir, ApplyPatch, TouchSentinel, Plan, disk
<1>12. CASE BuildFailed \/ BuildFinished \/ Upload
  BY <1>12, UnchangedInst DEF BuildFailed, BuildFinished, Upload, disk
<1> QED
  BY <1>1, <1>2, <1>3, <1>4, <1>5, <1>6, <1>7, <1>8, <1>9, <1>10, <1>11, <1>12
     DEF Loop, Download, Make, Installs

LEMMA CleanInst ==
    ASSUME InstOK, CleanDirs
    PROVE  InstOK'
<1>1. CASE \E d \in DOMAIN inst : CleanInstalled(d)
  <2>1. PICK d \in DOMAIN inst : CleanInstalled(d)
    BY <1>1
  <2>2. CASE inst' = Unmark(d)
    BY <2>2, UnmarkFacts
  <2>3. CASE \E t : inst' = [inst EXCEPT ![d].files[d[1]] = t]
    <3>1. PICK t : inst' = [inst EXCEPT ![d].files[d[1]] = t]
      BY <2>3
    <3>2. /\ DOMAIN inst' = DOMAIN inst
          /\ \A e \in DOMAIN inst : e # d => inst'[e] = inst[e]
          /\ inst'[d] = [inst[d] EXCEPT !.files = [inst[d].files EXCEPT ![d[1]] = t]]
      BY <3>1
    <3> DEFINE g == [inst[d].files EXCEPT ![d[1]] = t]
    <3>4. IsEntry(inst[d]) /\ inst'[d] = [inst[d] EXCEPT !.files = g]
      BY <3>2 DEF InstOK
    <3> HIDE DEF g
    <3>5. ASSUME NEW x, NEW h, IsEntry(x) PROVE IsEntry([x EXCEPT !.files = h])
      BY <3>5, EntryFacts
    <3>3. IsEntry(inst'[d])
      <4>1. IsEntry([inst[d] EXCEPT !.files = g])
        BY <3>4, <3>5
      <4> QED
        BY <3>4, <4>1
    <3> QED
      BY <3>2, <3>3 DEF InstOK
  <2>4. CASE inst' = [e \in DOMAIN inst \ {d} |-> inst[e]]
    BY <2>4 DEF InstOK
  <2> QED
    BY <2>1, <2>2, <2>3, <2>4 DEF CleanInstalled
<1>2. CASE ~ \E d \in DOMAIN inst : CleanInstalled(d)
  <2>1. inst' = inst
    BY <1>2 DEF CleanDirs, CleanBuild, CleanExtracted, CleanShipit, CleanNext, disk
  <2> QED
    BY <2>1, UnchangedInst
<1> QED
  BY <1>1, <1>2

LEMMA HashNotEmpty ==
    ASSUME ProcOK, proc.args \in Commands, NEW p \in Projects
    PROVE  ProjectHash(p) # NoHash
<1>1. p \in Closure(p)
  BY ClosureFacts
<1>2. p \in DOMAIN ProjectHash(p)
  BY <1>1 DEF ProjectHash
<1> QED
  BY <1>2 DEF NoHash

LEMMA HereStep ==
    ASSUME ProcOK, CmdInv, InstOK, HereInv, ConfInv, Loop
    PROVE  HereInv'
<1>0. IsProc
  BY DEF ProcOK
<1>1. ASSUME proc'.pc \notin Updating \cup {"deps", "decide", "step", "install",
                                            "marker", "upload"}
      PROVE  HereInv'
  BY <1>1 DEF HereInv
<1>2. ASSUME NEW pcs, Moves(pcs), Still
      PROVE  /\ M' = M /\ D' = D /\ ProjectHash(M)' = ProjectHash(M)
             /\ proc'.args = proc.args /\ proc'.pc \in pcs
  BY <1>2, SamePlace DEF Moves, Stays
<1>3. CASE NextProject \/ Download
  <2>1. proc'.pc \in {"next", "download", "status", "extract"}
    BY <1>0, <1>3, NextMoves, DownloadMoves DEF Download, Passes, Moves
  <2> QED
    BY <1>1, <2>1 DEF Updating, Fetching
<1>4. CASE Status
  <2>1. /\ proc.pc = "status" /\ Still
        /\ IF proc.args.cmd = "fetch" THEN Passes \/ Moves({"update"})
           ELSE Moves({"update", "deps"})
    BY <1>0, <1>4, StatusMoves
  <2>2. CASE Passes
    <3>1. proc'.pc = "next"
      BY <2>2 DEF Passes
    <3> QED
      BY <1>1, <3>1 DEF Updating, Fetching
  <2>3. CASE proc.args.cmd = "fetch" /\ ~ Passes
    <3>1. proc'.args.cmd # "build" /\ proc'.pc = "update"
      BY <1>2, <2>1, <2>3
    <3> QED
      BY <3>1 DEF HereInv
  <2>4. CASE proc.args.cmd # "fetch"
    <3>1. /\ M' = M /\ D' = D /\ ProjectHash(M)' = ProjectHash(M)
          /\ proc'.pc \in {"update", "deps"}
      BY <1>2, <2>1, <2>4
    <3> DEFINE same == Marked(D) /\ inst[D].marker = ProjectHash(M)
    <3>2. \/ inst' = inst /\ (Marked(D) => same)
          \/ inst' = Unmark(D)
      BY <1>4, <2>4 DEF Status
    <3>3. CASE inst' = inst /\ (Marked(D) => same)
      BY <3>1, <3>3 DEF HereInv, Marked, Exists
    <3>4. CASE inst' = Unmark(D)
      <4>1. D \in DOMAIN inst' => inst'[D].marker = NoHash
        BY <3>4, UnmarkFacts
      <4>2. ~ Marked(D)'
        BY <3>1, <4>1 DEF Marked, Exists, NoHash
      <4> QED
        BY <3>1, <4>2 DEF HereInv
    <3> QED
      BY <3>2, <3>3, <3>4
  <2> QED
    BY <2>1, <2>2, <2>3, <2>4
<1>5. CASE Fetch
  <2>1. inst' = inst
    BY <1>5 DEF Fetch, UpdateLocal, MirrorFile, MirrorRemove, MirrorDone, GitClone,
          GitUpdate, ArchiveCheck, ArchiveRemove, Attempt, Unpack, Unpacked,
          WriteHash, disk
  <2>2. /\ proc.pc \in Updating /\ Still
        /\ Passes \/ Moves({"deps"}) \/ Moves(Updating \cup {"failed"})
    BY <1>0, <1>5, FetchMoves
  <2>3. CASE Passes
    <3>1. proc'.pc = "next"
      BY <2>3 DEF Passes
    <3> QED
      BY <1>1, <3>1 DEF Updating, Fetching
  <2>4. CASE Moves({"deps"}) \/ Moves(Updating \cup {"failed"})
    <3>1. /\ M' = M /\ D' = D /\ ProjectHash(M)' = ProjectHash(M)
          /\ proc'.args = proc.args /\ proc'.pc \in Updating \cup {"failed", "deps"}
      BY <1>2, <2>2, <2>4
    <3>2. proc'.args.cmd = "build" /\ Marked(D)' => (inst[D].marker = ProjectHash(M))'
      BY <2>1, <2>2, <3>1 DEF HereInv, Marked, Exists
    <3>3. proc'.pc \notin {"step", "install", "marker", "upload"}
      BY <3>1 DEF Updating, Fetching
    <3> QED
      BY <3>2, <3>3 DEF HereInv
  <2> QED
    BY <2>2, <2>3, <2>4
<1>6. CASE DepStatus
  <2>1. /\ proc.pc = "deps" /\ inst' = inst /\ M' = M /\ D' = D
        /\ ProjectHash(M)' = ProjectHash(M) /\ proc'.args = proc.args /\ proc'.pc = "decide"
    BY <1>0, <1>2, <1>6, BuildMoves DEF DepStatus, disk
  <2> QED
    BY <2>1 DEF HereInv, Marked, Exists, Updating, Fetching
<1>7. CASE Decide \/ MakeBuildDir \/ ApplyPatch \/ TouchSentinel \/ BuildFailed \/ Upload
  <2>1. proc'.pc \in {"next", "mkdir", "build", "patch", "sentinel", "failed"}
    BY <1>0, <1>7, BuildMoves DEF Passes, Moves, Fails
  <2> QED
    BY <1>1, <2>1 DEF Updating, Fetching
<1>8. CASE Plan
  <2>1. /\ proc.pc = "build" /\ proc'.pc = "step"
        /\ proc'.todo = Prepared \o BuildPlan(Builder(M), Observed)
    BY <1>0, <1>8, BuildMoves DEF Moves
  <2>2. M \in Projects /\ Fetcher(M) # "system" /\ proc.args \in Commands
    BY <2>1, AtProject DEF CmdInv, Working, Building
  <2>3. Builder(M) \in Builders
    <3>1. Ctx(M) \in Contexts /\ loader \in Loads
      BY <2>2, ContextFacts DEF ProcOK
    <3> QED
      BY <2>2, <3>1, LoaderFacts DEF Fetcher, Builder
  <2> DEFINE t == BuildPlan(Builder(M), Observed)
  <2>4. Observed.cargo = 2
    BY DEF Observed
  <2>a. t \in Seq(PlanSteps) /\ Installing(t)
    BY <2>3, <2>4, PlanInstalls
  <2>b. proc'.todo = <<"copy">> \o t \/ proc'.todo = t
    <3> HIDE DEF t
    <3>1. <<>> \o t = t
      BY <2>a
    <3> QED
      BY <2>1, <3>1 DEF Prepared, t
  <2> HIDE DEF t
  <2>5. proc'.todo \in Seq(PlanSteps) /\ Installing(proc'.todo)
    BY <2>a, <2>b, CopyFirst
  <2> QED
    BY <2>1, <2>5 DEF HereInv, Updating, Fetching
<1>9. CASE BuildStep
  <2>1. /\ proc.pc = "step" /\ proc.todo # <<>> /\ Head(proc.todo) # "install"
        /\ proc'.todo = Tail(proc.todo) /\ proc'.pc = "step" /\ D' = D
    BY <1>0, <1>2, <1>9, BuildMoves DEF BuildStep
  <2>2. proc.todo \in Seq(PlanSteps) /\ (Installing(proc.todo) \/ Exists(D))
    BY <2>1 DEF HereInv
  <2>3. DOMAIN inst' = DOMAIN inst
    BY <1>9 DEF BuildStep
  <2>4. Installing(proc.todo) => Installing(Tail(proc.todo))
    <3> SUFFICES ASSUME NEW k \in DOMAIN proc.todo, proc.todo[k] = "install"
                 PROVE  Installing(Tail(proc.todo))
      BY DEF Installing
    <3>1. k # 1 /\ k \in 1..Len(proc.todo) /\ Len(proc.todo) \in Nat
      BY <2>1, <2>2
    <3>2. k - 1 \in DOMAIN Tail(proc.todo) /\ Tail(proc.todo)[k - 1] = proc.todo[k]
      <4>1. /\ DOMAIN Tail(proc.todo) = 1..(Len(proc.todo) - 1)
            /\ \A j \in 1..(Len(proc.todo) - 1) : Tail(proc.todo)[j] = proc.todo[j + 1]
        BY <2>1, <2>2
      <4>2. k - 1 \in 1..(Len(proc.todo) - 1) /\ (k - 1) + 1 = k
        BY <3>1
      <4> QED
        BY <4>1, <4>2
    <3> QED
      BY <3>2 DEF Installing
  <2>5. Tail(proc.todo) \in Seq(PlanSteps)
    BY <2>1, <2>2
  <2> QED
    BY <2>1, <2>2, <2>3, <2>4, <2>5 DEF HereInv, Exists, Updating, Fetching
<1>10. CASE InstallStart
  <2>1. CASE Whole(M) /\ Exists(D)
    <3>1. proc' = Set("todo", <<>>) /\ inst' = inst /\ proc.pc = "step" /\ Still
      BY <1>10, <2>1 DEF InstallStart, Still, fixed
    <3>2. proc'.todo = <<>> /\ proc'.pc = "step" /\ Moves({"step"})
      BY <1>0, <3>1 DEF Set, IsProc, Fields, Moves, Stays
    <3>3. D' = D
      BY <1>2, <3>1, <3>2
    <3>4. D \in DOMAIN inst'
      BY <2>1, <3>1 DEF Exists
    <3>5. proc'.todo \in Seq(PlanSteps)
      BY <3>2
    <3> QED
      BY <3>2, <3>3, <3>4, <3>5 DEF HereInv, Exists, Updating, Fetching
  <2>2. CASE ~ (Whole(M) /\ Exists(D))
    <3>1. PICK keep \in Keeps : /\ proc' = [proc EXCEPT !.pc = "install", !.keep = keep]
                                /\ Install(Partial(keep))
      BY <1>10, <2>2 DEF InstallStart
    <3>c. proc.pc = "step" /\ Still
      BY <1>10 DEF InstallStart, Still, fixed
    <3>a. Moves({"install"}) /\ proc'.todo = proc.todo
      BY <1>0, <3>1 DEF Moves, Stays, IsProc, Fields
    <3>b. D \in DOMAIN inst'
      BY <3>1, InstallFacts
    <3>2. /\ proc'.todo = proc.todo /\ proc'.pc = "install" /\ D' = D
          /\ D \in DOMAIN inst'
      BY <1>2, <3>a, <3>b, <3>c
    <3>3. proc.todo \in Seq(PlanSteps)
      BY <3>c DEF HereInv
    <3> QED
      BY <3>2, <3>3 DEF HereInv, Exists, Updating, Fetching
  <2> QED
    BY <2>1, <2>2
<1>11. CASE InstallDone
  <2>1. /\ proc.pc = "install" /\ proc'.pc = "step" /\ D' = D
        /\ proc'.todo = Tail(proc.todo) /\ D \in DOMAIN inst'
    BY <1>0, <1>2, <1>11, BuildMoves, InstallFacts DEF InstallDone
  <2>2. proc.todo \in Seq(PlanSteps) /\ proc.todo # <<>>
    BY <2>1 DEF HereInv, ConfInv
  <2>3. Tail(proc.todo) \in Seq(PlanSteps)
    BY <2>2
  <2> QED
    BY <2>1, <2>3 DEF HereInv, Exists, Updating, Fetching
<1>12. CASE BuildFinished
  <2>1. /\ proc.pc = "step" /\ proc.todo = <<>> /\ inst' = inst
        /\ proc'.pc = "marker" /\ D' = D
    BY <1>0, <1>2, <1>12, BuildMoves DEF BuildFinished, disk
  <2>2. Exists(D)
    BY <2>1 DEF HereInv, Installing
  <2> QED
    BY <2>1, <2>2 DEF HereInv, Exists, Updating, Fetching
<1>13. CASE WriteMarker
  <2>1. CASE M = Root /\ proc.args.target # "install"
    <3>1. proc'.pc = "next"
      BY <1>0, <1>13, <2>1, GotoMoves DEF WriteMarker, Passes
    <3> QED
      BY <1>1, <3>1 DEF Updating, Fetching
  <2>2. CASE ~ (M = Root /\ proc.args.target # "install")
    <3>1. /\ inst' = [inst EXCEPT ![D].marker = ProjectHash(M)]
          /\ Goto("upload") /\ proc.pc = "marker" /\ Still
      BY <1>13, <2>2 DEF WriteMarker, Still, fixed
    <3>a. Moves({"upload"})
      BY <1>0, <3>1, GotoMoves
    <3>2. D' = D /\ ProjectHash(M)' = ProjectHash(M) /\ proc'.pc = "upload"
      BY <1>2, <3>1, <3>a
    <3>3. D \in DOMAIN inst' /\ inst'[D].marker = ProjectHash(M)
      BY <3>1, MarkerFacts DEF HereInv, Exists
    <3> QED
      BY <3>2, <3>3 DEF HereInv, Exists, Updating, Fetching
  <2> QED
    BY <2>1, <2>2
<1> QED
  BY <1>3, <1>4, <1>5, <1>6, <1>7, <1>8, <1>9, <1>10, <1>11, <1>12, <1>13
     DEF Loop, Make, Installs

\* A build passes a dependency only when it is ready.
LEMMA PassReady ==
    ASSUME ProcOK, CmdInv, InstOK, HereInv, Loop, Passes,
           proc.args.cmd = "build", ~ proc.args.no_deps,
           M # Root, Fetcher(M) # "system"
    PROVE  D \in DOMAIN inst' /\ inst'[D].marker = ProjectHash(M)
<1>0. IsProc
  BY DEF ProcOK
<1>1. proc'.pc = "next" /\ proc'.i = proc.i + 1 /\ proc.i \in Nat
  BY DEF Passes, ProcOK
<1>2. ASSUME NEW pcs, Moves(pcs) PROVE FALSE
  BY <1>1, <1>2 DEF Moves
<1>3. ~ NextProject
  <2>1. Selected(M)
    BY DEF Selected
  <2>2. NextProject => proc'.pc = "download"
    BY <1>0, <2>1 DEF NextProject, IsProc, Fields
  <2> QED
    BY <1>1, <2>2
<1>4. ~ Status /\ ~ Fetch
  BY <1>0, <1>2, StatusMoves, FetchMoves
<1>5. /\ ~ CacheMiss /\ ~ CacheExtract /\ ~ CacheExtractFailed
  BY <1>0, <1>2, DownloadMoves
<1>6. /\ ~ DepStatus /\ ~ MakeBuildDir /\ ~ ApplyPatch /\ ~ TouchSentinel /\ ~ Plan
      /\ ~ BuildStep /\ ~ InstallStart /\ ~ InstallDone /\ ~ BuildFailed
      /\ ~ BuildFinished
  BY <1>0, <1>2, BuildMoves DEF Fails
<1>7. CacheExtracted \/ Decide \/ WriteMarker \/ Upload
  BY <1>3, <1>4, <1>5, <1>6 DEF Loop, Download, Make, Installs
<1>8. CASE CacheExtracted
  <2>1. inst' = Put(D, [files |-> cache[D], marker |-> ProjectHash(M),
                        cached |-> TRUE])
    BY <1>8 DEF CacheExtracted
  <2>2. IsEntry([files |-> cache[D], marker |-> ProjectHash(M), cached |-> TRUE])
    BY EntryFacts
  <2>3. /\ D \in DOMAIN inst'
        /\ inst'[D] = [files |-> cache[D], marker |-> ProjectHash(M), cached |-> TRUE]
    BY <2>1, <2>2, PutFacts
  <2> QED
    BY <2>3
<1>9. CASE Decide
  <2>1. ~ Goto("mkdir")
    BY <1>0, <1>2, GotoMoves
  <2>2. proc.pc = "decide" /\ inst' = inst /\ Marked(D)
    BY <1>9, <2>1 DEF Decide
  <2> QED
    BY <2>2 DEF HereInv, Marked, Exists
<1>10. CASE WriteMarker
  <2>1. ~ Goto("upload")
    BY <1>0, <1>2, GotoMoves
  <2> QED
    BY <1>10, <2>1 DEF WriteMarker
<1>11. CASE Upload
  BY <1>11 DEF Upload, HereInv, Exists
<1> QED
  BY <1>7, <1>8, <1>9, <1>10, <1>11

LEMMA DoneStep ==
    ASSUME ProcOK, CmdInv, InstOK, HereInv, OrderInv, DoneInv, Loop
    PROVE  DoneInv'
<1>0. IsProc /\ proc.i \in Nat \ {0} /\ proc.order \in Seq(Projects)
  BY DEF ProcOK
<1>1. /\ Still
      /\ proc.pc \in Working \/ (proc.pc = "next" /\ proc.i <= Len(proc.order))
      /\ Passes \/ Moves(Working \cup {"failed"})
  BY <1>0, LoopMoves
<1>2. /\ proc.pc \in {"next"} \cup Working /\ proc.pc # "idle"
      /\ proc'.args = proc.args /\ proc'.order = proc.order
      /\ (Passes /\ proc'.i = proc.i + 1) \/ proc'.i = proc.i
  BY <1>1 DEF Passes, Moves, Stays, Working, Updating, Fetching, Building
<1>3. proc.i \in DOMAIN proc.order
  BY <1>0, <1>1 DEF ProcOK
<1> SUFFICES ASSUME proc.args.cmd = "build", ~ proc.args.no_deps,
                    NEW j \in 1..(proc'.i - 1), j \in DOMAIN proc.order,
                    proc.order[j] # Root, Fetcher(proc.order[j])' # "system"
             PROVE  Ready(proc.order[j])'
  BY <1>2 DEF DoneInv
<1> DEFINE p == proc.order[j]
<1>4. /\ Fetcher(p)' = Fetcher(p) /\ ProjectHash(p)' = ProjectHash(p)
      /\ Dir(p)' = Dir(p)
  BY <1>1, <1>2, SameNames
<1>5. p \in Projects /\ proc.args \in Commands
  BY <1>0, <1>2 DEF ProcOK
<1>6. ProjectHash(p) # NoHash
  BY <1>5, HashNotEmpty
<1>7. InstOK' /\ Only(D)
  BY InstLoop
<1>8. SUFFICES Dir(p) \in DOMAIN inst' /\ inst'[Dir(p)].marker = ProjectHash(p)
  <2>1. Ready(p)' = (/\ Dir(p)' \in DOMAIN inst' /\ inst'[Dir(p)'].marker # NoHash
                     /\ inst'[Dir(p)'].marker = ProjectHash(p)')
    BY DEF Ready, Marked, Exists, NoHash
  <2> QED
    BY <1>4, <1>6, <1>8, <2>1
<1>9. CASE j = proc.i
  <2>1. Passes /\ p = M
    BY <1>0, <1>2, <1>9 DEF M
  <2> QED
    BY <1>4, <2>1, PassReady DEF D
<1>10. CASE j # proc.i
  <2>1. j \in 1..(proc.i - 1)
    BY <1>0, <1>2, <1>10
  <2>2. Ready(p)
    BY <1>2, <1>4, <2>1 DEF DoneInv
  <2>3. IsInjective(proc.order)
    BY <1>2, <1>5, ContextFacts DEF OrderInv, Active
  <2>4. p # M
    BY <1>3, <1>10, <2>3 DEF IsInjective, M
  <2>5. Dir(p) # D
    BY <2>4 DEF Dir, D
  <2> QED
    BY <1>7, <2>2, <2>5 DEF Ready, Marked, Exists, Only
<1> QED
  BY <1>9, <1>10

-----------------------------------------------------------------------------

BuildInv == ProcOK /\ CmdInv /\ OrderInv /\ ConfInv /\ InstOK /\ DoneInv /\ HereInv

LEMMA BuildInit == Init => BuildInv
<1> SUFFICES ASSUME Init PROVE InstOK /\ DoneInv /\ HereInv
  BY ProcInit, CmdInit, ConfInit DEF BuildInv
<1>1. proc.pc = "idle" /\ DOMAIN inst = {}
  BY NoProcFacts DEF Init
<1> QED
  BY <1>1 DEF InstOK, DoneInv, HereInv, Working, Updating, Fetching, Building

LEMMA BuildStepInv == BuildInv /\ [Next]_vars => BuildInv'
<1> SUFFICES ASSUME BuildInv, [Next]_vars PROVE InstOK' /\ DoneInv' /\ HereInv'
  BY ProcStep, CmdStep, OrderInvStep, ConfStep DEF BuildInv
<1>0. ProcOK /\ CmdInv /\ OrderInv /\ ConfInv /\ InstOK /\ DoneInv /\ HereInv /\ IsProc
  BY DEF BuildInv, ProcOK
<1>1. ASSUME proc'.pc \notin {"next"} \cup Working PROVE DoneInv' /\ HereInv'
  BY <1>1 DEF DoneInv, HereInv, Working, Updating, Building
<1>2. CASE Loop
  BY <1>0, <1>2, InstLoop, DoneStep, HereStep
<1>3. CASE \E args \in Commands : Start(args)
  <2>1. PICK args \in Commands : Start(args)
    BY <1>3
  <2>2. proc'.pc \in {"clean", "test", "order"} /\ inst' = inst
    BY <2>1, StartProc DEF Start, disk
  <2> QED
    BY <1>0, <1>1, <2>2 DEF InstOK, Working, Updating, Fetching, Building
<1>4. CASE OrderDone
  <2>1. proc.pc = "order" /\ proc'.pc = "next" /\ proc'.i = proc.i
    BY <1>0, <1>4, LeaveProc DEF Moves
  <2>2. proc'.i = 1
    BY <1>0, <2>1 DEF CmdInv
  <2>3. inst' = inst
    BY <1>4 DEF OrderDone, disk
  <2>4. DoneInv'
    BY <2>2 DEF DoneInv
  <2>5. HereInv'
    BY <2>1 DEF HereInv, Updating, Fetching
  <2> QED
    BY <1>0, <2>3, <2>4, <2>5 DEF InstOK
<1>5. CASE \/ \E e \in Edits : Change(e[1], e[2], e[3])
           \/ OrderStep \/ CommandDone
           \/ \E passed \in BOOLEAN : Test(passed)
           \/ Exit \/ Crash
  <2>1. inst' = inst
    BY <1>5 DEF Change, OrderStep, CommandDone, Test, Exit, Crash, disk
  <2>2. \/ proc' = NoProc \/ OrderStep \/ CommandDone
        \/ \E passed \in BOOLEAN : Test(passed)
    BY <1>5 DEF Change, Exit, Crash
  <2>3. proc'.pc \in {"idle", "order", "done", "failed", "test"}
    BY <1>0, <2>2, LeaveProc, OrderMoves DEF Moves
  <2> QED
    BY <1>0, <1>1, <2>1, <2>3 DEF InstOK, Working, Updating, Fetching, Building
<1>7. CASE CleanDirs
  <2>1. proc'.pc \in {"clean", "order", "done"}
    BY <1>0, <1>7, CleanMoves DEF Moves
  <2>2. InstOK'
    BY <1>0, <1>7, CleanInst
  <2> QED
    BY <1>1, <2>1, <2>2 DEF Working, Updating, Fetching, Building
<1>6. CASE UNCHANGED vars
  <2>1. loader' = loader /\ upstream' = upstream /\ proc' = proc /\ inst' = inst
    BY <1>6 DEF vars, disk, fixed
  <2>2. InstOK' /\ M' = M
    BY <1>0, <2>1 DEF InstOK, M
  <2>3. \A p : /\ Fetcher(p)' = Fetcher(p) /\ ProjectHash(p)' = ProjectHash(p)
               /\ Dir(p)' = Dir(p)
    BY <2>1, SameNames DEF Still
  <2>4. D' = D
    BY <2>1, <2>2, SamePlace DEF D, Dir, ProjectHash, Closure, FetcherHash, Fetcher,
          Ctx, Setting
  <2>5. HereInv'
    BY <1>0, <2>1, <2>2, <2>3, <2>4 DEF HereInv, Marked, Exists
  <2>6. \A p : Ready(p)' = Ready(p)
    BY <2>1, <2>3 DEF Ready, Marked, Exists
  <2>7. DoneInv'
    BY <1>0, <2>1, <2>3, <2>6 DEF DoneInv
  <2> QED
    BY <2>2, <2>5, <2>7
<1> QED
  BY <1>2, <1>3, <1>4, <1>5, <1>6, <1>7, NextSplits DEF Outside

\* What a build needs for the project it is at comes before it in the order,
\* and is not the root.
LEMMA NeededBefore ==
    ASSUME ProcOK, OrderInv, proc.pc \in Working, proc.args.recursive,
           NEW q \in Closure(M), q # M
    PROVE  q # Root /\ \E k \in 1..(proc.i - 1) : k \in DOMAIN proc.order /\ q = proc.order[k]
<1>1. /\ proc.i \in Nat \ {0} /\ proc.order \in Seq(Projects)
      /\ proc.i \in 1..Len(proc.order) /\ DOMAIN proc.order = 1..Len(proc.order)
      /\ Len(proc.order) \in Nat
  BY DEF ProcOK
<1>2. M \in Projects /\ proc.args \in Commands
  BY AtProject
<1>3. /\ IsInjective(proc.order)
      /\ ToSet(proc.order) \subseteq Closure(Root)
      /\ \A j \in DOMAIN proc.order :
            ToSet(DepList(proc.order[j])) \subseteq {proc.order[k] : k \in 1..(j - 1)}
  BY DEF OrderInv, Active
<1> DEFINE Before(n) == {proc.order[k] : k \in 1..n}
<1>4. ASSUME NEW n \in 1..Len(proc.order)
      PROVE  Closure(proc.order[n]) \subseteq Before(n)
  <2>1. /\ Before(n) \in SUBSET Projects /\ proc.order[n] \in Before(n)
        /\ proc.order[n] \in Projects
    BY <1>1, <1>4
  <2>2. ASSUME NEW r \in Before(n) PROVE ToSet(DepList(r)) \subseteq Before(n)
    <3>1. PICK k \in 1..n : r = proc.order[k]
      OBVIOUS
    <3>2. k \in DOMAIN proc.order
      BY <1>1, <1>4, <3>1
    <3>3. ToSet(DepList(r)) \subseteq Before(k - 1)
      BY <1>3, <3>1, <3>2
    <3>4. Before(k - 1) \subseteq Before(n)
      BY <1>4, <3>1
    <3> QED
      BY <3>3, <3>4
  <2> HIDE DEF Before
  <2> QED
    BY <1>2, <2>1, <2>2, ClosureFacts
<1>5. PICK k \in 1..proc.i : q = proc.order[k]
  BY <1>1, <1>4 DEF M
<1>6. k \in DOMAIN proc.order /\ k # proc.i
  BY <1>1, <1>5 DEF M
<1>7. k \in 1..(proc.i - 1)
  BY <1>1, <1>5, <1>6
<1>8. q # Root
  <2> SUFFICES ASSUME q = Root PROVE FALSE
    OBVIOUS
  <2>1. Closure(Root) \subseteq Before(k)
    BY <1>1, <1>4, <1>5, <1>6
  <2>2. M \in ToSet(proc.order)
    BY <1>1 DEF M, ToSet
  <2>3. PICK h \in 1..k : M = proc.order[h]
    BY <1>3, <2>1, <2>2
  <2>4. h \in DOMAIN proc.order /\ h # proc.i /\ proc.i \in DOMAIN proc.order
    BY <1>1, <1>7, <2>3
  <2> QED
    BY <1>3, <2>3, <2>4 DEF IsInjective, M
<1> QED
  BY <1>5, <1>6, <1>7, <1>8

(***************************************************************************)
(* No project is built before everything it depends on is installed and    *)
(* marked for the present configuration, whatever was killed, failed or    *)
(* changed before: for every set of manifests, every command line and any  *)
(* number of commands (BuildCmd's loop over manifests_in_dependency_order).*)
(***************************************************************************)
THEOREM DepsBuiltFirst == Spec => []DepsReady
<1>1. BuildInv => DepsReady
  <2> SUFFICES ASSUME BuildInv, proc.pc \in {"step", "install"}, ~ proc.args.no_deps,
                      NEW q \in Built(M), q # M
               PROVE  Ready(q)
    BY DEF DepsReady, Ready
  <2>1. proc.pc \in Working /\ proc.args.cmd = "build"
    BY DEF BuildInv, CmdInv, Working, Building
  <2>2. q \in Closure(M) /\ Fetcher(q) # "system"
    BY DEF Built
  <2>3. proc.args.recursive
    BY <2>1, AtProject, ContextFacts DEF BuildInv
  <2>4. /\ q # Root
        /\ \E k \in 1..(proc.i - 1) : k \in DOMAIN proc.order /\ q = proc.order[k]
    BY <2>1, <2>2, <2>3, NeededBefore DEF BuildInv
  <2> QED
    BY <2>1, <2>2, <2>4 DEF BuildInv, DoneInv
<1> QED
  BY <1>1, BuildInit, BuildStepInv, PTL DEF Spec
=============================================================================
