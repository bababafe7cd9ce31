-------------------------------- MODULE Stats --------------------------------
(* Statistics: the global factory, perthread's ThreadMap of pointers into    *)
(* boxes that their threads own, the aggregator that walks it, and the stats *)
(* that are made the first time they are used.  Counters, timeseries and     *)
(* histograms are made by a manager of the thread; quantile stats by one     *)
(* manager of the process, which a LazyLock makes when first needed and      *)
(* which no ThreadMap knows; singleton counters by no manager at all.        *)
EXTENDS Integers, Sequences

CONSTANTS Threads,
          MaxRegistrations,   \* calls of register_stats_manager_factory
          MaxSchedules        \* calls of schedule_stats_aggregation_preview

VARIABLES factory,       \* STATS_MANAGER_FACTORY: "none", "default", "registered"
          poisoned,      \* a registration panicked with the write lock held
          registrations, \* how the registrations ended
          schedules,     \* how the requests for a scheduler ended
          thread,        \* where the making of each owner's manager is
          manager,       \* the factory that made it
          idx, threadmap,\* ThreadMapLocked: next handle, handle -> owner of the box
          boxes,         \* threads whose StableStorage exists
          visiting,      \* handles for_each still has to visit, if walking
          visited, walking,
          made           \* owner -> kind -> the factory its stat reports to

vars == <<factory, poisoned, registrations, schedules, thread, manager, idx, threadmap,
          boxes, visiting, visited, walking, made>>

mapVars == <<idx, threadmap, boxes, visiting, visited, walking>>

Owners == Threads \union {"process"}
Kinds == {"local", "quantile", "singleton"}

(* register_stats_manager_factory: the assertion fails under the write lock, *)
(* which poisons it for good.                                                *)
RegisterFactory ==
    /\ Len(registrations) < MaxRegistrations
    /\ LET ok == ~poisoned /\ factory = "none"
       IN  /\ factory' = IF ok THEN "registered" ELSE factory
           /\ poisoned' = (poisoned \/ ~ok)
           /\ registrations' = Append(registrations, IF ok THEN "ok" ELSE "panicked")
    /\ UNCHANGED <<schedules, thread, manager, made, mapVars>>

(* create_stats_manager: first under the read lock, then under the write     *)
(* lock; in between another owner or a registration may come.  What meets a  *)
(* poisoned lock panics, the process's LazyLock for good.                    *)
ReadFactory(o) ==
    /\ thread[o] = "new"
    /\ manager' = [manager EXCEPT ![o] = IF poisoned THEN "none" ELSE factory]
    /\ thread' = [thread EXCEPT ![o] =
            IF poisoned THEN "panicked" ELSE IF factory = "none" THEN "unset" ELSE "created"]
    /\ UNCHANGED <<factory, poisoned, registrations, schedules, made, mapVars>>

(* Mutant: the factory is not looked at again under the write lock.          *)
MutantGetOrInsert(f) == "default"

GetOrInsert(f) == IF f = "none" THEN "default" ELSE f

WriteFactory(o) ==
    /\ thread[o] = "unset"
    /\ IF poisoned
       THEN thread' = [thread EXCEPT ![o] = "panicked"] /\ UNCHANGED <<factory, manager>>
       ELSE /\ factory' = GetOrInsert(factory)
            /\ manager' = [manager EXCEPT ![o] = GetOrInsert(factory)]
            /\ thread' = [thread EXCEPT ![o] = "created"]
    /\ UNCHANGED <<poisoned, registrations, schedules, made, mapVars>>

(* ThreadMap::register: the box is made, then its address entered under the  *)
(* mutex, which for_each holds for as long as it walks.                      *)
Register(t) ==
    /\ thread[t] = "created" /\ ~walking
    /\ boxes' = boxes \union {t}
    /\ threadmap' = [h \in DOMAIN threadmap \union {idx} |-> IF h = idx THEN t ELSE threadmap[h]]
    /\ idx' = idx + 1
    /\ thread' = [thread EXCEPT ![t] = "live"]
    /\ UNCHANGED <<factory, poisoned, registrations, schedules, manager, made,
                   visiting, visited, walking>>

(* The stat generators that the macros write, by kind of stat.               *)
StatGenerator(o, kind) == IF kind = "singleton" THEN "builtin" ELSE manager[o]

(* FieldStatThreadLocal::initialize: a stat that is there is kept.           *)
Initialize(m, o, kind) == IF m = "none" THEN StatGenerator(o, kind) ELSE m

(* Whose map or static the stat is in, and what must be there to make it:    *)
(* the thread's registered manager, or the process's.                        *)
Usable(o, kind) ==
    CASE kind = "local" -> o \in Threads /\ thread[o] = "live"
      [] kind = "quantile" -> o = "process" /\ thread[o] = "created"
      [] kind = "singleton" -> thread[o] # "dead"

(* DynamicStat::get_or_default, DynamicStatSync's and FieldStatThreadLocal's:*)
(* the stat is in the map, or made and put there.                            *)
GetOrDefault(o, kind) ==
    /\ Usable(o, kind)
    /\ made' = [made EXCEPT ![o][kind] = Initialize(@, o, kind)]
    /\ UNCHANGED <<factory, poisoned, registrations, schedules, thread, manager, mapVars>>

(* Mutant: the box is freed before drop() has unregistered it.               *)
MutantUnregister(t) ==
    /\ thread[t] = "live"
    /\ boxes' = boxes \ {t}
    /\ thread' = [thread EXCEPT ![t] = "freeing"]
    /\ UNCHANGED <<factory, poisoned, registrations, schedules, manager, made,
                   idx, threadmap, visiting, visited, walking>>

(* PerThread::drop, when the thread ends: the entry goes, under the mutex,   *)
(* before the box does.                                                      *)
Unregister(t) ==
    /\ thread[t] = "live" /\ ~walking
    /\ threadmap' = [h \in {g \in DOMAIN threadmap : threadmap[g] # t} |-> threadmap[h]]
    /\ thread' = [thread EXCEPT ![t] = "freeing"]
    /\ UNCHANGED <<factory, poisoned, registrations, schedules, manager, made,
                   idx, boxes, visiting, visited, walking>>

FreeBox(t) ==
    /\ thread[t] = "freeing"
    /\ boxes' = boxes \ {t}
    /\ thread' = [thread EXCEPT ![t] = "dead"]
    /\ UNCHANGED <<factory, poisoned, registrations, schedules, manager, made,
                   idx, threadmap, visiting, visited, walking>>

(* schedule_stats_aggregation_preview: a swap of a flag tells the first      *)
(* caller from the others, who get a scheduler too.                          *)
Schedule ==
    /\ Len(schedules) < MaxSchedules
    /\ schedules' = Append(schedules, IF schedules = <<>> THEN "ok" ELSE "already")
    /\ UNCHANGED <<factory, poisoned, registrations, thread, manager, made, mapVars>>

(* StatsAggregator::aggregate: one tick of a scheduler walks the map.        *)
Aggregate ==
    /\ schedules # <<>> /\ ~walking
    /\ walking' = TRUE /\ visited' = {} /\ visiting' = DOMAIN threadmap
    /\ UNCHANGED <<factory, poisoned, registrations, schedules, thread, manager, made,
                   idx, threadmap, boxes>>

Visit(h) ==
    /\ walking /\ h \in visiting
    /\ visiting' = visiting \ {h} /\ visited' = visited \union {threadmap[h]}
    /\ UNCHANGED <<factory, poisoned, registrations, schedules, thread, manager, made,
                   idx, threadmap, boxes, walking>>

Walked ==
    /\ walking /\ visiting = {}
    /\ walking' = FALSE
    /\ UNCHANGED <<factory, poisoned, registrations, schedules, thread, manager, made,
                   idx, threadmap, boxes, visiting, visited>>

Init ==
    /\ factory = "none" /\ poisoned = FALSE
    /\ registrations = <<>> /\ schedules = <<>>
    /\ thread = [o \in Owners |-> "new"] /\ manager = [o \in Owners |-> "none"]
    /\ idx = 0 /\ threadmap = <<>> /\ boxes = {}
    /\ visiting = {} /\ visited = {} /\ walking = FALSE
    /\ made = [o \in Owners |-> [kind \in Kinds |-> "none"]]

Next ==
    \/ RegisterFactory \/ Schedule \/ Aggregate \/ Walked
    \/ \E h \in visiting : Visit(h)
    \/ \E t \in Threads : Register(t) \/ Unregister(t) \/ FreeBox(t)
    \/ \E o \in Owners :
        ReadFactory(o) \/ WriteFactory(o) \/ \E kind \in Kinds : GetOrDefault(o, kind)

Spec == Init /\ [][Next]_vars

(* A pointer in the map points into a box that exists, also while for_each   *)
(* walks, and a walk visits every registered thread: none comes or goes      *)
(* under it.  All managers and all stats but singleton counters report to    *)
(* one factory, the registered one if its registration succeeded; only a     *)
(* late or second registration poisons the lock.                             *)
StatsSound ==
    /\ \A h \in DOMAIN threadmap : threadmap[h] \in boxes
    /\ walking => visited \union {threadmap[h] : h \in visiting}
                    = {threadmap[h] : h \in DOMAIN threadmap}
    /\ \A o \in Owners, kind \in Kinds \ {"singleton"} :
          {manager[o], made[o][kind]} \subseteq {"none", factory}
    /\ poisoned => \E i \in DOMAIN registrations : registrations[i] = "panicked"
    /\ \A i \in DOMAIN registrations : registrations[i] = "ok" => factory = "registered"
=============================================================================
