---------------------------- MODULE ConfigStore ----------------------------
(***************************************************************************)
(* The self-refreshing configurations of shed/cached_config: a store over  *)
(* files (FileSource), handles that own a registered entity, the thread    *)
(* that refreshes them, callers of force_update_configs(), and watchers on *)
(* a handle's updates.                                                     *)
(*                                                                         *)
(* Files change at any time, also between the two reads, of contents and   *)
(* of modification time, that make up config_for_path().  The time has a   *)
(* resolution of a second, so a write may leave it as it was.              *)
(***************************************************************************)
EXTENDS Integers, FiniteSets

CONSTANTS
    Handles,        \* the handles that may be requested
    Paths,
    PathOf,         \* the path each handle is requested for
    Watched,        \* the handles whose watcher() is called, once each
    Updater,        \* the store's thread
    Forcers,        \* threads that call force_update_configs(), once each
    Valid,          \* contents the deserializer accepts
    Invalid,        \* contents it rejects
    Missing,        \* stands for a file that is not there
    Initial,        \* contents the files may have at first
    NoOne,          \* a lock nobody holds, a thread that refreshes no client
    MaxWrites       \* model bound: changes to the files

ASSUME ConfigStoreConstants ==
    /\ PathOf \in [Handles -> Paths]
    /\ Watched \subseteq Handles
    /\ Updater \notin Forcers
    /\ Handles \cap (Forcers \cup {Updater}) = {}
    /\ Invalid \notin Valid
    /\ Missing \notin Valid \cup {Invalid}
    /\ Initial \subseteq Valid \cup {Invalid, Missing}
    /\ NoOne \notin Handles \cup Forcers \cup {Updater}
    /\ MaxWrites \in Nat

Threads == Forcers \cup {Updater}

\* PathOf where all handles are requested for the same path.
OnePath == [h \in Handles |-> CHOOSE p \in Paths : TRUE]

VARIABLES
    file,           \* contents and modification time of each path
    writes,         \* changes made to the files so far
    status,         \* "none", "fetched", "opened", "live" or "dropped"
    entity,         \* RegisteredConfigEntity: what a handle's get() returns,
                    \* the version and mod_time it is known by, and the
                    \* version of its watch channel
    watcher,        \* ConfigUpdateWatcher of each handle
    clients,        \* the registered entities of each path (weak)
    lock,           \* who holds the clients' mutex
    pc,             \* where each thread is
    todo,           \* the clients a thread has yet to refresh
    client,         \* the client a thread has upgraded
    read            \* what config_for_path() has read of the file so far,
                    \* for each thread and for each handle being opened

vars == <<file, writes, status, entity, watcher, clients, lock, pc, todo,
          client, read>>

threadVars == <<pc, todo, client, lock>>

Empty == [contents |-> Missing, stamp |-> 0]
NoEntity == [value |-> Missing, stamp |-> 0, version |-> Missing,
             mod_time |-> 0, sent |-> 0]

Init ==
    /\ file \in [Paths -> [contents : Initial, mod_time : {0}, stamp : {0}]]
    /\ writes = 0
    /\ status = [h \in Handles |-> "none"]
    /\ entity = [h \in Handles |-> NoEntity]
    /\ watcher = [h \in Handles |-> [st |-> "none", seen |-> 0, got |-> -1]]
    /\ clients = [p \in Paths |-> {}]
    /\ lock = NoOne
    /\ pc = [t \in Threads |-> IF t = Updater THEN "lock" ELSE "idle"]
    /\ todo = [t \in Threads |-> {}]
    /\ client = [t \in Threads |-> NoOne]
    /\ read = [x \in Threads \cup Handles |-> Empty]

-----------------------------------------------------------------------------
(* The files.                                                              *)

\* A file is written or removed; the clock may or may not have ticked.
Write(p) ==
    /\ writes < MaxWrites
    /\ writes' = writes + 1
    /\ \E c \in Valid \cup {Invalid, Missing}, tick \in {0, 1} :
          /\ c # file[p].contents
          /\ file' = [file EXCEPT ![p] =
                [contents |-> c, mod_time |-> @.mod_time + tick,
                 stamp |-> writes + 1]]
    /\ UNCHANGED <<status, entity, watcher, clients, threadVars, read>>

-----------------------------------------------------------------------------
(* get_config_handle(): fetch and deserialize, then register.              *)

\* read_to_string(); an error is returned to the caller, who may try again.
Fetch(h) ==
    /\ status[h] = "none"
    /\ file[PathOf[h]].contents # Missing
    /\ status' = [status EXCEPT ![h] = "fetched"]
    /\ read' = [read EXCEPT ![h] =
          [contents |-> file[PathOf[h]].contents, stamp |-> file[PathOf[h]].stamp]]
    /\ UNCHANGED <<file, writes, entity, watcher, clients, threadVars>>

\* metadata(), then the deserializer: either may fail.
Open(h) ==
    /\ status[h] = "fetched"
    /\ IF file[PathOf[h]].contents # Missing /\ read[h].contents \in Valid
       THEN /\ status' = [status EXCEPT ![h] = "opened"]
            /\ entity' = [entity EXCEPT ![h] =
                  [value |-> read[h].contents, stamp |-> read[h].stamp,
                   version |-> read[h].contents,
                   mod_time |-> file[PathOf[h]].mod_time, sent |-> 0]]
       ELSE /\ status' = [status EXCEPT ![h] = "none"]
            /\ UNCHANGED entity
    /\ read' = [read EXCEPT ![h] = Empty]
    /\ UNCHANGED <<file, writes, watcher, clients, threadVars>>

\* kick.notify_one(): one of the waiting threads, if there are any.
NotifyOne ==
    LET waiting == {t \in Threads : pc[t] = "waiting"}
    IN  IF waiting = {} THEN UNCHANGED pc
        ELSE \E t \in waiting : pc' = [pc EXCEPT ![t] = "woken"]

\* Under the lock: add the entity to its path's clients and kick a thread.
Register(h) ==
    /\ status[h] = "opened"
    /\ lock = NoOne
    /\ clients' = [clients EXCEPT ![PathOf[h]] = @ \cup {h}]
    /\ NotifyOne
    /\ status' = [status EXCEPT ![h] = "live"]
    /\ UNCHANGED <<file, writes, entity, watcher, lock, todo, client, read>>

\* The last ConfigHandle of an entity goes away.
DropHandle(h) ==
    /\ status[h] = "live"
    /\ status' = [status EXCEPT ![h] = "dropped"]
    /\ UNCHANGED <<file, writes, entity, watcher, clients, threadVars, read>>

-----------------------------------------------------------------------------
(* updater_thread_iteration(), of the updater and of force_update_configs. *)

ForceUpdate(t) ==
    /\ pc[t] = "idle"
    /\ pc' = [pc EXCEPT ![t] = "lock"]
    /\ UNCHANGED <<file, writes, status, entity, watcher, clients, todo, client,
                   lock, read>>

AllClients == UNION {clients[p] : p \in Paths}

MutantLock(t) ==
    /\ pc[t] = "lock"
    /\ AllClients # {}
    /\ lock' = t
    /\ pc' = [pc EXCEPT ![t] = "refresh"]
    /\ todo' = [todo EXCEPT ![t] = AllClients]
    /\ UNCHANGED <<file, writes, status, entity, watcher, clients, client, read>>

\* The mutex is acquired and, unless there are no clients, kept.
Lock(t) ==
    /\ pc[t] = "lock"
    /\ lock = NoOne
    /\ AllClients # {}
    /\ lock' = t
    /\ pc' = [pc EXCEPT ![t] = "refresh"]
    /\ todo' = [todo EXCEPT ![t] = AllClients]
    /\ UNCHANGED <<file, writes, status, entity, watcher, clients, client, read>>

\* kick.wait() releases it.
Wait(t) ==
    /\ pc[t] = "lock"
    /\ lock = NoOne
    /\ AllClients = {}
    /\ pc' = [pc EXCEPT ![t] = "waiting"]
    /\ UNCHANGED <<file, writes, status, entity, watcher, clients, lock, todo,
                   client, read>>

\* A condition variable may wake a thread that was not notified.
SpuriousWakeup(t) ==
    /\ pc[t] = "waiting"
    /\ pc' = [pc EXCEPT ![t] = "woken"]
    /\ UNCHANGED <<file, writes, status, entity, watcher, clients, lock, todo,
                   client, read>>

\* The end of kick.wait(), which is not in a loop.
Relock(t) ==
    /\ pc[t] = "woken"
    /\ lock = NoOne
    /\ lock' = t
    /\ pc' = [pc EXCEPT ![t] = "refresh"]
    /\ todo' = [todo EXCEPT ![t] = AllClients]
    /\ UNCHANGED <<file, writes, status, entity, watcher, clients, client, read>>

\* refresh_client_list(): a client that is gone, or whose file is missing, is
\* passed over; any other is kept alive (upgraded) while it is refreshed.
Upgrade(t) ==
    /\ pc[t] = "refresh"
    /\ \E h \in todo[t] :
          /\ todo' = [todo EXCEPT ![t] = @ \ {h}]
          /\ IF status[h] = "live" /\ file[PathOf[h]].contents # Missing
             THEN /\ client' = [client EXCEPT ![t] = h]
                  /\ read' = [read EXCEPT ![t] =
                        [contents |-> file[PathOf[h]].contents,
                         stamp |-> file[PathOf[h]].stamp]]
                  /\ pc' = [pc EXCEPT ![t] = "read"]
             ELSE UNCHANGED <<client, read, pc>>
    /\ UNCHANGED <<file, writes, status, entity, watcher, clients, lock>>

MutantHasChanged(h, version, mod_time) == mod_time # entity[h].mod_time

HasChanged(h, version, mod_time) ==
    \/ mod_time # entity[h].mod_time
    \/ version # entity[h].version

MutantUnchecked(h, contents, stamp, mod_time) ==
    [value |-> contents, stamp |-> stamp, version |-> contents,
     mod_time |-> mod_time, sent |-> entity[h].sent + 1]

\* RegisteredConfigEntity::refresh(): contents that cannot be deserialized
\* change nothing, others are sent to the watch channel and remembered.
Refreshed(h, contents, stamp, mod_time) ==
    IF contents \in Valid
    THEN [value |-> contents, stamp |-> stamp, version |-> contents,
          mod_time |-> mod_time, sent |-> entity[h].sent + 1]
    ELSE entity[h]

\* metadata(), which may fail, and refresh().
Refresh(t) ==
    /\ pc[t] = "read"
    /\ LET h == client[t]
           f == file[PathOf[h]]
       IN  entity' =
             IF f.contents # Missing
                /\ HasChanged(h, read[t].contents, f.mod_time)
             THEN [entity EXCEPT ![h] =
                     Refreshed(h, read[t].contents, read[t].stamp, f.mod_time)]
             ELSE entity
    /\ client' = [client EXCEPT ![t] = NoOne]
    /\ read' = [read EXCEPT ![t] = Empty]
    /\ pc' = [pc EXCEPT ![t] = "refresh"]
    /\ UNCHANGED <<file, writes, status, watcher, clients, lock, todo>>

MutantRetain(t) ==
    /\ pc[t] = "refresh"
    /\ todo[t] = {}
    /\ clients' = [p \in Paths |->
          IF \A h \in clients[p] : status[h] = "live" THEN clients[p] ELSE {}]
    /\ lock' = NoOne
    /\ pc' = [pc EXCEPT ![t] = IF t = Updater THEN "lock" ELSE "done"]
    /\ UNCHANGED <<file, writes, status, entity, watcher, todo, client, read>>

\* The lost clients are removed and the lock is released.  updater_thread()
\* sleeps for poll_interval, which only delays it, and goes round again.
Retain(t) ==
    /\ pc[t] = "refresh"
    /\ todo[t] = {}
    /\ clients' = [p \in Paths |-> {h \in clients[p] : status[h] = "live"}]
    /\ lock' = NoOne
    /\ pc' = [pc EXCEPT ![t] = IF t = Updater THEN "lock" ELSE "done"]
    /\ UNCHANGED <<file, writes, status, entity, watcher, todo, client, read>>

-----------------------------------------------------------------------------
(* ConfigUpdateWatcher over the tokio watch channel.                       *)

\* watcher() clones the entity's receiver, which has seen the first value.
Watch(h) ==
    /\ h \in Watched
    /\ status[h] = "live"
    /\ watcher[h].st = "none"
    /\ watcher' = [watcher EXCEPT ![h] = [st |-> "waiting", seen |-> 0, got |-> -1]]
    /\ UNCHANGED <<file, writes, status, entity, clients, threadVars, read>>

\* wait_for_next(): changed() marks the current value seen ...
Changed(h) ==
    /\ watcher[h].st = "waiting"
    /\ watcher[h].seen # entity[h].sent
    /\ watcher' = [watcher EXCEPT ![h] =
          [st |-> "changed", seen |-> entity[h].sent, got |-> @.got]]
    /\ UNCHANGED <<file, writes, status, entity, clients, threadVars, read>>

\* ... and borrow() then returns the one that is current by now.
Borrow(h) ==
    /\ watcher[h].st = "changed"
    /\ watcher' = [watcher EXCEPT ![h] =
          [st |-> "waiting", seen |-> @.seen, got |-> entity[h].sent]]
    /\ UNCHANGED <<file, writes, status, entity, clients, threadVars, read>>

\* An entity lives as long as its handle or a thread that refreshes it.
Alive(h) == status[h] = "live" \/ \E t \in Threads : client[t] = h

\* The sender is gone and nothing is unseen: wait_for_next() fails.
Closed(h) ==
    /\ watcher[h].st = "waiting"
    /\ watcher[h].seen = entity[h].sent
    /\ ~Alive(h)
    /\ watcher' = [watcher EXCEPT ![h] =
          [st |-> "closed", seen |-> @.seen, got |-> @.got]]
    /\ UNCHANGED <<file, writes, status, entity, clients, threadVars, read>>

-----------------------------------------------------------------------------

Iterate(t) ==
    Lock(t) \/ Wait(t) \/ Relock(t) \/ Upgrade(t) \/ Refresh(t) \/ Retain(t)

WaitForNext(h) == Changed(h) \/ Borrow(h) \/ Closed(h)

Next ==
    \/ \E p \in Paths : Write(p)
    \/ \E h \in Handles : Fetch(h) \/ Open(h) \/ Register(h) \/ DropHandle(h)
                          \/ Watch(h) \/ WaitForNext(h)
    \/ \E t \in Threads : Iterate(t) \/ SpuriousWakeup(t)
    \/ \E t \in Forcers : ForceUpdate(t)

Spec == Init /\ [][Next]_vars

\* The threads run, the interval ends and a waiting watcher is polled.  A
\* thread that waits for the mutex gets it: no other holds it for ever, and
\* only the updater takes it more than once.
FairSpec ==
    /\ Spec
    /\ \A t \in Threads : WF_vars(Iterate(t))
    /\ \A h \in Handles : WF_vars(WaitForNext(h))

-----------------------------------------------------------------------------
(* Properties.                                                             *)

\* Every variable keeps the type of its Rust counterpart; in particular what
\* a handle returns was accepted by its deserializer.
TypeOK ==
    /\ file \in [Paths -> [contents : Valid \cup {Invalid, Missing},
                           mod_time : Nat, stamp : Nat]]
    /\ writes \in Nat
    /\ status \in [Handles -> {"none", "fetched", "opened", "live", "dropped"}]
    /\ entity \in [Handles ->
          [value : Valid \cup {Missing}, stamp : Nat,
           version : Valid \cup {Missing}, mod_time : Nat, sent : Nat]]
    /\ \A h \in Handles :
          status[h] \in {"opened", "live", "dropped"} => entity[h].value \in Valid
    /\ watcher \in [Handles ->
          [st : {"none", "waiting", "changed", "closed"}, seen : Nat, got : Int]]
    /\ clients \in [Paths -> SUBSET Handles]
    /\ lock \in Threads \cup {NoOne}
    /\ pc \in [Threads -> {"idle", "lock", "waiting", "woken", "refresh", "read",
                           "done"}]
    /\ todo \in [Threads -> SUBSET Handles]
    /\ client \in [Threads -> Handles \cup {NoOne}]
    /\ read \in [Threads \cup Handles ->
          [contents : Valid \cup {Invalid, Missing}, stamp : Nat]]

\* The threads inside an iteration exclude each other (the mutex is given up
\* by kick.wait() and taken back).
OneAtATime ==
    \A t \in Threads : pc[t] \in {"refresh", "read"} <=> lock = t

\* The version an entity is known by is that of the value it hands out: were
\* a rejected version remembered, the file would not be looked at again.
VersionOfValue == \A h \in Handles : entity[h].version = entity[h].value

\* No registered handle that is still in use is ever dropped from the list:
\* neither by a retain() nor by a registration that runs against one.
NoClientLost ==
    \A h \in Handles : status[h] = "live" => h \in clients[PathOf[h]]

\* A watcher never claims to have seen more than was sent, and what it was
\* given is at least as new as what changed() reported.
WatcherSound ==
    \A h \in Handles :
        /\ watcher[h].seen <= entity[h].sent
        /\ watcher[h].got <= entity[h].sent
        /\ watcher[h].st = "waiting" /\ watcher[h].seen > 0 =>
              watcher[h].seen <= watcher[h].got

\* Handles, the list of clients and the watchers agree.
StoreConsistent ==
    OneAtATime /\ VersionOfValue /\ NoClientLost /\ WatcherSound

\* A handle never goes back to contents older than the ones it returned: a
\* refresh that read the file early does not overwrite a later one's.
NeverGoesBack ==
    [][\A h \in Handles : entity'[h].stamp >= entity[h].stamp]_vars

\* Every handle in use has its file's contents, if these are any good, and
\* its watcher was given them.
Fresh ==
    \A h \in Handles : status[h] = "live" =>
        /\ \/ file[PathOf[h]].contents \notin Valid
           \/ entity[h].value = file[PathOf[h]].contents
        /\ watcher[h].st # "none" =>
              /\ watcher[h].seen = entity[h].sent
              /\ watcher[h].seen > 0 => watcher[h].got = entity[h].sent

\* force_update_configs() took the notification the updater waits for.
Stranded == pc[Updater] = "waiting" /\ \E t \in Forcers : pc[t] = "done"

\* Once the files stop changing, every handle in use is fresh for good, unless
\* the updater is stranded: also when the file changed while the handle was
\* opened, and also when the modification time did not.
StaysFresh == <>[](Fresh \/ Stranded)

-----------------------------------------------------------------------------

\* store.rs:149: "By default configs are updated once in poll_interval",
\* whether or not force_update_configs() was called.
AlwaysFresh == <>[]Fresh
=============================================================================
