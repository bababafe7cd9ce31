----------------------------- MODULE StoreProofs -----------------------------
(***************************************************************************)
(* Proofs about ConfigStore for any handles, paths, threads and number of  *)
(* changes to the files: handles, clients and watchers stay consistent and *)
(* no handle goes back to older contents; and below, about                 *)
(* SqliteTransactions, the other store that threads share.                 *)
(***************************************************************************)
EXTENDS ConfigStore, SqliteTransactions, TLAPS

\* The entity of a handle that is yet to be opened is blank, and has not been
\* watched; only entities that were registered are refreshed.
Blank ==
    \A h \in Handles :
        /\ status[h] \in {"none", "fetched"} => entity[h] = NoEntity
        /\ watcher[h].st # "none" => status[h] \in {"live", "dropped"}
        /\ watcher[h].st = "none" => watcher[h].seen = 0 /\ watcher[h].got = -1

\* A thread that has read a file has upgraded a client.
Upgraded ==
    \A t \in Threads :
        pc[t] = "read" =>
            client[t] \in Handles /\ status[client[t]] \in {"live", "dropped"}

\* Clients are registered entities.
Registered ==
    \A t \in Threads, p \in Paths :
        \A h \in todo[t] \cup clients[p] : status[h] \in {"live", "dropped"}

\* Nothing that was read is newer than the file it was read from, and what a
\* thread has read is no older than what it will replace.
Stamps ==
    /\ \A p \in Paths : file[p].stamp <= writes
    /\ \A h \in Handles :
          /\ entity[h].stamp <= file[PathOf[h]].stamp
          /\ status[h] = "fetched" => read[h].stamp <= file[PathOf[h]].stamp
    /\ \A t \in Threads :
          pc[t] = "read" =>
              /\ read[t].stamp <= file[PathOf[client[t]]].stamp
              /\ entity[client[t]].stamp <= read[t].stamp

\* The inductive invariant.
IInv == TypeOK /\ StoreConsistent /\ Blank /\ Upgraded /\ Registered /\ Stamps

USE ConfigStoreConstants

-----------------------------------------------------------------------------

\* Initially nothing is open, registered or locked.
LEMMA InitIInv == Init => IInv
<1> SUFFICES ASSUME Init PROVE IInv
  OBVIOUS
<1>1. TypeOK
  BY DEF Init, TypeOK, Empty, NoEntity, Threads
<1>2. OneAtATime /\ NoClientLost /\ VersionOfValue
  BY DEF Init, OneAtATime, NoClientLost, VersionOfValue, NoEntity, Threads
<1>3. WatcherSound
  BY DEF Init, WatcherSound, NoEntity
<1>4. Blank /\ Upgraded /\ Registered
  BY DEF Init, Blank, Upgraded, Registered, Threads
<1>5. Stamps
  BY DEF Init, Stamps, NoEntity, Threads
<1> QED
  BY <1>1, <1>2, <1>3, <1>4, <1>5 DEF IInv, StoreConsistent

\* Every step keeps the types.
LEMMA TypeStep == IInv /\ [Next]_vars => TypeOK'
<1> SUFFICES ASSUME TypeOK, Upgraded, [Next]_vars PROVE TypeOK'
  BY DEF IInv
<1> USE DEF TypeOK, threadVars, Empty
<1>1. ASSUME NEW p \in Paths, Write(p) PROVE TypeOK'
  BY <1>1 DEF Write
<1>2. ASSUME NEW h \in Handles, Fetch(h) PROVE TypeOK'
  BY <1>2 DEF Fetch
<1>3. ASSUME NEW h \in Handles, Open(h) PROVE TypeOK'
  <2>1. CASE status' = [status EXCEPT ![h] = "opened"]
    <3>1. /\ read[h].contents \in Valid
          /\ entity' = [entity EXCEPT ![h] =
               [value |-> read[h].contents, stamp |-> read[h].stamp,
                version |-> read[h].contents,
                mod_time |-> file[PathOf[h]].mod_time, sent |-> 0]]
      BY <1>3, <2>1 DEF Open
    <3>2. file[PathOf[h]].mod_time \in Nat /\ read[h].stamp \in Nat
      OBVIOUS
    <3>3. entity' \in [Handles ->
             [value : Valid \cup {Missing}, stamp : Nat,
              version : Valid \cup {Missing}, mod_time : Nat, sent : Nat]]
      BY <3>1, <3>2
    <3>4. \A g \in Handles : status'[g] \in {"opened", "live", "dropped"}
                             => entity'[g].value \in Valid
      BY <2>1, <3>1
    <3> QED
      BY <1>3, <2>1, <3>3, <3>4 DEF Open
  <2>2. CASE status' = [status EXCEPT ![h] = "none"] /\ UNCHANGED entity
    BY <1>3, <2>2 DEF Open
  <2> QED
    BY <1>3, <2>1, <2>2 DEF Open
<1>4. ASSUME NEW h \in Handles, Register(h) PROVE TypeOK'
  BY <1>4 DEF Register, NotifyOne
<1>5. ASSUME NEW h \in Handles, DropHandle(h) \/ Watch(h) PROVE TypeOK'
  <2>1. CASE DropHandle(h)
    BY <2>1 DEF DropHandle
  <2>2. CASE Watch(h)
    <3>1. watcher' \in [Handles ->
             [st : {"none", "waiting", "changed", "closed"}, seen : Nat, got : Int]]
      BY <2>2 DEF Watch
    <3> QED
      BY <2>2, <3>1 DEF Watch
  <2> QED
    BY <1>5, <2>1, <2>2
<1>6. ASSUME NEW h \in Handles, WaitForNext(h) PROVE TypeOK'
  <2>1. CASE Changed(h)
    <3>1. watcher' \in [Handles ->
             [st : {"none", "waiting", "changed", "closed"}, seen : Nat, got : Int]]
      BY <2>1 DEF Changed
    <3> QED
      BY <2>1, <3>1 DEF Changed
  <2>2. CASE Borrow(h)
    <3>1. watcher' \in [Handles ->
             [st : {"none", "waiting", "changed", "closed"}, seen : Nat, got : Int]]
      BY <2>2 DEF Borrow
    <3> QED
      BY <2>2, <3>1 DEF Borrow
  <2>3. CASE Closed(h)
    BY <2>3 DEF Closed
  <2> QED
    BY <1>6, <2>1, <2>2, <2>3 DEF WaitForNext
<1>7. ASSUME NEW t \in Threads, Lock(t) \/ Wait(t) \/ Relock(t) PROVE TypeOK'
  <2>1. AllClients \in SUBSET Handles
    BY DEF AllClients
  <2>2. CASE Lock(t)
    BY <2>1, <2>2 DEF Lock
  <2>3. CASE Wait(t)
    BY <2>3 DEF Wait
  <2>4. CASE Relock(t)
    BY <2>1, <2>4 DEF Relock
  <2> QED
    BY <1>7, <2>2, <2>3, <2>4
<1>8. ASSUME NEW t \in Threads, Upgrade(t) PROVE TypeOK'
  <2> PICK h \in todo[t] :
        /\ todo' = [todo EXCEPT ![t] = @ \ {h}]
        /\ \/ /\ client' = [client EXCEPT ![t] = h]
              /\ read' = [read EXCEPT ![t] =
                    [contents |-> file[PathOf[h]].contents,
                     stamp |-> file[PathOf[h]].stamp]]
              /\ pc' = [pc EXCEPT ![t] = "read"]
           \/ UNCHANGED <<client, read, pc>>
    BY <1>8 DEF Upgrade
  <2>1. h \in Handles /\ PathOf[h] \in Paths
    OBVIOUS
  <2>2. todo' \in [Threads -> SUBSET Handles]
    OBVIOUS
  <2>3. client' \in [Threads -> Handles \cup {NoOne}]
    <3>1. CASE client' = [client EXCEPT ![t] = h]
      BY <2>1, <3>1
    <3>2. CASE client' = client
      BY <3>2
    <3> QED
      BY <3>1, <3>2
  <2>4. read' \in [Threads \cup Handles ->
           [contents : Valid \cup {Invalid, Missing}, stamp : Nat]]
    <3>1. /\ file[PathOf[h]].contents \in Valid \cup {Invalid, Missing}
          /\ file[PathOf[h]].stamp \in Nat
      BY <2>1
    <3>2. CASE read' = [read EXCEPT ![t] = [contents |-> file[PathOf[h]].contents,
                                            stamp |-> file[PathOf[h]].stamp]]
      BY <3>1, <3>2
    <3>3. CASE read' = read
      BY <3>3
    <3> QED
      BY <3>2, <3>3
  <2>5. UNCHANGED <<file, writes, status, entity, watcher, clients, lock>>
    BY <1>8 DEF Upgrade
  <2> QED
    BY <2>2, <2>3, <2>4, <2>5
<1>9. ASSUME NEW t \in Threads, Refresh(t) PROVE TypeOK'
  BY <1>9 DEF Refresh, Refreshed, Upgraded
<1>10. ASSUME NEW t \in Threads, Retain(t) PROVE TypeOK'
  BY <1>10 DEF Retain
<1>11. ASSUME NEW t \in Threads, SpuriousWakeup(t) PROVE TypeOK'
  BY <1>11 DEF SpuriousWakeup
<1>12. ASSUME NEW t \in Forcers, ForceUpdate(t) PROVE TypeOK'
  BY <1>12 DEF ForceUpdate, Threads
<1>13. CASE UNCHANGED vars
  BY <1>13 DEF vars
<1> QED
  BY <1>1, <1>2, <1>3, <1>4, <1>5, <1>6, <1>7, <1>8, <1>9, <1>10, <1>11, <1>12,
     <1>13 DEF Next, Iterate

\* The mutex: a thread is inside an iteration exactly while it holds the lock.
LEMMA OneAtATimeStep == IInv /\ [Next]_vars => OneAtATime'
<1> SUFFICES ASSUME TypeOK, OneAtATime, [Next]_vars PROVE OneAtATime'
  BY DEF IInv, StoreConsistent
<1> USE DEF OneAtATime, threadVars
<1> pc \in [Threads -> {"idle", "lock", "waiting", "woken", "refresh", "read", "done"}]
  BY DEF TypeOK
<1> NoOne \notin Threads
  BY DEF Threads
<1>1. CASE UNCHANGED <<pc, lock>>
  BY <1>1
<1>2. ASSUME NEW h \in Handles, Register(h) PROVE OneAtATime'
  BY <1>2 DEF Register, NotifyOne
<1>3. ASSUME NEW t \in Threads, Lock(t) PROVE OneAtATime'
  BY <1>3 DEF Lock
<1>4. ASSUME NEW t \in Threads, Wait(t) \/ SpuriousWakeup(t) PROVE OneAtATime'
  BY <1>4 DEF Wait, SpuriousWakeup
<1>5. ASSUME NEW t \in Threads, Relock(t) PROVE OneAtATime'
  BY <1>5 DEF Relock
<1>6. ASSUME NEW t \in Threads, Upgrade(t) PROVE OneAtATime'
  <2>1. \/ pc' = [pc EXCEPT ![t] = "read"]
        \/ pc' = pc
    BY <1>6 DEF Upgrade
  <2>2. pc[t] = "refresh" /\ lock' = lock
    BY <1>6 DEF Upgrade
  <2> QED
    BY <2>1, <2>2
<1>7. ASSUME NEW t \in Threads, Refresh(t) PROVE OneAtATime'
  <2>1. pc[t] = "read" /\ pc' = [pc EXCEPT ![t] = "refresh"] /\ lock' = lock
    BY <1>7 DEF Refresh
  <2> QED
    BY <2>1
<1>8. ASSUME NEW t \in Threads, Retain(t) PROVE OneAtATime'
  BY <1>8 DEF Retain
<1>9. ASSUME NEW t \in Forcers, ForceUpdate(t) PROVE OneAtATime'
  BY <1>9 DEF ForceUpdate, Threads
<1>10. ASSUME NEW p \in Paths, Write(p) PROVE UNCHANGED <<pc, lock>>
  BY <1>10 DEF Write
<1>11. ASSUME NEW h \in Handles,
              Fetch(h) \/ Open(h) \/ DropHandle(h) \/ Watch(h) \/ WaitForNext(h)
       PROVE  UNCHANGED <<pc, lock>>
  BY <1>11 DEF Fetch, Open, DropHandle, Watch, WaitForNext, Changed, Borrow, Closed
<1> QED
  BY <1>1, <1>2, <1>3, <1>4, <1>5, <1>6, <1>7, <1>8, <1>9, <1>10, <1>11
     DEF Next, Iterate, vars

\* What a step may do to an entity: nothing, open it, or replace its contents
\* by those a thread has read.
Opened(h) ==
    /\ status[h] = "fetched"
    /\ read[h].contents \in Valid
    /\ entity' = [entity EXCEPT ![h] =
          [value |-> read[h].contents, stamp |-> read[h].stamp,
           version |-> read[h].contents,
           mod_time |-> file[PathOf[h]].mod_time, sent |-> 0]]
    /\ UNCHANGED <<watcher, file, writes>>

Replaced(t) ==
    /\ pc[t] = "read"
    /\ read[t].contents \in Valid
    /\ entity' = [entity EXCEPT ![client[t]] =
          [value |-> read[t].contents, stamp |-> read[t].stamp,
           version |-> read[t].contents,
           mod_time |-> file[PathOf[client[t]]].mod_time,
           sent |-> entity[client[t]].sent + 1]]
    /\ UNCHANGED <<watcher, file, writes, status>>

\* Those are the only changes to an entity.
LEMMA EntityStep ==
    IInv /\ [Next]_vars => \/ UNCHANGED entity
                           \/ \E h \in Handles : Opened(h)
                           \/ \E t \in Threads : Replaced(t)
<1> SUFFICES ASSUME IInv, [Next]_vars
             PROVE  \/ UNCHANGED entity
                    \/ \E h \in Handles : Opened(h)
                    \/ \E t \in Threads : Replaced(t)
  OBVIOUS
<1>1. ASSUME NEW h \in Handles, Open(h) PROVE UNCHANGED entity \/ Opened(h)
  BY <1>1 DEF Open, Opened
<1>2. ASSUME NEW t \in Threads, Refresh(t) PROVE UNCHANGED entity \/ Replaced(t)
  <2>1. CASE read[t].contents \in Valid
    BY <1>2, <2>1 DEF Refresh, Refreshed, Replaced
  <2>2. CASE read[t].contents \notin Valid
    <3>1. client[t] \in Handles /\ entity = [h \in Handles |-> entity[h]]
      BY <1>2 DEF IInv, TypeOK, Upgraded, Refresh
    <3>2. [entity EXCEPT ![client[t]] = entity[client[t]]] = entity
      BY <3>1
    <3> QED
      BY <1>2, <2>2, <3>2 DEF Refresh, Refreshed
  <2> QED
    BY <2>1, <2>2
<1>3. ASSUME NEW p \in Paths, Write(p) PROVE UNCHANGED entity
  BY <1>3 DEF Write
<1>4. ASSUME NEW h \in Handles,
             Fetch(h) \/ Register(h) \/ DropHandle(h) \/ Watch(h) \/ WaitForNext(h)
      PROVE  UNCHANGED entity
  BY <1>4 DEF Fetch, Register, DropHandle, Watch, WaitForNext, Changed, Borrow, Closed
<1>5. ASSUME NEW t \in Threads,
             Lock(t) \/ Wait(t) \/ Relock(t) \/ Upgrade(t) \/ Retain(t)
             \/ SpuriousWakeup(t)
      PROVE  UNCHANGED entity
  BY <1>5 DEF Lock, Wait, Relock, Upgrade, Retain, SpuriousWakeup
<1>6. ASSUME NEW t \in Forcers, ForceUpdate(t) PROVE UNCHANGED entity
  BY <1>6 DEF ForceUpdate
<1> QED
  BY <1>1, <1>2, <1>3, <1>4, <1>5, <1>6 DEF Next, Iterate, vars

\* An entity's version stays that of its value.
LEMMA VersionStep == IInv /\ [Next]_vars => VersionOfValue'
<1> SUFFICES ASSUME IInv, [Next]_vars PROVE VersionOfValue'
  OBVIOUS
<1> USE DEF VersionOfValue
<1>0. VersionOfValue /\ entity \in [Handles ->
          [value : Valid \cup {Missing}, stamp : Nat,
           version : Valid \cup {Missing}, mod_time : Nat, sent : Nat]]
  BY DEF IInv, StoreConsistent, TypeOK
<1>1. CASE UNCHANGED entity
  BY <1>0, <1>1
<1>2. ASSUME NEW h \in Handles, Opened(h) PROVE VersionOfValue'
  BY <1>0, <1>2 DEF Opened
<1>3. ASSUME NEW t \in Threads, Replaced(t) PROVE VersionOfValue'
  BY <1>0, <1>3 DEF Replaced
<1> QED
  BY <1>1, <1>2, <1>3, EntityStep

\* No step makes a handle go back, since a thread's read is not older than the
\* entity it replaces.
LEMMA ForwardStep ==
    IInv /\ [Next]_vars => \A h \in Handles : entity'[h].stamp >= entity[h].stamp
<1> SUFFICES ASSUME IInv, [Next]_vars
             PROVE  \A h \in Handles : entity'[h].stamp >= entity[h].stamp
  OBVIOUS
<1>0. /\ entity \in [Handles ->
           [value : Valid \cup {Missing}, stamp : Nat,
            version : Valid \cup {Missing}, mod_time : Nat, sent : Nat]]
      /\ read \in [Threads \cup Handles ->
           [contents : Valid \cup {Invalid, Missing}, stamp : Nat]]
  BY DEF IInv, TypeOK
<1>1. CASE UNCHANGED entity
  BY <1>0, <1>1
<1>2. ASSUME NEW h \in Handles, Opened(h)
      PROVE  \A g \in Handles : entity'[g].stamp >= entity[g].stamp
  <2>1. entity[h].stamp = 0
    BY <1>2 DEF Opened, IInv, Blank, NoEntity
  <2>2. read[h].stamp \in Nat
    BY <1>0
  <2> QED
    BY <1>0, <1>2, <2>1, <2>2 DEF Opened
<1>3. ASSUME NEW t \in Threads, Replaced(t)
      PROVE  \A g \in Handles : entity'[g].stamp >= entity[g].stamp
  <2>1. client[t] \in Handles /\ entity[client[t]].stamp <= read[t].stamp
    BY <1>3 DEF Replaced, IInv, Upgraded, Stamps
  <2>2. read[t].stamp \in Nat
    BY <1>0
  <2> QED
    BY <1>0, <1>3, <2>1, <2>2 DEF Replaced
<1> QED
  BY <1>1, <1>2, <1>3, EntityStep

\* Registered handles stay in the list of their path, and only registered
\* entities are clients.
LEMMA ClientsStep == IInv /\ [Next]_vars => NoClientLost' /\ Registered'
<1> SUFFICES ASSUME TypeOK, NoClientLost, Registered, [Next]_vars
             PROVE  NoClientLost' /\ Registered'
  BY DEF IInv, StoreConsistent
<1> USE DEF NoClientLost, Registered, threadVars
<1>0. /\ status \in [Handles -> {"none", "fetched", "opened", "live", "dropped"}]
      /\ clients \in [Paths -> SUBSET Handles]
      /\ todo \in [Threads -> SUBSET Handles]
  BY DEF TypeOK
<1>1. CASE UNCHANGED <<status, clients, todo>>
  BY <1>1
<1>2. ASSUME NEW h \in Handles, Fetch(h) PROVE NoClientLost' /\ Registered'
  BY <1>0, <1>2 DEF Fetch
<1>3. ASSUME NEW h \in Handles, Open(h) PROVE NoClientLost' /\ Registered'
  <2>1. /\ status[h] = "fetched"
        /\ \/ status' = [status EXCEPT ![h] = "opened"]
           \/ status' = [status EXCEPT ![h] = "none"]
        /\ UNCHANGED <<clients, todo>>
    BY <1>3 DEF Open
  <2> QED
    BY <1>0, <2>1
<1>4. ASSUME NEW h \in Handles, Register(h) PROVE NoClientLost' /\ Registered'
  BY <1>0, <1>4 DEF Register
<1>5. ASSUME NEW h \in Handles, DropHandle(h) PROVE NoClientLost' /\ Registered'
  BY <1>0, <1>5 DEF DropHandle
<1>6. ASSUME NEW t \in Threads, Lock(t) \/ Relock(t)
      PROVE  NoClientLost' /\ Registered'
  <2>1. /\ todo' = [todo EXCEPT ![t] = AllClients]
        /\ UNCHANGED <<status, clients>>
    BY <1>6 DEF Lock, Relock
  <2>2. \A h \in AllClients : status[h] \in {"live", "dropped"}
    BY DEF AllClients
  <2> QED
    BY <1>0, <2>1, <2>2
<1>7. ASSUME NEW t \in Threads, Upgrade(t) PROVE NoClientLost' /\ Registered'
  <2>1. /\ \E h \in todo[t] : todo' = [todo EXCEPT ![t] = @ \ {h}]
        /\ UNCHANGED <<status, clients>>
    BY <1>7 DEF Upgrade
  <2> QED
    BY <1>0, <2>1
<1>8. ASSUME NEW t \in Threads, Retain(t) PROVE NoClientLost' /\ Registered'
  BY <1>0, <1>8 DEF Retain
<1>9. ASSUME NEW p \in Paths, Write(p) PROVE UNCHANGED <<status, clients, todo>>
  BY <1>9 DEF Write
<1>10. ASSUME NEW h \in Handles, Watch(h) \/ WaitForNext(h)
       PROVE  UNCHANGED <<status, clients, todo>>
  BY <1>10 DEF Watch, WaitForNext, Changed, Borrow, Closed
<1>11. ASSUME NEW t \in Threads, Wait(t) \/ Refresh(t) \/ SpuriousWakeup(t)
       PROVE  UNCHANGED <<status, clients, todo>>
  BY <1>11 DEF Wait, Refresh, SpuriousWakeup
<1>12. ASSUME NEW t \in Forcers, ForceUpdate(t)
       PROVE  UNCHANGED <<status, clients, todo>>
  BY <1>12 DEF ForceUpdate
<1> QED
  BY <1>1, <1>2, <1>3, <1>4, <1>5, <1>6, <1>7, <1>8, <1>9, <1>10, <1>11, <1>12
     DEF Next, Iterate, vars

\* A thread that has read a file has a client to refresh.
LEMMA UpgradedStep == IInv /\ [Next]_vars => Upgraded'
<1> SUFFICES ASSUME TypeOK, Upgraded, Registered, [Next]_vars PROVE Upgraded'
  BY DEF IInv
<1> USE DEF Upgraded, threadVars
<1>0. /\ status \in [Handles -> {"none", "fetched", "opened", "live", "dropped"}]
      /\ pc \in [Threads -> {"idle", "lock", "waiting", "woken", "refresh", "read",
                             "done"}]
      /\ client \in [Threads -> Handles \cup {NoOne}]
      /\ todo \in [Threads -> SUBSET Handles]
  BY DEF TypeOK
<1>1. CASE UNCHANGED <<status, pc, client>>
  BY <1>1
<1>2. ASSUME NEW h \in Handles, Fetch(h) PROVE Upgraded'
  BY <1>0, <1>2 DEF Fetch
<1>3. ASSUME NEW h \in Handles, Open(h) PROVE Upgraded'
  <2>1. /\ status[h] = "fetched"
        /\ \/ status' = [status EXCEPT ![h] = "opened"]
           \/ status' = [status EXCEPT ![h] = "none"]
        /\ UNCHANGED <<pc, client>>
    BY <1>3 DEF Open
  <2> QED
    BY <1>0, <2>1
<1>4. ASSUME NEW h \in Handles, Register(h) PROVE Upgraded'
  <2>1. /\ status' = [status EXCEPT ![h] = "live"]
        /\ UNCHANGED client
        /\ \A t \in Threads : pc'[t] = "read" => pc[t] = "read"
    BY <1>0, <1>4 DEF Register, NotifyOne
  <2> QED
    BY <1>0, <2>1
<1>5. ASSUME NEW h \in Handles, DropHandle(h) PROVE Upgraded'
  BY <1>0, <1>5 DEF DropHandle
<1>6. ASSUME NEW t \in Threads,
             Lock(t) \/ Wait(t) \/ Relock(t) \/ Retain(t) \/ SpuriousWakeup(t)
      PROVE  Upgraded'
  <2>1. /\ UNCHANGED <<status, client>>
        /\ \A u \in Threads : pc'[u] = "read" => pc[u] = "read"
    BY <1>0, <1>6 DEF Lock, Wait, Relock, Retain, SpuriousWakeup
  <2> QED
    BY <2>1
<1>7. ASSUME NEW t \in Threads, Upgrade(t) PROVE Upgraded'
  <2> PICK h \in todo[t] :
        \/ status[h] = "live" /\ client' = [client EXCEPT ![t] = h]
           /\ pc' = [pc EXCEPT ![t] = "read"]
        \/ UNCHANGED <<client, pc>>
    BY <1>7 DEF Upgrade
  <2>1. h \in Handles /\ UNCHANGED status
    BY <1>0, <1>7 DEF Upgrade
  <2> QED
    BY <1>0, <2>1
<1>8. ASSUME NEW t \in Threads, Refresh(t) PROVE Upgraded'
  <2>1. /\ client' = [client EXCEPT ![t] = NoOne]
        /\ pc' = [pc EXCEPT ![t] = "refresh"]
        /\ UNCHANGED status
    BY <1>8 DEF Refresh
  <2> QED
    BY <1>0, <2>1
<1>9. ASSUME NEW t \in Forcers, ForceUpdate(t) PROVE Upgraded'
  BY <1>0, <1>9 DEF ForceUpdate, Threads
<1>10. ASSUME NEW p \in Paths, Write(p) PROVE UNCHANGED <<status, pc, client>>
  BY <1>10 DEF Write
<1>11. ASSUME NEW h \in Handles, Watch(h) \/ WaitForNext(h)
       PROVE  UNCHANGED <<status, pc, client>>
  BY <1>11 DEF Watch, WaitForNext, Changed, Borrow, Closed
<1> QED
  BY <1>1, <1>2, <1>3, <1>4, <1>5, <1>6, <1>7, <1>8, <1>9, <1>10, <1>11
     DEF Next, Iterate, vars

\* An entity is blank until it is opened, and its watcher comes after that.
LEMMA BlankStep == IInv /\ [Next]_vars => Blank'
<1> SUFFICES ASSUME IInv, TypeOK, Blank, Upgraded, [Next]_vars PROVE Blank'
  BY DEF IInv
<1> USE DEF Blank, threadVars
<1>0. /\ status \in [Handles -> {"none", "fetched", "opened", "live", "dropped"}]
      /\ watcher \in [Handles ->
           [st : {"none", "waiting", "changed", "closed"}, seen : Nat, got : Int]]
      /\ entity = [h \in Handles |-> entity[h]]
  BY DEF TypeOK
<1>1. CASE UNCHANGED <<status, entity, watcher>>
  BY <1>1
<1>2. ASSUME NEW h \in Handles, Fetch(h) PROVE Blank'
  BY <1>0, <1>2 DEF Fetch
<1>3. ASSUME NEW h \in Handles, Open(h) PROVE Blank'
  <2>1. status[h] = "fetched" /\ UNCHANGED watcher
    BY <1>3 DEF Open
  <2>2. CASE /\ status' = [status EXCEPT ![h] = "opened"]
             /\ \A g \in Handles \ {h} : entity'[g] = entity[g]
    BY <1>0, <2>1, <2>2
  <2>3. CASE status' = [status EXCEPT ![h] = "none"] /\ UNCHANGED entity
    BY <1>0, <2>1, <2>3
  <2> QED
    BY <1>0, <1>3, <2>2, <2>3 DEF Open
<1>4. ASSUME NEW h \in Handles, Register(h) \/ DropHandle(h) PROVE Blank'
  BY <1>0, <1>4 DEF Register, DropHandle
<1>5. ASSUME NEW h \in Handles, Watch(h) PROVE Blank'
  BY <1>0, <1>5 DEF Watch
<1>6. ASSUME NEW h \in Handles, WaitForNext(h) PROVE Blank'
  <2>1. /\ watcher[h].st # "none"
        /\ watcher'[h].st # "none"
        /\ \A g \in Handles \ {h} : watcher'[g] = watcher[g]
        /\ UNCHANGED <<status, entity>>
    BY <1>0, <1>6 DEF WaitForNext, Changed, Borrow, Closed
  <2> QED
    BY <2>1
<1>7. ASSUME NEW t \in Threads, Refresh(t) PROVE Blank'
  <2>1. client[t] \in Handles /\ status[client[t]] \in {"live", "dropped"}
    BY <1>7 DEF Refresh, Upgraded
  <2>2. UNCHANGED <<status, watcher>>
    BY <1>7 DEF Refresh
  <2>3. \A g \in Handles \ {client[t]} : entity'[g] = entity[g]
    BY <1>0, <1>7 DEF Refresh
  <2> QED
    BY <2>1, <2>2, <2>3
<1>8. ASSUME NEW t \in Threads,
             Lock(t) \/ Wait(t) \/ Relock(t) \/ Upgrade(t) \/ Retain(t)
             \/ SpuriousWakeup(t)
      PROVE  UNCHANGED <<status, entity, watcher>>
  BY <1>8 DEF Lock, Wait, Relock, Upgrade, Retain, SpuriousWakeup
<1>9. ASSUME NEW t \in Forcers, ForceUpdate(t)
      PROVE  UNCHANGED <<status, entity, watcher>>
  BY <1>9 DEF ForceUpdate
<1>10. ASSUME NEW p \in Paths, Write(p) PROVE UNCHANGED <<status, entity, watcher>>
  BY <1>10 DEF Write
<1> QED
  BY <1>1, <1>2, <1>3, <1>4, <1>5, <1>6, <1>7, <1>8, <1>9, <1>10
     DEF Next, Iterate, vars

\* What a step may do to the watchers.
LEMMA WatcherStep ==
    IInv /\ [Next]_vars => \/ UNCHANGED watcher
                           \/ \E h \in Handles : UNCHANGED entity
                                  /\ (Watch(h) \/ WaitForNext(h))
<1> SUFFICES ASSUME [Next]_vars, \A h \in Handles : ~(Watch(h) \/ WaitForNext(h))
             PROVE  UNCHANGED watcher
  BY DEF Watch, WaitForNext, Changed, Borrow, Closed
<1> USE DEF threadVars
<1>1. ASSUME NEW h \in Handles, Fetch(h) \/ Open(h) \/ Register(h) \/ DropHandle(h)
      PROVE  UNCHANGED watcher
  BY <1>1 DEF Fetch, Open, Register, DropHandle
<1>2. ASSUME NEW t \in Threads, Iterate(t) \/ SpuriousWakeup(t)
      PROVE  UNCHANGED watcher
  BY <1>2 DEF Iterate, Lock, Wait, Relock, Upgrade, Refresh, Retain, SpuriousWakeup
<1>3. ASSUME NEW t \in Forcers, ForceUpdate(t) PROVE UNCHANGED watcher
  BY <1>3 DEF ForceUpdate
<1>4. ASSUME NEW p \in Paths, Write(p) PROVE UNCHANGED watcher
  BY <1>4 DEF Write
<1> QED
  BY <1>1, <1>2, <1>3, <1>4 DEF Next, vars

\* Watchers keep behind the channel and are given what they were told of.
LEMMA WatcherSoundStep == IInv /\ [Next]_vars => WatcherSound'
<1> SUFFICES ASSUME IInv, [Next]_vars PROVE WatcherSound'
  OBVIOUS
<1> USE DEF WatcherSound
<1>0. /\ entity \in [Handles ->
           [value : Valid \cup {Missing}, stamp : Nat,
            version : Valid \cup {Missing}, mod_time : Nat, sent : Nat]]
      /\ watcher \in [Handles ->
           [st : {"none", "waiting", "changed", "closed"}, seen : Nat, got : Int]]
      /\ WatcherSound
  BY DEF IInv, StoreConsistent, TypeOK
<1>1. CASE UNCHANGED <<entity, watcher>>
  BY <1>0, <1>1
<1>2. ASSUME NEW h \in Handles, Opened(h) PROVE WatcherSound'
  <2>1. watcher[h].seen = 0 /\ watcher[h].got = -1
    BY <1>2, <1>0 DEF Opened, IInv, Blank
  <2>2. entity'[h].sent = 0 /\ \A g \in Handles \ {h} : entity'[g] = entity[g]
    BY <1>0, <1>2 DEF Opened
  <2>3. UNCHANGED watcher
    BY <1>2 DEF Opened
  <2> QED
    BY <1>0, <2>1, <2>2, <2>3
<1>3. ASSUME NEW t \in Threads, Replaced(t) PROVE WatcherSound'
  <2>1. client[t] \in Handles
    BY <1>3 DEF Replaced, IInv, Upgraded
  <2>2. \A g \in Handles : entity'[g].sent \in {entity[g].sent, entity[g].sent + 1}
    BY <1>0, <1>3, <2>1 DEF Replaced
  <2>3. \A g \in Handles : entity[g].sent \in Nat /\ watcher[g].seen \in Nat
                           /\ watcher[g].got \in Int
    BY <1>0
  <2>4. UNCHANGED watcher
    BY <1>3 DEF Replaced
  <2> QED
    BY <1>0, <2>2, <2>3, <2>4
<1>4. ASSUME NEW h \in Handles, UNCHANGED entity, Watch(h) \/ WaitForNext(h)
      PROVE  WatcherSound'
  <2>1. CASE Watch(h)
    <3>1. watcher' = [watcher EXCEPT ![h] = [st |-> "waiting", seen |-> 0, got |-> -1]]
      BY <2>1 DEF Watch
    <3> QED
      BY <1>0, <1>4, <3>1
  <2>2. CASE Changed(h)
    BY <1>0, <1>4, <2>2 DEF Changed
  <2>3. CASE Borrow(h)
    BY <1>0, <1>4, <2>3 DEF Borrow
  <2>4. CASE Closed(h)
    BY <1>0, <1>4, <2>4 DEF Closed
  <2> QED
    BY <1>4, <2>1, <2>2, <2>3, <2>4 DEF WaitForNext
<1> QED
  BY <1>1, <1>2, <1>3, <1>4, EntityStep, WatcherStep

\* What was read of a file is never newer than the file, and never older than
\* the entity it is read for: nobody else refreshes that one in the meantime.
LEMMA StampsStep == IInv /\ [Next]_vars => Stamps'
<1> SUFFICES ASSUME IInv, [Next]_vars PROVE Stamps'
  OBVIOUS
<1> USE DEF Stamps, threadVars
<1>0. /\ Stamps
      /\ writes \in Nat
      /\ file \in [Paths -> [contents : Valid \cup {Invalid, Missing},
                             mod_time : Nat, stamp : Nat]]
      /\ entity \in [Handles ->
           [value : Valid \cup {Missing}, stamp : Nat,
            version : Valid \cup {Missing}, mod_time : Nat, sent : Nat]]
      /\ read \in [Threads \cup Handles ->
           [contents : Valid \cup {Invalid, Missing}, stamp : Nat]]
      /\ status \in [Handles -> {"none", "fetched", "opened", "live", "dropped"}]
      /\ pc \in [Threads -> {"idle", "lock", "waiting", "woken", "refresh", "read",
                             "done"}]
      /\ client \in [Threads -> Handles \cup {NoOne}]
      /\ todo \in [Threads -> SUBSET Handles]
      /\ \A t \in Threads : pc[t] = "read" =>
            client[t] \in Handles /\ status[client[t]] \in {"live", "dropped"}
  BY DEF IInv, TypeOK, Upgraded
<1>1. CASE UNCHANGED <<file, writes, entity, status, read, pc, client>>
  BY <1>0, <1>1
<1>2. ASSUME NEW p \in Paths, Write(p) PROVE Stamps'
  <2>1. UNCHANGED <<entity, status, read, pc, client>> /\ writes' = writes + 1
    BY <1>2 DEF Write
  <2>2. /\ file'[p].stamp = writes + 1
        /\ \A q \in Paths \ {p} : file'[q] = file[q]
    BY <1>0, <1>2 DEF Write
  <2>3. \A q \in Paths : /\ file[q].stamp \in Nat /\ file'[q].stamp \in Nat
                         /\ file[q].stamp <= file'[q].stamp
                         /\ file'[q].stamp <= writes'
    BY <1>0, <2>1, <2>2
  <2>4. \A h \in Handles :
           /\ PathOf[h] \in Paths /\ entity[h].stamp \in Nat /\ read[h].stamp \in Nat
           /\ entity[h].stamp <= file'[PathOf[h]].stamp
           /\ status[h] = "fetched" => read[h].stamp <= file'[PathOf[h]].stamp
    BY <1>0, <2>3
  <2>5. \A t \in Threads : pc[t] = "read" =>
           /\ read[t].stamp \in Nat
           /\ read[t].stamp <= file'[PathOf[client[t]]].stamp
    BY <1>0, <2>3, <2>4
  <2> QED
    BY <1>0, <2>1, <2>3, <2>4, <2>5
<1>3. ASSUME NEW h \in Handles, Fetch(h) PROVE Stamps'
  <2>1. UNCHANGED <<file, writes, entity, pc, client>>
    BY <1>3 DEF Fetch
  <2>2. /\ read'[h].stamp = file[PathOf[h]].stamp
        /\ \A x \in (Threads \cup Handles) \ {h} : read'[x] = read[x]
        /\ \A g \in Handles \ {h} : status'[g] = status[g]
    BY <1>0, <1>3 DEF Fetch
  <2>3. file[PathOf[h]].stamp \in Nat
    BY <1>0
  <2>4. h \notin Threads
    BY DEF Threads
  <2>5. \A g \in Handles : status'[g] = "fetched" =>
           read'[g].stamp <= file[PathOf[g]].stamp
    <3> SUFFICES ASSUME NEW g \in Handles, status'[g] = "fetched"
                 PROVE  read'[g].stamp <= file[PathOf[g]].stamp
      OBVIOUS
    <3>1. CASE g = h
      BY <2>2, <2>3, <3>1
    <3>2. CASE g # h
      <4>1. status[g] = "fetched" /\ read'[g] = read[g]
        BY <2>2, <3>2
      <4> QED
        BY <1>0, <4>1
    <3> QED
      BY <3>1, <3>2
  <2>6. \A t \in Threads : read'[t] = read[t]
    BY <2>2, <2>4
  <2> QED
    BY <1>0, <2>1, <2>5, <2>6
<1>4. ASSUME NEW h \in Handles, Open(h) PROVE Stamps'
  <2>1. UNCHANGED <<file, writes, pc, client>> /\ status[h] = "fetched"
    BY <1>4 DEF Open
  <2>2. /\ \A g \in Handles \ {h} : status'[g] = status[g] /\ entity'[g] = entity[g]
        /\ entity'[h].stamp \in {entity[h].stamp, read[h].stamp}
        /\ status'[h] # "fetched"
        /\ \A x \in (Threads \cup Handles) \ {h} : read'[x] = read[x]
    BY <1>0, <1>4 DEF Open
  <2>3. h \notin Threads
    BY DEF Threads
  <2>4. \A t \in Threads : pc[t] = "read" => client[t] # h
    BY <1>0, <2>1
  <2> QED
    BY <1>0, <2>1, <2>2, <2>3, <2>4
<1>5. ASSUME NEW t \in Threads, Upgrade(t) PROVE Stamps'
  <2> PICK h \in todo[t] :
        \/ /\ client' = [client EXCEPT ![t] = h]
           /\ read' = [read EXCEPT ![t] = [contents |-> file[PathOf[h]].contents,
                                           stamp |-> file[PathOf[h]].stamp]]
           /\ pc' = [pc EXCEPT ![t] = "read"]
        \/ UNCHANGED <<client, read, pc>>
    BY <1>5 DEF Upgrade
  <2>1. h \in Handles /\ UNCHANGED <<file, writes, entity, status>>
    BY <1>0, <1>5 DEF Upgrade
  <2>2. CASE UNCHANGED <<client, read, pc>>
    BY <1>0, <2>1, <2>2
  <2>3. CASE /\ client' = [client EXCEPT ![t] = h]
             /\ read' = [read EXCEPT ![t] = [contents |-> file[PathOf[h]].contents,
                                             stamp |-> file[PathOf[h]].stamp]]
             /\ pc' = [pc EXCEPT ![t] = "read"]
    <3>1. /\ read'[t].stamp = file[PathOf[h]].stamp
          /\ client'[t] = h
          /\ file[PathOf[h]].stamp \in Nat
          /\ \A x \in (Threads \cup Handles) \ {t} : read'[x] = read[x]
          /\ \A u \in Threads \ {t} : client'[u] = client[u] /\ pc'[u] = pc[u]
      BY <1>0, <2>1, <2>3
    <3>2. t \notin Handles
      BY DEF Threads
    <3>3. \A u \in Threads \ {t} : read'[u] = read[u]
      BY <3>1
    <3>4. \A g \in Handles : read'[g] = read[g]
      BY <3>1, <3>2
    <3>5. read'[t].stamp <= file[PathOf[h]].stamp /\ entity[h].stamp <= read'[t].stamp
      BY <1>0, <2>1, <3>1
    <3>6. \A u \in Threads : pc'[u] = "read" =>
             /\ read'[u].stamp <= file[PathOf[client'[u]]].stamp
             /\ entity[client'[u]].stamp <= read'[u].stamp
      BY <1>0, <3>1, <3>3, <3>5
    <3> QED
      BY <1>0, <2>1, <3>4, <3>6
  <2> QED
    BY <2>2, <2>3
<1>6. ASSUME NEW t \in Threads, Refresh(t) PROVE Stamps'
  <2>1. /\ pc[t] = "read"
        /\ UNCHANGED <<file, writes, status>>
        /\ client[t] \in Handles
    BY <1>0, <1>6 DEF Refresh
  <2>2. /\ pc'[t] = "refresh"
        /\ \A u \in Threads \ {t} : client'[u] = client[u] /\ pc'[u] = pc[u]
        /\ \A x \in (Threads \cup Handles) \ {t} : read'[x] = read[x]
    BY <1>0, <1>6 DEF Refresh
  <2>3. /\ \A g \in Handles \ {client[t]} : entity'[g] = entity[g]
        /\ entity'[client[t]].stamp \in {entity[client[t]].stamp, read[t].stamp}
    BY <1>0, <1>6, <2>1 DEF Refresh, Refreshed
  <2>4. \A u \in Threads \ {t} : pc[u] # "read"
    BY <2>1 DEF IInv, StoreConsistent, OneAtATime
  <2>5. t \notin Handles
    BY DEF Threads
  <2>6. \A g \in Handles : read'[g] = read[g]
    BY <2>2, <2>5
  <2>7. \A g \in Handles : entity'[g].stamp <= file[PathOf[g]].stamp
    BY <1>0, <2>1, <2>3
  <2>8. \A u \in Threads : pc'[u] # "read"
    BY <2>2, <2>4
  <2> QED
    BY <1>0, <2>1, <2>6, <2>7, <2>8
<1>7. ASSUME NEW h \in Handles, Register(h) PROVE Stamps'
  <2>1. /\ UNCHANGED <<file, writes, entity, read, client>>
        /\ status' = [status EXCEPT ![h] = "live"]
        /\ \A t \in Threads : pc'[t] = "read" => pc[t] = "read"
    BY <1>0, <1>7 DEF Register, NotifyOne
  <2> QED
    BY <1>0, <2>1
<1>8. ASSUME NEW h \in Handles, DropHandle(h) PROVE Stamps'
  BY <1>0, <1>8 DEF DropHandle
<1>9. ASSUME NEW t \in Threads,
             Lock(t) \/ Wait(t) \/ Relock(t) \/ Retain(t) \/ SpuriousWakeup(t)
      PROVE  Stamps'
  <2>1. /\ UNCHANGED <<file, writes, entity, status, read, client>>
        /\ \A u \in Threads : pc'[u] = "read" => pc[u] = "read"
    BY <1>0, <1>9 DEF Lock, Wait, Relock, Retain, SpuriousWakeup
  <2> QED
    BY <1>0, <2>1
<1>10. ASSUME NEW t \in Forcers, ForceUpdate(t) PROVE Stamps'
  <2>1. /\ UNCHANGED <<file, writes, entity, status, read, client>>
        /\ \A u \in Threads : pc'[u] = "read" => pc[u] = "read"
    BY <1>0, <1>10 DEF ForceUpdate, Threads
  <2> QED
    BY <1>0, <2>1
<1>11. ASSUME NEW h \in Handles, Watch(h) \/ WaitForNext(h)
       PROVE  UNCHANGED <<file, writes, entity, status, read, pc, client>>
  BY <1>11 DEF Watch, WaitForNext, Changed, Borrow, Closed
<1> QED
  BY <1>1, <1>2, <1>3, <1>4, <1>5, <1>6, <1>7, <1>8, <1>9, <1>10, <1>11
     DEF Next, Iterate, vars

-----------------------------------------------------------------------------

\* IInv is inductive.
LEMMA Inductive == IInv /\ [Next]_vars => IInv'
  BY TypeStep, OneAtATimeStep, VersionStep, ClientsStep, UpgradedStep, BlankStep,
     WatcherSoundStep, StampsStep DEF IInv, StoreConsistent

\* It holds throughout.
LEMMA Invariance == Spec => []IInv
<1>1. Init => IInv
  BY InitIInv
<1>2. IInv /\ [Next]_vars => IInv'
  BY Inductive
<1> QED
  BY <1>1, <1>2, PTL DEF Spec

\* The store keeps its types, and a handle that was returned holds contents its
\* deserializer accepted.
THEOREM TypeCorrect == Spec => []TypeOK
<1>1. IInv => TypeOK
  BY DEF IInv
<1> QED
  BY <1>1, Invariance, PTL

\* Whatever the files, the registrations and the forced updates do, iterations
\* exclude each other, no handle in use is lost from its path's clients, a
\* version is that of the value handed out, and watchers are sound.
THEOREM StoreCorrect == Spec => []StoreConsistent
<1>1. IInv => StoreConsistent
  BY DEF IInv
<1> QED
  BY <1>1, Invariance, PTL

\* No refresh replaces a handle's contents by older ones.
THEOREM GoesForward == Spec => NeverGoesBack
<1>1. IInv /\ [Next]_vars
      => [\A h \in Handles : entity'[h].stamp >= entity[h].stamp]_vars
  BY ForwardStep
<1> QED
  BY <1>1, Invariance, PTL DEF Spec, NeverGoesBack

-----------------------------------------------------------------------------
(***************************************************************************)
(* SqliteTransactions, for any threads, databases and number of calls: the *)
(* guards exclude each other, connections are not lost, waiting threads    *)
(* are not forgotten and transactions do not leak unless a statement       *)
(* fails.                                                                  *)
(***************************************************************************)
\* Transactions alone begin and roll back.
KindKnown ==
    \A t \in Callers : at[t] \in {"begin", "rollback"} => kind[t] = "transaction"

\* The inductive invariant.
SqliteInv == SqliteTypeOK /\ GuardsSound /\ TransactionsClosed /\ KindKnown

USE SqliteConstants

-----------------------------------------------------------------------------

\* Initially no thread has the flag, a connection or a transaction.
LEMMA SqliteStart == SqliteInit => SqliteInv
<1> SUFFICES ASSUME SqliteInit PROVE SqliteInv
  OBVIOUS
<1>1. SqliteTypeOK
  BY DEF SqliteInit, SqliteTypeOK
<1>2. OneGuard /\ NeverEachOther /\ NoLostWakeup
  BY DEF SqliteInit, OneGuard, NeverEachOther, NoLostWakeup, HasFlag
<1>3. ConnectionKept
  BY DEF SqliteInit, ConnectionKept, HasConnection
<1>4. TransactionsClosed /\ KindKnown
  BY DEF SqliteInit, TransactionsClosed, KindKnown
<1> QED
  BY <1>1, <1>2, <1>3, <1>4 DEF SqliteInv, GuardsSound

\* Every step of a thread keeps the types.
LEMMA SqliteTypeStep == SqliteTypeOK /\ [SqliteNext]_sqliteVars => SqliteTypeOK'
<1> SUFFICES ASSUME SqliteTypeOK, [SqliteNext]_sqliteVars PROVE SqliteTypeOK'
  OBVIOUS
<1> USE DEF SqliteTypeOK, Goto, locks, data
<1>1. ASSUME NEW t \in Callers, Call(t) PROVE SqliteTypeOK'
  BY <1>1 DEF Call
<1>2. ASSUME NEW t \in Callers, SpuriousReturn(t) PROVE SqliteTypeOK'
  BY <1>2 DEF SpuriousReturn
<1>3. ASSUME NEW t \in Callers, Acquire(t) PROVE SqliteTypeOK'
  BY <1>3 DEF Acquire, LockGlobal, WaitGlobal, TakeConnection, WaitConnection
<1>4. ASSUME NEW t \in Callers, Use(t) PROVE SqliteTypeOK'
  <2>1. CASE Query(t) \/ BeginFails(t) \/ Abandon(t)
    BY <2>1 DEF Query, BeginFails, Abandon
  <2>2. CASE Begin(t) \/ Commit(t) \/ Rollback(t)
    BY <2>2 DEF Begin, Commit, Rollback
  <2>3. ASSUME OpenAfterError(t) PROVE open' \in [Databases -> Callers \cup {NoCaller}]
    BY <2>3 DEF OpenAfterError
  <2>4. CASE StatementFails(t)
    BY <2>3, <2>4 DEF StatementFails
  <2>5. CASE CommitFails(t)
    BY <2>3, <2>5 DEF CommitFails
  <2> QED
    BY <1>4, <2>1, <2>2, <2>4, <2>5 DEF Use
<1>5. ASSUME NEW t \in Callers, Drop(t) PROVE SqliteTypeOK'
  <2>1. CASE Release(t)
    BY <2>1 DEF Release
  <2>2. CASE PutBack(t)
    BY <2>2 DEF PutBack, NotifyOneOf
  <2>3. CASE Notify(t)
    BY <2>3 DEF Notify, NotifyOneOf
  <2> QED
    BY <1>5, <2>1, <2>2, <2>3 DEF Drop
<1>6. CASE Finished \/ UNCHANGED sqliteVars
  BY <1>6 DEF Finished, sqliteVars
<1> QED
  BY <1>1, <1>2, <1>3, <1>4, <1>5, <1>6 DEF SqliteNext, Step

\* The flag passes from thread to thread through CONN_LOCK, which a thread
\* that has it and no connection yet still holds.
LEMMA GuardStep == SqliteInv /\ [SqliteNext]_sqliteVars => OneGuard'
<1> SUFFICES ASSUME SqliteTypeOK, OneGuard, NeverEachOther, [SqliteNext]_sqliteVars
             PROVE  OneGuard'
  BY DEF SqliteInv, GuardsSound
<1> USE DEF SqliteTypeOK, OneGuard, NeverEachOther, HasFlag, Goto, locks, data
<1>1. ASSUME NEW t \in Callers, Call(t) PROVE OneGuard'
  BY <1>1 DEF Call
<1>2. ASSUME NEW t \in Callers, SpuriousReturn(t) PROVE OneGuard'
  BY <1>2 DEF SpuriousReturn
<1>3. ASSUME NEW t \in Callers, Acquire(t) PROVE OneGuard'
  BY <1>3 DEF Acquire, LockGlobal, WaitGlobal, TakeConnection, WaitConnection
<1>4. ASSUME NEW t \in Callers, Use(t) PROVE OneGuard'
  BY <1>4 DEF Use, Query, Begin, BeginFails, StatementFails, Commit, CommitFails,
              Abandon, Rollback
<1>5. ASSUME NEW t \in Callers, Drop(t) PROVE OneGuard'
  BY <1>5 DEF Drop, Release, PutBack, Notify, NotifyOneOf
<1>6. CASE Finished \/ UNCHANGED sqliteVars
  BY <1>6 DEF Finished, sqliteVars
<1> QED
  BY <1>1, <1>2, <1>3, <1>4, <1>5, <1>6 DEF SqliteNext, Step

\* A connection is taken from its place by one thread and put back by it.
LEMMA ConnectionStep == SqliteInv /\ [SqliteNext]_sqliteVars => ConnectionKept'
<1> SUFFICES ASSUME SqliteTypeOK, ConnectionKept, [SqliteNext]_sqliteVars
             PROVE  ConnectionKept'
  BY DEF SqliteInv, GuardsSound
<1> USE DEF SqliteTypeOK, ConnectionKept, HasConnection, Goto, locks, data
<1>1. ASSUME NEW t \in Callers, Call(t) PROVE ConnectionKept'
  BY <1>1 DEF Call
<1>2. ASSUME NEW t \in Callers, SpuriousReturn(t) PROVE ConnectionKept'
  BY <1>2 DEF SpuriousReturn
<1>3. ASSUME NEW t \in Callers, Acquire(t) PROVE ConnectionKept'
  BY <1>3 DEF Acquire, LockGlobal, WaitGlobal, TakeConnection, WaitConnection
<1>4. ASSUME NEW t \in Callers, Use(t) PROVE ConnectionKept'
  BY <1>4 DEF Use, Query, Begin, BeginFails, StatementFails, Commit, CommitFails,
              Abandon, Rollback
<1>5. ASSUME NEW t \in Callers, Drop(t) PROVE ConnectionKept'
  BY <1>5 DEF Drop, Release, PutBack, Notify, NotifyOneOf
<1>6. CASE Finished \/ UNCHANGED sqliteVars
  BY <1>6 DEF Finished, sqliteVars
<1> QED
  BY <1>1, <1>2, <1>3, <1>4, <1>5, <1>6 DEF SqliteNext, Step

\* A thread that finds no connection has the flag, so the thread that has
\* the connection has given the flag up: it is about to put it back.
LEMMA EachOtherStep == SqliteInv /\ [SqliteNext]_sqliteVars => NeverEachOther'
<1> SUFFICES ASSUME SqliteTypeOK, OneGuard, ConnectionKept, NeverEachOther, [SqliteNext]_sqliteVars
             PROVE  NeverEachOther'
  BY DEF SqliteInv, GuardsSound
<1> USE DEF SqliteTypeOK, OneGuard, NeverEachOther, HasFlag, Goto, locks, data
<1>1. ASSUME NEW t \in Callers, Call(t) PROVE NeverEachOther'
  BY <1>1 DEF Call
<1>2. ASSUME NEW t \in Callers, SpuriousReturn(t) PROVE NeverEachOther'
  BY <1>2 DEF SpuriousReturn
<1>3. ASSUME NEW t \in Callers, Acquire(t) PROVE NeverEachOther'
  BY <1>3 DEF Acquire, LockGlobal, WaitGlobal, TakeConnection, WaitConnection,
              ConnectionKept, HasConnection
<1>4. ASSUME NEW t \in Callers, Use(t) PROVE NeverEachOther'
  BY <1>4 DEF Use, Query, Begin, BeginFails, StatementFails, Commit, CommitFails,
              Abandon, Rollback
<1>5. ASSUME NEW t \in Callers, Drop(t) PROVE NeverEachOther'
  BY <1>5 DEF Drop, Release, PutBack, Notify, NotifyOneOf
<1>6. CASE Finished \/ UNCHANGED sqliteVars
  BY <1>6 DEF Finished, sqliteVars
<1> QED
  BY <1>1, <1>2, <1>3, <1>4, <1>5, <1>6 DEF SqliteNext, Step

\* The flag is set by drop(), which notifies a waiting thread later on.
LEMMA WakeupStep == SqliteInv /\ [SqliteNext]_sqliteVars => NoLostWakeup'
<1> SUFFICES ASSUME SqliteTypeOK, OneGuard, NoLostWakeup, [SqliteNext]_sqliteVars
             PROVE  NoLostWakeup'
  BY DEF SqliteInv, GuardsSound
<1> USE DEF SqliteTypeOK, OneGuard, NoLostWakeup, HasFlag, Goto, locks, data
<1>1. ASSUME NEW t \in Callers, Call(t) PROVE NoLostWakeup'
  BY <1>1 DEF Call
<1>2. ASSUME NEW t \in Callers, SpuriousReturn(t) PROVE NoLostWakeup'
  BY <1>2 DEF SpuriousReturn
<1>3. ASSUME NEW t \in Callers, Acquire(t) PROVE NoLostWakeup'
  BY <1>3 DEF Acquire, LockGlobal, WaitGlobal, TakeConnection, WaitConnection
<1>4. ASSUME NEW t \in Callers, Use(t) PROVE NoLostWakeup'
  BY <1>4 DEF Use, Query, Begin, BeginFails, StatementFails, Commit, CommitFails,
              Abandon, Rollback
<1>5. ASSUME NEW t \in Callers, Drop(t) PROVE NoLostWakeup'
  <2>1. CASE Release(t)
    BY <2>1 DEF Release
  <2>2. CASE PutBack(t)
    BY <2>2 DEF PutBack, NotifyOneOf
  <2>3. CASE Notify(t)
    BY <2>3 DEF Notify, NotifyOneOf
  <2> QED
    BY <1>5, <2>1, <2>2, <2>3 DEF Drop
<1>6. CASE Finished \/ UNCHANGED sqliteVars
  BY <1>6 DEF Finished, sqliteVars
<1> QED
  BY <1>1, <1>2, <1>3, <1>4, <1>5, <1>6 DEF SqliteNext, Step

\* Each way to the end of a transaction but a failed statement closes it.
LEMMA ClosedStep == SqliteInv /\ [SqliteNext]_sqliteVars => TransactionsClosed' /\ KindKnown'
<1> SUFFICES ASSUME SqliteTypeOK, TransactionsClosed, KindKnown, [SqliteNext]_sqliteVars
             PROVE  TransactionsClosed' /\ KindKnown'
  BY DEF SqliteInv
<1> USE DEF SqliteTypeOK, TransactionsClosed, KindKnown, Goto, locks, data
<1>1. ASSUME NEW t \in Callers, Call(t) PROVE TransactionsClosed' /\ KindKnown'
  BY <1>1 DEF Call
<1>2. ASSUME NEW t \in Callers, SpuriousReturn(t)
      PROVE  TransactionsClosed' /\ KindKnown'
  BY <1>2 DEF SpuriousReturn
<1>3. ASSUME NEW t \in Callers, Acquire(t) PROVE TransactionsClosed' /\ KindKnown'
  BY <1>3 DEF Acquire, LockGlobal, WaitGlobal, TakeConnection, WaitConnection
<1>4. ASSUME NEW t \in Callers, Use(t) PROVE TransactionsClosed' /\ KindKnown'
  BY <1>4 DEF Use, Query, Begin, BeginFails, StatementFails, Commit, CommitFails,
              Abandon, Rollback, OpenAfterError
<1>5. ASSUME NEW t \in Callers, Drop(t) PROVE TransactionsClosed' /\ KindKnown'
  BY <1>5 DEF Drop, Release, PutBack, Notify, NotifyOneOf
<1>6. CASE Finished \/ UNCHANGED sqliteVars
  BY <1>6 DEF Finished, sqliteVars
<1> QED
  BY <1>1, <1>2, <1>3, <1>4, <1>5, <1>6 DEF SqliteNext, Step

-----------------------------------------------------------------------------

\* The invariant holds in every state.
LEMMA SqliteInvariance == SqliteSpec => []SqliteInv
<1>1. SqliteInv /\ [SqliteNext]_sqliteVars => SqliteInv'
  BY SqliteTypeStep, GuardStep, ConnectionStep, EachOtherStep, WakeupStep, ClosedStep
     DEF SqliteInv, GuardsSound
<1> QED
  BY SqliteStart, <1>1, PTL DEF SqliteSpec

\* The types are kept, whatever the threads, the databases and the calls.
THEOREM SqliteTypeCorrect == SqliteSpec => []SqliteTypeOK
<1>1. SqliteInv => SqliteTypeOK
  BY DEF SqliteInv
<1> QED
  BY SqliteInvariance, <1>1, PTL

\* SqliteConnectionGuard::new() and drop(): guards exclude each other,
\* connections are neither lost nor duplicated, a thread that waits for a
\* connection with CONN_LOCK held does not wait for a thread that needs it,
\* and no thread that waits for the flag is forgotten.
THEOREM GuardsCorrect == SqliteSpec => []GuardsSound
<1>1. SqliteInv => GuardsSound
  BY DEF SqliteInv
<1> QED
  BY SqliteInvariance, <1>1, PTL

\* Transaction: as long as no statement of a transaction on it has failed, a
\* connection that is free, or used by another, has no transaction open.
THEOREM TransactionsCorrect == SqliteSpec => []TransactionsClosed
<1>1. SqliteInv => TransactionsClosed
  BY DEF SqliteInv
<1> QED
  BY SqliteInvariance, <1>1, PTL
==============================================================================
