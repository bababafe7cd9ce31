----------------------------- MODULE SharedCells -----------------------------
(* The cells whose value a future computes, shared by several callers:       *)
(* AsyncOnceCell (an async mutex around the initialiser, a flag published    *)
(* after the value) and LazyShared (one Shared future everybody awaits).  A  *)
(* caller may be dropped wherever it awaits.  The value is named after the   *)
(* caller whose initialiser computed it; 0 is none.                          *)
EXTENDS Integers, Sequences, SequencesExt

CONSTANTS Callers

VARIABLES cell,            \* "once" or "lazy"
          caller,          \* where each caller is
          op,              \* what it called
          got,             \* what it was given: a value, 0 for None, -1 for an error
          holder,          \* who holds the mutex, 0 for nobody
          lockers,         \* who waits for it, first come first served
          value,
          is_initialized,  \* AsyncOnceCell: the flag; LazyShared: the future is complete
          shared           \* LazyShared: whose future is in the OnceLock

vars == <<cell, caller, op, got, holder, lockers, value, is_initialized, shared>>

Ops == {"get", "set", "get_or_init", "get_or_try_init"}

(* What a caller that finds the cell initialised returns.                    *)
Found(o) == IF o = "set" THEN -1 ELSE value

Return(c, v) ==
    /\ caller' = [caller EXCEPT ![c] = "returned"]
    /\ got' = [got EXCEPT ![c] = v]

(* tokio's mutex (external) hands itself to the first that waits.            *)
Unlock ==
    /\ holder' = IF lockers = <<>> THEN 0 ELSE Head(lockers)
    /\ lockers' = IF lockers = <<>> THEN <<>> ELSE Tail(lockers)

(* The first look at the flag, without the mutex; then the mutex is asked    *)
(* for.                                                                      *)
Call(c, o) ==
    /\ cell = "once" /\ caller[c] = "idle"
    /\ op' = [op EXCEPT ![c] = o]
    /\ CASE is_initialized  -> Return(c, Found(o)) /\ UNCHANGED <<holder, lockers>>
         [] ~is_initialized /\ o = "get" -> Return(c, 0) /\ UNCHANGED <<holder, lockers>>
         [] OTHER ->
            /\ caller' = [caller EXCEPT ![c] = "locking"]
            /\ IF holder = 0 THEN holder' = c /\ UNCHANGED lockers
                             ELSE lockers' = Append(lockers, c) /\ UNCHANGED holder
            /\ UNCHANGED got
    /\ UNCHANGED <<cell, value, is_initialized, shared>>

(* Mutant: the flag is not looked at again under the mutex.                  *)
MutantRecheck == FALSE

Recheck == is_initialized

Locked(c) ==
    /\ caller[c] = "locking" /\ holder = c
    /\ IF Recheck
       THEN Return(c, Found(op[c])) /\ Unlock
       ELSE /\ caller' = [caller EXCEPT ![c] = IF op[c] = "set" THEN "writing" ELSE "initialising"]
            /\ UNCHANGED <<got, holder, lockers>>
    /\ UNCHANGED <<cell, op, value, is_initialized, shared>>

(* The initialiser's future is awaited with the mutex held.                  *)
Initialised(c, ok) ==
    /\ caller[c] = "initialising"
    /\ ok \/ op[c] = "get_or_try_init"
    /\ IF ok THEN caller' = [caller EXCEPT ![c] = "writing"] /\ UNCHANGED <<got, holder, lockers>>
             ELSE Return(c, -1) /\ Unlock
    /\ UNCHANGED <<cell, op, value, is_initialized, shared>>

WriteSlot(c) ==
    /\ caller[c] = "writing"
    /\ value' = c
    /\ caller' = [caller EXCEPT ![c] = "publishing"]
    /\ UNCHANGED <<cell, op, got, holder, lockers, is_initialized, shared>>

Publish(c) ==
    /\ caller[c] = "publishing"
    /\ is_initialized' = TRUE
    /\ Return(c, IF op[c] = "set" THEN 0 ELSE value) /\ Unlock
    /\ UNCHANGED <<cell, op, value, shared>>

(* LazyShared::get_or_init: a ready value is cloned; the first caller puts   *)
(* its future in the OnceLock (external: init() runs inside it), and every   *)
(* caller awaits a clone of the one that is there.                           *)
GetOrInit(c) ==
    /\ cell = "lazy" /\ caller[c] = "idle"
    /\ IF is_initialized /\ shared = 0
       THEN Return(c, value) /\ UNCHANGED shared
       ELSE /\ shared' = IF shared = 0 THEN c ELSE shared
            /\ caller' = [caller EXCEPT ![c] = "sharing"]
            /\ UNCHANGED got
    /\ op' = [op EXCEPT ![c] = "get_or_init"]
    /\ UNCHANGED <<cell, holder, lockers, value, is_initialized>>

(* Any of them drives the shared future; the first completes it for all.     *)
SharedReady(c) ==
    /\ caller[c] = "sharing"
    /\ value' = shared /\ is_initialized' = TRUE
    /\ Return(c, shared)
    /\ UNCHANGED <<cell, op, holder, lockers, shared>>

(* The caller's future is dropped where it awaits.                           *)
Drop(c) ==
    /\ caller[c] \in {"locking", "initialising", "sharing"}
    /\ caller' = [caller EXCEPT ![c] = "dropped"]
    /\ \/ holder = c /\ Unlock
       \/ /\ holder # c
          /\ \E i \in DOMAIN lockers : lockers[i] = c /\ lockers' = RemoveAt(lockers, i)
          /\ UNCHANGED holder
       \/ caller[c] = "sharing" /\ UNCHANGED <<holder, lockers>>
    /\ UNCHANGED <<cell, op, got, value, is_initialized, shared>>

(* new(), new_with(), new_empty(), new_ready(); new_future() is new_empty()  *)
(* after its first caller.                                                   *)
Init ==
    /\ cell \in {"once", "lazy"}
    /\ caller = [c \in Callers |-> "idle"] /\ op = [c \in Callers |-> "none"]
    /\ got = [c \in Callers |-> 0]
    /\ holder = 0 /\ lockers = <<>> /\ shared = 0
    /\ \/ value = 0 /\ is_initialized = FALSE
       \/ value = 99 /\ is_initialized = TRUE

Next ==
    \E c \in Callers :
        \/ \E o \in Ops : Call(c, o)
        \/ Locked(c) \/ WriteSlot(c) \/ Publish(c) \/ GetOrInit(c) \/ SharedReady(c) \/ Drop(c)
        \/ \E ok \in BOOLEAN : Initialised(c, ok)

Spec == Init /\ [][Next]_vars

Wrote(c) == caller[c] = "publishing" \/ (caller[c] = "returned" /\ op[c] = "set" /\ got[c] = 0)

(* The flag promises a value, and every caller that was given a value was    *)
(* given the one in the cell: it is never initialised twice, however callers *)
(* race, fail or are dropped.  The slot is written by the mutex's holder and *)
(* nobody reads it before the flag; whoever waits for the mutex waits for a  *)
(* caller that is still there and will hand it on.                           *)
CellsSound ==
    /\ is_initialized => value # 0
    /\ \A c \in Callers : caller[c] = "returned" /\ got[c] > 0 => got[c] = value /\ is_initialized
    /\ \A c, d \in Callers : Wrote(c) /\ Wrote(d) => c = d
    /\ \A c \in Callers : caller[c] = "writing" => value = 0 /\ holder = c
    /\ lockers # <<>> => holder # 0
    /\ holder # 0 => caller[holder] \in {"locking", "initialising", "writing", "publishing"}
=============================================================================
