------------------------------ MODULE JustKnobs ------------------------------
(* The justknobs stub: knobs kept current from a cached_config handle by a   *)
(* worker task, and thread local overrides for the time of a closure, of     *)
(* every poll of a future, or until further notice.                          *)
EXTENDS Integers, Sequences

CONSTANTS NewKnobs,      \* the sets of knobs overrides are made of
          Threads,
          MaxVersion, MaxInits, MaxScopes, MaxOverrides

VARIABLES version,       \* the config the store has published (external)
          knobs,         \* JUST_KNOBS: the version in the ArcSwap, 0 before it is used
          inits,         \* the callers of init_just_knobs(_worker): what each has read
          worker,        \* "none", "spawned", "waiting", "changed", "updating"
          seen,          \* the version the watcher has seen
          borrowed,       \* what the worker borrowed
          last,          \* who wrote knobs last
          local,         \* thread -> its JUST_KNOBS: <<>> or <<knobs>>
          saved,         \* thread -> the values to be restored, innermost last
          base,          \* thread -> what overrides outside any scope have made
          unwound,       \* threads on which a scope was left by a panic
          future,        \* the merged knobs of with_just_knobs_async, <<>> before
          polling,       \* the thread and depth of the future's poll, or <<>>
          scopes, overrides

configVars == <<version, knobs, inits, worker, seen, borrowed, last>>
localVars == <<local, saved, base, unwound, future, polling, scopes, overrides>>
vars == <<configVars, localVars>>

(* The store publishes; the handle's receiver has seen version 1.            *)
PublishConfig ==
    /\ version < MaxVersion
    /\ version' = version + 1
    /\ UNCHANGED <<knobs, inits, worker, seen, borrowed, last, localVars>>

(* init_just_knobs reads the handle, then swaps.  Of init_just_knobs_worker  *)
(* the first sets the worker's state and spawns it, any other panics after   *)
(* the swap.                                                                 *)
InitRead ==
    /\ Len(inits) < MaxInits
    /\ inits' = Append(inits, version)
    /\ UNCHANGED <<version, knobs, worker, seen, borrowed, last, localVars>>

InitSwap(i, with_worker) ==
    /\ inits[i] > 0
    /\ knobs' = inits[i] /\ last' = "init"
    /\ inits' = [inits EXCEPT ![i] = 0]
    /\ worker' = IF with_worker /\ worker = "none" THEN "spawned" ELSE worker
    /\ UNCHANGED <<version, seen, borrowed, localVars>>

(* Mutant: the watcher starts from what is current when it is made.          *)
MutantSeenAtStart == version

SeenAtStart == 1

(* wait_and_update: the watcher is a clone of the handle's receiver.         *)
WorkerStart ==
    /\ worker = "spawned"
    /\ worker' = "waiting" /\ seen' = SeenAtStart
    /\ UNCHANGED <<version, knobs, inits, borrowed, last, localVars>>

Changed ==
    /\ worker = "waiting" /\ seen < version
    /\ worker' = "changed" /\ seen' = version
    /\ UNCHANGED <<version, knobs, inits, borrowed, last, localVars>>

Borrow ==
    /\ worker = "changed"
    /\ worker' = "updating" /\ borrowed' = version
    /\ UNCHANGED <<version, knobs, inits, seen, last, localVars>>

(* wait_and_update_iteration                                                 *)
UpdateJustKnobs ==
    /\ worker = "updating"
    /\ knobs' = borrowed /\ last' = "worker"
    /\ worker' = "waiting"
    /\ UNCHANGED <<version, inits, seen, borrowed, localVars>>

(* merge_just_knobs: new values before old ones.                             *)
Merge(old, new) ==
    IF old = <<>> THEN <<new>>
    ELSE <<[k \in DOMAIN new \union DOMAIN old[1] |->
              IF k \in DOMAIN new THEN new[k] ELSE old[1][k]]>>

Enter(t, new) ==
    /\ saved' = [saved EXCEPT ![t] = Append(@, local[t])]
    /\ local' = [local EXCEPT ![t] = new]
    /\ scopes' = scopes + 1

(* with_just_knobs                                                           *)
WithJustKnobs(t, new) ==
    /\ scopes < MaxScopes
    /\ Enter(t, Merge(local[t], new))
    /\ UNCHANGED <<base, unwound, future, polling, overrides, configVars>>

(* with_just_knobs_async: the knobs are merged where the future is made, and *)
(* put in place on the thread that polls it, for the poll.                   *)
MakeFuture(t, new) ==
    /\ future = <<>>
    /\ future' = Merge(local[t], new)
    /\ UNCHANGED <<local, saved, base, unwound, polling, scopes, overrides, configVars>>

PollFuture(t) ==
    /\ scopes < MaxScopes /\ future # <<>> /\ polling = <<>>
    /\ polling' = <<t, Len(saved[t]) + 1>>
    /\ Enter(t, future)
    /\ UNCHANGED <<base, unwound, future, overrides, configVars>>

(* The closure or the poll returns: what was there before comes back.        *)
Leave(t) ==
    LET depth == Len(saved[t])
    IN  /\ depth > 0
        /\ local' = [local EXCEPT ![t] = saved[t][depth]]
        /\ saved' = [saved EXCEPT ![t] = SubSeq(@, 1, depth - 1)]
        /\ polling' = IF polling = <<t, depth>> THEN <<>> ELSE polling
        /\ UNCHANGED <<base, unwound, future, scopes, overrides, configVars>>

(* The closure or the poll panics: nothing is restored on the way out.       *)
Unwind(t) ==
    /\ saved[t] # <<>>
    /\ saved' = [saved EXCEPT ![t] = <<>>]
    /\ unwound' = unwound \union {t}
    /\ polling' = IF polling # <<>> /\ polling[1] = t THEN <<>> ELSE polling
    /\ UNCHANGED <<local, base, future, scopes, overrides, configVars>>

OverrideJustKnobs(t, new) ==
    /\ overrides < MaxOverrides
    /\ overrides' = overrides + 1
    /\ local' = [local EXCEPT ![t] = Merge(local[t], new)]
    /\ base' = IF saved[t] = <<>> THEN [base EXCEPT ![t] = Merge(@, new)] ELSE base
    /\ UNCHANGED <<saved, unwound, future, polling, scopes, configVars>>

Init ==
    /\ version = 1 /\ knobs = 0 /\ inits = <<>> /\ worker = "none"
    /\ seen = 0 /\ borrowed = 0 /\ last = "none"
    /\ local = [t \in Threads |-> <<>>] /\ saved = [t \in Threads |-> <<>>]
    /\ base = local /\ unwound = {} /\ future = <<>> /\ polling = <<>>
    /\ scopes = 0 /\ overrides = 0

ConfigNext ==
    \/ PublishConfig \/ InitRead \/ WorkerStart \/ Changed \/ Borrow \/ UpdateJustKnobs
    \/ \E i \in DOMAIN inits, w \in BOOLEAN : InitSwap(i, w)

LocalNext ==
    \E t \in Threads :
        \/ PollFuture(t) \/ Leave(t) \/ Unwind(t)
        \/ \E new \in NewKnobs :
            WithJustKnobs(t, new) \/ MakeFuture(t, new) \/ OverrideJustKnobs(t, new)

Next == ConfigNext \/ LocalNext

Spec == Init /\ [][Next]_vars

(* Where eval() and get() look.                                              *)
Implementation(t) ==
    CASE local[t] # <<>>                  -> "thread_local_in_memory"
      [] local[t] = <<>> /\ knobs > 0     -> "cached_config"
      [] OTHER                            -> "stub"

(* What an overridden thread reads of knob k; one it has not is an error,    *)
(* whatever the shared knobs say.                                            *)
Lookup(t, k) == IF k \in DOMAIN local[t][1] THEN local[t][1][k] ELSE "missing"

(* A worker that waits has installed the last version, whatever was          *)
(* published while it started or worked; only an initialisation beside it,   *)
(* slower than the worker, can put an older version back.                    *)
KnobsCurrent ==
    worker = "waiting" /\ seen = version /\ (last = "worker" \/ Len(inits) = 1) =>
        knobs = version

(* Scopes do not leak: outside of all of them a thread has the overrides     *)
(* made outside of them, and uses the shared knobs if there are none, unless *)
(* a scope was left by a panic.  A scope hides no override around it, a      *)
(* future reads its own knobs on whichever thread polls it, whatever that    *)
(* thread's are.                                                             *)
OverridesScoped ==
    /\ \A t \in Threads \ unwound :
        saved[t] = <<>> =>
            /\ local[t] = base[t]
            /\ Implementation(t) = "thread_local_in_memory" => base[t] # <<>>
    /\ \A t \in Threads : \A d \in DOMAIN saved[t] :
        LET inner == IF d < Len(saved[t]) THEN saved[t][d + 1] ELSE local[t]
        IN  /\ inner # <<>>
            /\ saved[t][d] # <<>> /\ polling # <<t, d>> =>
                DOMAIN saved[t][d][1] \subseteq DOMAIN inner[1]
            /\ polling = <<t, d>> => DOMAIN future[1] \subseteq DOMAIN inner[1]
    /\ \A t \in Threads :
        polling = <<t, Len(saved[t])>> => \A k \in DOMAIN future[1] :
            /\ Lookup(t, k) # "missing"
            /\ overrides = 0 => Lookup(t, k) = future[1][k]

KnobsSound == KnobsCurrent /\ OverridesScoped
=============================================================================
