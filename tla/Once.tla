-------------------------------- MODULE Once --------------------------------
(***************************************************************************)
(* std::sync::Once on a futex, sys_common/once/futex.rs, called through    *)
(* call_once and call_once_force (sync/once.rs) and through the initialize *)
(* of OnceLock (sync/once_lock.rs), whose closure may return an error and  *)
(* poison the Once without a panic.  One action is one access to the word. *)
(* A weak CAS that fails on the value it expects only reads it once more.  *)
(*   idle    outside                    drop    Drop of CompletionGuard    *)
(*   load    first load of call()       wake    its futex_wake_all         *)
(*   match   loop head, with local[t]   ok      about to return normally   *)
(*   run     the closure                failed  about to panic, or to      *)
(*   wait    about to futex_wait                return the closure's error *)
(*   asleep  in the futex_wait syscall                                     *)
(***************************************************************************)
EXTENDS Futex

CONSTANTS
  Thread,             \* the threads that share the Once
  MaxFailures         \* bound: how many closures fail

ASSUME OnceAssumption == MaxFailures \in Nat

VARIABLES
  state,              \* the word
  pc,
  local,              \* the variable "state" of call()
  force,              \* threads that called with ignore_poisoning
  completing,         \* threads whose guard will set COMPLETE
  seen,               \* who has seen what the closures wrote
  last,               \* how the last attempt to initialize ended
  failures            \* the number of failed attempts

vars == <<state, pc, local, force, completing, seen, last, failures>>

INCOMPLETE == "INCOMPLETE"
POISONED == "POISONED"
RUNNING == "RUNNING"
QUEUED == "QUEUED"
COMPLETE == "COMPLETE"
Ended == {INCOMPLETE, POISONED, COMPLETE}
States == Ended \union {RUNNING, QUEUED}

Word == "state"
ASSUME WordIsNoThread == Word \notin Thread

Initializing == {"run", "drop"}
PC == {"idle", "load", "match", "wait", "asleep", "wake", "ok", "failed"} \union Initializing

Goto(t, l) == pc' = [pc EXCEPT ![t] = l]
Sleepers == {t \in Thread : pc[t] = "asleep"}

\* A load, or a failed CAS, of the word into the variable "state".
Reload(t) == local' = [local EXCEPT ![t] = state] /\ seen' = Sync(seen, Word, t)

Init ==
  /\ state = INCOMPLETE
  /\ pc = [t \in Thread |-> "idle"]
  /\ local = [t \in Thread |-> INCOMPLETE]
  /\ force = {} /\ completing = {}
  /\ seen = Thread \union {Word}
  /\ last = INCOMPLETE
  /\ failures = 0

----------------------------------------------------------------------------
RelaxedFastPath(t) ==
  /\ pc[t] = "idle"
  /\ Goto(t, IF state = COMPLETE THEN "ok" ELSE "load")
  /\ force' \in {force, force \union {t}}
  /\ UNCHANGED <<state, local, completing, seen, last, failures>>

\* call_once, call_once_force, OnceLock::get_or_try_init: is_completed().
FastPath(t) ==
  /\ pc[t] = "idle"
  /\ seen' = Sync(seen, Word, t)
  /\ Goto(t, IF state = COMPLETE THEN "ok" ELSE "load")
  /\ force' \in {force, force \union {t}}
  /\ UNCHANGED <<state, local, completing, last, failures>>

Load(t) ==
  /\ pc[t] = "load"
  /\ Reload(t)
  /\ Goto(t, "match")
  /\ UNCHANGED <<state, force, completing, last, failures>>

\* POISONED if !ignore_poisoning: panic to propagate the poison.
Propagate(t) ==
  /\ pc[t] = "match" /\ local[t] = POISONED /\ t \notin force
  /\ Goto(t, "failed")
  /\ UNCHANGED <<state, local, force, completing, seen, last, failures>>

RegisterBlindly(t) ==
  /\ pc[t] = "match"
  /\ local[t] = INCOMPLETE \/ (local[t] = POISONED /\ t \in force)
  /\ seen' = Sync(seen, Word, t)
  /\ state' = RUNNING /\ Goto(t, "run") /\ UNCHANGED local
  /\ UNCHANGED <<force, completing, last, failures>>

RegisterAnyway(t) ==
  /\ pc[t] = "match" /\ local[t] \in {INCOMPLETE, POISONED}
  /\ IF state \in {INCOMPLETE, POISONED}
     THEN seen' = Sync(seen, Word, t) /\ state' = RUNNING /\ Goto(t, "run") /\ UNCHANGED local
     ELSE Reload(t) /\ UNCHANGED <<state, pc>>
  /\ UNCHANGED <<force, completing, last, failures>>

\* INCOMPLETE | POISONED: CAS to RUNNING, then run the closure.
Register(t) ==
  /\ pc[t] = "match"
  /\ local[t] = INCOMPLETE \/ (local[t] = POISONED /\ t \in force)
  /\ IF state = local[t]
     THEN seen' = Sync(seen, Word, t) /\ state' = RUNNING /\ Goto(t, "run") /\ UNCHANGED local
     ELSE Reload(t) /\ UNCHANGED <<state, pc>>
  /\ UNCHANGED <<force, completing, last, failures>>

\* RUNNING | QUEUED: make sure the word is QUEUED, then wait.
Queue(t) ==
  /\ pc[t] = "match" /\ local[t] \in {RUNNING, QUEUED}
  /\ IF local[t] = QUEUED \/ state = RUNNING
     THEN /\ state' = IF local[t] = RUNNING THEN QUEUED ELSE state
          /\ Goto(t, "wait") /\ UNCHANGED <<local, seen>>
     ELSE Reload(t) /\ UNCHANGED <<state, pc>>
  /\ UNCHANGED <<force, completing, last, failures>>

\* COMPLETE: nothing to do.
Completed(t) ==
  /\ pc[t] = "match" /\ local[t] = COMPLETE
  /\ Goto(t, "ok")
  /\ UNCHANGED <<state, local, force, completing, seen, last, failures>>

WaitOnRunning(t) ==
  /\ pc[t] = "wait"
  /\ Goto(t, IF Blocks(state, QUEUED) \/ Blocks(state, RUNNING) THEN "asleep" ELSE "load")
  /\ UNCHANGED <<state, local, force, completing, seen, last, failures>>

Wait(t) ==
  /\ pc[t] = "wait"
  /\ Goto(t, IF Blocks(state, QUEUED) THEN "asleep" ELSE "load")
  /\ UNCHANGED <<state, local, force, completing, seen, last, failures>>

\* The call ends without a wake: spuriously, or by a signal and a retry.
Disturb(t) ==
  /\ pc[t] = "asleep"
  /\ \E l \in {"load", "wait"} : Goto(t, l)
  /\ UNCHANGED <<state, local, force, completing, seen, last, failures>>

\* The closure: it writes, and it returns, or it panics or calls poison().
Run(t) ==
  /\ pc[t] = "run"
  /\ seen' = Written(t)
  /\ \/ completing' = completing \union {t} /\ UNCHANGED failures
     \/ /\ failures < MaxFailures
        /\ failures' = failures + 1 /\ UNCHANGED completing
  /\ Goto(t, "drop")
  /\ UNCHANGED <<state, local, force, last>>

\* Drop for CompletionGuard: swap(set_state_on_drop_to, Release).
DropGuard(t) ==
  /\ pc[t] = "drop"
  /\ state' = IF t \in completing THEN COMPLETE ELSE POISONED
  /\ seen' = Sync(seen, t, Word)
  /\ last' = state'
  /\ Goto(t, IF state = QUEUED THEN "wake" ELSE IF t \in completing THEN "ok" ELSE "failed")
  /\ UNCHANGED <<local, force, completing, failures>>

Wake(t) ==
  /\ pc[t] = "wake"
  /\ \E W \in FutexWakeAll(Sleepers) :
       pc' = [u \in Thread |-> IF u \in W THEN "load"
                               ELSE IF u # t THEN pc[u]
                               ELSE IF t \in completing THEN "ok" ELSE "failed"]
  /\ UNCHANGED <<state, local, force, completing, seen, last, failures>>

Return(t) ==
  /\ pc[t] \in {"ok", "failed"}
  /\ Goto(t, "idle")
  /\ local' = [local EXCEPT ![t] = INCOMPLETE]
  /\ force' = force \ {t} /\ completing' = completing \ {t}
  /\ UNCHANGED <<state, seen, last, failures>>

Step(t) ==
  \/ Load(t) \/ Propagate(t) \/ Register(t) \/ Queue(t) \/ Completed(t)
  \/ Wait(t) \/ Run(t) \/ DropGuard(t) \/ Wake(t) \/ Return(t)

Next == \E t \in Thread : FastPath(t) \/ Step(t) \/ Disturb(t)

Spec == Init /\ [][Next]_vars

\* The scheduler runs every thread that can run, and closures terminate.
FairSpec == Spec /\ \A t \in Thread : WF_vars(Step(t))

----------------------------------------------------------------------------
(* Properties *)

\* Type invariant.
TypeOK ==
  /\ state \in States
  /\ pc \in [Thread -> PC]
  /\ local \in [Thread -> States]
  /\ force \subseteq Thread /\ completing \subseteq Thread
  /\ seen \subseteq Thread \union {Word}
  /\ last \in Ended
  /\ failures \in Nat

\* At most one closure runs, exactly while the word is RUNNING or QUEUED; at
\* any other time the word tells how the last attempt ended.
OneInitializer ==
  /\ \A t, u \in Thread : pc[t] \in Initializing /\ pc[u] \in Initializing => t = u
  /\ state \in {RUNNING, QUEUED} <=> \E t \in Thread : pc[t] \in Initializing
  /\ state \notin {RUNNING, QUEUED} => state = last

\* A call that returns normally finds the Once complete and sees what the
\* closure wrote, whichever of its loads told it; a closure sees what the
\* failed ones before it wrote.
InitVisible ==
  /\ \A t \in Thread : pc[t] = "ok" => state = COMPLETE /\ t \in seen
  /\ \A t \in Thread : pc[t] = "run" => t \in seen

\* After a failed attempt a closure runs only if its caller ignores poison,
\* and OnceState::is_poisoned() tells it the truth; none runs after success.
PoisonPropagates ==
  \A t \in Thread : pc[t] = "run" =>
    /\ last # COMPLETE
    /\ local[t] = last
    /\ last = POISONED => t \in force

\* No wakeup is lost: while somebody sleeps the word is QUEUED, so that the
\* guard's swap will see it, or futex_wake_all is about to be called.
NoLostWakeup ==
  Sleepers # {} => state = QUEUED \/ \E t \in Thread : pc[t] = "wake"

\* Completion is final: no late waiter, waker or initializer undoes it.
CompletionIsFinal == [][state = COMPLETE => state' = COMPLETE]_state

\* If only finitely many closures fail, every call returns or panics.
EveryCallReturns == \A t \in Thread : pc[t] # "idle" ~> pc[t] = "idle"
=============================================================================
