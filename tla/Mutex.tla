------------------------------- MODULE Mutex -------------------------------
(***************************************************************************)
(* std::sync::Mutex on a futex: sys/unix/locks/futex_mutex.rs, the guard   *)
(* of sync/mutex.rs and the poison flag of sync/poison.rs.                 *)
(*                                                                         *)
(* One action is one access to the shared word or the flag.  A thread's    *)
(* place in the code is pc[t]:                                             *)
(*   idle     outside                  wait     about to call futex_wait   *)
(*   spin     first spin()             asleep   in the futex_wait syscall  *)
(*   cas      CAS after the spin       respin   spin() in the loop         *)
(*   contend  head of the loop         guard    MutexGuard::new            *)
(*   locked   user code with a guard   unlock   Drop, after poison.done    *)
(*   wake     futex_wake in unlock                                         *)
(***************************************************************************)
EXTENDS Futex

CONSTANTS Thread      \* the threads that share the mutex

VARIABLES
  futex,              \* 0 unlocked, 1 locked, 2 locked and contended
  pc,
  local,              \* the variable "state" of lock_contended
  seen,               \* who has seen the latest write of the data
  failed,             \* poison::Flag
  panicking,          \* threads for which thread::panicking() is true
  guard,              \* threads whose poison::Guard has panicking = true
  panics              \* threads that panicked in a critical section since the
                      \* flag was cleared, and did not catch it there

lockVars == <<futex, local, seen>>
poisonVars == <<failed, panicking, guard, panics>>
vars == <<futex, pc, local, seen, failed, panicking, guard, panics>>

\* The word is told apart from the threads in "seen".
Word == "futex"
ASSUME WordIsNoThread == Word \notin Thread

Contending == {"contend", "wait", "respin"}
Holding == {"guard", "locked", "unlock"}
PC == {"idle", "spin", "cas", "asleep", "wake"} \union Contending \union Holding

Goto(t, l) == pc' = [pc EXCEPT ![t] = l]
Sleepers == {t \in Thread : pc[t] = "asleep"}

Init ==
  /\ futex = 0
  /\ pc = [t \in Thread |-> "idle"]
  /\ local = [t \in Thread |-> 0]
  /\ seen = Thread \union {Word}
  /\ failed = FALSE
  /\ panicking = {}
  /\ guard = {}
  /\ panics = {}

----------------------------------------------------------------------------
(* sys::Mutex *)

RelaxedTakeFree(t) ==
  /\ futex = 0
  /\ futex' = 1
  /\ Goto(t, "guard")
  /\ UNCHANGED <<local, seen>>

StealingTakeFree(t) ==
  /\ futex \in {0, 1}
  /\ futex' = 1
  /\ seen' = Sync(seen, Word, t)
  /\ Goto(t, "guard")
  /\ UNCHANGED local

\* compare_exchange(0, 1, Acquire, Relaxed), when it succeeds.
TakeFree(t) ==
  /\ futex = 0
  /\ futex' = 1
  /\ seen' = Sync(seen, Word, t)
  /\ Goto(t, "guard")
  /\ UNCHANGED local

\* lock(): the fast path, or lock_contended().  try_lock() is the first
\* disjunct, and changes nothing when the word is not 0.
Lock(t) ==
  /\ pc[t] = "idle"
  /\ \/ TakeFree(t)
     \/ futex # 0 /\ Goto(t, "spin") /\ UNCHANGED lockVars
  /\ UNCHANGED poisonVars

\* spin(): of its loads only the last one is used.  Before the loop a free
\* word is tried once more without marking it contended.
Spin(t) ==
  /\ pc[t] \in {"spin", "respin"}
  /\ local' = [local EXCEPT ![t] = futex]
  /\ Goto(t, IF pc[t] = "spin" /\ futex = 0 THEN "cas" ELSE "contend")
  /\ UNCHANGED <<futex, seen, poisonVars>>

TryAfterSpin(t) ==
  /\ pc[t] = "cas"
  /\ \/ TakeFree(t)
     \/ /\ futex # 0
        /\ local' = [local EXCEPT ![t] = futex]
        /\ Goto(t, "contend")
        /\ UNCHANGED <<futex, seen>>
  /\ UNCHANGED poisonVars

ContendTakesOne(t) ==
  /\ pc[t] = "contend"
  /\ IF local[t] = 2
     THEN Goto(t, "wait") /\ UNCHANGED <<futex, seen>>
     ELSE /\ futex' = IF futex = 0 THEN 1 ELSE 2
          /\ seen' = Sync(seen, Word, t)
          /\ Goto(t, IF futex = 0 THEN "guard" ELSE "wait")
  /\ local' = [local EXCEPT ![t] = 0]
  /\ UNCHANGED poisonVars

\* swap(2, Acquire), unless the word was already seen to be 2.
Contend(t) ==
  /\ pc[t] = "contend"
  /\ IF local[t] = 2
     THEN Goto(t, "wait") /\ UNCHANGED <<futex, seen>>
     ELSE /\ futex' = 2
          /\ seen' = Sync(seen, Word, t)
          /\ Goto(t, IF futex = 0 THEN "guard" ELSE "wait")
  /\ local' = [local EXCEPT ![t] = 0]
  /\ UNCHANGED poisonVars

Wait(t) ==
  /\ pc[t] = "wait"
  /\ Goto(t, IF Blocks(futex, 2) THEN "asleep" ELSE "respin")
  /\ UNCHANGED <<lockVars, poisonVars>>

\* The call ends without a wake: spuriously, or by a signal and a retry.
Disturb(t) ==
  /\ pc[t] = "asleep"
  /\ \E l \in {"respin", "wait"} : Goto(t, l)
  /\ UNCHANGED <<lockVars, poisonVars>>

\* unlock(): swap(0, Release), and a wake if the word was 2.
Unlock(t) ==
  /\ pc[t] = "unlock"
  /\ futex' = 0
  /\ seen' = Sync(seen, t, Word)
  /\ Goto(t, IF futex = 2 THEN "wake" ELSE "idle")
  /\ UNCHANGED <<local, poisonVars>>

Wake(t) ==
  /\ pc[t] = "wake"
  /\ \E W \in FutexWake(Sleepers) :
       pc' = [u \in Thread |-> IF u \in W THEN "respin" ELSE IF u = t THEN "idle" ELSE pc[u]]
  /\ UNCHANGED <<lockVars, poisonVars>>

----------------------------------------------------------------------------
(* sync::Mutex: guards and poison *)

\* MutexGuard::new: Flag::guard records whether the thread was panicking
\* already, and lock() returns Err when the flag is set, else Ok.
NewGuard(t) ==
  /\ pc[t] = "guard"
  /\ guard' = IF t \in panicking THEN guard \union {t} ELSE guard \ {t}
  /\ Goto(t, "locked")
  /\ UNCHANGED <<lockVars, failed, panicking, panics>>

\* User code writes the data through the guard.
Write(t) ==
  /\ pc[t] = "locked"
  /\ seen' = Written(t)
  /\ UNCHANGED <<futex, pc, local, poisonVars>>

\* The guard a panic started under is the one a later drop will poison.
Unwinds(t) == pc[t] = "locked" /\ t \in panicking \ guard

\* User code panics.  A second panic of the same thread aborts the process.
Panic(t) ==
  /\ pc[t] \in {"idle", "locked"}
  /\ t \notin panicking
  /\ panicking' = panicking \union {t}
  /\ panics' = IF pc[t] = "locked" THEN panics \union {t} ELSE panics
  /\ UNCHANGED <<lockVars, pc, failed, guard>>

\* catch_unwind: outside the scope of the guard, which has been dropped, or
\* inside it, around the code that panicked.
Catch(t) ==
  /\ t \in panicking
  /\ \/ pc[t] = "idle" /\ UNCHANGED panics
     \/ Unwinds(t) /\ panics' = panics \ {t}
  /\ panicking' = panicking \ {t}
  /\ UNCHANGED <<lockVars, pc, failed, guard>>

\* The guard goes out of scope.
EndGuard(t) ==
  /\ guard' = guard \ {t}
  /\ Goto(t, "unlock")
  /\ UNCHANGED <<lockVars, panicking, panics>>

DropGuardUnpoisoned(t) ==
  /\ pc[t] = "locked"
  /\ failed' = (failed \/ t \in guard)
  /\ EndGuard(t)

\* Drop for MutexGuard: poison.done(), then inner.unlock().
DropGuard(t) ==
  /\ pc[t] = "locked"
  /\ failed' = (failed \/ t \in panicking \ guard)
  /\ EndGuard(t)

\* clear_poison() may be called by anyone at any time; a panic still on its
\* way to its guard is not cleared by it.
ClearPoison ==
  /\ failed
  /\ failed' = FALSE
  /\ panics' = {u \in Thread : Unwinds(u)}
  /\ UNCHANGED <<lockVars, pc, panicking, guard>>

LockStep(t) == Lock(t) \/ Spin(t) \/ TryAfterSpin(t) \/ Contend(t) \/ Wait(t) \/ NewGuard(t)
UnlockStep(t) == DropGuard(t) \/ Unlock(t) \/ Wake(t)
UserStep(t) == Write(t) \/ Panic(t) \/ Catch(t)

Next ==
  \/ \E t \in Thread : LockStep(t) \/ UnlockStep(t) \/ UserStep(t) \/ Disturb(t)
  \/ ClearPoison

Spec == Init /\ [][Next]_vars

\* The scheduler runs every thread that can run, and user code drops the
\* guards it gets; nobody is obliged to call lock().
Fairness ==
  \A t \in Thread : WF_vars((pc[t] # "idle" /\ LockStep(t)) \/ UnlockStep(t))
FairSpec == Spec /\ Fairness

----------------------------------------------------------------------------
(* Properties *)

\* Type invariant: the word takes only its three documented values.
TypeOK ==
  /\ futex \in 0..2
  /\ pc \in [Thread -> PC]
  /\ local \in [Thread -> 0..2]
  /\ seen \subseteq Thread \union {Word}
  /\ failed \in BOOLEAN
  /\ panicking \subseteq Thread /\ guard \subseteq Thread /\ panics \subseteq Thread

\* At most one thread is between a successful lock and its unlock, and the
\* word is 0 exactly when there is none: the CAS, the swap(2) that finds 0
\* and the swap(0) of unlock keep the word and the holder in step.
MutualExclusion ==
  /\ \A t, u \in Thread : pc[t] \in Holding /\ pc[u] \in Holding => t = u
  /\ futex = 0 <=> \A t \in Thread : pc[t] \notin Holding

\* A holder sees every write made under the lock before it, on whichever of
\* the three paths it got the lock; an unlocked word carries the last write.
DataVisible ==
  /\ \A t \in Thread : pc[t] \in Holding => t \in seen
  /\ futex = 0 => Word \in seen

\* No wakeup is lost: while somebody sleeps, the word says so, or a wake is
\* on its way, or a thread in the loop will mark the word or find it marked.
NoLostWakeup ==
  Sleepers # {} =>
    \/ futex = 2
    \/ \E t \in Thread : pc[t] \in Contending \union {"wake"}

\* After a panic left a critical section through its guard, whoever gets the
\* lock next gets Err with it, until clear_poison(): done() stores the flag
\* before unlock lets anybody in.
PoisonReported ==
  \A t \in Thread : pc[t] = "guard" /\ panics # {} => failed

\* Deadlock freedom: while somebody wants the lock, somebody gets it.
SomebodyGetsIn ==
  (\E t \in Thread : pc[t] \in Contending \union {"spin", "cas", "asleep"})
    ~> (\E t \in Thread : pc[t] = "guard")

\* The futex mutex implements the abstract lock: its owner is the thread
\* between the successful access to the word and the swap of unlock.
owner == IF \E t \in Thread : pc[t] \in Holding
         THEN CHOOSE t \in Thread : pc[t] \in Holding
         ELSE Word
AL == INSTANCE AbstractLock WITH NoThread <- Word
ImplementsLock == AL!Spec
=============================================================================
