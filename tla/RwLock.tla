------------------------------- MODULE RwLock -------------------------------
(***************************************************************************)
(* std::sync::RwLock on a futex: sys/unix/locks/futex_rwlock.rs.           *)
(*                                                                         *)
(* The 32-bit word is a record: the 30-bit counter cnt, which is Mask when *)
(* write-locked, and the two waiting bits.  A load followed by a CAS that  *)
(* is retried when it fails is one step at the moment the CAS succeeds.    *)
(* What is not retried, and every load whose value is used by a futex_wait *)
(* or by wake_writer_or_readers, is a step of its own.  pc[t]:             *)
(*   idle     outside                  reading  holds a read lock          *)
(*   r_loop   loop of read_contended   writing  holds the write lock       *)
(*   r_wait   futex_wait on the word   w_loop   loop of write_contended    *)
(*   r_sleep  asleep on the word       w_seq    load writer_notify         *)
(*   w_check  second load of the word  w_wait   futex_wait on the counter  *)
(*   w_sleep  asleep on the counter                                        *)
(*   k_w, k_rw, k_r  the three CASes of wake_writer_or_readers             *)
(*   f_r        futex_wake_all of the readers                              *)
(*   n_w, n_rw  fetch_add of wake_writer, f_w, f_rw  its futex_wake        *)
(***************************************************************************)
EXTENDS Futex, FiniteSets

CONSTANTS
  Thread,             \* the threads that share the lock
  Mask                \* the largest value of the counter: WRITE_LOCKED

ASSUME RwLockAssumption == Mask \in Nat /\ Mask > 1

VARIABLES
  state,              \* the word
  pc,
  local,              \* the variable "state" of the thread's current function
  current,            \* threads whose "seq" still equals writer_notify
  queued,             \* threads with other_writers_waiting set
  seen                \* who has seen the latest write of the data

vars == <<state, pc, local, current, queued, seen>>

Word == "state"
ASSUME WordIsNoThread == Word \notin Thread

MAX_READERS == Mask - 1
Unlocked(s) == s.cnt = 0
ReadLockable(s) == s.cnt < MAX_READERS /\ ~s.rw /\ ~s.ww
Free == [cnt |-> 0, rw |-> FALSE, ww |-> FALSE]
OnlyWriters == [Free EXCEPT !.ww = TRUE]
OnlyReaders == [Free EXCEPT !.rw = TRUE]
Both == [Free EXCEPT !.rw = TRUE, !.ww = TRUE]

Waiting == {"r_loop", "r_wait", "r_sleep", "w_loop", "w_seq", "w_check", "w_wait", "w_sleep"}
Waking == {"k_w", "k_rw", "k_r", "n_w", "n_rw", "f_w", "f_rw", "f_r"}
PC == {"idle", "reading", "writing"} \union Waiting \union Waking
Words == [cnt : 0..Mask, rw : BOOLEAN, ww : BOOLEAN]

Goto(t, l) == pc' = [pc EXCEPT ![t] = l]
At(l) == {t \in Thread : pc[t] = l}

\* The local copy of the word goes out of scope.
Forget(t) == local' = [local EXCEPT ![t] = Free]
Keep(t, s) == local' = [local EXCEPT ![t] = s]

Init ==
  /\ state = Free
  /\ pc = [t \in Thread |-> "idle"]
  /\ local = [t \in Thread |-> Free]
  /\ current = {}
  /\ queued = {}
  /\ seen = Thread \union {Word}

----------------------------------------------------------------------------
(* Readers *)

ReadAcquireAny(t) ==
  /\ state.cnt < Mask /\ ~state.rw /\ ~state.ww
  /\ state' = [state EXCEPT !.cnt = @ + 1]
  /\ seen' = Sync(seen, Word, t)
  /\ Goto(t, "reading")
  /\ UNCHANGED <<local, current, queued>>

ReadAcquireJumpingQueue(t) ==
  /\ state.cnt < MAX_READERS /\ ~state.ww
  /\ state' = [state EXCEPT !.cnt = @ + 1]
  /\ seen' = Sync(seen, Word, t)
  /\ Goto(t, "reading")
  /\ UNCHANGED <<local, current, queued>>

\* The successful CAS of read(), try_read() and read_contended().
ReadAcquire(t) ==
  /\ ReadLockable(state)
  /\ state' = [state EXCEPT !.cnt = @ + 1]
  /\ seen' = Sync(seen, Word, t)
  /\ Goto(t, "reading")
  /\ UNCHANGED <<local, current, queued>>

\* read(): the CAS is weak, so it may fail even on a lockable word.
Read(t) ==
  /\ pc[t] = "idle"
  /\ \/ ReadAcquire(t)
     \/ Goto(t, "r_loop") /\ UNCHANGED <<state, local, current, queued, seen>>

\* The loop of read_contended(): lock; or panic at the maximum; or make sure
\* that READERS_WAITING is set and go to sleep on the word that has it.
ReadContended(t) ==
  /\ pc[t] = "r_loop"
  /\ \/ ReadAcquire(t)
     \/ /\ ~ReadLockable(state)
        /\ state.cnt = MAX_READERS
        /\ Goto(t, "idle")
        /\ UNCHANGED <<state, local, current, queued, seen>>
     \/ /\ ~ReadLockable(state)
        /\ state.cnt # MAX_READERS
        /\ state' = [state EXCEPT !.rw = TRUE]
        /\ Keep(t, state')
        /\ Goto(t, "r_wait")
        /\ UNCHANGED <<current, queued, seen>>

ReadWait(t) ==
  /\ pc[t] = "r_wait"
  /\ \/ Blocks(state, local[t]) /\ Goto(t, "r_sleep") /\ UNCHANGED local
     \/ ~Blocks(state, local[t]) /\ Goto(t, "r_loop") /\ Forget(t)
  /\ UNCHANGED <<state, current, queued, seen>>

\* After an unlock leaves s: wake somebody if the bits say so, or return.
AfterUnlock(t, s, wakes) ==
  /\ Keep(t, IF wakes THEN s ELSE Free)
  /\ Goto(t, IF wakes THEN "k_w" ELSE "idle")

ReadUnlock(t) ==
  /\ pc[t] = "reading"
  /\ state' = [state EXCEPT !.cnt = @ - 1]
  /\ seen' = Sync(seen, t, Word)
  /\ AfterUnlock(t, state', Unlocked(state') /\ state'.ww)
  /\ UNCHANGED <<current, queued>>

----------------------------------------------------------------------------
(* Writers *)

\* The successful CAS of write(), try_write() and write_contended().
WriteAcquire(t) ==
  /\ Unlocked(state)
  /\ state' = [state EXCEPT !.cnt = Mask, !.ww = @ \/ t \in queued]
  /\ seen' = Sync(seen, Word, t)
  /\ queued' = queued \ {t}
  /\ Goto(t, "writing")
  /\ UNCHANGED <<local, current>>

\* write() and try_write(): try_write() ignores the waiting bits.
WriteCall(t) ==
  /\ pc[t] = "idle"
  /\ \/ WriteAcquire(t)
     \/ Goto(t, "w_loop") /\ UNCHANGED <<state, local, current, queued, seen>>

\* The loop of write_contended(): lock, or set WRITERS_WAITING and remember
\* that other writers may be waiting from now on.
WriteContended(t) ==
  /\ pc[t] = "w_loop"
  /\ \/ WriteAcquire(t)
     \/ /\ ~Unlocked(state)
        /\ state' = [state EXCEPT !.ww = TRUE]
        /\ queued' = queued \union {t}
        /\ Goto(t, "w_seq")
        /\ UNCHANGED <<local, current, seen>>

LoadSeq(t) ==
  /\ pc[t] = "w_seq"
  /\ current' = current \union {t}
  /\ Goto(t, "w_check")
  /\ UNCHANGED <<state, local, queued, seen>>

\* Sleep only if the lock is still taken and the bit still set.
WriteCheck(t) ==
  /\ pc[t] = "w_check"
  /\ IF Unlocked(state) \/ ~state.ww
     THEN Goto(t, "w_loop") /\ current' = current \ {t}
     ELSE Goto(t, "w_wait") /\ UNCHANGED current
  /\ UNCHANGED <<state, local, queued, seen>>

WriteWait(t) ==
  /\ pc[t] = "w_wait"
  /\ Goto(t, IF t \in current THEN "w_sleep" ELSE "w_loop")
  /\ UNCHANGED <<state, local, current, queued, seen>>

\* User code writes the data.
WriteData(t) ==
  /\ pc[t] = "writing"
  /\ seen' = Written(t)
  /\ UNCHANGED <<state, pc, local, current, queued>>

RelaxedWriteUnlock(t) ==
  /\ pc[t] = "writing"
  /\ state' = [state EXCEPT !.cnt = 0]
  /\ AfterUnlock(t, state', state'.ww \/ state'.rw)
  /\ UNCHANGED <<current, queued, seen>>

WriteUnlock(t) ==
  /\ pc[t] = "writing"
  /\ state' = [state EXCEPT !.cnt = 0]
  /\ seen' = Sync(seen, t, Word)
  /\ AfterUnlock(t, state', state'.ww \/ state'.rw)
  /\ UNCHANGED <<current, queued>>

----------------------------------------------------------------------------
(* wake_writer_or_readers, with local[t] its variable "state" *)

\* Only writers wait: clear the bit and wake one of them.
WakeOnlyWriters(t) ==
  /\ pc[t] = "k_w"
  /\ \/ /\ local[t] = OnlyWriters /\ state = local[t]
        /\ state' = Free
        /\ Goto(t, "n_w") /\ Forget(t)
     \/ /\ local[t] = OnlyWriters /\ state # local[t]
        /\ Goto(t, "k_rw") /\ Keep(t, state) /\ UNCHANGED state
     \/ /\ local[t] # OnlyWriters
        /\ Goto(t, "k_rw") /\ UNCHANGED <<state, local>>
  /\ UNCHANGED <<current, queued, seen>>

\* Both wait: leave the readers waiting and wake one writer.
WakeWriterFirst(t) ==
  /\ pc[t] = "k_rw"
  /\ \/ /\ local[t] = Both /\ state = Both
        /\ state' = OnlyReaders
        /\ Goto(t, "n_rw") /\ Forget(t)
     \/ /\ local[t] = Both /\ state # Both
        /\ Goto(t, "idle") /\ Forget(t) /\ UNCHANGED state
     \/ /\ local[t] # Both
        /\ Goto(t, "k_r") /\ UNCHANGED <<state, local>>
  /\ UNCHANGED <<current, queued, seen>>

\* Readers wait: clear the bit and wake all of them.
ClearReaders(t) ==
  /\ pc[t] = "k_r"
  /\ IF local[t] = OnlyReaders /\ state = OnlyReaders
     THEN state' = Free /\ Goto(t, "f_r")
     ELSE UNCHANGED state /\ Goto(t, "idle")
  /\ Forget(t)
  /\ UNCHANGED <<current, queued, seen>>

WakeReaders(t) ==
  /\ pc[t] = "f_r"
  /\ \E W \in FutexWakeAll(At("r_sleep")) :
       /\ pc' = [u \in Thread |-> IF u \in W THEN "r_loop" ELSE IF u = t THEN "idle" ELSE pc[u]]
       /\ local' = [u \in Thread |-> IF u \in W THEN Free ELSE local[u]]
  /\ UNCHANGED <<state, current, queued, seen>>

\* wake_writer(): writer_notify.fetch_add(1), then futex_wake.
NotifyWriter(t) ==
  /\ pc[t] \in {"n_w", "n_rw"}
  /\ current' = {}
  /\ Goto(t, IF pc[t] = "n_w" THEN "f_w" ELSE "f_rw")
  /\ UNCHANGED <<state, local, queued, seen>>

WakeWriterAlways(t) ==
  /\ pc[t] \in {"f_w", "f_rw"}
  /\ \E W \in FutexWake(At("w_sleep")) :
       /\ pc' = [u \in Thread |-> IF u \in W THEN "w_loop" ELSE IF u = t THEN "idle" ELSE pc[u]]
       /\ current' = current \ W
  /\ UNCHANGED <<state, local, queued, seen>>

\* In the second case the readers are woken too, unless futex_wake says that
\* it woke a writer, which it does not do on every system.
WakeWriter(t) ==
  /\ pc[t] \in {"f_w", "f_rw"}
  /\ \E W \in FutexWake(At("w_sleep")), reports \in BOOLEAN :
       LET done == pc[t] = "f_w" \/ (reports /\ W # {})
       IN  /\ pc' = [u \in Thread |-> IF u \in W THEN "w_loop"
                                      ELSE IF u # t THEN pc[u]
                                      ELSE IF done THEN "idle" ELSE "k_r"]
           /\ Keep(t, IF done THEN Free ELSE OnlyReaders)
           /\ current' = current \ W
  /\ UNCHANGED <<state, queued, seen>>

\* A futex_wait ends without a wake: spuriously, or by a signal, after which
\* the wrapper compares the word again.
Disturb(t) ==
  /\ \/ pc[t] = "r_sleep" /\ Goto(t, "r_loop") /\ Forget(t) /\ UNCHANGED current
     \/ pc[t] = "r_sleep" /\ Goto(t, "r_wait") /\ UNCHANGED <<local, current>>
     \/ pc[t] = "w_sleep" /\ Goto(t, "w_loop") /\ current' = current \ {t} /\ UNCHANGED local
     \/ pc[t] = "w_sleep" /\ Goto(t, "w_wait") /\ UNCHANGED <<local, current>>
  /\ UNCHANGED <<state, queued, seen>>

LockStep(t) ==
  \/ ReadContended(t) \/ ReadWait(t)
  \/ WriteContended(t) \/ LoadSeq(t) \/ WriteCheck(t) \/ WriteWait(t)
UnlockStep(t) ==
  \/ ReadUnlock(t) \/ WriteUnlock(t)
  \/ WakeOnlyWriters(t) \/ WakeWriterFirst(t) \/ ClearReaders(t) \/ WakeReaders(t)
  \/ NotifyWriter(t) \/ WakeWriter(t)

Next == \E t \in Thread :
  \/ Read(t) \/ WriteCall(t) \/ WriteData(t) \/ Disturb(t)
  \/ LockStep(t) \/ UnlockStep(t)

Spec == Init /\ [][Next]_vars

\* The scheduler runs every thread that can run, and user code drops its
\* guards; nobody is obliged to call read() or write().
FairSpec == Spec /\ \A t \in Thread : WF_vars(LockStep(t) \/ UnlockStep(t))

----------------------------------------------------------------------------
(* Properties *)

\* Type invariant: the counter never leaves its 30 bits.
TypeOK ==
  /\ state \in Words
  /\ pc \in [Thread -> PC]
  /\ local \in [Thread -> Words]
  /\ current \subseteq Thread /\ queued \subseteq Thread
  /\ seen \subseteq Thread \union {Word}

\* The word counts the holders exactly, so a writer excludes everybody and no
\* number of readers is mistaken for a writer.
Exclusion ==
  /\ At("writing") # {} => state.cnt = Mask /\ Cardinality(At("writing")) = 1
  /\ At("writing") = {} => state.cnt = Cardinality(At("reading"))
  /\ state.cnt = Mask => At("reading") = {}

\* A holder sees every write made under the lock before it.
DataVisible == \A t \in Thread : pc[t] \in {"reading", "writing"} => t \in seen

\* The debug assertion of read_unlock: no reader waits on a lock held by
\* readers, except when a writer waits too.
ReadersWaitOnlyForWriters ==
  At("reading") # {} /\ state.rw => state.ww

\* Deadlock freedom: a lock that is free while somebody waits is taken again,
\* also when futex_wake does not tell whether it woke a writer.
SomebodyEnters ==
  At("reading") \union At("writing") = {} /\ (\E t \in Thread : pc[t] \in Waiting)
    ~> At("reading") \union At("writing") # {}
=============================================================================
