---------------------------- MODULE RwLockProofs ----------------------------
(***************************************************************************)
(* Proofs about RwLock, for every set of threads, finite or not, and every *)
(* width of the counter.                                                   *)
(***************************************************************************)
EXTENDS RwLock, FiniteSetTheorems, TLAPS

Readers == At("reading")
Writers == At("writing")

\* The counter says who holds the lock.
Held ==
  /\ IsFiniteSet(Readers)
  /\ state.cnt = Mask <=> Writers # {}
  /\ Writers # {} => Readers = {}
  /\ \A t, u \in Writers : t = u
  /\ Writers = {} => state.cnt = Cardinality(Readers)

\* While nobody writes the word carries the latest data.
WordCarries == Writers = {} => Word \in seen

\* The inductive invariant.
IInv == TypeOK /\ Held /\ WordCarries /\ DataVisible /\ ReadersWaitOnlyForWriters

\* The word is a record of the counter and the two bits.
LEMMA WordFields ==
  ASSUME NEW s \in Words
  PROVE  /\ s.cnt \in 0..Mask /\ s.rw \in BOOLEAN /\ s.ww \in BOOLEAN
         /\ \A n \in 0..Mask : [s EXCEPT !.cnt = n] \in Words
         /\ [s EXCEPT !.rw = TRUE] \in Words /\ [s EXCEPT !.ww = TRUE] \in Words
         /\ \A n \in 0..Mask, b \in BOOLEAN : [s EXCEPT !.cnt = n, !.ww = b] \in Words
BY DEF Words

\* The words the code uses as constants.
LEMMA ConstantWords ==
  /\ Free \in Words /\ OnlyWriters \in Words /\ OnlyReaders \in Words /\ Both \in Words
  /\ Free.cnt = 0 /\ OnlyWriters.cnt = 0 /\ OnlyReaders.cnt = 0 /\ Both.cnt = 0
<1>1. Free \in Words /\ Free.cnt = 0
  BY RwLockAssumption DEF Words, Free
<1>2. OnlyWriters \in Words /\ OnlyReaders \in Words
  BY <1>1, WordFields DEF OnlyWriters, OnlyReaders
<1>3. Both = [OnlyReaders EXCEPT !.ww = TRUE]
  BY DEF Both, OnlyReaders
<1>4. Both \in Words
  BY <1>2, <1>3, WordFields
<1> QED BY <1>1, <1>2, <1>3, <1>4 DEF OnlyWriters, OnlyReaders, Words

\* A counter of zero means that nobody holds the lock.
LEMMA ZeroMeansFree == IInv /\ state.cnt = 0 => Readers = {} /\ Writers = {}
BY RwLockAssumption, FS_EmptySet DEF IInv, Held

\* A step of which no holder and no data takes notice.
LEMMA NoHolderMoves ==
  ASSUME IInv, TypeOK', Readers' = Readers, Writers' = Writers, seen' = seen,
         state'.cnt = state.cnt, ReadersWaitOnlyForWriters'
  PROVE  IInv'
<1>1. Held'
  BY DEF IInv, Held
<1>2. WordCarries' /\ DataVisible'
  BY DEF IInv, WordCarries, DataVisible, Readers, Writers, At
<1> QED BY <1>1, <1>2 DEF IInv

\* One more reader.
LEMMA ReadAcquireInv ==
  ASSUME IInv, NEW t \in Thread, pc[t] \in {"idle", "r_loop"}, ReadAcquire(t)
  PROVE  IInv'
<1>1. /\ state.cnt < Mask - 1 /\ state.cnt \in 0..Mask /\ ~state.rw /\ ~state.ww
      /\ state' = [state EXCEPT !.cnt = state.cnt + 1]
      /\ state'.cnt = state.cnt + 1 /\ ~state'.rw /\ ~state'.ww
  BY WordFields DEF IInv, TypeOK, ReadAcquire, ReadLockable, MAX_READERS, Words
<1>2. Writers = {} /\ Word \in seen /\ seen' = seen \union {t}
  BY <1>1, RwLockAssumption DEF IInv, Held, WordCarries, ReadAcquire, Sync
<1>3. Readers' = Readers \union {t} /\ t \notin Readers /\ Writers' = {}
  BY <1>2 DEF IInv, TypeOK, Readers, Writers, At, ReadAcquire, Goto
<1>4. IsFiniteSet(Readers') /\ Cardinality(Readers') = state.cnt + 1
  BY <1>2, <1>3, FS_AddElement DEF IInv, Held
<1>5. TypeOK'
  <2>1. state' \in Words
    BY <1>1, RwLockAssumption DEF IInv, TypeOK, Words
  <2> QED BY <1>2, <2>1 DEF IInv, TypeOK, ReadAcquire, Goto, PC
<1>6. Held'
  BY <1>1, <1>3, <1>4, RwLockAssumption DEF Held
<1>7. WordCarries' /\ DataVisible'
  BY <1>2, <1>3 DEF IInv, WordCarries, DataVisible, Readers, Writers, At
<1>8. ReadersWaitOnlyForWriters'
  BY <1>1 DEF ReadersWaitOnlyForWriters
<1> QED BY <1>5, <1>6, <1>7, <1>8 DEF IInv

\* One reader less.
LEMMA ReadUnlockInv ==
  ASSUME IInv, NEW t \in Thread, ReadUnlock(t)
  PROVE  IInv'
<1>1. t \in Readers /\ Writers = {} /\ t \in seen
  BY DEF IInv, Held, DataVisible, Readers, Writers, At, ReadUnlock
<1>2. Cardinality(Readers) \in Nat /\ state.cnt = Cardinality(Readers) /\ state.cnt # 0
  BY <1>1, FS_CardinalityType, FS_EmptySet DEF IInv, Held
<1>3. /\ state' = [state EXCEPT !.cnt = state.cnt - 1] /\ state' \in Words
      /\ state'.cnt = state.cnt - 1 /\ state'.rw = state.rw /\ state'.ww = state.ww
  BY <1>2, RwLockAssumption DEF IInv, TypeOK, ReadUnlock, Words
<1>4. pc'[t] \in {"k_w", "idle"} /\ pc' = [pc EXCEPT ![t] = pc'[t]]
  BY DEF IInv, TypeOK, ReadUnlock, AfterUnlock, Goto
<1>5. Readers' = Readers \ {t} /\ Writers' = {}
  BY <1>1, <1>4 DEF IInv, TypeOK, Readers, Writers, At
<1>6. IsFiniteSet(Readers') /\ Cardinality(Readers') = state.cnt - 1
  BY <1>1, <1>2, <1>5, FS_RemoveElement DEF IInv, Held
<1>7. seen' = seen \union {Word}
  BY <1>1 DEF ReadUnlock, Sync
<1>8. TypeOK'
  <2>1. local' \in [Thread -> Words]
    BY <1>3, ConstantWords DEF IInv, TypeOK, ReadUnlock, AfterUnlock, Keep
  <2> QED BY <1>3, <1>4, <1>7, <2>1 DEF IInv, TypeOK, ReadUnlock, PC, Waking
<1>9. Held'
  BY <1>2, <1>3, <1>5, <1>6, RwLockAssumption DEF Held, IInv, TypeOK, Words
<1>10. WordCarries' /\ DataVisible'
  BY <1>4, <1>7 DEF IInv, TypeOK, WordCarries, DataVisible
<1>11. ReadersWaitOnlyForWriters'
  BY <1>3, <1>5 DEF IInv, ReadersWaitOnlyForWriters, Readers
<1> QED BY <1>8, <1>9, <1>10, <1>11 DEF IInv

\* A writer enters an unlocked lock.
LEMMA WriteAcquireInv ==
  ASSUME IInv, NEW t \in Thread, pc[t] \in {"idle", "w_loop"}, WriteAcquire(t)
  PROVE  IInv'
<1>1. Readers = {} /\ Writers = {} /\ Word \in seen /\ seen' = seen \union {t}
  BY ZeroMeansFree DEF IInv, WriteAcquire, Unlocked, WordCarries, Sync
<1>2. state' \in Words /\ state'.cnt = Mask
  <2> DEFINE b == state.ww \/ t \in queued
  <2>1. state' = [state EXCEPT !.cnt = Mask, !.ww = b] /\ b \in BOOLEAN
    BY DEF WriteAcquire
  <2>2. state \in Words /\ Mask \in 0..Mask
    BY RwLockAssumption DEF IInv, TypeOK
  <2> HIDE DEF b
  <2>3. state' \in Words
    BY <2>1, <2>2, WordFields
  <2> QED BY <2>1, <2>2, <2>3 DEF Words
<1>3. Readers' = {} /\ Writers' = {t}
  BY <1>1 DEF IInv, TypeOK, Readers, Writers, At, WriteAcquire, Goto
<1>4. TypeOK'
  BY <1>1, <1>2 DEF IInv, TypeOK, WriteAcquire, Goto, PC
<1>5. Held'
  BY <1>2, <1>3, FS_EmptySet DEF Held
<1>6. WordCarries' /\ DataVisible'
  BY <1>1, <1>3 DEF IInv, WordCarries, DataVisible, Readers, Writers, At
<1>7. ReadersWaitOnlyForWriters'
  BY <1>3 DEF ReadersWaitOnlyForWriters, Readers
<1> QED BY <1>4, <1>5, <1>6, <1>7 DEF IInv

\* The writer leaves, and hands its view to the word.
LEMMA WriteUnlockInv ==
  ASSUME IInv, NEW t \in Thread, WriteUnlock(t)
  PROVE  IInv'
<1>1. Writers = {t} /\ Readers = {} /\ t \in seen
  BY DEF IInv, Held, DataVisible, Readers, Writers, At, WriteUnlock
<1>2. state' \in Words /\ state'.cnt = 0
  BY RwLockAssumption DEF IInv, TypeOK, WriteUnlock, Words
<1>3. pc'[t] \in {"k_w", "idle"} /\ pc' = [pc EXCEPT ![t] = pc'[t]]
  BY DEF IInv, TypeOK, WriteUnlock, AfterUnlock, Goto
<1>4. Readers' = {} /\ Writers' = {}
  BY <1>1, <1>3 DEF IInv, TypeOK, Readers, Writers, At
<1>5. seen' = seen \union {Word}
  BY <1>1 DEF WriteUnlock, Sync
<1>6. TypeOK'
  <2>1. local' \in [Thread -> Words]
    BY <1>2, ConstantWords DEF IInv, TypeOK, WriteUnlock, AfterUnlock, Keep
  <2> QED BY <1>2, <1>3, <1>5, <2>1 DEF IInv, TypeOK, WriteUnlock, PC, Waking
<1>7. Held'
  BY <1>2, <1>4, FS_EmptySet, RwLockAssumption DEF Held
<1>8. WordCarries' /\ DataVisible'
  BY <1>4, <1>5 DEF WordCarries, DataVisible, Readers, Writers, At
<1>9. ReadersWaitOnlyForWriters'
  BY <1>4 DEF ReadersWaitOnlyForWriters, Readers
<1> QED BY <1>6, <1>7, <1>8, <1>9 DEF IInv

\* The data is written while nobody reads it.
LEMMA WriteDataInv ==
  ASSUME IInv, NEW t \in Thread, WriteData(t)
  PROVE  IInv'
<1>1. Writers = {t} /\ Readers = {}
  BY DEF IInv, Held, Readers, Writers, At, WriteData
<1>2. Writers' = Writers /\ Readers' = Readers /\ seen' = {t} /\ state' = state
  BY DEF WriteData, Readers, Writers, At, Written
<1>3. TypeOK' /\ Held'
  BY <1>2 DEF IInv, TypeOK, Held, WriteData
<1>4. WordCarries' /\ DataVisible' /\ ReadersWaitOnlyForWriters'
  BY <1>1, <1>2 DEF WordCarries, DataVisible, ReadersWaitOnlyForWriters, Readers, Writers, At
<1> QED BY <1>3, <1>4 DEF IInv

\* A reader that cannot lock sets its bit: the lock is held by a writer, or
\* there are bits already, and then a writer waits if readers hold it.
LEMMA ReadQueuesInv ==
  ASSUME IInv, NEW t \in Thread, pc[t] = "r_loop", ~ReadLockable(state), state.cnt # MAX_READERS,
         state' = [state EXCEPT !.rw = TRUE], Keep(t, state'), Goto(t, "r_wait"),
         UNCHANGED <<current, queued, seen>>
  PROVE  IInv'
<1>1. /\ state' \in Words /\ state'.cnt = state.cnt /\ state'.rw /\ state'.ww = state.ww
      /\ state.cnt \in 0..Mask
  BY DEF IInv, TypeOK, Words
<1>2. Readers' = Readers /\ Writers' = Writers
  BY DEF IInv, TypeOK, Readers, Writers, At, Goto
<1>3. TypeOK'
  BY <1>1 DEF IInv, TypeOK, Keep, Goto, PC, Waiting
<1>4. state.cnt = Mask \/ state.rw \/ state.ww
  BY <1>1, RwLockAssumption DEF ReadLockable, MAX_READERS
<1>5. state.cnt = Mask => Readers = {}
  BY DEF IInv, Held
<1>6. ReadersWaitOnlyForWriters'
  BY <1>1, <1>2, <1>4, <1>5 DEF IInv, ReadersWaitOnlyForWriters, Readers
<1> QED BY <1>1, <1>2, <1>3, <1>6, NoHolderMoves

\* A writer that cannot lock sets its bit.
LEMMA WriteQueuesInv ==
  ASSUME IInv, NEW t \in Thread, pc[t] = "w_loop", state' = [state EXCEPT !.ww = TRUE],
         queued' = queued \union {t}, Goto(t, "w_seq"), UNCHANGED <<local, current, seen>>
  PROVE  IInv'
<1>1. state' \in Words /\ state'.cnt = state.cnt /\ state'.ww
  BY DEF IInv, TypeOK, Words
<1>2. Readers' = Readers /\ Writers' = Writers
  BY DEF IInv, TypeOK, Readers, Writers, At, Goto
<1>3. TypeOK'
  BY <1>1 DEF IInv, TypeOK, Goto, PC, Waiting
<1>4. ReadersWaitOnlyForWriters'
  BY <1>1 DEF ReadersWaitOnlyForWriters
<1> QED BY <1>1, <1>2, <1>3, <1>4, NoHolderMoves

\* The steps of waiting and waking that leave the word alone.
LEMMA WordUntouched ==
  ASSUME IInv, UNCHANGED <<state, seen>>, TypeOK',
         \A t \in Thread : pc'[t] # pc[t] =>
           {pc[t], pc'[t]} \cap {"reading", "writing"} = {}
  PROVE  IInv'
<1>1. Readers' = Readers /\ Writers' = Writers
  BY DEF Readers, Writers, At
<1>2. ReadersWaitOnlyForWriters'
  BY <1>1 DEF IInv, ReadersWaitOnlyForWriters, Readers
<1> QED BY <1>1, <1>2, NoHolderMoves

\* wake_writer_or_readers clears bits of an unlocked word.
LEMMA BitsClearedInv ==
  ASSUME IInv, NEW t \in Thread, pc[t] \in {"k_w", "k_rw", "k_r"}, state.cnt = 0,
         state' \in {Free, OnlyReaders}, NEW l \in {"n_w", "n_rw", "f_r"}, Goto(t, l),
         Forget(t), UNCHANGED <<current, queued, seen>>
  PROVE  IInv'
<1>1. state' \in Words /\ state'.cnt = 0
  BY ConstantWords
<1>2. Readers' = Readers /\ Writers' = Writers
  BY DEF IInv, TypeOK, Readers, Writers, At, Goto
<1>3. TypeOK'
  BY <1>1, ConstantWords DEF IInv, TypeOK, Goto, Forget, PC, Waking
<1>4. ReadersWaitOnlyForWriters'
  BY <1>2, ZeroMeansFree DEF ReadersWaitOnlyForWriters, Readers
<1> QED BY <1>1, <1>2, <1>3, <1>4, NoHolderMoves

\* Every action keeps the invariant.
LEMMA InvInductive == IInv /\ [Next]_vars => IInv'
<1> SUFFICES ASSUME IInv, [Next]_vars PROVE IInv'
  OBVIOUS
<1> USE ConstantWords DEF PC, Waiting, Waking
<1>1. ASSUME NEW t \in Thread, Read(t) PROVE IInv'
  <2>1. CASE ReadAcquire(t)
    BY <1>1, <2>1, ReadAcquireInv DEF Read
  <2>2. CASE Goto(t, "r_loop") /\ UNCHANGED <<state, local, current, queued, seen>>
    BY <1>1, <2>2, WordUntouched DEF Read, Goto, IInv, TypeOK
  <2> QED BY <1>1, <2>1, <2>2 DEF Read
<1>2. ASSUME NEW t \in Thread, ReadContended(t) PROVE IInv'
  <2>1. CASE ReadAcquire(t)
    BY <1>2, <2>1, ReadAcquireInv DEF ReadContended
  <2>2. CASE Goto(t, "idle") /\ UNCHANGED <<state, local, current, queued, seen>>
    BY <1>2, <2>2, WordUntouched DEF ReadContended, Goto, IInv, TypeOK
  <2>3. CASE /\ ~ReadLockable(state) /\ state.cnt # MAX_READERS
             /\ state' = [state EXCEPT !.rw = TRUE] /\ Keep(t, state') /\ Goto(t, "r_wait")
             /\ UNCHANGED <<current, queued, seen>>
    BY <1>2, <2>3, ReadQueuesInv DEF ReadContended
  <2> QED BY <1>2, <2>1, <2>2, <2>3 DEF ReadContended
<1>3. ASSUME NEW t \in Thread, ReadWait(t) PROVE IInv'
  BY <1>3, WordUntouched DEF ReadWait, Goto, Forget, IInv, TypeOK
<1>4. ASSUME NEW t \in Thread, WriteCall(t) PROVE IInv'
  <2>1. CASE WriteAcquire(t)
    BY <1>4, <2>1, WriteAcquireInv DEF WriteCall
  <2>2. CASE Goto(t, "w_loop") /\ UNCHANGED <<state, local, current, queued, seen>>
    BY <1>4, <2>2, WordUntouched DEF WriteCall, Goto, IInv, TypeOK
  <2> QED BY <1>4, <2>1, <2>2 DEF WriteCall
<1>5. ASSUME NEW t \in Thread, WriteContended(t) PROVE IInv'
  <2>1. CASE WriteAcquire(t)
    BY <1>5, <2>1, WriteAcquireInv DEF WriteContended
  <2>2. CASE ~WriteAcquire(t)
    BY <1>5, <2>2, WriteQueuesInv DEF WriteContended
  <2> QED BY <2>1, <2>2
<1>6. ASSUME NEW t \in Thread, LoadSeq(t) PROVE IInv'
  BY <1>6, WordUntouched DEF LoadSeq, Goto, IInv, TypeOK
<1>7. ASSUME NEW t \in Thread, WriteCheck(t) PROVE IInv'
  BY <1>7, WordUntouched DEF WriteCheck, Goto, IInv, TypeOK
<1>8. ASSUME NEW t \in Thread, WriteWait(t) PROVE IInv'
  BY <1>8, WordUntouched DEF WriteWait, Goto, IInv, TypeOK
<1>9. ASSUME NEW t \in Thread, WakeOnlyWriters(t) PROVE IInv'
  <2>1. CASE local[t] = OnlyWriters /\ state = local[t]
    BY <1>9, <2>1, BitsClearedInv DEF WakeOnlyWriters
  <2>2. CASE ~(local[t] = OnlyWriters /\ state = local[t])
    BY <1>9, <2>2, WordUntouched DEF WakeOnlyWriters, Goto, Keep, IInv, TypeOK
  <2> QED BY <2>1, <2>2
<1>10. ASSUME NEW t \in Thread, WakeWriterFirst(t) PROVE IInv'
  <2>1. CASE local[t] = Both /\ state = Both
    BY <1>10, <2>1, BitsClearedInv DEF WakeWriterFirst
  <2>2. CASE ~(local[t] = Both /\ state = Both)
    BY <1>10, <2>2, WordUntouched DEF WakeWriterFirst, Goto, Forget, IInv, TypeOK
  <2> QED BY <2>1, <2>2
<1>11. ASSUME NEW t \in Thread, ClearReaders(t) PROVE IInv'
  <2>1. CASE local[t] = OnlyReaders /\ state = OnlyReaders
    BY <1>11, <2>1, BitsClearedInv DEF ClearReaders
  <2>2. CASE ~(local[t] = OnlyReaders /\ state = OnlyReaders)
    BY <1>11, <2>2, WordUntouched DEF ClearReaders, Goto, Forget, IInv, TypeOK
  <2> QED BY <2>1, <2>2
<1>12. ASSUME NEW t \in Thread, WakeReaders(t) PROVE IInv'
  BY <1>12, WordUntouched DEF WakeReaders, FutexWakeAll, At, IInv, TypeOK
<1>13. ASSUME NEW t \in Thread, NotifyWriter(t) PROVE IInv'
  BY <1>13, WordUntouched DEF NotifyWriter, Goto, IInv, TypeOK
<1>14. ASSUME NEW t \in Thread, WakeWriter(t) PROVE IInv'
  <2>1. PICK W \in FutexWake(At("w_sleep")), reports \in BOOLEAN :
          LET done == pc[t] = "f_w" \/ (reports /\ W # {})
          IN  /\ pc' = [u \in Thread |-> IF u \in W THEN "w_loop"
                                         ELSE IF u # t THEN pc[u]
                                         ELSE IF done THEN "idle" ELSE "k_r"]
              /\ Keep(t, IF done THEN Free ELSE OnlyReaders)
              /\ current' = current \ W
    BY <1>14 DEF WakeWriter
  <2>2. \A u \in W : u \in Thread /\ pc[u] = "w_sleep"
    BY DEF FutexWake, At
  <2>3. pc[t] \in {"f_w", "f_rw"} /\ UNCHANGED <<state, queued, seen>>
    BY <1>14 DEF WakeWriter
  <2>4. TypeOK'
    BY <2>1, <2>3 DEF IInv, TypeOK, Keep
  <2> QED BY <2>1, <2>2, <2>3, <2>4, WordUntouched
<1>15. ASSUME NEW t \in Thread, Disturb(t) PROVE IInv'
  BY <1>15, WordUntouched DEF Disturb, Goto, Forget, IInv, TypeOK
<1>16. CASE UNCHANGED vars
  BY <1>16, WordUntouched DEF vars, IInv, TypeOK
<1> QED BY <1>1, <1>2, <1>3, <1>4, <1>5, <1>6, <1>7, <1>8, <1>9, <1>10, <1>11, <1>12, <1>13,
           <1>14, <1>15, <1>16, ReadUnlockInv, WriteUnlockInv, WriteDataInv
        DEF Next, LockStep, UnlockStep

\* The invariant holds at the start.
LEMMA InitInv == Init => IInv
<1> SUFFICES ASSUME Init PROVE IInv
  OBVIOUS
<1>1. Readers = {} /\ Writers = {} /\ state.cnt = 0 /\ ~state.rw
  BY DEF Init, Readers, Writers, At, Free
<1>2. TypeOK
  BY ConstantWords DEF Init, TypeOK, PC
<1>3. Held
  BY <1>1, FS_EmptySet, RwLockAssumption DEF Held
<1>4. WordCarries /\ DataVisible /\ ReadersWaitOnlyForWriters
  BY <1>1 DEF Init, WordCarries, DataVisible, ReadersWaitOnlyForWriters
<1> QED BY <1>2, <1>3, <1>4 DEF IInv

\* The inductive invariant holds in every reachable state of the lock.
THEOREM Invariance == Spec => []IInv
BY InitInv, InvInductive, PTL DEF Spec

\* The counter stays within its bits, whatever the number of threads.
THEOREM TypeCorrect == Spec => []TypeOK
<1>1. IInv => TypeOK
  BY DEF IInv
<1> QED BY <1>1, Invariance, PTL

\* read() and write(): the word counts the holders exactly; a writer excludes
\* everybody, and MAX_READERS readers are never taken for a writer.
THEOREM ExclusionHolds == Spec => []Exclusion
<1>1. IInv => Exclusion
  <2> SUFFICES ASSUME IInv PROVE Exclusion
    OBVIOUS
  <2>1. ASSUME NEW t \in Writers PROVE Writers = {t} /\ Cardinality(Writers) = 1
    <3>1. Writers = {t}
      BY DEF IInv, Held
    <3> QED BY <3>1, FS_Singleton
  <2>2. Writers # {} => state.cnt = Mask /\ Cardinality(Writers) = 1
    BY <2>1 DEF IInv, Held
  <2> QED BY <2>2 DEF Exclusion, IInv, Held, Readers, Writers
<1> QED BY <1>1, Invariance, PTL

\* Whoever gets the lock, by whichever of the four ways, sees all that was
\* written under it.
THEOREM HoldersSeeData == Spec => []DataVisible
<1>1. IInv => DataVisible
  BY DEF IInv
<1> QED BY <1>1, Invariance, PTL

\* The debug_assert of read_unlock() never fails.
THEOREM UnlockAssertionHolds == Spec => []ReadersWaitOnlyForWriters
<1>1. IInv => ReadersWaitOnlyForWriters
  BY DEF IInv
<1> QED BY <1>1, Invariance, PTL
=============================================================================
