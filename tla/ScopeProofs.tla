---------------------------- MODULE ScopeProofs -----------------------------
(***************************************************************************)
(* Proofs about the parker and about thread::scope, for every set of       *)
(* threads and every word width.  The first part is the parker, the second *)
(* the scope's own invariant, the third what the scope inherits: all it    *)
(* does to the parker's word is park() and unpark().                       *)
(***************************************************************************)
EXTENDS Scope, TLAPS, FiniteSetTheorems

----------------------------------------------------------------------------
(* The parker *)

\* The word is PARKED only while its owner is inside park().
ParkedInside == state = PARKED => pc # "idle"

\* The word hands on every unpark(), and one the owner has not synchronized
\* with has left its token, or the owner has yet to look for it.
AllHandedOn ==
  /\ carried = unparks
  /\ state = PARKED \/ (pc = "idle" /\ state = EMPTY) => known = unparks

\* The inductive invariant.
IInv == TypeOK /\ ParkedInside /\ AllHandedOn /\ NoLostWakeup

\* Subtracting one modulo 2^w takes NOTIFIED to EMPTY and EMPTY to PARKED.
LEMMA FetchSubWraps == (NOTIFIED + Max) % (Max + 1) = EMPTY /\ (EMPTY + Max) % (Max + 1) = PARKED
BY ParkerAssumption DEF NOTIFIED, EMPTY, PARKED

\* Every action keeps the invariant.
LEMMA InvInductive == IInv /\ [Next]_vars => IInv'
<1> SUFFICES ASSUME IInv, [Next]_vars PROVE IInv'
  OBVIOUS
<1> USE ParkerAssumption DEF IInv, TypeOK, ParkedInside, AllHandedOn, NoLostWakeup, EMPTY,
    PARKED, NOTIFIED, Acquire
<1>1. CASE Park
  <2>1. \/ state = NOTIFIED /\ state' = EMPTY /\ pc' = "idle"
        \/ state = EMPTY /\ state' = PARKED /\ pc' = "wait"
    <3>1. state = NOTIFIED \/ state = EMPTY
      BY <1>1 DEF Park
    <3>2. QED
      BY <1>1, <3>1, FetchSubWraps DEF Park
  <2>2. timed' \in BOOLEAN
    BY <1>1, Zenon DEF Park
  <2>3. QED
    BY <1>1, <2>1, <2>2 DEF Park
<1>2. CASE Wait
  BY <1>2 DEF Wait, Blocks
<1>3. CASE Disturb
  BY <1>3 DEF Disturb
<1>4. CASE Take
  BY <1>4 DEF Take
<1>5. CASE TakeTimed
  <2>1. timed' \in BOOLEAN
    BY <1>5, Zenon DEF TakeTimed
  <2>2. QED
    BY <1>5, <2>1 DEF TakeTimed
<1>6. ASSUME NEW u \in Unparker, Unpark(u) PROVE IInv'
  <2>1. unparks' \in [Unparker -> Nat] /\ carried' = unparks'
    BY <1>6 DEF Unpark
  <2>2. QED
    BY <1>6, <2>1 DEF Unpark
<1>7. ASSUME NEW u \in Unparker, WakeOwner(u) PROVE IInv'
  BY <1>7 DEF WakeOwner
<1>8. CASE UNCHANGED vars
  BY <1>8 DEF vars
<1>9. QED
  BY <1>1, <1>2, <1>3, <1>4, <1>5, <1>6, <1>7, <1>8 DEF Next

\* The invariant holds at the start.
LEMMA InitInv == Init => IInv
<1> SUFFICES ASSUME Init PROVE IInv
  OBVIOUS
<1>1. timed \in BOOLEAN
  BY Zenon DEF Init
<1> QED
  BY <1>1, ParkerAssumption DEF Init, IInv, TypeOK, ParkedInside, AllHandedOn, NoLostWakeup,
    EMPTY, PARKED, NOTIFIED

\* The inductive invariant holds in every reachable state of the parker.
THEOREM Invariance == Spec => []IInv
BY InitInv, InvInductive, PTL DEF Spec

\* The wrap-around of fetch_sub never takes the word out of its three states.
THEOREM TypeCorrect == Spec => []TypeOK
<1>1. IInv => TypeOK
  BY DEF IInv
<1> QED
  BY <1>1, Invariance, PTL

\* No unpark() is lost, and what precedes it is visible after park().
THEOREM TokensKept == Spec => []NoLostToken
<1>1. IInv => NoLostToken
  BY DEF IInv, TypeOK, AllHandedOn, ParkedInside, NoLostToken
<1> QED
  BY <1>1, Invariance, PTL

\* The owner never sleeps with its token pending and no wake on the way.
THEOREM OwnerIsWoken == Spec => []NoLostWakeup
<1>1. IInv => NoLostWakeup
  BY DEF IInv
<1> QED
  BY <1>1, Invariance, PTL

----------------------------------------------------------------------------
(* The scope: its inductive invariant *)

\* a drops the packet of t and has not yet counted it off.
Dropping(a, t) == task[a].step \in {"result", "flag", "sub"} /\ task[a].packet = t

\* The threads num_running_threads stands for: the packet has an owner, or
\* somebody is about to count it off.
Active(t) ==
  \/ at[t] \in {"user", "written"}
  \/ handle[t] # Nobody
  \/ \E a \in Unparker : Dropping(a, t)
ActiveThreads == {t \in Thread : Active(t)}

Events == {"ran", "freed"} \X Thread

ScopeTypeOK ==
  /\ at \in [Unparker -> {"unborn", "user", "written", "ended", "failed",
                          "waiting", "parking", "leaving", "out"}]
  /\ at[Main] \in {"user", "waiting", "parking", "leaving", "out"}
  /\ \A t \in Thread : at[t] \in {"unborn", "user", "written", "ended", "failed"}
  /\ task \in [Unparker -> {NoTask} \union
                 [step : {"result", "flag", "sub", "unpark"}, packet : Thread]]
  /\ handle \in [Thread -> Unparker \union {Nobody}]
  /\ refs \in [Thread -> Nat]
  /\ result \in [Thread -> {"none", "ok", "err"}]
  /\ running \in Nat /\ panicked \in BOOLEAN
  /\ fate \in [Thread -> {"none", "ok", "err", "handled"}]
  /\ knows \in [Unparker -> SUBSET Events]
  /\ packetKnows \in [Thread -> SUBSET Events] /\ countKnows \in SUBSET Events

\* The strong count of a packet is the number of its owners, the thread and
\* the handle, and the result is in it from the end of the closure until the
\* packet is dropped.
Packets == \A t \in Thread :
  /\ at[t] \in {"unborn", "failed"} => handle[t] = Nobody /\ refs[t] = 0 /\ fate[t] = "none"
  /\ at[t] \in {"user", "written"} => refs[t] = IF handle[t] = Nobody THEN 1 ELSE 2
  /\ at[t] = "ended" => refs[t] = IF handle[t] = Nobody THEN 0 ELSE 1
  /\ at[t] = "user" => fate[t] = "none"
  /\ at[t] = "written" \/ (at[t] = "ended" /\ handle[t] # Nobody) => result[t] # "none"
  /\ result[t] # "none" => fate[t] = result[t]

\* Handles are held, and packets dropped, by threads that may do so.
Owners ==
  /\ \A t \in Thread : handle[t] # Nobody => at[handle[t]] = "user"
  /\ \A a \in Unparker : task[a] # NoTask => at[a] \in {"user", "ended"}

\* A packet is dropped once, by one thread, after its last owner is gone.
Drops ==
  /\ \A a \in Unparker, t \in Thread :
       Dropping(a, t) => at[t] \in {"ended", "failed"} /\ handle[t] = Nobody
  /\ \A a, b \in Unparker, t \in Thread : Dropping(a, t) /\ Dropping(b, t) => a = b

\* The count is exact, and nothing is left when scope() is past its loop.
Count ==
  /\ IsFiniteSet(ActiveThreads)
  /\ running = Cardinality(ActiveThreads)
  /\ Left => ActiveThreads = {}

\* Where the knowledge of the work of t is on its way to Main.
Knowledge == \A t \in Thread :
  /\ at[t] \in {"written", "ended"} => <<"ran", t>> \in knows[t]
  /\ at[t] = "ended" /\ handle[t] # Nobody => <<"ran", t>> \in packetKnows[t]
  /\ \A a \in Unparker : Dropping(a, t) =>
       /\ at[t] = "ended" => <<"ran", t>> \in knows[a]
       /\ task[a].step # "result" => <<"freed", t>> \in knows[a]
  /\ at[t] = "ended" /\ ~Active(t) => {<<"ran", t>>, <<"freed", t>>} \subseteq countKnows

\* Where a is in the drop of the packet of t.
AtStep(a, t, step) == task[a].step = step /\ task[a].packet = t

\* An unhandled panic is in the packet, in the hands of who drops it, or in
\* the flag;
PanicKept == \A t \in Thread : fate[t] = "err" =>
  panicked \/ result[t] = "err" \/ \E a \in Unparker : AtStep(a, t, "flag")

\* the flag is set for nothing else;
FlagDue == \A a \in Unparker, t \in Thread : AtStep(a, t, "flag") => fate[t] = "err"
FlagTrue ==
  panicked => \E t \in Thread : fate[t] = "err" /\ at[t] = "ended" /\ handle[t] = Nobody

\* a result is in a packet that somebody owns or is about to drop.
ResultHeld == \A t \in Thread : result[t] # "none" =>
  at[t] = "written" \/ handle[t] # Nobody \/ \E a \in Unparker : AtStep(a, t, "result")

Outcomes ==
  /\ at[Main] = "user" => outcome = "none"
  /\ at[Main] \in {"waiting", "parking", "leaving"} => outcome \in {"returned", "unwound"}

ScopeInv ==
  /\ ScopeTypeOK /\ Packets /\ Owners /\ Drops /\ Count /\ Knowledge /\ WorkVisible
  /\ PanicKept /\ FlagDue /\ FlagTrue /\ ResultHeld /\ Outcomes /\ PanicsReported

\* The parts of a record in task.
Tasks == [step : {"result", "flag", "sub", "unpark"}, packet : Thread]

\* What the steps of a packet's drop do to such a record.
LEMMA TaskFields ==
  /\ NoTask.step = "none"
  /\ \A x \in Tasks : x # NoTask /\ x.step \in {"result", "flag", "sub", "unpark"} /\ x.packet \in Thread
  /\ \A x \in Tasks, s \in {"result", "flag", "sub", "unpark"} :
       /\ [x EXCEPT !.step = s] \in Tasks
       /\ [x EXCEPT !.step = s].step = s /\ [x EXCEPT !.step = s].packet = x.packet
  /\ \A t \in Thread : [step |-> "result", packet |-> t] \in Tasks
BY DEF NoTask, Tasks

\* A step that leaves the packets, the count and what is known of them alone.
LEMMA ScopeUntouched == ScopeInv /\ UNCHANGED scopeVars => ScopeInv'
<1> SUFFICES ASSUME ScopeInv, UNCHANGED scopeVars PROVE ScopeInv'
  OBVIOUS
<1>1. \A a \in Unparker, t \in Thread : Dropping(a, t)' <=> Dropping(a, t)
  BY DEF Dropping, scopeVars
<1>2. ActiveThreads' = ActiveThreads /\ \A t \in Thread : Active(t)' <=> Active(t)
  BY <1>1 DEF ActiveThreads, Active, scopeVars
<1>3. ScopeTypeOK' /\ Packets' /\ Owners'
  BY DEF ScopeInv, ScopeTypeOK, Packets, Owners, scopeVars
<1>4. Drops' /\ Count'
  BY <1>1, <1>2 DEF ScopeInv, Drops, Count, Left, scopeVars
<1>5. Knowledge' /\ WorkVisible'
  BY <1>1, <1>2 DEF ScopeInv, Knowledge, WorkVisible, Left, scopeVars
<1>6. PanicKept' /\ FlagDue' /\ FlagTrue' /\ ResultHeld' /\ Outcomes'
  BY DEF ScopeInv, PanicKept, FlagDue, FlagTrue, ResultHeld, Outcomes, AtStep, scopeVars
<1>7. PanicsReported'
  BY DEF ScopeInv, PanicsReported, scopeVars
<1> QED BY <1>3, <1>4, <1>5, <1>6, <1>7 DEF ScopeInv

\* The result is dropped: the packet is still counted.
LEMMA DropResultInv ==
  ASSUME ScopeInv, NEW a \in Unparker, DropResult(a)
  PROVE  ScopeInv'
<1> DEFINE t == task[a].packet
           s == IF result[t] = "err" THEN "flag" ELSE "sub"
<1>1. task[a] \in Tasks /\ task[a].step = "result" /\ t \in Thread
  BY TaskFields DEF ScopeInv, ScopeTypeOK, DropResult, Tasks
<1>2. Dropping(a, t) /\ at[t] \in {"ended", "failed"} /\ handle[t] = Nobody
  BY <1>1 DEF ScopeInv, Drops, Dropping
<1>3. /\ task'[a].step = s /\ task'[a].packet = t /\ task'[a] \in Tasks
      /\ \A b \in Unparker : b # a => task'[b] = task[b]
  BY <1>1, TaskFields, ZenonT(60) DEF ScopeInv, ScopeTypeOK, DropResult
<1>4. /\ result' = [result EXCEPT ![t] = "none"]
      /\ knows' = [knows EXCEPT ![a] = knows[a] \union {<<"freed", t>>}]
      /\ UNCHANGED <<at, handle, refs, running, panicked, outcome, fate, packetKnows, countKnows>>
  BY DEF DropResult, Learn
<1> HIDE DEF s, t
<1>5. \A b \in Unparker, u \in Thread : Dropping(b, u)' <=> Dropping(b, u)
  BY <1>1, <1>3 DEF Dropping, s, t
<1>6. ActiveThreads' = ActiveThreads /\ \A u \in Thread : Active(u)' <=> Active(u)
  BY <1>4, <1>5 DEF ActiveThreads, Active
<1>7. \A b \in Unparker : knows[b] \subseteq knows'[b]
  BY <1>4 DEF ScopeInv, ScopeTypeOK
<1>8. ScopeTypeOK'
  <2>1. task' \in [Unparker -> {NoTask} \union Tasks]
    BY <1>3 DEF ScopeInv, ScopeTypeOK, DropResult, Tasks
  <2>2. knows' \in [Unparker -> SUBSET Events]
    <3>1. <<"freed", t>> \in Events
      BY <1>1 DEF Events
    <3> QED BY <1>4, <3>1 DEF ScopeInv, ScopeTypeOK
  <2> QED BY <1>4, <2>1, <2>2 DEF ScopeInv, ScopeTypeOK, Tasks
<1>9. Packets'
  BY <1>1, <1>2, <1>4 DEF ScopeInv, ScopeTypeOK, Packets
<1>10. Owners'
  BY <1>1, <1>3, <1>4, TaskFields DEF ScopeInv, Owners
<1>11. Drops' /\ Count'
  BY <1>4, <1>5, <1>6 DEF ScopeInv, Drops, Count, Left
<1>12. Knowledge'
  <2>1. \A b \in Unparker, u \in Thread : Dropping(b, u)' /\ task'[b].step # "result" =>
           <<"freed", u>> \in knows'[b]
    <3> SUFFICES ASSUME NEW b \in Unparker, NEW u \in Thread, Dropping(b, u)',
                        task'[b].step # "result"
                 PROVE  <<"freed", u>> \in knows'[b]
      OBVIOUS
    <3>1. CASE b = a
      <4>1. u = t
        BY <1>3, <3>1 DEF Dropping
      <4>2. <<"freed", t>> \in knows'[a]
        BY <1>4 DEF ScopeInv, ScopeTypeOK
      <4> QED BY <3>1, <4>1, <4>2
    <3>2. CASE b # a
      <4>1. Dropping(b, u) /\ task[b].step # "result"
        BY <1>3, <1>5, <3>2
      <4>2. <<"freed", u>> \in knows[b]
        BY <4>1 DEF ScopeInv, Knowledge
      <4> QED BY <1>7, <4>2
    <3> QED BY <3>1, <3>2
  <2>2. \A u \in Thread : u \in Unparker /\ knows[u] \subseteq knows'[u]
    BY <1>7 DEF Thread
  <2>3. \A b \in Unparker, u \in Thread : Dropping(b, u)' /\ at'[u] = "ended" =>
           <<"ran", u>> \in knows'[b]
    BY <1>4, <1>5, <1>7 DEF ScopeInv, Knowledge
  <2> QED BY <1>4, <1>5, <1>6, <2>1, <2>2, <2>3 DEF ScopeInv, Knowledge
<1>13. WorkVisible'
  BY <1>4, <1>7, ScopeAssumption DEF ScopeInv, WorkVisible, Left
<1>14. PanicKept' /\ FlagDue' /\ FlagTrue' /\ ResultHeld' /\ Outcomes'
  <2>1. \A u \in Thread : u # t => result'[u] = result[u]
    BY <1>4 DEF ScopeInv, ScopeTypeOK
  <2>2. result'[t] = "none"
    BY <1>1, <1>4 DEF ScopeInv, ScopeTypeOK
  <2>3. result[t] = "err" => fate[t] = "err" /\ s = "flag"
    BY <1>1 DEF ScopeInv, Packets, s
  <2>4. result[t] # "err" => s = "sub"
    BY DEF s
  <2>5. PanicKept'
    <3> SUFFICES ASSUME NEW u \in Thread, fate'[u] = "err", ~panicked', result'[u] # "err"
                 PROVE  \E b \in Unparker : AtStep(b, u, "flag")'
      BY DEF PanicKept
    <3>1. CASE u = t /\ result[t] = "err"
      BY <1>3, <2>3, <3>1 DEF AtStep
    <3>2. CASE ~(u = t /\ result[t] = "err")
      <4>1. PICK b \in Unparker : AtStep(b, u, "flag")
        BY <1>4, <2>1, <3>2 DEF ScopeInv, PanicKept
      <4>2. b # a
        BY <1>1, <4>1 DEF AtStep
      <4> QED BY <1>3, <4>1, <4>2 DEF AtStep
    <3> QED BY <3>1, <3>2
  <2>6. FlagDue'
    BY <1>1, <1>3, <1>4, <2>3, <2>4 DEF ScopeInv, FlagDue, AtStep
  <2>7. ResultHeld'
    BY <1>1, <1>3, <1>4, <2>1, <2>2 DEF ScopeInv, ResultHeld, AtStep, t
  <2>8. FlagTrue' /\ Outcomes'
    BY <1>4 DEF ScopeInv, FlagTrue, Outcomes
  <2> QED BY <2>5, <2>6, <2>7, <2>8
<1>15. PanicsReported'
  BY <1>4 DEF ScopeInv, PanicsReported
<1> QED BY <1>8, <1>9, <1>10, <1>11, <1>12, <1>13, <1>14, <1>15 DEF ScopeInv

\* The flag is stored, for an unhandled panic.
LEMMA StoreFlagInv ==
  ASSUME ScopeInv, NEW a \in Unparker, StoreFlag(a)
  PROVE  ScopeInv'
<1> DEFINE t == task[a].packet
<1>1. task[a] \in Tasks /\ task[a].step = "flag" /\ t \in Thread
  BY TaskFields DEF ScopeInv, ScopeTypeOK, StoreFlag, Tasks
<1>2. /\ Dropping(a, t) /\ AtStep(a, t, "flag") /\ t \in ActiveThreads
      /\ at[t] \in {"ended", "failed"} /\ handle[t] = Nobody
  BY <1>1 DEF ScopeInv, Drops, Dropping, AtStep, ActiveThreads, Active
<1>3. /\ task'[a].step = "sub" /\ task'[a].packet = t /\ task'[a] \in Tasks
      /\ \A b \in Unparker : b # a => task'[b] = task[b]
  BY <1>1, TaskFields, ZenonT(60) DEF ScopeInv, ScopeTypeOK, StoreFlag
<1>4. /\ panicked' = TRUE
      /\ UNCHANGED <<at, handle, refs, result, running, outcome, fate, knows, packetKnows,
                     countKnows>>
  BY DEF StoreFlag
<1> HIDE DEF t
<1>5. \A b \in Unparker, u \in Thread : Dropping(b, u)' <=> Dropping(b, u)
  BY <1>1, <1>3 DEF Dropping, t
<1>6. ActiveThreads' = ActiveThreads /\ \A u \in Thread : Active(u)' <=> Active(u)
  BY <1>4, <1>5 DEF ActiveThreads, Active
<1>7. ~Left
  BY <1>2 DEF ScopeInv, Count
<1>8. ScopeTypeOK'
  <2>1. task' \in [Unparker -> {NoTask} \union Tasks]
    BY <1>3 DEF ScopeInv, ScopeTypeOK, StoreFlag, Tasks
  <2> QED BY <1>4, <2>1 DEF ScopeInv, ScopeTypeOK, Tasks
<1>9. Packets'
  BY <1>4 DEF ScopeInv, Packets
<1>10. Owners'
  BY <1>1, <1>3, <1>4, TaskFields DEF ScopeInv, Owners
<1>11. Drops' /\ Count'
  BY <1>4, <1>5, <1>6 DEF ScopeInv, Drops, Count, Left
<1>12. Knowledge'
  <2>1. \A b \in Unparker : task'[b].step # "result" => task[b].step # "result"
    BY <1>1, <1>3
  <2> QED BY <1>4, <1>5, <1>6, <2>1 DEF ScopeInv, Knowledge
<1>13. WorkVisible' /\ PanicsReported'
  BY <1>4, <1>7 DEF WorkVisible, PanicsReported, Left
<1>14. PanicKept' /\ FlagDue' /\ FlagTrue' /\ ResultHeld' /\ Outcomes'
  <2>1. fate[t] = "err"
    BY <1>1, <1>2 DEF ScopeInv, FlagDue
  <2>2. FlagTrue'
    BY <1>1, <1>2, <1>4, <2>1 DEF ScopeInv, Packets, FlagTrue
  <2>3. FlagDue'
    BY <1>3, <1>4 DEF ScopeInv, FlagDue, AtStep
  <2>4. \A b \in Unparker, u \in Thread : AtStep(b, u, "result") => AtStep(b, u, "result")'
    BY <1>1, <1>3 DEF AtStep
  <2>5. ResultHeld'
    BY <1>4, <2>4 DEF ScopeInv, ResultHeld
  <2>6. PanicKept' /\ Outcomes'
    BY <1>4 DEF ScopeInv, PanicKept, Outcomes
  <2> QED BY <2>2, <2>3, <2>5, <2>6
<1> QED BY <1>8, <1>9, <1>10, <1>11, <1>12, <1>13, <1>14 DEF ScopeInv

\* The packet is counted off, and what is known of it released.
LEMMA FetchSubInv ==
  ASSUME ScopeInv, NEW a \in Unparker, FetchSub(a)
  PROVE  ScopeInv'
<1>1. PICK t \in Thread : task[a] \in Tasks /\ task[a].step = "sub" /\ task[a].packet = t
  BY TaskFields DEF ScopeInv, ScopeTypeOK, FetchSub, Tasks
<1>2. /\ Dropping(a, t) /\ t \in ActiveThreads
      /\ at[t] \in {"ended", "failed"} /\ handle[t] = Nobody
  BY <1>1 DEF ScopeInv, Drops, Dropping, ActiveThreads, Active
<1>3. /\ task'[a].step \in {"unpark", "none"} /\ task'[a] \in {NoTask} \union Tasks
      /\ \A b \in Unparker : b # a => task'[b] = task[b]
  <2>1. task'[a] = IF running = 1 THEN [task[a] EXCEPT !.step = "unpark"] ELSE NoTask
    BY DEF ScopeInv, ScopeTypeOK, FetchSub
  <2>2. \A b \in Unparker : b # a => task'[b] = task[b]
    BY DEF ScopeInv, ScopeTypeOK, FetchSub
  <2> QED BY <1>1, <2>1, <2>2, TaskFields
<1>4. /\ running' = running - 1 /\ countKnows' = countKnows \union knows[a]
      /\ UNCHANGED <<at, handle, refs, result, panicked, outcome, fate, knows, packetKnows>>
  BY DEF FetchSub
<1>5. \A b \in Unparker, u \in Thread : Dropping(b, u)' <=> Dropping(b, u) /\ b # a
  BY <1>3 DEF Dropping
<1>6. \A u \in Thread : Dropping(a, u) <=> u = t
  BY <1>1 DEF Dropping
<1>7. \A u \in Thread : Active(u)' <=> Active(u) /\ u # t
  <2>1. ~Active(t)'
    BY <1>1, <1>2, <1>4, <1>5 DEF ScopeInv, Drops, Active
  <2>2. \A u \in Thread : u # t => (Active(u)' <=> Active(u))
    BY <1>4, <1>5, <1>6 DEF Active
  <2> QED BY <2>1, <2>2
<1>8. ActiveThreads' = ActiveThreads \ {t}
  BY <1>7 DEF ActiveThreads
<1>9. /\ ~Left
      /\ IsFiniteSet(ActiveThreads') /\ Cardinality(ActiveThreads') = running - 1
      /\ running - 1 \in Nat
  <2>1. IsFiniteSet(ActiveThreads) /\ running = Cardinality(ActiveThreads)
    BY DEF ScopeInv, Count
  <2>2. IsFiniteSet(ActiveThreads') /\ Cardinality(ActiveThreads') = running - 1
    BY <1>2, <1>8, <2>1, FS_RemoveElement
  <2>3. running - 1 \in Nat
    BY <2>2, FS_CardinalityType
  <2> QED BY <1>2, <2>2, <2>3 DEF ScopeInv, Count
<1>10. ScopeTypeOK'
  <2>1. task' \in [Unparker -> {NoTask} \union Tasks]
    BY <1>3 DEF ScopeInv, ScopeTypeOK, FetchSub, Tasks
  <2> QED BY <1>4, <1>9, <2>1 DEF ScopeInv, ScopeTypeOK, Tasks
<1>11. Packets'
  BY <1>4 DEF ScopeInv, Packets
<1>12. Owners'
  BY <1>1, <1>3, <1>4, TaskFields DEF ScopeInv, Owners
<1>13. Drops' /\ Count'
  BY <1>4, <1>5, <1>9 DEF ScopeInv, Drops, Count, Left
<1>14. Knowledge'
  <2>1. at[t] = "ended" => {<<"ran", t>>, <<"freed", t>>} \subseteq countKnows'
    BY <1>1, <1>2, <1>4 DEF ScopeInv, Knowledge
  <2>2. ASSUME NEW u \in Thread
        PROVE  at[u] = "ended" /\ ~Active(u)' => {<<"ran", u>>, <<"freed", u>>} \subseteq countKnows'
    BY <1>4, <1>7, <2>1 DEF ScopeInv, Knowledge
  <2> QED BY <1>3, <1>4, <1>5, <2>2 DEF ScopeInv, Knowledge
<1>15. WorkVisible' /\ PanicsReported'
  BY <1>4, <1>9 DEF WorkVisible, PanicsReported, Left
<1>16. PanicKept' /\ FlagDue' /\ FlagTrue' /\ ResultHeld' /\ Outcomes'
  <2>1. \A b \in Unparker, u \in Thread, s \in {"result", "flag"} : AtStep(b, u, s)' <=> AtStep(b, u, s)
    BY <1>1, <1>3 DEF AtStep
  <2>2. PanicKept'
    BY <1>4, <2>1 DEF ScopeInv, PanicKept
  <2>3. FlagDue' /\ FlagTrue' /\ Outcomes'
    BY <1>4, <2>1 DEF ScopeInv, FlagDue, FlagTrue, Outcomes
  <2>4. ResultHeld'
    BY <1>4, <2>1 DEF ScopeInv, ResultHeld
  <2> QED BY <2>2, <2>3, <2>4
<1> QED BY <1>10, <1>11, <1>12, <1>13, <1>14, <1>15, <1>16 DEF ScopeInv

\* What DropRef does to the packets being dropped.
DropRefEffect(a, t) ==
  /\ refs' = [refs EXCEPT ![t] = refs[t] - 1]
  /\ packetKnows' = [packetKnows EXCEPT ![t] = packetKnows[t] \union knows[a]]
  /\ packetKnows' \in [Thread -> SUBSET Events]
  /\ knows' \in [Unparker -> SUBSET Events]
  /\ \A b \in Unparker : knows[b] \subseteq knows'[b]
  /\ task' \in [Unparker -> {NoTask} \union Tasks]
  /\ \A b \in Unparker : b # a => task'[b] = task[b]
  /\ refs[t] # 1 => task' = task
  /\ refs[t] = 1 => /\ task'[a] = [step |-> "result", packet |-> t]
                    /\ packetKnows[t] \subseteq knows'[a]
  /\ \A b \in Unparker, u \in Thread :
       Dropping(b, u)' <=> Dropping(b, u) \/ (refs[t] = 1 /\ b = a /\ u = t)
  /\ \A b \in Unparker, u \in Thread : AtStep(b, u, "flag")' <=> AtStep(b, u, "flag")
  /\ \A b \in Unparker, u \in Thread : AtStep(b, u, "result")' <=>
       AtStep(b, u, "result") \/ (refs[t] = 1 /\ b = a /\ u = t)

\* Dropping a reference starts the packet's drop exactly when it was the last.
LEMMA DropRefTasks ==
  ASSUME ScopeInv, NEW a \in Unparker, NEW t \in Thread, task[a] = NoTask, DropRef(a, t)
  PROVE  DropRefEffect(a, t)
<1>1. /\ refs' = [refs EXCEPT ![t] = refs[t] - 1]
      /\ packetKnows' = [packetKnows EXCEPT ![t] = packetKnows[t] \union knows[a]]
  BY DEF DropRef
<1>2. packetKnows' \in [Thread -> SUBSET Events]
  BY <1>1 DEF ScopeInv, ScopeTypeOK
<1>3. NoTask.step = "none" /\ [step |-> "result", packet |-> t] \in Tasks
  BY TaskFields
<1>4. CASE refs[t] = 1
  <2>1. /\ task' = [task EXCEPT ![a] = [step |-> "result", packet |-> t]]
        /\ knows' = [knows EXCEPT ![a] = knows[a] \union (packetKnows[t] \union knows[a])]
    BY <1>4 DEF DropRef, Learn
  <2>2. /\ knows' \in [Unparker -> SUBSET Events]
        /\ \A b \in Unparker : knows[b] \subseteq knows'[b]
        /\ packetKnows[t] \subseteq knows'[a]
    BY <2>1 DEF ScopeInv, ScopeTypeOK
  <2>3. /\ task' \in [Unparker -> {NoTask} \union Tasks]
        /\ \A b \in Unparker : b # a => task'[b] = task[b]
        /\ task'[a] = [step |-> "result", packet |-> t]
    BY <1>3, <2>1 DEF ScopeInv, ScopeTypeOK, Tasks
  <2>4. task'[a].step = "result" /\ task'[a].packet = t /\ task[a].step = "none"
    BY <1>3, <2>3
  <2>5. \A b \in Unparker, u \in Thread : Dropping(b, u)' <=> Dropping(b, u) \/ (b = a /\ u = t)
    BY <2>3, <2>4 DEF Dropping
  <2>6. \A b \in Unparker, u \in Thread :
          /\ AtStep(b, u, "flag")' <=> AtStep(b, u, "flag")
          /\ AtStep(b, u, "result")' <=> AtStep(b, u, "result") \/ (b = a /\ u = t)
    BY <2>3, <2>4 DEF AtStep
  <2> QED BY <1>1, <1>2, <1>4, <2>2, <2>3, <2>5, <2>6 DEF DropRefEffect
<1>5. CASE refs[t] # 1
  <2>1. task' = task /\ knows' = knows
    BY <1>5 DEF DropRef
  <2>2. \A b \in Unparker, u \in Thread : Dropping(b, u)' <=> Dropping(b, u)
    BY <2>1 DEF Dropping
  <2>3. \A b \in Unparker, u \in Thread :
          /\ AtStep(b, u, "flag")' <=> AtStep(b, u, "flag")
          /\ AtStep(b, u, "result")' <=> AtStep(b, u, "result")
    BY <2>1 DEF AtStep
  <2> QED BY <1>1, <1>2, <1>5, <2>1, <2>2, <2>3 DEF ScopeInv, ScopeTypeOK, Tasks, DropRefEffect
<1> QED BY <1>4, <1>5

\* A handle is dropped; the last owner of a packet goes on to drop it.
LEMMA DropHandleInv ==
  ASSUME ScopeInv, NEW a \in Unparker, NEW t \in Thread, DropHandle(a, t)
  PROVE  ScopeInv'
<1>1. /\ task[a] = NoTask /\ at[a] = "user" /\ handle[t] = a /\ handle[t] # Nobody
      /\ handle' = [handle EXCEPT ![t] = Nobody] /\ DropRef(a, t)
      /\ UNCHANGED <<at, result, running, panicked, outcome, fate, countKnows>>
  BY ScopeAssumption DEF DropHandle, InUserCode, Free
<1>0. DropRefEffect(a, t)
  BY <1>1, DropRefTasks
<1>2. /\ at[t] \in {"user", "written", "ended"}
      /\ refs[t] = 1 <=> at[t] = "ended"
      /\ at[t] # "ended" => refs[t] = 2
  BY <1>1 DEF ScopeInv, ScopeTypeOK, Packets
<1>3. \A u \in Thread : handle'[u] = IF u = t THEN Nobody ELSE handle[u]
  BY <1>1 DEF ScopeInv, ScopeTypeOK
<1>4. \A b \in Unparker, u \in Thread :
        Dropping(b, u)' <=> Dropping(b, u) \/ (at[t] = "ended" /\ b = a /\ u = t)
  BY <1>1, <1>2, <1>0 DEF DropRefEffect
<1>5. \A u \in Thread : Active(u)' <=> Active(u)
  <2>1. Active(t)' /\ Active(t)
    BY <1>1, <1>2, <1>4 DEF Active
  <2>2. \A u \in Thread : u # t => (Active(u)' <=> Active(u))
    BY <1>1, <1>3, <1>4 DEF Active
  <2> QED BY <2>1, <2>2
<1>6. ActiveThreads' = ActiveThreads /\ t \in ActiveThreads
  BY <1>1, <1>5 DEF ActiveThreads, Active
<1>7. ~Left
  BY <1>6 DEF ScopeInv, Count
<1>8. ScopeTypeOK'
  <2>1. refs' \in [Thread -> Nat]
    BY <1>1, <1>2, <1>0 DEF ScopeInv, ScopeTypeOK, DropRefEffect
  <2> QED BY <1>1, <2>1, <1>0 DEF ScopeInv, ScopeTypeOK, Tasks, DropRefEffect
<1>9. Packets'
  <2>1. \A u \in Thread : u # t => refs'[u] = refs[u]
    BY <1>1, <1>0 DEF ScopeInv, ScopeTypeOK, DropRefEffect
  <2>2. refs'[t] = refs[t] - 1
    BY <1>1, <1>0 DEF ScopeInv, ScopeTypeOK, DropRefEffect
  <2> QED BY <1>1, <1>2, <1>3, <2>1, <2>2 DEF ScopeInv, Packets
<1>10. Owners'
  BY <1>1, <1>3, <1>0 DEF ScopeInv, Owners, DropRefEffect
<1>11. Drops' /\ Count'
  <2>1. \A b \in Unparker : ~Dropping(b, t)
    BY <1>1 DEF ScopeInv, Drops
  <2>2. Drops'
    BY <1>1, <1>2, <1>3, <1>4, <2>1 DEF ScopeInv, Drops
  <2> QED BY <1>1, <1>6, <2>2 DEF ScopeInv, Count, Left
<1>12. Knowledge'
  <2>1. \A b \in Unparker : knows[b] \subseteq knows'[b]
    BY <1>1, <1>0 DEF DropRefEffect
  <2>2. \A u \in Thread : packetKnows[u] \subseteq packetKnows'[u]
    BY <1>1, <1>0 DEF ScopeInv, ScopeTypeOK, DropRefEffect
  <2>3. at[t] = "ended" => <<"ran", t>> \in knows'[a] /\ task'[a].step = "result"
    <3> SUFFICES ASSUME at[t] = "ended" PROVE <<"ran", t>> \in knows'[a] /\ task'[a].step = "result"
      OBVIOUS
    <3>1. <<"ran", t>> \in packetKnows[t]
      BY <1>1 DEF ScopeInv, Knowledge
    <3>2. packetKnows[t] \subseteq knows'[a] /\ task'[a] = [step |-> "result", packet |-> t]
      BY <1>0, <1>2 DEF DropRefEffect
    <3> QED BY <3>1, <3>2
  <2>4. ASSUME NEW b \in Unparker, NEW u \in Thread, Dropping(b, u)'
        PROVE  /\ at[u] = "ended" => <<"ran", u>> \in knows'[b]
               /\ task'[b].step # "result" => <<"freed", u>> \in knows'[b]
    <3>1. CASE b = a
      BY <1>1, <1>4, <2>3, <2>4, <3>1, TaskFields DEF Dropping
    <3>2. CASE b # a
      BY <1>1, <1>4, <2>1, <2>4, <3>2, <1>0 DEF ScopeInv, Knowledge, DropRefEffect
    <3> QED BY <3>1, <3>2
  <2>5. \A u \in Thread : u \in Unparker
    BY DEF Thread
  <2> QED BY <1>1, <1>3, <1>5, <2>1, <2>2, <2>4, <2>5 DEF ScopeInv, Knowledge
<1>13. WorkVisible' /\ PanicsReported'
  BY <1>1, <1>7 DEF WorkVisible, PanicsReported, Left
<1>14. PanicKept' /\ FlagDue'
  BY <1>1, <1>0 DEF ScopeInv, PanicKept, FlagDue, DropRefEffect
<1>15. FlagTrue' /\ Outcomes'
  BY <1>1, <1>3 DEF ScopeInv, FlagTrue, Outcomes
<1>16. ResultHeld'
  <2>1. CASE at[t] # "ended"
    <3>1. at[t] = "user" => result[t] = "none"
      BY DEF ScopeInv, Packets, ScopeTypeOK
    <3> QED BY <1>1, <1>2, <1>3, <2>1, <3>1, <1>0 DEF ScopeInv, ResultHeld, DropRefEffect
  <2>2. CASE at[t] = "ended"
    BY <1>1, <1>2, <1>3, <2>2, <1>0 DEF ScopeInv, ResultHeld, DropRefEffect
  <2> QED BY <2>1, <2>2
<1> QED BY <1>8, <1>9, <1>10, <1>11, <1>12, <1>13, <1>14, <1>15, <1>16 DEF ScopeInv

\* The thread drops its packet, as the last owner or before its handle.
LEMMA DropTheirsInv ==
  ASSUME ScopeInv, NEW t \in Thread, DropTheirs(t)
  PROVE  ScopeInv'
<1>1. /\ at[t] = "written" /\ at' = [at EXCEPT ![t] = "ended"] /\ DropRef(t, t)
      /\ UNCHANGED <<handle, result, running, panicked, outcome, fate, countKnows>>
  BY DEF DropTheirs
<1>2. t \in Unparker /\ t # Main /\ task[t] = NoTask
  BY <1>1 DEF ScopeInv, Owners, Thread
<1>3. DropRefEffect(t, t)
  BY <1>1, <1>2, DropRefTasks
<1>4. refs[t] = IF handle[t] = Nobody THEN 1 ELSE 2
  BY <1>1 DEF ScopeInv, Packets
<1>5. /\ \A b \in Unparker : at'[b] = IF b = t THEN "ended" ELSE at[b]
      /\ at'[Main] = at[Main]
      /\ \A u \in Thread : handle[u] # t
  BY <1>1, <1>2, ScopeAssumption DEF ScopeInv, ScopeTypeOK, Owners
<1>6. \A b \in Unparker, u \in Thread :
        Dropping(b, u)' <=> Dropping(b, u) \/ (handle[t] = Nobody /\ b = t /\ u = t)
  BY <1>3, <1>4 DEF DropRefEffect
<1>7. \A u \in Thread : Active(u)' <=> Active(u)
  <2>1. Active(t)' /\ Active(t)
    BY <1>1, <1>2, <1>6 DEF Active
  <2>2. \A u \in Thread : u # t => (Active(u)' <=> Active(u))
    BY <1>1, <1>5, <1>6 DEF Active, Thread
  <2> QED BY <2>1, <2>2
<1>8. ActiveThreads' = ActiveThreads /\ t \in ActiveThreads
  BY <1>1, <1>7 DEF ActiveThreads, Active
<1>9. ~Left
  BY <1>8 DEF ScopeInv, Count
<1>10. ScopeTypeOK'
  <2>1. refs' \in [Thread -> Nat]
    BY <1>3, <1>4 DEF ScopeInv, ScopeTypeOK, DropRefEffect
  <2>2. /\ at' \in [Unparker -> {"unborn", "user", "written", "ended", "failed",
                                 "waiting", "parking", "leaving", "out"}]
        /\ at'[Main] \in {"user", "waiting", "parking", "leaving", "out"}
        /\ \A u \in Thread : at'[u] \in {"unborn", "user", "written", "ended", "failed"}
    BY <1>1, <1>2, <1>5 DEF ScopeInv, ScopeTypeOK, Thread
  <2> QED BY <1>1, <1>3, <2>1, <2>2 DEF ScopeInv, ScopeTypeOK, Tasks, DropRefEffect
<1>11. Packets'
  <2>1. refs'[t] = refs[t] - 1 /\ \A u \in Thread : u # t => refs'[u] = refs[u]
    BY <1>3 DEF ScopeInv, ScopeTypeOK, DropRefEffect
  <2>2. \A u \in Thread : u # t => at'[u] = at[u]
    BY <1>5 DEF Thread
  <2> QED BY <1>1, <1>2, <1>4, <1>5, <2>1, <2>2 DEF ScopeInv, Packets
<1>12. Owners'
  <2>1. \A u \in Thread : handle'[u] # Nobody => at'[handle'[u]] = "user"
    BY <1>1, <1>5 DEF ScopeInv, ScopeTypeOK, Owners
  <2>2. \A b \in Unparker : task'[b] # NoTask => at'[b] \in {"user", "ended"}
    BY <1>3, <1>5 DEF ScopeInv, Owners, DropRefEffect
  <2> QED BY <2>1, <2>2 DEF Owners
<1>13. Drops' /\ Count'
  <2>1. \A b \in Unparker : ~Dropping(b, t)
    BY <1>1 DEF ScopeInv, Drops
  <2>2. Drops'
    BY <1>1, <1>2, <1>5, <1>6, <2>1 DEF ScopeInv, Drops, Thread
  <2> QED BY <1>1, <1>5, <1>8, <2>2 DEF ScopeInv, Count, Left
<1>14. Knowledge'
  <2>1. \A b \in Unparker : knows[b] \subseteq knows'[b]
    BY <1>3 DEF DropRefEffect
  <2>2. \A u \in Thread : packetKnows[u] \subseteq packetKnows'[u]
    BY <1>3 DEF ScopeInv, ScopeTypeOK, DropRefEffect
  <2>3. <<"ran", t>> \in knows[t]
    BY <1>1 DEF ScopeInv, Knowledge
  <2>4. <<"ran", t>> \in packetKnows'[t]
    BY <1>3, <2>3 DEF ScopeInv, ScopeTypeOK, DropRefEffect
  <2>5. ASSUME NEW b \in Unparker, NEW u \in Thread, Dropping(b, u)'
        PROVE  /\ at'[u] = "ended" => <<"ran", u>> \in knows'[b]
               /\ task'[b].step # "result" => <<"freed", u>> \in knows'[b]
    <3>1. CASE b = t
      <4>1. ~Dropping(t, u)
        BY <1>2, TaskFields DEF Dropping
      <4>2. u = t /\ handle[t] = Nobody
        BY <1>2, <1>6, <2>5, <3>1, <4>1
      <4>3. task'[t] = [step |-> "result", packet |-> t]
        BY <1>3, <1>4, <4>2 DEF DropRefEffect
      <4> QED BY <2>1, <2>3, <1>2, <3>1, <4>2, <4>3
    <3>2. CASE b # t
      <4>1. Dropping(b, u) /\ task'[b] = task[b]
        BY <1>3, <1>6, <2>5, <3>2 DEF DropRefEffect
      <4>2. u # t
        BY <1>1, <4>1 DEF ScopeInv, Drops
      <4> QED BY <1>5, <2>1, <4>1, <4>2 DEF ScopeInv, Knowledge, Thread
    <3> QED BY <3>1, <3>2
  <2>6. ASSUME NEW u \in Thread
        PROVE  /\ at'[u] \in {"written", "ended"} => <<"ran", u>> \in knows'[u]
               /\ at'[u] = "ended" /\ handle'[u] # Nobody => <<"ran", u>> \in packetKnows'[u]
               /\ at'[u] = "ended" /\ ~Active(u)' =>
                    {<<"ran", u>>, <<"freed", u>>} \subseteq countKnows'
    <3>1. CASE u = t
      BY <1>2, <1>7, <1>8, <2>1, <2>3, <2>4, <3>1 DEF ActiveThreads
    <3>2. CASE u # t
      BY <1>1, <1>5, <1>7, <2>1, <2>2, <3>2 DEF ScopeInv, Knowledge, Thread
    <3> QED BY <3>1, <3>2
  <2> QED BY <2>5, <2>6 DEF Knowledge
<1>15. WorkVisible' /\ PanicsReported'
  BY <1>5, <1>9 DEF WorkVisible, PanicsReported, Left
<1>16. PanicKept' /\ FlagDue'
  BY <1>1, <1>3 DEF ScopeInv, PanicKept, FlagDue, DropRefEffect
<1>17. FlagTrue' /\ Outcomes'
  BY <1>1, <1>5 DEF ScopeInv, FlagTrue, Outcomes, Thread
<1>18. ResultHeld'
  <2>1. handle[t] = Nobody => AtStep(t, t, "result")'
    BY <1>2, <1>3, <1>4 DEF DropRefEffect
  <2>2. ASSUME NEW u \in Thread, result'[u] # "none"
        PROVE  at'[u] = "written" \/ handle'[u] # Nobody \/ \E b \in Unparker : AtStep(b, u, "result")'
    <3>1. CASE u = t
      BY <1>1, <1>2, <2>1, <3>1
    <3>2. CASE u # t
      BY <1>1, <1>3, <1>5, <2>2, <3>2 DEF ScopeInv, ResultHeld, DropRefEffect, Thread
    <3> QED BY <3>1, <3>2
  <2> QED BY <2>2 DEF ResultHeld
<1> QED BY <1>10, <1>11, <1>12, <1>13, <1>14, <1>15, <1>16, <1>17, <1>18 DEF ScopeInv

\* The closure of t ends and its result is in the packet.
LEMMA FinishInv ==
  ASSUME ScopeInv, NEW t \in Thread, Finish(t)
  PROVE  ScopeInv'
<1>1. PICK r \in {"ok", "err"} :
        result' = [result EXCEPT ![t] = r] /\ fate' = [fate EXCEPT ![t] = r]
  BY DEF Finish
<1>2. /\ task[t] = NoTask /\ at[t] = "user" /\ at' = [at EXCEPT ![t] = "written"]
      /\ knows' = [knows EXCEPT ![t] = knows[t] \union {<<"ran", t>>}]
      /\ \A u \in Thread : handle[u] # t
      /\ UNCHANGED <<task, handle, refs, running, panicked, outcome, packetKnows, countKnows>>
  BY DEF Finish, InUserCode, Free, Learn
<1>3. t \in Unparker /\ t # Main /\ t \in ActiveThreads
  BY <1>2 DEF ActiveThreads, Active, Thread
<1>4. /\ \A b \in Unparker : at'[b] = IF b = t THEN "written" ELSE at[b]
      /\ at'[Main] = at[Main]
      /\ \A u \in Thread : u # t => at'[u] = at[u] /\ result'[u] = result[u] /\ fate'[u] = fate[u]
      /\ at'[t] = "written" /\ result'[t] = r /\ fate'[t] = r
  BY <1>1, <1>2, <1>3, ScopeAssumption DEF ScopeInv, ScopeTypeOK, Thread
<1>5. \A b \in Unparker, u \in Thread : Dropping(b, u)' <=> Dropping(b, u)
  BY <1>2 DEF Dropping
<1>6. ActiveThreads' = ActiveThreads /\ \A u \in Thread : Active(u)' <=> Active(u)
  <2>1. \A u \in Thread : Active(u)' <=> Active(u)
    BY <1>2, <1>4, <1>5 DEF Active
  <2> QED BY <2>1 DEF ActiveThreads
<1>7. ~Left
  BY <1>3 DEF ScopeInv, Count
<1>8. \A b \in Unparker : knows[b] \subseteq knows'[b]
  BY <1>2 DEF ScopeInv, ScopeTypeOK
<1>9. <<"ran", t>> \in knows'[t]
  BY <1>2, <1>3 DEF ScopeInv, ScopeTypeOK
<1>10. ScopeTypeOK'
  <2>1. knows' \in [Unparker -> SUBSET Events]
    <3>1. <<"ran", t>> \in Events
      BY DEF Events
    <3> QED BY <1>2, <3>1, ZenonT(60) DEF ScopeInv, ScopeTypeOK
  <2>2. /\ at' \in [Unparker -> {"unborn", "user", "written", "ended", "failed",
                                 "waiting", "parking", "leaving", "out"}]
        /\ at'[Main] \in {"user", "waiting", "parking", "leaving", "out"}
        /\ \A u \in Thread : at'[u] \in {"unborn", "user", "written", "ended", "failed"}
    BY <1>2, <1>4 DEF ScopeInv, ScopeTypeOK
  <2> QED BY <1>1, <1>2, <2>1, <2>2 DEF ScopeInv, ScopeTypeOK
<1>11. Packets'
  BY <1>1, <1>2, <1>4 DEF ScopeInv, Packets
<1>12. Owners'
  <2>1. \A u \in Thread : handle'[u] # Nobody => at'[handle'[u]] = "user"
    BY <1>2, <1>4 DEF ScopeInv, ScopeTypeOK, Owners
  <2> QED BY <1>2, <1>4, <2>1 DEF ScopeInv, Owners
<1>13. Drops' /\ Count'
  <2>1. \A b \in Unparker : ~Dropping(b, t)
    BY <1>2 DEF ScopeInv, Drops
  <2>2. Drops'
    BY <1>2, <1>4, <1>5, <2>1 DEF ScopeInv, Drops
  <2> QED BY <1>2, <1>4, <1>6, <2>2 DEF ScopeInv, Count, Left
<1>14. Knowledge'
  <2>1. ASSUME NEW u \in Thread
        PROVE  at'[u] \in {"written", "ended"} => <<"ran", u>> \in knows'[u]
    BY <1>4, <1>8, <1>9 DEF ScopeInv, Knowledge, Thread
  <2>2. ASSUME NEW b \in Unparker, NEW u \in Thread, Dropping(b, u)'
        PROVE  /\ at'[u] = "ended" => <<"ran", u>> \in knows'[b]
               /\ task'[b].step # "result" => <<"freed", u>> \in knows'[b]
    BY <1>2, <1>4, <1>5, <1>8, <2>2 DEF ScopeInv, Knowledge
  <2> QED BY <1>2, <1>4, <1>6, <2>1, <2>2 DEF ScopeInv, Knowledge
<1>15. WorkVisible' /\ PanicsReported'
  BY <1>4, <1>7 DEF WorkVisible, PanicsReported, Left
<1>16. PanicKept'
  BY <1>2, <1>4 DEF ScopeInv, PanicKept, AtStep
<1>17. FlagDue'
  <2>1. \A b \in Unparker : ~AtStep(b, t, "flag")
    BY <1>2 DEF ScopeInv, Drops, Dropping, AtStep
  <2> QED BY <1>2, <1>4, <2>1 DEF ScopeInv, FlagDue, AtStep
<1>18. FlagTrue' /\ Outcomes'
  BY <1>2, <1>4 DEF ScopeInv, FlagTrue, Outcomes
<1>19. ResultHeld'
  BY <1>2, <1>4 DEF ScopeInv, ResultHeld, AtStep
<1> QED BY <1>10, <1>11, <1>12, <1>13, <1>14, <1>15, <1>16, <1>17, <1>18, <1>19 DEF ScopeInv

\* After the unpark() the packet is forgotten.
LEMMA UnparkMainInv ==
  ASSUME ScopeInv, NEW a \in Unparker, UnparkMain(a)
  PROVE  ScopeInv'
<1>1. /\ task[a].step = "unpark" /\ task' = [task EXCEPT ![a] = NoTask]
      /\ UNCHANGED <<at, handle, refs, result, running, panicked, outcome, fate, knows,
                     packetKnows, countKnows>>
  BY DEF UnparkMain
<1>2. /\ \A b \in Unparker : b # a => task'[b] = task[b]
      /\ task'[a] = NoTask /\ task'[a].step = "none"
  BY <1>1, TaskFields DEF ScopeInv, ScopeTypeOK
<1>3. \A b \in Unparker, u \in Thread : Dropping(b, u)' <=> Dropping(b, u)
  BY <1>1, <1>2 DEF Dropping
<1>4. \A b \in Unparker, u \in Thread, s \in {"result", "flag"} : AtStep(b, u, s)' <=> AtStep(b, u, s)
  BY <1>1, <1>2 DEF AtStep
<1>5. ActiveThreads' = ActiveThreads /\ \A u \in Thread : Active(u)' <=> Active(u)
  BY <1>1, <1>3 DEF ActiveThreads, Active
<1>6. ScopeTypeOK' /\ Packets'
  BY <1>1 DEF ScopeInv, ScopeTypeOK, Packets
<1>7. Owners' /\ Drops' /\ Count'
  BY <1>1, <1>2, <1>3, <1>5 DEF ScopeInv, Owners, Drops, Count, Left
<1>8. Knowledge' /\ WorkVisible'
  BY <1>1, <1>2, <1>3, <1>5 DEF ScopeInv, Knowledge, WorkVisible, Left
<1>9. PanicKept' /\ FlagDue'
  BY <1>1, <1>4 DEF ScopeInv, PanicKept, FlagDue
<1>10. ResultHeld'
  BY <1>1, <1>4 DEF ScopeInv, ResultHeld
<1>11. FlagTrue' /\ Outcomes' /\ PanicsReported'
  BY <1>1 DEF ScopeInv, FlagTrue, Outcomes, PanicsReported
<1> QED BY <1>6, <1>7, <1>8, <1>9, <1>10, <1>11 DEF ScopeInv

\* While any code of a user runs, scope() is in its loop or before it.
LEMMA UsersInside ==
  ASSUME ScopeInv, NEW a \in Unparker, at[a] = "user"
  PROVE  ~Left
<1>1. CASE a = Main
  BY <1>1 DEF Left
<1>2. CASE a # Main
  <2>1. a \in ActiveThreads
    BY <1>2 DEF ActiveThreads, Active, Thread
  <2> QED BY <2>1 DEF ScopeInv, Count
<1> QED BY <1>1, <1>2

\* Nobody has anything to do with a thread that is not spawned yet.
LEMMA UnbornUnknown ==
  ASSUME ScopeInv, NEW t \in Thread, at[t] = "unborn"
  PROVE  /\ t \in Unparker /\ t # Main /\ task[t] = NoTask /\ handle[t] = Nobody
         /\ ~Active(t) /\ fate[t] = "none" /\ result[t] = "none" /\ refs[t] = 0
         /\ \A b \in Unparker : ~Dropping(b, t)
         /\ \A u \in Thread : handle[u] # t
BY ScopeAssumption DEF ScopeInv, ScopeTypeOK, Packets, Owners, Drops, Active, Thread

\* A thread is spawned and counted.
LEMMA SpawnInv ==
  ASSUME ScopeInv, NEW a \in Unparker, NEW t \in Thread, Spawn(a, t)
  PROVE  ScopeInv'
<1>1. /\ task[a] = NoTask /\ at[a] = "user" /\ at[t] = "unborn" /\ running' = running + 1
      /\ at' = [at EXCEPT ![t] = "user"] /\ handle' = [handle EXCEPT ![t] = a]
      /\ refs' = [refs EXCEPT ![t] = 2] /\ knows' = [knows EXCEPT ![t] = knows[a]]
      /\ UNCHANGED <<task, result, panicked, outcome, fate, packetKnows, countKnows>>
  BY DEF Spawn, InUserCode, Free
<1>2. /\ t \in Unparker /\ t # Main /\ task[t] = NoTask /\ handle[t] = Nobody
      /\ ~Active(t) /\ fate[t] = "none" /\ result[t] = "none" /\ refs[t] = 0
      /\ \A b \in Unparker : ~Dropping(b, t)
      /\ \A u \in Thread : handle[u] # t
  BY <1>1, UnbornUnknown
<1>3. /\ \A b \in Unparker : at'[b] = IF b = t THEN "user" ELSE at[b]
      /\ at'[Main] = at[Main]
      /\ \A b \in Unparker : b # t => knows'[b] = knows[b]
      /\ \A u \in Thread : u # t => at'[u] = at[u] /\ handle'[u] = handle[u] /\ refs'[u] = refs[u]
      /\ at'[t] = "user" /\ handle'[t] = a /\ refs'[t] = 2 /\ a # Nobody
  BY <1>1, <1>2, ScopeAssumption DEF ScopeInv, ScopeTypeOK, Thread
<1>4. \A b \in Unparker, u \in Thread : Dropping(b, u)' <=> Dropping(b, u)
  BY <1>1 DEF Dropping
<1>5. \A u \in Thread : Active(u)' <=> Active(u) \/ u = t
  <2>1. \A u \in Thread : u # t => (Active(u)' <=> Active(u))
    BY <1>3, <1>4 DEF Active
  <2> QED BY <1>3, <2>1 DEF Active
<1>6. ActiveThreads' = ActiveThreads \union {t} /\ t \notin ActiveThreads
  BY <1>2, <1>5 DEF ActiveThreads
<1>7. ~Left
  BY <1>1, UsersInside
<1>8. ScopeTypeOK'
  <2>1. knows' \in [Unparker -> SUBSET Events]
    BY <1>1 DEF ScopeInv, ScopeTypeOK
  <2>2. /\ at' \in [Unparker -> {"unborn", "user", "written", "ended", "failed",
                                 "waiting", "parking", "leaving", "out"}]
        /\ at'[Main] \in {"user", "waiting", "parking", "leaving", "out"}
        /\ \A u \in Thread : at'[u] \in {"unborn", "user", "written", "ended", "failed"}
    BY <1>1, <1>3 DEF ScopeInv, ScopeTypeOK
  <2>3. running' \in Nat /\ refs' \in [Thread -> Nat]
    BY <1>1 DEF ScopeInv, ScopeTypeOK
  <2> QED BY <1>1, <2>1, <2>2, <2>3 DEF ScopeInv, ScopeTypeOK
<1>9. Packets'
  BY <1>1, <1>2, <1>3 DEF ScopeInv, Packets
<1>10. Owners'
  <2>1. \A u \in Thread : handle'[u] # Nobody => at'[handle'[u]] = "user"
    BY <1>1, <1>2, <1>3 DEF ScopeInv, ScopeTypeOK, Owners
  <2> QED BY <1>1, <1>3, <2>1 DEF ScopeInv, Owners
<1>11. Drops'
  BY <1>2, <1>3, <1>4 DEF ScopeInv, Drops
<1>12. Count'
  <2>1. IsFiniteSet(ActiveThreads) /\ running = Cardinality(ActiveThreads)
    BY DEF ScopeInv, Count
  <2>2. IsFiniteSet(ActiveThreads') /\ Cardinality(ActiveThreads') = running + 1
    BY <1>6, <2>1, FS_AddElement
  <2> QED BY <1>1, <1>3, <1>7, <2>2 DEF Count, Left
<1>13. Knowledge'
  <2>1. ASSUME NEW b \in Unparker, NEW u \in Thread, Dropping(b, u)'
        PROVE  /\ at'[u] = "ended" => <<"ran", u>> \in knows'[b]
               /\ task'[b].step # "result" => <<"freed", u>> \in knows'[b]
    <3>1. b # t
      BY <1>2, <1>4, <2>1, TaskFields DEF Dropping
    <3> QED BY <1>1, <1>2, <1>3, <1>4, <2>1, <3>1 DEF ScopeInv, Knowledge
  <2>2. \A u \in Thread : u \in Unparker
    BY DEF Thread
  <2> QED BY <1>1, <1>3, <1>5, <2>1, <2>2 DEF ScopeInv, Knowledge
<1>14. WorkVisible' /\ PanicsReported'
  BY <1>3, <1>7 DEF WorkVisible, PanicsReported, Left
<1>15. PanicKept' /\ FlagDue'
  BY <1>1 DEF ScopeInv, PanicKept, FlagDue, AtStep
<1>16. FlagTrue' /\ Outcomes'
  BY <1>1, <1>2, <1>3 DEF ScopeInv, FlagTrue, Outcomes
<1>17. ResultHeld'
  BY <1>1, <1>2, <1>3 DEF ScopeInv, ResultHeld, AtStep
<1> QED BY <1>8, <1>9, <1>10, <1>11, <1>12, <1>13, <1>14, <1>15, <1>16, <1>17 DEF ScopeInv

\* a, in user code, becomes the one who drops the packet of t.
LEMMA BecomesDropping ==
  ASSUME ScopeInv, NEW a \in Unparker, NEW t \in Thread, task[a] = NoTask,
         task' = [task EXCEPT ![a] = [step |-> "result", packet |-> t]]
  PROVE  /\ task' \in [Unparker -> {NoTask} \union Tasks]
         /\ task'[a].step = "result" /\ task'[a].packet = t
         /\ \A b \in Unparker : b # a => task'[b] = task[b]
         /\ \A u \in Thread : ~Dropping(a, u)
         /\ \A b \in Unparker, u \in Thread : Dropping(b, u)' <=> Dropping(b, u) \/ (b = a /\ u = t)
         /\ \A b \in Unparker, u \in Thread : AtStep(b, u, "flag")' <=> AtStep(b, u, "flag")
         /\ \A b \in Unparker, u \in Thread :
              AtStep(b, u, "result")' <=> AtStep(b, u, "result") \/ (b = a /\ u = t)
<1>1. /\ task' \in [Unparker -> {NoTask} \union Tasks]
      /\ task'[a] = [step |-> "result", packet |-> t]
      /\ \A b \in Unparker : b # a => task'[b] = task[b]
  BY TaskFields DEF ScopeInv, ScopeTypeOK, Tasks
<1>2. task'[a].step = "result" /\ task'[a].packet = t /\ task[a].step = "none"
  BY <1>1, TaskFields
<1> QED BY <1>1, <1>2 DEF Dropping, AtStep

\* A thread that cannot be created is counted, and its packet dropped at once.
LEMMA SpawnFailsInv ==
  ASSUME ScopeInv, NEW a \in Unparker, NEW t \in Thread, SpawnFails(a, t)
  PROVE  ScopeInv'
<1>1. /\ task[a] = NoTask /\ at[a] = "user" /\ at[t] = "unborn" /\ running' = running + 1
      /\ at' = [at EXCEPT ![t] = "failed"]
      /\ task' = [task EXCEPT ![a] = [step |-> "result", packet |-> t]]
      /\ UNCHANGED <<handle, refs, result, panicked, outcome, fate, knows, packetKnows, countKnows>>
  BY DEF SpawnFails, InUserCode, Free
<1>2. /\ t \in Unparker /\ t # Main /\ task[t] = NoTask /\ handle[t] = Nobody
      /\ ~Active(t) /\ fate[t] = "none" /\ result[t] = "none" /\ refs[t] = 0
      /\ \A b \in Unparker : ~Dropping(b, t)
      /\ \A u \in Thread : handle[u] # t
  BY <1>1, UnbornUnknown
<1>3. /\ \A b \in Unparker : at'[b] = IF b = t THEN "failed" ELSE at[b]
      /\ at'[Main] = at[Main] /\ at'[t] = "failed"
      /\ \A u \in Thread : u # t => at'[u] = at[u]
  BY <1>1, <1>2, ScopeAssumption DEF ScopeInv, ScopeTypeOK, Thread
<1>4. /\ task' \in [Unparker -> {NoTask} \union Tasks]
      /\ task'[a].step = "result" /\ task'[a].packet = t
      /\ \A b \in Unparker : b # a => task'[b] = task[b]
      /\ \A u \in Thread : ~Dropping(a, u)
  BY <1>1, BecomesDropping
<1>5. \A b \in Unparker, u \in Thread : Dropping(b, u)' <=> Dropping(b, u) \/ (b = a /\ u = t)
  BY <1>1, BecomesDropping
<1>6. /\ \A b \in Unparker, u \in Thread : AtStep(b, u, "flag")' <=> AtStep(b, u, "flag")
      /\ \A b \in Unparker, u \in Thread :
           AtStep(b, u, "result")' <=> AtStep(b, u, "result") \/ (b = a /\ u = t)
  BY <1>1, BecomesDropping
<1>7. \A u \in Thread : Active(u)' <=> Active(u) \/ u = t
  <2>1. \A u \in Thread : u # t => (Active(u)' <=> Active(u))
    BY <1>1, <1>3, <1>5 DEF Active
  <2> QED BY <1>5, <2>1 DEF Active
<1>8. ActiveThreads' = ActiveThreads \union {t} /\ t \notin ActiveThreads
  BY <1>2, <1>7 DEF ActiveThreads
<1>9. ~Left
  BY <1>1, UsersInside
<1>10. ScopeTypeOK'
  <2>1. /\ at' \in [Unparker -> {"unborn", "user", "written", "ended", "failed",
                                 "waiting", "parking", "leaving", "out"}]
        /\ at'[Main] \in {"user", "waiting", "parking", "leaving", "out"}
        /\ \A u \in Thread : at'[u] \in {"unborn", "user", "written", "ended", "failed"}
    BY <1>1, <1>3 DEF ScopeInv, ScopeTypeOK
  <2>2. running' \in Nat
    BY <1>1 DEF ScopeInv, ScopeTypeOK
  <2> QED BY <1>1, <1>4, <2>1, <2>2 DEF ScopeInv, ScopeTypeOK, Tasks
<1>11. Packets'
  BY <1>1, <1>2, <1>3 DEF ScopeInv, Packets
<1>12. Owners'
  <2>1. \A u \in Thread : handle'[u] # Nobody => at'[handle'[u]] = "user"
    BY <1>1, <1>2, <1>3 DEF ScopeInv, ScopeTypeOK, Owners
  <2>2. \A b \in Unparker : task'[b] # NoTask => at'[b] \in {"user", "ended"}
    BY <1>1, <1>2, <1>3, <1>4 DEF ScopeInv, Owners
  <2> QED BY <2>1, <2>2 DEF Owners
<1>13. Drops'
  BY <1>1, <1>2, <1>3, <1>5 DEF ScopeInv, Drops
<1>14. Count'
  <2>1. IsFiniteSet(ActiveThreads) /\ running = Cardinality(ActiveThreads)
    BY DEF ScopeInv, Count
  <2>2. IsFiniteSet(ActiveThreads') /\ Cardinality(ActiveThreads') = running + 1
    BY <1>8, <2>1, FS_AddElement
  <2> QED BY <1>1, <1>3, <1>9, <2>2 DEF Count, Left
<1>15. Knowledge'
  <2>1. ASSUME NEW b \in Unparker, NEW u \in Thread, Dropping(b, u)'
        PROVE  /\ at'[u] = "ended" => <<"ran", u>> \in knows'[b]
               /\ task'[b].step # "result" => <<"freed", u>> \in knows'[b]
    <3>1. CASE b = a
      BY <1>3, <1>4, <1>5, <2>1, <3>1
    <3>2. CASE b # a
      BY <1>1, <1>2, <1>3, <1>4, <1>5, <2>1, <3>2 DEF ScopeInv, Knowledge
    <3> QED BY <3>1, <3>2
  <2> QED BY <1>1, <1>3, <1>7, <2>1 DEF ScopeInv, Knowledge
<1>16. WorkVisible' /\ PanicsReported'
  BY <1>3, <1>9 DEF WorkVisible, PanicsReported, Left
<1>17. PanicKept' /\ FlagDue'
  BY <1>1, <1>6 DEF ScopeInv, PanicKept, FlagDue
<1>18. FlagTrue' /\ Outcomes'
  BY <1>1, <1>2, <1>3 DEF ScopeInv, FlagTrue, Outcomes
<1>19. ResultHeld'
  BY <1>1, <1>2, <1>3, <1>6 DEF ScopeInv, ResultHeld
<1> QED BY <1>10, <1>11, <1>12, <1>13, <1>14, <1>15, <1>16, <1>17, <1>18, <1>19 DEF ScopeInv

\* join() takes the result and drops the packet with the handle.
LEMMA JoinInv ==
  ASSUME ScopeInv, NEW a \in Unparker, NEW t \in Thread, Join(a, t)
  PROVE  ScopeInv'
<1>1. /\ task[a] = NoTask /\ at[a] = "user" /\ handle[t] = a /\ at[t] = "ended" /\ task[t] = NoTask
      /\ result' = [result EXCEPT ![t] = "none"] /\ fate' = [fate EXCEPT ![t] = "handled"]
      /\ handle' = [handle EXCEPT ![t] = Nobody] /\ refs' = [refs EXCEPT ![t] = 0]
      /\ knows' = [knows EXCEPT ![a] = knows[a] \union knows[t]]
      /\ task' = [task EXCEPT ![a] = [step |-> "result", packet |-> t]]
      /\ UNCHANGED <<at, running, panicked, outcome, packetKnows, countKnows>>
  BY DEF Join, InUserCode, Free, Exited, Learn
<1>2. t \in Unparker /\ handle[t] # Nobody /\ \A b \in Unparker : ~Dropping(b, t)
  BY <1>1, ScopeAssumption DEF ScopeInv, Drops, Thread
<1>3. /\ \A u \in Thread : u # t => /\ handle'[u] = handle[u] /\ refs'[u] = refs[u]
                                    /\ result'[u] = result[u] /\ fate'[u] = fate[u]
      /\ handle'[t] = Nobody /\ refs'[t] = 0 /\ result'[t] = "none" /\ fate'[t] = "handled"
  BY <1>1 DEF ScopeInv, ScopeTypeOK
<1>4. /\ task' \in [Unparker -> {NoTask} \union Tasks]
      /\ task'[a].step = "result" /\ task'[a].packet = t
      /\ \A b \in Unparker : b # a => task'[b] = task[b]
      /\ \A u \in Thread : ~Dropping(a, u)
  BY <1>1, BecomesDropping
<1>5. \A b \in Unparker, u \in Thread : Dropping(b, u)' <=> Dropping(b, u) \/ (b = a /\ u = t)
  BY <1>1, BecomesDropping
<1>6. /\ \A b \in Unparker, u \in Thread : AtStep(b, u, "flag")' <=> AtStep(b, u, "flag")
      /\ \A b \in Unparker, u \in Thread :
           AtStep(b, u, "result")' <=> AtStep(b, u, "result") \/ (b = a /\ u = t)
  BY <1>1, BecomesDropping
<1>7. \A u \in Thread : Active(u)' <=> Active(u)
  <2>1. Active(t)' /\ Active(t)
    BY <1>2, <1>5 DEF Active
  <2>2. \A u \in Thread : u # t => (Active(u)' <=> Active(u))
    BY <1>1, <1>3, <1>5 DEF Active
  <2> QED BY <2>1, <2>2
<1>8. ActiveThreads' = ActiveThreads
  BY <1>7 DEF ActiveThreads
<1>9. ~Left
  BY <1>1, UsersInside
<1>10. knows' \in [Unparker -> SUBSET Events] /\ \A b \in Unparker : knows[b] \subseteq knows'[b]
  BY <1>1, <1>2 DEF ScopeInv, ScopeTypeOK
<1>11. ScopeTypeOK'
  <2>1. handle' \in [Thread -> Unparker \union {Nobody}] /\ refs' \in [Thread -> Nat]
    BY <1>1 DEF ScopeInv, ScopeTypeOK
  <2> QED BY <1>1, <1>4, <1>10, <2>1 DEF ScopeInv, ScopeTypeOK, Tasks
<1>12. Packets'
  BY <1>1, <1>3 DEF ScopeInv, Packets
<1>13. Owners'
  BY <1>1, <1>3, <1>4 DEF ScopeInv, Owners
<1>14. Drops' /\ Count'
  <2>1. Drops'
    BY <1>1, <1>2, <1>3, <1>5 DEF ScopeInv, Drops
  <2> QED BY <1>1, <1>8, <2>1 DEF ScopeInv, Count, Left
<1>15. Knowledge'
  <2>1. <<"ran", t>> \in knows'[a]
    <3>1. <<"ran", t>> \in knows[t]
      BY <1>1 DEF ScopeInv, Knowledge
    <3> QED BY <1>1, <3>1 DEF ScopeInv, ScopeTypeOK
  <2>2. ASSUME NEW b \in Unparker, NEW u \in Thread, Dropping(b, u)'
        PROVE  /\ at'[u] = "ended" => <<"ran", u>> \in knows'[b]
               /\ task'[b].step # "result" => <<"freed", u>> \in knows'[b]
    <3>1. CASE b = a
      BY <1>4, <1>5, <2>1, <2>2, <3>1
    <3>2. CASE b # a
      BY <1>1, <1>4, <1>5, <1>10, <2>2, <3>2 DEF ScopeInv, Knowledge
    <3> QED BY <3>1, <3>2
  <2>3. \A u \in Thread : u \in Unparker
    BY DEF Thread
  <2> QED BY <1>1, <1>3, <1>7, <1>10, <2>2, <2>3 DEF ScopeInv, Knowledge
<1>16. WorkVisible' /\ PanicsReported'
  BY <1>1, <1>9 DEF WorkVisible, PanicsReported, Left
<1>17. PanicKept' /\ FlagDue'
  <2>1. \A b \in Unparker : ~AtStep(b, t, "flag")
    BY <1>2 DEF Dropping, AtStep
  <2> QED BY <1>1, <1>3, <1>6, <2>1 DEF ScopeInv, PanicKept, FlagDue
<1>18. FlagTrue' /\ Outcomes'
  BY <1>1, <1>2, <1>3 DEF ScopeInv, FlagTrue, Outcomes
<1>19. ResultHeld'
  BY <1>1, <1>3, <1>6 DEF ScopeInv, ResultHeld
<1> QED BY <1>11, <1>12, <1>13, <1>14, <1>15, <1>16, <1>17, <1>18, <1>19 DEF ScopeInv

\* Main moves on after its closure.
LEMMA MainMoves ==
  ASSUME ScopeInv, NEW l \in {"waiting", "parking", "leaving", "out"},
         at' = [at EXCEPT ![Main] = l], task[Main] = NoTask, \A t \in Thread : handle[t] # Main,
         UNCHANGED <<task, handle, refs, result, running, panicked, fate, packetKnows, countKnows>>,
         knows' \in [Unparker -> SUBSET Events], \A b \in Unparker : knows[b] \subseteq knows'[b],
         l \in {"leaving", "out"} => ActiveThreads = {},
         WorkVisible', Outcomes', PanicsReported'
  PROVE  ScopeInv'
<1>1. /\ \A b \in Unparker : b # Main => at'[b] = at[b]
      /\ \A t \in Thread : t \in Unparker /\ t # Main /\ at'[t] = at[t]
      /\ at'[Main] = l
  BY ScopeAssumption DEF ScopeInv, ScopeTypeOK, Thread
<1>2. \A b \in Unparker, u \in Thread : Dropping(b, u)' <=> Dropping(b, u)
  BY DEF Dropping
<1>3. ActiveThreads' = ActiveThreads /\ \A u \in Thread : Active(u)' <=> Active(u)
  <2>1. \A u \in Thread : Active(u)' <=> Active(u)
    BY <1>1, <1>2 DEF Active
  <2> QED BY <2>1 DEF ActiveThreads
<1>4. ScopeTypeOK'
  BY <1>1 DEF ScopeInv, ScopeTypeOK
<1>5. Packets'
  BY <1>1 DEF ScopeInv, Packets
<1>6. Owners'
  <2>1. \A t \in Thread : handle'[t] # Nobody => at'[handle'[t]] = "user"
    BY <1>1 DEF ScopeInv, ScopeTypeOK, Owners
  <2> QED BY <1>1, <2>1 DEF ScopeInv, Owners
<1>7. Drops' /\ Count'
  BY <1>1, <1>2, <1>3 DEF ScopeInv, Drops, Count, Left
<1>8. Knowledge'
  <2>1. ASSUME NEW b \in Unparker, NEW u \in Thread, Dropping(b, u)'
        PROVE  /\ at'[u] = "ended" => <<"ran", u>> \in knows'[b]
               /\ task'[b].step # "result" => <<"freed", u>> \in knows'[b]
    BY <1>1, <1>2, <2>1 DEF ScopeInv, Knowledge
  <2> QED BY <1>1, <1>3, <2>1 DEF ScopeInv, Knowledge
<1>9. PanicKept' /\ FlagDue'
  BY DEF ScopeInv, PanicKept, FlagDue, AtStep
<1>10. FlagTrue' /\ ResultHeld'
  BY <1>1 DEF ScopeInv, FlagTrue, ResultHeld, AtStep
<1> QED BY <1>4, <1>5, <1>6, <1>7, <1>8, <1>9, <1>10 DEF ScopeInv

\* After its closure Main holds no handle and drops no packet.
LEMMA MainAlone ==
  ASSUME ScopeInv, at[Main] # "user"
  PROVE  task[Main] = NoTask /\ \A t \in Thread : handle[t] # Main
BY ScopeAssumption DEF ScopeInv, ScopeTypeOK, Owners

\* The scope's closure ends.
LEMMA ClosureEndsInv == ScopeInv /\ ClosureEnds => ScopeInv'
<1> SUFFICES ASSUME ScopeInv, ClosureEnds PROVE ScopeInv'
  OBVIOUS
<1>1. /\ task[Main] = NoTask /\ at[Main] = "user" /\ at' = [at EXCEPT ![Main] = "waiting"]
      /\ at'[Main] = "waiting" /\ outcome' \in {"returned", "unwound"}
      /\ \A t \in Thread : handle[t] # Main
      /\ UNCHANGED <<task, handle, refs, result, running, panicked, fate, knows, packetKnows,
                     countKnows>>
  BY ScopeAssumption DEF ClosureEnds, InUserCode, Free, ScopeInv, ScopeTypeOK
<1>2. WorkVisible' /\ Outcomes' /\ PanicsReported'
  BY <1>1 DEF WorkVisible, Left, Outcomes, PanicsReported
<1>3. knows' \in [Unparker -> SUBSET Events] /\ \A b \in Unparker : knows[b] \subseteq knows'[b]
  BY <1>1 DEF ScopeInv, ScopeTypeOK
<1> QED BY <1>1, <1>2, <1>3, MainMoves

\* The load that finds zero: every thread is counted off, and what it did is
\* known to the count.
LEMMA LoadInv == ScopeInv /\ Load => ScopeInv'
<1> SUFFICES ASSUME ScopeInv, Load PROVE ScopeInv'
  OBVIOUS
<1> DEFINE l == IF running # 0 THEN "parking" ELSE "leaving"
<1>1. /\ at[Main] = "waiting" /\ at' = [at EXCEPT ![Main] = l] /\ at'[Main] = l
      /\ knows' = [knows EXCEPT ![Main] = knows[Main] \union countKnows]
      /\ UNCHANGED <<task, handle, refs, result, running, panicked, outcome, fate, packetKnows,
                     countKnows>>
  BY ScopeAssumption DEF Load, Learn, ScopeInv, ScopeTypeOK
<1>2. /\ knows' \in [Unparker -> SUBSET Events] /\ \A b \in Unparker : knows[b] \subseteq knows'[b]
      /\ countKnows \subseteq knows'[Main]
  BY <1>1, ScopeAssumption DEF ScopeInv, ScopeTypeOK
<1>3. running = 0 => ActiveThreads = {}
  BY FS_EmptySet DEF ScopeInv, Count
<1>4. WorkVisible'
  <2> SUFFICES ASSUME Left', NEW t \in Thread, at'[t] = "ended"
               PROVE  {<<"ran", t>>, <<"freed", t>>} \subseteq knows'[Main]
    BY DEF WorkVisible
  <2>1. running = 0
    BY <1>1 DEF Left
  <2>2. at[t] = "ended" /\ ~Active(t)
    BY <1>1, <1>3, <2>1 DEF ScopeInv, ScopeTypeOK, ActiveThreads, Thread
  <2>3. {<<"ran", t>>, <<"freed", t>>} \subseteq countKnows
    BY <2>2 DEF ScopeInv, Knowledge
  <2> QED BY <1>2, <2>3
<1>5. Outcomes' /\ PanicsReported'
  <2>1. at'[Main] \in {"parking", "leaving"} /\ outcome' = outcome
    BY <1>1
  <2>2. outcome \in {"returned", "unwound"}
    BY <1>1 DEF ScopeInv, Outcomes
  <2> QED BY <2>1, <2>2 DEF Outcomes, PanicsReported
<1>6. task[Main] = NoTask /\ \A t \in Thread : handle[t] # Main
  BY <1>1, MainAlone
<1> QED BY <1>1, <1>2, <1>3, <1>4, <1>5, <1>6, MainMoves

\* The scope's caller parks.
LEMMA ScopeParksInv == ScopeInv /\ ScopeParks => ScopeInv'
<1> SUFFICES ASSUME ScopeInv, ScopeParks PROVE ScopeInv'
  OBVIOUS
<1>1. /\ at[Main] = "parking" /\ at' = [at EXCEPT ![Main] = "waiting"] /\ at'[Main] = "waiting"
      /\ UNCHANGED <<task, handle, refs, result, running, panicked, outcome, fate, knows,
                     packetKnows, countKnows>>
  BY ScopeAssumption DEF ScopeParks, ScopeInv, ScopeTypeOK
<1>2. WorkVisible' /\ Outcomes' /\ PanicsReported'
  BY <1>1 DEF ScopeInv, WorkVisible, Left, Outcomes, PanicsReported
<1>3. knows' \in [Unparker -> SUBSET Events] /\ \A b \in Unparker : knows[b] \subseteq knows'[b]
  BY <1>1 DEF ScopeInv, ScopeTypeOK
<1>4. task[Main] = NoTask /\ \A t \in Thread : handle[t] # Main
  BY <1>1, MainAlone
<1> QED BY <1>1, <1>2, <1>3, <1>4, MainMoves

\* scope() returns or panics: with every packet dropped, the flag tells
\* whether there was an unhandled panic.
LEMMA LeaveInv == ScopeInv /\ Leave => ScopeInv'
<1> SUFFICES ASSUME ScopeInv, Leave PROVE ScopeInv'
  OBVIOUS
<1>1. /\ at[Main] = "leaving" /\ at' = [at EXCEPT ![Main] = "out"] /\ at'[Main] = "out"
      /\ \A t \in Thread : at'[t] = at[t]
      /\ outcome' = IF outcome = "returned" /\ panicked THEN "thread panicked" ELSE outcome
      /\ UNCHANGED <<task, handle, refs, result, running, panicked, fate, knows, packetKnows,
                     countKnows>>
  BY ScopeAssumption DEF Leave, ScopeInv, ScopeTypeOK, Thread
<1>2. Left /\ ActiveThreads = {}
  BY <1>1 DEF Left, ScopeInv, Count
<1>3. panicked <=> \E t \in Thread : fate[t] = "err"
  <2>1. ASSUME NEW t \in Thread, fate[t] = "err" PROVE panicked
    <3>1. ~Active(t)
      BY <1>2 DEF ActiveThreads
    <3>2. result[t] = "none"
      BY <3>1 DEF ScopeInv, ResultHeld, AtStep, Active, Dropping
    <3>3. \A b \in Unparker : ~AtStep(b, t, "flag")
      BY <3>1 DEF AtStep, Active, Dropping
    <3> QED BY <2>1, <3>2, <3>3 DEF ScopeInv, PanicKept
  <2> QED BY <2>1 DEF ScopeInv, FlagTrue
<1>4. outcome \in {"returned", "unwound"}
  BY <1>1 DEF ScopeInv, Outcomes
<1>5. PanicsReported'
  BY <1>1, <1>3, <1>4 DEF PanicsReported
<1>6. WorkVisible' /\ Outcomes'
  BY <1>1, <1>2 DEF ScopeInv, WorkVisible, Outcomes
<1>7. knows' \in [Unparker -> SUBSET Events] /\ \A b \in Unparker : knows[b] \subseteq knows'[b]
  BY <1>1 DEF ScopeInv, ScopeTypeOK
<1>8. task[Main] = NoTask /\ \A t \in Thread : handle[t] # Main
  BY <1>1, MainAlone
<1> QED BY <1>1, <1>2, <1>5, <1>6, <1>7, <1>8, MainMoves

\* Every step of a scope keeps the invariant.
LEMMA ScopeInductive == ScopeInv /\ [ScopeNext]_allVars => ScopeInv'
<1> SUFFICES ASSUME ScopeInv, ScopeNext \/ UNCHANGED allVars PROVE ScopeInv'
  OBVIOUS
<1>1. CASE UNCHANGED allVars
  BY <1>1, ScopeUntouched DEF allVars
<1>2. ASSUME NEW a \in Unparker, Step(a) PROVE ScopeInv'
  <2>1. CASE FinishPacket(a)
    BY <2>1, DropResultInv, StoreFlagInv, FetchSubInv, UnparkMainInv DEF FinishPacket
  <2>2. CASE Waking(a)
    BY <2>2, ScopeUntouched DEF Waking
  <2>3. CASE \E t \in Thread : DropHandle(a, t)
    BY <2>3, DropHandleInv
  <2>4. CASE a \in Thread /\ (Finish(a) \/ DropTheirs(a))
    BY <2>4, FinishInv, DropTheirsInv
  <2> QED BY <1>2, <2>1, <2>2, <2>3, <2>4 DEF Step
<1>3. ASSUME NEW a \in Unparker, UserUnpark(a) PROVE ScopeInv'
  BY <1>3, ScopeUntouched DEF UserUnpark
<1>4. ASSUME NEW a \in Unparker, NEW t \in Thread, Spawn(a, t) \/ SpawnFails(a, t) \/ Join(a, t)
      PROVE  ScopeInv'
  BY <1>4, SpawnInv, SpawnFailsInv, JoinInv
<1>5. CASE MainStep
  BY <1>5, ClosureEndsInv, LoadInv, ScopeParksInv, LeaveInv, ScopeUntouched DEF MainStep, Parking
<1>6. CASE UserParks \/ ParkDisturbed
  BY <1>6, ScopeUntouched DEF UserParks, ParkDisturbed
<1> QED BY <1>1, <1>2, <1>3, <1>4, <1>5, <1>6 DEF ScopeNext

\* The invariant holds at the start.
LEMMA ScopeInitInv == ScopeInit => ScopeInv
<1> SUFFICES ASSUME ScopeInit PROVE ScopeInv
  OBVIOUS
<1>1. /\ at[Main] = "user" /\ panicked = FALSE /\ outcome = "none"
      /\ \A t \in Thread : /\ t \in Unparker /\ at[t] = "unborn" /\ handle[t] = Nobody
                           /\ refs[t] = 0 /\ result[t] = "none" /\ fate[t] = "none"
      /\ \A a \in Unparker : task[a] = NoTask /\ task[a].step = "none"
  BY ScopeAssumption, TaskFields DEF ScopeInit, Thread
<1>2. /\ \A a \in Unparker, t \in Thread : ~Dropping(a, t) /\ ~AtStep(a, t, "flag")
      /\ ActiveThreads = {}
  BY <1>1 DEF Dropping, AtStep, ActiveThreads, Active
<1>3. ScopeTypeOK
  BY <1>1, ScopeAssumption DEF ScopeInit, ScopeTypeOK, Events, Thread
<1>4. Packets /\ Owners /\ Drops
  BY <1>1, <1>2 DEF Packets, Owners, Drops
<1>5. Count
  BY <1>1, <1>2, FS_EmptySet DEF Count, Left, ScopeInit
<1>6. Knowledge /\ WorkVisible
  BY <1>1, <1>2 DEF Knowledge, WorkVisible, Left
<1>7. PanicKept /\ FlagDue /\ FlagTrue /\ ResultHeld /\ Outcomes /\ PanicsReported
  BY <1>1, <1>2 DEF PanicKept, FlagDue, FlagTrue, ResultHeld, Outcomes, PanicsReported
<1> QED BY <1>3, <1>4, <1>5, <1>6, <1>7 DEF ScopeInv

\* The inductive invariant holds in every reachable state of a scope.
THEOREM ScopeInvariance == ScopeSpec => []ScopeInv
BY ScopeInitInv, ScopeInductive, PTL DEF ScopeSpec

\* thread::scope is sound: once scope() is past its loop no closure runs and
\* no result is being dropped that could use what the scope has borrowed,
\* however many threads were spawned, and by whomever.
THEOREM ScopeBorrowsEnd == ScopeSpec => []BorrowsEnd
<1>1. ScopeInv => BorrowsEnd
  <2> SUFFICES ASSUME ScopeInv, Left, NEW a \in Unparker
               PROVE  (a \in Thread => at[a] # "user") /\ task[a].step # "result"
    BY DEF BorrowsEnd
  <2>1. \A t \in Thread : ~Active(t)
    BY DEF ScopeInv, Count, ActiveThreads
  <2>2. task[a].step = "result" => task[a].packet \in Thread
    BY TaskFields DEF ScopeInv, ScopeTypeOK, Tasks
  <2> QED BY <2>1, <2>2 DEF Active, Dropping
<1> QED BY <1>1, ScopeInvariance, PTL

\* All that the closures and the drops of their results did happens before
\* scope() returns.
THEOREM ScopeWorkVisible == ScopeSpec => []WorkVisible
<1>1. ScopeInv => WorkVisible
  BY DEF ScopeInv
<1> QED BY <1>1, ScopeInvariance, PTL

\* scope() panics for a thread exactly if a panic was not handed to a join().
THEOREM ScopePanicsReported == ScopeSpec => []PanicsReported
<1>1. ScopeInv => PanicsReported
  BY DEF ScopeInv
<1> QED BY <1>1, ScopeInvariance, PTL

\* The two unwraps in JoinInner::join never fail.
THEOREM ScopeJoinUnwraps == ScopeSpec => []JoinUnwraps
<1>1. ScopeInv => JoinUnwraps
  BY DEF ScopeInv, Packets, JoinUnwraps, Exited
<1> QED BY <1>1, ScopeInvariance, PTL

----------------------------------------------------------------------------
(* What a scope inherits from the parker *)

\* Every step of a scope is a step of the parker, or leaves it alone: Main
\* parks only from park(), and the threads reach the word only by unpark().
LEMMA ScopeStep == [ScopeNext]_allVars => [Next]_vars
<1> SUFFICES ASSUME ScopeNext \/ UNCHANGED allVars
             PROVE  Next \/ UNCHANGED vars
  OBVIOUS
<1>1. CASE UNCHANGED allVars
  BY <1>1 DEF allVars, parkerVars
<1>2. CASE \E a \in Unparker : Step(a) \/ UserUnpark(a)
                 \/ \E t \in Thread : Spawn(a, t) \/ SpawnFails(a, t) \/ Join(a, t)
  <2> PICK a \in Unparker : Step(a) \/ UserUnpark(a)
                 \/ \E t \in Thread : Spawn(a, t) \/ SpawnFails(a, t) \/ Join(a, t)
    BY <1>2
  <2>1. CASE FinishPacket(a)
    BY <2>1 DEF FinishPacket, DropResult, StoreFlag, FetchSub, UnparkMain, parkerVars, Next
  <2>2. CASE Waking(a)
    BY <2>2 DEF Waking, Next
  <2>3. CASE \E t \in Thread : DropHandle(a, t)
    BY <2>3 DEF DropHandle, parkerVars
  <2>4. CASE a \in Thread /\ (Finish(a) \/ DropTheirs(a))
    BY <2>4 DEF Finish, DropTheirs, parkerVars
  <2>5. CASE UserUnpark(a)
    BY <2>5 DEF UserUnpark, Next
  <2>6. CASE \E t \in Thread : Spawn(a, t) \/ SpawnFails(a, t) \/ Join(a, t)
    BY <2>6 DEF Spawn, SpawnFails, Join, parkerVars
  <2> QED BY <2>1, <2>2, <2>3, <2>4, <2>5, <2>6 DEF Step
<1>3. CASE MainStep \/ UserParks \/ ParkDisturbed
  BY <1>3 DEF MainStep, ClosureEnds, Load, ScopeParks, Leave, Parking, UserParks,
              ParkDisturbed, parkerVars, Next
<1> QED BY <1>1, <1>2, <1>3 DEF ScopeNext

\* thread::scope uses the parker as the parker allows.
THEOREM ScopeUsesParker == ScopeSpec => Spec
<1>1. ScopeInit => Init
  BY DEF ScopeInit
<1> QED BY <1>1, ScopeStep, PTL DEF ScopeSpec, Spec

\* In a scope with any number of threads no unpark() is lost, be it the one of
\* the last thread or one of user code.
THEOREM ScopeTokensKept == ScopeSpec => []NoLostToken
BY ScopeUsesParker, TokensKept, PTL

\* In a scope with any number of threads Main does not sleep with a token
\* that nobody is about to wake it for.
THEOREM ScopeOwnerIsWoken == ScopeSpec => []NoLostWakeup
BY ScopeUsesParker, OwnerIsWoken, PTL
=============================================================================
