------------------------------- MODULE Scope --------------------------------
(***************************************************************************)
(* thread::scope (thread/scoped.rs) with what it needs of thread/mod.rs:   *)
(* spawning, the packet a thread and its join handle share, and join.  The *)
(* thread that calls scope() is Main, the owner of the Parker; the threads *)
(* spawned in the scope, by Main or by each other, are its unparkers, and  *)
(* Main unparks itself when it drops the last packet.                      *)
(*   at[a]    user     in a closure        written  the result is stored   *)
(*            ended    their_packet is gone                                *)
(*            failed   the system refused to create the thread             *)
(*            waiting, parking, leaving, out: Main after its closure       *)
(*   task[a]  where a is in the drop of a packet it held last              *)
(* An event <<"ran", t>> or <<"freed", t>> is all that the closure of t,   *)
(* or the drop of its result, has done; who knows of it follows the        *)
(* release and acquire accesses.  Loads read the latest value.             *)
(***************************************************************************)
EXTENDS Parker

CONSTANT Main

Nobody == "nobody"

ASSUME ScopeAssumption == Main \in Unparker /\ Nobody \notin Unparker

Thread == Unparker \ {Main}

VARIABLES
  at,                 \* where each thread is
  task,               \* the drop of a packet each thread is in
  handle,             \* who has the join handle of a thread
  refs,               \* the strong count of its packet
  result,             \* the result in its packet
  running,            \* num_running_threads
  panicked,           \* a_thread_panicked
  outcome,            \* how the closure of scope(), then scope() itself ends
  fate,               \* how each closure ended and whether join() returned that
  knows,              \* the events each thread knows of
  packetKnows,        \* the ones released to the count of a packet
  countKnows          \* the ones released to num_running_threads

scopeVars == <<at, task, handle, refs, result, running, panicked, outcome, fate,
               knows, packetKnows, countKnows>>
parkerVars == vars
allVars == <<scopeVars, parkerVars>>

NoTask == [step |-> "none"]

ScopeInit ==
  /\ Init
  /\ at = [a \in Unparker |-> IF a = Main THEN "user" ELSE "unborn"]
  /\ task = [a \in Unparker |-> NoTask]
  /\ handle = [t \in Thread |-> Nobody]
  /\ refs = [t \in Thread |-> 0]
  /\ result = [t \in Thread |-> "none"]
  /\ running = 0 /\ panicked = FALSE /\ outcome = "none"
  /\ fate = [t \in Thread |-> "none"]
  /\ knows = [a \in Unparker |-> {}]
  /\ packetKnows = [t \in Thread |-> {}]
  /\ countKnows = {}

\* a can take the next step of its own code.
Free(a) == task[a] = NoTask /\ a \notin waking /\ (a = Main => pc = "idle")

InUserCode(a) == Free(a) /\ at[a] = "user"

Learn(a, events) == knows' = [knows EXCEPT ![a] = @ \union events]

----------------------------------------------------------------------------
(* Packets and the count of threads *)

\* Arc::drop: a release decrement of the count, and an acquire fence for the
\* last one, who then drops the packet.
DropRef(a, t) ==
  LET released == packetKnows[t] \union knows[a] IN
  /\ refs' = [refs EXCEPT ![t] = @ - 1]
  /\ packetKnows' = [packetKnows EXCEPT ![t] = released]
  /\ IF refs[t] = 1
     THEN Learn(a, released) /\ task' = [task EXCEPT ![a] = [step |-> "result", packet |-> t]]
     ELSE UNCHANGED <<knows, task>>

DropResultForgotten(a) ==
  /\ task[a].step = "result"
  /\ result' = [result EXCEPT ![task[a].packet] = "none"]
  /\ Learn(a, {<<"freed", task[a].packet>>})
  /\ task' = [task EXCEPT ![a].step = IF result'[task[a].packet] = "err" THEN "flag" ELSE "sub"]
  /\ UNCHANGED <<at, handle, refs, running, panicked, outcome, fate, packetKnows,
                 countKnows, parkerVars>>

DropResultLast(a) ==
  LET t == task[a].packet IN
  /\ task[a].step = "result"
  /\ refs' = [refs EXCEPT ![t] = @ - 1]
  /\ running' = running - (IF refs[t] = 0 THEN 1 ELSE 0)
  /\ task' = IF refs[t] = 0 THEN task ELSE [task EXCEPT ![a] = NoTask]
  /\ UNCHANGED <<at, handle, result, panicked, outcome, fate, knows, packetKnows,
                 countKnows, parkerVars>>

\* Packet::drop: note an unhandled panic, then drop the result, which may run
\* user code that uses what the scope has borrowed.
DropResult(a) ==
  LET t == task[a].packet IN
  /\ task[a].step = "result"
  /\ result' = [result EXCEPT ![t] = "none"]
  /\ Learn(a, {<<"freed", t>>})
  /\ task' = [task EXCEPT ![a].step = IF result[t] = "err" THEN "flag" ELSE "sub"]
  /\ UNCHANGED <<at, handle, refs, running, panicked, outcome, fate, packetKnows,
                 countKnows, parkerVars>>

\* decrement_num_running_threads: the relaxed store of the flag,
StoreFlag(a) ==
  /\ task[a].step = "flag"
  /\ panicked' = TRUE
  /\ task' = [task EXCEPT ![a].step = "sub"]
  /\ UNCHANGED <<at, handle, refs, result, running, outcome, fate, knows, packetKnows,
                 countKnows, parkerVars>>

FetchSubTests1Left(a) ==
  /\ task[a].step = "sub"
  /\ running' = running - 1
  /\ countKnows' = countKnows \union knows[a]
  /\ task' = [task EXCEPT ![a] = IF running' = 1 THEN [@ EXCEPT !.step = "unpark"] ELSE NoTask]
  /\ UNCHANGED <<at, handle, refs, result, panicked, outcome, fate, knows, packetKnows,
                 parkerVars>>

\* fetch_sub(1, Release),
FetchSub(a) ==
  /\ task[a].step = "sub"
  /\ running' = running - 1
  /\ countKnows' = countKnows \union knows[a]
  /\ task' = [task EXCEPT ![a] = IF running = 1 THEN [@ EXCEPT !.step = "unpark"] ELSE NoTask]
  /\ UNCHANGED <<at, handle, refs, result, panicked, outcome, fate, knows, packetKnows,
                 parkerVars>>

\* and the unpark() of the one that brought it to zero; scope() may have
\* returned by then.
UnparkMain(a) ==
  /\ task[a].step = "unpark"
  /\ Unpark(a)
  /\ task' = [task EXCEPT ![a] = NoTask]
  /\ UNCHANGED <<at, handle, refs, result, running, panicked, outcome, fate, knows,
                 packetKnows, countKnows>>

FinishPacket(a) ==
  DropResult(a) \/ StoreFlag(a) \/ FetchSub(a) \/ UnparkMain(a)

----------------------------------------------------------------------------
(* The code of a thread *)

\* spawn_unchecked_: the count is incremented (relaxed) before the thread
\* exists; handle and thread have a reference to the packet each.
Spawn(a, t) ==
  /\ InUserCode(a) /\ at[t] = "unborn"
  /\ running' = running + 1
  /\ at' = [at EXCEPT ![t] = "user"]
  /\ handle' = [handle EXCEPT ![t] = a]
  /\ refs' = [refs EXCEPT ![t] = 2]
  /\ knows' = [knows EXCEPT ![t] = knows[a]]
  /\ UNCHANGED <<task, result, panicked, outcome, fate, packetKnows, countKnows, parkerVars>>

SpawnFailsLeaking(a, t) ==
  /\ InUserCode(a) /\ at[t] = "unborn"
  /\ running' = running + 1
  /\ at' = [at EXCEPT ![t] = "failed"]
  /\ UNCHANGED <<task, handle, refs, result, panicked, outcome, fate, knows, packetKnows,
                 countKnows, parkerVars>>

\* The thread cannot be created: the closure and then the caller drop their
\* references, and the caller undoes the increment.
SpawnFails(a, t) ==
  /\ InUserCode(a) /\ at[t] = "unborn"
  /\ running' = running + 1
  /\ at' = [at EXCEPT ![t] = "failed"]
  /\ task' = [task EXCEPT ![a] = [step |-> "result", packet |-> t]]
  /\ UNCHANGED <<handle, refs, result, panicked, outcome, fate, knows, packetKnows,
                 countKnows, parkerVars>>

\* A join handle is dropped: by the user, or at the end of the closure.
DropHandle(a, t) ==
  /\ InUserCode(a) /\ handle[t] = a
  /\ handle' = [handle EXCEPT ![t] = Nobody]
  /\ DropRef(a, t)
  /\ UNCHANGED <<at, result, running, panicked, outcome, fate, countKnows, parkerVars>>

\* t has returned from its main function.
Exited(t) == at[t] = "ended" /\ Free(t)

\* JoinInner::join: after the native join nobody else has the packet; its
\* result is taken, and the packet is dropped with the handle.
Join(a, t) ==
  /\ InUserCode(a) /\ handle[t] = a /\ Exited(t)
  /\ refs[t] = 1 /\ result[t] # "none"
  /\ result' = [result EXCEPT ![t] = "none"]
  /\ fate' = [fate EXCEPT ![t] = "handled"]
  /\ handle' = [handle EXCEPT ![t] = Nobody]
  /\ refs' = [refs EXCEPT ![t] = 0]
  /\ Learn(a, knows[t])
  /\ task' = [task EXCEPT ![a] = [step |-> "result", packet |-> t]]
  /\ UNCHANGED <<at, running, panicked, outcome, packetKnows, countKnows, parkerVars>>

\* User code unparks Main as well.  Bound: once, before any other unpark().
UserUnpark(a) ==
  /\ InUserCode(a) /\ unparks[a] = 0
  /\ Unpark(a)
  /\ UNCHANGED scopeVars

\* The closure of t ends, its handles gone, and the result is written.
Finish(t) ==
  /\ t # Main /\ InUserCode(t) /\ \A u \in Thread : handle[u] # t
  /\ at' = [at EXCEPT ![t] = "written"]
  /\ \E r \in {"ok", "err"} :
       /\ result' = [result EXCEPT ![t] = r]
       /\ fate' = [fate EXCEPT ![t] = r]
  /\ Learn(t, {<<"ran", t>>})
  /\ UNCHANGED <<task, handle, refs, running, panicked, outcome, packetKnows, countKnows,
                 parkerVars>>

DropTheirsLeaked(t) ==
  /\ at[t] = "written"
  /\ at' = [at EXCEPT ![t] = "ended"]
  /\ UNCHANGED <<task, handle, refs, result, running, panicked, outcome, fate, knows,
                 packetKnows, countKnows, parkerVars>>

\* drop(their_packet), the last that t does in the scope.
DropTheirs(t) ==
  /\ at[t] = "written"
  /\ at' = [at EXCEPT ![t] = "ended"]
  /\ DropRef(t, t)
  /\ UNCHANGED <<handle, result, running, panicked, outcome, fate, countKnows, parkerVars>>

----------------------------------------------------------------------------
(* scope() *)

\* park() or park_timeout() in the closure.
UserParks ==
  /\ InUserCode(Main)
  /\ Park
  /\ UNCHANGED scopeVars

\* The closure returns or panics, its handles gone.
ClosureEnds ==
  /\ InUserCode(Main) /\ \A t \in Thread : handle[t] # Main
  /\ at' = [at EXCEPT ![Main] = "waiting"]
  /\ outcome' \in {"returned", "unwound"}
  /\ UNCHANGED <<task, handle, refs, result, running, panicked, fate, knows, packetKnows,
                 countKnows, parkerVars>>

LoadRelaxed ==
  /\ at[Main] = "waiting" /\ Free(Main)
  /\ at' = [at EXCEPT ![Main] = IF running # 0 THEN "parking" ELSE "leaving"]
  /\ UNCHANGED <<task, handle, refs, result, running, panicked, outcome, fate, knows,
                 packetKnows, countKnows, parkerVars>>

\* num_running_threads.load(Acquire) != 0
Load ==
  /\ at[Main] = "waiting" /\ Free(Main)
  /\ at' = [at EXCEPT ![Main] = IF running # 0 THEN "parking" ELSE "leaving"]
  /\ Learn(Main, countKnows)
  /\ UNCHANGED <<task, handle, refs, result, running, panicked, outcome, fate, packetKnows,
                 countKnows, parkerVars>>

\* park() until then.
ScopeParks ==
  /\ at[Main] = "parking"
  /\ Park /\ ~timed'
  /\ at' = [at EXCEPT ![Main] = "waiting"]
  /\ UNCHANGED <<task, handle, refs, result, running, panicked, outcome, fate, knows,
                 packetKnows, countKnows>>

\* The panic of the closure goes first, then one of a thread.
Leave ==
  /\ at[Main] = "leaving"
  /\ at' = [at EXCEPT ![Main] = "out"]
  /\ outcome' = IF outcome = "returned" /\ panicked THEN "thread panicked" ELSE outcome
  /\ UNCHANGED <<task, handle, refs, result, running, panicked, fate, knows, packetKnows,
                 countKnows, parkerVars>>

\* The rest of park() and unpark().
Parking == (Wait \/ Take \/ TakeTimed) /\ UNCHANGED scopeVars
ParkDisturbed == Disturb /\ UNCHANGED scopeVars
Waking(a) == WakeOwner(a) /\ UNCHANGED scopeVars

\* What a thread does once it runs, but for what its closure may leave undone.
Step(a) ==
  \/ FinishPacket(a) \/ Waking(a)
  \/ \E t \in Thread : DropHandle(a, t)
  \/ a \in Thread /\ (Finish(a) \/ DropTheirs(a))

MainStep == ClosureEnds \/ Load \/ ScopeParks \/ Leave \/ Parking

ScopeNext ==
  \/ \E a \in Unparker :
       \/ Step(a) \/ UserUnpark(a)
       \/ \E t \in Thread : Spawn(a, t) \/ SpawnFails(a, t) \/ Join(a, t)
  \/ MainStep \/ UserParks \/ ParkDisturbed

ScopeSpec == ScopeInit /\ [][ScopeNext]_allVars

\* Closures end; every thread that can run is run.
FairScopeSpec ==
  /\ ScopeSpec
  /\ \A a \in Unparker : WF_allVars(Step(a))
  /\ WF_allVars(MainStep)

----------------------------------------------------------------------------
(* Properties *)

Left == at[Main] \in {"leaving", "out"}

\* Once scope() is past its loop no code of a user can touch what the scope
\* borrowed: no closure runs, whoever spawned it, and no result is still
\* being dropped.
BorrowsEnd ==
  Left => \A a \in Unparker :
            /\ a \in Thread => at[a] # "user"
            /\ task[a].step # "result"

\* What every closure did, and the drop of every result, by whichever thread,
\* happens before scope() returns: the release of the fetch_sub, kept by the
\* increments in between, meets the acquire of the loop.
WorkVisible ==
  Left => \A t \in Thread : at[t] = "ended" => {<<"ran", t>>, <<"freed", t>>} \subseteq knows[Main]

\* scope() reports a panic of a thread if, and only if, there was one that no
\* join() has handed to somebody, also when the flag is stored by another
\* thread than the one that panicked.
PanicsReported ==
  at[Main] = "out" /\ outcome # "unwound" =>
    (outcome = "thread panicked" <=> \E t \in Thread : fate[t] = "err")

\* The two unwraps of JoinInner::join never fail: a thread that has exited
\* has left its packet to the handle, with a result in it.
JoinUnwraps ==
  \A t \in Thread : Exited(t) /\ handle[t] # Nobody => refs[t] = 1 /\ result[t] # "none"

\* scope() returns: the unpark() of the last thread is neither lost nor taken
\* by a park() before the loop, and a refused thread is not waited for.
ScopeReturns == at[Main] = "waiting" ~> at[Main] = "out"
=============================================================================
