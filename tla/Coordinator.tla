---------------------------- MODULE Coordinator ----------------------------
(* The back end's scheduler: the main thread translates codegen units, the  *)
(* coordinator thread decides who may work, one thread per work item runs   *)
(* LLVM, and jobserver tokens bound the parallelism                         *)
(* (rustc_codegen_ssa/src/back/write.rs, base.rs).                          *)
(*                                                                          *)
(* One turn of the coordinator's loop is Decide, Spawn, Receive: nothing it *)
(* shares with other threads is read between two receives.  Estimated costs *)
(* only order the queue, so any item may be popped; worker ids only name    *)
(* threads in profiles.  Neither is modelled.                               *)
EXTENDS Integers, Sequences, FiniteSets

CONSTANTS
  \* The codegen units are 1..NumUnits; unit 0 is the allocator shim.
  NumUnits,
  \* The sessions to look at: see Options.
  Sessions,
  \* A bound on the errors and panics of workers and the jobserver's errors.
  MaxFaults

ASSUME ConstantsAssumption == NumUnits \in Nat \ {0} /\ MaxFaults \in Nat

\* The session: sess.lto(), -Z combine-cgu, not -Z no-parallel-llvm, and where
\* the main thread starts: with the allocator shim, without one, or with
\* nothing to translate (-Z no-codegen).
Complete == NumUnits + 1
Options ==
  [lto : {"No", "ThinLocal", "Thin", "Fat"}, combine : BOOLEAN,
   parallel : BOOLEAN, first : {0, 1, Complete}]

ASSUME SessionsAssumption == Sessions \subseteq Options

VARIABLES
  opt,              \* what the session asks for, fixed from the start
  mpc,              \* main thread: start, wait, codegen, join, unwind, drop, done
  unit,             \* the unit the main thread translates next
  signals,          \* CodegenItem messages to the main thread
  inbox,            \* messages to the coordinator, in order of arrival
  requests,         \* token requests the jobserver has not answered
  workers,          \* work items whose thread is running
  faults,           \* faults so far, for the bound
  cpc,              \* coordinator: decide, spawn, recv, ok, err, panicked
  codegen_done, codegen_aborted, started_lto,
  work_items,       \* the queue
  tokens, running,  \* tokens held, workers that count against them
  mstate,           \* main_thread_worker_state
  needs_lto,        \* needs_fat_lto or needs_thin_lto: units
  import_only,      \* lto_import_only_modules: units
  needs_link, compiled

mainVars  == <<mpc, unit>>
flags     == <<codegen_done, codegen_aborted, started_lto>>
collected == <<needs_lto, import_only, needs_link, compiled>>
sched     == <<work_items, tokens, running, mstate>>
coord     == <<cpc, flags, sched, collected>>
vars      == <<opt, mainVars, signals, inbox, requests, workers, faults, coord>>

Units == 0..NumUnits
AllUnits == opt.first..NumUnits
Item(kind, us) == [kind |-> kind, units |-> us]
Message(t, body) == [t |-> t, body |-> body]

\* compute_per_cgu_lto_type
ComputedLtoType(u) ==
  CASE opt.lto = "No" -> "No"
    [] opt.lto = "ThinLocal" -> IF u = 0 THEN "No" ELSE "Thin"
    [] OTHER -> opt.lto

\* What determine_cgu_reuse may find for a unit.  A session that combines its
\* units is taken not to be incremental.
CguReuse ==
  IF opt.combine THEN {"No"}
  ELSE {"No", IF ComputedLtoType(1) = "No" THEN "PostLto" ELSE "PreLto"}

Gone == cpc \in {"ok", "err", "panicked"}

\* A send to a coordinator that is gone is dropped.
Send(m) == inbox' = IF Gone THEN inbox ELSE Append(inbox, m)

Fault == faults < MaxFaults /\ faults' = faults + 1

Init ==
  /\ opt \in Sessions
  /\ mpc = "start" /\ unit = opt.first
  /\ signals = 0 /\ inbox = <<>> /\ requests = 0 /\ workers = {} /\ faults = 0
  /\ cpc = "decide"
  /\ codegen_done = FALSE /\ codegen_aborted = FALSE /\ started_lto = FALSE
  /\ work_items = {} /\ tokens = 0 /\ running = 0 /\ mstate = "Idle"
  /\ needs_lto = {} /\ import_only = {} /\ needs_link = {} /\ compiled = {}

-----------------------------------------------------------------------------
(* The main thread.                                                         *)

\* The shim is translated, or there is none: the main thread waits for leave.
MainReady ==
  /\ mpc = "start" /\ mpc' = "wait"
  /\ UNCHANGED <<opt, unit, signals, inbox, requests, workers, faults, coord>>

\* wait_for_signal_to_codegen_item; when the coordinator's end of the channel
\* is dropped it falls through.
MainWait ==
  /\ mpc = "wait"
  /\ \/ signals > 0 /\ signals' = signals - 1
     \/ signals = 0 /\ Gone /\ UNCHANGED signals
  /\ mpc' = "codegen"
  /\ UNCHANGED <<opt, unit, inbox, requests, workers, faults, coord>>

\* The loop over codegen_units, and the shim before it: translate a unit, or
\* find its cached module, and submit it.
MainSubmit ==
  /\ mpc = "codegen" /\ unit < Complete
  /\ \E reuse \in IF unit = 0 THEN {"No"} ELSE CguReuse :
       Send(CASE reuse = "No" -> Message("CodegenDone", Item("Optimize", {unit}))
              [] reuse = "PostLto" -> Message("CodegenDone", Item("Copy", {unit}))
              [] reuse = "PreLto" -> Message("AddImportOnlyModule", {unit}))
  /\ unit' = unit + 1 /\ mpc' = "wait"
  /\ UNCHANGED <<opt, signals, requests, workers, faults, coord>>

\* codegen_finished
MainComplete ==
  /\ mpc = "codegen" /\ unit = Complete
  /\ Send(Message("CodegenComplete", {}))
  /\ mpc' = "join"
  /\ UNCHANGED <<opt, unit, signals, requests, workers, faults, coord>>

\* An error of this crate, of a worker or of the driver unwinds the main
\* thread; dropping OngoingCodegen drops the receiver of signals first ...
MainUnwind ==
  /\ mpc \in {"start", "codegen", "join"}
  /\ mpc' = "unwind"
  /\ UNCHANGED <<opt, unit, signals, inbox, requests, workers, faults, coord>>

\* Mutant: the drop only joins.
MainDropSilent ==
  /\ mpc = "unwind" /\ mpc' = "drop"
  /\ UNCHANGED <<opt, unit, signals, inbox, requests, workers, faults, coord>>

\* ... and then the Coordinator, whose drop tells the thread to stop ...
MainDrop ==
  /\ mpc = "unwind"
  /\ Send(Message("CodegenAborted", {}))
  /\ mpc' = "drop"
  /\ UNCHANGED <<opt, unit, signals, requests, workers, faults, coord>>

\* ... and joins it.  OngoingCodegen::join also waits, in the blocking check
\* of the diagnostics, for every thread that can send one.
MainJoin ==
  /\ \/ mpc = "drop"
     \/ mpc = "join" /\ workers = {}
  /\ Gone
  /\ mpc' = "done"
  /\ UNCHANGED <<opt, unit, signals, inbox, requests, workers, faults, coord>>

-----------------------------------------------------------------------------
(* The jobserver's helper thread: a request is answered by a token, or by   *)
(* an error of the operating system, when the environment gets to it.       *)

Answer ==
  /\ requests > 0 /\ ~Gone
  /\ requests' = requests - 1
  /\ \/ Send(Message("Token", {})) /\ UNCHANGED faults
     \/ Fault /\ Send(Message("TokenErr", {}))
  /\ UNCHANGED <<opt, mainVars, signals, workers, coord>>

-----------------------------------------------------------------------------
(* The worker threads: execute_work_item, and the Bomb that reports.        *)

\* finish_intra_module_work
Finish(item) ==
  IF opt.combine /\ item # Item("Optimize", {0}) THEN "NeedsLink" ELSE "Done"

WorkResult(item) ==
  CASE item.kind = "Copy" -> "Done"
    [] item.kind = "LTO" -> Finish(item)
    [] item.kind = "Optimize" ->
         IF \A u \in item.units : ComputedLtoType(u) = "No"
         THEN Finish(item) ELSE "NeedsLTO"

Work(item) ==
  /\ workers' = workers \ {item}
  /\ \/ Send(Message(WorkResult(item), item.units)) /\ UNCHANGED faults
     \/ Fault /\ item.kind # "Copy" /\ Send(Message("Fatal", {}))
     \/ Fault /\ Send(Message("Panic", {}))
  /\ UNCHANGED <<opt, mainVars, signals, requests, coord>>

-----------------------------------------------------------------------------
(* The coordinator thread.                                                  *)

\* Mutants: cached modules, or the worker on the implicit token, are forgotten.
KeepGoingNoImportOnly ==
  \/ ~codegen_done \/ running > 0 \/ mstate = "LLVMing"
  \/ ~codegen_aborted /\ ~(work_items = {} /\ needs_lto = {} /\ mstate = "Idle")

KeepGoingNoImplicit ==
  \/ ~codegen_done \/ running > 0
  \/ /\ ~codegen_aborted
     /\ ~(/\ work_items = {} /\ needs_lto = {} /\ import_only = {}
          /\ mstate = "Idle")

\* The loop's condition.
KeepGoing ==
  \/ ~codegen_done
  \/ running > 0
  \/ mstate = "LLVMing"
  \/ /\ ~codegen_aborted
     /\ ~(/\ work_items = {} /\ needs_lto = {} /\ import_only = {}
          /\ mstate = "Idle")

QueueFullEnough(items_in_queue, workers_running) ==
  LET quarter_of_workers == workers_running - (3 * workers_running) \div 4
  IN items_in_queue > 0 /\ items_in_queue >= quarter_of_workers

\* The number of workers there will be once every token is put to use.
AnticipatedRunning ==
  LET extra == tokens - running
      queued == Cardinality(work_items)
  IN running + (IF extra < queued THEN extra ELSE queued) + 1

TellMainToCodegen ==
  ~codegen_done /\ mstate = "Idle"
    /\ ~QueueFullEnough(Cardinality(work_items), AnticipatedRunning)

\* A popped item runs on the implicit token.
LLVMOnImplicitToken(items) ==
  \E item \in items :
    /\ work_items' = items \ {item}
    /\ workers' = workers \cup {item}
    /\ mstate' = "LLVMing"

ReceiverDropped == mpc \in {"unwind", "drop", "done"}

\* Units are still to be translated: the implicit token lets the main thread
\* translate another, or runs LLVM when the queue is full enough.
DecideCodegen ==
  /\ TellMainToCodegen /\ ~ReceiverDropped
  /\ signals' = signals + 1
  /\ mstate' = "Codegenning"
  /\ UNCHANGED <<requests, workers, started_lto, work_items, running,
                 needs_lto, import_only>>

DecideLLVM ==
  /\ ~codegen_done /\ mstate = "Idle" /\ ~TellMainToCodegen
  /\ LLVMOnImplicitToken(work_items)
  /\ UNCHANGED <<signals, requests, started_lto, running, needs_lto, import_only>>

\* The main thread is busy, or nothing more is to be started.
DecideNothing ==
  /\ IF codegen_done THEN codegen_aborted \/ mstate = "LLVMing" ELSE mstate # "Idle"
  /\ UNCHANGED <<signals, requests, workers, started_lto, work_items, running,
                 mstate, needs_lto, import_only>>

\* Everything is translated: the free implicit token starts an item, or takes
\* over for a worker.
DecideImplicit ==
  /\ codegen_done /\ ~codegen_aborted /\ mstate = "Idle"
  /\ LLVMOnImplicitToken(work_items)
  /\ UNCHANGED <<signals, requests, started_lto, running, needs_lto, import_only>>

DecideTakeOver ==
  /\ codegen_done /\ ~codegen_aborted /\ mstate = "Idle"
  /\ work_items = {} /\ running > 0
  /\ running' = running - 1
  /\ mstate' = "LLVMing"
  /\ UNCHANGED <<signals, requests, workers, started_lto, work_items, needs_lto,
                 import_only>>

\* generate_lto_work: one module for fat LTO; for thin LTO a job per module,
\* a copy for a cached module whose LTO key has not changed.
LtoWork(copied) ==
  IF opt.lto = "Fat" /\ needs_lto # {}
  THEN {Item("LTO", needs_lto \cup import_only)}
  ELSE {Item(IF u \in copied THEN "Copy" ELSE "LTO", {u}) :
          u \in needs_lto \cup import_only}

LTOIsDue ==
  /\ codegen_done /\ ~codegen_aborted /\ mstate = "Idle"
  /\ work_items = {} /\ running = 0

\* All that LTO waits for is there: prepare its work and start on it.
DecideLTO ==
  /\ LTOIsDue
  /\ \E copied \in SUBSET import_only :
       LET work == LtoWork(copied) IN
       /\ LLVMOnImplicitToken(work)
       /\ requests' = IF opt.parallel THEN requests + Cardinality(work) ELSE requests
  /\ needs_lto' = {} /\ import_only' = {} /\ started_lto' = TRUE
  /\ UNCHANGED <<signals, running>>

Decide ==
  /\ cpc = "decide" /\ KeepGoing /\ cpc' = "spawn"
  /\ \/ DecideCodegen \/ DecideLLVM \/ DecideNothing
     \/ DecideImplicit \/ DecideTakeOver \/ DecideLTO
  /\ UNCHANGED <<opt, mainVars, inbox, faults, codegen_done, codegen_aborted,
                 tokens, needs_link, compiled>>

\* How many items the free tokens allow to start.
ToSpawn ==
  LET free == tokens - running
      queued == Cardinality(work_items)
  IN IF codegen_aborted THEN 0 ELSE IF free < queued THEN free ELSE queued

\* tokens.truncate(running)
Relinquish == IF running' < tokens THEN running' ELSE tokens

\* Start what the tokens allow, and give back the tokens nobody needs.
Spawn ==
  /\ cpc = "spawn" /\ cpc' = "recv"
  /\ \E items \in SUBSET work_items :
       /\ Cardinality(items) = ToSpawn
       /\ work_items' = work_items \ items
       /\ workers' = workers \cup items
       /\ running' = running + ToSpawn
  /\ tokens' = Relinquish
  /\ UNCHANGED <<opt, mainVars, signals, inbox, requests, faults, flags,
                 mstate, collected>>

\* free_worker: the worker that ran on the implicit token, if there is one,
\* is taken to be the one that ended.
FreeWorker ==
  IF mstate = "LLVMing" THEN mstate' = "Idle" /\ UNCHANGED running
                        ELSE running' = running - 1 /\ UNCHANGED mstate

Pop(t) == inbox # <<>> /\ Head(inbox).t = t
Body == Head(inbox).body

\* Mutant: the worker set free from the implicit token is not counted.
RecvTokenUncounted ==
  /\ Pop("Token")
  /\ tokens' = tokens + 1
  /\ mstate' = IF mstate = "LLVMing" THEN "Idle" ELSE mstate
  /\ UNCHANGED <<requests, codegen_done, codegen_aborted, work_items, running,
                 collected>>

\* A token: the worker on the implicit token becomes a regular one.
RecvToken ==
  /\ Pop("Token")
  /\ tokens' = tokens + 1
  /\ IF mstate = "LLVMing" THEN mstate' = "Idle" /\ running' = running + 1
                           ELSE UNCHANGED <<mstate, running>>
  /\ UNCHANGED <<requests, codegen_done, codegen_aborted, work_items, collected>>

\* Mutant: no token is asked for while one is in use.
RecvCodegenDoneLazy ==
  /\ Pop("CodegenDone")
  /\ work_items' = work_items \cup {Body}
  /\ requests' = IF opt.parallel /\ running = 0 THEN requests + 1 ELSE requests
  /\ mstate' = "Idle"
  /\ UNCHANGED <<codegen_done, codegen_aborted, tokens, running, collected>>

\* A translated unit joins the queue and a token is asked for.
RecvCodegenDone ==
  /\ Pop("CodegenDone")
  /\ work_items' = work_items \cup {Body}
  /\ requests' = IF opt.parallel THEN requests + 1 ELSE requests
  /\ mstate' = "Idle"
  /\ UNCHANGED <<codegen_done, codegen_aborted, tokens, running, collected>>

RecvCodegenComplete ==
  /\ Pop("CodegenComplete")
  /\ codegen_done' = TRUE /\ mstate' = "Idle"
  /\ UNCHANGED <<requests, codegen_aborted, work_items, tokens, running, collected>>

RecvCodegenAborted ==
  /\ Pop("CodegenAborted")
  /\ codegen_done' = TRUE /\ codegen_aborted' = TRUE
  /\ UNCHANGED <<requests, sched, collected>>

\* A worker is done with its item: compiled, to be linked or to go to LTO.
RecvResult ==
  /\ Pop("Done") \/ Pop("NeedsLink") \/ Pop("NeedsLTO")
  /\ FreeWorker
  /\ compiled' = IF Pop("Done") THEN compiled \cup Body ELSE compiled
  /\ needs_link' = IF Pop("NeedsLink") THEN needs_link \cup Body ELSE needs_link
  /\ needs_lto' = IF Pop("NeedsLTO") THEN needs_lto \cup Body ELSE needs_lto
  /\ UNCHANGED <<requests, codegen_done, codegen_aborted, work_items, tokens,
                 import_only>>

\* A cached module that LTO only imports from.
RecvImportOnly ==
  /\ Pop("AddImportOnlyModule") /\ ~codegen_done
  /\ import_only' = import_only \cup Body
  /\ mstate' = "Idle"
  /\ UNCHANGED <<requests, codegen_done, codegen_aborted, work_items, tokens,
                 running, needs_lto, needs_link, compiled>>

\* Mutant: codegen is done, but not aborted.
RecvFatalNotAborted ==
  /\ Pop("Fatal")
  /\ FreeWorker
  /\ codegen_done' = TRUE
  /\ UNCHANGED <<requests, codegen_aborted, work_items, tokens, collected>>

\* A worker met an error it has reported: finish what runs, start nothing.
RecvFatal ==
  /\ Pop("Fatal")
  /\ FreeWorker
  /\ codegen_done' = TRUE /\ codegen_aborted' = TRUE
  /\ UNCHANGED <<requests, work_items, tokens, collected>>

Receive ==
  /\ cpc = "recv" /\ cpc' = "decide"
  /\ \/ RecvToken \/ RecvCodegenDone \/ RecvCodegenComplete
     \/ RecvCodegenAborted \/ RecvResult \/ RecvImportOnly \/ RecvFatal
  /\ inbox' = Tail(inbox)
  /\ UNCHANGED <<opt, mainVars, signals, workers, faults, started_lto>>

\* The thread ends: its locals, both channels, the tokens and the helper
\* thread with its requests are dropped.  Only the result outlives it.
ThreadEnds(result, modules) ==
  /\ cpc' = result /\ compiled' = modules
  /\ inbox' = <<>> /\ requests' = 0 /\ tokens' = 0 /\ running' = 0
  /\ codegen_done' = FALSE /\ codegen_aborted' = FALSE /\ started_lto' = FALSE
  /\ work_items' = {} /\ mstate' = "Idle"
  /\ needs_lto' = {} /\ import_only' = {} /\ needs_link' = {}
  /\ UNCHANGED <<opt, mainVars, signals, faults>>

\* The end of the loop: fail, or link the combined units, which may fail too,
\* and return.
Return ==
  /\ cpc = "decide" /\ ~KeepGoing /\ UNCHANGED workers
  /\ \/ ~codegen_aborted /\ ThreadEnds("ok", compiled \cup needs_link)
     \/ (codegen_aborted \/ needs_link # {}) /\ ThreadEnds("err", {})

\* spawn_work's thread is refused: the one on the implicit token, or one of those
\* the tokens allow, after others have started.
SpawnFails ==
  \/ /\ cpc = "decide" /\ KeepGoing /\ mstate = "Idle" /\ work_items # {}
     /\ IF codegen_done THEN ~codegen_aborted ELSE ~TellMainToCodegen
     /\ UNCHANGED workers
  \/ /\ cpc = "spawn"
     /\ \E items \in SUBSET work_items :
          Cardinality(items) < ToSpawn /\ workers' = workers \cup items

\* What makes the coordinator panic: a thread is refused, the main thread no
\* longer listens, LTO cannot be prepared, no token is to be had, a worker
\* panicked, and the failing assert!(!codegen_done) for a cached module.
Panic ==
  /\ \/ SpawnFails
     \/ /\ cpc = "decide" /\ KeepGoing /\ UNCHANGED workers
        /\ (TellMainToCodegen /\ ReceiverDropped) \/ LTOIsDue
     \/ /\ cpc = "recv" /\ UNCHANGED workers
        /\ \/ Pop("TokenErr") \/ Pop("Panic")
           \/ Pop("AddImportOnlyModule") /\ codegen_done
  /\ ThreadEnds("panicked", {})

Coordinate == Decide \/ Spawn \/ Receive \/ Return \/ Panic

-----------------------------------------------------------------------------
MainStep == MainReady \/ MainWait \/ MainSubmit \/ MainComplete \/ MainDrop \/ MainJoin

Next ==
  \/ MainStep
  \/ MainUnwind
  \/ Answer
  \/ \E item \in workers : Work(item)
  \/ Coordinate

Spec == Init /\ [][Next]_vars

\* Every thread runs on; a worker's LLVM work ends.  The jobserver owes no
\* token, and no error has to happen.
FairSpec ==
  /\ Spec
  /\ WF_vars(MainStep) /\ WF_vars(Coordinate)
  /\ \A us \in SUBSET Units : \A k \in {"Optimize", "Copy", "LTO"} :
       WF_vars(Item(k, us) \in workers /\ Work(Item(k, us)))

-----------------------------------------------------------------------------
(* Properties.                                                              *)

Messages(ts) == {i \in 1..Len(inbox) : inbox[i].t \in ts}
LLVMing == IF mstate = "LLVMing" THEN 1 ELSE 0

\* The threads at work never outnumber the tokens held plus the implicit one:
\* the main thread while it translates, and every LLVM worker, whether the
\* coordinator counts it as its own or on behalf of the main thread.  (A
\* coordinator that panics drops its tokens under its workers.)
TokensSuffice ==
  cpc # "panicked" =>
    Cardinality(workers) + (IF mpc \in {"start", "codegen"} THEN 1 ELSE 0) <= tokens + 1

\* What queue_full_enough's comment argues from: while the main thread is put
\* to LLVM work although units are left to translate, a token request is
\* pending, whose token will set the main thread free.
RequestPending ==
  (cpc = "recv" /\ ~codegen_done /\ mstate = "LLVMing" /\ opt.parallel) =>
    requests + Cardinality(Messages({"Token", "TokenErr"})) > 0

\* The coordinator's assertions hold where it reaches them: enough tokens for
\* the workers that run, a main thread that was told to codegen when its
\* message comes, no LTO input after LTO started, a worker to take over for,
\* nothing compiled when the combined units are linked.  assert!(!codegen_done)
\* for an import-only module is not among them: see ImportOnlyBeforeDone.
AssertionsHold ==
  /\ (cpc = "decide" /\ ~codegen_done /\ mstate = "Idle") => running <= tokens
  /\ (cpc = "decide" /\ KeepGoing /\ codegen_done /\ ~codegen_aborted) =>
       /\ mstate # "Codegenning"
       /\ (mstate = "Idle" /\ work_items = {} /\ running = 0) =>
            ~started_lto /\ needs_lto \cup import_only # {}
  /\ (cpc = "recv" /\ inbox # <<>>) =>
       /\ Head(inbox).t \in {"CodegenDone", "CodegenComplete", "AddImportOnlyModule"}
            => mstate = "Codegenning"
       /\ Head(inbox).t \in {"NeedsLTO", "AddImportOnlyModule"} => ~started_lto
  /\ (cpc = "decide" /\ ~KeepGoing /\ ~codegen_aborted /\ needs_link # {}) =>
       compiled \subseteq {0}

\* The assertion of the AddImportOnlyModule handler: no cached module arrives
\* once codegen is done.
ImportOnlyBeforeDone ==
  (cpc = "recv" /\ Pop("AddImportOnlyModule")) => ~codegen_done

\* A coordinator that returns Ok returns every unit compiled: none was lost
\* between queue, workers, LTO and linking, and none failed.  Until then no
\* unit is in two places.
OkMeansComplete ==
  /\ cpc = "ok" => compiled = AllUnits /\ needs_link = {}
  /\ LET held == {i.units : i \in work_items \cup workers}
     IN /\ \A a, b \in work_items \cup workers :
             a # b => a.units \cap b.units = {}
        /\ \A c \in {needs_lto, import_only, needs_link, compiled} :
             c \cap UNION held = {}

\* Once the main thread has joined a coordinator that did not panic, no worker
\* runs any more, whoever asked it to stop: Coordinator::drop promises to wait
\* for the worker threads.
JoinedMeansQuiet ==
  (mpc = "done" /\ cpc # "panicked") => workers = {}

\* Codegen ends: the main thread joins the coordinator after every error,
\* panic and abort, however few tokens the jobserver grants.
CodegenEnds == <>(mpc = "done")
=============================================================================
