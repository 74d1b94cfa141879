# A verification of the concurrent core of the Rust bootstrap

The repository builds rustc with Buck2. It holds the Rust 1.67 compiler
(`src/compiler`), its standard library (`src/library`) and the rules that build
the one with the other in stages (`src/toolchains`, `src/bootstrap`). This
directory holds TLA+ models of the parts whose correctness depends on the order
of steps of several threads or processes, TLC configurations that check them on small
instances, and TLAPS proofs for instances of every size.

Paths below are relative to `src/library/src/std/src/` unless they begin with
`src/`.

## The system and its parts

### Standard library

**Futex** (`sys/unix/futex.rs`). No state of its own. `futex_wait` sleeps if a
32-bit word has an expected value and returns at a wake, spuriously, after a
signal (it then tries again) or at a timeout; `futex_wake` and `futex_wake_all`
wake sleepers. Everything below calls it.

**Mutex** (`sys/unix/locks/futex_mutex.rs`, `sync/mutex.rs`, `sync/poison.rs`).
State: one word (free, locked, contended) and the poison flag. Operations: `lock`,
`try_lock`, dropping a guard, `clear_poison`. Hard: a waiter that sleeps just as
the holder leaves, the wakeup that must be handed on, the flag that is relaxed
and depends on when a panic began and where it was caught. Correct if there is
one holder at a time, who sees its predecessor's writes, nobody sleeps for ever,
and a panic that unwound through a guard is reported.

**RwLock** (`sys/unix/locks/futex_rwlock.rs`). State: a word with a 30-bit
counter and two waiting bits, and a counter writers sleep on. Operations: `read`,
`write`, their `try_` forms and the two unlocks, which share
`wake_writer_or_readers`. Hard: three compare-and-swaps in a row on a word
others change, bits that speak for threads one cannot see, the limit on readers,
systems on which `futex_wake` does not tell what it did.

**Once and OnceLock** (`sys_common/once/futex.rs`, `sync/once.rs`,
`sync/once_lock.rs`). State: a word with five values. Operations: `call_once`,
`call_once_force`, `is_completed`, `OnceState::poison`. Hard: callers that act on
an old value, closures that fail halfway. Correct if one closure runs at a time,
none after a success, and everybody who returns sees the result.

**Parker** (`sys_common/thread_parker/futex.rs`). State: a word with three
values. Operations: `park`, `park_timeout` by the owner, `unpark` by anyone. Hard:
a wrapping decrement, a timeout that races with an unpark.

**Condvar** (`sys/unix/locks/futex_condvar.rs`, `sync/condvar.rs`). State: a
notification counter. Operations: `wait` and its variants, `notify_one`,
`notify_all`. It calls the mutex. Hard: the gap between unlocking and sleeping.

**Barrier** (`sync/barrier.rs`). State: a count and a generation under a mutex.
One operation, `wait`, on the condition variable. Hard: rounds overlap.

**Channels** (`sync/mpmc/`). The bounded channel (`array.rs`) is a ring of slots
with stamps, between two packed words `head` and `tail`. It uses the wakers
(`waker.rs`), queues under a mutex with a flag read outside it, the contexts
(`context.rs`) on which a notifier, a deadline and the thread itself compete, the
parker, and the counters of handles (`counter.rs`) that decide who disconnects
and who frees. The unbounded channel (`list.rs`) and the rendezvous channel
(`zero.rs`) are siblings. Hard: everything above at once.

**Scoped threads** (`thread/scoped.rs`, with `Packet`, `JoinInner` and
`spawn_unchecked_` of `thread/mod.rs`). State: the count of running threads, a
flag for panics, and a packet per thread, which the thread and its join handle
share through an `Arc`. Operations: `scope`, `spawn` by any thread of the scope,
`join`, dropping a handle. It waits with the parker. Hard: either side drops the
packet last, and that side runs the destructor of the result, reports the panic,
counts down and unparks; the caller may leave in between. Correct if no user code
runs after `scope` returns, all of its effects are visible then, unhandled panics
are reported, and it does return.

Also concurrent, and not modelled: `ReentrantMutex` (`sys_common/remutex.rs`), the
rest of `Arc` and `Weak` (`src/library/src/alloc/src/sync.rs`).

### Compiler

**Codegen coordinator** (`src/compiler/src/rustc_codegen_ssa/src/back/write.rs`
and `base.rs`). Three kinds of threads. The main thread translates codegen units
when it is told to. The coordinator, a message loop, keeps a queue of LLVM work,
the jobserver tokens it holds, the number of workers that count against them,
and the state of the main thread, whose implicit token it also spends. Workers,
one thread per work item, report through a guard that also reports panics.
Messages: a finished unit, a cached one, a token, a result, a fatal error, abort.
Hard: tokens come late or never, workers change between tokens while they run,
LTO starts only when everything before it is over, and any thread may fail while
the others wait for it. Correct if work stays within the tokens, Ok means that
every unit is compiled, the assertions hold, and it ends with no worker left.

**Session directories** of incremental compilation
(`src/compiler/src/rustc_incremental/src/persist/fs.rs`). State: on disk, in a
directory per crate: private directories (`-working`), finalized ones, lock files
with `flock`s. Operations of a process: prepare (lock, create, copy from the newest
finalized directory), collect garbage (twice), finalize (rename, or remove after
errors). Hard: no lock covers the whole, listings are stale, removals stop
halfway, processes are killed. Correct if no session loses its directory, nobody
copies what is being removed or was invalid, and garbage directories go away.

The **dependency graph** decides which results of the last compilation are still
valid, **query jobs** wait for each other and may form cycles, the **obligation
forest** is an algorithm with an invariant on its nodes. The front end, the type
and borrow checkers and the code generators are sequential transformations of
large trees.

### Bootstrap

Rules and scripts that copy files and name the order of stages. Buck2, which
enforces it, is not in the repository.

## The modules

| Module | Models | State and actions |
|---|---|---|
| `Futex` | `futex.rs` | No state. Who may be woken; `seen`, the parties that have seen the latest write |
| `AbstractLock` | what a lock promises | an owner; Acquire, Release |
| `Mutex` | the futex mutex, its guard and poison | the word, a place in the code per thread, its local copy of the word, the flag, who is panicking |
| `RwLock` | the futex read-write lock | the word as a record, local copies, who has the current value of the counter, who has `other_writers_waiting` |
| `Once` | Once and OnceLock | the word, local copies, how the last attempt ended |
| `Parker` | the parker | the word modulo 2^32 (`Max + 1`), how many unparks of each thread the owner knows of |
| `Condvar` | the condition variable | steps only; who has the current value of the counter |
| `WaitWhile` | `wait_while` and its user | items under the mutex |
| `Barrier` | the barrier | `count`, who has the current generation |
| `AbstractBarrier` | what a barrier promises | a phase per thread; Arrive, Depart |
| `Scope` | scoped threads | extends `Parker`: a place per thread and in the drop of a packet, handles, counts, results, and what each thread knows of |
| `ArrayChannel` | the bounded channel | `head`, `tail` and stamps as packed integers, slots, the two wakers, contexts, tokens, handles |
| `Coordinator` | the codegen coordinator | the coordinator's own variables under their names, its inbox, where the main thread is, the work items being worked on |
| `SessionDirs` | session directories | per directory its name, content, lock file and locks; per process its place and its local variables |

The theorems about a module are in the `*Proofs` module of its name; those about
`Parker` are in `ScopeProofs`.
`Condvar` is built on the `AbstractLock` that `Mutex` is shown to implement;
`WaitWhile` and `Barrier` extend `Condvar`, `Scope` extends `Parker`: its actions are
the parker's, conjoined with what the scope does.

Conventions. One action is one access to shared memory or one system call, and
`pc[t]` says where in the code thread `t` is; the header of a module explains the
names. A load and a compare-and-swap that is retried until it succeeds are one
action, at the moment it succeeds, where nothing else depends on the load. A
compare-and-swap that may fail spuriously has a disjunct for it if the failure
goes somewhere else. Counters that are only compared with an earlier value of
themselves (`writer_notify`, the counter of Condvar, `generation_id`) are replaced
by the set of threads whose copy is current. That leaves out one thing, the wrap
of such a counter within a single wait.

Memory. In `Mutex`, `RwLock` and `Once` the variable `seen` follows the
release/acquire rules: a release hands the view of a thread to the word, an
acquire hands the word's view to a thread, a relaxed access hands on nothing. The
words themselves have one modification order, which is all these algorithms
use. `Scope` follows the same rules for events, what a closure or the drop of a
result has done: `knows`, and what is released to the count of a packet or of the
scope. `ArrayChannel` is checked under sequential consistency.

Coordinator. One turn of its loop is Decide, Spawn, Receive; it shares nothing
that it reads between two receives, so each is one action. Costs only order the
queue, so any item may be taken from it. A unit is a number, and a set of units
stands for the module that fat LTO makes of them. The jobserver answers requests
at any time or never; errors and panics are bounded by `MaxFaults`, except the panic
of a coordinator to which the system refuses a thread (`SpawnFails`). Linking
combined units asserts that nothing else was compiled, which needs
`-Z combine-cgu` to be used without incremental compilation, and the model
assumes that. With the few workers of the instance the quarter in
`queue_full_enough` is always one.

Session directories. Directories are numbered in the order of their timestamps,
which are taken to differ. `read_dir` of the crate directory is one step; all
other file operations are steps of their own. A removal may stop halfway, which
also stands for a process killed during it. A lock that is kept by a process is
gone when the process is. `Age`, the ten seconds of
`is_old_enough_to_be_collected`, may come to an end at any time: no property
assumes that they are long enough for anything. Of names the model keeps the kind,
and `HasTimestamp` which kinds `extract_timestamp_from_session_dir` accepts:
directories, never lock files. `copy_files` reads the listing of its source
(`ReadSource`, an error if it is gone) before it links or copies the files
(`CopyFiles`).

Users. Threads call the operations in any order, panic, catch, write data, drop
guards and handles, and are disturbed in `futex_wait` at any time.

## What the runs check

| Run | Instance | Shows |
|---|---|---|
| `mutex` | 3 threads | every holder has seen the last write; no sleeper is forgotten; poison is reported; somebody always gets in; `Mutex` implements `AbstractLock`, hence one holder |
| `rwlock` | 3 threads, at most 2 readers, a `futex_wake` that may or may not report | the word counts the holders; visibility; the assertion in `read_unlock`; the lock does not stay free while somebody waits, hence no wakeup is lost |
| `once` | 3 threads, 2 failures | one closure; its writes are seen; poison propagates; wakeups; every call ends |
| `scope` | main and 2 threads, each refused, joined, dropped, panicking or not, `park`, `park_timeout` and `unpark` in user code | no token and no wakeup of the parker is lost; no user code after `scope`; visibility; panics reported exactly; the `unwrap`s of `join`; `scope` returns |
| `wait_while` | 3 consumers, 2 producers, 2 items | items are taken, hence no notification is lost |
| `barrier` | 5 threads, 3 per round | `Barrier` implements `AbstractBarrier`; no release is lost; a released thread leaves |
| `channel` | 2 slots, 3 messages; 2 blocking senders and 1 receiver, or 1 sender and 2 receivers that try or time out | first in first out with both sides competing, disconnection only when drained, the `unwrap` of unregister, nobody stuck, nothing leaked or used after it is freed |
| `coordinator` | 2 units, 13 kinds of session, 1 fault | threads at work never exceed the tokens; the request `queue_full_enough` relies on is pending; assertions; Ok means complete; joined means no worker runs; codegen ends |
| `coordinator_import_only` | the same | a counterexample, see below |
| `session_dirs` | 2 processes, 1 finalized directory, 2 more sessions, 2 errors, 1 death | private directories are kept; readers are protected; invalid data is not reused; an undisturbed collection leaves no garbage directory |
| `session_copy` | 2 processes, 2 finalized directories, 1 error | a counterexample, see below |
| `session_leftover` | 2 processes, 1 finalized directory, 2 more sessions, 1 death | a counterexample, see below |

Each module is checked as it stands with the constants of its configuration;
`MC` modules give the channel and the session directories, whose runs check
safety alone, the symmetry of their threads and processes, and the channel and
the coordinator the sets of starting points. Deadlock is not checked where the
system may stop: a scope has returned or its closure parks for ever, codegen is
over, the bound on directories is reached.

Why the bounds are enough. The protocols treat threads alike, and each of their
races involves a thread that holds, one that is about to sleep and one that
comes from outside: three. Three threads and a maximum of two reach the counter's
limit. Five threads on a barrier for three leave stragglers of one round while
the next one fills. Two slots and three messages go round the ring and reach
stamps of the next lap. Two threads of a scope are enough for one to spawn the
other, to be last or not, and to be refused. Two units make two workers beside
the main thread, one on a token and one on the implicit token, cached and fresh
units mix, and LTO has several inputs; a second fault only meets a coordinator
that is already stopping. Two processes are a collector and a session; with
three directories there is one finalized, one private and one more generation. Two
errors let a removal and the rename after it both fail.
`MaxFailures`, `MaxUnparks`, `MaxItems`, `MaxSends`, `MaxFaults`, `MaxDeaths` and
`MaxDir` bound counters that would grow without limit; the theorems hold
for every value of those in the modules they are about.

Fairness. A thread inside an operation that can take a step eventually takes one:
the operating system schedules runnable threads (weak fairness for each thread).
Nobody has to call an operation. Guards are dropped and closures end, which is
the user's obligation; in `Scope` that of the closures, which also drop their
handles. In `Coordinator` every thread is scheduled and LLVM finishes, but the
jobserver need not grant a token: `CodegenEnds` holds without. There `FairSpec` adds
the fairness to `Spec`, which the theorems use. Nothing is assumed about who gets a mutex: std's is not
fair, so the liveness properties say that somebody gets in, and that of the
barrier only speaks of behaviours in which newcomers and spurious wakeups stop
taking the mutex away.

### Where the repository disagrees with itself

`write.rs:1523` asserts `!codegen_done` when a cached module arrives for LTO. A
worker that reports a fatal error sets `codegen_done` (`:1535`), possibly while the
main thread, which was told to go on, loads a cached unit; if another worker is
still running the message is received and the assertion fails. The coordinator
panics, and its tokens are dropped under that worker, where the code means to
"wait for remaining work to finish". `coordinator_import_only` shows it.

`fs.rs:4` says that a finalized cache version "is never modified". The collector
removes it in place, under its finalized name, and goes on when that fails
(`:888`). As it also keeps the newest directory locked while it inspects the
others, a session that starts meanwhile is refused there and copies the older
one, of which a part may be gone; nothing marks the copy as incomplete.
`session_copy` shows it; `ReadersProtected` states what the locks do protect.

`fs.rs:735` says of the first loop of the collector: "Delete all lock files, that
don't have an associated directory." The loop asks
`extract_timestamp_from_session_dir` for the age of the lock file (`:739`), and that
function refuses every name that ends in `.lock` (`:627`, `:619`), so the rest of the
loop never runs. The lock file of a process that is killed before it creates its
directory stays for ever, as `session_leftover` shows. Nothing else depends on it:
`CollectsGarbage` states what becomes of directories. The same refusal is what makes
it harmless that a session may take longer than ten seconds between its lock file
and its directory.

Seen while modelling, without a run of their own. `sync/mutex.rs:238` says that
`lock` returns an error "if another user of this mutex panicked while holding the
mutex", and line 21 calls a mutex poisoned "whenever a thread panics while holding"
it. The code looks at the thread when the guard is dropped (`sync/poison.rs:42`): a
panic that is caught while the guard is still alive does not poison, and
`PoisonReported` speaks of the others. A collector with an old listing
that finds a private directory renamed since removes nothing, yet unlinks the
lock file of the now finalized directory, which the next collection takes for
invalid (`fs.rs:907`): a cache is lost, never corrupted, and `ReadersProtected`
therefore speaks of directories whose lock file is in place. After compilation
errors `finalize_session_directory` goes on to rename a directory it could not
remove and then panics in `finalize_incr_comp_session`. As its lock file is gone
nobody copies from that directory, unless the removal of the lock file, whose
errors are only reported, failed too: two I/O errors at once make the data of a
failed session look like a finalized cache, which is why `InvalidNeverReused`
speaks of at most one. When the count of a scope
overflows, it is decremented once by `increment_num_running_threads` and again by
the drop of the packet (`scoped.rs:48`); the memory for so many packets does not
exist.

## What is proved

For every set of threads, and every value of the other constants:

- `MutexProofs`: type correctness, mutual exclusion, visibility, no lost wakeup,
  poison, and that `Mutex` implements `AbstractLock`. The inductive invariant is
  `TypeOK`, `MutualExclusion`, `DataVisible` and `NoLostWakeup`, strengthened by
  `PoisonOnTheWay` (a panic that unwinds through a guard is in the flag or still
  on its way to the end of that guard) and `GuardScope` (a guard made during a
  panic belongs to a destructor of that unwinding). Exclusion needs the second
  half of `MutualExclusion`, that the word is 0 exactly when nobody holds;
  visibility needs exclusion, since a second writer would leave the first one's
  view behind.
- `OnceProofs`: one initializer, visibility, propagation of poison, no lost wakeup,
  finality. The invariant adds `Views`: while no closure runs the word carries
  all writes, a running one has seen them, and everybody who knows of the
  completion has seen them and finds the word COMPLETE.
- `ScopeProofs`, of the parker: type correctness, no lost token, no lost wakeup. The
  invariant adds `ParkedInside`, that the word is PARKED only while the owner is in a
  call, and `AllHandedOn`, that the word carries all that was ever released.
- `ScopeProofs`, of the scope: with any number of threads it is a correct use of the
  parker (`ScopeSpec => Spec`, action by action), so that no token and no wakeup is
  lost in it; these follow from the theorems about the parker. And of the scope itself: no
  user code after it returns, visibility, panics reported exactly, the `unwrap`s of
  `join`. `ScopeInv` says who owns a packet and who is dropping it (`Packets`,
  `Owners`, `Drops`), that the scope's count is the number of packets not yet counted
  down (`Count`), what each thread, and each count, carries of the work done
  (`Knowledge`), and where an unhandled panic is on its way to the flag (`PanicKept`,
  `FlagDue`, `FlagTrue`, `ResultHeld`, `Outcomes`). `BorrowsEnd` is what `Count` says when
  the count is 0; that it is 0 when `scope` returns needs the order in which a drop
  does things, the flag before the count and the count before the unpark.
- `BarrierProofs`: no lost release, and that `Barrier` implements
  `AbstractBarrier`. The invariant says who can be in which part of `wait`
  (`Roles`), that the threads with the current generation are exactly the ones
  counted (`Counted`), so the count of the code is the number of waiting threads
  of the abstract barrier, and that the others are awake or about to be woken
  (`Releasing`). Needs `Thread` to be finite.

- `RwLockProofs`: the word counts the holders, visibility, the assertion of
  `read_unlock`, for every maximum of readers. The invariant adds `Held`, that the
  counter is the number of readers (finitely many, whatever the set of threads) or
  marks the one writer, and `WordCarries`, that while nobody writes the word has all
  that was written, which is what the next holder acquires.
- `CoordinatorProofs`: for any number of units and faults and every subset of the
  sessions, work stays within the tokens, a token request is pending whenever
  the main thread does LLVM work with units left, the assertions hold, Ok means
  complete, joined means quiet. The invariant follows every unit the main thread has
  submitted: it is on the way in a message, queued, being worked on, waiting for LTO
  or done, in one of these places and not in two (`Places`: `NoneLost` is why Ok means
  complete, `Apart` why work items can be counted). The coordinator counts every
  worker until it hears from it (`Counted`); the leave to translate is with a signal,
  the main thread or a message, once (`Turn`); the tokens held are those in use when
  the coordinator waits (`TokensInUse`), and while units are left to translate every
  queued or running item has a token or a request (`Requested`); nothing goes to LTO
  after LTO (`AfterLto`); units are combined or none is (`Combined`); `Ended` is what
  remains when the loop is over. `TokensSuffice` alone says nothing of messages on
  the way, so it does not survive a worker's end.
- `SessionDirsProofs`: for any number of processes, sessions, errors and deaths,
  private directories are kept and readers are protected; with at most one error
  invalid data is not reused. The invariant has a part for every reason why a
  step cannot hit another process's directory: timestamps are new (`Fresh`); whoever
  acts on a directory holds its exclusive lock, and a collection never its own
  session's (`Holding`); a lock file stays in place while its
  owner creates the directory, which nobody has listed (`Starting`); no listing, however
  old, shows a live directory as one to remove without a lock (`NotGarbage`); a
  shared lock excludes the exclusive one (`Protected`); and what a failed session left
  has no lock file if it has a final name (`Invalid`). `ReadersProtected` is an action
  property: `ChangedUnderLock` shows that a directory with a lock file that is not
  private changes only under the lock of the process that takes the step. That an
  undisturbed collection leaves no garbage directory needs an invariant that follows a listing
  through the whole collection (`Swept`): what the collection has not come to is as
  it was listed (`Ahead`), the directory it is at is where its place in the code says
  (`UnderWay`), what it is through with is removed, in use or young (`Behind`), and once
  the newest candidate is let go, it is the only finalized directory not in use that
  stays, newer than every candidate (`KeptOne`).
- `ArrayChannelProofs`: for every capacity, any finite sets of senders and receivers,
  any of the starts and any number of messages, the whole of what the run `channel`
  checks: types, first in first out, disconnection after the last message, one
  registration, no lost wakeup, and the freeing of the channel. The proof begins with
  arithmetic: `MarkBit` lies above `Cap`, a packed stamp splits uniquely into lap, mark and
  index (`Fields`), and advancing an end, or adding a lap, is adding 1, or `Cap`, to a
  position (`EncAdvance`, `EncLap`). The invariant has four parts.
  `Ring`: head and tail are the stamps of `H` and `N`, the numbers of claims, at most
  `Cap` apart (`EndsOK`); what a call has loaded is a position its end has reached
  (`LocOK`, `AuxOK`), and the stamp a claim was decided on is still there if the end is
  (`ClaimOK`), although nothing is locked in between; whoever has claimed a position owns
  its slot until it publishes (`WritersOK`, `ReadersOK`, `OwnersDiffer`); and each of the
  `Cap` slots of the window from `H` is being written, full, free or still being read by
  the receiver of the lap before (`SlotsOK`). Messages differ (`LogOK`) and those received
  are those below head, but for the ones being read (`GotOK`): from these two it follows that
  freeing drops exactly the rest.
  `Counter`: the last of a side to drop its handle, and it only, disconnects; the mark bit
  means that a side is gone.
  `Queues`: a queue holds the threads of its side that block and were not selected, each once,
  and `is_empty` tells the truth whenever the mutex is free.
  `Wakeups`: a counting argument. While a receiver waits, there are at most as many messages
  as senders yet to notify and receivers that will look again (`ReceiversWoken`), likewise the
  free slots while a sender waits (`SendersWoken`), and on a disconnected channel somebody is
  about to wake whoever waits (`AllWoken`). `NobodyStuck` speaks of states at rest only and is not
  inductive; these say how far from one the channel is. A thread that counts itself as
  waiting has seen the channel empty, or full, after it registered: of the two ends
  the one it loads first can only have fallen behind (`SecondLoadInv`).

The assumptions are the named `ASSUME`s: the word is no thread, `NoThread` is no
thread, `None` is no process, `Nobody` is neither a thread nor the caller of a scope,
the caller is one of its unparkers, bounds are natural numbers, `Max` is at least 2,
there is a codegen unit, and the sessions are among the ones the options allow. A
channel has a capacity, no thread is both a sender and a receiver, and there are finitely
many of them, which counting needs and every program satisfies.

Only model-checked: every liveness property (fairness and `ENABLED` are outside
the prover), which is all of `WaitWhile`. Every invariant and every action property
that a passing run checks is also proved.

## What is not modelled

The poison flag of `RwLock`, which is the one of `Mutex`; poison in `Condvar` and
`Barrier`; cloning channel handles, which only adds handles while one exists; the
observers of the wakers, which no code registers; the wrap of counters; time,
beyond the fact that a timeout may come at any moment. In `Scope`: handles that
are passed to another thread or forgotten, and stale loads. In `SessionDirs`:
`delete_all_session_dir_contents`, which a session applies to its own private
directory, the digits of names, and files in the crate directory that no session
made. Recursive use of a lock by
its holder is excluded, as the documentation leaves it unspecified. The parts
named in the inventory without a module are listed with reasons in
`PROJECT.json`. Most of the million lines of the repository are sequential: the
vendor intrinsics of `stdarch`, which are generated, and the passes of the compiler.
They have no state worth exploring, so the models cover a small share of all
lines, and most of the code in which several threads or processes meet.

## Plan

1. Locks, Once, Parker, Condvar, Barrier, the bounded channel, scoped threads, the
   codegen coordinator and the session directories: done, as above.
2. Proofs: the locks, Once, Parker, Barrier, scoped threads, the bounded channel, the
   coordinator and the session directories: done, as above.
3. Channels: an abstract queue that `ArrayChannel` implements; the unbounded
   channel with the freeing of blocks; the rendezvous channel on the same wakers.
4. `ReentrantMutex` on `AbstractLock`, the poison of `RwLock`, `Arc` and `Weak`; query
   jobs (a cycle is broken, everybody wakes) and the dependency graph as an
   algorithm against a reference definition (green means unchanged).
