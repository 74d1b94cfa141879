---------------------------- MODULE ArrayChannel ----------------------------
(***************************************************************************)
(* The bounded channel behind mpsc::sync_channel: sync/mpmc/array.rs, with *)
(* the wakers of waker.rs, the contexts of context.rs and the reference    *)
(* counts of counter.rs.  Sending and receiving have the same shape, so    *)
(* they share their actions; Side(t) tells which of the two t does.        *)
(*                                                                         *)
(*   idle      outside                   register  of SyncWaker            *)
(*   load      load of tail or head      ready1-3  loads of is_full or     *)
(*   inspect   load of the slot's stamp            is_empty, is_disconn.   *)
(*   probe     load of the other end     abort     try_select(Aborted)     *)
(*   claim     CAS of tail or head       wait      load in wait_until      *)
(*   access    write or read the slot    park      in park or park_timeout *)
(*   publish   store the slot's stamp    unregister                        *)
(*   notify    load is_empty             release   drop of the handle      *)
(*   select    SyncWaker::notify, locked closed    disconnected: an error  *)
(*   mark      fetch_or of disconnect    destroy   swap of the flag        *)
(*   wake_senders, wake_receivers        gone      handle dropped          *)
(*                                                                         *)
(* A stamp is the packed integer of the code: the index in the low bits,   *)
(* the mark bit above them, the lap above that.  Memory is sequentially    *)
(* consistent.  What a thread does holding a waker's mutex is one step.    *)
(***************************************************************************)
EXTENDS Naturals, Sequences, FiniteSets, SequencesExt

CONSTANTS
  Sender, Receiver,   \* threads, each with one handle
  Cap,                \* capacity
  Starts,             \* who has a handle, and the modes of the calls
  MaxSends            \* bound: messages sent before the last call to send

ASSUME ChannelAssumption ==
  /\ Cap \in Nat \ {0} /\ MaxSends \in Nat
  /\ IsFiniteSet(Sender) /\ IsFiniteSet(Receiver) /\ Sender \intersect Receiver = {}
  /\ Starts \subseteq [handles : SUBSET (Sender \union Receiver),
                      modes : SUBSET {"try", "block", "timed"}]

VARIABLES
  head, tail,         \* the two ends
  stamp, slot,        \* per slot: its stamp and its message
  modes,              \* the modes of the calls that this run makes
  pc, mode,
  loc,                \* the stamp a call works with: tail or head, as loaded
  aux,                \* the first load of is_full or is_empty
  selectors,          \* per side: the queue of the registered threads
  is_empty,           \* per side: the flag of the SyncWaker
  selected,           \* Context::select of each thread
  token,              \* threads with a parking token
  handles,            \* threads that have not dropped their handle
  destroy, freed,     \* of the counter: the flag; the box is gone
  log,                \* history: the messages in the order of their claims
  got, dropped        \* history: the messages read; dropped with the channel

ends == <<head, tail>>
slots == <<stamp, slot>>
wakers == <<selectors, is_empty, selected, token>>
refs == <<handles, destroy, freed>>
history == <<log, got, dropped>>
vars == <<modes, ends, slots, pc, mode, loc, aux, wakers, refs, history>>

Thread == Sender \union Receiver
Senders == "senders"
Receivers == "receivers"
Side(t) == IF t \in Sender THEN Senders ELSE Receivers
Other(t) == IF t \in Sender THEN Receivers ELSE Senders
None == <<>>          \* an uninitialized slot

\* The least power of two that is not below n; one lies before 2n.
IsPowerOfTwo(p) == \A d \in 2..p : p % d = 0 => d % 2 = 0
NextPowerOfTwo(n) == CHOOSE p \in n..2 * n :
  IsPowerOfTwo(p) /\ \A q \in n..p - 1 : ~IsPowerOfTwo(q)

\* with_capacity(): the mark bit lies above every index and above Cap.
MarkBit == NextPowerOfTwo(Cap + 1)
OneLap == MarkBit * 2
Index(s) == s % MarkBit
Marked(s) == (s \div MarkBit) % 2 = 1
Unmarked(s) == IF Marked(s) THEN s - MarkBit ELSE s

\* The next value of tail or head: the next index, or the next lap.
Advance(s) == IF Index(s) + 1 < Cap THEN s + 1 ELSE (s - (s % OneLap)) + OneLap

\* How many messages were claimed before s; the message a sender sends next.
Position(s) == (s \div OneLap) * Cap + Index(s)
SentBy(t) == Cardinality({i \in DOMAIN log : log[i][1] = t})

Goto(t, l) == pc' = [pc EXCEPT ![t] = l]
Return(t) == mode' = [mode EXCEPT ![t] = IF pc'[t] = "idle" THEN "try" ELSE @]
Keep(t, s) == loc' = [loc EXCEPT ![t] = s]

Init ==
  /\ head = 0 /\ tail = 0
  /\ stamp = [i \in 0..Cap - 1 |-> i] /\ slot = [i \in 0..Cap - 1 |-> None]
  /\ \E start \in Starts : handles = start.handles /\ modes = start.modes
  /\ pc = [t \in Thread |-> IF t \in handles THEN "idle" ELSE "gone"]
  /\ mode = [t \in Thread |-> "try"]
  /\ loc = [t \in Thread |-> 0] /\ aux = [t \in Thread |-> 0]
  /\ selectors = [s \in {Senders, Receivers} |-> <<>>]
  /\ is_empty = [s \in {Senders, Receivers} |-> TRUE]
  /\ selected = [t \in Thread |-> "waiting"]
  /\ token = {}
  /\ destroy = FALSE /\ freed = FALSE
  /\ log = <<>> /\ got = {} /\ dropped = {}

----------------------------------------------------------------------------
(* start_send and start_recv *)

\* The user calls send, recv, their try_ or their _timeout forms, again and
\* again until it drops its handle.
Call(t) ==
  /\ pc[t] = "idle"
  /\ t \in Sender => Len(log) < MaxSends
  /\ \E m \in modes : mode' = [mode EXCEPT ![t] = m]
  /\ Goto(t, "load")
  /\ UNCHANGED <<ends, slots, loc, aux, wakers, refs, history>>

\* Load tail or head; a sender that finds the mark bit gives up.
Load(t) ==
  /\ pc[t] = "load"
  /\ LET s == IF t \in Sender THEN tail ELSE head
     IN  Keep(t, s) /\ Goto(t, IF t \in Sender /\ Marked(s) THEN "closed" ELSE "inspect")
  /\ UNCHANGED <<ends, slots, mode, aux, wakers, refs, history>>

InspectAnyLap(t) ==
  /\ pc[t] = "inspect"
  /\ LET s == stamp[Index(loc[t])]
         Free == s = loc[t]
         Filled == Index(s) = Index(loc[t]) + 1
     IN  Goto(t, CASE t \in Sender /\ Free -> "claim"
                   [] t \in Sender /\ s + OneLap = loc[t] + 1 -> "probe"
                   [] t \in Receiver /\ Filled -> "claim"
                   [] t \in Receiver /\ Free -> "probe"
                   [] OTHER -> "load")
  /\ UNCHANGED <<ends, slots, mode, loc, aux, wakers, refs, history>>

\* Compare it with the stamp of its slot: free for a sender, filled for a
\* receiver, possibly full or empty, or another thread is in between.
Inspect(t) ==
  /\ pc[t] = "inspect"
  /\ LET s == stamp[Index(loc[t])]
         Free == s = loc[t]
         Filled == s = loc[t] + 1
     IN  Goto(t, CASE t \in Sender /\ Free -> "claim"
                   [] t \in Sender /\ s + OneLap = loc[t] + 1 -> "probe"
                   [] t \in Receiver /\ Filled -> "claim"
                   [] t \in Receiver /\ Free -> "probe"
                   [] OTHER -> "load")
  /\ UNCHANGED <<ends, slots, mode, loc, aux, wakers, refs, history>>

\* Where a call that cannot proceed goes: try_* and an expired deadline
\* return, the backoff of send may spin, the others register.
NotReady(t) ==
  IF mode[t] = "try" THEN {"idle"}
  ELSE {"register"} \union (IF mode[t] = "timed" THEN {"idle"} ELSE {})
                    \union (IF t \in Sender THEN {"load"} ELSE {})

ProbeStale(t) ==
  /\ pc[t] = "probe"
  /\ pc' \in {[pc EXCEPT ![t] = l] : l \in
       CASE t \in Sender -> NotReady(t)
         [] t \in Receiver /\ Marked(tail) -> {"closed"}
         [] OTHER -> NotReady(t)}
  /\ Keep(t, 0)
  /\ Return(t)
  /\ UNCHANGED <<ends, slots, aux, wakers, refs, history>>

\* Load the other end: the channel is full, or empty, or it was.
Probe(t) ==
  /\ pc[t] = "probe"
  /\ pc' \in {[pc EXCEPT ![t] = l] : l \in
       CASE t \in Sender /\ head + OneLap = loc[t] -> NotReady(t)
         [] t \in Receiver /\ Unmarked(tail) = loc[t] /\ Marked(tail) -> {"closed"}
         [] t \in Receiver /\ Unmarked(tail) = loc[t] /\ ~Marked(tail) -> NotReady(t)
         [] OTHER -> {"load"}}
  /\ Keep(t, 0)
  /\ Return(t)
  /\ UNCHANGED <<ends, slots, aux, wakers, refs, history>>

\* The CAS of tail or head.  It is a weak one: it fails when the end has moved
\* on, may fail when it has not, and starts over then.
Claim(t) ==
  /\ pc[t] = "claim"
  /\ \/ /\ t \in Sender /\ tail = loc[t]
        /\ tail' = Advance(tail)
        /\ log' = Append(log, <<t, SentBy(t) + 1>>)
        /\ Goto(t, "access") /\ UNCHANGED head
     \/ /\ t \in Receiver /\ head = loc[t]
        /\ head' = Advance(head)
        /\ Goto(t, "access") /\ UNCHANGED <<tail, log>>
     \/ Goto(t, "load") /\ UNCHANGED <<ends, log>>
  /\ UNCHANGED <<slots, mode, loc, aux, wakers, refs, got, dropped>>

----------------------------------------------------------------------------
(* write and read *)

\* Move the message into the slot, or out of it.
Access(t) ==
  /\ pc[t] = "access"
  /\ IF t \in Sender
     THEN slot' = [slot EXCEPT ![Index(loc[t])] = <<t, SentBy(t)>>] /\ UNCHANGED got
     ELSE /\ got' = got \union {slot[Index(loc[t])]}
          /\ slot' = [slot EXCEPT ![Index(loc[t])] = None]
  /\ Goto(t, "publish")
  /\ UNCHANGED <<ends, stamp, mode, loc, aux, wakers, refs, log, dropped>>

Publish(t) ==
  /\ pc[t] = "publish"
  /\ stamp' = [stamp EXCEPT ![Index(loc[t])] = IF t \in Sender THEN loc[t] + 1 ELSE loc[t] + OneLap]
  /\ Goto(t, "notify") /\ Keep(t, 0)
  /\ UNCHANGED <<ends, slot, mode, aux, wakers, refs, history>>

----------------------------------------------------------------------------
(* SyncWaker *)

FirstOf(W) == CHOOSE i \in W : \A j \in W : i <= j

\* The is_empty flag is stored anew after every change of the queue.
SetQueue(side, q) ==
  /\ selectors' = [selectors EXCEPT ![side] = q]
  /\ is_empty' = [is_empty EXCEPT ![side] = q = <<>>]

\* notify() looks at is_empty before it takes the mutex,
Notify(t) ==
  /\ pc[t] = "notify"
  /\ Goto(t, IF is_empty[Other(t)] THEN "idle" ELSE "select")
  /\ Return(t)
  /\ UNCHANGED <<ends, slots, loc, aux, wakers, refs, history>>

\* and again with the mutex: the first entry that still waits is selected,
\* taken out of the queue and unparked.
Select(t) ==
  /\ pc[t] = "select"
  /\ LET q == selectors[Other(t)]
         W == {i \in DOMAIN q : selected[q[i]] = "waiting"}
         first == FirstOf(W)
     IN  IF is_empty[Other(t)] \/ W = {}
         THEN UNCHANGED wakers
         ELSE /\ SetQueue(Other(t), RemoveAt(q, first))
              /\ selected' = [selected EXCEPT ![q[first]] = "operation"]
              /\ token' = token \union {q[first]}
  /\ Goto(t, "idle")
  /\ Return(t)
  /\ UNCHANGED <<ends, slots, loc, aux, refs, history>>

----------------------------------------------------------------------------
(* Blocking: the closure of send and of recv *)

\* Context::with resets the context; SyncWaker::register.
Register(t) ==
  /\ pc[t] = "register"
  /\ SetQueue(Side(t), Append(selectors[Side(t)], t))
  /\ selected' = [selected EXCEPT ![t] = "waiting"]
  /\ Goto(t, "ready1")
  /\ UNCHANGED <<ends, slots, mode, loc, aux, token, refs, history>>

\* is_full loads tail, then head; is_empty loads head, then tail.
FirstLoad(t) ==
  /\ pc[t] = "ready1"
  /\ aux' = [aux EXCEPT ![t] = IF t \in Sender THEN tail ELSE head]
  /\ Goto(t, "ready2")
  /\ UNCHANGED <<ends, slots, mode, loc, wakers, refs, history>>

SecondLoad(t) ==
  /\ pc[t] = "ready2"
  /\ LET Blocked == IF t \in Sender THEN head + OneLap = Unmarked(aux[t])
                                    ELSE Unmarked(tail) = aux[t]
     IN  Goto(t, IF Blocked THEN "ready3" ELSE "abort")
  /\ aux' = [aux EXCEPT ![t] = 0]
  /\ UNCHANGED <<ends, slots, mode, loc, wakers, refs, history>>

IsDisconnected(t) ==
  /\ pc[t] = "ready3"
  /\ Goto(t, IF Marked(tail) THEN "abort" ELSE "wait")
  /\ UNCHANGED <<ends, slots, mode, loc, aux, wakers, refs, history>>

\* try_select(Aborted), by the thread itself.
AbortSelect(t) == selected' = [selected EXCEPT ![t] = IF @ = "waiting" THEN "aborted" ELSE @]

Abort(t) ==
  /\ pc[t] = "abort"
  /\ AbortSelect(t)
  /\ Goto(t, "wait")
  /\ UNCHANGED <<ends, slots, mode, loc, aux, selectors, is_empty, token, refs, history>>

\* After wait_until: who was selected by a notifier is out of the queue.
AfterWait(s) == IF s = "operation" THEN "load" ELSE "unregister"

WaitUntil(t) ==
  /\ pc[t] = "wait"
  /\ Goto(t, IF selected[t] = "waiting" THEN "park" ELSE AfterWait(selected[t]))
  /\ UNCHANGED <<ends, slots, mode, loc, aux, wakers, refs, history>>

\* park() returns with a token, park_timeout() at any time.
Park(t) ==
  /\ pc[t] = "park"
  /\ t \in token \/ mode[t] = "timed"
  /\ token' = token \ {t}
  /\ Goto(t, "wait")
  /\ UNCHANGED <<ends, slots, mode, loc, aux, selectors, is_empty, selected, refs, history>>

DeadlineForced(t) ==
  /\ pc[t] = "park" /\ mode[t] = "timed"
  /\ selected' = [selected EXCEPT ![t] = "aborted"]
  /\ Goto(t, "unregister")
  /\ UNCHANGED <<ends, slots, mode, loc, aux, selectors, is_empty, token, refs, history>>

\* The deadline has passed: wait_until tries to abort.  The load before it
\* has seen "waiting"; the CAS may find that somebody was faster.
Deadline(t) ==
  /\ pc[t] = "park" /\ mode[t] = "timed"
  /\ AbortSelect(t)
  /\ Goto(t, AfterWait(selected'[t]))
  /\ UNCHANGED <<ends, slots, mode, loc, aux, selectors, is_empty, token, refs, history>>

\* unregister(oper).unwrap(): the first entry of t is taken out.
Unregister(t) ==
  /\ pc[t] = "unregister"
  /\ LET q == selectors[Side(t)]
         W == {i \in DOMAIN q : q[i] = t}
     IN  SetQueue(Side(t), IF W = {} THEN q ELSE RemoveAt(q, FirstOf(W)))
  /\ Goto(t, "load")
  /\ UNCHANGED <<ends, slots, mode, loc, aux, selected, token, refs, history>>

----------------------------------------------------------------------------
(* Disconnection and destruction *)

\* On a disconnected channel write and read return an error.
Closed(t) ==
  /\ pc[t] = "closed"
  /\ Goto(t, "idle")
  /\ Return(t)
  /\ UNCHANGED <<ends, slots, loc, aux, wakers, refs, history>>

\* The user drops its handle.
Drop(t) ==
  /\ pc[t] = "idle"
  /\ Goto(t, "release")
  /\ UNCHANGED <<ends, slots, mode, loc, aux, wakers, refs, history>>

\* Sender::release, Receiver::release: the last handle of a side disconnects.
Release(t) ==
  /\ pc[t] = "release"
  /\ handles' = handles \ {t}
  /\ Goto(t, IF (IF t \in Sender THEN Sender ELSE Receiver) \intersect handles = {t}
             THEN "mark" ELSE "gone")
  /\ UNCHANGED <<ends, slots, mode, loc, aux, wakers, destroy, freed, history>>

\* disconnect(): whoever sets the mark bit wakes both sides.
Mark(t) ==
  /\ pc[t] = "mark"
  /\ tail' = Unmarked(tail) + MarkBit
  /\ Goto(t, IF Marked(tail) THEN "destroy" ELSE "wake_senders")
  /\ UNCHANGED <<head, slots, mode, loc, aux, wakers, refs, history>>

\* Waker::disconnect leaves the entries for their threads to unregister.
DisconnectWaker(side) ==
  LET W == {t \in ToSet(selectors[side]) : selected[t] = "waiting"}
  IN  /\ SetQueue(side, selectors[side])
      /\ selected' = [t \in Thread |-> IF t \in W THEN "disconnected" ELSE selected[t]]
      /\ token' = token \union W

DisconnectSendersOnly(t) ==
  /\ pc[t] \in {"wake_senders", "wake_receivers"}
  /\ DisconnectWaker(Senders)
  /\ Goto(t, IF pc[t] = "wake_senders" THEN "wake_receivers" ELSE "destroy")
  /\ UNCHANGED <<ends, slots, mode, loc, aux, refs, history>>

Disconnect(t) ==
  /\ pc[t] \in {"wake_senders", "wake_receivers"}
  /\ DisconnectWaker(IF pc[t] = "wake_senders" THEN Senders ELSE Receivers)
  /\ Goto(t, IF pc[t] = "wake_senders" THEN "wake_receivers" ELSE "destroy")
  /\ UNCHANGED <<ends, slots, mode, loc, aux, refs, history>>

LenUnlapped ==
  LET hix == Index(head)
      tix == Index(tail)
  IN  IF hix <= tix THEN tix - hix ELSE Cap - hix + tix

\* len(): equal indices mean empty or full, and the laps tell which.
len ==
  LET hix == Index(head)
      tix == Index(tail)
  IN  CASE hix < tix -> tix - hix
        [] hix > tix -> Cap - hix + tix
        [] hix = tix -> IF Unmarked(tail) = head THEN 0 ELSE Cap

\* Channel::drop drops the messages between head and tail.
DropChannel ==
  LET D == {(Index(head) + i) % Cap : i \in 0..len - 1}
  IN  /\ dropped' = {slot[i] : i \in D}
      /\ slot' = [i \in DOMAIN slot |-> IF i \in D THEN None ELSE slot[i]]

\* destroy.swap(true): the second side frees the channel.
Destroy(t) ==
  /\ pc[t] = "destroy"
  /\ destroy' = TRUE /\ freed' = destroy
  /\ IF destroy THEN DropChannel ELSE UNCHANGED <<slot, dropped>>
  /\ Goto(t, "gone")
  /\ UNCHANGED <<ends, stamp, mode, loc, aux, wakers, handles, log, got>>

\* Everything is over; not a step of the code.
Terminated == (\A t \in Thread : pc[t] = "gone") /\ UNCHANGED vars

Step(t) ==
  \/ Load(t) \/ Inspect(t) \/ Probe(t) \/ Claim(t) \/ Access(t) \/ Publish(t)
  \/ Notify(t) \/ Select(t)
  \/ Register(t) \/ FirstLoad(t) \/ SecondLoad(t) \/ IsDisconnected(t) \/ Abort(t)
  \/ WaitUntil(t) \/ Park(t) \/ Deadline(t) \/ Unregister(t)
  \/ Closed(t) \/ Release(t) \/ Mark(t) \/ Disconnect(t) \/ Destroy(t)

Next ==
  \/ \E t \in Thread : (Call(t) \/ Drop(t) \/ Step(t)) /\ UNCHANGED modes
  \/ Terminated

Spec == Init /\ [][Next]_vars

----------------------------------------------------------------------------
(* Properties *)

Places == {"idle", "load", "inspect", "probe", "claim", "access", "publish", "notify", "select",
  "register", "ready1", "ready2", "ready3", "abort", "wait", "park", "unregister", "closed",
  "release", "mark", "wake_senders", "wake_receivers", "destroy", "gone"}
Messages == Sender \X (1..MaxSends)

\* Type invariant: an index never runs into the mark bit of head, and no
\* uninitialized slot is ever read.
TypeOK ==
  /\ head \in Nat /\ ~Marked(head) /\ Index(head) < Cap
  /\ tail \in Nat /\ Index(tail) < Cap
  /\ stamp \in [0..Cap - 1 -> Nat]
  /\ slot \in [0..Cap - 1 -> Messages \union {None}]
  /\ modes \subseteq {"try", "block", "timed"}
  /\ pc \in [Thread -> Places] /\ mode \in [Thread -> {"try", "block", "timed"}]
  /\ loc \in [Thread -> Nat] /\ aux \in [Thread -> Nat]
  /\ selectors \in [{Senders, Receivers} -> Seq(Thread)]
  /\ is_empty \in [{Senders, Receivers} -> BOOLEAN]
  /\ selected \in [Thread -> {"waiting", "aborted", "disconnected", "operation"}]
  /\ token \subseteq Thread /\ handles \subseteq Thread
  /\ destroy \in BOOLEAN /\ freed \in BOOLEAN
  /\ log \in Seq(Messages) /\ got \subseteq Messages /\ dropped \subseteq Messages

\* First in, first out, nothing lost or duplicated: the receiver that claimed
\* position n finds the n-th claimed message in the slot, and a sender finds
\* its slot empty, whoever was there a lap before.
FIFO == \A t \in Thread : pc[t] = "access" =>
  IF t \in Sender
  THEN slot[Index(loc[t])] = None
  ELSE Position(loc[t]) < Len(log) /\ slot[Index(loc[t])] = log[Position(loc[t]) + 1]

\* A receiver hears "disconnected" only when every sender is gone and every
\* message ever sent has been claimed by a receiver (start_recv compares the
\* ends before it looks at the mark bit).
DisconnectedMeansDrained ==
  \A t \in Receiver : pc[t] = "closed" =>
    /\ Sender \intersect handles = {}
    /\ Position(head) = Len(log)

\* The unwrap() in send and recv: a thread about to unregister is in the
\* queue, exactly once, and one that was selected by notify() no longer is.
RegisteredOnce == \A t \in Thread :
  LET n == Cardinality({i \in DOMAIN selectors[Side(t)] : selectors[Side(t)][i] = t})
  IN  CASE pc[t] \in {"ready1", "ready2", "ready3", "abort", "wait", "park"} ->
             n = IF selected[t] = "operation" THEN 0 ELSE 1
        [] pc[t] = "unregister" -> n = 1
        [] OTHER -> n = 0

\* No lost wakeup, although notify() reads is_empty without the mutex and
\* is_full and is_empty read the two ends one after the other: once everybody
\* rests, a parked receiver means an empty channel, a parked sender a full
\* one, and neither is disconnected.
AtRest(t) == pc[t] \in {"idle", "gone"} \/ (pc[t] = "park" /\ t \notin token)
NobodyStuck == (\A t \in Thread : AtRest(t)) =>
  \A t \in Thread : pc[t] = "park" =>
    /\ ~Marked(tail)
    /\ Len(log) = Position(head) + IF t \in Sender THEN Cap ELSE 0

\* No use after free: when the box is freed every handle is gone, the queues
\* are empty, as Waker::drop asserts, and Channel::drop has dropped exactly
\* the messages that nobody received.
FreedLast == freed =>
  /\ \A t \in Thread : pc[t] = "gone"
  /\ \A s \in {Senders, Receivers} : selectors[s] = <<>> /\ is_empty[s]
  /\ \A i \in DOMAIN slot : slot[i] = None
  /\ got \union dropped = ToSet(log) /\ got \intersect dropped = {}
=============================================================================
