------------------------- MODULE CoordinatorProofs --------------------------
(***************************************************************************)
(* Proofs about the back end's scheduler, for every number of codegen      *)
(* units, every set of sessions and every number of faults.                *)
(*                                                                         *)
(* The inductive invariant accounts for everything the threads hand to     *)
(* each other: units (Places), workers and the leave to translate          *)
(* (Workers), tokens and requests (Tokens), and the kinds of work that can *)
(* still come up (Kinds); Ended is what is left of it after the end.       *)
(***************************************************************************)
EXTENDS Coordinator, FiniteSetTheorems, TLAPS

\* The messages of the main thread, and those that end a worker.
MainMsgs == {"CodegenDone", "AddImportOnlyModule", "CodegenComplete"}
Results == {"Done", "NeedsLink", "NeedsLTO", "Fatal", "Panic"}
\* The answers of the jobserver.
TokenMsgs == {"Token", "TokenErr"}

\* Work items and messages.
Items == [kind : {"Optimize", "Copy", "LTO"}, units : SUBSET Units]
Msgs ==
  [t : {"CodegenDone"}, body : Items] \union
  [t : {"AddImportOnlyModule", "Done", "NeedsLink", "NeedsLTO"}, body : SUBSET Units] \union
  [t : {"CodegenComplete", "CodegenAborted", "Token", "TokenErr", "Fatal", "Panic"}, body : {{}}]

\* How many messages of a sequence are of the types ts.
Of(seq, ts) == {i \in 1..Len(seq) : seq[i].t \in ts}
Count(ts) == Cardinality(Of(inbox, ts))

\* The type of every variable.
TypeOK ==
  /\ opt \in Options
  /\ mpc \in {"start", "wait", "codegen", "join", "unwind", "drop", "done"}
  /\ unit \in opt.first..Complete
  /\ signals \in Nat /\ requests \in Nat /\ faults \in Nat
  /\ inbox \in Seq(Msgs)
  /\ workers \subseteq Items /\ work_items \subseteq Items
  /\ cpc \in {"decide", "spawn", "recv", "ok", "err", "panicked"}
  /\ codegen_done \in BOOLEAN /\ codegen_aborted \in BOOLEAN /\ started_lto \in BOOLEAN
  /\ tokens \in Nat /\ running \in Nat
  /\ mstate \in {"Idle", "Codegenning", "LLVMing"}
  /\ needs_lto \subseteq Units /\ import_only \subseteq Units
  /\ needs_link \subseteq Units /\ compiled \subseteq Units

(* Where the units are *)

\* Items wherever they are, the units of a message, the units that wait for LTO
\* and those that are done with, the units the main thread has submitted.
AllItems == work_items \union workers
Carried(m) == IF m.t = "CodegenDone" THEN m.body.units ELSE m.body
ForLto == needs_lto \union import_only
Finished == needs_link \union compiled
Submitted == {u \in Units : opt.first <= u /\ u < unit}

\* Only submitted units are anywhere.
Known ==
  /\ \A i \in AllItems : i.units # {} /\ i.units \subseteq Submitted
  /\ \A k \in 1..Len(inbox) :
       /\ Carried(inbox[k]) \subseteq Submitted
       /\ inbox[k].t = "CodegenDone" => Carried(inbox[k]) # {}
  /\ ForLto \subseteq Submitted /\ Finished \subseteq Submitted

\* No unit is in two places.
Apart ==
  /\ work_items \cap workers = {}
  /\ \A i, j \in AllItems : i # j => i.units \cap j.units = {}
  /\ \A i \in AllItems, k \in 1..Len(inbox) : i.units \cap Carried(inbox[k]) = {}
  /\ \A k, l \in 1..Len(inbox) : k # l => Carried(inbox[k]) \cap Carried(inbox[l]) = {}
  /\ \A i \in AllItems : i.units \cap (ForLto \union Finished) = {}
  /\ \A k \in 1..Len(inbox) : Carried(inbox[k]) \cap (ForLto \union Finished) = {}
  /\ ForLto \cap Finished = {}

\* A submitted unit is somewhere, unless a worker has failed.
NoneLost ==
  /\ ~Gone /\ ~codegen_aborted
  /\ \A k \in 1..Len(inbox) : inbox[k].t \notin {"Fatal", "Panic"}
  => \A u \in Submitted :
      \/ \E i \in AllItems : u \in i.units
      \/ \E k \in 1..Len(inbox) : u \in Carried(inbox[k])
      \/ u \in ForLto \union Finished

(* Who works *)

\* The coordinator counts every worker until it hears from it.
Counted == ~Gone => Cardinality(workers) + Count(Results) = running + LLVMing

\* Leave to translate is with one of: a signal, the main thread, a message.
Turn == ~Gone =>
  signals + (IF mpc = "codegen" THEN 1 ELSE 0) + Count(MainMsgs)
    <= (IF mstate = "Codegenning" THEN 1 ELSE 0)

\* Before the main thread is ready nothing happens.
NothingYet == mpc = "start" =>
  /\ inbox = <<>> /\ requests = 0 /\ workers = {} /\ work_items = {}
  /\ tokens = 0 /\ running = 0 /\ ~codegen_done /\ ~Gone /\ mstate # "LLVMing"

\* Once the coordinator knows that all is translated, it is.
Over == mpc \in {"join", "unwind", "drop", "done"} /\ unit = Complete
Translated ==
  /\ codegen_aborted => codegen_done
  /\ codegen_done /\ ~codegen_aborted => mstate # "Codegenning"
  /\ (codegen_done /\ ~codegen_aborted) \/ started_lto => Over
  /\ \A k \in 1..Len(inbox) : inbox[k].t = "CodegenComplete" => Over

\* The tokens held are the ones in use when the coordinator waits, and while
\* units are left to translate at most one more when it does not.
TokensInUse ==
  /\ running <= tokens
  /\ cpc = "recv" => tokens = running /\ (~codegen_done => mstate # "Idle")
  /\ cpc = "decide" /\ ~codegen_done =>
       mstate # "LLVMing" /\ (mstate = "Idle" => tokens = running)
  /\ cpc = "spawn" /\ ~codegen_done =>
       mstate # "Idle" /\ (mstate = "LLVMing" => tokens = running)

\* While units are left to translate there is a token, or a request for one,
\* for every item that is queued or worked on.
Requested ==
  ~codegen_done /\ opt.parallel =>
    running + Cardinality(work_items) + LLVMing <= requests + Count(TokenMsgs) + tokens

(* Which kinds of work there are *)

\* Nothing goes to LTO after LTO.
AfterLto == started_lto =>
  /\ codegen_done
  /\ needs_lto = {} /\ import_only = {}
  /\ \A i \in AllItems : i.kind # "Optimize"
  /\ \A k \in 1..Len(inbox) :
       inbox[k].t \notin {"NeedsLTO", "CodegenDone", "AddImportOnlyModule"}

\* Units are combined, all but the shim, or none is.
Combined ==
  /\ opt.combine /\ ~Gone =>
       /\ import_only = {} /\ compiled \subseteq {0}
       /\ \A i \in AllItems : i.kind # "Copy"
       /\ \A k \in 1..Len(inbox) :
            /\ inbox[k].t # "AddImportOnlyModule"
            /\ inbox[k].t = "Done" => inbox[k].body \subseteq {0}
            /\ inbox[k].t = "CodegenDone" => inbox[k].body.kind # "Copy"
  /\ ~opt.combine =>
       needs_link = {} /\ \A k \in 1..Len(inbox) : inbox[k].t # "NeedsLink"

\* How the coordinator ends.
Ended ==
  /\ cpc \in {"ok", "err"} => workers = {}
  /\ cpc = "ok" => compiled = AllUnits
  /\ Gone => needs_link = {}
  /\ mpc = "done" => Gone

\* The inductive invariant.
Places == Known /\ Apart /\ NoneLost
Workers == Counted /\ Turn /\ NothingYet /\ Translated
Tokens == TokensInUse /\ Requested
Kinds == AfterLto /\ Combined

IInv == TypeOK /\ Places /\ Workers /\ Tokens /\ Kinds /\ Ended

-----------------------------------------------------------------------------
(* Finite sets and sequences.                                              *)

\* There are finitely many items, hence queue and workers can be counted.
LEMMA ItemsFinite == \A S : S \subseteq Items => IsFiniteSet(S)
<1> DEFINE K == {"Optimize", "Copy", "LTO"}
           f == [p \in K \X SUBSET Units |-> Item(p[1], p[2])]
<1>1. IsFiniteSet(Units)
  BY ConstantsAssumption, FS_Interval DEF Units
<1>2. IsFiniteSet(SUBSET Units)
  BY <1>1, FS_SUBSET
<1>3. IsFiniteSet(K)
  <2>1. K = (({} \union {"Optimize"}) \union {"Copy"}) \union {"LTO"}
    OBVIOUS
  <2> QED
    <3>1. IsFiniteSet({} \union {"Optimize"})
      BY FS_EmptySet, FS_AddElement
    <3>2. IsFiniteSet(({} \union {"Optimize"}) \union {"Copy"})
      BY <3>1, FS_AddElement
    <3> QED
      BY <2>1, <3>2, FS_AddElement
<1>4. IsFiniteSet(K \X SUBSET Units)
  BY <1>2, <1>3, FS_Product
<1>5. f \in Surjection(K \X SUBSET Units, Items)
  <2>1. f \in [K \X SUBSET Units -> Items]
    BY DEF Items, Item
  <2>2. \A i \in Items : <<i.kind, i.units>> \in K \X SUBSET Units /\ f[<<i.kind, i.units>>] = i
    BY DEF Items, Item
  <2> HIDE DEF f
  <2> QED
    BY <2>1, <2>2 DEF Surjection
<1>6. IsFiniteSet(Items)
  BY <1>4, <1>5, FS_Surjection
<1> QED
  BY <1>6, FS_Subset

\* What Append does to a sequence of messages.
LEMMA Appended ==
  ASSUME NEW seq \in Seq(Msgs), NEW m \in Msgs
  PROVE  /\ Append(seq, m) \in Seq(Msgs)
         /\ Len(seq) \in Nat /\ Len(Append(seq, m)) = Len(seq) + 1
         /\ Append(seq, m)[Len(seq) + 1] = m
         /\ \A k \in 1..Len(seq) : Append(seq, m)[k] = seq[k]
OBVIOUS

\* What Head and Tail do to one.
LEMMA Popped ==
  ASSUME NEW seq \in Seq(Msgs), seq # <<>>
  PROVE  /\ Tail(seq) \in Seq(Msgs)
         /\ Len(seq) \in Nat \ {0} /\ Len(Tail(seq)) = Len(seq) - 1
         /\ Head(seq) = seq[1] /\ Head(seq) \in Msgs
         /\ \A k \in 1..Len(Tail(seq)) : Tail(seq)[k] = seq[k + 1]
OBVIOUS

\* Messages of a kind are finitely many; a message counts for its own kind.
LEMMA CountType ==
  ASSUME NEW seq \in Seq(Msgs), NEW ts
  PROVE  /\ IsFiniteSet(Of(seq, ts)) /\ Cardinality(Of(seq, ts)) \in Nat
         /\ Cardinality(Of(seq, ts)) = 0 <=> \A k \in 1..Len(seq) : seq[k].t \notin ts
<1>1. Len(seq) \in Nat
  OBVIOUS
<1>2. IsFiniteSet(1..Len(seq))
  BY <1>1, FS_Interval
<1>3. IsFiniteSet(Of(seq, ts))
  BY <1>2, FS_Subset DEF Of
<1>4. Cardinality(Of(seq, ts)) \in Nat
  BY <1>3, FS_CardinalityType
<1>5. Cardinality(Of(seq, ts)) = 0 <=> Of(seq, ts) = {}
  BY <1>3, FS_EmptySet
<1> QED
  BY <1>3, <1>4, <1>5 DEF Of

\* A message appended counts once.
LEMMA CountAppend ==
  ASSUME NEW seq \in Seq(Msgs), NEW m \in Msgs, NEW ts
  PROVE  Cardinality(Of(Append(seq, m), ts)) =
           Cardinality(Of(seq, ts)) + (IF m.t \in ts THEN 1 ELSE 0)
<1> DEFINE n == Len(seq) + 1
<1>1. CASE m.t \in ts
  <2>1. Of(Append(seq, m), ts) = Of(seq, ts) \union {n} /\ n \notin Of(seq, ts)
    BY <1>1, Appended DEF Of
  <2> QED
    BY <1>1, <2>1, CountType, FS_AddElement
<1>2. CASE m.t \notin ts
  <2>1. Of(Append(seq, m), ts) = Of(seq, ts)
    BY <1>2, Appended DEF Of
  <2> QED
    BY <1>2, <2>1, CountType
<1> QED
  BY <1>1, <1>2

\* A message taken from the front counted once.
LEMMA CountTail ==
  ASSUME NEW seq \in Seq(Msgs), seq # <<>>, NEW ts
  PROVE  Cardinality(Of(seq, ts)) =
           Cardinality(Of(Tail(seq), ts)) + (IF Head(seq).t \in ts THEN 1 ELSE 0)
<1> DEFINE T == Of(Tail(seq), ts)
           R == Of(seq, ts) \ {1}
           f == [k \in T |-> k + 1]
<1>1. IsFiniteSet(T) /\ Cardinality(T) \in Nat
  BY Popped, CountType
<1>2. f \in Bijection(T, R)
  <2>1. \A k \in T : k \in 1..Len(Tail(seq)) /\ k + 1 \in R
    BY Popped DEF Of
  <2>2. f \in [T -> R]
    BY <2>1
  <2>3. \A a, b \in T : f[a] = f[b] => a = b
    BY <2>1
  <2>4. \A r \in R : r - 1 \in T /\ f[r - 1] = r
    BY Popped DEF Of
  <2> HIDE DEF f
  <2> QED
    <3> HIDE DEF T, R
    <3>1. f \in Injection(T, R)
      BY <2>2, <2>3 DEF Injection, IsInjective
    <3>2. f \in Surjection(T, R)
      BY <2>2, <2>4 DEF Surjection
    <3> QED
      BY <3>1, <3>2 DEF Bijection
<1>3. Cardinality(R) = Cardinality(T)
  BY <1>1, <1>2, FS_Bijection DEF ExistsBijection
<1>4. 1 \in Of(seq, ts) <=> Head(seq).t \in ts
  BY Popped DEF Of
<1> QED
  <2>1. IsFiniteSet(Of(seq, ts)) /\ Cardinality(Of(seq, ts)) \in Nat
    BY CountType
  <2>2. Cardinality(R) = IF 1 \in Of(seq, ts) THEN Cardinality(Of(seq, ts)) - 1
                                             ELSE Cardinality(Of(seq, ts))
    BY <2>1, FS_RemoveElement
  <2> QED
    BY <1>1, <1>3, <1>4, <2>1, <2>2

-----------------------------------------------------------------------------
(* Steps.                                                                  *)

\* The messages a thread sends.
LEMMA MsgsType ==
  /\ \A i \in Items : Message("CodegenDone", i) \in Msgs
  /\ \A t \in {"AddImportOnlyModule", "Done", "NeedsLink", "NeedsLTO"}, us \in SUBSET Units :
       Message(t, us) \in Msgs
  /\ \A t \in {"CodegenComplete", "CodegenAborted", "Token", "TokenErr", "Fatal", "Panic"} :
       Message(t, {}) \in Msgs
BY DEF Msgs, Message

\* A step that sends one message, if there is somebody to receive it.
Sends(m) == m \in Msgs /\ Send(m)

\* What the main thread submits: its unit.
Submits(m) ==
  /\ Sends(m) /\ m.t \in {"CodegenDone", "AddImportOnlyModule"}
  /\ Carried(m) = {unit}
  /\ m.t = "CodegenDone" => m.body.kind \in {"Optimize", "Copy"}
  /\ opt.combine => m.t = "CodegenDone" /\ m.body.kind = "Optimize"

\* The main thread submits its unit and nothing else.
LEMMA SubmitStep ==
  ASSUME TypeOK, MainSubmit
  PROVE  /\ unit \in Units /\ unit \in Nat
         /\ \E m : Submits(m)
<1>1. unit \in Units /\ unit \in Nat
  BY ConstantsAssumption DEF TypeOK, MainSubmit, Units, Complete, Options
<1>2. PICK reuse \in {"No", "PostLto", "PreLto"} :
        /\ opt.combine => reuse = "No"
        /\ Send(CASE reuse = "No" -> Message("CodegenDone", Item("Optimize", {unit}))
              [] reuse = "PostLto" -> Message("CodegenDone", Item("Copy", {unit}))
              [] reuse = "PreLto" -> Message("AddImportOnlyModule", {unit}))
  BY DEF MainSubmit, CguReuse
<1>3. Item("Optimize", {unit}) \in Items /\ Item("Copy", {unit}) \in Items
  BY <1>1 DEF Item, Items
<1>4. CASE reuse = "No"
  <2>1. Sends(Message("CodegenDone", Item("Optimize", {unit})))
    BY <1>2, <1>3, <1>4, MsgsType DEF Sends
  <2>2. Submits(Message("CodegenDone", Item("Optimize", {unit})))
    BY <2>1 DEF Submits, Carried, Message, Item
  <2> QED
    BY <1>1, <2>2
<1>5. CASE reuse = "PostLto"
  <2>1. Sends(Message("CodegenDone", Item("Copy", {unit})))
    BY <1>2, <1>3, <1>5, MsgsType DEF Sends
  <2>2. Submits(Message("CodegenDone", Item("Copy", {unit})))
    BY <1>2, <1>5, <2>1 DEF Submits, Carried, Message, Item
  <2> QED
    BY <1>1, <2>2
<1>6. CASE reuse = "PreLto"
  <2>1. Sends(Message("AddImportOnlyModule", {unit}))
    BY <1>1, <1>2, <1>6, MsgsType DEF Sends
  <2>2. Submits(Message("AddImportOnlyModule", {unit}))
    BY <1>2, <1>6, <2>1 DEF Submits, Carried, Message
  <2> QED
    BY <1>1, <2>2
<1> QED
  BY <1>2, <1>4, <1>5, <1>6

\* What a worker reports: its units, unless it failed.
Reports(item, m) ==
  /\ Sends(m) /\ m.t \in Results
  /\ Carried(m) \subseteq item.units
  /\ m.t \notin {"Fatal", "Panic"} => Carried(m) = item.units
  /\ m.t = "NeedsLTO" => item.kind = "Optimize"
  /\ m.t = "NeedsLink" => opt.combine
  /\ m.t = "Done" /\ opt.combine /\ item.kind # "Copy" => Carried(m) \subseteq {0}

\* A worker reports once.
LEMMA WorkStep ==
  ASSUME TypeOK, NEW item \in workers, Work(item)
  PROVE  \E m : Reports(item, m)
<1>1. item \in Items /\ item.units \in SUBSET Units
  BY DEF TypeOK, Items
<1>2. CASE Send(Message(WorkResult(item), item.units))
  <2>1. /\ WorkResult(item) \in {"Done", "NeedsLink", "NeedsLTO"}
        /\ WorkResult(item) = "NeedsLTO" => item.kind = "Optimize"
        /\ WorkResult(item) = "NeedsLink" => opt.combine
        /\ WorkResult(item) = "Done" /\ opt.combine /\ item.kind # "Copy" => item.units = {0}
    BY <1>1 DEF WorkResult, Finish, Items, Item
  <2>2. Sends(Message(WorkResult(item), item.units))
    BY <1>1, <1>2, <2>1, MsgsType DEF Sends
  <2>3. Reports(item, Message(WorkResult(item), item.units))
    BY <2>1, <2>2 DEF Reports, Carried, Message, Results
  <2> QED
    BY <2>3
<1>3. ASSUME NEW t \in {"Fatal", "Panic"}, Send(Message(t, {}))
      PROVE  \E m : Reports(item, m)
  <2>1. Sends(Message(t, {}))
    BY <1>3, MsgsType DEF Sends
  <2>2. Reports(item, Message(t, {}))
    BY <2>1 DEF Reports, Carried, Message, Results
  <2> QED
    BY <2>2
<1> QED
  BY <1>2, <1>3 DEF Work

\* The message received.
LEMMA ReceiveStep ==
  ASSUME TypeOK, Receive
  PROVE  /\ inbox # <<>> /\ Head(inbox) \in Msgs /\ inbox' = Tail(inbox)
         /\ Body = Head(inbox).body
         /\ Head(inbox).t = "CodegenDone" => Body \in Items
         /\ Head(inbox).t \in {"AddImportOnlyModule", "Done", "NeedsLink", "NeedsLTO"} =>
              Body \in SUBSET Units
         /\ Head(inbox).t \in {"CodegenComplete", "CodegenAborted", "Token", "TokenErr", "Fatal", "Panic"} =>
              Body = {}
<1>1. inbox # <<>> /\ inbox' = Tail(inbox)
  BY DEF Receive, RecvToken, RecvCodegenDone, RecvCodegenComplete, RecvCodegenAborted,
         RecvResult, RecvImportOnly, RecvFatal, Pop
<1>2. Head(inbox) \in Msgs
  BY <1>1, Popped DEF TypeOK
<1> QED
  BY <1>1, <1>2 DEF Msgs, Body

\* LTO splits its inputs over its work items.
LEMMA LtoSplit ==
  ASSUME TypeOK, NEW copied \in SUBSET import_only
  PROVE  /\ LtoWork(copied) \subseteq Items
         /\ \A i \in LtoWork(copied) :
              /\ i.units # {} /\ i.units \subseteq ForLto /\ i.kind # "Optimize"
              /\ i.kind = "Copy" => import_only # {}
         /\ \A i, j \in LtoWork(copied) : i # j => i.units \cap j.units = {}
         /\ \A u \in ForLto : \E i \in LtoWork(copied) : u \in i.units
<1> DEFINE each == {Item(IF u \in copied THEN "Copy" ELSE "LTO", {u}) : u \in ForLto}
<1>1. ForLto \subseteq Units
  BY DEF ForLto, TypeOK
<1>2. CASE opt.lto = "Fat" /\ needs_lto # {}
  <2>1. LtoWork(copied) = {Item("LTO", ForLto)}
    BY <1>2 DEF LtoWork, ForLto
  <2> QED
    BY <1>1, <1>2, <2>1 DEF Items, Item, ForLto
<1>3. CASE ~(opt.lto = "Fat" /\ needs_lto # {})
  <2>1. LtoWork(copied) = each
    BY <1>3 DEF LtoWork, ForLto
  <2>2. each \subseteq Items
    BY <1>1 DEF Items, Item
  <2>3. \A i \in each : \E u \in ForLto :
          i.units = {u} /\ i.kind = IF u \in copied THEN "Copy" ELSE "LTO"
    BY DEF Item
  <2>4. \A i, j \in each : i # j => i.units \cap j.units = {}
    <3> SUFFICES ASSUME NEW u \in ForLto, NEW v \in ForLto,
                        NEW i, i = Item(IF u \in copied THEN "Copy" ELSE "LTO", {u}),
                        NEW j, j = Item(IF v \in copied THEN "Copy" ELSE "LTO", {v}),
                        i # j
                 PROVE  i.units \cap j.units = {}
      OBVIOUS
    <3>1. u # v
      OBVIOUS
    <3> QED
      BY <3>1 DEF Item
  <2>5. \A u \in ForLto : \E i \in each : u \in i.units
    <3> TAKE u \in ForLto
    <3>1. Item(IF u \in copied THEN "Copy" ELSE "LTO", {u}) \in each
      OBVIOUS
    <3> QED
      BY <3>1 DEF Item
  <2>6. \A i \in each : i.units # {} /\ i.units \subseteq ForLto /\ i.kind # "Optimize"
    BY <2>3
  <2>7. \A i \in each : i.kind = "Copy" => import_only # {}
    BY <2>3
  <2> HIDE DEF each
  <2> QED
    BY <2>1, <2>2, <2>4, <2>5, <2>6, <2>7
<1> QED
  BY <1>2, <1>3

\* What counts is countable.
LEMMA CountsType ==
  ASSUME TypeOK
  PROVE  /\ IsFiniteSet(workers) /\ Cardinality(workers) \in Nat
         /\ IsFiniteSet(work_items) /\ Cardinality(work_items) \in Nat
         /\ \A ts : Count(ts) \in Nat
         /\ LLVMing \in {0, 1}
<1>1. IsFiniteSet(workers) /\ IsFiniteSet(work_items)
  BY ItemsFinite DEF TypeOK
<1>2. \A ts : Count(ts) \in Nat
  BY CountType DEF Count, TypeOK
<1> QED
  BY <1>1, <1>2, FS_CardinalityType DEF LLVMing

\* When LTO is due nobody works and nobody has more to say.
LEMMA Quiet ==
  ASSUME TypeOK, Counted, ~Gone, running = 0, mstate # "LLVMing"
  PROVE  workers = {} /\ \A k \in 1..Len(inbox) : inbox[k].t \notin Results
<1>1. Cardinality(workers) = 0 /\ Count(Results) = 0
  BY CountsType DEF Counted, LLVMing
<1> QED
  BY <1>1, CountsType, CountType, FS_EmptySet DEF Count, TypeOK

\* A worker that is heard of was counted.
LEMMA Heard ==
  ASSUME TypeOK, Counted, ~Gone, inbox # <<>>, Head(inbox).t \in Results
  PROVE  mstate # "LLVMing" => running > 0
<1>1. Count(Results) # 0
  BY Popped, CountType DEF Count, TypeOK
<1> QED
  BY <1>1, CountsType DEF Counted, LLVMing, TypeOK

\* The messages in the inbox after one was received.
LEMMA AfterReceive ==
  ASSUME TypeOK, Receive
  PROVE  /\ inbox # <<>> /\ Head(inbox) = inbox[1] /\ 1 \in 1..Len(inbox)
         /\ \A k \in 1..Len(inbox') : k + 1 \in 1..Len(inbox) /\ inbox'[k] = inbox[k + 1]
<1>1. inbox # <<>> /\ inbox' = Tail(inbox) /\ inbox \in Seq(Msgs)
  BY ReceiveStep DEF TypeOK
<1>2. /\ Len(inbox) \in Nat \ {0} /\ Len(inbox') = Len(inbox) - 1 /\ Head(inbox) = inbox[1]
      /\ \A k \in 1..Len(inbox') : inbox'[k] = inbox[k + 1]
  BY <1>1, Popped
<1> QED
  BY <1>1, <1>2

\* What is left when the coordinator ends.
Ends ==
  /\ cpc' \in {"ok", "err", "panicked"} /\ compiled' \subseteq Finished
  /\ inbox' = <<>> /\ requests' = 0 /\ tokens' = 0 /\ running' = 0
  /\ codegen_done' = FALSE /\ codegen_aborted' = FALSE /\ started_lto' = FALSE
  /\ work_items' = {} /\ mstate' = "Idle"
  /\ needs_lto' = {} /\ import_only' = {} /\ needs_link' = {}
  /\ workers \subseteq workers' /\ workers' \subseteq workers \union work_items
  /\ cpc' # "panicked" => workers' = workers
  /\ UNCHANGED <<opt, mpc, unit, signals, faults>>

\* However the coordinator ends, that is what is left.
LEMMA EndStep == Return \/ Panic => Ends
BY DEF Return, Panic, SpawnFails, ThreadEnds, Ends, mainVars, Finished

-----------------------------------------------------------------------------
(* Each part of the invariant is kept.                                     *)

\* A message sent is a message.
LEMMA SentType ==
  ASSUME TypeOK, NEW m, Sends(m)
  PROVE  inbox' \in Seq(Msgs)
BY Appended DEF TypeOK, Sends, Send

\* Every step keeps the types.
LEMMA TypeStep ==
  ASSUME TypeOK, Counted, [Next]_vars
  PROVE  TypeOK'
<1> USE DEF TypeOK
<1>1. CASE MainReady
  BY <1>1 DEF MainReady, coord, flags, sched, collected
<1>2. CASE MainWait
  BY <1>2 DEF MainWait, coord, flags, sched, collected
<1>3. CASE MainSubmit
  <2>1. inbox' \in Seq(Msgs)
    BY <1>3, SubmitStep, SentType DEF Submits
  <2>2. unit' \in opt.first..Complete
    BY <1>3, ConstantsAssumption DEF MainSubmit, Complete, Options
  <2> QED
    BY <1>3, <2>1, <2>2 DEF MainSubmit, coord, flags, sched, collected
<1>4. CASE MainComplete
  <2>1. inbox' \in Seq(Msgs)
    BY <1>4, MsgsType, SentType DEF MainComplete, Sends
  <2> QED
    BY <1>4, <2>1 DEF MainComplete, coord, flags, sched, collected
<1>5. CASE MainUnwind
  BY <1>5 DEF MainUnwind, coord, flags, sched, collected
<1>6. CASE MainDrop
  <2>1. inbox' \in Seq(Msgs)
    BY <1>6, MsgsType, SentType DEF MainDrop, Sends
  <2> QED
    BY <1>6, <2>1 DEF MainDrop, coord, flags, sched, collected
<1>7. CASE MainJoin
  BY <1>7 DEF MainJoin, coord, flags, sched, collected
<1>8. CASE Answer
  <2>1. inbox' \in Seq(Msgs)
    BY <1>8, MsgsType, SentType DEF Answer, Sends
  <2> QED
    BY <1>8, <2>1 DEF Answer, Fault, mainVars, coord, flags, sched, collected
<1>9. ASSUME NEW item \in workers, Work(item)
      PROVE  TypeOK'
  <2>1. inbox' \in Seq(Msgs)
    BY <1>9, WorkStep, SentType DEF Reports
  <2> QED
    BY <1>9, <2>1 DEF Work, Fault, mainVars, coord, flags, sched, collected
<1>10. CASE Decide /\ ~DecideLTO
  BY <1>10 DEF Decide, DecideCodegen, DecideLLVM, DecideNothing, DecideImplicit, DecideTakeOver,
       LLVMOnImplicitToken, mainVars
<1>11. CASE Decide /\ DecideLTO
  <2>1. PICK copied \in SUBSET import_only :
          /\ LLVMOnImplicitToken(LtoWork(copied))
          /\ requests' = IF opt.parallel THEN requests + Cardinality(LtoWork(copied)) ELSE requests
    BY <1>11 DEF DecideLTO
  <2>2. LtoWork(copied) \subseteq Items
    BY LtoSplit
  <2>3. requests' \in Nat
    BY <2>1, <2>2, ItemsFinite, FS_CardinalityType
  <2>4. workers' \subseteq Items /\ work_items' \subseteq Items /\ mstate' = "LLVMing"
    BY <2>1, <2>2 DEF LLVMOnImplicitToken
  <2> QED
    BY <1>11, <2>3, <2>4 DEF Decide, DecideLTO, mainVars
<1>12. CASE Spawn
  <2>1. ToSpawn \in Int /\ running + ToSpawn \in Nat
    BY CountsType DEF ToSpawn
  <2> QED
    BY <1>12, <2>1 DEF Spawn, Relinquish, mainVars, flags, collected
<1>13. CASE Receive
  <2>1. inbox' \in Seq(Msgs)
    BY <1>13, ReceiveStep, Popped
  <2>2. ~Gone
    BY <1>13 DEF Receive, Gone
  <2>3. FreeWorker /\ Head(inbox).t \in Results => running' \in Nat /\ mstate' \in {"Idle", "Codegenning", "LLVMing"}
    BY <1>13, <2>2, ReceiveStep, Heard DEF FreeWorker
  <2>4. UNCHANGED <<opt, mpc, unit, signals, workers, faults, started_lto>> /\ cpc' = "decide"
    BY <1>13 DEF Receive, mainVars
  <2>5. CASE RecvToken
    BY <2>1, <2>4, <2>5 DEF RecvToken, collected
  <2>6. CASE RecvCodegenDone
    <3>1. Body \in Items
      BY <1>13, <2>6, ReceiveStep DEF RecvCodegenDone, Pop
    <3> QED
      BY <3>1, <2>1, <2>4, <2>6 DEF RecvCodegenDone, collected
  <2>7. CASE RecvCodegenComplete
    BY <2>1, <2>4, <2>7 DEF RecvCodegenComplete, collected
  <2>8. CASE RecvCodegenAborted
    BY <2>1, <2>4, <2>8 DEF RecvCodegenAborted, collected, sched
  <2>9. CASE RecvResult
    <3>1. Body \in SUBSET Units /\ Head(inbox).t \in Results
      BY <1>13, <2>9, ReceiveStep DEF RecvResult, Pop, Results
    <3> QED
      BY <3>1, <2>1, <2>3, <2>4, <2>9 DEF RecvResult
  <2>10. CASE RecvImportOnly
    <3>1. Body \in SUBSET Units
      BY <1>13, <2>10, ReceiveStep DEF RecvImportOnly, Pop
    <3> QED
      BY <3>1, <2>1, <2>4, <2>10 DEF RecvImportOnly
  <2>11. CASE RecvFatal
    <3>1. Head(inbox).t \in Results
      BY <2>11 DEF RecvFatal, Pop, Results
    <3> QED
      BY <3>1, <2>1, <2>3, <2>4, <2>11 DEF RecvFatal, collected
  <2> QED
    BY <1>13, <2>5, <2>6, <2>7, <2>8, <2>9, <2>10, <2>11 DEF Receive
<1>14. CASE Return \/ Panic
  <2>0. Ends
    BY <1>14, EndStep
  <2>1. inbox' \in Seq(Msgs)
    BY <1>14, <2>0 DEF Ends
  <2> QED
    BY <2>0, <2>1 DEF Ends, Finished
<1>15. CASE UNCHANGED vars
  BY <1>15 DEF vars, mainVars, coord, flags, sched, collected
<1> QED
  BY <1>1, <1>2, <1>3, <1>4, <1>5, <1>6, <1>7, <1>8, <1>9, <1>10, <1>11, <1>12, <1>13, <1>14,
     <1>15 DEF Next, MainStep, Coordinate

\* Units stay where they are while items only go from the queue to workers.
LEMMA PlacesItemsMove ==
  ASSUME Places, AllItems' = AllItems, work_items' \cap workers' = {},
         UNCHANGED <<opt, unit, inbox, collected, codegen_aborted>>, Gone' = Gone
  PROVE  Places'
<1> USE DEF Places, collected
<1>1. /\ Submitted' = Submitted /\ ForLto' = ForLto /\ Finished' = Finished
      /\ \A k \in 1..Len(inbox) : Carried(inbox[k])' = Carried(inbox[k])
  BY DEF Submitted, ForLto, Finished, Carried
<1>2. Known'
  BY <1>1 DEF Known
<1>3. Apart'
  BY <1>1 DEF Apart
<1>4. NoneLost'
  BY <1>1 DEF NoneLost
<1> QED
  BY <1>2, <1>3, <1>4

\* They stay where they are when a message about none of them is sent.
LEMMA PlacesSent ==
  ASSUME TypeOK, Places, NEW m, Sends(m), Carried(m) = {}, m.t # "CodegenDone",
         UNCHANGED <<opt, unit, workers, coord>>
  PROVE  Places'
<1> USE DEF Places, coord, flags, sched, collected
<1>1. /\ Submitted' = Submitted /\ ForLto' = ForLto /\ Finished' = Finished
      /\ AllItems' = AllItems /\ Gone' = Gone
  BY DEF Submitted, ForLto, Finished, AllItems, Gone
<1>2. CASE Gone
  <2>1. inbox' = inbox
    BY <1>2 DEF Sends, Send
  <2> QED
    BY <1>1, <2>1, PlacesItemsMove DEF Apart
<1>3. CASE ~Gone
  <2>1. /\ Len(inbox) \in Nat /\ Len(inbox') = Len(inbox) + 1
        /\ inbox'[Len(inbox) + 1] = m
        /\ \A k \in 1..Len(inbox) : inbox'[k] = inbox[k]
    BY <1>3, Appended DEF Sends, Send, TypeOK
  <2>2. \A k \in 1..Len(inbox') :
          \/ k \in 1..Len(inbox) /\ inbox'[k] = inbox[k]
          \/ inbox'[k] = m
    BY <2>1
  <2>3. \A k \in 1..Len(inbox) : k \in 1..Len(inbox') /\ inbox'[k] = inbox[k]
    BY <2>1
  <2>4. Known'
    BY <1>1, <2>2 DEF Known, Carried
  <2>5. Apart'
    BY <1>1, <2>2, <2>1 DEF Apart, Carried
  <2>6. NoneLost'
    BY <1>1, <2>2, <2>3 DEF NoneLost, Carried
  <2> QED
    BY <2>4, <2>5, <2>6
<1> QED
  BY <1>2, <1>3

\* A worker's units go into its report.
LEMMA PlacesWork ==
  ASSUME TypeOK, Places, NEW item \in workers, Work(item)
  PROVE  Places'
<1> USE DEF Places
<1>0. PICK m : Reports(item, m)
  BY WorkStep
<1>1. /\ UNCHANGED <<opt, unit, coord>> /\ workers' = workers \ {item}
      /\ work_items' = work_items /\ codegen_aborted' = codegen_aborted
      /\ Submitted' = Submitted /\ ForLto' = ForLto /\ Finished' = Finished /\ Gone' = Gone
  BY DEF Work, mainVars, Submitted, ForLto, Finished, Gone, coord, flags, sched, collected
<1>2. AllItems' = AllItems \ {item} /\ item \in AllItems
  BY <1>1 DEF AllItems, Apart
<1>3. Carried(m) \subseteq item.units /\ m.t # "CodegenDone" /\ Carried(m) = m.body
  BY <1>0 DEF Reports, Results, Carried
<1>4. CASE Gone
  <2>1. inbox' = inbox
    BY <1>0, <1>4 DEF Reports, Sends, Send
  <2>2. Known'
    BY <1>1, <1>2, <2>1 DEF Known, Carried
  <2>3. Apart'
    BY <1>1, <1>2, <2>1 DEF Apart, Carried
  <2>4. NoneLost'
    BY <1>1, <1>4 DEF NoneLost
  <2> QED
    BY <2>2, <2>3, <2>4
<1>5. CASE ~Gone
  <2>1. /\ Len(inbox) \in Nat /\ Len(inbox') = Len(inbox) + 1
        /\ inbox'[Len(inbox) + 1] = m
        /\ \A k \in 1..Len(inbox) : inbox'[k] = inbox[k]
    BY <1>0, <1>5, Appended DEF Reports, Sends, Send, TypeOK
  <2>2. \A k \in 1..Len(inbox') :
          \/ k \in 1..Len(inbox) /\ inbox'[k] = inbox[k]
          \/ k = Len(inbox) + 1 /\ inbox'[k] = m
    BY <2>1
  <2>3. \A k \in 1..Len(inbox) : k \in 1..Len(inbox') /\ inbox'[k] = inbox[k]
    BY <2>1
  <2>4. Known'
    BY <1>1, <1>2, <1>3, <2>2 DEF Known, Carried
  <2>5. Apart'
    BY <1>1, <1>2, <1>3, <2>2, SMTT(30) DEF Apart, Carried
  <2>6. NoneLost'
    <3> SUFFICES ASSUME ~Gone, ~codegen_aborted,
                        \A k \in 1..Len(inbox') : inbox'[k].t \notin {"Fatal", "Panic"},
                        NEW u \in Submitted
                 PROVE  \/ \E i \in AllItems' : u \in i.units
                        \/ \E k \in 1..Len(inbox') : u \in Carried(inbox'[k])
                        \/ u \in ForLto \union Finished
      BY <1>1 DEF NoneLost, Carried
    <3>1. Len(inbox) + 1 \in 1..Len(inbox') /\ Carried(inbox'[Len(inbox) + 1]) = item.units
      BY <1>0, <2>1 DEF Reports
    <3>2. \/ \E i \in AllItems : u \in i.units
          \/ \E k \in 1..Len(inbox) : u \in Carried(inbox[k])
          \/ u \in ForLto \union Finished
      BY <2>3 DEF NoneLost
    <3> QED
      BY <1>2, <2>3, <3>1, <3>2
  <2> QED
    BY <2>4, <2>5, <2>6
<1> QED
  BY <1>4, <1>5

\* The unit just translated goes into the main thread's message.
LEMMA PlacesSubmit ==
  ASSUME TypeOK, Places, MainSubmit
  PROVE  Places'
<1> USE DEF Places
<1>0. PICK m : Submits(m)
  BY SubmitStep
<1>1. /\ UNCHANGED <<opt, workers, coord>> /\ unit' = unit + 1
      /\ AllItems' = AllItems /\ codegen_aborted' = codegen_aborted
      /\ work_items' = work_items /\ workers' = workers
      /\ ForLto' = ForLto /\ Finished' = Finished /\ Gone' = Gone
  BY DEF MainSubmit, AllItems, ForLto, Finished, Gone, coord, flags, sched, collected
<1>2. Submitted' = Submitted \union {unit} /\ unit \notin Submitted
  BY <1>1, SubmitStep DEF Submitted, Units, TypeOK
<1>3. Carried(m) = {unit}
  BY <1>0 DEF Submits
<1>4. CASE Gone
  <2>1. inbox' = inbox
    BY <1>0, <1>4 DEF Submits, Sends, Send
  <2>2. Known'
    BY <1>1, <1>2, <2>1 DEF Known, Carried
  <2>3. Apart'
    BY <1>1, <1>2, <2>1 DEF Apart, Carried
  <2>4. NoneLost'
    BY <1>1, <1>4 DEF NoneLost
  <2> QED
    BY <2>2, <2>3, <2>4
<1>5. CASE ~Gone
  <2>1. /\ Len(inbox) \in Nat /\ Len(inbox') = Len(inbox) + 1
        /\ inbox'[Len(inbox) + 1] = m
        /\ \A k \in 1..Len(inbox) : inbox'[k] = inbox[k]
    BY <1>0, <1>5, Appended DEF Submits, Sends, Send, TypeOK
  <2>2. \A k \in 1..Len(inbox') :
          \/ k \in 1..Len(inbox) /\ inbox'[k] = inbox[k]
          \/ k = Len(inbox) + 1 /\ inbox'[k] = m
    BY <2>1
  <2>3. \A k \in 1..Len(inbox) : k \in 1..Len(inbox') /\ inbox'[k] = inbox[k]
    BY <2>1
  <2>4. Known'
    BY <1>1, <1>2, <1>3, <2>2 DEF Known, Carried
  <2>5. Apart'
    BY <1>1, <1>2, <1>3, <2>2, SMTT(30) DEF Apart, Carried, Known
  <2>6. NoneLost'
    <3> SUFFICES ASSUME ~Gone, ~codegen_aborted,
                        \A k \in 1..Len(inbox') : inbox'[k].t \notin {"Fatal", "Panic"},
                        NEW u \in Submitted \union {unit}
                 PROVE  \/ \E i \in AllItems : u \in i.units
                        \/ \E k \in 1..Len(inbox') : u \in Carried(inbox'[k])
                        \/ u \in ForLto \union Finished
      BY <1>1, <1>2 DEF NoneLost, Carried
    <3>1. Len(inbox) + 1 \in 1..Len(inbox') /\ Carried(inbox'[Len(inbox) + 1]) = {unit}
      BY <1>3, <2>1
    <3>2. u # unit =>
          \/ \E i \in AllItems : u \in i.units
          \/ \E k \in 1..Len(inbox) : u \in Carried(inbox[k])
          \/ u \in ForLto \union Finished
      BY <2>3 DEF NoneLost
    <3> QED
      BY <2>3, <3>1, <3>2
  <2> QED
    BY <2>4, <2>5, <2>6
<1> QED
  BY <1>4, <1>5

\* The units of a message received go into the queue, to LTO or to the result.
Takes(us) ==
  \/ /\ ForLto' \union Finished' = ForLto \union Finished \union us
     /\ ForLto' \cap Finished' = {}
     /\ work_items' = work_items
  \/ /\ \E i \in Items : i.units = us /\ us # {} /\ work_items' = work_items \union {i}
     /\ ForLto' = ForLto /\ Finished' = Finished

\* Every handler takes what its message carries.
LEMMA TakesCarried ==
  ASSUME TypeOK, Places, Receive
  PROVE  Takes(Carried(Head(inbox)))
<1>1. workers' = workers /\ Head(inbox) = inbox[1] /\ 1 \in 1..Len(inbox)
      /\ Body = Head(inbox).body
  BY ReceiveStep, Popped DEF Receive, TypeOK
<1>2. Carried(inbox[1]) \cap (ForLto \union Finished) = {} /\ ForLto \cap Finished = {}
  BY <1>1 DEF Places, Apart
<1>3. CASE RecvCodegenDone
  <2>1. Head(inbox).t = "CodegenDone" /\ Body \in Items /\ work_items' = work_items \union {Body}
        /\ UNCHANGED collected
    BY <1>3, ReceiveStep DEF RecvCodegenDone, Pop
  <2>2. Carried(Head(inbox)) = Body.units /\ Body.units # {}
    BY <1>1, <2>1 DEF Carried, Places, Known
  <2> QED
    BY <2>1, <2>2 DEF Takes, ForLto, Finished, collected
<1>4. CASE RecvResult
  <2>1. /\ Head(inbox).t \in {"Done", "NeedsLink", "NeedsLTO"}
        /\ compiled' = IF Head(inbox).t = "Done" THEN compiled \cup Body ELSE compiled
        /\ needs_link' = IF Head(inbox).t = "NeedsLink" THEN needs_link \cup Body ELSE needs_link
        /\ needs_lto' = IF Head(inbox).t = "NeedsLTO" THEN needs_lto \cup Body ELSE needs_lto
        /\ import_only' = import_only /\ work_items' = work_items
    BY <1>1, <1>4, ReceiveStep DEF RecvResult, Pop
  <2>2. Carried(Head(inbox)) = Body
    BY <1>1, <2>1 DEF Carried
  <2> QED
    BY <1>1, <1>2, <2>1, <2>2 DEF Takes, ForLto, Finished
<1>5. CASE RecvImportOnly
  <2>1. /\ Head(inbox).t = "AddImportOnlyModule"
        /\ import_only' = import_only \union Body
        /\ UNCHANGED <<needs_lto, needs_link, compiled>> /\ work_items' = work_items
    BY <1>1, <1>5, ReceiveStep DEF RecvImportOnly, Pop
  <2>2. Carried(Head(inbox)) = Body
    BY <1>1, <2>1 DEF Carried
  <2> QED
    BY <1>1, <1>2, <2>1, <2>2 DEF Takes, ForLto, Finished
<1>6. CASE RecvToken \/ RecvCodegenComplete \/ RecvCodegenAborted \/ RecvFatal
  <2>1. /\ Head(inbox).t \in {"Token", "CodegenComplete", "CodegenAborted", "Fatal"}
        /\ UNCHANGED <<needs_lto, import_only, needs_link, compiled>> /\ work_items' = work_items
    BY <1>1, <1>6 DEF RecvToken, RecvCodegenComplete, RecvCodegenAborted, RecvFatal, Pop,
         collected, sched
  <2>2. Carried(Head(inbox)) = {}
    BY <2>1, <1>1, ReceiveStep DEF Carried
  <2> QED
    BY <1>2, <2>1, <2>2 DEF Takes, ForLto, Finished
<1> QED
  BY <1>3, <1>4, <1>5, <1>6 DEF Receive

\* Hence receiving a message loses no unit and duplicates none.
LEMMA PlacesReceive ==
  ASSUME TypeOK, Places, Receive
  PROVE  Places'
<1> USE DEF Places
<1> DEFINE us == Carried(inbox[1])
<1>1. /\ inbox # <<>> /\ Head(inbox) = inbox[1] /\ 1 \in 1..Len(inbox)
      /\ \A k \in 1..Len(inbox') :
           k + 1 \in 1..Len(inbox) /\ k + 1 # 1 /\ inbox'[k] = inbox[k + 1]
      /\ \A k \in 1..Len(inbox) :
           k # 1 => k - 1 \in 1..Len(inbox') /\ inbox'[k - 1] = inbox[k]
  <2>1. /\ inbox # <<>> /\ Head(inbox) = inbox[1] /\ 1 \in 1..Len(inbox)
        /\ \A k \in 1..Len(inbox') : k + 1 \in 1..Len(inbox) /\ inbox'[k] = inbox[k + 1]
    BY AfterReceive
  <2>2. Len(inbox) \in Nat /\ Len(inbox') = Len(inbox) - 1
    BY <2>1, ReceiveStep, Popped DEF TypeOK
  <2> QED
    BY <2>1, <2>2
<1>2. Takes(us)
  BY <1>1, TakesCarried
<1>3. /\ workers' = workers /\ Submitted' = Submitted /\ ~Gone
      /\ ~codegen_aborted' =>
           ~codegen_aborted /\ inbox[1].t \notin {"Fatal", "Panic"}
  <2>1. workers' = workers /\ Submitted' = Submitted /\ ~Gone
    BY DEF Receive, mainVars, Submitted, Gone
  <2>2. ~codegen_aborted' =>
           ~codegen_aborted /\ inbox[1].t \notin {"Fatal", "Panic"}
    BY <1>1 DEF Receive, RecvToken, RecvCodegenDone, RecvCodegenComplete, RecvCodegenAborted,
         RecvResult, RecvImportOnly, RecvFatal, Pop
  <2> QED
    BY <2>1, <2>2
<1>4. us \subseteq Submitted
  BY <1>1 DEF Known
<1>5. \A k, l \in 1..Len(inbox') : k # l => Carried(inbox'[k]) \cap Carried(inbox'[l]) = {}
  <2> TAKE k, l \in 1..Len(inbox')
  <2>1. /\ k + 1 \in 1..Len(inbox) /\ inbox'[k] = inbox[k + 1]
        /\ l + 1 \in 1..Len(inbox) /\ inbox'[l] = inbox[l + 1]
        /\ k # l => k + 1 # l + 1
    BY <1>1
  <2> QED
    BY <2>1 DEF Apart
<1>6. \A k \in 1..Len(inbox') :
        /\ Carried(inbox'[k]) \cap us = {} /\ Carried(inbox'[k]) \subseteq Submitted
        /\ Carried(inbox'[k]) \cap (ForLto \union Finished) = {}
        /\ \A i \in AllItems : i.units \cap Carried(inbox'[k]) = {}
        /\ inbox'[k].t = "CodegenDone" => Carried(inbox'[k]) # {}
  <2> TAKE k \in 1..Len(inbox')
  <2>1. k + 1 \in 1..Len(inbox) /\ k + 1 # 1 /\ inbox'[k] = inbox[k + 1]
    BY <1>1
  <2>2. /\ Carried(inbox[k + 1]) \cap Carried(inbox[1]) = {}
        /\ Carried(inbox[k + 1]) \cap (ForLto \union Finished) = {}
        /\ \A i \in AllItems : i.units \cap Carried(inbox[k + 1]) = {}
    BY <1>1, <2>1 DEF Apart
  <2>3. /\ Carried(inbox[k + 1]) \subseteq Submitted
        /\ inbox[k + 1].t = "CodegenDone" => Carried(inbox[k + 1]) # {}
    BY <2>1 DEF Known
  <2> QED
    BY <2>1, <2>2, <2>3
<1>7. ASSUME ~Gone', ~codegen_aborted',
             \A k \in 1..Len(inbox') : inbox'[k].t \notin {"Fatal", "Panic"},
             NEW u \in Submitted
      PROVE  \/ \E i \in AllItems : u \in i.units
             \/ \E k \in 1..Len(inbox') : u \in Carried(inbox'[k])
             \/ u \in ForLto \union Finished \union us
  <2>1. \A k \in 1..Len(inbox) : inbox[k].t \notin {"Fatal", "Panic"}
    <3> TAKE k \in 1..Len(inbox)
    <3>1. CASE k = 1
      BY <1>3, <1>7, <3>1
    <3>2. CASE k # 1
      BY <1>1, <1>7, <3>2
    <3> QED
      BY <3>1, <3>2
  <2>2. \/ \E i \in AllItems : u \in i.units
        \/ \E k \in 1..Len(inbox) : u \in Carried(inbox[k])
        \/ u \in ForLto \union Finished
    BY <1>3, <1>7, <2>1 DEF NoneLost
  <2> QED
    BY <1>1, <2>2
<1>8. \A i \in AllItems : i.units \cap (us \union ForLto \union Finished) = {}
  BY <1>1 DEF Apart
<1> HIDE DEF us
<1>9. CASE /\ ForLto' \union Finished' = ForLto \union Finished \union us
           /\ ForLto' \cap Finished' = {}
           /\ work_items' = work_items
  <2>1. AllItems' = AllItems
    BY <1>3, <1>9 DEF AllItems
  <2>2. Known'
    BY <1>3, <1>4, <1>6, <1>9, <2>1 DEF Known, Carried
  <2>3. Apart'
    BY <1>3, <1>5, <1>6, <1>8, <1>9, <2>1 DEF Apart, Carried
  <2>4. NoneLost'
    BY <1>3, <1>7, <1>9, <2>1 DEF NoneLost, Carried
  <2> QED
    BY <2>2, <2>3, <2>4
<1>10. ASSUME NEW i \in Items, i.units = us, us # {}, work_items' = work_items \union {i},
              ForLto' = ForLto, Finished' = Finished
       PROVE  Places'
  <2>1. AllItems' = AllItems \union {i} /\ i \notin AllItems
    BY <1>3, <1>8, <1>10 DEF AllItems
  <2>2. us \cap (ForLto \union Finished) = {}
    BY <1>1 DEF Apart, us
  <2>3. work_items' \cap workers' = {}
    BY <1>3, <1>10, <2>1 DEF AllItems, Apart
  <2>4. Known'
    BY <1>3, <1>4, <1>6, <1>10, <2>1 DEF Known, Carried
  <2>5. \A a, b \in AllItems' : a # b => a.units \cap b.units = {}
    BY <1>8, <1>10, <2>1 DEF Apart
  <2>6. Apart'
    BY <1>3, <1>5, <1>6, <1>8, <1>10, <2>1, <2>2, <2>3, <2>5 DEF Apart, Carried
  <2>7. NoneLost'
    BY <1>3, <1>7, <1>10, <2>1 DEF NoneLost, Carried
  <2> QED
    BY <2>4, <2>6, <2>7
<1> QED
  BY <1>2, <1>9, <1>10 DEF Takes

\* What waits for LTO goes into LTO's items.
LEMMA PlacesLTO ==
  ASSUME TypeOK, Places, Counted, Decide, DecideLTO
  PROVE  Places'
<1> USE DEF Places
<1>1. PICK copied \in SUBSET import_only : LLVMOnImplicitToken(LtoWork(copied))
  BY DEF DecideLTO
<1> DEFINE W == LtoWork(copied)
<1>2. /\ \A i \in W : i.units # {} /\ i.units \subseteq ForLto
      /\ \A i, j \in W : i # j => i.units \cap j.units = {}
      /\ \A u \in ForLto : \E i \in W : u \in i.units
  BY LtoSplit
<1> HIDE DEF W
<1>3. PICK item \in W : work_items' = W \ {item} /\ workers' = workers \union {item}
  BY <1>1 DEF LLVMOnImplicitToken, W
<1>4. ~Gone /\ running = 0 /\ mstate # "LLVMing" /\ work_items = {}
  BY DEF Decide, DecideLTO, LTOIsDue, Gone
<1>5. workers = {}
  BY <1>4, Quiet
<1>6. AllItems' = W /\ AllItems = {} /\ work_items' \cap workers' = {}
  BY <1>3, <1>4, <1>5 DEF AllItems
<1>7. /\ Submitted' = Submitted /\ ForLto' = {} /\ Finished' = Finished
      /\ inbox' = inbox /\ codegen_aborted' = codegen_aborted
  BY DEF Decide, DecideLTO, Submitted, ForLto, Finished, mainVars
<1>8. Known'
  BY <1>2, <1>6, <1>7 DEF Known, Carried
<1>9. Apart'
  BY <1>2, <1>6, <1>7 DEF Apart, Carried
<1>10. NoneLost'
  BY <1>2, <1>4, <1>6, <1>7 DEF NoneLost, Carried
<1> QED
  BY <1>8, <1>9, <1>10

\* Only what runs and what is returned outlives the coordinator.
LEMMA PlacesEnd ==
  ASSUME TypeOK, Places, Ends
  PROVE  Places'
<1> USE DEF Places
<1>1. /\ AllItems' \subseteq AllItems
      /\ work_items' = {} /\ Submitted' = Submitted
      /\ ForLto' = {} /\ Finished' \subseteq Finished /\ Len(inbox') = 0 /\ Gone'
  BY DEF Ends, AllItems, Submitted, ForLto, Finished, Gone
<1>2. Known'
  BY <1>1 DEF Known
<1>3. Apart'
  BY <1>1 DEF Apart
<1>4. NoneLost'
  BY <1>1 DEF NoneLost
<1> QED
  BY <1>2, <1>3, <1>4

\* No step loses or duplicates a unit.
LEMMA PlacesStep ==
  ASSUME TypeOK, Places, Counted, [Next]_vars
  PROVE  Places'
<1> USE DEF coord, flags, sched, collected, mainVars
<1>0. work_items \cap workers = {}
  BY DEF Places, Apart
<1>1. CASE UNCHANGED <<opt, unit, inbox, workers, coord>>
  BY <1>0, <1>1, PlacesItemsMove DEF AllItems, Gone
<1>2. CASE MainReady \/ MainWait \/ MainUnwind \/ MainJoin \/ UNCHANGED vars
  BY <1>1, <1>2 DEF MainReady, MainWait, MainUnwind, MainJoin, vars
<1>3. CASE MainSubmit
  BY <1>3, PlacesSubmit
<1>4. ASSUME NEW t \in {"CodegenComplete", "CodegenAborted", "Token", "TokenErr"},
             Send(Message(t, {})), UNCHANGED <<opt, unit, workers, coord>>
      PROVE  Places'
  <2>1. Sends(Message(t, {}))
    BY <1>4, MsgsType DEF Sends
  <2>2. Carried(Message(t, {})) = {} /\ Message(t, {}).t # "CodegenDone"
    BY DEF Carried, Message
  <2> QED
    BY <1>4, <2>1, <2>2, PlacesSent
<1>5. CASE MainComplete \/ MainDrop \/ Answer
  BY <1>4, <1>5 DEF MainComplete, MainDrop, Answer
<1>6. ASSUME NEW item \in workers, Work(item)
      PROVE  Places'
  BY <1>6, PlacesWork
<1>7. ASSUME UNCHANGED <<opt, unit, inbox, collected, codegen_aborted>>, Gone' = Gone,
             NEW items \in SUBSET work_items,
             work_items' = work_items \ items, workers' = workers \union items
      PROVE  Places'
  <2>1. AllItems' = AllItems /\ work_items' \cap workers' = {}
    BY <1>0, <1>7 DEF AllItems
  <2> QED
    BY <1>7, <2>1, PlacesItemsMove
<1>8. CASE Decide /\ ~DecideLTO
  <2>1. UNCHANGED <<opt, unit, inbox, collected, codegen_aborted>> /\ Gone' = Gone
    BY <1>8 DEF Decide, DecideCodegen, DecideLLVM, DecideNothing, DecideImplicit, DecideTakeOver,
                Gone
  <2>2. \E items \in SUBSET work_items :
          work_items' = work_items \ items /\ workers' = workers \union items
    <3>1. CASE DecideLLVM \/ DecideImplicit
      <4>1. PICK item \in work_items : work_items' = work_items \ {item} /\ workers' = workers \union {item}
        BY <3>1 DEF DecideLLVM, DecideImplicit, LLVMOnImplicitToken
      <4> QED
        BY <4>1
    <3>2. CASE DecideCodegen \/ DecideNothing \/ DecideTakeOver
      <4>1. work_items' = work_items \ {} /\ workers' = workers \union {}
        BY <3>2 DEF DecideCodegen, DecideNothing, DecideTakeOver
      <4> QED
        BY <4>1
    <3> QED
      BY <1>8, <3>1, <3>2 DEF Decide
  <2> QED
    BY <1>7, <2>1, <2>2
<1>9. CASE Decide /\ DecideLTO
  BY <1>9, PlacesLTO
<1>10. CASE Spawn
  <2>1. UNCHANGED <<opt, unit, inbox, collected, codegen_aborted>> /\ Gone' = Gone
    BY <1>10 DEF Spawn, Gone
  <2> QED
    BY <1>7, <1>10, <2>1 DEF Spawn
<1>11. CASE Receive
  BY <1>11, PlacesReceive
<1>12. CASE Return \/ Panic
  BY <1>12, EndStep, PlacesEnd
<1> QED
  BY <1>2, <1>3, <1>5, <1>6, <1>8, <1>9, <1>10, <1>11, <1>12 DEF Next, MainStep, Coordinate

\* The messages in the inbox after one was sent.
LEMMA AfterSend ==
  ASSUME TypeOK, NEW m, Sends(m)
  PROVE  \A k \in 1..Len(inbox') : inbox'[k] = m \/ (k \in 1..Len(inbox) /\ inbox'[k] = inbox[k])
<1>1. CASE Gone
  BY <1>1 DEF Sends, Send
<1>2. CASE ~Gone
  <2>1. /\ Len(inbox) \in Nat /\ Len(inbox') = Len(inbox) + 1
        /\ inbox'[Len(inbox) + 1] = m
        /\ \A k \in 1..Len(inbox) : inbox'[k] = inbox[k]
    BY <1>2, Appended DEF Sends, Send, TypeOK
  <2> QED
    BY <2>1
<1> QED
  BY <1>1, <1>2

\* A message sent counts for its kind.
LEMMA CountSent ==
  ASSUME TypeOK, NEW m, Sends(m), ~Gone, NEW ts
  PROVE  Cardinality(Of(inbox', ts)) = Count(ts) + (IF m.t \in ts THEN 1 ELSE 0)
BY CountAppend DEF Count, Sends, Send, TypeOK

\* A message received no longer counts.
LEMMA CountReceived ==
  ASSUME TypeOK, Receive, NEW ts
  PROVE  Count(ts) = Cardinality(Of(inbox', ts)) + (IF Head(inbox).t \in ts THEN 1 ELSE 0)
BY CountTail, ReceiveStep DEF Count, TypeOK

\* What the actions of others than the coordinator send.
LEMMA SentByOthers ==
  ASSUME TypeOK
  PROVE  /\ MainComplete => Sends(Message("CodegenComplete", {}))
         /\ MainDrop => Sends(Message("CodegenAborted", {}))
         /\ Answer => \E m : Sends(m) /\ m.t \in TokenMsgs /\ m.body = {}
BY MsgsType DEF MainComplete, MainDrop, Answer, Sends, TokenMsgs, Message

\* The coordinator starts as many items as it counts.
LEMMA SpawnStep ==
  ASSUME TypeOK, Places, Spawn
  PROVE  \E n \in Int :
           /\ n = ToSpawn /\ running' = running + n
           /\ Cardinality(workers') = Cardinality(workers) + n
           /\ Cardinality(work_items') = Cardinality(work_items) - n
<1>1. PICK items \in SUBSET work_items :
        /\ Cardinality(items) = ToSpawn
        /\ work_items' = work_items \ items
        /\ workers' = workers \union items
        /\ running' = running + ToSpawn
  BY DEF Spawn
<1>2. IsFiniteSet(items) /\ IsFiniteSet(workers) /\ IsFiniteSet(work_items)
  BY <1>1, CountsType, FS_Subset
<1>3. items \cap workers = {} /\ items \cap work_items = items
  BY <1>1 DEF Places, Apart
<1>4. Cardinality(workers \union items) = Cardinality(workers) + Cardinality(items) - Cardinality(workers \cap items)
  BY <1>2, FS_Union
<1>5. workers \cap items = {} /\ Cardinality(workers \cap items) = 0
  BY <1>3, FS_EmptySet
<1>6. Cardinality(work_items \ items) = Cardinality(work_items) - Cardinality(work_items \cap items)
  BY <1>2, FS_Difference
<1>7. Cardinality(work_items \cap items) = Cardinality(items)
  <2>1. work_items \cap items = items
    BY <1>3
  <2> QED
    BY <2>1
<1>8. Cardinality(items) \in Nat /\ Cardinality(workers) \in Nat /\ Cardinality(work_items) \in Nat
  BY <1>2, FS_CardinalityType
<1>9. /\ ToSpawn \in Int
      /\ Cardinality(workers') = Cardinality(workers) + ToSpawn
      /\ Cardinality(work_items') = Cardinality(work_items) - ToSpawn
  <2>1. Cardinality(workers') = Cardinality(workers \union items)
    BY <1>1
  <2>2. Cardinality(work_items') = Cardinality(work_items \ items)
    BY <1>1
  <2>3. Cardinality(items) = ToSpawn
    BY <1>1
  <2> QED
    BY <1>4, <1>5, <1>6, <1>7, <1>8, <2>1, <2>2, <2>3
<1> QED
  BY <1>1, <1>9

\* The main thread speaks when it has leave to translate.
LEMMA MainHeard ==
  ASSUME TypeOK, Turn, ~Gone, inbox # <<>>, Head(inbox).t \in MainMsgs
  PROVE  mstate = "Codegenning"
<1>1. Count(MainMsgs) # 0
  BY Popped, CountType DEF Count, TypeOK
<1> QED
  BY <1>1, CountsType DEF Turn, TypeOK

\* No step loses count of a worker.
LEMMA CountedStep ==
  ASSUME TypeOK, Places, Counted, Turn, [Next]_vars
  PROVE  Counted'
<1> USE DEF coord, flags, sched, collected, mainVars
<1> DEFINE c == Cardinality(workers)
           r == Count(Results)
<1>0. c \in Nat /\ r \in Nat /\ running \in Nat /\ IsFiniteSet(workers)
  BY CountsType DEF TypeOK
<1>1. CASE UNCHANGED <<inbox, workers, coord>>
  BY <1>1 DEF Counted, Gone, Count, LLVMing
<1>2. CASE MainReady \/ MainWait \/ MainUnwind \/ MainJoin \/ UNCHANGED vars
  BY <1>1, <1>2 DEF MainReady, MainWait, MainUnwind, MainJoin, vars
<1>3. ASSUME NEW m, Sends(m), m.t \notin Results, UNCHANGED <<workers, coord>>
      PROVE  Counted'
  <2>1. ~Gone => Cardinality(Of(inbox', Results)) = Count(Results)
    BY <1>0, <1>3, CountSent
  <2> QED
    BY <1>3, <2>1 DEF Counted, Gone, Count, LLVMing
<1>4. CASE MainSubmit
  BY <1>3, <1>4, SubmitStep DEF Submits, MainSubmit, Results
<1>5. CASE MainComplete \/ MainDrop \/ Answer
  <2>1. \E m : Sends(m) /\ m.t \notin Results
    BY <1>5, SentByOthers DEF Results, TokenMsgs, Message
  <2> QED
    BY <1>3, <1>5, <2>1 DEF MainComplete, MainDrop, Answer
<1>6. ASSUME NEW item \in workers, Work(item)
      PROVE  Counted'
  <2>1. PICK m : Reports(item, m)
    BY <1>6, WorkStep
  <2>2. workers' = workers \ {item} /\ UNCHANGED coord
    BY <1>6 DEF Work
  <2>3. Cardinality(workers') = c - 1
    BY <1>0, <2>2, FS_RemoveElement
  <2>4. ~Gone => Cardinality(Of(inbox', Results)) = r + 1
    BY <2>1, CountSent DEF Reports
  <2> QED
    BY <1>0, <2>2, <2>3, <2>4 DEF Counted, Gone, Count, LLVMing
<1>7. CASE Decide
  <2>1. ~Gone /\ inbox' = inbox
    BY <1>7 DEF Decide, Gone
  <2>2. c + r = running + LLVMing
    BY <2>1 DEF Counted
  <2>3. CASE DecideCodegen \/ DecideNothing
    BY <1>0, <2>1, <2>2, <2>3 DEF DecideCodegen, DecideNothing, TellMainToCodegen, Counted, Count, LLVMing
  <2>4. CASE DecideLLVM \/ DecideImplicit
    <3>1. PICK item \in work_items : workers' = workers \union {item} /\ mstate' = "LLVMing"
      BY <2>4 DEF DecideLLVM, DecideImplicit, LLVMOnImplicitToken
    <3>2. item \notin workers
      BY <3>1 DEF Places, Apart
    <3>3. Cardinality(workers') = c + 1
      BY <1>0, <3>1, <3>2, FS_AddElement
    <3>4. mstate = "Idle" /\ running' = running
      BY <2>4 DEF DecideLLVM, DecideImplicit
    <3> QED
      BY <1>0, <2>1, <2>2, <3>1, <3>3, <3>4 DEF Counted, Count, LLVMing
  <2>5. CASE DecideTakeOver
    BY <1>0, <2>1, <2>2, <2>5 DEF DecideTakeOver, Counted, Count, LLVMing
  <2>6. CASE DecideLTO
    <3>1. running = 0 /\ mstate = "Idle" /\ running' = 0
      BY <2>6 DEF DecideLTO, LTOIsDue
    <3>2. \E item : workers' = workers \union {item} /\ mstate' = "LLVMing"
      BY <2>6 DEF DecideLTO, LLVMOnImplicitToken
    <3>3. workers = {}
      BY <2>1, <3>1, Quiet
    <3>4. c = 0 /\ Cardinality(workers') = 1
      BY <3>2, <3>3, FS_EmptySet, FS_Singleton
    <3> QED
      BY <1>0, <2>1, <2>2, <3>1, <3>2, <3>4 DEF Counted, Count, LLVMing
  <2> QED
    BY <1>7, <2>3, <2>4, <2>5, <2>6 DEF Decide
<1>8. CASE Spawn
  <2>1. PICK n \in Int : running' = running + n /\ Cardinality(workers') = c + n
    BY <1>8, SpawnStep
  <2>2. ~Gone /\ inbox' = inbox /\ mstate' = mstate
    BY <1>8 DEF Spawn, Gone
  <2> QED
    BY <1>0, <2>1, <2>2 DEF Counted, Count, LLVMing
<1>9. CASE Receive
  <2>1. ~Gone /\ workers' = workers
    BY <1>9 DEF Receive, Gone
  <2>2. r = Cardinality(Of(inbox', Results)) + (IF Head(inbox).t \in Results THEN 1 ELSE 0)
    BY <1>9, CountReceived
  <2>3. Cardinality(Of(inbox', Results)) \in Nat
    BY <1>9, ReceiveStep, Popped, CountType DEF TypeOK
  <2>4. c + r = running + LLVMing
    BY <2>1 DEF Counted
  <2>5. CASE RecvToken
    BY <1>0, <2>1, <2>2, <2>3, <2>4, <2>5 DEF RecvToken, Pop, Results, Counted, Count, LLVMing
  <2>6. CASE RecvCodegenDone \/ RecvCodegenComplete \/ RecvImportOnly
    <3>1. Head(inbox).t \in MainMsgs /\ Head(inbox).t \notin Results /\ mstate' = "Idle" /\ running' = running
      BY <2>6 DEF RecvCodegenDone, RecvCodegenComplete, RecvImportOnly, Pop, MainMsgs, Results
    <3> QED
      BY <1>0, <1>9, <2>1, <2>2, <2>3, <2>4, <3>1, MainHeard, ReceiveStep DEF Counted, Count, LLVMing
  <2>7. CASE RecvCodegenAborted
    BY <1>0, <2>1, <2>2, <2>3, <2>4, <2>7 DEF RecvCodegenAborted, Pop, Results, Counted, Count, LLVMing
  <2>8. CASE RecvResult \/ RecvFatal
    <3>1. Head(inbox).t \in Results /\ FreeWorker
      BY <2>8 DEF RecvResult, RecvFatal, Pop, Results
    <3> QED
      BY <1>0, <2>1, <2>2, <2>3, <2>4, <3>1 DEF FreeWorker, Counted, Count, LLVMing
  <2> QED
    BY <1>9, <2>5, <2>6, <2>7, <2>8 DEF Receive
<1>10. CASE Return \/ Panic
  <2>1. Ends
    BY <1>10, EndStep
  <2> QED
    BY <2>1 DEF Ends, Counted, Gone
<1> QED
  BY <1>2, <1>4, <1>5, <1>6, <1>7, <1>8, <1>9, <1>10 DEF Next, MainStep, Coordinate

\* No step gives the main thread leave to translate twice.
LEMMA TurnStep ==
  ASSUME TypeOK, Turn, [Next]_vars
  PROVE  Turn'
<1> USE DEF coord, flags, sched, collected, mainVars
<1> DEFINE r == Count(MainMsgs)
<1>0. r \in Nat /\ signals \in Nat
  BY CountsType DEF TypeOK
<1>1. CASE /\ UNCHANGED <<inbox, coord>>
           /\ \/ UNCHANGED signals /\ mpc' # "codegen"
              \/ UNCHANGED <<signals, mpc>>
              \/ signals > 0 /\ signals' = signals - 1 /\ mpc # "codegen"
  BY <1>0, <1>1 DEF Turn, Gone, Count
<1>2. CASE MainReady \/ MainUnwind \/ MainJoin \/ UNCHANGED vars
  BY <1>1, <1>2 DEF MainReady, MainUnwind, MainJoin, vars
<1>3. CASE MainWait
  <2>1. CASE Gone
    BY <1>3, <2>1 DEF MainWait, Gone, Turn
  <2>2. CASE ~Gone
    BY <1>1, <1>3, <2>2 DEF MainWait
  <2> QED
    BY <2>1, <2>2
<1>4. ASSUME NEW m, Sends(m), UNCHANGED <<signals, coord>>,
             \/ mpc = "codegen" /\ mpc' # "codegen"
             \/ m.t \notin MainMsgs /\ mpc' # "codegen"
             \/ m.t \notin MainMsgs /\ UNCHANGED mpc
      PROVE  Turn'
  <2>1. ~Gone => Cardinality(Of(inbox', MainMsgs)) = r + (IF m.t \in MainMsgs THEN 1 ELSE 0)
    BY <1>4, CountSent
  <2> QED
    BY <1>0, <1>4, <2>1 DEF Turn, Gone, Count
<1>5. CASE MainSubmit
  BY <1>4, <1>5, SubmitStep DEF Submits, MainSubmit
<1>6. CASE MainComplete \/ MainDrop
  <2>1. Message("CodegenAborted", {}).t \notin MainMsgs
    BY DEF Message, MainMsgs
  <2> QED
    BY <1>4, <1>6, <2>1, SentByOthers DEF MainComplete, MainDrop
<1>7. CASE Answer
  <2>1. \E m : Sends(m) /\ m.t \notin MainMsgs
    BY <1>7, SentByOthers DEF MainMsgs, TokenMsgs
  <2> QED
    BY <1>4, <1>7, <2>1 DEF Answer
<1>8. ASSUME NEW item \in workers, Work(item)
      PROVE  Turn'
  <2>1. \E m : Sends(m) /\ m.t \notin MainMsgs
    BY <1>8, WorkStep DEF Reports, Results, MainMsgs
  <2> QED
    BY <1>4, <1>8, <2>1 DEF Work
<1>9. CASE Decide
  <2>1. ~Gone /\ inbox' = inbox /\ mpc' = mpc
    BY <1>9 DEF Decide, Gone
  <2>2. CASE DecideCodegen
    BY <1>0, <2>1, <2>2 DEF DecideCodegen, TellMainToCodegen, Turn, Count
  <2>3. CASE DecideNothing
    BY <1>0, <2>1, <2>3 DEF DecideNothing, Turn, Count
  <2>4. CASE DecideLLVM \/ DecideImplicit \/ DecideTakeOver \/ DecideLTO
    <3>1. mstate = "Idle" /\ signals' = signals
      BY <2>4 DEF DecideLLVM, DecideImplicit, DecideTakeOver, DecideLTO, LTOIsDue
    <3> QED
      BY <1>0, <2>1, <3>1 DEF Turn, Count
  <2> QED
    BY <1>9, <2>2, <2>3, <2>4 DEF Decide
<1>10. CASE Spawn
  BY <1>10 DEF Spawn, Turn, Gone, Count
<1>11. CASE Receive
  <2>1. ~Gone /\ UNCHANGED <<mpc, signals>>
    BY <1>11 DEF Receive, Gone
  <2>2. r = Cardinality(Of(inbox', MainMsgs)) + (IF Head(inbox).t \in MainMsgs THEN 1 ELSE 0)
    BY <1>11, CountReceived
  <2>3. Cardinality(Of(inbox', MainMsgs)) \in Nat
    BY <1>11, ReceiveStep, Popped, CountType DEF TypeOK
  <2>4. CASE Head(inbox).t \in MainMsgs
    BY <1>0, <1>11, <2>1, <2>2, <2>3, <2>4, MainHeard, ReceiveStep DEF Turn, Count
  <2>5. CASE Head(inbox).t \notin MainMsgs
    <3>1. mstate = "Codegenning" => mstate' = mstate
      BY <1>11, <2>5 DEF Receive, RecvToken, RecvCodegenDone, RecvCodegenComplete, RecvCodegenAborted,
           RecvResult, RecvImportOnly, RecvFatal, Pop, FreeWorker, MainMsgs
    <3> QED
      BY <1>0, <2>1, <2>2, <2>3, <2>5, <3>1 DEF Turn, Count
  <2> QED
    BY <2>4, <2>5
<1>12. CASE Return \/ Panic
  <2>1. Ends
    BY <1>12, EndStep
  <2> QED
    BY <2>1 DEF Ends, Turn, Gone
<1> QED
  BY <1>2, <1>3, <1>5, <1>6, <1>7, <1>8, <1>9, <1>10, <1>11, <1>12 DEF Next, MainStep, Coordinate

\* Nothing is started before the main thread is ready.
LEMMA NothingYetStep ==
  ASSUME TypeOK, NothingYet, [Next]_vars
  PROVE  NothingYet'
<1> USE DEF coord, flags, sched, collected, mainVars
<1> SUFFICES ASSUME mpc' = "start"
             PROVE  NothingYet'
  BY DEF NothingYet
<1>1. mpc = "start"
  <2>1. ~MainStep /\ ~MainUnwind
    BY DEF MainStep, MainReady, MainWait, MainSubmit, MainComplete, MainDrop, MainJoin, MainUnwind
  <2>2. (Answer \/ \E item \in workers : Work(item)) => mpc' = mpc
    BY DEF Answer, Work
  <2>3. Coordinate => mpc' = mpc
    BY EndStep DEF Coordinate, Decide, Spawn, Receive, Ends
  <2>4. UNCHANGED vars => mpc' = mpc
    BY DEF vars
  <2> QED
    BY <2>1, <2>2, <2>3, <2>4 DEF Next
<1>2. /\ inbox = <<>> /\ requests = 0 /\ workers = {} /\ work_items = {}
      /\ tokens = 0 /\ running = 0 /\ ~codegen_done /\ ~Gone /\ mstate # "LLVMing"
  BY <1>1 DEF NothingYet
<1>3. ~Answer /\ ~Receive /\ ~Return /\ ~Panic /\ ~\E item \in workers : Work(item)
  <2>1. ToSpawn = 0 /\ Cardinality({}) = 0
    BY <1>2, FS_EmptySet DEF ToSpawn
  <2>2. ~SpawnFails
    <3>1. ASSUME NEW items \in SUBSET work_items
          PROVE  ~(Cardinality(items) < ToSpawn)
      <4>1. items = {}
        BY <1>2
      <4>2. Cardinality(items) = 0
        BY <2>1, <4>1
      <4> QED
        BY <2>1, <4>2
    <3> QED
      BY <1>2, <3>1 DEF SpawnFails
  <2> QED
    BY <1>1, <1>2, <2>2, ReceiveStep DEF Answer, Return, Panic, KeepGoing, ReceiverDropped, LTOIsDue, Pop
<1>4. CASE Decide
  BY <1>2, <1>4 DEF Decide, DecideCodegen, DecideLLVM, DecideNothing, DecideImplicit, DecideTakeOver,
                    DecideLTO, LTOIsDue, LLVMOnImplicitToken, NothingYet, Gone
<1>5. CASE Spawn
  <2>1. ToSpawn = 0
    BY <1>2, FS_EmptySet DEF ToSpawn
  <2>2. workers' = {} /\ work_items' = {} /\ running' = 0
    BY <1>2, <1>5, <2>1 DEF Spawn
  <2> QED
    BY <1>2, <1>5, <2>2 DEF Spawn, Relinquish, NothingYet, Gone
<1>6. CASE UNCHANGED vars
  BY <1>2, <1>6 DEF vars, NothingYet, Gone
<1>7. ~MainStep /\ ~MainUnwind
  BY <1>1 DEF MainStep, MainReady, MainWait, MainSubmit, MainComplete, MainDrop, MainJoin, MainUnwind
<1> QED
  BY <1>3, <1>4, <1>5, <1>6, <1>7 DEF Next, Coordinate

\* The coordinator believes that all is translated only when it is.
LEMMA TranslatedStep ==
  ASSUME TypeOK, Translated, [Next]_vars
  PROVE  Translated'
<1> USE DEF coord, flags, sched, collected, mainVars
<1>1. Over => Over'
  <2>1. (MainStep \/ MainUnwind) /\ Over => Over'
    BY ConstantsAssumption DEF MainStep, MainReady, MainWait, MainSubmit, MainComplete, MainDrop,
         MainJoin, MainUnwind, Over
  <2>2. (Answer \/ \E item \in workers : Work(item)) => UNCHANGED <<mpc, unit>>
    BY DEF Answer, Work
  <2>3. Coordinate => UNCHANGED <<mpc, unit>>
    BY EndStep DEF Coordinate, Decide, Spawn, Receive, Ends
  <2>4. UNCHANGED vars => UNCHANGED <<mpc, unit>>
    BY DEF vars
  <2> QED
    BY <2>1, <2>2, <2>3, <2>4 DEF Next, Over
<1>2. CASE UNCHANGED <<inbox, coord>>
  BY <1>1, <1>2 DEF Translated
<1>3. CASE MainReady \/ MainWait \/ MainUnwind \/ MainJoin \/ UNCHANGED vars
  BY <1>2, <1>3 DEF MainReady, MainWait, MainUnwind, MainJoin, vars
<1>4. ASSUME NEW m, Sends(m), UNCHANGED coord, m.t = "CodegenComplete" => Over'
      PROVE  Translated'
  <2>1. \A k \in 1..Len(inbox') : inbox'[k] = m \/ (k \in 1..Len(inbox) /\ inbox'[k] = inbox[k])
    BY <1>4, AfterSend
  <2> QED
    BY <1>1, <1>4, <2>1 DEF Translated
<1>5. CASE MainSubmit
  BY <1>4, <1>5, SubmitStep DEF Submits, MainSubmit
<1>6. CASE MainComplete
  BY <1>4, <1>6, SentByOthers DEF MainComplete, Over
<1>7. CASE MainDrop \/ Answer
  <2>1. \E m : Sends(m) /\ m.t # "CodegenComplete"
    BY <1>7, SentByOthers DEF TokenMsgs, Message
  <2> QED
    BY <1>4, <1>7, <2>1 DEF MainDrop, Answer
<1>8. ASSUME NEW item \in workers, Work(item)
      PROVE  Translated'
  <2>1. \E m : Sends(m) /\ m.t # "CodegenComplete"
    BY <1>8, WorkStep DEF Reports, Results
  <2> QED
    BY <1>4, <1>8, <2>1 DEF Work
<1>9. CASE Decide
  BY <1>1, <1>9 DEF Decide, DecideCodegen, DecideLLVM, DecideNothing, DecideImplicit, DecideTakeOver,
                    DecideLTO, LTOIsDue, LLVMOnImplicitToken, TellMainToCodegen, Translated
<1>10. CASE Spawn
  BY <1>1, <1>10 DEF Spawn, Translated
<1>11. CASE Receive
  <2>1. /\ inbox # <<>> /\ Head(inbox) = inbox[1] /\ 1 \in 1..Len(inbox)
        /\ \A k \in 1..Len(inbox') : k + 1 \in 1..Len(inbox) /\ inbox'[k] = inbox[k + 1]
    BY <1>11, AfterReceive
  <2>2. \A k \in 1..Len(inbox') : inbox'[k].t = "CodegenComplete" => Over'
    BY <1>1, <2>1 DEF Translated
  <2>3. CASE RecvCodegenComplete
    <3>1. Over
      BY <2>1, <2>3 DEF RecvCodegenComplete, Pop, Translated
    <3> QED
      BY <1>1, <1>11, <2>2, <2>3, <3>1 DEF RecvCodegenComplete, Receive, Translated
  <2>4. CASE RecvCodegenAborted \/ RecvFatal
    BY <1>1, <1>11, <2>2, <2>4 DEF RecvCodegenAborted, RecvFatal, Receive, Translated
  <2>5. CASE RecvToken \/ RecvCodegenDone \/ RecvResult \/ RecvImportOnly
    BY <1>1, <1>11, <2>2, <2>5 DEF RecvToken, RecvCodegenDone, RecvResult, RecvImportOnly, FreeWorker,
         Receive, Translated
  <2> QED
    BY <1>11, <2>3, <2>4, <2>5 DEF Receive
<1>12. CASE Return \/ Panic
  <2>1. Ends
    BY <1>12, EndStep
  <2>2. Len(inbox') = 0
    BY <2>1 DEF Ends
  <2> QED
    BY <2>1, <2>2 DEF Ends, Translated
<1> QED
  BY <1>3, <1>5, <1>6, <1>7, <1>8, <1>9, <1>10, <1>11, <1>12 DEF Next, MainStep, Coordinate

\* The coordinator never has more workers than tokens.
LEMMA TokensInUseStep ==
  ASSUME TypeOK, Counted, Places, TokensInUse, [Next]_vars
  PROVE  TokensInUse'
<1> USE DEF coord, flags, sched, collected, mainVars
<1>1. CASE UNCHANGED coord
  BY <1>1 DEF TokensInUse
<1>2. CASE MainStep \/ MainUnwind \/ Answer \/ (\E item \in workers : Work(item)) \/ UNCHANGED vars
  <2>1. UNCHANGED coord
    BY <1>2 DEF MainStep, MainReady, MainWait, MainSubmit, MainComplete, MainDrop,
         MainJoin, MainUnwind, Answer, Work, vars
  <2> QED
    BY <1>1, <2>1
<1>3. CASE Decide
  BY <1>3 DEF Decide, DecideCodegen, DecideLLVM, DecideNothing, DecideImplicit, DecideTakeOver,
       DecideLTO, LTOIsDue, LLVMOnImplicitToken, TellMainToCodegen, TokensInUse, TypeOK
<1>4. CASE Spawn
  <2>1. ToSpawn \in Nat /\ running + ToSpawn <= tokens
    BY CountsType DEF ToSpawn, TokensInUse, TypeOK
  <2>2. running' = running + ToSpawn /\ tokens' = running'
    BY <1>4, <2>1 DEF Spawn, Relinquish, TypeOK
  <2> QED
    BY <1>4, <2>1, <2>2 DEF Spawn, TokensInUse, TypeOK
<1>5. CASE Receive
  <2>1. ~Gone /\ cpc = "recv" /\ cpc' = "decide"
    BY <1>5 DEF Receive, Gone
  <2>2. tokens = running /\ (~codegen_done => mstate # "Idle")
    BY <2>1 DEF TokensInUse
  <2> USE DEF TokensInUse, TypeOK
  <2>3. CASE RecvToken
    BY <2>1, <2>2, <2>3 DEF RecvToken
  <2>4. CASE RecvCodegenDone \/ RecvCodegenComplete \/ RecvImportOnly
    BY <2>1, <2>2, <2>4 DEF RecvCodegenDone, RecvCodegenComplete, RecvImportOnly
  <2>5. CASE RecvCodegenAborted
    BY <2>1, <2>2, <2>5 DEF RecvCodegenAborted
  <2>6. CASE RecvResult \/ RecvFatal
    BY <2>1, <2>2, <2>6 DEF RecvResult, RecvFatal, FreeWorker
  <2> QED
    BY <1>5, <2>3, <2>4, <2>5, <2>6 DEF Receive
<1>6. CASE Return \/ Panic
  <2>1. Ends
    BY <1>6, EndStep
  <2> QED
    BY <2>1 DEF Ends, TokensInUse
<1> QED
  BY <1>2, <1>3, <1>4, <1>5, <1>6 DEF Next, Coordinate

\* A token is asked for whenever an item is queued.
LEMMA RequestedStep ==
  ASSUME TypeOK, Places, Counted, Turn, Translated, TokensInUse, Requested, [Next]_vars
  PROVE  Requested'
<1> USE DEF coord, flags, sched, collected, mainVars
<1> DEFINE q == Cardinality(work_items)
           r == Count(TokenMsgs)
<1>0. q \in Nat /\ r \in Nat /\ running \in Nat /\ requests \in Nat /\ tokens \in Nat
      /\ IsFiniteSet(work_items) /\ LLVMing \in {0, 1}
  BY CountsType DEF TypeOK
<1>1. CASE UNCHANGED <<opt, inbox, requests, coord>>
  BY <1>1 DEF Requested, Count, LLVMing
<1>2. CASE MainReady \/ MainWait \/ MainUnwind \/ MainJoin \/ UNCHANGED vars
  BY <1>1, <1>2 DEF MainReady, MainWait, MainUnwind, MainJoin, vars
<1>3. ASSUME NEW m, Sends(m), UNCHANGED <<opt, coord>>,
             \/ requests' = requests
             \/ ~Gone /\ requests > 0 /\ requests' = requests - 1 /\ m.t \in TokenMsgs
      PROVE  Requested'
  <2>1. CASE Gone
    <3>1. inbox' = inbox /\ requests' = requests
      BY <1>3, <2>1 DEF Sends, Send
    <3> QED
      BY <1>1, <1>3, <3>1
  <2>2. CASE ~Gone
    <3>1. Cardinality(Of(inbox', TokenMsgs)) = r + (IF m.t \in TokenMsgs THEN 1 ELSE 0)
      BY <1>3, <2>2, CountSent
    <3> QED
      BY <1>0, <1>3, <3>1 DEF Requested, Count, LLVMing
  <2> QED
    BY <2>1, <2>2
<1>4. CASE MainSubmit
  BY <1>3, <1>4, SubmitStep DEF Submits, MainSubmit
<1>5. CASE MainComplete \/ MainDrop \/ Answer
  BY <1>3, <1>5, SentByOthers DEF MainComplete, MainDrop, Answer
<1>6. ASSUME NEW item \in workers, Work(item)
      PROVE  Requested'
  BY <1>3, <1>6, WorkStep DEF Reports, Work
<1>7. CASE Decide
  <2>1. ~Gone /\ UNCHANGED <<opt, inbox, tokens, codegen_done>>
    BY <1>7 DEF Decide, Gone
  <2>2. CASE DecideCodegen \/ DecideNothing
    BY <1>0, <2>1, <2>2 DEF DecideCodegen, DecideNothing, TellMainToCodegen, Requested, Count, LLVMing
  <2>3. CASE DecideLLVM
    <3>1. PICK item \in work_items : work_items' = work_items \ {item} /\ mstate' = "LLVMing"
      BY <2>3 DEF DecideLLVM, LLVMOnImplicitToken
    <3>2. Cardinality(work_items') = q - 1
      BY <1>0, <3>1, FS_RemoveElement
    <3> QED
      BY <1>0, <2>1, <2>3, <3>1, <3>2 DEF DecideLLVM, Requested, Count, LLVMing
  <2>4. CASE DecideImplicit \/ DecideTakeOver \/ DecideLTO
    BY <2>1, <2>4 DEF DecideImplicit, DecideTakeOver, DecideLTO, LTOIsDue, Requested
  <2> QED
    BY <1>7, <2>2, <2>3, <2>4 DEF Decide
<1>8. CASE Spawn
  <2>1. PICK n \in Int : n = ToSpawn /\ running' = running + n /\ Cardinality(work_items') = q - n
    BY <1>8, SpawnStep
  <2>2. UNCHANGED <<opt, inbox, requests, codegen_done, mstate>> /\ tokens' = Relinquish /\ cpc = "spawn"
    BY <1>8 DEF Spawn
  <2>3. CASE codegen_done
    BY <2>2, <2>3 DEF Requested
  <2>4. codegen_aborted => codegen_done
    BY DEF Translated
  <2>5. CASE ~codegen_done /\ ~codegen_aborted
    <3>1. n = IF tokens - running < q THEN tokens - running ELSE q
      BY <2>1, <2>5 DEF ToSpawn
    <3>2. running <= tokens /\ mstate # "Idle" /\ (mstate = "LLVMing" => tokens = running)
      BY <2>2, <2>5 DEF TokensInUse
    <3>3. tokens' = running + n
      BY <1>0, <2>1, <2>2, <3>1, <3>2 DEF Relinquish
    <3> QED
      BY <1>0, <2>1, <2>2, <2>5, <3>1, <3>2, <3>3 DEF Requested, Count, LLVMing
  <2> QED
    BY <2>3, <2>4, <2>5
<1>9. CASE Receive
  <2>1. ~Gone /\ UNCHANGED opt /\ cpc = "recv"
    BY <1>9 DEF Receive, Gone
  <2>2. r = Cardinality(Of(inbox', TokenMsgs)) + (IF Head(inbox).t \in TokenMsgs THEN 1 ELSE 0)
    BY <1>9, CountReceived
  <2>3. Cardinality(Of(inbox', TokenMsgs)) \in Nat
    BY <1>9, ReceiveStep, Popped, CountType DEF TypeOK
  <2>4. tokens = running
    BY <2>1 DEF TokensInUse
  <2>5. CASE RecvToken
    BY <1>0, <2>1, <2>2, <2>3, <2>4, <2>5 DEF RecvToken, Pop, TokenMsgs, Requested, Count, LLVMing
  <2>6. CASE RecvCodegenDone
    <3>1. Head(inbox).t = "CodegenDone" /\ mstate' = "Idle" /\ UNCHANGED <<running, tokens, codegen_done>>
          /\ work_items' = work_items \union {Body}
          /\ requests' = IF opt.parallel THEN requests + 1 ELSE requests
      BY <2>6 DEF RecvCodegenDone, Pop
    <3>2. Cardinality(work_items') <= q + 1 /\ Cardinality(work_items') \in Nat
      BY <1>0, <3>1, FS_AddElement
    <3>3. Cardinality(Of(inbox', TokenMsgs)) = r
      BY <1>0, <2>2, <2>3, <3>1 DEF TokenMsgs
    <3> QED
      BY <1>0, <2>1, <3>1, <3>2, <3>3 DEF Requested, Count, LLVMing
  <2>7. CASE RecvCodegenComplete \/ RecvCodegenAborted \/ RecvFatal
    BY <2>7 DEF RecvCodegenComplete, RecvCodegenAborted, RecvFatal, Requested
  <2>8. CASE RecvImportOnly
    BY <1>0, <2>1, <2>2, <2>3, <2>4, <2>8 DEF RecvImportOnly, Pop, TokenMsgs, Requested, Count, LLVMing
  <2>9. CASE RecvResult
    <3>1. Head(inbox).t \in Results /\ Head(inbox).t \notin TokenMsgs /\ FreeWorker
          /\ UNCHANGED <<requests, codegen_done, work_items, tokens>>
      BY <2>9 DEF RecvResult, Pop, Results, TokenMsgs
    <3>2. mstate # "LLVMing" => running > 0
      BY <1>9, <2>1, <3>1, ReceiveStep, Heard
    <3> QED
      BY <1>0, <2>1, <2>2, <2>3, <2>4, <3>1, <3>2 DEF FreeWorker, Requested, Count, LLVMing
  <2> QED
    BY <1>9, <2>5, <2>6, <2>7, <2>8, <2>9 DEF Receive
<1>10. CASE Return \/ Panic
  <2>1. Ends
    BY <1>10, EndStep
  <2>2. Cardinality(work_items') = 0 /\ Cardinality(Of(inbox', TokenMsgs)) = 0
    BY <2>1, FS_EmptySet DEF Ends, Of
  <2> QED
    BY <2>1, <2>2 DEF Ends, Requested, Count, LLVMing
<1> QED
  BY <1>2, <1>4, <1>5, <1>6, <1>7, <1>8, <1>9, <1>10 DEF Next, MainStep, Coordinate

\* Without leave to translate there is no message of the main thread.
LEMMA MainSilent ==
  ASSUME TypeOK, Turn, ~Gone, mstate # "Codegenning"
  PROVE  \A k \in 1..Len(inbox) : inbox[k].t \notin MainMsgs
<1>1. Count(MainMsgs) = 0
  BY CountsType DEF Turn, TypeOK
<1> QED
  BY <1>1, CountType DEF Count, TypeOK

\* No step produces input for LTO after LTO.
LEMMA AfterLtoStep ==
  ASSUME TypeOK, Counted, Turn, Translated, AfterLto, [Next]_vars
  PROVE  AfterLto'
<1> USE DEF coord, flags, sched, collected, mainVars
<1>1. CASE UNCHANGED <<inbox, workers, coord>>
  BY <1>1 DEF AfterLto, AllItems
<1>2. CASE MainReady \/ MainWait \/ MainUnwind \/ MainJoin \/ UNCHANGED vars
  BY <1>1, <1>2 DEF MainReady, MainWait, MainUnwind, MainJoin, vars
<1>3. ASSUME NEW m, Sends(m), workers' \subseteq workers, UNCHANGED coord,
             started_lto => m.t \notin {"NeedsLTO", "CodegenDone", "AddImportOnlyModule"}
      PROVE  AfterLto'
  <2>1. \A k \in 1..Len(inbox') : inbox'[k] = m \/ (k \in 1..Len(inbox) /\ inbox'[k] = inbox[k])
    BY <1>3, AfterSend
  <2> QED
    BY <1>3, <2>1 DEF AfterLto, AllItems
<1>4. CASE MainSubmit
  <2>1. ~started_lto
    BY <1>4 DEF MainSubmit, Translated, Over
  <2> QED
    BY <1>3, <1>4, <2>1, SubmitStep DEF Submits, MainSubmit
<1>5. CASE MainComplete \/ MainDrop \/ Answer
  <2>1. \E m : Sends(m) /\ m.t \notin {"NeedsLTO", "CodegenDone", "AddImportOnlyModule"}
    BY <1>5, SentByOthers DEF TokenMsgs, Message
  <2> QED
    BY <1>3, <1>5, <2>1 DEF MainComplete, MainDrop, Answer
<1>6. ASSUME NEW item \in workers, Work(item)
      PROVE  AfterLto'
  <2>1. PICK m : Reports(item, m)
    BY <1>6, WorkStep
  <2>2. started_lto => m.t \notin {"NeedsLTO", "CodegenDone", "AddImportOnlyModule"}
    BY <2>1 DEF Reports, Results, AfterLto, AllItems
  <2> QED
    BY <1>3, <1>6, <2>1, <2>2 DEF Reports, Work
<1>7. CASE Decide /\ ~DecideLTO
  <2>1. UNCHANGED <<inbox, flags, needs_lto, import_only>>
    BY <1>7 DEF Decide, DecideCodegen, DecideLLVM, DecideNothing, DecideImplicit, DecideTakeOver
  <2>2. AllItems' \subseteq AllItems
    BY <1>7 DEF Decide, DecideCodegen, DecideLLVM, DecideNothing, DecideImplicit, DecideTakeOver,
                LLVMOnImplicitToken, AllItems
  <2> QED
    BY <2>1, <2>2 DEF AfterLto
<1>8. CASE Decide /\ DecideLTO
  <2>1. ~Gone /\ running = 0 /\ mstate = "Idle" /\ codegen_done /\ work_items = {}
        /\ UNCHANGED <<inbox, codegen_done>> /\ needs_lto' = {} /\ import_only' = {}
    BY <1>8 DEF Decide, DecideLTO, LTOIsDue, Gone
  <2>2. workers = {} /\ \A k \in 1..Len(inbox) : inbox[k].t \notin Results
    BY <2>1, Quiet
  <2>3. \A k \in 1..Len(inbox) : inbox[k].t \notin MainMsgs
    BY <2>1, MainSilent
  <2>4. PICK copied \in SUBSET import_only : LLVMOnImplicitToken(LtoWork(copied))
    BY <1>8 DEF DecideLTO
  <2>5. AllItems' \subseteq LtoWork(copied)
    BY <2>1, <2>2, <2>4 DEF LLVMOnImplicitToken, AllItems
  <2>6. \A i \in AllItems' : i.kind # "Optimize"
    BY <2>5, LtoSplit
  <2> QED
    BY <2>1, <2>2, <2>3, <2>6 DEF AfterLto, Results, MainMsgs
<1>9. CASE Spawn
  <2>1. AllItems' \subseteq AllItems
    BY <1>9 DEF Spawn, AllItems
  <2> QED
    BY <1>9, <2>1 DEF Spawn, AfterLto
<1>10. CASE Receive
  <2> SUFFICES ASSUME started_lto
               PROVE  AfterLto'
    BY <1>10 DEF Receive, AfterLto
  <2>1. /\ inbox # <<>> /\ Head(inbox) = inbox[1] /\ 1 \in 1..Len(inbox)
        /\ \A k \in 1..Len(inbox') : k + 1 \in 1..Len(inbox) /\ inbox'[k] = inbox[k + 1]
    BY <1>10, AfterReceive
  <2>2. Head(inbox).t \notin {"NeedsLTO", "CodegenDone", "AddImportOnlyModule"}
    BY <2>1 DEF AfterLto
  <2>3. UNCHANGED <<workers, work_items, needs_lto, import_only>> /\ codegen_done'
    BY <1>10, <2>2 DEF Receive, RecvToken, RecvCodegenDone, RecvCodegenComplete, RecvCodegenAborted,
         RecvResult, RecvImportOnly, RecvFatal, Pop, AfterLto
  <2> QED
    BY <2>1, <2>3 DEF AfterLto, AllItems
<1>11. CASE Return \/ Panic
  <2>1. Ends
    BY <1>11, EndStep
  <2> QED
    BY <2>1 DEF Ends, AfterLto
<1> QED
  BY <1>2, <1>4, <1>5, <1>6, <1>7, <1>8, <1>9, <1>10, <1>11 DEF Next, MainStep, Coordinate

\* What Combined says of one message.
CombinedMsg(m) ==
  /\ opt.combine =>
       /\ m.t # "AddImportOnlyModule"
       /\ m.t = "Done" => m.body \subseteq {0}
       /\ m.t = "CodegenDone" => m.body.kind # "Copy"
  /\ ~opt.combine => m.t # "NeedsLink"

\* No step mixes combined and other units.
LEMMA CombinedStep ==
  ASSUME TypeOK, Counted, Combined, [Next]_vars
  PROVE  Combined'
<1> USE DEF coord, flags, sched, collected, mainVars
<1>1. CASE UNCHANGED <<opt, inbox, workers, coord>>
  BY <1>1 DEF Combined, AllItems, Gone
<1>2. CASE MainReady \/ MainWait \/ MainUnwind \/ MainJoin \/ UNCHANGED vars
  BY <1>1, <1>2 DEF MainReady, MainWait, MainUnwind, MainJoin, vars
<1>3. ASSUME NEW m, Sends(m), workers' \subseteq workers, UNCHANGED <<opt, coord>>,
             ~Gone => CombinedMsg(m)
      PROVE  Combined'
  <2>1. CASE Gone
    <3>1. inbox' = inbox
      BY <1>3, <2>1 DEF Sends, Send
    <3> QED
      BY <1>3, <2>1, <3>1 DEF Combined, Gone
  <2>2. CASE ~Gone
    <3>1. \A k \in 1..Len(inbox') : inbox'[k] = m \/ (k \in 1..Len(inbox) /\ inbox'[k] = inbox[k])
      BY <1>3, AfterSend
    <3> QED
      BY <1>3, <2>2, <3>1 DEF Combined, CombinedMsg, AllItems, Gone
  <2> QED
    BY <2>1, <2>2
<1>4. CASE MainSubmit
  <2>1. PICK m : Submits(m)
    BY <1>4, SubmitStep
  <2>2. CombinedMsg(m)
    BY <2>1 DEF Submits, CombinedMsg
  <2> QED
    BY <1>3, <1>4, <2>1, <2>2 DEF Submits, MainSubmit
<1>5. CASE MainComplete \/ MainDrop \/ Answer
  <2>1. \E m : Sends(m) /\ CombinedMsg(m)
    BY <1>5, SentByOthers DEF TokenMsgs, Message, CombinedMsg
  <2> QED
    BY <1>3, <1>5, <2>1 DEF MainComplete, MainDrop, Answer
<1>6. ASSUME NEW item \in workers, Work(item)
      PROVE  Combined'
  <2>1. PICK m : Reports(item, m)
    BY <1>6, WorkStep
  <2>2. ~Gone => CombinedMsg(m)
    BY <2>1 DEF Reports, Results, CombinedMsg, Carried, Combined, AllItems
  <2> QED
    BY <1>3, <1>6, <2>1, <2>2 DEF Reports, Work
<1>7. CASE Decide /\ ~DecideLTO
  <2>1. ~Gone /\ UNCHANGED <<opt, inbox, import_only, compiled, needs_link>>
    BY <1>7 DEF Decide, DecideCodegen, DecideLLVM, DecideNothing, DecideImplicit, DecideTakeOver, Gone
  <2>2. AllItems' \subseteq AllItems
    BY <1>7 DEF Decide, DecideCodegen, DecideLLVM, DecideNothing, DecideImplicit, DecideTakeOver,
                LLVMOnImplicitToken, AllItems
  <2> QED
    BY <2>1, <2>2 DEF Combined
<1>8. CASE Decide /\ DecideLTO
  <2>1. ~Gone /\ running = 0 /\ mstate = "Idle" /\ work_items = {}
        /\ UNCHANGED <<opt, inbox, compiled, needs_link>> /\ import_only' = {}
    BY <1>8 DEF Decide, DecideLTO, LTOIsDue, Gone
  <2>2. workers = {}
    BY <2>1, Quiet
  <2>3. PICK copied \in SUBSET import_only : LLVMOnImplicitToken(LtoWork(copied))
    BY <1>8 DEF DecideLTO
  <2>4. AllItems' \subseteq LtoWork(copied)
    BY <2>1, <2>2, <2>3 DEF LLVMOnImplicitToken, AllItems
  <2>5. import_only = {} => \A i \in AllItems' : i.kind # "Copy"
    BY <2>4, LtoSplit
  <2> QED
    BY <2>1, <2>5 DEF Combined
<1>9. CASE Spawn
  <2>1. AllItems' \subseteq AllItems
    BY <1>9 DEF Spawn, AllItems
  <2> QED
    BY <1>9, <2>1 DEF Spawn, Combined, Gone
<1>10. CASE Receive
  <2>1. /\ inbox # <<>> /\ Head(inbox) = inbox[1] /\ 1 \in 1..Len(inbox)
        /\ \A k \in 1..Len(inbox') : k + 1 \in 1..Len(inbox) /\ inbox'[k] = inbox[k + 1]
        /\ Body = Head(inbox).body
    BY <1>10, AfterReceive, ReceiveStep
  <2>2. ~Gone /\ UNCHANGED <<opt, workers>>
    BY <1>10 DEF Receive, Gone
  <2>3. CombinedMsg(Head(inbox))
    BY <2>1, <2>2 DEF Combined, CombinedMsg
  <2>4. opt.combine => import_only' = {} /\ compiled' \subseteq {0} /\ \A i \in AllItems' : i.kind # "Copy"
    <3> SUFFICES ASSUME opt.combine
                 PROVE  import_only' = {} /\ compiled' \subseteq {0} /\ \A i \in AllItems' : i.kind # "Copy"
      OBVIOUS
    <3>1. import_only = {} /\ compiled \subseteq {0} /\ \A i \in AllItems : i.kind # "Copy"
      BY <2>2 DEF Combined
    <3>2. CASE RecvResult
      BY <2>1, <2>2, <2>3, <3>1, <3>2 DEF RecvResult, Pop, CombinedMsg, AllItems
    <3>3. CASE RecvCodegenDone
      BY <2>1, <2>2, <2>3, <3>1, <3>3 DEF RecvCodegenDone, Pop, CombinedMsg, AllItems
    <3>4. ~RecvImportOnly
      BY <2>3 DEF RecvImportOnly, Pop, CombinedMsg
    <3>5. CASE RecvToken \/ RecvCodegenComplete \/ RecvCodegenAborted \/ RecvFatal
      BY <2>2, <3>1, <3>5 DEF RecvToken, RecvCodegenComplete, RecvCodegenAborted, RecvFatal, AllItems
    <3> QED
      BY <1>10, <3>2, <3>3, <3>4, <3>5 DEF Receive
  <2>5. ~opt.combine => needs_link' = {}
    BY <1>10, <2>3 DEF Receive, RecvToken, RecvCodegenDone, RecvCodegenComplete, RecvCodegenAborted,
         RecvResult, RecvImportOnly, RecvFatal, Pop, CombinedMsg, Combined
  <2> QED
    BY <2>1, <2>2, <2>4, <2>5 DEF Combined
<1>11. CASE Return \/ Panic
  <2>1. Ends
    BY <1>11, EndStep
  <2>2. Gone' /\ Len(inbox') = 0
    BY <2>1 DEF Ends, Gone
  <2> QED
    BY <2>1, <2>2 DEF Ends, Combined
<1> QED
  BY <1>2, <1>4, <1>5, <1>6, <1>7, <1>8, <1>9, <1>10, <1>11 DEF Next, MainStep, Coordinate

\* At the end of the loop nobody works and, if nothing failed, all the units
\* that were submitted, that is all there are, are compiled.
LEMMA LoopEnds ==
  ASSUME IInv, cpc = "decide", ~KeepGoing
  PROVE  workers = {} /\ (~codegen_aborted => Finished = AllUnits)
<1> USE DEF IInv, Places, Workers
<1>1. ~Gone /\ codegen_done /\ running = 0 /\ mstate # "LLVMing"
  BY DEF Gone, KeepGoing, TypeOK
<1>2. workers = {} /\ \A k \in 1..Len(inbox) : inbox[k].t \notin Results
  BY <1>1, Quiet
<1>3. ASSUME ~codegen_aborted
      PROVE  Finished = AllUnits
  <2>1. work_items = {} /\ ForLto = {} /\ mstate = "Idle"
    BY <1>3 DEF KeepGoing, ForLto
  <2>2. \A k \in 1..Len(inbox) : inbox[k].t \notin MainMsgs
    BY <1>1, <2>1, MainSilent
  <2>3. \A k \in 1..Len(inbox) : Carried(inbox[k]) = {}
    <3> TAKE k \in 1..Len(inbox)
    <3>1. inbox[k] \in Msgs
      BY DEF TypeOK
    <3> QED
      BY <1>2, <2>2, <3>1 DEF Msgs, Results, MainMsgs, Carried
  <2>4. unit = Complete
    BY <1>1, <1>3 DEF Translated, Over
  <2>5. Submitted = AllUnits
    BY <2>4, ConstantsAssumption DEF Submitted, AllUnits, Units, Complete, TypeOK, Options
  <2>6. Finished \subseteq Submitted
    BY DEF Known
  <2>7. Submitted \subseteq Finished
    BY <1>1, <1>2, <1>3, <2>1, <2>3 DEF NoneLost, AllItems, Results
  <2> QED
    BY <2>5, <2>6, <2>7
<1> QED
  BY <1>2, <1>3

\* The coordinator ends in order.
LEMMA EndedStep ==
  ASSUME IInv, [Next]_vars
  PROVE  Ended'
<1> USE DEF coord, flags, sched, collected, mainVars
<1>0. Ended
  BY DEF IInv
<1>1. CASE MainStep \/ MainUnwind \/ Answer \/ (\E item \in workers : Work(item)) \/ UNCHANGED vars
  <2>1. UNCHANGED <<opt, coord>> /\ workers' \subseteq workers /\ (mpc' = "done" => mpc = "done" \/ Gone)
    BY <1>1 DEF MainStep, MainReady, MainWait, MainSubmit, MainComplete, MainDrop,
         MainJoin, MainUnwind, Answer, Work, vars
  <2> QED
    BY <1>0, <2>1 DEF Ended, Gone, AllUnits
<1>2. CASE Decide \/ Spawn \/ Receive
  <2>1. ~Gone /\ ~Gone' /\ mpc' = mpc
    BY <1>2 DEF Decide, Spawn, Receive, Gone
  <2> QED
    BY <1>0, <2>1 DEF Ended, Gone
<1>3. CASE Return
  <2>1. Ends
    BY <1>3, EndStep
  <2>2. workers = {} /\ (~codegen_aborted => Finished = AllUnits)
    BY <1>3, LoopEnds DEF Return
  <2>3. cpc' = "ok" => compiled' = Finished /\ ~codegen_aborted
    BY <1>3 DEF Return, ThreadEnds, Finished
  <2> QED
    BY <2>1, <2>2, <2>3 DEF Ends, Ended, Gone, AllUnits
<1>4. CASE Panic
  <2>1. Ends /\ cpc' = "panicked"
    BY <1>4, EndStep DEF Panic, ThreadEnds
  <2> QED
    BY <2>1 DEF Ends, Ended, Gone
<1> QED
  BY <1>1, <1>2, <1>3, <1>4 DEF Next, Coordinate

-----------------------------------------------------------------------------
(* The invariant holds.                                                    *)

\* The invariant holds at the start ...
LEMMA InitIInv == Init => IInv
<1> SUFFICES ASSUME Init
             PROVE  IInv
  OBVIOUS
<1>1. /\ opt \in Options /\ unit = opt.first /\ inbox = <<>> /\ Len(inbox) = 0
      /\ workers = {} /\ work_items = {} /\ needs_lto = {} /\ import_only = {}
      /\ needs_link = {} /\ compiled = {} /\ ~Gone
  BY SessionsAssumption DEF Init, Gone
<1>2. opt.first \in Nat /\ unit \in opt.first..Complete
  BY <1>1, ConstantsAssumption DEF Options, Complete
<1>3. TypeOK
  <2>1. inbox \in Seq(Msgs)
    BY <1>1
  <2> QED
    BY <1>1, <1>2, <2>1 DEF Init, TypeOK
<1>4. AllItems = {} /\ ForLto = {} /\ Finished = {} /\ Submitted = {}
  BY <1>1, <1>2 DEF AllItems, ForLto, Finished, Submitted, Units
<1>5. Places
  BY <1>1, <1>4 DEF Places, Known, Apart, NoneLost
<1>6. /\ \A ts : Count(ts) = 0
      /\ Cardinality(workers) = 0 /\ Cardinality(work_items) = 0
  BY <1>1, FS_EmptySet DEF Count, Of
<1>7. Workers
  BY <1>1, <1>6 DEF Init, Workers, Counted, Turn, NothingYet, Translated, LLVMing
<1>8. Tokens
  BY <1>6 DEF Init, Tokens, TokensInUse, Requested, LLVMing
<1>9. Kinds
  BY <1>1, <1>4 DEF Init, Kinds, AfterLto, Combined
<1>10. Ended
  BY <1>1 DEF Init, Ended, Gone
<1> QED
  BY <1>3, <1>5, <1>7, <1>8, <1>9, <1>10 DEF IInv

\* ... and after every step.
LEMMA NextIInv ==
  ASSUME IInv, [Next]_vars
  PROVE  IInv'
<1>1. /\ TypeOK /\ Places /\ Counted /\ Turn /\ NothingYet /\ Translated
      /\ TokensInUse /\ Requested /\ AfterLto /\ Combined
  BY DEF IInv, Workers, Tokens, Kinds
<1>2. TypeOK' /\ Places'
  BY <1>1, TypeStep, PlacesStep
<1>3. Workers'
  BY <1>1, CountedStep, TurnStep, NothingYetStep, TranslatedStep DEF Workers
<1>4. Tokens'
  BY <1>1, TokensInUseStep, RequestedStep DEF Tokens
<1>5. Kinds'
  BY <1>1, AfterLtoStep, CombinedStep DEF Kinds
<1>6. Ended'
  BY EndedStep
<1> QED
  BY <1>2, <1>3, <1>4, <1>5, <1>6 DEF IInv

\* The invariant holds in every state of every session: units, workers, tokens
\* and messages are accounted for whatever the threads and the jobserver do.
THEOREM Invariance == Spec => []IInv
<1>1. IInv /\ [Next]_vars => IInv'
  BY NextIInv
<1> QED
  BY InitIInv, <1>1, PTL DEF Spec

\* Every variable keeps its type: no counter of the coordinator goes below
\* zero (running -= 1 in free_worker never underflows).
THEOREM TypeCorrect == Spec => []TypeOK
<1>1. IInv => TypeOK
  BY DEF IInv
<1> QED
  BY <1>1, Invariance, PTL

\* The threads at work, the translating main thread among them, never
\* outnumber the tokens held plus the implicit one.
THEOREM ParallelismBounded == Spec => []TokensSuffice
<1>1. IInv => TokensSuffice
  <2> SUFFICES ASSUME IInv, cpc # "panicked"
               PROVE  Cardinality(workers) + (IF mpc \in {"start", "codegen"} THEN 1 ELSE 0)
                        <= tokens + 1
    BY DEF TokensSuffice
  <2>0. /\ TypeOK /\ Counted /\ Turn /\ NothingYet /\ TokensInUse /\ Ended
        /\ tokens \in Nat /\ running \in Nat /\ signals \in Nat
    BY DEF IInv, Workers, Tokens, TypeOK
  <2>1. /\ Cardinality(workers) \in Nat /\ LLVMing \in {0, 1}
        /\ Count(Results) \in Nat /\ Count(MainMsgs) \in Nat
    BY <2>0, CountsType
  <2>2. CASE Gone
    <3>1. workers = {} /\ Cardinality(workers) = 0
      BY <2>0, <2>2, FS_EmptySet DEF Ended, Gone
    <3> QED
      BY <2>0, <3>1
  <2>3. CASE ~Gone /\ mpc = "start"
    <3>1. workers = {} /\ Cardinality(workers) = 0
      BY <2>0, <2>3, FS_EmptySet DEF NothingYet
    <3> QED
      BY <2>0, <3>1
  <2>4. CASE ~Gone /\ mpc # "start"
    <3>1. mpc = "codegen" => mstate = "Codegenning"
      BY <2>0, <2>1, <2>4 DEF Turn
    <3>2. Cardinality(workers) <= tokens + LLVMing
      BY <2>0, <2>1, <2>4 DEF Counted, TokensInUse
    <3> QED
      BY <2>0, <2>1, <2>4, <3>1, <3>2 DEF LLVMing
  <2> QED
    BY <2>2, <2>3, <2>4
<1> QED
  BY <1>1, Invariance, PTL

\* While the main thread is put to LLVM work although units are left to
\* translate, a request is pending whose token sets it free: what
\* queue_full_enough argues from.
THEOREM MainThreadIsFreed == Spec => []RequestPending
<1>1. IInv => RequestPending
  <2> SUFFICES ASSUME IInv, cpc = "recv", ~codegen_done, mstate = "LLVMing", opt.parallel
               PROVE  requests + Cardinality(Messages({"Token", "TokenErr"})) > 0
    BY DEF RequestPending
  <2>0. TypeOK /\ TokensInUse /\ Requested /\ tokens \in Nat /\ running \in Nat /\ requests \in Nat
    BY DEF IInv, Tokens, TypeOK
  <2>1. Cardinality(work_items) \in Nat /\ Count(TokenMsgs) \in Nat /\ LLVMing = 1
    BY <2>0, CountsType DEF LLVMing
  <2>2. Messages({"Token", "TokenErr"}) = Of(inbox, TokenMsgs)
    BY DEF Messages, Of, TokenMsgs
  <2>3. tokens = running /\ running + Cardinality(work_items) + LLVMing <= requests + Count(TokenMsgs) + tokens
    BY <2>0 DEF TokensInUse, Requested
  <2> QED
    BY <2>0, <2>1, <2>2, <2>3 DEF Count
<1> QED
  BY <1>1, Invariance, PTL

\* The coordinator's assertions never fail (assert!(!codegen_done) for a cached
\* module apart, which may).
THEOREM AssertionsNeverFail == Spec => []AssertionsHold
<1>1. IInv => AssertionsHold
  <2> SUFFICES ASSUME IInv
               PROVE  AssertionsHold
    OBVIOUS
  <2>0. /\ TypeOK /\ Turn /\ Translated /\ TokensInUse /\ AfterLto /\ Combined /\ Ended /\ Counted
    BY DEF IInv, Workers, Tokens, Kinds
  <2>1. running <= tokens
    BY <2>0 DEF TokensInUse
  <2>2. ASSUME cpc = "decide", KeepGoing, codegen_done, ~codegen_aborted
        PROVE  /\ mstate # "Codegenning"
               /\ (mstate = "Idle" /\ work_items = {} /\ running = 0) =>
                    ~started_lto /\ needs_lto \cup import_only # {}
    <3>1. mstate # "Codegenning"
      BY <2>0, <2>2 DEF Translated
    <3>2. ASSUME mstate = "Idle", work_items = {}, running = 0
          PROVE  ~started_lto /\ needs_lto \cup import_only # {}
      BY <2>0, <2>2, <3>2 DEF KeepGoing, AfterLto
    <3> QED
      BY <3>1, <3>2
  <2>3. ASSUME cpc = "recv", inbox # <<>>
        PROVE  /\ Head(inbox).t \in {"CodegenDone", "CodegenComplete", "AddImportOnlyModule"}
                    => mstate = "Codegenning"
               /\ Head(inbox).t \in {"NeedsLTO", "AddImportOnlyModule"} => ~started_lto
    <3>1. ~Gone
      BY <2>3 DEF Gone
    <3>2. Head(inbox).t \in MainMsgs => mstate = "Codegenning"
      BY <2>0, <2>3, <3>1, MainHeard
    <3>3. Head(inbox) = inbox[1] /\ 1 \in 1..Len(inbox)
      BY <2>0, <2>3, Popped DEF TypeOK
    <3> QED
      BY <2>0, <3>2, <3>3 DEF MainMsgs, AfterLto
  <2>4. ASSUME cpc = "decide", needs_link # {}
        PROVE  compiled \subseteq {0}
    BY <2>0, <2>4 DEF Combined, Gone, TypeOK, Options
  <2> QED
    BY <2>1, <2>2, <2>3, <2>4 DEF AssertionsHold
<1> QED
  BY <1>1, Invariance, PTL

\* A coordinator that returns Ok returns every unit, and before that no unit
\* is in two places.
THEOREM NoUnitLost == Spec => []OkMeansComplete
<1>1. IInv => OkMeansComplete
  <2> SUFFICES ASSUME IInv
               PROVE  OkMeansComplete
    OBVIOUS
  <2>1. cpc = "ok" => compiled = AllUnits /\ needs_link = {}
    BY DEF IInv, Ended, Gone
  <2>2. \A a, b \in work_items \cup workers : a # b => a.units \cap b.units = {}
    BY DEF IInv, Places, Apart, AllItems
  <2>3. \A i \in work_items \cup workers : i.units \cap (ForLto \union Finished) = {}
    BY DEF IInv, Places, Apart, AllItems
  <2>4. \A c \in {needs_lto, import_only, needs_link, compiled} :
          c \cap UNION {i.units : i \in work_items \cup workers} = {}
    BY <2>3 DEF ForLto, Finished
  <2> QED
    BY <2>1, <2>2, <2>4 DEF OkMeansComplete
<1> QED
  BY <1>1, Invariance, PTL

\* Once the main thread has joined a coordinator that did not panic, no worker
\* runs any more.
THEOREM JoinWaitsForWorkers == Spec => []JoinedMeansQuiet
<1>1. IInv => JoinedMeansQuiet
  BY DEF IInv, Ended, Gone, JoinedMeansQuiet
<1> QED
  BY <1>1, Invariance, PTL
=============================================================================
