------------------------- MODULE ArrayChannelProofs -------------------------
(***************************************************************************)
(* Proofs about the bounded channel, for every capacity, every finite set  *)
(* of senders and receivers and every number of messages.                  *)
(***************************************************************************)
EXTENDS ArrayChannel, TLAPS, FiniteSetTheorems, NaturalsInduction, WellFoundedInduction

----------------------------------------------------------------------------
(* The inductive invariant *)

\* The stamp of position n, that is, after n messages, and its slot.
Ix(n) == n % Cap
Enc(n) == (n \div Cap) * OneLap + Ix(n)

\* Messages claimed by senders, by receivers, and the position t works on.
N == Len(log)
H == Position(head)
At(t) == Position(loc[t])
Window == H..(H + Cap - 1)

InCall == {"inspect", "probe", "claim", "access", "publish"}
InFlight == {"access", "publish"}
Blocked == {"ready1", "ready2", "ready3", "wait", "park"}
Leaving == {"mark", "wake_senders", "wake_receivers", "destroy"}

\* head and tail are the stamps of H and N, and at most Cap messages are in.
EndsOK ==
  /\ H \in Nat /\ head = Enc(H)
  /\ tail \in {Enc(N), Enc(N) + MarkBit}
  /\ H <= N /\ N <= H + Cap

\* What a call has loaded is a position that its end has reached.
LocOf(t) == pc[t] \in InCall =>
  /\ At(t) \in Nat /\ loc[t] = Enc(At(t))
  /\ t \in Sender => At(t) <= N
  /\ t \in Receiver => At(t) <= H
LocOK == \A t \in Thread : LocOf(t)
AuxOf(t) == pc[t] = "ready2" =>
  /\ t \in Sender => \E k \in 0..N : Unmarked(aux[t]) = Enc(k)
  /\ t \in Receiver => \E k \in 0..H : aux[t] = Enc(k)
AuxOK == \A t \in Thread : AuxOf(t)

\* The stamp a claim was decided on is still there if the end is.
ClaimOf(t) == pc[t] = "claim" =>
  /\ t \in Sender /\ At(t) = N => stamp[Ix(N)] = Enc(N)
  /\ t \in Receiver /\ At(t) = H => stamp[Ix(H)] = Enc(H) + 1
ClaimOK == \A t \in Thread : ClaimOf(t)

\* Who has claimed a position owns its slot until it publishes the stamp.
WriterOf(t) == pc[t] \in InFlight =>
  /\ H <= At(t) /\ At(t) < N
  /\ stamp[Ix(At(t))] = Enc(At(t))
  /\ log[At(t) + 1] = <<t, SentBy(t)>>
  /\ slot[Ix(At(t))] = IF pc[t] = "access" THEN None ELSE log[At(t) + 1]
ReaderOf(t) == pc[t] \in InFlight =>
  /\ At(t) < H /\ N <= At(t) + Cap
  /\ stamp[Ix(At(t))] = Enc(At(t)) + 1
  /\ slot[Ix(At(t))] = IF pc[t] = "access" THEN log[At(t) + 1] ELSE None
WritersOK == \A t \in Sender : WriterOf(t)
ReadersOK == \A t \in Receiver : ReaderOf(t)
OwnersDiffer == \A t, u \in Thread :
  pc[t] \in InFlight /\ pc[u] \in InFlight /\ At(t) = At(u) => t = u

\* Each slot of the window: a sender is at it or its message is in; it is
\* free or the receiver of the lap before is at it.
Writing(n) == stamp[Ix(n)] = Enc(n) /\ \E t \in Sender : pc[t] \in InFlight /\ At(t) = n
Full(n) == stamp[Ix(n)] = Enc(n) + 1 /\ slot[Ix(n)] = log[n + 1]
Free(n) == stamp[Ix(n)] = Enc(n) /\ slot[Ix(n)] = None
Reading(n) == n >= Cap /\ stamp[Ix(n)] = Enc(n - Cap) + 1
              /\ \E t \in Receiver : pc[t] \in InFlight /\ At(t) = n - Cap
SlotOK(n) == IF n < N THEN Writing(n) \/ Full(n) ELSE Free(n) \/ Reading(n)
SlotsOK == ~freed => \A n \in Window : SlotOK(n)

\* Messages are numbered per sender, so no two of them are equal.
Calling == {"load", "inspect", "probe", "claim", "register", "ready1", "ready2", "ready3",
            "abort", "wait", "park", "unregister"}
LogOK ==
  /\ \A t \in Sender : \A i \in 1..N : log[i][1] = t => log[i][2] <= SentBy(t)
  /\ \A i, j \in 1..N : log[i] = log[j] => i = j
BudgetOK == \A t \in Sender : pc[t] \in Calling => SentBy(t) < MaxSends

\* The messages received are those below head, but for the ones being read.
GotOK ==
  /\ \A m \in got : \E n \in 0..(H - 1) : m = log[n + 1]
  /\ \A n \in 0..(H - 1) : log[n + 1] \in got
                           \/ \E t \in Receiver : pc[t] = "access" /\ At(t) = n

Ring == /\ EndsOK /\ LocOK /\ AuxOK /\ ClaimOK /\ WritersOK /\ ReadersOK /\ OwnersDiffer
        /\ SlotsOK /\ LogOK /\ BudgetOK /\ GotOK

\* The last of a side to drop its handle is the one that disconnects.
HandlesOK == \A t \in Thread : t \in handles <=> pc[t] \notin Leaving \union {"gone"}
LastOK == \A t, u \in Thread :
  pc[t] \in Leaving /\ Side(u) = Side(t) /\ u # t => pc[u] = "gone"
MarkedOK == Marked(tail) => Sender \intersect handles = {} \/ Receiver \intersect handles = {}
WakingOK == \A t \in Thread : pc[t] \in {"wake_senders", "wake_receivers"} => Marked(tail)
DestroyOK == destroy => (\A t \in Sender : pc[t] = "gone") \/ (\A t \in Receiver : pc[t] = "gone")
ClosedOK == \A t \in Receiver : pc[t] = "closed" => Marked(tail) /\ H = N
Counter == HandlesOK /\ LastOK /\ MarkedOK /\ WakingOK /\ DestroyOK /\ ClosedOK

\* A queue holds the threads of its side that block and that no notifier has
\* selected, each once.
Registered(t) ==
  \/ pc[t] \in Blocked \union {"abort"} /\ selected[t] # "operation"
  \/ pc[t] = "unregister"
Entries(s) == DOMAIN selectors[s]
Queued(t) == \E i \in Entries(Side(t)) : selectors[Side(t)][i] = t
FlagOK == \A s \in {Senders, Receivers} : is_empty[s] <=> selectors[s] = <<>>
EntriesOK == \A s \in {Senders, Receivers} :
  /\ \A i \in Entries(s) : Side(selectors[s][i]) = s
  /\ \A i, j \in Entries(s) : selectors[s][i] = selectors[s][j] => i = j
MembersOK == \A t \in Thread : Registered(t) <=> Queued(t)
UnregisterOf(t) == pc[t] = "unregister" => selected[t] \in {"aborted", "disconnected"}
UnregisterOK == \A t \in Thread : UnregisterOf(t)
TokenOf(t) == pc[t] = "park" /\ selected[t] # "waiting" => t \in token
TokenOK == \A t \in Thread : TokenOf(t)
Queues == FlagOK /\ EntriesOK /\ MembersOK /\ UnregisterOK /\ TokenOK

\* Who has found the channel not ready after registering, and waits.
Waits(t) == pc[t] \in {"ready3", "wait", "park"} /\ selected[t] = "waiting"
\* Who will look at the channel again, and who will look for a waiting thread.
Retries(t) ==
  \/ pc[t] \in {"load", "inspect", "probe", "claim", "unregister"}
  \/ pc[t] \in Blocked \union {"abort"} /\ selected[t] # "waiting"
Notifies(t) == pc[t] \in {"access", "publish", "notify", "select"}
Retrying(T) == {t \in T : Retries(t)}
Notifying(T) == {t \in T : Notifies(t)}
ForReceivers == Cardinality(Notifying(Sender)) + Cardinality(Retrying(Receiver))
ForSenders == Cardinality(Notifying(Receiver)) + Cardinality(Retrying(Sender))

\* While a receiver waits, every message is accounted for by a sender that
\* has yet to notify or a receiver that will look again; likewise the room
\* while a sender waits.  On a disconnected channel somebody is about to wake
\* who waits.
ReceiversWoken == ~Marked(tail) /\ (\E t \in Receiver : Waits(t)) => N - H <= ForReceivers
SendersWoken == ~Marked(tail) /\ (\E t \in Sender : Waits(t)) => Cap - (N - H) <= ForSenders
AllWoken == \A t \in Thread : Marked(tail) /\ Waits(t) /\ pc[t] # "ready3" =>
  \E u \in Thread : pc[u] = "wake_senders" \/ (t \in Receiver /\ pc[u] = "wake_receivers")
Wakeups == ReceiversWoken /\ SendersWoken /\ AllWoken

\* Nobody is left when the channel is freed, and nothing in it.
FreedOK ==
  /\ freed => /\ \A t \in Thread : pc[t] = "gone"
              /\ \A i \in 0..(Cap - 1) : slot[i] = None
              /\ got \union dropped = ToSet(log) /\ got \intersect dropped = {}
  /\ ~freed => dropped = {}

IInv == TypeOK /\ Ring /\ Counter /\ Queues /\ Wakeups /\ FreedOK

----------------------------------------------------------------------------
(* Stamps *)

\* Quotient and remainder are what they are called.
LEMMA DivMod ==
  ASSUME NEW a \in Nat, NEW b \in Nat \ {0}
  PROVE  /\ a \div b \in Nat /\ a % b \in 0..(b - 1)
         /\ a = (a \div b) * b + (a % b)
OBVIOUS

\* They are determined by that.
LEMMA DivUnique ==
  ASSUME NEW b \in Nat \ {0}, NEW q \in Nat, NEW r \in 0..(b - 1)
  PROVE  (q * b + r) \div b = q /\ (q * b + r) % b = r
OBVIOUS

\* Twice a power of two is one.
LEMMA TwicePower ==
  ASSUME NEW p \in Nat \ {0}, IsPowerOfTwo(p)
  PROVE  IsPowerOfTwo(2 * p)
<1> SUFFICES ASSUME NEW d \in 2..(2 * p), (2 * p) % d = 0, d % 2 # 0 PROVE FALSE
  BY DEF IsPowerOfTwo
<1> DEFINE e == (2 * p) \div d
           f == d \div 2
           g == e \div 2
<1>1. e \in Nat /\ 2 * p = e * d
  <2>1. 2 * p \in Nat /\ d \in Nat \ {0}
    OBVIOUS
  <2>2. e \in Nat /\ 2 * p = e * d + ((2 * p) % d)
    BY <2>1, DivMod
  <2> HIDE DEF e
  <2>3. e * d \in Nat
    BY <2>1, <2>2
  <2> QED
    BY <2>1, <2>2, <2>3
<1>2. f \in Nat /\ d = 2 * f + 1
  BY DivMod
<1>3. g \in Nat /\ (e = 2 * g \/ e = 2 * g + 1)
  <2>1. 2 \in Nat \ {0} /\ 0..(2 - 1) = {0, 1}
    OBVIOUS
  <2>2. g \in Nat /\ e % 2 \in 0..(2 - 1) /\ e = g * 2 + (e % 2)
    BY <1>1, <2>1, DivMod
  <2> HIDE DEF e, g
  <2>3. e % 2 = 0 \/ e % 2 = 1
    BY <2>1, <2>2
  <2> QED
    BY <1>1, <2>2, <2>3
<1> HIDE DEF e, f, g
<1>4. e * d = 2 * (e * f) + e
  BY <1>1, <1>2
<1>5. e = 2 * g
  <2>1. e * f \in Nat
    BY <1>1, <1>2
  <2> QED
    BY <2>1, <1>1, <1>3, <1>4
<1>6. p = g * d
  <2>1. e * d = 2 * (g * d)
    BY <1>5, <1>2, <1>3
  <2> QED
    BY <2>1, <1>1, <1>2, <1>3
<1>7. p % d = 0
  <2>1. (g * d + 0) % d = 0
    BY DivUnique, <1>3
  <2> QED
    BY <2>1, <1>6, <1>3
<1>8. d <= p
  <2>1. g # 0
    BY <1>6
  <2>2. g * d = d + (g - 1) * d
    BY <1>3
  <2>3. (g - 1) * d \in Nat
    BY <2>1, <1>3
  <2> QED
    BY <2>2, <2>3, <1>6
<1> QED
  BY <1>7, <1>8 DEF IsPowerOfTwo

\* A nonempty set of numbers has a least one.
LEMMA LeastExists ==
  ASSUME NEW S \in SUBSET Nat, S # {}
  PROVE  \E x \in S : \A y \in S : x <= y
<1>1. PICK x \in S : \A y \in S : ~(<<y, x>> \in OpToRel(<, Nat))
  BY NatLessThanWellFounded, WFMin, Zenon
<1>2. \A y \in S : y < x => <<y, x>> \in OpToRel(<, Nat)
  BY DEF OpToRel
<1>3. \A y \in S : x \in Nat /\ y \in Nat /\ ~(y < x)
  BY <1>1, <1>2
<1> QED
  BY <1>3

\* There is a power of two between a number and its double,
LEMMA PowerExists ==
  ASSUME NEW n \in Nat \ {0}
  PROVE  \E p \in n..(2 * n) : IsPowerOfTwo(p)
<1> DEFINE Bad == {m \in Nat \ {0} : \A p \in m..(2 * m) : ~IsPowerOfTwo(p)}
<1> SUFFICES ASSUME Bad # {} PROVE FALSE
  OBVIOUS
<1>1. PICK m \in Bad : \A k \in Bad : m <= k
  BY LeastExists
<1>2. m # 1
  <2>1. IsPowerOfTwo(1) /\ 1 \in 1..(2 * 1)
    BY DEF IsPowerOfTwo
  <2> QED
    BY <2>1
<1> DEFINE h == (m + 1) \div 2
<1>3. h \in Nat \ {0} /\ h < m /\ m <= 2 * h /\ 2 * h <= m + 1
  BY <1>2
<1> HIDE DEF h
<1>4. PICK p \in h..(2 * h) : IsPowerOfTwo(p)
  BY <1>1, <1>3
<1>5. \A q \in m..(2 * m) : ~IsPowerOfTwo(q)
  BY <1>1
<1>6. CASE p >= m
  BY <1>3, <1>4, <1>5, <1>6
<1>7. CASE p < m
  <2>1. 2 * p \in m..(2 * m)
    BY <1>3, <1>4, <1>7
  <2> QED
    BY <2>1, <1>3, <1>4, <1>5, TwicePower
<1> QED
  BY <1>3, <1>4, <1>6, <1>7

\* so the mark bit exists, and lies above every index and above Cap.
LEMMA MarkBitAbove == MarkBit \in Nat /\ MarkBit > Cap
<1> DEFINE n == Cap + 1
           P == {p \in n..(2 * n) : IsPowerOfTwo(p)}
<1>1. n \in Nat \ {0}
  BY ChannelAssumption
<1> HIDE DEF n
<1>2. P # {} /\ P \in SUBSET Nat
  BY <1>1, PowerExists
<1>3. PICK p \in P : \A q \in P : p <= q
  BY <1>2, LeastExists
<1>4. \A q \in n..(p - 1) : ~IsPowerOfTwo(q)
  BY <1>1, <1>3
<1>5. NextPowerOfTwo(n) \in n..(2 * n)
  BY <1>3, <1>4 DEF NextPowerOfTwo
<1> QED
  BY <1>1, <1>5, ChannelAssumption DEF MarkBit, n

\* What with_capacity() computes, as far as the proofs need it.
LEMMA Widths ==
  /\ Cap \in Nat \ {0} /\ MarkBit \in Nat \ {0} /\ Cap < MarkBit
  /\ OneLap \in Nat \ {0} /\ OneLap = 2 * MarkBit
BY ChannelAssumption, MarkBitAbove DEF OneLap

\* The lap and the index of a position.
LEMMA Laps ==
  ASSUME NEW n \in Nat
  PROVE  /\ n \div Cap \in Nat /\ Ix(n) \in 0..(Cap - 1) /\ Ix(n) \in Nat
         /\ n = (n \div Cap) * Cap + Ix(n)
         /\ Enc(n) = (n \div Cap) * OneLap + Ix(n) /\ Enc(n) \in Nat
         /\ (n \div Cap) * Cap \in Nat /\ (n \div Cap) * OneLap \in Nat
<1>1. n \div Cap \in Nat /\ Ix(n) \in 0..(Cap - 1) /\ n = (n \div Cap) * Cap + Ix(n)
  BY Widths, DivMod DEF Ix
<1>2. (n \div Cap) * Cap \in Nat /\ (n \div Cap) * OneLap \in Nat
  BY <1>1, Widths
<1> QED
  BY <1>1, <1>2, Widths DEF Enc

\* The stamp of a lap and an index.
LEMMA EncOf ==
  ASSUME NEW l \in Nat, NEW i \in 0..(Cap - 1)
  PROVE  /\ Ix(l * Cap + i) = i /\ Enc(l * Cap + i) = l * OneLap + i
         /\ l * Cap + i \in Nat
<1>1. (l * Cap + i) \div Cap = l /\ (l * Cap + i) % Cap = i
  BY Widths, DivUnique
<1>2. l * Cap \in Nat
  BY Widths
<1> QED
  BY <1>1, <1>2, Widths DEF Ix, Enc

\* The index, the mark bit and the lap of a stamp do not disturb each other.
LEMMA Fields ==
  ASSUME NEW l \in Nat, NEW i \in 0..Cap, NEW b \in {0, 1}
  PROVE  LET s == l * OneLap + b * MarkBit + i
         IN  /\ Index(s) = i
             /\ Marked(s) <=> b = 1
             /\ Unmarked(s) = l * OneLap + i
             /\ s \div OneLap = l
             /\ s % OneLap = b * MarkBit + i
<1> DEFINE s == l * OneLap + b * MarkBit + i
           q == 2 * l + b
           r == b * MarkBit + i
<1>1. q \in Nat /\ i \in 0..(MarkBit - 1) /\ r \in 0..(OneLap - 1)
  BY Widths
<1>2. s = q * MarkBit + i
  BY Widths
<1>3. s = l * OneLap + r /\ l * OneLap \in Nat
  BY Widths
<1>4. q % 2 = b
  OBVIOUS
<1> HIDE DEF s, q, r
<1>5. s \div MarkBit = q /\ s % MarkBit = i
  BY <1>1, <1>2, DivUnique, Widths
<1>6. s \div OneLap = l /\ s % OneLap = r
  BY <1>1, <1>3, DivUnique, Widths
<1>7. Index(s) = i /\ (Marked(s) <=> b = 1)
  BY <1>4, <1>5 DEF Index, Marked
<1>8. Unmarked(s) = l * OneLap + i
  BY <1>3, <1>7, Widths DEF Unmarked, r
<1> QED
  BY <1>6, <1>7, <1>8 DEF s, r

\* A stamp tells its index and its position,
LEMMA EncFields ==
  ASSUME NEW n \in Nat
  PROVE  /\ Index(Enc(n)) = Ix(n) /\ ~Marked(Enc(n)) /\ Unmarked(Enc(n)) = Enc(n)
         /\ Index(Enc(n) + MarkBit) = Ix(n) /\ Marked(Enc(n) + MarkBit)
         /\ Unmarked(Enc(n) + MarkBit) = Enc(n)
         /\ Index(Enc(n) + 1) = Ix(n) + 1
         /\ Position(Enc(n)) = n
<1> DEFINE l == n \div Cap
           i == Ix(n)
           s == Enc(n)
<1>1. /\ l \in Nat /\ i \in 0..(Cap - 1) /\ n = l * Cap + i
      /\ s = l * OneLap + i /\ s \in Nat /\ l * OneLap \in Nat
  BY Laps
<1> HIDE DEF l, i, s
<1>2. /\ s = l * OneLap + 0 * MarkBit + i /\ s + MarkBit = l * OneLap + 1 * MarkBit + i
      /\ s + 1 = l * OneLap + 0 * MarkBit + (i + 1)
      /\ i \in 0..Cap /\ i + 1 \in 0..Cap
  BY <1>1, Widths
<1>3. Index(s) = i /\ ~Marked(s) /\ Unmarked(s) = s /\ s \div OneLap = l
  BY <1>1, <1>2, Fields
<1>4. Index(s + MarkBit) = i /\ Marked(s + MarkBit) /\ Unmarked(s + MarkBit) = s
  BY <1>1, <1>2, Fields
<1>5. Index(s + 1) = i + 1
  BY <1>1, <1>2, Fields
<1>6. Position(s) = n
  BY <1>1, <1>3 DEF Position
<1> QED
  BY <1>3, <1>4, <1>5, <1>6 DEF s, i

\* so stamps are equal only if the positions are, and the stamp of a full
\* slot is never that of a free one.
LEMMA EncDiffer ==
  ASSUME NEW n \in Nat, NEW m \in Nat
  PROVE  /\ Enc(n) = Enc(m) => n = m
         /\ Enc(n) + 1 = Enc(m) + 1 => n = m
         /\ Ix(n) = Ix(m) => Enc(n) + 1 # Enc(m)
<1>1. Enc(n) = Enc(m) => n = m
  BY EncFields
<1>2. Enc(n) \in Nat /\ Enc(m) \in Nat /\ Ix(n) \in Nat /\ Ix(m) \in Nat
  BY Laps
<1>3. Enc(n) + 1 = Enc(m) => Ix(n) + 1 = Ix(m)
  BY EncFields
<1> QED
  BY <1>1, <1>2, <1>3

\* Advancing an end is counting.
LEMMA EncAdvance ==
  ASSUME NEW n \in Nat
  PROVE  Advance(Enc(n)) = Enc(n + 1)
<1> DEFINE l == n \div Cap
           i == Ix(n)
<1>1. /\ l \in Nat /\ i \in 0..(Cap - 1) /\ n = l * Cap + i /\ l * Cap \in Nat
      /\ Enc(n) = l * OneLap + i /\ l * OneLap \in Nat /\ Index(Enc(n)) = i
  BY Laps, EncFields
<1> HIDE DEF l, i
<1>2. CASE i + 1 < Cap
  <2>1. i + 1 \in 0..(Cap - 1) /\ n + 1 = l * Cap + (i + 1)
    BY <1>1, <1>2, Widths
  <2>2. Enc(n + 1) = l * OneLap + (i + 1)
    BY <1>1, <2>1, EncOf
  <2> QED
    BY <1>1, <1>2, <2>2, Widths DEF Advance
<1>3. CASE ~(i + 1 < Cap)
  <2>1. 0 \in 0..(Cap - 1) /\ l + 1 \in Nat /\ n + 1 = (l + 1) * Cap + 0
    BY <1>1, <1>3, Widths
  <2>2. Enc(n + 1) = (l + 1) * OneLap + 0
    BY <2>1, EncOf
  <2>3. Enc(n) = l * OneLap + 0 * MarkBit + i /\ i \in 0..Cap
    BY <1>1, Widths
  <2>4. Enc(n) % OneLap = i
    <3>1. Enc(n) % OneLap = 0 * MarkBit + i
      BY <1>1, <2>3, Fields
    <3> QED
      BY <3>1, <1>1, Widths
  <2> QED
    BY <1>1, <1>3, <2>2, <2>4, Widths DEF Advance
<1> QED
  BY <1>2, <1>3

\* Adding one lap is adding Cap.
LEMMA EncLap ==
  ASSUME NEW n \in Nat
  PROVE  Enc(n) + OneLap = Enc(n + Cap) /\ Ix(n + Cap) = Ix(n) /\ n + Cap \in Nat
<1> DEFINE l == n \div Cap
           i == Ix(n)
<1>1. /\ l \in Nat /\ i \in 0..(Cap - 1) /\ n = l * Cap + i /\ l * Cap \in Nat
      /\ Enc(n) = l * OneLap + i /\ l * OneLap \in Nat
  BY Laps
<1> HIDE DEF l, i
<1>2. l + 1 \in Nat /\ n + Cap = (l + 1) * Cap + i
  BY <1>1, Widths
<1>3. Ix(n + Cap) = i /\ Enc(n + Cap) = (l + 1) * OneLap + i
  BY <1>1, <1>2, EncOf
<1>4. Enc(n) + OneLap = Enc(n + Cap) /\ n + Cap \in Nat
  BY <1>1, <1>3, Widths
<1> QED
  BY <1>3, <1>4 DEF i

\* Positions of one slot are a lap or more apart.
LEMMA SameSlot ==
  ASSUME NEW n \in Nat, NEW m \in Nat, Ix(n) = Ix(m), n < m
  PROVE  n + Cap <= m
<1> DEFINE k == n \div Cap
           l == m \div Cap
<1>1. k \in Nat /\ l \in Nat /\ n = k * Cap + Ix(n) /\ m = l * Cap + Ix(n) /\ Ix(n) \in Nat
  BY Laps
<1> HIDE DEF k, l
<1>2. l > k
  BY <1>1, Widths
<1>3. l - (k + 1) \in Nat /\ (l - (k + 1)) * Cap \in Nat
  BY <1>1, <1>2, Widths
<1>4. m = n + Cap + (l - (k + 1)) * Cap
  BY <1>1, Widths
<1> QED
  BY <1>3, <1>4, Widths

\* Any Cap positions in a row cover all the slots.
LEMMA WindowCovers ==
  ASSUME NEW n \in Nat, NEW i \in 0..(Cap - 1)
  PROVE  \E m \in n..(n + Cap - 1) : Ix(m) = i
<1> DEFINE l == n \div Cap
           j == Ix(n)
<1>1. l \in Nat /\ j \in 0..(Cap - 1) /\ n = l * Cap + j /\ l * Cap \in Nat
  BY Laps
<1> HIDE DEF l, j
<1>2. CASE i >= j
  <2>1. l * Cap + i \in n..(n + Cap - 1)
    BY <1>1, <1>2, Widths
  <2> QED
    BY <1>1, <2>1, EncOf
<1>3. CASE i < j
  <2>1. (l + 1) * Cap + i \in n..(n + Cap - 1) /\ l + 1 \in Nat
    BY <1>1, <1>3, Widths
  <2> QED
    BY <2>1, EncOf
<1> QED
  BY <1>1, <1>2, <1>3

\* The slot k places behind that of position n.
LEMMA Offset ==
  ASSUME NEW n \in Nat, NEW k \in Nat
  PROVE  (Ix(n) + k) % Cap = Ix(n + k)
<1> DEFINE l == n \div Cap
           a == (Ix(n) + k) \div Cap
           b == Ix(Ix(n) + k)
<1>1. l \in Nat /\ n = l * Cap + Ix(n) /\ Ix(n) \in Nat
  BY Laps
<1>2. a \in Nat /\ b \in 0..(Cap - 1) /\ Ix(n) + k = a * Cap + b
  <2>1. Ix(n) + k \in Nat
    BY <1>1
  <2> QED
    BY <2>1, Laps
<1> HIDE DEF l, a, b
<1>3. n + k = (l + a) * Cap + b /\ l + a \in Nat
  BY <1>1, <1>2, Widths
<1>4. Ix(n + k) = b
  BY <1>2, <1>3, EncOf
<1> QED
  BY <1>4 DEF b, Ix

----------------------------------------------------------------------------
(* The ring: what leaves it alone *)

\* head and tail in terms of positions.
LEMMA EndFacts ==
  ASSUME TypeOK, EndsOK
  PROVE  /\ N \in Nat /\ H \in Nat /\ Cap \in Nat \ {0}
         /\ Index(head) = Ix(H) /\ Index(tail) = Ix(N)
         /\ Unmarked(tail) = Enc(N)
         /\ Marked(tail) => tail = Enc(N) + MarkBit
         /\ ~Marked(tail) => tail = Enc(N)
         /\ tail = Enc(N) => ~Marked(tail)
<1>1. N \in Nat /\ H \in Nat
  BY DEF TypeOK, EndsOK, N
<1> QED
  BY <1>1, EncFields, Laps, Widths DEF EndsOK

\* len() counts the messages that are in.
LEMMA LenIs ==
  ASSUME TypeOK, EndsOK
  PROVE  len = N - H
<1> DEFINE i == Ix(H)
           j == Ix(N)
           k == H \div Cap
           l == N \div Cap
<1>1. /\ N \in Nat /\ H \in Nat /\ Cap \in Nat \ {0} /\ Index(head) = i /\ Index(tail) = j
      /\ Unmarked(tail) = Enc(N) /\ head = Enc(H) /\ H <= N /\ N <= H + Cap
  BY EndFacts DEF EndsOK
<1>2. /\ k \in Nat /\ l \in Nat /\ i \in 0..(Cap - 1) /\ j \in 0..(Cap - 1)
      /\ H = k * Cap + i /\ N = l * Cap + j /\ k * Cap \in Nat /\ l * Cap \in Nat
  BY <1>1, Laps
<1>3. l = k \/ l = k + 1 \/ (l >= k + 2 /\ l * Cap >= k * Cap + 2 * Cap)
      \/ (l <= k - 1 /\ l * Cap + Cap <= k * Cap)
  <2> HIDE DEF i, j, k, l
  <2>1. CASE l >= k + 2
    <3>1. l * Cap = k * Cap + 2 * Cap + (l - (k + 2)) * Cap
      BY <1>1, <1>2
    <3>2. (l - (k + 2)) * Cap \in Nat
      BY <1>1, <1>2, <2>1
    <3> QED
      BY <1>1, <1>2, <2>1, <3>1, <3>2
  <2>2. CASE l <= k - 1
    <3>1. k * Cap = l * Cap + Cap + (k - (l + 1)) * Cap
      BY <1>1, <1>2
    <3>2. (k - (l + 1)) * Cap \in Nat
      BY <1>1, <1>2, <2>2
    <3> QED
      BY <1>1, <1>2, <2>2, <3>1, <3>2
  <2> QED
    BY <1>2, <2>1, <2>2
<1>4. (l = k => l * Cap = k * Cap) /\ (l = k + 1 => l * Cap = k * Cap + Cap)
  <2> HIDE DEF i, j, k, l
  <2> QED
    BY <1>1, <1>2
<1>5. i = j => (Unmarked(tail) = head <=> H = N) /\ (H = N \/ N = H + Cap)
  BY <1>1, EncDiffer, SameSlot
<1> HIDE DEF i, j, k, l
<1>6. (i < j => N - H = j - i) /\ (i > j => N - H = (Cap - i) + j)
  BY <1>1, <1>2, <1>3, <1>4
<1> QED
  BY <1>1, <1>2, <1>5, <1>6 DEF len

\* The number of messages of a sender.
LEMMA SentByType ==
  ASSUME TypeOK, NEW t \in Thread
  PROVE  SentBy(t) \in Nat /\ SentBy(t) <= N
<1>1. DOMAIN log = 1..N /\ N \in Nat
  BY DEF TypeOK, N
<1>2. IsFiniteSet(1..N) /\ Cardinality(1..N) = N
  BY <1>1, FS_Interval
<1>3. {i \in DOMAIN log : log[i][1] = t} \subseteq 1..N
  BY <1>1
<1>4. /\ IsFiniteSet({i \in DOMAIN log : log[i][1] = t})
      /\ Cardinality({i \in DOMAIN log : log[i][1] = t}) <= N
  BY <1>2, <1>3, FS_Subset
<1> QED
  BY <1>4, FS_CardinalityType DEF SentBy

\* It is a matter of the log alone,
LEMMA SentBySame ==
  ASSUME UNCHANGED log, NEW t \in Thread
  PROVE  SentBy(t)' = SentBy(t)
BY DEF SentBy

\* and a claim counts for the sender that makes it.
LEMMA SentByAppend ==
  ASSUME TypeOK, NEW t \in Thread, NEW k, log' = Append(log, <<t, k>>), NEW u \in Thread
  PROVE  SentBy(u)' = IF u = t THEN SentBy(u) + 1 ELSE SentBy(u)
<1> DEFINE S == {i \in DOMAIN log : log[i][1] = u}
           T == {i \in DOMAIN log' : log'[i][1] = u}
<1>1. DOMAIN log = 1..N /\ N \in Nat /\ DOMAIN log' = 1..(N + 1)
  BY DEF TypeOK, N
<1>2. /\ \A i \in 1..N : log'[i] = log[i]
      /\ log'[N + 1] = <<t, k>>
  BY DEF TypeOK, N
<1>3. IsFiniteSet(S)
  <2>1. IsFiniteSet(1..N) /\ S \subseteq 1..N
    BY <1>1, FS_Interval
  <2> QED
    BY <2>1, FS_Subset
<1>4. T = IF u = t THEN S \union {N + 1} ELSE S
  BY <1>1, <1>2
<1>5. N + 1 \notin S
  BY <1>1
<1>6. Cardinality(S \union {N + 1}) = Cardinality(S) + 1
  BY <1>3, <1>5, FS_AddElement
<1>7. Cardinality(T) = IF u = t THEN Cardinality(S) + 1 ELSE Cardinality(S)
  BY <1>4, <1>6
<1> QED
  BY <1>7 DEF SentBy

\* A step of a thread that owns no slot and claims none leaves the ring as it
\* is, if what the thread itself has loaded is in order.
LEMMA RingStep ==
  ASSUME TypeOK, Ring, NEW t \in Thread, NEW l, Goto(t, l),
         pc[t] \notin InFlight, l \notin InFlight,
         LocOf(t)', AuxOf(t)', ClaimOf(t)',
         t \in Sender /\ l \in Calling => SentBy(t) < MaxSends,
         \A u \in Thread : u # t => loc'[u] = loc[u] /\ aux'[u] = aux[u],
         tail' \in {Enc(N), Enc(N) + MarkBit},
         UNCHANGED <<head, stamp, slot, log, got, freed>>
  PROVE  Ring'
<1>1. pc'[t] = l /\ \A u \in Thread : u # t => pc'[u] = pc[u]
  BY DEF Goto, TypeOK
<1>2. \A u \in Thread : pc[u] \in InFlight \/ pc'[u] \in InFlight => u # t /\ pc'[u] = pc[u]
  BY <1>1
<1>3. \A u \in Thread : SentBy(u)' = SentBy(u)
  BY SentBySame
<1> USE DEF H, N, At, Window, Thread
<1>4. EndsOK'
  BY DEF Ring, EndsOK
<1>5. LocOK'
  BY <1>1 DEF Ring, LocOK, LocOf
<1>6. AuxOK'
  BY <1>1 DEF Ring, AuxOK, AuxOf
<1>7. ClaimOK'
  BY <1>1 DEF Ring, ClaimOK, ClaimOf
<1>8. WritersOK'
  <2> SUFFICES ASSUME NEW u \in Sender
               PROVE  WriterOf(u)'
    BY DEF WritersOK
  <2>1. WriterOf(u)
    BY DEF Ring, WritersOK
  <2> QED
    BY <1>2, <1>3, <2>1 DEF WriterOf
<1>9. ReadersOK'
  BY <1>2 DEF Ring, ReadersOK, ReaderOf
<1>10. OwnersDiffer'
  BY <1>2 DEF Ring, OwnersDiffer
<1>11. SlotsOK'
  BY <1>2 DEF Ring, SlotsOK, SlotOK, Writing, Full, Free, Reading
<1>12. LogOK'
  BY <1>3 DEF Ring, LogOK
<1>13. BudgetOK'
  BY <1>1, <1>3 DEF Ring, BudgetOK
<1>14. GotOK'
  BY <1>2 DEF Ring, GotOK, InFlight
<1> QED
  BY <1>4, <1>5, <1>6, <1>7, <1>8, <1>9, <1>10, <1>11, <1>12, <1>13, <1>14 DEF Ring

\* In particular one that loads nothing.
LEMMA RingFrame ==
  ASSUME TypeOK, Ring, NEW t \in Thread, NEW l, Goto(t, l),
         pc[t] \notin InFlight, l \notin InCall, l # "ready2",
         t \in Sender /\ l \in Calling => SentBy(t) < MaxSends,
         \A u \in Thread : u # t => loc'[u] = loc[u] /\ aux'[u] = aux[u],
         UNCHANGED <<head, tail, stamp, slot, log, got, freed>>
  PROVE  Ring'
<1>1. pc'[t] = l
  BY DEF Goto, TypeOK
<1>2. LocOf(t)' /\ AuxOf(t)' /\ ClaimOf(t)'
  BY <1>1 DEF LocOf, AuxOf, ClaimOf, InCall
<1>3. tail' \in {Enc(N), Enc(N) + MarkBit}
  BY DEF Ring, EndsOK
<1>4. l \notin InFlight
  BY DEF InCall, InFlight
<1> QED
  BY <1>2, <1>3, <1>4, RingStep

\* The load of tail or head at the start of an attempt.
LEMMA LoadRing ==
  ASSUME TypeOK, Ring, NEW t \in Thread, Load(t), UNCHANGED modes
  PROVE  Ring'
<1> USE DEF H, N, At
<1>1. t \in Sender => SentBy(t) < MaxSends
  BY DEF Ring, BudgetOK, Load, Calling
<1>2. pc[t] \notin InFlight
  BY DEF Load, InFlight
<1>3. /\ \A u \in Thread : u # t => loc'[u] = loc[u] /\ aux'[u] = aux[u]
      /\ UNCHANGED <<head, tail, stamp, slot, log, got, freed>>
  BY DEF Load, Keep, ends, slots, refs, history, TypeOK
<1>4. CASE Goto(t, "closed")
  BY <1>1, <1>2, <1>3, <1>4, RingFrame DEF InCall, Calling
<1>5. CASE Goto(t, "inspect") /\ (t \in Sender => ~Marked(tail))
  <2>1. pc'[t] = "inspect" /\ loc'[t] = IF t \in Sender THEN tail ELSE head
    BY <1>5 DEF Load, Goto, Keep, TypeOK
  <2>2. /\ N \in Nat /\ H \in Nat /\ head = Enc(H) /\ (~Marked(tail) => tail = Enc(N))
        /\ Position(Enc(N)) = N /\ Position(Enc(H)) = H
    BY EndFacts, EncFields DEF Ring, EndsOK
  <2>3. LocOf(t)' /\ AuxOf(t)' /\ ClaimOf(t)'
    BY <1>3, <1>5, <2>1, <2>2, ChannelAssumption DEF LocOf, AuxOf, ClaimOf, Thread
  <2>4. tail' \in {Enc(N), Enc(N) + MarkBit}
    BY <1>3 DEF Ring, EndsOK
  <2>5. "inspect" \notin InFlight
    BY DEF InFlight
  <2> QED
    BY <1>1, <1>2, <1>3, <1>5, <2>3, <2>4, <2>5, RingStep
<1> QED
  BY <1>4, <1>5 DEF Load

\* The first load of is_full or is_empty.
LEMMA FirstLoadRing ==
  ASSUME TypeOK, Ring, NEW t \in Thread, FirstLoad(t)
  PROVE  Ring'
<1> USE DEF H, N, At
<1>1. t \in Sender => SentBy(t) < MaxSends
  BY DEF Ring, BudgetOK, FirstLoad, Calling
<1>2. pc[t] \notin InFlight /\ "ready2" \notin InFlight
  BY DEF FirstLoad, InFlight
<1>3. /\ \A u \in Thread : u # t => loc'[u] = loc[u] /\ aux'[u] = aux[u]
      /\ UNCHANGED <<head, tail, stamp, slot, log, got, freed>>
      /\ pc'[t] = "ready2" /\ aux'[t] = IF t \in Sender THEN tail ELSE head
  BY DEF FirstLoad, Goto, ends, slots, refs, history, TypeOK
<1>4. N \in Nat /\ H \in Nat /\ head = Enc(H) /\ Unmarked(tail) = Enc(N)
  BY EndFacts DEF Ring, EndsOK
<1>5. LocOf(t)' /\ ClaimOf(t)'
  BY <1>3 DEF LocOf, ClaimOf, InCall
<1>6. AuxOf(t)'
  BY <1>3, <1>4, ChannelAssumption DEF AuxOf, Thread
<1>7. tail' \in {Enc(N), Enc(N) + MarkBit}
  BY <1>3 DEF Ring, EndsOK
<1> QED
  BY <1>1, <1>2, <1>3, <1>5, <1>6, <1>7, RingStep DEF FirstLoad

\* The look at the stamp.
LEMMA InspectRing ==
  ASSUME TypeOK, Ring, NEW t \in Thread, Inspect(t)
  PROVE  Ring'
<1> USE DEF H, N, At
<1>1. t \in Sender => SentBy(t) < MaxSends
  BY DEF Ring, BudgetOK, Inspect, Calling
<1>2. pc[t] \notin InFlight /\ pc[t] \in InCall
  BY DEF Inspect, InFlight, InCall
<1>3. /\ \A u \in Thread : u # t => loc'[u] = loc[u] /\ aux'[u] = aux[u]
      /\ UNCHANGED <<head, tail, stamp, slot, loc, aux, log, got, freed>>
  BY DEF Inspect, ends, slots, refs, history
<1>4. /\ loc[t] = Enc(At(t)) /\ Index(loc[t]) = Ix(At(t))
      /\ t \in Sender => At(t) <= N
      /\ t \in Receiver => At(t) <= H
  BY <1>2, EncFields DEF Ring, LocOK, LocOf
<1>5. PICK l \in {"claim", "probe", "load"} :
        /\ Goto(t, l)
        /\ l = "claim" /\ t \in Sender => stamp[Index(loc[t])] = loc[t]
        /\ l = "claim" /\ t \in Receiver => stamp[Index(loc[t])] = loc[t] + 1
  BY ChannelAssumption DEF Inspect, Thread
<1>6. pc'[t] = l /\ l \notin InFlight /\ l # "ready2"
  BY <1>5 DEF Goto, TypeOK, InFlight
<1>7. LocOf(t)' /\ AuxOf(t)'
  BY <1>2, <1>3, <1>6 DEF LocOf, AuxOf, Ring, LocOK
<1>8. ClaimOf(t)'
  BY <1>3, <1>4, <1>5, <1>6 DEF ClaimOf
<1>9. tail' \in {Enc(N), Enc(N) + MarkBit}
  BY <1>3 DEF Ring, EndsOK
<1> QED
  BY <1>1, <1>2, <1>3, <1>5, <1>6, <1>7, <1>8, <1>9, RingStep

\* Setting the mark bit.
LEMMA MarkRing ==
  ASSUME TypeOK, Ring, NEW t \in Thread, Mark(t)
  PROVE  Ring'
<1> USE DEF H, N, At
<1>1. pc[t] \notin InFlight
  BY DEF Mark, InFlight
<1>2. /\ \A u \in Thread : u # t => loc'[u] = loc[u] /\ aux'[u] = aux[u]
      /\ UNCHANGED <<head, stamp, slot, log, got, freed>>
  BY DEF Mark, slots, refs, history
<1>3. tail' \in {Enc(N), Enc(N) + MarkBit}
  BY EndFacts DEF Mark, Ring
<1>4. PICK l \in {"destroy", "wake_senders"} : Goto(t, l)
  BY DEF Mark
<1>5. pc'[t] = l /\ l \notin InFlight /\ l \notin Calling
  BY <1>4 DEF Goto, TypeOK, InFlight, Calling
<1>6. LocOf(t)' /\ AuxOf(t)' /\ ClaimOf(t)'
  BY <1>4, <1>5 DEF LocOf, AuxOf, ClaimOf, InCall
<1> QED
  BY <1>1, <1>2, <1>3, <1>4, <1>5, <1>6, RingStep

----------------------------------------------------------------------------
(* The ring: claiming, accessing and publishing a slot *)

\* The window has each slot once.
LEMMA WindowSlots ==
  ASSUME TypeOK, Ring, NEW n \in Window, NEW m \in Window, Ix(n) = Ix(m)
  PROVE  n = m
<1>1. H \in Nat /\ Cap \in Nat /\ n \in Nat /\ m \in Nat
  BY EndFacts DEF Ring, Window
<1>2. ~(n < m) /\ ~(m < n)
  BY <1>1, SameSlot DEF Window
<1> QED
  BY <1>1, <1>2

\* No two threads are at one slot.
LEMMA OwnSlots ==
  ASSUME TypeOK, Ring, NEW t \in Thread, NEW u \in Thread, t # u,
         pc[t] \in InFlight, pc[u] \in InFlight
  PROVE  Ix(At(t)) # Ix(At(u))
<1>1. At(t) \in Nat /\ At(u) \in Nat /\ At(t) # At(u)
  BY DEF Ring, LocOK, LocOf, OwnersDiffer, InFlight, InCall
<1>2. \A v \in Thread : pc[v] \in InFlight =>
        \/ v \in Sender /\ stamp[Ix(At(v))] = Enc(At(v))
        \/ v \in Receiver /\ stamp[Ix(At(v))] = Enc(At(v)) + 1
  BY DEF Ring, WritersOK, WriterOf, ReadersOK, ReaderOf, Thread
<1>3. \/ stamp[Ix(At(t))] = Enc(At(t)) /\ stamp[Ix(At(u))] = Enc(At(u))
      \/ stamp[Ix(At(t))] = Enc(At(t)) + 1 /\ stamp[Ix(At(u))] = Enc(At(u)) + 1
      \/ stamp[Ix(At(t))] = Enc(At(t)) /\ stamp[Ix(At(u))] = Enc(At(u)) + 1
      \/ stamp[Ix(At(t))] = Enc(At(t)) + 1 /\ stamp[Ix(At(u))] = Enc(At(u))
  BY <1>2
<1> QED
  BY <1>1, <1>3, EncDiffer

\* What the successful CAS of a sender does to tail, and to the history.
SendClaims(t) ==
  /\ tail = loc[t] /\ tail' = Advance(tail)
  /\ log' = Append(log, <<t, SentBy(t) + 1>>)

\* A sender claims the free slot at tail.
LEMMA ClaimSendRing ==
  ASSUME TypeOK, Ring, ~freed, NEW t \in Sender, pc[t] = "claim", SendClaims(t),
         Goto(t, "access"), UNCHANGED <<head, stamp, slot, loc, aux, got, freed>>
  PROVE  Ring' /\ N' = N + 1 /\ H' = H /\ ~Marked(tail) /\ ~Marked(tail')
<1> USE DEF Window
<1>1. t \in Thread /\ t \notin Receiver /\ pc'[t] = "access"
      /\ \A u \in Thread : u # t => pc'[u] = pc[u]
  BY ChannelAssumption DEF Goto, TypeOK, Thread
<1>2. N \in Nat /\ H \in Nat /\ Cap \in Nat \ {0} /\ H <= N /\ N <= H + Cap
  BY EndFacts DEF Ring, EndsOK
<1>3. At(t) = N /\ tail = Enc(N)
  <2>1. At(t) \in Nat /\ loc[t] = Enc(At(t))
    BY <1>1 DEF Ring, LocOK, LocOf, InCall
  <2>2. ~Marked(tail)
    BY <2>1, EncFields DEF SendClaims
  <2> QED
    BY <1>2, <2>1, <2>2, EncFields DEF Ring, EndsOK, SendClaims
<1>4. stamp[Ix(N)] = Enc(N)
  BY <1>1, <1>3 DEF Ring, ClaimOK, ClaimOf
<1>5. N < H + Cap
  <2> SUFFICES ASSUME N = H + Cap PROVE FALSE
    BY <1>2
  <2>1. SlotOK(H) /\ H < N
    BY <1>2 DEF Ring, SlotsOK
  <2>2. stamp[Ix(H)] = Enc(H) \/ stamp[Ix(H)] = Enc(H) + 1
    BY <2>1 DEF SlotOK, Writing, Full
  <2>3. Ix(H) = Ix(N)
    BY <1>2, EncLap
  <2> QED
    BY <1>2, <1>4, <2>2, <2>3, EncDiffer
<1>6. slot[Ix(N)] = None
  <2>1. SlotOK(N)
    BY <1>2, <1>5 DEF Ring, SlotsOK
  <2>2. ~Reading(N)
    <3> SUFFICES ASSUME Reading(N) PROVE FALSE
      OBVIOUS
    <3>1. N - Cap \in Nat /\ stamp[Ix(N)] = Enc(N - Cap) + 1 /\ (N - Cap) + Cap = N
      BY <1>2 DEF Reading
    <3>2. Ix(N - Cap) = Ix(N)
      BY <3>1, EncLap
    <3> QED
      BY <1>2, <1>4, <3>1, <3>2, EncDiffer
  <2> QED
    BY <1>2, <2>1, <2>2 DEF SlotOK, Free
<1>7. /\ N' = N + 1 /\ H' = H /\ tail' = Enc(N + 1)
      /\ \A i \in 1..N : log'[i] = log[i]
      /\ \A n \in Nat : n < N => log'[n + 1] = log[n + 1]
      /\ log'[N + 1] = <<t, SentBy(t) + 1>>
  <2>1. tail' = Enc(N + 1)
    BY <1>2, <1>3, EncAdvance DEF SendClaims
  <2>2. N' = N + 1 /\ (\A i \in 1..N : log'[i] = log[i]) /\ log'[N + 1] = <<t, SentBy(t) + 1>>
    BY DEF TypeOK, N, SendClaims
  <2>3. \A n \in Nat : n < N => n + 1 \in 1..N
    BY <1>2
  <2> QED
    BY <2>1, <2>2, <2>3 DEF H
<1>8. /\ SentBy(t)' = SentBy(t) + 1 /\ SentBy(t) \in Nat
      /\ \A u \in Thread : u # t => SentBy(u)' = SentBy(u)
  <2>1. \A u \in Thread : SentBy(u)' = IF u = t THEN SentBy(u) + 1 ELSE SentBy(u)
    BY <1>1, SentByAppend DEF SendClaims
  <2> QED
    BY <1>1, <2>1, SentByType
<1>9. \A u \in Thread : At(u)' = At(u)
  BY DEF At
<1>10. \A u \in Thread : pc[u] \in InFlight => u # t /\ At(u) \in Nat /\ At(u) < N
  <2> SUFFICES ASSUME NEW u \in Thread, pc[u] \in InFlight
               PROVE  u # t /\ At(u) \in Nat /\ At(u) < N
    OBVIOUS
  <2>1. u # t /\ At(u) \in Nat
    BY DEF Ring, LocOK, LocOf, InFlight, InCall
  <2> QED
    BY <1>2, <2>1 DEF Ring, WritersOK, WriterOf, ReadersOK, ReaderOf, Thread
<1>11. EndsOK'
  BY <1>2, <1>5, <1>7 DEF Ring, EndsOK
<1>12. LocOK'
  <2> SUFFICES ASSUME NEW u \in Thread PROVE LocOf(u)'
    BY DEF LocOK
  <2>1. pc'[u] \in InCall => pc[u] \in InCall
    BY <1>1 DEF InCall
  <2> QED
    BY <1>2, <1>7, <1>9, <2>1 DEF Ring, LocOK, LocOf
<1>13. AuxOK'
  <2> SUFFICES ASSUME NEW u \in Thread, pc'[u] = "ready2"
               PROVE  AuxOf(u)'
    BY DEF AuxOK, AuxOf
  <2>1. pc[u] = "ready2" /\ 0..N \subseteq 0..(N + 1)
    BY <1>1, <1>2
  <2> QED
    BY <1>7, <2>1 DEF Ring, AuxOK, AuxOf
<1>14. ClaimOK'
  <2> SUFFICES ASSUME NEW u \in Thread, pc'[u] = "claim"
               PROVE  ClaimOf(u)'
    BY DEF ClaimOK, ClaimOf
  <2>1. pc[u] = "claim" /\ u # t
    BY <1>1
  <2>2. u \in Sender => At(u) # N + 1
    BY <1>2, <2>1 DEF Ring, LocOK, LocOf, InCall
  <2> QED
    BY <1>7, <1>9, <2>1, <2>2 DEF Ring, ClaimOK, ClaimOf
<1>15. WritersOK'
  <2> SUFFICES ASSUME NEW u \in Sender, pc'[u] \in InFlight PROVE WriterOf(u)'
    BY DEF WritersOK, WriterOf
  <2>1. CASE u = t
    BY <1>1, <1>2, <1>3, <1>4, <1>6, <1>7, <1>8, <1>9, <2>1 DEF WriterOf
  <2>2. CASE u # t
    <3>1. pc[u] \in InFlight /\ pc'[u] = pc[u] /\ u \in Thread
      BY <1>1, <2>2 DEF Thread
    <3>2. WriterOf(u) /\ log'[At(u) + 1] = log[At(u) + 1] /\ At(u) \in Nat
      BY <1>7, <1>10, <3>1 DEF Ring, WritersOK
    <3> QED
      BY <1>2, <1>7, <1>8, <1>9, <2>2, <3>1, <3>2 DEF WriterOf
  <2> QED
    BY <2>1, <2>2
<1>16. ReadersOK'
  <2> SUFFICES ASSUME NEW u \in Receiver, pc'[u] \in InFlight PROVE ReaderOf(u)'
    BY DEF ReadersOK, ReaderOf
  <2>1. pc[u] \in InFlight /\ pc'[u] = pc[u] /\ u \in Thread
    BY <1>1 DEF Thread
  <2>2. ReaderOf(u) /\ At(u) \in Nat /\ log'[At(u) + 1] = log[At(u) + 1]
    BY <1>7, <1>10, <2>1 DEF Ring, ReadersOK
  <2>3. N # At(u) + Cap
    BY <1>2, <1>4, <2>1, <2>2, EncLap, EncDiffer DEF ReaderOf
  <2> QED
    BY <1>2, <1>7, <1>9, <2>1, <2>2, <2>3 DEF ReaderOf
<1>17. OwnersDiffer'
  BY <1>1, <1>2, <1>3, <1>9, <1>10 DEF Ring, OwnersDiffer
<1>18. SlotsOK'
  <2> SUFFICES ASSUME NEW n \in Window PROVE SlotOK(n)'
    BY <1>7 DEF SlotsOK
  <2>1. SlotOK(n) /\ n \in Nat
    BY <1>2 DEF Ring, SlotsOK
  <2>2. Writing(n) => Writing(n)'
    BY <1>1, <1>9, <1>10 DEF Writing, Thread
  <2>3. Reading(n) => Reading(n)'
    BY <1>1, <1>9, <1>10 DEF Reading, Thread
  <2>4. Free(n) => Free(n)'
    BY DEF Free
  <2>5. n < N /\ Full(n) => Full(n)'
    BY <1>2, <1>7, <2>1 DEF Full
  <2>6. n = N => Writing(n)'
    BY <1>1, <1>3, <1>4, <1>9 DEF Writing, InFlight
  <2> QED
    BY <1>2, <1>7, <2>1, <2>2, <2>3, <2>4, <2>5, <2>6 DEF SlotOK
<1>19. LogOK'
  <2>1. \A i \in 1..N : log[i] = <<log[i][1], log[i][2]>> /\ log[i][2] \in Nat
    BY DEF TypeOK, Messages, N
  <2>2. \A u \in Sender : \A i \in 1..N : log[i][1] = u => log[i][2] <= SentBy(u)
    BY DEF Ring, LogOK
  <2>3. \A i \in 1..N : log[i] # <<t, SentBy(t) + 1>>
    BY <1>8, <2>1, <2>2
  <2>4. \A i \in 1..(N + 1) : i \in 1..N \/ i = N + 1
    BY <1>2
  <2>5. \A u \in Sender : \A i \in 1..(N + 1) : log'[i][1] = u => log'[i][2] <= SentBy(u)'
    <3> SUFFICES ASSUME NEW u \in Sender, NEW i \in 1..(N + 1), log'[i][1] = u
                 PROVE  log'[i][2] <= SentBy(u)'
      OBVIOUS
    <3>1. SentBy(u) \in Nat /\ u \in Thread
      BY SentByType DEF Thread
    <3>2. CASE i = N + 1
      BY <1>7, <1>8, <3>2
    <3>3. CASE i \in 1..N
      <4>1. log'[i] = log[i] /\ log[i][2] <= SentBy(u) /\ log[i][2] \in Nat
        BY <1>7, <2>1, <2>2, <3>3
      <4> QED
        BY <1>8, <3>1, <4>1
    <3> QED
      BY <2>4, <3>2, <3>3
  <2>6. \A i, j \in 1..(N + 1) : log'[i] = log'[j] => i = j
    BY <1>7, <2>3, <2>4 DEF Ring, LogOK
  <2> QED
    BY <1>7, <2>5, <2>6 DEF LogOK
<1>20. BudgetOK'
  BY <1>1, <1>8 DEF Ring, BudgetOK, Calling, Thread
<1>21. GotOK'
  <2>1. \A n \in 0..(H - 1) : log'[n + 1] = log[n + 1]
    BY <1>2, <1>7
  <2>2. \A u \in Receiver : pc[u] = "access" => pc'[u] = "access"
    BY <1>1 DEF Thread
  <2> QED
    BY <1>7, <1>9, <2>1, <2>2 DEF Ring, GotOK, Thread
<1>22. ~Marked(tail) /\ ~Marked(tail')
  BY <1>2, <1>3, <1>7, EncFields
<1> QED
  BY <1>7, <1>11, <1>12, <1>13, <1>14, <1>15, <1>16, <1>17, <1>18, <1>19, <1>20, <1>21, <1>22 DEF Ring

\* A receiver claims the message at head.
LEMMA ClaimRecvRing ==
  ASSUME TypeOK, Ring, ~freed, NEW t \in Receiver, pc[t] = "claim", head = loc[t],
         head' = Advance(head), Goto(t, "access"),
         UNCHANGED <<tail, stamp, slot, loc, aux, log, got, freed>>
  PROVE  Ring' /\ N' = N /\ H' = H + 1 /\ H < N
<1> USE DEF Window
<1>1. t \in Thread /\ t \notin Sender /\ pc'[t] = "access"
      /\ \A u \in Thread : u # t => pc'[u] = pc[u]
  BY ChannelAssumption DEF Goto, TypeOK, Thread
<1>2. N \in Nat /\ H \in Nat /\ Cap \in Nat \ {0} /\ N <= H + Cap /\ head = Enc(H)
  BY EndFacts DEF Ring, EndsOK
<1>3. At(t) = H
  BY <1>2, EncFields DEF At
<1>4. stamp[Ix(H)] = Enc(H) + 1
  BY <1>1, <1>3 DEF Ring, ClaimOK, ClaimOf
<1>5. H < N /\ slot[Ix(H)] = log[H + 1]
  <2>1. SlotOK(H)
    BY <1>2 DEF Ring, SlotsOK
  <2>2. ~Writing(H) /\ ~Free(H)
    BY <1>2, <1>4, EncDiffer DEF Writing, Free
  <2>3. ~Reading(H)
    <3> SUFFICES ASSUME Reading(H) PROVE FALSE
      OBVIOUS
    <3>1. H - Cap \in Nat /\ stamp[Ix(H)] = Enc(H - Cap) + 1 /\ H - Cap # H
      BY <1>2 DEF Reading
    <3> QED
      BY <1>2, <1>4, <3>1, EncDiffer
  <2> QED
    BY <1>2, <2>1, <2>2, <2>3 DEF SlotOK, Full
<1>6. N' = N /\ H' = H + 1 /\ head' = Enc(H + 1)
  <2>1. head' = Enc(H + 1) /\ H + 1 \in Nat
    BY <1>2, EncAdvance
  <2> QED
    BY <2>1, EncFields DEF N, H
<1>7. \A u \in Thread : At(u)' = At(u) /\ SentBy(u)' = SentBy(u)
  BY SentBySame DEF At
<1>8. \A u \in Thread : pc[u] \in InFlight =>
        /\ u # t /\ pc'[u] = pc[u] /\ At(u) \in Nat /\ At(u) # H
        /\ u \in Sender => At(u) >= H + 1
  <2> SUFFICES ASSUME NEW u \in Thread, pc[u] \in InFlight
               PROVE  /\ u # t /\ pc'[u] = pc[u] /\ At(u) \in Nat /\ At(u) # H
                      /\ u \in Sender => At(u) >= H + 1
    OBVIOUS
  <2>1. u # t /\ At(u) \in Nat
    BY DEF Ring, LocOK, LocOf, InFlight, InCall
  <2>2. CASE u \in Sender
    <3>1. H <= At(u) /\ stamp[Ix(At(u))] = Enc(At(u))
      BY <2>2 DEF Ring, WritersOK, WriterOf
    <3>2. At(u) # H
      BY <1>2, <1>4, <3>1, EncDiffer
    <3> QED
      BY <1>1, <1>2, <2>1, <3>1, <3>2
  <2>3. CASE u \in Receiver
    BY <1>1, <1>2, <2>1, <2>3, ChannelAssumption DEF Ring, ReadersOK, ReaderOf
  <2> QED
    BY <2>2, <2>3 DEF Thread
<1>9. EndsOK'
  BY <1>2, <1>5, <1>6 DEF Ring, EndsOK
<1>10. LocOK'
  <2> SUFFICES ASSUME NEW u \in Thread PROVE LocOf(u)'
    BY DEF LocOK
  <2>1. pc'[u] \in InCall => pc[u] \in InCall
    BY <1>1 DEF InCall
  <2> QED
    BY <1>2, <1>6, <1>7, <2>1 DEF Ring, LocOK, LocOf
<1>11. AuxOK'
  <2> SUFFICES ASSUME NEW u \in Thread, pc'[u] = "ready2" PROVE AuxOf(u)'
    BY DEF AuxOK, AuxOf
  <2>1. pc[u] = "ready2" /\ 0..H \subseteq 0..(H + 1)
    BY <1>1, <1>2
  <2> QED
    BY <1>6, <2>1 DEF Ring, AuxOK, AuxOf
<1>12. ClaimOK'
  <2> SUFFICES ASSUME NEW u \in Thread, pc'[u] = "claim" PROVE ClaimOf(u)'
    BY DEF ClaimOK, ClaimOf
  <2>1. pc[u] = "claim" /\ u # t
    BY <1>1
  <2>2. u \in Receiver => At(u) # H + 1
    BY <1>2, <2>1 DEF Ring, LocOK, LocOf, InCall
  <2> QED
    BY <1>6, <1>7, <2>1, <2>2 DEF Ring, ClaimOK, ClaimOf
<1>13. WritersOK'
  BY <1>1, <1>6, <1>7, <1>8 DEF Ring, WritersOK, WriterOf, Thread
<1>14. ReadersOK'
  <2> SUFFICES ASSUME NEW u \in Receiver, pc'[u] \in InFlight PROVE ReaderOf(u)'
    BY DEF ReadersOK, ReaderOf
  <2>1. CASE u = t
    BY <1>1, <1>2, <1>3, <1>4, <1>5, <1>6, <1>7, <2>1 DEF ReaderOf
  <2>2. CASE u # t
    <3>1. pc[u] \in InFlight /\ pc'[u] = pc[u] /\ u \in Thread /\ At(u) \in Nat
      BY <1>1, <1>8, <2>2 DEF Thread
    <3> QED
      BY <1>2, <1>6, <1>7, <3>1 DEF Ring, ReadersOK, ReaderOf
  <2> QED
    BY <2>1, <2>2
<1>15. OwnersDiffer'
  BY <1>1, <1>3, <1>7, <1>8 DEF Ring, OwnersDiffer
<1>16. SlotsOK'
  <2> SUFFICES ASSUME NEW n \in (H + 1)..(H + Cap) PROVE SlotOK(n)'
    BY <1>2, <1>6 DEF SlotsOK
  <2>1. CASE n = H + Cap
    <3>1. Ix(n) = Ix(H) /\ n - Cap = H /\ n >= Cap
      BY <1>2, <2>1, EncLap
    <3>2. Reading(n)'
      BY <1>1, <1>3, <1>4, <1>7, <3>1 DEF Reading, InFlight
    <3>3. ~(n < N)
      BY <1>2, <2>1
    <3> QED
      BY <1>6, <3>2, <3>3 DEF SlotOK
  <2>2. CASE n # H + Cap
    <3>1. SlotOK(n)
      BY <1>2, <2>2 DEF Ring, SlotsOK
    <3>2. (Writing(n) => Writing(n)') /\ (Reading(n) => Reading(n)')
      BY <1>7, <1>8 DEF Writing, Reading, Thread
    <3>3. (Free(n) => Free(n)') /\ (Full(n) => Full(n)')
      BY DEF Free, Full
    <3> QED
      BY <1>6, <3>1, <3>2, <3>3 DEF SlotOK
  <2> QED
    BY <2>1, <2>2
<1>17. LogOK'
  BY <1>6, <1>7 DEF Ring, LogOK, Thread
<1>18. BudgetOK'
  BY <1>1, <1>7 DEF Ring, BudgetOK, Thread
<1>19. GotOK'
  <2>1. \A n \in 0..(H' - 1) : n \in 0..(H - 1) \/ n = H
    BY <1>2, <1>6
  <2>2. 0..(H - 1) \subseteq 0..(H' - 1)
    BY <1>2, <1>6
  <2>3. \A u \in Receiver : pc[u] = "access" => pc'[u] = "access" /\ At(u)' = At(u)
    BY <1>1, <1>7 DEF Thread
  <2>4. \A m \in got : \E n \in 0..(H' - 1) : m = log[n + 1]
    BY <2>2 DEF Ring, GotOK
  <2>5. \A n \in 0..(H' - 1) : log[n + 1] \in got
          \/ \E u \in Receiver : pc'[u] = "access" /\ At(u)' = n
    BY <1>1, <1>3, <1>7, <2>1, <2>3 DEF Ring, GotOK
  <2> QED
    BY <2>4, <2>5 DEF GotOK
<1> QED
  BY <1>5, <1>6, <1>9, <1>10, <1>11, <1>12, <1>13, <1>14, <1>15, <1>16, <1>17, <1>18, <1>19 DEF Ring

\* The owner of a slot moves its message in or out; no other slot changes.
LEMMA AccessRing ==
  ASSUME TypeOK, Ring, ~freed, NEW t \in Thread, Access(t)
  PROVE  Ring'
<1> USE DEF Window
<1> DEFINE k == At(t)
<1>1. pc[t] = "access" /\ pc'[t] = "publish" /\ \A u \in Thread : u # t => pc'[u] = pc[u]
  BY DEF Access, Goto, TypeOK
<1>2. N \in Nat /\ H \in Nat /\ Cap \in Nat \ {0} /\ H <= N /\ N <= H + Cap
  BY EndFacts DEF Ring, EndsOK
<1>3. k \in Nat /\ Index(loc[t]) = Ix(k) /\ Ix(k) \in 0..(Cap - 1)
  BY <1>1, EncFields, Laps DEF Ring, LocOK, LocOf, InCall
<1>4. UNCHANGED <<head, tail, stamp, loc, aux, log, freed>> /\ N' = N /\ H' = H
  BY DEF Access, ends, refs, N, H
<1>5. \A u \in Thread : At(u)' = At(u) /\ SentBy(u)' = SentBy(u)
  BY <1>4, SentBySame DEF At
<1>6. PICK x : slot' = [slot EXCEPT ![Ix(k)] = x]
  BY <1>3 DEF Access
<1>7. slot'[Ix(k)] = x /\ \A i \in 0..(Cap - 1) : i # Ix(k) => slot'[i] = slot[i]
  BY <1>3, <1>6 DEF TypeOK
<1>8. \A u \in Thread : pc[u] \in InFlight <=> pc'[u] \in InFlight
  BY <1>1 DEF InFlight
<1>9. \A u \in Thread : pc[u] \in InFlight /\ u # t => slot'[Ix(At(u))] = slot[Ix(At(u))]
  <2> SUFFICES ASSUME NEW u \in Thread, pc[u] \in InFlight, u # t
               PROVE  slot'[Ix(At(u))] = slot[Ix(At(u))]
    OBVIOUS
  <2>1. At(u) \in Nat /\ Ix(At(u)) \in 0..(Cap - 1)
    BY Laps DEF Ring, LocOK, LocOf, InFlight, InCall
  <2>2. Ix(At(u)) # Ix(k)
    BY <1>1, OwnSlots DEF InFlight
  <2> QED
    BY <1>7, <2>1, <2>2
<1>10. /\ t \in Sender => WriterOf(t) /\ x = log[k + 1] /\ got' = got
       /\ t \in Receiver => ReaderOf(t) /\ x = None /\ got' = got \union {log[k + 1]}
  <2>1. pc[t] \in InFlight
    BY <1>1 DEF InFlight
  <2>2. CASE t \in Sender
    <3>1. WriterOf(t) /\ log[k + 1] = <<t, SentBy(t)>> /\ t \notin Receiver
      BY <2>1, <2>2, ChannelAssumption DEF Ring, WritersOK, WriterOf
    <3>2. slot' = [slot EXCEPT ![Ix(k)] = <<t, SentBy(t)>>] /\ got' = got
      BY <1>3, <2>2 DEF Access
    <3>3. slot'[Ix(k)] = <<t, SentBy(t)>>
      BY <1>3, <3>2 DEF TypeOK
    <3> QED
      BY <1>7, <3>1, <3>2, <3>3
  <2>3. CASE t \in Receiver
    <3>1. ReaderOf(t) /\ slot[Ix(k)] = log[k + 1] /\ t \notin Sender
      BY <1>1, <2>1, <2>3, ChannelAssumption DEF Ring, ReadersOK, ReaderOf
    <3>2. slot' = [slot EXCEPT ![Ix(k)] = None] /\ got' = got \union {slot[Ix(k)]}
      BY <1>3, <2>3, <3>1 DEF Access
    <3>3. slot'[Ix(k)] = None
      BY <1>3, <3>2 DEF TypeOK
    <3> QED
      BY <1>7, <3>1, <3>2, <3>3
  <2> QED
    BY <2>2, <2>3 DEF Thread
<1> HIDE DEF k
<1>11. EndsOK'
  BY <1>4 DEF Ring, EndsOK
<1>12. LocOK'
  BY <1>1, <1>4, <1>5 DEF Ring, LocOK, LocOf, InCall
<1>13. AuxOK'
  BY <1>1, <1>4 DEF Ring, AuxOK, AuxOf
<1>14. ClaimOK'
  BY <1>1, <1>4, <1>5 DEF Ring, ClaimOK, ClaimOf
<1>15. WritersOK'
  <2> SUFFICES ASSUME NEW u \in Sender, pc'[u] \in InFlight PROVE WriterOf(u)'
    BY DEF WritersOK, WriterOf
  <2>1. CASE u = t
    BY <1>1, <1>4, <1>5, <1>7, <1>8, <1>10, <2>1 DEF WriterOf, k
  <2>2. CASE u # t
    BY <1>1, <1>4, <1>5, <1>8, <1>9, <2>2 DEF Ring, WritersOK, WriterOf, Thread
  <2> QED
    BY <2>1, <2>2
<1>16. ReadersOK'
  <2> SUFFICES ASSUME NEW u \in Receiver, pc'[u] \in InFlight PROVE ReaderOf(u)'
    BY DEF ReadersOK, ReaderOf
  <2>1. CASE u = t
    BY <1>1, <1>4, <1>5, <1>7, <1>8, <1>10, <2>1 DEF ReaderOf, k
  <2>2. CASE u # t
    BY <1>1, <1>4, <1>5, <1>8, <1>9, <2>2 DEF Ring, ReadersOK, ReaderOf, Thread
  <2> QED
    BY <2>1, <2>2
<1>17. OwnersDiffer'
  BY <1>5, <1>8 DEF Ring, OwnersDiffer
<1>18. SlotsOK'
  <2> SUFFICES ASSUME NEW n \in Window PROVE SlotOK(n)'
    BY <1>4 DEF SlotsOK
  <2>1. SlotOK(n) /\ n \in Nat /\ Ix(n) \in 0..(Cap - 1)
    <3>1. SlotOK(n) /\ n \in Nat
      BY <1>2 DEF Ring, SlotsOK
    <3> QED
      BY <3>1, Laps
  <2>2. (Writing(n) => Writing(n)') /\ (Reading(n) => Reading(n)')
    BY <1>4, <1>5, <1>8 DEF Writing, Reading, Thread
  <2>3. CASE Ix(n) # Ix(k)
    <3>1. slot'[Ix(n)] = slot[Ix(n)]
      BY <1>7, <2>1, <2>3
    <3>2. (Free(n) => Free(n)') /\ (Full(n) => Full(n)')
      BY <1>4, <3>1 DEF Free, Full
    <3> QED
      BY <1>4, <2>1, <2>2, <3>2 DEF SlotOK
  <2>4. CASE Ix(n) = Ix(k) /\ t \in Sender
    <3>1. H <= k /\ k < N /\ stamp[Ix(k)] = Enc(k)
      BY <1>1, <1>10, <2>4 DEF WriterOf, InFlight, k
    <3>2. n = k
      BY <1>2, <1>3, <2>4, <3>1, WindowSlots
    <3>3. Writing(n)'
      BY <1>1, <1>4, <1>5, <2>4, <3>1, <3>2 DEF Writing, InFlight, k
    <3> QED
      BY <1>4, <3>1, <3>2, <3>3 DEF SlotOK
  <2>5. CASE Ix(n) = Ix(k) /\ t \in Receiver
    <3>1. k < H /\ N <= k + Cap /\ stamp[Ix(k)] = Enc(k) + 1
      BY <1>1, <1>10, <2>5 DEF ReaderOf, InFlight, k
    <3>2. Ix(k + Cap) = Ix(k)
      BY <1>3, EncLap
    <3>3. n = k + Cap
      BY <1>2, <1>3, <2>5, <3>1, <3>2, WindowSlots
    <3>4. n >= Cap /\ n - Cap = k /\ ~(n < N)
      BY <1>2, <1>3, <3>1, <3>3
    <3>5. Reading(n)'
      BY <1>1, <1>4, <1>5, <2>5, <3>1, <3>4 DEF Reading, InFlight, k
    <3> QED
      BY <1>4, <3>4, <3>5 DEF SlotOK
  <2> QED
    BY <2>3, <2>4, <2>5 DEF Thread
<1>19. LogOK'
  BY <1>4, <1>5 DEF Ring, LogOK, Thread
<1>20. BudgetOK'
  BY <1>1, <1>5 DEF Ring, BudgetOK, Calling, Thread
<1>21. GotOK'
  <2>1. CASE t \in Sender
    <3>1. \A u \in Receiver : pc'[u] = pc[u]
      BY <1>1, <2>1, ChannelAssumption DEF Thread
    <3> QED
      BY <1>4, <1>5, <1>10, <2>1, <3>1 DEF Ring, GotOK, Thread
  <2>2. CASE t \in Receiver
    <3>1. k \in 0..(H - 1)
      BY <1>1, <1>2, <1>3, <1>10, <2>2 DEF ReaderOf, InFlight, k
    <3>2. \A m \in got' : \E n \in 0..(H - 1) : m = log[n + 1]
      BY <1>10, <2>2, <3>1 DEF Ring, GotOK
    <3>3. \A u \in Receiver : pc[u] = "access" => At(u) = k \/ pc'[u] = "access"
      BY <1>1 DEF Thread, k
    <3>4. \A n \in 0..(H - 1) : log[n + 1] \in got'
            \/ \E u \in Receiver : pc'[u] = "access" /\ At(u) = n
      BY <1>10, <2>2, <3>3 DEF Ring, GotOK
    <3>5. \A u \in Receiver : At(u)' = At(u)
      BY <1>5 DEF Thread
    <3> QED
      BY <1>4, <3>2, <3>4, <3>5 DEF GotOK
  <2> QED
    BY <2>1, <2>2 DEF Thread
<1> QED
  BY <1>11, <1>12, <1>13, <1>14, <1>15, <1>16, <1>17, <1>18, <1>19, <1>20, <1>21 DEF Ring

\* The owner of a slot passes it on: to the receiver of the same position, or
\* to the sender of the next lap.
LEMMA PublishRing ==
  ASSUME TypeOK, Ring, ~freed, NEW t \in Thread, Publish(t)
  PROVE  Ring'
<1> USE DEF Window
<1> DEFINE k == At(t)
           x == IF t \in Sender THEN Enc(k) + 1 ELSE Enc(k) + OneLap
<1>1. pc[t] = "publish" /\ pc'[t] = "notify" /\ \A u \in Thread : u # t => pc'[u] = pc[u]
  BY DEF Publish, Goto, TypeOK
<1>2. N \in Nat /\ H \in Nat /\ Cap \in Nat \ {0} /\ H <= N /\ N <= H + Cap
  BY EndFacts DEF Ring, EndsOK
<1>3. k \in Nat /\ loc[t] = Enc(k) /\ Index(loc[t]) = Ix(k) /\ Ix(k) \in 0..(Cap - 1)
  BY <1>1, EncFields, Laps DEF Ring, LocOK, LocOf, InCall
<1>4. /\ UNCHANGED <<head, tail, slot, aux, log, got, freed>> /\ N' = N /\ H' = H
      /\ \A u \in Thread : u # t => loc'[u] = loc[u]
  BY DEF Publish, Keep, ends, refs, history, N, H, TypeOK
<1>5. /\ \A u \in Thread : u # t => At(u)' = At(u)
      /\ \A u \in Thread : SentBy(u)' = SentBy(u)
  BY <1>4, SentBySame DEF At
<1>6. stamp' = [stamp EXCEPT ![Ix(k)] = x]
  BY <1>3 DEF Publish
<1>7. stamp'[Ix(k)] = x /\ \A i \in 0..(Cap - 1) : i # Ix(k) => stamp'[i] = stamp[i]
  BY <1>3, <1>6 DEF TypeOK
<1>8. \A u \in Thread : pc'[u] \in InFlight <=> u # t /\ pc[u] \in InFlight
  BY <1>1 DEF InFlight
<1>9. \A u \in Thread : pc[u] \in InFlight /\ u # t => stamp'[Ix(At(u))] = stamp[Ix(At(u))]
  <2> SUFFICES ASSUME NEW u \in Thread, pc[u] \in InFlight, u # t
               PROVE  stamp'[Ix(At(u))] = stamp[Ix(At(u))]
    OBVIOUS
  <2>1. At(u) \in Nat /\ Ix(At(u)) \in 0..(Cap - 1)
    BY Laps DEF Ring, LocOK, LocOf, InFlight, InCall
  <2>2. Ix(At(u)) # Ix(k)
    BY <1>1, OwnSlots DEF InFlight
  <2> QED
    BY <1>7, <2>1, <2>2
<1>10. \/ /\ t \in Sender /\ H <= k /\ k < N /\ stamp[Ix(k)] = Enc(k)
          /\ slot[Ix(k)] = log[k + 1] /\ x = Enc(k) + 1
       \/ /\ t \in Receiver /\ k < H /\ N <= k + Cap /\ stamp[Ix(k)] = Enc(k) + 1
          /\ slot[Ix(k)] = None /\ x = Enc(k + Cap)
  <2>1. pc[t] \in InFlight
    BY <1>1 DEF InFlight
  <2>2. CASE t \in Sender
    BY <1>1, <2>1, <2>2 DEF Ring, WritersOK, WriterOf
  <2>3. CASE t \in Receiver
    <3>1. ReaderOf(t) /\ t \notin Sender
      BY <2>3, ChannelAssumption DEF Ring, ReadersOK
    <3>2. Enc(k) + OneLap = Enc(k + Cap)
      BY <1>3, EncLap
    <3> QED
      BY <1>1, <2>1, <2>3, <3>1, <3>2 DEF ReaderOf
  <2> QED
    BY <2>2, <2>3 DEF Thread
<1> HIDE DEF k, x
<1>11. EndsOK'
  BY <1>4 DEF Ring, EndsOK
<1>12. LocOK'
  BY <1>1, <1>4, <1>5 DEF Ring, LocOK, LocOf, InCall
<1>13. AuxOK'
  BY <1>1, <1>4 DEF Ring, AuxOK, AuxOf
<1>14. ClaimOK'
  <2> SUFFICES ASSUME NEW u \in Thread, pc'[u] = "claim" PROVE ClaimOf(u)'
    BY DEF ClaimOK, ClaimOf
  <2>1. pc[u] = "claim" /\ u # t /\ At(u)' = At(u) /\ ClaimOf(u)
    BY <1>1, <1>5 DEF Ring, ClaimOK
  <2>2. Ix(N) \in 0..(Cap - 1) /\ Ix(H) \in 0..(Cap - 1)
    BY <1>2, Laps
  <2>3. stamp[Ix(N)] = Enc(N) => Ix(N) # Ix(k)
    BY <1>2, <1>3, <1>10, EncDiffer
  <2>4. stamp[Ix(H)] = Enc(H) + 1 => Ix(H) # Ix(k)
    BY <1>2, <1>3, <1>10, EncDiffer
  <2> QED
    BY <1>4, <1>7, <2>1, <2>2, <2>3, <2>4 DEF ClaimOf
<1>15. WritersOK'
  BY <1>1, <1>4, <1>5, <1>8, <1>9 DEF Ring, WritersOK, WriterOf, Thread
<1>16. ReadersOK'
  BY <1>1, <1>4, <1>5, <1>8, <1>9 DEF Ring, ReadersOK, ReaderOf, Thread
<1>17. OwnersDiffer'
  BY <1>5, <1>8 DEF Ring, OwnersDiffer
<1>18. SlotsOK'
  <2> SUFFICES ASSUME NEW n \in Window PROVE SlotOK(n)'
    BY <1>4 DEF SlotsOK
  <2>1. SlotOK(n) /\ n \in Nat /\ Ix(n) \in 0..(Cap - 1)
    <3>1. SlotOK(n) /\ n \in Nat
      BY <1>2 DEF Ring, SlotsOK
    <3> QED
      BY <3>1, Laps
  <2>2. CASE Ix(n) # Ix(k)
    <3>1. stamp'[Ix(n)] = stamp[Ix(n)]
      BY <1>7, <2>1, <2>2
    <3>2. (Free(n) => Free(n)') /\ (Full(n) => Full(n)')
      BY <1>4, <3>1 DEF Free, Full
    <3>3. Writing(n) => Writing(n)'
      <4> SUFFICES ASSUME Writing(n) PROVE Writing(n)'
        OBVIOUS
      <4>1. PICK u \in Sender : pc[u] \in InFlight /\ At(u) = n
        BY DEF Writing
      <4>2. u # t
        BY <2>2, <4>1 DEF k
      <4> QED
        BY <1>5, <1>8, <3>1, <4>1, <4>2 DEF Writing, Thread
    <3>4. Reading(n) => Reading(n)'
      <4> SUFFICES ASSUME Reading(n) PROVE Reading(n)'
        OBVIOUS
      <4>1. PICK u \in Receiver : pc[u] \in InFlight /\ At(u) = n - Cap
        BY DEF Reading
      <4>2. n - Cap \in Nat /\ (n - Cap) + Cap = n
        BY <1>2, <2>1 DEF Reading
      <4>3. Ix(n - Cap) = Ix(n)
        BY <4>2, EncLap
      <4>4. u # t
        BY <2>2, <4>1, <4>3 DEF k
      <4> QED
        BY <1>5, <1>8, <3>1, <4>1, <4>4 DEF Reading, Thread
    <3> QED
      BY <1>4, <2>1, <3>2, <3>3, <3>4 DEF SlotOK
  <2>3. CASE Ix(n) = Ix(k) /\ H <= k
    <3>1. k < N /\ slot[Ix(k)] = log[k + 1] /\ x = Enc(k) + 1
      BY <1>2, <1>3, <1>10, <2>3
    <3>2. n = k
      BY <1>2, <1>3, <2>3, <3>1, WindowSlots
    <3>3. Full(n)'
      BY <1>4, <1>7, <3>1, <3>2 DEF Full
    <3> QED
      BY <1>4, <3>1, <3>2, <3>3 DEF SlotOK
  <2>4. CASE Ix(n) = Ix(k) /\ ~(H <= k)
    <3>1. k < H /\ N <= k + Cap /\ slot[Ix(k)] = None /\ x = Enc(k + Cap)
      BY <1>2, <1>3, <1>10, <2>4
    <3>2. Ix(k + Cap) = Ix(k)
      BY <1>3, EncLap
    <3>3. n = k + Cap
      BY <1>2, <1>3, <2>4, <3>1, <3>2, WindowSlots
    <3>4. ~(n < N)
      BY <1>2, <1>3, <3>1, <3>3
    <3>5. Free(n)'
      BY <1>4, <1>7, <3>1, <3>2, <3>3 DEF Free
    <3> QED
      BY <1>4, <3>4, <3>5 DEF SlotOK
  <2> QED
    BY <2>2, <2>3, <2>4
<1>19. LogOK'
  BY <1>4, <1>5 DEF Ring, LogOK, Thread
<1>20. BudgetOK'
  BY <1>1, <1>5 DEF Ring, BudgetOK, Calling, Thread
<1>21. GotOK'
  <2>1. \A u \in Receiver : pc[u] = "access" => pc'[u] = "access" /\ At(u)' = At(u)
    BY <1>1, <1>5 DEF Thread
  <2> QED
    BY <1>4, <2>1 DEF Ring, GotOK
<1> QED
  BY <1>11, <1>12, <1>13, <1>14, <1>15, <1>16, <1>17, <1>18, <1>19, <1>20, <1>21 DEF Ring

----------------------------------------------------------------------------
(* Handles, disconnection and destruction *)

\* The second to swap the flag is alone.
LEMMA LastOneLeft ==
  ASSUME Counter, NEW t \in Thread, pc[t] = "destroy", destroy
  PROVE  \A u \in Thread : u # t => pc[u] = "gone"
<1>1. \A u \in Thread : u # t /\ Side(u) = Side(t) => pc[u] = "gone"
  BY DEF Counter, LastOK, Leaving
<1>2. CASE t \in Sender
  <2>1. \A u \in Receiver : pc[u] = "gone"
    BY <1>2 DEF Counter, DestroyOK
  <2> QED
    BY <1>1, <1>2, <2>1 DEF Thread, Side
<1>3. CASE t \in Receiver
  <2>1. \A u \in Sender : pc[u] = "gone"
    BY <1>3 DEF Counter, DestroyOK
  <2>2. \A u \in Thread : u \notin Sender => Side(u) = Side(t)
    BY <1>3, ChannelAssumption DEF Side
  <2> QED
    BY <1>1, <2>1, <2>2
<1> QED
  BY <1>2, <1>3 DEF Thread

\* Channel::drop drops the messages nobody has claimed, and no slot keeps one.
LEMMA DropChannelDrops ==
  ASSUME TypeOK, Ring, ~freed, \A u \in Thread : pc[u] \notin InFlight, DropChannel
  PROVE  /\ dropped' = {log[n + 1] : n \in H..(N - 1)}
         /\ slot' = [i \in 0..(Cap - 1) |-> None]
<1> DEFINE D == {(Index(head) + i) % Cap : i \in 0..(len - 1)}
<1>1. /\ N \in Nat /\ H \in Nat /\ Cap \in Nat \ {0} /\ Index(head) = Ix(H) /\ len = N - H
      /\ H <= N /\ N <= H + Cap
  BY EndFacts, LenIs DEF Ring, EndsOK
<1>2. \A n \in Window : IF n < N THEN Full(n) ELSE Free(n)
  BY DEF Ring, SlotsOK, SlotOK, Writing, Reading, Thread
<1>3. \A k \in 0..(len - 1) : (Index(head) + k) % Cap = Ix(H + k) /\ H + k \in H..(N - 1)
  <2> SUFFICES ASSUME NEW k \in 0..(len - 1)
               PROVE  (Index(head) + k) % Cap = Ix(H + k) /\ H + k \in H..(N - 1)
    OBVIOUS
  <2>1. k \in Nat /\ H + k \in H..(N - 1)
    BY <1>1
  <2> QED
    BY <1>1, <2>1, Offset
<1>4. \A n \in H..(N - 1) : n - H \in 0..(len - 1) /\ H + (n - H) = n
  BY <1>1
<1>5. D = {Ix(n) : n \in H..(N - 1)}
  <2>1. D \subseteq {Ix(n) : n \in H..(N - 1)}
    BY <1>3
  <2>2. \A n \in H..(N - 1) : Ix(n) \in D
    <3> SUFFICES ASSUME NEW n \in H..(N - 1) PROVE Ix(n) \in D
      OBVIOUS
    <3>1. (Index(head) + (n - H)) % Cap = Ix(H + (n - H))
      BY <1>3, <1>4
    <3>2. (Index(head) + (n - H)) % Cap = Ix(n)
      BY <1>4, <3>1
    <3> QED
      BY <1>4, <3>2
  <2> QED
    BY <2>1, <2>2
<1>6. dropped' = {slot[i] : i \in D} /\ DOMAIN slot = 0..(Cap - 1)
      /\ slot' = [i \in DOMAIN slot |-> IF i \in D THEN None ELSE slot[i]]
  BY DEF DropChannel, TypeOK
<1> HIDE DEF D
<1>7. \A n \in H..(N - 1) : n \in Window /\ n < N
  BY <1>1 DEF Window
<1>8. \A n \in H..(N - 1) : slot[Ix(n)] = log[n + 1]
  BY <1>2, <1>7 DEF Full
<1>9. dropped' = {log[n + 1] : n \in H..(N - 1)}
  BY <1>5, <1>6, <1>8
<1>10. \A i \in 0..(Cap - 1) : i \in D \/ slot[i] = None
  <2> SUFFICES ASSUME NEW i \in 0..(Cap - 1) PROVE i \in D \/ slot[i] = None
    OBVIOUS
  <2>1. PICK n \in Window : Ix(n) = i
    BY <1>1, WindowCovers DEF Window
  <2>2. CASE n < N
    <3>1. n \in H..(N - 1)
      BY <1>1, <2>1, <2>2 DEF Window
    <3> QED
      BY <1>5, <2>1, <3>1
  <2>3. CASE ~(n < N)
    BY <1>2, <2>1, <2>3 DEF Free
  <2> QED
    BY <2>2, <2>3
<1> QED
  BY <1>6, <1>9, <1>10

\* The swap of the flag, and the end of the channel.
LEMMA DestroyRing ==
  ASSUME TypeOK, Ring, Counter, ~freed, NEW t \in Thread, Destroy(t)
  PROVE  Ring'
<1>1. UNCHANGED <<head, tail, stamp, loc, aux, log, got>> /\ Goto(t, "gone") /\ pc[t] = "destroy"
  BY DEF Destroy, ends
<1>2. CASE ~destroy
  <2>1. UNCHANGED <<slot, freed>>
    BY <1>2, Zenon DEF Destroy, TypeOK
  <2> QED
    BY <1>1, <2>1, RingFrame DEF InFlight, InCall, Calling
<1>3. CASE destroy
  <2>1. \A u \in Thread : pc'[u] = "gone"
    BY <1>1, <1>3, LastOneLeft DEF Goto, TypeOK
  <2>2. \A u \in Thread : pc[u] # "access"
    BY <1>1, <1>3, LastOneLeft
  <2>3. freed'
    BY <1>3 DEF Destroy
  <2>4. \A u \in Thread : SentBy(u)' = SentBy(u)
    BY <1>1, SentBySame
  <2>5. N' = N /\ H' = H
    BY <1>1 DEF N, H
  <2>6. EndsOK' /\ LogOK'
    BY <1>1, <2>4, <2>5 DEF Ring, EndsOK, LogOK, Thread
  <2>7. LocOK' /\ AuxOK' /\ ClaimOK' /\ OwnersDiffer' /\ BudgetOK'
    BY <2>1 DEF LocOK, LocOf, AuxOK, AuxOf, ClaimOK, ClaimOf, OwnersDiffer, BudgetOK, InCall,
       InFlight, Calling, Thread
  <2>8. WritersOK' /\ ReadersOK' /\ SlotsOK'
    BY <2>1, <2>3 DEF WritersOK, WriterOf, ReadersOK, ReaderOf, SlotsOK, InFlight, Thread
  <2>9. GotOK'
    <3>1. \A n \in 0..(H - 1) : log[n + 1] \in got
      BY <2>2 DEF Ring, GotOK, Thread
    <3>2. \A m \in got : \E n \in 0..(H - 1) : m = log[n + 1]
      BY DEF Ring, GotOK
    <3> QED
      BY <1>1, <2>5, <3>1, <3>2 DEF GotOK
  <2> QED
    BY <2>6, <2>7, <2>8, <2>9 DEF Ring
<1> QED
  BY <1>2, <1>3

\* A step that is not about the handles keeps what is known of them.
LEMMA CounterFrame ==
  ASSUME TypeOK, Counter, NEW t \in Thread, NEW l, Goto(t, l),
         pc[t] \notin Leaving, pc[t] # "gone", l \notin Leaving, l # "gone",
         l = "closed" /\ t \in Receiver => Marked(tail') /\ H' = N',
         Marked(tail') <=> Marked(tail), Marked(tail) /\ H = N => H' = N',
         UNCHANGED <<handles, destroy>>
  PROVE  Counter'
<1>1. pc'[t] = l /\ \A u \in Thread : u # t => pc'[u] = pc[u]
  BY DEF Goto, TypeOK
<1> USE DEF Thread
<1>2. HandlesOK'
  BY <1>1 DEF Counter, HandlesOK
<1>3. LastOK'
  BY <1>1 DEF Counter, LastOK
<1>4. MarkedOK'
  BY DEF Counter, MarkedOK
<1>5. DestroyOK'
  BY <1>1 DEF Counter, DestroyOK
<1>6. ClosedOK'
  BY <1>1 DEF Counter, ClosedOK
<1>7. WakingOK'
  BY <1>1 DEF Counter, WakingOK, Leaving
<1> QED
  BY <1>2, <1>3, <1>4, <1>5, <1>6, <1>7 DEF Counter

\* The last handle of a side.
LEMMA ReleaseCounter ==
  ASSUME TypeOK, Counter, NEW t \in Thread, Release(t)
  PROVE  Counter'
<1> DEFINE Mine == IF t \in Sender THEN Sender ELSE Receiver
<1>1. pc[t] = "release" /\ handles' = handles \ {t}
  BY DEF Release
<1>2. PICK l \in {"mark", "gone"} :
        Goto(t, l) /\ (l = "mark" => Mine \intersect handles = {t})
  BY DEF Release
<1>3. pc'[t] = l /\ \A u \in Thread : u # t => pc'[u] = pc[u]
  BY <1>2 DEF Goto, TypeOK
<1>4. UNCHANGED <<head, tail, log, destroy>> /\ H' = H /\ N' = N
  BY DEF Release, ends, history, H, N
<1>5. HandlesOK'
  BY <1>1, <1>3 DEF Counter, HandlesOK, Leaving
<1>6. LastOK'
  <2> SUFFICES ASSUME NEW v \in Thread, NEW u \in Thread, pc'[v] \in Leaving,
                      Side(u) = Side(v), u # v
               PROVE  pc'[u] = "gone"
    BY DEF LastOK, Side
  <2>1. \A w \in Thread : pc[w] \in Leaving => Side(t) # Side(w)
    BY <1>1 DEF Counter, LastOK, Leaving
  <2>2. CASE v = t
    <3>1. l = "mark" /\ u \in Mine
      BY <1>3, <2>2, ChannelAssumption DEF Leaving, Side, Thread, Senders, Receivers
    <3>2. u \notin handles /\ pc[u] \notin Leaving
      BY <1>2, <2>1, <2>2, <3>1
    <3> QED
      BY <1>3, <2>2, <3>2 DEF Counter, HandlesOK
  <2>3. CASE v # t
    <3>1. pc[v] \in Leaving /\ u # t
      BY <1>3, <2>1, <2>3
    <3> QED
      BY <1>3, <3>1 DEF Counter, LastOK
  <2> QED
    BY <2>2, <2>3
<1>7. MarkedOK'
  BY <1>1, <1>4 DEF Counter, MarkedOK
<1>8. DestroyOK'
  BY <1>1, <1>3, <1>4 DEF Counter, DestroyOK, Thread
<1>9. ClosedOK'
  BY <1>3, <1>4 DEF Counter, ClosedOK, Thread
<1>10. WakingOK'
  BY <1>3, <1>4 DEF Counter, WakingOK
<1> QED
  BY <1>5, <1>6, <1>7, <1>8, <1>9, <1>10 DEF Counter

\* The steps of the thread that disconnects.
LEMMA LeavingCounter ==
  ASSUME TypeOK, Ring, Counter, NEW t \in Thread, Mark(t) \/ Disconnect(t) \/ Destroy(t)
  PROVE  Counter'
<1>1. /\ pc[t] \in Leaving /\ UNCHANGED <<handles, head, log>>
      /\ destroy' => destroy \/ pc[t] = "destroy"
  BY DEF Mark, Disconnect, Destroy, Leaving, refs, ends, history
<1>2. PICK l \in Leaving \union {"gone"} : Goto(t, l) /\ (pc[t] = "destroy" => l = "gone")
  BY DEF Mark, Disconnect, Destroy, Leaving
<1>3. pc'[t] = l /\ \A u \in Thread : u # t => pc'[u] = pc[u]
  BY <1>2 DEF Goto, TypeOK
<1>4. N' = N /\ H' = H
  BY <1>1 DEF N, H
<1>5. tail' = tail \/ (pc[t] = "mark" /\ Marked(tail'))
  <2>1. Unmarked(tail) = Enc(N) /\ Marked(Enc(N) + MarkBit)
    BY EndFacts, EncFields DEF Ring
  <2> QED
    BY <2>1 DEF Mark, Disconnect, Destroy, ends
<1>6. HandlesOK'
  BY <1>1, <1>3 DEF Counter, HandlesOK
<1>7. LastOK'
  BY <1>1, <1>3 DEF Counter, LastOK, Side, Leaving
<1>8. \A u \in Thread : Side(u) = Side(t) => u \notin handles
  BY <1>1 DEF Counter, HandlesOK, LastOK, Leaving
<1>9. \/ \A u \in Sender : Side(u) = Side(t) /\ u \in Thread
      \/ \A u \in Receiver : Side(u) = Side(t) /\ u \in Thread
  BY ChannelAssumption DEF Side, Thread
<1>10. MarkedOK'
  BY <1>1, <1>5, <1>8, <1>9 DEF Counter, MarkedOK
<1>11. DestroyOK'
  <2>1. CASE pc[t] = "destroy"
    <3>1. \A u \in Thread : Side(u) = Side(t) => pc'[u] = "gone"
      BY <1>1, <1>2, <1>3, <2>1 DEF Counter, LastOK
    <3> QED
      BY <1>9, <3>1 DEF DestroyOK
  <2>2. CASE pc[t] # "destroy"
    BY <1>1, <1>3, <2>2 DEF Counter, DestroyOK, Leaving, Thread
  <2> QED
    BY <2>1, <2>2
<1>12. ClosedOK'
  BY <1>2, <1>3, <1>4, <1>5 DEF Counter, ClosedOK, Thread, Leaving
<1>13. WakingOK'
  <2>1. CASE Mark(t)
    <3>1. Marked(tail')
      BY <2>1, EndFacts, EncFields DEF Ring, Mark
    <3> QED
      BY <3>1 DEF WakingOK
  <2>2. CASE Disconnect(t) \/ Destroy(t)
    <3>1. tail' = tail /\ (pc'[t] \in {"wake_senders", "wake_receivers"} => pc[t] = "wake_senders")
      BY <2>2 DEF Disconnect, Destroy, ends, Goto, TypeOK
    <3> QED
      BY <1>3, <3>1 DEF Counter, WakingOK
  <2> QED
    BY <2>1, <2>2
<1> QED
  BY <1>6, <1>7, <1>10, <1>11, <1>12, <1>13 DEF Counter

----------------------------------------------------------------------------
(* The queues of the wakers *)

\* Vec::remove.
LEMMA RemoveAtIs ==
  ASSUME NEW S, NEW q \in Seq(S), NEW f \in 1..Len(q)
  PROVE  /\ RemoveAt(q, f) \in Seq(S)
         /\ Len(RemoveAt(q, f)) = Len(q) - 1
         /\ \A i \in 1..(Len(q) - 1) : RemoveAt(q, f)[i] = IF i < f THEN q[i] ELSE q[i + 1]
<1> DEFINE a == SubSeq(q, 1, f - 1)
           b == SubSeq(q, f + 1, Len(q))
<1>1. a \in Seq(S) /\ Len(a) = f - 1 /\ \A i \in 1..(f - 1) : a[i] = q[i]
  OBVIOUS
<1>2. b \in Seq(S) /\ Len(b) = Len(q) - f /\ \A i \in 1..(Len(q) - f) : b[i] = q[f + i]
  OBVIOUS
<1>3. RemoveAt(q, f) = a \o b
  BY DEF RemoveAt
<1> HIDE DEF a, b
<1>4. a \o b \in Seq(S) /\ Len(a \o b) = Len(q) - 1
  <2>1. a \o b \in Seq(S) /\ Len(a \o b) = Len(a) + Len(b)
    <3>1. a \in Seq(S) /\ b \in Seq(S)
      BY <1>1, <1>2
    <3> QED
      BY <3>1
  <2>2. Len(q) \in Nat /\ f \in Nat
    OBVIOUS
  <2> QED
    BY <1>1, <1>2, <2>1, <2>2
<1>5. \A i \in 1..(Len(q) - 1) : (a \o b)[i] = IF i < f THEN q[i] ELSE q[i + 1]
  <2> SUFFICES ASSUME NEW i \in 1..(Len(q) - 1)
               PROVE  (a \o b)[i] = IF i < f THEN q[i] ELSE q[i + 1]
    OBVIOUS
  <2>1. CASE i < f
    BY <1>1, <1>2, <2>1
  <2>2. CASE ~(i < f)
    <3>1. i - (f - 1) \in 1..(Len(q) - f) /\ f + (i - (f - 1)) = i + 1
      BY <2>2
    <3>2. (a \o b)[i] = b[i - (f - 1)]
      BY <1>1, <1>2, <2>2
    <3>3. b[i - (f - 1)] = q[f + (i - (f - 1))]
      BY <1>2, <3>1
    <3> QED
      BY <2>2, <3>1, <3>2, <3>3
  <2> QED
    BY <2>1, <2>2
<1> QED
  BY <1>3, <1>4, <1>5

\* It takes out one element of a queue without duplicates, and only that.
LEMMA RemoveAtTakes ==
  ASSUME NEW S, NEW q \in Seq(S), NEW f \in 1..Len(q),
         \A i, j \in DOMAIN q : q[i] = q[j] => i = j
  PROVE  LET r == RemoveAt(q, f)
         IN  /\ r \in Seq(S)
             /\ \A i, j \in DOMAIN r : r[i] = r[j] => i = j
             /\ \A i \in DOMAIN r : r[i] # q[f] /\ \E j \in DOMAIN q : r[i] = q[j]
             /\ \A j \in DOMAIN q : q[j] # q[f] => \E i \in DOMAIN r : r[i] = q[j]
<1> DEFINE r == RemoveAt(q, f)
           At1(i) == IF i < f THEN i ELSE i + 1
<1>1. /\ r \in Seq(S) /\ DOMAIN r = 1..(Len(q) - 1) /\ DOMAIN q = 1..Len(q) /\ Len(q) \in Nat
      /\ \A i \in DOMAIN r : r[i] = q[At1(i)]
  <2>1. /\ r \in Seq(S) /\ Len(r) = Len(q) - 1
        /\ \A i \in 1..(Len(q) - 1) : r[i] = IF i < f THEN q[i] ELSE q[i + 1]
    BY RemoveAtIs
  <2> HIDE DEF r
  <2> QED
    BY <2>1
<1>2. \A i \in DOMAIN r : At1(i) \in DOMAIN q /\ At1(i) # f
  BY <1>1
<1>3. \A i, j \in DOMAIN r : At1(i) = At1(j) => i = j
  BY <1>1
<1>4. \A j \in DOMAIN q : j # f => \E i \in DOMAIN r : At1(i) = j
  <2> SUFFICES ASSUME NEW j \in DOMAIN q, j # f PROVE \E i \in DOMAIN r : At1(i) = j
    OBVIOUS
  <2>1. CASE j < f
    BY <1>1, <2>1
  <2>2. CASE j > f
    <3>1. j - 1 \in DOMAIN r /\ At1(j - 1) = j
      BY <1>1, <2>2
    <3> QED
      BY <3>1
  <2> QED
    BY <1>1, <2>1, <2>2
<1> HIDE DEF r, At1
<1>5. f \in DOMAIN q
  BY <1>1
<1>6. \A i, j \in DOMAIN r : r[i] = r[j] => i = j
  BY <1>1, <1>2, <1>3
<1>7. \A i \in DOMAIN r : r[i] # q[f] /\ \E j \in DOMAIN q : r[i] = q[j]
  BY <1>1, <1>2, <1>5
<1>8. \A j \in DOMAIN q : q[j] # q[f] => \E i \in DOMAIN r : r[i] = q[j]
  BY <1>1, <1>4
<1> QED
  BY <1>1, <1>6, <1>7, <1>8 DEF r

\* The first entry that a search finds.
LEMMA FirstOfIs ==
  ASSUME NEW W \in SUBSET Nat, W # {}
  PROVE  FirstOf(W) \in W
<1>1. \E i \in W : \A j \in W : i <= j
  BY LeastExists
<1> QED
  BY <1>1 DEF FirstOf

\* The queues are sequences of threads.
LEMMA QueueTyped ==
  ASSUME TypeOK, NEW s \in {Senders, Receivers}
  PROVE  selectors[s] \in Seq(Thread) /\ DOMAIN selectors[s] = 1..Len(selectors[s])
<1>1. selectors \in [{Senders, Receivers} -> Seq(Thread)]
  BY Zenon DEF TypeOK
<1>2. selectors[s] \in Seq(Thread)
  BY <1>1, Zenon
<1> QED
  BY <1>2

\* A step that leaves the queues alone and keeps its thread in or out.
LEMMA QueueFrame ==
  ASSUME TypeOK, Queues, NEW t \in Thread,
         \A u \in Thread : u # t => pc'[u] = pc[u] /\ selected'[u] = selected[u]
                                    /\ (u \in token => u \in token'),
         UNCHANGED <<selectors, is_empty>>,
         Registered(t)' <=> Registered(t), UnregisterOf(t)', TokenOf(t)'
  PROVE  Queues'
<1>1. \A u \in Thread : Registered(u)' <=> Registered(u)
  BY DEF Registered
<1>2. \A u \in Thread : Queued(u)' <=> Queued(u)
  BY DEF Queued, Entries
<1>3. FlagOK' /\ EntriesOK'
  BY DEF Queues, FlagOK, EntriesOK, Entries
<1>4. MembersOK'
  BY <1>1, <1>2 DEF Queues, MembersOK
<1>5. UnregisterOK'
  BY DEF Queues, UnregisterOK, UnregisterOf
<1>6. TokenOK'
  BY DEF Queues, TokenOK, TokenOf
<1> QED
  BY <1>3, <1>4, <1>5, <1>6 DEF Queues

\* A step that puts one thread in or takes it out.
LEMMA QueueChange ==
  ASSUME TypeOK, Queues, NEW v \in Thread, NEW q \in Seq(Thread), SetQueue(Side(v), q),
         \A i, j \in DOMAIN q : q[i] = q[j] => i = j,
         \A i \in DOMAIN q : q[i] = v \/ \E j \in Entries(Side(v)) : selectors[Side(v)][j] = q[i],
         \A j \in Entries(Side(v)) : selectors[Side(v)][j] = v
                                     \/ \E i \in DOMAIN q : q[i] = selectors[Side(v)][j],
         Registered(v)' <=> \E i \in DOMAIN q : q[i] = v,
         \A u \in Thread : u # v => (Registered(u)' <=> Registered(u)),
         UnregisterOK', TokenOK'
  PROVE  Queues'
<1>1. Side(v) \in {Senders, Receivers}
  BY DEF Side
<1>2. /\ selectors'[Side(v)] = q /\ (is_empty'[Side(v)] <=> q = <<>>)
      /\ \A s \in {Senders, Receivers} : s # Side(v) =>
           selectors'[s] = selectors[s] /\ is_empty'[s] = is_empty[s]
  <2>1. selectors' = [selectors EXCEPT ![Side(v)] = q]
    BY DEF SetQueue
  <2>2. is_empty' = [is_empty EXCEPT ![Side(v)] = (q = <<>>)]
    BY DEF SetQueue
  <2>3. /\ selectors'[Side(v)] = q
        /\ \A s \in {Senders, Receivers} : s # Side(v) => selectors'[s] = selectors[s]
    BY <1>1, <2>1 DEF TypeOK
  <2>4. /\ is_empty'[Side(v)] = (q = <<>>)
        /\ \A s \in {Senders, Receivers} : s # Side(v) => is_empty'[s] = is_empty[s]
    BY <1>1, <2>2, Zenon DEF TypeOK
  <2> QED
    BY <2>3, <2>4, Zenon
<1>3. FlagOK'
  BY <1>2 DEF Queues, FlagOK
<1>4. EntriesOK'
  <2> SUFFICES ASSUME NEW s \in {Senders, Receivers}
               PROVE  /\ \A i \in DOMAIN selectors'[s] : Side(selectors'[s][i]) = s
                      /\ \A i, j \in DOMAIN selectors'[s] :
                           selectors'[s][i] = selectors'[s][j] => i = j
    BY DEF EntriesOK, Entries, Side
  <2>1. CASE s = Side(v)
    BY <1>2, <2>1 DEF Queues, EntriesOK, Entries
  <2>2. CASE s # Side(v)
    BY <1>2, <2>2 DEF Queues, EntriesOK, Entries
  <2> QED
    BY <2>1, <2>2
<1>5. MembersOK'
  <2> SUFFICES ASSUME NEW u \in Thread PROVE Registered(u)' <=> Queued(u)'
    BY DEF MembersOK
  <2>1. Side(u) \in {Senders, Receivers} /\ (Registered(u) <=> Queued(u))
    BY DEF Side, Queues, MembersOK
  <2>2. Queued(u)' <=> \E i \in DOMAIN selectors'[Side(u)] : selectors'[Side(u)][i] = u
    BY DEF Queued, Entries, Side
  <2>3. CASE u = v
    BY <1>2, <2>2, <2>3
  <2>4. CASE u # v /\ Side(u) # Side(v)
    BY <1>2, <2>1, <2>2, <2>4 DEF Queued, Entries
  <2>5. CASE u # v /\ Side(u) = Side(v)
    BY <1>2, <2>1, <2>2, <2>5 DEF Queued, Entries
  <2> QED
    BY <2>3, <2>4, <2>5
<1> QED
  BY <1>3, <1>4, <1>5 DEF Queues

\* A notifier selects a waiting thread and takes it out of the queue,
\* or finds none.
LEMMA SelectIs ==
  ASSUME TypeOK, Queues, NEW t \in Thread, Select(t)
  PROVE  \/ UNCHANGED wakers /\ \A u \in Thread : Side(u) # Side(t) => ~Waits(u)
         \/ \E v \in Thread : \E f \in Entries(Side(v)) :
              /\ v # t /\ Side(v) = Other(t) /\ selectors[Side(v)][f] = v
              /\ selected[v] = "waiting"
              /\ SetQueue(Side(v), RemoveAt(selectors[Side(v)], f))
              /\ selected' = [selected EXCEPT ![v] = "operation"]
              /\ token' = token \union {v}
<1> DEFINE s == Other(t)
           q == selectors[s]
           W == {i \in DOMAIN q : selected[q[i]] = "waiting"}
<1>1. s \in {Senders, Receivers} /\ s # Side(t) /\ \A u \in Thread : Side(u) # Side(t) => Side(u) = s
  BY DEF Other, Side, Senders, Receivers
<1>2. q \in Seq(Thread) /\ DOMAIN q \subseteq Nat
  BY <1>1, QueueTyped
<1>3. CASE is_empty[s] \/ W = {}
  <2>1. UNCHANGED wakers
    BY <1>3 DEF Select
  <2>2. \A u \in Thread : Side(u) # Side(t) => ~Waits(u)
    <3> SUFFICES ASSUME NEW u \in Thread, Side(u) # Side(t), Waits(u) PROVE FALSE
      OBVIOUS
    <3>1. Registered(u)
      BY DEF Waits, Registered, Blocked
    <3>2. PICK i \in DOMAIN q : q[i] = u
      BY <1>1, <3>1 DEF Queues, MembersOK, Queued, Entries
    <3>3. q # <<>> /\ i \in W
      BY <3>2 DEF Waits
    <3> QED
      BY <1>1, <1>3, <3>3 DEF Queues, FlagOK
  <2> QED
    BY <2>1, <2>2
<1>4. CASE ~(is_empty[s] \/ W = {})
  <2>1. W # {} /\ W \subseteq Nat
    BY <1>2, <1>4
  <2> DEFINE f == FirstOf(W)
  <2>2. f \in W
    BY <2>1, FirstOfIs
  <2>3. /\ SetQueue(s, RemoveAt(q, f))
        /\ selected' = [selected EXCEPT ![q[f]] = "operation"]
        /\ token' = token \union {q[f]}
    BY <1>4 DEF Select
  <2> HIDE DEF f
  <2>4. q[f] \in Thread /\ Side(q[f]) = s /\ selected[q[f]] = "waiting" /\ f \in DOMAIN q
    BY <1>1, <1>2, <2>2 DEF Queues, EntriesOK, Entries
  <2>5. q[f] # t
    BY <1>1, <2>4
  <2> QED
    BY <2>3, <2>4, <2>5 DEF Entries
<1> QED
  BY <1>3, <1>4

\* Selecting keeps the queues in order.
LEMMA SelectQueues ==
  ASSUME TypeOK, Queues, NEW t \in Thread, Select(t)
  PROVE  Queues'
<1>1. pc[t] = "select" /\ pc'[t] = "idle" /\ \A u \in Thread : u # t => pc'[u] = pc[u]
  BY DEF Select, Goto, TypeOK
<1>2. CASE UNCHANGED wakers
  <2>1. (Registered(t)' <=> Registered(t)) /\ UnregisterOf(t)' /\ TokenOf(t)'
    BY <1>1 DEF Registered, UnregisterOf, TokenOf, Blocked
  <2> QED
    BY <1>1, <1>2, <2>1, QueueFrame DEF wakers
<1>3. ASSUME NEW v \in Thread, NEW f \in Entries(Side(v)),
             v # t, selectors[Side(v)][f] = v, selected[v] = "waiting",
             SetQueue(Side(v), RemoveAt(selectors[Side(v)], f)),
             selected' = [selected EXCEPT ![v] = "operation"], token' = token \union {v}
      PROVE  Queues'
  <2> DEFINE q == selectors[Side(v)]
             r == RemoveAt(q, f)
  <2>1. selected'[v] = "operation" /\ \A u \in Thread : u # v => selected'[u] = selected[u]
    BY <1>3 DEF TypeOK
  <2>2. /\ q \in Seq(Thread) /\ f \in 1..Len(q) /\ DOMAIN q = Entries(Side(v))
        /\ \A i, j \in DOMAIN q : q[i] = q[j] => i = j
    <3>1. Side(v) \in {Senders, Receivers}
      BY DEF Side
    <3>2. q \in Seq(Thread) /\ DOMAIN q = 1..Len(q)
      BY <3>1, QueueTyped
    <3>3. \A i, j \in DOMAIN q : q[i] = q[j] => i = j
      BY <3>1 DEF Queues, EntriesOK, Entries
    <3> HIDE DEF q
    <3> QED
      BY <3>2, <3>3 DEF Entries, q
  <2>3. /\ r \in Seq(Thread)
        /\ \A i, j \in DOMAIN r : r[i] = r[j] => i = j
        /\ \A i \in DOMAIN r : r[i] # v /\ \E j \in DOMAIN q : r[i] = q[j]
        /\ \A j \in DOMAIN q : q[j] # v => \E i \in DOMAIN r : r[i] = q[j]
    BY <1>3, <2>2, RemoveAtTakes
  <2>4. pc[v] # "unregister" /\ pc'[v] = pc[v]
    BY <1>1, <1>3 DEF Queues, UnregisterOK, UnregisterOf
  <2>5. ~Registered(v)'
    BY <2>1, <2>4 DEF Registered
  <2>6. \A u \in Thread : u # v => (Registered(u)' <=> Registered(u))
    BY <1>1, <2>1 DEF Registered, Blocked
  <2>7. UnregisterOK'
    BY <1>1, <2>1, <2>4 DEF Queues, UnregisterOK, UnregisterOf
  <2>8. TokenOK'
    BY <1>1, <1>3, <2>1 DEF Queues, TokenOK, TokenOf
  <2>9. /\ \A i \in DOMAIN r : r[i] = v \/ \E j \in Entries(Side(v)) : q[j] = r[i]
        /\ \A j \in Entries(Side(v)) : q[j] = v \/ \E i \in DOMAIN r : r[i] = q[j]
        /\ Registered(v)' <=> \E i \in DOMAIN r : r[i] = v
    BY <2>2, <2>3, <2>5
  <2>10. SetQueue(Side(v), r)
    BY <1>3
  <2> HIDE DEF r
  <2> QED
    BY <2>3, <2>6, <2>7, <2>8, <2>9, <2>10, QueueChange
<1> QED
  BY <1>2, <1>3, SelectIs

\* Registering appends a thread that is not in the queue.
LEMMA RegisterQueues ==
  ASSUME TypeOK, Queues, NEW t \in Thread, Register(t)
  PROVE  Queues'
<1> DEFINE q == selectors[Side(t)]
           r == Append(q, t)
<1>1. /\ pc[t] = "register" /\ pc'[t] = "ready1" /\ \A u \in Thread : u # t => pc'[u] = pc[u]
      /\ selected'[t] = "waiting" /\ \A u \in Thread : u # t => selected'[u] = selected[u]
      /\ token' = token /\ SetQueue(Side(t), r)
  BY DEF Register, Goto, TypeOK
<1>2. /\ q \in Seq(Thread) /\ DOMAIN q = 1..Len(q) /\ Len(q) \in Nat /\ DOMAIN q = Entries(Side(t))
      /\ \A i, j \in DOMAIN q : q[i] = q[j] => i = j
  BY DEF TypeOK, Queues, EntriesOK, Entries, Side
<1>3. \A i \in DOMAIN q : q[i] # t
  BY <1>1, <1>2 DEF Queues, MembersOK, Registered, Queued, Blocked
<1>4. /\ r \in Seq(Thread) /\ DOMAIN r = 1..(Len(q) + 1) /\ r[Len(q) + 1] = t
      /\ \A i \in 1..Len(q) : r[i] = q[i]
  BY <1>2
<1> HIDE DEF q, r
<1>5. \A i \in 1..(Len(q) + 1) : i \in 1..Len(q) \/ i = Len(q) + 1
  BY <1>2
<1>6. \A i, j \in DOMAIN r : r[i] = r[j] => i = j
  BY <1>2, <1>3, <1>4, <1>5
<1>7. \A i \in DOMAIN r : r[i] = t \/ \E j \in DOMAIN q : q[j] = r[i]
  BY <1>2, <1>4, <1>5
<1>8. \A j \in DOMAIN q : \E i \in DOMAIN r : r[i] = q[j]
  <2>1. \A j \in DOMAIN q : j \in DOMAIN r
    BY <1>2, <1>4
  <2> QED
    BY <1>2, <1>4, <2>1
<1>9. Registered(t)' /\ \E i \in DOMAIN r : r[i] = t
  <2>1. Len(q) + 1 \in DOMAIN r
    BY <1>2, <1>4
  <2> QED
    BY <1>1, <1>4, <2>1 DEF Registered, Blocked
<1>10. \A u \in Thread : u # t => (Registered(u)' <=> Registered(u))
  BY <1>1 DEF Registered
<1>11. UnregisterOK' /\ TokenOK'
  BY <1>1 DEF Queues, UnregisterOK, UnregisterOf, TokenOK, TokenOf
<1>12. /\ \A i \in DOMAIN r : r[i] = t \/ \E j \in Entries(Side(t)) : selectors[Side(t)][j] = r[i]
       /\ \A j \in Entries(Side(t)) : selectors[Side(t)][j] = t
                                       \/ \E i \in DOMAIN r : r[i] = selectors[Side(t)][j]
  BY <1>2, <1>7, <1>8 DEF q
<1> QED
  BY <1>1, <1>4, <1>6, <1>9, <1>10, <1>11, <1>12, QueueChange

\* The unwrap() of unregister finds the thread, and takes it out.
LEMMA UnregisterQueues ==
  ASSUME TypeOK, Queues, NEW t \in Thread, Unregister(t)
  PROVE  Queues'
<1> DEFINE q == selectors[Side(t)]
           W == {i \in DOMAIN q : q[i] = t}
           f == FirstOf(W)
           r == RemoveAt(q, f)
<1>1. /\ pc[t] = "unregister" /\ pc'[t] = "load" /\ \A u \in Thread : u # t => pc'[u] = pc[u]
      /\ selected' = selected /\ token' = token
  BY DEF Unregister, Goto, TypeOK
<1>2. /\ q \in Seq(Thread) /\ DOMAIN q = 1..Len(q) /\ DOMAIN q = Entries(Side(t))
      /\ \A i, j \in DOMAIN q : q[i] = q[j] => i = j
  BY DEF TypeOK, Queues, EntriesOK, Entries, Side
<1>3. W # {} /\ W \subseteq Nat
  BY <1>1, <1>2 DEF Queues, MembersOK, Registered, Queued
<1>4. SetQueue(Side(t), r)
  BY <1>3 DEF Unregister
<1>5. f \in 1..Len(q) /\ q[f] = t
  BY <1>2, <1>3, FirstOfIs
<1> HIDE DEF f, W
<1>6. /\ r \in Seq(Thread)
      /\ \A i, j \in DOMAIN r : r[i] = r[j] => i = j
      /\ \A i \in DOMAIN r : r[i] # t /\ \E j \in DOMAIN q : r[i] = q[j]
      /\ \A j \in DOMAIN q : q[j] # t => \E i \in DOMAIN r : r[i] = q[j]
  <2> HIDE DEF q
  <2>1. /\ r \in Seq(Thread)
        /\ \A i, j \in DOMAIN r : r[i] = r[j] => i = j
        /\ \A i \in DOMAIN r : r[i] # q[f] /\ \E j \in DOMAIN q : r[i] = q[j]
        /\ \A j \in DOMAIN q : q[j] # q[f] => \E i \in DOMAIN r : r[i] = q[j]
    BY <1>2, <1>5, RemoveAtTakes
  <2> QED
    BY <1>5, <2>1
<1> HIDE DEF r
<1>7. ~Registered(t)' /\ \A u \in Thread : u # t => (Registered(u)' <=> Registered(u))
  BY <1>1 DEF Registered, Blocked
<1>8. UnregisterOK' /\ TokenOK'
  BY <1>1 DEF Queues, UnregisterOK, UnregisterOf, TokenOK, TokenOf
<1>9. /\ \A i \in DOMAIN r : r[i] = t \/ \E j \in Entries(Side(t)) : selectors[Side(t)][j] = r[i]
      /\ \A j \in Entries(Side(t)) : selectors[Side(t)][j] = t
                                      \/ \E i \in DOMAIN r : r[i] = selectors[Side(t)][j]
      /\ Registered(t)' <=> \E i \in DOMAIN r : r[i] = t
  BY <1>2, <1>6, <1>7
<1> QED
  BY <1>4, <1>6, <1>7, <1>8, <1>9, QueueChange

\* Disconnecting selects who waits in a queue and leaves the queue alone.
LEMMA DisconnectIs ==
  ASSUME TypeOK, Queues, NEW s \in {Senders, Receivers}, DisconnectWaker(s)
  PROVE  /\ UNCHANGED <<selectors, is_empty>>
         /\ \A u \in Thread :
              \/ selected'[u] = selected[u] /\ (u \in token' <=> u \in token)
              \/ selected[u] = "waiting" /\ selected'[u] = "disconnected" /\ u \in token'
         /\ \A u \in Thread : Side(u) = s /\ Queued(u) => selected'[u] # "waiting"
<1> DEFINE q == selectors[s]
           W == {t \in ToSet(q) : selected[t] = "waiting"}
<1>1. SetQueue(s, q) /\ token' = token \union W
      /\ selected' = [t \in Thread |-> IF t \in W THEN "disconnected" ELSE selected[t]]
  BY DEF DisconnectWaker
<1>2. selectors' = selectors
  BY <1>1 DEF SetQueue, TypeOK
<1>3. is_empty' = is_empty
  <2>1. is_empty' = [is_empty EXCEPT ![s] = (q = <<>>)]
    BY <1>1 DEF SetQueue
  <2>2. is_empty[s] = (q = <<>>)
    <3>1. is_empty[s] \in BOOLEAN /\ (is_empty[s] <=> q = <<>>)
      BY Zenon DEF Queues, FlagOK, TypeOK
    <3> QED
      BY <3>1
  <2> QED
    BY <2>1, <2>2, Zenon DEF TypeOK
<1>4. \A u \in Thread : Side(u) = s /\ Queued(u) => u \in ToSet(q)
  BY DEF Queued, Entries, ToSet
<1> HIDE DEF q
<1>5. \A u \in Thread :
        \/ selected'[u] = selected[u] /\ (u \in token' <=> u \in token)
        \/ selected[u] = "waiting" /\ selected'[u] = "disconnected" /\ u \in token'
  BY <1>1
<1>6. \A u \in Thread : u \in ToSet(q) => selected'[u] # "waiting"
  BY <1>1
<1> QED
  BY <1>2, <1>3, <1>4, <1>5, <1>6

\* So it keeps the queues in order.
LEMMA DisconnectQueues ==
  ASSUME TypeOK, Queues, NEW t \in Thread, Disconnect(t)
  PROVE  Queues'
<1>1. PICK l \in {"wake_receivers", "destroy"} : Goto(t, l) /\ pc[t] \in {"wake_senders", "wake_receivers"}
  BY DEF Disconnect
<1>2. pc'[t] = l /\ \A u \in Thread : u # t => pc'[u] = pc[u]
  BY <1>1 DEF Goto, TypeOK
<1>3. /\ UNCHANGED <<selectors, is_empty>>
      /\ \A u \in Thread :
           \/ selected'[u] = selected[u] /\ (u \in token' <=> u \in token)
           \/ selected[u] = "waiting" /\ selected'[u] = "disconnected" /\ u \in token'
  BY DisconnectIs DEF Disconnect
<1>4. \A u \in Thread : Registered(u)' <=> Registered(u)
  BY <1>1, <1>2, <1>3 DEF Registered, Blocked
<1>5. \A u \in Thread : Queued(u)' <=> Queued(u)
  BY <1>3 DEF Queued, Entries
<1>6. FlagOK' /\ EntriesOK'
  BY <1>3 DEF Queues, FlagOK, EntriesOK, Entries
<1>7. MembersOK'
  BY <1>4, <1>5 DEF Queues, MembersOK
<1>8. UnregisterOK'
  BY <1>1, <1>2, <1>3 DEF Queues, UnregisterOK, UnregisterOf
<1>9. TokenOK'
  BY <1>1, <1>2, <1>3 DEF Queues, TokenOK, TokenOf
<1> QED
  BY <1>6, <1>7, <1>8, <1>9 DEF Queues

----------------------------------------------------------------------------
(* No lost wakeup *)

\* Counting threads.
LEMMA Counts ==
  ASSUME NEW T, IsFiniteSet(T), NEW A \in SUBSET T, NEW B \in SUBSET T, NEW x \in T
  PROVE  /\ Cardinality(A) \in Nat /\ Cardinality(B) \in Nat
         /\ A \subseteq B => Cardinality(A) <= Cardinality(B)
         /\ A \ {x} \subseteq B => Cardinality(A) <= Cardinality(B) + 1
         /\ x \notin A /\ A \union {x} \subseteq B => Cardinality(A) + 1 <= Cardinality(B)
<1>1. IsFiniteSet(A) /\ IsFiniteSet(B)
  BY FS_Subset
<1>2. Cardinality(A) \in Nat /\ Cardinality(B) \in Nat
  BY <1>1, FS_CardinalityType
<1>3. A \subseteq B => Cardinality(A) <= Cardinality(B)
  BY <1>1, FS_Subset
<1>4. ASSUME A \ {x} \subseteq B PROVE Cardinality(A) <= Cardinality(B) + 1
  <2>1. /\ IsFiniteSet(A \ {x}) /\ Cardinality(A \ {x}) \in Nat
        /\ Cardinality(A \ {x}) = IF x \in A THEN Cardinality(A) - 1 ELSE Cardinality(A)
    BY <1>1, FS_RemoveElement, FS_CardinalityType
  <2>2. Cardinality(A \ {x}) <= Cardinality(B)
    BY <1>1, <1>4, FS_Subset
  <2> QED
    BY <1>2, <2>1, <2>2
<1>5. ASSUME x \notin A, A \union {x} \subseteq B PROVE Cardinality(A) + 1 <= Cardinality(B)
  <2>1. Cardinality(A \union {x}) = Cardinality(A) + 1
    BY <1>1, <1>5, FS_AddElement
  <2>2. Cardinality(A \union {x}) <= Cardinality(B)
    BY <1>1, <1>5, FS_Subset
  <2> QED
    BY <2>1, <2>2
<1> QED
  BY <1>2, <1>3, <1>4, <1>5

\* The threads of a side that notify or retry are finitely many.
LEMMA SideCounts ==
  ASSUME NEW T \in {Sender, Receiver}
  PROVE  /\ IsFiniteSet(T)
         /\ Notifying(T) \in SUBSET T /\ Notifying(T)' \in SUBSET T
         /\ Retrying(T) \in SUBSET T /\ Retrying(T)' \in SUBSET T
         /\ Cardinality(Notifying(T)) \in Nat /\ Cardinality(Notifying(T)') \in Nat
         /\ Cardinality(Retrying(T)) \in Nat /\ Cardinality(Retrying(T)') \in Nat
<1>1. IsFiniteSet(T)
  BY ChannelAssumption
<1>2. /\ Notifying(T) \subseteq T /\ Retrying(T) \subseteq T
      /\ Notifying(T)' \subseteq T /\ Retrying(T)' \subseteq T
  BY DEF Notifying, Retrying
<1>3. /\ IsFiniteSet(Notifying(T)) /\ IsFiniteSet(Retrying(T))
      /\ IsFiniteSet(Notifying(T)') /\ IsFiniteSet(Retrying(T)')
  BY <1>1, <1>2, FS_Subset
<1> QED
  BY <1>1, <1>2, <1>3, FS_CardinalityType

\* What a side counts on, in terms of them.
LEMMA Supplies ==
  /\ ForReceivers \in Nat /\ ForReceivers' \in Nat
  /\ ForSenders \in Nat /\ ForSenders' \in Nat
  /\ ForReceivers' = Cardinality(Notifying(Sender)') + Cardinality(Retrying(Receiver)')
  /\ ForSenders' = Cardinality(Notifying(Receiver)') + Cardinality(Retrying(Sender)')
<1>1. /\ ForReceivers' = Cardinality(Notifying(Sender)') + Cardinality(Retrying(Receiver)')
      /\ ForSenders' = Cardinality(Notifying(Receiver)') + Cardinality(Retrying(Sender)')
  BY DEF ForReceivers, ForSenders
<1> QED
  BY <1>1, SideCounts DEF ForReceivers, ForSenders

\* A step of t after which the receivers count on at least as much.
LEMMA ReceiversFrame ==
  ASSUME TypeOK, EndsOK, ReceiversWoken, NEW t \in Thread,
         \A u \in Thread : u # t => pc'[u] = pc[u] /\ selected'[u] = selected[u],
         t \in Receiver => (Waits(t)' => Waits(t)) /\ (Retries(t) => Retries(t)'),
         t \in Sender => (Notifies(t) => Notifies(t)'),
         Marked(tail) => Marked(tail'), N' = N, H' = H
  PROVE  ReceiversWoken'
<1>1. Notifying(Sender) \subseteq Notifying(Sender)' /\ Retrying(Receiver) \subseteq Retrying(Receiver)'
  BY DEF Notifying, Retrying, Notifies, Retries, Thread
<1>2. (\E u \in Receiver : Waits(u)') => \E u \in Receiver : Waits(u)
  BY DEF Waits, Thread
<1>3. ForReceivers <= ForReceivers'
  <2>1. /\ Cardinality(Notifying(Sender)) <= Cardinality(Notifying(Sender)')
        /\ Cardinality(Retrying(Receiver)) <= Cardinality(Retrying(Receiver)')
    BY <1>1, SideCounts, FS_Subset
  <2> QED
    BY <2>1, Supplies, SideCounts DEF ForReceivers
<1>4. N \in Nat /\ H \in Nat /\ ForReceivers \in Nat /\ ForReceivers' \in Nat
  BY EndFacts, Supplies
<1> QED
  BY <1>2, <1>3, <1>4 DEF ReceiversWoken

\* The same for the senders.
LEMMA SendersFrame ==
  ASSUME TypeOK, EndsOK, SendersWoken, NEW t \in Thread,
         \A u \in Thread : u # t => pc'[u] = pc[u] /\ selected'[u] = selected[u],
         t \in Sender => (Waits(t)' => Waits(t)) /\ (Retries(t) => Retries(t)'),
         t \in Receiver => (Notifies(t) => Notifies(t)'),
         Marked(tail) => Marked(tail'), N' = N, H' = H
  PROVE  SendersWoken'
<1>1. Notifying(Receiver) \subseteq Notifying(Receiver)' /\ Retrying(Sender) \subseteq Retrying(Sender)'
  BY DEF Notifying, Retrying, Notifies, Retries, Thread
<1>2. (\E u \in Sender : Waits(u)') => \E u \in Sender : Waits(u)
  BY DEF Waits, Thread
<1>3. ForSenders <= ForSenders'
  <2>1. /\ Cardinality(Notifying(Receiver)) <= Cardinality(Notifying(Receiver)')
        /\ Cardinality(Retrying(Sender)) <= Cardinality(Retrying(Sender)')
    BY <1>1, SideCounts, FS_Subset
  <2> QED
    BY <2>1, Supplies, SideCounts DEF ForSenders
<1>4. N \in Nat /\ H \in Nat /\ Cap \in Nat /\ ForSenders \in Nat /\ ForSenders' \in Nat
  BY EndFacts, Supplies
<1> QED
  BY <1>2, <1>3, <1>4 DEF SendersWoken

\* Who waits on a disconnected channel still has somebody to wake it.
LEMMA AllWokenFrame ==
  ASSUME AllWoken, Marked(tail') => Marked(tail),
         \A u \in Thread : Waits(u)' /\ pc'[u] # "ready3" => Waits(u) /\ pc[u] # "ready3",
         \A u \in Thread : pc[u] \in {"wake_senders", "wake_receivers"} => pc'[u] = pc[u]
  PROVE  AllWoken'
<1> SUFFICES ASSUME NEW u \in Thread, Marked(tail'), Waits(u)', pc'[u] # "ready3"
             PROVE  \E v \in Thread : pc'[v] = "wake_senders"
                                      \/ (u \in Receiver /\ pc'[v] = "wake_receivers")
  BY DEF AllWoken
<1>1. PICK v \in Thread : pc[v] = "wake_senders" \/ (u \in Receiver /\ pc[v] = "wake_receivers")
  BY DEF AllWoken
<1> QED
  BY <1>1

\* What moves nobody's count, as most steps.
LEMMA WakeupsFrame ==
  ASSUME TypeOK, EndsOK, Wakeups, NEW t \in Thread,
         \A u \in Thread : u # t => pc'[u] = pc[u] /\ selected'[u] = selected[u],
         Waits(t)' => Waits(t) /\ (pc[t] = "ready3" => pc'[t] = "ready3" \/ ~Marked(tail)),
         Retries(t) => Retries(t)', Notifies(t) => Notifies(t)',
         pc[t] \notin {"wake_senders", "wake_receivers"}, UNCHANGED <<head, tail, log>>
  PROVE  Wakeups'
<1>1. N' = N /\ H' = H /\ (Marked(tail') <=> Marked(tail))
  BY DEF N, H
<1>2. ReceiversWoken' /\ SendersWoken'
  BY <1>1, ReceiversFrame, SendersFrame DEF Wakeups
<1>3. AllWoken'
  <2>1. CASE Marked(tail)
    <3>1. \A u \in Thread : Waits(u)' /\ pc'[u] # "ready3" => Waits(u) /\ pc[u] # "ready3"
      BY <2>1 DEF Waits
    <3> QED
      BY <1>1, <3>1, AllWokenFrame DEF Wakeups
  <2>2. CASE ~Marked(tail)
    BY <1>1, <2>2 DEF AllWoken
  <2> QED
    BY <2>1, <2>2
<1> QED
  BY <1>2, <1>3 DEF Wakeups

\* A sender that claims adds a message and will notify.
LEMMA ClaimSendWakeups ==
  ASSUME TypeOK, EndsOK, Wakeups, NEW t \in Sender, pc[t] = "claim", Goto(t, "access"),
         UNCHANGED selected, N' = N + 1, H' = H, ~Marked(tail), ~Marked(tail')
  PROVE  Wakeups'
<1>1. t \in Thread /\ t \notin Receiver /\ pc'[t] = "access"
      /\ \A u \in Thread : u # t => pc'[u] = pc[u]
  BY ChannelAssumption DEF Goto, TypeOK, Thread
<1>2. /\ Notifying(Sender) \union {t} \subseteq Notifying(Sender)' /\ t \notin Notifying(Sender)
      /\ Retrying(Receiver) \subseteq Retrying(Receiver)'
      /\ Notifying(Receiver) \subseteq Notifying(Receiver)'
      /\ Retrying(Sender) \ {t} \subseteq Retrying(Sender)'
  BY <1>1 DEF Notifying, Retrying, Notifies, Retries, Thread
<1>3. \A u \in Thread : Waits(u)' => Waits(u)
  BY <1>1 DEF Waits
<1>4. /\ Cardinality(Notifying(Sender)) + 1 <= Cardinality(Notifying(Sender)')
      /\ Cardinality(Retrying(Sender)) <= Cardinality(Retrying(Sender)') + 1
  BY <1>2, Counts, SideCounts
<1>5. /\ Cardinality(Retrying(Receiver)) <= Cardinality(Retrying(Receiver)')
      /\ Cardinality(Notifying(Receiver)) <= Cardinality(Notifying(Receiver)')
  BY <1>2, SideCounts, FS_Subset
<1>6. ForReceivers + 1 <= ForReceivers' /\ ForSenders <= ForSenders' + 1
  BY <1>4, <1>5, Supplies, SideCounts DEF ForReceivers, ForSenders
<1>7. N \in Nat /\ H \in Nat /\ Cap \in Nat
  BY EndFacts
<1>8. ReceiversWoken'
  BY <1>3, <1>6, <1>7, Supplies DEF Wakeups, ReceiversWoken, Thread
<1>9. SendersWoken'
  BY <1>3, <1>6, <1>7, Supplies DEF Wakeups, SendersWoken, Thread
<1> QED
  BY <1>8, <1>9 DEF Wakeups, AllWoken

\* A receiver that claims makes room and will notify.
LEMMA ClaimRecvWakeups ==
  ASSUME TypeOK, EndsOK, Wakeups, NEW t \in Receiver, pc[t] = "claim", Goto(t, "access"),
         UNCHANGED <<selected, tail>>, N' = N, H' = H + 1
  PROVE  Wakeups'
<1>1. t \in Thread /\ t \notin Sender /\ pc'[t] = "access"
      /\ \A u \in Thread : u # t => pc'[u] = pc[u]
  BY ChannelAssumption DEF Goto, TypeOK, Thread
<1>2. /\ Notifying(Receiver) \union {t} \subseteq Notifying(Receiver)' /\ t \notin Notifying(Receiver)
      /\ Retrying(Sender) \subseteq Retrying(Sender)'
      /\ Notifying(Sender) \subseteq Notifying(Sender)'
      /\ Retrying(Receiver) \ {t} \subseteq Retrying(Receiver)'
  BY <1>1 DEF Notifying, Retrying, Notifies, Retries, Thread
<1>3. \A u \in Thread : Waits(u)' => Waits(u) /\ pc'[u] = pc[u]
  BY <1>1 DEF Waits
<1>4. /\ Cardinality(Notifying(Receiver)) + 1 <= Cardinality(Notifying(Receiver)')
      /\ Cardinality(Retrying(Receiver)) <= Cardinality(Retrying(Receiver)') + 1
  BY <1>2, Counts, SideCounts
<1>5. /\ Cardinality(Retrying(Sender)) <= Cardinality(Retrying(Sender)')
      /\ Cardinality(Notifying(Sender)) <= Cardinality(Notifying(Sender)')
  BY <1>2, SideCounts, FS_Subset
<1>6. ForSenders + 1 <= ForSenders' /\ ForReceivers <= ForReceivers' + 1
  BY <1>4, <1>5, Supplies, SideCounts DEF ForReceivers, ForSenders
<1>7. N \in Nat /\ H \in Nat /\ Cap \in Nat
  BY EndFacts
<1>8. ReceiversWoken'
  BY <1>3, <1>6, <1>7, Supplies DEF Wakeups, ReceiversWoken, Thread
<1>9. SendersWoken'
  BY <1>3, <1>6, <1>7, Supplies DEF Wakeups, SendersWoken, Thread
<1>10. \A u \in Thread : pc[u] \in {"wake_senders", "wake_receivers"} => pc'[u] = pc[u]
  BY <1>1
<1>11. AllWoken'
  BY <1>3, <1>10, AllWokenFrame DEF Wakeups
<1> QED
  BY <1>8, <1>9, <1>11 DEF Wakeups

\* A full or an empty channel needs no notifier: the claims of a side hold
\* whatever t does, if nobody else moves.
LEMMA AtTheEnd ==
  ASSUME TypeOK, EndsOK, Wakeups, NEW t \in Thread,
         \A u \in Thread : u # t => pc'[u] = pc[u] /\ selected'[u] = selected[u],
         t \in Receiver => N = H, t \in Sender => N = H + Cap,
         ~Notifies(t), pc[t] \notin {"wake_senders", "wake_receivers"},
         Waits(t)' /\ Marked(tail) => pc'[t] = "ready3", UNCHANGED <<head, tail, log>>
  PROVE  Wakeups'
<1>1. N' = N /\ H' = H /\ (Marked(tail') <=> Marked(tail))
  BY DEF N, H
<1>2. N \in Nat /\ H \in Nat /\ Cap \in Nat
  BY EndFacts
<1>3. ReceiversWoken'
  <2>1. CASE t \in Receiver
    BY <1>1, <1>2, <2>1, Supplies DEF ReceiversWoken
  <2>2. CASE t \in Sender
    BY <1>1, <2>2, ChannelAssumption, ReceiversFrame DEF Wakeups
  <2> QED
    BY <2>1, <2>2 DEF Thread
<1>4. SendersWoken'
  <2>1. CASE t \in Sender
    BY <1>1, <1>2, <2>1, Supplies DEF SendersWoken
  <2>2. CASE t \in Receiver
    BY <1>1, <2>2, ChannelAssumption, SendersFrame DEF Wakeups
  <2> QED
    BY <2>1, <2>2 DEF Thread
<1>5. AllWoken'
  <2>1. CASE Marked(tail)
    <3>1. \A u \in Thread : Waits(u)' /\ pc'[u] # "ready3" => Waits(u) /\ pc[u] # "ready3"
      BY <2>1 DEF Waits
    <3> QED
      BY <1>1, <3>1, AllWokenFrame DEF Wakeups
  <2>2. CASE ~Marked(tail)
    BY <1>1, <2>2 DEF AllWoken
  <2> QED
    BY <2>1, <2>2
<1> QED
  BY <1>3, <1>4, <1>5 DEF Wakeups

\* notify() gives up only if nobody of the other side waits.
LEMMA GivesUp ==
  ASSUME TypeOK, EndsOK, Wakeups, NEW t \in Thread, Goto(t, "idle"), UNCHANGED selected,
         pc[t] \in {"notify", "select"}, UNCHANGED <<head, tail, log>>,
         \A u \in Thread : Side(u) # Side(t) => ~Waits(u)
  PROVE  Wakeups'
<1>1. pc'[t] = "idle" /\ \A u \in Thread : u # t => pc'[u] = pc[u] /\ selected'[u] = selected[u]
  BY DEF Goto, TypeOK
<1>2. N' = N /\ H' = H /\ (Marked(tail') <=> Marked(tail))
  BY DEF N, H
<1>3. ~Waits(t)' /\ ~Retries(t)
  BY <1>1 DEF Waits, Retries, Blocked
<1>4. \A u \in Thread : Waits(u)' => Waits(u) /\ pc'[u] = pc[u]
  BY <1>1, <1>3 DEF Waits
<1>5. ReceiversWoken'
  <2>1. CASE t \in Sender
    <3>1. \A u \in Receiver : ~Waits(u)'
      BY <1>4, <2>1, ChannelAssumption DEF Side, Thread, Senders, Receivers
    <3> QED
      BY <3>1 DEF ReceiversWoken
  <2>2. CASE t \notin Sender
    BY <1>1, <1>2, <1>3, <2>2, ReceiversFrame DEF Wakeups
  <2> QED
    BY <2>1, <2>2
<1>6. SendersWoken'
  <2>1. CASE t \in Receiver
    <3>1. \A u \in Sender : ~Waits(u)'
      BY <1>4, <2>1, ChannelAssumption DEF Side, Thread, Senders, Receivers
    <3> QED
      BY <3>1 DEF SendersWoken
  <2>2. CASE t \notin Receiver
    BY <1>1, <1>2, <1>3, <2>2, SendersFrame DEF Wakeups
  <2> QED
    BY <2>1, <2>2
<1>7. AllWoken'
  BY <1>1, <1>2, <1>4, AllWokenFrame DEF Wakeups
<1> QED
  BY <1>5, <1>6, <1>7 DEF Wakeups

\* Whom a notifier selects will look in its place.
LEMMA SelectWakeups ==
  ASSUME TypeOK, EndsOK, Queues, Wakeups, NEW t \in Thread, Select(t)
  PROVE  Wakeups'
<1>1. /\ pc[t] = "select" /\ Goto(t, "idle") /\ pc'[t] = "idle"
      /\ UNCHANGED <<head, tail, log>>
      /\ \A u \in Thread : u # t => pc'[u] = pc[u]
  BY DEF Select, Goto, TypeOK, ends, history
<1>2. CASE UNCHANGED wakers /\ \A u \in Thread : Side(u) # Side(t) => ~Waits(u)
  BY <1>1, <1>2, GivesUp DEF wakers
<1>3. ASSUME NEW v \in Thread, NEW f \in Entries(Side(v)),
             v # t, Side(v) = Other(t), selectors[Side(v)][f] = v, selected[v] = "waiting",
             selected' = [selected EXCEPT ![v] = "operation"]
      PROVE  Wakeups'
  <2>1. selected'[v] = "operation" /\ \A u \in Thread : u # v => selected'[u] = selected[u]
    BY <1>3 DEF TypeOK
  <2>2. pc[v] \in Blocked \union {"abort"} /\ pc'[v] = pc[v]
    <3>1. Queued(v)
      BY <1>3 DEF Queued
    <3>2. Registered(v) /\ pc[v] # "unregister"
      BY <1>3, <3>1 DEF Queues, MembersOK, UnregisterOK, UnregisterOf
    <3> QED
      BY <1>1, <1>3, <3>2 DEF Registered
  <2>3. N' = N /\ H' = H /\ (Marked(tail') <=> Marked(tail)) /\ N \in Nat /\ H \in Nat /\ Cap \in Nat
    BY <1>1, EndFacts DEF N, H
  <2>4. \A u \in Thread : Waits(u)' => Waits(u) /\ pc'[u] = pc[u]
    BY <1>1, <2>1 DEF Waits
  <2>5. ~Retries(v) /\ Retries(v)' /\ ~Notifies(v) /\ ~Retries(t) /\ Notifies(t)
    BY <1>1, <1>3, <2>1, <2>2 DEF Retries, Notifies, Blocked
  <2>6. \A u \in Thread : /\ Retries(u) => Retries(u)'
                          /\ u # t /\ Notifies(u) => Notifies(u)'
    BY <1>1, <2>1, <2>5 DEF Retries, Notifies
  <2>7. ForReceivers <= ForReceivers' /\ ForSenders <= ForSenders'
    <3>1. CASE t \in Sender
      <4>1. v \in Receiver /\ v \notin Sender /\ t \notin Receiver
        BY <1>3, <3>1, ChannelAssumption DEF Side, Other, Thread, Senders, Receivers
      <4>2. /\ Notifying(Sender) \ {t} \subseteq Notifying(Sender)'
            /\ Retrying(Receiver) \union {v} \subseteq Retrying(Receiver)' /\ v \notin Retrying(Receiver)
            /\ Notifying(Receiver) \subseteq Notifying(Receiver)'
            /\ Retrying(Sender) \subseteq Retrying(Sender)'
        BY <2>5, <2>6, <4>1 DEF Notifying, Retrying, Thread
      <4>3. /\ Cardinality(Notifying(Sender)) <= Cardinality(Notifying(Sender)') + 1
            /\ Cardinality(Retrying(Receiver)) + 1 <= Cardinality(Retrying(Receiver)')
        <5>1. t \in Sender /\ v \in Receiver
          BY <3>1, <4>1
        <5>2. Cardinality(Notifying(Sender)) <= Cardinality(Notifying(Sender)') + 1
          BY <4>2, <5>1, Counts, SideCounts
        <5>3. Cardinality(Retrying(Receiver)) + 1 <= Cardinality(Retrying(Receiver)')
          BY <4>2, <5>1, Counts, SideCounts
        <5> QED
          BY <5>2, <5>3
      <4>4. /\ Cardinality(Retrying(Sender)) <= Cardinality(Retrying(Sender)')
            /\ Cardinality(Notifying(Receiver)) <= Cardinality(Notifying(Receiver)')
        BY <4>2, SideCounts, FS_Subset
      <4> QED
        BY <4>3, <4>4, Supplies, SideCounts DEF ForReceivers, ForSenders
    <3>2. CASE t \in Receiver
      <4>1. v \in Sender /\ v \notin Receiver /\ t \notin Sender
        BY <1>3, <3>2, ChannelAssumption DEF Side, Other, Thread, Senders, Receivers
      <4>2. /\ Notifying(Receiver) \ {t} \subseteq Notifying(Receiver)'
            /\ Retrying(Sender) \union {v} \subseteq Retrying(Sender)' /\ v \notin Retrying(Sender)
            /\ Notifying(Sender) \subseteq Notifying(Sender)'
            /\ Retrying(Receiver) \subseteq Retrying(Receiver)'
        BY <2>5, <2>6, <4>1 DEF Notifying, Retrying, Thread
      <4>3. /\ Cardinality(Notifying(Receiver)) <= Cardinality(Notifying(Receiver)') + 1
            /\ Cardinality(Retrying(Sender)) + 1 <= Cardinality(Retrying(Sender)')
        <5>1. t \in Receiver /\ v \in Sender
          BY <3>2, <4>1
        <5>2. Cardinality(Notifying(Receiver)) <= Cardinality(Notifying(Receiver)') + 1
          BY <4>2, <5>1, Counts, SideCounts
        <5>3. Cardinality(Retrying(Sender)) + 1 <= Cardinality(Retrying(Sender)')
          BY <4>2, <5>1, Counts, SideCounts
        <5> QED
          BY <5>2, <5>3
      <4>4. /\ Cardinality(Retrying(Receiver)) <= Cardinality(Retrying(Receiver)')
            /\ Cardinality(Notifying(Sender)) <= Cardinality(Notifying(Sender)')
        BY <4>2, SideCounts, FS_Subset
      <4> QED
        BY <4>3, <4>4, Supplies, SideCounts DEF ForReceivers, ForSenders
    <3> QED
      BY <3>1, <3>2 DEF Thread
  <2>8. ReceiversWoken'
    BY <2>3, <2>4, <2>7, Supplies DEF Wakeups, ReceiversWoken, Thread
  <2>9. SendersWoken'
    BY <2>3, <2>4, <2>7, Supplies DEF Wakeups, SendersWoken, Thread
  <2>10. \A u \in Thread : pc[u] \in {"wake_senders", "wake_receivers"} => pc'[u] = pc[u]
    BY <1>1
  <2>11. AllWoken'
    BY <2>3, <2>4, <2>10, AllWokenFrame DEF Wakeups
  <2> QED
    BY <2>8, <2>9, <2>11 DEF Wakeups
<1> QED
  BY <1>2, <1>3, SelectIs

\* The thread that sets the mark bit wakes both sides, the senders first.
LEMMA DisconnectWakeups ==
  ASSUME TypeOK, EndsOK, Queues, Wakeups, NEW t \in Thread, Mark(t) \/ Disconnect(t),
         Disconnect(t) => Marked(tail)
  PROVE  Wakeups'
<1>1. Marked(tail')
  <2>1. Unmarked(tail) = Enc(N) /\ Marked(Enc(N) + MarkBit)
    BY EndFacts, EncFields
  <2> QED
    BY <2>1 DEF Mark, Disconnect, ends
<1>2. ReceiversWoken' /\ SendersWoken'
  BY <1>1 DEF ReceiversWoken, SendersWoken
<1>3. AllWoken'
  <2>1. CASE Mark(t) /\ ~Marked(tail)
    <3>1. pc'[t] = "wake_senders"
      BY <2>1 DEF Mark, Goto, TypeOK
    <3> QED
      BY <3>1 DEF AllWoken
  <2>2. CASE Mark(t) /\ Marked(tail)
    <3>1. /\ pc[t] = "mark" /\ pc'[t] = "destroy" /\ selected' = selected
          /\ \A u \in Thread : u # t => pc'[u] = pc[u]
      BY <2>2 DEF Mark, Goto, TypeOK, wakers
    <3>2. \A u \in Thread : Waits(u)' => Waits(u) /\ pc'[u] = pc[u]
      BY <3>1 DEF Waits
    <3>3. \A u \in Thread : pc[u] \in {"wake_senders", "wake_receivers"} => pc'[u] = pc[u]
      BY <3>1
    <3> QED
      BY <2>2, <3>2, <3>3, AllWokenFrame DEF Wakeups
  <2>3. CASE Disconnect(t)
    <3> DEFINE s == IF pc[t] = "wake_senders" THEN Senders ELSE Receivers
    <3>1. /\ pc[t] \in {"wake_senders", "wake_receivers"}
          /\ pc'[t] = IF pc[t] = "wake_senders" THEN "wake_receivers" ELSE "destroy"
          /\ \A u \in Thread : u # t => pc'[u] = pc[u]
      BY <2>3 DEF Disconnect, Goto, TypeOK
    <3>2. s \in {Senders, Receivers} /\ DisconnectWaker(s)
      BY <2>3 DEF Disconnect
    <3>3. \A u \in Thread : /\ selected'[u] = "waiting" => selected[u] = "waiting"
                            /\ Side(u) = s /\ Queued(u) => selected'[u] # "waiting"
      BY <3>2, DisconnectIs
    <3> SUFFICES ASSUME NEW u \in Thread, Waits(u)', pc'[u] # "ready3"
                 PROVE  \E v \in Thread : pc'[v] = "wake_senders"
                                          \/ (u \in Receiver /\ pc'[v] = "wake_receivers")
      BY DEF AllWoken
    <3>4. u # t /\ pc'[u] = pc[u] /\ Waits(u) /\ pc[u] # "ready3"
      BY <3>1, <3>3 DEF Waits
    <3>5. Queued(u)
      BY <3>4 DEF Queues, MembersOK, Registered, Waits, Blocked
    <3>6. Side(u) # s
      BY <3>3, <3>5 DEF Waits
    <3>7. CASE pc[t] = "wake_senders"
      <4>1. u \in Receiver
        BY <3>6, <3>7 DEF Side, Thread
      <4> QED
        BY <3>1, <3>7, <4>1
    <3>8. CASE pc[t] = "wake_receivers"
      <4>1. u \in Sender /\ u \notin Receiver
        BY <3>6, <3>8, ChannelAssumption DEF Side, Thread
      <4>2. PICK v \in Thread : pc[v] = "wake_senders"
        BY <2>3, <3>4, <4>1 DEF Wakeups, AllWoken
      <4> QED
        BY <3>1, <3>8, <4>2
    <3> QED
      BY <3>1, <3>7, <3>8
  <2> QED
    BY <2>1, <2>2, <2>3
<1> QED
  BY <1>2, <1>3 DEF Wakeups

----------------------------------------------------------------------------
(* Every action keeps the invariant *)

\* As long as somebody is there the channel is.
LEMMA NotFreed ==
  ASSUME IInv, NEW t \in Thread, pc[t] # "gone"
  PROVE  ~freed /\ dropped = {} /\ (UNCHANGED <<freed, dropped>> => FreedOK')
BY DEF IInv, FreedOK

\* Steps that only move a thread and load into its local variables.
LEMMA QuietStep ==
  ASSUME IInv, NEW t \in Thread, NEW l \in Places, Goto(t, l),
         UNCHANGED <<modes, head, tail, stamp, slot, wakers, refs, history>>,
         mode' \in [Thread -> {"try", "block", "timed"}],
         loc' \in [Thread -> Nat], aux' \in [Thread -> Nat],
         pc[t] \notin Leaving, pc[t] # "gone", l \notin Leaving, l # "gone",
         l = "closed" /\ t \in Receiver => Marked(tail) /\ H = N,
         Registered(t)' <=> Registered(t), UnregisterOf(t)', TokenOf(t)',
         Ring', Wakeups'
  PROVE  IInv'
<1>1. /\ UNCHANGED <<selectors, is_empty, selected, token, handles, destroy, freed>>
      /\ UNCHANGED <<log, got, dropped>>
  BY DEF wakers, refs, history
<1>2. \A u \in Thread : u # t => pc'[u] = pc[u]
  BY DEF Goto, IInv, TypeOK
<1>3. TypeOK'
  <2>1. pc' \in [Thread -> Places]
    BY DEF IInv, TypeOK, Goto
  <2> QED
    BY <1>1, <2>1, Zenon DEF IInv, TypeOK
<1>4. H' = H /\ N' = N /\ (Marked(tail') <=> Marked(tail))
  BY <1>1 DEF H, N
<1>5. Counter'
  BY <1>1, <1>4, CounterFrame DEF IInv
<1>6. Queues'
  BY <1>1, <1>2, QueueFrame DEF IInv
<1>7. FreedOK'
  BY <1>1, NotFreed
<1> QED
  BY <1>3, <1>5, <1>6, <1>7 DEF IInv

\* The return of a call and the mode of the next one are among the modes.
LEMMA ModeType ==
  ASSUME TypeOK, NEW t \in Thread, Return(t) \/ UNCHANGED mode \/ \E m \in modes : mode' = [mode EXCEPT ![t] = m]
  PROVE  mode' \in [Thread -> {"try", "block", "timed"}]
BY DEF TypeOK, Return

\* A call starts.
LEMMA CallInv ==
  ASSUME IInv, NEW t \in Thread, Call(t), UNCHANGED modes
  PROVE  IInv'
<1>1. /\ pc[t] = "idle" /\ Goto(t, "load") /\ UNCHANGED <<head, tail, stamp, slot, loc, aux>>
      /\ UNCHANGED <<wakers, refs, history>>
  BY DEF Call, ends, slots
<1>2. pc'[t] = "load" /\ \A u \in Thread : u # t => pc'[u] = pc[u]
  BY <1>1 DEF Goto, IInv, TypeOK
<1>3. UNCHANGED <<selected, token, log, got, freed>>
  BY <1>1 DEF wakers, refs, history
<1>4. t \in Sender => SentBy(t) < MaxSends
  <2>1. t \in Sender => N < MaxSends /\ N \in Nat
    BY DEF Call, N, IInv, TypeOK
  <2> QED
    BY <2>1, SentByType, ChannelAssumption DEF IInv
<1>5. Ring'
  BY <1>1, <1>3, <1>4, RingFrame DEF IInv, InFlight, InCall
<1>6. (Registered(t)' <=> Registered(t)) /\ UnregisterOf(t)' /\ TokenOf(t)'
  BY <1>1, <1>2 DEF Registered, UnregisterOf, TokenOf, Blocked
<1>7. Wakeups'
  <2>1. ~Waits(t)' /\ ~Retries(t) /\ ~Notifies(t)
    BY <1>1, <1>2 DEF Waits, Retries, Notifies, Blocked
  <2> QED
    BY <1>1, <1>2, <1>3, <2>1, WakeupsFrame DEF IInv, Ring
<1>8. mode' \in [Thread -> {"try", "block", "timed"}] /\ loc' \in [Thread -> Nat] /\ aux' \in [Thread -> Nat]
  BY <1>1, ModeType DEF Call, IInv, TypeOK
<1> QED
  BY <1>1, <1>5, <1>6, <1>7, <1>8, QuietStep DEF Places, Leaving

\* A step moves its thread and no other.
LEMMA Moves ==
  ASSUME IInv, NEW t \in Thread, NEW l, Goto(t, l)
  PROVE  pc'[t] = l /\ \A u \in Thread : u # t => pc'[u] = pc[u]
BY DEF Goto, IInv, TypeOK

\* A thread in a call may still send.
LEMMA Budget ==
  ASSUME IInv, NEW t \in Thread, pc[t] \in Calling
  PROVE  t \in Sender => SentBy(t) < MaxSends
BY DEF IInv, Ring, BudgetOK

\* tail or head is loaded.
LEMMA LoadInv ==
  ASSUME IInv, NEW t \in Thread, Load(t), UNCHANGED modes
  PROVE  IInv'
<1>1. PICK l \in {"closed", "inspect"} : Goto(t, l) /\ (l = "closed" => t \in Sender /\ Marked(tail))
  BY Zenon DEF Load
<1>2. /\ pc[t] = "load" /\ UNCHANGED <<head, tail, stamp, slot, mode, aux>>
      /\ UNCHANGED <<wakers, refs, history>> /\ loc' \in [Thread -> Nat]
  BY DEF Load, ends, slots, Keep, IInv, TypeOK
<1>3. pc'[t] = l /\ \A u \in Thread : u # t => pc'[u] = pc[u]
  BY <1>1, Moves
<1>4. UNCHANGED <<selected, token, log, got, freed>>
  BY <1>2 DEF wakers, refs, history
<1>5. Ring'
  BY LoadRing DEF IInv
<1>6. (Registered(t)' <=> Registered(t)) /\ UnregisterOf(t)' /\ TokenOf(t)'
  BY <1>2, <1>3 DEF Registered, UnregisterOf, TokenOf, Blocked
<1>7. Wakeups'
  <2>1. ~Waits(t)' /\ ~Waits(t) /\ ~Notifies(t)
    BY <1>2, <1>3 DEF Waits, Notifies, Blocked
  <2>2. CASE l = "inspect"
    <3>1. Retries(t)'
      BY <1>3, <2>2 DEF Retries
    <3> QED
      BY <1>2, <1>3, <1>4, <2>1, <3>1, WakeupsFrame DEF IInv, Ring
  <2>3. CASE l = "closed"
    <3>1. Marked(tail')
      BY <1>1, <1>2, <2>3
    <3>2. AllWoken'
      BY <1>2, <1>3, <1>4, <2>1, AllWokenFrame DEF IInv, Wakeups, Waits
    <3> QED
      BY <3>1, <3>2 DEF Wakeups, ReceiversWoken, SendersWoken
  <2> QED
    BY <2>2, <2>3
<1>8. mode' \in [Thread -> {"try", "block", "timed"}] /\ aux' \in [Thread -> Nat]
  BY <1>2 DEF IInv, TypeOK
<1>9. l = "closed" /\ t \in Receiver => FALSE
  BY <1>1, ChannelAssumption
<1> QED
  BY <1>1, <1>2, <1>5, <1>6, <1>7, <1>8, <1>9, QuietStep DEF Places, Leaving

\* The stamp of the slot is loaded.
LEMMA InspectInv ==
  ASSUME IInv, NEW t \in Thread, Inspect(t), UNCHANGED modes
  PROVE  IInv'
<1>1. PICK l \in {"claim", "probe", "load"} : Goto(t, l)
  BY Zenon DEF Inspect
<1>2. /\ pc[t] = "inspect" /\ UNCHANGED <<head, tail, stamp, slot, mode, loc, aux>>
      /\ UNCHANGED <<wakers, refs, history>>
  BY DEF Inspect, ends, slots
<1>3. pc'[t] = l /\ \A u \in Thread : u # t => pc'[u] = pc[u]
  BY <1>1, Moves
<1>4. UNCHANGED <<selected, token, log, got, freed>>
  BY <1>2 DEF wakers, refs, history
<1>5. Ring'
  BY InspectRing DEF IInv
<1>6. (Registered(t)' <=> Registered(t)) /\ UnregisterOf(t)' /\ TokenOf(t)'
  BY <1>2, <1>3 DEF Registered, UnregisterOf, TokenOf, Blocked
<1>7. Wakeups'
  <2>1. ~Waits(t)' /\ ~Notifies(t) /\ Retries(t)'
    BY <1>2, <1>3 DEF Waits, Notifies, Retries, Blocked
  <2> QED
    BY <1>2, <1>3, <1>4, <2>1, WakeupsFrame DEF IInv, Ring
<1>8. /\ mode' \in [Thread -> {"try", "block", "timed"}]
      /\ loc' \in [Thread -> Nat] /\ aux' \in [Thread -> Nat]
  BY <1>2 DEF IInv, TypeOK
<1> QED
  BY <1>1, <1>2, <1>5, <1>6, <1>7, <1>8, QuietStep DEF Places, Leaving

\* The other end is loaded: when it says full or empty, the channel is.
LEMMA ProbeInv ==
  ASSUME IInv, NEW t \in Thread, Probe(t), UNCHANGED modes
  PROVE  IInv'
<1> DEFINE AtEnd == (t \in Receiver => N = H) /\ (t \in Sender => N = H + Cap)
<1>1. PICK l \in {"idle", "register", "load", "closed"} :
        /\ Goto(t, l)
        /\ l = "load" \/ (t \in Sender /\ head + OneLap = loc[t]) \/ (t \in Receiver /\ Unmarked(tail) = loc[t])
        /\ l = "closed" => t \in Receiver /\ Marked(tail)
  <2> DEFINE D == CASE t \in Sender /\ head + OneLap = loc[t] -> NotReady(t)
                    [] t \in Receiver /\ Unmarked(tail) = loc[t] /\ Marked(tail) -> {"closed"}
                    [] t \in Receiver /\ Unmarked(tail) = loc[t] /\ ~Marked(tail) -> NotReady(t)
                    [] OTHER -> {"load"}
  <2>1. PICK l \in D : Goto(t, l)
    BY Zenon DEF Probe, Goto
  <2>2. \A x \in NotReady(t) : x \in {"idle", "register", "load"}
    BY DEF NotReady
  <2> QED
    BY <2>1, <2>2, ChannelAssumption
<1>2. /\ pc[t] = "probe" /\ UNCHANGED <<head, tail, stamp, slot, aux>>
      /\ UNCHANGED <<wakers, refs, history>> /\ loc' \in [Thread -> Nat]
      /\ \A u \in Thread : u # t => loc'[u] = loc[u] /\ aux'[u] = aux[u]
  BY DEF Probe, ends, slots, Keep, IInv, TypeOK
<1>3. pc'[t] = l /\ \A u \in Thread : u # t => pc'[u] = pc[u]
  BY <1>1, Moves
<1>4. UNCHANGED <<selected, token, log, got, freed>>
  BY <1>2 DEF wakers, refs, history
<1>5. l # "load" => AtEnd
  <2>1. /\ N \in Nat /\ H \in Nat /\ Cap \in Nat \ {0} /\ head = Enc(H) /\ N <= H + Cap /\ H <= N
        /\ Unmarked(tail) = Enc(N)
    BY EndFacts DEF IInv, Ring, EndsOK
  <2>2. /\ At(t) \in Nat /\ loc[t] = Enc(At(t))
        /\ t \in Sender => At(t) <= N
        /\ t \in Receiver => At(t) <= H
    BY <1>2 DEF IInv, Ring, LocOK, LocOf, InCall
  <2>3. CASE t \in Sender /\ head + OneLap = loc[t]
    <3>1. Enc(H + Cap) = Enc(At(t)) /\ H + Cap \in Nat
      BY <2>1, <2>2, <2>3, EncLap
    <3>2. H + Cap = At(t)
      BY <2>2, <3>1, EncDiffer
    <3> QED
      BY <2>1, <2>2, <2>3, <3>2, ChannelAssumption
  <2>4. CASE t \in Receiver /\ Unmarked(tail) = loc[t]
    <3>1. N = At(t)
      BY <2>1, <2>2, <2>4, EncDiffer
    <3> QED
      BY <2>1, <2>2, <2>4, <3>1, ChannelAssumption
  <2> QED
    BY <1>1, <2>3, <2>4
<1>6. Ring'
  <2>1. t \in Sender /\ l \in Calling => SentBy(t) < MaxSends
    BY <1>2, Budget DEF Calling
  <2> QED
    BY <1>1, <1>2, <1>4, <2>1, RingFrame DEF IInv, InFlight, InCall
<1>7. (Registered(t)' <=> Registered(t)) /\ UnregisterOf(t)' /\ TokenOf(t)'
  BY <1>2, <1>3 DEF Registered, UnregisterOf, TokenOf, Blocked
<1>8. Wakeups'
  <2>1. ~Waits(t)' /\ ~Notifies(t)
    BY <1>2, <1>3 DEF Waits, Notifies
  <2>2. CASE l = "load"
    <3>1. Retries(t)'
      BY <1>3, <2>2 DEF Retries
    <3> QED
      BY <1>2, <1>3, <1>4, <2>1, <3>1, WakeupsFrame DEF IInv, Ring
  <2>3. CASE l # "load"
    BY <1>2, <1>3, <1>4, <1>5, <2>1, <2>3, AtTheEnd DEF IInv, Ring
  <2> QED
    BY <2>2, <2>3
<1>9. mode' \in [Thread -> {"try", "block", "timed"}] /\ aux' \in [Thread -> Nat]
  BY <1>2, ModeType DEF IInv, TypeOK, Probe
<1>10. l = "closed" /\ t \in Receiver => Marked(tail) /\ H = N
  BY <1>1, <1>5
<1> QED
  BY <1>1, <1>2, <1>6, <1>7, <1>8, <1>9, <1>10, QuietStep DEF Places, Leaving

\* A notifier that finds nobody registered leaves; nobody on the other side
\* waits then.
LEMMA NotifyInv ==
  ASSUME IInv, NEW t \in Thread, Notify(t), UNCHANGED modes
  PROVE  IInv'
<1>1. PICK l \in {"idle", "select"} : Goto(t, l) /\ (l = "idle" => is_empty[Other(t)])
  BY Zenon DEF Notify
<1>2. /\ pc[t] = "notify" /\ UNCHANGED <<head, tail, stamp, slot, loc, aux>>
      /\ UNCHANGED <<wakers, refs, history>>
  BY DEF Notify, ends, slots
<1>3. pc'[t] = l /\ \A u \in Thread : u # t => pc'[u] = pc[u]
  BY <1>1, Moves
<1>4. UNCHANGED <<selected, token, log, got, freed>>
  BY <1>2 DEF wakers, refs, history
<1>5. Ring'
  <2>1. l \notin Calling
    BY DEF Calling
  <2> QED
    BY <1>1, <1>2, <1>4, <2>1, RingFrame DEF IInv, InFlight, InCall
<1>6. (Registered(t)' <=> Registered(t)) /\ UnregisterOf(t)' /\ TokenOf(t)'
  BY <1>2, <1>3 DEF Registered, UnregisterOf, TokenOf, Blocked
<1>7. Wakeups'
  <2>1. CASE l = "select"
    <3>1. ~Waits(t)' /\ Notifies(t)' /\ ~Retries(t)
      BY <1>2, <1>3, <2>1 DEF Waits, Notifies, Retries, Blocked
    <3> QED
      BY <1>2, <1>3, <1>4, <3>1, WakeupsFrame DEF IInv, Ring
  <2>2. CASE l = "idle"
    <3>1. selectors[Other(t)] = <<>>
      BY <1>1, <2>2, Zenon DEF IInv, Queues, FlagOK, Other
    <3>2. \A u \in Thread : Side(u) # Side(t) => ~Waits(u)
      <4> SUFFICES ASSUME NEW u \in Thread, Side(u) # Side(t), Waits(u)
                   PROVE  FALSE
        OBVIOUS
      <4>1. Registered(u)
        BY DEF Waits, Registered, Blocked
      <4>2. Queued(u) /\ Side(u) = Other(t)
        BY <4>1 DEF IInv, Queues, MembersOK, Side, Other
      <4> QED
        BY <3>1, <4>2 DEF Queued, Entries
    <3> QED
      BY <1>1, <1>2, <1>4, <2>2, <3>2, GivesUp DEF IInv, Ring
  <2> QED
    BY <2>1, <2>2
<1>8. /\ mode' \in [Thread -> {"try", "block", "timed"}]
      /\ loc' \in [Thread -> Nat] /\ aux' \in [Thread -> Nat]
  BY <1>2, ModeType DEF IInv, TypeOK, Notify
<1> QED
  BY <1>1, <1>2, <1>5, <1>6, <1>7, <1>8, QuietStep DEF Places, Leaving

\* is_full or is_empty loads its first end.
LEMMA FirstLoadInv ==
  ASSUME IInv, NEW t \in Thread, FirstLoad(t), UNCHANGED modes
  PROVE  IInv'
<1>1. /\ pc[t] = "ready1" /\ Goto(t, "ready2") /\ UNCHANGED <<head, tail, stamp, slot, mode, loc>>
      /\ UNCHANGED <<wakers, refs, history>> /\ aux' \in [Thread -> Nat]
  BY DEF FirstLoad, ends, slots, IInv, TypeOK
<1>2. pc'[t] = "ready2" /\ \A u \in Thread : u # t => pc'[u] = pc[u]
  BY <1>1, Moves
<1>3. UNCHANGED <<selected, token, log, got, freed>>
  BY <1>1 DEF wakers, refs, history
<1>4. Ring'
  BY FirstLoadRing DEF IInv
<1>5. (Registered(t)' <=> Registered(t)) /\ UnregisterOf(t)' /\ TokenOf(t)'
  BY <1>1, <1>2, <1>3 DEF Registered, UnregisterOf, TokenOf, Blocked
<1>6. Wakeups'
  <2>1. ~Waits(t)' /\ ~Notifies(t) /\ (Retries(t) => Retries(t)')
    BY <1>1, <1>2, <1>3 DEF Waits, Notifies, Retries, Blocked
  <2> QED
    BY <1>1, <1>2, <1>3, <2>1, WakeupsFrame DEF IInv, Ring
<1>7. mode' \in [Thread -> {"try", "block", "timed"}] /\ loc' \in [Thread -> Nat]
  BY <1>1 DEF IInv, TypeOK
<1> QED
  BY <1>1, <1>4, <1>5, <1>6, <1>7, QuietStep DEF Places, Leaving

\* It loads the second.  The end loaded first was where it was or further
\* back, so the channel is really full or empty when the two say so.
LEMMA SecondLoadInv ==
  ASSUME IInv, NEW t \in Thread, SecondLoad(t), UNCHANGED modes
  PROVE  IInv'
<1> DEFINE AtEnd == (t \in Receiver => N = H) /\ (t \in Sender => N = H + Cap)
<1>1. PICK l \in {"ready3", "abort"} :
        /\ Goto(t, l)
        /\ l = "ready3" => IF t \in Sender THEN head + OneLap = Unmarked(aux[t])
                                           ELSE Unmarked(tail) = aux[t]
  BY Zenon DEF SecondLoad
<1>2. /\ pc[t] = "ready2" /\ UNCHANGED <<head, tail, stamp, slot, mode, loc>>
      /\ UNCHANGED <<wakers, refs, history>> /\ aux' \in [Thread -> Nat]
      /\ \A u \in Thread : u # t => loc'[u] = loc[u] /\ aux'[u] = aux[u]
  BY DEF SecondLoad, ends, slots, IInv, TypeOK
<1>3. pc'[t] = l /\ \A u \in Thread : u # t => pc'[u] = pc[u]
  BY <1>1, Moves
<1>4. UNCHANGED <<selected, token, log, got, freed>>
  BY <1>2 DEF wakers, refs, history
<1>5. l = "ready3" => AtEnd
  <2> HAVE l = "ready3"
  <2>1. /\ N \in Nat /\ H \in Nat /\ Cap \in Nat \ {0} /\ head = Enc(H) /\ N <= H + Cap /\ H <= N
        /\ Unmarked(tail) = Enc(N)
    BY EndFacts DEF IInv, Ring, EndsOK
  <2>2. AuxOf(t)
    BY DEF IInv, Ring, AuxOK
  <2>3. CASE t \in Sender
    <3>1. PICK k \in 0..N : Unmarked(aux[t]) = Enc(k)
      BY <1>2, <2>2, <2>3 DEF AuxOf
    <3>2. Enc(H + Cap) = Enc(k) /\ H + Cap \in Nat /\ k \in Nat
      BY <1>1, <2>1, <2>3, <3>1, EncLap
    <3>3. H + Cap = k
      BY <3>2, EncDiffer
    <3> QED
      BY <2>1, <2>3, <3>1, <3>3, ChannelAssumption
  <2>4. CASE t \in Receiver
    <3>1. PICK k \in 0..H : aux[t] = Enc(k)
      BY <1>2, <2>2, <2>4 DEF AuxOf
    <3>2. N = k
      BY <1>1, <2>1, <2>4, <3>1, EncDiffer, ChannelAssumption
    <3> QED
      BY <2>1, <2>4, <3>1, <3>2, ChannelAssumption
  <2> QED
    BY <2>3, <2>4 DEF Thread
<1>6. Ring'
  <2>1. t \in Sender /\ l \in Calling => SentBy(t) < MaxSends
    BY <1>2, Budget DEF Calling
  <2> QED
    BY <1>1, <1>2, <1>4, <2>1, RingFrame DEF IInv, InFlight, InCall
<1>7. (Registered(t)' <=> Registered(t)) /\ UnregisterOf(t)' /\ TokenOf(t)'
  BY <1>2, <1>3, <1>4 DEF Registered, UnregisterOf, TokenOf, Blocked
<1>8. Wakeups'
  <2>1. ~Notifies(t) /\ (l = "abort" => ~Waits(t)') /\ (Retries(t) => Retries(t)')
    BY <1>2, <1>3, <1>4 DEF Waits, Notifies, Retries, Blocked
  <2>2. CASE l = "abort"
    BY <1>2, <1>3, <1>4, <2>1, <2>2, WakeupsFrame DEF IInv, Ring
  <2>3. CASE l = "ready3"
    BY <1>2, <1>3, <1>4, <1>5, <2>1, <2>3, AtTheEnd DEF IInv, Ring
  <2> QED
    BY <2>2, <2>3
<1>9. mode' \in [Thread -> {"try", "block", "timed"}] /\ loc' \in [Thread -> Nat]
  BY <1>2 DEF IInv, TypeOK
<1> QED
  BY <1>1, <1>2, <1>6, <1>7, <1>8, <1>9, QuietStep DEF Places, Leaving

\* Then it looks at the mark bit.
LEMMA IsDisconnectedInv ==
  ASSUME IInv, NEW t \in Thread, IsDisconnected(t), UNCHANGED modes
  PROVE  IInv'
<1>1. PICK l \in {"wait", "abort"} : Goto(t, l) /\ (l = "abort" <=> Marked(tail))
  BY Zenon DEF IsDisconnected
<1>2. /\ pc[t] = "ready3" /\ UNCHANGED <<head, tail, stamp, slot, mode, loc, aux>>
      /\ UNCHANGED <<wakers, refs, history>>
  BY DEF IsDisconnected, ends, slots
<1>3. pc'[t] = l /\ \A u \in Thread : u # t => pc'[u] = pc[u]
  BY <1>1, Moves
<1>4. UNCHANGED <<selected, token, log, got, freed>>
  BY <1>2 DEF wakers, refs, history
<1>5. Ring'
  <2>1. t \in Sender /\ l \in Calling => SentBy(t) < MaxSends
    BY <1>2, Budget DEF Calling
  <2> QED
    BY <1>1, <1>2, <1>4, <2>1, RingFrame DEF IInv, InFlight, InCall
<1>6. (Registered(t)' <=> Registered(t)) /\ UnregisterOf(t)' /\ TokenOf(t)'
  BY <1>2, <1>3, <1>4 DEF Registered, UnregisterOf, TokenOf, Blocked
<1>7. Wakeups'
  <2>1. CASE l = "wait"
    <3>1. ~Notifies(t) /\ (Waits(t)' => Waits(t)) /\ (Retries(t) => Retries(t)')
      BY <1>2, <1>3, <1>4, <2>1 DEF Waits, Notifies, Retries, Blocked
    <3> QED
      BY <1>1, <1>2, <1>3, <1>4, <2>1, <3>1, WakeupsFrame DEF IInv, Ring
  <2>2. CASE l = "abort"
    <3>1. Marked(tail')
      BY <1>1, <1>2, <2>2
    <3>2. AllWoken'
      BY <1>2, <1>3, <1>4, <2>2, AllWokenFrame DEF IInv, Wakeups, Waits
    <3> QED
      BY <3>1, <3>2 DEF Wakeups, ReceiversWoken, SendersWoken
  <2> QED
    BY <2>1, <2>2
<1>8. /\ mode' \in [Thread -> {"try", "block", "timed"}]
      /\ loc' \in [Thread -> Nat] /\ aux' \in [Thread -> Nat]
  BY <1>2 DEF IInv, TypeOK
<1> QED
  BY <1>1, <1>2, <1>5, <1>6, <1>7, <1>8, QuietStep DEF Places, Leaving

\* wait_until looks at the selection.
LEMMA WaitUntilInv ==
  ASSUME IInv, NEW t \in Thread, WaitUntil(t), UNCHANGED modes
  PROVE  IInv'
<1>1. PICK l \in {"park", "load", "unregister"} :
        /\ Goto(t, l) /\ (l = "park" <=> selected[t] = "waiting")
        /\ l = "load" <=> selected[t] = "operation"
  <2>1. AfterWait(selected[t]) \in {"load", "unregister"} /\ (AfterWait(selected[t]) = "load" <=> selected[t] = "operation")
    BY DEF AfterWait
  <2> QED
    BY <2>1 DEF WaitUntil
<1>2. /\ pc[t] = "wait" /\ UNCHANGED <<head, tail, stamp, slot, mode, loc, aux>>
      /\ UNCHANGED <<wakers, refs, history>>
  BY DEF WaitUntil, ends, slots
<1>3. pc'[t] = l /\ \A u \in Thread : u # t => pc'[u] = pc[u]
  BY <1>1, Moves
<1>4. UNCHANGED <<selected, token, log, got, freed>>
  BY <1>2 DEF wakers, refs, history
<1>5. Ring'
  <2>1. t \in Sender /\ l \in Calling => SentBy(t) < MaxSends
    BY <1>2, Budget DEF Calling
  <2> QED
    BY <1>1, <1>2, <1>4, <2>1, RingFrame DEF IInv, InFlight, InCall
<1>6. (Registered(t)' <=> Registered(t)) /\ UnregisterOf(t)' /\ TokenOf(t)'
  <2>1. selected[t] \in {"waiting", "aborted", "disconnected", "operation"}
    BY DEF IInv, TypeOK
  <2> QED
    BY <1>1, <1>2, <1>3, <1>4, <2>1 DEF Registered, UnregisterOf, TokenOf, Blocked
<1>7. Wakeups'
  <2>1. ~Notifies(t) /\ (Waits(t)' => Waits(t)) /\ (Retries(t) => Retries(t)')
    BY <1>1, <1>2, <1>3, <1>4 DEF Waits, Notifies, Retries, Blocked
  <2> QED
    BY <1>1, <1>2, <1>3, <1>4, <2>1, WakeupsFrame DEF IInv, Ring
<1>8. /\ mode' \in [Thread -> {"try", "block", "timed"}]
      /\ loc' \in [Thread -> Nat] /\ aux' \in [Thread -> Nat]
  BY <1>2 DEF IInv, TypeOK
<1> QED
  BY <1>1, <1>2, <1>5, <1>6, <1>7, <1>8, QuietStep DEF Places, Leaving

\* An error is returned, or the user starts to drop its handle.
LEMMA ClosedDropInv ==
  ASSUME IInv, NEW t \in Thread, Closed(t) \/ Drop(t), UNCHANGED modes
  PROVE  IInv'
<1>1. PICK l \in {"idle", "release"} : Goto(t, l)
  BY DEF Closed, Drop
<1>2. /\ pc[t] \in {"closed", "idle"} /\ UNCHANGED <<head, tail, stamp, slot, loc, aux>>
      /\ UNCHANGED <<wakers, refs, history>> /\ (Return(t) \/ UNCHANGED mode)
  BY DEF Closed, Drop, ends, slots
<1>3. pc'[t] = l /\ \A u \in Thread : u # t => pc'[u] = pc[u]
  BY <1>1, Moves
<1>4. UNCHANGED <<selected, token, log, got, freed>>
  BY <1>2 DEF wakers, refs, history
<1>5. Ring'
  <2>1. l \notin Calling
    BY DEF Calling
  <2> QED
    BY <1>1, <1>2, <1>4, <2>1, RingFrame DEF IInv, InFlight, InCall
<1>6. (Registered(t)' <=> Registered(t)) /\ UnregisterOf(t)' /\ TokenOf(t)'
  BY <1>2, <1>3, <1>4 DEF Registered, UnregisterOf, TokenOf, Blocked
<1>7. Wakeups'
  <2>1. ~Notifies(t) /\ ~Waits(t)' /\ ~Retries(t)
    BY <1>2, <1>3, <1>4 DEF Waits, Notifies, Retries, Blocked
  <2> QED
    BY <1>2, <1>3, <1>4, <2>1, WakeupsFrame DEF IInv, Ring
<1>8. /\ mode' \in [Thread -> {"try", "block", "timed"}]
      /\ loc' \in [Thread -> Nat] /\ aux' \in [Thread -> Nat]
  BY <1>2, ModeType DEF IInv, TypeOK
<1> QED
  BY <1>1, <1>2, <1>5, <1>6, <1>7, <1>8, QuietStep DEF Places, Leaving

\* Stamps of positions have the type of the ends.
LEMMA EndsTyped ==
  ASSUME EndsOK', log' \in Seq(Messages)
  PROVE  /\ head' \in Nat /\ ~Marked(head') /\ Index(head') < Cap
         /\ tail' \in Nat /\ Index(tail') < Cap
<1>1. H' \in Nat /\ N' \in Nat
  BY DEF EndsOK, N
<1>2. head' = Enc(H') /\ tail' \in {Enc(N'), Enc(N') + MarkBit}
  BY DEF EndsOK
<1>3. \A n \in Nat : /\ Enc(n) \in Nat /\ Ix(n) < Cap /\ ~Marked(Enc(n)) /\ Index(Enc(n)) = Ix(n)
                     /\ Index(Enc(n) + MarkBit) = Ix(n)
  <2> TAKE n \in Nat
  <2>1. Enc(n) \in Nat /\ Ix(n) \in 0..(Cap - 1)
    BY Laps
  <2> QED
    BY <2>1, EncFields, Widths
<1>4. head' \in Nat /\ ~Marked(head') /\ Index(head') < Cap
  BY <1>1, <1>2, <1>3
<1>5. tail' \in Nat /\ Index(tail') < Cap
  <2> DEFINE n == N'
  <2>1. n \in Nat /\ tail' \in {Enc(n), Enc(n) + MarkBit}
    BY <1>1, <1>2
  <2>2. Enc(n) \in Nat /\ Ix(n) < Cap /\ Index(Enc(n)) = Ix(n) /\ Index(Enc(n) + MarkBit) = Ix(n)
    BY <1>3, <2>1
  <2> HIDE DEF n
  <2>3. CASE tail' = Enc(n)
    BY <2>2, <2>3
  <2>4. CASE tail' = Enc(n) + MarkBit
    <3>1. Enc(n) + MarkBit \in Nat
      BY <2>2, Widths
    <3> QED
      BY <2>2, <2>4, <3>1
  <2> QED
    BY <2>1, <2>3, <2>4
<1> QED
  BY <1>4, <1>5

\* Steps in the ring: a claim, the access to the slot, its new stamp.
LEMMA RingMove ==
  ASSUME IInv, NEW t \in Thread, NEW l \in {"access", "publish", "notify"}, Goto(t, l),
         pc[t] \in {"claim", "access", "publish"},
         UNCHANGED <<modes, mode, aux, wakers, refs, dropped>>,
         loc' \in [Thread -> Nat], stamp' \in [0..Cap - 1 -> Nat],
         slot' \in [0..Cap - 1 -> Messages \union {None}],
         log' \in Seq(Messages), got' \subseteq Messages,
         Marked(tail') <=> Marked(tail), Marked(tail) /\ H = N => H' = N',
         Ring', Wakeups'
  PROVE  IInv'
<1>1. UNCHANGED <<selectors, is_empty, selected, token, handles, destroy, freed>>
  BY DEF wakers, refs
<1>2. pc'[t] = l /\ \A u \in Thread : u # t => pc'[u] = pc[u]
  BY Moves
<1>3. TypeOK'
  <2>1. pc' \in [Thread -> Places]
    BY DEF IInv, TypeOK, Goto, Places
  <2>2. /\ head' \in Nat /\ ~Marked(head') /\ Index(head') < Cap
        /\ tail' \in Nat /\ Index(tail') < Cap
    BY EndsTyped DEF Ring
  <2> QED
    BY <1>1, <2>1, <2>2, Zenon DEF IInv, TypeOK
<1>4. Counter'
  BY <1>1, CounterFrame DEF IInv, Leaving
<1>5. Queues'
  <2>1. (Registered(t)' <=> Registered(t)) /\ UnregisterOf(t)' /\ TokenOf(t)'
    BY <1>2 DEF Registered, UnregisterOf, TokenOf, Blocked
  <2> QED
    BY <1>1, <1>2, <2>1, QueueFrame DEF IInv
<1>6. FreedOK'
  BY <1>1, NotFreed
<1> QED
  BY <1>3, <1>4, <1>5, <1>6 DEF IInv

\* Messages in the log are messages.
LEMMA LogTyped ==
  ASSUME TypeOK
  PROVE  \A n \in Nat : n < N => log[n + 1] \in Messages
BY DEF TypeOK, N

\* The CAS of tail succeeds.
LEMMA ClaimSendInv ==
  ASSUME IInv, NEW t \in Sender, pc[t] = "claim", SendClaims(t), Goto(t, "access"),
         UNCHANGED <<head, stamp, slot, loc, aux, mode, modes, wakers, refs, got, dropped>>
  PROVE  IInv'
<1>1. t \in Thread
  BY DEF Thread
<1>2. UNCHANGED <<selected, freed>> /\ ~freed
  BY <1>1, NotFreed DEF wakers, refs
<1>3. Ring' /\ N' = N + 1 /\ H' = H /\ ~Marked(tail) /\ ~Marked(tail')
  BY <1>2, ClaimSendRing DEF IInv
<1>4. Wakeups'
  BY <1>2, <1>3, ClaimSendWakeups DEF IInv, Ring
<1>5. log' \in Seq(Messages)
  <2>1. SentBy(t) \in Nat /\ SentBy(t) < MaxSends
    BY <1>1, SentByType, Budget DEF IInv, Calling
  <2>2. <<t, SentBy(t) + 1>> \in Messages
    BY <2>1, ChannelAssumption DEF Messages
  <2> QED
    BY <2>2 DEF SendClaims, IInv, TypeOK
<1> QED
  BY <1>1, <1>3, <1>4, <1>5, RingMove DEF IInv, TypeOK

\* The CAS of head succeeds.
LEMMA ClaimRecvInv ==
  ASSUME IInv, NEW t \in Receiver, pc[t] = "claim", head = loc[t], head' = Advance(head),
         Goto(t, "access"),
         UNCHANGED <<tail, stamp, slot, loc, aux, mode, modes, wakers, refs, log, got, dropped>>
  PROVE  IInv'
<1>1. t \in Thread
  BY DEF Thread
<1>2. UNCHANGED <<selected, freed>> /\ ~freed
  BY <1>1, NotFreed DEF wakers, refs
<1>3. Ring' /\ N' = N /\ H' = H + 1 /\ H < N
  BY <1>2, ClaimRecvRing DEF IInv
<1>4. Wakeups'
  BY <1>2, <1>3, ClaimRecvWakeups DEF IInv, Ring
<1>5. N \in Nat /\ H \in Nat
  BY EndFacts DEF IInv, Ring
<1>6. ~(H = N)
  BY <1>3, <1>5
<1> QED
  BY <1>1, <1>3, <1>4, <1>6, RingMove DEF IInv, TypeOK

\* The CAS, whatever comes of it.
LEMMA ClaimInv ==
  ASSUME IInv, NEW t \in Thread, Claim(t), UNCHANGED modes
  PROVE  IInv'
<1>1. pc[t] = "claim" /\ UNCHANGED <<stamp, slot, mode, loc, aux, wakers, refs, got, dropped>>
  BY DEF Claim, slots
<1>2. CASE t \in Sender /\ SendClaims(t) /\ Goto(t, "access") /\ UNCHANGED head
  BY <1>1, <1>2, ClaimSendInv
<1>3. CASE t \in Receiver /\ head = loc[t] /\ head' = Advance(head)
           /\ Goto(t, "access") /\ UNCHANGED <<tail, log>>
  BY <1>1, <1>3, ClaimRecvInv
<1>4. CASE Goto(t, "load") /\ UNCHANGED <<head, tail, log>>
  <2>1. pc'[t] = "load" /\ \A u \in Thread : u # t => pc'[u] = pc[u]
    BY <1>4, Moves
  <2>2. UNCHANGED <<selected, token, log, got, freed>> /\ UNCHANGED history
    BY <1>1, <1>4 DEF wakers, refs, history
  <2>3. Ring'
    <3>1. t \in Sender => SentBy(t) < MaxSends
      BY <1>1, Budget DEF Calling
    <3> QED
      BY <1>1, <1>4, <2>2, <3>1, RingFrame DEF IInv, InFlight, InCall
  <2>4. (Registered(t)' <=> Registered(t)) /\ UnregisterOf(t)' /\ TokenOf(t)'
    BY <1>1, <2>1 DEF Registered, UnregisterOf, TokenOf, Blocked
  <2>5. Wakeups'
    <3>1. ~Notifies(t) /\ ~Waits(t)' /\ Retries(t)'
      BY <1>1, <2>1 DEF Waits, Notifies, Retries
    <3> QED
      BY <1>1, <1>4, <2>1, <2>2, <3>1, WakeupsFrame DEF IInv, Ring
  <2>6. /\ mode' \in [Thread -> {"try", "block", "timed"}]
        /\ loc' \in [Thread -> Nat] /\ aux' \in [Thread -> Nat]
    BY <1>1 DEF IInv, TypeOK
  <2> QED
    BY <1>1, <1>4, <2>2, <2>3, <2>4, <2>5, <2>6, QuietStep DEF Places, Leaving
<1> QED
  BY <1>2, <1>3, <1>4 DEF Claim, SendClaims, ends

\* The message is written or read.
LEMMA AccessInv ==
  ASSUME IInv, NEW t \in Thread, Access(t), UNCHANGED modes
  PROVE  IInv'
<1>1. /\ pc[t] = "access" /\ Goto(t, "publish")
      /\ UNCHANGED <<head, tail, stamp, mode, loc, aux, wakers, refs, log, dropped>>
  BY DEF Access, ends
<1>2. pc'[t] = "publish" /\ \A u \in Thread : u # t => pc'[u] = pc[u]
  BY <1>1, Moves
<1>3. UNCHANGED <<selected, freed>> /\ ~freed
  BY <1>1, NotFreed DEF wakers, refs
<1>4. Ring'
  BY <1>3, AccessRing DEF IInv
<1>5. Wakeups'
  <2>1. Notifies(t)' /\ ~Waits(t)' /\ ~Retries(t)
    BY <1>1, <1>2 DEF Waits, Notifies, Retries, Blocked
  <2> QED
    BY <1>1, <1>2, <1>3, <2>1, WakeupsFrame DEF IInv, Ring
<1>6. At(t) \in Nat /\ loc[t] = Enc(At(t)) /\ Index(loc[t]) = Ix(At(t)) /\ N \in Nat /\ H \in Nat
  <2>1. At(t) \in Nat /\ loc[t] = Enc(At(t))
    BY <1>1 DEF IInv, Ring, LocOK, LocOf, InCall
  <2> QED
    BY <2>1, EncFields, EndFacts DEF IInv, Ring
<1>7. Ix(At(t)) \in 0..Cap - 1
  BY <1>6, Laps, Widths
<1>8. /\ slot' \in [0..Cap - 1 -> Messages \union {None}]
      /\ got' \subseteq Messages
  <2>1. CASE t \in Sender
    <3>1. At(t) < N /\ log[At(t) + 1] = <<t, SentBy(t)>>
      BY <1>1, <2>1 DEF IInv, Ring, WritersOK, WriterOf, InFlight
    <3>2. <<t, SentBy(t)>> \in Messages
      BY <1>6, <3>1, LogTyped DEF IInv
    <3> QED
      BY <1>6, <1>7, <2>1, <3>2 DEF Access, IInv, TypeOK
  <2>2. CASE t \in Receiver
    <3>1. At(t) < H /\ H <= N /\ slot[Ix(At(t))] = log[At(t) + 1]
      BY <1>1, <2>2 DEF IInv, Ring, ReadersOK, ReaderOf, InFlight, EndsOK
    <3>2. slot[Ix(At(t))] \in Messages
      BY <1>6, <3>1, LogTyped DEF IInv
    <3>3. t \notin Sender
      BY <2>2, ChannelAssumption
    <3>4. got' = got \union {slot[Ix(At(t))]} /\ slot' = [slot EXCEPT ![Ix(At(t))] = None]
      BY <1>6, <3>3 DEF Access
    <3>5. got \subseteq Messages /\ slot \in [0..Cap - 1 -> Messages \union {None}]
      BY DEF IInv, TypeOK
    <3>6. slot' \in [0..Cap - 1 -> Messages \union {None}]
      BY <3>4, <3>5
    <3> QED
      BY <3>2, <3>4, <3>5, <3>6
  <2> QED
    BY <2>1, <2>2 DEF Thread
<1>9. H' = H /\ N' = N
  BY <1>1 DEF H, N
<1> QED
  BY <1>1, <1>4, <1>5, <1>8, <1>9, RingMove DEF IInv, TypeOK

\* The stamp of the slot is stored.
LEMMA PublishInv ==
  ASSUME IInv, NEW t \in Thread, Publish(t), UNCHANGED modes
  PROVE  IInv'
<1>1. /\ pc[t] = "publish" /\ Goto(t, "notify") /\ Keep(t, 0)
      /\ UNCHANGED <<head, tail, slot, mode, aux, wakers, refs, log, got, dropped>>
  BY DEF Publish, ends, history
<1>2. pc'[t] = "notify" /\ \A u \in Thread : u # t => pc'[u] = pc[u]
  BY <1>1, Moves
<1>3. UNCHANGED <<selected, freed>> /\ ~freed
  BY <1>1, NotFreed DEF wakers, refs
<1>4. Ring'
  BY <1>3, PublishRing DEF IInv
<1>5. Wakeups'
  <2>1. Notifies(t)' /\ ~Waits(t)' /\ ~Retries(t)
    BY <1>1, <1>2 DEF Waits, Notifies, Retries, Blocked
  <2> QED
    BY <1>1, <1>2, <1>3, <2>1, WakeupsFrame DEF IInv, Ring
<1>6. loc' \in [Thread -> Nat] /\ stamp' \in [0..Cap - 1 -> Nat]
  <2>1. loc \in [Thread -> Nat] /\ stamp \in [0..Cap - 1 -> Nat] /\ loc[t] \in Nat
    BY DEF IInv, TypeOK
  <2>2. loc[t] + 1 \in Nat /\ loc[t] + OneLap \in Nat
    BY <2>1, Widths
  <2>3. stamp' \in [0..Cap - 1 -> Nat]
    BY <2>1, <2>2, Zenon DEF Publish
  <2> QED
    BY <1>1, <2>1, <2>3 DEF Keep
<1>7. H' = H /\ N' = N
  BY <1>1 DEF H, N
<1> QED
  BY <1>1, <1>4, <1>5, <1>6, <1>7, RingMove DEF IInv, TypeOK

\* Steps on the wakers: they leave the ring alone.
LEMMA WakerStep ==
  ASSUME IInv, NEW t \in Thread, NEW l \in Places, Goto(t, l),
         UNCHANGED <<modes, head, tail, stamp, slot, loc, aux, refs, history>>,
         mode' \in [Thread -> {"try", "block", "timed"}],
         selectors' \in [{Senders, Receivers} -> Seq(Thread)],
         is_empty' \in [{Senders, Receivers} -> BOOLEAN],
         selected' \in [Thread -> {"waiting", "aborted", "disconnected", "operation"}],
         token' \subseteq Thread,
         pc[t] \notin InFlight, pc[t] \notin Leaving, pc[t] # "gone",
         l \notin InCall, l # "ready2", l \notin Leaving, l # "gone", l # "closed",
         l \in Calling => pc[t] \in Calling,
         Queues', Wakeups'
  PROVE  IInv'
<1>1. UNCHANGED <<handles, destroy, freed>> /\ UNCHANGED <<log, got, dropped>>
  BY DEF refs, history
<1>2. TypeOK'
  <2>1. pc' \in [Thread -> Places]
    BY DEF IInv, TypeOK, Goto
  <2> QED
    BY <1>1, <2>1, Zenon DEF IInv, TypeOK
<1>3. H' = H /\ N' = N /\ (Marked(tail') <=> Marked(tail))
  BY <1>1 DEF H, N
<1>4. Ring'
  <2>1. t \in Sender /\ l \in Calling => SentBy(t) < MaxSends
    BY Budget
  <2> QED
    BY <1>1, <2>1, RingFrame DEF IInv
<1>5. Counter'
  BY <1>1, <1>3, CounterFrame DEF IInv
<1>6. FreedOK'
  BY <1>1, NotFreed
<1> QED
  BY <1>2, <1>4, <1>5, <1>6 DEF IInv

\* A queue and its flag keep their types.
LEMMA SetQueueTyped ==
  ASSUME TypeOK, NEW s \in {Senders, Receivers}, NEW q \in Seq(Thread), SetQueue(s, q)
  PROVE  /\ selectors' \in [{Senders, Receivers} -> Seq(Thread)]
         /\ is_empty' \in [{Senders, Receivers} -> BOOLEAN]
<1>1. selectors' = [selectors EXCEPT ![s] = q] /\ selectors \in [{Senders, Receivers} -> Seq(Thread)]
  BY DEF SetQueue, TypeOK
<1>2. is_empty' = [is_empty EXCEPT ![s] = (q = <<>>)] /\ is_empty \in [{Senders, Receivers} -> BOOLEAN]
  BY DEF SetQueue, TypeOK
<1>3. selectors' \in [{Senders, Receivers} -> Seq(Thread)]
  BY <1>1
<1>4. is_empty' \in [{Senders, Receivers} -> BOOLEAN]
  BY <1>2, Zenon
<1> QED
  BY <1>3, <1>4

\* A thread that waits is selected, or nobody waits.
LEMMA SelectInv ==
  ASSUME IInv, NEW t \in Thread, Select(t), UNCHANGED modes
  PROVE  IInv'
<1>1. /\ pc[t] = "select" /\ Goto(t, "idle") /\ Return(t)
      /\ UNCHANGED <<head, tail, stamp, slot, loc, aux, refs, history>>
  BY DEF Select, ends, slots
<1>2. Queues' /\ Wakeups'
  BY SelectQueues, SelectWakeups DEF IInv, Ring
<1>3. mode' \in [Thread -> {"try", "block", "timed"}]
  BY <1>1, ModeType DEF IInv
<1>4. /\ selectors' \in [{Senders, Receivers} -> Seq(Thread)]
      /\ is_empty' \in [{Senders, Receivers} -> BOOLEAN]
      /\ selected' \in [Thread -> {"waiting", "aborted", "disconnected", "operation"}]
      /\ token' \subseteq Thread
  <2>1. CASE UNCHANGED wakers
    BY <2>1, Zenon DEF wakers, IInv, TypeOK
  <2>2. ASSUME NEW v \in Thread, NEW f \in Entries(Side(v)),
               SetQueue(Side(v), RemoveAt(selectors[Side(v)], f)),
               selected' = [selected EXCEPT ![v] = "operation"], token' = token \union {v}
        PROVE  /\ selectors' \in [{Senders, Receivers} -> Seq(Thread)]
               /\ is_empty' \in [{Senders, Receivers} -> BOOLEAN]
               /\ selected' \in [Thread -> {"waiting", "aborted", "disconnected", "operation"}]
               /\ token' \subseteq Thread
    <3>1. Side(v) \in {Senders, Receivers}
      BY DEF Side
    <3>2. selectors[Side(v)] \in Seq(Thread) /\ f \in 1..Len(selectors[Side(v)])
      BY <3>1, QueueTyped DEF IInv, Entries
    <3>3. RemoveAt(selectors[Side(v)], f) \in Seq(Thread)
      BY <3>2, RemoveAtIs
    <3>4. /\ selectors' \in [{Senders, Receivers} -> Seq(Thread)]
          /\ is_empty' \in [{Senders, Receivers} -> BOOLEAN]
      BY <2>2, <3>1, <3>3, SetQueueTyped DEF IInv
    <3>5. /\ selected' \in [Thread -> {"waiting", "aborted", "disconnected", "operation"}]
          /\ token' \subseteq Thread
      BY <2>2 DEF IInv, TypeOK
    <3> QED
      BY <3>4, <3>5
  <2>3. \/ UNCHANGED wakers
        \/ \E v \in Thread : \E f \in Entries(Side(v)) :
              /\ SetQueue(Side(v), RemoveAt(selectors[Side(v)], f))
              /\ selected' = [selected EXCEPT ![v] = "operation"]
              /\ token' = token \union {v}
    <3>1. TypeOK /\ Queues
      BY DEF IInv
    <3> QED
      BY <3>1, SelectIs
  <2> QED
    BY <2>1, <2>2, <2>3, Zenon
<1> QED
  BY <1>1, <1>2, <1>3, <1>4, WakerStep DEF Places, Leaving, InFlight, InCall, Calling

\* A thread registers.
LEMMA RegisterInv ==
  ASSUME IInv, NEW t \in Thread, Register(t), UNCHANGED modes
  PROVE  IInv'
<1>1. /\ pc[t] = "register" /\ Goto(t, "ready1")
      /\ selected' = [selected EXCEPT ![t] = "waiting"]
      /\ SetQueue(Side(t), Append(selectors[Side(t)], t))
      /\ UNCHANGED <<head, tail, stamp, slot, mode, loc, aux, token, refs, history>>
  BY DEF Register, ends, slots
<1>2. pc'[t] = "ready1" /\ \A u \in Thread : u # t => pc'[u] = pc[u]
  BY <1>1, Moves
<1>3. /\ selected' \in [Thread -> {"waiting", "aborted", "disconnected", "operation"}]
      /\ \A u \in Thread : u # t => selected'[u] = selected[u]
  BY <1>1 DEF IInv, TypeOK
<1>4. Queues'
  BY RegisterQueues DEF IInv
<1>5. Wakeups'
  <2>1. ~Notifies(t) /\ ~Retries(t) /\ ~Waits(t)'
    BY <1>1, <1>2 DEF Waits, Notifies, Retries, Blocked
  <2>2. UNCHANGED log
    BY <1>1 DEF history
  <2> QED
    BY <1>1, <1>2, <1>3, <2>1, <2>2, WakeupsFrame DEF IInv, Ring
<1>6. /\ selectors' \in [{Senders, Receivers} -> Seq(Thread)]
      /\ is_empty' \in [{Senders, Receivers} -> BOOLEAN]
  <2>1. Side(t) \in {Senders, Receivers}
    BY DEF Side
  <2>2. Append(selectors[Side(t)], t) \in Seq(Thread)
    BY <2>1 DEF IInv, TypeOK
  <2> QED
    BY <1>1, <2>1, <2>2, SetQueueTyped DEF IInv
<1>7. mode' \in [Thread -> {"try", "block", "timed"}] /\ token' \subseteq Thread
  BY <1>1 DEF IInv, TypeOK
<1> QED
  BY <1>1, <1>3, <1>4, <1>5, <1>6, <1>7, WakerStep DEF Places, Leaving, InFlight, InCall, Calling

\* A thread leaves the queue and tries again.
LEMMA UnregisterInv ==
  ASSUME IInv, NEW t \in Thread, Unregister(t), UNCHANGED modes
  PROVE  IInv'
<1> DEFINE q == selectors[Side(t)]
           W == {i \in DOMAIN q : q[i] = t}
           r == IF W = {} THEN q ELSE RemoveAt(q, FirstOf(W))
<1>1. /\ pc[t] = "unregister" /\ Goto(t, "load") /\ SetQueue(Side(t), r)
      /\ UNCHANGED <<head, tail, stamp, slot, mode, loc, aux, selected, token, refs, history>>
  BY DEF Unregister, ends, slots
<1>2. pc'[t] = "load" /\ \A u \in Thread : u # t => pc'[u] = pc[u]
  BY <1>1, Moves
<1>3. Queues'
  BY UnregisterQueues DEF IInv
<1>4. Wakeups'
  <2>1. ~Notifies(t) /\ Retries(t)' /\ ~Waits(t)'
    BY <1>1, <1>2 DEF Waits, Notifies, Retries, Blocked
  <2>2. UNCHANGED log
    BY <1>1 DEF history
  <2> QED
    BY <1>1, <1>2, <2>1, <2>2, WakeupsFrame DEF IInv, Ring
<1>5. /\ selectors' \in [{Senders, Receivers} -> Seq(Thread)]
      /\ is_empty' \in [{Senders, Receivers} -> BOOLEAN]
  <2>1. Side(t) \in {Senders, Receivers}
    BY DEF Side
  <2>2. q \in Seq(Thread)
    BY <2>1 DEF IInv, TypeOK
  <2>3. r \in Seq(Thread)
    <3>1. CASE W = {}
      BY <2>2, <3>1
    <3>2. CASE W # {}
      <4>1. DOMAIN q = 1..Len(q) /\ W \in SUBSET Nat
        BY <2>2
      <4>2. FirstOf(W) \in 1..Len(q)
        BY <3>2, <4>1, FirstOfIs
      <4> QED
        BY <2>2, <3>2, <4>2, RemoveAtIs
    <3> QED
      BY <3>1, <3>2
  <2> QED
    BY <1>1, <2>1, <2>3, SetQueueTyped DEF IInv
<1>6. /\ mode' \in [Thread -> {"try", "block", "timed"}] /\ token' \subseteq Thread
      /\ selected' \in [Thread -> {"waiting", "aborted", "disconnected", "operation"}]
  BY <1>1 DEF IInv, TypeOK
<1> QED
  BY <1>1, <1>3, <1>4, <1>5, <1>6, WakerStep DEF Places, Leaving, InFlight, InCall, Calling

\* A waiting thread gives up by itself, wakes, or its deadline passes.
LEMMA OwnWakeInv ==
  ASSUME IInv, NEW t \in Thread, Abort(t) \/ Park(t) \/ Deadline(t), UNCHANGED modes
  PROVE  IInv'
<1>1. /\ UNCHANGED <<head, tail, stamp, slot, mode, loc, aux, refs, history>>
      /\ UNCHANGED <<selectors, is_empty>>
  BY DEF Abort, Park, Deadline, ends, slots
<1>2. /\ token \subseteq Thread /\ selected[t] \in {"waiting", "aborted", "disconnected", "operation"}
      /\ selected \in [Thread -> {"waiting", "aborted", "disconnected", "operation"}]
  BY DEF IInv, TypeOK
<1>3. PICK l \in {"wait", "load", "unregister"} :
        /\ Goto(t, l)
        /\ \/ pc[t] = "abort" /\ l = "wait" /\ AbortSelect(t) /\ UNCHANGED token
           \/ pc[t] = "park" /\ l = "wait" /\ UNCHANGED selected /\ token' = token \ {t}
           \/ /\ pc[t] = "park" /\ AbortSelect(t) /\ UNCHANGED token /\ l # "wait"
              /\ l = "load" <=> selected'[t] = "operation"
  <2>1. AfterWait(selected'[t]) \in {"load", "unregister"}
        /\ (AfterWait(selected'[t]) = "load" <=> selected'[t] = "operation")
    BY DEF AfterWait
  <2> QED
    BY <2>1 DEF Abort, Park, Deadline
<1>4. pc'[t] = l /\ \A u \in Thread : u # t => pc'[u] = pc[u]
  BY <1>3, Moves
<1>5. /\ selected' \in [Thread -> {"waiting", "aborted", "disconnected", "operation"}]
      /\ token' \subseteq Thread
      /\ \A u \in Thread : u # t => selected'[u] = selected[u] /\ (u \in token => u \in token')
      /\ selected'[t] = selected[t] \/ (selected[t] = "waiting" /\ selected'[t] = "aborted")
      /\ AbortSelect(t) => selected'[t] # "waiting"
  BY <1>2, <1>3 DEF AbortSelect
<1>6. Queues'
  <2>1. (Registered(t)' <=> Registered(t)) /\ TokenOf(t)'
    BY <1>3, <1>4, <1>5 DEF Registered, TokenOf, Blocked
  <2>2. UnregisterOf(t)'
    BY <1>2, <1>3, <1>4, <1>5 DEF UnregisterOf
  <2> QED
    BY <1>1, <1>4, <1>5, <2>1, <2>2, QueueFrame DEF IInv
<1>7. Wakeups'
  <2>1. ~Notifies(t) /\ (Waits(t)' => Waits(t)) /\ (Retries(t) => Retries(t)')
    BY <1>3, <1>4, <1>5 DEF Waits, Notifies, Retries, Blocked
  <2>2. UNCHANGED log
    BY <1>1 DEF history
  <2> QED
    BY <1>1, <1>3, <1>4, <1>5, <2>1, <2>2, WakeupsFrame DEF IInv, Ring
<1>8. /\ mode' \in [Thread -> {"try", "block", "timed"}]
      /\ selectors' \in [{Senders, Receivers} -> Seq(Thread)]
  BY <1>1 DEF IInv, TypeOK
<1>9. is_empty' \in [{Senders, Receivers} -> BOOLEAN]
  BY <1>1, Zenon DEF IInv, TypeOK
<1> QED
  BY <1>1, <1>3, <1>5, <1>6, <1>7, <1>8, <1>9, WakerStep DEF Places, Leaving, InFlight, InCall, Calling

\* A handle is released.
LEMMA ReleaseInv ==
  ASSUME IInv, NEW t \in Thread, Release(t), UNCHANGED modes
  PROVE  IInv'
<1>1. PICK l \in {"mark", "gone"} : Goto(t, l)
  BY Zenon DEF Release
<1>2. /\ pc[t] = "release" /\ handles' = handles \ {t}
      /\ UNCHANGED <<head, tail, stamp, slot, mode, loc, aux, destroy, freed>>
      /\ UNCHANGED <<selectors, is_empty, selected, token, log, got, dropped>>
  BY DEF Release, ends, slots, wakers, history
<1>3. pc'[t] = l /\ \A u \in Thread : u # t => pc'[u] = pc[u]
  BY <1>1, Moves
<1>4. TypeOK'
  <2>1. pc' \in [Thread -> Places] /\ handles' \subseteq Thread
    BY <1>1, <1>2 DEF IInv, TypeOK, Goto, Places
  <2> QED
    BY <1>2, <2>1, Zenon DEF IInv, TypeOK
<1>5. Ring'
  <2>1. l \notin Calling
    BY DEF Calling
  <2> QED
    BY <1>1, <1>2, <2>1, RingFrame DEF IInv, InFlight, InCall
<1>6. Counter'
  BY ReleaseCounter DEF IInv
<1>7. Queues'
  <2>1. (Registered(t)' <=> Registered(t)) /\ UnregisterOf(t)' /\ TokenOf(t)'
    BY <1>2, <1>3 DEF Registered, UnregisterOf, TokenOf, Blocked
  <2> QED
    BY <1>2, <1>3, <2>1, QueueFrame DEF IInv
<1>8. Wakeups'
  <2>1. ~Notifies(t) /\ ~Waits(t)' /\ ~Retries(t)
    BY <1>2, <1>3 DEF Waits, Notifies, Retries, Blocked
  <2> QED
    BY <1>2, <1>3, <2>1, WakeupsFrame DEF IInv, Ring
<1>9. FreedOK'
  BY <1>2, NotFreed
<1> QED
  BY <1>4, <1>5, <1>6, <1>7, <1>8, <1>9 DEF IInv

\* The mark bit is set.
LEMMA MarkInv ==
  ASSUME IInv, NEW t \in Thread, Mark(t), UNCHANGED modes
  PROVE  IInv'
<1>1. PICK l \in {"destroy", "wake_senders"} : Goto(t, l)
  BY Zenon DEF Mark
<1>2. /\ pc[t] = "mark"
      /\ UNCHANGED <<head, stamp, slot, mode, loc, aux, handles, destroy, freed>>
      /\ UNCHANGED <<selectors, is_empty, selected, token, log, got, dropped>>
  BY DEF Mark, slots, wakers, refs, history
<1>3. pc'[t] = l /\ \A u \in Thread : u # t => pc'[u] = pc[u]
  BY <1>1, Moves
<1>4. Ring'
  BY MarkRing DEF IInv
<1>5. TypeOK'
  <2>1. pc' \in [Thread -> Places]
    BY <1>1 DEF IInv, TypeOK, Goto, Places
  <2>2. log' \in Seq(Messages)
    BY <1>2 DEF IInv, TypeOK
  <2>3. tail' \in Nat /\ Index(tail') < Cap
    BY <1>4, <2>2, EndsTyped DEF Ring
  <2> QED
    BY <1>2, <2>1, <2>3, Zenon DEF IInv, TypeOK
<1>6. Counter'
  BY LeavingCounter DEF IInv
<1>7. Queues'
  <2>1. (Registered(t)' <=> Registered(t)) /\ UnregisterOf(t)' /\ TokenOf(t)'
    BY <1>2, <1>3 DEF Registered, UnregisterOf, TokenOf, Blocked
  <2> QED
    BY <1>2, <1>3, <2>1, QueueFrame DEF IInv
<1>8. Wakeups'
  <2>1. ~Disconnect(t)
    BY <1>2 DEF Disconnect
  <2> QED
    BY <2>1, DisconnectWakeups DEF IInv, Ring
<1>9. FreedOK'
  BY <1>2, NotFreed
<1> QED
  BY <1>4, <1>5, <1>6, <1>7, <1>8, <1>9 DEF IInv

\* The threads of a side are woken.
LEMMA DisconnectInv ==
  ASSUME IInv, NEW t \in Thread, Disconnect(t), UNCHANGED modes
  PROVE  IInv'
<1>1. PICK l \in {"destroy", "wake_receivers"} : Goto(t, l)
  BY Zenon DEF Disconnect
<1>2. PICK s \in {Senders, Receivers} : DisconnectWaker(s)
  BY Zenon DEF Disconnect
<1>3. /\ pc[t] \in {"wake_senders", "wake_receivers"}
      /\ UNCHANGED <<head, tail, stamp, slot, mode, loc, aux, handles, destroy, freed>>
      /\ UNCHANGED <<log, got, dropped>>
  BY DEF Disconnect, ends, slots, refs, history
<1>4. Ring'
  <2>1. l \notin Calling
    BY DEF Calling
  <2> QED
    BY <1>1, <1>3, <2>1, RingFrame DEF IInv, InFlight, InCall
<1>5. TypeOK'
  <2>1. pc' \in [Thread -> Places]
    BY <1>1 DEF IInv, TypeOK, Goto, Places
  <2>2. UNCHANGED <<selectors, is_empty>>
    BY <1>2, DisconnectIs DEF IInv
  <2> DEFINE W == {u \in ToSet(selectors[s]) : selected[u] = "waiting"}
  <2>3. /\ selected' = [u \in Thread |-> IF u \in W THEN "disconnected" ELSE selected[u]]
        /\ token' = token \union W
    BY <1>2 DEF DisconnectWaker
  <2>4. W \subseteq Thread
    BY DEF IInv, TypeOK, ToSet
  <2> HIDE DEF W
  <2>5. /\ token' \subseteq Thread
        /\ selected' \in [Thread -> {"waiting", "aborted", "disconnected", "operation"}]
    BY <2>3, <2>4 DEF IInv, TypeOK
  <2> QED
    BY <1>3, <2>1, <2>2, <2>5, Zenon DEF IInv, TypeOK
<1>6. Counter'
  BY LeavingCounter DEF IInv
<1>7. Queues'
  BY DisconnectQueues DEF IInv
<1>8. Wakeups'
  <2>1. Marked(tail)
    BY <1>3 DEF IInv, Counter, WakingOK
  <2> QED
    BY <2>1, DisconnectWakeups DEF IInv, Ring
<1>9. FreedOK'
  BY <1>3, NotFreed
<1> QED
  BY <1>4, <1>5, <1>6, <1>7, <1>8, <1>9 DEF IInv

\* When nobody reads, the messages received are those below head.
LEMMA ReceivedAre ==
  ASSUME TypeOK, Ring, \A u \in Thread : pc[u] # "access"
  PROVE  /\ got = {log[n + 1] : n \in 0..(H - 1)}
         /\ \A D : D = {log[n + 1] : n \in H..(N - 1)} =>
              got \union D = ToSet(log) /\ got \intersect D = {} /\ D \subseteq Messages
<1>1. got = {log[n + 1] : n \in 0..(H - 1)}
  BY DEF Ring, GotOK, Thread
<1>2. H \in Nat /\ N \in Nat /\ H <= N
  BY EndFacts DEF Ring, EndsOK
<1>3. DOMAIN log = 1..N /\ \A i \in 1..N : log[i] \in Messages
  BY DEF TypeOK, N
<1>4. \A i, j \in 1..N : log[i] = log[j] => i = j
  BY DEF Ring, LogOK
<1>5. ASSUME NEW D, D = {log[n + 1] : n \in H..(N - 1)}
      PROVE  got \union D = ToSet(log) /\ got \intersect D = {} /\ D \subseteq Messages
  <2> HIDE DEF H, N
  <2>1. \A n \in 0..(H - 1) : n + 1 \in 1..N /\ n + 1 <= H
    BY <1>2
  <2>2. \A n \in H..(N - 1) : n + 1 \in 1..N /\ n + 1 > H
    BY <1>2
  <2>3. \A i \in 1..N : i - 1 + 1 = i /\ (i - 1 \in 0..(H - 1) \/ i - 1 \in H..(N - 1))
    BY <1>2
  <2>4. D \subseteq Messages
    BY <1>3, <1>5, <2>2
  <2>5. got \intersect D = {}
    <3> SUFFICES ASSUME NEW n \in 0..(H - 1), NEW m \in H..(N - 1), log[n + 1] = log[m + 1]
                 PROVE  FALSE
      BY <1>1, <1>5
    <3>1. n + 1 = m + 1
      BY <1>4, <2>1, <2>2
    <3> QED
      BY <3>1, <1>2
  <2>6. got \union D \subseteq ToSet(log)
    BY <1>1, <1>3, <1>5, <2>1, <2>2 DEF ToSet
  <2>7. ToSet(log) \subseteq got \union D
    <3> SUFFICES ASSUME NEW i \in 1..N
                 PROVE  log[i] \in got \union D
      BY <1>3 DEF ToSet
    <3> DEFINE k == i - 1
    <3>1. log[i] = log[k + 1] /\ (k \in 0..(H - 1) \/ k \in H..(N - 1))
      BY <2>3
    <3> HIDE DEF k
    <3> QED
      BY <3>1, <1>1, <1>5
  <2> QED
    BY <2>4, <2>5, <2>6, <2>7
<1> QED
  BY <1>1, <1>5

\* A side is done; the second one frees the channel.
LEMMA DestroyInv ==
  ASSUME IInv, NEW t \in Thread, Destroy(t), UNCHANGED modes
  PROVE  IInv'
<1>1. /\ pc[t] = "destroy" /\ Goto(t, "gone") /\ freed' = destroy /\ destroy' = TRUE
      /\ UNCHANGED <<head, tail, stamp, mode, loc, aux, handles, log, got>>
      /\ UNCHANGED <<selectors, is_empty, selected, token>>
      /\ destroy => DropChannel
      /\ ~destroy => UNCHANGED <<slot, dropped>>
  BY DEF Destroy, ends, wakers
<1>2. pc'[t] = "gone" /\ \A u \in Thread : u # t => pc'[u] = pc[u]
  BY <1>1, Moves
<1>3. ~freed /\ dropped = {}
  BY <1>1, NotFreed
<1>4. destroy => /\ dropped' = {log[n + 1] : n \in H..(N - 1)}
                 /\ slot' = [i \in 0..(Cap - 1) |-> None]
                 /\ \A u \in Thread : u # t => pc[u] = "gone"
  <2> HAVE destroy
  <2>1. \A u \in Thread : u # t => pc[u] = "gone"
    BY <1>1, LastOneLeft DEF IInv
  <2>2. \A u \in Thread : pc[u] \notin InFlight
    BY <1>1, <2>1 DEF InFlight
  <2> QED
    BY <1>1, <1>3, <2>1, <2>2, DropChannelDrops DEF IInv
<1>5. destroy => /\ got \union dropped' = ToSet(log) /\ got \intersect dropped' = {}
                 /\ dropped' \subseteq Messages
  <2> HAVE destroy
  <2>1. \A u \in Thread : pc[u] # "access"
    BY <1>1, <1>4
  <2> DEFINE D == dropped'
  <2>2. D = {log[n + 1] : n \in H..(N - 1)}
    BY <1>4
  <2> HIDE DEF D
  <2>3. got \union D = ToSet(log) /\ got \intersect D = {} /\ D \subseteq Messages
    BY <2>1, <2>2, ReceivedAre DEF IInv
  <2> QED
    BY <2>3 DEF D
<1>6. TypeOK'
  <2>1. pc' \in [Thread -> Places]
    BY <1>1 DEF IInv, TypeOK, Goto, Places
  <2>2. slot' \in [0..Cap - 1 -> Messages \union {None}] /\ dropped' \subseteq Messages
    BY <1>1, <1>4, <1>5 DEF IInv, TypeOK
  <2>3. destroy' \in BOOLEAN /\ freed' \in BOOLEAN
    BY <1>1, Zenon DEF IInv, TypeOK
  <2> QED
    BY <1>1, <2>1, <2>2, <2>3, Zenon DEF IInv, TypeOK
<1>7. Ring'
  BY <1>3, DestroyRing DEF IInv
<1>8. Counter'
  BY LeavingCounter DEF IInv
<1>9. Queues'
  <2>1. (Registered(t)' <=> Registered(t)) /\ UnregisterOf(t)' /\ TokenOf(t)'
    BY <1>1, <1>2 DEF Registered, UnregisterOf, TokenOf, Blocked
  <2> QED
    BY <1>1, <1>2, <2>1, QueueFrame DEF IInv
<1>10. Wakeups'
  <2>1. ~Notifies(t) /\ ~Waits(t)' /\ ~Retries(t)
    BY <1>1, <1>2 DEF Waits, Notifies, Retries, Blocked
  <2> QED
    BY <1>1, <1>2, <2>1, WakeupsFrame DEF IInv, Ring
<1>11. FreedOK'
  <2>1. CASE destroy
    <3>1. freed' /\ \A u \in Thread : pc'[u] = "gone"
      BY <1>1, <1>2, <1>4, <2>1
    <3>2. \A i \in 0..(Cap - 1) : slot'[i] = None
      BY <1>4, <2>1
    <3>3. ToSet(log)' = ToSet(log)
      BY <1>1
    <3>4. got' \union dropped' = ToSet(log)' /\ got' \intersect dropped' = {}
      BY <1>1, <1>5, <2>1, <3>3
    <3> QED
      BY <3>1, <3>2, <3>4 DEF FreedOK
  <2>2. CASE ~destroy
    BY <1>1, <1>3, <2>2 DEF FreedOK
  <2> QED
    BY <2>1, <2>2
<1> QED
  BY <1>6, <1>7, <1>8, <1>9, <1>10, <1>11 DEF IInv

----------------------------------------------------------------------------
(* The theorems *)

\* The initial states: no message, and nobody in a call.
LEMMA InitInv == Init => IInv
<1> SUFFICES ASSUME Init
             PROVE  IInv
  OBVIOUS
<1>1. PICK start \in Starts : handles = start.handles /\ modes = start.modes
  BY DEF Init
<1>2. handles \subseteq Thread /\ modes \subseteq {"try", "block", "timed"}
  BY <1>1, ChannelAssumption DEF Thread
<1>3. /\ head = 0 /\ tail = 0 /\ log = <<>> /\ got = {} /\ dropped = {} /\ token = {}
      /\ stamp = [i \in 0..Cap - 1 |-> i] /\ slot = [i \in 0..Cap - 1 |-> None]
      /\ \A t \in Thread : pc[t] = IF t \in handles THEN "idle" ELSE "gone"
      /\ selectors = [s \in {Senders, Receivers} |-> <<>>]
      /\ is_empty = [s \in {Senders, Receivers} |-> TRUE]
      /\ selected = [t \in Thread |-> "waiting"]
      /\ destroy = FALSE /\ freed = FALSE
  BY DEF Init
<1>4. \A n \in 0..(Cap - 1) : Enc(n) = n /\ Ix(n) = n /\ n \in Nat
  <2> TAKE n \in 0..(Cap - 1)
  <2>1. 0 * Cap + n = n /\ 0 * OneLap + n = n /\ n \in Nat
    BY Widths
  <2>2. Ix(0 * Cap + n) = n /\ Enc(0 * Cap + n) = 0 * OneLap + n
    BY EncOf
  <2> QED
    BY <2>1, <2>2
<1>5. Enc(0) = 0 /\ Ix(0) = 0
  BY <1>4, Widths
<1>6. ~Marked(0) /\ Index(0) = 0 /\ Position(0) = 0
  BY <1>5, EncFields
<1>7. H = 0 /\ N = 0 /\ Cap \in Nat \ {0}
  BY <1>3, <1>6, Widths DEF H, N
<1>8. \A t \in Thread : pc[t] \in {"idle", "gone"}
  BY <1>3
<1>9. TypeOK
  <2>1. /\ head \in Nat /\ ~Marked(head) /\ Index(head) < Cap /\ tail \in Nat /\ Index(tail) < Cap
        /\ stamp \in [0..Cap - 1 -> Nat] /\ slot \in [0..Cap - 1 -> Messages \union {None}]
    BY <1>3, <1>6, <1>7
  <2>2. pc \in [Thread -> Places] /\ mode \in [Thread -> {"try", "block", "timed"}]
    BY DEF Init, Places
  <2>3. /\ loc \in [Thread -> Nat] /\ aux \in [Thread -> Nat]
        /\ selectors \in [{Senders, Receivers} -> Seq(Thread)]
    BY DEF Init
  <2>4. is_empty \in [{Senders, Receivers} -> BOOLEAN] /\ destroy \in BOOLEAN /\ freed \in BOOLEAN
    BY <1>3, Zenon
  <2>5. /\ selected \in [Thread -> {"waiting", "aborted", "disconnected", "operation"}]
        /\ token \subseteq Thread /\ log \in Seq(Messages) /\ got \subseteq Messages /\ dropped \subseteq Messages
    BY <1>3
  <2> QED
    BY <1>2, <2>1, <2>2, <2>3, <2>4, <2>5 DEF TypeOK
<1>10. Ring
  <2>1. EndsOK
    BY <1>3, <1>5, <1>7 DEF EndsOK
  <2>2. LocOK /\ AuxOK /\ ClaimOK
    BY <1>8 DEF LocOK, LocOf, AuxOK, AuxOf, ClaimOK, ClaimOf, InCall
  <2>3. WritersOK /\ ReadersOK /\ OwnersDiffer
    BY <1>8 DEF WritersOK, WriterOf, ReadersOK, ReaderOf, OwnersDiffer, InFlight, Thread
  <2>4. SlotsOK
    <3> SUFFICES ASSUME NEW n \in Window
                 PROVE  SlotOK(n)
      BY DEF SlotsOK
    <3>1. n \in 0..(Cap - 1) /\ ~(n < N)
      BY <1>7 DEF Window
    <3>2. Free(n)
      BY <1>3, <1>4, <3>1 DEF Free
    <3> QED
      BY <3>1, <3>2 DEF SlotOK
  <2>5. LogOK
    BY <1>7 DEF LogOK
  <2>6. BudgetOK
    BY <1>8 DEF BudgetOK, Calling, Thread
  <2>7. GotOK
    BY <1>3, <1>7 DEF GotOK
  <2> QED
    BY <2>1, <2>2, <2>3, <2>4, <2>5, <2>6, <2>7 DEF Ring
<1>11. Counter
  <2>1. HandlesOK
    BY <1>3 DEF HandlesOK, Leaving
  <2>2. LastOK /\ WakingOK /\ ClosedOK
    BY <1>8 DEF LastOK, WakingOK, ClosedOK, Leaving, Thread
  <2>3. MarkedOK /\ DestroyOK
    BY <1>3, <1>6 DEF MarkedOK, DestroyOK
  <2> QED
    BY <2>1, <2>2, <2>3 DEF Counter
<1>12. Queues
  <2>1. FlagOK
    BY <1>3, Zenon DEF FlagOK
  <2>2. EntriesOK /\ \A t \in Thread : ~Queued(t)
    BY <1>3 DEF EntriesOK, Queued, Entries, Side
  <2>3. MembersOK
    BY <1>8, <2>2 DEF MembersOK, Registered, Blocked
  <2>4. UnregisterOK /\ TokenOK
    BY <1>8 DEF UnregisterOK, UnregisterOf, TokenOK, TokenOf
  <2> QED
    BY <2>1, <2>2, <2>3, <2>4 DEF Queues
<1>13. Wakeups
  <2>1. \A t \in Thread : ~Waits(t)
    BY <1>8 DEF Waits
  <2> QED
    BY <2>1 DEF Wakeups, ReceiversWoken, SendersWoken, AllWoken, Thread
<1>14. FreedOK
  BY <1>3 DEF FreedOK
<1> QED
  BY <1>9, <1>10, <1>11, <1>12, <1>13, <1>14 DEF IInv

\* A step that changes nothing.
LEMMA StutterInv ==
  ASSUME IInv, UNCHANGED vars
  PROVE  IInv'
<1>1. /\ UNCHANGED <<head, tail, stamp, slot, modes, pc, mode, loc, aux, selectors, is_empty>>
      /\ UNCHANGED <<selected, token, handles, destroy, freed, log, got, dropped>>
  BY DEF vars, ends, slots, wakers, refs, history
<1>2. TypeOK'
  BY <1>1, Zenon DEF IInv, TypeOK
<1>3. H' = H /\ N' = N /\ \A t \in Thread : At(t)' = At(t) /\ SentBy(t)' = SentBy(t)
  BY <1>1, SentBySame DEF H, N, At
<1>4. Ring'
  <2>1. EndsOK'
    BY <1>1, <1>3 DEF IInv, Ring, EndsOK
  <2>2. LocOK' /\ AuxOK' /\ ClaimOK'
    BY <1>1, <1>3 DEF IInv, Ring, LocOK, LocOf, AuxOK, AuxOf, ClaimOK, ClaimOf
  <2>3. WritersOK' /\ ReadersOK' /\ OwnersDiffer'
    BY <1>1, <1>3 DEF IInv, Ring, WritersOK, WriterOf, ReadersOK, ReaderOf, OwnersDiffer, Thread
  <2>4. SlotsOK'
    <3>1. \A n \in Window : SlotOK(n)' <=> SlotOK(n)
      BY <1>1, <1>3 DEF SlotOK, Writing, Full, Free, Reading, Thread
    <3>2. Window' = Window
      BY <1>3 DEF Window
    <3> QED
      BY <1>1, <3>1, <3>2 DEF IInv, Ring, SlotsOK
  <2>5. LogOK' /\ BudgetOK'
    BY <1>1, <1>3 DEF IInv, Ring, LogOK, BudgetOK, Thread
  <2>6. GotOK'
    BY <1>1, <1>3 DEF IInv, Ring, GotOK, Thread
  <2> QED
    BY <2>1, <2>2, <2>3, <2>4, <2>5, <2>6 DEF Ring
<1>5. Counter'
  BY <1>1, <1>3 DEF IInv, Counter, HandlesOK, LastOK, MarkedOK, WakingOK, DestroyOK, ClosedOK
<1>6. Queues'
  BY <1>1 DEF IInv, Queues, FlagOK, EntriesOK, MembersOK, Registered, Queued, Entries,
              UnregisterOK, UnregisterOf, TokenOK, TokenOf
<1>7. Wakeups'
  <2>1. \A t \in Thread : (Waits(t)' <=> Waits(t)) /\ (Retries(t)' <=> Retries(t)) /\ (Notifies(t)' <=> Notifies(t))
    BY <1>1 DEF Waits, Retries, Notifies
  <2>2. ForReceivers' = ForReceivers /\ ForSenders' = ForSenders
    <3>1. /\ Notifying(Sender)' = Notifying(Sender) /\ Retrying(Sender)' = Retrying(Sender)
          /\ Notifying(Receiver)' = Notifying(Receiver) /\ Retrying(Receiver)' = Retrying(Receiver)
      BY <2>1 DEF Notifying, Retrying, Thread
    <3> QED
      BY <3>1, Supplies DEF ForReceivers, ForSenders
  <2> QED
    BY <1>1, <1>3, <2>1, <2>2 DEF IInv, Wakeups, ReceiversWoken, SendersWoken, AllWoken, Thread
<1>8. FreedOK'
  BY <1>1 DEF IInv, FreedOK
<1> QED
  BY <1>2, <1>4, <1>5, <1>6, <1>7, <1>8 DEF IInv

\* IInv is an inductive invariant of the channel.
THEOREM Invariance == Spec => []IInv
<1>1. IInv /\ [Next]_vars => IInv'
  <2> SUFFICES ASSUME IInv, [Next]_vars
               PROVE  IInv'
    OBVIOUS
  <2>1. ASSUME NEW t \in Thread, Call(t) \/ Drop(t) \/ Step(t), UNCHANGED modes
        PROVE  IInv'
    <3>1. CASE Call(t) \/ Drop(t) \/ Closed(t)
      BY <2>1, <3>1, CallInv, ClosedDropInv
    <3>2. CASE Load(t) \/ Inspect(t) \/ Probe(t)
      BY <2>1, <3>2, LoadInv, InspectInv, ProbeInv
    <3>3. CASE Claim(t) \/ Access(t) \/ Publish(t)
      BY <2>1, <3>3, ClaimInv, AccessInv, PublishInv
    <3>4. CASE Notify(t) \/ Select(t)
      BY <2>1, <3>4, NotifyInv, SelectInv
    <3>5. CASE Register(t) \/ FirstLoad(t) \/ SecondLoad(t) \/ IsDisconnected(t)
      BY <2>1, <3>5, RegisterInv, FirstLoadInv, SecondLoadInv, IsDisconnectedInv
    <3>6. CASE Abort(t) \/ WaitUntil(t) \/ Park(t) \/ Deadline(t) \/ Unregister(t)
      BY <2>1, <3>6, OwnWakeInv, WaitUntilInv, UnregisterInv
    <3>7. CASE Release(t) \/ Mark(t) \/ Disconnect(t) \/ Destroy(t)
      BY <2>1, <3>7, ReleaseInv, MarkInv, DisconnectInv, DestroyInv
    <3> QED
      BY <2>1, <3>1, <3>2, <3>3, <3>4, <3>5, <3>6, <3>7 DEF Step
  <2>2. CASE UNCHANGED vars
    BY <2>2, StutterInv
  <2> QED
    BY <2>1, <2>2 DEF Next, Terminated
<1> QED
  BY InitInv, <1>1, PTL DEF Spec

\* The ends, the stamps and the slots keep their types: an index never runs
\* into the mark bit of head, and no uninitialized slot is read or dropped.
THEOREM TypeCorrect == Spec => []TypeOK
<1>1. IInv => TypeOK
  BY DEF IInv
<1> QED
  BY <1>1, Invariance, PTL

\* First in, first out: the receiver that claimed position n finds the n-th
\* message in its slot, a sender finds its slot empty.
THEOREM FirstInFirstOut == Spec => []FIFO
<1>1. IInv => FIFO
  <2> SUFFICES ASSUME IInv, NEW t \in Thread, pc[t] = "access"
               PROVE  IF t \in Sender
                      THEN slot[Index(loc[t])] = None
                      ELSE Position(loc[t]) < Len(log) /\ slot[Index(loc[t])] = log[Position(loc[t]) + 1]
    BY DEF FIFO
  <2>1. At(t) \in Nat /\ Index(loc[t]) = Ix(At(t))
    <3>1. At(t) \in Nat /\ loc[t] = Enc(At(t))
      BY DEF IInv, Ring, LocOK, LocOf, InCall
    <3> QED
      BY <3>1, EncFields
  <2>2. CASE t \in Sender
    BY <2>1, <2>2 DEF IInv, Ring, WritersOK, WriterOf, InFlight
  <2>3. CASE t \notin Sender
    <3>1. At(t) < H /\ H <= N /\ slot[Ix(At(t))] = log[At(t) + 1]
      BY <2>3 DEF IInv, Ring, ReadersOK, ReaderOf, InFlight, EndsOK, Thread
    <3>2. N \in Nat /\ H \in Nat
      BY EndFacts DEF IInv, Ring
    <3>3. At(t) < N
      BY <2>1, <3>1, <3>2
    <3> QED
      BY <2>1, <2>3, <3>1, <3>3 DEF At, N
  <2> QED
    BY <2>2, <2>3
<1> QED
  BY <1>1, Invariance, PTL

\* A receiver that hears "disconnected" leaves no message behind and no sender.
THEOREM DisconnectedIsDrained == Spec => []DisconnectedMeansDrained
<1>1. IInv => DisconnectedMeansDrained
  <2> SUFFICES ASSUME IInv, NEW t \in Receiver, pc[t] = "closed"
               PROVE  Sender \intersect handles = {} /\ Position(head) = Len(log)
    BY DEF DisconnectedMeansDrained
  <2>1. Marked(tail) /\ H = N
    BY DEF IInv, Counter, ClosedOK
  <2>2. t \in handles
    BY DEF IInv, Counter, HandlesOK, Thread, Leaving
  <2> QED
    BY <2>1, <2>2 DEF IInv, Counter, MarkedOK, H, N
<1> QED
  BY <1>1, Invariance, PTL

\* The unwrap() of unregister cannot fail, and nobody is registered twice.
THEOREM Registration == Spec => []RegisteredOnce
<1>1. IInv => RegisteredOnce
  <2> SUFFICES ASSUME IInv, NEW t \in Thread
               PROVE  LET n == Cardinality({i \in DOMAIN selectors[Side(t)] : selectors[Side(t)][i] = t})
                      IN  CASE pc[t] \in {"ready1", "ready2", "ready3", "abort", "wait", "park"} ->
                                 n = IF selected[t] = "operation" THEN 0 ELSE 1
                            [] pc[t] = "unregister" -> n = 1
                            [] OTHER -> n = 0
    BY DEF RegisteredOnce
  <2> DEFINE E == {i \in DOMAIN selectors[Side(t)] : selectors[Side(t)][i] = t}
  <2>1. Registered(t) <=> E # {}
    BY DEF IInv, Queues, MembersOK, Queued, Entries
  <2>2. \A i, j \in E : i = j
    <3>1. Side(t) \in {Senders, Receivers}
      BY DEF Side
    <3> QED
      BY <3>1 DEF IInv, Queues, EntriesOK, Entries
  <2>3. Cardinality(E) = IF Registered(t) THEN 1 ELSE 0
    <3>1. CASE E = {}
      BY <2>1, <3>1, FS_EmptySet
    <3>2. CASE E # {}
      <4>1. PICK i \in E : TRUE
        BY <3>2
      <4>2. E = {i}
        BY <2>2, <4>1
      <4> HIDE DEF E
      <4>3. Cardinality({i}) = 1
        BY FS_Singleton
      <4> QED
        BY <2>1, <3>2, <4>2, <4>3
    <3> QED
      BY <3>1, <3>2
  <2> HIDE DEF E
  <2>4. CASE pc[t] \in {"ready1", "ready2", "ready3", "abort", "wait", "park"}
    <3>1. Registered(t) <=> selected[t] # "operation"
      BY <2>4 DEF Registered, Blocked
    <3> QED
      BY <2>3, <2>4, <3>1 DEF E
  <2>5. CASE pc[t] = "unregister"
    <3>1. Registered(t)
      BY <2>5 DEF Registered
    <3> QED
      BY <2>3, <2>5, <3>1 DEF E
  <2>6. CASE pc[t] \notin {"ready1", "ready2", "ready3", "abort", "wait", "park", "unregister"}
    <3>1. ~Registered(t)
      BY <2>6 DEF Registered, Blocked
    <3> QED
      BY <2>3, <2>6, <3>1 DEF E
  <2> QED
    BY <2>4, <2>5, <2>6
<1> QED
  BY <1>1, Invariance, PTL

\* No lost wakeup: once everybody rests, whoever is parked has reason to be.
THEOREM NoLostWakeup == Spec => []NobodyStuck
<1>1. IInv => NobodyStuck
  <2> SUFFICES ASSUME IInv, \A u \in Thread : AtRest(u), NEW t \in Thread, pc[t] = "park"
               PROVE  /\ ~Marked(tail)
                      /\ Len(log) = Position(head) + IF t \in Sender THEN Cap ELSE 0
    BY DEF NobodyStuck
  <2>1. \A u \in Thread : pc[u] \in {"idle", "gone", "park"} /\ (pc[u] = "park" => selected[u] = "waiting")
    BY DEF AtRest, IInv, Queues, TokenOK, TokenOf
  <2>2. Waits(t)
    BY <2>1 DEF Waits
  <2>3. ~Marked(tail)
    BY <2>1, <2>2 DEF IInv, Wakeups, AllWoken
  <2>4. \A u \in Thread : ~Notifies(u) /\ ~Retries(u)
    BY <2>1 DEF Notifies, Retries, Blocked
  <2>5. ForReceivers = 0 /\ ForSenders = 0
    <3>1. Notifying(Sender) = {} /\ Notifying(Receiver) = {} /\ Retrying(Sender) = {} /\ Retrying(Receiver) = {}
      BY <2>4 DEF Notifying, Retrying, Thread
    <3> QED
      BY <3>1, FS_EmptySet DEF ForReceivers, ForSenders
  <2>6. N \in Nat /\ H \in Nat /\ Cap \in Nat /\ H <= N /\ N <= H + Cap
    BY EndFacts DEF IInv, Ring, EndsOK
  <2>7. CASE t \in Sender
    <3>1. Cap - (N - H) <= 0
      BY <2>2, <2>3, <2>5, <2>7 DEF IInv, Wakeups, SendersWoken
    <3>2. N = H + Cap
      BY <2>6, <3>1
    <3> QED
      BY <2>3, <2>7, <3>2 DEF N, H
  <2>8. CASE t \notin Sender
    <3>1. N - H <= 0
      BY <2>2, <2>3, <2>5, <2>8 DEF IInv, Wakeups, ReceiversWoken, Thread
    <3>2. N = H + 0
      BY <2>6, <3>1
    <3> QED
      BY <2>3, <2>8, <3>2 DEF N, H
  <2> QED
    BY <2>7, <2>8
<1> QED
  BY <1>1, Invariance, PTL

\* The channel is freed last, with empty queues, and every message was either
\* received or dropped with it, not both.
THEOREM NoUseAfterFree == Spec => []FreedLast
<1>1. IInv => FreedLast
  <2> SUFFICES ASSUME IInv, freed
               PROVE  /\ \A t \in Thread : pc[t] = "gone"
                      /\ \A s \in {Senders, Receivers} : selectors[s] = <<>> /\ is_empty[s]
                      /\ \A i \in DOMAIN slot : slot[i] = None
                      /\ got \union dropped = ToSet(log) /\ got \intersect dropped = {}
    BY DEF FreedLast
  <2>1. /\ \A t \in Thread : pc[t] = "gone"
        /\ \A i \in 0..(Cap - 1) : slot[i] = None
        /\ got \union dropped = ToSet(log) /\ got \intersect dropped = {}
    BY DEF IInv, FreedOK
  <2>2. DOMAIN slot = 0..(Cap - 1)
    BY DEF IInv, TypeOK
  <2>3. \A s \in {Senders, Receivers} : selectors[s] = <<>>
    <3> SUFFICES ASSUME NEW s \in {Senders, Receivers}, selectors[s] # <<>>
                 PROVE  FALSE
      OBVIOUS
    <3>1. selectors[s] \in Seq(Thread)
      BY DEF IInv, TypeOK
    <3>2. 1 \in Entries(s) /\ selectors[s][1] \in Thread
      BY <3>1 DEF Entries
    <3>3. Side(selectors[s][1]) = s
      BY <3>2 DEF IInv, Queues, EntriesOK
    <3>4. Queued(selectors[s][1])
      BY <3>2, <3>3 DEF Queued
    <3>5. Registered(selectors[s][1])
      BY <3>2, <3>4 DEF IInv, Queues, MembersOK
    <3> QED
      BY <2>1, <3>2, <3>5 DEF Registered, Blocked
  <2>4. \A s \in {Senders, Receivers} : is_empty[s]
    BY <2>3, Zenon DEF IInv, Queues, FlagOK
  <2> QED
    BY <2>1, <2>2, <2>3, <2>4
<1> QED
  BY <1>1, Invariance, PTL
=============================================================================
