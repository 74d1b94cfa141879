------------------------- MODULE SessionDirsProofs --------------------------
(***************************************************************************)
(* Proofs about the session directories, for any set of processes and any  *)
(* number of sessions, errors and deaths.                                  *)
(*                                                                         *)
(* The inductive invariant says which lock a process holds where it acts   *)
(* on a directory (Holding), what keeps the steps that act without a lock  *)
(* away from the directory of a session (Starting, NotGarbage), and where  *)
(* what an invalid session left can be (Invalid).  A second invariant      *)
(* follows a collection from its listing to its end (Swept).               *)
(***************************************************************************)
EXTENDS SessionDirs, WellFoundedInduction, TLAPS

\* The places in the code.
Preparing == {"created", "mkdir"}
Reading == {"open", "flock", "read", "copy"}
Collecting == {"gc", "tryLock", "delete", "deleteDir", "unlink", "unlock"}
Deleting == {"deleteDir", "unlink", "unlock"}
Working == {"find", "open", "flock", "read", "copy", "undo", "compile"}
Leaving == {"undoLock", "release", "discardLock", "invalidate"}
PCs == {"idle", "collect", "renameInvalid", "exit"} \union
       Preparing \union Collecting \union Working \union Leaving

Names == {"none", "working", "final"}
Listings == [Dir -> [name : Names, lock : BOOLEAN]]

\* The type of every variable.
TypeOK ==
  /\ name \in [Dir -> Names] /\ data \in [Dir -> {"good", "partial", "bad"}]
  /\ linked \subseteq Dir /\ old \subseteq Dir /\ used \in 0..MaxDir
  /\ ex \in [Dir -> Proc \union {None}] /\ sh \in [Dir -> SUBSET Proc]
  /\ pc \in [Proc -> PCs]
  /\ own \in [Proc -> 0..MaxDir] /\ src \in [Proc -> 0..MaxDir]
  /\ tried \in [Proc -> SUBSET (0..MaxDir)]
  /\ based \in [Proc -> {"nothing", "good", "partial", "bad"}]
  /\ live \in [Proc -> BOOLEAN] /\ listed \in [Proc -> Listings]
  /\ todo \in [Proc -> SUBSET Dir] /\ locked \in [Proc -> SUBSET Dir]
  /\ faults \in Nat /\ deaths \in Nat /\ quiet \in Proc \union {None}

\* Timestamps are used once, and nobody knows of one before.
Fresh ==
  /\ \A d \in Dir : d > used => name[d] = "none" /\ d \notin linked /\ d \notin old
  /\ \A p \in Proc :
       /\ own[p] <= used /\ src[p] <= used
       /\ \A d \in Dir : d > used =>
            d \notin todo[p] \union locked[p] /\ listed[p][d].name = "none"
       /\ pc[p] # "idle" => own[p] # 0
       /\ pc[p] \in Deleting \union {"tryLock"} => src[p] # 0
  /\ \A p, q \in Proc : own[p] = own[q] /\ own[p] # 0 => p = q

\* When a process has a private directory, and when a collection has something to
\* inspect, candidates, or a directory it acts on: one that was listed.
Phase ==
  \A p \in Proc :
    /\ pc[p] \in Working => live[p]
    /\ live[p] => pc[p] \in Working \union Collecting \union {"collect"}
    /\ pc[p] \notin Collecting => locked[p] = {}
    /\ pc[p] = "delete" \/ (pc[p] \in Deleting /\ src[p] \in locked[p]) => todo[p] = {}
    /\ \A d \in locked[p] : listed[p][d].name # "none"
    /\ pc[p] \in Deleting \union {"tryLock"} => listed[p][src[p]].name # "none"

\* A session holds the lock of its directory, a collection the locks of what it
\* deletes, and these are different.
HoldsOwn ==
  \A p \in Proc : live[p] \/ pc[p] \in Leaving \union {"mkdir"} => ex[own[p]] = p
HoldsSource ==
  \A p \in Proc : pc[p] \in Deleting => ex[src[p]] = p /\ (live[p] => src[p] # own[p])
HoldsCandidates ==
  \A p \in Proc : \A d \in locked[p] : ex[d] = p /\ (live[p] => d # own[p])
Holding == HoldsOwn /\ HoldsSource /\ HoldsCandidates

\* A session that is about to create its directory: nobody has heard of it.
Starting ==
  \A p \in Proc : pc[p] \in Preparing =>
    /\ name[own[p]] = "none" /\ own[p] \in linked
    /\ \A q \in Proc : /\ listed[q][own[p]].name = "none"
                       /\ pc[q] \in Reading => src[q] # own[p]

\* No collection takes the directory of a session for what may be removed without
\* locking.
NotGarbage ==
  \A p, q \in Proc : live[p] \/ pc[p] \in Preparing => own[p] \notin DirOnly(q)

\* What protects a reader: the collector that holds the exclusive lock is alone,
\* and what is removed without a lock has no lock file.
Exclusive == \A d \in Dir : ex[d] # None => sh[d] = {}
Sharing ==
  \A p \in Proc : pc[p] \in Reading =>
    /\ src[p] \in Dir /\ name[src[p]] # "working"
    /\ pc[p] \in {"read", "copy"} => p \in sh[src[p]]
OrphansUnlinked == \A q \in Proc : DirOnly(q) \intersect linked = {}
Protected == Exclusive /\ Sharing /\ OrphansUnlinked

\* Where the contents of an invalid session can be.  Unless both its directory
\* and its lock file could not be removed, what can be copied is not invalid.
OnlyAfterError == \A d \in Dir : data[d] = "bad" => d <= used /\ faults > 0
NotInUse ==
  \A p \in Proc : live[p] \/ pc[p] \in Preparing => data[own[p]] # "bad"
FinalUnlinked ==
  faults < 2 => \A d \in Dir : name[d] = "final" /\ data[d] = "bad" => d \notin linked
RenamedUnlinked ==
  faults < 2 => \A p \in Proc :
    pc[p] \in {"invalidate", "renameInvalid"} /\ data[own[p]] = "bad" => own[p] \notin linked
SourceValid ==
  faults < 2 => \A p \in Proc :
    pc[p] \in {"flock", "read", "copy"} /\ name[src[p]] = "final" => data[src[p]] # "bad"
Invalid == OnlyAfterError /\ NotInUse /\ FinalUnlinked /\ RenamedUnlinked /\ SourceValid

\* The inductive invariant.
IInv ==
  /\ TypeOK /\ Fresh /\ Phase /\ Holding /\ Starting /\ NotGarbage /\ PrivateDirKept
  /\ Protected /\ Invalid /\ InvalidNeverReused

-----------------------------------------------------------------------------
(* What the helpers do.                                                     *)

\* A nonempty set of numbers has a least element ...
LEMMA MinExists ==
  ASSUME NEW S \in SUBSET Nat, S # {}
  PROVE  \E x \in S : \A y \in S : x <= y
<1>1. IsWellFoundedOn(OpToRel(<, Nat), Nat)
  BY NatLessThanWellFounded
<1>2. PICK x \in S : \A y \in S : ~(<<y, x>> \in OpToRel(<, Nat))
  BY <1>1, WFMin, Zenon
<1>3. \A y \in S : y < x => <<y, x>> \in OpToRel(<, Nat)
  BY DEF OpToRel
<1>4. \A y \in S : ~(y < x)
  BY <1>2, <1>3
<1>5. x \in Nat /\ \A y \in S : y \in Nat
  OBVIOUS
<1>6. \A y \in S : x <= y
  BY <1>4, <1>5
<1> QED
  BY <1>6

\* ... and a nonempty set of timestamps a newest one, which find_source_directory
\* picks.
LEMMA MaxExists ==
  ASSUME NEW n \in Nat, NEW S \in SUBSET (1..n), S # {}
  PROVE  \E x \in S : \A y \in S : x >= y
<1> DEFINE T == {n - x : x \in S}
<1>1. \A x \in S : x \in 1..n /\ n - x \in Nat /\ n - (n - x) = x
  OBVIOUS
<1>2. T \in SUBSET Nat /\ T # {}
  BY <1>1
<1>3. PICK m \in T : \A y \in T : m <= y
  BY <1>2, MinExists
<1>4. PICK x \in S : m = n - x
  OBVIOUS
<1>5. \A y \in S : n - x <= n - y
  BY <1>3, <1>4
<1>6. \A y \in S : x >= y
  BY <1>1, <1>5
<1> QED
  BY <1>6

\* The directories that sessions and collections work with, and candidates.
InRange ==
  /\ \A q \in Proc : live[q] \/ pc[q] # "idle" => own[q] \in Dir
  /\ \A q \in Proc : pc[q] \in Deleting \union {"tryLock"} => src[q] \in Dir
  /\ \A q \in Proc : pc[q] \notin Collecting => locked[q] = {}

\* The invariant implies that.
LEMMA Ranges ==
  ASSUME IInv
  PROVE  InRange
<1> USE ConstantsAssumption DEF IInv, Dir, TypeOK, PCs, Preparing, Collecting,
        Deleting, Working, Leaving
<1>1. \A q \in Proc : live[q] => pc[q] # "idle"
  BY DEF Phase
<1>2. \A q \in Proc : pc[q] # "idle" => own[q] \in Dir
  BY DEF Fresh
<1>3. \A q \in Proc : pc[q] \in Deleting \union {"tryLock"} => src[q] \in Dir
  BY DEF Fresh
<1>4. \A q \in Proc : pc[q] \notin Collecting => locked[q] = {}
  BY DEF Phase
<1> QED
  BY <1>1, <1>2, <1>3, <1>4 DEF InRange

\* The removal of a directory, whether or not it goes well: nothing happens to
\* other directories or under another name, and only an error touches contents.
Removed(d, n, rest) ==
  /\ name' \in [Dir -> Names] /\ data' \in [Dir -> {"good", "partial", "bad"}]
  /\ faults' \in Nat /\ faults <= faults'
  /\ \A e \in Dir : e # d => name'[e] = name[e] /\ data'[e] = data[e]
  /\ name[d] # n => name'[d] = name[d] /\ data'[d] = data[d]
  /\ name'[d] = name[d] \/ (name'[d] = "none" /\ data'[d] = data[d])
  /\ data'[d] = data[d] \/ (data'[d] = rest /\ faults' = faults + 1)

\* safe_remove_dir_all does that.
LEMMA RemoveEffect ==
  ASSUME TypeOK, NEW d \in Dir, NEW n, NEW rest \in {"partial", "bad"},
         (Remove(d, n) /\ NoFault) \/ RemoveFails(d, n, rest)
  PROVE  Removed(d, n, rest)
<1>1. CASE Remove(d, n) /\ NoFault
  BY <1>1 DEF Remove, NoFault, Removed, TypeOK, Names
<1>2. CASE RemoveFails(d, n, rest)
  BY <1>2 DEF RemoveFails, Fault, Removed, TypeOK, Names
<1> QED
  BY <1>1, <1>2

\* The removal of a lock file, whether or not it goes well: others stay, and only
\* an error leaves it in place.
Unlinked(d) ==
  /\ linked' \subseteq linked /\ linked \ {d} \subseteq linked'
  /\ faults' \in Nat /\ faults <= faults'
  /\ d \in linked' => faults' = faults + 1

\* delete_session_dir_lock_file does that.
LEMMA UnlinkEffect ==
  ASSUME TypeOK, NEW d, Unlink(d)
  PROVE  Unlinked(d)
<1>1. CASE linked' = linked \ {d} /\ NoFault
  BY <1>1 DEF NoFault, Unlinked, TypeOK
<1>2. CASE d \in linked /\ UNCHANGED linked /\ Fault
  BY <1>2 DEF Fault, Unlinked, TypeOK
<1> QED
  BY <1>1, <1>2 DEF Unlink

\* Dropping locks frees the process's own ones among ds, and no others.
Unlocked(p, ds) ==
  /\ ex' \in [Dir -> Proc \union {None}]
  /\ \A d \in Dir : IF d \in ds /\ ex[d] = p THEN ex'[d] = None ELSE ex'[d] = ex[d]

\* Dropping a lock, or all of a set, does that.
LEMMA UnlockEffect ==
  ASSUME TypeOK, NEW p \in Proc, NEW ds, Unlock(p, ds)
  PROVE  Unlocked(p, ds)
  BY DEF Unlock, Unlocked, TypeOK

-----------------------------------------------------------------------------
(* The invariant is inductive.                                              *)

\* prepare_session_directory preserves the invariant.
LEMMA PrepareStep ==
  ASSUME IInv, NEW p \in Proc, Prepare(p),
         deaths' \in Nat, quiet' \in Proc \union {None}
  PROVE  IInv'
<1> USE ConstantsAssumption DEF IInv, Dir, PCs, Preparing, Reading, Collecting, Deleting,
       Working, Leaving, Names, Listings
<1>0. InRange
  BY Ranges
<1> USE <1>0 DEF InRange
<1>1. CASE Begin(p)
  <2>a. ~live[p]
    BY <1>1 DEF Begin, Phase, TypeOK
  <2> USE <1>1, <2>a DEF Begin, Goto, NoFault, files, locks, local
  <2>1. TypeOK'
    BY DEF TypeOK
  <2>2. Fresh'
    BY DEF TypeOK, Fresh
  <2>3. Phase'
    BY DEF Phase
  <2>4. Holding'
    BY DEF Holding, HoldsOwn, HoldsSource, HoldsCandidates
  <2>5. Starting'
    BY DEF TypeOK, Fresh, Starting
  <2>6. NotGarbage'
    BY DEF TypeOK, Fresh, NotGarbage, DirOnly
  <2>7. PrivateDirKept'
    BY DEF PrivateDirKept
  <2>8. Protected'
    BY DEF TypeOK, Fresh, Protected, Exclusive, Sharing, OrphansUnlinked, DirOnly
  <2>9. Invalid'
    BY DEF TypeOK, Invalid, OnlyAfterError, NotInUse, FinalUnlinked, RenamedUnlinked,
           SourceValid
  <2>10. InvalidNeverReused'
    BY DEF InvalidNeverReused
  <2> QED
    BY <2>1, <2>2, <2>3, <2>4, <2>5, <2>6, <2>7, <2>8, <2>9, <2>10 DEF IInv
<1>2. CASE LockOwn(p)
  <2> USE <1>2 DEF LockOwn, Goto, NoFault, files, locks, local, Free
  <2>1. TypeOK'
    BY DEF TypeOK
  <2>2. Fresh'
    BY DEF Fresh
  <2>3. Phase'
    BY DEF Phase
  <2>4. Holding'
    BY DEF TypeOK, Holding, HoldsOwn, HoldsSource, HoldsCandidates
  <2>5. Starting'
    BY DEF Starting
  <2>6. NotGarbage'
    BY DEF NotGarbage, DirOnly
  <2>7. PrivateDirKept'
    BY DEF PrivateDirKept
  <2>8. Protected'
    BY DEF Protected, Exclusive, Sharing, OrphansUnlinked, DirOnly
  <2>9. Invalid'
    BY DEF Invalid, OnlyAfterError, NotInUse, FinalUnlinked, RenamedUnlinked, SourceValid
  <2>10. InvalidNeverReused'
    BY DEF InvalidNeverReused
  <2> QED
    BY <2>1, <2>2, <2>3, <2>4, <2>5, <2>6, <2>7, <2>8, <2>9, <2>10 DEF IInv
<1>3. CASE CreateDir(p)
  <2>a. own[p] \in Dir
    BY <1>3 DEF TypeOK, Fresh, CreateDir
  <2>b. ~live[p]
    BY <1>3 DEF CreateDir, Phase, TypeOK
  <2> USE <1>3, <2>a, <2>b DEF CreateDir, Goto, NoFault, files, locks, local
  <2>1. TypeOK'
    BY DEF TypeOK
  <2>2. Fresh'
    BY DEF TypeOK, Fresh
  <2>3. Phase'
    BY DEF TypeOK, Phase
  <2>4. Holding'
    <3>1. HoldsOwn'
      BY DEF Holding, HoldsOwn
    <3>2. HoldsSource'
      BY DEF Holding, HoldsSource
    <3>3. HoldsCandidates'
      <4> SUFFICES ASSUME NEW q \in Proc, NEW d \in locked[q]
                   PROVE  ex'[d] = q /\ (live'[q] => d # own[q])
        BY DEF HoldsCandidates
      <4>1. q # p /\ d \in Dir
        BY DEF TypeOK
      <4>2. ex[d] = q /\ (live[q] => d # own[q])
        BY DEF Holding, HoldsCandidates
      <4>3. live'[q] = live[q]
        BY <4>1 DEF TypeOK
      <4>4. ex'[d] = ex[d]
        BY <4>1, <4>2 DEF TypeOK
      <4> QED
        BY <4>2, <4>3, <4>4
    <3> QED
      BY <3>1, <3>2, <3>3 DEF Holding
  <2>5. Starting'
    BY DEF TypeOK, Fresh, Starting
  <2>6. NotGarbage'
    BY DEF NotGarbage, DirOnly
  <2>7. PrivateDirKept'
    BY DEF TypeOK, Starting, PrivateDirKept
  <2>8. Protected'
    BY DEF Starting, Protected, Exclusive, Sharing, OrphansUnlinked, DirOnly
  <2>9. Invalid'
    BY DEF Invalid, OnlyAfterError, NotInUse, FinalUnlinked, RenamedUnlinked, SourceValid
  <2>10. InvalidNeverReused'
    BY DEF InvalidNeverReused
  <2> QED
    BY <2>1, <2>2, <2>3, <2>4, <2>5, <2>6, <2>7, <2>8, <2>9, <2>10 DEF IInv
<1>4. CASE FindSource(p)
  <2>a. /\ pc[p] = "find" /\ faults' = faults
        /\ UNCHANGED <<files, locks, old, used, own, tried, based, live, listed, todo, locked>>
    BY <1>4 DEF FindSource, NoFault
  <2>b. PICK l \in {"collect", "open"}, d \in 0..MaxDir :
        /\ pc' = [pc EXCEPT ![p] = l] /\ src' = [src EXCEPT ![p] = d]
        /\ IF l = "open" THEN d \in Dir /\ name[d] = "final" ELSE d = src[p]
    <3> DEFINE candidates == Finals \ tried[p]
    <3>1. CASE candidates = {}
      <4>1. pc' = [pc EXCEPT ![p] = "collect"] /\ src' = [src EXCEPT ![p] = src[p]]
        BY <1>4, <3>1 DEF FindSource, Goto, TypeOK
      <4> QED
        BY <4>1 DEF TypeOK
    <3>2. CASE candidates # {}
      <4>1. \E d \in candidates : \A e \in candidates : d >= e
        BY <3>2, MaxExists DEF Finals
      <4>2. Max(candidates) \in candidates
        BY <4>1 DEF Max
      <4>3. Max(candidates) \in Dir /\ name[Max(candidates)] = "final"
        BY <4>2 DEF Finals
      <4>4. pc' = [pc EXCEPT ![p] = "open"] /\ src' = [src EXCEPT ![p] = Max(candidates)]
        BY <1>4, <3>2 DEF FindSource, Goto
      <4> HIDE DEF candidates
      <4>5. Max(candidates) \in 0..MaxDir
        BY <4>3
      <4> WITNESS "open" \in {"collect", "open"}, Max(candidates) \in 0..MaxDir
      <4> QED
        BY <4>3, <4>4
    <3> QED
      BY <3>1, <3>2
  <2> USE <2>a, <2>b DEF files, locks, local
  <2>1. TypeOK'
    BY DEF TypeOK
  <2>2. Fresh'
    BY DEF TypeOK, Fresh
  <2>3. Phase'
    BY DEF Phase
  <2>4. Holding'
    BY DEF Holding, HoldsOwn, HoldsSource, HoldsCandidates
  <2>5. Starting'
    BY DEF TypeOK, Starting
  <2>6. NotGarbage'
    BY DEF NotGarbage, DirOnly
  <2>7. PrivateDirKept'
    BY DEF PrivateDirKept
  <2>8. Protected'
    BY DEF TypeOK, Protected, Exclusive, Sharing, OrphansUnlinked, DirOnly
  <2>9. Invalid'
    BY DEF Invalid, OnlyAfterError, NotInUse, FinalUnlinked, RenamedUnlinked, SourceValid
  <2>10. InvalidNeverReused'
    BY DEF InvalidNeverReused
  <2> QED
    BY <2>1, <2>2, <2>3, <2>4, <2>5, <2>6, <2>7, <2>8, <2>9, <2>10 DEF IInv
<1>5. CASE OpenSource(p)
  <2> USE <1>5 DEF OpenSource, Goto, NoFault, files, locks, local
  <2>1. TypeOK'
    BY DEF TypeOK
  <2>2. Fresh'
    BY DEF Fresh
  <2>3. Phase'
    BY DEF Phase
  <2>4. Holding'
    BY DEF Holding, HoldsOwn, HoldsSource, HoldsCandidates
  <2>5. Starting'
    BY DEF Starting
  <2>6. NotGarbage'
    BY DEF NotGarbage, DirOnly
  <2>7. PrivateDirKept'
    BY DEF PrivateDirKept
  <2>8. Protected'
    BY DEF Protected, Exclusive, Sharing, OrphansUnlinked, DirOnly
  <2>9. Invalid'
    BY DEF TypeOK, Invalid, OnlyAfterError, NotInUse, FinalUnlinked, RenamedUnlinked,
           SourceValid
  <2>10. InvalidNeverReused'
    BY DEF InvalidNeverReused
  <2> QED
    BY <2>1, <2>2, <2>3, <2>4, <2>5, <2>6, <2>7, <2>8, <2>9, <2>10 DEF IInv
<1>6. CASE LockSource(p)
  <2>a. /\ src[p] \in Dir /\ pc[p] = "flock" /\ faults' = faults
        /\ UNCHANGED <<files, ex, old, used, local>>
    BY <1>6 DEF LockSource, NoFault, TypeOK, Protected, Sharing
  <2>b. PICK l \in {"read", "undo"}, readers \in SUBSET Proc :
        /\ pc' = [pc EXCEPT ![p] = l] /\ sh' = [sh EXCEPT ![src[p]] = readers]
        /\ IF l = "read" THEN ex[src[p]] = None /\ readers = sh[src[p]] \union {p}
                         ELSE readers = sh[src[p]]
    <3>1. CASE ex[src[p]] = None
      <4>1. pc' = [pc EXCEPT ![p] = "read"] /\ sh' = [sh EXCEPT ![src[p]] = sh[src[p]] \union {p}]
        BY <1>6, <3>1 DEF LockSource, Goto
      <4> QED
        BY <2>a, <3>1, <4>1 DEF TypeOK
    <3>2. CASE ex[src[p]] # None
      <4>1. pc' = [pc EXCEPT ![p] = "undo"] /\ sh' = [sh EXCEPT ![src[p]] = sh[src[p]]]
        BY <1>6, <3>2 DEF LockSource, Goto, TypeOK
      <4> QED
        BY <2>a, <4>1 DEF TypeOK
    <3> QED
      BY <3>1, <3>2
  <2> USE <2>a, <2>b DEF files, locks, local
  <2>1. TypeOK'
    BY DEF TypeOK
  <2>2. Fresh'
    BY DEF Fresh
  <2>3. Phase'
    BY DEF Phase
  <2>4. Holding'
    BY DEF Holding, HoldsOwn, HoldsSource, HoldsCandidates
  <2>5. Starting'
    BY DEF Starting
  <2>6. NotGarbage'
    BY DEF NotGarbage, DirOnly
  <2>7. PrivateDirKept'
    BY DEF PrivateDirKept
  <2>8. Protected'
    BY DEF TypeOK, Protected, Exclusive, Sharing, OrphansUnlinked, DirOnly
  <2>9. Invalid'
    BY DEF Invalid, OnlyAfterError, NotInUse, FinalUnlinked, RenamedUnlinked, SourceValid
  <2>10. InvalidNeverReused'
    BY DEF InvalidNeverReused
  <2> QED
    BY <2>1, <2>2, <2>3, <2>4, <2>5, <2>6, <2>7, <2>8, <2>9, <2>10 DEF IInv
<1>7. CASE CopyFiles(p)
  <2>a. /\ src[p] \in Dir /\ pc[p] = "copy" /\ sh' = [sh EXCEPT ![src[p]] = sh[src[p]] \ {p}]
        /\ UNCHANGED <<files, ex, old, used, own, src, tried, live, listed, todo, locked>>
    BY <1>7 DEF CopyFiles, TypeOK, Protected, Sharing
  <2>b. faults' \in Nat /\ faults <= faults'
    BY <1>7 DEF CopyFiles, Fault, NoFault, TypeOK
  <2>c. PICK l \in {"collect", "undo"}, b \in {"nothing", "good", "partial", "bad"} :
        /\ pc' = [pc EXCEPT ![p] = l] /\ based' = [based EXCEPT ![p] = b]
        /\ b \in {based[p], "partial"} \/ (b = data[src[p]] /\ name[src[p]] = "final")
    <3>1. CASE /\ pc' = [pc EXCEPT ![p] = "collect"]
               /\ based' = [based EXCEPT ![p] =
                    IF name[src[p]] = "final" THEN data[src[p]] ELSE "partial"]
      <4>1. CASE name[src[p]] = "final"
        BY <2>a, <3>1, <4>1 DEF TypeOK
      <4>2. CASE name[src[p]] # "final"
        BY <3>1, <4>2
      <4> QED
        BY <4>1, <4>2
    <3>2. CASE pc' = [pc EXCEPT ![p] = "undo"] /\ based' = based
      <4>1. based[p] \in {"nothing", "good", "partial", "bad"} /\ based' = [based EXCEPT ![p] = based[p]]
        BY <3>2 DEF TypeOK
      <4> QED
        BY <3>2, <4>1
    <3> QED
      BY <1>7, <3>1, <3>2 DEF CopyFiles, Goto
  <2> USE <2>a, <2>b, <2>c DEF locks, files, local
  <2>1. TypeOK'
    BY DEF TypeOK
  <2>2. Fresh'
    BY DEF Fresh
  <2>3. Phase'
    BY DEF Phase
  <2>4. Holding'
    BY DEF Holding, HoldsOwn, HoldsSource, HoldsCandidates
  <2>5. Starting'
    BY DEF Starting
  <2>6. NotGarbage'
    BY DEF NotGarbage, DirOnly
  <2>7. PrivateDirKept'
    BY DEF PrivateDirKept
  <2>8. Protected'
    BY DEF TypeOK, Protected, Exclusive, Sharing, OrphansUnlinked, DirOnly
  <2>9. Invalid'
    BY DEF TypeOK, Invalid, OnlyAfterError, NotInUse, FinalUnlinked, RenamedUnlinked,
           SourceValid
  <2>10. InvalidNeverReused'
    BY DEF TypeOK, Invalid, SourceValid, InvalidNeverReused
  <2> QED
    BY <2>1, <2>2, <2>3, <2>4, <2>5, <2>6, <2>7, <2>8, <2>9, <2>10 DEF IInv
<1>8. CASE UndoDir(p)
  <2>a. own[p] \in Dir
    BY <1>8 DEF TypeOK, Fresh, UndoDir
  <2>b. Removed(own[p], "working", "partial")
    BY <1>8, <2>a, RemoveEffect DEF UndoDir
  <2>c. /\ pc[p] = "undo" /\ pc' = [pc EXCEPT ![p] = "undoLock"]
        /\ tried' = [tried EXCEPT ![p] = tried[p] \union {src[p]}]
        /\ live' = [live EXCEPT ![p] = FALSE]
        /\ UNCHANGED <<linked, locks, old, used, own, src, based, listed, todo, locked>>
    BY <1>8 DEF UndoDir, Goto
  <2>d. \A q \in Proc : pc[q] \in Reading => src[q] \in Dir /\ src[q] # own[p]
    BY <1>8 DEF UndoDir, TypeOK, Phase, PrivateDirKept, Protected, Sharing
  <2> USE <2>a, <2>b, <2>c, <2>d DEF Removed, files, locks, local
  <2>1. TypeOK'
    BY SMTT(20) DEF TypeOK
  <2>2. Fresh'
    BY DEF TypeOK, Fresh
  <2>3. Phase'
    BY DEF TypeOK, Phase
  <2>4. Holding'
    BY DEF Phase, Holding, HoldsOwn, HoldsSource, HoldsCandidates
  <2>5. Starting'
    BY DEF Starting
  <2>6. NotGarbage'
    BY DEF NotGarbage, DirOnly
  <2>7. PrivateDirKept'
    BY DEF TypeOK, Fresh, PrivateDirKept
  <2>8. Protected'
    BY DEF TypeOK, Protected, Exclusive, Sharing, OrphansUnlinked, DirOnly
  <2>9. Invalid'
    <3>1. OnlyAfterError'
      BY DEF TypeOK, Invalid, OnlyAfterError
    <3>2. NotInUse'
      BY DEF Invalid, NotInUse
    <3>3. FinalUnlinked'
      <4> SUFFICES ASSUME faults' < 2, NEW d \in Dir, name'[d] = "final", data'[d] = "bad"
                   PROVE  d \notin linked'
        BY DEF FinalUnlinked
      <4>1. name[own[p]] = "working"
        BY DEF Phase, PrivateDirKept
      <4>2. d # own[p]
        BY <4>1
      <4>3. name[d] = "final" /\ data[d] = "bad" /\ faults < 2
        BY <4>2 DEF TypeOK
      <4> QED
        BY <4>3 DEF Invalid, FinalUnlinked
    <3>4. RenamedUnlinked'
      BY DEF TypeOK, Invalid, RenamedUnlinked
    <3>5. SourceValid'
      BY DEF TypeOK, Invalid, SourceValid
    <3> QED
      BY <3>1, <3>2, <3>3, <3>4, <3>5 DEF Invalid
  <2>10. InvalidNeverReused'
    BY DEF TypeOK, InvalidNeverReused
  <2> QED
    BY <2>1, <2>2, <2>3, <2>4, <2>5, <2>6, <2>7, <2>8, <2>9, <2>10 DEF IInv
<1>9. CASE UndoLock(p)
  <2>a. own[p] \in Dir
    BY <1>9 DEF TypeOK, Fresh, UndoLock
  <2>b. Unlinked(own[p]) /\ Unlocked(p, {own[p]})
    BY <1>9, UnlinkEffect, UnlockEffect DEF UndoLock
  <2>c. /\ pc[p] = "undoLock" /\ pc' = [pc EXCEPT ![p] = "idle"] /\ ~live[p]
        /\ UNCHANGED <<name, data, sh, old, used, local>>
    BY <1>9 DEF UndoLock, Goto, Phase, TypeOK
  <2> USE <2>a, <2>b, <2>c DEF Unlinked, Unlocked, files, locks, local
  <2>1. TypeOK'
    BY DEF TypeOK
  <2>2. Fresh'
    BY DEF Fresh
  <2>3. Phase'
    BY DEF Phase
  <2>4. Holding'
    <3>1. HoldsOwn'
      BY DEF TypeOK, Holding, HoldsOwn
    <3>2. HoldsSource'
      BY DEF Holding, HoldsSource
    <3>3. HoldsCandidates'
      <4> SUFFICES ASSUME NEW q \in Proc, NEW d \in locked[q]
                   PROVE  ex'[d] = q /\ (live'[q] => d # own[q])
        BY DEF HoldsCandidates
      <4>1. q # p /\ d \in Dir
        BY DEF TypeOK
      <4>2. ex[d] = q /\ (live[q] => d # own[q])
        BY DEF Holding, HoldsCandidates
      <4>3. live'[q] = live[q]
        BY <4>1 DEF TypeOK
      <4>4. ex'[d] = ex[d]
        BY <4>1, <4>2 DEF TypeOK
      <4> QED
        BY <4>2, <4>3, <4>4
    <3> QED
      BY <3>1, <3>2, <3>3 DEF Holding
  <2>5. Starting'
    BY DEF Fresh, Starting
  <2>6. NotGarbage'
    BY DEF NotGarbage, DirOnly
  <2>7. PrivateDirKept'
    BY DEF Holding, HoldsOwn, PrivateDirKept
  <2>8. Protected'
    BY DEF Protected, Exclusive, Sharing, OrphansUnlinked, DirOnly
  <2>9. Invalid'
    BY DEF TypeOK, Invalid, OnlyAfterError, NotInUse, FinalUnlinked, RenamedUnlinked,
           SourceValid
  <2>10. InvalidNeverReused'
    BY DEF TypeOK, InvalidNeverReused
  <2> QED
    BY <2>1, <2>2, <2>3, <2>4, <2>5, <2>6, <2>7, <2>8, <2>9, <2>10 DEF IInv
<1>10. CASE ReadSource(p)
  <2>a. /\ src[p] \in Dir /\ pc[p] = "read" /\ faults' = faults
        /\ UNCHANGED <<files, ex, old, used, local>>
    BY <1>10 DEF ReadSource, NoFault, TypeOK, Protected, Sharing
  <2>b. PICK l \in {"copy", "undo"}, readers \in SUBSET Proc :
        /\ pc' = [pc EXCEPT ![p] = l] /\ sh' = [sh EXCEPT ![src[p]] = readers]
        /\ readers = IF l = "copy" THEN sh[src[p]] ELSE sh[src[p]] \ {p}
    <3>1. CASE name[src[p]] = "final"
      <4>1. pc' = [pc EXCEPT ![p] = "copy"] /\ sh' = [sh EXCEPT ![src[p]] = sh[src[p]]]
        BY <1>10, <3>1 DEF ReadSource, Goto, TypeOK
      <4> QED
        BY <2>a, <4>1 DEF TypeOK
    <3>2. CASE name[src[p]] # "final"
      <4>1. pc' = [pc EXCEPT ![p] = "undo"] /\ sh' = [sh EXCEPT ![src[p]] = sh[src[p]] \ {p}]
        BY <1>10, <3>2 DEF ReadSource, Goto
      <4>2. sh[src[p]] \ {p} \in SUBSET Proc
        BY <2>a DEF TypeOK
      <4> WITNESS "undo" \in {"copy", "undo"}, sh[src[p]] \ {p} \in SUBSET Proc
      <4> QED
        BY <4>1
    <3> QED
      BY <3>1, <3>2
  <2> USE <2>a, <2>b DEF files, locks, local
  <2>1. TypeOK'
    BY DEF TypeOK
  <2>2. Fresh'
    BY DEF Fresh
  <2>3. Phase'
    BY DEF Phase
  <2>4. Holding'
    BY DEF Holding, HoldsOwn, HoldsSource, HoldsCandidates
  <2>5. Starting'
    BY DEF Starting
  <2>6. NotGarbage'
    BY DEF NotGarbage, DirOnly
  <2>7. PrivateDirKept'
    BY DEF PrivateDirKept
  <2>8. Protected'
    BY DEF TypeOK, Protected, Exclusive, Sharing, OrphansUnlinked, DirOnly
  <2>9. Invalid'
    BY DEF Invalid, OnlyAfterError, NotInUse, FinalUnlinked, RenamedUnlinked, SourceValid
  <2>10. InvalidNeverReused'
    BY DEF InvalidNeverReused
  <2> QED
    BY <2>1, <2>2, <2>3, <2>4, <2>5, <2>6, <2>7, <2>8, <2>9, <2>10 DEF IInv
<1> QED
  BY <1>1, <1>2, <1>3, <1>4, <1>5, <1>6, <1>7, <1>8, <1>9, <1>10 DEF Prepare

\* The collection of garbage preserves the invariant.
LEMMA CollectStep ==
  ASSUME IInv, NEW p \in Proc, Collect(p),
         deaths' \in Nat, quiet' \in Proc \union {None}
  PROVE  IInv'
<1> USE ConstantsAssumption DEF IInv, Dir, PCs, Preparing, Reading, Collecting, Deleting,
       Working, Leaving, Names, Listings
<1>0. InRange
  BY Ranges
<1> USE <1>0 DEF InRange
<1>1. CASE ReadDir(p)
  <2>a. /\ \A q \in Proc : q # p => DirOnly(q)' = DirOnly(q)
        /\ \A d \in DirOnly(p)' : d \notin linked
    BY <1>1 DEF ReadDir, Exists, DirOnly, TypeOK
  <2> USE <1>1, <2>a DEF ReadDir, Goto, NoFault, files, locks, local, Exists
  <2>1. TypeOK'
    BY SMTT(20) DEF TypeOK
  <2>2. Fresh'
    BY DEF Fresh
  <2>3. Phase'
    BY DEF Phase
  <2>4. Holding'
    BY DEF Holding, HoldsOwn, HoldsSource, HoldsCandidates
  <2>5. Starting'
    BY DEF Starting
  <2>6. NotGarbage'
    <3> SUFFICES ASSUME NEW q \in Proc, NEW r \in Proc, live[q] \/ pc[q] \in Preparing
                 PROVE  own[q] \notin DirOnly(r)'
      BY DEF NotGarbage, TypeOK
    <3>1. CASE r # p
      BY <3>1 DEF NotGarbage
    <3>2. CASE r = p
      BY <3>2 DEF Starting, PrivateDirKept
    <3> QED
      BY <3>1, <3>2
  <2>7. PrivateDirKept'
    BY DEF PrivateDirKept
  <2>8. Protected'
    <3>1. Exclusive'
      BY DEF Protected, Exclusive
    <3>2. Sharing'
      BY DEF Protected, Sharing
    <3>3. OrphansUnlinked'
      <4> SUFFICES ASSUME NEW r \in Proc
                   PROVE  DirOnly(r)' \intersect linked = {}
        BY DEF OrphansUnlinked
      <4>1. CASE r # p
        BY <4>1 DEF Protected, OrphansUnlinked
      <4>2. CASE r = p
        BY <4>2
      <4> QED
        BY <4>1, <4>2
    <3> QED
      BY <3>1, <3>2, <3>3 DEF Protected
  <2>9. Invalid'
    BY DEF Invalid, OnlyAfterError, NotInUse, FinalUnlinked, RenamedUnlinked, SourceValid
  <2>10. InvalidNeverReused'
    BY DEF InvalidNeverReused
  <2> QED
    BY <2>1, <2>2, <2>3, <2>4, <2>5, <2>6, <2>7, <2>8, <2>9, <2>10 DEF IInv
<1>2. CASE TryLock(p)
  <2>a. /\ src[p] \in Dir /\ pc[p] = "tryLock" /\ faults' = faults
        /\ UNCHANGED <<files, sh, old, used, own, src, tried, based, live, listed, todo>>
    BY <1>2 DEF TryLock, NoFault, TypeOK, Fresh
  <2>b. PICK l \in {"gc", "deleteDir"}, h \in Proc \union {None}, c \in SUBSET Dir :
        /\ pc' = [pc EXCEPT ![p] = l] /\ ex' = [ex EXCEPT ![src[p]] = h]
        /\ locked' = [locked EXCEPT ![p] = c]
        /\ \/ l = "gc" /\ h = ex[src[p]] /\ c = locked[p]
           \/ /\ ex[src[p]] = None /\ sh[src[p]] = {} /\ h = p
              /\ c = IF l = "gc" THEN locked[p] \union {src[p]} ELSE locked[p]
    <3>1. ex = [ex EXCEPT ![src[p]] = ex[src[p]]] /\ locked = [locked EXCEPT ![p] = locked[p]]
      BY DEF TypeOK
    <3>2. /\ ex[src[p]] \in Proc \union {None}
          /\ locked[p] \in SUBSET Dir /\ locked[p] \union {src[p]} \in SUBSET Dir
      BY <2>a DEF TypeOK
    <3>3. CASE ~Free(src[p])
      <4>1. pc' = [pc EXCEPT ![p] = "gc"] /\ ex' = ex /\ locked' = locked
        BY <1>2, <3>3 DEF TryLock, Goto
      <4> QED
        BY <3>1, <3>2, <4>1
    <3>4. CASE Free(src[p])
      <4>1. ex[src[p]] = None /\ sh[src[p]] = {} /\ ex' = [ex EXCEPT ![src[p]] = p]
        BY <1>2, <3>4 DEF TryLock, Free
      <4>2. CASE listed[p][src[p]].name = "final"
        <5>1. /\ pc' = [pc EXCEPT ![p] = "gc"]
              /\ locked' = [locked EXCEPT ![p] = locked[p] \union {src[p]}]
          BY <1>2, <3>4, <4>2 DEF TryLock, Goto
        <5> QED
          BY <3>2, <4>1, <5>1
      <4>3. CASE listed[p][src[p]].name # "final"
        <5>1. pc' = [pc EXCEPT ![p] = "deleteDir"] /\ locked' = locked
          BY <1>2, <3>4, <4>3 DEF TryLock, Goto
        <5> QED
          BY <3>1, <3>2, <4>1, <5>1
      <4> QED
        BY <4>2, <4>3
    <3> QED
      BY <3>3, <3>4
  <2> USE <2>a, <2>b DEF locks, files, local
  <2>1. TypeOK'
    BY DEF TypeOK
  <2>2. Fresh'
    BY DEF TypeOK, Fresh
  <2>3. Phase'
    BY DEF Phase, Holding, HoldsCandidates
  <2>4. Holding'
    <3>1. HoldsOwn'
      BY DEF Holding, HoldsOwn
    <3>2. HoldsSource'
      BY DEF TypeOK, Holding, HoldsOwn, HoldsSource
    <3>3. HoldsCandidates'
      BY DEF TypeOK, Holding, HoldsOwn, HoldsCandidates
    <3> QED
      BY <3>1, <3>2, <3>3 DEF Holding
  <2>5. Starting'
    BY DEF Starting
  <2>6. NotGarbage'
    BY DEF NotGarbage, DirOnly
  <2>7. PrivateDirKept'
    BY DEF PrivateDirKept
  <2>8. Protected'
    BY DEF Protected, Exclusive, Sharing, OrphansUnlinked, DirOnly
  <2>9. Invalid'
    BY DEF Invalid, OnlyAfterError, NotInUse, FinalUnlinked, RenamedUnlinked, SourceValid
  <2>10. InvalidNeverReused'
    BY DEF InvalidNeverReused
  <2> QED
    BY <2>1, <2>2, <2>3, <2>4, <2>5, <2>6, <2>7, <2>8, <2>9, <2>10 DEF IInv
<1>3. CASE AllExceptMostRecent(p)
  <2>a. /\ pc[p] = "gc" /\ todo[p] = {} /\ pc' = [pc EXCEPT ![p] = "delete"] /\ faults' = faults
        /\ UNCHANGED <<files, sh, old, used, own, src, tried, based, live, listed, todo>>
    BY <1>3 DEF AllExceptMostRecent, Goto, NoFault
  <2>b. PICK newest \in SUBSET locked[p] :
        /\ Unlocked(p, newest) /\ locked' = [locked EXCEPT ![p] = locked[p] \ newest]
    BY <1>3, UnlockEffect DEF AllExceptMostRecent
  <2> USE <2>a, <2>b DEF Unlocked, files, locks, local
  <2>1. TypeOK'
    BY DEF TypeOK
  <2>2. Fresh'
    BY DEF Fresh
  <2>3. Phase'
    BY DEF Phase
  <2>4. Holding'
    <3>1. HoldsOwn'
      BY DEF Holding, HoldsOwn, HoldsCandidates
    <3>2. HoldsSource'
      BY DEF Holding, HoldsSource
    <3>3. HoldsCandidates'
      BY DEF TypeOK, Holding, HoldsCandidates
    <3> QED
      BY <3>1, <3>2, <3>3 DEF Holding
  <2>5. Starting'
    BY DEF Starting
  <2>6. NotGarbage'
    BY DEF NotGarbage, DirOnly
  <2>7. PrivateDirKept'
    BY DEF PrivateDirKept
  <2>8. Protected'
    BY DEF Protected, Exclusive, Sharing, OrphansUnlinked, DirOnly
  <2>9. Invalid'
    BY DEF Invalid, OnlyAfterError, NotInUse, FinalUnlinked, RenamedUnlinked, SourceValid
  <2>10. InvalidNeverReused'
    BY DEF InvalidNeverReused
  <2> QED
    BY <2>1, <2>2, <2>3, <2>4, <2>5, <2>6, <2>7, <2>8, <2>9, <2>10 DEF IInv
<1>4. CASE DeleteDir(p)
  <2>a. src[p] \in Dir /\ pc[p] = "deleteDir"
    BY <1>4 DEF DeleteDir, TypeOK, Fresh
  <2>b. Removed(src[p], listed[p][src[p]].name, "partial")
    BY <1>4, <2>a, RemoveEffect DEF DeleteDir
  <2>c. PICK l \in {"unlink", "unlock"} : pc' = [pc EXCEPT ![p] = l]
    BY <1>4 DEF DeleteDir, Goto
  <2>d. \A e \in Dir : (name'[e] = "final" => name[e] = "final") /\ (data'[e] = "bad" => data[e] = "bad")
    BY <2>a, <2>b DEF Removed
  <2>e. UNCHANGED <<linked, locks, old, used, local>>
    BY <1>4 DEF DeleteDir
  <2> USE <2>a, <2>b, <2>c, <2>d, <2>e DEF Removed, files, locks, local
  <2>1. TypeOK'
    BY DEF TypeOK
  <2>2. Fresh'
    BY DEF Fresh
  <2>3. Phase'
    BY DEF Phase
  <2>4. Holding'
    BY DEF Holding, HoldsOwn, HoldsSource, HoldsCandidates
  <2>5. Starting'
    BY DEF Starting
  <2>6. NotGarbage'
    BY DEF NotGarbage, DirOnly
  <2>7. PrivateDirKept'
    BY DEF Holding, HoldsOwn, HoldsSource, PrivateDirKept
  <2>8. Protected'
    BY DEF Protected, Exclusive, Sharing, OrphansUnlinked, DirOnly
  <2>9. Invalid'
    <3>1. OnlyAfterError'
      BY DEF TypeOK, Invalid, OnlyAfterError
    <3>2. NotInUse'
      BY DEF Invalid, NotInUse
    <3>3. FinalUnlinked'
      BY DEF TypeOK, Invalid, FinalUnlinked
    <3>4. RenamedUnlinked'
      BY DEF TypeOK, Invalid, RenamedUnlinked
    <3>5. SourceValid'
      BY DEF TypeOK, Protected, Sharing, Invalid, SourceValid
    <3> QED
      BY <3>1, <3>2, <3>3, <3>4, <3>5 DEF Invalid
  <2>10. InvalidNeverReused'
    BY DEF TypeOK, InvalidNeverReused
  <2> QED
    BY <2>1, <2>2, <2>3, <2>4, <2>5, <2>6, <2>7, <2>8, <2>9, <2>10 DEF IInv
<1>5. CASE DeleteLockFile(p)
  <2>a. src[p] \in Dir /\ pc[p] = "unlink" /\ pc' = [pc EXCEPT ![p] = "unlock"]
    BY <1>5 DEF DeleteLockFile, TypeOK, Fresh, Goto
  <2>b. Unlinked(src[p])
    BY <1>5, UnlinkEffect DEF DeleteLockFile
  <2>c. UNCHANGED <<name, data, locks, old, used, local>>
    BY <1>5 DEF DeleteLockFile
  <2> USE <2>a, <2>b, <2>c DEF Unlinked, files, locks, local
  <2>1. TypeOK'
    BY DEF TypeOK
  <2>2. Fresh'
    BY DEF Fresh
  <2>3. Phase'
    BY DEF Phase
  <2>4. Holding'
    BY DEF Holding, HoldsOwn, HoldsSource, HoldsCandidates
  <2>5. Starting'
    BY DEF Fresh, Phase, Starting
  <2>6. NotGarbage'
    BY DEF NotGarbage, DirOnly
  <2>7. PrivateDirKept'
    BY DEF Holding, HoldsOwn, HoldsSource, PrivateDirKept
  <2>8. Protected'
    BY DEF Protected, Exclusive, Sharing, OrphansUnlinked, DirOnly
  <2>9. Invalid'
    BY DEF TypeOK, Invalid, OnlyAfterError, NotInUse, FinalUnlinked, RenamedUnlinked,
           SourceValid
  <2>10. InvalidNeverReused'
    BY DEF TypeOK, InvalidNeverReused
  <2> QED
    BY <2>1, <2>2, <2>3, <2>4, <2>5, <2>6, <2>7, <2>8, <2>9, <2>10 DEF IInv
<1>6. CASE DropLock(p)
  <2>a. src[p] \in Dir /\ pc[p] = "unlock"
    BY <1>6 DEF DropLock, TypeOK, Fresh
  <2>b. Unlocked(p, {src[p]}) /\ locked' = [locked EXCEPT ![p] = locked[p] \ {src[p]}]
    BY <1>6, UnlockEffect DEF DropLock
  <2>c. PICK l \in {"delete", "gc"} : pc' = [pc EXCEPT ![p] = l] /\ (l = "delete" => src[p] \in locked[p])
    BY <1>6 DEF DropLock, Goto
  <2>d. faults' = faults /\ UNCHANGED <<files, sh, old, used, own, src, tried, based, live, listed, todo>>
    BY <1>6 DEF DropLock, NoFault
  <2> USE <2>a, <2>b, <2>c, <2>d DEF Unlocked, files, locks, local
  <2>1. TypeOK'
    BY DEF TypeOK
  <2>2. Fresh'
    BY DEF Fresh
  <2>3. Phase'
    BY DEF Phase
  <2>4. Holding'
    <3>1. HoldsOwn'
      BY DEF Holding, HoldsOwn, HoldsSource
    <3>2. HoldsSource'
      BY DEF TypeOK, Holding, HoldsSource
    <3>3. HoldsCandidates'
      BY DEF TypeOK, Holding, HoldsCandidates
    <3> QED
      BY <3>1, <3>2, <3>3 DEF Holding
  <2>5. Starting'
    BY DEF Starting
  <2>6. NotGarbage'
    BY DEF NotGarbage, DirOnly
  <2>7. PrivateDirKept'
    BY DEF PrivateDirKept
  <2>8. Protected'
    BY DEF Protected, Exclusive, Sharing, OrphansUnlinked, DirOnly
  <2>9. Invalid'
    BY DEF Invalid, OnlyAfterError, NotInUse, FinalUnlinked, RenamedUnlinked, SourceValid
  <2>10. InvalidNeverReused'
    BY DEF InvalidNeverReused
  <2> QED
    BY <2>1, <2>2, <2>3, <2>4, <2>5, <2>6, <2>7, <2>8, <2>9, <2>10 DEF IInv
<1>7. CASE CollectEnd(p)
  <2> USE <1>7 DEF CollectEnd, Goto, NoFault, files, locks, local, NoListing
  <2>1. TypeOK'
    BY SMTT(20) DEF TypeOK
  <2>2. Fresh'
    BY DEF TypeOK, Fresh
  <2>3. Phase'
    BY DEF Phase
  <2>4. Holding'
    BY DEF Holding, HoldsOwn, HoldsSource, HoldsCandidates
  <2>5. Starting'
    BY DEF Starting
  <2>6. NotGarbage'
    BY DEF Phase, NotGarbage, DirOnly
  <2>7. PrivateDirKept'
    BY DEF PrivateDirKept
  <2>8. Protected'
    BY DEF Phase, Protected, Exclusive, Sharing, OrphansUnlinked, DirOnly
  <2>9. Invalid'
    BY DEF Invalid, OnlyAfterError, NotInUse, FinalUnlinked, RenamedUnlinked, SourceValid
  <2>10. InvalidNeverReused'
    BY DEF InvalidNeverReused
  <2> QED
    BY <2>1, <2>2, <2>3, <2>4, <2>5, <2>6, <2>7, <2>8, <2>9, <2>10 DEF IInv
<1>8. ASSUME NEW d \in Dir, CollectLockFile(p, d) PROVE IInv'
  <2>a. /\ pc[p] = "gc" /\ todo' = [todo EXCEPT ![p] = todo[p] \ {d}] /\ faults' = faults
        /\ UNCHANGED <<files, locks, old, used, pc, own, src, tried, based, live, listed, locked>>
    BY <1>8 DEF CollectLockFile, HasTimestamp, DoneWith, NoFault, files
  <2> USE <2>a DEF files, locks, local
  <2>1. TypeOK'
    BY DEF TypeOK
  <2>2. Fresh'
    BY DEF Fresh
  <2>3. Phase'
    BY DEF Phase
  <2>4. Holding'
    BY DEF Holding, HoldsOwn, HoldsSource, HoldsCandidates
  <2>5. Starting'
    BY DEF Starting
  <2>6. NotGarbage'
    BY DEF NotGarbage, DirOnly
  <2>7. PrivateDirKept'
    BY DEF NotGarbage, PrivateDirKept
  <2>8. Protected'
    BY DEF Protected, Exclusive, Sharing, OrphansUnlinked, DirOnly
  <2>9. Invalid'
    BY DEF TypeOK, Invalid, OnlyAfterError, NotInUse, FinalUnlinked, RenamedUnlinked,
           SourceValid
  <2>10. InvalidNeverReused'
    BY DEF TypeOK, InvalidNeverReused
  <2> QED
    BY <2>1, <2>2, <2>3, <2>4, <2>5, <2>6, <2>7, <2>8, <2>9, <2>10 DEF IInv
<1>9. ASSUME NEW d \in Dir, CollectOrphan(p, d) PROVE IInv'
  <2>a. pc[p] = "gc" /\ d \in DirOnly(p) /\ todo' = [todo EXCEPT ![p] = todo[p] \ {d}]
    BY <1>9 DEF CollectOrphan, DoneWith
  <2>b. Removed(d, listed[p][d].name, "partial")
    BY <1>9, RemoveEffect DEF CollectOrphan
  <2>c. UNCHANGED <<linked, locks, old, used, pc, own, src, tried, based, live, listed, locked>>
    BY <1>9 DEF CollectOrphan
  <2> USE <2>a, <2>b, <2>c DEF Removed, files, locks, local
  <2>1. TypeOK'
    BY DEF TypeOK
  <2>2. Fresh'
    BY DEF TypeOK, Fresh
  <2>3. Phase'
    BY DEF Phase, Holding
  <2>4. Holding'
    BY DEF Holding, HoldsOwn, HoldsSource, HoldsCandidates
  <2>5. Starting'
    BY DEF Starting
  <2>6. NotGarbage'
    BY DEF NotGarbage, DirOnly
  <2>7. PrivateDirKept'
    BY DEF NotGarbage, PrivateDirKept
  <2>8. Protected'
    BY DEF Protected, Exclusive, Sharing, OrphansUnlinked, DirOnly
  <2>9. Invalid'
    <3>1. OnlyAfterError'
      BY DEF TypeOK, Invalid, OnlyAfterError
    <3>2. NotInUse'
      BY DEF Invalid, NotInUse
    <3>3. FinalUnlinked'
      BY DEF TypeOK, Invalid, FinalUnlinked
    <3>4. RenamedUnlinked'
      BY DEF TypeOK, Invalid, RenamedUnlinked
    <3>5. SourceValid'
      <4> SUFFICES ASSUME faults' < 2, NEW q \in Proc, pc[q] \in {"flock", "read", "copy"},
                          name'[src[q]] = "final"
                   PROVE  data'[src[q]] # "bad"
        BY DEF SourceValid
      <4>1. src[q] \in Dir
        BY DEF Protected, Sharing
      <4>2. name[src[q]] = "final" /\ faults < 2
        BY <4>1 DEF TypeOK
      <4>3. data[src[q]] # "bad"
        BY <4>2 DEF Invalid, SourceValid
      <4>4. data'[src[q]] \in {data[src[q]], "partial"}
        BY <4>1
      <4> QED
        BY <4>3, <4>4
    <3> QED
      BY <3>1, <3>2, <3>3, <3>4, <3>5 DEF Invalid
  <2>10. InvalidNeverReused'
    BY DEF TypeOK, InvalidNeverReused
  <2> QED
    BY <2>1, <2>2, <2>3, <2>4, <2>5, <2>6, <2>7, <2>8, <2>9, <2>10 DEF IInv
<1>10. ASSUME NEW d \in Dir, OpenLock(p, d) PROVE IInv'
  <2>a. /\ pc[p] = "gc" /\ d \in todo[p] /\ todo' = [todo EXCEPT ![p] = todo[p] \ {d}]
        /\ listed[p][d].name # "none" /\ faults' = faults
        /\ UNCHANGED <<files, locks, old, used, own, tried, based, live, listed, locked>>
    BY <1>10 DEF OpenLock, DoneWith, NoFault, LockOnly
  <2>b. PICK l \in {"gc", "tryLock"}, e \in 0..MaxDir :
        /\ pc' = [pc EXCEPT ![p] = l] /\ src' = [src EXCEPT ![p] = e]
        /\ e = IF l = "tryLock" THEN d ELSE src[p]
    <3>1. pc = [pc EXCEPT ![p] = "gc"] /\ src = [src EXCEPT ![p] = src[p]] /\ src[p] \in 0..MaxDir
      BY <2>a DEF TypeOK
    <3>2. \/ pc' = [pc EXCEPT ![p] = "tryLock"] /\ src' = [src EXCEPT ![p] = d]
          \/ pc' = pc /\ src' = src
      BY <1>10 DEF OpenLock, Goto
    <3>3. CASE pc' = [pc EXCEPT ![p] = "tryLock"] /\ src' = [src EXCEPT ![p] = d]
      <4> WITNESS "tryLock" \in {"gc", "tryLock"}, d \in 0..MaxDir
      <4> QED
        BY <3>3
    <3>4. CASE pc' = pc /\ src' = src
      BY <3>1, <3>4
    <3> QED
      BY <3>2, <3>3, <3>4
  <2> USE <2>a, <2>b DEF files, locks, local
  <2>1. TypeOK'
    BY DEF TypeOK
  <2>2. Fresh'
    BY DEF TypeOK, Fresh
  <2>3. Phase'
    BY DEF TypeOK, Phase
  <2>4. Holding'
    BY DEF Holding, HoldsOwn, HoldsSource, HoldsCandidates
  <2>5. Starting'
    BY DEF Starting
  <2>6. NotGarbage'
    BY DEF NotGarbage, DirOnly
  <2>7. PrivateDirKept'
    BY DEF PrivateDirKept
  <2>8. Protected'
    BY DEF Protected, Exclusive, Sharing, OrphansUnlinked, DirOnly
  <2>9. Invalid'
    BY DEF Invalid, OnlyAfterError, NotInUse, FinalUnlinked, RenamedUnlinked, SourceValid
  <2>10. InvalidNeverReused'
    BY DEF InvalidNeverReused
  <2> QED
    BY <2>1, <2>2, <2>3, <2>4, <2>5, <2>6, <2>7, <2>8, <2>9, <2>10 DEF IInv
<1>11. ASSUME NEW d \in Dir, NextCandidate(p, d) PROVE IInv'
  <2>a. d <= used
    BY <1>11 DEF NextCandidate, TypeOK, Fresh, Holding
  <2> USE <1>11, <2>a DEF NextCandidate, Goto, NoFault, files, locks, local
  <2>1. TypeOK'
    BY SMTT(20) DEF TypeOK
  <2>2. Fresh'
    BY DEF TypeOK, Fresh
  <2>3. Phase'
    BY DEF TypeOK, Phase
  <2>4. Holding'
    BY DEF TypeOK, Holding, HoldsOwn, HoldsSource, HoldsCandidates
  <2>5. Starting'
    BY DEF Starting
  <2>6. NotGarbage'
    BY DEF NotGarbage, DirOnly
  <2>7. PrivateDirKept'
    BY DEF PrivateDirKept
  <2>8. Protected'
    BY DEF Protected, Exclusive, Sharing, OrphansUnlinked, DirOnly
  <2>9. Invalid'
    BY DEF Invalid, OnlyAfterError, NotInUse, FinalUnlinked, RenamedUnlinked, SourceValid
  <2>10. InvalidNeverReused'
    BY DEF InvalidNeverReused
  <2> QED
    BY <2>1, <2>2, <2>3, <2>4, <2>5, <2>6, <2>7, <2>8, <2>9, <2>10 DEF IInv
<1> QED
  BY <1>1, <1>2, <1>3, <1>4, <1>5, <1>6, <1>7, <1>8, <1>9, <1>10, <1>11 DEF Collect

\* finalize_session_directory preserves the invariant.
LEMMA FinalizeStep ==
  ASSUME IInv, NEW p \in Proc, Finalize(p),
         deaths' \in Nat, quiet' \in Proc \union {None}
  PROVE  IInv'
<1> USE ConstantsAssumption DEF IInv, Dir, PCs, Preparing, Reading, Collecting, Deleting,
       Working, Leaving, Names, Listings
<1>0. InRange
  BY Ranges
<1> USE <1>0 DEF InRange
<1>1. CASE Publish(p)
  <2>a. own[p] \in Dir
    BY <1>1 DEF TypeOK, Fresh, Publish
  <2>b. /\ pc[p] = "compile" /\ live[p] /\ pc' = [pc EXCEPT ![p] = "release"]
        /\ live' = [live EXCEPT ![p] = FALSE]
        /\ UNCHANGED <<linked, locks, old, used, own, src, tried, based, listed, todo, locked>>
    BY <1>1 DEF Publish, Goto, Phase
  <2>c. faults' \in Nat /\ faults <= faults'
    BY <1>1 DEF Publish, Fault, NoFault, TypeOK
  <2>d. \/ /\ name' = [name EXCEPT ![own[p]] = "final"]
           /\ data' = [data EXCEPT ![own[p]] = "good"]
        \/ name' = name /\ data' = data
    BY <1>1 DEF Publish
  <2> USE <2>a, <2>b, <2>c, <2>d DEF locks, files, local
  <2>1. TypeOK'
    BY DEF TypeOK
  <2>2. Fresh'
    BY DEF TypeOK, Fresh
  <2>3. Phase'
    BY DEF TypeOK, Phase
  <2>4. Holding'
    BY DEF Holding, HoldsOwn, HoldsSource, HoldsCandidates
  <2>5. Starting'
    BY DEF TypeOK, Fresh, Starting
  <2>6. NotGarbage'
    BY DEF NotGarbage, DirOnly
  <2>7. PrivateDirKept'
    BY DEF TypeOK, Fresh, PrivateDirKept
  <2>8. Protected'
    BY DEF TypeOK, Protected, Exclusive, Sharing, OrphansUnlinked, DirOnly
  <2>9. Invalid'
    <3>1. OnlyAfterError'
      BY DEF TypeOK, Invalid, OnlyAfterError
    <3>2. NotInUse'
      BY DEF TypeOK, Invalid, NotInUse
    <3>3. FinalUnlinked'
      BY DEF TypeOK, Invalid, FinalUnlinked
    <3>4. RenamedUnlinked'
      BY DEF TypeOK, Invalid, RenamedUnlinked
    <3>5. SourceValid'
      BY DEF TypeOK, Protected, Sharing, Invalid, SourceValid
    <3> QED
      BY <3>1, <3>2, <3>3, <3>4, <3>5 DEF Invalid
  <2>10. InvalidNeverReused'
    BY DEF TypeOK, InvalidNeverReused
  <2> QED
    BY <2>1, <2>2, <2>3, <2>4, <2>5, <2>6, <2>7, <2>8, <2>9, <2>10 DEF IInv
<1>2. CASE Release(p)
  <2>a. own[p] \in Dir
    BY <1>2 DEF TypeOK, Fresh, Release
  <2>b. Unlocked(p, {own[p]})
    BY <1>2, UnlockEffect DEF Release
  <2>c. /\ pc[p] = "release" /\ ~live[p] /\ pc' = [pc EXCEPT ![p] = "collect"] /\ faults' = faults
        /\ UNCHANGED <<files, sh, old, used, local>>
    BY <1>2 DEF Release, Goto, NoFault, Phase, TypeOK
  <2> USE <2>a, <2>b, <2>c DEF Unlocked, files, locks, local
  <2>1. TypeOK'
    BY DEF TypeOK
  <2>2. Fresh'
    BY DEF Fresh
  <2>3. Phase'
    BY DEF Phase
  <2>4. Holding'
    <3>1. HoldsOwn'
      BY DEF TypeOK, Holding, HoldsOwn
    <3>2. HoldsSource'
      BY DEF Holding, HoldsSource
    <3>3. HoldsCandidates'
      <4> SUFFICES ASSUME NEW q \in Proc, NEW d \in locked[q]
                   PROVE  ex'[d] = q /\ (live'[q] => d # own[q])
        BY DEF HoldsCandidates
      <4>1. q # p /\ d \in Dir
        BY DEF TypeOK
      <4>2. ex[d] = q /\ (live[q] => d # own[q])
        BY DEF Holding, HoldsCandidates
      <4>3. live'[q] = live[q]
        BY <4>1 DEF TypeOK
      <4>4. ex'[d] = ex[d]
        BY <4>1, <4>2 DEF TypeOK
      <4> QED
        BY <4>2, <4>3, <4>4
    <3> QED
      BY <3>1, <3>2, <3>3 DEF Holding
  <2>5. Starting'
    BY DEF Starting
  <2>6. NotGarbage'
    BY DEF NotGarbage, DirOnly
  <2>7. PrivateDirKept'
    BY DEF PrivateDirKept
  <2>8. Protected'
    BY DEF Protected, Exclusive, Sharing, OrphansUnlinked, DirOnly
  <2>9. Invalid'
    BY DEF Invalid, OnlyAfterError, NotInUse, FinalUnlinked, RenamedUnlinked, SourceValid
  <2>10. InvalidNeverReused'
    BY DEF InvalidNeverReused
  <2> QED
    BY <2>1, <2>2, <2>3, <2>4, <2>5, <2>6, <2>7, <2>8, <2>9, <2>10 DEF IInv
<1>3. CASE Discard(p)
  <2>a. own[p] \in Dir
    BY <1>3 DEF TypeOK, Fresh, Discard
  <2>b. Removed(own[p], "working", "bad")
    BY <1>3, <2>a, RemoveEffect DEF Discard
  <2>c. /\ pc[p] = "compile" /\ pc' = [pc EXCEPT ![p] = "discardLock"]
        /\ live' = [live EXCEPT ![p] = FALSE]
        /\ UNCHANGED <<linked, locks, old, used, own, src, tried, based, listed, todo, locked>>
    BY <1>3 DEF Discard, Goto
  <2>d. \A q \in Proc : pc[q] \in Reading => src[q] \in Dir /\ src[q] # own[p]
    BY <1>3 DEF Discard, TypeOK, Phase, PrivateDirKept, Protected, Sharing
  <2> USE <2>a, <2>b, <2>c, <2>d DEF Removed, files, locks, local
  <2>1. TypeOK'
    BY DEF TypeOK
  <2>2. Fresh'
    BY DEF Fresh
  <2>3. Phase'
    BY DEF TypeOK, Phase
  <2>4. Holding'
    BY DEF Phase, Holding, HoldsOwn, HoldsSource, HoldsCandidates
  <2>5. Starting'
    BY DEF Starting
  <2>6. NotGarbage'
    BY DEF NotGarbage, DirOnly
  <2>7. PrivateDirKept'
    BY DEF TypeOK, Fresh, PrivateDirKept
  <2>8. Protected'
    BY SMTT(20) DEF Protected, Exclusive, Sharing, OrphansUnlinked, DirOnly
  <2>9. Invalid'
    <3>1. OnlyAfterError'
      BY DEF TypeOK, Fresh, Invalid, OnlyAfterError
    <3>2. NotInUse'
      BY DEF TypeOK, Fresh, Invalid, NotInUse
    <3>3. FinalUnlinked'
      <4> SUFFICES ASSUME faults' < 2, NEW d \in Dir, name'[d] = "final", data'[d] = "bad"
                   PROVE  d \notin linked'
        BY DEF FinalUnlinked
      <4>1. name[own[p]] = "working"
        BY DEF Phase, PrivateDirKept
      <4>2. d # own[p]
        BY <4>1
      <4>3. name[d] = "final" /\ data[d] = "bad" /\ faults < 2
        BY <4>2 DEF TypeOK
      <4> QED
        BY <4>3 DEF Invalid, FinalUnlinked
    <3>4. RenamedUnlinked'
      BY DEF TypeOK, Fresh, Invalid, RenamedUnlinked
    <3>5. SourceValid'
      BY DEF TypeOK, Invalid, SourceValid
    <3> QED
      BY <3>1, <3>2, <3>3, <3>4, <3>5 DEF Invalid
  <2>10. InvalidNeverReused'
    BY DEF TypeOK, InvalidNeverReused
  <2> QED
    BY <2>1, <2>2, <2>3, <2>4, <2>5, <2>6, <2>7, <2>8, <2>9, <2>10 DEF IInv
<1>4. CASE DiscardLock(p)
  <2>a. own[p] \in Dir
    BY <1>4 DEF TypeOK, Fresh, DiscardLock
  <2>b. Unlinked(own[p])
    BY <1>4, UnlinkEffect DEF DiscardLock
  <2>c. /\ pc[p] = "discardLock" /\ ~live[p] /\ pc' = [pc EXCEPT ![p] = "invalidate"]
        /\ UNCHANGED <<name, data, locks, old, used, local>>
    BY <1>4 DEF DiscardLock, Goto, Phase, TypeOK
  <2> USE <2>a, <2>b, <2>c DEF Unlinked, files, locks, local
  <2>1. TypeOK'
    BY DEF TypeOK
  <2>2. Fresh'
    BY DEF Fresh
  <2>3. Phase'
    BY DEF Phase
  <2>4. Holding'
    BY DEF Holding, HoldsOwn, HoldsSource, HoldsCandidates
  <2>5. Starting'
    BY DEF Fresh, Starting
  <2>6. NotGarbage'
    BY DEF NotGarbage, DirOnly
  <2>7. PrivateDirKept'
    BY DEF Holding, HoldsOwn, PrivateDirKept
  <2>8. Protected'
    BY DEF Protected, Exclusive, Sharing, OrphansUnlinked, DirOnly
  <2>9. Invalid'
    BY DEF TypeOK, Invalid, OnlyAfterError, NotInUse, FinalUnlinked, RenamedUnlinked,
           SourceValid
  <2>10. InvalidNeverReused'
    BY DEF TypeOK, InvalidNeverReused
  <2> QED
    BY <2>1, <2>2, <2>3, <2>4, <2>5, <2>6, <2>7, <2>8, <2>9, <2>10 DEF IInv
<1>5. CASE Invalidate(p)
  <2>a. own[p] \in Dir
    BY <1>5 DEF TypeOK, Fresh, Invalidate
  <2>b. Unlocked(p, {own[p]})
    BY <1>5, UnlockEffect DEF Invalidate
  <2>c. /\ pc[p] = "invalidate" /\ ~live[p] /\ pc' = [pc EXCEPT ![p] = "renameInvalid"] /\ faults' = faults
        /\ UNCHANGED <<files, sh, old, used, local>>
    BY <1>5 DEF Invalidate, Goto, NoFault, Phase, TypeOK
  <2> USE <2>a, <2>b, <2>c DEF Unlocked, files, locks, local
  <2>1. TypeOK'
    BY DEF TypeOK
  <2>2. Fresh'
    BY DEF Fresh
  <2>3. Phase'
    BY DEF Phase
  <2>4. Holding'
    <3>1. HoldsOwn'
      BY DEF TypeOK, Holding, HoldsOwn
    <3>2. HoldsSource'
      BY DEF Holding, HoldsSource
    <3>3. HoldsCandidates'
      <4> SUFFICES ASSUME NEW q \in Proc, NEW d \in locked[q]
                   PROVE  ex'[d] = q /\ (live'[q] => d # own[q])
        BY DEF HoldsCandidates
      <4>1. q # p /\ d \in Dir
        BY DEF TypeOK
      <4>2. ex[d] = q /\ (live[q] => d # own[q])
        BY DEF Holding, HoldsCandidates
      <4>3. live'[q] = live[q]
        BY <4>1 DEF TypeOK
      <4>4. ex'[d] = ex[d]
        BY <4>1, <4>2 DEF TypeOK
      <4> QED
        BY <4>2, <4>3, <4>4
    <3> QED
      BY <3>1, <3>2, <3>3 DEF Holding
  <2>5. Starting'
    BY DEF Starting
  <2>6. NotGarbage'
    BY DEF NotGarbage, DirOnly
  <2>7. PrivateDirKept'
    BY DEF PrivateDirKept
  <2>8. Protected'
    BY DEF Protected, Exclusive, Sharing, OrphansUnlinked, DirOnly
  <2>9. Invalid'
    BY DEF Invalid, OnlyAfterError, NotInUse, FinalUnlinked, RenamedUnlinked, SourceValid
  <2>10. InvalidNeverReused'
    BY DEF InvalidNeverReused
  <2> QED
    BY <2>1, <2>2, <2>3, <2>4, <2>5, <2>6, <2>7, <2>8, <2>9, <2>10 DEF IInv
<1>6. CASE RenameInvalid(p)
  <2>a. own[p] \in Dir
    BY <1>6 DEF TypeOK, Fresh, RenameInvalid
  <2>b. /\ pc[p] = "renameInvalid" /\ ~live[p] /\ faults' \in {faults, faults + 1}
        /\ UNCHANGED <<data, linked, locks, old, used, local>>
    BY <1>6 DEF RenameInvalid, NoFault, Fault, Phase, TypeOK
  <2>c. PICK l \in {"exit", "collect"}, n \in Names :
        /\ pc' = [pc EXCEPT ![p] = l] /\ name' = [name EXCEPT ![own[p]] = n]
        /\ n = name[own[p]] \/ (n = "final" /\ name[own[p]] = "working")
    <3>1. CASE name[own[p]] = "working" /\ name' = [name EXCEPT ![own[p]] = "final"] /\ Goto(p, "exit")
      BY <3>1 DEF Goto
    <3>2. CASE UNCHANGED name /\ Goto(p, "collect")
      <4>1. name[own[p]] \in Names /\ name' = [name EXCEPT ![own[p]] = name[own[p]]]
        BY <2>a, <3>2 DEF TypeOK
      <4> QED
        BY <3>2, <4>1 DEF Goto
    <3> QED
      BY <1>6, <3>1, <3>2 DEF RenameInvalid
  <2> USE <2>a, <2>b, <2>c DEF files, locks, local
  <2>1. TypeOK'
    BY SMTT(20) DEF TypeOK
  <2>2. Fresh'
    BY DEF Fresh
  <2>3. Phase'
    BY DEF Phase
  <2>4. Holding'
    BY DEF Holding, HoldsOwn, HoldsSource, HoldsCandidates
  <2>5. Starting'
    BY DEF Starting
  <2>6. NotGarbage'
    BY DEF NotGarbage, DirOnly
  <2>7. PrivateDirKept'
    <3> SUFFICES ASSUME NEW q \in Proc, live[q]
                 PROVE  name'[own[q]] = "working" /\ own[q] \in linked
      BY DEF PrivateDirKept
    <3>1. own[q] \in Dir /\ name[own[q]] = "working" /\ own[q] \in linked
      BY DEF PrivateDirKept
    <3>2. own[q] # own[p]
      BY DEF Fresh
    <3>3. name'[own[q]] = name[own[q]]
      BY <3>1, <3>2 DEF TypeOK
    <3> QED
      BY <3>1, <3>3
  <2>8. Protected'
    BY DEF Protected, Exclusive, Sharing, OrphansUnlinked, DirOnly
  <2>9. Invalid'
    <3>1. faults \in Nat /\ faults <= faults'
      BY DEF TypeOK
    <3>2. OnlyAfterError' /\ NotInUse'
      BY <3>1 DEF Invalid, OnlyAfterError, NotInUse
    <3>3. FinalUnlinked' /\ RenamedUnlinked'
      BY <3>1 DEF Invalid, FinalUnlinked, RenamedUnlinked, TypeOK
    <3>4. SourceValid'
      BY <3>1 DEF Protected, Sharing, Invalid, SourceValid, TypeOK
    <3> QED
      BY <3>2, <3>3, <3>4 DEF Invalid
  <2>10. InvalidNeverReused'
    BY DEF TypeOK, InvalidNeverReused
  <2> QED
    BY <2>1, <2>2, <2>3, <2>4, <2>5, <2>6, <2>7, <2>8, <2>9, <2>10 DEF IInv
<1> QED
  BY <1>1, <1>2, <1>3, <1>4, <1>5, <1>6 DEF Finalize

\* A process that ends or dies preserves the invariant.
LEMMA GoneStep ==
  ASSUME IInv, NEW p \in Proc, Gone(p),
         deaths' \in Nat, quiet' \in Proc \union {None}
  PROVE  IInv'
<1> USE ConstantsAssumption DEF IInv, Dir, PCs, Preparing, Reading, Collecting,
        Deleting, Working, Leaving, Names, Listings
<1>0. InRange
  BY Ranges
<1>a. /\ own' = [own EXCEPT ![p] = 0] /\ src' = [src EXCEPT ![p] = 0]
      /\ tried' = [tried EXCEPT ![p] = {}] /\ based' = [based EXCEPT ![p] = "nothing"]
      /\ live' = [live EXCEPT ![p] = FALSE] /\ listed' = [listed EXCEPT ![p] = NoListing]
      /\ todo' = [todo EXCEPT ![p] = {}] /\ locked' = [locked EXCEPT ![p] = {}]
      /\ pc' = [pc EXCEPT ![p] = "idle"]
      /\ UNCHANGED <<name, data, linked, old, used, faults>>
  BY DEF Gone, Goto, files
<1>b. /\ ex' \in [Dir -> Proc \union {None}] /\ sh' \in [Dir -> SUBSET Proc]
      /\ \A d \in Dir : ex'[d] = IF ex[d] = p THEN None ELSE ex[d]
      /\ \A d \in Dir : sh'[d] = sh[d] \ {p}
  BY DEF Gone, TypeOK
<1>c. /\ \A d \in Dir : NoListing[d].name = "none"
      /\ NoListing \in Listings
  BY DEF NoListing
<1> USE <1>0, <1>a, <1>b, <1>c DEF InRange
<1>1. TypeOK'
  BY SMTT(30) DEF TypeOK
<1>2. Fresh'
  BY DEF TypeOK, Fresh
<1>3. Phase'
  BY DEF TypeOK, Fresh, Phase
<1>4. Holding'
  <2>1. HoldsOwn'
    BY DEF TypeOK, Fresh, Phase, Holding, HoldsOwn
  <2>2. HoldsSource'
    BY DEF TypeOK, Fresh, Phase, Holding, HoldsSource
  <2>3. HoldsCandidates'
    BY DEF TypeOK, Fresh, Phase, Holding, HoldsCandidates
  <2> QED
    BY <2>1, <2>2, <2>3 DEF Holding
<1>5. Starting'
  BY DEF TypeOK, Fresh, Starting
<1>6. NotGarbage'
  BY DEF TypeOK, Fresh, NotGarbage, DirOnly
<1>7. PrivateDirKept'
  BY DEF TypeOK, PrivateDirKept
<1>8. Protected'
  <2>1. Exclusive'
    BY DEF TypeOK, Protected, Exclusive
  <2>2. Sharing'
    BY DEF TypeOK, Protected, Sharing
  <2>3. OrphansUnlinked'
    BY DEF TypeOK, Protected, OrphansUnlinked, DirOnly
  <2> QED
    BY <2>1, <2>2, <2>3 DEF Protected
<1>9. Invalid'
  BY DEF TypeOK, Invalid, OnlyAfterError, NotInUse, FinalUnlinked, RenamedUnlinked,
         SourceValid
<1>10. InvalidNeverReused'
  BY DEF TypeOK, InvalidNeverReused
<1> QED
  BY <1>1, <1>2, <1>3, <1>4, <1>5, <1>6, <1>7, <1>8, <1>9, <1>10

\* Time that passes preserves the invariant.
LEMMA AgeStep ==
  ASSUME IInv, NEW d \in Dir, Age(d), quiet' = None
  PROVE  IInv'
<1> USE ConstantsAssumption DEF IInv, Age, files, locks, local
<1>1. TypeOK'
  BY DEF TypeOK
<1>2. Fresh'
  <2>1. \A e \in Dir : e > used => e \notin old'
    BY DEF TypeOK, Fresh, Dir
  <2> QED
    BY <2>1 DEF Fresh
<1>3. Starting'
  BY DEF Starting, Preparing, Reading
<1>4. NotGarbage'
  BY DEF NotGarbage, DirOnly
<1>5. Phase' /\ Holding' /\ PrivateDirKept' /\ InvalidNeverReused'
  BY DEF Phase, Holding, HoldsOwn, HoldsSource, HoldsCandidates, PrivateDirKept,
         InvalidNeverReused
<1>6. Protected'
  BY DEF Protected, Exclusive, Sharing, OrphansUnlinked, DirOnly
<1>7. Invalid'
  BY DEF Invalid, OnlyAfterError, NotInUse, FinalUnlinked, RenamedUnlinked, SourceValid
<1> QED
  BY <1>1, <1>2, <1>3, <1>4, <1>5, <1>6, <1>7

\* The invariant holds initially ...
LEMMA InitInv ==
  Init => IInv
<1> SUFFICES ASSUME Init
             PROVE  IInv
  OBVIOUS
<1> USE ConstantsAssumption DEF Init, Dir
<1>1. TypeOK
  BY DEF TypeOK, Names, PCs, Listings, NoListing
<1>2. Fresh
  BY DEF Fresh, NoListing, Deleting
<1>3. Phase /\ Holding /\ Starting /\ PrivateDirKept /\ InvalidNeverReused
  BY DEF Phase, Holding, HoldsOwn, HoldsSource, HoldsCandidates, Starting, PrivateDirKept,
         InvalidNeverReused, Working, Leaving, Deleting, Preparing
<1>4. NotGarbage
  BY DEF NotGarbage, DirOnly
<1>5. Protected
  BY DEF Protected, Exclusive, Sharing, OrphansUnlinked, DirOnly, Reading
<1>6. Invalid
  BY DEF Invalid, OnlyAfterError, NotInUse, FinalUnlinked, RenamedUnlinked, SourceValid,
         Preparing
<1> QED
  BY <1>1, <1>2, <1>3, <1>4, <1>5, <1>6 DEF IInv

\* ... and every step preserves it.
LEMMA NextInv ==
  IInv /\ [Next]_vars => IInv'
<1> SUFFICES ASSUME IInv, [Next]_vars
             PROVE  IInv'
  OBVIOUS
<1>1. ASSUME NEW p \in Proc, Step(p) /\ UNCHANGED deaths,
             quiet' \in Proc \union {None}
      PROVE  IInv'
  <2>1. deaths' \in Nat
    BY <1>1 DEF IInv, TypeOK
  <2> QED
    BY <1>1, <2>1, PrepareStep, CollectStep, FinalizeStep, GoneStep DEF Step, Exit
<1>2. ASSUME NEW p \in Proc, Die(p), deaths' = deaths + 1,
             quiet' \in Proc \union {None}
      PROVE  IInv'
  <2>1. deaths' \in Nat
    BY <1>2 DEF IInv, TypeOK
  <2> QED
    BY <1>2, <2>1, GoneStep DEF Die
<1>3. ASSUME NEW p \in Proc,
             quiet' = CASE pc'[p] = "idle" -> None
                        [] pc[p] = "collect" -> p
                        [] OTHER -> IF quiet = p /\ faults' = faults THEN p ELSE None
      PROVE  quiet' \in Proc \union {None}
  BY <1>3
<1>4. ASSUME NEW d \in Dir, Age(d) /\ quiet' = None
      PROVE  IInv'
  BY <1>4, AgeStep
<1>5. CASE UNCHANGED vars
  <2> USE <1>5 DEF IInv, vars, files, locks, local
  <2>1. (TypeOK /\ Fresh /\ Phase /\ Holding /\ Starting)'
    BY DEF TypeOK, Fresh, Phase, Holding, HoldsOwn, HoldsSource, HoldsCandidates, Starting
  <2>2. (NotGarbage /\ PrivateDirKept /\ Protected)'
    BY DEF NotGarbage, PrivateDirKept, Protected, Exclusive, Sharing, OrphansUnlinked,
           LockOnly, DirOnly
  <2>3. (Invalid /\ InvalidNeverReused)'
    BY DEF Invalid, OnlyAfterError, NotInUse, FinalUnlinked, RenamedUnlinked, SourceValid,
           InvalidNeverReused
  <2> QED
    BY <2>1, <2>2, <2>3
<1> QED
  BY <1>1, <1>2, <1>3, <1>4, <1>5 DEF Next

-----------------------------------------------------------------------------
(* The theorems.                                                            *)

\* Any number of processes keep the invariant above.
THEOREM Invariance ==
  Spec => []IInv
  BY InitInv, NextInv, PTL DEF Spec

\* Every variable keeps its type.
THEOREM TypeCorrect ==
  Spec => []TypeOK
<1>1. IInv => TypeOK
  BY DEF IInv
<1> QED
  BY <1>1, Invariance, PTL

\* However many processes share the crate's directory, whatever fails and whoever
\* dies, no collection removes the private directory of a session that is under
\* way, or its lock file.
THEOREM PrivateDirsKept ==
  Spec => []PrivateDirKept
<1>1. IInv => PrivateDirKept
  BY DEF IInv
<1> QED
  BY <1>1, Invariance, PTL

\* With at most one I/O error no session starts from what an invalid session left
\* behind, however many processes share the crate's directory.
THEOREM InvalidNotReused ==
  Spec => []InvalidNeverReused
<1>1. IInv => InvalidNeverReused
  BY DEF IInv
<1> QED
  BY <1>1, Invariance, PTL

\* A directory with a lock file, once it is published, changes only under the
\* exclusive lock of the process that takes the step.
LEMMA ChangedUnderLock ==
  ASSUME IInv, NEW p \in Proc, Step(p) \/ Die(p),
         NEW d \in Dir, d \in linked, name[d] # "working", ex[d] # p
  PROVE  name'[d] = name[d] /\ data'[d] = data[d]
<1> USE ConstantsAssumption DEF IInv, TypeOK, Holding
<1>0. InRange
  BY Ranges
<1>1. CASE Prepare(p)
  <2>1. CASE CreateDir(p)
    BY <2>1 DEF CreateDir, HoldsOwn
  <2>2. CASE UndoDir(p)
    <3>1. own[p] \in Dir /\ ex[own[p]] = p
      BY <1>0, <2>2 DEF UndoDir, InRange, HoldsOwn, Phase, Working
    <3>2. Removed(own[p], "working", "partial")
      BY <2>2, <3>1, RemoveEffect DEF UndoDir
    <3> QED
      BY <3>1, <3>2 DEF Removed
  <2>3. CASE Begin(p) \/ LockOwn(p) \/ FindSource(p) \/ OpenSource(p) \/ LockSource(p)
             \/ ReadSource(p) \/ CopyFiles(p) \/ UndoLock(p)
    BY <2>3 DEF Begin, LockOwn, FindSource, OpenSource, LockSource, ReadSource, CopyFiles,
           UndoLock, files
  <2> QED
    BY <1>1, <2>1, <2>2, <2>3 DEF Prepare
<1>2. CASE Collect(p)
  <2>1. CASE DeleteDir(p)
    <3>1. src[p] \in Dir /\ ex[src[p]] = p
      BY <1>0, <2>1 DEF DeleteDir, InRange, HoldsSource, Deleting
    <3>2. Removed(src[p], listed[p][src[p]].name, "partial")
      BY <2>1, <3>1, RemoveEffect DEF DeleteDir
    <3> QED
      BY <3>1, <3>2 DEF Removed
  <2>2. ASSUME NEW e \in Dir, CollectOrphan(p, e)
        PROVE  name'[d] = name[d] /\ data'[d] = data[d]
    <3>1. e # d
      BY <2>2 DEF CollectOrphan, Protected, OrphansUnlinked
    <3>2. Removed(e, listed[p][e].name, "partial")
      BY <2>2, RemoveEffect DEF CollectOrphan
    <3> QED
      BY <3>1, <3>2 DEF Removed
  <2>3. CASE ReadDir(p) \/ TryLock(p) \/ AllExceptMostRecent(p) \/ DeleteLockFile(p)
             \/ DropLock(p) \/ CollectEnd(p)
    BY <2>3 DEF ReadDir, TryLock, AllExceptMostRecent, DeleteLockFile, DropLock,
           CollectEnd, files
  <2>4. ASSUME NEW e \in Dir, CollectLockFile(p, e) \/ OpenLock(p, e) \/ NextCandidate(p, e)
        PROVE  name'[d] = name[d] /\ data'[d] = data[d]
    BY <2>4 DEF CollectLockFile, OpenLock, NextCandidate, files
  <2> QED
    BY <1>2, <2>1, <2>2, <2>3, <2>4 DEF Collect
<1>3. CASE Finalize(p)
  <2>1. CASE Publish(p)
    <3>1. ex[own[p]] = p
      BY <2>1 DEF Publish, HoldsOwn, Phase, Working
    <3> QED
      BY <2>1, <3>1 DEF Publish
  <2>2. CASE Discard(p)
    <3>1. own[p] \in Dir /\ ex[own[p]] = p
      BY <1>0, <2>2 DEF Discard, InRange, HoldsOwn, Phase, Working
    <3>2. Removed(own[p], "working", "bad")
      BY <2>2, <3>1, RemoveEffect DEF Discard
    <3> QED
      BY <3>1, <3>2 DEF Removed
  <2>3. CASE RenameInvalid(p)
    BY <2>3 DEF RenameInvalid
  <2>4. CASE Release(p) \/ DiscardLock(p) \/ Invalidate(p)
    BY <2>4 DEF Release, DiscardLock, Invalidate, files
  <2> QED
    BY <1>3, <2>1, <2>2, <2>3, <2>4 DEF Finalize
<1>4. CASE Exit(p) \/ Die(p)
  BY <1>4 DEF Exit, Die, Gone, files
<1> QED
  BY <1>1, <1>2, <1>3, <1>4 DEF Step

\* Nobody renames or removes a directory, or part of it, while a process copies it,
\* as long as its lock file is in place: the shared lock keeps every collector, and
\* the owner, away.
THEOREM ReadersAreProtected ==
  Spec => ReadersProtected
<1> DEFINE Undisturbed ==
      \A p \in Proc : LET d == src[p] IN
        (pc[p] \in {"read", "copy"} /\ pc'[p] \in {"read", "copy"} /\ d \in linked) =>
          (name'[d] = name[d] /\ data'[d] = data[d])
<1>1. IInv /\ [Next]_vars => [Undisturbed]_vars
  <2> SUFFICES ASSUME IInv, Next, NEW r \in Proc,
                      pc[r] \in {"read", "copy"}, src[r] \in linked
               PROVE  name'[src[r]] = name[src[r]] /\ data'[src[r]] = data[src[r]]
    OBVIOUS
  <2>1. src[r] \in Dir /\ name[src[r]] # "working" /\ r \in sh[src[r]]
    BY DEF IInv, Protected, Sharing, Reading
  <2>2. ex[src[r]] = None
    BY <2>1 DEF IInv, Protected, Exclusive
  <2>3. ASSUME NEW p \in Proc, Step(p) \/ Die(p)
        PROVE  name'[src[r]] = name[src[r]] /\ data'[src[r]] = data[src[r]]
    BY <2>1, <2>2, <2>3, ChangedUnderLock, ConstantsAssumption
  <2>4. ASSUME NEW d \in Dir, Age(d)
        PROVE  name'[src[r]] = name[src[r]] /\ data'[src[r]] = data[src[r]]
    BY <2>4 DEF Age, files
  <2> QED
    BY <2>3, <2>4 DEF Next
<1> QED
  BY <1>1, Invariance, PTL DEF Spec, ReadersProtected

-----------------------------------------------------------------------------
(* What a collection leaves.  While the collecting process has been alone,   *)
(* what it has not come to is as it was listed, and what it is through with  *)
(* is no garbage (Swept).                                                    *)

Untouched(p, d) == name[d] = listed[p][d].name /\ (d \in linked <=> listed[p][d].lock)
Cleared(d) == name[d] = "none" /\ d \notin linked
Complete(p, d) == listed[p][d].name = "final" /\ listed[p][d].lock

\* Candidates are being collected, as opposed to deleted; the directory that is
\* being inspected or deleted.
Choosing(p) == pc[p] \in {"gc", "tryLock"} \/ (pc[p] \in Deleting /\ src[p] \notin locked[p])
Current(p) == IF pc[p] \in Deleting \union {"tryLock"} THEN {src[p]} ELSE {}

\* The directories to come, the candidates, and the current directory.
Ahead(p) ==
  /\ \A d \in todo[p] \union locked[p] : d \notin Current(p) => Untouched(p, d)
  /\ todo[p] \intersect locked[p] = {}
  /\ \A d \in locked[p] : Complete(p, d)
UnderWay(p) ==
  /\ Current(p) \intersect todo[p] = {}
  /\ pc[p] = "tryLock" => src[p] \notin locked[p] /\ (listed[p][src[p]].name = "final" \/ src[p] \in old)
  /\ pc[p] \in Deleting /\ src[p] \notin locked[p] => listed[p][src[p]].name = "working"
  /\ pc[p] \in {"tryLock", "deleteDir"} => Untouched(p, src[p])
  /\ pc[p] \in Deleting \union {"tryLock"} => listed[p][src[p]].lock
  /\ pc[p] = "unlink" => name[src[p]] = "none"
  /\ pc[p] = "unlock" => Cleared(src[p])

\* A directory, or lock file, that the collection is through with.
Settled(p, d) ==
  \/ Cleared(d) /\ (Complete(p, d) => ~Choosing(p))
  \/ listed[p][d].name = "none" /\ name[d] = "none"
  \/ listed[p][d].name = "working" /\ listed[p][d].lock /\ Untouched(p, d) /\ (d \notin old \/ ~Free(d))
  \/ Complete(p, d) /\ Untouched(p, d) /\ (Choosing(p) => ~Free(d))
Behind(p) == \A d \in Dir : d \notin todo[p] \union locked[p] \union Current(p) => Settled(p, d)

\* Of the candidates the newest is kept, and it only.
Kept(p, d) == Complete(p, d) /\ d \notin locked[p] /\ Free(d) /\ name[d] = "final"
KeptOne(p) == ~Choosing(p) =>
  /\ \A d, e \in Dir : Kept(p, d) /\ Kept(p, e) => d = e
  /\ \A d \in Dir : Complete(p, d) /\ (d \in locked[p] \/ name[d] = "none") =>
       \E k \in Dir : Kept(p, k) /\ k > d

Swept(p) == Ahead(p) /\ UnderWay(p) /\ Behind(p) /\ KeptOne(p)
AllSwept == \A p \in Proc : quiet = p /\ pc[p] \in Collecting => Swept(p)

\* The listing is up to date, and what is not listed is not there.
LEMMA ReadDirSweeps ==
  ASSUME IInv, NEW p \in Proc, ReadDir(p)
  PROVE  Swept(p)'
<1>1. /\ pc[p] = "collect" /\ pc' = [pc EXCEPT ![p] = "gc"] /\ UNCHANGED <<name, data, linked, locked>>
      /\ pc'[p] = "gc" /\ locked'[p] = {}
  BY DEF ReadDir, Goto, files, IInv, TypeOK, Phase, Collecting
<1>2. /\ todo'[p] = {d \in Dir : Exists(d) \/ d \in linked}
      /\ \A d \in Dir : listed'[p][d].name = name[d] /\ (listed'[p][d].lock <=> d \in linked)
  BY DEF ReadDir, IInv, TypeOK
<1>3. Current(p)' = {} /\ Choosing(p)' /\ todo'[p] \subseteq Dir
  BY <1>1, <1>2 DEF Current, Choosing, Deleting
<1>4. Ahead(p)'
  BY <1>1, <1>2, <1>3 DEF Ahead, Untouched
<1>5. UnderWay(p)'
  BY <1>1, <1>3 DEF UnderWay, Deleting
<1>6. Behind(p)'
  <2> SUFFICES ASSUME NEW d \in Dir, d \notin todo'[p]
               PROVE  Settled(p, d)'
    BY DEF Behind
  <2>1. name[d] = "none" /\ d \notin linked
    BY <1>2 DEF Exists
  <2> QED
    BY <1>1, <1>2, <2>1 DEF Settled, Cleared, Complete
<1> QED
  BY <1>3, <1>4, <1>5, <1>6 DEF Swept, KeptOne

\* Lock files and directories that are taken without locking.
LEMMA LeftoversSwept ==
  ASSUME IInv, NEW p \in Proc, Swept(p), NEW d \in Dir,
         CollectLockFile(p, d) \/ CollectOrphan(p, d), faults' = faults
  PROVE  Swept(p)'
<1>1. /\ pc[p] = "gc" /\ d \in todo[p] /\ todo'[p] = todo[p] \ {d}
      /\ UNCHANGED <<pc, ex, sh, old, src, listed, locked>>
  BY DEF CollectLockFile, CollectOrphan, LockOnly, DirOnly, DoneWith, locks, IInv, TypeOK
<1>2. Current(p) = {} /\ Current(p)' = {} /\ Choosing(p) /\ Choosing(p)'
  BY <1>1 DEF Current, Choosing, Deleting
<1>3. \A e \in Dir : e # d => name'[e] = name[e] /\ (e \in linked' <=> e \in linked)
  <2>1. CASE CollectLockFile(p, d)
    BY <2>1 DEF CollectLockFile, HasTimestamp
  <2>2. CASE CollectOrphan(p, d)
    <3>1. Removed(d, listed[p][d].name, "partial")
      BY <2>2, RemoveEffect DEF CollectOrphan, IInv
    <3> QED
      BY <2>2, <3>1 DEF CollectOrphan, Removed
  <2> QED
    BY <2>1, <2>2
<1>4. Untouched(p, d) /\ d \notin locked[p]
  BY <1>1, <1>2 DEF Swept, Ahead
<1>5. Settled(p, d)'
  <2>1. CASE CollectLockFile(p, d)
    <3>1. listed[p][d].name = "none" /\ name'[d] = "none"
      BY <1>4, <2>1 DEF CollectLockFile, LockOnly, Untouched
    <3> QED
      BY <1>1, <3>1 DEF Settled, Cleared, Complete
  <2>2. CASE CollectOrphan(p, d)
    <3>1. ~listed[p][d].lock /\ d \notin linked' /\ name[d] = listed[p][d].name
      BY <1>4, <2>2 DEF CollectOrphan, DirOnly, Untouched
    <3>2. name'[d] = "none"
      BY <2>2, <3>1 DEF CollectOrphan, Remove, RemoveFails, Fault, IInv, TypeOK
    <3> QED
      BY <1>1, <3>1, <3>2 DEF Settled, Cleared, Complete
  <2> QED
    BY <2>1, <2>2
<1>6. todo[p] \subseteq Dir /\ locked[p] \subseteq Dir
  BY DEF IInv, TypeOK
<1>7. Ahead(p)'
  <2>1. \A e \in todo'[p] \union locked'[p] : Untouched(p, e)'
    BY <1>1, <1>2, <1>3, <1>4, <1>6 DEF Swept, Ahead, Untouched
  <2> QED
    BY <1>1, <2>1 DEF Swept, Ahead, Complete
<1>8. UnderWay(p)'
  BY <1>1, <1>2 DEF UnderWay, Deleting
<1>9. Behind(p)'
  <2> SUFFICES ASSUME NEW e \in Dir, e # d, e \notin todo[p] \union locked[p]
               PROVE  Settled(p, e)'
    BY <1>1, <1>5 DEF Behind
  <2>1. Settled(p, e)
    BY <1>2 DEF Swept, Behind
  <2> QED
    BY <1>1, <1>2, <1>3, <2>1 DEF Settled, Cleared, Complete, Untouched, Free
<1> QED
  BY <1>2, <1>7, <1>8, <1>9 DEF Swept, KeptOne

\* A lock file is opened, or a young private directory left alone.
LEMMA OpenLockSweeps ==
  ASSUME IInv, NEW p \in Proc, Swept(p), NEW d \in Dir, OpenLock(p, d)
  PROVE  Swept(p)'
<1>1. /\ pc[p] = "gc" /\ d \in todo[p] /\ todo'[p] = todo[p] \ {d}
      /\ UNCHANGED <<name, linked, ex, sh, old, listed, locked>>
      /\ LockOnly(p) = {} /\ DirOnly(p) = {}
  BY DEF OpenLock, DoneWith, files, locks, IInv, TypeOK
<1>2. Current(p) = {} /\ Choosing(p)
  BY <1>1 DEF Current, Choosing, Deleting
<1>3. /\ Untouched(p, d) /\ d \notin locked[p] /\ listed[p][d].lock /\ listed[p][d].name \in {"working", "final"}
      /\ d \in linked
  BY <1>1, <1>2 DEF Swept, Ahead, LockOnly, DirOnly, Untouched, IInv, TypeOK, Listings, Names
<1>4. todo[p] \subseteq Dir /\ locked[p] \subseteq Dir
  BY DEF IInv, TypeOK
<1>5. \A e \in Dir : e # d /\ e \notin todo[p] \union locked[p] => Settled(p, e)
  BY <1>2 DEF Swept, Behind
<1>6. CASE listed[p][d].name = "final" \/ d \in old
  <2>1. src'[p] = d /\ pc'[p] = "tryLock"
    BY <1>3, <1>6 DEF OpenLock, HasTimestamp, Goto, IInv, TypeOK
  <2>2. Current(p)' = {d} /\ Choosing(p)'
    BY <2>1 DEF Current, Choosing
  <2>3. Ahead(p)'
    BY <1>1, <1>2, <1>4 DEF Swept, Ahead, Untouched, Complete
  <2>4. UnderWay(p)'
    BY <1>1, <1>3, <1>6, <2>1, <2>2 DEF UnderWay, Untouched, Deleting
  <2>5. Behind(p)'
    <3> SUFFICES ASSUME NEW e \in Dir, e # d, e \notin todo[p] \union locked[p]
                 PROVE  Settled(p, e)'
      BY <1>1, <2>2 DEF Behind
    <3> QED
      BY <1>1, <1>2, <1>5, <2>2 DEF Settled, Cleared, Complete, Untouched, Free
  <2> QED
    BY <2>2, <2>3, <2>4, <2>5 DEF Swept, KeptOne
<1>7. CASE ~(listed[p][d].name = "final" \/ d \in old)
  <2>1. UNCHANGED <<src, pc>>
    BY <1>7 DEF OpenLock
  <2>2. Current(p)' = {} /\ Choosing(p)'
    BY <1>1, <2>1 DEF Current, Choosing, Deleting
  <2>3. Ahead(p)'
    BY <1>1, <1>2, <1>4 DEF Swept, Ahead, Untouched, Complete
  <2>4. UnderWay(p)'
    BY <1>1, <2>1, <2>2 DEF UnderWay, Deleting
  <2>5. Settled(p, d)'
    BY <1>1, <1>3, <1>7 DEF Settled, Untouched
  <2>6. Behind(p)'
    <3> SUFFICES ASSUME NEW e \in Dir, e # d, e \notin todo[p] \union locked[p]
                 PROVE  Settled(p, e)'
      BY <1>1, <2>2, <2>5 DEF Behind
    <3> QED
      BY <1>1, <1>2, <1>5, <2>2 DEF Settled, Cleared, Complete, Untouched, Free
  <2> QED
    BY <2>2, <2>3, <2>4, <2>6 DEF Swept, KeptOne
<1> QED
  BY <1>6, <1>7

\* A lock is taken, or somebody else has it.
LEMMA TryLockSweeps ==
  ASSUME IInv, NEW p \in Proc, Swept(p), TryLock(p)
  PROVE  Swept(p)'
<1> DEFINE d == src[p]
<1>1. /\ pc[p] = "tryLock" /\ UNCHANGED <<name, linked, sh, old, src, listed, todo>>
      /\ pc'[p] \in {"gc", "deleteDir"}
  BY DEF TryLock, Goto, files, IInv, TypeOK
<1>2. /\ d \in Dir /\ todo[p] \subseteq Dir /\ locked[p] \subseteq Dir
      /\ listed[p][d].name \in {"working", "final"}
  <2>1. InRange /\ listed[p][d].name # "none"
    BY <1>1, Ranges DEF IInv, Phase
  <2> QED
    BY <1>1, <2>1 DEF InRange, IInv, TypeOK, Listings, Names
<1>3. Current(p) = {d} /\ Choosing(p)
  BY <1>1 DEF Current, Choosing
<1>4. /\ d \notin todo[p] /\ d \notin locked[p] /\ Untouched(p, d) /\ listed[p][d].lock
      /\ listed[p][d].name = "final" \/ d \in old
  BY <1>1, <1>3 DEF Swept, UnderWay
<1>5. \A e \in Dir : e # d /\ e \notin todo[p] \union locked[p] => Settled(p, e)
  BY <1>3 DEF Swept, Behind
<1>6. CASE ~Free(d)
  <2>1. UNCHANGED <<ex, locked>> /\ pc'[p] = "gc"
    BY <1>6 DEF TryLock, Goto, IInv, TypeOK
  <2>2. Current(p)' = {} /\ Choosing(p)'
    BY <2>1 DEF Current, Choosing, Deleting
  <2>3. Ahead(p)'
    BY <1>1, <1>2, <1>3, <1>4, <2>1, <2>2 DEF Swept, Ahead, Untouched, Complete
  <2>4. UnderWay(p)'
    BY <2>1, <2>2 DEF UnderWay, Deleting
  <2>5. Settled(p, d)'
    BY <1>1, <1>2, <1>4, <1>6, <2>1 DEF Settled, Untouched, Complete, Free
  <2>6. Behind(p)'
    <3> SUFFICES ASSUME NEW e \in Dir, e # d, e \notin todo[p] \union locked[p]
                 PROVE  Settled(p, e)'
      BY <1>1, <2>1, <2>2, <2>5 DEF Behind
    <3> QED
      BY <1>1, <1>3, <1>5, <2>1, <2>2 DEF Settled, Cleared, Complete, Untouched, Free
  <2> QED
    BY <2>2, <2>3, <2>4, <2>6 DEF Swept, KeptOne
<1>7. CASE Free(d) /\ listed[p][d].name = "final"
  <2>1. pc'[p] = "gc" /\ locked'[p] = locked[p] \union {d} /\ ex' = [ex EXCEPT ![d] = p]
    BY <1>7 DEF TryLock, Goto, IInv, TypeOK
  <2>2. Current(p)' = {} /\ Choosing(p)'
    BY <2>1 DEF Current, Choosing, Deleting
  <2>3. Ahead(p)'
    BY <1>1, <1>2, <1>3, <1>4, <1>7, <2>1, <2>2 DEF Swept, Ahead, Untouched, Complete
  <2>4. UnderWay(p)'
    BY <2>1, <2>2 DEF UnderWay, Deleting
  <2>5. Behind(p)'
    <3> SUFFICES ASSUME NEW e \in Dir, e # d, e \notin todo[p] \union locked[p]
                 PROVE  Settled(p, e)'
      BY <1>1, <2>1, <2>2 DEF Behind
    <3>1. ex'[e] = ex[e]
      BY <2>1 DEF IInv, TypeOK
    <3> QED
      BY <1>1, <1>3, <1>5, <2>2, <3>1 DEF Settled, Cleared, Complete, Untouched, Free
  <2> QED
    BY <2>2, <2>3, <2>4, <2>5 DEF Swept, KeptOne
<1>8. CASE Free(d) /\ listed[p][d].name = "working"
  <2>1. pc'[p] = "deleteDir" /\ UNCHANGED locked /\ ex' = [ex EXCEPT ![d] = p]
    BY <1>8 DEF TryLock, Goto, IInv, TypeOK
  <2>2. Current(p)' = {d} /\ Choosing(p)'
    BY <1>1, <1>4, <2>1 DEF Current, Choosing, Deleting
  <2>3. Ahead(p)'
    BY <1>1, <1>2, <1>3, <1>4, <2>1, <2>2 DEF Swept, Ahead, Untouched, Complete
  <2>4. UnderWay(p)'
    BY <1>1, <1>4, <1>8, <2>1, <2>2 DEF UnderWay, Deleting, Untouched
  <2>5. Behind(p)'
    <3> SUFFICES ASSUME NEW e \in Dir, e # d, e \notin todo[p] \union locked[p]
                 PROVE  Settled(p, e)'
      BY <1>1, <2>1, <2>2 DEF Behind
    <3>1. ex'[e] = ex[e]
      BY <2>1 DEF IInv, TypeOK
    <3> QED
      BY <1>1, <1>3, <1>5, <2>2, <3>1 DEF Settled, Cleared, Complete, Untouched, Free
  <2> QED
    BY <2>2, <2>3, <2>4, <2>5 DEF Swept, KeptOne
<1> QED
  BY <1>2, <1>6, <1>7, <1>8

\* The newest candidate is spared.
LEMMA MostRecentKept ==
  ASSUME IInv, NEW p \in Proc, Swept(p), AllExceptMostRecent(p)
  PROVE  Swept(p)'
<1> DEFINE newest == {d \in locked[p] : \A e \in locked[p] : e <= d}
<1>1. /\ pc[p] = "gc" /\ pc'[p] = "delete" /\ todo[p] = {} /\ locked'[p] = locked[p] \ newest
      /\ UNCHANGED <<name, linked, sh, old, src, listed, todo>>
  BY DEF AllExceptMostRecent, Goto, files, IInv, TypeOK
<1>2. Unlocked(p, newest)
  BY UnlockEffect DEF AllExceptMostRecent, IInv
<1>3. Current(p) = {} /\ Choosing(p) /\ Current(p)' = {} /\ ~Choosing(p)'
  BY <1>1 DEF Current, Choosing, Deleting
<1>4. /\ locked[p] \in SUBSET Dir /\ \A d \in Dir : d \in Nat
      /\ \A d \in locked[p] : ex[d] = p /\ sh[d] = {}
  <2>1. locked[p] \in SUBSET Dir /\ \A d \in Dir : d \in Nat
    BY ConstantsAssumption DEF IInv, TypeOK, Dir
  <2>2. \A d \in locked[p] : d \in Dir /\ ex[d] = p /\ ex[d] # None
    BY <2>1, ConstantsAssumption DEF IInv, Holding, HoldsCandidates
  <2> QED
    BY <2>1, <2>2 DEF IInv, Protected, Exclusive
<1>5. \A d \in newest : Free(d)'
  BY <1>1, <1>2, <1>4 DEF Unlocked, Free
<1>6. \A d, e \in newest : d = e
  BY <1>4
<1>7. \A d \in locked[p] : Complete(p, d) /\ Untouched(p, d)
  BY <1>3 DEF Swept, Ahead
<1>8. \A d \in Dir : d \notin locked[p] => Settled(p, d) /\ ex'[d] = ex[d]
  BY <1>1, <1>2, <1>3 DEF Swept, Behind, Unlocked
<1>9. Ahead(p)'
  BY <1>1, <1>7 DEF Ahead, Untouched, Complete
<1>10. UnderWay(p)'
  BY <1>1, <1>3 DEF UnderWay, Deleting
<1>11. Behind(p)'
  <2> SUFFICES ASSUME NEW d \in Dir, d \notin locked'[p]
               PROVE  Settled(p, d)'
    BY DEF Behind
  <2>1. CASE d \in newest
    BY <1>1, <1>3, <1>7, <2>1 DEF Settled, Complete, Untouched
  <2>2. CASE d \notin newest
    <3>1. Settled(p, d) /\ ex'[d] = ex[d]
      BY <1>1, <1>8, <2>2
    <3> QED
      BY <1>1, <1>3, <3>1 DEF Settled, Cleared, Complete, Untouched, Free
  <2> QED
    BY <2>1, <2>2
<1>12. \A d \in Dir : Kept(p, d)' => d \in newest
  <2> SUFFICES ASSUME NEW d \in Dir, Kept(p, d)', d \notin newest
               PROVE  FALSE
    OBVIOUS
  <2>1. /\ d \notin locked[p] /\ Complete(p, d) /\ ex'[d] = None /\ sh'[d] = {}
        /\ name[d] = "final"
    BY <1>1 DEF Kept, Complete, Free
  <2>2. Settled(p, d) /\ Free(d)
    BY <1>1, <1>8, <2>1 DEF Free
  <2> QED
    BY <1>3, <2>1, <2>2 DEF Settled, Cleared, Complete
<1>13. ASSUME NEW d \in Dir, Complete(p, d)', d \in locked'[p] \/ name'[d] = "none"
       PROVE  \E k \in Dir : Kept(p, k)' /\ k > d
  <2>1. d \in locked'[p]
    <3> SUFFICES ASSUME d \notin locked'[p]
                 PROVE  FALSE
      OBVIOUS
    <3>1. name[d] = "none" /\ Complete(p, d)
      BY <1>1, <1>13 DEF Complete
    <3>2. d \notin locked[p]
      BY <1>7, <3>1 DEF Untouched, Complete
    <3> QED
      BY <1>3, <1>8, <3>1, <3>2 DEF Settled, Complete, Untouched
  <2>2. d \in locked[p] /\ d \notin newest
    BY <1>1, <2>1
  <2>3. PICK k \in locked[p] : \A e \in locked[p] : k >= e
    BY <1>4, <2>2, MaxExists, ConstantsAssumption DEF Dir
  <2>4. k \in newest /\ k > d
    BY <1>4, <2>2, <2>3
  <2>5. Kept(p, k)'
    <3>1. k \notin locked'[p] /\ Free(k)'
      BY <1>1, <1>5, <2>4
    <3>2. Complete(p, k)' /\ name'[k] = "final"
      BY <1>1, <1>7 DEF Complete, Untouched
    <3> QED
      BY <3>1, <3>2 DEF Kept
  <2> QED
    BY <1>4, <2>4, <2>5
<1>14. KeptOne(p)'
  BY <1>6, <1>12, <1>13 DEF KeptOne
<1> QED
  BY <1>9, <1>10, <1>11, <1>14 DEF Swept

\* The next candidate is picked for deletion.
LEMMA CandidatePicked ==
  ASSUME IInv, NEW p \in Proc, Swept(p), NEW d \in Dir, NextCandidate(p, d)
  PROVE  Swept(p)'
<1>1. /\ pc[p] = "delete" /\ pc'[p] = "deleteDir" /\ d \in locked[p] /\ src'[p] = d
      /\ UNCHANGED <<name, linked, ex, sh, old, listed, todo, locked>>
  BY DEF NextCandidate, Goto, files, locks, IInv, TypeOK
<1>2. Current(p) = {} /\ ~Choosing(p) /\ Current(p)' = {d} /\ ~Choosing(p)'
  BY <1>1 DEF Current, Choosing, Deleting
<1>3. Complete(p, d) /\ Untouched(p, d) /\ d \notin todo[p]
  BY <1>1, <1>2 DEF Swept, Ahead
<1>4. Ahead(p)'
  BY <1>1, <1>2 DEF Swept, Ahead, Untouched, Complete
<1>5. UnderWay(p)'
  BY <1>1, <1>2, <1>3 DEF UnderWay, Deleting, Untouched, Complete
<1>6. Behind(p)'
  BY <1>1, <1>2 DEF Swept, Behind, Settled, Cleared, Complete, Untouched, Free
<1>7. KeptOne(p)'
  BY <1>1, <1>2 DEF Swept, KeptOne, Kept, Complete, Free
<1> QED
  BY <1>4, <1>5, <1>6, <1>7 DEF Swept

\* The directory is removed, and then its lock file.
LEMMA DeletionSweeps ==
  ASSUME IInv, NEW p \in Proc, Swept(p), DeleteDir(p) \/ DeleteLockFile(p), faults' = faults
  PROVE  Swept(p)'
<1> DEFINE d == src[p]
<1>1. /\ pc[p] \in {"deleteDir", "unlink"}
      /\ UNCHANGED <<ex, sh, old, src, listed, todo, locked>>
  BY DEF DeleteDir, DeleteLockFile, locks, local
<1>2. d \in Dir /\ todo[p] \subseteq Dir /\ locked[p] \subseteq Dir
  <2>1. InRange
    BY Ranges
  <2> QED
    BY <1>1, <2>1 DEF InRange, IInv, TypeOK, Deleting
<1>3. /\ d \notin todo[p] /\ listed[p][d].lock
      /\ d \notin locked[p] => listed[p][d].name = "working"
      /\ pc[p] = "deleteDir" => Untouched(p, d)
      /\ pc[p] = "unlink" => name[d] = "none"
  BY <1>1 DEF Swept, UnderWay, Current, Deleting
<1>4. /\ \A e \in Dir : e # d => name'[e] = name[e] /\ (e \in linked' <=> e \in linked)
      /\ name'[d] = "none" /\ pc'[p] \in {"unlink", "unlock"}
      /\ pc'[p] = "unlock" => d \notin linked'
  <2>1. CASE DeleteDir(p)
    <3>1. pc[p] = "deleteDir" /\ ~RemoveFails(d, listed[p][d].name, "partial")
      BY <2>1 DEF DeleteDir, RemoveFails, Fault, IInv, TypeOK
    <3>2. Remove(d, listed[p][d].name) /\ pc'[p] = "unlink" /\ UNCHANGED linked
      BY <2>1, <3>1 DEF DeleteDir, Goto, IInv, TypeOK
    <3>3. name[d] = listed[p][d].name
      BY <1>3, <3>1 DEF Untouched
    <3>4. name' = [name EXCEPT ![d] = "none"] /\ name \in [Dir -> Names]
      BY <3>2, <3>3 DEF Remove, IInv, TypeOK
    <3> QED
      BY <1>2, <3>2, <3>4
  <2>2. CASE DeleteLockFile(p)
    <3>1. pc[p] = "unlink" /\ pc'[p] = "unlock" /\ UNCHANGED name /\ Unlink(d)
      BY <2>2 DEF DeleteLockFile, Goto, IInv, TypeOK
    <3>2. linked' = linked \ {d}
      BY <3>1 DEF Unlink, Fault, IInv, TypeOK
    <3> QED
      BY <1>3, <3>1, <3>2
  <2> QED
    BY <2>1, <2>2
<1>5. Current(p) = {d} /\ Current(p)' = {d} /\ (Choosing(p)' <=> Choosing(p))
      /\ (Choosing(p) <=> d \notin locked[p])
  BY <1>1, <1>4 DEF Current, Choosing, Deleting
<1>6. Ahead(p)'
  BY <1>1, <1>2, <1>4, <1>5 DEF Swept, Ahead, Untouched, Complete
<1>7. UnderWay(p)'
  BY <1>1, <1>3, <1>4, <1>5 DEF UnderWay, Deleting, Cleared
<1>8. Behind(p)'
  <2> SUFFICES ASSUME NEW e \in Dir, e # d, e \notin todo[p] \union locked[p]
               PROVE  Settled(p, e)'
    BY <1>1, <1>5 DEF Behind
  <2>1. Settled(p, e)
    BY <1>5 DEF Swept, Behind
  <2> QED
    BY <1>1, <1>4, <1>5, <2>1 DEF Settled, Cleared, Complete, Untouched, Free
<1>9. KeptOne(p)'
  <2> SUFFICES ASSUME d \in locked[p]
               PROVE  KeptOne(p)'
    BY <1>5 DEF KeptOne
  <2>1. \A e \in Dir : Kept(p, e)' <=> Kept(p, e)
    BY <1>1, <1>4 DEF Kept, Complete, Free
  <2>2. \A e \in Dir : /\ Complete(p, e)' <=> Complete(p, e)
                       /\ e \in locked'[p] \/ name'[e] = "none" <=> e \in locked[p] \/ name[e] = "none"
    BY <1>1, <1>4 DEF Complete
  <2>3. KeptOne(p) /\ ~Choosing(p)
    BY <1>5 DEF Swept
  <2> QED
    BY <2>1, <2>2, <2>3 DEF KeptOne
<1> QED
  BY <1>6, <1>7, <1>8, <1>9 DEF Swept

\* The lock of what was deleted is dropped.
LEMMA DropLockSweeps ==
  ASSUME IInv, NEW p \in Proc, Swept(p), DropLock(p)
  PROVE  Swept(p)'
<1> DEFINE d == src[p]
<1>1. /\ pc[p] = "unlock" /\ UNCHANGED <<name, linked, sh, old, src, listed, todo>>
      /\ locked'[p] = locked[p] \ {d}
      /\ pc'[p] = IF d \in locked[p] THEN "delete" ELSE "gc"
  BY DEF DropLock, Goto, files, IInv, TypeOK
<1>2. d \in Dir /\ todo[p] \subseteq Dir /\ locked[p] \subseteq Dir
  <2>1. InRange
    BY Ranges
  <2> QED
    BY <1>1, <2>1 DEF InRange, IInv, TypeOK, Deleting
<1>3. \A e \in Dir : e # d => ex'[e] = ex[e]
  BY UnlockEffect DEF DropLock, Unlocked, IInv
<1>4. /\ d \notin todo[p] /\ Cleared(d)
      /\ d \notin locked[p] => listed[p][d].name = "working"
  BY <1>1 DEF Swept, UnderWay, Current, Deleting
<1>5. Current(p) = {d} /\ Current(p)' = {} /\ (Choosing(p)' <=> Choosing(p))
      /\ (Choosing(p) <=> d \notin locked[p])
  BY <1>1 DEF Current, Choosing, Deleting
<1>6. Ahead(p)'
  BY <1>1, <1>2, <1>4, <1>5 DEF Swept, Ahead, Untouched, Complete
<1>7. UnderWay(p)'
  BY <1>1, <1>5 DEF UnderWay, Deleting
<1>8. Behind(p)'
  <2> SUFFICES ASSUME NEW e \in Dir, e \notin todo[p] \union locked'[p]
               PROVE  Settled(p, e)'
    BY <1>1 DEF Behind
  <2>1. CASE e = d
    BY <1>1, <1>4, <1>5, <2>1 DEF Settled, Cleared, Complete
  <2>2. CASE e # d
    <3>1. Settled(p, e) /\ ex'[e] = ex[e]
      BY <1>1, <1>3, <1>5, <2>2 DEF Swept, Behind
    <3> QED
      BY <1>1, <1>5, <3>1 DEF Settled, Cleared, Complete, Untouched, Free
  <2> QED
    BY <2>1, <2>2
<1>9. KeptOne(p)'
  <2> SUFFICES ASSUME d \in locked[p]
               PROVE  KeptOne(p)'
    BY <1>5 DEF KeptOne
  <2>1. \A e \in Dir : Kept(p, e)' <=> Kept(p, e)
    <3> TAKE e \in Dir
    <3>1. CASE e = d
      BY <1>1, <1>4, <3>1 DEF Kept, Cleared
    <3>2. CASE e # d
      BY <1>1, <1>3, <3>2 DEF Kept, Complete, Free
    <3> QED
      BY <3>1, <3>2
  <2>2. \A e \in Dir : /\ Complete(p, e)' <=> Complete(p, e)
                       /\ e \in locked'[p] \/ name'[e] = "none" => e \in locked[p] \/ name[e] = "none"
    BY <1>1 DEF Complete
  <2>3. KeptOne(p) /\ ~Choosing(p)
    BY <1>5 DEF Swept
  <2> QED
    BY <2>1, <2>2, <2>3 DEF KeptOne
<1> QED
  BY <1>6, <1>7, <1>8, <1>9 DEF Swept

\* A step of an undisturbed collection keeps Swept.
LEMMA SweptStep ==
  ASSUME IInv, NEW p \in Proc, quiet = p /\ pc[p] \in Collecting => Swept(p),
         Step(p) \/ Die(p), pc'[p] \in Collecting,
         pc[p] # "collect" => quiet = p /\ faults' = faults
  PROVE  Swept(p)'
<1>1. ~(Prepare(p) \/ Finalize(p) \/ Exit(p) \/ Die(p) \/ CollectEnd(p))
  <2>1. ~Prepare(p)
    BY DEF Prepare, Begin, LockOwn, CreateDir, FindSource, OpenSource, LockSource, ReadSource,
           CopyFiles, UndoDir, UndoLock, Goto, IInv, TypeOK, Collecting
  <2>2. ~Finalize(p)
    BY DEF Finalize, Publish, Release, Discard, DiscardLock, Invalidate, RenameInvalid, Goto,
           IInv, TypeOK, Collecting
  <2>3. ~Exit(p) /\ ~Die(p) /\ ~CollectEnd(p)
    BY DEF Exit, Die, Gone, CollectEnd, Goto, IInv, TypeOK, Collecting
  <2> QED
    BY <2>1, <2>2, <2>3
<1>2. CASE ReadDir(p)
  BY <1>2, ReadDirSweeps
<1>3. CASE TryLock(p)
  <2>1. Swept(p)
    BY <1>3 DEF TryLock, Collecting
  <2> QED
    BY <1>3, <2>1, TryLockSweeps
<1>4. CASE AllExceptMostRecent(p)
  <2>1. Swept(p)
    BY <1>4 DEF AllExceptMostRecent, Collecting
  <2> QED
    BY <1>4, <2>1, MostRecentKept
<1>5. CASE DeleteDir(p) \/ DeleteLockFile(p)
  <2>1. Swept(p) /\ faults' = faults
    BY <1>5 DEF DeleteDir, DeleteLockFile, Collecting
  <2> QED
    BY <1>5, <2>1, DeletionSweeps
<1>6. CASE DropLock(p)
  <2>1. Swept(p)
    BY <1>6 DEF DropLock, Collecting
  <2> QED
    BY <1>6, <2>1, DropLockSweeps
<1>7. ASSUME NEW d \in Dir, CollectLockFile(p, d) \/ CollectOrphan(p, d)
      PROVE  Swept(p)'
  <2>1. Swept(p) /\ faults' = faults
    BY <1>7 DEF CollectLockFile, CollectOrphan, Collecting
  <2> QED
    BY <1>7, <2>1, LeftoversSwept
<1>8. ASSUME NEW d \in Dir, OpenLock(p, d) \/ NextCandidate(p, d)
      PROVE  Swept(p)'
  <2>1. Swept(p)
    BY <1>8 DEF OpenLock, NextCandidate, Collecting
  <2> QED
    BY <1>8, <2>1, OpenLockSweeps, CandidatePicked
<1> QED
  BY <1>1, <1>2, <1>3, <1>4, <1>5, <1>6, <1>7, <1>8 DEF Step, Collect

\* A finished collection that was not disturbed has left no garbage.
LEMMA SweptMeansCollected ==
  ASSUME IInv, NEW p \in Proc, Swept(p), pc[p] = "delete", locked[p] = {},
         NEW d \in Dir, Free(d)
  PROVE  /\ (listed[p][d].name = "final" /\ listed[p][d].lock) =>
              IF \E e \in Finals : Free(e) /\ e > d THEN name[d] = "none"
                                                    ELSE name[d] = "final"
         /\ name[d] = "final" => d \in linked
         /\ name[d] = "working" => d \in linked \ old
<1>1. todo[p] = {} /\ Current(p) = {} /\ ~Choosing(p)
  BY DEF IInv, Phase, Current, Choosing, Deleting
<1>2. \A e \in Dir : Settled(p, e)
  BY <1>1 DEF Swept, Behind
<1>3. \A e \in Dir : e \in Nat
  BY ConstantsAssumption DEF Dir
<1>4. \A e \in Finals : Free(e) => Kept(p, e)
  BY <1>2 DEF Finals, Kept, Settled, Cleared, Complete, Untouched
<1>5. ASSUME Complete(p, d)
      PROVE  IF \E e \in Finals : Free(e) /\ e > d THEN name[d] = "none" ELSE name[d] = "final"
  <2>1. CASE name[d] = "none"
    <3>1. PICK k \in Dir : Kept(p, k) /\ k > d
      BY <1>1, <1>5, <2>1 DEF Swept, KeptOne
    <3>2. k \in Finals /\ Free(k)
      BY <3>1 DEF Kept, Finals
    <3> QED
      BY <2>1, <3>1, <3>2
  <2>2. CASE name[d] # "none"
    <3>1. name[d] = "final"
      BY <1>2, <1>5, <2>2 DEF Settled, Cleared, Complete, Untouched
    <3>2. d \in Finals /\ Kept(p, d)
      BY <1>4, <3>1 DEF Finals
    <3>3. \A e \in Finals : Free(e) => e = d
      BY <1>1, <1>4, <3>2 DEF Swept, KeptOne, Finals
    <3> QED
      BY <1>3, <3>1, <3>3
  <2> QED
    BY <2>1, <2>2
<1>6. name[d] = "final" => d \in linked
  BY <1>2 DEF Settled, Cleared, Complete, Untouched
<1>7. name[d] = "working" => d \in linked \ old
  BY <1>2 DEF Settled, Cleared, Complete, Untouched
<1> QED
  BY <1>5, <1>6, <1>7 DEF Complete

\* A collection that nobody and nothing interrupts leaves no garbage directory, however
\* many directories, processes and earlier deaths there are: of the directories not in
\* use only the most recent finalized one stays, and young private ones.
THEOREM GarbageIsCollected ==
  Spec => []CollectsGarbage
<1>1. Init => AllSwept
  BY ConstantsAssumption DEF Init, AllSwept
<1>2. IInv /\ AllSwept /\ [Next]_vars => AllSwept'
  <2> SUFFICES ASSUME IInv, AllSwept, [Next]_vars, NEW p \in Proc, quiet' = p, pc'[p] \in Collecting
               PROVE  Swept(p)'
    BY DEF AllSwept
  <2>1. ASSUME NEW q \in Proc, Step(q) \/ Die(q),
               quiet' = CASE pc'[q] = "idle" -> None
                          [] pc[q] = "collect" -> q
                          [] OTHER -> IF quiet = q /\ faults' = faults THEN q ELSE None
        PROVE  Swept(p)'
    <3>1. q = p /\ (pc[p] # "collect" => quiet = p /\ faults' = faults)
      BY <2>1, ConstantsAssumption
    <3> QED
      BY <2>1, <3>1, SweptStep DEF AllSwept
  <2>2. ASSUME quiet' = None
        PROVE  Swept(p)'
    BY <2>2, ConstantsAssumption
  <2>3. CASE UNCHANGED vars
    <3>1. /\ UNCHANGED <<name, linked, ex, sh, old, pc, src, listed, todo, locked>> /\ quiet = p
          /\ pc[p] \in Collecting
      BY <2>3 DEF vars, files, locks, local
    <3>2. Swept(p)
      BY <3>1 DEF AllSwept
    <3>3. Ahead(p)' /\ UnderWay(p)'
      BY <3>1, <3>2 DEF Swept, Ahead, UnderWay, Untouched, Complete, Current, Cleared
    <3>4. Behind(p)' /\ KeptOne(p)'
      BY <3>1, <3>2 DEF Swept, Behind, KeptOne, Kept, Settled, Cleared, Complete, Untouched,
             Choosing, Current, Free
    <3> QED
      BY <3>3, <3>4 DEF Swept
  <2> QED
    BY <2>1, <2>2, <2>3 DEF Next
<1>3. IInv /\ AllSwept => CollectsGarbage
  <2> SUFFICES ASSUME IInv, AllSwept, NEW p \in Proc, quiet = p, pc[p] = "delete", locked[p] = {},
                      NEW d \in Dir, Free(d)
               PROVE  /\ (listed[p][d].name = "final" /\ listed[p][d].lock) =>
                           IF \E e \in Finals : Free(e) /\ e > d THEN name[d] = "none"
                                                                 ELSE name[d] = "final"
                      /\ name[d] = "final" => d \in linked
                      /\ name[d] = "working" => d \in linked \ old
    BY DEF CollectsGarbage, Collected
  <2>1. Swept(p)
    BY DEF AllSwept, Collecting
  <2> QED
    BY <2>1, SweptMeansCollected
<1> QED
  BY <1>1, <1>2, <1>3, Invariance, PTL DEF Spec
=============================================================================
