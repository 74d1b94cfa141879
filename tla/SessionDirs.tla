---------------------------- MODULE SessionDirs ----------------------------
(* The session directories of incremental compilation: compiler processes   *)
(* share a crate's cache directory and coordinate through lock files only   *)
(* (rustc_incremental/src/persist/fs.rs; the session's own state is in      *)
(* rustc_session/src/session.rs).                                           *)
(*                                                                          *)
(* A session directory is known by its timestamp.  Its lock file keeps one  *)
(* name, while the directory is renamed from "-working" to "-{svh}" when it *)
(* is published.  A lock file is created once, by the owner, so that its    *)
(* inode has the directory's name too: flock'ing a file that was unlinked   *)
(* since it was opened succeeds, and protects nothing.                      *)
(*                                                                          *)
(* read_dir is atomic: a crate's directory is read by one getdents call.    *)
EXTENDS Integers, FiniteSets, FiniteSetsExt

CONSTANTS
  Proc,       \* compiler processes; a slot is used by one session after another
  None,
  Published,  \* 1..Published are complete sessions of the past
  MaxDir,     \* a bound on the timestamps
  MaxFaults,  \* a bound on I/O errors
  MaxDeaths   \* a bound on processes that die

ASSUME ConstantsAssumption ==
  /\ None \notin Proc
  /\ Published \in Nat /\ MaxDir \in Nat /\ Published <= MaxDir
  /\ MaxFaults \in Nat /\ MaxDeaths \in Nat

Dir == 1..MaxDir

VARIABLES
  name,     \* of each directory: "none", "working" or "final"
  data,     \* its contents: "good", "partial" or, of a failed session, "bad"
  linked,   \* the lock files that exist
  ex, sh,   \* flock: each lock file's exclusive holder and shared holders
  old,      \* the directories created more than ten seconds ago
  used,     \* the timestamps used so far
  pc,
  own,      \* the directory of each process's session
  src,      \* the directory a process copies from, or whose lock it opened
  tried,    \* source_directories_already_tried
  based,    \* what the session started from
  live,     \* does each process have a private directory to work in?
  listed,   \* what read_dir of the collection returned
  todo,     \* the listed directories the collection has not come to
  locked,   \* deletion_candidates, with their locks
  faults, deaths,
  quiet     \* the process that has been alone since it began collecting

files == <<name, data, linked>>
locks == <<ex, sh>>
local == <<own, src, tried, based, live, listed, todo, locked>>
vars  == <<files, locks, old, used, pc, local, faults, deaths, quiet>>

NoListing == [d \in Dir |-> [name |-> "none", lock |-> FALSE]]
Finals == {d \in Dir : name[d] = "final"}
Exists(d) == name[d] # "none"
Free(d) == ex[d] = None /\ sh[d] = {}
Goto(p, l) == pc' = [pc EXCEPT ![p] = l]

\* extract_timestamp_from_session_dir, of an entry of the crate's directory: it
\* refuses every name that ends in ".lock", and every name without three dashes.
\* A lock file's name has two.
HasTimestamp(entry) == entry \in {"working", "final"}

NoFault == UNCHANGED faults
Fault == faults < MaxFaults /\ faults' = faults + 1

\* safe_remove_dir_all of the path with the name n: no error when that path
\* does not exist.
Remove(d, n) ==
  /\ name' = IF name[d] = n THEN [name EXCEPT ![d] = "none"] ELSE name
  /\ UNCHANGED data

\* ... and a removal that stops halfway.
RemoveFails(d, n, rest) ==
  /\ name[d] = n /\ Fault
  /\ data' = [data EXCEPT ![d] = rest]
  /\ UNCHANGED name

\* delete_session_dir_lock_file: an error is only reported.
Unlink(d) ==
  \/ linked' = linked \ {d} /\ NoFault
  \/ d \in linked /\ UNCHANGED linked /\ Fault

Unlock(p, ds) == ex' = [d \in Dir |-> IF d \in ds /\ ex[d] = p THEN None ELSE ex[d]]

Init ==
  /\ name = [d \in Dir |-> IF d <= Published THEN "final" ELSE "none"]
  /\ data = [d \in Dir |-> IF d <= Published THEN "good" ELSE "partial"]
  /\ linked = 1..Published
  /\ ex = [d \in Dir |-> None] /\ sh = [d \in Dir |-> {}]
  /\ old = 1..Published /\ used = Published
  /\ pc = [p \in Proc |-> "idle"]
  /\ own = [p \in Proc |-> 0] /\ src = [p \in Proc |-> 0]
  /\ tried = [p \in Proc |-> {}] /\ based = [p \in Proc |-> "nothing"]
  /\ live = [p \in Proc |-> FALSE]
  /\ listed = [p \in Proc |-> NoListing]
  /\ todo = [p \in Proc |-> {}] /\ locked = [p \in Proc |-> {}]
  /\ faults = 0 /\ deaths = 0 /\ quiet = None

-----------------------------------------------------------------------------
(* prepare_session_directory                                                *)

\* generate_session_dir_path, and lock_directory creates the lock file ...
Begin(p) ==
  /\ pc[p] = "idle" /\ used < MaxDir
  /\ used' = used + 1
  /\ own' = [own EXCEPT ![p] = used + 1]
  /\ linked' = linked \cup {used + 1}
  /\ Goto(p, "created") /\ NoFault
  /\ UNCHANGED <<name, data, locks, old, src, tried, based, live, listed, todo, locked>>

\* ... and locks it.
LockOwn(p) ==
  /\ pc[p] = "created" /\ Free(own[p])
  /\ ex' = [ex EXCEPT ![own[p]] = p]
  /\ Goto(p, "mkdir") /\ NoFault
  /\ UNCHANGED <<files, sh, old, used, local>>

CreateDir(p) ==
  /\ pc[p] = "mkdir"
  /\ name' = [name EXCEPT ![own[p]] = "working"]
  /\ live' = [live EXCEPT ![p] = TRUE]
  /\ Goto(p, "find") /\ NoFault
  /\ UNCHANGED <<data, linked, locks, old, used, own, src, tried, based, listed, todo, locked>>

\* find_source_directory: the newest finalized one not tried before; without
\* one the session starts from nothing.
FindSource(p) ==
  /\ pc[p] = "find"
  /\ LET candidates == Finals \ tried[p] IN
     IF candidates = {}
     THEN Goto(p, "collect") /\ UNCHANGED src
     ELSE Goto(p, "open") /\ src' = [src EXCEPT ![p] = Max(candidates)]
  /\ NoFault
  /\ UNCHANGED <<files, locks, old, used, own, tried, based, live, listed, todo, locked>>

\* copy_files opens the source's lock file, which must exist ...
OpenSource(p) ==
  /\ pc[p] = "open"
  /\ Goto(p, IF src[p] \in linked THEN "flock" ELSE "undo") /\ NoFault
  /\ UNCHANGED <<files, locks, old, used, local>>

\* ... takes a shared lock without waiting ...
LockSource(p) ==
  /\ pc[p] = "flock"
  /\ IF ex[src[p]] = None
     THEN Goto(p, "read") /\ sh' = [sh EXCEPT ![src[p]] = @ \cup {p}]
     ELSE Goto(p, "undo") /\ UNCHANGED sh
  /\ NoFault
  /\ UNCHANGED <<files, ex, old, used, local>>

\* ... opens the directory, which may be gone by now ...
ReadSource(p) ==
  /\ pc[p] = "read"
  /\ IF name[src[p]] = "final"
     THEN Goto(p, "copy") /\ UNCHANGED sh
     ELSE Goto(p, "undo") /\ sh' = [sh EXCEPT ![src[p]] = @ \ {p}]
  /\ NoFault
  /\ UNCHANGED <<files, ex, old, used, local>>

\* ... and links or copies the files.  When the directory is removed meanwhile
\* the iteration fails or just ends early.
CopyFiles(p) ==
  /\ pc[p] = "copy"
  /\ sh' = [sh EXCEPT ![src[p]] = @ \ {p}]
  /\ \/ /\ Goto(p, "collect") /\ NoFault
        /\ based' = [based EXCEPT ![p] =
             IF name[src[p]] = "final" THEN data[src[p]] ELSE "partial"]
     \/ /\ Goto(p, "undo") /\ UNCHANGED based
        /\ IF name[src[p]] = "final" THEN Fault ELSE NoFault
  /\ UNCHANGED <<files, ex, old, used, own, src, tried, live, listed, todo, locked>>

\* A failed copy: remove the new directory ...
UndoDir(p) ==
  /\ pc[p] = "undo"
  /\ \/ Remove(own[p], "working") /\ NoFault
     \/ RemoveFails(own[p], "working", "partial")
  /\ tried' = [tried EXCEPT ![p] = @ \cup {src[p]}]
  /\ live' = [live EXCEPT ![p] = FALSE]
  /\ Goto(p, "undoLock")
  /\ UNCHANGED <<linked, locks, old, used, own, src, based, listed, todo, locked>>

\* ... and its lock file, unlock it, and start again with a new one.
UndoLock(p) ==
  /\ pc[p] = "undoLock"
  /\ Unlink(own[p])
  /\ Unlock(p, {own[p]})
  /\ Goto(p, "idle")
  /\ UNCHANGED <<name, data, sh, old, used, local>>

Prepare(p) ==
  \/ Begin(p) \/ LockOwn(p) \/ CreateDir(p) \/ FindSource(p)
  \/ OpenSource(p) \/ LockSource(p) \/ ReadSource(p) \/ CopyFiles(p)
  \/ UndoDir(p) \/ UndoLock(p)

-----------------------------------------------------------------------------
(* garbage_collect_session_directories, called at the start of a session and *)
(* at the end of finalize_session_directory.                                *)

\* read_dir.  A lock file is matched with its directory by the common prefix.
ReadDir(p) ==
  /\ pc[p] = "collect"
  /\ listed' = [listed EXCEPT ![p] =
       [d \in Dir |-> [name |-> name[d], lock |-> d \in linked]]]
  /\ todo' = [todo EXCEPT ![p] = {d \in Dir : Exists(d) \/ d \in linked}]
  /\ Goto(p, "gc") /\ NoFault
  /\ UNCHANGED <<files, locks, old, used, own, src, tried, based, live, locked>>

LockOnly(p) == {d \in todo[p] : listed[p][d].name = "none"}
DirOnly(p) == {d \in todo[p] : ~listed[p][d].lock}

DoneWith(p, d) == todo' = [todo EXCEPT ![p] = @ \ {d}]

\* Lock files without a directory, once they are old, would be deleted if their
\* names had a timestamp.
CollectLockFile(p, d) ==
  /\ pc[p] = "gc" /\ d \in LockOnly(p)
  /\ IF HasTimestamp("lock") /\ d \in old THEN Unlink(d) ELSE UNCHANGED linked /\ NoFault
  /\ DoneWith(p, d)
  /\ UNCHANGED <<name, data, locks, old, used, pc, own, src, tried, based,
                 live, listed, locked>>

\* Directories without a lock file are invalid, and removed without locking.
CollectOrphan(p, d) ==
  /\ pc[p] = "gc" /\ LockOnly(p) = {} /\ d \in DirOnly(p)
  /\ \/ Remove(d, listed[p][d].name) /\ NoFault
     \/ RemoveFails(d, listed[p][d].name, "partial")
  /\ DoneWith(p, d)
  /\ UNCHANGED <<linked, locks, old, used, pc, own, src, tried, based, live,
                 listed, locked>>

\* The others are inspected one by one: open the lock file of a finalized or
\* an old private directory ...
OpenLock(p, d) ==
  /\ pc[p] = "gc" /\ LockOnly(p) = {} /\ DirOnly(p) = {} /\ d \in todo[p]
  /\ IF /\ HasTimestamp(listed[p][d].name) /\ d \in linked
        /\ listed[p][d].name = "final" \/ d \in old
     THEN src' = [src EXCEPT ![p] = d] /\ Goto(p, "tryLock")
     ELSE UNCHANGED <<src, pc>>
  /\ DoneWith(p, d) /\ NoFault
  /\ UNCHANGED <<files, locks, old, used, own, tried, based, live, listed, locked>>

\* Mutant: an old private directory is taken to be abandoned, locked or not.
TryLockFinalOnly(p) ==
  /\ pc[p] = "tryLock"
  /\ LET d == src[p] IN
     CASE listed[p][d].name # "final" -> Goto(p, "deleteDir") /\ UNCHANGED <<ex, locked>>
       [] listed[p][d].name = "final" /\ ~Free(d) -> Goto(p, "gc") /\ UNCHANGED <<ex, locked>>
       [] OTHER -> /\ ex' = [ex EXCEPT ![d] = p]
                   /\ Goto(p, "gc") /\ locked' = [locked EXCEPT ![p] = @ \cup {d}]
  /\ NoFault
  /\ UNCHANGED <<files, sh, old, used, own, src, tried, based, live, listed, todo>>

\* Mutant: the collector does not mind readers.
TryLockShared(p) ==
  /\ pc[p] = "tryLock"
  /\ LET d == src[p] IN
     IF ex[d] # None
     THEN Goto(p, "gc") /\ UNCHANGED <<ex, locked>>
     ELSE /\ ex' = [ex EXCEPT ![d] = p]
          /\ IF listed[p][d].name = "final"
             THEN Goto(p, "gc") /\ locked' = [locked EXCEPT ![p] = @ \cup {d}]
             ELSE Goto(p, "deleteDir") /\ UNCHANGED locked
  /\ NoFault
  /\ UNCHANGED <<files, sh, old, used, own, src, tried, based, live, listed, todo>>

\* ... and try for an exclusive lock.  A finalized directory becomes a
\* candidate, an abandoned private one is deleted at once.
TryLock(p) ==
  /\ pc[p] = "tryLock"
  /\ LET d == src[p] IN
     IF ~Free(d)
     THEN Goto(p, "gc") /\ UNCHANGED <<ex, locked>>
     ELSE /\ ex' = [ex EXCEPT ![d] = p]
          /\ IF listed[p][d].name = "final"
             THEN Goto(p, "gc") /\ locked' = [locked EXCEPT ![p] = @ \cup {d}]
             ELSE Goto(p, "deleteDir") /\ UNCHANGED locked
  /\ NoFault
  /\ UNCHANGED <<files, sh, old, used, own, src, tried, based, live, listed, todo>>

\* Mutant: the oldest candidate is kept.
AllExceptOldest(p) ==
  /\ pc[p] = "gc" /\ todo[p] = {}
  /\ LET oldest == {d \in locked[p] : \A e \in locked[p] : d <= e} IN
     /\ Unlock(p, oldest)
     /\ locked' = [locked EXCEPT ![p] = @ \ oldest]
  /\ Goto(p, "delete") /\ NoFault
  /\ UNCHANGED <<files, sh, old, used, own, src, tried, based, live, listed, todo>>

\* all_except_most_recent drops the lock of the newest candidate.
AllExceptMostRecent(p) ==
  /\ pc[p] = "gc" /\ todo[p] = {}
  /\ LET newest == {d \in locked[p] : \A e \in locked[p] : e <= d} IN
     /\ Unlock(p, newest)
     /\ locked' = [locked EXCEPT ![p] = @ \ newest]
  /\ Goto(p, "delete") /\ NoFault
  /\ UNCHANGED <<files, sh, old, used, own, src, tried, based, live, listed, todo>>

NextCandidate(p, d) ==
  /\ pc[p] = "delete" /\ d \in locked[p]
  /\ src' = [src EXCEPT ![p] = d]
  /\ Goto(p, "deleteDir") /\ NoFault
  /\ UNCHANGED <<files, locks, old, used, own, tried, based, live, listed, todo,
                 locked>>

\* delete_old, and the deletion of a candidate: the directory under the name it
\* was listed with ...
DeleteDir(p) ==
  /\ pc[p] = "deleteDir"
  /\ LET n == listed[p][src[p]].name IN
     \/ Remove(src[p], n) /\ NoFault /\ Goto(p, "unlink")
     \/ RemoveFails(src[p], n, "partial") /\ Goto(p, "unlock")
  /\ UNCHANGED <<linked, locks, old, used, local>>

\* ... then, if that went well, its lock file ...
DeleteLockFile(p) ==
  /\ pc[p] = "unlink"
  /\ Unlink(src[p])
  /\ Goto(p, "unlock")
  /\ UNCHANGED <<name, data, locks, old, used, local>>

\* ... and then the lock is dropped.
DropLock(p) ==
  /\ pc[p] = "unlock"
  /\ Unlock(p, {src[p]})
  /\ Goto(p, IF src[p] \in locked[p] THEN "delete" ELSE "gc")
  /\ locked' = [locked EXCEPT ![p] = @ \ {src[p]}]
  /\ NoFault
  /\ UNCHANGED <<files, sh, old, used, own, src, tried, based, live, listed, todo>>

\* The session goes on to compile, or it is over.
CollectEnd(p) ==
  /\ pc[p] = "delete" /\ locked[p] = {}
  /\ src' = [src EXCEPT ![p] = 0]
  /\ listed' = [listed EXCEPT ![p] = NoListing]
  /\ Goto(p, IF live[p] THEN "compile" ELSE "exit") /\ NoFault
  /\ UNCHANGED <<files, locks, old, used, own, tried, based, live, todo, locked>>

Collect(p) ==
  \/ ReadDir(p) \/ TryLock(p) \/ AllExceptMostRecent(p) \/ DeleteDir(p)
  \/ DeleteLockFile(p) \/ DropLock(p) \/ CollectEnd(p)
  \/ \E d \in Dir : \/ CollectLockFile(p, d) \/ CollectOrphan(p, d)
                    \/ OpenLock(p, d) \/ NextCandidate(p, d)

-----------------------------------------------------------------------------
(* finalize_session_directory                                               *)

\* A session without errors publishes its directory.  The rename may fail; the
\* session is then invalid.  Both ways the lock is dropped next.
Publish(p) ==
  /\ pc[p] = "compile"
  /\ \/ /\ name[own[p]] = "working" /\ NoFault
        /\ name' = [name EXCEPT ![own[p]] = "final"]
        /\ data' = [data EXCEPT ![own[p]] = "good"]
     \/ Fault /\ UNCHANGED <<name, data>>
  /\ live' = [live EXCEPT ![p] = FALSE]
  /\ Goto(p, "release")
  /\ UNCHANGED <<linked, locks, old, used, own, src, tried, based, listed, todo, locked>>

\* finalize_incr_comp_session or mark_incr_comp_session_as_invalid.
Release(p) ==
  /\ pc[p] = "release"
  /\ Unlock(p, {own[p]})
  /\ Goto(p, "collect") /\ NoFault
  /\ UNCHANGED <<files, sh, old, used, local>>

\* A session with errors removes its directory ...
Discard(p) ==
  /\ pc[p] = "compile"
  /\ \/ Remove(own[p], "working") /\ NoFault
     \/ RemoveFails(own[p], "working", "bad")
  /\ live' = [live EXCEPT ![p] = FALSE]
  /\ Goto(p, "discardLock")
  /\ UNCHANGED <<linked, locks, old, used, own, src, tried, based, listed, todo, locked>>

\* Mutant: the lock file of an invalid session is left alone.
DiscardLockKept(p) ==
  /\ pc[p] = "discardLock"
  /\ Goto(p, "invalidate") /\ NoFault
  /\ UNCHANGED <<files, locks, old, used, local>>

\* ... and its lock file ...
DiscardLock(p) ==
  /\ pc[p] = "discardLock"
  /\ Unlink(own[p])
  /\ Goto(p, "invalidate")
  /\ UNCHANGED <<name, data, locks, old, used, local>>

\* ... is marked as invalid, which drops the lock ...
Invalidate(p) ==
  /\ pc[p] = "invalidate"
  /\ Unlock(p, {own[p]})
  /\ Goto(p, "renameInvalid") /\ NoFault
  /\ UNCHANGED <<files, sh, old, used, local>>

\* ... and goes on to rename the directory.  If that is still there, and can be
\* renamed, the invalid session cannot be finalized and the process panics.
RenameInvalid(p) ==
  /\ pc[p] = "renameInvalid"
  /\ \/ /\ name[own[p]] = "working" /\ NoFault
        /\ name' = [name EXCEPT ![own[p]] = "final"] /\ Goto(p, "exit")
     \/ /\ IF name[own[p]] = "working" THEN Fault ELSE NoFault
        /\ UNCHANGED name /\ Goto(p, "collect")
  /\ UNCHANGED <<data, linked, locks, old, used, local>>

Finalize(p) ==
  \/ Publish(p) \/ Release(p)
  \/ Discard(p) \/ DiscardLock(p) \/ Invalidate(p) \/ RenameInvalid(p)

-----------------------------------------------------------------------------
(* Processes end, die, and time passes.                                     *)

\* What is left of a process when it is gone: nothing, its locks included.
Gone(p) ==
  /\ ex' = [d \in Dir |-> IF ex[d] = p THEN None ELSE ex[d]]
  /\ sh' = [d \in Dir |-> sh[d] \ {p}]
  /\ own' = [own EXCEPT ![p] = 0] /\ src' = [src EXCEPT ![p] = 0]
  /\ tried' = [tried EXCEPT ![p] = {}] /\ based' = [based EXCEPT ![p] = "nothing"]
  /\ live' = [live EXCEPT ![p] = FALSE]
  /\ listed' = [listed EXCEPT ![p] = NoListing]
  /\ todo' = [todo EXCEPT ![p] = {}] /\ locked' = [locked EXCEPT ![p] = {}]
  /\ Goto(p, "idle")
  /\ UNCHANGED <<files, old, used, faults>>

Exit(p) == pc[p] = "exit" /\ Gone(p)

\* A process may be killed anywhere.  One that gives up with an error before
\* finalizing (it cannot lock or create its directory, or the crate does not
\* compile) leaves the same behind.
Die(p) ==
  /\ pc[p] # "idle" /\ deaths < MaxDeaths
  /\ Gone(p)

\* A directory, or a lock file that has none yet, turns ten seconds old.
Age(d) ==
  /\ d <= used /\ d \notin old
  /\ old' = old \cup {d}
  /\ UNCHANGED <<files, locks, used, pc, local, faults, deaths>>

Step(p) == Prepare(p) \/ Collect(p) \/ Finalize(p) \/ Exit(p)

\* quiet: p has been alone, and unharmed, since it began to collect.
Next ==
  \/ \E p \in Proc :
       /\ \/ Step(p) /\ UNCHANGED deaths
          \/ Die(p) /\ deaths' = deaths + 1
       /\ quiet' = CASE pc'[p] = "idle" -> None
                     [] pc[p] = "collect" -> p
                     [] OTHER -> IF quiet = p /\ faults' = faults THEN p ELSE None
  \/ \E d \in Dir : Age(d) /\ quiet' = None

Spec == Init /\ [][Next]_vars

-----------------------------------------------------------------------------
(* Properties.                                                              *)

\* No process removes the private directory, or unlinks the lock file, of a
\* session that is under way, however stale the listing it collects from:
\* "private session directories that are not in use any more".
PrivateDirKept ==
  \A p \in Proc : live[p] => name[own[p]] = "working" /\ own[p] \in linked

\* As long as its lock file is in place, nobody removes a finalized directory,
\* or part of it, from under a process that copies it: copy_files' shared lock
\* against the collector's exclusive one.
ReadersProtected ==
  [][\A p \in Proc : LET d == src[p] IN
       (pc[p] \in {"read", "copy"} /\ pc'[p] \in {"read", "copy"} /\ d \in linked) =>
         (name'[d] = name[d] /\ data'[d] = data[d])]_vars

\* What a failed session left behind is not copied, even when it could not be
\* removed and was renamed like a good one: one I/O error is never enough.  Two
\* are, when neither the directory nor its lock file can be removed.
InvalidNeverReused == faults < 2 => \A p \in Proc : based[p] # "bad"

\* A collection that nobody and nothing has interrupted.
Collected(p) == quiet = p /\ pc[p] = "delete" /\ locked[p] = {}

\* A collection that nobody and nothing interrupts leaves no garbage directory,
\* whatever earlier sessions that died left behind: of the directories not in use
\* only the most recent finalized one stays, and young private ones.
CollectsGarbage ==
  \A p \in Proc : Collected(p) =>
    \A d \in Dir : Free(d) =>
      /\ (listed[p][d].name = "final" /\ listed[p][d].lock) =>
           IF \E e \in Finals : Free(e) /\ e > d THEN name[d] = "none"
                                             ELSE name[d] = "final"
      /\ name[d] = "final" => d \in linked
      /\ name[d] = "working" => d \in linked \ old

\* "Delete all lock files, that don't have an associated directory": of those
\* whose process is gone no collection that is not interrupted leaves an old one.
LeftoversDeleted ==
  \A p \in Proc : Collected(p) =>
    \A d \in old : (listed[p][d].name = "none" /\ \A q \in Proc : own[q] # d)
                     => d \notin linked

\* "Once a complete, consistent cache version is finalized, it is never
\* modified": a session that starts from a copy starts from a complete one.
CopyIsComplete == \A p \in Proc : based[p] # "partial"
=============================================================================
