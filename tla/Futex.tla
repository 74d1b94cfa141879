------------------------------- MODULE Futex -------------------------------
(***************************************************************************)
(* What the locks of std::sync use from outside: the operating system's    *)
(* futex and the release/acquire part of the memory model.                 *)
(*                                                                         *)
(* A thread blocked in futex_wait is a member of a set of sleepers.  The   *)
(* kernel compares the word with the expected value and enqueues the       *)
(* thread in one indivisible step, so futex_wait is one step; the relaxed  *)
(* load the wrapper does first can only return early where the kernel's    *)
(* own comparison would have.  A sleeper leaves the call by a wake, by a   *)
(* spurious return, by a signal (EINTR: the wrapper tries again) or by its *)
(* timeout.                                                                *)
(***************************************************************************)
EXTENDS Naturals

\* futex_wait puts its caller to sleep only if the word still has the value
\* the caller saw; otherwise it returns at once.
Blocks(word, expected) == word = expected

\* The sets of sleepers one futex_wake may take out of the queue: any one of
\* them, or nobody when there is none.
FutexWake(sleepers) == IF sleepers = {} THEN {{}} ELSE {{s} : s \in sleepers}

\* futex_wake_all takes out all of them.
FutexWakeAll(sleepers) == {sleepers}

(***************************************************************************)
(* "seen" is the set of the parties (threads and atomic words) whose view  *)
(* includes the latest write of the data a lock protects.  A release of a  *)
(* word by a thread hands the thread's view to the word, an acquire hands  *)
(* the word's view to the thread; a read-modify-write by another thread    *)
(* continues the release sequence, so the word keeps what it carries.  A   *)
(* relaxed access hands over nothing.                                      *)
(***************************************************************************)
Sync(seen, from, to) == IF from \in seen THEN seen \union {to} ELSE seen

\* A write of the protected data: from now on only the writer has seen the
\* latest value.
Written(t) == {t}
=============================================================================
