---------------------------- MODULE AbstractLock ----------------------------
(***************************************************************************)
(* What the repository transaction lock of src/src/transaction.ts promises *)
(* to a commit, an undo, a repair or a gc: one owner at a time, and a lock *)
(* changes hands only by being given back by its owner or by being taken   *)
(* from an owner whose process is gone.  RepositoryLock.tla holds the      *)
(* protocol on the lock file that implements it.                           *)
(***************************************************************************)
CONSTANTS Proc,   \* operating-system processes that use the lock
          None    \* "nobody": not a process

VARIABLES owner,  \* the process the lock belongs to, or None
          gone    \* processes that have terminated

vars == <<owner, gone>>

TypeOK ==
  /\ owner \in Proc \cup {None}
  /\ gone \subseteq Proc

Init == owner = None /\ gone = {}

Acquire(p) ==
  /\ owner = None
  /\ p \notin gone
  /\ owner' = p
  /\ UNCHANGED gone

\* The owner gives the lock back.
Release(p) ==
  /\ owner = p
  /\ p \notin gone
  /\ owner' = None
  /\ UNCHANGED gone

\* A process terminates, with or without the lock.
Terminate(p) ==
  /\ p \notin gone
  /\ gone' = gone \cup {p}
  /\ UNCHANGED owner

\* Some other process breaks the lock of a terminated owner.
Reclaim ==
  /\ owner \in gone
  /\ owner' = None
  /\ UNCHANGED gone

Next ==
  \/ \E p \in Proc : Acquire(p) \/ Release(p) \/ Terminate(p)
  \/ Reclaim

Spec == Init /\ [][Next]_vars
=============================================================================
