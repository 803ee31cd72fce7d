----------------------------- MODULE Repository -----------------------------
(***************************************************************************)
(* The part of a repository the transaction engine works on, and the file  *)
(* system calls its operations are made of.  Commit, Undo, Repair and Gc   *)
(* extend this module; Lifecycle composes them.                            *)
(*                                                                         *)
(* Contents are abstract: the bytes and mode of a file before any run      *)
(* (Original), what someone else wrote (Foreign), or the output of a       *)
(* transaction, written as the transaction itself.  Comparing a content    *)
(* stands for comparing hash, mode, size, device and inode.  Files are     *)
(* numbers in the order compareStrings gives their paths; every loop of    *)
(* the engine runs over them in that order and every rollback backwards.   *)
(***************************************************************************)
EXTENDS Naturals

CONSTANTS
  File,        \* repository files, in path order
  Txn,         \* transactions, each prepared once
  Proc,        \* processes, each running one operation
  None,        \* no process
  Original,    \* the content of every file at the start
  Foreign,     \* contents written by editors and validators
  Kind,        \* the operation a process runs: commit, undo, repair or gc
  Target,      \* the transaction it runs it on (ignored by gc)
  Changed,     \* the files a transaction rewrites
  Inputs,      \* the files its plan has read, rewritten or not
  Keep,        \* transactions whose policy keeps output that fails a check
  IncludeUndoable, RemoveRecords,   \* the flags of gc
  MaxEdits, MaxFaults, MaxCrashes   \* bounds on the environment

RecordState == {"none", "committed", "rolled-back", "partial-commit",
                "failed", "undone"}
Content == {Original} \cup Foreign \cup Txn
Slot == {"before", "after"}
FaultKind == {"read", "write", "rename", "sync", "record", "recordsync",
              "unlink", "lock", "prune"}

ASSUME RepositoryConstants ==
  /\ File \subseteq Nat
  /\ None \notin Proc
  /\ Kind \in [Proc -> {"commit", "undo", "repair", "gc"}]
  /\ Target \in [Proc -> Txn]
  /\ Changed \in [Txn -> SUBSET File]
  /\ Inputs \in [Txn -> SUBSET File]
  /\ \A t \in Txn : Changed[t] \subseteq Inputs[t]
  /\ Keep \subseteq Txn
  /\ Original \notin Txn
  /\ Foreign \cap (Txn \cup {Original}) = {}
  \* prepareTransaction draws a fresh id: one commit per transaction
  /\ \A p, q \in Proc : Kind[p] = "commit" /\ Kind[q] = "commit"
                          /\ Target[p] = Target[q] => p = q

ASSUME Flags == IncludeUndoable \in BOOLEAN /\ RemoveRecords \in BOOLEAN

ASSUME Bounds == MaxEdits \in Nat /\ MaxFaults \in Nat /\ MaxCrashes \in Nat

VARIABLES
  content,   \* what each repository file holds
  record,    \* the state in transactions/<id>.json, "none" without a record
  retained,  \* files whose before image is in transactions/<id>/before
  siblings,  \* sibling files each process has on disk, as <<file, slot>>
  lock,      \* the process that owns the repository lock, or None
  before,    \* the before images a transaction was planned on
  pc,        \* what each process does next
  todo,      \* files left in its current loop
  chosen,    \* repair: the files it classified as to be restored
  renamed,   \* targets it has renamed over (`renamed`, `restored`)
  clean,     \* its `rollbackComplete`
  passed,    \* no validation of its transaction failed
  scan,      \* gc: transactions whose records are still to be read
  prune,     \* gc: transactions found prunable
  outcome,   \* what its operation returned; "threw" until it returns
  window,    \* (history) files edited since the process last checked them
  pruned,    \* (history) transactions whose before images gc removed
  edits, faults, crashes,  \* environment budget used so far
  faulted    \* (history) kinds of calls that failed

disk == <<content, record, retained, siblings, lock>>
loop == <<todo, renamed, clean>>
choice == <<chosen, scan, prune>>
rest == <<passed, choice, outcome, before, pruned>>
budget == <<edits, crashes>>
faultVars == <<faults, faulted>>
vars == <<disk, loop, rest, budget, faultVars, pc, window>>

Outcome == RecordState \cup {"threw", "blocked", "pruned"}

-----------------------------------------------------------------------------
Goto(p, l) == pc' = [pc EXCEPT ![p] = l]

\* The loop order of the engine and the order of its rollbacks.
First(S, f) == f \in S /\ \A g \in S : f <= g
Last(S, f)  == f \in S /\ \A g \in S : g <= f

\* A file system call of the given kind fails.
Fault(kind) ==
  /\ faults < MaxFaults
  /\ faults' = faults + 1
  /\ faulted' = faulted \cup {kind}
NoFault == UNCHANGED faultVars

Live(p) == pc[p] \notin {"done", "crashed"}

\* Control passes to label l, whose loop starts over the files of S.
Enter(p, l, S) ==
  /\ Goto(p, l)
  /\ todo' = [todo EXCEPT ![p] = S]

\* The operation is over: its local variables are gone.
Forget(p) ==
  /\ renamed' = [renamed EXCEPT ![p] = {}]
  /\ clean' = [clean EXCEPT ![p] = TRUE]
  /\ passed' = [passed EXCEPT ![p] = TRUE]
  /\ window' = [window EXCEPT ![p] = {}]

\* The loop at label l is over: no file is left.
Finished(p, l) == pc[p] = l /\ todo[p] = {}

\* One turn of a loop that reads a file and compares it with what it should
\* be (readStableFile and a hash, mode and identity comparison).  A mismatch
\* or an unreadable file leaves the loop for label bad.
CheckFile(p, l, expected, bad) ==
  /\ pc[p] = l
  /\ \E f \in todo[p] :
       /\ First(todo[p], f)
       /\ \/ /\ content[f] = expected[f]
             /\ todo' = [todo EXCEPT ![p] = @ \ {f}]
             /\ window' = [window EXCEPT ![p] = @ \ {f}]
             /\ NoFault
             /\ UNCHANGED pc
          \/ /\ \/ content[f] # expected[f] /\ NoFault
                \/ Fault("read")
             /\ Enter(p, bad, {})
             /\ UNCHANGED window
  /\ UNCHANGED <<disk, renamed, clean, rest, budget>>

\* acquireLock: free, or left by a process that is gone (RepositoryLock.tla
\* has the protocol).  Held by another, or an I/O error: it throws.  A process
\* whose operation is done may or may not have exited yet.
TakeLock(p, l, S) ==
  /\ pc[p] = "lock"
  /\ \/ /\ lock = None \/ (lock \in Proc /\ ~Live(lock))
        /\ lock' = p
        /\ Enter(p, l, S)
        /\ NoFault
     \/ /\ \/ lock \in Proc /\ pc[lock] # "crashed" /\ NoFault
           \/ Fault("lock")
        /\ Enter(p, "done", {})
        /\ UNCHANGED lock
  /\ UNCHANGED <<content, record, retained, siblings, renamed, clean, rest,
                 window, budget>>

\* releaseLock: an unlink that fails leaves the lock and is thrown.
ReleaseLock(p) ==
  /\ pc[p] = "release"
  /\ \/ /\ lock' = None
        /\ NoFault
        /\ UNCHANGED outcome
     \/ /\ Fault("unlink")
        /\ outcome' = [outcome EXCEPT ![p] = "threw"]
        /\ UNCHANGED lock
  /\ Enter(p, "done", {})
  /\ Forget(p)
  /\ UNCHANGED <<content, record, retained, siblings, before, choice, pruned,
                 budget>>

\* persistRecord of state s for transaction t: write a temporary, rename it
\* over the record, sync the directory.  It may fail before the rename or,
\* in the sync, after it.
PersistRecord(t, s) ==
  /\ record' = [record EXCEPT ![t] = s]
  /\ NoFault
PersistFails(t, s) ==
  \/ Fault("record") /\ UNCHANGED record
  \/ Fault("recordsync") /\ record' = [record EXCEPT ![t] = s]

\* writeExclusive of one sibling file: a failed write may leave it behind.
WriteSibling(p, f, slot) ==
  /\ siblings' = [siblings EXCEPT ![p] = @ \cup {<<f, slot>>}]
  /\ NoFault
WriteSiblingFails(p, f, slot) ==
  /\ Fault("write")
  /\ siblings' \in {siblings, [siblings EXCEPT ![p] = @ \cup {<<f, slot>>}]}

\* rename(sibling, target) puts content c in place and consumes the sibling.
RenameSibling(p, f, slot, c) ==
  /\ <<f, slot>> \in siblings[p]
  /\ content' = [content EXCEPT ![f] = c]
  /\ siblings' = [siblings EXCEPT ![p] = @ \ {<<f, slot>>}]
  /\ NoFault
RenameFails(p, f, slot) ==
  /\ \/ <<f, slot>> \in siblings[p] /\ Fault("rename")
     \/ <<f, slot>> \notin siblings[p] /\ NoFault
  /\ UNCHANGED <<content, siblings>>

\* One turn of a rollback loop, newest rename first; a failure is remembered
\* and the loop goes on.
RestoreLast(p, l, slot, images) ==
  /\ pc[p] = l
  /\ \E f \in todo[p] :
       /\ Last(todo[p], f)
       /\ todo' = [todo EXCEPT ![p] = @ \ {f}]
       /\ \/ RenameSibling(p, f, slot, images[f]) /\ UNCHANGED clean
          \/ /\ RenameFails(p, f, slot)
             /\ clean' = [clean EXCEPT ![p] = FALSE]
  /\ UNCHANGED <<record, retained, lock, pc, renamed, rest, window, budget>>

\* Control leaves a finished loop for the next one.
Advance(p, from, to, S) ==
  /\ Finished(p, from)
  /\ Enter(p, to, S)
  /\ UNCHANGED <<disk, renamed, clean, rest, budget, faultVars, window>>

\* syncRenamedDirectories after the loop at label from.
Sync(p, from, to, S, bad) ==
  /\ Finished(p, from)
  /\ \/ NoFault /\ Enter(p, to, S)
     \/ Fault("sync") /\ Enter(p, bad, {})
  /\ UNCHANGED <<disk, renamed, clean, rest, window, budget>>

\* An operation persists the state it is going to return.
Conclude(p, l, s, next, bad) ==
  /\ pc[p] = l
  /\ \/ /\ PersistRecord(Target[p], s)
        /\ Enter(p, next, {})
        /\ outcome' = [outcome EXCEPT ![p] = s]
     \/ /\ PersistFails(Target[p], s)
        /\ Enter(p, bad, {})
        /\ UNCHANGED outcome
  /\ UNCHANGED <<content, retained, siblings, lock, renamed, clean, passed,
                 choice, before, pruned, window, budget>>

\* An enclosing finally or catch: what was to be returned is not.
Throw(p, l, next) ==
  /\ pc[p] = l
  /\ outcome' = [outcome EXCEPT ![p] = "threw"]
  /\ Enter(p, next, {})
  /\ UNCHANGED <<disk, renamed, clean, passed, choice, before, pruned, budget,
                 faultVars, window>>

\* The after image of transaction t is its output in every file.
After(t) == [f \in File |-> t]

\* One safeUnlink of a loop over sibling files; a missing file is skipped, an
\* error other than ENOENT leaves the loop for label bad.
UnlinkSibling(p, l, bad) ==
  /\ pc[p] = l
  /\ siblings[p] # {}
  /\ \/ /\ \E s \in siblings[p] :
             /\ \A r \in siblings[p] : s[1] <= r[1]
             /\ siblings' = [siblings EXCEPT ![p] = @ \ {s}]
        /\ NoFault
        /\ UNCHANGED <<pc, todo>>
     \/ /\ Fault("unlink")
        /\ Enter(p, bad, {})
        /\ UNCHANGED siblings
  /\ UNCHANGED <<content, record, retained, lock, renamed, clean, rest, window,
                 budget>>

-----------------------------------------------------------------------------
\* The environment.  Someone edits a file: an editor, a formatter, a
\* validator command that rewrites what it checks.
ForeignEdit ==
  /\ edits < MaxEdits
  /\ \E f \in File, c \in Foreign :
       /\ content[f] # c
       /\ content' = [content EXCEPT ![f] = c]
       /\ window' = [p \in Proc |-> IF Live(p) THEN window[p] \cup {f} ELSE {}]
  /\ edits' = edits + 1
  /\ UNCHANGED <<record, retained, siblings, lock, loop, rest, crashes,
                 faultVars, pc>>

\* A process is killed: its memory is lost, its files stay.
Crash(p) ==
  /\ Live(p)
  /\ crashes < MaxCrashes
  /\ crashes' = crashes + 1
  /\ Enter(p, "crashed", {})
  /\ Forget(p)
  /\ outcome' = [outcome EXCEPT ![p] = "threw"]
  /\ UNCHANGED <<disk, choice, before, pruned, edits, faultVars>>
=============================================================================
