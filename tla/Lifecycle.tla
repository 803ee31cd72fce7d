----------------------------- MODULE Lifecycle -----------------------------
(***************************************************************************)
(* The life of transactions: commits, undos, repairs and gc runs of one    *)
(* repository, interleaved with each other, with foreign edits, failing    *)
(* file system calls and crashes.                                          *)
(***************************************************************************)
EXTENDS Commit, Undo, Repair, Gc

StartLabel == [commit |-> "snapshot", undo |-> "uload", repair |-> "rload",
               gc |-> "glist"]

Init ==
  /\ content = [f \in File |-> Original]
  /\ record = [t \in Txn |-> "none"]
  /\ retained = [t \in Txn |-> {}]
  /\ siblings = [p \in Proc |-> {}]
  /\ lock = None
  /\ before = [t \in Txn |-> [f \in File |-> Original]]
  /\ pc = [p \in Proc |-> StartLabel[Kind[p]]]
  /\ todo = [p \in Proc |-> IF Kind[p] = "commit" THEN Inputs[Target[p]] ELSE {}]
  /\ chosen = [p \in Proc |-> {}]
  /\ renamed = [p \in Proc |-> {}]
  /\ clean = [p \in Proc |-> TRUE]
  /\ passed = [p \in Proc |-> TRUE]
  /\ scan = [p \in Proc |-> {}]
  /\ prune = [p \in Proc |-> {}]
  /\ outcome = [p \in Proc |-> "threw"]
  /\ window = [p \in Proc |-> {}]
  /\ pruned = {}
  /\ edits = 0 /\ faults = 0 /\ crashes = 0
  /\ faulted = {}

Run(p) == Commit(p) \/ Undo(p) \/ Repair(p) \/ Gc(p)

Next == (\E p \in Proc : Run(p) \/ Crash(p)) \/ ForeignEdit

Spec == Init /\ [][Next]_vars

\* Every await resolves, so a live process goes on.
FairSpec == Spec /\ \A p \in Proc : WF_vars(Run(p))

\* What a process does without the lock, and between acquireLock and
\* releaseLock.
Unlocked == {"snapshot", "prepare", "precheck", "uload", "upreview", "rload",
             "rclassify", "glist", "gscan", "lock", "done", "crashed"}
Locked == {"recheck", "gate", "stage", "finalgate", "rename", "verify",
           "reverify", "mismatch", "audit", "rollback", "rbverify",
           "rbdiffers", "rbpersist", "cleanup", "catch", "unwind",
           "unwindpersist", "finish", "abort", "rethrow",
           "uread", "ustage", "ugate", "urename", "uverify", "urecord",
           "ucatch", "uunwind", "upartial", "uclean", "uleak",
           "rcheck", "rstage", "rrename", "rsync", "rverify", "rrecord",
           "gprune", "gremove", "release"}

TypeOK ==
  /\ content \in [File -> Content]
  /\ record \in [Txn -> RecordState]
  /\ retained \in [Txn -> SUBSET File]
  /\ siblings \in [Proc -> SUBSET (File \X Slot)]
  /\ lock \in Proc \cup {None}
  /\ before \in [Txn -> [File -> Content]]
  /\ pc \in [Proc -> Unlocked \cup Locked]
  /\ todo \in [Proc -> SUBSET File]
  /\ chosen \in [Proc -> SUBSET File]
  /\ renamed \in [Proc -> SUBSET File]
  /\ clean \in [Proc -> BOOLEAN]
  /\ passed \in [Proc -> BOOLEAN]
  /\ scan \in [Proc -> SUBSET Txn]
  /\ prune \in [Proc -> SUBSET Txn]
  /\ outcome \in [Proc -> Outcome]
  /\ window \in [Proc -> SUBSET File]
  /\ pruned \subseteq Txn
  /\ edits \in 0..MaxEdits /\ faults \in 0..MaxFaults
  /\ crashes \in 0..MaxCrashes
  /\ faulted \subseteq FaultKind

-----------------------------------------------------------------------------
(* Safety *)

\* At every instant, a crash included, a file that holds a transaction's
\* output has its before image retained, unless gc removed it.
BeforeImageKept ==
  \A t \in Txn : \A f \in Changed[t] :
    content[f] = t => f \in retained[t] \/ t \in pruned

\* A process writes over repository file f.
Overwrites(p, f) == siblings'[p] # siblings[p] /\ content'[f] # content[f]

\* Whatever the interleaving, an operation on t replaces only what t was
\* planned on, t's own output or a foreign edit: it never destroys the output
\* of another transaction, committed before, meanwhile or after.
NoLostOutput ==
  [][\A p \in Proc, f \in File : Overwrites(p, f) =>
       content[f] \in {before[Target[p]][f], Target[p]} \cup Foreign]_vars

\* A foreign edit is overwritten only when it came after the operation's last
\* look at that file: what the gates can see, they respect.
OnlyUnseenEditsLost ==
  [][\A p \in Proc, f \in File :
       Overwrites(p, f) /\ content[f] \in Foreign \ {before[Target[p]][f]}
         => f \in window[p]]_vars

\* When a commit renames its first file, every input of its plan, rewritten or
\* only read, holds what the plan was computed from, unless someone edited it
\* after the final gate looked: no other transaction got in between.
FreshPlan ==
  \A p \in Proc : pc[p] = "rename" /\ renamed[p] = {} =>
    \A f \in Inputs[Target[p]] \ window[p] :
      content[f] = before[Target[p]][f]

\* What an operation returns is what its record says on disk.
ReturnedIsDurable ==
  \A p \in Proc : pc[p] = "release" /\ outcome[p] \in RecordState
    => record[Target[p]] = outcome[p]

\* The exceptions to what a record of a reverted transaction says:
\* UndoneMeansGone (an undo whose record is renamed into place but not synced);
\* a repair that has classified the files while an undo had them restored
\* that then rolled forward; and one that took for restored a file that someone
\* had put back as planned while another commit was about to overwrite it,
\* which that commit then rolled back to the output.
Gone(t) == \A f \in Changed[t] : content[f] # t
Some(kind) == \E p \in Proc : Kind[p] = kind
Unexceptional ==
  /\ Some("undo") => "recordsync" \notin faulted /\ ~Some("repair")
  /\ Some("repair") => \A t \in Txn : \A f \in Changed[t] :
                         before[t][f] \notin Foreign

\* At every instant, also after failures and crashes of the operation that
\* wrote it, a record of a reverted or failed transaction means no file holds
\* its output.
RevertedMeansGone ==
  Unexceptional => \A t \in Txn :
    record[t] \in {"rolled-back", "undone", "failed"} => Gone(t)

\* With the lock free, a committed record means every file holds the output
\* of t or what was written over it since, as long as no process of t crashed
\* and at most one call failed (a second failure can keep the engine from
\* recording its rollback).
Since(c, f, t) ==
  \A S \in SUBSET Content :
    /\ {t} \cup Foreign \subseteq S
    /\ \A u \in Txn : before[u][f] \in S => u \in S
    => c \in S
CommittedMeansApplied ==
  lock = None /\ faults < 2 => \A t \in Txn :
    /\ record[t] = "committed"
    /\ \A p \in Proc : Target[p] = t => pc[p] # "crashed"
    => \A f \in Changed[t] : Since(content[f], f, t)

\* The record can be relied on: it is what the operation returned, and the
\* files are in the state it names.
RecordTruthful == ReturnedIsDurable /\ RevertedMeansGone /\ CommittedMeansApplied

\* An operation that ends leaves neither siblings nor the lock behind, except
\* when an unlink failed (repair: also when its write or rename failed).
CleanExit ==
  \A p \in Proc : pc[p] = "done" /\ "unlink" \notin faulted =>
    /\ lock # p
    /\ \/ siblings[p] = {}
       \/ Kind[p] = "repair" /\ faulted \cap {"write", "rename"} # {}

\* With the same exceptions, gc without include-undoable takes the before
\* images only of transactions of which no file holds the output, although it
\* judged them without the lock.
PrunedIsDead ==
  ~IncludeUndoable /\ Unexceptional => \A t \in pruned : Gone(t)

(* Documented, and refuted by runs of the project *)

\* README.md:152: partial-commit records are never pruned.
PartialNeverPruned ==
  [][\A t \in pruned' \ pruned : record[t] # "partial-commit"]_vars

\* README.md:142: an undone transaction can never be undone again and its
\* before images are dead weight, so its output is gone.
UndoneMeansGone ==
  lock = None => \A t \in Txn : record[t] = "undone" => Gone(t)

(* Liveness *)

\* Every operation ends, whatever fails and whoever interferes.
Termination == \A p \in Proc : <>(~Live(p))
=============================================================================
