-------------------------------- MODULE Undo --------------------------------
(***************************************************************************)
(* src/src/transaction.ts: previewUndoTransaction and undoTransaction, as  *)
(* `rpst undo --write` calls them (src/src/cli-commands.ts: runUndo).      *)
(*                                                                         *)
(* The record is loaded once, before the preview and the confirmation, and *)
(* is never read again; under the lock only the files are checked.         *)
(*                                                                         *)
(* Labels: uload upreview lock uread ustage ugate urename usync uverify    *)
(* urecord; ucatch uunwind urejudge upartial (catch); uclean uleak release *)
(***************************************************************************)
EXTENDS Repository

\* Only a committed record goes any further.
LoadCommitted(p) ==
  /\ pc[p] = "uload"
  /\ IF record[Target[p]] = "committed"
       THEN Enter(p, "upreview", Changed[Target[p]])
       ELSE Enter(p, "done", {})
  /\ UNCHANGED <<disk, renamed, clean, rest, budget, faultVars, window>>

\* Each file must hold the after image and have its before image retained.
UndoableFile(p, l, bad) ==
  LET t == Target[p] IN
  /\ pc[p] = l
  /\ \E f \in todo[p] :
       /\ First(todo[p], f)
       /\ \/ /\ content[f] = t /\ f \in retained[t]
             /\ todo' = [todo EXCEPT ![p] = @ \ {f}]
             /\ window' = [window EXCEPT ![p] = @ \ {f}]
             /\ NoFault
             /\ UNCHANGED pc
          \/ /\ \/ ~(content[f] = t /\ f \in retained[t]) /\ NoFault
                \/ Fault("read")
             /\ Enter(p, bad, {})
             /\ UNCHANGED window
  /\ UNCHANGED <<disk, renamed, clean, rest, budget>>

Preview(p) == UndoableFile(p, "upreview", "done")

\* Mutant: undo does not take the lock.
UndoUnlocked(p) == Advance(p, "upreview", "uread", Changed[Target[p]])

AcquireUndo(p) ==
  \/ Advance(p, "upreview", "lock", {})
  \/ TakeLock(p, "uread", Changed[Target[p]])

ReadImages(p) == UndoableFile(p, "uread", "uclean")

\* Per file a sibling with the before image and one with the after image, the
\* latter for undoing the undo.
StageRestore(p) ==
  \/ Advance(p, "uread", "ustage", Changed[Target[p]])
  \/ /\ pc[p] = "ustage"
     /\ \E f \in todo[p] :
          /\ First(todo[p], f)
          /\ LET slot == IF <<f, "before">> \in siblings[p]
                           THEN "after" ELSE "before" IN
             \/ /\ WriteSibling(p, f, slot)
                /\ todo' = [todo EXCEPT ![p] = IF slot = "after"
                                                 THEN @ \ {f} ELSE @]
                /\ UNCHANGED pc
             \/ WriteSiblingFails(p, f, slot) /\ Enter(p, "uclean", {})
     /\ UNCHANGED <<content, record, retained, lock, renamed, clean, rest,
                    window, budget>>

\* Mutant: the gate before the renames reads the files and compares nothing.
UndoGateBlind(p) ==
  \/ Advance(p, "ustage", "ugate", Changed[Target[p]])
  \/ /\ pc[p] = "ugate"
     /\ todo[p] # {}
     /\ window' = [window EXCEPT ![p] = @ \ todo[p]]
     /\ todo' = [todo EXCEPT ![p] = {}]
     /\ UNCHANGED <<disk, pc, renamed, clean, rest, budget, faultVars>>
  \/ Advance(p, "ugate", "urename", Changed[Target[p]])

\* Mutant: the record says "undone" before the files are restored.
UndoRecordsFirst(p) ==
  \/ Advance(p, "ustage", "ugate", Changed[Target[p]])
  \/ CheckFile(p, "ugate", After(Target[p]), "uclean")
  \/ /\ Finished(p, "ugate")
     /\ PersistRecord(Target[p], "undone")
     /\ Enter(p, "urename", Changed[Target[p]])
     /\ UNCHANGED <<content, retained, siblings, lock, renamed, clean, rest,
                    window, budget>>

UndoGate(p) ==
  \/ Advance(p, "ustage", "ugate", Changed[Target[p]])
  \/ CheckFile(p, "ugate", After(Target[p]), "uclean")
  \/ Advance(p, "ugate", "urename", Changed[Target[p]])

RestoreFile(p) ==
  LET t == Target[p] IN
  /\ pc[p] = "urename"
  /\ \E f \in todo[p] :
       /\ First(todo[p], f)
       /\ \/ /\ RenameSibling(p, f, "before", before[t][f])
             /\ renamed' = [renamed EXCEPT ![p] = @ \cup {f}]
             /\ todo' = [todo EXCEPT ![p] = @ \ {f}]
             /\ UNCHANGED pc
          \/ /\ RenameFails(p, f, "before")
             /\ Enter(p, "ucatch", {})
             /\ UNCHANGED renamed
  /\ UNCHANGED <<record, retained, lock, clean, rest, window, budget>>

SyncRestore(p) == Sync(p, "urename", "uverify", Changed[Target[p]], "ucatch")

VerifyRestore(p) ==
  \/ CheckFile(p, "uverify", before[Target[p]], "ucatch")
  \/ Advance(p, "uverify", "urecord", {})

RecordUndone(p) == Conclude(p, "urecord", "undone", "uclean", "ucatch")

\* The catch rolls the restored files forward again.
CatchUndo(p) ==
  /\ pc[p] = "ucatch"
  /\ clean' = [clean EXCEPT ![p] = TRUE]
  /\ Enter(p, "uunwind", renamed[p])
  /\ UNCHANGED <<disk, renamed, rest, budget, faultVars, window>>

RollForward(p) == RestoreLast(p, "uunwind", "after", After(Target[p]))

\* Complete: the error is rethrown and no record is written.
JudgeUnwind(p) ==
  Advance(p, "uunwind", IF clean[p] THEN "uclean" ELSE "upartial", {})

RecordPartial(p) ==
  Conclude(p, "upartial", "partial-commit", "uclean", "uclean")

\* The finally block: an unlink that fails skips releaseLock.
CleanUndo(p) ==
  \/ UnlinkSibling(p, "uclean", "uleak")
  \/ siblings[p] = {} /\ Advance(p, "uclean", "release", {})
  \/ Throw(p, "uleak", "done")

Undo(p) ==
  /\ Kind[p] = "undo"
  /\ \/ LoadCommitted(p) \/ Preview(p) \/ AcquireUndo(p) \/ ReadImages(p)
     \/ StageRestore(p) \/ UndoGate(p) \/ RestoreFile(p) \/ SyncRestore(p)
     \/ VerifyRestore(p) \/ RecordUndone(p)
     \/ CatchUndo(p) \/ RollForward(p) \/ JudgeUnwind(p) \/ RecordPartial(p)
     \/ CleanUndo(p) \/ ReleaseLock(p)
=============================================================================
