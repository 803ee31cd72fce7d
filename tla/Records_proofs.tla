--------------------------- MODULE Records_proofs ---------------------------
(***************************************************************************)
(* What the records can be relied on for, whatever fails, crashes or runs  *)
(* in between:                                                             *)
(* - operations end without siblings and the lock and with their outcome   *)
(*   on disk (ExitInv);                                                    *)
(* - a record of a reverted transaction, and a gc run, name a transaction  *)
(*   of which no file holds the output (RevertedInv);                      *)
(* - a committed record names files that hold the output or what was       *)
(*   written over it since (CommittedInv).                                 *)
(*                                                                         *)
(* The last two go by descent: Stems are the contents of a file that stem  *)
(* from a given set of contents, each output from what its transaction was *)
(* planned on. If a set of contents holds an output exactly when it holds  *)
(* what that was planned on (Even), no operation on another transaction    *)
(* leads a file out of the set (Settles), as long as those about to write  *)
(* it (Grip) would restore one of the set.                                 *)
(***************************************************************************)
EXTENDS Lifecycle_proofs

USE DEF disk, loop, choice, rest, budget, faultVars, Goto, NoFault

-----------------------------------------------------------------------------
(* How operations end. *)

\* The labels at which p has no sibling on disk.
Bare == {"snapshot", "prepare", "precheck", "lock", "recheck", "gate", "rethrow",
         "uload", "upreview", "uread", "rload", "rclassify", "rcheck", "rstage",
         "rsync", "rverify", "rrecord", "glist", "gscan", "gprune", "gremove",
         "release", "done"}

\* A repair whose write or rename failed ends with a sibling.
Spilled(p) == /\ Kind[p] = "repair" /\ faulted \cap {"write", "rename"} # {}
              /\ pc[p] \in {"release", "done"}

Tidy(p) == "unlink" \notin faulted =>
  /\ pc[p] \in Bare => siblings[p] = {} \/ Spilled(p)
  /\ pc[p] = "rrename" =>
       \A f \in todo[p] : First(todo[p], f) => siblings[p] = {<<f, "before">>}
  /\ pc[p] # "uleak"

\* Who has the lock is inside, or was killed there.
Holds(p) == "unlink" \notin faulted /\ lock = p => pc[p] \in Locked \cup {"crashed"}

\* An outcome is only told once the record says it.
Told == {"cleanup", "catch", "finish", "abort", "rethrow", "uclean", "uleak",
         "release"}
Durable(p) == outcome[p] \in RecordState /\ pc[p] # "done" =>
  pc[p] \in Told /\ record[Target[p]] = outcome[p]

\* What an operation leaves behind, as long as no unlink fails.
ExitInv == \A p \in Proc : Tidy(p) /\ Holds(p) /\ Durable(p)

\* While unlinks succeed, siblings are gone before a bare label is reached.
LEMMA FaultGrows ==
  ASSUME NEW kind, Fault(kind) \/ NoFault
  PROVE  faulted \subseteq faulted'
  BY DEF Fault

\* A step that moves p to label l and leaves its siblings alone.
Moves(p, l) == /\ pc'[p] = l /\ siblings'[p] = siblings[p]
               /\ faulted \subseteq faulted'

LEMMA MoveTidy ==
  ASSUME TypeOK, NEW p \in Proc, Tidy(p), NEW l, Moves(p, l),
         \/ l \notin Bare
         \/ siblings[p] = {} \/ "unlink" \in faulted'
         \/ /\ pc[p] \in Bare
            /\ pc[p] \in {"release", "done"} => l = "done",
         l # "rrename", l # "uleak" \/ "unlink" \in faulted'
  PROVE  Tidy(p)'
  BY DEF Tidy, Spilled, Moves

LEMMA CheckTidy ==
  ASSUME TypeOK, NEW p \in Proc, NEW l, NEW e, NEW b, Tidy(p),
         CheckFile(p, l, e, b),
         b \in Bare => l \in Bare, {l, b} \cap {"rrename", "uleak", "release"} = {},
         l # "done"
  PROVE  Tidy(p)' /\ faulted \subseteq faulted'
<1>1. faulted \subseteq faulted' /\ pc[p] = l
  BY FaultGrows DEF CheckFile
<1>2. Moves(p, l) \/ Moves(p, b)
  BY <1>1 DEF CheckFile, Enter, Moves, TypeOK
<1> QED BY <1>1, <1>2, MoveTidy

LEMMA UndoableTidy ==
  ASSUME TypeOK, NEW p \in Proc, NEW l, NEW b, Tidy(p), UndoableFile(p, l, b),
         b \in Bare => l \in Bare, {l, b} \cap {"rrename", "uleak", "release"} = {},
         l # "done"
  PROVE  Tidy(p)' /\ faulted \subseteq faulted'
<1>1. faulted \subseteq faulted' /\ pc[p] = l
  BY FaultGrows DEF UndoableFile
<1>2. Moves(p, l) \/ Moves(p, b)
  BY <1>1 DEF UndoableFile, Enter, Moves, TypeOK
<1> QED BY <1>1, <1>2, MoveTidy

LEMMA AdvanceTidy ==
  ASSUME TypeOK, NEW p \in Proc, NEW l, NEW to, NEW S, Tidy(p),
         Advance(p, l, to, S), to \in Bare => siblings[p] = {} \/ l \in Bare,
         to \notin {"rrename", "uleak"}, l \notin {"release", "done"}
  PROVE  Tidy(p)' /\ faulted \subseteq faulted'
<1>1. Moves(p, to) /\ pc[p] = l /\ UNCHANGED faulted
  BY DEF Advance, Finished, Enter, Moves, TypeOK
<1> QED BY <1>1, MoveTidy

LEMMA ThrowTidy ==
  ASSUME TypeOK, NEW p \in Proc, NEW l, NEW to, Tidy(p), Throw(p, l, to),
         l \in {"rethrow", "uleak"}, to \notin {"rrename", "uleak"}
  PROVE  Tidy(p)' /\ faulted \subseteq faulted'
<1>1. Moves(p, to) /\ pc[p] = l /\ UNCHANGED faulted
  BY DEF Throw, Enter, Moves, TypeOK
<1>2. l = "uleak" => "unlink" \in faulted'
  BY <1>1 DEF Tidy
<1> QED BY <1>1, <1>2, MoveTidy DEF Bare

LEMMA SyncTidy ==
  ASSUME TypeOK, NEW p \in Proc, NEW l, NEW S, NEW to, NEW b, Tidy(p),
         Sync(p, l, to, S, b), {to, b} \cap (Bare \cup {"rrename", "uleak"}) = {}
  PROVE  Tidy(p)' /\ faulted \subseteq faulted'
<1>1. faulted \subseteq faulted'
  BY FaultGrows DEF Sync
<1>2. Moves(p, to) \/ Moves(p, b)
  BY <1>1 DEF Sync, Finished, Enter, Moves, TypeOK
<1> QED BY <1>1, <1>2, MoveTidy

LEMMA ConcludeTidy ==
  ASSUME TypeOK, NEW p \in Proc, NEW l, NEW s, NEW to, NEW b, Tidy(p),
         Conclude(p, l, s, to, b), {to, b} \cap Bare # {} => l \in Bare,
         l \notin {"release", "done"}, {to, b} \cap {"rrename", "uleak"} = {}
  PROVE  Tidy(p)' /\ faulted \subseteq faulted'
<1>1. faulted \subseteq faulted' /\ pc[p] = l
  BY FaultGrows DEF Conclude, PersistRecord, PersistFails
<1>2. Moves(p, to) \/ Moves(p, b)
  BY <1>1 DEF Conclude, Enter, Moves, TypeOK
<1> QED BY <1>1, <1>2, MoveTidy

LEMMA TakeTidy ==
  ASSUME TypeOK, NEW p \in Proc, NEW S, NEW to, Tidy(p), TakeLock(p, to, S),
         to \notin {"rrename", "uleak"}
  PROVE  Tidy(p)' /\ faulted \subseteq faulted'
<1>1. faulted \subseteq faulted' /\ pc[p] = "lock"
  BY FaultGrows DEF TakeLock
<1>2. Moves(p, to) \/ Moves(p, "done")
  BY <1>1 DEF TakeLock, Enter, Moves, TypeOK
<1> QED BY <1>1, <1>2, MoveTidy DEF Bare

LEMMA RestoreTidy ==
  ASSUME TypeOK, NEW p \in Proc, NEW l, NEW slot, NEW images,
         RestoreLast(p, l, slot, images), l \notin Bare \cup {"rrename", "uleak"}
  PROVE  Tidy(p)' /\ faulted \subseteq faulted'
<1>1. faulted \subseteq faulted'
  BY FaultGrows DEF RestoreLast, RenameSibling, RenameFails
<1>2. pc'[p] = l
  BY DEF RestoreLast
<1> QED BY <1>1, <1>2 DEF Tidy

LEMMA UnlinkTidy ==
  ASSUME TypeOK, NEW p \in Proc, NEW l, NEW b, Tidy(p), UnlinkSibling(p, l, b),
         l \notin Bare \cup {"rrename", "uleak"}
  PROVE  Tidy(p)' /\ faulted \subseteq faulted'
<1>1. faulted \subseteq faulted'
  BY FaultGrows DEF UnlinkSibling
<1>2. pc'[p] = l \/ "unlink" \in faulted'
  BY DEF UnlinkSibling, Enter, Fault, TypeOK
<1> QED BY <1>1, <1>2 DEF Tidy

LEMMA EndTidy ==
  ASSUME TypeOK, NEW p \in Proc, Tidy(p), ReleaseLock(p) \/ Crash(p)
  PROVE  Tidy(p)' /\ faulted \subseteq faulted'
<1>1. faulted \subseteq faulted'
  BY FaultGrows DEF ReleaseLock, Crash
<1>2. CASE ReleaseLock(p)
  <2>1. Moves(p, "done") /\ pc[p] = "release"
    BY <1>1, <1>2 DEF ReleaseLock, Enter, Moves, TypeOK
  <2> QED BY <1>1, <2>1, MoveTidy DEF Bare
<1>3. CASE Crash(p)
  <2>1. Moves(p, "crashed")
    BY <1>1, <1>3 DEF Crash, Enter, Moves, TypeOK
  <2> QED BY <1>1, <2>1, MoveTidy DEF Bare
<1> QED BY <1>2, <1>3

LEMMA CommitTidy ==
  ASSUME TypeOK, NEW p \in Proc, Tidy(p), Commit(p)
  PROVE  Tidy(p)' /\ faulted \subseteq faulted'
<1> USE DEF Bare
<1>1. CASE Snapshot(p)
  <2>1. faulted \subseteq faulted' /\ pc[p] = "snapshot"
    BY <1>1, FaultGrows DEF Snapshot
  <2>2. Moves(p, "snapshot") \/ Moves(p, "done")
    BY <1>1, <2>1 DEF Snapshot, Enter, Moves, TypeOK
  <2> QED BY <2>1, <2>2, MoveTidy
<1>2. CASE Prepare(p) \/ Precheck(p) \/ Recheck(p)
  BY <1>2, AdvanceTidy, CheckTidy DEF Prepare, Precheck, Recheck
<1>3. CASE Acquire(p)
  BY <1>3, AdvanceTidy, TakeTidy DEF Acquire
<1>4. CASE Gate(p) \/ FinalGate(p) \/ StartRenames(p) \/ VerifyOutputs(p)
  BY <1>4, AdvanceTidy, CheckTidy DEF Gate, FinalGate, StartRenames, VerifyOutputs
<1>5. CASE StageBefore(p) \/ StageAfter(p) \/ RetainBefore(p)
  <2>1. faulted \subseteq faulted'
    BY <1>5, FaultGrows DEF StageBefore, StageAfter, RetainBefore, WriteSibling,
       WriteSiblingFails
  <2>2. pc'[p] \in {"stage", "abort"}
    BY <1>5 DEF StageBefore, StageAfter, RetainBefore, Enter, TypeOK
  <2> QED BY <2>1, <2>2 DEF Tidy
<1>6. CASE RenameOver(p) \/ Audit(p) \/ Validate(p) \/ Catch(p)
  <2>1. faulted \subseteq faulted'
    BY <1>6, FaultGrows DEF RenameOver, RenameSibling, RenameFails, Audit,
       PersistRecord, PersistFails, Validate, Catch
  <2>2. pc'[p] \in {"rename", "catch", "cleanup", "rollback", "reverify", "unwind"}
    BY <1>6 DEF RenameOver, Audit, Validate, Catch, Enter, TypeOK
  <2> QED BY <2>1, <2>2 DEF Tidy
<1>7. CASE SyncRenames(p) \/ SyncRollback(p) \/ SyncUnwind(p)
           \/ RecordRollback(p) \/ RecordUnwind(p)
  BY <1>7, SyncTidy, ConcludeTidy DEF SyncRenames, SyncRollback, SyncUnwind,
     RecordRollback, RecordUnwind
<1>8. CASE Rollback(p) \/ Unwind(p)
  BY <1>8, RestoreTidy DEF Rollback, Unwind
<1>9. CASE Reverify(p)
  <2>1. CASE pc[p] = "mismatch" /\ Enter(p, "audit", {}) /\ UNCHANGED faultVars
    <3>1. pc'[p] = "audit" /\ UNCHANGED faulted
      BY <2>1 DEF Enter, TypeOK
    <3> QED BY <3>1 DEF Tidy
  <2> QED BY <1>9, <2>1, CheckTidy, AdvanceTidy DEF Reverify
<1>10. CASE VerifyRollback(p)
  <2>1. CASE pc[p] = "rbdiffers" /\ Enter(p, "rbpersist", {}) /\ UNCHANGED faultVars
    <3>1. pc'[p] = "rbpersist" /\ UNCHANGED faulted
      BY <2>1 DEF Enter, TypeOK
    <3> QED BY <3>1 DEF Tidy
  <2> QED BY <1>10, <2>1, CheckTidy, AdvanceTidy DEF VerifyRollback
<1>11. CASE Cleanup(p) \/ Finish(p) \/ Abort(p)
  BY <1>11, UnlinkTidy, AdvanceTidy, ThrowTidy DEF Cleanup, Finish, Abort
<1>12. CASE ReleaseLock(p)
  BY <1>12, EndTidy
<1> QED BY <1>1, <1>2, <1>3, <1>4, <1>5, <1>6, <1>7, <1>8, <1>9, <1>10, <1>11,
           <1>12 DEF Commit

LEMMA UndoTidy ==
  ASSUME TypeOK, NEW p \in Proc, Tidy(p), Undo(p)
  PROVE  Tidy(p)' /\ faulted \subseteq faulted'
<1> USE DEF Bare
<1>1. CASE LoadCommitted(p)
  <2>1. UNCHANGED faulted /\ pc[p] = "uload"
    BY <1>1 DEF LoadCommitted
  <2>2. Moves(p, "upreview") \/ Moves(p, "done")
    BY <1>1, <2>1 DEF LoadCommitted, Enter, Moves, TypeOK
  <2> QED BY <2>1, <2>2, MoveTidy
<1>2. CASE Preview(p) \/ ReadImages(p) \/ UndoGate(p)
  BY <1>2, AdvanceTidy, CheckTidy, UndoableTidy DEF Preview, ReadImages, UndoGate
<1>3. CASE AcquireUndo(p)
  BY <1>3, AdvanceTidy, TakeTidy DEF AcquireUndo
<1>4. CASE StageRestore(p) \/ RestoreFile(p) \/ CatchUndo(p)
  <2>1. faulted \subseteq faulted'
    BY <1>4, FaultGrows DEF StageRestore, Advance, RestoreFile, CatchUndo,
       WriteSibling, WriteSiblingFails, RenameSibling, RenameFails
  <2>2. pc'[p] \in {"ustage", "uclean", "urename", "ucatch", "uunwind"}
    BY <1>4 DEF StageRestore, Advance, RestoreFile, CatchUndo, Enter, TypeOK
  <2> QED BY <2>1, <2>2 DEF Tidy
<1>5. CASE SyncRestore(p) \/ RecordUndone(p) \/ RecordPartial(p)
  BY <1>5, SyncTidy, ConcludeTidy DEF SyncRestore, RecordUndone, RecordPartial
<1>6. CASE VerifyRestore(p) \/ JudgeUnwind(p)
  BY <1>6, AdvanceTidy, CheckTidy DEF VerifyRestore, JudgeUnwind
<1>7. CASE RollForward(p)
  BY <1>7, RestoreTidy DEF RollForward
<1>8. CASE CleanUndo(p)
  BY <1>8, UnlinkTidy, AdvanceTidy, ThrowTidy DEF CleanUndo
<1>9. CASE ReleaseLock(p)
  BY <1>9, EndTidy
<1> QED BY <1>1, <1>2, <1>3, <1>4, <1>5, <1>6, <1>7, <1>8, <1>9 DEF Undo

LEMMA RepairTidy ==
  ASSUME TypeOK, NEW p \in Proc, Tidy(p), Repair(p)
  PROVE  Tidy(p)' /\ faulted \subseteq faulted'
<1> USE DEF Bare
<1>k. Kind[p] = "repair" /\ todo[p] \subseteq File /\ File \subseteq Nat
  BY LocalTypes, RepositoryConstants DEF Repair, TypeOK
<1>1. CASE LoadPartial(p) \/ Classify(p) \/ RecheckChosen(p) \/ SyncImage(p)
           \/ VerifyImage(p)
  <2>1. /\ faulted \subseteq faulted'
        /\ pc[p] \in {"rload", "rclassify", "rcheck", "rsync", "rverify"}
    BY <1>1, FaultGrows DEF LoadPartial, Blocked, Classify, RecheckChosen,
       SyncImage, VerifyImage
  <2>2. \E l \in {"done", "rclassify", "rstage", "rverify", "rcheck", "release"} :
          Moves(p, l)
    BY <1>1, <2>1 DEF LoadPartial, Blocked, Classify, RecheckChosen, SyncImage,
       VerifyImage, Enter, Moves, TypeOK
  <2> QED BY <2>1, <2>2, MoveTidy
<1>2. CASE AcquireRepair(p)
  BY <1>2, AdvanceTidy, TakeTidy DEF AcquireRepair
<1>3. CASE StageImage(p)
  <2>1. PICK f \in todo[p] :
          /\ First(todo[p], f)
          /\ \/ WriteSibling(p, f, "before") /\ Goto(p, "rrename") /\ UNCHANGED todo
             \/ WriteSiblingFails(p, f, "before") /\ Enter(p, "release", {})
    BY <1>3 DEF StageImage
  <2>2. pc[p] = "rstage" /\ faulted \subseteq faulted'
    BY <1>3, <2>1, FaultGrows DEF StageImage, WriteSibling, WriteSiblingFails
  <2>3. CASE WriteSibling(p, f, "before") /\ Goto(p, "rrename") /\ UNCHANGED todo
    <3>1. /\ pc'[p] = "rrename" /\ todo'[p] = todo[p]
          /\ siblings'[p] = siblings[p] \cup {<<f, "before">>}
      BY <2>3 DEF WriteSibling, TypeOK
    <3>2. "unlink" \notin faulted => siblings[p] = {}
      BY <2>2 DEF Tidy, Spilled
    <3>3. ASSUME NEW g \in todo[p], First(todo[p], g) PROVE g = f
      <4>1. f \in Nat /\ g \in Nat /\ f <= g /\ g <= f
        BY <1>k, <2>1, <3>3 DEF First
      <4> QED BY <4>1
    <3> QED BY <2>2, <3>1, <3>2, <3>3 DEF Tidy
  <2>4. CASE WriteSiblingFails(p, f, "before") /\ Enter(p, "release", {})
    <3>1. pc'[p] = "release" /\ "write" \in faulted'
      BY <2>4 DEF WriteSiblingFails, Fault, Enter, TypeOK
    <3> QED BY <1>k, <2>2, <3>1 DEF Tidy, Spilled
  <2> QED BY <2>1, <2>3, <2>4
<1>4. CASE RenameImage(p)
  <2>1. PICK f \in todo[p] :
          /\ First(todo[p], f)
          /\ \/ /\ RenameSibling(p, f, "before", before[Target[p]][f])
                /\ Goto(p, "rsync")
             \/ Fault("rename") /\ Enter(p, "release", {})
    BY <1>4 DEF RenameImage
  <2>2. pc[p] = "rrename" /\ faulted \subseteq faulted'
    BY <1>4, <2>1, FaultGrows DEF RenameImage, RenameSibling
  <2>3. CASE RenameSibling(p, f, "before", before[Target[p]][f]) /\ Goto(p, "rsync")
    <3>1. pc'[p] = "rsync" /\ siblings'[p] = siblings[p] \ {<<f, "before">>}
      BY <2>3 DEF RenameSibling, TypeOK
    <3>2. "unlink" \notin faulted => siblings[p] = {<<f, "before">>}
      BY <2>1, <2>2 DEF Tidy
    <3> QED BY <2>2, <3>1, <3>2 DEF Tidy
  <2>4. CASE Fault("rename") /\ Enter(p, "release", {})
    <3>1. pc'[p] = "release" /\ "rename" \in faulted'
      BY <2>4 DEF Fault, Enter, TypeOK
    <3> QED BY <1>k, <2>2, <3>1 DEF Tidy, Spilled
  <2> QED BY <2>1, <2>3, <2>4
<1>5. CASE RecordRepaired(p)
  BY <1>5, AdvanceTidy, ConcludeTidy DEF RecordRepaired
<1>6. CASE ReleaseLock(p)
  BY <1>6, EndTidy
<1> QED BY <1>1, <1>2, <1>3, <1>4, <1>5, <1>6 DEF Repair

LEMMA GcTidy ==
  ASSUME TypeOK, NEW p \in Proc, Tidy(p), Gc(p)
  PROVE  Tidy(p)' /\ faulted \subseteq faulted'
<1> USE DEF Bare
<1>1. CASE ListRecords(p) \/ ScanRecord(p) \/ FinishScan(p) \/ PruneImages(p)
           \/ RemoveRecord(p) \/ FinishPrune(p)
  <2>1. faulted \subseteq faulted' /\ pc[p] \in {"glist", "gscan", "gprune", "gremove"}
    BY <1>1, FaultGrows DEF ListRecords, ScanRecord, FinishScan, PruneImages,
       RemoveRecord, FinishPrune
  <2>2. \E l \in {"gscan", "done", "lock", "gprune", "gremove", "release"} : Moves(p, l)
    BY <1>1, <2>1 DEF ListRecords, ScanRecord, FinishScan, PruneImages,
       RemoveRecord, FinishPrune, Enter, Moves, TypeOK
  <2> QED BY <2>1, <2>2, MoveTidy
<1>2. CASE AcquireGc(p)
  BY <1>2, TakeTidy DEF AcquireGc
<1>3. CASE ReleaseLock(p)
  BY <1>3, EndTidy
<1> QED BY <1>1, <1>2, <1>3 DEF Gc

LEMMA QuietDurable ==
  ASSUME NEW p \in Proc, Durable(p), UNCHANGED <<record, outcome>>,
         pc[p] # "done", pc[p] \in Told => pc'[p] \in Told \cup {"done"}
  PROVE  Durable(p)'
  BY DEF Durable

\* An operation that ends without a result, or not yet with one.
LEMMA UntoldDurable ==
  ASSUME NEW p \in Proc, pc'[p] = "done" \/ outcome'[p] \notin RecordState
  PROVE  Durable(p)'
  BY DEF Durable

LEMMA ConcludeDurable ==
  ASSUME TypeOK, NEW p \in Proc, NEW l, NEW s, NEW to \in Told, NEW b,
         Durable(p), Conclude(p, l, s, to, b), l \notin Told \cup {"done"}
  PROVE  Durable(p)'
<1>0. Target[p] \in Txn
  BY LocalTypes
<1>1. pc[p] = l
  BY DEF Conclude
<1>2. CASE PersistRecord(Target[p], s) /\ outcome' = [outcome EXCEPT ![p] = s]
           /\ pc' = [pc EXCEPT ![p] = to]
  <2>1. pc'[p] = to /\ outcome'[p] = s /\ record'[Target[p]] = s
    BY <1>0, <1>2 DEF PersistRecord, TypeOK
  <2> QED BY <2>1 DEF Durable
<1>3. CASE UNCHANGED outcome
  BY <1>1, <1>3 DEF Durable
<1> QED BY <1>2, <1>3 DEF Conclude, Enter

LEMMA CommitDurable ==
  ASSUME TypeOK, NEW p \in Proc, Durable(p), Commit(p)
  PROVE  Durable(p)'
<1> USE DEF Told
<1>0. Target[p] \in Txn
  BY LocalTypes
<1>1. CASE Snapshot(p) \/ Prepare(p) \/ Precheck(p) \/ Acquire(p) \/ Recheck(p)
           \/ Gate(p)
  <2>1. UNCHANGED <<record, outcome>>
    BY <1>1 DEF Snapshot, Prepare, Precheck, Acquire, Recheck, Gate, CheckFile,
       Advance, TakeLock
  <2>2. pc[p] \in {"snapshot", "prepare", "precheck", "lock", "recheck", "gate"}
    BY <1>1 DEF Snapshot, Prepare, Precheck, Acquire, Recheck, Gate, CheckFile,
       Advance, Finished, TakeLock
  <2> QED BY <2>1, <2>2, QuietDurable
<1>2. CASE StageBefore(p) \/ StageAfter(p) \/ RetainBefore(p) \/ FinalGate(p)
           \/ StartRenames(p) \/ RenameOver(p)
  <2>1. UNCHANGED <<record, outcome>>
    BY <1>2 DEF StageBefore, StageAfter, RetainBefore, FinalGate, StartRenames,
       RenameOver, CheckFile, Advance
  <2>2. pc[p] \in {"stage", "finalgate", "rename"}
    BY <1>2 DEF StageBefore, StageAfter, RetainBefore, FinalGate, StartRenames,
       RenameOver, CheckFile, Advance, Finished
  <2> QED BY <2>1, <2>2, QuietDurable
<1>3. CASE SyncRenames(p) \/ VerifyOutputs(p) \/ Validate(p) \/ Reverify(p)
  <2>1. UNCHANGED <<record, outcome>>
    BY <1>3 DEF SyncRenames, VerifyOutputs, Validate, Reverify, CheckFile,
       Advance, Sync
  <2>2. pc[p] \in {"rename", "verify", "reverify", "mismatch"}
    BY <1>3 DEF SyncRenames, VerifyOutputs, Validate, Reverify, CheckFile,
       Advance, Finished, Sync
  <2> QED BY <2>1, <2>2, QuietDurable
<1>4. CASE Audit(p)
  <2>1. pc[p] = "audit"
    BY <1>4 DEF Audit
  <2>2. CASE UNCHANGED outcome
    BY <2>1, <2>2 DEF Durable
  <2>3. CASE /\ record' = [record EXCEPT ![Target[p]] = "committed"]
             /\ outcome' = [outcome EXCEPT ![p] = "committed"]
             /\ pc' = [pc EXCEPT ![p] = "cleanup"]
    <3>1. /\ record'[Target[p]] = "committed" /\ outcome'[p] = "committed"
          /\ pc'[p] = "cleanup"
      BY <1>0, <2>3 DEF TypeOK
    <3> QED BY <3>1 DEF Durable
  <2> QED BY <1>4, <2>2, <2>3 DEF Audit, PersistRecord, Enter
<1>5. CASE Rollback(p) \/ SyncRollback(p) \/ VerifyRollback(p) \/ Unwind(p)
           \/ SyncUnwind(p)
  <2>1. UNCHANGED <<record, outcome>>
    BY <1>5 DEF Rollback, SyncRollback, VerifyRollback, Unwind, SyncUnwind,
       CheckFile, Advance, Sync, RestoreLast
  <2>2. pc[p] \in {"rollback", "rbverify", "rbdiffers", "unwind"}
    BY <1>5 DEF Rollback, SyncRollback, VerifyRollback, Unwind, SyncUnwind,
       CheckFile, Advance, Finished, Sync, RestoreLast
  <2> QED BY <2>1, <2>2, QuietDurable
<1>6. CASE RecordRollback(p) \/ RecordUnwind(p)
  BY <1>6, ConcludeDurable DEF RecordRollback, RecordUnwind
<1>7. CASE Cleanup(p) \/ Finish(p) \/ UnlinkSibling(p, "abort", "rethrow")
           \/ Advance(p, "abort", "rethrow", {})
  <2>1. UNCHANGED <<record, outcome>>
    BY <1>7 DEF Cleanup, Finish, UnlinkSibling, Advance
  <2>2. pc[p] # "done" /\ pc'[p] \in Told
    BY <1>7 DEF Cleanup, Finish, UnlinkSibling, Advance, Finished, Enter, TypeOK
  <2> QED BY <2>1, <2>2, QuietDurable
<1>8. CASE Catch(p) \/ Throw(p, "rethrow", "release") \/ ReleaseLock(p)
  <2>1. outcome'[p] \notin RecordState \/ pc'[p] = "done"
    BY <1>8 DEF Catch, Throw, ReleaseLock, Enter, TypeOK, RecordState
  <2> QED BY <2>1, UntoldDurable
<1> QED BY <1>1, <1>2, <1>3, <1>4, <1>5, <1>6, <1>7, <1>8 DEF Commit, Abort

LEMMA UndoDurable ==
  ASSUME TypeOK, NEW p \in Proc, Durable(p), Undo(p)
  PROVE  Durable(p)'
<1> USE DEF Told
<1>1. CASE LoadCommitted(p) \/ Preview(p) \/ AcquireUndo(p) \/ ReadImages(p)
           \/ StageRestore(p) \/ UndoGate(p)
  <2>1. UNCHANGED <<record, outcome>>
    BY <1>1 DEF LoadCommitted, Preview, AcquireUndo, ReadImages, StageRestore,
       UndoGate, CheckFile, UndoableFile, Advance, TakeLock
  <2>2. pc[p] \in {"uload", "upreview", "lock", "uread", "ustage", "ugate"}
    BY <1>1 DEF LoadCommitted, Preview, AcquireUndo, ReadImages, StageRestore,
       UndoGate, CheckFile, UndoableFile, Advance, Finished, TakeLock
  <2> QED BY <2>1, <2>2, QuietDurable
<1>2. CASE RestoreFile(p) \/ SyncRestore(p) \/ VerifyRestore(p) \/ CatchUndo(p)
           \/ RollForward(p) \/ JudgeUnwind(p)
  <2>1. UNCHANGED <<record, outcome>>
    BY <1>2 DEF RestoreFile, SyncRestore, VerifyRestore, CatchUndo, RollForward,
       JudgeUnwind, CheckFile, Advance, Sync, RestoreLast
  <2>2. pc[p] \in {"urename", "uverify", "ucatch", "uunwind"}
    BY <1>2 DEF RestoreFile, SyncRestore, VerifyRestore, CatchUndo, RollForward,
       JudgeUnwind, CheckFile, Advance, Finished, Sync, RestoreLast
  <2> QED BY <2>1, <2>2, QuietDurable
<1>3. CASE RecordUndone(p) \/ RecordPartial(p)
  BY <1>3, ConcludeDurable DEF RecordUndone, RecordPartial
<1>4. CASE UnlinkSibling(p, "uclean", "uleak") \/ Advance(p, "uclean", "release", {})
  <2>1. UNCHANGED <<record, outcome>>
    BY <1>4 DEF UnlinkSibling, Advance
  <2>2. pc[p] # "done" /\ pc'[p] \in Told
    BY <1>4 DEF UnlinkSibling, Advance, Finished, Enter, TypeOK
  <2> QED BY <2>1, <2>2, QuietDurable
<1>5. CASE Throw(p, "uleak", "done") \/ ReleaseLock(p)
  <2>1. pc'[p] = "done"
    BY <1>5 DEF Throw, ReleaseLock, Enter, TypeOK
  <2> QED BY <2>1, UntoldDurable
<1> QED BY <1>1, <1>2, <1>3, <1>4, <1>5 DEF Undo, CleanUndo

LEMMA RepairDurable ==
  ASSUME TypeOK, NEW p \in Proc, Durable(p), Repair(p) \/ Gc(p) \/ Crash(p)
  PROVE  Durable(p)'
<1> USE DEF Told
<1>1. CASE LoadPartial(p) \/ Classify(p)
  <2>1. /\ UNCHANGED record /\ pc[p] \in {"rload", "rclassify"}
        /\ UNCHANGED outcome \/ pc'[p] = "done"
    BY <1>1 DEF LoadPartial, Classify, Blocked, Enter, TypeOK
  <2> QED BY <2>1, QuietDurable, UntoldDurable
<1>2. CASE AcquireRepair(p) \/ RecheckChosen(p) \/ StageImage(p) \/ RenameImage(p)
           \/ SyncImage(p) \/ VerifyImage(p) \/ Advance(p, "rcheck", "rrecord", {})
  <2>1. UNCHANGED <<record, outcome>>
    BY <1>2 DEF AcquireRepair, RecheckChosen, StageImage, RenameImage, SyncImage,
       VerifyImage, Advance, TakeLock
  <2>2. pc[p] \in {"rclassify", "lock", "rcheck", "rstage", "rrename", "rsync",
                   "rverify"}
    BY <1>2 DEF AcquireRepair, RecheckChosen, StageImage, RenameImage, SyncImage,
       VerifyImage, Advance, Finished, TakeLock
  <2> QED BY <2>1, <2>2, QuietDurable
<1>3. CASE Conclude(p, "rrecord", "rolled-back", "release", "release")
  BY <1>3, ConcludeDurable
<1>4. CASE ReleaseLock(p) \/ Crash(p)
  <2>1. outcome'[p] \notin RecordState \/ pc'[p] = "done"
    BY <1>4 DEF ReleaseLock, Crash, Enter, TypeOK, RecordState
  <2> QED BY <2>1, UntoldDurable
<1>5. CASE ListRecords(p) \/ ScanRecord(p) \/ AcquireGc(p) \/ PruneImages(p)
  <2>1. UNCHANGED <<record, outcome>>
    BY <1>5 DEF ListRecords, ScanRecord, AcquireGc, PruneImages, TakeLock
  <2>2. pc[p] \in {"glist", "gscan", "lock", "gprune"}
    BY <1>5 DEF ListRecords, ScanRecord, AcquireGc, PruneImages, TakeLock
  <2> QED BY <2>1, <2>2, QuietDurable
<1>6. CASE FinishScan(p) \/ FinishPrune(p) \/ RemoveRecord(p)
  <2>1. /\ pc[p] \in {"gscan", "gprune", "gremove"}
        /\ outcome'[p] = outcome[p] \/ outcome'[p] = "pruned"
    BY <1>6 DEF FinishScan, FinishPrune, RemoveRecord, TypeOK
  <2>2. outcome[p] \notin RecordState
    BY <2>1 DEF Durable
  <2> QED BY <2>1, <2>2, UntoldDurable DEF RecordState
<1> QED BY <1>1, <1>2, <1>3, <1>4, <1>5, <1>6 DEF Repair, RecordRepaired, Gc

\* The killed take no step.
LEMMA NobodyRises ==
  ASSUME TypeOK, NEW p \in Proc, Run(p) \/ Crash(p), pc[p] = "crashed"
  PROVE  FALSE
<1>1. CASE Crash(p)
  BY <1>1 DEF Crash, Live
<1>2. CASE Repair(p) \/ Gc(p)
  BY <1>2 DEF Repair, LoadPartial, Classify, AcquireRepair, RecheckChosen,
     StageImage, RenameImage, SyncImage, VerifyImage, RecordRepaired, ReleaseLock,
     Advance, Finished, TakeLock, Conclude, Gc, ListRecords, ScanRecord,
     FinishScan, AcquireGc, PruneImages, RemoveRecord, FinishPrune
<1>3. CASE Undo(p)
  BY <1>3 DEF Undo, LoadCommitted, Preview, AcquireUndo, ReadImages, StageRestore,
     UndoGate, RestoreFile, SyncRestore, VerifyRestore, RecordUndone, CatchUndo,
     RollForward, JudgeUnwind, RecordPartial, CleanUndo, ReleaseLock, CheckFile,
     UndoableFile, Advance, Finished, TakeLock, Conclude, RestoreLast, Sync,
     UnlinkSibling, Throw
<1>4. CASE Commit(p)
  BY <1>4 DEF Commit, Snapshot, Prepare, Precheck, Acquire, Recheck, Gate,
     StageBefore, StageAfter, RetainBefore, FinalGate, StartRenames, RenameOver,
     SyncRenames, VerifyOutputs, Validate, Reverify, Audit, Rollback,
     SyncRollback, VerifyRollback, RecordRollback, Cleanup, Catch, Unwind,
     SyncUnwind, RecordUnwind, Finish, Abort, ReleaseLock, CheckFile, Advance,
     Finished, TakeLock, Conclude, RestoreLast, Sync, UnlinkSibling, Throw
<1> QED BY <1>1, <1>2, <1>3, <1>4 DEF Run

LEMMA ExitStep ==
  ASSUME TypeOK, LockHeld, ExitInv, [Next]_vars
  PROVE  ExitInv'
<1>1. CASE UNCHANGED vars
  BY <1>1 DEF vars, ExitInv, Tidy, Spilled, Holds, Durable
<1>2. CASE ForeignEdit
  BY <1>2 DEF ForeignEdit, ExitInv, Tidy, Spilled, Holds, Durable
<1>3. ASSUME NEW p \in Proc, Run(p) \/ Crash(p) PROVE ExitInv'
  <2>1. Tidy(p)' /\ faulted \subseteq faulted'
    BY <1>3, CommitTidy, UndoTidy, RepairTidy, GcTidy, EndTidy DEF Run, ExitInv
  <2>2. Locks(p) /\ Records(p)
    BY <1>3, StepEffect DEF Effect
  <2>3. Holds(p)'
    <3> SUFFICES ASSUME "unlink" \notin faulted', lock' = p, pc'[p] # "crashed"
                 PROVE  pc'[p] \in Locked
      BY DEF Holds
    <3>1. pc[p] # "uleak" /\ Holds(p)
      BY <2>1 DEF ExitInv, Tidy
    <3>2. pc[p] # "crashed"
      BY <1>3, NobodyRises
    <3>3. lock = p => pc[p] \in Locked
      BY <2>1, <3>1, <3>2 DEF Holds
    <3> QED BY <2>2, <3>1, <3>3, RepositoryConstants DEF Locks, Leaks
  <2>4. Durable(p)'
    BY <1>3, CommitDurable, UndoDurable, RepairDurable DEF Run, ExitInv
  <2>5. ASSUME NEW q \in Proc, q # p PROVE Tidy(q)' /\ Holds(q)' /\ Durable(q)'
    <3>1. Same(q) /\ Tidy(q) /\ Holds(q) /\ Durable(q)
      BY <1>3, <2>5, Others DEF ExitInv
    <3>2. Tidy(q)'
      BY <2>1, <3>1 DEF Same, Tidy, Spilled
    <3>3. Holds(q)'
      BY <2>1, <2>2, <2>5, <3>1, RepositoryConstants DEF Same, Holds, Locks
    <3>4. Durable(q)'
      <4>1. Told \subseteq Locked
        BY DEF Told, Locked
      <4>2. CASE record' = record
        BY <3>1, <4>2 DEF Same, Durable
      <4>3. CASE pc[p] \in Locked
        <5>1. pc[q] \notin Told
          BY <2>5, <4>1, <4>3 DEF LockHeld
        <5> QED BY <3>1, <5>1 DEF Same, Durable
      <4> QED BY <2>2, <4>2, <4>3 DEF Records
    <3> QED BY <3>2, <3>3, <3>4
  <2> QED BY <2>1, <2>3, <2>4, <2>5 DEF ExitInv
<1> QED BY <1>1, <1>2, <1>3 DEF Next

LEMMA ExitInit == Init => ExitInv
  BY RepositoryConstants DEF Init, StartLabel, ExitInv, Tidy, Holds, Durable,
     RecordState

LEMMA ExitAlways == Spec => []ExitInv
<1>1. TypeOK /\ GateInv /\ ExitInv /\ [Next]_vars => ExitInv'
  BY ExitStep DEF GateInv
<1> QED BY <1>1, ExitInit, GateAlways, PTL DEF Spec

\* As long as no unlink fails, an operation that ends, on whatever path, leaves
\* neither the lock nor siblings; a repair leaves one if its write or rename
\* failed.
THEOREM ExitsAreClean == Spec => []CleanExit
<1>1. ExitInv => CleanExit
  BY DEF ExitInv, Tidy, Spilled, Holds, CleanExit, Bare, Locked
<1> QED BY <1>1, ExitAlways, PTL

\* What an operation is about to return is in its record on disk, although gc
\* and other operations write records too and any call may have failed.
THEOREM ReturnsAreDurable == Spec => []ReturnedIsDurable
<1>1. ExitInv => ReturnedIsDurable
  BY DEF ExitInv, Durable, ReturnedIsDurable
<1> QED BY <1>1, ExitAlways, PTL

-----------------------------------------------------------------------------
(* What was written over what. *)

\* The contents that stem from those of B in file f: B, the outputs of the
\* transactions planned on one of B, of those planned on these, and so on.
Stems(B, f) ==
  {c \in Content :
     \A S \in SUBSET Content :
       B \subseteq S /\ (\A u \in Txn : before[u][f] \in S => u \in S)
         => c \in S}

LEMMA StemsBase ==
  ASSUME NEW B \in SUBSET Content, NEW f
  PROVE  B \subseteq Stems(B, f)
  BY DEF Stems

LEMMA StemsUp ==
  ASSUME NEW B, NEW f, NEW u \in Txn, before[u][f] \in Stems(B, f)
  PROVE  u \in Stems(B, f)
  BY DEF Stems, Content

\* An output that is not itself in B stems from B only through what it was
\* planned on.
LEMMA StemsDown ==
  ASSUME TypeOK, NEW B, NEW f \in File, NEW u \in Txn \ B, u \in Stems(B, f)
  PROVE  before[u][f] \in Stems(B, f)
<1> SUFFICES ASSUME NEW S \in SUBSET Content, B \subseteq S,
                    \A w \in Txn : before[w][f] \in S => w \in S,
                    before[u][f] \notin S
             PROVE  FALSE
  BY DEF Stems, TypeOK
<1>1. /\ S \ {u} \in SUBSET Content /\ B \subseteq S \ {u}
      /\ \A w \in Txn : before[w][f] \in S \ {u} => w \in S \ {u}
  OBVIOUS
<1> QED BY <1>1 DEF Stems

\* Nothing stems from B but B and outputs.
LEMMA StemsOnly ==
  ASSUME NEW B \in SUBSET Content, NEW f
  PROVE  Stems(B, f) \subseteq B \cup Txn
<1>1. /\ B \cup Txn \in SUBSET Content /\ B \subseteq B \cup Txn
      /\ \A u \in Txn : before[u][f] \in B \cup Txn => u \in B \cup Txn
  BY DEF Content
<1> QED BY <1>1 DEF Stems

\* No file and no plan holds the output of t.
NoTrace(t) == \A f \in File : /\ content[f] # t
                              /\ \A u \in Txn : before[u][f] # t

\* Planning a transaction of which there is no trace yet changes no other
\* content's descent.
LEMMA StemsStay ==
  ASSUME TypeOK, NEW u \in Txn, NoTrace(u), NEW g \in File,
         before' = [before EXCEPT ![u][g] = content[g]],
         NEW B, NEW f \in File, NEW c \in Content \ {u}
  PROVE  c \in Stems(B, f)' <=> c \in Stems(B, f)
<1>1. /\ \A w \in Txn \ {u} : before'[w][f] = before[w][f]
      /\ \A w \in Txn : before[w][f] # u
      /\ before'[u][f] # u
  BY DEF NoTrace, TypeOK
<1>2. ASSUME c \in Stems(B, f)', NEW S \in SUBSET Content, B \subseteq S,
             \A w \in Txn : before[w][f] \in S => w \in S
      PROVE  c \in S
  <2>1. /\ S \cup {u} \in SUBSET Content /\ B \subseteq S \cup {u}
        /\ \A w \in Txn : before'[w][f] \in S \cup {u} => w \in S \cup {u}
    BY <1>1, <1>2 DEF Content
  <2> QED BY <1>2, <2>1 DEF Stems
<1>3. ASSUME c \in Stems(B, f), NEW S \in SUBSET Content, B \subseteq S,
             \A w \in Txn : before'[w][f] \in S => w \in S
      PROVE  c \in S
  <2>1. /\ S \cup {u} \in SUBSET Content /\ B \subseteq S \cup {u}
        /\ \A w \in Txn : before[w][f] \in S \cup {u} => w \in S \cup {u}
    BY <1>1, <1>3 DEF Content
  <2> QED BY <1>3, <2>1 DEF Stems
<1> QED BY <1>2, <1>3 DEF Stems

-----------------------------------------------------------------------------
(* The files a process may still write. *)

Grip(p) == {f \in File :
  /\ Kind[p] # "gc"
  /\ \/ pc[p] = "finalgate" /\ f \in Changed[Target[p]] \ todo[p]
     \/ /\ pc[p] \in {"rename", "urename", "rollback", "unwind", "uunwind"}
        /\ f \in todo[p]
     \/ pc[p] = "ugate" /\ f \in Changed[Target[p]] \ todo[p]
     \/ pc[p] \in {"rstage", "rrename"} /\ First(todo[p], f)
     \/ pc[p] \in Locked /\ f \in renamed[p]}

LEMMA GripNeedsLock ==
  ASSUME NEW p \in Proc, Grip(p) # {}
  PROVE  pc[p] \in Locked /\ Kind[p] # "gc"
  BY DEF Grip, Locked

LEMMA GripOwns ==
  ASSUME TypeOK, GateInv, NEW p \in Proc, NEW f \in Grip(p)
  PROVE  Own(p, f)
<1>1. Owned(p)
  BY DEF GateInv, Grip
<1>2. Changed[Target[p]] \subseteq Inputs[Target[p]]
  BY LocalTypes, RepositoryConstants
<1> QED BY <1>1, <1>2 DEF Grip, Owned, Own, First

\* A process takes a file into its grip only on seeing its own output or what
\* it was planned on there.
Seen(p, f) == /\ content[f] \in {Target[p], before[Target[p]][f]}
              /\ UNCHANGED <<content, before>>

LEMMA CommitGrip ==
  ASSUME TypeOK, NEW p \in Proc, Commit(p), Owned(p), NEW f \in Grip(p)'
  PROVE  f \in Grip(p) \/ Seen(p, f)
<1> USE DEF Grip, Enter, Finished
<1>l. /\ {"recheck", "gate", "stage", "finalgate", "rename", "verify",
          "reverify", "mismatch", "audit", "rollback", "rbverify", "rbdiffers",
          "rbpersist", "cleanup", "catch", "unwind", "unwindpersist", "finish",
          "abort", "rethrow", "release"} \subseteq Locked
      /\ {"snapshot", "prepare", "precheck", "lock", "done"} \cap Locked = {}
      /\ pc[p] = "lock" => renamed[p] = {}
  BY DEF Locked, Unlocked, Owned
<1>t. /\ Changed[Target[p]] \subseteq Inputs[Target[p]]
      /\ Inputs[Target[p]] \subseteq File
      /\ renamed[p] \subseteq File /\ todo[p] \subseteq File
  BY LocalTypes, RepositoryConstants
<1>1. CASE Snapshot(p) \/ Prepare(p) \/ Precheck(p)
  BY <1>1, <1>l DEF Snapshot, Prepare, Precheck, CheckFile, Advance, TypeOK
<1>2. CASE Acquire(p)
  BY <1>2, <1>l DEF Acquire, Advance, TakeLock, TypeOK
<1>3. CASE Recheck(p) \/ Gate(p)
  BY <1>3, <1>l DEF Recheck, Gate, CheckFile, Advance, TypeOK
<1>4. CASE StageBefore(p) \/ StageAfter(p) \/ RetainBefore(p)
  BY <1>4, <1>l DEF StageBefore, StageAfter, RetainBefore, TypeOK
<1>5. CASE FinalGate(p)
  BY <1>5, <1>l, <1>t DEF FinalGate, CheckFile, Advance, TypeOK, Seen
<1>6. CASE StartRenames(p)
  BY <1>6, <1>l, <1>t DEF StartRenames, Advance, TypeOK
<1>r. CASE RenameOver(p)
  <2>1. /\ pc[p] = "rename" /\ pc'[p] \in {"rename", "catch"}
        /\ todo'[p] \subseteq todo[p]
        /\ renamed'[p] \subseteq renamed[p] \cup todo[p]
    BY <1>r DEF RenameOver, TypeOK
  <2> QED BY <1>l, <2>1
<1>7. CASE SyncRenames(p) \/ VerifyOutputs(p) \/ Validate(p) \/ Reverify(p)
           \/ Audit(p)
  BY <1>7, <1>l DEF SyncRenames, VerifyOutputs, Validate, Reverify, Audit, Sync,
     CheckFile, Advance, TypeOK
<1>8. CASE Rollback(p) \/ Unwind(p) \/ SyncRollback(p) \/ SyncUnwind(p)
           \/ VerifyRollback(p) \/ Catch(p)
  BY <1>8, <1>l DEF Rollback, Unwind, SyncRollback, SyncUnwind,
     VerifyRollback, Catch, RestoreLast, Sync, CheckFile, Advance, TypeOK
<1>9. CASE RecordRollback(p) \/ RecordUnwind(p) \/ Cleanup(p) \/ Finish(p)
            \/ Abort(p) \/ ReleaseLock(p)
  BY <1>9, <1>l DEF RecordRollback, RecordUnwind, Cleanup, Finish, Abort,
     ReleaseLock, Conclude, UnlinkSibling, Throw, Advance, TypeOK
<1> QED BY <1>1, <1>2, <1>3, <1>4, <1>5, <1>6, <1>r, <1>7, <1>8, <1>9 DEF Commit

LEMMA UndoGrip ==
  ASSUME TypeOK, NEW p \in Proc, Undo(p), Owned(p), NEW f \in Grip(p)'
  PROVE  f \in Grip(p) \/ Seen(p, f)
<1> USE DEF Grip, Enter, Finished
<1>l. /\ {"uread", "ustage", "ugate", "urename", "uverify", "urecord", "ucatch",
          "uunwind", "upartial", "uclean", "uleak", "release"} \subseteq Locked
      /\ {"uload", "upreview", "lock", "done"} \cap Locked = {}
      /\ pc[p] = "lock" => renamed[p] = {}
  BY DEF Locked, Unlocked, Owned
<1>t. /\ Changed[Target[p]] \subseteq File
      /\ renamed[p] \subseteq File /\ todo[p] \subseteq File
  BY LocalTypes
<1>1. CASE LoadCommitted(p) \/ Preview(p) \/ AcquireUndo(p) \/ ReadImages(p)
  BY <1>1, <1>l DEF LoadCommitted, Preview, AcquireUndo, ReadImages,
     UndoableFile, Advance, TakeLock, TypeOK
<1>2. CASE StageRestore(p)
  BY <1>2, <1>l DEF StageRestore, Advance, TypeOK
<1>3. CASE UndoGate(p)
  BY <1>3, <1>l, <1>t DEF UndoGate, CheckFile, Advance, TypeOK, Seen, After
<1>4. CASE RestoreFile(p)
  <2>1. /\ pc[p] = "urename" /\ pc'[p] \in {"urename", "ucatch"}
        /\ todo'[p] \subseteq todo[p]
        /\ renamed'[p] \subseteq renamed[p] \cup todo[p]
    BY <1>4 DEF RestoreFile, TypeOK
  <2> QED BY <1>l, <2>1
<1>r. CASE CatchUndo(p) \/ RollForward(p) \/ JudgeUnwind(p)
  BY <1>r, <1>l, <1>t DEF CatchUndo, RollForward, JudgeUnwind, RestoreLast,
     Advance, TypeOK
<1>5. CASE SyncRestore(p) \/ VerifyRestore(p) \/ RecordUndone(p)
           \/ RecordPartial(p) \/ CleanUndo(p) \/ ReleaseLock(p)
  BY <1>5, <1>l DEF SyncRestore, VerifyRestore, RecordUndone, RecordPartial,
     CleanUndo, ReleaseLock, Sync, CheckFile, Advance, Conclude, UnlinkSibling,
     Throw, TypeOK
<1> QED BY <1>1, <1>2, <1>3, <1>4, <1>r, <1>5 DEF Undo

LEMMA RepairGrip ==
  ASSUME TypeOK, NEW p \in Proc, Repair(p), Owned(p), NEW f \in Grip(p)'
  PROVE  f \in Grip(p) \/ Seen(p, f)
<1> USE DEF Grip, Enter, Finished
<1>l. /\ {"rcheck", "rstage", "rrename", "rsync", "rverify", "rrecord",
          "release"} \subseteq Locked
      /\ {"rload", "rclassify", "lock", "done"} \cap Locked = {}
      /\ pc[p] = "lock" => renamed[p] = {}
  BY DEF Locked, Unlocked, Owned
<1>1. CASE LoadPartial(p) \/ Classify(p) \/ AcquireRepair(p)
  BY <1>1, <1>l DEF LoadPartial, Classify, Blocked, AcquireRepair, Advance,
     TakeLock, TypeOK
<1>2. CASE RecheckChosen(p)
  <2>1. /\ pc[p] = "rcheck" /\ UNCHANGED <<content, before>>
        /\ renamed'[p] = renamed[p]
    BY <1>2 DEF RecheckChosen
  <2>2. CASE f \in renamed'[p]
    BY <1>l, <2>1, <2>2
  <2>3. CASE First(todo'[p], f) /\ pc'[p] = "rstage"
    <3>1. PICK g \in todo[p] : First(todo[p], g) /\ Restorable(Target[p], g)
                                /\ todo' = todo
      BY <1>2, <2>3 DEF RecheckChosen, TypeOK
    <3>2. f \in Nat /\ g \in Nat /\ f <= g /\ g <= f
      BY <2>3, <3>1, LocalTypes, RepositoryConstants DEF First
    <3>3. f = g
      BY <3>2
    <3> QED BY <2>1, <3>1, <3>3 DEF Restorable, Seen
  <2>4. pc'[p] \in {"rstage", "release"}
    BY <1>2 DEF RecheckChosen, TypeOK
  <2> QED BY <2>2, <2>3, <2>4
<1>3. CASE StageImage(p) \/ RenameImage(p) \/ SyncImage(p) \/ VerifyImage(p)
           \/ RecordRepaired(p) \/ ReleaseLock(p)
  BY <1>3, <1>l DEF StageImage, RenameImage, SyncImage, VerifyImage,
     RecordRepaired, ReleaseLock, Advance, Conclude, TypeOK
<1> QED BY <1>1, <1>2, <1>3 DEF Repair

LEMMA GripGrows ==
  ASSUME TypeOK, GateInv, NEW p \in Proc, Run(p) \/ Crash(p),
         NEW f \in Grip(p)'
  PROVE  f \in Grip(p) \/ Seen(p, f)
<1>1. Kind[p] # "gc" /\ Owned(p)
  BY DEF Grip, GateInv
<1>2. CASE Crash(p)
  <2>1. pc'[p] = "crashed"
    BY <1>2 DEF Crash, Enter, TypeOK
  <2> QED BY <2>1 DEF Grip, Locked
<1> QED BY <1>1, <1>2, CommitGrip, UndoGrip, RepairGrip DEF Run, Gc

-----------------------------------------------------------------------------
(* Who writes which record, and when gc condemns a transaction. *)

\* The states an operation records, by label.
Concludes(p, s) ==
  \/ /\ Kind[p] = "commit"
     /\ \/ pc[p] = "audit" /\ s = "committed"
        \/ pc[p] = "rbpersist" /\ s = IF clean[p] THEN "rolled-back"
                                                  ELSE "partial-commit"
        \/ pc[p] = "unwindpersist" /\ s = UnwoundState(p)
  \/ /\ Kind[p] = "undo"
     /\ \/ pc[p] = "urecord" /\ s = "undone"
        \/ pc[p] = "upartial" /\ s = "partial-commit"
  \/ Kind[p] = "repair" /\ pc[p] = "rrecord" /\ s = "rolled-back"

Recorded(p) ==
  \/ record' = record
  \/ \E s : /\ Concludes(p, s)
            /\ record' = [record EXCEPT ![Target[p]] = s]
            /\ UNCHANGED <<content, before, renamed>>
  \/ \E t \in Txn : /\ Kind[p] = "gc" /\ pc[p] = "gremove"
                    /\ record' = [record EXCEPT ![t] = "none"]

LEMMA ConcludeRecorded ==
  ASSUME NEW p \in Proc, NEW l, NEW s, NEW to, NEW b, Conclude(p, l, s, to, b),
         pc[p] = l => Concludes(p, s)
  PROVE  Recorded(p)
  BY DEF Conclude, PersistRecord, PersistFails, Recorded

LEMMA StepRecorded ==
  ASSUME TypeOK, NEW p \in Proc, Run(p) \/ Crash(p)
  PROVE  Recorded(p)
<1>1. CASE Commit(p)
  <2>0. Kind[p] = "commit"
    BY <1>1 DEF Commit
  <2>1. CASE Snapshot(p) \/ Prepare(p) \/ Precheck(p) \/ Acquire(p)
             \/ Recheck(p) \/ Gate(p) \/ FinalGate(p) \/ StartRenames(p)
             \/ StageBefore(p) \/ StageAfter(p) \/ RetainBefore(p)
             \/ RenameOver(p)
    BY <2>1 DEF Snapshot, Prepare, Precheck, Acquire, Recheck, Gate, FinalGate,
       StartRenames, StageBefore, StageAfter, RetainBefore, RenameOver,
       CheckFile, Advance, TakeLock, Recorded
  <2>2. CASE SyncRenames(p) \/ VerifyOutputs(p) \/ Validate(p) \/ Reverify(p)
             \/ Rollback(p) \/ Unwind(p) \/ SyncRollback(p) \/ SyncUnwind(p)
             \/ VerifyRollback(p) \/ Catch(p) \/ Cleanup(p) \/ Finish(p)
             \/ Abort(p) \/ ReleaseLock(p)
    BY <2>2 DEF SyncRenames, VerifyOutputs, Validate, Reverify, Rollback, Unwind,
       SyncRollback, SyncUnwind, VerifyRollback, Catch, Cleanup, Finish, Abort,
       ReleaseLock, CheckFile, Advance, Sync, RestoreLast, UnlinkSibling, Throw,
       Recorded
  <2>3. CASE Audit(p)
    BY <2>0, <2>3 DEF Audit, PersistRecord, PersistFails, Recorded, Concludes
  <2>4. CASE RecordRollback(p) \/ RecordUnwind(p)
    BY <2>0, <2>4, ConcludeRecorded DEF RecordRollback, RecordUnwind, Concludes
  <2> QED BY <1>1, <2>1, <2>2, <2>3, <2>4 DEF Commit
<1>2. CASE Undo(p)
  <2>0. Kind[p] = "undo"
    BY <1>2 DEF Undo
  <2>1. CASE RecordUndone(p) \/ RecordPartial(p)
    BY <2>0, <2>1, ConcludeRecorded DEF RecordUndone, RecordPartial, Concludes
  <2>2. CASE ~(RecordUndone(p) \/ RecordPartial(p))
    BY <1>2, <2>2 DEF Undo, LoadCommitted, Preview, AcquireUndo, ReadImages,
       StageRestore, UndoGate, RestoreFile, SyncRestore, VerifyRestore,
       CatchUndo, RollForward, JudgeUnwind, CleanUndo, ReleaseLock,
       UndoableFile, Advance, TakeLock, CheckFile, Sync, RestoreLast,
       UnlinkSibling, Throw, Recorded
  <2> QED BY <2>1, <2>2
<1>3. CASE Repair(p)
  <2>0. Kind[p] = "repair"
    BY <1>3 DEF Repair
  <2>1. CASE RecordRepaired(p)
    <3>1. CASE Advance(p, "rcheck", "rrecord", {})
      BY <3>1 DEF Advance, Recorded
    <3>2. CASE Conclude(p, "rrecord", "rolled-back", "release", "release")
      BY <2>0, <3>2, ConcludeRecorded DEF Concludes
    <3> QED BY <2>1, <3>1, <3>2 DEF RecordRepaired
  <2>2. CASE ~RecordRepaired(p)
    BY <1>3, <2>2 DEF Repair, LoadPartial, Classify, AcquireRepair,
       RecheckChosen, StageImage, RenameImage, SyncImage, VerifyImage,
       ReleaseLock, Advance, TakeLock, Recorded
  <2> QED BY <2>1, <2>2
<1>4. CASE Crash(p)
  BY <1>4 DEF Crash, Recorded
<1>5. CASE Gc(p)
  <2>1. CASE RemoveRecord(p)
    <3>1. /\ pc[p] = "gremove"
          /\ record' = record
             \/ \E t \in prune[p] \cap pruned : record' = [record EXCEPT ![t] = "none"]
      BY <2>1 DEF RemoveRecord
    <3>2. prune[p] \cap pruned \subseteq Txn
      BY DEF TypeOK
    <3> QED BY <1>5, <3>1, <3>2 DEF Gc, Recorded
  <2>2. CASE ~RemoveRecord(p)
    BY <1>5, <2>2 DEF Gc, ListRecords, ScanRecord, FinishScan, AcquireGc,
       FinishPrune, TakeLock, PruneImages, ReleaseLock, Recorded
  <2> QED BY <2>1, <2>2
<1> QED BY <1>1, <1>2, <1>3, <1>4, <1>5 DEF Run

\* gc has removed the before images of t, or is about to.
Doomed(t) == t \in pruned \/ \E q \in Proc : t \in prune[q]

\* Only a scan condemns a transaction, for what its record then says.
LEMMA Condemned ==
  ASSUME TypeOK, NEW p \in Proc, Run(p) \/ Crash(p), NEW t \in Txn,
         Doomed(t)', ~Doomed(t)
  PROVE  MayPrune(t) /\ record' = record
<1> USE DEF Doomed
<1>1. CASE Commit(p)
  BY <1>1 DEF Commit, Snapshot, Prepare, Precheck, Acquire, Recheck, Gate,
     StageBefore, StageAfter, RetainBefore, FinalGate, StartRenames, RenameOver,
     SyncRenames, VerifyOutputs, Validate, Reverify, Audit, Rollback,
     SyncRollback, VerifyRollback, RecordRollback, Cleanup, Catch, Unwind,
     SyncUnwind, RecordUnwind, Finish, Abort, ReleaseLock, CheckFile, Advance,
     TakeLock, Conclude, RestoreLast, Sync, UnlinkSibling, Throw
<1>2. CASE Undo(p)
  BY <1>2 DEF Undo, LoadCommitted, Preview, AcquireUndo, ReadImages, StageRestore,
     UndoGate, RestoreFile, SyncRestore, VerifyRestore, RecordUndone, CatchUndo,
     RollForward, JudgeUnwind, RecordPartial, CleanUndo, ReleaseLock, CheckFile,
     UndoableFile, Advance, TakeLock, Conclude, RestoreLast, Sync, UnlinkSibling,
     Throw
<1>3. CASE Repair(p) \/ Crash(p)
  BY <1>3 DEF Repair, LoadPartial, Classify, AcquireRepair, RecheckChosen,
     StageImage, RenameImage, SyncImage, VerifyImage, RecordRepaired, ReleaseLock,
     Advance, TakeLock, Conclude, Crash
<1>4. CASE Gc(p)
  <2>1. CASE ScanRecord(p)
    <3>1. PICK u \in scan[p] : prune' = prune \/ (MayPrune(u) /\
                 prune' = [prune EXCEPT ![p] = @ \cup {u}])
      BY <2>1 DEF ScanRecord
    <3>2. record' = record /\ pruned' = pruned
      BY <2>1 DEF ScanRecord
    <3> QED BY <3>1, <3>2 DEF TypeOK
  <2>2. CASE PruneImages(p) \/ RemoveRecord(p)
    <3>1. PICK u \in prune[p] :
            /\ prune' = prune \/ prune' = [prune EXCEPT ![p] = @ \ {u}]
            /\ pruned' \in {pruned, pruned \cup {u}}
      BY <2>2 DEF PruneImages, RemoveRecord
    <3>2. \A q \in Proc : prune'[q] \subseteq prune[q]
      BY <3>1 DEF TypeOK
    <3> QED BY <3>1, <3>2
  <2>3. CASE ListRecords(p) \/ FinishScan(p) \/ AcquireGc(p) \/ FinishPrune(p)
             \/ ReleaseLock(p)
    BY <2>3 DEF ListRecords, FinishScan, AcquireGc, FinishPrune, ReleaseLock,
       TakeLock
  <2> QED BY <1>4, <2>1, <2>2, <2>3 DEF Gc
<1> QED BY <1>1, <1>2, <1>3, <1>4 DEF Run

-----------------------------------------------------------------------------
(* Before its audit record a commit is the only one to know its transaction. *)

Idle == {"uload", "rload", "done", "crashed"}
Early == {"snapshot", "prepare", "precheck", "lock", "recheck", "gate", "stage",
          "finalgate", "rename", "verify", "reverify", "mismatch", "audit"}

LEMMA EarlyOnce ==
  ASSUME TypeOK, NEW p \in Proc, Commit(p) \/ Crash(p), pc'[p] \in Early
  PROVE  pc[p] \in Early /\ record' = record
<1> USE DEF Enter, Early
<1>1. CASE Snapshot(p) \/ Prepare(p) \/ Precheck(p) \/ Acquire(p)
           \/ Recheck(p) \/ Gate(p) \/ FinalGate(p) \/ StartRenames(p)
  BY <1>1 DEF Snapshot, Prepare, Precheck, Acquire, Recheck, Gate, FinalGate,
     StartRenames, CheckFile, Advance, TakeLock, Finished, TypeOK
<1>2. CASE StageBefore(p) \/ StageAfter(p) \/ RetainBefore(p) \/ RenameOver(p)
  BY <1>2 DEF StageBefore, StageAfter, RetainBefore, RenameOver, TypeOK
<1>3. CASE SyncRenames(p) \/ VerifyOutputs(p) \/ Validate(p) \/ Reverify(p)
           \/ Audit(p)
  BY <1>3 DEF SyncRenames, VerifyOutputs, Validate, Reverify, Audit, Sync,
     CheckFile, Advance, Finished, TypeOK
<1>4. CASE Rollback(p) \/ Unwind(p) \/ SyncRollback(p) \/ SyncUnwind(p)
           \/ VerifyRollback(p) \/ Catch(p)
  BY <1>4 DEF Rollback, Unwind, SyncRollback, SyncUnwind, VerifyRollback,
     Catch, RestoreLast, Sync, CheckFile, Advance, TypeOK
<1>5. CASE RecordRollback(p) \/ RecordUnwind(p) \/ Cleanup(p) \/ Finish(p)
            \/ Abort(p) \/ ReleaseLock(p) \/ Crash(p)
  BY <1>5 DEF RecordRollback, RecordUnwind, Cleanup, Finish, Abort, Crash,
     ReleaseLock, Conclude, UnlinkSibling, Throw, Advance, TypeOK
<1> QED BY <1>1, <1>2, <1>3, <1>4, <1>5 DEF Commit

Sole(p) == Kind[p] = "commit" /\ pc[p] \in Early =>
  /\ record[Target[p]] = "none"
  /\ ~Doomed(Target[p])
  /\ \A q \in Proc : Kind[q] \in {"undo", "repair"} /\ Target[q] = Target[p]
         => pc[q] \in Idle

LEMMA SoleStep ==
  ASSUME TypeOK, NEW p \in Proc, Sole(p), [Next]_vars
  PROVE  Sole(p)'
<1>0. Target[p] \in Txn
  BY LocalTypes
<1>1. CASE UNCHANGED vars \/ ForeignEdit
  BY <1>1 DEF Sole, Doomed, vars, ForeignEdit
<1>2. ASSUME NEW q \in Proc, Run(q) \/ Crash(q), Kind[p] = "commit",
             pc'[p] \in Early
      PROVE  /\ record'[Target[p]] = "none"
             /\ ~Doomed(Target[p])'
             /\ \A r \in Proc :
                    Kind[r] \in {"undo", "repair"} /\ Target[r] = Target[p]
                      => pc'[r] \in Idle
  <2>1. pc[p] \in Early
    BY <1>2, EarlyOnce, Others DEF Same, Run, Undo, Repair, Gc
  <2>2. /\ record[Target[p]] = "none" /\ ~Doomed(Target[p])
        /\ \A r \in Proc :
               Kind[r] \in {"undo", "repair"} /\ Target[r] = Target[p]
                 => pc[r] \in Idle
    BY <1>2, <2>1 DEF Sole
  <2>3. ~Doomed(Target[p])'
    BY <1>0, <1>2, <2>2, Condemned DEF MayPrune, PrunableStates
  <2>4. \A r \in Proc :
            Kind[r] \in {"undo", "repair"} /\ Target[r] = Target[p]
              => pc'[r] \in Idle
    BY <1>2, <2>2, NothingToUndo, Others DEF Same, Idle
  <2>5. record'[Target[p]] = "none"
    <3>1. CASE q = p
      BY <1>2, <2>2, <3>1, EarlyOnce DEF Run, Undo, Repair, Gc
    <3>2. CASE q # p
      <4>1. Recorded(q)
        BY <1>2, StepRecorded
      <4>2. ASSUME NEW s, Concludes(q, s), Target[q] = Target[p]
            PROVE  FALSE
        <5>1. Kind[q] # "commit"
          BY <1>2, <3>2, <4>2, RepositoryConstants
        <5> QED BY <2>2, <4>2, <5>1 DEF Concludes, Idle
      <4> QED BY <1>0, <2>2, <4>1, <4>2, LocalTypes DEF Recorded, TypeOK
    <3> QED BY <3>1, <3>2
  <2> QED BY <2>3, <2>4, <2>5
<1> QED BY <1>1, <1>2 DEF Next, Sole

\* While a transaction is being planned there is no trace of its output.
Unseen(p) == Kind[p] = "commit" /\ pc[p] = "snapshot" =>
  /\ NoTrace(Target[p])
  /\ \A f \in todo[p] : before[Target[p]][f] = Original

LEMMA UnseenStep ==
  ASSUME TypeOK, NEW p \in Proc, Sole(p), Unseen(p), [Next]_vars
  PROVE  Unseen(p)'
<1>0. Target[p] \in Txn /\ todo[p] \subseteq File
  BY LocalTypes
<1>1. CASE UNCHANGED vars
  BY <1>1 DEF Unseen, NoTrace, vars
<1>2. CASE ForeignEdit
  <2>1. \A f \in File : content'[f] = content[f] \/ content'[f] \in Foreign
    BY <1>2 DEF ForeignEdit, TypeOK
  <2> QED BY <1>0, <1>2, <2>1, RepositoryConstants
          DEF ForeignEdit, Unseen, NoTrace
<1>3. ASSUME NEW q \in Proc, Run(q) \/ Crash(q), Kind[p] = "commit",
             pc'[p] = "snapshot"
      PROVE  /\ NoTrace(Target[p])'
             /\ \A f \in todo'[p] : before'[Target[p]][f] = Original
  <2>1. pc[p] = "snapshot"
    BY <1>3, SnapshotOnce, Others DEF Same
  <2>2. /\ NoTrace(Target[p])
        /\ \A f \in todo[p] : before[Target[p]][f] = Original
        /\ \A r \in Proc :
               Kind[r] \in {"undo", "repair"} /\ Target[r] = Target[p]
                 => pc[r] \in Idle
    BY <1>3, <2>1 DEF Unseen, Sole, Early
  <2>3. Writes(q) /\ Plans(q)
    BY <1>3, StepEffect DEF Effect
  <2>4. content' = content \/ Target[q] # Target[p]
    <3>1. pc[q] \notin Idle \cup {"snapshot"} => Target[q] # Target[p] \/ Kind[q] = "gc"
      BY <1>3, <2>1, <2>2, RepositoryConstants
    <3>2. content' # content => Kind[q] # "gc"
      BY <1>3 DEF Run, Gc, ListRecords, ScanRecord, FinishScan, AcquireGc,
         TakeLock, PruneImages, RemoveRecord, FinishPrune, ReleaseLock, Commit,
         Undo, Repair, Crash
    <3> QED BY <2>3, <3>1, <3>2 DEF Writes, Idle
  <2>5. \A f \in File : content'[f] # Target[p]
    <3>1. CASE content' = content
      BY <2>2, <3>1 DEF NoTrace
    <3>2. CASE content' # content
      <4>1. PICK f \in todo[q] :
              \E c \in {Target[q], before[Target[q]][f]} :
                content' = [content EXCEPT ![f] = c]
        BY <2>3, <3>2 DEF Writes
      <4>2. f \in File /\ Target[q] \in Txn
        BY LocalTypes
      <4>3. \A c \in {Target[q], before[Target[q]][f]} : c # Target[p]
        BY <2>2, <2>4, <3>2, <4>2 DEF NoTrace
      <4> QED BY <2>2, <4>1, <4>3 DEF NoTrace, TypeOK
    <3> QED BY <3>1, <3>2
  <2>6. \A u \in Txn, f \in File : before'[u][f] # Target[p]
    <3>1. CASE before' = before
      BY <2>2, <3>1 DEF NoTrace
    <3>2. ASSUME NEW g \in File,
                 before' = [before EXCEPT ![Target[q]][g] = content[g]]
          PROVE  \A u \in Txn, f \in File : before'[u][f] # Target[p]
      BY <2>2, <3>2 DEF NoTrace, TypeOK
    <3> QED BY <2>3, <3>1, <3>2 DEF Plans
  <2>7. \A f \in todo'[p] : before'[Target[p]][f] = Original
    <3>1. CASE q = p
      <4>1. Snapshot(p)
        BY <1>3, <2>1, <3>1 DEF Run, Crash, Enter, TypeOK, Commit, Undo, Repair,
           Gc, Prepare, Precheck, Acquire, Recheck, Gate, StageBefore,
           StageAfter, RetainBefore, FinalGate, StartRenames, RenameOver,
           SyncRenames, VerifyOutputs, Validate, Reverify, Audit, Rollback,
           SyncRollback, VerifyRollback, RecordRollback, Cleanup, Catch, Unwind,
           SyncUnwind, RecordUnwind, Finish, Abort, ReleaseLock, CheckFile,
           Advance, Finished, TakeLock, Conclude, RestoreLast, Sync,
           UnlinkSibling, Throw
      <4> QED BY <1>0, <1>3, <2>2, <4>1 DEF Snapshot, Enter, TypeOK
    <3>2. CASE q # p
      <4>1. todo'[p] = todo[p]
        BY <1>3, <3>2, Others DEF Same
      <4>2. before'[Target[p]] = before[Target[p]]
        BY <1>0, <1>3, <2>3, <3>2, RepositoryConstants DEF Plans, TypeOK
      <4> QED BY <2>2, <4>1, <4>2
    <3> QED BY <3>1, <3>2
  <2> QED BY <2>5, <2>6, <2>7 DEF NoTrace
<1> QED BY <1>1, <1>2, <1>3 DEF Next, Unseen

-----------------------------------------------------------------------------
(* A file that is in a state no operation on another transaction can end.    *)

\* File f holds one of the contents M, and whoever is about to write it would
\* restore one of M.
Settled(M, t, f) ==
  /\ content[f] \in M
  /\ \A p \in Proc : Target[p] # t /\ f \in Grip(p) =>
       before[Target[p]][f] \in M

\* M holds an output if and only if it holds what the output was planned on.
Even(M, t, f) ==
  /\ Foreign \subseteq M
  /\ \A u \in Txn \ {t} : u \in M <=> before[u][f] \in M

Acts(p) == Kind[p] # "gc" /\ (Run(p) \/ Crash(p))

LEMMA GcWritesNothing ==
  ASSUME NEW p \in Proc, Run(p) \/ Crash(p), Kind[p] = "gc"
  PROVE  content' = content /\ before' = before
  BY DEF Run, Gc, ListRecords, ScanRecord, FinishScan, AcquireGc, TakeLock,
     PruneImages, RemoveRecord, FinishPrune, ReleaseLock, Commit, Undo, Repair,
     Crash

LEMMA WriteInGrip ==
  ASSUME TypeOK, GateInv, NEW p \in Proc, Acts(p), NEW f \in File,
         content'[f] # content[f]
  PROVE  /\ f \in Grip(p)
         /\ \/ content'[f] = Target[p] /\ pc[p] \in {"rename", "uunwind"}
            \/ content'[f] = before[Target[p]][f]
<1>1. Writes(p)
  BY StepEffect DEF Effect, Acts
<1>2. PICK g \in todo[p] :
        \/ /\ pc[p] \in {"rename", "uunwind"}
           /\ content' = [content EXCEPT ![g] = Target[p]]
        \/ /\ pc[p] \in {"rollback", "unwind", "urename", "rrename"}
           /\ pc[p] = "rrename" => First(todo[p], g)
           /\ content' = [content EXCEPT ![g] = before[Target[p]][g]]
  BY <1>1 DEF Writes
<1>3. g = f
  BY <1>2 DEF TypeOK
<1> QED BY <1>2, <1>3 DEF Grip, Acts, TypeOK

LEMMA PlanningIsUnlocked ==
  ASSUME TypeOK, NEW p \in Proc, Run(p) \/ Crash(p), pc[p] = "snapshot"
  PROVE  pc'[p] \notin Locked
<1>1. Snapshot(p) \/ Advance(p, "snapshot", "prepare", Inputs[Target[p]]) \/ Crash(p)
  BY DEF Run, Commit, Undo, Repair, Gc, Prepare, Precheck, Acquire,
     Recheck, Gate, StageBefore, StageAfter, RetainBefore, FinalGate,
     StartRenames, RenameOver, SyncRenames, VerifyOutputs, Validate, Reverify,
     Audit, Rollback, SyncRollback, VerifyRollback, RecordRollback, Cleanup,
     Catch, Unwind, SyncUnwind, RecordUnwind, Finish, Abort, ReleaseLock,
     LoadCommitted, Preview, AcquireUndo, ReadImages, StageRestore, UndoGate,
     RestoreFile, SyncRestore, VerifyRestore, RecordUndone, CatchUndo,
     RollForward, JudgeUnwind, RecordPartial, CleanUndo, LoadPartial, Classify,
     AcquireRepair, RecheckChosen, StageImage, RenameImage, SyncImage,
     VerifyImage, RecordRepaired, ListRecords, ScanRecord, FinishScan, AcquireGc,
     PruneImages, RemoveRecord, FinishPrune, CheckFile, UndoableFile, Advance,
     Finished, TakeLock, Conclude, RestoreLast, Sync, UnlinkSibling, Throw
<1>2. pc'[p] \in {"snapshot", "prepare", "done", "crashed"}
  BY <1>1 DEF Snapshot, Advance, Crash, Enter, TypeOK
<1> QED BY <1>2 DEF Locked

LEMMA Settles ==
  ASSUME TypeOK, GateInv, \A q \in Proc : Sole(q), [Next]_vars,
         NEW t \in Txn, NEW f \in File, NEW M, Settled(M, t, f), Even(M, t, f),
         \A p \in Proc : Acts(p) /\ Target[p] = t => content'[f] \in M
  PROVE  /\ content'[f] \in M
         /\ \A p \in Proc : Target[p] # t /\ f \in Grip(p)' =>
              before'[Target[p]][f] \in M
<1>1. CASE UNCHANGED vars
  BY <1>1 DEF vars, Settled, Grip
<1>2. CASE ForeignEdit
  <2>1. content'[f] = content[f] \/ content'[f] \in Foreign
    BY <1>2 DEF ForeignEdit, TypeOK
  <2>2. UNCHANGED <<before, pc, todo, renamed>>
    BY <1>2 DEF ForeignEdit
  <2> QED BY <2>1, <2>2 DEF Settled, Even, Grip
<1>3. ASSUME NEW p \in Proc, Run(p) \/ Crash(p)
      PROVE  /\ content'[f] \in M
             /\ \A q \in Proc : Target[q] # t /\ f \in Grip(q)' =>
                  before'[Target[q]][f] \in M
  <2>0. Writes(p) /\ Plans(p) /\ Target[p] \in Txn
    BY <1>3, StepEffect, LocalTypes DEF Effect
  <2>1. content'[f] \in M
    <3>1. CASE content'[f] = content[f]
      BY <3>1 DEF Settled
    <3>2. CASE content'[f] # content[f]
      <4>1. Acts(p)
        BY <1>3, <3>2, GcWritesNothing DEF Acts
      <4>2. CASE Target[p] = t
        BY <4>1, <4>2
      <4>3. CASE Target[p] # t
        <5>1. /\ f \in Grip(p)
              /\ content'[f] \in {Target[p], before[Target[p]][f]}
          BY <3>2, <4>1, WriteInGrip
        <5>2. before[Target[p]][f] \in M
          BY <4>3, <5>1 DEF Settled
        <5> QED BY <2>0, <4>3, <5>1, <5>2 DEF Even
      <4> QED BY <4>2, <4>3
    <3> QED BY <3>1, <3>2
  <2>2. ASSUME NEW q \in Proc, Target[q] # t, f \in Grip(q)'
        PROVE  before'[Target[q]][f] \in M
    <3>1. before'[Target[q]] = before[Target[q]]
      <4>1. CASE pc[p] = "snapshot" /\ Kind[p] = "commit"
        <5>1. CASE q = p
          <6>1. pc'[p] \in Locked
            BY <2>2, <5>1 DEF Grip, Locked
          <6> QED BY <1>3, <4>1, <6>1, <2>2, PlanningIsUnlocked
        <5>2. CASE q # p
          <6>1. pc[q] \in Locked /\ Kind[q] # "gc"
            BY <1>3, <2>2, <5>2, Others DEF Same, Grip, Locked
          <6>2. Target[q] # Target[p]
            <7>1. Kind[q] \in {"commit", "undo", "repair"} /\ pc[q] \notin Idle
              BY <6>1, RepositoryConstants DEF Locked, Idle
            <7> QED BY <4>1, <5>2, <7>1, RepositoryConstants DEF Sole, Early
          <6> QED BY <2>0, <6>2, LocalTypes DEF Plans, TypeOK
        <5> QED BY <5>1, <5>2
      <4> QED BY <2>0, <4>1 DEF Plans
    <3>2. CASE f \in Grip(q)
      BY <2>2, <3>1, <3>2 DEF Settled
    <3>3. CASE f \notin Grip(q)
      <4>1. q = p
        BY <1>3, <2>2, <3>3, Others DEF Same, Grip
      <4>2. content[f] \in {Target[p], before[Target[p]][f]}
        BY <1>3, <2>2, <3>3, <4>1, GripGrows DEF Seen
      <4> QED BY <2>0, <2>2, <3>1, <4>1, <4>2 DEF Settled, Even
    <3> QED BY <3>2, <3>3
  <2> QED BY <2>1, <2>2
<1> QED BY <1>1, <1>2, <1>3 DEF Next

\* A step changes the descent of no content that a file or a plan holds.
LEMMA StemsStep ==
  ASSUME TypeOK, \A q \in Proc : Unseen(q), [Next]_vars, NEW B, NEW f \in File,
         NEW c \in Content,
         c = content'[f] \/ \E w \in Txn : before'[w][f] = c
  PROVE  c \in Stems(B, f)' <=> c \in Stems(B, f)
<1>1. CASE before' = before
  BY <1>1 DEF Stems
<1>2. CASE before' # before
  <2>1. PICK p \in Proc : Run(p) \/ Crash(p)
    BY <1>2 DEF Next, ForeignEdit, vars
  <2>2. Writes(p) /\ Plans(p) /\ Target[p] \in Txn
    BY <2>1, StepEffect, LocalTypes DEF Effect
  <2>3. PICK g \in File :
          before' = [before EXCEPT ![Target[p]][g] = content[g]]
    BY <1>2, <2>2 DEF Plans
  <2>4. pc[p] = "snapshot" /\ NoTrace(Target[p])
    BY <1>2, <2>2 DEF Plans, Unseen
  <2>5. content' = content
    BY <2>2, <2>4 DEF Writes
  <2>6. c # Target[p]
    BY <2>3, <2>4, <2>5 DEF NoTrace, TypeOK
  <2> QED BY <2>2, <2>3, <2>4, <2>6, StemsStay
<1> QED BY <1>1, <1>2

-----------------------------------------------------------------------------
(* Files the output of a transaction has left for good. *)

\* File f holds nothing that stems from the output of t, and nobody is about
\* to put such a thing back.
Apart(t, f) == Settled(Content \ Stems({t}, f), t, f)

LEMMA ApartEven ==
  ASSUME TypeOK, NEW t \in Txn, NEW f \in File
  PROVE  Even(Content \ Stems({t}, f), t, f)
<1>1. Foreign \subseteq Content \ Stems({t}, f)
  BY StemsOnly, RepositoryConstants DEF Content
<1>2. ASSUME NEW u \in Txn \ {t}
      PROVE  u \in Content \ Stems({t}, f)
               <=> before[u][f] \in Content \ Stems({t}, f)
  <2>1. u \in Content /\ before[u][f] \in Content
    BY DEF TypeOK, Content
  <2>2. u \in Stems({t}, f) <=> before[u][f] \in Stems({t}, f)
    BY StemsUp, StemsDown
  <2> QED BY <2>1, <2>2
<1> QED BY <1>1, <1>2 DEF Even

\* No transaction was planned on what stems from its own output.
Rooted == \A t \in Txn, f \in File : before[t][f] \notin Stems({t}, f)

LEMMA RootedStep ==
  ASSUME TypeOK, TypeOK', \A q \in Proc : Unseen(q), Rooted, [Next]_vars
  PROVE  Rooted'
<1> SUFFICES ASSUME NEW t \in Txn, NEW f \in File
             PROVE  before'[t][f] \notin Stems({t}, f)'
  BY DEF Rooted
<1>1. before'[t][f] \in Stems({t}, f)' <=> before'[t][f] \in Stems({t}, f)
  <2>1. before'[t][f] \in Content
    BY DEF TypeOK
  <2> QED BY <2>1, StemsStep
<1>2. CASE before'[t][f] = before[t][f]
  BY <1>1, <1>2 DEF Rooted
<1>3. CASE before'[t][f] # before[t][f]
  <2>1. PICK p \in Proc : Run(p) \/ Crash(p)
    BY <1>3 DEF Next, ForeignEdit, vars
  <2>2. Plans(p)
    BY <2>1, StepEffect DEF Effect
  <2>3. PICK g \in File :
          before' = [before EXCEPT ![Target[p]][g] = content[g]]
    BY <1>3, <2>2 DEF Plans
  <2>4. Target[p] = t /\ g = f
    BY <1>3, <2>3 DEF TypeOK
  <2>5. NoTrace(t)
    BY <1>3, <2>2, <2>4 DEF Plans, Unseen
  <2>6. Stems({t}, f) \subseteq {t}
    <3>1. {t} \in SUBSET Content /\ \A u \in Txn : before[u][f] \in {t} => u \in {t}
      BY <2>5 DEF NoTrace, Content
    <3> QED BY <3>1 DEF Stems
  <2>7. before'[t][f] = content[f] /\ content[f] # t
    BY <2>3, <2>4, <2>5 DEF NoTrace, TypeOK
  <2> QED BY <1>1, <2>6, <2>7
<1> QED BY <1>2, <1>3

LEMMA ApartStep ==
  ASSUME TypeOK, TypeOK', GateInv, \A q \in Proc : Sole(q) /\ Unseen(q), Rooted,
         [Next]_vars, NEW t \in Txn, NEW f \in File, Apart(t, f),
         \A p \in Proc : Acts(p) /\ Target[p] = t =>
           content'[f] \in {content[f], before[t][f]}
  PROVE  Apart(t, f)'
<1> DEFINE M == Content \ Stems({t}, f)
<1>1. Even(M, t, f) /\ Settled(M, t, f)
  BY ApartEven DEF Apart
<1>2. \A p \in Proc : Acts(p) /\ Target[p] = t => content'[f] \in M
  <2>1. before[t][f] \in M /\ content[f] \in M
    BY <1>1 DEF Rooted, TypeOK, Settled
  <2> QED BY <2>1
<1> HIDE DEF M
<1>3. /\ content'[f] \in M
      /\ \A p \in Proc : Target[p] # t /\ f \in Grip(p)' =>
           before'[Target[p]][f] \in M
  BY <1>1, <1>2, Settles
<1>4. content'[f] \in Content \ Stems({t}, f)'
  BY <1>3, StemsStep DEF M, TypeOK
<1>5. ASSUME NEW p \in Proc, Target[p] # t, f \in Grip(p)'
      PROVE  before'[Target[p]][f] \in Content \ Stems({t}, f)'
  <2>1. before'[Target[p]][f] \in Content /\ Target[p] \in Txn
    BY LocalTypes DEF TypeOK
  <2> QED BY <1>3, <1>5, <2>1, StemsStep DEF M
<1> QED BY <1>4, <1>5 DEF Apart, Settled

\* A file that does not hold the output of p's transaction: what the plan was
\* made from is back, or someone edited it.
Clear(p, f) == content[f] = before[Target[p]][f] \/ content[f] \in Foreign

LEMMA ClearApart ==
  ASSUME TypeOK, GateInv, Rooted, NEW p \in Proc, pc[p] \in Locked,
         NEW f \in File, Clear(p, f)
  PROVE  Apart(Target[p], f)
<1>0. Target[p] \in Txn
  BY LocalTypes
<1>1. content[f] \in Content \ Stems({Target[p]}, f)
  <2>1. content[f] \in Content
    BY DEF TypeOK
  <2>2. content[f] \in Foreign => content[f] \notin Stems({Target[p]}, f)
    BY <1>0, StemsOnly, RepositoryConstants DEF Content
  <2> QED BY <1>0, <2>1, <2>2 DEF Clear, Rooted
<1>2. \A q \in Proc : Target[q] # Target[p] => f \notin Grip(q)
  BY GripNeedsLock, RepositoryConstants DEF GateInv, LockHeld
<1> QED BY <1>1, <1>2 DEF Apart, Settled

LEMMA ApartGone ==
  ASSUME NEW t \in Txn, NEW f \in File, Apart(t, f)
  PROVE  content[f] # t
<1>1. t \in Stems({t}, f)
  BY StemsBase DEF Content
<1> QED BY <1>1 DEF Apart, Settled

LEMMA ClearKept ==
  ASSUME TypeOK, NEW p \in Proc, Acts(p), NEW f \in File, Clear(p, f),
         pc[p] # "snapshot", pc[p] \notin {"rename", "uunwind"}
  PROVE  Clear(p, f)'
<1>1. Writes(p) /\ Plans(p)
  BY StepEffect DEF Effect, Acts
<1>2. before' = before
  BY <1>1 DEF Plans
<1>3. content'[f] \in {content[f], before[Target[p]][f]}
  BY <1>1 DEF Writes, TypeOK
<1> QED BY <1>2, <1>3 DEF Clear

LEMMA ClearAmongOthers ==
  ASSUME TypeOK, GateInv, NEW p \in Proc, Sole(p), pc[p] \in Locked,
         Kind[p] # "gc", NEW f \in File, Clear(p, f),
         \/ ForeignEdit
         \/ \E q \in Proc : q # p /\ (Run(q) \/ Crash(q))
  PROVE  Clear(p, f)'
<1>1. CASE ForeignEdit
  BY <1>1 DEF ForeignEdit, Clear, TypeOK
<1>2. ASSUME NEW q \in Proc, q # p, Run(q) \/ Crash(q)
      PROVE  Clear(p, f)'
  <2>1. Writes(q) /\ Plans(q) /\ Target[p] \in Txn /\ Target[q] \in Txn
    BY <1>2, StepEffect, LocalTypes DEF Effect
  <2>2. pc[q] \notin Locked
    BY <1>2, RepositoryConstants DEF GateInv, LockHeld
  <2>3. content' = content
    BY <2>1, <2>2 DEF Writes, Locked
  <2>4. before'[Target[p]] = before[Target[p]]
    <3>1. CASE before' = before
      BY <3>1
    <3>2. CASE pc[q] = "snapshot" /\ Kind[q] = "commit"
      <4>1. Kind[p] \in {"commit", "undo", "repair"}
            /\ pc[p] \notin {"uload", "rload", "done", "crashed"}
        BY RepositoryConstants DEF Locked
      <4>2. Target[p] # Target[q]
        BY <1>2, <3>2, <4>1, RepositoryConstants DEF GateInv, PlannedFirst
      <4> QED BY <2>1, <4>2 DEF Plans, TypeOK
    <3> QED BY <2>1, <3>1, <3>2 DEF Plans
  <2> QED BY <2>3, <2>4 DEF Clear
<1> QED BY <1>1, <1>2

-----------------------------------------------------------------------------
(* What an operation has put back when it is about to record so. *)

AfterGate == {"rename", "verify", "reverify", "mismatch", "audit", "rollback",
              "rbverify", "rbdiffers", "rbpersist", "cleanup", "catch",
              "unwind", "unwindpersist"}
CommitClear(p) ==
  LET C == Changed[Target[p]] IN
  Kind[p] = "commit" =>
    /\ pc[p] = "finalgate" => \A f \in C \ todo[p] : Clear(p, f)
    /\ pc[p] \in AfterGate => \A f \in C \ renamed[p] : Clear(p, f)
    /\ pc[p] \in {"unwind", "rbverify"} /\ clean[p] =>
         \A f \in C \ todo[p] : Clear(p, f)
    /\ pc[p] \in {"unwindpersist", "rbpersist"} /\ clean[p] =>
         \A f \in C : Clear(p, f)
UndoClear(p) ==
  LET C == Changed[Target[p]] IN
  Kind[p] = "undo" =>
    /\ pc[p] = "uverify" => \A f \in C \ todo[p] : Clear(p, f)
    /\ pc[p] = "urecord" => \A f \in C : Clear(p, f)
Restoring == {"rcheck", "rstage", "rrename", "rsync", "rverify", "rrecord"}
RepairClear(p) ==
  Kind[p] = "repair" =>
    /\ pc[p] \in Restoring => \A f \in chosen[p] \ todo[p] : Clear(p, f)
    /\ pc[p] = "rrecord" => todo[p] = {}

LEMMA CommitClearStep ==
  ASSUME TypeOK, NEW p \in Proc, Commit(p), CommitClear(p)
  PROVE  CommitClear(p)'
<1> USE DEF CommitClear, Enter, Finished, AfterGate
<1>t. /\ Changed[Target[p]] \subseteq Inputs[Target[p]]
      /\ Inputs[Target[p]] \subseteq File
      /\ renamed[p] \subseteq File /\ todo[p] \subseteq File
  BY LocalTypes, RepositoryConstants
<1>k. Kind[p] = "commit"
  BY DEF Commit
<1>s. pc[p] \notin {"snapshot", "rename"} /\ Kind[p] = "commit" =>
        \A f \in File : Clear(p, f) => Clear(p, f)'
  <2>1. pc[p] # "uunwind"
    BY DEF Commit, Snapshot, Prepare, Precheck, Acquire, Recheck, Gate,
       StageBefore, StageAfter, RetainBefore, FinalGate, StartRenames,
       RenameOver, SyncRenames, VerifyOutputs, Validate, Reverify, Audit,
       Rollback, SyncRollback, VerifyRollback, RecordRollback, Cleanup, Catch,
       Unwind, SyncUnwind, RecordUnwind, Finish, Abort, ReleaseLock, CheckFile,
       Advance, TakeLock, Conclude, RestoreLast, Sync, UnlinkSibling, Throw
  <2> QED BY <2>1, ClearKept DEF Acts, Run
<1>1. CASE Snapshot(p) \/ Prepare(p) \/ Precheck(p)
  BY <1>1 DEF Snapshot, Prepare, Precheck, CheckFile, Advance, TypeOK
<1>2. CASE Acquire(p)
  BY <1>2 DEF Acquire, Advance, TakeLock, TypeOK
<1>3. CASE Recheck(p) \/ Gate(p)
  BY <1>3 DEF Recheck, Gate, CheckFile, Advance, TypeOK
<1>4. CASE StageBefore(p) \/ StageAfter(p) \/ RetainBefore(p)
  BY <1>4 DEF StageBefore, StageAfter, RetainBefore, TypeOK
<1>5. CASE FinalGate(p)
  <2>1. CASE Advance(p, "stage", "finalgate", Inputs[Target[p]])
    BY <1>t, <2>1 DEF Advance, TypeOK
  <2>2. CASE CheckFile(p, "finalgate", before[Target[p]], "abort")
    BY <1>k, <1>t, <2>2 DEF CheckFile, TypeOK, Clear
  <2> QED BY <1>5, <2>1, <2>2 DEF FinalGate
<1>6. CASE StartRenames(p)
  BY <1>k, <1>t, <1>6 DEF StartRenames, Advance, TypeOK, Clear
<1>7. CASE RenameOver(p)
  <2>1. PICK f \in todo[p] :
          \/ /\ content' = [content EXCEPT ![f] = Target[p]]
             /\ renamed' = [renamed EXCEPT ![p] = @ \cup {f}]
             /\ pc' = pc
          \/ Enter(p, "catch", {}) /\ renamed' = renamed /\ content' = content
    BY <1>7 DEF RenameOver, RenameSibling, RenameFails
  <2>2. pc[p] = "rename" /\ before' = before
    BY <1>7 DEF RenameOver
  <2>3. pc'[p] \in {"rename", "catch"}
    BY <2>1, <2>2 DEF TypeOK
  <2>4. \A g \in Changed[Target[p]] \ renamed'[p] : Clear(p, g)'
    BY <1>k, <1>t, <2>1, <2>2 DEF TypeOK, Clear
  <2> QED BY <2>3, <2>4
<1>8. CASE SyncRenames(p) \/ VerifyOutputs(p)
  <2>1. content' = content /\ before' = before /\ renamed' = renamed
        /\ pc[p] \in AfterGate /\ pc'[p] \in {"rename", "verify", "catch"}
    BY <1>8 DEF SyncRenames, VerifyOutputs, Sync, CheckFile, TypeOK
  <2> QED BY <1>k, <2>1 DEF Clear
<1>9. CASE Validate(p) \/ Reverify(p) \/ Audit(p)
  <2>1. content' = content /\ before' = before /\ renamed' = renamed
        /\ pc[p] \in AfterGate
        /\ pc'[p] \in {"reverify", "mismatch", "audit", "cleanup", "rollback",
                       "catch"}
    BY <1>9 DEF Validate, Reverify, Audit, CheckFile, Advance, TypeOK
  <2> QED BY <1>k, <2>1 DEF Clear
<1>10. CASE Rollback(p) \/ Unwind(p)
  <2>1. PICK f \in todo[p] :
          /\ todo' = [todo EXCEPT ![p] = @ \ {f}]
          /\ \/ content' = [content EXCEPT ![f] = before[Target[p]][f]]
                  /\ clean' = clean
             \/ clean' = [clean EXCEPT ![p] = FALSE]
    BY <1>10 DEF Rollback, Unwind, RestoreLast, RenameSibling, RenameFails
  <2>2. /\ pc[p] \in {"rollback", "unwind"} /\ pc' = pc /\ before' = before
        /\ renamed' = renamed
    BY <1>10 DEF Rollback, Unwind, RestoreLast
  <2>3. \A g \in File : Clear(p, g) => Clear(p, g)'
    BY <1>k, <1>s, <2>2
  <2>4. clean'[p] => clean[p] /\ Clear(p, f)'
    BY <1>t, <2>1, <2>2 DEF TypeOK, Clear
  <2>5. todo'[p] = todo[p] \ {f}
    BY <2>1 DEF TypeOK
  <2> QED BY <1>k, <1>t, <2>2, <2>3, <2>4, <2>5
<1>11. CASE SyncRollback(p) \/ SyncUnwind(p)
  BY <1>11, <1>k, <1>t, <1>s DEF SyncRollback, SyncUnwind, Sync, TypeOK
<1>12. CASE VerifyRollback(p)
  <2>1. CASE CheckFile(p, "rbverify", before[Target[p]], "rbdiffers")
    BY <2>1, <1>k, <1>t DEF CheckFile, TypeOK, Clear
  <2>2. CASE ~CheckFile(p, "rbverify", before[Target[p]], "rbdiffers")
    BY <1>12, <2>2, <1>k, <1>t, <1>s DEF VerifyRollback, Advance, TypeOK
  <2> QED BY <2>1, <2>2
<1>13. CASE Catch(p)
  BY <1>13, <1>k, <1>t, <1>s DEF Catch, TypeOK
<1>14. CASE RecordRollback(p) \/ RecordUnwind(p)
  BY <1>14, <1>k, <1>t, <1>s DEF RecordRollback, RecordUnwind, Conclude, TypeOK
<1>15. CASE Cleanup(p)
  BY <1>15, <1>k, <1>t, <1>s DEF Cleanup, UnlinkSibling, Advance, TypeOK
<1>16. CASE Finish(p) \/ Abort(p) \/ ReleaseLock(p)
  BY <1>16 DEF Finish, Abort, ReleaseLock, UnlinkSibling, Throw, Advance, TypeOK
<1> QED
  BY <1>1, <1>2, <1>3, <1>4, <1>5, <1>6, <1>7, <1>8, <1>9, <1>10, <1>11,
     <1>12, <1>13, <1>14, <1>15, <1>16 DEF Commit

LEMMA UndoClearStep ==
  ASSUME TypeOK, NEW p \in Proc, Undo(p), UndoClear(p)
  PROVE  UndoClear(p)'
<1> USE DEF UndoClear, Enter, Finished
<1>t. Changed[Target[p]] \subseteq File /\ todo[p] \subseteq File
  BY LocalTypes
<1>k. Kind[p] = "undo"
  BY DEF Undo
<1>1. CASE LoadCommitted(p) \/ Preview(p) \/ AcquireUndo(p) \/ ReadImages(p)
           \/ StageRestore(p) \/ UndoGate(p)
  BY <1>1 DEF LoadCommitted, Preview, AcquireUndo, ReadImages, StageRestore,
     UndoGate, UndoableFile, CheckFile, Advance, TakeLock, TypeOK
<1>2. CASE RestoreFile(p) \/ CatchUndo(p) \/ RollForward(p) \/ JudgeUnwind(p)
  BY <1>2 DEF RestoreFile, CatchUndo, RollForward, JudgeUnwind, RestoreLast,
     Advance, TypeOK
<1>3. CASE SyncRestore(p)
  BY <1>3, <1>t DEF SyncRestore, Sync, TypeOK
<1>4. CASE VerifyRestore(p)
  <2>1. CASE CheckFile(p, "uverify", before[Target[p]], "ucatch")
    BY <1>k, <1>t, <2>1 DEF CheckFile, TypeOK, Clear
  <2>2. CASE Advance(p, "uverify", "urecord", {})
    BY <1>k, <1>t, <2>2 DEF Advance, TypeOK, Clear
  <2> QED BY <1>4, <2>1, <2>2 DEF VerifyRestore
<1>5. CASE RecordUndone(p) \/ RecordPartial(p) \/ CleanUndo(p) \/ ReleaseLock(p)
  BY <1>5 DEF RecordUndone, RecordPartial, CleanUndo, ReleaseLock, Conclude,
     UnlinkSibling, Throw, Advance, TypeOK
<1> QED BY <1>1, <1>2, <1>3, <1>4, <1>5 DEF Undo

LEMMA RepairClearStep ==
  ASSUME TypeOK, NEW p \in Proc, Repair(p), RepairClear(p)
  PROVE  RepairClear(p)'
<1> USE DEF RepairClear, Enter, Finished, Restoring
<1>t. chosen[p] \subseteq File /\ todo[p] \subseteq File
  BY LocalTypes
<1>k. Kind[p] = "repair"
  BY DEF Repair
<1>s. \A f \in File : Clear(p, f) /\ pc[p] \in Restoring => Clear(p, f)'
  BY <1>k, ClearKept DEF Acts, Run
<1>1. CASE LoadPartial(p) \/ Classify(p)
  BY <1>1 DEF LoadPartial, Classify, Blocked, TypeOK
<1>2. CASE AcquireRepair(p)
  BY <1>2 DEF AcquireRepair, Advance, TakeLock, TypeOK
<1>3. CASE RecheckChosen(p) \/ StageImage(p) \/ RenameImage(p) \/ SyncImage(p)
  <2>1. /\ pc[p] \in Restoring \ {"rrecord"} /\ chosen' = chosen
        /\ pc'[p] = "release" \/ (todo' = todo /\ pc'[p] # "rrecord")
    BY <1>3 DEF RecheckChosen, StageImage, RenameImage, SyncImage, TypeOK
  <2> QED BY <1>k, <1>t, <1>s, <2>1
<1>4. CASE VerifyImage(p)
  <2>1. PICK f \in todo[p] :
          \/ content[f] = before[Target[p]][f] /\ Enter(p, "rcheck", todo[p] \ {f})
          \/ Enter(p, "release", {})
    BY <1>4 DEF VerifyImage
  <2>2. /\ pc[p] = "rverify" /\ chosen' = chosen /\ content' = content
        /\ before' = before
    BY <1>4 DEF VerifyImage
  <2>3. CASE Enter(p, "release", {})
    BY <2>3 DEF TypeOK
  <2>4. CASE /\ content[f] = before[Target[p]][f]
             /\ Enter(p, "rcheck", todo[p] \ {f})
    <3>1. pc'[p] = "rcheck" /\ todo'[p] = todo[p] \ {f}
      BY <2>4 DEF TypeOK
    <3> QED BY <1>k, <1>t, <2>2, <2>4, <3>1 DEF Clear
  <2> QED BY <2>1, <2>3, <2>4
<1>5. CASE RecordRepaired(p)
  <2>1. CASE Advance(p, "rcheck", "rrecord", {})
    BY <1>k, <1>t, <2>1 DEF Advance, TypeOK, Clear
  <2>2. CASE Conclude(p, "rrecord", "rolled-back", "release", "release")
    BY <2>2 DEF Conclude, TypeOK
  <2> QED BY <1>5, <2>1, <2>2 DEF RecordRepaired
<1>6. CASE ReleaseLock(p)
  BY <1>6 DEF ReleaseLock, TypeOK
<1> QED BY <1>1, <1>2, <1>3, <1>4, <1>5, <1>6 DEF Repair

\* Others does not name clean and chosen, nor foreign edits.
LEMMA OthersKeepLocals ==
  ASSUME TypeOK, NEW p \in Proc,
         \/ ForeignEdit
         \/ \E q \in Proc : q # p /\ (Run(q) \/ Crash(q))
  PROVE  /\ pc'[p] = pc[p] /\ todo'[p] = todo[p] /\ renamed'[p] = renamed[p]
         /\ clean'[p] = clean[p] /\ chosen'[p] = chosen[p]
<1>1. CASE ForeignEdit
  BY <1>1 DEF ForeignEdit
<1>2. ASSUME NEW q \in Proc, q # p, Run(q) \/ Crash(q)
      PROVE  /\ pc'[p] = pc[p] /\ todo'[p] = todo[p] /\ renamed'[p] = renamed[p]
             /\ clean'[p] = clean[p] /\ chosen'[p] = chosen[p]
  <2>1. /\ clean' = clean \/ \E b \in BOOLEAN : clean' = [clean EXCEPT ![q] = b]
        /\ chosen' = chosen \/ \E S : chosen' = [chosen EXCEPT ![q] = S]
    <3>1. CASE Commit(q)
      BY <3>1 DEF Commit, Snapshot, Prepare, Precheck, Acquire, Recheck, Gate,
         StageBefore, StageAfter, RetainBefore, FinalGate, StartRenames,
         RenameOver, SyncRenames, VerifyOutputs, Validate, Reverify, Audit,
         Rollback, SyncRollback, VerifyRollback, RecordRollback, Cleanup, Catch,
         Unwind, SyncUnwind, RecordUnwind, Finish, Abort, ReleaseLock, CheckFile,
         Advance, TakeLock, Conclude, RestoreLast, Sync, UnlinkSibling, Throw,
         Forget
    <3>2. CASE Undo(q)
      BY <3>2 DEF Undo, LoadCommitted, Preview, AcquireUndo, ReadImages,
         StageRestore, UndoGate, RestoreFile, SyncRestore, VerifyRestore,
         RecordUndone, CatchUndo, RollForward, JudgeUnwind, RecordPartial,
         CleanUndo, ReleaseLock, CheckFile, UndoableFile, Advance, TakeLock,
         Conclude, RestoreLast, Sync, UnlinkSibling, Throw, Forget
    <3>3. CASE Repair(q) \/ Crash(q)
      BY <3>3 DEF Repair, LoadPartial, Classify, AcquireRepair, RecheckChosen,
         StageImage, RenameImage, SyncImage, VerifyImage, RecordRepaired,
         ReleaseLock, Advance, TakeLock, Conclude, Crash, Forget
    <3>4. CASE Gc(q)
      BY <3>4 DEF Gc, ListRecords, ScanRecord, FinishScan, AcquireGc, PruneImages,
         RemoveRecord, FinishPrune, ReleaseLock, TakeLock, Forget
    <3> QED BY <1>2, <3>1, <3>2, <3>3, <3>4 DEF Run
  <2> QED BY <1>2, <2>1, Others DEF Same, TypeOK
<1> QED BY <1>1, <1>2

Cleared(p) == CommitClear(p) /\ UndoClear(p) /\ RepairClear(p)

LEMMA ClearedStep ==
  ASSUME TypeOK, GateInv, \A q \in Proc : Sole(q), NEW p \in Proc, Cleared(p),
         [Next]_vars
  PROVE  Cleared(p)'
<1>1. CASE UNCHANGED vars
  BY <1>1 DEF vars, Cleared, CommitClear, UndoClear, RepairClear, Clear
<1>2. ASSUME Run(p) \/ Crash(p)
      PROVE  Cleared(p)'
  <2>1. CASE Crash(p)
    <3>1. pc'[p] = "crashed"
      BY <2>1 DEF Crash, Enter, TypeOK
    <3> QED BY <3>1 DEF Cleared, CommitClear, UndoClear, RepairClear, AfterGate,
            Restoring
  <2>2. CASE Commit(p)
    BY <2>2, CommitClearStep DEF Commit, Cleared, UndoClear, RepairClear
  <2>3. CASE Undo(p)
    BY <2>3, UndoClearStep DEF Undo, Cleared, CommitClear, RepairClear
  <2>4. CASE Repair(p)
    BY <2>4, RepairClearStep DEF Repair, Cleared, CommitClear, UndoClear
  <2>5. CASE Gc(p)
    BY <2>5 DEF Gc, Cleared, CommitClear, UndoClear, RepairClear
  <2> QED BY <1>2, <2>1, <2>2, <2>3, <2>4, <2>5 DEF Run
<1>3. ASSUME ForeignEdit \/ \E q \in Proc : q # p /\ (Run(q) \/ Crash(q))
      PROVE  Cleared(p)'
  <2>1. /\ pc'[p] = pc[p] /\ todo'[p] = todo[p] /\ renamed'[p] = renamed[p]
        /\ clean'[p] = clean[p] /\ chosen'[p] = chosen[p]
    BY <1>3, OthersKeepLocals
  <2>2. Kind[p] # "gc" /\ pc[p] \in Locked =>
          \A f \in File : Clear(p, f) => Clear(p, f)'
    BY <1>3, ClearAmongOthers
  <2>3. /\ AfterGate \cup Restoring \cup {"finalgate", "uverify", "urecord"}
             \subseteq Locked
        /\ Changed[Target[p]] \subseteq File /\ chosen[p] \subseteq File
    BY LocalTypes DEF AfterGate, Restoring, Locked
  <2>4. CommitClear(p)'
    <3> USE DEF CommitClear
    <3>1. Kind[p] = "commit" => CommitClear(p) /\ Kind[p] # "gc"
      BY DEF Cleared
    <3> QED BY <2>1, <2>2, <2>3, <3>1 DEF AfterGate
  <2>5. UndoClear(p)'
    BY <2>1, <2>2, <2>3 DEF Cleared, UndoClear
  <2>6. RepairClear(p)'
    BY <2>1, <2>2, <2>3 DEF Cleared, RepairClear
  <2> QED BY <2>4, <2>5, <2>6 DEF Cleared
<1> QED BY <1>1, <1>2, <1>3 DEF Next

-----------------------------------------------------------------------------
(* What a record of a reverted transaction says stays true. *)

\* Every failing call is counted and remembered.
LEMMA FaultsCount ==
  ASSUME NEW p \in Proc, Run(p) \/ Crash(p)
  PROVE  NoFault \/ \E k \in FaultKind : Fault(k)
<1> USE KindsExist
<1>1. CASE Commit(p)
  BY <1>1 DEF Commit, Snapshot, Prepare, Precheck, Acquire, Recheck, Gate,
     StageBefore, StageAfter, RetainBefore, FinalGate, StartRenames,
     RenameOver, SyncRenames, VerifyOutputs, Validate, Reverify, Audit,
     Rollback, SyncRollback, VerifyRollback, RecordRollback, Cleanup, Catch,
     Unwind, SyncUnwind, RecordUnwind, Finish, Abort, ReleaseLock, CheckFile,
     Advance, TakeLock, Conclude, RestoreLast, Sync, UnlinkSibling, Throw,
     PersistRecord, PersistFails, WriteSibling, WriteSiblingFails,
     RenameSibling, RenameFails
<1>2. CASE Undo(p)
  BY <1>2 DEF Undo, LoadCommitted, Preview, AcquireUndo, ReadImages,
     StageRestore, UndoGate, RestoreFile, SyncRestore, VerifyRestore,
     RecordUndone, CatchUndo, RollForward, JudgeUnwind, RecordPartial,
     CleanUndo, ReleaseLock, CheckFile, UndoableFile, Advance, TakeLock,
     Conclude, RestoreLast, Sync, UnlinkSibling, Throw,
     PersistRecord, PersistFails, WriteSibling, WriteSiblingFails,
     RenameSibling, RenameFails
<1>3. CASE Repair(p) \/ Crash(p)
  BY <1>3 DEF Repair, LoadPartial, Classify, AcquireRepair, RecheckChosen,
     StageImage, RenameImage, SyncImage, VerifyImage, RecordRepaired,
     ReleaseLock, Advance, TakeLock, Conclude, Crash,
     PersistRecord, PersistFails, WriteSibling, WriteSiblingFails, RenameSibling
<1>4. CASE Gc(p)
  BY <1>4 DEF Gc, ListRecords, ScanRecord, FinishScan, AcquireGc, PruneImages,
     RemoveRecord, FinishPrune, ReleaseLock, TakeLock
<1> QED BY <1>1, <1>2, <1>3, <1>4 DEF Run

\* Planning takes note of the files still to be read.
LEMMA SnapshotPlans ==
  ASSUME TypeOK, NEW p \in Proc, Run(p) \/ Crash(p), NEW f \in File,
         before'[Target[p]][f] # before[Target[p]][f]
  PROVE  f \in todo[p]
<1>1. before' # before
  OBVIOUS
<1>2. Snapshot(p)
  BY <1>1 DEF Run, Crash, Commit, Undo, Repair, Gc, Prepare, Precheck, Acquire,
     Recheck, Gate, StageBefore, StageAfter, RetainBefore, FinalGate,
     StartRenames, RenameOver, SyncRenames, VerifyOutputs, Validate, Reverify,
     Audit, Rollback, SyncRollback, VerifyRollback, RecordRollback, Cleanup,
     Catch, Unwind, SyncUnwind, RecordUnwind, Finish, Abort, ReleaseLock,
     LoadCommitted, Preview, AcquireUndo, ReadImages, StageRestore, UndoGate,
     RestoreFile, SyncRestore, VerifyRestore, RecordUndone, CatchUndo,
     RollForward, JudgeUnwind, RecordPartial, CleanUndo, LoadPartial, Classify,
     AcquireRepair, RecheckChosen, StageImage, RenameImage, SyncImage,
     VerifyImage, RecordRepaired, ListRecords, ScanRecord, FinishScan, AcquireGc,
     PruneImages, RemoveRecord, FinishPrune, CheckFile, UndoableFile, Advance,
     TakeLock, Conclude, RestoreLast, Sync, UnlinkSibling, Throw
<1>3. PICK g \in todo[p] :
        \/ before' = [before EXCEPT ![Target[p]][g] = content[g]]
        \/ before' = before
  BY <1>2 DEF Snapshot
<1>4. before' = [before EXCEPT ![Target[p]][g] = content[g]]
  BY <1>1, <1>3
<1>5. Target[p] \in Txn /\ before \in [Txn -> [File -> Content]]
  BY LocalTypes DEF TypeOK
<1>6. g = f
  BY <1>4, <1>5
<1> QED BY <1>6

\* The exceptions do not go away again.
LEMMA ExceptionsStay ==
  ASSUME TypeOK, \A q \in Proc : Unseen(q), [Next]_vars, Unexceptional'
  PROVE  Unexceptional
<1>1. faulted \subseteq faulted'
  <2>1. ASSUME NEW p \in Proc, Run(p) \/ Crash(p) PROVE faulted \subseteq faulted'
    BY <2>1, FaultsCount DEF Fault
  <2> QED BY <2>1 DEF Next, ForeignEdit, vars
<1>2. ASSUME NEW t \in Txn, NEW f \in File, before'[t][f] \notin Foreign
      PROVE  before[t][f] \notin Foreign
  <2>1. CASE before'[t][f] = before[t][f]
    BY <1>2, <2>1
  <2>2. CASE before'[t][f] # before[t][f]
    <3>1. PICK p \in Proc : Run(p) \/ Crash(p)
      BY <2>2 DEF Next, ForeignEdit, vars
    <3>2. Plans(p)
      BY <3>1, StepEffect DEF Effect
    <3>3. PICK g \in File :
            before' = [before EXCEPT ![Target[p]][g] = content[g]]
      BY <2>2, <3>2 DEF Plans
    <3>4. Target[p] = t /\ g = f /\ pc[p] = "snapshot" /\ Kind[p] = "commit"
      BY <2>2, <3>2, <3>3 DEF Plans, TypeOK
    <3>5. f \in todo[p]
      BY <2>2, <3>1, <3>4, SnapshotPlans
    <3>6. before[t][f] = Original
      BY <3>4, <3>5 DEF Unseen
    <3> QED BY <3>6, RepositoryConstants
  <2> QED BY <2>1, <2>2
<1> QED BY <1>1, <1>2, RepositoryConstants DEF Unexceptional, Some

Reverted == {"rolled-back", "undone", "failed"}

\* t is reverted, or gc takes it for dead.
Buried(t) == record[t] \in Reverted \/ (~IncludeUndoable /\ Doomed(t))

BuriedInv == \A t \in Txn : Buried(t) => \A f \in Changed[t] : Apart(t, f)

\* An undo that has seen the output works on a live transaction.
Undoing(p) ==
  /\ Kind[p] = "undo"
  /\ \/ pc[p] \in {"ustage", "ugate", "urename", "uverify", "urecord",
                   "ucatch", "uunwind", "upartial"}
     \/ pc[p] = "uread" /\ Changed[Target[p]] \ todo[p] # {}
UndoLive(p) == Undoing(p) /\ Changed[Target[p]] # {} => ~Buried(Target[p])

\* The files a repair has taken for restored have left the output for good.
Classified(p) ==
  LET t == Target[p] IN
  Kind[p] = "repair" =>
    /\ pc[p] = "rclassify" =>
         \A f \in Changed[t] \ (todo[p] \cup chosen[p]) : Apart(t, f)
    /\ pc[p] \in Restoring \cup {"lock"} =>
         \A f \in Changed[t] \ chosen[p] : Apart(t, f)

RevertedInv == /\ Rooted
               /\ \A p \in Proc : Sole(p) /\ Unseen(p) /\ Cleared(p)
               /\ Unexceptional => /\ BuriedInv
                                   /\ \A p \in Proc : UndoLive(p) /\ Classified(p)

\* An output is written only by the renames of its commit and by an undo that
\* rolls forward.
LEMMA OutputWriters ==
  ASSUME TypeOK, GateInv, NEW p \in Proc, Acts(p), NEW f \in File,
         content'[f] \notin {content[f], before[Target[p]][f]}
  PROVE  \/ Kind[p] = "commit" /\ pc[p] = "rename"
         \/ Kind[p] = "undo" /\ pc[p] = "uunwind"
<1>1. pc[p] \in {"rename", "uunwind"} /\ content' # content
  BY WriteInGrip
<1>2. CASE Commit(p)
  BY <1>1, <1>2 DEF Commit, Snapshot, Prepare, Precheck, Acquire, Recheck, Gate,
     StageBefore, StageAfter, RetainBefore, FinalGate, StartRenames, RenameOver,
     SyncRenames, VerifyOutputs, Validate, Reverify, Audit, Rollback,
     SyncRollback, VerifyRollback, RecordRollback, Cleanup, Catch, Unwind,
     SyncUnwind, RecordUnwind, Finish, Abort, ReleaseLock, CheckFile, Advance,
     Finished, TakeLock, Conclude, RestoreLast, Sync, UnlinkSibling, Throw
<1>3. CASE Undo(p)
  BY <1>1, <1>3 DEF Undo, LoadCommitted, Preview, AcquireUndo, ReadImages,
     StageRestore, UndoGate, RestoreFile, SyncRestore, VerifyRestore,
     RecordUndone, CatchUndo, RollForward, JudgeUnwind, RecordPartial, CleanUndo,
     ReleaseLock, CheckFile, UndoableFile, Advance, Finished, TakeLock, Conclude,
     RestoreLast, Sync, UnlinkSibling, Throw
<1>4. CASE Repair(p) \/ Crash(p)
  BY <1>1, <1>4 DEF Repair, LoadPartial, Classify, AcquireRepair, RecheckChosen,
     StageImage, RenameImage, SyncImage, VerifyImage, RecordRepaired, ReleaseLock,
     Advance, Finished, TakeLock, Conclude, Crash
<1> QED BY <1>2, <1>3, <1>4 DEF Acts, Run, Gc

\* gc condemns no live transaction.
LEMMA CondemnsBuried ==
  ASSUME TypeOK, NEW p \in Proc, Run(p) \/ Crash(p), NEW t \in Txn, Buried(t)',
         record'[t] = record[t]
  PROVE  Buried(t)
<1>1. CASE Doomed(t)' /\ ~Doomed(t)
  BY <1>1, Condemned DEF MayPrune, PrunableStates, Buried, Reverted
<1> QED BY <1>1 DEF Buried

LEMMA BuriedStep ==
  ASSUME TypeOK, TypeOK', GateInv, RevertedInv, Unexceptional, [Next]_vars
  PROVE  BuriedInv'
<1> SUFFICES ASSUME NEW t \in Txn, Buried(t)', NEW f \in Changed[t]
             PROVE  Apart(t, f)'
  BY DEF BuriedInv
<1>0. f \in File
  BY RepositoryConstants
<1>1. CASE Buried(t)
  <2>1. Apart(t, f)
    BY <1>1 DEF RevertedInv, BuriedInv
  <2>2. ASSUME NEW p \in Proc, Acts(p), Target[p] = t
        PROVE  content'[f] \in {content[f], before[t][f]}
    <3>1. CASE Kind[p] = "commit" /\ pc[p] = "rename"
      BY <1>1, <2>2, <3>1 DEF RevertedInv, Sole, Early, Buried, Reverted
    <3>2. CASE Kind[p] = "undo" /\ pc[p] = "uunwind"
      BY <1>1, <2>2, <3>2 DEF RevertedInv, UndoLive, Undoing
    <3> QED BY <1>0, <2>2, <3>1, <3>2, OutputWriters
  <2> QED BY <1>0, <2>1, <2>2, ApartStep DEF RevertedInv
<1>2. CASE ~Buried(t)
  <2>1. PICK p \in Proc : Run(p) \/ Crash(p)
    BY <1>2 DEF Next, ForeignEdit, vars, Buried, Doomed
  <2>2. Recorded(p) /\ record'[t] # record[t]
    BY <1>2, <2>1, StepRecorded, CondemnsBuried
  <2>3. PICK s : /\ Concludes(p, s)
                 /\ record' = [record EXCEPT ![Target[p]] = s]
                 /\ UNCHANGED <<content, before, renamed>>
    <3>1. ASSUME NEW u \in Txn, record' = [record EXCEPT ![u] = "none"]
          PROVE  FALSE
      <4>1. record'[t] = "none"
        BY <2>2, <3>1 DEF TypeOK
      <4>2. Doomed(t)' /\ ~Doomed(t)
        BY <1>2, <4>1 DEF Buried, Reverted
      <4>3. record' = record
        BY <2>1, <4>2, Condemned
      <4> QED BY <2>2, <4>3
    <3> QED BY <2>2, <3>1 DEF Recorded
  <2>4. Target[p] = t /\ s = record'[t]
    BY <2>2, <2>3 DEF TypeOK
  <2>5. s \in Reverted
    <3>1. CASE record'[t] \in Reverted
      BY <2>4, <3>1
    <3>2. CASE ~IncludeUndoable /\ Doomed(t)'
      <4>1. Doomed(t)
        BY <2>1, <2>2, <3>2, Condemned
      <4> QED BY <1>2, <3>2, <4>1 DEF Buried
    <3> QED BY <3>1, <3>2 DEF Buried
  <2>6. Cleared(p) /\ Classified(p)
    BY DEF RevertedInv
  <2>7. pc[p] \in Locked
    BY <2>3 DEF Concludes, Locked
  <2>8. Clear(p, f) \/ Apart(t, f)
    <3>1. CASE Kind[p] = "commit"
      BY <2>3, <2>4, <2>5, <2>6, <3>1
      DEF Concludes, Cleared, CommitClear, UnwoundState, AfterGate, Reverted
    <3>2. CASE Kind[p] = "undo"
      BY <2>3, <2>4, <2>5, <2>6, <3>2
      DEF Concludes, Cleared, UndoClear, Reverted
    <3>3. CASE Kind[p] = "repair"
      BY <2>3, <2>4, <2>6, <3>3
      DEF Concludes, Cleared, RepairClear, Classified, Restoring
    <3> QED BY <2>3, <3>1, <3>2, <3>3 DEF Concludes
  <2>9. Apart(t, f)
    BY <1>0, <2>4, <2>7, <2>8, ClearApart DEF RevertedInv
  <2> QED BY <1>0, <2>3, <2>9, ApartStep DEF RevertedInv
<1> QED BY <1>1, <1>2

\* An undo starts on files that hold the output, and ends once it has written
\* a record.
LEMMA UndoBegins ==
  ASSUME TypeOK, NEW p \in Proc, Undo(p), ~Undoing(p), Undoing(p)',
         Changed[Target[p]] # {}
  PROVE  /\ record' = record
         /\ \E f \in Changed[Target[p]] : content[f] = Target[p]
<1> USE DEF Undoing, Enter, Finished
<1>k. Kind[p] = "undo"
  BY DEF Undo
<1>1. CASE LoadCommitted(p) \/ Preview(p) \/ AcquireUndo(p)
  BY <1>1 DEF LoadCommitted, Preview, AcquireUndo, UndoableFile, Advance,
     TakeLock, TypeOK
<1>2. CASE ReadImages(p)
  <2>1. PICK f \in todo[p] :
          \/ /\ content[f] = Target[p] /\ todo' = [todo EXCEPT ![p] = @ \ {f}]
             /\ pc' = pc
          \/ Enter(p, "uclean", {})
    BY <1>2 DEF ReadImages, UndoableFile
  <2>2. pc[p] = "uread" /\ record' = record
    BY <1>2 DEF ReadImages, UndoableFile
  <2>3. pc'[p] \in {"uread", "uclean"}
    BY <2>1, <2>2 DEF TypeOK
  <2>4. pc'[p] = "uread" /\ Changed[Target[p]] \ todo'[p] # {}
    BY <2>3
  <2>5. content[f] = Target[p] /\ todo'[p] = todo[p] \ {f}
    BY <2>1, <2>4 DEF TypeOK
  <2>6. f \in Changed[Target[p]]
    BY <1>k, <2>2, <2>4, <2>5
  <2> QED BY <2>2, <2>5, <2>6
<1>3. CASE StageRestore(p)
  BY <1>k, <1>3 DEF StageRestore, Advance, TypeOK
<1>4. CASE UndoGate(p) \/ RestoreFile(p) \/ CatchUndo(p) \/ RollForward(p)
           \/ JudgeUnwind(p)
  BY <1>k, <1>4 DEF UndoGate, RestoreFile, CatchUndo, RollForward, JudgeUnwind,
     RestoreLast, CheckFile, Advance, TypeOK
<1>5. CASE SyncRestore(p) \/ VerifyRestore(p) \/ RecordUndone(p)
           \/ RecordPartial(p) \/ CleanUndo(p) \/ ReleaseLock(p)
  BY <1>k, <1>5 DEF SyncRestore, VerifyRestore, RecordUndone, RecordPartial,
     CleanUndo, ReleaseLock, Sync, CheckFile, Advance, Conclude, UnlinkSibling,
     Throw, TypeOK
<1> QED BY <1>1, <1>2, <1>3, <1>4, <1>5 DEF Undo

LEMMA UndoEnds ==
  ASSUME TypeOK, NEW p \in Proc, Undo(p), Undoing(p)', record' # record
  PROVE  "recordsync" \in faulted'
<1> USE DEF Undoing, Enter
<1>1. CASE RecordUndone(p) \/ RecordPartial(p)
  BY <1>1 DEF RecordUndone, RecordPartial, Conclude, PersistFails, Fault, TypeOK
<1>2. CASE ~(RecordUndone(p) \/ RecordPartial(p))
  BY <1>2 DEF Undo, LoadCommitted, Preview, AcquireUndo, ReadImages,
     StageRestore, UndoGate, RestoreFile, SyncRestore, VerifyRestore, CatchUndo,
     RollForward, JudgeUnwind, CleanUndo, ReleaseLock, CheckFile, UndoableFile,
     Advance, TakeLock, RestoreLast, Sync, UnlinkSibling, Throw
<1> QED BY <1>1, <1>2

LEMMA UndoLiveStep ==
  ASSUME TypeOK, GateInv, RevertedInv, Unexceptional, Unexceptional',
         [Next]_vars, NEW p \in Proc
  PROVE  UndoLive(p)'
<1> SUFFICES ASSUME Undoing(p)', Changed[Target[p]] # {}, Buried(Target[p])'
             PROVE  FALSE
  BY DEF UndoLive
<1>0. Target[p] \in Txn
  BY LocalTypes
<1>1. UndoLive(p)
  BY DEF RevertedInv
<1>2. CASE ForeignEdit \/ UNCHANGED vars
  BY <1>1, <1>2 DEF ForeignEdit, vars, UndoLive, Undoing, Buried, Doomed
<1>3. ASSUME NEW q \in Proc, Run(q) \/ Crash(q)
      PROVE  FALSE
  <2>1. CASE q = p
    <3>1. Undo(p)
      <4>1. pc'[p] # "crashed" /\ Kind[p] = "undo"
        BY DEF Undoing
      <4> QED BY <1>3, <2>1, <4>1 DEF Run, Commit, Repair, Gc, Crash, Enter, TypeOK
    <3>2. CASE Undoing(p)
      <4>1. record'[Target[p]] # record[Target[p]]
        BY <1>0, <1>1, <1>3, <2>1, <3>2, CondemnsBuried DEF UndoLive
      <4>2. "recordsync" \in faulted'
        BY <3>1, <4>1, UndoEnds
      <4> QED BY <3>1, <4>2 DEF Undo, Unexceptional, Some
    <3>3. CASE ~Undoing(p)
      <4>1. PICK f \in Changed[Target[p]] : content[f] = Target[p]
        BY <3>1, <3>3, UndoBegins
      <4>2. Buried(Target[p])
        BY <1>0, <1>3, <2>1, <3>1, <3>3, UndoBegins, CondemnsBuried
      <4>3. f \in File /\ Apart(Target[p], f)
        BY <1>0, <4>2, RepositoryConstants DEF RevertedInv, BuriedInv
      <4> QED BY <1>0, <4>1, <4>3, ApartGone
    <3> QED BY <3>2, <3>3
  <2>2. CASE q # p
    <3>1. Undoing(p) /\ ~Buried(Target[p])
      BY <1>1, <1>3, <2>2, Others DEF Same, Undoing, UndoLive
    <3>2. pc[q] \notin Locked
      BY <2>2, <3>1, RepositoryConstants DEF GateInv, LockHeld, Undoing, Locked
    <3>3. record' = record
      BY <1>3, <3>2, StepRecorded DEF Recorded, Concludes, Locked
    <3> QED BY <1>0, <1>3, <3>1, <3>3, CondemnsBuried
  <2> QED BY <2>1, <2>2
<1> QED BY <1>2, <1>3 DEF Next

\* A repair's look without the lock is enough for the files that are already
\* restored.
LEMMA SeenApart ==
  ASSUME TypeOK, GateInv, Rooted, NEW t \in Txn, NEW f \in File,
         content[f] = before[t][f], before[t][f] \notin Foreign
  PROVE  Apart(t, f)
<1>1. content[f] \in Content \ Stems({t}, f)
  BY DEF Rooted, TypeOK
<1>2. ASSUME NEW q \in Proc, Target[q] # t, f \in Grip(q)
      PROVE  before[Target[q]][f] \in Content \ Stems({t}, f)
  <2>1. Target[q] \in Txn /\ before[Target[q]][f] \in Content
    BY LocalTypes DEF TypeOK
  <2>2. Own(q, f)
    BY <1>2, GripOwns
  <2>3. CASE content[f] = before[Target[q]][f]
    BY <1>1, <2>3
  <2>4. CASE content[f] = Target[q]
    BY <1>1, <2>1, <2>4, StemsUp
  <2> QED BY <2>2, <2>3, <2>4 DEF Own, Fresh
<1> QED BY <1>1, <1>2 DEF Apart, Settled

LEMMA ClassifiedStep ==
  ASSUME TypeOK, TypeOK', GateInv, RevertedInv, Unexceptional, [Next]_vars,
         NEW p \in Proc
  PROVE  Classified(p)'
<1> SUFFICES ASSUME Kind[p] = "repair"
             PROVE  Classified(p)'
  BY DEF Classified
<1> USE DEF Restoring
<1>0. Target[p] \in Txn /\ Changed[Target[p]] \subseteq File
  BY LocalTypes
<1>1. Classified(p)
  BY DEF RevertedInv
<1>2. pc[p] \notin Idle => \A f \in File :
        Apart(Target[p], f) => Apart(Target[p], f)'
  <2> SUFFICES ASSUME pc[p] \notin Idle, NEW f \in File, Apart(Target[p], f),
                      NEW q \in Proc, Acts(q), Target[q] = Target[p]
               PROVE  content'[f] \in {content[f], before[Target[p]][f]}
    BY <1>0, ApartStep DEF RevertedInv
  <2>1. Kind[q] # "undo"
    BY DEF Unexceptional, Some
  <2>2. ~(Kind[q] = "commit" /\ pc[q] = "rename")
    BY DEF RevertedInv, Sole, Early
  <2> QED BY <2>1, <2>2, OutputWriters
<1>3. CASE UNCHANGED vars \/ ForeignEdit \/ \E q \in Proc : q # p /\ (Run(q) \/ Crash(q))
  <2>1. pc'[p] = pc[p] /\ todo'[p] = todo[p] /\ chosen'[p] = chosen[p]
    BY <1>3, OthersKeepLocals DEF vars
  <2>2. pc[p] \in Restoring \cup {"lock", "rclassify"} => pc[p] \notin Idle
    BY DEF Idle
  <2> QED BY <1>0, <1>1, <1>2, <2>1, <2>2 DEF Classified
<1>4. CASE Crash(p)
  BY <1>4 DEF Crash, Enter, TypeOK, Classified
<1>5. CASE Repair(p)
  <2>1. CASE LoadPartial(p)
    BY <2>1 DEF LoadPartial, Blocked, Enter, TypeOK, Classified
  <2>2. CASE Classify(p)
    <3>1. PICK f \in todo[p] :
            \/ /\ content[f] = before[Target[p]][f] \/ Restorable(Target[p], f)
               /\ todo' = [todo EXCEPT ![p] = @ \ {f}]
               /\ chosen' = [chosen EXCEPT ![p] =
                    IF content[f] = before[Target[p]][f] THEN @ ELSE @ \cup {f}]
               /\ pc' = pc
            \/ Blocked(p)
      BY <2>2 DEF Classify
    <3>2. CASE Blocked(p)
      BY <3>2 DEF Blocked, Enter, TypeOK, Classified
    <3>3. CASE /\ todo' = [todo EXCEPT ![p] = @ \ {f}]
               /\ chosen' = [chosen EXCEPT ![p] =
                    IF content[f] = before[Target[p]][f] THEN @ ELSE @ \cup {f}]
               /\ pc' = pc
      <4>1. pc[p] = "rclassify" /\ pc'[p] = "rclassify" /\ pc[p] \notin Idle
        BY <2>2, <3>3 DEF Classify, Idle
      <4>2. /\ todo'[p] = todo[p] \ {f} /\ chosen[p] \subseteq chosen'[p]
            /\ f \in chosen'[p] \/ content[f] = before[Target[p]][f]
        BY <3>3 DEF TypeOK
      <4>3. ASSUME NEW g \in Changed[Target[p]], g \notin todo'[p] \cup chosen'[p]
            PROVE  Apart(Target[p], g)'
        <5>1. CASE g = f
          <6>1. before[Target[p]][f] \notin Foreign
            BY <1>0, <4>3, <5>1 DEF Unexceptional, Some
          <6>2. Apart(Target[p], f)
            BY <1>0, <4>2, <4>3, <5>1, <6>1, SeenApart DEF RevertedInv
          <6> QED BY <1>0, <1>2, <4>1, <4>3, <5>1, <6>2
        <5>2. CASE g # f
          <6>1. Apart(Target[p], g)
            BY <1>1, <4>1, <4>2, <4>3, <5>2 DEF Classified
          <6> QED BY <1>0, <1>2, <4>1, <4>3, <6>1
        <5> QED BY <5>1, <5>2
      <4> QED BY <4>1, <4>3 DEF Classified
    <3> QED BY <3>1, <3>2, <3>3
  <2>3. CASE ~LoadPartial(p) /\ ~Classify(p)
    <3>1. /\ chosen'[p] = chosen[p]
          /\ \/ pc[p] = "rclassify" /\ todo[p] = {}
             \/ pc[p] \in Restoring \cup {"lock"}
             \/ pc'[p] = "done"
          /\ pc'[p] # "rclassify"
      BY <1>5, <2>3 DEF Repair, AcquireRepair, RecheckChosen, StageImage,
         RenameImage, SyncImage, VerifyImage, RecordRepaired, ReleaseLock,
         Advance, Finished, Enter, TakeLock, Conclude, TypeOK
    <3>2. pc[p] \in Restoring \cup {"lock", "rclassify"} => pc[p] \notin Idle
      BY DEF Idle
    <3> QED BY <1>0, <1>1, <1>2, <3>1, <3>2 DEF Classified
  <2> QED BY <2>1, <2>2, <2>3
<1> QED BY <1>3, <1>4, <1>5 DEF Next, Run, Commit, Undo, Gc

LEMMA RevertedStep ==
  ASSUME TypeOK, TypeOK', GateInv, RevertedInv, [Next]_vars
  PROVE  RevertedInv'
<1>1. \A p \in Proc : Sole(p)' /\ Unseen(p)' /\ Cleared(p)'
  BY SoleStep, UnseenStep, ClearedStep DEF RevertedInv
<1>2. Rooted'
  BY RootedStep DEF RevertedInv
<1>3. Unexceptional' => Unexceptional
  BY ExceptionsStay DEF RevertedInv
<1>4. Unexceptional' => /\ BuriedInv'
                        /\ \A p \in Proc : UndoLive(p)' /\ Classified(p)'
  BY <1>3, BuriedStep, UndoLiveStep, ClassifiedStep
<1> QED BY <1>1, <1>2, <1>4 DEF RevertedInv

LEMMA RevertedInit == Init => RevertedInv
<1> SUFFICES ASSUME Init PROVE RevertedInv
  OBVIOUS
<1>1. \A p \in Proc : pc[p] = StartLabel[Kind[p]] /\ pc[p] \in
        {"snapshot", "uload", "rload", "glist"}
  BY RepositoryConstants DEF Init, StartLabel
<1>2. /\ \A t \in Txn, f \in File : before[t][f] = Original
      /\ \A f \in File : content[f] = Original
      /\ \A t \in Txn : record[t] = "none" /\ ~Doomed(t)
  BY DEF Init, Doomed
<1>3. Rooted
  <2> SUFFICES ASSUME NEW t \in Txn, NEW f \in File
               PROVE  Original \notin Stems({t}, f)
    BY <1>2 DEF Rooted
  <2>1. Stems({t}, f) \subseteq {t} \cup Txn
    BY StemsOnly DEF Content
  <2> QED BY <2>1, RepositoryConstants
<1>4. ASSUME NEW p \in Proc PROVE Sole(p) /\ Unseen(p) /\ Cleared(p)
  <2>1. Sole(p)
    <3>1. \A q \in Proc : Kind[q] \in {"undo", "repair"} => pc[q] \in Idle
      BY <1>1 DEF StartLabel, Idle
    <3> QED BY <1>2, <3>1, RepositoryConstants DEF Sole
  <2>2. Unseen(p)
    <3>1. Target[p] \in Txn /\ Target[p] # Original
      BY RepositoryConstants
    <3>2. todo[p] \subseteq File \/ Kind[p] # "commit"
      BY <3>1, RepositoryConstants DEF Init
    <3> QED BY <1>2, <3>1, <3>2 DEF Unseen, NoTrace
  <2>3. Cleared(p)
    BY <1>1 DEF Cleared, CommitClear, UndoClear, RepairClear, AfterGate, Restoring
  <2> QED BY <2>1, <2>2, <2>3
<1>5. BuriedInv
  BY <1>2 DEF BuriedInv, Buried, Reverted
<1>6. \A p \in Proc : UndoLive(p) /\ Classified(p)
  BY <1>1 DEF UndoLive, Undoing, Classified, Restoring
<1> QED BY <1>3, <1>4, <1>5, <1>6 DEF RevertedInv

LEMMA RevertedAlways == Spec => []RevertedInv
<1>1. TypeOK /\ TypeOK' /\ GateInv /\ RevertedInv /\ [Next]_vars => RevertedInv'
  BY RevertedStep
<1> QED BY <1>1, RevertedInit, GateAlways, PTL DEF Spec

\* A record of a reverted transaction is true of the files, whatever failed,
\* crashed or ran in between.
THEOREM RevertedIsGone == Spec => []RevertedMeansGone
<1>1. RevertedInv => RevertedMeansGone
  <2> SUFFICES ASSUME RevertedInv, Unexceptional, NEW t \in Txn,
                      record[t] \in Reverted
               PROVE  Gone(t)
    BY DEF RevertedMeansGone, Reverted
  <2>1. Buried(t)
    BY DEF Buried
  <2>2. \A f \in Changed[t] : f \in File /\ Apart(t, f)
    BY <2>1, RepositoryConstants DEF RevertedInv, BuriedInv
  <2> QED BY <2>2, ApartGone DEF Gone
<1> QED BY <1>1, RevertedAlways, PTL

\* gc without include-undoable takes the before images only of transactions
\* nobody could undo any more.
THEOREM PrunedStaysDead == Spec => []PrunedIsDead
<1>1. RevertedInv /\ TypeOK => PrunedIsDead
  <2> SUFFICES ASSUME RevertedInv, TypeOK, Unexceptional, ~IncludeUndoable,
                      NEW t \in pruned
               PROVE  Gone(t)
    BY DEF PrunedIsDead
  <2>1. t \in Txn /\ Buried(t)
    BY DEF Buried, Doomed, TypeOK
  <2>2. \A f \in Changed[t] : f \in File /\ Apart(t, f)
    BY <2>1, RepositoryConstants DEF RevertedInv, BuriedInv
  <2> QED BY <2>1, <2>2, ApartGone DEF Gone
<1> QED BY <1>1, RevertedAlways, TypeCorrect, PTL

-----------------------------------------------------------------------------
(* What a committed record says of the files. *)

\* File f holds the output of t or what was written over it since.
Over(t, f) == content[f] \in Stems({t} \cup Foreign, f)

\* ... and nobody is about to put back what was there before it.
Applied(t, f) == Settled(Stems({t} \cup Foreign, f), t, f)

LEMMA AppliedEven ==
  ASSUME TypeOK, NEW t \in Txn, NEW f \in File
  PROVE  Even(Stems({t} \cup Foreign, f), t, f)
<1>1. {t} \cup Foreign \subseteq Stems({t} \cup Foreign, f)
  BY StemsBase DEF Content
<1>2. ASSUME NEW u \in Txn \ {t}
      PROVE  u \in Stems({t} \cup Foreign, f)
               <=> before[u][f] \in Stems({t} \cup Foreign, f)
  <2>1. u \in Txn \ ({t} \cup Foreign)
    BY RepositoryConstants
  <2> QED BY <2>1, StemsUp, StemsDown
<1> QED BY <1>1, <1>2 DEF Even

LEMMA AppliedStep ==
  ASSUME TypeOK, TypeOK', GateInv, \A q \in Proc : Sole(q) /\ Unseen(q),
         [Next]_vars, NEW t \in Txn, NEW f \in File, Applied(t, f),
         \A p \in Proc : Acts(p) /\ Target[p] = t =>
           content'[f] \in {content[f], t} \cup Foreign
  PROVE  Applied(t, f)'
<1> DEFINE M == Stems({t} \cup Foreign, f)
<1>1. Even(M, t, f) /\ Settled(M, t, f)
  BY AppliedEven DEF Applied
<1>2. {t} \cup Foreign \subseteq M
  BY StemsBase DEF Content
<1> HIDE DEF M
<1>3. \A p \in Proc : Acts(p) /\ Target[p] = t => content'[f] \in M
  BY <1>1, <1>2 DEF Settled
<1>4. /\ content'[f] \in M
      /\ \A p \in Proc : Target[p] # t /\ f \in Grip(p)' =>
           before'[Target[p]][f] \in M
  BY <1>1, <1>3, Settles
<1>5. content'[f] \in Stems({t} \cup Foreign, f)'
  BY <1>4, StemsStep DEF M, TypeOK
<1>6. ASSUME NEW p \in Proc, Target[p] # t, f \in Grip(p)'
      PROVE  before'[Target[p]][f] \in Stems({t} \cup Foreign, f)'
  <2>1. before'[Target[p]][f] \in Content /\ Target[p] \in Txn
    BY LocalTypes DEF TypeOK
  <2> QED BY <1>4, <1>6, <2>1, StemsStep DEF M
<1> QED BY <1>5, <1>6 DEF Applied, Settled

\* Under the lock there is nobody else to put anything back.
LEMMA AloneApplied ==
  ASSUME GateInv, NEW p \in Proc, pc[p] \in Locked, NEW f
  PROVE  Over(Target[p], f) <=> Applied(Target[p], f)
<1>1. \A q \in Proc : Target[q] # Target[p] => f \notin Grip(q)
  BY GripNeedsLock, RepositoryConstants DEF GateInv, LockHeld
<1> QED BY <1>1 DEF Applied, Over, Settled

LEMMA OverAmongOthers ==
  ASSUME TypeOK, TypeOK', GateInv, \A q \in Proc : Sole(q) /\ Unseen(q),
         NEW p \in Proc, pc[p] \in Locked, pc'[p] \in Locked, GateInv',
         NEW f \in File, Over(Target[p], f),
         \/ ForeignEdit
         \/ \E q \in Proc : q # p /\ (Run(q) \/ Crash(q))
  PROVE  Over(Target[p], f)'
<1>0. Target[p] \in Txn
  BY LocalTypes
<1>1. content'[f] \in {content[f], Target[p]} \cup Foreign
  <2>1. CASE ForeignEdit
    BY <2>1 DEF ForeignEdit, TypeOK
  <2>2. ASSUME NEW q \in Proc, q # p, Run(q) \/ Crash(q)
        PROVE  content'[f] = content[f]
    <3>1. Writes(q)
      BY <2>2, StepEffect DEF Effect
    <3>2. pc[q] \notin Locked
      BY <2>2, RepositoryConstants DEF GateInv, LockHeld
    <3> QED BY <3>1, <3>2 DEF Writes, Locked
  <2> QED BY <2>1, <2>2
<1>2. Applied(Target[p], f)
  BY AloneApplied
<1>3. Applied(Target[p], f)'
  BY <1>0, <1>1, <1>2, AppliedStep DEF Next
<1> QED BY <1>3 DEF Applied, Settled, Over

\* The output is there, or someone edited it.
Out(p, f) == content[f] = Target[p] \/ content[f] \in Foreign

\* t is recorded as committed, nobody who worked on it was killed, and at most
\* one call has failed.
Whole(t) == /\ record[t] = "committed" /\ faults < 2
            /\ \A p \in Proc : Kind[p] # "gc" /\ Target[p] = t => pc[p] # "crashed"

CommitHolds(p) ==
  LET t == Target[p]  C == Changed[t] IN
  Kind[p] = "commit" =>
    /\ pc[p] = "verify" => \A f \in C \ todo[p] : Out(p, f)
    /\ pc[p] \in {"reverify", "mismatch", "audit"} => \A f \in C : Out(p, f)
    /\ record[t] = "committed" =>
         /\ pc[p] \in {"cleanup", "release"} /\ faults < 2 => \A f \in C : Out(p, f)
         /\ pc[p] \in {"catch", "unwind", "unwindpersist"} => faults > 0
         /\ pc[p] # "finish"
         /\ pc[p] \in {"abort", "rethrow"} => faults > 1

\* An undo keeps the after image of what it may have to roll forward.
Stages(p) ==
  LET C == Changed[Target[p]] IN
  Kind[p] = "undo" =>
    /\ renamed[p] \subseteq C
    /\ pc[p] = "urename" => todo[p] \subseteq C
    /\ pc[p] = "ustage" => \A f \in C \ todo[p] : <<f, "after">> \in siblings[p]
    /\ pc[p] \in {"ugate", "urename", "uverify", "urecord", "ucatch"} =>
         \A f \in C : <<f, "after">> \in siblings[p]
    /\ pc[p] = "uunwind" => \A f \in todo[p] : <<f, "after">> \in siblings[p]

UndoHolds(p) ==
  LET t == Target[p]  C == Changed[t] IN
  Kind[p] = "undo" =>
    /\ pc[p] = "uunwind" => clean[p] \/ faults > 0
    /\ pc[p] = "upartial" => faults > 0
    /\ Whole(t) =>
         /\ pc[p] \in {"uread", "ustage", "ugate", "uclean", "uleak", "release"} =>
              \A f \in C : Over(t, f)
         /\ pc[p] \in {"urename", "uverify", "urecord", "ucatch"} =>
              \A f \in C \ renamed[p] : Over(t, f)
         /\ pc[p] = "uunwind" /\ clean[p] => \A f \in C \ todo[p] : Over(t, f)

RepairHolds(p) ==
  Kind[p] = "repair" /\ pc[p] \notin Idle => record[Target[p]] # "committed"

LEMMA FaultsGrow ==
  ASSUME TypeOK, [Next]_vars
  PROVE  faults \in Nat /\ faults' \in Nat /\ faults <= faults'
<1>0. faults \in Nat
  BY Bounds DEF TypeOK
<1>1. ASSUME NEW p \in Proc, Run(p) \/ Crash(p)
      PROVE  faults' = faults \/ faults' = faults + 1
  BY <1>1, FaultsCount DEF Fault
<1>2. faults' = faults \/ faults' = faults + 1
  BY <1>1 DEF Next, ForeignEdit, vars
<1> QED BY <1>0, <1>2

LEMMA CommitHoldsStep ==
  ASSUME TypeOK, NEW p \in Proc, Sole(p), Commit(p), CommitHolds(p)
  PROVE  CommitHolds(p)'
<1> USE DEF CommitHolds, Enter, Finished
<1>t. /\ Changed[Target[p]] \subseteq File /\ Target[p] \in Txn
      /\ renamed[p] \subseteq File /\ todo[p] \subseteq File
  BY LocalTypes
<1>k. Kind[p] = "commit"
  BY DEF Commit
<1>f. faults \in Nat /\ faults' \in Nat /\ faults <= faults'
  BY FaultsGrow DEF Next, Run
<1>e. pc[p] \in Early => record[Target[p]] = "none"
  BY <1>k DEF Sole
<1>s. record' = record \/ ~(record'[Target[p]] = "committed") \/ pc[p] = "audit"
  <2>1. Recorded(p)
    BY StepRecorded DEF Run
  <2> QED BY <1>k, <1>t, <2>1 DEF Recorded, Concludes, UnwoundState, TypeOK
<1> USE DEF Early
<1>1. CASE Snapshot(p) \/ Prepare(p) \/ Precheck(p)
  BY <1>1, <1>e DEF Snapshot, Prepare, Precheck, CheckFile, Advance, TypeOK
<1>2. CASE Acquire(p)
  BY <1>2, <1>e DEF Acquire, Advance, TakeLock, TypeOK
<1>3. CASE Recheck(p) \/ Gate(p)
  BY <1>3, <1>e DEF Recheck, Gate, CheckFile, Advance, TypeOK
<1>4. CASE StageBefore(p) \/ StageAfter(p) \/ RetainBefore(p)
  BY <1>4, <1>e DEF StageBefore, StageAfter, RetainBefore, TypeOK
<1>5. CASE FinalGate(p) \/ StartRenames(p)
  BY <1>5, <1>e DEF FinalGate, StartRenames, CheckFile, Advance, TypeOK
<1>6. CASE RenameOver(p)
  BY <1>6, <1>e DEF RenameOver, TypeOK
<1>7. CASE SyncRenames(p)
  BY <1>7, <1>e, <1>t DEF SyncRenames, Sync, TypeOK
<1>8. CASE VerifyOutputs(p)
  <2>1. PICK f \in todo[p] :
          \/ /\ content[f] = After(Target[p])[f]
             /\ todo' = [todo EXCEPT ![p] = @ \ {f}]
             /\ pc' = pc
          \/ Enter(p, "catch", {})
    BY <1>8 DEF VerifyOutputs, CheckFile
  <2>2. pc[p] = "verify" /\ content' = content /\ record' = record
    BY <1>8 DEF VerifyOutputs, CheckFile
  <2>3. content[f] = After(Target[p])[f] => Out(p, f)'
    BY <1>t, <2>2 DEF After, Out
  <2>4. \A g \in File : Out(p, g) => Out(p, g)'
    BY <2>2 DEF Out
  <2> QED BY <1>k, <1>e, <1>t, <2>1, <2>2, <2>3, <2>4 DEF TypeOK
<1>9. CASE Validate(p) \/ Reverify(p)
  <2>1. /\ pc[p] \in {"verify", "reverify", "mismatch"} /\ content' = content
        /\ pc[p] = "verify" => todo[p] = {}
        /\ pc'[p] \in {"reverify", "mismatch", "audit"} /\ record' = record
    BY <1>9 DEF Validate, Reverify, CheckFile, Advance, TypeOK
  <2> QED BY <1>k, <1>e, <2>1 DEF Out
<1>10. CASE Audit(p)
  <2>1. /\ pc[p] = "audit" /\ content' = content
        /\ \/ pc'[p] = "cleanup" \/ pc'[p] = "rollback"
           \/ pc'[p] = "catch" /\ faults' = faults + 1
    BY <1>10 DEF Audit, PersistFails, Fault, TypeOK
  <2> QED BY <1>k, <1>f, <2>1 DEF Out
<1>11. CASE Rollback(p) \/ Unwind(p)
  BY <1>11, <1>k, <1>f DEF Rollback, Unwind, RestoreLast, TypeOK
<1>12. CASE SyncRollback(p) \/ SyncUnwind(p)
  <2>1. /\ record' = record
        /\ \/ pc[p] = "rollback" /\ pc'[p] = "rbverify"
           \/ pc[p] = "rollback" /\ pc'[p] = "catch" /\ faults' = faults + 1
           \/ pc[p] = "unwind" /\ pc'[p] = "unwindpersist"
           \/ pc[p] = "unwind" /\ pc'[p] = "abort" /\ faults' = faults + 1
    BY <1>12 DEF SyncRollback, SyncUnwind, Sync, Fault, TypeOK
  <2> QED BY <1>k, <1>f, <2>1
<1>13. CASE VerifyRollback(p)
  <2>1. pc'[p] \in {"rbverify", "rbdiffers", "rbpersist"}
    BY <1>13 DEF VerifyRollback, CheckFile, Advance, TypeOK
  <2> QED BY <2>1
<1>14. CASE RecordRollback(p)
  <2>1. \/ pc'[p] = "cleanup" /\ record'[Target[p]] # "committed"
        \/ pc'[p] = "catch" /\ faults' = faults + 1
    BY <1>14, <1>t DEF RecordRollback, Conclude, PersistRecord, PersistFails,
       Fault, TypeOK
  <2> QED BY <1>f, <2>1
<1>15. CASE Cleanup(p)
  <2>1. /\ pc[p] = "cleanup" /\ content' = content /\ record' = record
        /\ \/ pc'[p] \in {"cleanup", "release"}
           \/ pc'[p] = "catch" /\ faults' = faults + 1
    BY <1>15 DEF Cleanup, UnlinkSibling, Advance, Fault, TypeOK
  <2> QED BY <1>k, <1>f, <2>1 DEF Out
<1>16. CASE Catch(p)
  BY <1>16, <1>k, <1>f DEF Catch, TypeOK
<1>17. CASE RecordUnwind(p)
  <2>1. /\ pc[p] = "unwindpersist"
        /\ \/ pc'[p] = "finish" /\ record'[Target[p]] # "committed"
           \/ pc'[p] = "abort" /\ faults' = faults + 1
    BY <1>17, <1>t DEF RecordUnwind, Conclude, PersistRecord, PersistFails,
       UnwoundState, Fault, TypeOK
  <2> QED BY <1>k, <1>f, <1>s, <2>1
<1>18. CASE Finish(p) \/ Abort(p)
  <2>1. /\ record' = record
        /\ pc[p] = "finish" \/ (pc[p] \in {"abort", "rethrow"})
        /\ pc'[p] \in {"finish", "abort", "rethrow", "release"}
        /\ pc'[p] = "finish" => pc[p] = "finish"
    BY <1>18 DEF Finish, Abort, UnlinkSibling, Throw, Advance, TypeOK
  <2> QED BY <1>k, <1>f, <2>1
<1>19. CASE ReleaseLock(p)
  BY <1>19 DEF ReleaseLock, TypeOK
<1> QED
  BY <1>1, <1>2, <1>3, <1>4, <1>5, <1>6, <1>7, <1>8, <1>9, <1>10, <1>11,
     <1>12, <1>13, <1>14, <1>15, <1>16, <1>17, <1>18, <1>19 DEF Commit

LEMMA StagesStep ==
  ASSUME TypeOK, NEW p \in Proc, Undo(p), Stages(p)
  PROVE  Stages(p)'
<1> USE DEF Stages, Enter, Finished
<1>t. /\ Changed[Target[p]] \subseteq File
      /\ renamed[p] \subseteq File /\ todo[p] \subseteq File
  BY LocalTypes
<1>k. Kind[p] = "undo"
  BY DEF Undo
<1>1. CASE LoadCommitted(p) \/ Preview(p) \/ AcquireUndo(p) \/ ReadImages(p)
  BY <1>1, <1>k DEF LoadCommitted, Preview, AcquireUndo, ReadImages,
     UndoableFile, Advance, TakeLock, TypeOK
<1>2. CASE StageRestore(p)
  <2>1. CASE Advance(p, "uread", "ustage", Changed[Target[p]])
    BY <1>k, <2>1 DEF Advance, TypeOK
  <2>2. CASE ~Advance(p, "uread", "ustage", Changed[Target[p]])
    <3>1. PICK f \in todo[p] :
            \/ /\ siblings' = [siblings EXCEPT ![p] = @ \cup {<<f, "before">>}]
               /\ todo' = [todo EXCEPT ![p] = @] /\ pc' = pc
            \/ /\ siblings' = [siblings EXCEPT ![p] = @ \cup {<<f, "after">>}]
               /\ todo' = [todo EXCEPT ![p] = @ \ {f}] /\ pc' = pc
            \/ Enter(p, "uclean", {})
      BY <1>2, <2>2 DEF StageRestore, WriteSibling
    <3>2. pc[p] = "ustage" /\ renamed' = renamed
      BY <1>2, <2>2 DEF StageRestore
    <3> QED BY <1>k, <1>t, <3>1, <3>2 DEF TypeOK
  <2> QED BY <2>1, <2>2
<1>3. CASE UndoGate(p)
  <2>1. CASE Advance(p, "ustage", "ugate", Changed[Target[p]])
    BY <1>k, <2>1 DEF Advance, TypeOK
  <2>2. CASE Advance(p, "ugate", "urename", Changed[Target[p]])
    BY <1>k, <2>2 DEF Advance, TypeOK
  <2>3. CASE CheckFile(p, "ugate", After(Target[p]), "uclean")
    BY <1>k, <2>3 DEF CheckFile, TypeOK
  <2> QED BY <1>3, <2>1, <2>2, <2>3 DEF UndoGate
<1>4. CASE RestoreFile(p)
  <2>1. PICK f \in todo[p] :
          \/ /\ siblings' = [siblings EXCEPT ![p] = @ \ {<<f, "before">>}]
             /\ renamed' = [renamed EXCEPT ![p] = @ \cup {f}]
             /\ pc' = pc
          \/ siblings' = siblings /\ renamed' = renamed /\ Enter(p, "ucatch", {})
    BY <1>4 DEF RestoreFile, RenameSibling, RenameFails
  <2>2. pc[p] = "urename"
    BY <1>4 DEF RestoreFile
  <2>3. pc'[p] \in {"urename", "ucatch"}
    BY <2>1, <2>2 DEF TypeOK
  <2>4. \A g \in Changed[Target[p]] : <<g, "after">> \in siblings'[p]
    BY <1>k, <2>1, <2>2 DEF TypeOK
  <2>5. todo[p] \subseteq Changed[Target[p]] /\ renamed[p] \subseteq Changed[Target[p]]
    BY <1>k, <2>2
  <2>6. renamed'[p] \subseteq Changed[Target[p]]
    BY <2>1, <2>5 DEF TypeOK
  <2>7. todo'[p] \subseteq todo[p]
    BY <1>4 DEF RestoreFile, TypeOK
  <2> QED BY <1>k, <2>3, <2>4, <2>5, <2>6, <2>7
<1>5. CASE SyncRestore(p) \/ VerifyRestore(p) \/ RecordUndone(p)
  <2>1. /\ siblings' = siblings /\ renamed' = renamed
        /\ pc[p] \in {"urename", "uverify", "urecord"}
        /\ pc'[p] \in {"uverify", "urecord", "ucatch", "uclean"}
    BY <1>5 DEF SyncRestore, VerifyRestore, RecordUndone, Sync, CheckFile,
       Advance, Conclude, TypeOK
  <2> QED BY <1>k, <2>1
<1>6. CASE CatchUndo(p)
  BY <1>6, <1>k DEF CatchUndo, TypeOK
<1>7. CASE RollForward(p)
  <2>1. PICK f \in todo[p] :
          /\ todo' = [todo EXCEPT ![p] = @ \ {f}]
          /\ \/ siblings' = [siblings EXCEPT ![p] = @ \ {<<f, "after">>}]
             \/ siblings' = siblings
    BY <1>7 DEF RollForward, RestoreLast, RenameSibling, RenameFails
  <2>2. pc[p] = "uunwind" /\ pc' = pc /\ renamed' = renamed
    BY <1>7 DEF RollForward, RestoreLast
  <2> QED BY <1>k, <2>1, <2>2 DEF TypeOK
<1>8. CASE JudgeUnwind(p) \/ RecordPartial(p)
  BY <1>8, <1>k DEF JudgeUnwind, RecordPartial, Advance, Conclude, TypeOK
<1>9. CASE CleanUndo(p)
  BY <1>9, <1>k DEF CleanUndo, UnlinkSibling, Throw, Advance, TypeOK
<1>10. CASE ReleaseLock(p)
  BY <1>10, <1>k DEF ReleaseLock, Forget, TypeOK
<1> QED BY <1>1, <1>2, <1>3, <1>4, <1>5, <1>6, <1>7, <1>8, <1>9, <1>10 DEF Undo

LEMMA OverKept ==
  ASSUME NEW t, NEW f, Over(t, f), content'[f] = content[f], before' = before
  PROVE  Over(t, f)'
  BY DEF Over, Stems

LEMMA WholeStays ==
  ASSUME TypeOK, [Next]_vars, NEW t \in Txn, Whole(t)', record[t] = "committed"
  PROVE  Whole(t)
<1>1. faults < 2
  BY FaultsGrow DEF Whole
<1>2. ASSUME NEW q \in Proc, Kind[q] # "gc", Target[q] = t, pc[q] = "crashed"
      PROVE  FALSE
  <2>1. pc'[q] # "crashed"
    BY <1>2 DEF Whole
  <2>2. PICK p \in Proc : Run(p) \/ Crash(p)
    BY <1>2, <2>1 DEF Next, ForeignEdit, vars
  <2>3. p = q
    BY <1>2, <2>1, <2>2, Others DEF Same
  <2> QED BY <1>2, <2>2, <2>3, NobodyRises
<1> QED BY <1>1, <1>2 DEF Whole

\* Only an audit records a commit.
LEMMA CommitsAtAudit ==
  ASSUME TypeOK, NEW p \in Proc, Run(p) \/ Crash(p), NEW t \in Txn,
         record[t] # "committed", record'[t] = "committed"
  PROVE  Kind[p] = "commit" /\ Target[p] = t /\ pc[p] = "audit"
<1>1. Recorded(p)
  BY StepRecorded
<1>2. PICK s : /\ Concludes(p, s)
               /\ record' = [record EXCEPT ![Target[p]] = s]
  BY <1>1 DEF Recorded, TypeOK
<1>3. Target[p] = t /\ s = "committed"
  BY <1>2 DEF TypeOK
<1> QED BY <1>2, <1>3 DEF Concludes, UnwoundState

AppliedInv == \A t \in Txn :
  /\ Whole(t)
  /\ \A p \in Proc : Kind[p] # "gc" /\ Target[p] = t => pc[p] \notin Locked
 => \A f \in Changed[t] : Applied(t, f)

LEMMA UndoHoldsStep ==
  ASSUME TypeOK, GateInv, NEW p \in Proc, Undo(p), Stages(p), UndoHolds(p),
         AppliedInv
  PROVE  UndoHolds(p)'
<1> DEFINE t == Target[p]
           C == Changed[t]
<1>t. t \in Txn /\ C \subseteq File /\ renamed[p] \subseteq File /\ todo[p] \subseteq File
  BY LocalTypes
<1>k. Kind[p] = "undo"
  BY DEF Undo
<1>n. [Next]_vars /\ Run(p)
  BY DEF Next, Run
<1>f. faults \in Nat /\ faults' \in Nat /\ faults <= faults'
  BY <1>n, FaultsGrow
<1>w. Whole(t)' => Whole(t)
  <2>1. record'[t] = "committed" => record[t] = "committed"
    BY <1>k, <1>n, <1>t, CommitsAtAudit
  <2> QED BY <1>n, <1>t, <2>1, WholeStays DEF Whole
<1>o. before' = before /\ content' = content => \A f \in C : Over(t, f) => Over(t, f)'
  BY OverKept
<1> USE DEF UndoHolds, Enter, Finished
<1>1. CASE LoadCommitted(p) \/ Preview(p)
  BY <1>1, <1>k DEF LoadCommitted, Preview, UndoableFile, TypeOK
<1>2. CASE AcquireUndo(p)
  <2>1. CASE pc'[p] # "uread"
    BY <1>2, <2>1, <1>k DEF AcquireUndo, Advance, TakeLock, TypeOK
  <2>2. CASE pc'[p] = "uread" /\ Whole(t)'
    <3>1. /\ before' = before /\ content' = content /\ pc[p] = "lock"
          /\ lock = None \/ ~Live(lock)
      BY <1>2, <2>2 DEF AcquireUndo, Advance, TakeLock, TypeOK
    <3>2. \A q \in Proc : pc[q] \notin Locked
      BY <3>1, RepositoryConstants DEF GateInv, LockHeld, Live, Locked
    <3>3. \A f \in C : Over(t, f)
      BY <1>t, <1>w, <2>2, <3>2 DEF AppliedInv, Applied, Settled, Over
    <3> QED BY <1>k, <1>o, <2>2, <3>1, <3>3
  <2> QED BY <2>1, <2>2, <1>k
<1>3. CASE ReadImages(p) \/ StageRestore(p)
  <2>1. /\ before' = before /\ content' = content
        /\ pc[p] \in {"uread", "ustage"} /\ pc'[p] \in {"uread", "ustage", "uclean"}
    BY <1>3 DEF ReadImages, StageRestore, UndoableFile, Advance, TypeOK
  <2> QED BY <1>k, <1>o, <1>w, <2>1
<1>4. CASE UndoGate(p)
  <2>1. /\ before' = before /\ content' = content
        /\ pc[p] \in {"ustage", "ugate"} /\ pc'[p] \in {"ugate", "urename", "uclean"}
    BY <1>4 DEF UndoGate, CheckFile, Advance, TypeOK
  <2> QED BY <1>k, <1>o, <1>w, <2>1
<1>5. CASE RestoreFile(p)
  <2>1. PICK f \in todo[p] :
          \/ /\ content' = [content EXCEPT ![f] = before[t][f]]
             /\ renamed' = [renamed EXCEPT ![p] = @ \cup {f}]
             /\ pc' = pc
          \/ content' = content /\ renamed' = renamed /\ Enter(p, "ucatch", {})
    BY <1>5 DEF RestoreFile, RenameSibling, RenameFails
  <2>2. pc[p] = "urename" /\ before' = before
    BY <1>5 DEF RestoreFile
  <2>3. pc'[p] \in {"urename", "ucatch"}
    BY <2>1, <2>2 DEF TypeOK
  <2>4. \A g \in C \ renamed'[p] : g \notin renamed[p] /\ content'[g] = content[g]
    BY <1>t, <2>1 DEF TypeOK
  <2>5. Whole(t)' => \A g \in C \ renamed'[p] : Over(t, g)'
    BY <1>k, <1>w, <2>2, <2>4, OverKept
  <2> QED BY <2>3, <2>5
<1>6. CASE SyncRestore(p) \/ VerifyRestore(p)
  <2>1. /\ before' = before /\ content' = content /\ renamed' = renamed
        /\ pc[p] \in {"urename", "uverify"}
        /\ pc'[p] \in {"uverify", "urecord", "ucatch"}
    BY <1>6 DEF SyncRestore, VerifyRestore, Sync, CheckFile, Advance, TypeOK
  <2> QED BY <1>k, <1>o, <1>w, <2>1
<1>7. CASE RecordUndone(p)
  <2>1. /\ before' = before /\ content' = content /\ renamed' = renamed
        /\ pc[p] = "urecord"
        /\ \/ pc'[p] = "ucatch"
           \/ pc'[p] = "uclean" /\ record'[t] # "committed"
    BY <1>7, <1>t DEF RecordUndone, Conclude, PersistRecord, TypeOK
  <2> QED BY <1>k, <1>o, <1>w, <2>1 DEF Whole
<1>8. CASE CatchUndo(p)
  <2>1. /\ before' = before /\ content' = content /\ pc[p] = "ucatch"
        /\ pc'[p] = "uunwind" /\ todo'[p] = renamed[p] /\ clean'[p] = TRUE
    BY <1>8 DEF CatchUndo, TypeOK
  <2> QED BY <1>k, <1>o, <1>w, <2>1
<1>9. CASE RollForward(p)
  <2>1. PICK f \in todo[p] :
          /\ todo' = [todo EXCEPT ![p] = @ \ {f}]
          /\ \/ content' = [content EXCEPT ![f] = t] /\ clean' = clean
             \/ /\ content' = content /\ clean' = [clean EXCEPT ![p] = FALSE]
                /\ <<f, "after">> \in siblings[p] => Fault("rename")
    BY <1>9, <1>t DEF RollForward, RestoreLast, RenameSibling, RenameFails, After
  <2>2. pc[p] = "uunwind" /\ pc' = pc /\ before' = before
    BY <1>9 DEF RollForward, RestoreLast
  <2>3. clean'[p] => clean[p] /\ content' = [content EXCEPT ![f] = t]
    BY <2>1 DEF TypeOK
  <2>4. clean'[p] \/ faults' > 0
    <3>1. CASE clean' = clean
      BY <1>f, <1>k, <2>2, <3>1
    <3>2. CASE clean' # clean
      BY <1>f, <1>k, <2>1, <2>2, <3>2 DEF Stages, Fault
    <3> QED BY <3>1, <3>2
  <2>5. ASSUME Whole(t)', clean'[p], NEW g \in C \ todo'[p]
        PROVE  Over(t, g)'
    <3>1. CASE g = f
      <4>1. content'[g] \in {t} \cup Foreign
        BY <1>t, <2>3, <2>5, <3>1 DEF TypeOK
      <4>2. {t} \cup Foreign \subseteq Stems({t} \cup Foreign, g)
        BY <1>t, StemsBase DEF Content
      <4>3. Stems({t} \cup Foreign, g)' = Stems({t} \cup Foreign, g)
        BY <2>2 DEF Stems
      <4> QED BY <4>1, <4>2, <4>3 DEF Over
    <3>2. CASE g # f
      <4>1. g \notin todo[p] /\ content'[g] = content[g] /\ clean[p]
        BY <1>t, <2>1, <2>3, <2>5, <3>2 DEF TypeOK
      <4> QED BY <1>k, <1>w, <2>2, <2>5, <4>1, OverKept
    <3> QED BY <3>1, <3>2
  <2> QED BY <1>k, <2>2, <2>4, <2>5
<1>10. CASE JudgeUnwind(p)
  <2>1. /\ before' = before /\ content' = content /\ pc[p] = "uunwind"
        /\ todo[p] = {} /\ clean[p] \in BOOLEAN
        /\ pc'[p] = IF clean[p] THEN "uclean" ELSE "upartial"
    BY <1>10 DEF JudgeUnwind, Advance, TypeOK
  <2> QED BY <1>k, <1>f, <1>o, <1>w, <2>1
<1>11. CASE RecordPartial(p)
  <2>1. /\ pc[p] = "upartial" /\ pc'[p] = "uclean"
        /\ record'[t] # "committed" \/ faults' = faults + 1
    BY <1>11, <1>t DEF RecordPartial, Conclude, PersistRecord, PersistFails,
       Fault, TypeOK
  <2>2. ~Whole(t)'
    BY <1>f, <1>k, <2>1 DEF Whole
  <2> QED BY <1>k, <2>1, <2>2
<1>12. CASE CleanUndo(p)
  <2>1. /\ before' = before /\ content' = content
        /\ pc[p] \in {"uclean", "uleak"} /\ pc'[p] \in {"uclean", "uleak", "release", "done"}
    BY <1>12 DEF CleanUndo, UnlinkSibling, Advance, Throw, TypeOK
  <2> QED BY <1>k, <1>o, <1>w, <2>1
<1>13. CASE ReleaseLock(p)
  BY <1>13, <1>k DEF ReleaseLock, TypeOK
<1> QED
  BY <1>1, <1>2, <1>3, <1>4, <1>5, <1>6, <1>7, <1>8, <1>9, <1>10, <1>11,
     <1>12, <1>13 DEF Undo

\* While p has the lock nobody else writes a file or a record.
LEMMA AloneWrites ==
  ASSUME TypeOK, GateInv, NEW p \in Proc, pc[p] \in Locked,
         \/ ForeignEdit
         \/ \E q \in Proc : q # p /\ (Run(q) \/ Crash(q))
  PROVE  /\ record' = record
         /\ \A f \in File : content'[f] = content[f] \/ content'[f] \in Foreign
<1>1. CASE ForeignEdit
  BY <1>1 DEF ForeignEdit, TypeOK
<1>2. ASSUME NEW q \in Proc, q # p, Run(q) \/ Crash(q)
      PROVE  record' = record /\ content' = content
  <2>1. Writes(q) /\ Records(q)
    BY <1>2, StepEffect DEF Effect
  <2>2. pc[q] \notin Locked
    BY <1>2, RepositoryConstants DEF GateInv, LockHeld
  <2> QED BY <2>1, <2>2 DEF Writes, Records, Locked
<1> QED BY <1>1, <1>2

Applies(p) == CommitHolds(p) /\ UndoHolds(p) /\ RepairHolds(p) /\ Stages(p)

LEMMA AppliesStep ==
  ASSUME TypeOK, TypeOK', GateInv, GateInv', \A q \in Proc : Sole(q) /\ Unseen(q),
         AppliedInv, NEW p \in Proc, Applies(p), [Next]_vars
  PROVE  Applies(p)'
<1> DEFINE t == Target[p]
           C == Changed[t]
<1>t. t \in Txn /\ C \subseteq File
  BY LocalTypes
<1>k. Kind[p] \in {"commit", "undo", "repair", "gc"}
  BY RepositoryConstants
<1>1. CASE UNCHANGED vars
  BY <1>1 DEF vars, Applies, CommitHolds, UndoHolds, RepairHolds, Stages, Out,
     Over, Whole, Stems
<1>2. ASSUME Run(p) \/ Crash(p)
      PROVE  Applies(p)'
  <2>1. CASE Crash(p)
    <3>1. pc'[p] = "crashed" /\ renamed'[p] = {}
      BY <2>1 DEF Crash, Enter, Forget, TypeOK
    <3> QED BY <3>1 DEF Applies, CommitHolds, UndoHolds, RepairHolds, Stages, Idle
  <2>2. CASE Commit(p)
    BY <2>2, CommitHoldsStep DEF Commit, Applies, UndoHolds, RepairHolds, Stages
  <2>3. CASE Undo(p)
    BY <2>3, UndoHoldsStep, StagesStep DEF Undo, Applies, CommitHolds, RepairHolds
  <2>4. CASE Repair(p)
    <3>1. Kind[p] = "repair"
      BY <2>4 DEF Repair
    <3>2. CASE record'[t] = "committed" /\ pc'[p] \notin Idle
      <4>1. record[t] = "committed"
        BY <1>2, <1>t, <3>1, <3>2, CommitsAtAudit
      <4>2. pc[p] \in Idle
        BY <3>1, <4>1 DEF Applies, RepairHolds
      <4>3. pc'[p] \in Idle
        BY <2>4, <4>1, <4>2 DEF Repair, LoadPartial, Blocked, Enter, Classify,
           AcquireRepair, RecheckChosen, StageImage, RenameImage, SyncImage,
           VerifyImage, RecordRepaired, ReleaseLock, Advance, Finished, TakeLock,
           Conclude, Idle, TypeOK
      <4> QED BY <3>2, <4>3
    <3> QED BY <3>1, <3>2 DEF Applies, CommitHolds, UndoHolds, RepairHolds, Stages
  <2>5. CASE Gc(p)
    BY <2>5 DEF Gc, Applies, CommitHolds, UndoHolds, RepairHolds, Stages
  <2> QED BY <1>2, <2>1, <2>2, <2>3, <2>4, <2>5 DEF Run
<1>3. ASSUME ForeignEdit \/ \E q \in Proc : q # p /\ (Run(q) \/ Crash(q))
      PROVE  Applies(p)'
  <2>1. /\ pc'[p] = pc[p] /\ todo'[p] = todo[p] /\ renamed'[p] = renamed[p]
        /\ clean'[p] = clean[p] /\ siblings'[p] = siblings[p]
    <3>1. siblings'[p] = siblings[p]
      BY <1>3, Others DEF ForeignEdit, Same
    <3> QED BY <1>3, <3>1, OthersKeepLocals
  <2>2. faults \in Nat /\ faults' \in Nat /\ faults <= faults'
    BY FaultsGrow
  <2>3. Stages(p)'
    BY <2>1 DEF Applies, Stages
  <2>4. RepairHolds(p)'
    <3>1. ASSUME Kind[p] = "repair", pc[p] \notin Idle
          PROVE  record'[t] # "committed"
      <4> SUFFICES ASSUME record'[t] = "committed" PROVE FALSE
        OBVIOUS
      <4>1. record[t] # "committed"
        BY <3>1 DEF Applies, RepairHolds
      <4>2. PICK q \in Proc : Run(q) \/ Crash(q)
        BY <1>3, <4>1 DEF ForeignEdit
      <4>3. Kind[q] = "commit" /\ Target[q] = t /\ pc[q] = "audit"
        BY <1>t, <4>1, <4>2, CommitsAtAudit
      <4> QED BY <3>1, <4>3 DEF Sole, Early
    <3> QED BY <2>1, <3>1 DEF RepairHolds
  <2>5. CASE pc[p] \notin Locked
    <3>1. pc[p] \notin {"verify", "reverify", "mismatch", "audit", "cleanup",
            "release", "catch", "unwind", "unwindpersist", "finish", "abort",
            "rethrow", "uunwind", "upartial", "uread", "ustage", "ugate",
            "uclean", "uleak", "urename", "uverify", "urecord", "ucatch"}
      BY <2>5 DEF Locked
    <3> QED BY <2>1, <2>3, <2>4, <3>1 DEF Applies, CommitHolds, UndoHolds
  <2>6. CASE pc[p] \in Locked
    <3>1. /\ record' = record
          /\ \A f \in File : content'[f] = content[f] \/ content'[f] \in Foreign
      BY <1>3, <2>6, AloneWrites
    <3>2. \A f \in C : Out(p, f) => Out(p, f)'
      BY <1>t, <3>1 DEF Out
    <3>3. \A f \in C : Over(t, f) => Over(t, f)'
      BY <1>3, <1>t, <2>1, <2>6, OverAmongOthers
    <3>4. Whole(t)' => Whole(t)
      BY <1>t, <3>1, WholeStays DEF Whole
    <3>5. CommitHolds(p)'
      BY <2>1, <2>2, <3>1, <3>2 DEF Applies, CommitHolds
    <3>6. UndoHolds(p)'
      BY <2>1, <2>2, <3>3, <3>4 DEF Applies, UndoHolds
    <3> QED BY <2>3, <2>4, <3>5, <3>6 DEF Applies
  <2> QED BY <2>5, <2>6
<1> QED BY <1>1, <1>2, <1>3 DEF Next

\* An operation leaves the lock through release, or at an unlink that failed.
LEMMA LeavesAtEnd ==
  ASSUME TypeOK, NEW p \in Proc, Run(p), Kind[p] # "gc", pc[p] \in Locked,
         pc'[p] \notin Locked
  PROVE  pc[p] = "release" \/ (Kind[p] = "undo" /\ pc[p] = "uleak")
<1> USE DEF Locked, Enter
<1>1. CASE Commit(p)
  <2>1. CASE Snapshot(p) \/ Prepare(p) \/ Precheck(p) \/ Acquire(p)
             \/ Recheck(p) \/ Gate(p) \/ FinalGate(p) \/ StartRenames(p)
    BY <2>1 DEF Snapshot, Prepare, Precheck, Acquire, Recheck, Gate, FinalGate,
       StartRenames, CheckFile, Advance, Finished, TakeLock, TypeOK
  <2>2. CASE StageBefore(p) \/ StageAfter(p) \/ RetainBefore(p) \/ RenameOver(p)
    BY <2>2 DEF StageBefore, StageAfter, RetainBefore, RenameOver, TypeOK
  <2>3. CASE SyncRenames(p) \/ VerifyOutputs(p) \/ Validate(p) \/ Reverify(p)
             \/ Audit(p)
    BY <2>3 DEF SyncRenames, VerifyOutputs, Validate, Reverify, Audit, Sync,
       CheckFile, Advance, Finished, TypeOK
  <2>4. CASE Rollback(p) \/ Unwind(p) \/ SyncRollback(p) \/ SyncUnwind(p)
             \/ VerifyRollback(p) \/ Catch(p)
    BY <2>4 DEF Rollback, Unwind, SyncRollback, SyncUnwind, VerifyRollback,
       Catch, RestoreLast, Sync, CheckFile, Advance, Finished, TypeOK
  <2>5. CASE RecordRollback(p) \/ RecordUnwind(p) \/ Cleanup(p) \/ Finish(p)
             \/ Abort(p) \/ ReleaseLock(p)
    BY <2>5 DEF RecordRollback, RecordUnwind, Cleanup, Finish, Abort,
       ReleaseLock, Conclude, UnlinkSibling, Throw, Advance, Finished, TypeOK
  <2> QED BY <1>1, <2>1, <2>2, <2>3, <2>4, <2>5 DEF Commit
<1>2. CASE Undo(p)
  <2>1. CASE LoadCommitted(p) \/ Preview(p) \/ AcquireUndo(p) \/ ReadImages(p)
    BY <2>1 DEF LoadCommitted, Preview, AcquireUndo, ReadImages, UndoableFile,
       Advance, Finished, TakeLock, TypeOK
  <2>2. CASE StageRestore(p) \/ UndoGate(p) \/ RestoreFile(p) \/ SyncRestore(p)
             \/ VerifyRestore(p)
    BY <2>2 DEF StageRestore, UndoGate, RestoreFile, SyncRestore, VerifyRestore,
       CheckFile, Advance, Finished, Sync, TypeOK
  <2>3. CASE RecordUndone(p) \/ CatchUndo(p) \/ RollForward(p) \/ JudgeUnwind(p)
             \/ RecordPartial(p)
    BY <2>3 DEF RecordUndone, CatchUndo, RollForward, JudgeUnwind, RecordPartial,
       RestoreLast, Advance, Finished, Conclude, TypeOK
  <2>4. CASE CleanUndo(p) \/ ReleaseLock(p)
    BY <1>2, <2>4 DEF Undo, CleanUndo, ReleaseLock, Advance, Finished,
       UnlinkSibling, Throw, TypeOK
  <2> QED BY <1>2, <2>1, <2>2, <2>3, <2>4 DEF Undo
<1>3. CASE Repair(p)
  BY <1>3 DEF Repair, LoadPartial, Classify, Blocked, AcquireRepair,
     RecheckChosen, StageImage, RenameImage, SyncImage, VerifyImage,
     RecordRepaired, ReleaseLock, Advance, Finished, TakeLock, Conclude, TypeOK
<1> QED BY <1>1, <1>2, <1>3 DEF Run, Gc

LEMMA AppliedInvStep ==
  ASSUME TypeOK, TypeOK', GateInv, \A q \in Proc : Sole(q) /\ Unseen(q),
         AppliedInv, \A q \in Proc : Applies(q), [Next]_vars
  PROVE  AppliedInv'
<1> SUFFICES ASSUME NEW t \in Txn, Whole(t)',
                    \A p \in Proc : Kind[p] # "gc" /\ Target[p] = t
                                      => pc'[p] \notin Locked,
                    NEW f \in Changed[t]
             PROVE  Applied(t, f)'
  BY DEF AppliedInv
<1>0. f \in File
  BY RepositoryConstants
<1>1. Whole(t)
  <2>1. CASE record[t] = "committed"
    BY <2>1, WholeStays
  <2>2. CASE record[t] # "committed"
    <3>1. PICK p \in Proc : Run(p) \/ Crash(p)
      BY <2>2 DEF Next, ForeignEdit, vars, Whole
    <3>2. Kind[p] = "commit" /\ Target[p] = t /\ pc[p] = "audit"
      BY <2>2, <3>1, CommitsAtAudit DEF Whole
    <3>3. pc'[p] # "crashed" /\ pc'[p] \notin Locked
      BY <3>2 DEF Whole
    <3>4. Run(p)
      BY <3>1, <3>3 DEF Crash, Enter, TypeOK
    <3> QED BY <3>2, <3>3, <3>4, LeavesAtEnd DEF Locked
  <2> QED BY <2>1, <2>2
<1>2. CASE \A p \in Proc : Kind[p] # "gc" /\ Target[p] = t => pc[p] \notin Locked
  <2>1. Applied(t, f)
    BY <1>1, <1>2 DEF AppliedInv
  <2>2. ASSUME NEW p \in Proc, Acts(p), Target[p] = t
        PROVE  content' = content
    <3>1. Writes(p) /\ pc[p] \notin Locked
      BY <1>2, <2>2, StepEffect DEF Effect, Acts
    <3> QED BY <3>1 DEF Writes, Locked
  <2> QED BY <1>0, <2>1, <2>2, AppliedStep
<1>3. CASE \E p \in Proc : Kind[p] # "gc" /\ Target[p] = t /\ pc[p] \in Locked
  <2>1. PICK p \in Proc : Kind[p] # "gc" /\ Target[p] = t /\ pc[p] \in Locked
    BY <1>3
  <2>2. pc'[p] \notin Locked /\ pc'[p] # "crashed"
    BY <2>1 DEF Whole
  <2>3. Run(p)
    <3>1. PICK q \in Proc : Run(q) \/ Crash(q)
      BY <2>1, <2>2 DEF Next, ForeignEdit, vars
    <3>2. q = p
      BY <2>1, <2>2, <3>1, Others DEF Same
    <3> QED BY <2>2, <3>1, <3>2 DEF Crash, Enter, TypeOK
  <2>4. pc[p] = "release" \/ (Kind[p] = "undo" /\ pc[p] = "uleak")
    BY <2>1, <2>2, <2>3, LeavesAtEnd
  <2>5. content' = content
    <3>1. Writes(p)
      BY <2>3, StepEffect DEF Effect
    <3> QED BY <2>4, <3>1 DEF Writes
  <2>6. Over(t, f)
    <3>1. CASE Kind[p] = "commit"
      <4>1. Out(p, f)
        BY <1>1, <2>1, <2>4, <3>1 DEF Applies, CommitHolds, Whole
      <4>2. {t} \cup Foreign \subseteq Stems({t} \cup Foreign, f)
        BY StemsBase DEF Content
      <4> QED BY <2>1, <4>1, <4>2 DEF Out, Over
    <3>2. CASE Kind[p] = "undo"
      BY <1>1, <2>1, <2>4, <3>2 DEF Applies, UndoHolds
    <3>3. CASE Kind[p] = "repair"
      BY <1>1, <2>1, <2>4, <3>3 DEF Applies, RepairHolds, Whole, Idle
    <3> QED BY <2>1, <3>1, <3>2, <3>3, RepositoryConstants
  <2>7. Applied(t, f)
    BY <2>1, <2>6, AloneApplied
  <2> QED BY <1>0, <2>5, <2>7, AppliedStep
<1> QED BY <1>2, <1>3

CommittedInv == AppliedInv /\ \A p \in Proc : Applies(p)

LEMMA CommittedAlways == Spec => []CommittedInv
<1>1. TypeOK /\ TypeOK' /\ GateInv /\ GateInv' /\ RevertedInv /\ CommittedInv
        /\ [Next]_vars => CommittedInv'
  BY AppliesStep, AppliedInvStep DEF RevertedInv, CommittedInv
<1>2. Init => CommittedInv
  <2> SUFFICES ASSUME Init PROVE CommittedInv
    OBVIOUS
  <2>1. AppliedInv
    BY DEF Init, AppliedInv, Whole
  <2>2. \A p \in Proc : pc[p] \in {"snapshot", "uload", "rload", "glist"}
                          /\ renamed[p] = {} /\ record[Target[p]] = "none"
    BY RepositoryConstants DEF Init, StartLabel
  <2> QED BY <2>1, <2>2
          DEF CommittedInv, Applies, CommitHolds, UndoHolds, RepairHolds, Stages
<1> QED BY <1>1, <1>2, TypeCorrect, GateAlways, RevertedAlways, PTL DEF Spec

\* Unless one of its processes was killed or two calls failed, a committed
\* record is true of the files: nobody puts back what was there before.
THEOREM CommittedIsApplied == Spec => []CommittedMeansApplied
<1>1. TypeOK /\ GateInv /\ CommittedInv => CommittedMeansApplied
  <2> SUFFICES ASSUME TypeOK, GateInv, CommittedInv, lock = None, faults < 2,
                      NEW t \in Txn, record[t] = "committed",
                      \A p \in Proc : Target[p] = t => pc[p] # "crashed",
                      NEW f \in Changed[t]
               PROVE  Since(content[f], f, t)
    BY DEF CommittedMeansApplied
  <2>1. \A p \in Proc : pc[p] \notin Locked
    BY RepositoryConstants DEF GateInv, LockHeld
  <2>2. Applied(t, f)
    BY <2>1 DEF CommittedInv, AppliedInv, Whole
  <2>3. content[f] \in Stems({t} \cup Foreign, f)
    BY <2>2 DEF Applied, Settled
  <2> QED BY <2>3 DEF Stems, Since
<1> QED BY <1>1, CommittedAlways, TypeCorrect, GateAlways, PTL

\* A record can be relied on.
THEOREM RecordsAreTruthful == Spec => []RecordTruthful
<1>1. ReturnedIsDurable /\ RevertedMeansGone /\ CommittedMeansApplied
        => RecordTruthful
  BY DEF RecordTruthful
<1> QED BY <1>1, ReturnsAreDurable, RevertedIsGone, CommittedIsApplied, PTL
=============================================================================
