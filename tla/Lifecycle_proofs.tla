-------------------------- MODULE Lifecycle_proofs --------------------------
(***************************************************************************)
(* First type correctness: one lemma per building block of Repository, one *)
(* per component. Then what a step of one process leaves alone and what it *)
(* may do to the shared state (Others, StepEffect), and from that:         *)
(* - before images are kept while anyone's output needs them (ImageInv);   *)
(* - what an operation finds in a file when it writes it (GateInv):        *)
(*   whoever is between acquireLock and releaseLock owns the lock, so that *)
(*   after its last look at a file only an editor can change it, and the   *)
(*   plan of a transaction is never remade while the transaction runs.     *)
(***************************************************************************)
EXTENDS Lifecycle, TLAPS

Label == Unlocked \cup Locked

USE DEF disk, loop, choice, rest, budget, faultVars, Goto, NoFault

LEMMA FaultType ==
  ASSUME TypeOK, NEW k \in FaultKind, Fault(k)
  PROVE  faults' \in 0..MaxFaults /\ faulted' \subseteq FaultKind
  BY Bounds DEF Fault, TypeOK

LEMMA KindsExist ==
  \A k \in {"read", "write", "rename", "sync", "record", "recordsync",
            "unlink", "lock", "prune"} : k \in FaultKind
  BY DEF FaultKind

LEMMA EndsExist == {"done", "crashed", "release"} \subseteq Label
  BY DEF Label, Unlocked, Locked

LEMMA EnterType ==
  ASSUME TypeOK, NEW p \in Proc, NEW l \in Label, NEW S \in SUBSET File,
         Enter(p, l, S)
  PROVE  pc' \in [Proc -> Label] /\ todo' \in [Proc -> SUBSET File]
  BY DEF Enter, TypeOK, Label

LEMMA ForgetType ==
  ASSUME TypeOK, NEW p \in Proc, Forget(p)
  PROVE  /\ renamed' \in [Proc -> SUBSET File]
         /\ clean' \in [Proc -> BOOLEAN]
         /\ passed' \in [Proc -> BOOLEAN]
         /\ window' \in [Proc -> SUBSET File]
<1>1. clean' \in [Proc -> BOOLEAN] /\ passed' \in [Proc -> BOOLEAN]
  BY DEF TypeOK, Forget
<1> QED BY <1>1 DEF TypeOK, Forget

LEMMA AdvanceType ==
  ASSUME TypeOK, NEW p \in Proc, NEW l, NEW to \in Label,
         NEW S \in SUBSET File, Advance(p, l, to, S)
  PROVE  TypeOK'
  BY EnterType DEF TypeOK, Advance, Label

LEMMA CheckFileType ==
  ASSUME TypeOK, NEW p \in Proc, NEW l, NEW e, NEW bad \in Label,
         CheckFile(p, l, e, bad)
  PROVE  TypeOK'
<1>1. /\ pc \in [Proc -> Label] /\ todo \in [Proc -> SUBSET File]
      /\ window \in [Proc -> SUBSET File]
  BY DEF TypeOK, Label
<1>2. pc' \in [Proc -> Label] /\ todo' \in [Proc -> SUBSET File]
  BY <1>1, EnterType DEF CheckFile
<1>3. faults' \in 0..MaxFaults /\ faulted' \subseteq FaultKind
  BY KindsExist, FaultType DEF TypeOK, CheckFile
<1>4. window' \in [Proc -> SUBSET File]
  BY <1>1 DEF CheckFile
<1>5. UNCHANGED <<disk, renamed, clean, rest, budget>>
  BY DEF CheckFile
<1> QED BY <1>2, <1>3, <1>4, <1>5 DEF TypeOK, Label

LEMMA TakeLockType ==
  ASSUME TypeOK, NEW p \in Proc, NEW to \in Label, NEW S \in SUBSET File,
         TakeLock(p, to, S)
  PROVE  TypeOK'
<1>1. pc' \in [Proc -> Label] /\ todo' \in [Proc -> SUBSET File]
  BY EndsExist, EnterType DEF TakeLock
<1>2. faults' \in 0..MaxFaults /\ faulted' \subseteq FaultKind
  BY KindsExist, FaultType DEF TypeOK, TakeLock
<1>3. lock' \in Proc \cup {None}
  BY DEF TakeLock, TypeOK
<1>4. UNCHANGED <<content, record, retained, siblings, renamed, clean, rest,
                  window, budget>>
  BY DEF TakeLock
<1> QED BY <1>1, <1>2, <1>3, <1>4 DEF TypeOK, Label

LEMMA SyncType ==
  ASSUME TypeOK, NEW p \in Proc, NEW l, NEW to \in Label, NEW bad \in Label,
         NEW S \in SUBSET File, Sync(p, l, to, S, bad)
  PROVE  TypeOK'
  BY EnterType, FaultType, KindsExist DEF TypeOK, Sync, Label

LEMMA ConcludeType ==
  ASSUME TypeOK, NEW p \in Proc, NEW l, NEW s \in RecordState,
         NEW next \in Label, NEW bad \in Label, Conclude(p, l, s, next, bad)
  PROVE  TypeOK'
<1>1. pc' \in [Proc -> Label] /\ todo' \in [Proc -> SUBSET File]
  BY EnterType DEF Conclude
<1>2. faults' \in 0..MaxFaults /\ faulted' \subseteq FaultKind
  BY KindsExist, FaultType DEF TypeOK, Conclude, PersistRecord, PersistFails
<1>3. record' \in [Txn -> RecordState]
  <2>1. Target[p] \in Txn
    BY RepositoryConstants
  <2>2. record' \in {record, [record EXCEPT ![Target[p]] = s]}
    BY DEF Conclude, PersistRecord, PersistFails
  <2> QED BY <2>1, <2>2 DEF TypeOK
<1>4. outcome' \in [Proc -> Outcome]
  BY DEF Conclude, TypeOK, Outcome
<1>5. UNCHANGED <<content, retained, siblings, lock, renamed, clean, passed,
                  choice, before, pruned, window, budget>>
  BY DEF Conclude
<1> QED BY <1>1, <1>2, <1>3, <1>4, <1>5 DEF TypeOK, Label

LEMMA ThrowType ==
  ASSUME TypeOK, NEW p \in Proc, NEW l,  NEW to \in Label, Throw(p, l, to)
  PROVE  TypeOK'
  BY EnterType DEF TypeOK, Throw, Outcome, Label

LEMMA UnlinkType ==
  ASSUME TypeOK, NEW p \in Proc, NEW l,  NEW bad \in Label,
         UnlinkSibling(p, l, bad)
  PROVE  TypeOK'
  BY EnterType, FaultType, KindsExist DEF TypeOK, UnlinkSibling, Label

LEMMA RestoreType ==
  ASSUME TypeOK, NEW p \in Proc, NEW l,  NEW slot,
         NEW images \in [File -> Content], RestoreLast(p, l, slot, images)
  PROVE  TypeOK'
<1>1. PICK f \in todo[p] : RestoreLast(p, l, slot, images)!2!(f)
  BY DEF RestoreLast
<1>2. f \in File /\ images[f] \in Content
  BY DEF TypeOK
<1>3. content' \in [File -> Content]
  BY <1>1, <1>2 DEF TypeOK, RenameSibling, RenameFails
<1>4. siblings' \in [Proc -> SUBSET (File \X Slot)]
  <2>1. siblings[p] \ {<<f, slot>>} \in SUBSET (File \X Slot)
    BY DEF TypeOK
  <2>2. siblings' \in {siblings, [siblings EXCEPT ![p] = siblings[p] \ {<<f, slot>>}]}
    BY <1>1 DEF RenameSibling, RenameFails
  <2> QED BY <2>1, <2>2 DEF TypeOK
<1>5. faults' \in 0..MaxFaults /\ faulted' \subseteq FaultKind
  BY <1>1, KindsExist, FaultType DEF TypeOK, RenameSibling, RenameFails
<1>6. clean' \in [Proc -> BOOLEAN]
  BY <1>1 DEF TypeOK
<1>7. todo' \in [Proc -> SUBSET File]
  BY <1>1 DEF TypeOK
<1>8. UNCHANGED <<record, retained, lock, pc, renamed, rest, window, budget>>
  BY DEF RestoreLast
<1> QED BY <1>3, <1>4, <1>5, <1>6, <1>7, <1>8 DEF TypeOK

LEMMA ReleaseType ==
  ASSUME TypeOK, NEW p \in Proc, ReleaseLock(p)
  PROVE  TypeOK'
<1>1. pc' \in [Proc -> Label] /\ todo' \in [Proc -> SUBSET File]
  BY EndsExist, EnterType DEF ReleaseLock
<1>2. faults' \in 0..MaxFaults /\ faulted' \subseteq FaultKind
  BY KindsExist, FaultType DEF TypeOK, ReleaseLock
<1>3. lock' \in Proc \cup {None}
  BY DEF ReleaseLock, TypeOK
<1>4. outcome' \in [Proc -> Outcome]
  BY DEF ReleaseLock, TypeOK, Outcome
<1>5. Forget(p)
  BY DEF ReleaseLock
<1>6. UNCHANGED <<content, record, retained, siblings, before, choice, pruned,
                  budget>>
  BY DEF ReleaseLock
<1> QED BY <1>1, <1>2, <1>3, <1>4, <1>5, <1>6, ForgetType DEF TypeOK, Label

LEMMA CrashType ==
  ASSUME TypeOK, NEW p \in Proc, Crash(p)
  PROVE  TypeOK'
<1>1. crashes' \in 0..MaxCrashes
  BY Bounds DEF TypeOK, Crash
<1>2. pc' \in [Proc -> Label] /\ todo' \in [Proc -> SUBSET File]
  BY EndsExist, EnterType DEF Crash
<1>3. Forget(p)
  BY DEF Crash
<1>4. outcome' \in [Proc -> Outcome]
  BY DEF Crash, TypeOK, Outcome
<1>5. UNCHANGED <<disk, choice, before, pruned, edits, faultVars>>
  BY DEF Crash
<1> QED BY <1>1, <1>2, <1>3, <1>4, <1>5, ForgetType DEF TypeOK, Label

LEMMA EditType ==
  ASSUME TypeOK, ForeignEdit
  PROVE  TypeOK'
  BY Bounds DEF TypeOK, ForeignEdit, Content

LEMMA WriteType ==
  ASSUME TypeOK, NEW p \in Proc, NEW f \in File, NEW slot \in Slot,
         WriteSibling(p, f, slot) \/ WriteSiblingFails(p, f, slot)
  PROVE  /\ siblings' \in [Proc -> SUBSET (File \X Slot)]
         /\ faults' \in 0..MaxFaults /\ faulted' \subseteq FaultKind
<1>1. siblings[p] \cup {<<f, slot>>} \in SUBSET (File \X Slot)
  BY DEF TypeOK
<1>2. siblings' \in {siblings,
                     [siblings EXCEPT ![p] = siblings[p] \cup {<<f, slot>>}]}
  BY DEF WriteSibling, WriteSiblingFails
<1>3. siblings' \in [Proc -> SUBSET (File \X Slot)]
  BY <1>1, <1>2 DEF TypeOK
<1>4. faults' \in 0..MaxFaults /\ faulted' \subseteq FaultKind
  BY KindsExist, FaultType DEF TypeOK, WriteSibling, WriteSiblingFails
<1> QED BY <1>3, <1>4

LEMMA RenameType ==
  ASSUME TypeOK, NEW p \in Proc, NEW f \in File, NEW slot, NEW c \in Content,
         RenameSibling(p, f, slot, c) \/ RenameFails(p, f, slot)
  PROVE  /\ siblings' \in [Proc -> SUBSET (File \X Slot)]
         /\ content' \in [File -> Content]
         /\ faults' \in 0..MaxFaults /\ faulted' \subseteq FaultKind
<1>1. siblings[p] \ {<<f, slot>>} \in SUBSET (File \X Slot)
  BY DEF TypeOK
<1>2. siblings' \in {siblings, [siblings EXCEPT ![p] = siblings[p] \ {<<f, slot>>}]}
  BY DEF RenameSibling, RenameFails
<1>3. siblings' \in [Proc -> SUBSET (File \X Slot)]
  BY <1>1, <1>2 DEF TypeOK
<1>4. faults' \in 0..MaxFaults /\ faulted' \subseteq FaultKind
  BY KindsExist, FaultType DEF TypeOK, RenameSibling, RenameFails
<1>5. content' \in [File -> Content]
  BY DEF TypeOK, RenameSibling, RenameFails
<1> QED BY <1>3, <1>4, <1>5

LEMMA LocalTypes ==
  ASSUME TypeOK, NEW p \in Proc
  PROVE  /\ Target[p] \in Txn
         /\ Changed[Target[p]] \in SUBSET File
         /\ Inputs[Target[p]] \in SUBSET File
         /\ before[Target[p]] \in [File -> Content]
         /\ After(Target[p]) \in [File -> Content]
         /\ renamed[p] \in SUBSET File
         /\ chosen[p] \in SUBSET File
         /\ todo[p] \in SUBSET File
         /\ {} \in SUBSET File
  BY RepositoryConstants DEF TypeOK, After, Content

LEMMA CommitType ==
  ASSUME TypeOK, NEW p \in Proc, Commit(p)
  PROVE  TypeOK'
<1> USE LocalTypes
<1>l. {"snapshot", "prepare", "precheck", "lock", "recheck", "gate", "stage",
       "finalgate", "rename", "verify", "reverify", "mismatch", "audit",
       "rollback", "rbverify", "rbdiffers", "rbpersist", "cleanup", "catch",
       "unwind", "unwindpersist", "finish", "abort", "rethrow", "release",
       "done"} \subseteq Label
  BY DEF Label, Unlocked, Locked
<1>1. CASE Snapshot(p)
  <2>0. /\ pc \in [Proc -> Label] /\ todo \in [Proc -> SUBSET File]
        /\ window \in [Proc -> SUBSET File]
        /\ before \in [Txn -> [File -> Content]]
        /\ content \in [File -> Content]
    BY DEF TypeOK, Label
  <2>2. pc' \in [Proc -> Label] /\ todo' \in [Proc -> SUBSET File]
    BY <1>1, <1>l, <2>0, EnterType DEF Snapshot
  <2>3. faults' \in 0..MaxFaults /\ faulted' \subseteq FaultKind
    BY <1>1, KindsExist, FaultType DEF TypeOK, Snapshot
  <2>4. before' \in [Txn -> [File -> Content]]
    <3>1. PICK f \in File :
            before' \in {before,
                         [before EXCEPT ![Target[p]][f] = content[f]]}
      BY <1>1, <2>0 DEF Snapshot
    <3>2. [before[Target[p]] EXCEPT ![f] = content[f]] \in [File -> Content]
      BY <2>0
    <3> QED BY <2>0, <3>1, <3>2
  <2>5. window' \in [Proc -> SUBSET File]
    BY <1>1, <2>0 DEF Snapshot
  <2>6. UNCHANGED <<disk, renamed, clean, passed, choice, outcome, pruned,
                    budget>>
    BY <1>1 DEF Snapshot
  <2> QED BY <2>2, <2>3, <2>4, <2>5, <2>6 DEF TypeOK, Label
<1>2. CASE Prepare(p)
  BY <1>2, <1>l, AdvanceType, CheckFileType DEF Prepare
<1>3. CASE Precheck(p)
  BY <1>3, <1>l, AdvanceType, CheckFileType DEF Precheck
<1>4. CASE Acquire(p)
  BY <1>4, <1>l, AdvanceType, TakeLockType DEF Acquire
<1>5. CASE Recheck(p)
  BY <1>5, <1>l, CheckFileType DEF Recheck
<1>6. CASE Gate(p)
  BY <1>6, <1>l, AdvanceType DEF Gate
<1>7. CASE StageBefore(p) \/ StageAfter(p)
  <2>1. PICK f \in todo[p], slot \in Slot :
          \/ WriteSibling(p, f, slot) /\ UNCHANGED <<pc, todo>>
          \/ WriteSiblingFails(p, f, slot) /\ Enter(p, "abort", {})
    BY <1>7 DEF StageBefore, StageAfter, Slot
  <2>2. f \in File
    BY DEF TypeOK
  <2>3. /\ siblings' \in [Proc -> SUBSET (File \X Slot)]
        /\ faults' \in 0..MaxFaults /\ faulted' \subseteq FaultKind
    BY <2>1, <2>2, WriteType
  <2>4. pc' \in [Proc -> Label] /\ todo' \in [Proc -> SUBSET File]
    BY <2>1, <1>l, EnterType DEF TypeOK, Label
  <2>5. UNCHANGED <<content, record, retained, lock, renamed, clean, rest,
                    window, budget>>
    BY <1>7 DEF StageBefore, StageAfter
  <2> QED BY <2>3, <2>4, <2>5 DEF TypeOK, Label
<1>8. CASE RetainBefore(p)
  <2>0. /\ pc \in [Proc -> Label] /\ todo \in [Proc -> SUBSET File]
        /\ retained \in [Txn -> SUBSET File]
    BY DEF TypeOK, Label
  <2>1. pc' \in [Proc -> Label] /\ todo' \in [Proc -> SUBSET File]
    BY <1>8, <1>l, <2>0, EnterType DEF RetainBefore
  <2>2. faults' \in 0..MaxFaults /\ faulted' \subseteq FaultKind
    BY <1>8, KindsExist, FaultType DEF TypeOK, RetainBefore
  <2>3. retained' \in [Txn -> SUBSET File]
    BY <1>8, <2>0 DEF RetainBefore
  <2>4. UNCHANGED <<content, record, siblings, lock, renamed, clean, rest,
                    window, budget>>
    BY <1>8 DEF RetainBefore
  <2> QED BY <2>1, <2>2, <2>3, <2>4 DEF TypeOK, Label
<1>9. CASE FinalGate(p)
  BY <1>9, <1>l, AdvanceType, CheckFileType DEF FinalGate
<1>10. CASE StartRenames(p)
  BY <1>10, <1>l, AdvanceType DEF StartRenames
<1>11. CASE RenameOver(p)
  <2>0. /\ pc \in [Proc -> Label] /\ todo \in [Proc -> SUBSET File]
        /\ renamed \in [Proc -> SUBSET File]
        /\ Target[p] \in Content
    BY DEF TypeOK, Label, Content
  <2>1. PICK f \in todo[p] :
          \/ RenameSibling(p, f, "after", Target[p])
          \/ RenameFails(p, f, "after")
    BY <1>11 DEF RenameOver
  <2>2. f \in File
    BY DEF TypeOK
  <2>3. /\ siblings' \in [Proc -> SUBSET (File \X Slot)]
        /\ content' \in [File -> Content]
        /\ faults' \in 0..MaxFaults /\ faulted' \subseteq FaultKind
    BY <2>0, <2>1, <2>2, RenameType
  <2>4. pc' \in [Proc -> Label] /\ todo' \in [Proc -> SUBSET File]
    BY <1>11, <1>l, <2>0, EnterType DEF RenameOver
  <2>5. renamed' \in [Proc -> SUBSET File]
    BY <1>11, <2>0 DEF RenameOver
  <2>6. UNCHANGED <<record, retained, lock, clean, rest, window, budget>>
    BY <1>11 DEF RenameOver
  <2> QED BY <2>3, <2>4, <2>5, <2>6 DEF TypeOK, Label
<1>12. CASE SyncRenames(p)
  BY <1>12, <1>l, SyncType DEF SyncRenames
<1>13. CASE VerifyOutputs(p)
  BY <1>13, <1>l, CheckFileType DEF VerifyOutputs
<1>14. CASE Validate(p)
  <2>1. passed' \in [Proc -> BOOLEAN]
    BY <1>14 DEF Validate, TypeOK
  <2>2. pc' \in [Proc -> Label] /\ todo' \in [Proc -> SUBSET File]
    BY <1>14, <1>l, EnterType DEF Validate
  <2> QED BY <1>14, <2>1, <2>2 DEF Validate, TypeOK, Label
<1>15. CASE Reverify(p)
  <2>1. CASE /\ passed' = [passed EXCEPT ![p] = FALSE]
             /\ Enter(p, "audit", {})
             /\ UNCHANGED <<disk, renamed, clean, choice, outcome, before,
                            pruned, budget, faultVars, window>>
    <3>1. passed' \in [Proc -> BOOLEAN]
      BY <2>1 DEF TypeOK
    <3>2. pc' \in [Proc -> Label] /\ todo' \in [Proc -> SUBSET File]
      BY <2>1, <1>l, EnterType
    <3> QED BY <2>1, <3>1, <3>2 DEF TypeOK, Label
  <2> QED BY <1>15, <2>1, <1>l, AdvanceType, CheckFileType DEF Reverify
<1>16. CASE Audit(p)
  <2>1. pc' \in [Proc -> Label] /\ todo' \in [Proc -> SUBSET File]
    BY <1>16, <1>l, EnterType DEF Audit
  <2>2. faults' \in 0..MaxFaults /\ faulted' \subseteq FaultKind
    BY <1>16, KindsExist, FaultType
       DEF TypeOK, Audit, PersistRecord, PersistFails
  <2>3. record' \in [Txn -> RecordState]
    <3>1. record' \in {record, [record EXCEPT ![Target[p]] = "committed"]}
      BY <1>16 DEF Audit, PersistRecord, PersistFails
    <3> QED BY <3>1 DEF TypeOK, RecordState
  <2>4. outcome' \in [Proc -> Outcome]
    BY <1>16 DEF Audit, TypeOK, Outcome, RecordState
  <2>5. UNCHANGED <<content, retained, siblings, lock, renamed, clean, passed,
                    choice, before, pruned, window, budget>>
    BY <1>16 DEF Audit
  <2> QED BY <2>1, <2>2, <2>3, <2>4, <2>5 DEF TypeOK, Label
<1>17. CASE Rollback(p) \/ Unwind(p)
  BY <1>17, RestoreType DEF Rollback, Unwind
<1>18. CASE SyncRollback(p)
  BY <1>18, <1>l, SyncType DEF SyncRollback
<1>19. CASE VerifyRollback(p)
  <2>1. CASE /\ clean' = [clean EXCEPT ![p] = FALSE]
             /\ Enter(p, "rbpersist", {})
             /\ UNCHANGED <<disk, renamed, rest, budget, faultVars, window>>
    <3>1. clean' \in [Proc -> BOOLEAN]
      BY <2>1 DEF TypeOK
    <3>2. pc' \in [Proc -> Label] /\ todo' \in [Proc -> SUBSET File]
      BY <2>1, <1>l, EnterType
    <3> QED BY <2>1, <3>1, <3>2 DEF TypeOK, Label
  <2> QED BY <1>19, <2>1, <1>l, AdvanceType, CheckFileType DEF VerifyRollback
<1>20. CASE RecordRollback(p)
  BY <1>20, <1>l, ConcludeType DEF RecordRollback, RecordState
<1>21. CASE Cleanup(p) \/ Finish(p)
  BY <1>21, <1>l, UnlinkType, AdvanceType DEF Cleanup, Finish
<1>22. CASE Catch(p)
  <2>1. clean' \in [Proc -> BOOLEAN]
    BY <1>22 DEF Catch, TypeOK
  <2>2. outcome' \in [Proc -> Outcome]
    BY <1>22 DEF Catch, TypeOK, Outcome
  <2>3. pc' \in [Proc -> Label] /\ todo' \in [Proc -> SUBSET File]
    BY <1>22, <1>l, EnterType DEF Catch
  <2>4. UNCHANGED <<disk, renamed, passed, choice, before, pruned, budget,
                    faultVars, window>>
    BY <1>22 DEF Catch
  <2> QED BY <2>1, <2>2, <2>3, <2>4 DEF TypeOK, Label
<1>23. CASE SyncUnwind(p)
  BY <1>23, <1>l, SyncType DEF SyncUnwind
<1>24. CASE RecordUnwind(p)
  <2>1. UnwoundState(p) \in RecordState
    BY DEF UnwoundState, RecordState
  <2> QED BY <2>1, <1>24, <1>l, ConcludeType DEF RecordUnwind
<1>25. CASE Abort(p)
  BY <1>25, <1>l, UnlinkType, AdvanceType, ThrowType DEF Abort
<1>26. CASE ReleaseLock(p)
  BY <1>26, ReleaseType
<1> QED
  BY <1>1, <1>2, <1>3, <1>4, <1>5, <1>6, <1>7, <1>8, <1>9, <1>10, <1>11,
     <1>12, <1>13, <1>14, <1>15, <1>16, <1>17, <1>18, <1>19, <1>20, <1>21,
     <1>22, <1>23, <1>24, <1>25, <1>26 DEF Commit

LEMMA UndoableFileType ==
  ASSUME TypeOK, NEW p \in Proc, NEW l, NEW bad \in Label,
         UndoableFile(p, l, bad)
  PROVE  TypeOK'
<1>1. /\ pc \in [Proc -> Label] /\ todo \in [Proc -> SUBSET File]
      /\ window \in [Proc -> SUBSET File]
  BY DEF TypeOK, Label
<1>2. pc' \in [Proc -> Label] /\ todo' \in [Proc -> SUBSET File]
  BY <1>1, LocalTypes, EnterType DEF UndoableFile
<1>3. faults' \in 0..MaxFaults /\ faulted' \subseteq FaultKind
  BY KindsExist, FaultType DEF TypeOK, UndoableFile
<1>4. window' \in [Proc -> SUBSET File]
  BY <1>1 DEF UndoableFile
<1>5. UNCHANGED <<disk, renamed, clean, rest, budget>>
  BY DEF UndoableFile
<1> QED BY <1>2, <1>3, <1>4, <1>5 DEF TypeOK, Label

LEMMA UndoType ==
  ASSUME TypeOK, NEW p \in Proc, Undo(p)
  PROVE  TypeOK'
<1> USE LocalTypes
<1>l. {"uload", "upreview", "lock", "uread", "ustage", "ugate", "urename",
       "uverify", "urecord", "ucatch", "uunwind", "upartial", "uclean",
       "uleak", "release", "done"} \subseteq Label
  BY DEF Label, Unlocked, Locked
<1>1. CASE LoadCommitted(p)
  BY <1>1, <1>l, EnterType DEF LoadCommitted, TypeOK, Label
<1>2. CASE Preview(p) \/ ReadImages(p)
  BY <1>2, <1>l, UndoableFileType DEF Preview, ReadImages
<1>3. CASE AcquireUndo(p)
  BY <1>3, <1>l, AdvanceType, TakeLockType DEF AcquireUndo
<1>4. CASE StageRestore(p)
  <2>1. CASE Advance(p, "uread", "ustage", Changed[Target[p]])
    BY <2>1, <1>l, AdvanceType
  <2>2. CASE ~Advance(p, "uread", "ustage", Changed[Target[p]])
    <3>1. PICK f \in todo[p], slot \in Slot :
            \/ /\ WriteSibling(p, f, slot)
               /\ todo' = [todo EXCEPT ![p] = IF slot = "after"
                                                THEN @ \ {f} ELSE @]
               /\ UNCHANGED pc
            \/ WriteSiblingFails(p, f, slot) /\ Enter(p, "uclean", {})
      BY <1>4, <2>2 DEF StageRestore, Slot
    <3>2. f \in File
      BY DEF TypeOK
    <3>3. /\ siblings' \in [Proc -> SUBSET (File \X Slot)]
          /\ faults' \in 0..MaxFaults /\ faulted' \subseteq FaultKind
      BY <3>1, <3>2, WriteType
    <3>4. pc' \in [Proc -> Label] /\ todo' \in [Proc -> SUBSET File]
      <4>1. pc \in [Proc -> Label] /\ todo \in [Proc -> SUBSET File]
        BY DEF TypeOK, Label
      <4>2. todo[p] \ {f} \in SUBSET File
        BY <4>1
      <4> QED BY <3>1, <4>1, <4>2, <1>l, EnterType
    <3>5. UNCHANGED <<content, record, retained, lock, renamed, clean, rest,
                      window, budget>>
      BY <1>4, <2>2 DEF StageRestore
    <3> QED BY <3>3, <3>4, <3>5 DEF TypeOK, Label
  <2> QED BY <2>1, <2>2
<1>5. CASE UndoGate(p)
  BY <1>5, <1>l, AdvanceType, CheckFileType DEF UndoGate
<1>6. CASE RestoreFile(p)
  <2>0. /\ pc \in [Proc -> Label] /\ todo \in [Proc -> SUBSET File]
        /\ renamed \in [Proc -> SUBSET File]
    BY DEF TypeOK, Label
  <2>1. PICK f \in todo[p] :
          \/ RenameSibling(p, f, "before", before[Target[p]][f])
          \/ RenameFails(p, f, "before")
    BY <1>6 DEF RestoreFile
  <2>2. f \in File /\ before[Target[p]][f] \in Content
    BY DEF TypeOK
  <2>3. /\ siblings' \in [Proc -> SUBSET (File \X Slot)]
        /\ content' \in [File -> Content]
        /\ faults' \in 0..MaxFaults /\ faulted' \subseteq FaultKind
    BY <2>1, <2>2, RenameType
  <2>4. pc' \in [Proc -> Label] /\ todo' \in [Proc -> SUBSET File]
    BY <1>6, <1>l, <2>0, EnterType DEF RestoreFile
  <2>5. renamed' \in [Proc -> SUBSET File]
    BY <1>6, <2>0 DEF RestoreFile
  <2>6. UNCHANGED <<record, retained, lock, clean, rest, window, budget>>
    BY <1>6 DEF RestoreFile
  <2> QED BY <2>3, <2>4, <2>5, <2>6 DEF TypeOK, Label
<1>7. CASE SyncRestore(p)
  BY <1>7, <1>l, SyncType DEF SyncRestore
<1>8. CASE VerifyRestore(p)
  BY <1>8, <1>l, AdvanceType, CheckFileType DEF VerifyRestore
<1>9. CASE RecordUndone(p) \/ RecordPartial(p)
  BY <1>9, <1>l, ConcludeType DEF RecordUndone, RecordPartial, RecordState
<1>10. CASE CatchUndo(p)
  <2>1. clean' \in [Proc -> BOOLEAN]
    BY <1>10 DEF CatchUndo, TypeOK
  <2>2. pc' \in [Proc -> Label] /\ todo' \in [Proc -> SUBSET File]
    BY <1>10, <1>l, EnterType DEF CatchUndo
  <2>3. UNCHANGED <<disk, renamed, rest, budget, faultVars, window>>
    BY <1>10 DEF CatchUndo
  <2> QED BY <2>1, <2>2, <2>3 DEF TypeOK, Label
<1>11. CASE RollForward(p)
  BY <1>11, RestoreType DEF RollForward
<1>12. CASE JudgeUnwind(p)
  BY <1>12, <1>l, AdvanceType DEF JudgeUnwind
<1>13. CASE CleanUndo(p)
  BY <1>13, <1>l, UnlinkType, AdvanceType, ThrowType DEF CleanUndo
<1>14. CASE ReleaseLock(p)
  BY <1>14, ReleaseType
<1> QED
  BY <1>1, <1>2, <1>3, <1>4, <1>5, <1>6, <1>7, <1>8, <1>9, <1>10, <1>11,
     <1>12, <1>13, <1>14 DEF Undo

LEMMA RepairType ==
  ASSUME TypeOK, NEW p \in Proc, Repair(p)
  PROVE  TypeOK'
<1> USE LocalTypes
<1>l. {"rclassify", "lock", "rcheck", "rstage", "rrename", "rsync", "rverify",
       "rrecord", "release", "done"} \subseteq Label
  BY DEF Label, Unlocked, Locked
<1>0. /\ pc \in [Proc -> Label] /\ todo \in [Proc -> SUBSET File]
      /\ window \in [Proc -> SUBSET File] /\ chosen \in [Proc -> SUBSET File]
      /\ siblings \in [Proc -> SUBSET (File \X Slot)]
      /\ outcome \in [Proc -> Outcome] /\ "blocked" \in Outcome
  BY DEF TypeOK, Label, Outcome
<1>1. CASE LoadPartial(p)
  <2>1. pc' \in [Proc -> Label] /\ todo' \in [Proc -> SUBSET File]
    BY <1>1, <1>l, EnterType DEF LoadPartial, Blocked
  <2>2. outcome' \in [Proc -> Outcome]
    BY <1>0, <1>1 DEF LoadPartial, Blocked
  <2> QED BY <1>1, <2>1, <2>2 DEF LoadPartial, TypeOK, Label
<1>2. CASE Classify(p)
  <2>1. pc' \in [Proc -> Label] /\ todo' \in [Proc -> SUBSET File]
    <3>1. \/ \E f \in todo[p] :
               /\ todo' = [todo EXCEPT ![p] = @ \ {f}]
               /\ pc' = pc
          \/ Enter(p, "done", {})
      BY <1>2 DEF Classify, Blocked
    <3>2. \A f : todo[p] \ {f} \in SUBSET File
      BY <1>0
    <3> QED BY <1>0, <1>l, <3>1, <3>2, EnterType
  <2>2. outcome' \in [Proc -> Outcome]
    BY <1>0, <1>2 DEF Classify, Blocked
  <2>3. window' \in [Proc -> SUBSET File] /\ chosen' \in [Proc -> SUBSET File]
    <3>1. PICK f \in todo[p] :
            /\ window' \in {window, [window EXCEPT ![p] = @ \ {f}]}
            /\ chosen' \in {chosen, [chosen EXCEPT ![p] = @ \cup {f}]}
      BY <1>0, <1>2 DEF Classify
    <3>2. /\ chosen[p] \cup {f} \in SUBSET File
          /\ window[p] \ {f} \in SUBSET File
      BY <1>0
    <3>3. window' \in [Proc -> SUBSET File]
      BY <1>0, <3>1, <3>2
    <3>4. chosen' \in [Proc -> SUBSET File]
      BY <1>0, <3>1, <3>2
    <3> QED BY <3>3, <3>4
  <2>4. faults' \in 0..MaxFaults /\ faulted' \subseteq FaultKind
    BY <1>2, KindsExist, FaultType DEF TypeOK, Classify
  <2>5. UNCHANGED <<disk, renamed, clean, passed, scan, prune, before, pruned,
                    budget>>
    BY <1>2 DEF Classify
  <2> QED BY <2>1, <2>2, <2>3, <2>4, <2>5 DEF TypeOK, Label
<1>3. CASE AcquireRepair(p)
  BY <1>3, <1>l, AdvanceType, TakeLockType DEF AcquireRepair
<1>4. CASE RecheckChosen(p)
  <2>1. pc' \in [Proc -> Label] /\ todo' \in [Proc -> SUBSET File]
    <3>1. \/ pc' = [pc EXCEPT ![p] = "rstage"] /\ todo' = todo
          \/ Enter(p, "release", {})
      BY <1>4 DEF RecheckChosen
    <3> QED BY <1>0, <1>l, <3>1, EnterType
  <2>2. window' \in [Proc -> SUBSET File]
    <3>1. \E f \in todo[p] :
            window' \in {window, [window EXCEPT ![p] = @ \ {f}]}
      BY <1>4 DEF RecheckChosen
    <3>2. \A f : window[p] \ {f} \in SUBSET File
      BY <1>0
    <3> QED BY <1>0, <3>1, <3>2
  <2>3. faults' \in 0..MaxFaults /\ faulted' \subseteq FaultKind
    BY <1>4, KindsExist, FaultType DEF TypeOK, RecheckChosen
  <2>4. UNCHANGED <<disk, renamed, clean, rest, budget>>
    BY <1>4 DEF RecheckChosen
  <2> QED BY <2>1, <2>2, <2>3, <2>4 DEF TypeOK, Label
<1>5. CASE StageImage(p)
  <2>1. PICK f \in todo[p] :
          \/ WriteSibling(p, f, "before") \/ WriteSiblingFails(p, f, "before")
    BY <1>5 DEF StageImage
  <2>2. f \in File /\ "before" \in Slot
    BY DEF TypeOK, Slot
  <2>3. /\ siblings' \in [Proc -> SUBSET (File \X Slot)]
        /\ faults' \in 0..MaxFaults /\ faulted' \subseteq FaultKind
    BY <2>1, <2>2, WriteType
  <2>4. pc' \in [Proc -> Label] /\ todo' \in [Proc -> SUBSET File]
    <3>1. \/ pc' = [pc EXCEPT ![p] = "rrename"] /\ todo' = todo
          \/ Enter(p, "release", {})
      BY <1>5 DEF StageImage
    <3> QED BY <1>0, <1>l, <3>1, EnterType
  <2>5. UNCHANGED <<content, record, retained, lock, renamed, clean, rest,
                    window, budget>>
    BY <1>5 DEF StageImage
  <2> QED BY <2>3, <2>4, <2>5 DEF TypeOK, Label
<1>6. CASE RenameImage(p)
  <2>1. content' \in [File -> Content]
    <3>1. \A f \in todo[p] : before[Target[p]][f] \in Content
      BY <1>0
    <3>2. \/ content' = content
          \/ \E f \in todo[p] :
               content' = [content EXCEPT ![f] = before[Target[p]][f]]
      BY <1>6 DEF RenameImage, RenameSibling
    <3> QED BY <3>1, <3>2 DEF TypeOK
  <2>2. siblings' \in [Proc -> SUBSET (File \X Slot)]
    <3>1. \/ siblings' = [siblings EXCEPT ![p] = {}]
          \/ siblings' = siblings
          \/ \E f \in todo[p] :
               siblings' = [siblings EXCEPT ![p] = @ \ {<<f, "before">>}]
      BY <1>6 DEF RenameImage, RenameSibling
    <3>2. \A f : siblings[p] \ {<<f, "before">>} \in SUBSET (File \X Slot)
      BY <1>0
    <3> QED BY <1>0, <3>1, <3>2
  <2>3. faults' \in 0..MaxFaults /\ faulted' \subseteq FaultKind
    BY <1>6, KindsExist, FaultType DEF TypeOK, RenameImage, RenameSibling
  <2>4. pc' \in [Proc -> Label] /\ todo' \in [Proc -> SUBSET File]
    <3>1. \/ pc' = [pc EXCEPT ![p] = "rsync"] /\ todo' = todo
          \/ Enter(p, "release", {})
      BY <1>6 DEF RenameImage
    <3> QED BY <1>0, <1>l, <3>1, EnterType
  <2>5. UNCHANGED <<record, retained, lock, renamed, clean, rest, window,
                    budget>>
    BY <1>6 DEF RenameImage
  <2> QED BY <2>1, <2>2, <2>3, <2>4, <2>5 DEF TypeOK, Label
<1>7. CASE SyncImage(p)
  <2>1. pc' \in [Proc -> Label] /\ todo' \in [Proc -> SUBSET File]
    <3>1. \/ pc' = [pc EXCEPT ![p] = "rverify"] /\ todo' = todo
          \/ Enter(p, "release", {})
      BY <1>7 DEF SyncImage
    <3> QED BY <1>0, <1>l, <3>1, EnterType
  <2>2. faults' \in 0..MaxFaults /\ faulted' \subseteq FaultKind
    BY <1>7, KindsExist, FaultType DEF TypeOK, SyncImage
  <2> QED BY <1>7, <2>1, <2>2 DEF SyncImage, TypeOK, Label
<1>8. CASE VerifyImage(p)
  <2>1. \A f : todo[p] \ {f} \in SUBSET File
    BY <1>0
  <2>2. pc' \in [Proc -> Label] /\ todo' \in [Proc -> SUBSET File]
    BY <1>8, <1>l, <2>1, EnterType DEF VerifyImage
  <2>3. faults' \in 0..MaxFaults /\ faulted' \subseteq FaultKind
    BY <1>8, KindsExist, FaultType DEF TypeOK, VerifyImage
  <2>4. UNCHANGED <<disk, renamed, clean, rest, budget, window>>
    BY <1>8 DEF VerifyImage
  <2> QED BY <2>2, <2>3, <2>4 DEF TypeOK, Label
<1>9. CASE RecordRepaired(p)
  BY <1>9, <1>l, AdvanceType, ConcludeType DEF RecordRepaired, RecordState
<1>10. CASE ReleaseLock(p)
  BY <1>10, ReleaseType
<1> QED
  BY <1>1, <1>2, <1>3, <1>4, <1>5, <1>6, <1>7, <1>8, <1>9, <1>10 DEF Repair

LEMMA GcType ==
  ASSUME TypeOK, NEW p \in Proc, Gc(p)
  PROVE  TypeOK'
<1> USE LocalTypes
<1>l. {"gscan", "lock", "gprune", "gremove", "release", "done"} \subseteq Label
  BY DEF Label, Unlocked, Locked
<1>0. /\ pc \in [Proc -> Label] /\ todo \in [Proc -> SUBSET File]
      /\ scan \in [Proc -> SUBSET Txn] /\ prune \in [Proc -> SUBSET Txn]
      /\ retained \in [Txn -> SUBSET File] /\ record \in [Txn -> RecordState]
      /\ outcome \in [Proc -> Outcome] /\ "pruned" \in Outcome
      /\ "none" \in RecordState
  BY DEF TypeOK, Label, Outcome, RecordState
<1>1. CASE ListRecords(p)
  BY <1>1, <1>l DEF ListRecords, TypeOK, Label
<1>2. CASE ScanRecord(p)
  <2>1. /\ pc' \in [Proc -> Label] /\ scan' \in [Proc -> SUBSET Txn]
        /\ prune' \in [Proc -> SUBSET Txn]
    <3>1. PICK t \in scan[p] :
            /\ scan' = [scan EXCEPT ![p] = @ \ {t}]
            /\ prune' \in {prune, [prune EXCEPT ![p] = @ \cup {t}]}
            /\ pc' \in {pc, [pc EXCEPT ![p] = "done"]}
      BY <1>2 DEF ScanRecord
    <3>2. /\ scan[p] \ {t} \in SUBSET Txn
          /\ prune[p] \cup {t} \in SUBSET Txn
      BY <1>0
    <3>3. scan' \in [Proc -> SUBSET Txn]
      BY <1>0, <3>1, <3>2
    <3>4. prune' \in [Proc -> SUBSET Txn]
      BY <1>0, <3>1, <3>2
    <3>5. pc' \in [Proc -> Label]
      BY <1>0, <1>l, <3>1
    <3> QED BY <3>3, <3>4, <3>5
  <2>2. faults' \in 0..MaxFaults /\ faulted' \subseteq FaultKind
    BY <1>2, KindsExist, FaultType DEF TypeOK, ScanRecord
  <2>3. UNCHANGED <<disk, loop, passed, chosen, outcome, before, pruned, window,
                    budget>>
    BY <1>2 DEF ScanRecord
  <2> QED BY <2>1, <2>2, <2>3 DEF TypeOK, Label
<1>3. CASE FinishScan(p) \/ FinishPrune(p)
  <2>1. pc' \in [Proc -> Label] /\ todo' \in [Proc -> SUBSET File]
    BY <1>3, <1>l, EnterType DEF FinishScan, FinishPrune
  <2>2. outcome' \in [Proc -> Outcome]
    BY <1>0, <1>3 DEF FinishScan, FinishPrune
  <2>3. UNCHANGED <<disk, renamed, clean, passed, choice, before, pruned,
                    budget, faultVars, window>>
    BY <1>3 DEF FinishScan, FinishPrune
  <2> QED BY <2>1, <2>2, <2>3 DEF TypeOK, Label
<1>4. CASE AcquireGc(p)
  BY <1>4, <1>l, TakeLockType DEF AcquireGc
<1>5. CASE PruneImages(p)
  <2>1. pc' \in [Proc -> Label] /\ todo' \in [Proc -> SUBSET File]
    BY <1>0, <1>5, <1>l, EnterType DEF PruneImages
  <2>2. retained' \in [Txn -> SUBSET File]
    BY <1>0, <1>5 DEF PruneImages
  <2>3. prune' \in [Proc -> SUBSET Txn] /\ pruned' \subseteq Txn
    <3>1. PICK t \in prune[p] :
            /\ prune' \in {prune, [prune EXCEPT ![p] = @ \ {t}]}
            /\ pruned' = pruned \cup {t}
      BY <1>5 DEF PruneImages
    <3>2. prune[p] \ {t} \in SUBSET Txn /\ t \in Txn /\ pruned \subseteq Txn
      BY <1>0 DEF TypeOK
    <3> QED BY <1>0, <3>1, <3>2
  <2>4. faults' \in 0..MaxFaults /\ faulted' \subseteq FaultKind
    BY <1>5, KindsExist, FaultType DEF TypeOK, PruneImages
  <2>5. UNCHANGED <<content, record, siblings, lock, renamed, clean, passed,
                    chosen, scan, outcome, before, window, budget>>
    BY <1>5 DEF PruneImages
  <2> QED BY <2>1, <2>2, <2>3, <2>4, <2>5 DEF TypeOK, Label
<1>6. CASE RemoveRecord(p)
  <2>1. pc' \in [Proc -> Label] /\ todo' \in [Proc -> SUBSET File]
    BY <1>6, <1>l, EnterType DEF RemoveRecord
  <2>2. record' \in [Txn -> RecordState] /\ prune' \in [Proc -> SUBSET Txn]
    <3>1. PICK t \in prune[p] :
            /\ record' \in {record, [record EXCEPT ![t] = "none"]}
            /\ prune' \in {prune, [prune EXCEPT ![p] = @ \ {t}]}
      BY <1>6 DEF RemoveRecord
    <3>2. prune[p] \ {t} \in SUBSET Txn
      BY <1>0
    <3>3. record' \in [Txn -> RecordState]
      BY <1>0, <3>1
    <3>4. prune' \in [Proc -> SUBSET Txn]
      BY <1>0, <3>1, <3>2
    <3> QED BY <3>3, <3>4
  <2>3. faults' \in 0..MaxFaults /\ faulted' \subseteq FaultKind
    BY <1>6, KindsExist, FaultType DEF TypeOK, RemoveRecord
  <2>4. UNCHANGED <<content, retained, siblings, lock, renamed, clean, passed,
                    chosen, scan, outcome, before, pruned, window, budget>>
    BY <1>6 DEF RemoveRecord
  <2> QED BY <2>1, <2>2, <2>3, <2>4 DEF TypeOK, Label
<1>7. CASE ReleaseLock(p)
  BY <1>7, ReleaseType
<1> QED BY <1>1, <1>2, <1>3, <1>4, <1>5, <1>6, <1>7 DEF Gc

LEMMA InitType == Init => TypeOK
<1> SUFFICES ASSUME Init PROVE TypeOK
  OBVIOUS
<1>1. pc \in [Proc -> Unlocked \cup Locked]
  BY RepositoryConstants DEF Init, StartLabel, Unlocked
<1> QED BY <1>1, RepositoryConstants, Bounds
        DEF Init, TypeOK, Content, RecordState, Outcome

LEMMA StepType == TypeOK /\ [Next]_vars => TypeOK'
<1> SUFFICES ASSUME TypeOK, [Next]_vars PROVE TypeOK'
  OBVIOUS
<1>1. CASE UNCHANGED vars
  BY <1>1 DEF TypeOK, vars
<1> QED
  BY <1>1, CommitType, UndoType, RepairType, GcType, CrashType, EditType
  DEF Next, Run

\* The variables of the engine keep their types and every process stays on the
\* labels of transaction.ts and maintenance.ts.
THEOREM TypeCorrect == Spec => []TypeOK
<1>1. Init => TypeOK
  BY InitType
<1>2. TypeOK /\ [Next]_vars => TypeOK'
  BY StepType
<1> QED BY <1>1, <1>2, PTL DEF Spec

-----------------------------------------------------------------------------
(* What steps leave alone, and what they may change. *)

\* A step leaves the local state of process q alone.
Same(q) == /\ pc'[q] = pc[q] /\ todo'[q] = todo[q] /\ renamed'[q] = renamed[q]
           /\ window'[q] = window[q] /\ siblings'[q] = siblings[q]
           /\ outcome'[q] = outcome[q]

LEMMA HelperOthers ==
  ASSUME TypeOK, NEW p \in Proc, NEW q \in Proc, q # p, NEW l, NEW e, NEW b,
         NEW S, NEW s, NEW to, NEW slot,
         \/ CheckFile(p, l, e, b) \/ Advance(p, l, to, S) \/ TakeLock(p, to, S)
         \/ Sync(p, l, to, S, b) \/ Conclude(p, l, s, to, b) \/ Throw(p, l, to)
         \/ UnlinkSibling(p, l, b) \/ RestoreLast(p, l, slot, e)
         \/ UndoableFile(p, l, b) \/ ReleaseLock(p) \/ Crash(p)
  PROVE  Same(q)
  BY DEF TypeOK, Same, CheckFile, Advance, TakeLock, Sync, Conclude, Throw,
         UnlinkSibling, RestoreLast, UndoableFile, ReleaseLock, Crash, Forget,
         Enter, RenameSibling, RenameFails

LEMMA CommitOthers ==
  ASSUME TypeOK, NEW p \in Proc, NEW q \in Proc, q # p, Commit(p)
  PROVE  Same(q)
<1> USE DEF Same, Enter
<1>1. CASE Snapshot(p)
  BY <1>1 DEF TypeOK, Snapshot
<1>2. CASE StageBefore(p) \/ StageAfter(p)
  BY <1>2 DEF TypeOK, StageBefore, StageAfter, WriteSibling, WriteSiblingFails
<1>3. CASE RetainBefore(p) \/ Validate(p) \/ Catch(p)
  BY <1>3 DEF TypeOK, RetainBefore, Validate, Catch
<1>4. CASE RenameOver(p)
  BY <1>4 DEF TypeOK, RenameOver, RenameSibling, RenameFails
<1>5. CASE Audit(p)
  BY <1>5 DEF TypeOK, Audit
<1>6. CASE Prepare(p) \/ Precheck(p) \/ Acquire(p) \/ Recheck(p) \/ Gate(p)
           \/ FinalGate(p) \/ StartRenames(p) \/ SyncRenames(p)
           \/ VerifyOutputs(p)
  BY <1>6, HelperOthers DEF Prepare, Precheck, Acquire, Recheck, Gate,
     FinalGate, StartRenames, SyncRenames, VerifyOutputs
<1> QED
  BY HelperOthers, <1>1, <1>2, <1>3, <1>4, <1>5, <1>6
  DEF Commit, Reverify, Rollback, SyncRollback, VerifyRollback, RecordRollback,
      Cleanup, Unwind, SyncUnwind, RecordUnwind, Finish, Abort, TypeOK

LEMMA UndoOthers ==
  ASSUME TypeOK, NEW p \in Proc, NEW q \in Proc, q # p, Undo(p)
  PROVE  Same(q)
<1> USE DEF Same, Enter
<1>1. CASE LoadCommitted(p) \/ CatchUndo(p)
  BY <1>1 DEF TypeOK, LoadCommitted, CatchUndo
<1>2. CASE StageRestore(p)
  BY <1>2, HelperOthers
     DEF TypeOK, StageRestore, WriteSibling, WriteSiblingFails
<1>3. CASE RestoreFile(p)
  BY <1>3 DEF TypeOK, RestoreFile, RenameSibling, RenameFails
<1> QED
  BY HelperOthers, <1>1, <1>2, <1>3
  DEF Undo, Preview, AcquireUndo, ReadImages, UndoGate, SyncRestore,
      VerifyRestore, RecordUndone, RollForward, JudgeUnwind, RecordPartial,
      CleanUndo

LEMMA RepairOthers ==
  ASSUME TypeOK, NEW p \in Proc, NEW q \in Proc, q # p, Repair(p)
  PROVE  Same(q)
<1> USE DEF Same, Enter
<1>1. CASE LoadPartial(p)
  BY <1>1 DEF TypeOK, LoadPartial, Blocked
<1>2. CASE Classify(p)
  BY <1>2 DEF TypeOK, Classify, Blocked
<1>3. CASE RecheckChosen(p)
  BY <1>3 DEF TypeOK, RecheckChosen
<1>4. CASE StageImage(p)
  BY <1>4 DEF TypeOK, StageImage, WriteSibling, WriteSiblingFails
<1>5. CASE RenameImage(p)
  BY <1>5 DEF TypeOK, RenameImage, RenameSibling
<1>6. CASE SyncImage(p) \/ VerifyImage(p)
  BY <1>6 DEF TypeOK, SyncImage, VerifyImage
<1> QED
  BY HelperOthers, <1>1, <1>2, <1>3, <1>4, <1>5, <1>6
  DEF Repair, AcquireRepair, RecordRepaired

LEMMA GcOthers ==
  ASSUME TypeOK, NEW p \in Proc, NEW q \in Proc, q # p, Gc(p)
  PROVE  Same(q)
<1> USE DEF Same, Enter
<1>1. CASE ListRecords(p) \/ ScanRecord(p) \/ FinishScan(p)
  BY <1>1 DEF TypeOK, ListRecords, ScanRecord, FinishScan
<1>2. CASE PruneImages(p)
  BY <1>2 DEF TypeOK, PruneImages
<1>3. CASE RemoveRecord(p) \/ FinishPrune(p)
  BY <1>3 DEF TypeOK, RemoveRecord, FinishPrune
<1> QED BY HelperOthers, <1>1, <1>2, <1>3 DEF Gc, AcquireGc

LEMMA Others ==
  ASSUME TypeOK, NEW p \in Proc, NEW q \in Proc, q # p, Run(p) \/ Crash(p)
  PROVE  Same(q)
  BY CommitOthers, UndoOthers, RepairOthers, GcOthers, HelperOthers DEF Run

-----------------------------------------------------------------------------
(* What a step of process p may do to the shared state. *)

\* The only writes to repository files: a rename of the loop p is in puts the
\* before image or the output of its transaction into a file of the loop.
Writes(p) ==
  \/ content' = content
  \/ \E f \in todo[p] :
       \/ /\ pc[p] \in {"rename", "uunwind"}
          /\ content' = [content EXCEPT ![f] = Target[p]]
       \/ /\ pc[p] \in {"rollback", "unwind", "urename", "rrename"}
          /\ pc[p] = "rrename" => First(todo[p], f)
          /\ content' = [content EXCEPT ![f] = before[Target[p]][f]]

\* Only the commit of a transaction sets its before images, while planning.
Plans(p) ==
  \/ before' = before
  \/ /\ pc[p] = "snapshot" /\ Kind[p] = "commit"
     /\ \E f \in File :
          before' = [before EXCEPT ![Target[p]][f] = content[f]]

\* Before images disappear only by pruning.
Retains ==
  /\ pruned \subseteq pruned'
  /\ \A t \in Txn : t \in pruned' \/ retained[t] \subseteq retained'[t]

\* The lock changes hands only through TakeLock and ReleaseLock; whoever leaves
\* without releasing it was killed or met a failing unlink.
Leaks(p) == pc'[p] = "crashed" \/ pc[p] = "uleak" \/ "unlink" \in faulted'
Locks(p) ==
  \/ lock' = lock /\ (pc'[p] \in Locked <=> pc[p] \in Locked)
  \/ lock' = lock /\ pc[p] \in Locked /\ pc'[p] \notin Locked /\ Leaks(p)
  \/ lock' = lock /\ pc'[p] = "crashed"
  \/ /\ lock' = p /\ pc'[p] \in Locked
     /\ lock = None \/ (lock \in Proc /\ ~Live(lock))
  \/ lock' = None /\ pc[p] \in Locked /\ pc'[p] \notin Locked

\* Records are written under the lock, on the process's own transaction; gc
\* removes them.
Records(p) ==
  \/ record' = record
  \/ /\ Kind[p] # "gc" /\ pc[p] \in Locked
     /\ \E s : record' = [record EXCEPT ![Target[p]] = s]
  \/ /\ pc[p] \in Locked
     /\ \E t \in Txn : record' = [record EXCEPT ![t] = "none"]

Effect(p) == Writes(p) /\ Plans(p) /\ Retains /\ Locks(p) /\ Records(p)

LEMMA CheckEffect ==
  ASSUME TypeOK, NEW p \in Proc, NEW l, NEW e, NEW b, CheckFile(p, l, e, b),
         b \in Locked <=> l \in Locked
  PROVE  Effect(p)
  BY DEF TypeOK, Effect, Writes, Plans, Retains, Locks, Records, CheckFile, Enter

LEMMA UndoableEffect ==
  ASSUME TypeOK, NEW p \in Proc, NEW l, NEW b, UndoableFile(p, l, b),
         b \in Locked <=> l \in Locked
  PROVE  Effect(p)
  BY DEF TypeOK, Effect, Writes, Plans, Retains, Locks, Records, UndoableFile, Enter

LEMMA AdvanceEffect ==
  ASSUME TypeOK, NEW p \in Proc, NEW l, NEW to, NEW S, Advance(p, l, to, S),
         to \in Locked <=> l \in Locked
  PROVE  Effect(p)
  BY DEF TypeOK, Effect, Writes, Plans, Retains, Locks, Records, Advance, Enter,
     Finished

LEMMA ThrowEffect ==
  ASSUME TypeOK, NEW p \in Proc, NEW l, NEW to, Throw(p, l, to),
         (to \in Locked <=> l \in Locked) \/ (l = "uleak" /\ to \notin Locked)
  PROVE  Effect(p)
<1>1. "uleak" \in Locked
  BY DEF Locked
<1> QED BY <1>1 DEF TypeOK, Effect, Writes, Plans, Retains, Locks, Leaks, Records,
                   Throw, Enter

LEMMA SyncEffect ==
  ASSUME TypeOK, NEW p \in Proc, NEW l \in Locked, NEW to \in Locked,
         NEW b \in Locked, NEW S, Sync(p, l, to, S, b)
  PROVE  Effect(p)
  BY DEF TypeOK, Effect, Writes, Plans, Retains, Locks, Records, Sync, Enter,
     Finished

LEMMA UnlinkEffect ==
  ASSUME TypeOK, NEW p \in Proc, NEW l \in Locked, NEW b \in Locked,
         UnlinkSibling(p, l, b)
  PROVE  Effect(p)
  BY DEF TypeOK, Effect, Writes, Plans, Retains, Locks, Records, UnlinkSibling,
     Enter

LEMMA LockEffect ==
  ASSUME TypeOK, NEW p \in Proc, NEW S, NEW to,
         (TakeLock(p, to, S) /\ to \in Locked) \/ ReleaseLock(p) \/ Crash(p)
  PROVE  Effect(p)
<1>1. {"done", "crashed", "lock"} \cap Locked = {} /\ "release" \in Locked
  BY DEF Locked
<1> QED
  BY <1>1 DEF TypeOK, Effect, Writes, Plans, Retains, Locks, Leaks, Records,
     TakeLock, ReleaseLock, Crash, Enter, Fault

LEMMA ConcludeEffect ==
  ASSUME TypeOK, NEW p \in Proc, NEW l \in Locked, NEW s,
         NEW to \in Locked, NEW b \in Locked,
         Conclude(p, l, s, to, b), Kind[p] # "gc"
  PROVE  Effect(p)
  BY DEF TypeOK, Effect, Writes, Plans, Retains, Locks, Records, Conclude,
         PersistRecord, PersistFails, Enter

LEMMA RestoreEffect ==
  ASSUME TypeOK, NEW p \in Proc, NEW l, NEW slot, NEW images,
         RestoreLast(p, l, slot, images),
         \/ l \in {"rollback", "unwind"} /\ images = before[Target[p]]
         \/ l = "uunwind" /\ images = After(Target[p])
  PROVE  Effect(p)
<1>1. PICK f \in todo[p] : RestoreLast(p, l, slot, images)!2!(f)
  BY DEF RestoreLast
<1>2. content' \in {content, [content EXCEPT ![f] = images[f]]} /\ f \in File
  BY <1>1 DEF RenameSibling, RenameFails, TypeOK
<1>3. Writes(p)
  BY <1>2 DEF Writes, RestoreLast, After
<1> QED
  BY <1>3 DEF Effect, Plans, Retains, Locks, Records, RestoreLast

LEMMA CommitEffect ==
  ASSUME TypeOK, NEW p \in Proc, Commit(p)
  PROVE  Effect(p)
<1>l. /\ {"recheck", "gate", "stage", "finalgate", "rename", "verify",
          "reverify", "mismatch", "audit", "rollback", "rbverify", "rbdiffers",
          "rbpersist", "cleanup", "catch", "unwind", "unwindpersist", "finish",
          "abort", "rethrow", "release"} \subseteq Locked
      /\ {"snapshot", "prepare", "precheck", "lock", "done"} \cap Locked = {}
  BY DEF Locked
<1>k. Kind[p] = "commit"
  BY DEF Commit
<1>1. CASE Snapshot(p)
  <2>1. Plans(p)
    BY <1>1, <1>k DEF Snapshot, Plans, TypeOK
  <2> QED BY <1>1, <1>l, <2>1 DEF TypeOK, Effect, Writes, Retains, Locks,
             Records, Snapshot, Enter
<1>2. CASE Prepare(p) \/ Precheck(p) \/ Acquire(p) \/ Recheck(p) \/ Gate(p)
           \/ FinalGate(p) \/ StartRenames(p)
  BY <1>2, <1>l, CheckEffect, AdvanceEffect, LockEffect DEF Prepare, Precheck, Acquire,
     Recheck, Gate, FinalGate, StartRenames
<1>3. CASE StageBefore(p) \/ StageAfter(p)
  BY <1>3, <1>l DEF StageBefore, StageAfter, TypeOK, Effect, Writes, Plans,
     Retains, Locks, Records, Enter
<1>4. CASE RetainBefore(p)
  <2>1. Retains
    BY <1>4 DEF Retains, RetainBefore, TypeOK
  <2> QED BY <1>4, <1>l, <2>1 DEF TypeOK, Effect, Writes, Plans, Locks,
             Records, RetainBefore, Enter
<1>5. CASE RenameOver(p)
  <2>1. PICK f \in todo[p] :
          content' \in {content, [content EXCEPT ![f] = Target[p]]}
    BY <1>5 DEF RenameOver, RenameSibling, RenameFails
  <2> QED BY <1>5, <1>l, <2>1 DEF TypeOK, Effect, Writes, Plans, Retains,
             Locks, Records, RenameOver, Enter
<1>6. CASE SyncRenames(p) \/ VerifyOutputs(p) \/ SyncRollback(p)
           \/ SyncUnwind(p) \/ Cleanup(p) \/ Finish(p) \/ Abort(p)
  BY <1>6, <1>l, CheckEffect, AdvanceEffect, ThrowEffect, SyncEffect, UnlinkEffect
     DEF SyncRenames, VerifyOutputs, SyncRollback,
     SyncUnwind, Cleanup, Finish, Abort
<1>7. CASE Validate(p) \/ Catch(p)
  BY <1>7, <1>l DEF Validate, Catch, TypeOK, Effect, Writes, Plans, Retains,
     Locks, Records, Enter, Finished
<1>8. CASE Reverify(p) \/ VerifyRollback(p)
  <2>1. CASE pc[p] \in {"mismatch", "rbdiffers"}
    BY <1>8, <1>l, <2>1 DEF Reverify, VerifyRollback, CheckFile, Advance, Finished,
       TypeOK, Effect, Writes, Plans, Retains, Locks, Records, Enter
  <2>2. CASE pc[p] \notin {"mismatch", "rbdiffers"}
    BY <1>8, <1>l, <2>2, CheckEffect, AdvanceEffect DEF Reverify, VerifyRollback
  <2> QED BY <2>1, <2>2
<1>9. CASE Audit(p)
  <2>1. /\ pc[p] = "audit" /\ pc'[p] \in {"cleanup", "rollback", "catch"}
        /\ UNCHANGED <<content, before, retained, pruned, lock>>
    BY <1>9 DEF Audit, Enter, TypeOK
  <2>2. Records(p)
    BY <1>9, <1>k, <1>l, <2>1 DEF Audit, PersistRecord, PersistFails, Records
  <2> QED BY <1>l, <2>1, <2>2 DEF Effect, Writes, Plans, Retains, Locks
<1>10. CASE Rollback(p) \/ Unwind(p)
  BY <1>10, RestoreEffect DEF Rollback, Unwind
<1>11. CASE RecordRollback(p) \/ RecordUnwind(p)
  BY <1>11, <1>k, <1>l, ConcludeEffect DEF RecordRollback, RecordUnwind
<1>12. CASE ReleaseLock(p)
  BY <1>12, LockEffect
<1> QED
  BY <1>1, <1>2, <1>3, <1>4, <1>5, <1>6, <1>7, <1>8, <1>9, <1>10, <1>11,
     <1>12 DEF Commit

LEMMA UndoEffect ==
  ASSUME TypeOK, NEW p \in Proc, Undo(p)
  PROVE  Effect(p)
<1>l. /\ {"uread", "ustage", "ugate", "urename", "uverify", "urecord", "ucatch",
          "uunwind", "upartial", "uclean", "uleak", "release"} \subseteq Locked
      /\ {"uload", "upreview", "lock", "done"} \cap Locked = {}
  BY DEF Locked
<1>k. Kind[p] = "undo"
  BY DEF Undo
<1>1. CASE LoadCommitted(p) \/ CatchUndo(p)
  BY <1>1, <1>l DEF LoadCommitted, CatchUndo, TypeOK, Effect, Writes, Plans,
     Retains, Locks, Records, Enter
<1>2. CASE Preview(p) \/ AcquireUndo(p) \/ ReadImages(p) \/ UndoGate(p)
           \/ SyncRestore(p) \/ VerifyRestore(p) \/ JudgeUnwind(p)
           \/ CleanUndo(p) \/ ReleaseLock(p)
  BY <1>2, <1>l, CheckEffect, UndoableEffect, AdvanceEffect, ThrowEffect, SyncEffect,
     UnlinkEffect, LockEffect DEF Preview, AcquireUndo, ReadImages,
     UndoGate, SyncRestore, VerifyRestore, JudgeUnwind, CleanUndo
<1>3. CASE StageRestore(p)
  BY <1>3, <1>l, AdvanceEffect DEF StageRestore, TypeOK, Effect, Writes, Plans,
     Retains, Locks, Records, Enter
<1>4. CASE RestoreFile(p)
  <2>1. PICK f \in todo[p] :
          content' \in {content, [content EXCEPT ![f] = before[Target[p]][f]]}
    BY <1>4 DEF RestoreFile, RenameSibling, RenameFails
  <2> QED BY <1>4, <1>l, <2>1 DEF TypeOK, Effect, Writes, Plans, Retains,
             Locks, Records, RestoreFile, Enter
<1>5. CASE RecordUndone(p) \/ RecordPartial(p)
  BY <1>5, <1>k, <1>l, ConcludeEffect DEF RecordUndone, RecordPartial
<1>6. CASE RollForward(p)
  BY <1>6, RestoreEffect DEF RollForward
<1> QED BY <1>1, <1>2, <1>3, <1>4, <1>5, <1>6 DEF Undo

LEMMA RepairEffect ==
  ASSUME TypeOK, NEW p \in Proc, Repair(p)
  PROVE  Effect(p)
<1>l. /\ {"rcheck", "rstage", "rrename", "rsync", "rverify", "rrecord",
          "release"} \subseteq Locked
      /\ {"rload", "rclassify", "lock", "done"} \cap Locked = {}
  BY DEF Locked
<1>k. Kind[p] = "repair"
  BY DEF Repair
<1>1. CASE LoadPartial(p)
  BY <1>1, <1>l DEF LoadPartial, Blocked, TypeOK, Effect, Writes, Plans,
     Retains, Locks, Records, Enter
<1>2. CASE Classify(p)
  BY <1>2, <1>l DEF Classify, Blocked, TypeOK, Effect, Writes, Plans, Retains,
     Locks, Records, Enter
<1>3. CASE AcquireRepair(p) \/ ReleaseLock(p)
  BY <1>3, <1>l, AdvanceEffect, LockEffect DEF AcquireRepair
<1>4. CASE RecheckChosen(p) \/ StageImage(p) \/ SyncImage(p) \/ VerifyImage(p)
  BY <1>4, <1>l DEF RecheckChosen, StageImage, SyncImage, VerifyImage, TypeOK,
     Effect, Writes, Plans, Retains, Locks, Records, Enter
<1>5. CASE RenameImage(p)
  <2>1. PICK f \in todo[p] :
          /\ First(todo[p], f)
          /\ content' \in {content, [content EXCEPT ![f] = before[Target[p]][f]]}
    BY <1>5 DEF RenameImage, RenameSibling
  <2> QED BY <1>5, <1>l, <2>1 DEF TypeOK, Effect, Writes, Plans, Retains,
             Locks, Records, RenameImage, Enter
<1>6. CASE RecordRepaired(p)
  BY <1>6, <1>k, <1>l, AdvanceEffect, ConcludeEffect DEF RecordRepaired
<1> QED BY <1>1, <1>2, <1>3, <1>4, <1>5, <1>6 DEF Repair

LEMMA GcEffect ==
  ASSUME TypeOK, NEW p \in Proc, Gc(p)
  PROVE  Effect(p)
<1>l. /\ {"gprune", "gremove", "release"} \subseteq Locked
      /\ {"glist", "gscan", "lock", "done"} \cap Locked = {}
  BY DEF Locked
<1>1. CASE ListRecords(p) \/ FinishScan(p) \/ FinishPrune(p)
  BY <1>1, <1>l DEF ListRecords, FinishScan, FinishPrune, TypeOK, Effect,
     Writes, Plans, Retains, Locks, Records, Enter
<1>2. CASE ScanRecord(p)
  BY <1>2, <1>l DEF ScanRecord, TypeOK, Effect, Writes, Plans, Retains, Locks,
     Records
<1>3. CASE AcquireGc(p) \/ ReleaseLock(p)
  BY <1>3, <1>l, LockEffect DEF AcquireGc
<1>4. CASE PruneImages(p)
  <2>1. Retains
    BY <1>4 DEF PruneImages, Retains, TypeOK
  <2> QED BY <1>4, <1>l, <2>1 DEF PruneImages, TypeOK, Effect, Writes, Plans,
             Locks, Records, Enter
<1>5. CASE RemoveRecord(p)
  <2>1. Records(p)
    BY <1>5, <1>l DEF RemoveRecord, Records, TypeOK
  <2> QED BY <1>5, <1>l, <2>1 DEF RemoveRecord, TypeOK, Effect, Writes, Plans,
             Retains, Locks, Enter
<1> QED BY <1>1, <1>2, <1>3, <1>4, <1>5 DEF Gc

LEMMA StepEffect ==
  ASSUME TypeOK, NEW p \in Proc, Run(p) \/ Crash(p)
  PROVE  Effect(p)
  BY CommitEffect, UndoEffect, RepairEffect, GcEffect, LockEffect DEF Run

-----------------------------------------------------------------------------
(* Before images. *)

\* The before images of the files in S are retained, or gc removed them.
Kept(t, S) == t \in pruned \/ S \subseteq retained[t]

\* A transaction planned on the output of t can put it back.
PlannedKept ==
  \A u, t \in Txn : \A f \in Changed[t] : before[u][f] = t => Kept(t, {f})

\* A commit retains the images before it renames, an undo checks them before
\* it may have to roll forward.
Staged(p) ==
  /\ pc[p] \in {"stage", "uread"} =>
       Kept(Target[p], Changed[Target[p]] \ todo[p])
  /\ pc[p] \in {"finalgate", "rename", "ustage", "ugate", "urename", "uverify",
                "urecord", "ucatch", "uunwind"} =>
       Kept(Target[p], Changed[Target[p]])

ImageInv == /\ BeforeImageKept
            /\ PlannedKept
            /\ \A p \in Proc : Staged(p)

LEMMA KeptStays ==
  ASSUME TypeOK, Retains, NEW t \in Txn, NEW S, Kept(t, S)
  PROVE  Kept(t, S)'
  BY DEF Retains, Kept

LEMMA CommitStaged ==
  ASSUME TypeOK, NEW p \in Proc, Staged(p), Commit(p), Retains
  PROVE  Staged(p)'
<1> USE DEF Staged, Enter, Finished
<1>0. Target[p] \in Txn /\ Changed[Target[p]] \in SUBSET File
  BY LocalTypes
<1>1. CASE Snapshot(p) \/ Prepare(p) \/ Precheck(p)
  BY <1>1 DEF Snapshot, Prepare, Precheck, Advance, CheckFile, TypeOK
<1>2. CASE Acquire(p) \/ Recheck(p)
  BY <1>2 DEF Acquire, Recheck, Advance, TakeLock, CheckFile, TypeOK
<1>3. CASE Gate(p)
  BY <1>0, <1>3 DEF Gate, Advance, TypeOK, Kept
<1>4. CASE StageBefore(p) \/ StageAfter(p)
  BY <1>0, <1>4, KeptStays DEF StageBefore, StageAfter, TypeOK
<1>5. CASE RetainBefore(p)
  BY <1>0, <1>5 DEF RetainBefore, TypeOK, Kept
<1>6. CASE FinalGate(p)
  <2>1. CASE Advance(p, "stage", "finalgate", Inputs[Target[p]])
    <3>1. Kept(Target[p], Changed[Target[p]])
      BY <2>1 DEF Advance, Kept
    <3> QED BY <1>0, <2>1, <3>1, KeptStays DEF Advance, TypeOK
  <2>2. CASE CheckFile(p, "finalgate", before[Target[p]], "abort")
    BY <1>0, <2>2, KeptStays DEF CheckFile, TypeOK
  <2> QED BY <1>6, <2>1, <2>2 DEF FinalGate
<1>7. CASE StartRenames(p) \/ RenameOver(p)
  BY <1>0, <1>7, KeptStays DEF StartRenames, RenameOver, Advance, TypeOK
<1>8. CASE SyncRenames(p) \/ VerifyOutputs(p) \/ Validate(p) \/ Reverify(p)
           \/ Audit(p)
  BY <1>8 DEF SyncRenames, VerifyOutputs, Validate, Reverify, Audit, Sync,
     CheckFile, Advance, TypeOK
<1>9. CASE Rollback(p) \/ Unwind(p) \/ SyncRollback(p) \/ SyncUnwind(p)
           \/ VerifyRollback(p) \/ Catch(p)
  BY <1>9 DEF Rollback, Unwind, SyncRollback, SyncUnwind, VerifyRollback,
     Catch, RestoreLast, Sync, CheckFile, Advance, TypeOK
<1>10. CASE RecordRollback(p) \/ RecordUnwind(p) \/ Cleanup(p) \/ Finish(p)
            \/ Abort(p) \/ ReleaseLock(p)
  BY <1>10 DEF RecordRollback, RecordUnwind, Cleanup, Finish, Abort,
     ReleaseLock, Conclude, UnlinkSibling, Throw, Advance, TypeOK
<1> QED
  BY <1>1, <1>2, <1>3, <1>4, <1>5, <1>6, <1>7, <1>8, <1>9, <1>10 DEF Commit

LEMMA UndoStaged ==
  ASSUME TypeOK, NEW p \in Proc, Staged(p), Undo(p), Retains
  PROVE  Staged(p)'
<1> USE DEF Staged, Enter, Finished
<1>0. Target[p] \in Txn /\ Changed[Target[p]] \in SUBSET File
  BY LocalTypes
<1>1. CASE LoadCommitted(p) \/ Preview(p)
  BY <1>1 DEF LoadCommitted, Preview, UndoableFile, TypeOK
<1>2. CASE AcquireUndo(p)
  BY <1>0, <1>2 DEF AcquireUndo, Advance, TakeLock, TypeOK, Kept
<1>3. CASE ReadImages(p)
  BY <1>0, <1>3 DEF ReadImages, UndoableFile, TypeOK, Kept
<1>4. CASE StageRestore(p)
  <2>1. CASE Advance(p, "uread", "ustage", Changed[Target[p]])
    <3>1. Kept(Target[p], Changed[Target[p]])
      BY <2>1 DEF Advance, Kept
    <3> QED BY <1>0, <2>1, <3>1, KeptStays DEF Advance, TypeOK
  <2>2. CASE ~Advance(p, "uread", "ustage", Changed[Target[p]])
    BY <1>0, <1>4, <2>2, KeptStays DEF StageRestore, TypeOK
  <2> QED BY <2>1, <2>2
<1>5. CASE UndoGate(p) \/ RestoreFile(p)
  BY <1>0, <1>5, KeptStays
     DEF UndoGate, RestoreFile, Advance, CheckFile, TypeOK
<1>6. CASE SyncRestore(p) \/ VerifyRestore(p) \/ RecordUndone(p)
  BY <1>0, <1>6, KeptStays DEF SyncRestore, VerifyRestore, RecordUndone, Sync,
     CheckFile, Advance, Conclude, TypeOK
<1>7. CASE CatchUndo(p) \/ RollForward(p) \/ JudgeUnwind(p)
  BY <1>0, <1>7, KeptStays
     DEF CatchUndo, RollForward, JudgeUnwind, RestoreLast, Advance, TypeOK
<1>8. CASE RecordPartial(p) \/ CleanUndo(p) \/ ReleaseLock(p)
  BY <1>8 DEF RecordPartial, CleanUndo, ReleaseLock, Conclude, UnlinkSibling,
     Throw, Advance, TypeOK
<1> QED BY <1>1, <1>2, <1>3, <1>4, <1>5, <1>6, <1>7, <1>8 DEF Undo

LEMMA OtherStaged ==
  ASSUME TypeOK, NEW p \in Proc, Repair(p) \/ Gc(p) \/ Crash(p)
  PROVE  Staged(p)'
<1> USE DEF Staged, Enter
<1>1. CASE LoadPartial(p) \/ Classify(p) \/ AcquireRepair(p)
  BY <1>1 DEF LoadPartial, Classify, AcquireRepair, Blocked, Advance, TakeLock,
     TypeOK
<1>2. CASE RecheckChosen(p) \/ StageImage(p) \/ RenameImage(p) \/ SyncImage(p)
           \/ VerifyImage(p) \/ RecordRepaired(p) \/ ReleaseLock(p)
  BY <1>2 DEF RecheckChosen, StageImage, RenameImage, SyncImage, VerifyImage,
     RecordRepaired, ReleaseLock, Advance, Conclude, TypeOK
<1>3. CASE ListRecords(p) \/ ScanRecord(p) \/ FinishScan(p) \/ AcquireGc(p)
           \/ FinishPrune(p)
  BY <1>3 DEF ListRecords, ScanRecord, FinishScan, AcquireGc, FinishPrune,
     TakeLock, TypeOK
<1>4. CASE PruneImages(p) \/ RemoveRecord(p) \/ Crash(p)
  BY <1>4 DEF PruneImages, RemoveRecord, Crash, TypeOK
<1> QED BY <1>1, <1>2, <1>3, <1>4 DEF Repair, Gc

LEMMA ImageStep ==
  ASSUME TypeOK, ImageInv, [Next]_vars
  PROVE  ImageInv'
<1>1. CASE UNCHANGED vars
  BY <1>1 DEF ImageInv, BeforeImageKept, PlannedKept, Staged, Kept, vars
<1>2. CASE ForeignEdit
  <2>1. BeforeImageKept'
    <3> SUFFICES ASSUME NEW t \in Txn, NEW f \in Changed[t], content'[f] = t
                 PROVE  f \in retained'[t] \/ t \in pruned'
      BY DEF BeforeImageKept
    <3>1. t \notin Foreign /\ f \in File
      BY RepositoryConstants
    <3>2. content[f] = t
      BY <1>2, <3>1 DEF ForeignEdit, TypeOK
    <3> QED BY <1>2, <3>2 DEF ForeignEdit, ImageInv, BeforeImageKept
  <2>2. PlannedKept' /\ \A p \in Proc : Staged(p)'
    BY <1>2 DEF ForeignEdit, ImageInv, PlannedKept, Staged, Kept
  <2> QED BY <2>1, <2>2 DEF ImageInv
<1>3. ASSUME NEW p \in Proc, Run(p) \/ Crash(p)
      PROVE  ImageInv'
  <2>1. Writes(p) /\ Plans(p) /\ Retains
    BY <1>3, StepEffect DEF Effect
  <2>2. Target[p] \in Txn
    BY LocalTypes
  <2>3. PlannedKept'
    <3> SUFFICES ASSUME NEW u \in Txn, NEW t \in Txn, NEW f \in Changed[t],
                        before'[u][f] = t
                 PROVE  Kept(t, {f})'
      BY DEF PlannedKept
    <3>1. f \in File
      BY RepositoryConstants
    <3>2. before[u][f] = t \/ content[f] = t
      <4>1. CASE before' = before
        BY <4>1
      <4>2. ASSUME NEW g \in File,
                   before' = [before EXCEPT ![Target[p]][g] = content[g]]
            PROVE  before[u][f] = t \/ content[f] = t
        <5>1. before[u] \in [File -> Content]
          BY DEF TypeOK
        <5>2. before'[u] = IF u = Target[p]
                             THEN [before[u] EXCEPT ![g] = content[g]]
                             ELSE before[u]
          BY <4>2 DEF TypeOK
        <5> QED BY <3>1, <5>1, <5>2
      <4> QED BY <2>1, <4>1, <4>2 DEF Plans
    <3>3. Kept(t, {f})
      BY <3>2 DEF ImageInv, PlannedKept, BeforeImageKept, Kept
    <3> QED BY <2>1, <3>3, KeptStays
  <2>4. BeforeImageKept'
    <3> SUFFICES ASSUME NEW t \in Txn, NEW f \in Changed[t], content'[f] = t
                 PROVE  Kept(t, {f})'
      BY DEF BeforeImageKept, Kept
    <3>1. f \in File
      BY RepositoryConstants
    <3>2. \/ content[f] = t
          \/ before[Target[p]][f] = t
          \/ pc[p] \in {"rename", "uunwind"} /\ Target[p] = t
      BY <2>1, <3>1 DEF Writes, TypeOK
    <3>3. Kept(t, {f})
      BY <2>2, <3>2
      DEF ImageInv, PlannedKept, BeforeImageKept, Staged, Kept
    <3> QED BY <2>1, <3>3, KeptStays
  <2>5. ASSUME NEW q \in Proc
        PROVE  Staged(q)'
    <3>1. CASE q = p
      BY <1>3, <2>1, <3>1, CommitStaged, UndoStaged, OtherStaged
      DEF Run, ImageInv
    <3>2. CASE q # p
      <4>1. pc'[q] = pc[q] /\ todo'[q] = todo[q]
        BY <1>3, <3>2, Others DEF Same
      <4>2. Target[q] \in Txn /\ Staged(q)
        BY LocalTypes DEF ImageInv
      <4> QED BY <2>1, <4>1, <4>2, KeptStays DEF Staged
    <3> QED BY <3>1, <3>2
  <2> QED BY <2>3, <2>4, <2>5 DEF ImageInv
<1> QED BY <1>1, <1>2, <1>3 DEF Next

LEMMA ImageInit == Init => ImageInv
<1> SUFFICES ASSUME Init PROVE ImageInv
  OBVIOUS
<1>1. \A p \in Proc : Staged(p)
  BY RepositoryConstants DEF Init, StartLabel, Staged
<1> QED BY <1>1, RepositoryConstants
        DEF Init, ImageInv, BeforeImageKept, PlannedKept

\* At every instant, also after a crash between two renames, a file that holds
\* a transaction's output has its before image (writeBeforeArtifact runs before
\* the first rename), unless gc pruned it.
THEOREM ImagesAreKept == Spec => []BeforeImageKept
<1>1. Init => ImageInv
  BY ImageInit
<1>2. TypeOK /\ ImageInv /\ [Next]_vars => ImageInv'
  BY ImageStep
<1>3. ImageInv => BeforeImageKept
  BY DEF ImageInv
<1> QED BY <1>1, <1>2, <1>3, TypeCorrect, PTL DEF Spec

-----------------------------------------------------------------------------
(* The gates and the lock together. *)

\* Between acquireLock and releaseLock a process owns the lock.
LockHeld == \A p \in Proc : pc[p] \in Locked => lock = p

LEMMA LockStep ==
  ASSUME TypeOK, LockHeld, [Next]_vars
  PROVE  LockHeld'
<1>1. CASE UNCHANGED vars
  BY <1>1 DEF LockHeld, vars
<1>2. CASE ForeignEdit
  BY <1>2 DEF LockHeld, ForeignEdit
<1>3. ASSUME NEW p \in Proc, Run(p) \/ Crash(p)
      PROVE  LockHeld'
  <2>1. Locks(p)
    BY <1>3, StepEffect DEF Effect
  <2>2. \A q \in Proc : q # p => pc'[q] = pc[q]
    BY <1>3, Others DEF Same
  <2>3. "crashed" \notin Locked /\ \A q \in Proc : pc[q] \in Locked => Live(q)
    BY DEF Live, Locked
  <2> QED BY <2>1, <2>2, <2>3, RepositoryConstants DEF Locks, LockHeld
<1> QED BY <1>1, <1>2, <1>3 DEF Next

\* While a transaction is being planned no undo or repair of it can start.
PlannedFirst ==
  \A q \in Proc : Kind[q] = "commit" /\ pc[q] = "snapshot" =>
    /\ record[Target[q]] = "none"
    /\ \A p \in Proc : Kind[p] \in {"undo", "repair"} /\ Target[p] = Target[q]
         => pc[p] \in {"uload", "rload", "done", "crashed"}

\* The first label of an operation is never entered again.
LEMMA SnapshotOnce ==
  ASSUME TypeOK, NEW p \in Proc, Run(p) \/ Crash(p), pc'[p] = "snapshot"
  PROVE  pc[p] = "snapshot"
<1> USE DEF Enter
<1>1. CASE Commit(p)
  <2>1. CASE Snapshot(p) \/ Prepare(p) \/ Precheck(p) \/ Acquire(p)
             \/ Recheck(p) \/ Gate(p) \/ FinalGate(p) \/ StartRenames(p)
    BY <2>1 DEF Snapshot, Prepare, Precheck, Acquire, Recheck, Gate, FinalGate,
       StartRenames, CheckFile, Advance, TakeLock, TypeOK
  <2>2. CASE StageBefore(p) \/ StageAfter(p) \/ RetainBefore(p) \/ RenameOver(p)
    BY <2>2 DEF StageBefore, StageAfter, RetainBefore, RenameOver, TypeOK
  <2>3. CASE SyncRenames(p) \/ VerifyOutputs(p) \/ Validate(p) \/ Reverify(p)
             \/ Audit(p)
    BY <2>3 DEF SyncRenames, VerifyOutputs, Validate, Reverify, Audit, Sync,
       CheckFile, Advance, TypeOK
  <2>4. CASE Rollback(p) \/ Unwind(p) \/ SyncRollback(p) \/ SyncUnwind(p)
             \/ VerifyRollback(p) \/ Catch(p)
    BY <2>4 DEF Rollback, Unwind, SyncRollback, SyncUnwind, VerifyRollback,
       Catch, RestoreLast, Sync, CheckFile, Advance, TypeOK
  <2>5. CASE RecordRollback(p) \/ RecordUnwind(p) \/ Cleanup(p) \/ Finish(p)
              \/ Abort(p) \/ ReleaseLock(p)
    BY <2>5 DEF RecordRollback, RecordUnwind, Cleanup, Finish, Abort,
       ReleaseLock, Conclude, UnlinkSibling, Throw, Advance, TypeOK
  <2> QED BY <1>1, <2>1, <2>2, <2>3, <2>4, <2>5 DEF Commit
<1>2. CASE Undo(p)
  <2>1. CASE LoadCommitted(p) \/ Preview(p) \/ AcquireUndo(p) \/ ReadImages(p)
    BY <2>1 DEF LoadCommitted, Preview, AcquireUndo, ReadImages, UndoableFile,
       Advance, TakeLock, TypeOK
  <2>2. CASE StageRestore(p) \/ UndoGate(p) \/ RestoreFile(p) \/ CatchUndo(p)
    BY <2>2 DEF StageRestore, UndoGate, RestoreFile, CatchUndo, Advance,
       CheckFile, TypeOK
  <2>3. CASE SyncRestore(p) \/ VerifyRestore(p) \/ RecordUndone(p)
             \/ RollForward(p) \/ JudgeUnwind(p)
    BY <2>3 DEF SyncRestore, VerifyRestore, RecordUndone, RollForward,
       JudgeUnwind, Sync, CheckFile, Advance, Conclude, RestoreLast, TypeOK
  <2>4. CASE RecordPartial(p) \/ CleanUndo(p) \/ ReleaseLock(p)
    BY <2>4 DEF RecordPartial, CleanUndo, ReleaseLock, Conclude, UnlinkSibling,
       Throw, Advance, TypeOK
  <2> QED BY <1>2, <2>1, <2>2, <2>3, <2>4 DEF Undo
<1>3. CASE Repair(p)
  <2>1. CASE LoadPartial(p) \/ Classify(p) \/ AcquireRepair(p)
    BY <2>1 DEF LoadPartial, Classify, AcquireRepair, Blocked, Advance,
       TakeLock, TypeOK
  <2>2. CASE RecheckChosen(p) \/ StageImage(p) \/ RenameImage(p)
             \/ SyncImage(p) \/ VerifyImage(p) \/ RecordRepaired(p)
             \/ ReleaseLock(p)
    BY <2>2 DEF RecheckChosen, StageImage, RenameImage, SyncImage, VerifyImage,
       RecordRepaired, ReleaseLock, Advance, Conclude, TypeOK
  <2> QED BY <1>3, <2>1, <2>2 DEF Repair
<1>4. CASE Gc(p) \/ Crash(p)
  <2>1. CASE ListRecords(p) \/ ScanRecord(p) \/ FinishScan(p) \/ AcquireGc(p)
             \/ FinishPrune(p)
    BY <2>1 DEF ListRecords, ScanRecord, FinishScan, AcquireGc, FinishPrune,
       TakeLock, TypeOK
  <2>2. CASE PruneImages(p) \/ RemoveRecord(p) \/ Crash(p) \/ ReleaseLock(p)
    BY <2>2 DEF PruneImages, RemoveRecord, Crash, ReleaseLock, TypeOK
  <2> QED BY <1>4, <2>1, <2>2 DEF Gc
<1> QED BY <1>1, <1>2, <1>3, <1>4 DEF Run

\* An undo or repair that finds no record ends.
LEMMA NothingToUndo ==
  ASSUME TypeOK, NEW p \in Proc, Run(p) \/ Crash(p),
         Kind[p] \in {"undo", "repair"}, record[Target[p]] = "none",
         pc[p] \in {"uload", "rload", "done", "crashed"}
  PROVE  pc'[p] \in {"uload", "rload", "done", "crashed"}
<1> USE DEF Enter
<1>1. CASE Undo(p)
  <2>1. CASE LoadCommitted(p)
    BY <2>1 DEF LoadCommitted, TypeOK
  <2>2. CASE ~LoadCommitted(p)
    BY <1>1, <2>2 DEF Undo, Preview, AcquireUndo, ReadImages, StageRestore,
       UndoGate, RestoreFile, SyncRestore, VerifyRestore, RecordUndone,
       CatchUndo, RollForward, JudgeUnwind, RecordPartial, CleanUndo,
       ReleaseLock, UndoableFile, Advance, Finished, TakeLock, CheckFile, Sync,
       Conclude, RestoreLast, UnlinkSibling, Throw
  <2> QED BY <2>1, <2>2
<1>2. CASE Repair(p)
  <2>1. CASE LoadPartial(p)
    BY <2>1 DEF LoadPartial, Blocked, TypeOK
  <2>2. CASE ~LoadPartial(p)
    BY <1>2, <2>2 DEF Repair, Classify, AcquireRepair, RecheckChosen,
       StageImage, RenameImage, SyncImage, VerifyImage, RecordRepaired,
       ReleaseLock, Advance, Finished, TakeLock, Conclude
  <2> QED BY <2>1, <2>2
<1>3. CASE Crash(p)
  BY <1>3 DEF Crash, TypeOK
<1> QED BY <1>1, <1>2, <1>3 DEF Run, Commit, Gc

LEMMA PlannedStep ==
  ASSUME TypeOK, PlannedFirst, [Next]_vars
  PROVE  PlannedFirst'
<1>1. CASE UNCHANGED vars
  BY <1>1 DEF PlannedFirst, vars
<1>2. CASE ForeignEdit
  BY <1>2 DEF PlannedFirst, ForeignEdit
<1>3. ASSUME NEW p \in Proc, Run(p) \/ Crash(p)
      PROVE  PlannedFirst'
  <2> SUFFICES ASSUME NEW q \in Proc, Kind[q] = "commit", pc'[q] = "snapshot"
               PROVE  /\ record'[Target[q]] = "none"
                      /\ \A r \in Proc : /\ Kind[r] \in {"undo", "repair"}
                                         /\ Target[r] = Target[q]
                           => pc'[r] \in {"uload", "rload", "done", "crashed"}
    BY DEF PlannedFirst
  <2>0. Target[q] \in Txn /\ Target[p] \in Txn
    BY LocalTypes
  <2>1. \A r \in Proc : r # p => pc'[r] = pc[r]
    BY <1>3, Others DEF Same
  <2>2. pc[q] = "snapshot"
    BY <1>3, <2>1, SnapshotOnce
  <2>3. record[Target[q]] = "none"
    BY <2>2 DEF PlannedFirst
  <2>4. \A r \in Proc : Kind[r] \in {"undo", "repair"} /\ Target[r] = Target[q]
          => pc[r] \in {"uload", "rload", "done", "crashed"}
    BY <2>2 DEF PlannedFirst
  <2>5. ASSUME NEW r \in Proc, Kind[r] \in {"undo", "repair"},
               Target[r] = Target[q]
        PROVE  pc'[r] \in {"uload", "rload", "done", "crashed"}
    BY <1>3, <2>1, <2>3, <2>4, <2>5, NothingToUndo
  <2>6. record'[Target[q]] = "none"
    <3>1. Records(p)
      BY <1>3, StepEffect DEF Effect
    <3>2. CASE Kind[p] # "gc" /\ pc[p] \in Locked /\ Target[p] = Target[q]
      <4>1. pc[p] \notin {"uload", "rload", "done", "crashed", "snapshot"}
        BY <3>2 DEF Locked
      <4>2. Kind[p] \in {"commit", "undo", "repair"}
        BY <3>2, RepositoryConstants
      <4> QED BY <2>2, <2>4, <3>2, <4>1, <4>2, RepositoryConstants
    <3> QED BY <2>0, <2>3, <3>1, <3>2 DEF Records, TypeOK
  <2> QED BY <2>5, <2>6
<1> QED BY <1>1, <1>2, <1>3 DEF Next

-----------------------------------------------------------------------------
(* What an operation finds in the files it is about to write. *)

\* File f holds what the plan was made from, or an edit not yet looked at.
Fresh(p, f) ==
  \/ content[f] = before[Target[p]][f]
  \/ content[f] \in Foreign /\ f \in window[p]

\* The same, or the output of p's own transaction.
Own(p, f) == content[f] = Target[p] \/ Fresh(p, f)

\* The only files p stops suspecting are those it has just compared.
Looks(p) ==
  \/ pc[p] = "snapshot"
  \/ pc'[p] \in {"done", "crashed"}
  \/ \A f \in window[p] \ window'[p] :
       /\ content' = content
       /\ content[f] \in {before[Target[p]][f], Target[p]}

LEMMA HelperLooks ==
  ASSUME TypeOK, NEW p \in Proc, NEW l, NEW e, NEW b, NEW S, NEW s, NEW to,
         NEW slot,
         \/ CheckFile(p, l, e, b) /\ e \in {before[Target[p]], After(Target[p])}
         \/ Advance(p, l, to, S) \/ TakeLock(p, to, S) \/ Sync(p, l, to, S, b)
         \/ Conclude(p, l, s, to, b) \/ Throw(p, l, to)
         \/ UnlinkSibling(p, l, b) \/ RestoreLast(p, l, slot, e)
         \/ UndoableFile(p, l, b) \/ ReleaseLock(p) \/ Crash(p)
  PROVE  Looks(p)
<1>1. CASE CheckFile(p, l, e, b) /\ e \in {before[Target[p]], After(Target[p])}
  <2>1. \A f \in File : e[f] \in {before[Target[p]][f], Target[p]}
    BY <1>1 DEF After
  <2> QED BY <1>1, <2>1 DEF CheckFile, Looks, TypeOK
<1>2. CASE UndoableFile(p, l, b)
  BY <1>2 DEF UndoableFile, Looks, TypeOK
<1>3. CASE ReleaseLock(p) \/ Crash(p)
  BY <1>3 DEF ReleaseLock, Crash, Enter, Looks, TypeOK
<1> QED
  BY <1>1, <1>2, <1>3 DEF Looks, Advance, TakeLock, Sync, Conclude, Throw,
     UnlinkSibling, RestoreLast

LEMMA CommitLooks ==
  ASSUME TypeOK, NEW p \in Proc, Commit(p)
  PROVE  Looks(p)
<1>1. CASE Snapshot(p)
  BY <1>1 DEF Snapshot, Looks
<1>2. CASE Prepare(p) \/ Precheck(p) \/ Acquire(p) \/ Recheck(p) \/ Gate(p)
           \/ FinalGate(p) \/ StartRenames(p) \/ SyncRenames(p)
           \/ VerifyOutputs(p)
  BY <1>2, HelperLooks DEF Prepare, Precheck, Acquire, Recheck, Gate,
     FinalGate, StartRenames, SyncRenames, VerifyOutputs
<1>3. CASE StageBefore(p) \/ StageAfter(p) \/ RetainBefore(p) \/ RenameOver(p)
           \/ Validate(p) \/ Audit(p) \/ Catch(p)
  BY <1>3 DEF StageBefore, StageAfter, RetainBefore, RenameOver, Validate,
     Audit, Catch, Looks
<1>4. CASE Reverify(p) \/ VerifyRollback(p)
  BY <1>4, HelperLooks DEF Reverify, VerifyRollback, Looks
<1>5. CASE Rollback(p) \/ SyncRollback(p) \/ RecordRollback(p) \/ Cleanup(p)
           \/ Unwind(p) \/ SyncUnwind(p) \/ RecordUnwind(p) \/ Finish(p)
           \/ Abort(p) \/ ReleaseLock(p)
  BY <1>5, HelperLooks DEF Rollback, SyncRollback, RecordRollback, Cleanup,
     Unwind, SyncUnwind, RecordUnwind, Finish, Abort
<1> QED BY <1>1, <1>2, <1>3, <1>4, <1>5 DEF Commit

LEMMA UndoLooks ==
  ASSUME TypeOK, NEW p \in Proc, Undo(p)
  PROVE  Looks(p)
<1>1. CASE LoadCommitted(p) \/ RestoreFile(p) \/ CatchUndo(p)
  BY <1>1 DEF LoadCommitted, RestoreFile, CatchUndo, Looks
<1>2. CASE StageRestore(p)
  BY <1>2, HelperLooks DEF StageRestore, Looks
<1> QED
  BY <1>1, <1>2, HelperLooks DEF Undo, Preview, AcquireUndo, ReadImages,
     UndoGate, SyncRestore, VerifyRestore, RecordUndone, RollForward,
     JudgeUnwind, RecordPartial, CleanUndo

LEMMA RepairLooks ==
  ASSUME TypeOK, NEW p \in Proc, Repair(p)
  PROVE  Looks(p)
<1>1. CASE Classify(p)
  BY <1>1 DEF Classify, Blocked, Enter, Restorable, Looks, TypeOK
<1>2. CASE RecheckChosen(p)
  BY <1>2 DEF RecheckChosen, Restorable, Looks, TypeOK
<1>3. CASE LoadPartial(p) \/ StageImage(p) \/ RenameImage(p) \/ SyncImage(p)
           \/ VerifyImage(p)
  BY <1>3 DEF LoadPartial, StageImage, RenameImage, SyncImage, VerifyImage,
     Looks
<1> QED
  BY <1>1, <1>2, <1>3, HelperLooks DEF Repair, AcquireRepair, RecordRepaired

\* What p has established about a file survives its own steps.
LEMMA OwnStays ==
  ASSUME TypeOK, NEW p \in Proc, Run(p), Kind[p] # "gc",
         pc[p] # "snapshot", pc'[p] \notin {"done", "crashed"},
         NEW f \in File, Own(p, f)
  PROVE  Own(p, f)'
<1>1. Looks(p)
  BY CommitLooks, UndoLooks, RepairLooks DEF Run, Gc
<1>2. Writes(p) /\ Plans(p)
  BY StepEffect DEF Effect
<1>3. before' = before
  BY <1>2 DEF Plans
<1>4. content'[f] \in {content[f], Target[p], before[Target[p]][f]}
  BY <1>2 DEF Writes, TypeOK
<1> QED BY <1>1, <1>3, <1>4 DEF Looks, Own, Fresh

\* ... and what its gate has established survives until it writes.
LEMMA FreshStays ==
  ASSUME TypeOK, NEW p \in Proc, CheckFile(p, "finalgate", before[Target[p]], "abort"),
         NEW f \in File, Fresh(p, f)
  PROVE  Fresh(p, f)'
  BY DEF CheckFile, Fresh, TypeOK

\* What each label of a writing operation may rely on.
Owned(p) ==
  LET t == Target[p] IN
  /\ pc[p] = "finalgate" => \A f \in Inputs[t] \ todo[p] : Fresh(p, f)
  /\ pc[p] = "rename" /\ renamed[p] = {} => \A f \in Inputs[t] : Fresh(p, f)
  /\ pc[p] \in {"rename", "urename", "rollback", "unwind", "uunwind"} =>
       \A f \in todo[p] : Own(p, f)
  /\ pc[p] = "ugate" => \A f \in Changed[t] \ todo[p] : Own(p, f)
  /\ pc[p] \in {"rstage", "rrename"} =>
       \A f \in todo[p] : First(todo[p], f) => Own(p, f)
  /\ pc[p] \in Locked => \A f \in renamed[p] : Own(p, f)
  /\ pc[p] \in Unlocked \ {"done", "crashed"} => renamed[p] = {}

LEMMA CommitOwned ==
  ASSUME TypeOK, NEW p \in Proc, Commit(p), Owned(p)
  PROVE  Owned(p)'
<1> USE DEF Owned, Enter, Finished
<1>l. /\ {"recheck", "gate", "stage", "finalgate", "rename", "verify",
          "reverify", "mismatch", "audit", "rollback", "rbverify", "rbdiffers",
          "rbpersist", "cleanup", "catch", "unwind", "unwindpersist", "finish",
          "abort", "rethrow", "release"} \cap Unlocked = {}
      /\ {"snapshot", "prepare", "precheck", "lock", "done"} \cap Locked = {}
      /\ {"snapshot", "prepare", "precheck", "lock"}
           \subseteq Unlocked \ {"done", "crashed"}
  BY DEF Locked, Unlocked
<1>m. {"recheck", "gate", "stage", "finalgate", "rename", "verify",
       "reverify", "mismatch", "audit", "rollback", "rbverify", "rbdiffers",
       "rbpersist", "cleanup", "catch", "unwind", "unwindpersist", "finish",
       "abort", "rethrow", "release"} \subseteq Locked
  BY DEF Locked
<1>k. Kind[p] # "gc"
  BY DEF Commit
<1>t. /\ Changed[Target[p]] \subseteq Inputs[Target[p]]
      /\ Inputs[Target[p]] \subseteq File
      /\ renamed[p] \subseteq File /\ todo[p] \subseteq File
  BY LocalTypes, RepositoryConstants
<1>s. pc[p] # "snapshot" /\ pc'[p] \notin {"done", "crashed"} =>
        \A f \in File : Own(p, f) => Own(p, f)'
  BY <1>k, OwnStays DEF Run
<1>1. CASE Snapshot(p)
  BY <1>1, <1>l DEF Snapshot, TypeOK
<1>2. CASE Prepare(p) \/ Precheck(p)
  BY <1>2, <1>l DEF Prepare, Precheck, CheckFile, Advance, TypeOK
<1>3. CASE Acquire(p)
  BY <1>3, <1>l DEF Acquire, Advance, TakeLock, TypeOK
<1>4. CASE Recheck(p) \/ Gate(p)
  BY <1>4, <1>l, <1>m, <1>t, <1>s DEF Recheck, Gate, CheckFile, Advance, TypeOK
<1>5. CASE StageBefore(p) \/ StageAfter(p) \/ RetainBefore(p)
  BY <1>5, <1>l, <1>m, <1>t, <1>s
  DEF StageBefore, StageAfter, RetainBefore, TypeOK
<1>6. CASE FinalGate(p)
  <2>1. CASE Advance(p, "stage", "finalgate", Inputs[Target[p]])
    BY <1>l, <1>m, <1>t, <1>s, <2>1 DEF Advance, TypeOK
  <2>2. CASE CheckFile(p, "finalgate", before[Target[p]], "abort")
    <3>1. \A f \in renamed'[p] : Own(p, f)'
      BY <1>l, <1>m, <1>t, <1>s, <2>2 DEF CheckFile, TypeOK
    <3>2. pc'[p] = "finalgate" =>
            \A f \in Inputs[Target[p]] \ todo'[p] : Fresh(p, f)'
      <4> SUFFICES ASSUME pc'[p] = "finalgate",
                          NEW f \in Inputs[Target[p]], f \notin todo'[p]
                   PROVE  Fresh(p, f)'
        OBVIOUS
      <4>1. CASE f \notin todo[p]
        BY <1>t, <2>2, <4>1, FreshStays DEF CheckFile
      <4>2. CASE f \in todo[p]
        <5>1. content[f] = before[Target[p]][f]
          BY <2>2, <4>2 DEF CheckFile, TypeOK
        <5> QED BY <2>2, <5>1 DEF CheckFile, Fresh
      <4> QED BY <4>1, <4>2
    <3>3. pc'[p] \in {"finalgate", "abort"}
      BY <2>2 DEF CheckFile, TypeOK
    <3> QED BY <1>l, <3>1, <3>2, <3>3
  <2> QED BY <1>6, <2>1, <2>2 DEF FinalGate
<1>7. CASE StartRenames(p)
  <2>1. \A f \in Inputs[Target[p]] : Fresh(p, f) /\ Fresh(p, f)'
    BY <1>7 DEF StartRenames, Advance, Fresh
  <2>2. pc'[p] = "rename" /\ todo'[p] = Changed[Target[p]]
    BY <1>7 DEF StartRenames, Advance, TypeOK
  <2>3. \A f \in renamed'[p] : Own(p, f)'
    BY <1>7, <1>m, <1>t, <1>s, <2>2 DEF StartRenames, Advance
  <2> QED BY <1>l, <1>t, <2>1, <2>2, <2>3 DEF Own
<1>8. CASE RenameOver(p)
  <2>1. PICK f \in todo[p] :
          \/ /\ content' = [content EXCEPT ![f] = Target[p]]
             /\ renamed' = [renamed EXCEPT ![p] = @ \cup {f}]
             /\ todo' = [todo EXCEPT ![p] = @ \ {f}]
             /\ pc' = pc
          \/ Enter(p, "catch", {}) /\ renamed' = renamed
    BY <1>8 DEF RenameOver, RenameSibling, RenameFails
  <2>2. \A g \in File : Own(p, g) => Own(p, g)'
    BY <1>8, <1>s, <2>1 DEF RenameOver, TypeOK
  <2>3. CASE pc' = pc /\ f \in renamed'[p] /\ content'[f] = Target[p]
    BY <1>8, <1>l, <1>m, <1>t, <2>1, <2>2, <2>3 DEF RenameOver, TypeOK, Own
  <2>4. CASE Enter(p, "catch", {}) /\ renamed' = renamed
    BY <1>8, <1>l, <1>m, <1>t, <2>2, <2>4 DEF RenameOver, TypeOK
  <2> QED BY <2>1, <2>3, <2>4 DEF TypeOK
<1>9. CASE SyncRenames(p) \/ VerifyOutputs(p)
  BY <1>9, <1>l, <1>m, <1>t, <1>s
  DEF SyncRenames, VerifyOutputs, Sync, CheckFile, TypeOK
<1>10. CASE Validate(p) \/ Reverify(p)
  BY <1>10, <1>l, <1>m, <1>t, <1>s
  DEF Validate, Reverify, CheckFile, Advance, TypeOK
<1>11. CASE Audit(p)
  BY <1>11, <1>l, <1>m, <1>t, <1>s DEF Audit, TypeOK
<1>12. CASE Rollback(p) \/ Unwind(p)
  BY <1>12, <1>l, <1>m, <1>t, <1>s DEF Rollback, Unwind, RestoreLast, TypeOK
<1>13. CASE SyncRollback(p) \/ SyncUnwind(p) \/ VerifyRollback(p)
  BY <1>13, <1>l, <1>m, <1>t, <1>s
  DEF SyncRollback, SyncUnwind, VerifyRollback, Sync, CheckFile, Advance, TypeOK
<1>14. CASE Catch(p)
  BY <1>14, <1>l, <1>m, <1>t, <1>s DEF Catch, TypeOK
<1>15. CASE RecordRollback(p) \/ RecordUnwind(p)
  BY <1>15, <1>l, <1>m, <1>t, <1>s
  DEF RecordRollback, RecordUnwind, Conclude, TypeOK
<1>16. CASE Cleanup(p) \/ Finish(p) \/ Abort(p)
  BY <1>16, <1>l, <1>m, <1>t, <1>s
  DEF Cleanup, Finish, Abort, UnlinkSibling, Throw, Advance, TypeOK
<1>17. CASE ReleaseLock(p)
  BY <1>17, <1>l DEF ReleaseLock, TypeOK
<1> QED
  BY <1>1, <1>2, <1>3, <1>4, <1>5, <1>6, <1>7, <1>8, <1>9, <1>10, <1>11,
     <1>12, <1>13, <1>14, <1>15, <1>16, <1>17 DEF Commit

LEMMA UndoOwned ==
  ASSUME TypeOK, NEW p \in Proc, Undo(p), Owned(p)
  PROVE  Owned(p)'
<1> USE DEF Owned, Enter, Finished
<1>l. /\ {"uread", "ustage", "ugate", "urename", "uverify", "urecord", "ucatch",
          "uunwind", "upartial", "uclean", "uleak", "release"}
           \cap Unlocked = {}
      /\ {"uload", "upreview", "lock", "done"} \cap Locked = {}
      /\ {"uload", "upreview", "lock"} \subseteq Unlocked \ {"done", "crashed"}
  BY DEF Locked, Unlocked
<1>m. {"uread", "ustage", "ugate", "urename", "uverify", "urecord", "ucatch",
       "uunwind", "upartial", "uclean", "uleak", "release"} \subseteq Locked
  BY DEF Locked
<1>k. Kind[p] # "gc"
  BY DEF Undo
<1>t. /\ Changed[Target[p]] \subseteq File
      /\ renamed[p] \subseteq File /\ todo[p] \subseteq File
  BY LocalTypes
<1>s. pc[p] # "snapshot" /\ pc'[p] \notin {"done", "crashed"} =>
        \A f \in File : Own(p, f) => Own(p, f)'
  BY <1>k, OwnStays DEF Run
<1>1. CASE LoadCommitted(p) \/ Preview(p)
  BY <1>1, <1>l DEF LoadCommitted, Preview, UndoableFile, TypeOK
<1>2. CASE AcquireUndo(p)
  BY <1>2, <1>l DEF AcquireUndo, Advance, TakeLock, TypeOK
<1>3. CASE ReadImages(p)
  BY <1>3, <1>l, <1>m, <1>t, <1>s DEF ReadImages, UndoableFile, TypeOK
<1>4. CASE StageRestore(p)
  BY <1>4, <1>l, <1>m, <1>t, <1>s DEF StageRestore, Advance, TypeOK
<1>5. CASE UndoGate(p)
  <2>1. CASE Advance(p, "ustage", "ugate", Changed[Target[p]])
    BY <1>l, <1>m, <1>t, <1>s, <2>1 DEF Advance, TypeOK
  <2>2. CASE CheckFile(p, "ugate", After(Target[p]), "uclean")
    <3>1. pc'[p] \in {"ugate", "uclean"} /\ pc[p] = "ugate"
      BY <2>2 DEF CheckFile, TypeOK
    <3>2. \A f \in File : Own(p, f) => Own(p, f)'
      BY <1>s, <3>1
    <3>3. \A f \in renamed'[p] : Own(p, f)'
      BY <1>m, <1>t, <2>2, <3>1, <3>2 DEF CheckFile
    <3>4. pc'[p] = "ugate" =>
            \A f \in Changed[Target[p]] \ todo'[p] : Own(p, f)'
      <4> SUFFICES ASSUME pc'[p] = "ugate",
                          NEW f \in Changed[Target[p]], f \notin todo'[p]
                   PROVE  Own(p, f)'
        OBVIOUS
      <4>1. CASE f \notin todo[p]
        BY <1>t, <3>1, <3>2, <4>1
      <4>2. CASE f \in todo[p]
        <5>1. content[f] = Target[p]
          BY <1>t, <2>2, <4>2 DEF CheckFile, TypeOK, After
        <5> QED BY <2>2, <5>1 DEF CheckFile, Own
      <4> QED BY <4>1, <4>2
    <3> QED BY <1>l, <3>1, <3>3, <3>4
  <2>3. CASE Advance(p, "ugate", "urename", Changed[Target[p]])
    BY <1>l, <1>m, <1>t, <1>s, <2>3 DEF Advance, TypeOK
  <2> QED BY <1>5, <2>1, <2>2, <2>3 DEF UndoGate
<1>6. CASE RestoreFile(p)
  <2>1. PICK f \in todo[p] :
          \/ /\ content' = [content EXCEPT ![f] = before[Target[p]][f]]
             /\ renamed' = [renamed EXCEPT ![p] = @ \cup {f}]
             /\ todo' = [todo EXCEPT ![p] = @ \ {f}]
             /\ pc' = pc
          \/ Enter(p, "ucatch", {}) /\ renamed' = renamed
    BY <1>6 DEF RestoreFile, RenameSibling, RenameFails
  <2>2. \A g \in File : Own(p, g) => Own(p, g)'
    BY <1>6, <1>s, <2>1 DEF RestoreFile, TypeOK
  <2>3. Own(p, f)
    BY <1>6 DEF RestoreFile
  <2>4. pc[p] = "urename" /\ todo'[p] \subseteq todo[p]
    BY <1>6, <2>1 DEF RestoreFile, TypeOK
  <2>5. pc'[p] \in {"urename", "ucatch"}
    BY <2>1, <2>4 DEF TypeOK
  <2>6. \A g \in renamed'[p] : g \in renamed[p] \/ g = f
    BY <2>1 DEF TypeOK
  <2>7. \A g \in renamed'[p] : Own(p, g)'
    BY <1>m, <1>t, <2>2, <2>3, <2>4, <2>6
  <2>8. \A g \in todo'[p] : Own(p, g)'
    BY <1>t, <2>2, <2>4
  <2> QED BY <1>l, <2>5, <2>7, <2>8
<1>7. CASE SyncRestore(p) \/ VerifyRestore(p)
  BY <1>7, <1>l, <1>m, <1>t, <1>s
  DEF SyncRestore, VerifyRestore, Sync, CheckFile, Advance, TypeOK
<1>8. CASE RecordUndone(p) \/ RecordPartial(p)
  BY <1>8, <1>l, <1>m, <1>t, <1>s
  DEF RecordUndone, RecordPartial, Conclude, TypeOK
<1>9. CASE CatchUndo(p) \/ JudgeUnwind(p)
  BY <1>9, <1>l, <1>m, <1>t, <1>s DEF CatchUndo, JudgeUnwind, Advance, TypeOK
<1>10. CASE RollForward(p)
  BY <1>10, <1>l, <1>m, <1>t, <1>s DEF RollForward, RestoreLast, TypeOK
<1>11. CASE CleanUndo(p)
  <2>1. CASE pc'[p] = "done"
    BY <1>l, <2>1
  <2>2. CASE pc'[p] # "done"
    BY <1>11, <1>l, <1>m, <1>t, <1>s, <2>2
    DEF CleanUndo, UnlinkSibling, Throw, Advance, TypeOK
  <2> QED BY <2>1, <2>2
<1>12. CASE ReleaseLock(p)
  BY <1>12, <1>l DEF ReleaseLock, TypeOK
<1> QED
  BY <1>1, <1>2, <1>3, <1>4, <1>5, <1>6, <1>7, <1>8, <1>9, <1>10, <1>11,
     <1>12 DEF Undo

LEMMA RepairOwned ==
  ASSUME TypeOK, NEW p \in Proc, Repair(p), Owned(p)
  PROVE  Owned(p)'
<1> USE DEF Owned, Enter, Finished
<1>l. /\ {"rcheck", "rstage", "rrename", "rsync", "rverify", "rrecord",
          "release"} \cap Unlocked = {}
      /\ {"rload", "rclassify", "lock", "done"} \cap Locked = {}
      /\ {"rload", "rclassify", "lock"} \subseteq Unlocked \ {"done", "crashed"}
  BY DEF Locked, Unlocked
<1>m. {"rcheck", "rstage", "rrename", "rsync", "rverify", "rrecord",
       "release"} \subseteq Locked
  BY DEF Locked
<1>k. Kind[p] # "gc"
  BY DEF Repair
<1>t. renamed[p] \subseteq File /\ todo[p] \subseteq File
  BY LocalTypes
<1>s. pc[p] # "snapshot" /\ pc'[p] \notin {"done", "crashed"} =>
        \A f \in File : Own(p, f) => Own(p, f)'
  BY <1>k, OwnStays DEF Run
<1>1. CASE LoadPartial(p) \/ Classify(p)
  BY <1>1, <1>l DEF LoadPartial, Classify, Blocked, TypeOK
<1>2. CASE AcquireRepair(p)
  BY <1>2, <1>l DEF AcquireRepair, Advance, TakeLock, TypeOK
<1>3. CASE RecheckChosen(p)
  <2>1. \A f \in renamed'[p] : Own(p, f)'
    BY <1>3, <1>l, <1>m, <1>t, <1>s DEF RecheckChosen, TypeOK
  <2>2. pc'[p] = "rstage" =>
          \A f \in todo'[p] : First(todo'[p], f) => Own(p, f)'
    <3> SUFFICES ASSUME pc'[p] = "rstage",
                        NEW f \in todo'[p], First(todo'[p], f)
                 PROVE  Own(p, f)'
      OBVIOUS
    <3>1. PICK g \in todo[p] : First(todo[p], g) /\ Restorable(Target[p], g)
                                /\ todo' = todo
      BY <1>3 DEF RecheckChosen, TypeOK
    <3>2. f = g
      <4>1. f \in Nat /\ g \in Nat
        BY <1>t, <3>1, RepositoryConstants
      <4>2. f <= g /\ g <= f
        BY <3>1 DEF First
      <4> QED BY <4>1, <4>2
    <3> QED BY <1>3, <3>1, <3>2 DEF RecheckChosen, Restorable, Own
  <2>3. pc'[p] \in {"rstage", "release"}
    BY <1>3 DEF RecheckChosen, TypeOK
  <2> QED BY <1>l, <2>1, <2>2, <2>3
<1>4. CASE StageImage(p)
  BY <1>4, <1>l, <1>m, <1>t, <1>s DEF StageImage, TypeOK
<1>5. CASE RenameImage(p)
  BY <1>5, <1>l, <1>m, <1>t, <1>s DEF RenameImage, TypeOK
<1>6. CASE SyncImage(p) \/ VerifyImage(p)
  BY <1>6, <1>l, <1>m, <1>t, <1>s DEF SyncImage, VerifyImage, TypeOK
<1>7. CASE RecordRepaired(p)
  BY <1>7, <1>l, <1>m, <1>t, <1>s DEF RecordRepaired, Advance, Conclude, TypeOK
<1>8. CASE ReleaseLock(p)
  BY <1>8, <1>l DEF ReleaseLock, TypeOK
<1> QED BY <1>1, <1>2, <1>3, <1>4, <1>5, <1>6, <1>7, <1>8 DEF Repair

LEMMA CrashOwned ==
  ASSUME TypeOK, NEW p \in Proc, Crash(p)
  PROVE  Owned(p)'
<1>1. "crashed" \notin Locked
  BY DEF Locked
<1> QED BY <1>1 DEF Crash, Enter, Owned, TypeOK

-----------------------------------------------------------------------------
\* gc writes no repository file.
GcKeepsOut ==
  \A p \in Proc : Kind[p] = "gc" =>
    pc[p] \in {"glist", "gscan", "lock", "gprune", "gremove", "release",
               "done", "crashed"}

LEMMA GcStep ==
  ASSUME TypeOK, GcKeepsOut, [Next]_vars
  PROVE  GcKeepsOut'
<1>1. CASE UNCHANGED vars
  BY <1>1 DEF GcKeepsOut, vars
<1>2. CASE ForeignEdit
  BY <1>2 DEF GcKeepsOut, ForeignEdit
<1>3. ASSUME NEW p \in Proc, Run(p) \/ Crash(p), NEW q \in Proc, Kind[q] = "gc"
      PROVE  pc'[q] \in {"glist", "gscan", "lock", "gprune", "gremove",
                         "release", "done", "crashed"}
  <2>0. pc[q] \in {"glist", "gscan", "lock", "gprune", "gremove", "release",
                   "done", "crashed"}
    BY <1>3 DEF GcKeepsOut
  <2>1. CASE q # p
    BY <1>3, <2>0, <2>1, Others DEF Same
  <2>2. CASE q = p /\ Crash(p)
    BY <2>2 DEF Crash, Enter, TypeOK
  <2>3. CASE q = p /\ Gc(p)
    BY <2>0, <2>3 DEF Gc, ListRecords, ScanRecord, FinishScan, AcquireGc,
       TakeLock, PruneImages, RemoveRecord, FinishPrune, ReleaseLock, Enter,
       TypeOK
  <2> QED BY <1>3, <2>1, <2>2, <2>3 DEF Run, Commit, Undo, Repair
<1> QED BY <1>1, <1>2, <1>3 DEF Next, GcKeepsOut

GateInv == /\ LockHeld
           /\ PlannedFirst
           /\ GcKeepsOut
           /\ \A p \in Proc : Kind[p] # "gc" => Owned(p)

\* Nothing another process does disturbs what p relies on: it would need the
\* lock to write a file, and the plan of p's transaction is long made.
LEMMA OthersKeepOwned ==
  ASSUME TypeOK, GateInv, NEW p \in Proc, Run(p) \/ Crash(p),
         NEW q \in Proc, q # p, Kind[q] # "gc"
  PROVE  Owned(q)'
<1>1. Same(q)
  BY Others
<1>2. Owned(q)
  BY DEF GateInv
<1>3. CASE pc[q] \notin Locked
  <2>1. {"finalgate", "rename", "urename", "rollback", "unwind", "uunwind",
         "ugate", "rstage", "rrename"} \subseteq Locked
    BY DEF Locked
  <2> QED BY <1>1, <1>2, <1>3, <2>1 DEF Same, Owned
<1>4. CASE pc[q] \in Locked
  <2>1. Writes(p) /\ Plans(p)
    BY StepEffect DEF Effect
  <2>2. pc[p] \notin Locked
    BY <1>4, RepositoryConstants DEF GateInv, LockHeld
  <2>3. content' = content
    BY <2>1, <2>2 DEF Writes, Locked
  <2>4. before'[Target[q]] = before[Target[q]]
    <3>1. CASE before' = before
      BY <3>1
    <3>2. CASE /\ pc[p] = "snapshot" /\ Kind[p] = "commit"
               /\ \E f \in File :
                    before' = [before EXCEPT ![Target[p]][f] = content[f]]
      <4>1. Target[p] # Target[q]
        <5>1. Kind[q] \in {"commit", "undo", "repair"}
          BY RepositoryConstants
        <5>2. pc[q] \notin {"uload", "rload", "done", "crashed"}
          BY <1>4 DEF Locked
        <5> QED BY <3>2, <5>1, <5>2, RepositoryConstants
                DEF GateInv, PlannedFirst
      <4> QED BY <3>2, <4>1, LocalTypes DEF TypeOK
    <3> QED BY <2>1, <3>1, <3>2 DEF Plans
  <2>5. \A f : Fresh(q, f) => Fresh(q, f)'
    BY <1>1, <2>3, <2>4 DEF Fresh, Same
  <2>6. \A f : Own(q, f) => Own(q, f)'
    BY <2>3, <2>5 DEF Own
  <2> QED BY <1>1, <1>2, <2>5, <2>6 DEF Owned, Same
<1> QED BY <1>3, <1>4

\* An edit is one more thing not yet looked at.
LEMMA EditKeepsOwned ==
  ASSUME TypeOK, ForeignEdit, NEW q \in Proc, Owned(q)
  PROVE  Owned(q)'
<1>1. CASE pc[q] \notin Locked
  <2>1. {"finalgate", "rename", "urename", "rollback", "unwind", "uunwind",
         "ugate", "rstage", "rrename"} \subseteq Locked
    BY DEF Locked
  <2> QED BY <1>1, <2>1 DEF ForeignEdit, Owned
<1>2. CASE pc[q] \in Locked
  <2>1. Live(q)
    BY <1>2 DEF Live, Locked
  <2>2. PICK f \in File, c \in Foreign :
          /\ content' = [content EXCEPT ![f] = c]
          /\ window'[q] = window[q] \cup {f}
    BY <2>1 DEF ForeignEdit
  <2>3. \A g \in File : Fresh(q, g) => Fresh(q, g)'
    BY <2>2 DEF ForeignEdit, Fresh, TypeOK
  <2>4. \A g \in File : Own(q, g) => Own(q, g)'
    BY <2>2, <2>3 DEF ForeignEdit, Own, Fresh, TypeOK
  <2>5. /\ Inputs[Target[q]] \subseteq File /\ Changed[Target[q]] \subseteq File
        /\ todo[q] \subseteq File /\ renamed[q] \subseteq File
    BY LocalTypes
  <2> QED BY <2>3, <2>4, <2>5 DEF ForeignEdit, Owned
<1> QED BY <1>1, <1>2

LEMMA GateStep ==
  ASSUME TypeOK, GateInv, [Next]_vars
  PROVE  GateInv'
<1>1. LockHeld' /\ PlannedFirst' /\ GcKeepsOut'
  BY LockStep, PlannedStep, GcStep DEF GateInv
<1>2. ASSUME NEW q \in Proc, Kind[q] # "gc"
      PROVE  Owned(q)'
  <2>0. Owned(q)
    BY <1>2 DEF GateInv
  <2>1. CASE UNCHANGED vars
    BY <2>0, <2>1 DEF Owned, Own, Fresh, vars
  <2>2. CASE ForeignEdit
    BY <2>0, <2>2, EditKeepsOwned
  <2>3. ASSUME NEW p \in Proc, Run(p) \/ Crash(p)
        PROVE  Owned(q)'
    <3>1. CASE q = p
      BY <1>2, <2>0, <2>3, <3>1, CommitOwned, UndoOwned, RepairOwned,
         CrashOwned DEF Run, Gc
    <3>2. CASE q # p
      BY <1>2, <2>3, <3>2, OthersKeepOwned
    <3> QED BY <3>1, <3>2
  <2> QED BY <2>1, <2>2, <2>3 DEF Next
<1> QED BY <1>1, <1>2 DEF GateInv

LEMMA GateInit == Init => GateInv
<1> SUFFICES ASSUME Init PROVE GateInv
  OBVIOUS
<1>1. \A p \in Proc : pc[p] \in {"snapshot", "uload", "rload", "glist"}
  BY RepositoryConstants DEF Init, StartLabel
<1>2. LockHeld
  BY <1>1 DEF LockHeld, Locked
<1>3. PlannedFirst
  BY <1>1, RepositoryConstants DEF Init, StartLabel, PlannedFirst
<1>4. \A p \in Proc : Owned(p)
  BY <1>1 DEF Init, Owned, Locked
<1>5. GcKeepsOut
  BY RepositoryConstants DEF Init, StartLabel, GcKeepsOut
<1> QED BY <1>2, <1>3, <1>4, <1>5 DEF GateInv

\* When a file changes in a step that also consumes a sibling, p had its reasons.
LEMMA OverwriteOwned ==
  ASSUME TypeOK, GateInv, [Next]_vars, NEW p \in Proc, NEW f \in File,
         Overwrites(p, f)
  PROVE  Own(p, f)
<1>1. siblings'[p] # siblings[p] /\ content'[f] # content[f]
  BY DEF Overwrites
<1>2. ~UNCHANGED vars /\ ~ForeignEdit
  BY <1>1 DEF vars, ForeignEdit
<1>3. PICK q \in Proc : Run(q) \/ Crash(q)
  BY <1>2 DEF Next
<1>4. q = p
  BY <1>1, <1>3, Others DEF Same
<1>5. Writes(p)
  BY <1>3, <1>4, StepEffect DEF Effect
<1>6. PICK g \in todo[p] :
        /\ pc[p] \in {"rename", "uunwind", "rollback", "unwind", "urename",
                      "rrename"}
        /\ pc[p] = "rrename" => First(todo[p], g)
        /\ \A h \in File \ {g} : content'[h] = content[h]
  BY <1>1, <1>5 DEF Writes, TypeOK
<1>7. f = g
  BY <1>1, <1>6
<1>8. Kind[p] # "gc"
  <2>1. ~Crash(p)
    BY <1>1 DEF Crash
  <2>2. ~Gc(p)
    BY <1>1 DEF Gc, ListRecords, ScanRecord, FinishScan, AcquireGc, TakeLock,
       PruneImages, RemoveRecord, FinishPrune, ReleaseLock
  <2> QED BY <1>3, <1>4, <2>1, <2>2 DEF Run, Commit, Undo, Repair
<1>9. Owned(p)
  BY <1>8 DEF GateInv
<1> QED BY <1>6, <1>7, <1>9 DEF Owned

LEMMA GateAlways == Spec => [](TypeOK /\ GateInv)
<1>1. Init => GateInv
  BY GateInit
<1>2. TypeOK /\ GateInv /\ [Next]_vars => GateInv'
  BY GateStep
<1> QED BY <1>1, <1>2, TypeCorrect, PTL DEF Spec

\* No operation, commit, undo, repair or rollback, ever destroys the output of
\* another transaction (the gates of transaction.ts and the repository lock).
THEOREM OutputsSurvive == Spec => NoLostOutput
<1>1. ASSUME TypeOK, GateInv, [Next]_vars
      PROVE  [\A p \in Proc, f \in File : Overwrites(p, f) =>
               content[f] \in {before[Target[p]][f], Target[p]}
                              \cup Foreign]_vars
  BY <1>1, OverwriteOwned DEF Own, Fresh
<1> QED BY <1>1, GateAlways, PTL DEF Spec, NoLostOutput

\* An edit is overwritten only if it came after the last look at the file.
THEOREM EditsSeenSurvive == Spec => OnlyUnseenEditsLost
<1>1. ASSUME TypeOK, GateInv, [Next]_vars
      PROVE  [\A p \in Proc, f \in File :
               Overwrites(p, f) /\ content[f] \in Foreign \ {before[Target[p]][f]}
                 => f \in window[p]]_vars
  <2>1. \A p \in Proc : Target[p] \notin Foreign
    BY RepositoryConstants
  <2> QED BY <1>1, <2>1, OverwriteOwned DEF Own, Fresh
<1> QED BY <1>1, GateAlways, PTL DEF Spec, OnlyUnseenEditsLost

\* The first rename of a commit finds every input of its plan as planned,
\* except for edits made since the final gate looked.
THEOREM PlansAreFresh == Spec => []FreshPlan
<1>1. TypeOK /\ GateInv => FreshPlan
  <2> SUFFICES ASSUME TypeOK, GateInv, NEW p \in Proc, pc[p] = "rename",
                      renamed[p] = {}, NEW f \in Inputs[Target[p]] \ window[p]
               PROVE  content[f] = before[Target[p]][f]
    BY DEF FreshPlan
  <2>1. Kind[p] # "gc"
    BY DEF GateInv, GcKeepsOut
  <2> QED BY <2>1 DEF GateInv, Owned, Fresh
<1> QED BY <1>1, GateAlways, PTL
=============================================================================
