------------------------------- MODULE Commit -------------------------------
(***************************************************************************)
(* src/src/transaction.ts: prepareTransaction and commitTransaction.       *)
(* One action per await of a file system call (reads of one file are one   *)
(* await), so edits, crashes and other processes fall between any two.     *)
(*                                                                         *)
(* Labels, in the order of the code:                                       *)
(*   snapshot prepare precheck lock recheck gate stage finalgate           *)
(*   rename sync verify validate reverify audit                            *)
(*   rollback rbsync rbverify rbpersist cleanup      (failed checks)       *)
(*   catch unwind unwindsync unwindpersist finish    (inner catch)         *)
(*   abort release done                              (outer catch, finally)*)
(***************************************************************************)
EXTENDS Repository

-----------------------------------------------------------------------------
\* Planning reads each input once (snapshotTargets); its hash goes into the
\* plan as the before image.
Snapshot(p) ==
  LET t == Target[p] IN
  /\ pc[p] = "snapshot"
  /\ \E f \in todo[p] :
       /\ First(todo[p], f)
       /\ \/ /\ before' = [before EXCEPT ![t][f] = content[f]]
             /\ todo' = [todo EXCEPT ![p] = @ \ {f}]
             /\ window' = [window EXCEPT ![p] = @ \ {f}]
             /\ NoFault
             /\ UNCHANGED pc
          \/ /\ Fault("read")
             /\ Enter(p, "done", {})
             /\ UNCHANGED <<before, window>>
  /\ UNCHANGED <<disk, renamed, clean, passed, choice, outcome, pruned, budget>>

\* prepareTransaction, then the checks before the lock.
Prepare(p) ==
  \/ Advance(p, "snapshot", "prepare", Inputs[Target[p]])
  \/ CheckFile(p, "prepare", before[Target[p]], "done")

Precheck(p) ==
  \/ Advance(p, "prepare", "precheck", Inputs[Target[p]])
  \/ CheckFile(p, "precheck", before[Target[p]], "done")

Acquire(p) ==
  \/ Advance(p, "precheck", "lock", {})
  \/ TakeLock(p, "recheck", Inputs[Target[p]])

Recheck(p) == CheckFile(p, "recheck", before[Target[p]], "abort")

\* beforeFirstSourceWrite: the git scope is asked again and may refuse.
Gate(p) ==
  \/ Advance(p, "recheck", "gate", {})
  \/ Advance(p, "gate", "stage", Changed[Target[p]])
  \/ Advance(p, "gate", "abort", {})

\* Per file: the before sibling, the after sibling, the retained before image.
StageBefore(p) ==
  /\ pc[p] = "stage"
  /\ \E f \in todo[p] :
       /\ First(todo[p], f)
       /\ <<f, "before">> \notin siblings[p]
       /\ \/ WriteSibling(p, f, "before") /\ UNCHANGED <<pc, todo>>
          \/ WriteSiblingFails(p, f, "before") /\ Enter(p, "abort", {})
  /\ UNCHANGED <<content, record, retained, lock, renamed, clean, rest,
                 window, budget>>

StageAfter(p) ==
  /\ pc[p] = "stage"
  /\ \E f \in todo[p] :
       /\ First(todo[p], f)
       /\ <<f, "before">> \in siblings[p]
       /\ <<f, "after">> \notin siblings[p]
       /\ \/ WriteSibling(p, f, "after") /\ UNCHANGED <<pc, todo>>
          \/ WriteSiblingFails(p, f, "after") /\ Enter(p, "abort", {})
  /\ UNCHANGED <<content, record, retained, lock, renamed, clean, rest,
                 window, budget>>

\* Mutant: staging leaves out the retained before image.
RetainNothing(p) ==
  /\ pc[p] = "stage"
  /\ \E f \in todo[p] :
       /\ First(todo[p], f)
       /\ {f} \X Slot \subseteq siblings[p]
       /\ todo' = [todo EXCEPT ![p] = @ \ {f}]
  /\ UNCHANGED <<disk, pc, renamed, clean, rest, window, budget, faultVars>>

\* writeBeforeArtifact: on failure the image is absent or incomplete, and
\* incomplete is as good as absent: its hash will not match.
RetainBefore(p) ==
  LET t == Target[p] IN
  /\ pc[p] = "stage"
  /\ \E f \in todo[p] :
       /\ First(todo[p], f)
       /\ {f} \X Slot \subseteq siblings[p]
       /\ \/ /\ retained' = [retained EXCEPT ![t] = @ \cup {f}]
             /\ todo' = [todo EXCEPT ![p] = @ \ {f}]
             /\ NoFault
             /\ UNCHANGED pc
          \/ Fault("write") /\ Enter(p, "abort", {}) /\ UNCHANGED retained
  /\ UNCHANGED <<content, record, siblings, lock, renamed, clean, rest,
                 window, budget>>

\* Mutant: the final gate reads the files and compares nothing.
FinalGateBlind(p) ==
  \/ Advance(p, "stage", "finalgate", Inputs[Target[p]])
  \/ /\ pc[p] = "finalgate"
     /\ todo[p] # {}
     /\ window' = [window EXCEPT ![p] = @ \ todo[p]]
     /\ todo' = [todo EXCEPT ![p] = {}]
     /\ UNCHANGED <<disk, pc, renamed, clean, rest, budget, faultVars>>

\* Mutant: a stale input makes the commit start over instead of ending it.
FinalGateRetry(p) ==
  \/ Advance(p, "stage", "finalgate", Inputs[Target[p]])
  \/ CheckFile(p, "finalgate", before[Target[p]], "recheck")

\* The stale gate over every input again, after the siblings exist.
FinalGate(p) ==
  \/ Advance(p, "stage", "finalgate", Inputs[Target[p]])
  \/ CheckFile(p, "finalgate", before[Target[p]], "abort")

-----------------------------------------------------------------------------
\* The renames, in order; any failure goes to the inner catch.
RenameOver(p) ==
  LET t == Target[p] IN
  /\ pc[p] = "rename"
  /\ \E f \in todo[p] :
       /\ First(todo[p], f)
       /\ \/ /\ RenameSibling(p, f, "after", t)
             /\ renamed' = [renamed EXCEPT ![p] = @ \cup {f}]
             /\ todo' = [todo EXCEPT ![p] = @ \ {f}]
             /\ UNCHANGED pc
          \/ /\ RenameFails(p, f, "after")
             /\ Enter(p, "catch", {})
             /\ UNCHANGED renamed
  /\ UNCHANGED <<record, retained, lock, clean, rest, window, budget>>

StartRenames(p) == Advance(p, "finalgate", "rename", Changed[Target[p]])

SyncRenames(p) == Sync(p, "rename", "verify", Changed[Target[p]], "catch")

VerifyOutputs(p) == CheckFile(p, "verify", After(Target[p]), "catch")

\* runPostcommitValidations: commands outside the model pass or fail; what
\* they write to the repository is a ForeignEdit.
Validate(p) ==
  /\ Finished(p, "verify")
  /\ passed' \in {passed, [passed EXCEPT ![p] = FALSE]}
  /\ Enter(p, "reverify", Changed[Target[p]])
  /\ UNCHANGED <<disk, renamed, clean, choice, outcome, before, pruned, budget,
                 faultVars, window>>

\* verifyPreparedOutputs after the validators: a mismatch is a failed check.
Reverify(p) ==
  \/ CheckFile(p, "reverify", After(Target[p]), "mismatch")
  \/ /\ pc[p] = "mismatch"
     /\ passed' = [passed EXCEPT ![p] = FALSE]
     /\ Enter(p, "audit", {})
     /\ UNCHANGED <<disk, renamed, clean, choice, outcome, before, pruned,
                    budget, faultVars, window>>
  \/ Advance(p, "reverify", "audit", {})

\* The audit record says "committed" before any rollback begins.
Audit(p) ==
  LET t == Target[p] IN
  /\ pc[p] = "audit"
  /\ \/ /\ PersistRecord(t, "committed")
        /\ IF passed[p] \/ t \in Keep
             THEN /\ Enter(p, "cleanup", {})
                  /\ outcome' = [outcome EXCEPT ![p] = "committed"]
             ELSE /\ Enter(p, "rollback", renamed[p])
                  /\ UNCHANGED outcome
     \/ /\ PersistFails(t, "committed")
        /\ Enter(p, "catch", {})
        /\ UNCHANGED outcome
  /\ UNCHANGED <<content, retained, siblings, lock, renamed, clean, passed,
                 choice, before, pruned, window, budget>>

-----------------------------------------------------------------------------
\* Failed checks: restore, sync, verify the before images if every rename
\* succeeded, record the result.
Rollback(p) == RestoreLast(p, "rollback", "before", before[Target[p]])

SyncRollback(p) ==
  LET verified == IF clean[p] THEN Changed[Target[p]] ELSE {} IN
  Sync(p, "rollback", "rbverify", verified, "catch")

VerifyRollback(p) ==
  \/ CheckFile(p, "rbverify", before[Target[p]], "rbdiffers")
  \/ Advance(p, "rbverify", "rbpersist", {})
  \/ /\ pc[p] = "rbdiffers"
     /\ clean' = [clean EXCEPT ![p] = FALSE]
     /\ Enter(p, "rbpersist", {})
     /\ UNCHANGED <<disk, renamed, rest, budget, faultVars, window>>

RecordRollback(p) ==
  Conclude(p, "rbpersist", IF clean[p] THEN "rolled-back" ELSE "partial-commit",
           "cleanup", "catch")

\* cleanupSiblings inside the try: a failure still reaches the inner catch.
Cleanup(p) ==
  \/ UnlinkSibling(p, "cleanup", "catch")
  \/ siblings[p] = {} /\ Advance(p, "cleanup", "release", {})

-----------------------------------------------------------------------------
\* The inner catch: rollbackComplete starts out true, everything renamed is
\* restored once more.
Catch(p) ==
  /\ pc[p] = "catch"
  /\ clean' = [clean EXCEPT ![p] = TRUE]
  /\ outcome' = [outcome EXCEPT ![p] = "threw"]
  /\ Enter(p, "unwind", renamed[p])
  /\ UNCHANGED <<disk, renamed, passed, choice, before, pruned, budget,
                 faultVars, window>>

Unwind(p) == RestoreLast(p, "unwind", "before", before[Target[p]])

SyncUnwind(p) == Sync(p, "unwind", "unwindpersist", {}, "abort")

\* Mutant: a state the record schema does not have.
UnwoundStateUnknown(p) ==
  IF renamed[p] = {} THEN "aborted"
  ELSE IF clean[p] THEN "rolled-back" ELSE "partial-commit"

UnwoundState(p) ==
  IF renamed[p] = {} THEN "failed"
  ELSE IF clean[p] THEN "rolled-back" ELSE "partial-commit"

RecordUnwind(p) ==
  Conclude(p, "unwindpersist", UnwoundState(p), "finish", "abort")

\* cleanupSiblings inside the catch: a failure goes to the outer catch.
Finish(p) ==
  \/ UnlinkSibling(p, "finish", "abort")
  \/ siblings[p] = {} /\ Advance(p, "finish", "release", {})

\* The outer catch cleans up (again) and rethrows; the lock is released.
Abort(p) ==
  \/ UnlinkSibling(p, "abort", "rethrow")
  \/ siblings[p] = {} /\ Advance(p, "abort", "rethrow", {})
  \/ Throw(p, "rethrow", "release")

Commit(p) ==
  /\ Kind[p] = "commit"
  /\ \/ Snapshot(p) \/ Prepare(p) \/ Precheck(p) \/ Acquire(p) \/ Recheck(p)
     \/ Gate(p) \/ StageBefore(p) \/ StageAfter(p) \/ RetainBefore(p)
     \/ FinalGate(p) \/ StartRenames(p) \/ RenameOver(p) \/ SyncRenames(p)
     \/ VerifyOutputs(p) \/ Validate(p) \/ Reverify(p) \/ Audit(p)
     \/ Rollback(p) \/ SyncRollback(p) \/ VerifyRollback(p)
     \/ RecordRollback(p) \/ Cleanup(p)
     \/ Catch(p) \/ Unwind(p) \/ SyncUnwind(p) \/ RecordUnwind(p) \/ Finish(p)
     \/ Abort(p) \/ ReleaseLock(p)
=============================================================================
