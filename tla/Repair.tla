------------------------------- MODULE Repair -------------------------------
(***************************************************************************)
(* src/src/maintenance.ts: repairTransaction with write authority.  Files  *)
(* are classified before the lock is taken; the files chosen then are the  *)
(* only ones looked at again.                                              *)
(*                                                                         *)
(* Labels: rload rclassify lock rcheck rstage rrename rsync rverify        *)
(* rrecord release                                                         *)
(***************************************************************************)
EXTENDS Repository

Blocked(p) ==
  /\ Enter(p, "done", {})
  /\ outcome' = [outcome EXCEPT ![p] = "blocked"]

LoadPartial(p) ==
  /\ pc[p] = "rload"
  /\ IF record[Target[p]] = "partial-commit"
       THEN Enter(p, "rclassify", Changed[Target[p]]) /\ UNCHANGED outcome
       ELSE Blocked(p)
  /\ UNCHANGED <<disk, renamed, clean, passed, choice, before, pruned, budget,
                 faultVars, window>>

\* Phase 1: already-before, to be restored, or blocked; one blocked file
\* blocks the repair.
Restorable(t, f) == content[f] = t /\ f \in retained[t]

Classify(p) ==
  LET t == Target[p] IN
  /\ pc[p] = "rclassify"
  /\ \E f \in todo[p] :
       /\ First(todo[p], f)
       /\ \/ /\ content[f] = before[t][f] \/ Restorable(t, f)
             /\ todo' = [todo EXCEPT ![p] = @ \ {f}]
             /\ chosen' = [chosen EXCEPT ![p] =
                             IF content[f] = before[t][f] THEN @ ELSE @ \cup {f}]
             /\ window' = [window EXCEPT ![p] = @ \ {f}]
             /\ NoFault
             /\ UNCHANGED <<pc, outcome>>
          \/ /\ \/ /\ content[f] # before[t][f] /\ ~Restorable(t, f)
                   /\ NoFault
                \/ Fault("read")
             /\ Blocked(p)
             /\ UNCHANGED <<chosen, window>>
  /\ UNCHANGED <<disk, renamed, clean, passed, scan, prune, before, pruned,
                 budget>>

AcquireRepair(p) ==
  \/ Advance(p, "rclassify", "lock", {})
  \/ TakeLock(p, "rcheck", chosen[p])

\* Mutant: the refusal does not pass through the finally block.
RecheckUnreleased(p) ==
  LET t == Target[p] IN
  /\ pc[p] = "rcheck"
  /\ \E f \in todo[p] :
       /\ First(todo[p], f)
       /\ IF Restorable(t, f) THEN Goto(p, "rstage") /\ UNCHANGED todo
                              ELSE Enter(p, "done", {})
       /\ window' = [window EXCEPT ![p] = @ \ {f}]
  /\ UNCHANGED <<disk, renamed, clean, rest, budget, faultVars>>

\* Phase 2, file by file: recheck the image and the file, write a sibling,
\* rename it over the target, sync, verify.  Any failure ends the operation
\* with the files restored so far.
RecheckChosen(p) ==
  LET t == Target[p] IN
  /\ pc[p] = "rcheck"
  /\ \E f \in todo[p] :
       /\ First(todo[p], f)
       /\ \/ /\ Restorable(t, f)
             /\ Goto(p, "rstage")
             /\ window' = [window EXCEPT ![p] = @ \ {f}]
             /\ NoFault
             /\ UNCHANGED todo
          \/ /\ \/ ~Restorable(t, f) /\ NoFault
                \/ Fault("read")
             /\ Enter(p, "release", {})
             /\ UNCHANGED window
  /\ UNCHANGED <<disk, renamed, clean, rest, budget>>

StageImage(p) ==
  /\ pc[p] = "rstage"
  /\ \E f \in todo[p] :
       /\ First(todo[p], f)
       /\ \/ WriteSibling(p, f, "before") /\ Goto(p, "rrename") /\ UNCHANGED todo
          \/ WriteSiblingFails(p, f, "before") /\ Enter(p, "release", {})
  /\ UNCHANGED <<content, record, retained, lock, renamed, clean, rest,
                 window, budget>>

\* A failed rename unlinks the sibling, best effort.
RenameImage(p) ==
  LET t == Target[p] IN
  /\ pc[p] = "rrename"
  /\ \E f \in todo[p] :
       /\ First(todo[p], f)
       /\ \/ /\ RenameSibling(p, f, "before", before[t][f])
             /\ Goto(p, "rsync")
             /\ UNCHANGED todo
          \/ /\ Fault("rename")
             /\ siblings' \in {siblings, [siblings EXCEPT ![p] = {}]}
             /\ Enter(p, "release", {})
             /\ UNCHANGED content
  /\ UNCHANGED <<record, retained, lock, renamed, clean, rest, window, budget>>

SyncImage(p) ==
  /\ pc[p] = "rsync"
  /\ \/ NoFault /\ Goto(p, "rverify") /\ UNCHANGED todo
     \/ Fault("sync") /\ Enter(p, "release", {})
  /\ UNCHANGED <<disk, renamed, clean, rest, window, budget>>

VerifyImage(p) ==
  LET t == Target[p] IN
  /\ pc[p] = "rverify"
  /\ \E f \in todo[p] :
       /\ First(todo[p], f)
       /\ \/ /\ content[f] = before[t][f]
             /\ Enter(p, "rcheck", todo[p] \ {f})
             /\ NoFault
          \/ /\ \/ content[f] # before[t][f] /\ NoFault
                \/ Fault("read")
             /\ Enter(p, "release", {})
  /\ UNCHANGED <<disk, renamed, clean, rest, budget, window>>

RecordRepaired(p) ==
  \/ Advance(p, "rcheck", "rrecord", {})
  \/ Conclude(p, "rrecord", "rolled-back", "release", "release")

Repair(p) ==
  /\ Kind[p] = "repair"
  /\ \/ LoadPartial(p) \/ Classify(p) \/ AcquireRepair(p) \/ RecheckChosen(p)
     \/ StageImage(p) \/ RenameImage(p) \/ SyncImage(p) \/ VerifyImage(p)
     \/ RecordRepaired(p) \/ ReleaseLock(p)
=============================================================================
