--------------------------------- MODULE Gc ---------------------------------
(***************************************************************************)
(* src/src/maintenance.ts: gcTransactions with write authority.  Records   *)
(* are read and judged without the lock; the deletions run under it, on    *)
(* what the scan found.                                                    *)
(*                                                                         *)
(* Labels: glist gscan lock gprune gremove release                         *)
(***************************************************************************)
EXTENDS Repository

\* Mutant: partial commits count as dead.
PrunablePartial == {"undone", "rolled-back", "failed", "partial-commit"}

PrunableStates == {"undone", "rolled-back", "failed"}

\* The age gate of includeUndoable lets any committed transaction in or out.
MayPrune(t) ==
  /\ retained[t] # {}
  /\ \/ record[t] \in PrunableStates
     \/ IncludeUndoable /\ record[t] = "committed"
MustPrune(t) == retained[t] # {} /\ record[t] \in PrunableStates

\* readdir: records that appear later are not looked at.
ListRecords(p) ==
  /\ pc[p] = "glist"
  /\ scan' = [scan EXCEPT ![p] = {t \in Txn : record[t] # "none"}]
  /\ Goto(p, "gscan")
  /\ UNCHANGED <<disk, loop, passed, chosen, prune, outcome, before, pruned,
                 window, budget, faultVars>>

\* One record is read and judged.  An unreadable record is not prunable; an
\* lstat of its before images that fails ends the operation.
ScanRecord(p) ==
  /\ pc[p] = "gscan"
  /\ \E t \in scan[p] :
       /\ scan' = [scan EXCEPT ![p] = @ \ {t}]
       /\ \/ /\ MayPrune(t)
             /\ prune' = [prune EXCEPT ![p] = @ \cup {t}]
             /\ NoFault
             /\ UNCHANGED pc
          \/ ~MustPrune(t) /\ NoFault /\ UNCHANGED <<prune, pc>>
          \/ /\ Fault("read")
             /\ UNCHANGED prune
             /\ UNCHANGED pc \/ Goto(p, "done")
  /\ UNCHANGED <<disk, loop, passed, chosen, outcome, before, pruned, window,
                 budget>>

\* Nothing prunable: done without the lock.
FinishScan(p) ==
  /\ pc[p] = "gscan"
  /\ scan[p] = {}
  /\ IF prune[p] = {}
       THEN /\ Enter(p, "done", {})
            /\ outcome' = [outcome EXCEPT ![p] = "pruned"]
       ELSE Enter(p, "lock", {}) /\ UNCHANGED outcome
  /\ UNCHANGED <<disk, renamed, clean, passed, choice, before, pruned, budget,
                 faultVars, window>>

\* Mutant: gc deletes without the lock.
GcUnlocked(p) ==
  /\ pc[p] = "lock"
  /\ Enter(p, "gprune", {})
  /\ UNCHANGED <<disk, renamed, clean, rest, window, budget, faultVars>>

AcquireGc(p) == TakeLock(p, "gprune", {})

\* rm -r of the before images; a failure may have removed some of them.
PruneImages(p) ==
  /\ pc[p] = "gprune"
  /\ \E t \in prune[p] :
       \/ /\ retained' = [retained EXCEPT ![t] = {}]
          /\ pruned' = pruned \cup {t}
          /\ NoFault
          /\ IF RemoveRecords
               THEN Enter(p, "gremove", {}) /\ UNCHANGED prune
               ELSE prune' = [prune EXCEPT ![p] = @ \ {t}] /\ UNCHANGED <<pc, todo>>
       \/ /\ Fault("prune")
          /\ \E left \in SUBSET retained[t] :
               retained' = [retained EXCEPT ![t] = left]
          /\ pruned' = pruned \cup {t}
          /\ Enter(p, "release", {})
          /\ UNCHANGED prune
  /\ UNCHANGED <<content, record, siblings, lock, renamed, clean, passed,
                 chosen, scan, outcome, before, window, budget>>

\* --remove-records: the record of the transaction just pruned goes too.
RemoveRecord(p) ==
  /\ pc[p] = "gremove"
  /\ \E t \in prune[p] \cap pruned :
       /\ retained[t] = {}
       /\ \/ /\ record' = [record EXCEPT ![t] = "none"]
             /\ prune' = [prune EXCEPT ![p] = @ \ {t}]
             /\ Enter(p, "gprune", {})
             /\ NoFault
          \/ /\ Fault("prune")
             /\ Enter(p, "release", {})
             /\ UNCHANGED <<record, prune>>
  /\ UNCHANGED <<content, retained, siblings, lock, renamed, clean, passed,
                 chosen, scan, outcome, before, pruned, window, budget>>

FinishPrune(p) ==
  /\ pc[p] = "gprune"
  /\ prune[p] = {}
  /\ Enter(p, "release", {})
  /\ outcome' = [outcome EXCEPT ![p] = "pruned"]
  /\ UNCHANGED <<disk, renamed, clean, passed, choice, before, pruned, budget,
                 faultVars, window>>

Gc(p) ==
  /\ Kind[p] = "gc"
  /\ \/ ListRecords(p) \/ ScanRecord(p) \/ FinishScan(p) \/ AcquireGc(p)
     \/ PruneImages(p) \/ RemoveRecord(p) \/ FinishPrune(p) \/ ReleaseLock(p)
=============================================================================
