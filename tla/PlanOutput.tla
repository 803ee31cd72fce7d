------------------------------ MODULE PlanOutput ------------------------------
(***************************************************************************)
(* src/src/cli-artifacts.ts: saveEditPlan, the publication of an edit plan *)
(* under --plan-out.  The plan is written to a sibling with a random name  *)
(* and hard-linked to its destination, which is never replaced; the        *)
(* sibling is then unlinked.  Several invocations may publish under one    *)
(* name, and other programs may create or remove the file.                 *)
(*                                                                         *)
(* One action per file system call; labels in the order of the code:       *)
(*   prepare missing write chmod recheck missing2 link clean done crashed  *)
(* and tidy, the cleanup in the catch.  A label stands for the call next.  *)
(***************************************************************************)
EXTENDS Naturals

CONSTANTS
  Proc,      \* invocations
  Missing,   \* no file
  Foreign,   \* a file of another program
  MaxFaults, MaxEdits, MaxCrashes   \* bounds on the environment

\* cleanupPlanSibling tries the unlink this often.
Attempts == 2

ASSUME OutputConstants ==
  /\ Missing \notin Proc \cup {Foreign} /\ Foreign \notin Proc
  /\ MaxFaults \in Nat /\ MaxEdits \in Nat /\ MaxCrashes \in Nat

VARIABLES
  dest,      \* whose plan the destination holds, or Missing, or Foreign
  sibling,   \* each invocation's sibling file: "none", "part" or "whole"
  published, \* what the destination got from each invocation, as sibling
  pc,        \* the next call of each invocation
  tries,     \* unlinks of its sibling that failed
  outcome,   \* "none", then "saved", "warned" or "threw"
  faults, edits, crashes

local == <<pc, tries, outcome>>
budget == <<edits, crashes>>
vars == <<dest, sibling, published, local, faults, budget>>

Label == {"prepare", "missing", "write", "chmod", "recheck", "missing2",
          "link", "clean", "tidy", "done", "crashed"}

Init ==
  /\ dest = Missing
  /\ sibling = [p \in Proc |-> "none"]
  /\ published = [p \in Proc |-> "none"]
  /\ pc = [p \in Proc |-> "prepare"]
  /\ tries = [p \in Proc |-> 0]
  /\ outcome = [p \in Proc |-> "none"]
  /\ faults = 0 /\ edits = 0 /\ crashes = 0

-----------------------------------------------------------------------------
Goto(p, l) == pc' = [pc EXCEPT ![p] = l] /\ UNCHANGED <<tries, outcome>>

Return(p, how) ==
  /\ pc' = [pc EXCEPT ![p] = "done"]
  /\ outcome' = [outcome EXCEPT ![p] = how]

Fault == faults < MaxFaults /\ faults' = faults + 1
NoFault == UNCHANGED faults

\* A failure before the sibling exists is thrown; one after it goes to the
\* catch, which unlinks the sibling.
Throw(p) == Return(p, "threw") /\ UNCHANGED tries

\* A call that only looks, and the directory calls (ensureSafeDirectory,
\* assertSafePlanOutputParent) whose checks may fail.
Check(p, l, next, bad) ==
  /\ pc[p] = l
  /\ \/ NoFault /\ Goto(p, next)
     \/ Fault /\ bad
  /\ UNCHANGED <<dest, sibling, published, budget>>

\* assertMissingPlanOutput: lstat must find nothing.
AssertMissing(p, l, next, bad) ==
  /\ pc[p] = l
  /\ \/ dest = Missing /\ NoFault /\ Goto(p, next)
     \/ /\ (dest # Missing /\ NoFault) \/ Fault
        /\ bad
  /\ UNCHANGED <<dest, sibling, published, budget>>

Prepare(p) == Check(p, "prepare", "missing", Throw(p))
CheckMissing(p) == AssertMissing(p, "missing", "write", Throw(p))

\* Mutant: a sibling whose write failed goes on as if it were whole.
WriteCareless(p) ==
  /\ pc[p] = "write"
  /\ \/ NoFault /\ sibling' = [sibling EXCEPT ![p] = "whole"]
     \/ Fault /\ sibling' = [sibling EXCEPT ![p] = "part"]
  /\ Goto(p, "chmod")
  /\ UNCHANGED <<dest, published, budget>>

\* writeFile with wx: it may fail with part of the file written, or because
\* the name is taken; only then is the sibling not this invocation's to unlink.
Write(p) ==
  /\ pc[p] = "write"
  /\ \/ NoFault /\ sibling' = [sibling EXCEPT ![p] = "whole"] /\ Goto(p, "chmod")
     \/ /\ Fault
        /\ \E left \in {"none", "part"} : sibling' = [sibling EXCEPT ![p] = left]
        /\ Goto(p, "tidy")
     \/ Fault /\ Throw(p) /\ UNCHANGED sibling
  /\ UNCHANGED <<dest, published, budget>>

Chmod(p) == Check(p, "chmod", "recheck", Goto(p, "tidy"))
RecheckParent(p) == Check(p, "recheck", "missing2", Goto(p, "tidy"))

\* Mutant: a taken destination is waited for.
RecheckWaits(p) ==
  AssertMissing(p, "missing2", "link", Goto(p, "recheck"))
RecheckMissing(p) == AssertMissing(p, "missing2", "link", Goto(p, "tidy"))

\* Mutant: publication by rename, which replaces what is there.
LinkByRename(p) ==
  /\ pc[p] = "link"
  /\ \/ /\ NoFault
        /\ dest' = p
        /\ published' = [published EXCEPT ![p] = sibling[p]]
        /\ Goto(p, "clean")
     \/ Fault /\ Goto(p, "tidy") /\ UNCHANGED <<dest, published>>
  /\ UNCHANGED <<sibling, budget>>

\* link: atomic, and refused when the destination exists.
Link(p) ==
  /\ pc[p] = "link"
  /\ \/ /\ dest = Missing /\ NoFault
        /\ dest' = p
        /\ published' = [published EXCEPT ![p] = sibling[p]]
        /\ Goto(p, "clean")
     \/ /\ (dest # Missing /\ NoFault) \/ Fault
        /\ Goto(p, "tidy")
        /\ UNCHANGED <<dest, published>>
  /\ UNCHANGED <<sibling, budget>>

\* cleanupPlanSibling at label l: unlink, tried again once.  A sibling that
\* stays is worth a warning after publication; in the catch the error that
\* led there is thrown either way.
CleanSibling(p, l, gone, left) ==
  /\ pc[p] = l
  /\ \/ /\ NoFault
        /\ sibling' = [sibling EXCEPT ![p] = "none"]
        /\ Return(p, gone)
        /\ UNCHANGED tries
     \/ /\ Fault
        /\ tries' = [tries EXCEPT ![p] = @ + 1]
        /\ IF tries[p] + 1 < Attempts
           THEN UNCHANGED <<pc, outcome>>
           ELSE Return(p, left)
        /\ UNCHANGED sibling
  /\ UNCHANGED <<dest, published, budget>>

\* Mutant: a sibling left behind is not mentioned.
CleanSilently(p) == CleanSibling(p, "clean", "saved", "saved")

Clean(p) == CleanSibling(p, "clean", "saved", "warned")
Tidy(p) == CleanSibling(p, "tidy", "threw", "threw")

-----------------------------------------------------------------------------
\* Another program creates or removes the file at the destination.
ForeignEdit ==
  /\ edits < MaxEdits
  /\ edits' = edits + 1
  /\ dest' = IF dest = Missing THEN Foreign ELSE Missing
  /\ UNCHANGED <<sibling, published, local, faults, crashes>>

Crash(p) ==
  /\ crashes < MaxCrashes
  /\ pc[p] \notin {"done", "crashed"}
  /\ crashes' = crashes + 1
  /\ Goto(p, "crashed")
  /\ UNCHANGED <<dest, sibling, published, faults, edits>>

Step(p) ==
  \/ Prepare(p) \/ CheckMissing(p) \/ Write(p) \/ Chmod(p) \/ RecheckParent(p)
  \/ RecheckMissing(p) \/ Link(p) \/ Clean(p) \/ Tidy(p)

Next == (\E p \in Proc : Step(p) \/ Crash(p)) \/ ForeignEdit

Spec == Init /\ [][Next]_vars
FairSpec == Spec /\ \A p \in Proc : WF_vars(Step(p))

-----------------------------------------------------------------------------
\* The types of the variables.
TypeOK ==
  /\ dest \in Proc \cup {Missing, Foreign}
  /\ sibling \in [Proc -> {"none", "part", "whole"}]
  /\ published \in [Proc -> {"none", "part", "whole"}]
  /\ pc \in [Proc -> Label]
  /\ tries \in [Proc -> 0..2]   \* the limit is part of the type
  /\ outcome \in [Proc -> {"none", "saved", "warned", "threw"}]
  /\ faults \in 0..MaxFaults /\ edits \in 0..MaxEdits
  /\ crashes \in 0..MaxCrashes

\* No interleaving of invocations and other programs makes saveEditPlan
\* replace a file: whoever finds the destination taken leaves it alone.
NeverReplaced ==
  [][\A p \in Proc : pc'[p] # pc[p] /\ dest # Missing => dest' = dest]_vars

\* What a reader finds at the destination is a complete plan, also when the
\* writer failed or was killed half way.
WholePlan == TypeOK /\ \A p \in Proc : published[p] \in {"none", "whole"}

\* The caller learns what happened: it is told that the plan is saved exactly
\* when it was published, and warned exactly when the sibling is still there;
\* and a sibling is left behind only after two failed unlinks, or by a kill.
ReportTrue ==
  \A p \in Proc : pc[p] = "done" =>
    /\ (outcome[p] \in {"saved", "warned"}) <=> (published[p] # "none")
    /\ (outcome[p] = "warned") <=> (published[p] # "none" /\ sibling[p] # "none")
    /\ sibling[p] # "none" => tries[p] = Attempts

\* Every invocation that is not killed returns.
Returns == \A p \in Proc : <>(pc[p] \in {"done", "crashed"})
=============================================================================
