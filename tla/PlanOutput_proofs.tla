-------------------------- MODULE PlanOutput_proofs --------------------------
(***************************************************************************)
(* saveEditPlan for any number of invocations, other programs, failures    *)
(* and kills: what is published is whole, nothing is replaced, and the     *)
(* caller learns what happened.  Progress is the inductive invariant: what *)
(* an invocation has on disk and has published at each of its calls.       *)
(***************************************************************************)
EXTENDS PlanOutput, TLAPS

USE DEF local, budget, Goto, NoFault, Fault

Progress(p) ==
  /\ pc[p] \in {"prepare", "missing", "write"} =>
       sibling[p] = "none" /\ published[p] = "none" /\ tries[p] = 0
  /\ pc[p] \in {"chmod", "recheck", "missing2", "link"} =>
       sibling[p] = "whole" /\ published[p] = "none" /\ tries[p] = 0
  /\ pc[p] = "clean" =>
       sibling[p] = "whole" /\ published[p] = "whole" /\ tries[p] < Attempts
  /\ pc[p] = "tidy" => published[p] = "none" /\ tries[p] < Attempts
  /\ pc[p] = "crashed" => published[p] \in {"none", "whole"}
  /\ pc[p] = "done" =>
       \/ outcome[p] = "saved" /\ published[p] = "whole" /\ sibling[p] = "none"
       \/ /\ outcome[p] = "warned" /\ published[p] = "whole"
          /\ sibling[p] # "none" /\ tries[p] = Attempts
       \/ /\ outcome[p] = "threw" /\ published[p] = "none"
          /\ sibling[p] # "none" => tries[p] = Attempts

PublicationInv == TypeOK /\ \A p \in Proc : Progress(p)

\* The state of one invocation.
Mine(p) == <<pc[p], tries[p], outcome[p], sibling[p], published[p]>>

\* A step of one invocation is nothing to the others.
LEMMA OthersApart ==
  ASSUME TypeOK, NEW p \in Proc, Step(p) \/ Crash(p),
         NEW q \in Proc, q # p
  PROVE  Mine(q)' = Mine(q)
  BY DEF Step, Prepare, CheckMissing, Write, Chmod, RecheckParent,
     RecheckMissing, Link, Clean, Tidy, Crash, Check, AssertMissing,
     CleanSibling, Throw, Return, Mine, TypeOK

\* Every step keeps the types; the retries of cleanupPlanSibling are bounded
\* because it returns on the second failure.
LEMMA TypeStep ==
  ASSUME PublicationInv, [Next]_vars
  PROVE  TypeOK'
<1> USE DEF TypeOK, Label
<1>1. CASE UNCHANGED vars
  BY <1>1 DEF vars, PublicationInv
<1>2. CASE ForeignEdit
  BY <1>2, OutputConstants DEF ForeignEdit, PublicationInv
<1>3. ASSUME NEW p \in Proc, Step(p) \/ Crash(p)
      PROVE  TypeOK'
  <2>. USE OutputConstants
  <2>0. TypeOK /\ Progress(p)
    BY DEF PublicationInv
  <2>1. CASE Prepare(p) \/ Chmod(p) \/ RecheckParent(p)
    BY <2>0, <2>1 DEF Prepare, Chmod, RecheckParent, Check, Throw, Return
  <2>2. CASE CheckMissing(p) \/ RecheckMissing(p)
    BY <2>0, <2>2 DEF CheckMissing, RecheckMissing, AssertMissing, Throw, Return
  <2>3. CASE Write(p)
    BY <2>0, <2>3 DEF Write, Throw, Return
  <2>4. CASE Link(p)
    BY <2>0, <2>4 DEF Link
  <2>5. CASE Clean(p) \/ Tidy(p)
    BY <2>0, <2>5 DEF Clean, Tidy, CleanSibling, Return, Progress, Attempts
  <2>6. CASE Crash(p)
    BY <2>0, <2>6 DEF Crash
  <2>. QED
    BY <1>3, <2>1, <2>2, <2>3, <2>4, <2>5, <2>6 DEF Step
<1>. QED
  BY <1>1, <1>2, <1>3 DEF Next

LEMMA ProgressStep ==
  ASSUME PublicationInv, NEW p \in Proc, Step(p) \/ Crash(p)
  PROVE  Progress(p)'
<1>0. TypeOK /\ Progress(p)
  BY DEF PublicationInv
<1>. USE <1>0 DEF Progress
<1>1. CASE Prepare(p) \/ Chmod(p) \/ RecheckParent(p)
  BY <1>1 DEF Prepare, Chmod, RecheckParent, Check, Throw, Return, TypeOK,
     Attempts
<1>2. CASE CheckMissing(p) \/ RecheckMissing(p)
  BY <1>2 DEF CheckMissing, RecheckMissing, AssertMissing, Throw, Return,
     TypeOK, Attempts
<1>3. CASE Write(p)
  BY <1>3 DEF Write, Throw, Return, TypeOK, Attempts
<1>4. CASE Link(p)
  BY <1>4 DEF Link, TypeOK, Attempts
<1>5. CASE Clean(p) \/ Tidy(p)
  BY <1>5 DEF Clean, Tidy, CleanSibling, Return, TypeOK, Attempts
<1>6. CASE Crash(p)
  BY <1>6 DEF Crash, TypeOK, Label
<1>. QED
  BY <1>1, <1>2, <1>3, <1>4, <1>5, <1>6 DEF Step

LEMMA PublicationStep ==
  ASSUME PublicationInv, [Next]_vars
  PROVE  PublicationInv'
<1>1. TypeOK'
  BY TypeStep
<1>2. CASE UNCHANGED vars \/ ForeignEdit
  BY <1>1, <1>2 DEF PublicationInv, Progress, ForeignEdit, vars
<1>3. ASSUME NEW p \in Proc, Step(p) \/ Crash(p), NEW q \in Proc
      PROVE  Progress(q)'
  <2>1. CASE q = p
    BY <1>3, <2>1, ProgressStep
  <2>2. CASE q # p
    BY <1>3, <2>2, OthersApart DEF PublicationInv, Mine, Progress
  <2>. QED
    BY <2>1, <2>2
<1>. QED
  BY <1>1, <1>2, <1>3 DEF Next, PublicationInv

\* The invariant holds for every number of invocations and every budget of
\* failures, kills and foreign files.
THEOREM PublicationInvariant == Spec => []PublicationInv
<1>1. Init => PublicationInv
  BY OutputConstants DEF Init, PublicationInv, TypeOK, Label, Progress
<1>2. PublicationInv /\ [Next]_vars => PublicationInv'
  BY PublicationStep
<1>. QED
  BY <1>1, <1>2, PTL DEF Spec

\* Whatever fails and whoever is killed half way, what saveEditPlan links to
\* the destination is a complete plan.
THEOREM PublishedIsWhole == Spec => []WholePlan
<1>1. PublicationInv => WholePlan
  BY DEF PublicationInv, WholePlan, Progress, TypeOK, Label
<1>. QED
  BY <1>1, PublicationInvariant, PTL

\* What saveEditPlan returns or throws is what it did to the destination and
\* to its sibling.
THEOREM ReportsAreTrue == Spec => []ReportTrue
<1>1. PublicationInv => ReportTrue
  BY DEF PublicationInv, ReportTrue, Progress, TypeOK, Attempts
<1>. QED
  BY <1>1, PublicationInvariant, PTL

\* No invocation replaces a file: link refuses a destination that exists, also
\* one that appeared after the last look.
THEOREM DestinationIsKept == Spec => NeverReplaced
<1>1. [Next]_vars =>
        [\A p \in Proc : pc'[p] # pc[p] /\ dest # Missing => dest' = dest]_vars
  <2>. SUFFICES ASSUME [Next]_vars, NEW p \in Proc, pc'[p] # pc[p],
                       dest # Missing
                PROVE  dest' = dest
    OBVIOUS
  <2>1. CASE UNCHANGED vars
    BY <2>1 DEF vars
  <2>2. CASE ForeignEdit
    BY <2>2 DEF ForeignEdit
  <2>3. ASSUME NEW q \in Proc, Step(q) \/ Crash(q)
        PROVE  dest' = dest
    BY <2>3 DEF Step, Prepare, CheckMissing, Write, Chmod, RecheckParent,
       RecheckMissing, Link, Clean, Tidy, Crash, Check, AssertMissing,
       CleanSibling
  <2>. QED
    BY <2>1, <2>2, <2>3 DEF Next
<1>. QED
  BY <1>1, PTL DEF Spec, NeverReplaced
=============================================================================
