------------------------------- MODULE Reporting -------------------------------
(***************************************************************************)
(* What the policy is told of the file a plan produces: the count of       *)
(* module Measures, taken of the outcomes of module Planning.              *)
(***************************************************************************)
EXTENDS Previews, Measures

\* policy.maxChangedBytes limits what it says.  The count that is compared
\* with the limit is never below the least number of units one has to delete,
\* insert or replace to get the outcome, so a change larger than the limit is
\* never let through; and never above the deletions and insertions needed, so
\* moving unchanged text about an edit is not charged.
CountedTruly ==
  stage = "done" =>
    LET counted == ChangedUnits(Snapshot, output) IN
    /\ Distance(Snapshot, output) <= counted
    /\ counted <= ScriptLength(Snapshot, output)
=============================================================================
