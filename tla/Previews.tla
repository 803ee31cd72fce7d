-------------------------------- MODULE Previews --------------------------------
(***************************************************************************)
(* What the user is shown of the file a plan produces: the unified diff of *)
(* module Diff, taken of the outcomes of module Planning.                  *)
(***************************************************************************)
EXTENDS Planning, Diff

CONSTANTS
  Contexts, \* values of PreviewOptions.contextLines
  Budgets   \* values of PreviewOptions.maxLines

ASSUME PreviewConstants == Contexts \subseteq Nat /\ Budgets \subseteq Nat \ {0}

\* A diff is empty only if no line changed, keeps to its budget and, unless it
\* says that something was left out, is the whole story: carried out on the
\* lines before it gives the lines after, and its own lines before are all of
\* the file's.
DiffTells ==
  stage = "done" => \A context \in Contexts, budget \in Budgets :
    LET diff == UnifiedDiff(Snapshot, output, context, budget)
        before == LinesOf(Snapshot)
        after == LinesOf(output)
    IN  /\ Len(diff) <= budget
        /\ diff = <<>> <=> before = after
        /\ (\A i \in DOMAIN diff : diff[i] # Marker) =>
             /\ Patched(before, diff) = after
             /\ diff # <<>> => Of(diff, {"kept", "removed"}) = before
=============================================================================
