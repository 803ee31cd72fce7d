---------------------------- MODULE MC_Lifecycle ----------------------------
(***************************************************************************)
(* Small instances of Lifecycle.  t1 rewrites files 1 and 2, t2 rewrites   *)
(* file 2; each plan has also read file 3, where there is one.  The cfg    *)
(* files choose the processes and the files.                               *)
(***************************************************************************)
EXTENDS Lifecycle

CONSTANTS c1, c2, u1, u2, r1, g1, t1, t2, orig, edit

MCFile == {1, 2, 3}
MCPair == {1, 2}
MCKind == [p \in Proc |->
  CASE p \in {c1, c2} -> "commit"
    [] p \in {u1, u2} -> "undo"
    [] p = r1 -> "repair"
    [] p = g1 -> "gc"]
MCTarget == [p \in Proc |-> IF p = c2 THEN t2 ELSE t1]
MCChanged == [t \in Txn |-> IF t = t1 THEN {1, 2} ELSE {2}]
MCInputs == [t \in Txn |-> Changed[t] \cup (File \cap {3})]
=============================================================================
