----------------------------- MODULE MC_Session -----------------------------
(***************************************************************************)
(* A rewrite of two files behind a launcher, and an undo of it.            *)
(***************************************************************************)
EXTENDS Session

CONSTANTS c1, u1, t1, orig, edit

MCFile == {1, 2}
MCKind == [p \in Proc |-> IF p = u1 THEN "undo" ELSE "commit"]
MCTarget == [p \in Proc |-> t1]
MCChanged == [t \in Txn |-> {1, 2}]

\* No formatter, one, one for each file, one on a file that is not rewritten.
MCFormatters == {<<1>>, <<1, 2>>, <<3>>}
\* Formatting one file is within the limit, formatting both is not.
MCBytes == [fv \in File \X (0..2) |-> 1 + fv[2]]
=============================================================================
