------------------------------ MODULE Session ------------------------------
(***************************************************************************)
(* Commands, their launchers and everybody else on one repository: what a  *)
(* user is told, against what happened to the files.                       *)
(***************************************************************************)
EXTENDS Commands

ASSUME SessionConstants ==
  /\ Launched \subseteq Proc
  /\ Kind \in [Proc -> {"commit", "undo"}]
  /\ Formatters \subseteq Seq(Nat)
  /\ Signal \cap (Code \cup {"none", "unborn", "running", "killed"}) = {}
  /\ Limit \in Nat

SessionInit ==
  /\ Init
  /\ LaunchInit
  /\ proc = [p \in Proc |-> IF p \in Launched THEN "unborn" ELSE "running"]
  /\ stage = [p \in Proc |-> IF Kind[p] = "undo" THEN "load" ELSE "plan"]
  /\ report = [p \in Proc |-> "none"]
  /\ formats \in [Proc -> Formatters \cup {<<>>}]
  /\ \A p \in Proc :
       formats[p] \in IF Kind[p] = "commit" THEN Formatters ELSE {<<>>}
  /\ output = [p \in Proc |-> [f \in File |-> 0]]
  /\ failed = [p \in Proc |-> FALSE]
  /\ inspected = [p \in Proc |-> {}]
  /\ shown = [p \in Proc |-> {}]
  /\ consent = [p \in Proc |-> FALSE]
  /\ checks = [p \in Proc |-> TRUE]
  /\ left = [p \in Proc |-> {}]
  /\ matches = [p \in Proc |-> TRUE]

Launching(j) == Launch(j) /\ UNCHANGED <<vars, commandVars>>
Edited == ForeignEdit /\ UNCHANGED <<launchVars, proc, commandVars>>

SessionNext ==
  \/ \E p \in Proc : Command(p)
  \/ \E j \in Launched : Launching(j)
  \/ Edited

SessionSpec == SessionInit /\ [][SessionNext]_sessionVars

-----------------------------------------------------------------------------
\* A file holds the output of a rewrite only if somebody agreed, and what it
\* holds is the version that was parsed, if its language has a parser, measured
\* against the policy and shown.
WrittenAsShown ==
  \A p \in Proc : Kind[p] = "commit"
      /\ (\E f \in File : content[f] = Target[p]) =>
    /\ consent[p]
    /\ inspected[p] = Parsed(p)
    /\ shown[p] = Versions(p)
    /\ ChangedBytes(shown[p]) <= Limit

\* Exit code 0 and "written": every check passed, and unless the transaction
\* was or is being undone, every file holds its output or what replaced that,
\* as long as no undo of it was killed halfway and at most one call failed.
WrittenIsApplied ==
  \A p \in Proc : report[p] = "written" =>
    /\ checks[p]
    /\ /\ lock = None /\ faults < 2
       /\ record[Target[p]] = "committed"
       /\ \A q \in Proc : Target[q] = Target[p] => pc[q] # "crashed"
       => \A f \in Changed[Target[p]] : Since(content[f], f, Target[p])

\* A partial commit is told: when every command on the transaction has ended by
\* itself, one of them ended with 3, unless a record was renamed into place and
\* then failed to be synced, or the lock could not be removed: both throw.
PartialIsTold ==
  \A t \in Txn :
    /\ record[t] = "partial-commit"
    /\ faulted \cap {"recordsync", "unlink"} = {}
    /\ \A p \in Proc : Target[p] = t => proc[p] \in Code
    => \E p \in Proc : Target[p] = t /\ proc[p] = "exit3"
=============================================================================
