------------------------------ MODULE Commands ------------------------------
(***************************************************************************)
(* The commands that write, around the engine: src/src/cli-run.ts          *)
(* (runEditPlan, for rewrite, plan, inspect and apply), cli-commands.ts    *)
(* (runUndo), validation.ts (runPreparedValidations) and cli.ts (main).    *)
(* Engine lets the operation of Lifecycle go on where the command awaits   *)
(* it; the other actions are the command's own and leave the engine alone. *)
(*                                                                         *)
(* Stages of a rewrite: plan publish prepare format measure ask commit     *)
(* verify over; of an undo: load ask commit over.                          *)
(*                                                                         *)
(* A prepared output is a version: 0 as planned, one more for every run of *)
(* a formatter whose output was taken.  What the planner, a user or a      *)
(* formatter decides is a choice.                                          *)
(***************************************************************************)
EXTENDS Lifecycle, Launcher, FiniteSetsExt

CONSTANTS
  Formatters,  \* the sequences of files a command may run formatters on
  Bytes,       \* Bytes[f, v]: bytes version v of file f changes
  Parsable,    \* files of a language there is a parser for
  Limit        \* policy.maxChangedBytes

VARIABLES
  stage,       \* what the command of each process is doing
  report,      \* the outcome it reported
  formats,     \* files whose formatter has still to run, in order
  output,      \* version of each prepared output
  failed,      \* a formatter failed
  inspected,   \* <<file, version>> pairs the syntax check passed
  shown,       \* <<file, version>> pairs of the preview
  consent,     \* --write, or the prompt was confirmed
  checks,      \* no postcommit check of its transaction failed
  left,        \* files verifyTransaction has still to read
  matches      \* its `ok`

draftVars == <<formats, output, failed, inspected, shown>>
finalVars == <<consent, checks, left, matches>>
commandVars == <<stage, report, draftVars, finalVars>>
sessionVars == <<vars, launchVars, proc, commandVars>>

-----------------------------------------------------------------------------
To(p, l) ==
  /\ stage' = [stage EXCEPT ![p] = l]
  /\ UNCHANGED <<report, proc>>

\* main returns: exit code c, outcome r.
End(p, c, r) ==
  /\ stage' = [stage EXCEPT ![p] = "over"]
  /\ report' = [report EXCEPT ![p] = r]
  /\ proc' = [proc EXCEPT ![p] = c]

\* A step of the command at stage l that leaves the engine alone.
At(p, l) ==
  /\ proc[p] = "running"
  /\ stage[p] = l
  /\ UNCHANGED <<vars, launchVars>>

\* What the preview, the syntax check and the policy are about.
Versions(p) == {<<f, output[p][f]>> : f \in Changed[Target[p]]}
Parsed(p) == {fv \in Versions(p) : fv[1] \in Parsable}
ChangedBytes(versions) == MapThenSumSet(LAMBDA fv : Bytes[fv], versions)

\* The operation goes on: planning reads the inputs, prepareTransaction reads
\* them again, runUndo verifies and previews, and what follows the consent.
Awaited(p) ==
  \/ stage[p] = "plan" /\ pc[p] = "snapshot" /\ todo[p] # {}
  \/ stage[p] = "prepare" /\ \/ pc[p] = "snapshot"
                             \/ pc[p] = "prepare" /\ todo[p] # {}
  \/ stage[p] = "load" /\ \/ pc[p] = "uload"
                          \/ pc[p] = "upreview" /\ todo[p] # {}
  \/ stage[p] = "commit"

Engine(p) ==
  /\ proc[p] = "running"
  /\ Awaited(p)
  /\ Run(p)
  /\ checks' = [checks EXCEPT ![p] = @ /\ passed'[p]]
  /\ UNCHANGED <<launchVars, proc, stage, report, draftVars, consent, left,
                 matches>>

\* A provider, git or a read fails while the plan is made.
PlanFails(p) ==
  /\ At(p, "plan")
  /\ \/ End(p, "exit1", "invalid")
     \/ End(p, "exit2", "provider-failure")
  /\ UNCHANGED <<draftVars, finalVars>>

\* The plan is blocked, its checks cannot be resolved, or it goes on.
Decide(p) ==
  /\ At(p, "plan")
  /\ Finished(p, "snapshot")
  /\ \/ End(p, "exit1", "conflict")
     \/ ChangedBytes(Versions(p)) <= Limit /\ To(p, "publish")
  /\ UNCHANGED <<draftVars, finalVars>>

\* saveEditPlan, where --plan-out asks for it, may throw.  A plan without edits
\* ends here.
Publish(p) ==
  /\ At(p, "publish")
  /\ \/ End(p, "exit1", "invalid")
     \/ End(p, "exit0", "no-op")
     \/ To(p, "prepare")
  /\ UNCHANGED <<draftVars, finalVars>>

\* prepareTransaction returned or threw; inspect stops here.
Prepared(p) ==
  /\ At(p, "prepare")
  /\ \/ pc[p] = "done" /\ End(p, "exit1", "invalid")
     \/ Finished(p, "prepare") /\ End(p, "exit0", "inspected")
     \/ Finished(p, "prepare") /\ To(p, "format")
  /\ UNCHANGED <<draftVars, finalVars>>

-----------------------------------------------------------------------------
\* runPreparedValidations: one formatter, on the current bytes of one file.
\* Its output is taken if the process ended with 0, in time, whole and valid;
\* a failure is recorded and the next formatter still runs.
Format(p) ==
  LET f == Head(formats[p]) IN
  /\ At(p, "format")
  /\ formats[p] # <<>>
  /\ \/ /\ f \notin Changed[Target[p]]
        /\ End(p, "exit1", "invalid")
        /\ UNCHANGED <<formats, output, failed>>
     \/ /\ f \in Changed[Target[p]]
        /\ To(p, "format")
        /\ formats' = [formats EXCEPT ![p] = Tail(@)]
        /\ \/ output' = [output EXCEPT ![p][f] = @ + 1] /\ UNCHANGED failed
           \/ failed' = [failed EXCEPT ![p] = TRUE] /\ UNCHANGED output
  /\ UNCHANGED <<inspected, shown, finalVars>>

\* Mutant: the parser sees the planned bytes, not the formatted ones.
InspectPlanned(p) ==
  /\ At(p, "format")
  /\ formats[p] = <<>>
  /\ \/ End(p, "exit1", "failed") /\ UNCHANGED inspected
     \/ /\ ~failed[p]
        /\ To(p, "measure")
        /\ inspected' = [inspected EXCEPT
                            ![p] = (Changed[Target[p]] \cap Parsable) \X {0}]
  /\ UNCHANGED <<formats, output, failed, shown, finalVars>>

\* Every current output is parsed, if there is a parser for its language; a
\* file that does not parse or a formatter that failed ends the command.
Inspect(p) ==
  /\ At(p, "format")
  /\ formats[p] = <<>>
  /\ \/ End(p, "exit1", "failed") /\ UNCHANGED inspected
     \/ /\ ~failed[p]
        /\ To(p, "measure")
        /\ inspected' = [inspected EXCEPT ![p] = Parsed(p)]
  /\ UNCHANGED <<formats, output, failed, shown, finalVars>>

\* The outputs replace the prepared ones and are measured again; the record
\* must fit in the worst case; the preview is rendered.
Measure(p) ==
  /\ At(p, "measure")
  /\ \/ End(p, "exit1", "invalid") /\ UNCHANGED shown
     \/ /\ ChangedBytes(Versions(p)) <= Limit
        /\ To(p, "ask")
        /\ shown' = [shown EXCEPT ![p] = Versions(p)]
  /\ UNCHANGED <<formats, output, failed, inspected, finalVars>>

\* Without --write and without a terminal the preview is all; a prompt that is
\* not confirmed, or fails, declines.
Ask(p) ==
  /\ At(p, "ask")
  /\ \/ End(p, "exit0", "previewed") /\ UNCHANGED consent
     \/ End(p, "exit0", "declined") /\ UNCHANGED consent
     \/ To(p, "commit") /\ consent' = [consent EXCEPT ![p] = TRUE]
  /\ UNCHANGED <<draftVars, checks, left, matches>>

-----------------------------------------------------------------------------
\* runUndo: the record is loaded, verified and previewed, or refused.
Loaded(p) ==
  /\ At(p, "load")
  /\ \/ pc[p] = "done" /\ End(p, "exit1", "verification-failed")
     \/ Finished(p, "upreview") /\ To(p, "ask")
  /\ UNCHANGED <<draftVars, finalVars>>

\* undoTransaction returned or threw.
UndoReturned(p) ==
  /\ At(p, "commit")
  /\ Kind[p] = "undo" /\ pc[p] = "done"
  /\ \/ outcome[p] = "undone" /\ End(p, "exit0", "undone")
     \/ outcome[p] = "partial-commit" /\ End(p, "exit3", "partial-commit")
     \/ outcome[p] = "threw" /\ End(p, "exit1", "invalid")
  /\ UNCHANGED <<draftVars, finalVars>>

\* Mutant: a partial commit is reported as an ordinary failure.
ReturnedPlain(p) ==
  /\ At(p, "commit")
  /\ Kind[p] = "commit" /\ pc[p] = "done"
  /\ \/ /\ outcome[p] \in {"committed", "rolled-back"}
        /\ To(p, "verify")
        /\ left' = [left EXCEPT ![p] = Changed[Target[p]]]
     \/ /\ outcome[p] \notin {"committed", "rolled-back"}
        /\ End(p, "exit1", "failed")
        /\ UNCHANGED left
  /\ UNCHANGED <<draftVars, consent, checks, matches>>

\* commitTransaction returned or threw; the second git query alone can make
\* that a provider failure.
Returned(p) ==
  /\ At(p, "commit")
  /\ Kind[p] = "commit" /\ pc[p] = "done"
  /\ \/ /\ outcome[p] \in {"committed", "rolled-back"}
        /\ To(p, "verify")
        /\ left' = [left EXCEPT ![p] = Changed[Target[p]]]
     \/ /\ outcome[p] = "partial-commit"
        /\ End(p, "exit3", "partial-commit")
        /\ UNCHANGED left
     \/ /\ outcome[p] = "failed"
        /\ End(p, "exit1", "failed")
        /\ UNCHANGED left
     \/ /\ outcome[p] = "threw"
        /\ \/ End(p, "exit1", "invalid")
           \/ End(p, "exit2", "provider-failure")
        /\ UNCHANGED left
  /\ UNCHANGED <<draftVars, consent, checks, matches>>

\* verifyTransaction, without the lock: every file is read, whatever the others
\* hold.  A read that fails is a mismatch.
VerifyFile(p) ==
  LET t == Target[p]
      expected == IF outcome[p] = "rolled-back" THEN before[t] ELSE After(t) IN
  /\ At(p, "verify")
  /\ \E f \in left[p] :
       /\ First(left[p], f)
       /\ left' = [left EXCEPT ![p] = @ \ {f}]
       /\ matches' \in {[matches EXCEPT ![p] = @ /\ content[f] = expected[f]],
                        [matches EXCEPT ![p] = FALSE]}
  /\ UNCHANGED <<stage, report, proc, draftVars, consent, checks>>

\* Mutant: hashes that verify are taken for success, also those of a rollback.
ReportVerified(p) ==
  /\ At(p, "verify")
  /\ left[p] = {}
  /\ IF matches[p] THEN End(p, "exit0", "written")
     ELSE End(p, "exit1", "failed")
  /\ UNCHANGED <<draftVars, finalVars>>

\* The outcome: written only if every check passed and every file still holds
\* the output.
Report(p) ==
  /\ At(p, "verify")
  /\ left[p] = {}
  /\ IF outcome[p] = "committed" /\ checks[p] /\ matches[p]
       THEN End(p, "exit0", "written")
       ELSE End(p, "exit1", "failed")
  /\ UNCHANGED <<draftVars, finalVars>>

\* Killed, or ended by a signal the launcher sent: Node's default, no handler
\* is installed.
Killed(p) ==
  /\ proc[p] = "running"
  /\ \/ Crash(p)
     \/ ~Live(p) /\ UNCHANGED vars
  /\ \E how \in {"killed"} \cup
       (IF p \in Launched THEN {sent[p][i] : i \in DOMAIN sent[p]} ELSE {}) :
         proc' = [proc EXCEPT ![p] = how]
  /\ stage' = [stage EXCEPT ![p] = "over"]
  /\ UNCHANGED <<launchVars, report, draftVars, finalVars>>

Command(p) ==
  \/ Engine(p) \/ PlanFails(p) \/ Decide(p) \/ Publish(p) \/ Prepared(p)
  \/ Format(p) \/ Inspect(p) \/ Measure(p) \/ Ask(p) \/ Loaded(p)
  \/ UndoReturned(p) \/ Returned(p) \/ VerifyFile(p) \/ Report(p) \/ Killed(p)
=============================================================================
