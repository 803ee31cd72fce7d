---------------------------- MODULE ProcessRunner ----------------------------
(***************************************************************************)
(* src/src/providers/process.ts: runArgumentVector, which runs every git,  *)
(* provider, formatter and validator process.  The child leads a process   *)
(* group of its own; the runner reacts to events (data, stdin error and    *)
(* close, exit, close, three timers), which arrive in any order and are    *)
(* one action each.  The child, its descendants and the kernel are the     *)
(* environment: they may write, end, ignore SIGTERM, start descendants,    *)
(* leave the group and keep the output pipes open for as long as they like. *)
(*                                                                         *)
(* Output is counted, not spelled: a unit is as many bytes as matter.      *)
(***************************************************************************)
EXTENDS Integers

CONSTANTS
  Heir,        \* processes the child may start
  MaxOutput,   \* options.maxOutputBytes
  Message,     \* length of the line captured for a failed stdin write
  MaxWritten   \* bound on what child and descendants write

Leader == "leader"
ExitCode == {"zero", "nonzero"}
Signal == {"SIGTERM", "SIGKILL"}
Timer == {"timeout", "escalation", "forced"}
NoResult == [exit |-> "none", signal |-> "none", timedOut |-> FALSE,
             truncated |-> FALSE, stdinError |-> FALSE, output |-> 0]

ASSUME RunnerConstants ==
  /\ Leader \notin Heir
  /\ MaxOutput \in Nat \ {0} /\ Message \in Nat \ {0} /\ MaxWritten \in Nat

VARIABLES
  \* the kernel's side
  spawned,   \* the executable could be started
  alive,     \* processes alive: the child (Leader) and its descendants
  escaped,   \* descendants that left the process group
  writers,   \* processes with an output pipe open
  status,    \* how the child ended, or "running"
  written,   \* units written to the output pipes
  parent,    \* the runner's own process: "up" or "exited"
  \* the runner's side
  pipe,      \* units written and not yet read
  captured,  \* capturedBytes
  stdin,     \* "none" without input, "open", "failed" or "closed"
  stdinError, timedOut, truncated, terminating,
  seen,      \* observedExitCode or observedSignal; "running" before the event
  closeSeen, \* observedClose
  issued,    \* issuedSignal
  armed,     \* timers that will fire
  settled,   \* "no", "resolved" or "rejected"
  result,
  kills      \* (history) events that sent signals to the group id

os == <<spawned, escaped, written, parent>>
procs == <<alive, writers, status>>
capture == <<captured, truncated>>
ending == <<terminating, issued>>
outcome == <<settled, result>>
vars == <<os, procs, capture, ending, outcome, pipe, stdin, stdinError,
          timedOut, seen, closeSeen, armed, kills>>

Group == alive \ escaped
\* kill(-pgid) finds the group: also a child that ended and is not yet reaped.
GroupExists == Group # {} \/ (spawned /\ seen = "running")
Remaining == MaxOutput - captured
StdinSettled == stdin # "open"

Init ==
  /\ spawned \in BOOLEAN
  /\ alive = IF spawned THEN {Leader} ELSE {}
  /\ writers = alive
  /\ escaped = {}
  /\ status = "running"
  /\ written = 0 /\ pipe = 0
  /\ parent = "up"
  /\ captured = 0
  /\ stdin \in {"none", "open"}
  /\ stdinError = FALSE /\ timedOut = FALSE /\ truncated = FALSE
  /\ terminating = FALSE
  /\ seen = "running" /\ closeSeen = FALSE
  /\ issued = "none"
  /\ armed = {"timeout"}
  /\ settled = "no"
  /\ result = NoResult
  /\ kills = 0

-----------------------------------------------------------------------------
\* The environment.
Die(D, how) ==
  /\ alive' = alive \ D
  /\ writers' = writers \ D
  /\ status' = IF Leader \in D THEN how ELSE status

End(p, how) ==
  /\ p \in alive
  /\ p = Leader \/ how = "zero"
  /\ Die({p}, how)
  /\ UNCHANGED <<os, capture, ending, outcome, pipe, stdin, stdinError,
                 timedOut, seen, closeSeen, armed, kills>>

Write(p) ==
  /\ p \in writers
  /\ written < MaxWritten
  /\ written' = written + 1
  /\ pipe' = pipe + 1
  /\ UNCHANGED <<spawned, escaped, parent, procs, capture, ending, outcome,
                 stdin, stdinError, timedOut, seen, closeSeen, armed, kills>>

\* p starts h, which inherits its group and perhaps its output pipes.
Fork(p, h) ==
  /\ p \in alive /\ h \notin alive \cup escaped
  /\ alive' = alive \cup {h}
  /\ \/ writers' = writers
     \/ p \in writers /\ writers' = writers \cup {h}
  /\ escaped' = IF p \in escaped THEN escaped \cup {h} ELSE escaped
  /\ UNCHANGED <<spawned, status, written, parent, capture, ending, outcome,
                 pipe, stdin, stdinError, timedOut, seen, closeSeen, armed,
                 kills>>

Escape(h) ==
  /\ h \in alive \ (escaped \cup {Leader})
  /\ escaped' = escaped \cup {h}
  /\ UNCHANGED <<spawned, written, parent, procs, capture, ending, outcome,
                 pipe, stdin, stdinError, timedOut, seen, closeSeen, armed,
                 kills>>

\* process.exit of the runner: killGroupOnParentExit is still registered
\* unless the promise has settled.
ParentExit ==
  /\ parent = "up"
  /\ parent' = "exited"
  /\ IF settled = "no"
     THEN Die(Group, "SIGKILL") /\ kills' = kills + 1
     ELSE UNCHANGED <<procs, kills>>
  /\ UNCHANGED <<spawned, escaped, written, capture, ending, outcome, pipe,
                 stdin, stdinError, timedOut, seen, closeSeen, armed>>

-----------------------------------------------------------------------------
\* The parts of the event handlers.

\* Mutant: the promise settles and the group is left alone.
FinishQuietly(exit, signal, trunc, failed) ==
  IF settled # "no"
  THEN UNCHANGED <<outcome, armed, procs, kills>>
  ELSE /\ settled' = "resolved"
       /\ result' = [exit |-> exit, signal |-> signal, timedOut |-> timedOut,
                     truncated |-> trunc, stdinError |-> failed,
                     output |-> captured']
       /\ armed' = {}
       /\ UNCHANGED <<procs, kills>>

\* Mutant: of the timers only the timeout is cleared.
FinishKeepsGrace(exit, signal, trunc, failed) ==
  IF settled # "no"
  THEN UNCHANGED <<outcome, armed, procs, kills>>
  ELSE /\ settled' = "resolved"
       /\ result' = [exit |-> exit, signal |-> signal, timedOut |-> timedOut,
                     truncated |-> trunc, stdinError |-> failed,
                     output |-> captured']
       /\ armed' = armed \ {"timeout"}
       /\ Die(Group, "SIGKILL")
       /\ kills' = kills + 1

\* finish: only the first call counts; it clears the timers, kills what is
\* left of the group and resolves.
Finish(exit, signal, trunc, failed) ==
  IF settled # "no"
  THEN UNCHANGED <<outcome, armed, procs, kills>>
  ELSE /\ settled' = "resolved"
       /\ result' = [exit |-> exit, signal |-> signal, timedOut |-> timedOut,
                     truncated |-> trunc, stdinError |-> failed,
                     output |-> captured']
       /\ armed' = {}
       /\ Die(Group, "SIGKILL")
       /\ kills' = kills + 1

Code(st) == IF st \in ExitCode THEN st ELSE "none"

KilledBy(st, otherwise) == IF st \in Signal THEN st ELSE otherwise

\* signalTree: SIGKILL ends the group, SIGTERM whichever members let it.
SignalTree(signal) ==
  /\ kills' = kills + 1
  /\ \E D \in IF signal = "SIGKILL" THEN {Group} ELSE SUBSET Group :
       Die(D, signal)
  /\ issued' = IF GroupExists THEN signal ELSE issued

\* terminate, with the given timers still armed.
Terminate(timers) ==
  IF terminating \/ settled # "no"
  THEN armed' = timers /\ UNCHANGED <<procs, ending, kills>>
  ELSE /\ terminating' = TRUE
       /\ SignalTree("SIGTERM")
       /\ armed' = timers \cup {"escalation"}

\* capture: keep what still fits, remember that something did not.
Capture(n) ==
  /\ captured' = captured + (IF n > Remaining THEN Remaining ELSE n)
  /\ truncated' = (truncated \/ n > Remaining)

-----------------------------------------------------------------------------
\* The event handlers.  None runs once the runner's process is gone.
Up == parent = "up"

\* A chunk of output; the streams are destroyed when the promise settles.
Data(n) ==
  /\ Up /\ settled = "no"
  /\ n \in 1..pipe
  /\ pipe' = pipe - n
  /\ Capture(n)
  /\ IF n > Remaining
     THEN Terminate(armed)
     ELSE UNCHANGED <<armed, procs, ending, kills>>
  /\ UNCHANGED <<os, outcome, stdin, stdinError, timedOut, seen, closeSeen>>

\* The write to stdin failed: its message counts as output.  No order is
\* assumed between stdin events and the child's exit and close.  If the message
\* is too much and close has been seen, terminate and finish follow each other
\* in the one event: the group's SIGTERM, then its SIGKILL.
StdinFails ==
  /\ Up /\ stdin = "open"
  /\ stdin' = "failed"
  /\ stdinError' = TRUE
  /\ Capture(Message)
  /\ IF closeSeen
     THEN /\ Finish(Code(status), KilledBy(status, "none"), truncated', TRUE)
          /\ IF Message > Remaining /\ ~terminating /\ settled = "no"
             THEN /\ terminating' = TRUE
                  /\ issued' = IF GroupExists THEN "SIGTERM" ELSE issued
             ELSE UNCHANGED ending
     ELSE /\ IF Message > Remaining
             THEN Terminate(armed)
             ELSE UNCHANGED <<armed, procs, ending, kills>>
          /\ UNCHANGED outcome
  /\ UNCHANGED <<os, pipe, timedOut, seen, closeSeen>>

\* finishAfterIo, once stdin is settled in state s and close has been seen.
FinishAfterIo(s, closed) ==
  IF closed /\ s # "open"
  THEN Finish(Code(status), KilledBy(status, "none"), truncated, stdinError)
  ELSE UNCHANGED <<outcome, armed, procs, kills>>

StdinCloses ==
  /\ Up /\ stdin \in {"open", "failed"}
  /\ stdin' = "closed"
  /\ UNCHANGED capture
  /\ FinishAfterIo(stdin', closeSeen)
  /\ UNCHANGED <<os, ending, pipe, stdinError, timedOut, seen,
                 closeSeen>>

\* "error": the executable could not be started.  Node reports it on the next
\* tick, so before any timer fires.
SpawnError ==
  /\ Up /\ ~spawned /\ settled = "no"
  /\ armed' = {}
  /\ settled' = "rejected"
  /\ UNCHANGED <<os, procs, capture, ending, result, pipe, stdin, stdinError,
                 timedOut, seen, closeSeen, kills>>

\* Mutant: the exit of the child settles the promise.
ExitFinishes ==
  /\ Up /\ spawned /\ seen = "running" /\ status # "running"
  /\ seen' = status
  /\ UNCHANGED capture
  /\ Finish(Code(status), KilledBy(status, "none"), truncated, stdinError)
  /\ UNCHANGED <<os, ending, pipe, stdin, stdinError, timedOut,
                 closeSeen>>

\* "exit": the child has been reaped.
Exit ==
  /\ Up /\ spawned /\ seen = "running" /\ status # "running"
  /\ seen' = status
  /\ UNCHANGED <<os, procs, capture, ending, outcome, pipe, stdin, stdinError,
                 timedOut, closeSeen, armed, kills>>

\* "close": after exit, when all that was written has been read and nobody
\* can write more.
Close ==
  /\ Up /\ seen # "running" /\ ~closeSeen
  /\ settled # "no" \/ (pipe = 0 /\ writers = {})
  /\ closeSeen' = TRUE
  /\ UNCHANGED capture
  /\ FinishAfterIo(stdin, TRUE)
  /\ UNCHANGED <<os, ending, pipe, stdin, stdinError, timedOut, seen>>

TimeoutFires ==
  /\ Up /\ spawned /\ "timeout" \in armed
  /\ timedOut' = TRUE
  /\ Terminate(armed \ {"timeout"})
  /\ UNCHANGED <<os, capture, outcome, pipe, stdin, stdinError, seen, closeSeen>>

\* Mutant: a child whose exit has been seen needs no forced end.
EscalateUnlessExited ==
  /\ Up /\ spawned /\ "escalation" \in armed
  /\ IF seen = "running"
     THEN /\ SignalTree("SIGKILL")
          /\ armed' = (armed \ {"escalation"}) \cup {"forced"}
     ELSE /\ armed' = armed \ {"escalation"}
          /\ UNCHANGED <<procs, issued, kills>>
  /\ UNCHANGED <<os, capture, terminating, outcome, pipe, stdin, stdinError,
                 timedOut, seen, closeSeen>>

\* The grace after SIGTERM is over: SIGKILL, unless the child's exit has been
\* seen, and one more grace before the end is forced.
EscalationFires ==
  /\ Up /\ spawned /\ "escalation" \in armed
  /\ armed' = (armed \ {"escalation"}) \cup {"forced"}
  /\ IF seen = "running"
     THEN SignalTree("SIGKILL")
     ELSE UNCHANGED <<procs, issued, kills>>
  /\ UNCHANGED <<os, capture, terminating, outcome, pipe, stdin, stdinError,
                 timedOut, seen, closeSeen>>

\* The second grace is over: stop reading and settle with what is known.
ForcedFires ==
  /\ Up /\ "forced" \in armed
  /\ stdin' = IF stdin = "open" THEN "closed" ELSE stdin
  /\ UNCHANGED capture
  /\ Finish(Code(seen), KilledBy(seen, issued), truncated, stdinError)
  /\ UNCHANGED <<os, ending, pipe, stdinError, timedOut, seen, closeSeen>>

-----------------------------------------------------------------------------
Member == Heir \cup {Leader}

Environment ==
  \/ \E p \in Member, how \in ExitCode \cup Signal : End(p, how)
  \/ \E p \in Member : Write(p)
  \/ \E p \in Member, h \in Heir : Fork(p, h)
  \/ \E h \in Heir : Escape(h)
  \/ ParentExit

Handler ==
  \/ \E n \in 1..MaxWritten : Data(n)
  \/ StdinFails \/ StdinCloses \/ SpawnError \/ Exit \/ Close
  \/ TimeoutFires \/ EscalationFires \/ ForcedFires

Next == Environment \/ Handler

Spec == Init /\ [][Next]_vars

\* Timers fire, and Node reports a failed start.  Nothing is assumed of the
\* child, of its descendants or of the streams.
FairSpec ==
  /\ Spec
  /\ WF_vars(TimeoutFires) /\ WF_vars(EscalationFires) /\ WF_vars(ForcedFires)
  /\ WF_vars(SpawnError)

-----------------------------------------------------------------------------
\* The types of the variables; in particular never more than maxOutputBytes
\* are retained.
TypeOK ==
  /\ spawned \in BOOLEAN
  /\ alive \in SUBSET Member /\ writers \in SUBSET alive
  /\ escaped \in SUBSET Heir
  /\ status \in {"running"} \cup ExitCode \cup Signal
  /\ written \in 0..MaxWritten /\ pipe \in 0..written
  /\ parent \in {"up", "exited"}
  /\ captured \in 0..MaxOutput
  /\ stdin \in {"none", "open", "failed", "closed"}
  /\ stdinError \in BOOLEAN /\ timedOut \in BOOLEAN /\ truncated \in BOOLEAN
  /\ terminating \in BOOLEAN
  /\ seen \in {"running"} \cup ExitCode \cup Signal
  /\ closeSeen \in BOOLEAN
  /\ issued \in {"none"} \cup Signal
  /\ armed \in SUBSET Timer
  /\ settled \in {"no", "resolved", "rejected"}
  /\ result \in [exit : {"none"} \cup ExitCode, signal : {"none"} \cup Signal,
                 timedOut : BOOLEAN, truncated : BOOLEAN, stdinError : BOOLEAN,
                 output : 0..MaxOutput]
  /\ kills \in 0..4

\* Whichever way the run ends, normally, by force or because the runner's
\* process exits, no process of the child's group survives it.
NoOrphans ==
  settled = "resolved" \/ parent = "exited" => Group = {}

\* A result that reports neither timeout nor truncation is the child's own:
\* its exit code or signal, and everything anyone wrote to its pipes.
OwnEnd ==
  settled = "resolved" /\ ~result.timedOut /\ ~result.truncated =>
    /\ result.exit = Code(status)
    /\ result.signal = KilledBy(status, "none")
    /\ result.output = written + (IF result.stdinError THEN Message ELSE 0)

\* Truncation is reported exactly when output arrived that was not retained,
\* and then the limit has been used up.
TruncationReported ==
  LET arrived == (written - pipe) + (IF stdinError THEN Message ELSE 0) IN
  /\ truncated <=> arrived > MaxOutput
  /\ captured = IF truncated THEN MaxOutput ELSE arrived

\* A forced end always says how: an exit code that was seen, or a signal.
EndExplained ==
  settled = "resolved" => result.exit # "none" \/ result.signal # "none"

\* What a result says is true: how the child ended, what it wrote, and what is
\* missing of it.  This lets runPreparedValidations take stdout for the formatted
\* file.
TruthfulResult == TypeOK /\ OwnEnd /\ TruncationReported /\ EndExplained

\* Exit, close, stdin and timer events race, and only one of them settles the
\* promise: afterwards no timer is armed, and no signal goes to a group id the
\* kernel may have given to somebody else.
SettlesOnce ==
  [][settled # "no" => UNCHANGED <<settled, result, kills>> /\ armed' = {}]_vars

\* Every run settles, whatever the child and its descendants do.
Settles == <>(settled # "no" \/ parent = "exited")
=============================================================================
