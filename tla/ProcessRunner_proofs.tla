------------------------ MODULE ProcessRunner_proofs ------------------------
(***************************************************************************)
(* runArgumentVector settles once, leaves no process of the group behind   *)
(* and reports the truth, for any child, any descendants and any order of  *)
(* the events.                                                             *)
(***************************************************************************)
EXTENDS ProcessRunner, TLAPS

\* The processes: a child that never started has no descendants and wrote
\* nothing; one that started is alive until it has a status.
Living ==
  /\ spawned \in BOOLEAN
  /\ alive \in SUBSET Member /\ writers \in SUBSET alive
  /\ escaped \in SUBSET Heir
  /\ status \in {"running"} \cup ExitCode \cup Signal
  /\ ~spawned => alive = {} /\ status = "running"
  /\ spawned => (Leader \in alive <=> status = "running")

Switches ==
  /\ truncated \in BOOLEAN /\ stdinError \in BOOLEAN /\ timedOut \in BOOLEAN
  /\ terminating \in BOOLEAN /\ closeSeen \in BOOLEAN

\* What was written, read and retained.
Counts ==
  /\ written \in 0..MaxWritten /\ pipe \in 0..written
  /\ captured \in 0..MaxOutput
  /\ ~spawned => written = 0
  /\ stdin \in {"none", "open", "failed", "closed"}
  /\ stdin = "open" => ~stdinError

\* Events: exit comes with the status, close after it, and a close that did
\* not settle waits for stdin.
Events ==
  /\ parent \in {"up", "exited"}
  /\ seen \in {"running"} \cup ExitCode \cup Signal
  /\ seen # "running" => spawned /\ seen = status
  /\ closeSeen => seen # "running"
  /\ closeSeen /\ settled = "no" => pipe = 0 /\ writers = {} /\ stdin = "open"

\* The chain of timers: only a run that timed out or overflowed is terminated,
\* and a forced end knows what to report.
Timers ==
  /\ issued \in {"none"} \cup Signal
  /\ armed \in SUBSET Timer
  /\ settled \in {"no", "resolved", "rejected"}
  /\ settled # "no" => armed = {}
  /\ settled = "resolved" => spawned
  /\ settled = "rejected" => ~spawned
  /\ terminating => timedOut \/ truncated
  /\ "escalation" \in armed \/ "forced" \in armed => terminating
  /\ "forced" \in armed => spawned /\ (seen # "running" \/ issued # "none")

\* Each signal to the group has its occasion: termination, escalation, the end.
Bounded ==
  /\ kills \in Nat
  /\ kills <= (IF ~terminating THEN 0 ELSE IF "escalation" \in armed THEN 1 ELSE 2)
                + (IF settled = "no" /\ parent = "up" THEN 0 ELSE 1)

Result == [exit : {"none"} \cup ExitCode, signal : {"none"} \cup Signal,
           timedOut : BOOLEAN, truncated : BOOLEAN, stdinError : BOOLEAN,
           output : 0..MaxOutput]

\* A result, once there, stays true.
Reported ==
  /\ result \in Result
  /\ settled = "resolved" /\ ~result.timedOut /\ ~result.truncated =>
       status # "running" /\ writers = {}
  /\ OwnEnd /\ EndExplained

IInv == /\ Living /\ Switches /\ Counts /\ Events /\ Timers /\ Bounded /\ Reported
        /\ NoOrphans /\ TruncationReported

-----------------------------------------------------------------------------
LEMMA InitInv == Init => IInv
<1> SUFFICES ASSUME Init PROVE IInv
  OBVIOUS
<1>1. Living
  BY DEF Init, Living, Member
<1>2. /\ ~stdinError /\ ~truncated /\ ~terminating /\ ~closeSeen
      /\ Switches
  BY Zenon DEF Init, Switches
<1>3. /\ written = 0 /\ pipe = 0 /\ captured = 0 /\ kills = 0
      /\ stdin \in {"none", "open"} /\ settled = "no" /\ parent = "up"
      /\ seen = "running" /\ issued = "none" /\ armed = {"timeout"}
      /\ result = NoResult
  BY DEF Init
<1>4. Counts
  BY <1>2, <1>3, RunnerConstants DEF Counts
<1>5. Events
  BY <1>2, <1>3 DEF Events
<1>6. Timers /\ Bounded
  BY <1>2, <1>3 DEF Timers, Bounded, Timer
<1>7. NoResult \in Result
  BY RunnerConstants DEF NoResult, Result
<1>8. Reported
  BY <1>3, <1>7 DEF Reported, OwnEnd, EndExplained
<1>9. NoOrphans /\ TruncationReported
  BY <1>2, <1>3, RunnerConstants DEF NoOrphans, TruncationReported
<1> QED BY <1>1, <1>2, <1>4, <1>5, <1>6, <1>8, <1>9 DEF IInv

\* What the end of some processes does to the others.
LEMMA DieFacts ==
  ASSUME Living, NEW D \in SUBSET alive, NEW how \in ExitCode \cup Signal,
         Die(D, how), UNCHANGED spawned
  PROVE  /\ alive' = alive \ D /\ writers' = writers \ D
         /\ status' \in {"running"} \cup ExitCode \cup Signal
         /\ ~spawned => alive' = {} /\ status' = "running"
         /\ spawned => (Leader \in alive' <=> status' = "running")
         /\ status # "running" => status' = status
BY DEF Living, Die, ExitCode, Signal

\* What every step leaves true of the processes.
Aged ==
  /\ UNCHANGED spawned
  /\ status # "running" => status' = status
  /\ writers = {} => writers' = {}
  /\ Group = {} => Group' = {}

LEMMA GroupKilled ==
  ASSUME Living, Die(Group, "SIGKILL"), UNCHANGED <<spawned, escaped>>
  PROVE  Living' /\ Aged /\ Group' = {}
<1>1. Group \in SUBSET alive /\ "SIGKILL" \in ExitCode \cup Signal
  BY DEF Group, Signal
<1>2. /\ alive' = alive \ Group /\ writers' = writers \ Group
      /\ status' \in {"running"} \cup ExitCode \cup Signal
      /\ ~spawned => alive' = {} /\ status' = "running"
      /\ spawned => (Leader \in alive' <=> status' = "running")
      /\ status # "running" => status' = status
  BY <1>1, DieFacts
<1>3. Group' = {}
  BY <1>2 DEF Group
<1> QED BY <1>2, <1>3 DEF Living, Aged, Member

LEMMA SomeKilled ==
  ASSUME Living, NEW signal \in Signal, SignalTree(signal),
         UNCHANGED <<spawned, escaped>>
  PROVE  Living' /\ Aged
<1>1. PICK D \in SUBSET Group : Die(D, signal)
  BY DEF SignalTree
<1>2. D \in SUBSET alive /\ signal \in ExitCode \cup Signal
  BY DEF Group
<1>3. /\ alive' = alive \ D /\ writers' = writers \ D
      /\ status' \in {"running"} \cup ExitCode \cup Signal
      /\ ~spawned => alive' = {} /\ status' = "running"
      /\ spawned => (Leader \in alive' <=> status' = "running")
      /\ status # "running" => status' = status
  BY <1>1, <1>2, DieFacts
<1>4. Group = {} => Group' = {}
  BY <1>3 DEF Group
<1> QED BY <1>3, <1>4 DEF Living, Aged, Member

LEMMA NobodyKilled ==
  ASSUME Living, UNCHANGED <<procs, spawned, escaped>>
  PROVE  Living' /\ Aged
BY DEF Living, Aged, Group, procs

LEMMA TerminateFacts ==
  ASSUME Living, NEW timers, Terminate(timers), UNCHANGED <<spawned, escaped>>
  PROVE  Living' /\ Aged
<1>1. CASE terminating \/ settled # "no"
  BY <1>1, NobodyKilled DEF Terminate
<1>2. CASE ~(terminating \/ settled # "no")
  BY <1>2, SomeKilled DEF Terminate, Signal
<1> QED BY <1>1, <1>2

LEMMA FinishFacts ==
  ASSUME Living, NEW exit, NEW signal, NEW trunc, NEW fail,
         Finish(exit, signal, trunc, fail), UNCHANGED <<spawned, escaped>>
  PROVE  Living' /\ Aged /\ (settled = "no" => Group' = {})
<1>1. CASE settled # "no"
  BY <1>1, NobodyKilled DEF Finish
<1>2. CASE settled = "no"
  BY <1>2, GroupKilled DEF Finish
<1> QED BY <1>1, <1>2

-----------------------------------------------------------------------------
\* Step by step, the parts of the invariant.
LEMMA LivingStep == Living /\ [Next]_vars => Living' /\ Aged
<1> SUFFICES ASSUME Living, [Next]_vars PROVE Living' /\ Aged
  OBVIOUS
<1>1. ASSUME NEW p \in Member, NEW how \in ExitCode \cup Signal, End(p, how)
      PROVE  Living' /\ Aged
  <2>1. /\ {p} \in SUBSET alive /\ Die({p}, how)
        /\ UNCHANGED <<spawned, escaped>>
    BY <1>1 DEF End, os
  <2>2. /\ alive' = alive \ {p} /\ writers' = writers \ {p}
        /\ status' \in {"running"} \cup ExitCode \cup Signal
        /\ ~spawned => alive' = {} /\ status' = "running"
        /\ spawned => (Leader \in alive' <=> status' = "running")
        /\ status # "running" => status' = status
    BY <2>1, DieFacts
  <2>3. Group = {} => Group' = {}
    BY <2>1, <2>2 DEF Group
  <2> QED BY <2>1, <2>2, <2>3 DEF Living, Aged
<1>2. ASSUME NEW p \in Member, NEW h \in Heir, Fork(p, h) PROVE Living' /\ Aged
  <2>1. /\ p \in alive /\ h \notin alive \cup escaped
        /\ alive' = alive \cup {h}
        /\ writers' = writers \/ (p \in writers /\ writers' = writers \cup {h})
        /\ escaped' = IF p \in escaped THEN escaped \cup {h} ELSE escaped
        /\ UNCHANGED <<spawned, status>>
    BY <1>2 DEF Fork
  <2>2. h # Leader
    BY RunnerConstants
  <2>3. Group = {} => Group' = {}
    BY <2>1 DEF Group
  <2> QED BY <2>1, <2>2, <2>3 DEF Living, Aged, Member
<1>3. ASSUME NEW h \in Heir, Escape(h) PROVE Living' /\ Aged
  BY <1>3 DEF Escape, Living, Aged, Group, procs
<1>4. ASSUME NEW p \in Member, Write(p) PROVE Living' /\ Aged
  BY <1>4, NobodyKilled DEF Write
<1>5. CASE ParentExit
  <2>1. CASE settled = "no"
    BY <1>5, <2>1, GroupKilled DEF ParentExit
  <2>2. CASE settled # "no"
    BY <1>5, <2>2, NobodyKilled DEF ParentExit
  <2> QED BY <2>1, <2>2
<1>6. ASSUME NEW n \in 1..MaxWritten, Data(n) PROVE Living' /\ Aged
  <2>1. UNCHANGED <<spawned, escaped>> /\ (Terminate(armed) \/ UNCHANGED procs)
    BY <1>6 DEF Data, os
  <2> QED BY <2>1, TerminateFacts, NobodyKilled
<1>7. CASE StdinFails
  <2>1. /\ UNCHANGED <<spawned, escaped>>
        /\ \/ Finish(Code(status), KilledBy(status, "none"), truncated', TRUE)
           \/ Terminate(armed)
           \/ UNCHANGED procs
    BY <1>7 DEF StdinFails, os
  <2> QED BY <2>1, TerminateFacts, FinishFacts, NobodyKilled
<1>8. CASE StdinCloses \/ Close \/ ForcedFires
  <2>1. UNCHANGED <<spawned, escaped>>
    BY <1>8 DEF StdinCloses, Close, ForcedFires, os
  <2>2. \/ Finish(Code(status), KilledBy(status, "none"), truncated, stdinError)
        \/ Finish(Code(seen), KilledBy(seen, issued), truncated, stdinError)
        \/ UNCHANGED procs
    BY <1>8 DEF StdinCloses, Close, ForcedFires, FinishAfterIo
  <2> QED BY <2>1, <2>2, FinishFacts, NobodyKilled
<1>9. CASE SpawnError \/ Exit \/ UNCHANGED vars
  BY <1>9, NobodyKilled DEF SpawnError, Exit, vars, os
<1>10. CASE TimeoutFires
  <2>1. UNCHANGED <<spawned, escaped>> /\ Terminate(armed \ {"timeout"})
    BY <1>10 DEF TimeoutFires, os
  <2> QED BY <2>1, TerminateFacts
<1>11. CASE EscalationFires
  <2>1. UNCHANGED <<spawned, escaped>> /\ (SignalTree("SIGKILL") \/ UNCHANGED procs)
    BY <1>11 DEF EscalationFires, os
  <2> QED BY <2>1, SomeKilled, NobodyKilled DEF Signal
<1> QED BY <1>1, <1>2, <1>3, <1>4, <1>5, <1>6, <1>7, <1>8, <1>9, <1>10, <1>11
  DEF Next, Environment, Handler

LEMMA SwitchesStep == Switches /\ [Next]_vars => Switches'
<1> SUFFICES ASSUME Switches, [Next]_vars PROVE Switches'
  OBVIOUS
<1> USE DEF Switches
<1>1. ASSUME NEW timers, Terminate(timers) PROVE terminating' \in BOOLEAN
  BY <1>1, Zenon DEF Terminate, ending
<1>2. ASSUME NEW n, Capture(n) PROVE truncated' \in BOOLEAN
  BY <1>2, Zenon DEF Capture
<1>3. CASE Environment
  BY <1>3, Zenon DEF Environment, End, Write, Fork, Escape, ParentExit, capture,
                    ending
<1>4. ASSUME NEW n \in 1..MaxWritten, Data(n) PROVE Switches'
  <2>1. terminating' \in BOOLEAN
    BY <1>4, <1>1, Zenon DEF Data, ending
  <2>2. truncated' \in BOOLEAN
    BY <1>4, <1>2, Zenon DEF Data
  <2> QED BY <1>4, <2>1, <2>2, Zenon DEF Data
<1>5. CASE StdinFails
  <2>1. terminating' \in BOOLEAN
    BY <1>5, <1>1, Zenon DEF StdinFails, ending
  <2>2. truncated' \in BOOLEAN
    BY <1>5, <1>2, Zenon DEF StdinFails
  <2> QED BY <1>5, <2>1, <2>2, Zenon DEF StdinFails
<1>6. CASE TimeoutFires
  <2>1. terminating' \in BOOLEAN
    BY <1>6, <1>1, Zenon DEF TimeoutFires
  <2> QED BY <1>6, <2>1, Zenon DEF TimeoutFires, capture
<1>7. CASE StdinCloses \/ SpawnError \/ Exit \/ Close
  BY <1>7, Zenon DEF StdinCloses, SpawnError, Exit, Close, capture, ending
<1>8. CASE EscalationFires \/ ForcedFires
  BY <1>8, Zenon DEF EscalationFires, ForcedFires, capture, ending
<1>9. CASE UNCHANGED vars
  BY <1>9, Zenon DEF vars, capture, ending
<1> QED BY <1>3, <1>4, <1>5, <1>6, <1>7, <1>8, <1>9 DEF Next, Handler

\* What is retained of what has arrived, before and after n more units.
Retains(arrived) ==
  /\ truncated <=> arrived > MaxOutput
  /\ captured = IF truncated THEN MaxOutput ELSE arrived

LEMMA CaptureFacts ==
  ASSUME Switches, captured \in 0..MaxOutput, NEW n \in Nat \ {0}, Capture(n),
         NEW a \in Int, Retains(a), NEW b \in Int, b = a + n
  PROVE  /\ captured' \in 0..MaxOutput
         /\ truncated' <=> b > MaxOutput
         /\ captured' = IF truncated' THEN MaxOutput ELSE b
         /\ truncated => truncated'
         /\ n > Remaining => truncated'
<1>1. truncated' <=> truncated \/ n > Remaining
  BY Zenon DEF Capture, Switches
<1>2. captured' = captured + (IF n > Remaining THEN Remaining ELSE n)
  BY DEF Capture
<1>3. /\ truncated <=> a > MaxOutput
      /\ captured = IF truncated THEN MaxOutput ELSE a
  BY DEF Retains
<1>4. MaxOutput \in Nat
  BY RunnerConstants
<1> QED BY <1>1, <1>2, <1>3, <1>4 DEF Remaining

Arrived == (written - pipe) + (IF stdinError THEN Message ELSE 0)

LEMMA CountsStep ==
  Living /\ Switches /\ Counts /\ TruncationReported /\ [Next]_vars
    => Counts' /\ TruncationReported'
<1> SUFFICES ASSUME Living, Switches, Counts, TruncationReported, [Next]_vars
             PROVE  Counts' /\ TruncationReported'
  OBVIOUS
<1>a. /\ MaxOutput \in Nat \ {0} /\ Message \in Nat \ {0} /\ MaxWritten \in Nat
      /\ Arrived \in Int /\ Retains(Arrived)
  BY RunnerConstants DEF Counts, TruncationReported, Arrived, Retains
<1>1. ASSUME UNCHANGED <<spawned, written, pipe, capture, stdin, stdinError>>
      PROVE  Counts' /\ TruncationReported'
  BY <1>1 DEF Counts, TruncationReported, capture
<1>2. ASSUME NEW p \in Member, Write(p) PROVE Counts' /\ TruncationReported'
  <2>1. /\ written < MaxWritten /\ written' = written + 1 /\ pipe' = pipe + 1
        /\ UNCHANGED <<spawned, captured, truncated, stdin, stdinError>>
    BY <1>2 DEF Write, capture
  <2>2. spawned
    BY <1>2 DEF Write, Living
  <2> QED BY <2>1, <2>2, <1>a DEF Counts, TruncationReported
<1>3. ASSUME NEW n \in 1..MaxWritten, Data(n) PROVE Counts' /\ TruncationReported'
  <2>1. /\ n \in 1..pipe /\ pipe' = pipe - n /\ Capture(n)
        /\ UNCHANGED <<spawned, written, stdin, stdinError>>
    BY <1>3 DEF Data, os
  <2>2. Arrived' \in Int /\ Arrived' = Arrived + n /\ n \in Nat \ {0}
    BY <2>1, <1>a DEF Arrived, Counts
  <2>3. captured' \in 0..MaxOutput /\ Retains(Arrived)'
    BY <2>1, <2>2, <1>a, CaptureFacts DEF Counts, Retains
  <2> QED BY <2>1, <2>3, <1>a DEF Counts, TruncationReported, Retains, Arrived
<1>4. CASE StdinFails
  <2>1. /\ stdin = "open" /\ stdin' = "failed" /\ Capture(Message)
        /\ UNCHANGED <<spawned, written, pipe>>
    BY <1>4 DEF StdinFails, os
  <2>2. ~stdinError /\ stdinError'
    BY <1>4, <2>1, Zenon DEF StdinFails, Counts
  <2>3. Arrived' \in Int /\ Arrived' = Arrived + Message
    BY <2>1, <2>2, <1>a DEF Arrived, Counts
  <2>4. captured' \in 0..MaxOutput /\ Retains(Arrived)'
    BY <2>1, <2>3, <1>a, CaptureFacts DEF Counts, Retains
  <2> QED BY <2>1, <2>4 DEF Counts, TruncationReported, Retains, Arrived
<1>5. CASE StdinCloses \/ ForcedFires
  <2>1. /\ UNCHANGED <<spawned, written, pipe, captured, truncated, stdinError>>
        /\ stdin' = stdin \/ stdin' = "closed"
    BY <1>5 DEF StdinCloses, ForcedFires, os, capture
  <2> QED BY <2>1 DEF Counts, TruncationReported
<1>6. CASE SpawnError \/ Exit \/ Close
  BY <1>6, <1>1 DEF SpawnError, Exit, Close, os
<1>7. CASE TimeoutFires \/ EscalationFires
  BY <1>7, <1>1 DEF TimeoutFires, EscalationFires, os
<1>8. ASSUME NEW p \in Member, NEW how, End(p, how)
      PROVE  Counts' /\ TruncationReported'
  BY <1>8, <1>1 DEF End, os
<1>9. ASSUME NEW p \in Member, NEW h, Fork(p, h) PROVE Counts' /\ TruncationReported'
  BY <1>9, <1>1 DEF Fork
<1>10. ASSUME NEW h, Escape(h) PROVE Counts' /\ TruncationReported'
  BY <1>10, <1>1 DEF Escape
<1>11. CASE ParentExit \/ UNCHANGED vars
  BY <1>11, <1>1 DEF ParentExit, vars, os
<1> QED BY <1>2, <1>3, <1>4, <1>5, <1>6, <1>7, <1>8, <1>9, <1>10, <1>11
  DEF Next, Environment, Handler

LEMMA FinishSettles ==
  ASSUME NEW exit, NEW signal, NEW trunc, NEW fail,
         Finish(exit, signal, trunc, fail)
  PROVE  settled' # "no" /\ (settled # "no" => UNCHANGED <<outcome, armed, kills>>)
BY DEF Finish, outcome

LEMMA EventsStep ==
  Living /\ Counts /\ Events /\ Living' /\ Aged /\ [Next]_vars => Events'
<1> SUFFICES ASSUME Living, Counts, Events, Living', Aged, [Next]_vars
             PROVE  Events'
  OBVIOUS
<1>a. /\ UNCHANGED spawned /\ (seen # "running" => status' = status)
      /\ writers = {} => writers' = {}
      /\ status' \in {"running"} \cup ExitCode \cup Signal
  BY DEF Aged, Events, Living
<1>1. ASSUME UNCHANGED <<seen, closeSeen, settled, pipe, stdin>>,
             parent' \in {"up", "exited"}
      PROVE  Events'
  BY <1>1, <1>a DEF Events
<1>2. ASSUME settled' # "no", UNCHANGED <<seen, closeSeen, parent>> PROVE Events'
  BY <1>2, <1>a DEF Events
<1>3. ASSUME NEW p \in Member, Write(p) PROVE Events'
  <2>1. /\ UNCHANGED <<seen, closeSeen, settled, stdin, parent>>
        /\ writers # {}
    BY <1>3 DEF Write, outcome
  <2> QED BY <2>1, <1>a DEF Events
<1>4. ASSUME NEW n \in 1..MaxWritten, Data(n) PROVE Events'
  <2>1. UNCHANGED <<seen, closeSeen, settled, stdin, parent>> /\ pipe # 0
    BY <1>4, RunnerConstants DEF Data, outcome, os
  <2> QED BY <2>1, <1>a DEF Events
<1>5. CASE StdinFails
  <2>1. CASE closeSeen
    BY <1>5, <2>1, <1>2, FinishSettles DEF StdinFails, os
  <2>2. CASE ~closeSeen
    BY <1>5, <2>2, <1>a DEF StdinFails, os, Events
  <2> QED BY <2>1, <2>2
<1>6. CASE StdinCloses
  <2>1. CASE closeSeen
    BY <1>6, <2>1, <1>2, FinishSettles DEF StdinCloses, FinishAfterIo, os
  <2>2. CASE ~closeSeen
    BY <1>6, <2>2, <1>a DEF StdinCloses, FinishAfterIo, os, Events
  <2> QED BY <2>1, <2>2
<1>7. CASE SpawnError
  BY <1>7, <1>2 DEF SpawnError, os
<1>8. CASE Exit
  BY <1>8, <1>a DEF Exit, os, outcome, procs, Events, Living
<1>9. CASE Close
  <2>1. /\ UNCHANGED <<seen, parent, pipe, stdin>> /\ seen # "running" /\ closeSeen'
        /\ settled # "no" \/ (pipe = 0 /\ writers = {})
    BY <1>9, Zenon DEF Close, os
  <2>2. settled' # "no" \/ (settled' = settled /\ stdin = "open")
    BY <1>9, FinishSettles DEF Close, FinishAfterIo, outcome
  <2> QED BY <2>1, <2>2, <1>a DEF Events
<1>10. CASE TimeoutFires \/ EscalationFires
  BY <1>10, <1>1 DEF TimeoutFires, EscalationFires, os, outcome, Events
<1>11. CASE ForcedFires
  BY <1>11, <1>2, FinishSettles DEF ForcedFires, os
<1>12. ASSUME NEW p \in Member, NEW how, End(p, how) PROVE Events'
  BY <1>12, <1>1 DEF End, os, outcome, Events
<1>13. ASSUME NEW p \in Member, NEW h, Fork(p, h) PROVE Events'
  BY <1>13, <1>1 DEF Fork, outcome, Events
<1>14. ASSUME NEW h, Escape(h) PROVE Events'
  BY <1>14, <1>1 DEF Escape, outcome, Events
<1>15. CASE ParentExit
  BY <1>15, <1>1 DEF ParentExit, outcome
<1>16. CASE UNCHANGED vars
  BY <1>16, <1>1 DEF vars, os, outcome, Events
<1> QED BY <1>3, <1>4, <1>5, <1>6, <1>7, <1>8, <1>9, <1>10, <1>11, <1>12, <1>13,
           <1>14, <1>15, <1>16
  DEF Next, Environment, Handler

\* A timer chain is only started by a timeout or an overflow.
LEMMA TerminateTimers ==
  ASSUME Timers, Bounded, NEW timers \in SUBSET armed, Terminate(timers),
         "escalation" \in armed => "escalation" \in timers,
         UNCHANGED <<settled, parent>>, parent = "up"
  PROVE  /\ issued' \in {"none"} \cup Signal
         /\ armed' \in SUBSET Timer
         /\ settled # "no" => armed' = {} /\ kills' = kills
         /\ "escalation" \in armed' \/ "forced" \in armed' => terminating'
         /\ "forced" \in armed' => "forced" \in armed
         /\ issued # "none" => issued' # "none"
         /\ Bounded'
<1>1. CASE terminating \/ settled # "no"
  <2>1. armed' = timers /\ UNCHANGED <<terminating, issued, kills>>
    BY <1>1, Zenon DEF Terminate, ending
  <2> QED BY <2>1 DEF Timers, Bounded, Timer
<1>2. CASE ~terminating /\ settled = "no"
  <2>1. terminating' = TRUE
    BY <1>2, Zenon DEF Terminate
  <2>2. terminating'
    BY <2>1, Zenon
  <2>3. /\ armed' = timers \cup {"escalation"} /\ kills' = kills + 1
        /\ issued' = "SIGTERM" \/ issued' = issued
    BY <1>2 DEF Terminate, SignalTree
  <2>4. kills = 0
    BY <1>2 DEF Bounded
  <2> QED BY <1>2, <2>2, <2>3, <2>4 DEF Timers, Bounded, Timer, Signal
<1> QED BY <1>1, <1>2

LEMMA FinishEnds ==
  ASSUME Timers, Bounded, spawned, parent = "up",
         NEW exit, NEW signal, NEW trunc, NEW fail,
         Finish(exit, signal, trunc, fail),
         UNCHANGED <<spawned, parent>>, issued' \in {"none"} \cup Signal,
         terminating => terminating', terminating' => timedOut' \/ truncated',
         settled # "no" => UNCHANGED terminating
  PROVE  Timers' /\ Bounded'
<1>1. CASE settled # "no"
  <2>1. UNCHANGED <<settled, armed, kills, terminating>>
    BY <1>1 DEF Finish, outcome
  <2> QED BY <1>1, <2>1 DEF Timers, Bounded
<1>2. CASE settled = "no"
  <2>1. settled' = "resolved" /\ armed' = {} /\ kills' = kills + 1
    BY <1>2 DEF Finish
  <2> QED BY <1>2, <2>1 DEF Timers, Bounded
<1> QED BY <1>1, <1>2

LEMMA FinishTimers ==
  ASSUME Timers, Bounded, spawned, parent = "up",
         NEW exit, NEW signal, NEW trunc, NEW fail,
         Finish(exit, signal, trunc, fail),
         UNCHANGED <<spawned, parent, ending, timedOut>>, truncated => truncated'
  PROVE  Timers' /\ Bounded'
<1>1. terminating' => timedOut' \/ truncated'
  BY Zenon DEF Timers, ending
<1>2. issued' \in {"none"} \cup Signal
  BY DEF Timers, ending
<1> QED BY <1>1, <1>2, FinishEnds DEF ending

LEMMA TimersStep ==
  Living /\ Switches /\ Events /\ Timers /\ Bounded /\ [Next]_vars
    => Timers' /\ Bounded'
<1> SUFFICES ASSUME Living, Switches, Events, Timers, Bounded, [Next]_vars
             PROVE  Timers' /\ Bounded'
  OBVIOUS
<1>a. ASSUME NEW n, Capture(n)
      PROVE  (truncated => truncated') /\ (n > Remaining => truncated')
  BY <1>a, Zenon DEF Capture
<1>1. ASSUME UNCHANGED <<issued, armed, settled, terminating, kills, spawned,
                         parent, timedOut>>,
             truncated => truncated', seen # "running" => seen' # "running"
      PROVE  Timers' /\ Bounded'
  BY <1>1 DEF Timers, Bounded
<1>2. ASSUME NEW timers \in SUBSET armed, Terminate(timers), parent = "up",
             "escalation" \in armed => "escalation" \in timers,
             UNCHANGED <<settled, parent, spawned, seen>>,
             timedOut' \/ truncated', timedOut => timedOut', truncated => truncated'
      PROVE  Timers' /\ Bounded'
  <2>1. /\ issued' \in {"none"} \cup Signal
        /\ armed' \in SUBSET Timer
        /\ settled # "no" => armed' = {} /\ kills' = kills
        /\ "escalation" \in armed' \/ "forced" \in armed' => terminating'
        /\ "forced" \in armed' => "forced" \in armed
        /\ issued # "none" => issued' # "none"
        /\ Bounded'
    BY <1>2, TerminateTimers
  <2> QED BY <1>2, <2>1 DEF Timers
<1>3. ASSUME NEW p \in Member, NEW how, End(p, how) PROVE Timers' /\ Bounded'
  BY <1>3, <1>1 DEF End, os, ending, outcome, capture
<1>4. ASSUME NEW p \in Member, Write(p) PROVE Timers' /\ Bounded'
  BY <1>4, <1>1 DEF Write, ending, outcome, capture
<1>5. ASSUME NEW p \in Member, NEW h, Fork(p, h) PROVE Timers' /\ Bounded'
  BY <1>5, <1>1 DEF Fork, ending, outcome, capture
<1>6. ASSUME NEW h, Escape(h) PROVE Timers' /\ Bounded'
  BY <1>6, <1>1 DEF Escape, ending, outcome, capture
<1>7. CASE ParentExit
  <2>1. /\ UNCHANGED <<issued, armed, settled, terminating, spawned, seen, timedOut,
                       truncated>>
        /\ parent = "up" /\ parent' = "exited"
        /\ kills' = IF settled = "no" THEN kills + 1 ELSE kills
    BY <1>7 DEF ParentExit, ending, outcome, capture
  <2> QED BY <2>1 DEF Timers, Bounded
<1>8. ASSUME NEW n \in 1..MaxWritten, Data(n) PROVE Timers' /\ Bounded'
  <2>1. /\ parent = "up" /\ Capture(n)
        /\ UNCHANGED <<settled, parent, spawned, seen, timedOut>>
    BY <1>8 DEF Data, Up, os, outcome
  <2>2. CASE n > Remaining
    BY <1>8, <2>1, <2>2, <1>2, <1>a DEF Data
  <2>3. CASE ~(n > Remaining)
    BY <1>8, <2>1, <2>3, <1>1, <1>a DEF Data, ending
  <2> QED BY <2>2, <2>3
<1>9. CASE StdinFails
  <2>1. /\ parent = "up" /\ Capture(Message)
        /\ UNCHANGED <<parent, spawned, seen, timedOut>>
    BY <1>9 DEF StdinFails, Up, os
  <2>2. CASE closeSeen
    <3>1. spawned
      BY <2>2 DEF Events
    <3>2. Finish(Code(status), KilledBy(status, "none"), truncated', TRUE)
      BY <1>9, <2>2 DEF StdinFails
    <3>3. \/ UNCHANGED <<terminating, issued>>
          \/ /\ Message > Remaining /\ settled = "no" /\ terminating' = TRUE
             /\ issued' \in {"SIGTERM", issued}
      BY <1>9, <2>2 DEF StdinFails, ending
    <3>4. truncated' <=> (truncated \/ Message > Remaining)
      BY <2>1, Zenon DEF Capture
    <3>5. terminating' => timedOut' \/ truncated'
      BY <2>1, <3>3, <3>4, Zenon DEF Timers
    <3>6. issued' \in {"none"} \cup Signal
      BY <3>3 DEF Timers, Signal
    <3>7. terminating => terminating'
      BY <3>3, Zenon
    <3>8. settled # "no" => UNCHANGED terminating
      BY <3>3, Zenon
    <3>9. UNCHANGED <<spawned, parent>>
      BY <2>1
    <3> QED BY <2>1, <3>1, <3>2, <3>5, <3>6, <3>7, <3>8, <3>9, FinishEnds
  <2>3. CASE ~closeSeen /\ Message > Remaining
    BY <1>9, <2>1, <2>3, <1>2, <1>a DEF StdinFails, outcome
  <2>4. CASE ~closeSeen /\ ~(Message > Remaining)
    BY <1>9, <2>1, <2>4, <1>1, <1>a DEF StdinFails, ending, outcome
  <2> QED BY <2>2, <2>3, <2>4
<1>10. CASE StdinCloses \/ Close
  <2>1. /\ parent = "up"
        /\ UNCHANGED <<parent, spawned, seen, ending, timedOut, truncated>>
    BY <1>10 DEF StdinCloses, Close, Up, os, capture
  <2>2. \/ spawned /\ Finish(Code(status), KilledBy(status, "none"), truncated,
                             stdinError)
        \/ UNCHANGED <<outcome, armed, kills>>
    BY <1>10 DEF StdinCloses, Close, FinishAfterIo, Events
  <2> QED BY <2>1, <2>2, <1>1, FinishTimers DEF ending, outcome
<1>11. CASE SpawnError
  <2>1. /\ ~spawned /\ settled = "no" /\ armed' = {} /\ settled' = "rejected"
        /\ UNCHANGED <<issued, terminating, kills, spawned, parent, timedOut,
                       truncated>>
    BY <1>11 DEF SpawnError, os, ending, capture
  <2> QED BY <2>1 DEF Timers, Bounded
<1>12. CASE Exit
  BY <1>12, <1>1 DEF Exit, os, ending, outcome, capture
<1>13. CASE TimeoutFires
  <2>1. /\ parent = "up" /\ Terminate(armed \ {"timeout"})
        /\ UNCHANGED <<settled, parent, spawned, seen, truncated>>
    BY <1>13 DEF TimeoutFires, Up, os, outcome, capture
  <2>2. timedOut'
    BY <1>13, Zenon DEF TimeoutFires
  <2> QED BY <2>1, <2>2, <1>2
<1>14. CASE EscalationFires
  <2>1. /\ spawned /\ "escalation" \in armed
        /\ armed' = (armed \ {"escalation"}) \cup {"forced"}
        /\ UNCHANGED <<settled, parent, spawned, seen, timedOut, truncated,
                       terminating>>
    BY <1>14 DEF EscalationFires, os, outcome, capture
  <2>2. settled = "no" /\ terminating
    BY <2>1 DEF Timers
  <2>3. CASE seen = "running"
    <3>1. kills' = kills + 1 /\ issued' = "SIGKILL"
      BY <1>14, <2>1, <2>3 DEF EscalationFires, SignalTree, GroupExists
    <3> QED BY <2>1, <2>2, <3>1 DEF Timers, Bounded, Timer, Signal
  <2>4. CASE seen # "running"
    <3>1. UNCHANGED <<kills, issued>>
      BY <1>14, <2>4 DEF EscalationFires
    <3> QED BY <2>1, <2>2, <2>4, <3>1 DEF Timers, Bounded, Timer
  <2> QED BY <2>3, <2>4
<1>15. CASE ForcedFires
  BY <1>15, FinishTimers DEF ForcedFires, Timers, Up, os, capture
<1>16. CASE UNCHANGED vars
  BY <1>16, <1>1 DEF vars, os, ending, outcome, capture
<1> QED BY <1>3, <1>4, <1>5, <1>6, <1>7, <1>8, <1>9, <1>10, <1>11, <1>12, <1>13,
           <1>14, <1>15, <1>16
  DEF Next, Environment, Handler

\* finish with the child's own end, once close has been seen.
LEMMA OwnFinish ==
  ASSUME Switches', Timers', Counts', TruncationReported', Aged,
         settled = "no", status \in ExitCode \cup Signal, writers = {}, pipe' = 0,
         Finish(Code(status), KilledBy(status, "none"), truncated', stdinError'),
         UNCHANGED timedOut
  PROVE  Reported'
<1>1. /\ status' = status /\ writers' = {}
  BY DEF Aged, ExitCode, Signal
<1>2. /\ settled' = "resolved"
      /\ result' = [exit |-> Code(status), signal |-> KilledBy(status, "none"),
                    timedOut |-> timedOut', truncated |-> truncated',
                    stdinError |-> stdinError', output |-> captured']
  BY Zenon DEF Finish
<1>3. /\ Code(status) \in {"none"} \cup ExitCode
      /\ KilledBy(status, "none") \in {"none"} \cup Signal
      /\ Code(status) # "none" \/ KilledBy(status, "none") # "none"
  BY DEF Code, KilledBy, ExitCode, Signal
<1>4. captured' \in 0..MaxOutput
  BY DEF Counts
<1>5. result' \in Result
  BY <1>2, <1>3, <1>4, Zenon DEF Result, Switches
<1>6. /\ result'.exit = Code(status) /\ result'.signal = KilledBy(status, "none")
      /\ result'.output = captured'
  BY <1>2
<1>7. /\ result'.truncated = truncated' /\ result'.stdinError = stdinError'
  BY <1>2, Zenon
<1>8. EndExplained'
  BY <1>3, <1>6 DEF EndExplained
<1>9. ~truncated' =>
        captured' = written' + (IF stdinError' THEN Message ELSE 0)
  BY RunnerConstants DEF TruncationReported, Counts
<1>10. OwnEnd'
  <2>1. Code(status') = Code(status) /\ KilledBy(status', "none") = KilledBy(status, "none")
    BY <1>1
  <2>2. ~result'.truncated =>
          result'.output = written' + (IF result'.stdinError THEN Message ELSE 0)
    BY <1>6, <1>7, <1>9, Zenon
  <2> QED BY <1>6, <2>1, <2>2, Zenon DEF OwnEnd, Code, KilledBy
<1>11. status' # "running"
  BY <1>1 DEF ExitCode, Signal
<1> QED BY <1>1, <1>5, <1>8, <1>10, <1>11 DEF Reported

\* finish by force: the run timed out or overflowed, and a signal or an exit
\* code is known.
LEMMA ForcedFinish ==
  ASSUME Switches, Switches', Counts', Events, Timers, ForcedFires, settled = "no"
  PROVE  Reported'
<1>1. /\ settled' = "resolved"
      /\ result' = [exit |-> Code(seen), signal |-> KilledBy(seen, issued),
                    timedOut |-> timedOut, truncated |-> truncated,
                    stdinError |-> stdinError, output |-> captured']
  BY Zenon DEF ForcedFires, Finish
<1>2. /\ seen \in {"running"} \cup ExitCode \cup Signal
      /\ issued \in {"none"} \cup Signal
      /\ seen # "running" \/ issued # "none"
      /\ timedOut \/ truncated
  BY DEF ForcedFires, Timers, Events
<1>3. /\ Code(seen) \in {"none"} \cup ExitCode
      /\ KilledBy(seen, issued) \in {"none"} \cup Signal
      /\ Code(seen) # "none" \/ KilledBy(seen, issued) # "none"
  BY <1>2 DEF Code, KilledBy, ExitCode, Signal
<1>4. captured' \in 0..MaxOutput
  BY DEF Counts
<1>5. result' \in Result
  BY <1>1, <1>3, <1>4, Zenon DEF Result, Switches
<1>6. EndExplained'
  BY <1>1, <1>3 DEF EndExplained
<1>7. result'.timedOut \/ result'.truncated
  BY <1>1, <1>2, Zenon
<1> QED BY <1>5, <1>6, <1>7, Zenon DEF Reported, OwnEnd

LEMMA ReportedStep ==
  IInv /\ Switches' /\ Timers' /\ Counts' /\ TruncationReported' /\ Aged /\ [Next]_vars
    => Reported'
<1> SUFFICES ASSUME Living, Switches, Counts, Events, Timers, Reported, Switches',
                    Timers', Counts', TruncationReported', Aged, [Next]_vars
             PROVE  Reported'
  BY DEF IInv
<1>1. ASSUME UNCHANGED outcome, writers # {} \/ written' = written PROVE Reported'
  <2>1. UNCHANGED <<settled, result>>
    BY <1>1 DEF outcome
  <2>2. EndExplained' /\ result' \in Result
    BY <2>1 DEF EndExplained, Reported
  <2>3. ASSUME settled = "resolved", ~result.timedOut, ~result.truncated
        PROVE  /\ status' = status /\ writers' = {} /\ written' = written
               /\ status # "running"
    BY <1>1, <2>3 DEF Reported, Aged
  <2>4. OwnEnd'
    BY <2>1, <2>3 DEF OwnEnd, Reported, Code, KilledBy
  <2> QED BY <2>1, <2>2, <2>3, <2>4 DEF Reported
<1>2. ASSUME NEW p \in Member, NEW how, End(p, how) PROVE Reported'
  BY <1>2, <1>1 DEF End, os
<1>3. ASSUME NEW p \in Member, Write(p) PROVE Reported'
  BY <1>3, <1>1 DEF Write
<1>4. ASSUME NEW p \in Member, NEW h, Fork(p, h) PROVE Reported'
  BY <1>4, <1>1 DEF Fork
<1>5. ASSUME NEW h, Escape(h) PROVE Reported'
  BY <1>5, <1>1 DEF Escape
<1>6. ASSUME NEW n \in 1..MaxWritten, Data(n) PROVE Reported'
  BY <1>6, <1>1 DEF Data, os
<1>7. CASE ParentExit \/ Exit \/ TimeoutFires \/ EscalationFires \/ UNCHANGED vars
  BY <1>7, <1>1 DEF ParentExit, Exit, TimeoutFires, EscalationFires, vars, os
<1>8. CASE StdinFails
  <2>1. CASE closeSeen /\ settled = "no"
    <3>1. /\ pipe' = 0 /\ writers = {} /\ status \in ExitCode \cup Signal
      BY <1>8, <2>1 DEF StdinFails, Events
    <3>2. /\ Finish(Code(status), KilledBy(status, "none"), truncated', stdinError')
          /\ UNCHANGED timedOut
      BY <1>8, <2>1, Zenon DEF StdinFails
    <3> QED BY <2>1, <3>1, <3>2, OwnFinish
  <2>2. CASE ~(closeSeen /\ settled = "no")
    BY <1>8, <2>2, <1>1 DEF StdinFails, Finish, os
  <2> QED BY <2>1, <2>2
<1>9. CASE StdinCloses
  <2>1. CASE closeSeen /\ settled = "no"
    <3>1. /\ pipe' = 0 /\ writers = {} /\ status \in ExitCode \cup Signal
      BY <1>9, <2>1 DEF StdinCloses, Events
    <3>2. /\ Finish(Code(status), KilledBy(status, "none"), truncated', stdinError')
          /\ UNCHANGED timedOut
      BY <1>9, <2>1, Zenon DEF StdinCloses, FinishAfterIo, capture
    <3> QED BY <2>1, <3>1, <3>2, OwnFinish
  <2>2. CASE ~(closeSeen /\ settled = "no")
    BY <1>9, <2>2, <1>1 DEF StdinCloses, FinishAfterIo, Finish, os
  <2> QED BY <2>1, <2>2
<1>10. CASE Close
  <2>1. CASE stdin # "open" /\ settled = "no"
    <3>1. /\ pipe' = 0 /\ writers = {} /\ status \in ExitCode \cup Signal
      BY <1>10, <2>1 DEF Close, Events
    <3>2. /\ Finish(Code(status), KilledBy(status, "none"), truncated', stdinError')
          /\ UNCHANGED timedOut
      BY <1>10, <2>1, Zenon DEF Close, FinishAfterIo, capture
    <3> QED BY <2>1, <3>1, <3>2, OwnFinish
  <2>2. CASE ~(stdin # "open" /\ settled = "no")
    BY <1>10, <2>2, <1>1 DEF Close, FinishAfterIo, Finish, os
  <2> QED BY <2>1, <2>2
<1>11. CASE SpawnError
  BY <1>11 DEF SpawnError, Reported, OwnEnd, EndExplained
<1>12. CASE ForcedFires
  <2>1. CASE settled = "no"
    BY <1>12, <2>1, ForcedFinish
  <2>2. CASE settled # "no"
    BY <1>12, <2>2 DEF ForcedFires, Timers
  <2> QED BY <2>1, <2>2
<1> QED BY <1>2, <1>3, <1>4, <1>5, <1>6, <1>7, <1>8, <1>9, <1>10, <1>11, <1>12
  DEF Next, Environment, Handler

LEMMA NoOrphansStep ==
  IInv /\ Living' /\ Timers' /\ Aged /\ [Next]_vars => NoOrphans'
<1> SUFFICES ASSUME Living, Timers, Events, NoOrphans, Living', Timers', Aged,
                    [Next]_vars
             PROVE  NoOrphans'
  BY DEF IInv
<1>1. settled # "no" => settled = "resolved" \/ Group = {}
  BY DEF Timers, Living, Group
<1>2. ASSUME settled = "no", parent' = "exited" \/ settled' = "resolved",
             parent = "up"
      PROVE  Group' = {}
  <2>1. CASE ParentExit
    BY <1>2, <2>1, GroupKilled DEF ParentExit
  <2>2. ASSUME NEW exit, NEW signal, NEW trunc, NEW fail,
               Finish(exit, signal, trunc, fail), UNCHANGED <<spawned, escaped>>
        PROVE  Group' = {}
    BY <1>2, <2>2, FinishFacts
  <2>3. CASE StdinFails \/ StdinCloses \/ Close \/ ForcedFires
    <3>1. UNCHANGED <<spawned, escaped, parent>>
      BY <2>3 DEF StdinFails, StdinCloses, Close, ForcedFires, os
    <3>2. settled' = "resolved"
      BY <1>2, <3>1
    <3>3. \/ Finish(Code(status), KilledBy(status, "none"), truncated, stdinError)
          \/ Finish(Code(status), KilledBy(status, "none"), truncated', TRUE)
          \/ Finish(Code(seen), KilledBy(seen, issued), truncated, stdinError)
      BY <2>3, <1>2, <3>2 DEF StdinFails, StdinCloses, Close, ForcedFires,
                              FinishAfterIo, outcome
    <3> QED BY <3>1, <3>3, <2>2
  <2>4. ASSUME UNCHANGED <<parent, settled>> PROVE FALSE
    BY <1>2, <2>4
  <2>5. CASE \/ \E p \in Member, how \in ExitCode \cup Signal : End(p, how)
             \/ \E p \in Member : Write(p)
             \/ \E p \in Member, h \in Heir : Fork(p, h)
             \/ \E h \in Heir : Escape(h)
    BY <2>4, <2>5 DEF End, Write, Fork, Escape, os, outcome
  <2>6. CASE \/ \E n \in 1..MaxWritten : Data(n)
             \/ Exit \/ TimeoutFires \/ EscalationFires \/ UNCHANGED vars
    BY <2>4, <2>6 DEF Data, Exit, TimeoutFires, EscalationFires, vars, os, outcome
  <2>7. CASE SpawnError
    BY <1>2, <2>7 DEF SpawnError, os
  <2> QED BY <2>1, <2>3, <2>5, <2>6, <2>7 DEF Next, Environment, Handler
<1>3. CASE settled # "no" \/ parent = "exited"
  BY <1>1, <1>3 DEF NoOrphans, Aged
<1>4. CASE settled = "no" /\ parent = "up"
  BY <1>2, <1>4 DEF NoOrphans
<1> QED BY <1>3, <1>4 DEF Events

-----------------------------------------------------------------------------
LEMMA NextInv == IInv /\ [Next]_vars => IInv'
<1> SUFFICES ASSUME IInv, [Next]_vars PROVE IInv'
  OBVIOUS
<1>1. Living' /\ Aged
  BY LivingStep DEF IInv
<1>2. Switches'
  BY SwitchesStep DEF IInv
<1>3. Counts' /\ TruncationReported'
  BY CountsStep DEF IInv
<1>4. Events'
  BY <1>1, EventsStep DEF IInv
<1>5. Timers' /\ Bounded'
  BY TimersStep DEF IInv
<1>6. Reported'
  BY <1>1, <1>2, <1>3, <1>5, ReportedStep
<1>7. NoOrphans'
  BY <1>1, <1>5, NoOrphansStep
<1> QED BY <1>1, <1>2, <1>3, <1>4, <1>5, <1>6, <1>7 DEF IInv

\* The invariant is inductive.
THEOREM RunnerInvariant == Spec => []IInv
BY InitInv, NextInv, PTL DEF Spec

\* However the run ends, no process of the child's group survives it: for any
\* number of descendants, any output limit and any order of events.
THEOREM NobodyIsLeft == Spec => []NoOrphans
<1>1. IInv => NoOrphans
  BY DEF IInv
<1> QED BY <1>1, RunnerInvariant, PTL

\* What a result says of the child's end, its output and what was dropped is
\* true.
THEOREM ResultsAreTrue == Spec => []TruthfulResult
<1>1. ASSUME IInv PROVE TruthfulResult
  <2>1. kills \in 0..4
    BY <1>1 DEF IInv, Bounded
  <2>2. result \in Result /\ OwnEnd /\ EndExplained /\ TruncationReported
    BY <1>1 DEF IInv, Reported
  <2>3. TypeOK
    BY <1>1, <2>1, <2>2, Zenon DEF IInv, TypeOK, Living, Switches, Counts, Events,
                                  Timers, Result
  <2> QED BY <2>2, <2>3 DEF TruthfulResult
<1> QED BY <1>1, RunnerInvariant, PTL

\* Once settled, nothing changes any more: no second result, no timer, and no
\* signal to a group id that may have been given to somebody else.
THEOREM OnlyOneSettlement == Spec => SettlesOnce
<1>1. ASSUME IInv, IInv', [Next]_vars
      PROVE  [settled # "no" => UNCHANGED <<settled, result, kills>> /\ armed' = {}]_vars
  <2> SUFFICES ASSUME settled # "no" PROVE UNCHANGED <<settled, result, kills>>
                                           /\ armed' = {}
    OBVIOUS
  <2>1. armed = {}
    BY <1>1 DEF IInv, Timers
  <2>2. ASSUME NEW exit, NEW signal, NEW trunc, NEW fail,
               Finish(exit, signal, trunc, fail)
        PROVE  UNCHANGED <<outcome, armed, kills>>
    BY <2>2 DEF Finish
  <2>3. UNCHANGED <<outcome, kills>>
    <3>1. CASE Environment
      BY <3>1 DEF Environment, End, Write, Fork, Escape, ParentExit
    <3>2. CASE StdinFails \/ StdinCloses \/ Close \/ ForcedFires
      BY <3>2, <2>1, <2>2 DEF StdinFails, StdinCloses, Close, ForcedFires,
                               FinishAfterIo, Terminate
    <3>3. CASE \/ \E n \in 1..MaxWritten : Data(n)
               \/ Exit \/ SpawnError \/ TimeoutFires \/ EscalationFires
               \/ UNCHANGED vars
      BY <3>3, <2>1 DEF Data, Exit, SpawnError, TimeoutFires, EscalationFires,
                         Terminate, vars
    <3> QED BY <1>1, <3>1, <3>2, <3>3 DEF Next, Handler
  <2>4. settled' # "no" => armed' = {}
    BY <1>1 DEF IInv, Timers
  <2> QED BY <2>3, <2>4 DEF outcome
<1> QED BY <1>1, RunnerInvariant, PTL DEF Spec, SettlesOnce
=============================================================================
