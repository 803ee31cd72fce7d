--------------------------- MODULE Session_proofs ---------------------------
(***************************************************************************)
(* Every behaviour of the commands, their launchers and everybody else is  *)
(* a behaviour of the engine: what is proved of Lifecycle holds whatever   *)
(* the commands around it do.  On top of that:                             *)
(* - launchers (LaunchInv): what arrived is sent or pending while the      *)
(*   child lives, and a launcher that stopped waiting has its status;      *)
(* - what commands tell (SessionInv): nothing of a rewrite leaves a trace  *)
(*   before the consent, and nothing changes the outputs after it; whoever *)
(*   records a partial commit is on its way to return it.                  *)
(***************************************************************************)
EXTENDS Session, Records_proofs, FiniteSetTheorems

USE DEF disk, loop, choice, rest, budget, faultVars, Goto, NoFault

\* A step of a session is a step of the engine or leaves it alone.
LEMMA CommandSteps ==
  ASSUME NEW p \in Proc, Command(p)
  PROVE  [Next]_vars
<1>1. CASE Engine(p)
  BY <1>1 DEF Engine, Next
<1>2. CASE Killed(p)
  BY <1>2 DEF Killed, Next
<1>3. CASE PlanFails(p) \/ Decide(p) \/ Publish(p) \/ Prepared(p) \/ Format(p)
  BY <1>3 DEF PlanFails, Decide, Publish, Prepared, Format, At
<1>4. CASE Inspect(p) \/ Measure(p) \/ Ask(p) \/ Loaded(p)
  BY <1>4 DEF Inspect, Measure, Ask, Loaded, At
<1>5. CASE UndoReturned(p) \/ Returned(p) \/ VerifyFile(p) \/ Report(p)
  BY <1>5 DEF UndoReturned, Returned, VerifyFile, Report, At
<1>. QED
  BY <1>1, <1>2, <1>3, <1>4, <1>5 DEF Command

\* A session implements the engine: commands, prompts, formatters, launchers
\* and signals add no step to it (runEditPlan and runUndo touch the repository
\* through the transaction engine only).
THEOREM SessionImplementsLifecycle == SessionSpec => Spec
<1>1. SessionInit => Init
  BY DEF SessionInit
<1>2. [SessionNext]_sessionVars => [Next]_vars
  <2>. SUFFICES ASSUME [SessionNext]_sessionVars PROVE [Next]_vars
    OBVIOUS
  <2>1. CASE \E p \in Proc : Command(p)
    BY <2>1, CommandSteps
  <2>2. CASE \E j \in Launched : Launching(j)
    BY <2>2 DEF Launching
  <2>3. CASE Edited
    BY <2>3 DEF Edited, Next
  <2>4. CASE UNCHANGED sessionVars
    BY <2>4 DEF sessionVars
  <2>. QED
    BY <2>1, <2>2, <2>3, <2>4 DEF SessionNext
<1>. QED
  BY <1>1, <1>2, PTL DEF SessionSpec, Spec

\* Whatever signal ends whatever command at whatever moment, a file that holds
\* a transaction's output has its before image.
THEOREM InterruptedKeepsImages == SessionSpec => []BeforeImageKept
  BY SessionImplementsLifecycle, ImagesAreKept, PTL

-----------------------------------------------------------------------------
(* The launchers *)
Values(s) == {s[i] : i \in DOMAIN s}

LEMMA AppendValues ==
  ASSUME NEW S, NEW s \in Seq(S), NEW e \in S
  PROVE  /\ Append(s, e) \in Seq(S)
         /\ Values(Append(s, e)) = Values(s) \cup {e}
         /\ Len(Append(s, e)) = Len(s) + 1
<1>1. /\ Append(s, e) \in Seq(S) /\ Len(Append(s, e)) = Len(s) + 1
      /\ \A i \in 1..Len(s) : Append(s, e)[i] = s[i]
      /\ Append(s, e)[Len(s) + 1] = e
  OBVIOUS
<1>2. /\ DOMAIN s = 1..Len(s) /\ Len(s) \in Nat
      /\ DOMAIN Append(s, e) = 1..(Len(s) + 1)
  BY <1>1
<1>3. 1..(Len(s) + 1) = (1..Len(s)) \cup {Len(s) + 1}
  BY <1>2
<1>. QED
  BY <1>1, <1>2, <1>3 DEF Values

LEMMA TailValues ==
  ASSUME NEW S, NEW s \in Seq(S), s # <<>>
  PROVE  /\ Head(s) \in S /\ Tail(s) \in Seq(S)
         /\ Values(s) = Values(Tail(s)) \cup {Head(s)}
         /\ Len(s) = Len(Tail(s)) + 1
<1>1. /\ Len(s) \in Nat \ {0} /\ DOMAIN s = 1..Len(s)
      /\ Tail(s) \in Seq(S) /\ Head(s) = s[1] /\ s[1] \in S
      /\ Len(Tail(s)) = Len(s) - 1
      /\ \A i \in 1..(Len(s) - 1) : Tail(s)[i] = s[i + 1]
  OBVIOUS
<1>2. DOMAIN Tail(s) = 1..(Len(s) - 1)
  BY <1>1
<1>3. \A i \in 2..Len(s) : i - 1 \in 1..(Len(s) - 1) /\ Tail(s)[i - 1] = s[i]
  BY <1>1
<1>4. \A i \in 1..(Len(s) - 1) : i + 1 \in 1..Len(s)
  BY <1>1
<1>5. 1..Len(s) = {1} \cup 2..Len(s)
  BY <1>1
<1>6. ASSUME NEW x \in Values(Tail(s)) PROVE x \in Values(s)
  <2>1. PICK i \in 1..(Len(s) - 1) : x = Tail(s)[i]
    BY <1>2 DEF Values
  <2>2. x = s[i + 1] /\ i + 1 \in DOMAIN s
    BY <1>1, <1>4, <2>1
  <2>. QED
    BY <2>2 DEF Values
<1>7. ASSUME NEW x \in Values(s) PROVE x \in Values(Tail(s)) \cup {Head(s)}
  <2>1. PICK i \in 1..Len(s) : x = s[i]
    BY <1>1 DEF Values
  <2>2. CASE i = 1
    BY <1>1, <2>1, <2>2
  <2>3. CASE i \in 2..Len(s)
    <3>1. i - 1 \in DOMAIN Tail(s) /\ x = Tail(s)[i - 1]
      BY <1>2, <1>3, <2>1, <2>3
    <3>. QED
      BY <3>1 DEF Values
  <2>. QED
    BY <1>5, <2>1, <2>2, <2>3
<1>8. Head(s) \in Values(s)
  BY <1>1 DEF Values
<1>. QED
  BY <1>1, <1>6, <1>7, <1>8

Status == Ended \cup {"unborn", "running"}

LaunchType ==
  /\ proc \in [Proc -> Status]
  /\ lpc \in [Launched -> LauncherLabel]
  /\ handled \in [Launched -> SUBSET Signal]
  /\ arrived \in [Launched -> SUBSET Signal]
  /\ pending \in [Launched -> Seq(Signal)]
  /\ sent \in [Launched -> Seq(Signal)]
  /\ result \in [Launched -> Ended \cup {"none"}]

LEMMA EndedApart == "unborn" \notin Ended /\ "running" \notin Ended
  BY SessionConstants DEF Ended, Code

\* What the launcher has done so far, at each of its labels: until the child
\* is there it has installed every handler, what arrived is sent or pending
\* while the child lives, and it stops waiting only when the child has ended.
Relaying(j) ==
  /\ lpc[j] \in {"hook", "start"} => proc[j] = "unborn"
  /\ lpc[j] \in {"assign", "relay", "wait"} => proc[j] # "unborn"
  /\ lpc[j] \in {"start", "assign", "relay", "wait"} => handled[j] = Signal
  /\ lpc[j] = "wait" => pending[j] = <<>>
  /\ Values(sent[j]) \cup Values(pending[j]) \subseteq arrived[j]
  /\ lpc[j] \in {"restore", "exit"} /\ proc[j] # "unborn" =>
       proc[j] \in Ended /\ result[j] = proc[j]
  /\ lpc[j] = "gone" /\ proc[j] # "unborn" =>
       /\ proc[j] \in Ended
       /\ \/ result[j] = PassOn(proc[j])
          \/ result[j] \in arrived[j] \ Values(sent[j])

Accounted(j) ==
  /\ IsFiniteSet(arrived[j])
  /\ /\ lpc[j] \in {"hook", "start", "assign", "relay", "wait"}
     /\ proc[j] \in {"unborn", "running"}
     => /\ Values(sent[j]) \cup Values(pending[j]) = arrived[j]
        /\ Len(sent[j]) + Len(pending[j]) = Cardinality(arrived[j])

LaunchInv ==
  /\ LaunchType
  /\ \A j \in Launched : Relaying(j) /\ Accounted(j)

\* A command changes nothing of a launcher, and of the process table only its
\* own entry, once: from running to how it ended.
LEMMA CommandEnds ==
  ASSUME LaunchType, NEW p \in Proc, Command(p)
  PROVE  /\ UNCHANGED launchVars
         /\ proc[p] = "running"
         /\ \E s \in Ended \cup {"running"} : proc' = [proc EXCEPT ![p] = s]
<1>0. /\ {"exit0", "exit1", "exit2", "exit3"} \subseteq Ended
      /\ "killed" \in Ended
      /\ \A i \in DOMAIN sent[p] : p \in Launched => sent[p][i] \in Ended
      /\ proc[p] = "running" => proc = [proc EXCEPT ![p] = "running"]
  BY DEF LaunchType, Ended, Code
<1>1. CASE Engine(p)
  BY <1>0, <1>1 DEF Engine
<1>2. CASE Killed(p)
  BY <1>0, <1>2 DEF Killed
<1>3. CASE PlanFails(p) \/ Decide(p) \/ Publish(p) \/ Prepared(p)
  BY <1>0, <1>3 DEF PlanFails, Decide, Publish, Prepared, At, To, End
<1>4. CASE Format(p) \/ Inspect(p) \/ Measure(p) \/ Ask(p) \/ Loaded(p)
  BY <1>0, <1>4 DEF Format, Inspect, Measure, Ask, Loaded, At, To, End
<1>5. CASE UndoReturned(p) \/ Returned(p)
  BY <1>0, <1>5 DEF UndoReturned, Returned, At, To, End
<1>6. CASE VerifyFile(p) \/ Report(p)
  BY <1>0, <1>6 DEF VerifyFile, Report, At, End
<1>. QED
  BY <1>1, <1>2, <1>3, <1>4, <1>5, <1>6 DEF Command

LEMMA LaunchTypeStep ==
  ASSUME LaunchType, NEW j \in Launched, Launch(j)
  PROVE  LaunchType'
<1>0. /\ {"start", "hook", "assign", "restore", "relay", "wait", "exit",
          "gone"} \subseteq LauncherLabel
      /\ "exit2" \in Ended /\ "exit1" \in Ended
      /\ Signal \subseteq Ended
      /\ j \in Proc
  BY SessionConstants DEF LauncherLabel, Ended, Code
<1>1. CASE Hook(j)
  BY <1>0, <1>1 DEF Hook, LaunchType, LaunchGoto
<1>2. CASE Start(j) \/ Assign(j)
  <2>1. /\ lpc' \in [Launched -> LauncherLabel]
        /\ result' \in [Launched -> Ended \cup {"none"}]
    BY <1>0, <1>2 DEF Start, Assign, LaunchType, LaunchGoto
  <2>2. proc' \in {proc, [proc EXCEPT ![j] = "running"]}
    BY <1>2 DEF Start, Assign
  <2>3. proc' \in [Proc -> Status]
    BY <1>0, <2>2 DEF LaunchType, Status
  <2>4. UNCHANGED <<handled, pending, sent, arrived>>
    BY <1>2 DEF Start, Assign
  <2>. QED
    BY <2>1, <2>3, <2>4 DEF LaunchType
<1>3. CASE Relay(j)
  <2>1. CASE pending[j] = <<>>
    BY <1>0, <1>3, <2>1 DEF Relay, LaunchType, LaunchGoto
  <2>2. CASE pending[j] # <<>>
    <3>1. Head(pending[j]) \in Signal /\ Tail(pending[j]) \in Seq(Signal)
      BY <2>2, TailValues DEF LaunchType
    <3>2. sent' \in [Launched -> Seq(Signal)]
      <4>1. Append(sent[j], Head(pending[j])) \in Seq(Signal)
        BY <3>1, AppendValues DEF LaunchType
      <4>. QED
        BY <1>3, <2>2, <4>1 DEF Relay, SendTo, LaunchType
    <3>. QED
      BY <1>0, <1>3, <2>2, <3>1, <3>2 DEF Relay, LaunchType, LaunchGoto
  <2>. QED
    BY <2>1, <2>2
<1>4. CASE Reap(j)
  BY <1>0, <1>4 DEF Reap, LaunchType, LaunchGoto
<1>5. CASE Restore(j)
  BY <1>0, <1>5 DEF Restore, LaunchType, LaunchGoto
<1>6. CASE Exit(j)
  <2>1. PassOn(result[j]) \in Ended \cup {"none"}
    BY <1>0 DEF LaunchType, PassOn
  <2>. QED
    BY <1>0, <1>6, <2>1 DEF Exit, LaunchType, LaunchGoto
<1>7. ASSUME NEW s \in Signal, Arrive(j, s) PROVE LaunchType'
  <2>1. Append(sent[j], s) \in Seq(Signal) /\ Append(pending[j], s) \in Seq(Signal)
    BY AppendValues DEF LaunchType
  <2>2. sent' \in [Launched -> Seq(Signal)] /\ pending' \in [Launched -> Seq(Signal)]
    BY <1>7, <2>1 DEF Arrive, SendTo, LaunchType
  <2>. QED
    BY <1>0, <1>7, <2>2 DEF Arrive, LaunchType
<1>. QED
  BY <1>1, <1>2, <1>3, <1>4, <1>5, <1>6, <1>7 DEF Launch

\* A step of one launcher leaves the others and their children alone.
LEMMA LaunchersApart ==
  ASSUME LaunchType, NEW j \in Launched, Launch(j),
         NEW k \in Launched, k # j
  PROVE  /\ proc'[k] = proc[k] /\ lpc'[k] = lpc[k] /\ handled'[k] = handled[k]
         /\ arrived'[k] = arrived[k] /\ pending'[k] = pending[k]
         /\ sent'[k] = sent[k] /\ result'[k] = result[k]
<1>1. CASE Hook(j) \/ Start(j) \/ Assign(j) \/ Relay(j)
  BY <1>1, SessionConstants
     DEF Hook, Start, Assign, Relay, SendTo, LaunchType, LaunchGoto
<1>2. CASE Reap(j) \/ Restore(j) \/ Exit(j)
  BY <1>2 DEF Reap, Restore, Exit, LaunchType, LaunchGoto
<1>3. CASE \E s \in Signal : Arrive(j, s)
  BY <1>3 DEF Arrive, SendTo, LaunchType
<1>. QED
  BY <1>1, <1>2, <1>3 DEF Launch

\* What a step of a launcher does to what it holds of itself.
LEMMA RelayingStep ==
  ASSUME LaunchType, NEW j \in Launched, Launch(j), Relaying(j)
  PROVE  Relaying(j)'
<1>0. /\ j \in Proc /\ proc[j] \in Status
      /\ sent[j] \in Seq(Signal) /\ pending[j] \in Seq(Signal)
      /\ handled[j] \subseteq Signal /\ arrived[j] \subseteq Signal
  BY SessionConstants DEF LaunchType
<1>1. CASE Hook(j)
  BY <1>0, <1>1 DEF Hook, LaunchType, LaunchGoto, Relaying, Values
<1>2. CASE Start(j)
  BY <1>0, <1>2, EndedApart DEF Start, LaunchType, LaunchGoto, Relaying, Values
<1>3. CASE Assign(j)
  BY <1>0, <1>3 DEF Assign, LaunchType, LaunchGoto, Relaying, Values
<1>4. CASE Reap(j)
  BY <1>0, <1>4 DEF Reap, LaunchType, LaunchGoto, Relaying, Values
<1>5. CASE Restore(j)
  BY <1>0, <1>5 DEF Restore, LaunchType, LaunchGoto, Relaying, Values
<1>6. CASE Exit(j)
  BY <1>0, <1>6 DEF Exit, LaunchType, LaunchGoto, Relaying, Values
<1>7. CASE Relay(j) /\ pending[j] = <<>>
  BY <1>0, <1>7 DEF Relay, LaunchType, LaunchGoto, Relaying, Values
<1>8. CASE Relay(j) /\ pending[j] # <<>>
  <2>1. /\ Values(pending[j]) = Values(Tail(pending[j])) \cup {Head(pending[j])}
        /\ Head(pending[j]) \in Signal
    BY <1>0, <1>8, TailValues
  <2>2. Values(Append(sent[j], Head(pending[j]))) =
          Values(sent[j]) \cup {Head(pending[j])}
    BY <1>0, <2>1, AppendValues
  <2>3. pending'[j] = Tail(pending[j])
    BY <1>8 DEF Relay, LaunchType
  <2>4. sent'[j] \in {sent[j], Append(sent[j], Head(pending[j]))}
    BY <1>8 DEF Relay, SendTo, LaunchType
  <2>5. Values(sent'[j]) \cup Values(pending'[j]) \subseteq arrived[j]
    BY <2>1, <2>2, <2>3, <2>4 DEF Relaying
  <2>6. /\ lpc[j] = "relay" /\ lpc'[j] = "relay" /\ proc' = proc
        /\ handled' = handled /\ arrived' = arrived
    BY <1>8 DEF Relay, LaunchGoto, LaunchType
  <2>. QED
    BY <2>5, <2>6 DEF Relaying
<1>9. ASSUME NEW s \in Signal, Arrive(j, s) PROVE Relaying(j)'
  <2>1. /\ proc' = proc /\ handled' = handled
        /\ arrived'[j] = arrived[j] \cup {s}
        /\ s \notin arrived[j] /\ lpc[j] # "gone" /\ lpc[j] \in LauncherLabel
    BY <1>9 DEF Arrive, LaunchType
  <2>2. Values(Append(sent[j], s)) = Values(sent[j]) \cup {s}
        /\ Values(Append(pending[j], s)) = Values(pending[j]) \cup {s}
    BY <1>0, AppendValues
  <2>3. CASE s \notin handled[j]
    <3>1. /\ lpc'[j] = "gone" /\ result'[j] = s /\ pending' = pending
          /\ sent' = sent
      BY <1>9, <2>3 DEF Arrive, LaunchType
    <3>2. proc[j] # "unborn" => proc[j] \in Ended
      BY <1>0, <2>1, <2>3 DEF Relaying, LauncherLabel
    <3>. QED
      BY <2>1, <3>1, <3>2 DEF Relaying
  <2>4. CASE s \in handled[j] /\ ChildIsNone(j)
    <3>1. /\ pending'[j] = Append(pending[j], s)
          /\ lpc' = lpc /\ sent' = sent /\ result' = result
      BY <1>9, <2>4 DEF Arrive, LaunchType
    <3>. QED
      BY <2>1, <2>2, <2>4, <3>1 DEF Relaying, ChildIsNone
  <2>5. CASE s \in handled[j] /\ ~ChildIsNone(j)
    <3>1. /\ lpc' = lpc /\ pending' = pending /\ result' = result
          /\ sent'[j] \in {sent[j], Append(sent[j], s)}
      BY <1>9, <2>5 DEF Arrive, SendTo, LaunchType
    <3>. QED
      BY <2>1, <2>2, <2>5, <3>1 DEF Relaying
  <2>. QED
    BY <2>3, <2>4, <2>5
<1>. QED
  BY <1>1, <1>2, <1>3, <1>4, <1>5, <1>6, <1>7, <1>8, <1>9 DEF Launch

\* Every signal that arrives is appended to what was sent or to what is
\* pending, once; the loop moves them from one to the other.
LEMMA AccountedStep ==
  ASSUME LaunchType, NEW j \in Launched, Launch(j), Relaying(j), Accounted(j)
  PROVE  Accounted(j)'
<1> DEFINE Starting == {"hook", "start", "assign", "relay", "wait"}
<1>0. /\ j \in Proc /\ proc[j] \in Status
      /\ sent[j] \in Seq(Signal) /\ pending[j] \in Seq(Signal)
      /\ Len(sent[j]) \in Nat /\ Len(pending[j]) \in Nat
  BY SessionConstants DEF LaunchType
<1>1. CASE Hook(j) \/ Start(j) \/ Assign(j)
  <2>1. /\ lpc[j] \in Starting /\ sent' = sent /\ pending' = pending
        /\ arrived' = arrived
        /\ lpc[j] # "assign" => proc[j] = "unborn"
        /\ lpc[j] = "assign" => proc' = proc
    BY <1>1 DEF Hook, Start, Assign, LaunchGoto, Relaying
  <2>. QED
    BY <2>1 DEF Accounted
<1>2. CASE Reap(j) \/ Restore(j) \/ Exit(j)
  <2>1. lpc'[j] \notin Starting /\ arrived' = arrived
    BY <1>2 DEF Reap, Restore, Exit, LaunchGoto, LaunchType
  <2>. QED
    BY <2>1 DEF Accounted
<1>3. CASE Relay(j)
  <2>1. /\ lpc[j] = "relay" /\ lpc'[j] \in Starting /\ proc' = proc
        /\ arrived' = arrived /\ proc[j] # "unborn"
    BY <1>3 DEF Relay, LaunchGoto, LaunchType, Relaying
  <2>2. CASE pending[j] = <<>>
    BY <1>3, <2>1, <2>2 DEF Relay, Accounted
  <2>3. CASE pending[j] # <<>> /\ proc[j] = "running"
    <3>1. /\ Head(pending[j]) \in Signal /\ Tail(pending[j]) \in Seq(Signal)
          /\ Values(pending[j]) = Values(Tail(pending[j])) \cup {Head(pending[j])}
          /\ Len(pending[j]) = Len(Tail(pending[j])) + 1
      BY <1>0, <2>3, TailValues
    <3>2. /\ Values(Append(sent[j], Head(pending[j]))) =
               Values(sent[j]) \cup {Head(pending[j])}
          /\ Len(Append(sent[j], Head(pending[j]))) = Len(sent[j]) + 1
      BY <1>0, <3>1, AppendValues
    <3>3. /\ pending'[j] = Tail(pending[j])
          /\ sent'[j] = Append(sent[j], Head(pending[j]))
      BY <1>3, <2>3 DEF Relay, SendTo, LaunchType
    <3>4. Values(sent'[j]) \cup Values(pending'[j]) =
            Values(sent[j]) \cup Values(pending[j])
      BY <3>1, <3>2, <3>3
    <3>5. Len(sent'[j]) + Len(pending'[j]) = Len(sent[j]) + Len(pending[j])
      <4>1. Len(Tail(pending[j])) \in Nat
        BY <3>1
      <4>2. \A a, b \in Nat : (a + 1) + b = a + (b + 1)
        OBVIOUS
      <4>3. /\ Len(sent'[j]) = Len(sent[j]) + 1
            /\ Len(pending'[j]) = Len(Tail(pending[j]))
        BY <3>2, <3>3
      <4>4. (Len(sent[j]) + 1) + Len(Tail(pending[j])) =
              Len(sent[j]) + (Len(Tail(pending[j])) + 1)
        BY <1>0, <4>1, <4>2
      <4>. QED
        BY <3>1, <4>3, <4>4, Zenon
    <3>. QED
      BY <2>1, <2>3, <3>4, <3>5 DEF Accounted
  <2>4. CASE pending[j] # <<>> /\ proc[j] # "running"
    BY <2>1, <2>4 DEF Accounted
  <2>. QED
    BY <2>2, <2>3, <2>4
<1>4. ASSUME NEW s \in Signal, Arrive(j, s) PROVE Accounted(j)'
  <2>1. /\ proc' = proc /\ arrived'[j] = arrived[j] \cup {s}
        /\ s \notin arrived[j]
    BY <1>4 DEF Arrive, LaunchType
  <2>2. /\ IsFiniteSet(arrived'[j])
        /\ Cardinality(arrived'[j]) = Cardinality(arrived[j]) + 1
    BY <2>1, FS_AddElement DEF Accounted
  <2>3. /\ Values(Append(sent[j], s)) = Values(sent[j]) \cup {s}
        /\ Values(Append(pending[j], s)) = Values(pending[j]) \cup {s}
        /\ Len(Append(sent[j], s)) = Len(sent[j]) + 1
        /\ Len(Append(pending[j], s)) = Len(pending[j]) + 1
    BY <1>0, AppendValues
  <2>4. CASE lpc'[j] \in Starting /\ proc[j] \in {"unborn", "running"}
    <3>1. /\ lpc' = lpc
          /\ \/ pending'[j] = Append(pending[j], s) /\ sent'[j] = sent[j]
             \/ pending'[j] = pending[j] /\ sent'[j] = Append(sent[j], s)
      BY <1>4, <2>4 DEF Arrive, SendTo, ChildIsNone, LaunchType
    <3>2. /\ Values(sent[j]) \cup Values(pending[j]) = arrived[j]
          /\ Len(sent[j]) + Len(pending[j]) = Cardinality(arrived[j])
      BY <2>4, <3>1 DEF Accounted
    <3>3. Values(sent'[j]) \cup Values(pending'[j]) = arrived'[j]
      BY <2>1, <2>3, <3>1, <3>2
    <3>4. Len(sent'[j]) + Len(pending'[j]) = Cardinality(arrived'[j])
      <4>1. \A a, b \in Nat : (a + 1) + b = (a + b) + 1 /\ a + (b + 1) = (a + b) + 1
        OBVIOUS
      <4>2. /\ (Len(sent[j]) + 1) + Len(pending[j]) = (Len(sent[j]) + Len(pending[j])) + 1
            /\ Len(sent[j]) + (Len(pending[j]) + 1) = (Len(sent[j]) + Len(pending[j])) + 1
        BY <1>0, <4>1
      <4>3. \/ /\ Len(sent'[j]) = Len(sent[j]) + 1
               /\ Len(pending'[j]) = Len(pending[j])
            \/ /\ Len(sent'[j]) = Len(sent[j])
               /\ Len(pending'[j]) = Len(pending[j]) + 1
        BY <2>3, <3>1
      <4>. QED
        BY <2>2, <3>2, <4>2, <4>3, Zenon
    <3>. QED
      BY <2>2, <3>3, <3>4 DEF Accounted
  <2>. QED
    BY <2>1, <2>2, <2>4 DEF Accounted
<1>. QED
  BY <1>1, <1>2, <1>3, <1>4 DEF Launch

LEMMA LaunchStep == LaunchInv /\ [SessionNext]_sessionVars => LaunchInv'
<1>. SUFFICES ASSUME LaunchInv, [SessionNext]_sessionVars PROVE LaunchInv'
  OBVIOUS
<1>0. LaunchType
  BY DEF LaunchInv
<1>1. ASSUME NEW p \in Proc, Command(p) PROVE LaunchInv'
  <2>1. /\ UNCHANGED launchVars /\ proc[p] = "running"
        /\ \E s \in Ended \cup {"running"} : proc' = [proc EXCEPT ![p] = s]
    BY <1>0, <1>1, CommandEnds
  <2>2. LaunchType'
    BY <1>0, <2>1 DEF LaunchType, launchVars, Status
  <2>3. ASSUME NEW j \in Launched PROVE Relaying(j)' /\ Accounted(j)'
    <3>1. /\ j \in Proc /\ Relaying(j) /\ Accounted(j)
          /\ \/ proc'[j] = proc[j]
             \/ proc[j] = "running" /\ proc'[j] \in Ended
      BY <1>0, <2>1, SessionConstants DEF LaunchInv, LaunchType
    <3>. QED
      BY <2>1, <3>1, EndedApart DEF launchVars, Relaying, Accounted
  <2>. QED
    BY <2>2, <2>3 DEF LaunchInv
<1>2. ASSUME NEW j \in Launched, Launching(j) PROVE LaunchInv'
  <2>1. Launch(j) /\ LaunchType'
    BY <1>0, <1>2, LaunchTypeStep DEF Launching
  <2>2. ASSUME NEW k \in Launched PROVE Relaying(k)' /\ Accounted(k)'
    <3>0. Relaying(k) /\ Accounted(k)
      BY DEF LaunchInv
    <3>1. CASE k = j
      BY <1>0, <2>1, <3>0, <3>1, RelayingStep, AccountedStep
    <3>2. CASE k # j
      <4>1. /\ proc'[k] = proc[k] /\ lpc'[k] = lpc[k]
            /\ handled'[k] = handled[k] /\ arrived'[k] = arrived[k]
            /\ pending'[k] = pending[k] /\ sent'[k] = sent[k]
            /\ result'[k] = result[k]
        BY <1>0, <2>1, <3>2, LaunchersApart
      <4>. QED
        BY <3>0, <4>1 DEF Relaying, Accounted
    <3>. QED
      BY <3>1, <3>2
  <2>. QED
    BY <2>1, <2>2 DEF LaunchInv
<1>3. CASE Edited \/ UNCHANGED sessionVars
  <2>1. UNCHANGED <<launchVars, proc>>
    BY <1>3 DEF Edited, sessionVars
  <2>. QED
    BY <2>1 DEF launchVars, LaunchInv, LaunchType, Relaying, Accounted
<1>. QED
  BY <1>1, <1>2, <1>3 DEF SessionNext

LEMMA LaunchStart == SessionInit => LaunchInv
<1>. SUFFICES ASSUME SessionInit PROVE LaunchInv
  OBVIOUS
<1>0. LaunchInit /\ proc = [p \in Proc |-> IF p \in Launched THEN "unborn" ELSE "running"]
  BY DEF SessionInit
<1>1. LaunchType
  BY <1>0 DEF LaunchInit, LaunchType, Status, LauncherLabel
<1>2. IsFiniteSet({}) /\ Cardinality({}) = 0
  BY FS_EmptySet
<1>3. ASSUME NEW j \in Launched PROVE Relaying(j) /\ Accounted(j)
  <2>1. /\ lpc[j] = "hook" /\ proc[j] = "unborn" /\ sent[j] = <<>>
        /\ pending[j] = <<>> /\ arrived[j] = {}
    BY <1>0, SessionConstants DEF LaunchInit
  <2>2. Values(<<>>) = {} /\ Len(<<>>) = 0
    BY DEF Values
  <2>. QED
    BY <1>2, <2>1, <2>2 DEF Relaying, Accounted
<1>. QED
  BY <1>1, <1>3 DEF LaunchInv

LEMMA LaunchAlways == SessionSpec => []LaunchInv
  BY LaunchStart, LaunchStep, PTL DEF SessionSpec

\* The launcher passes on the exact status of the program it started, whatever
\* signals come when, if that program was not killed.
THEOREM StatusIsPassedOn == SessionSpec => []StatusPassedOn
<1>1. LaunchInv => StatusPassedOn
  BY DEF LaunchInv, Relaying, Values, StatusPassedOn, PassOn
<1>. QED
  BY <1>1, LaunchAlways, PTL

\* No signal is lost or sent on twice, whatever moment it comes at.
THEOREM SignalsRelayedOnce == SessionSpec => []EachRelayedOnce
<1>1. LaunchInv => EachRelayedOnce
  <2>. SUFFICES ASSUME LaunchInv, NEW j \in Launched,
                       lpc[j] = "wait", proc[j] = "running"
                PROVE  /\ Values(sent[j]) = arrived[j]
                       /\ Len(sent[j]) = Cardinality(arrived[j])
    BY DEF EachRelayedOnce, Values
  <2>1. /\ pending[j] = <<>>
        /\ Values(sent[j]) \cup Values(pending[j]) = arrived[j]
        /\ Len(sent[j]) + Len(pending[j]) = Cardinality(arrived[j])
        /\ sent[j] \in Seq(Signal)
    BY DEF LaunchInv, LaunchType, Relaying, Accounted
  <2>2. Values(<<>>) = {} /\ Len(<<>>) = 0
    BY DEF Values
  <2>3. Len(sent[j]) + 0 = Len(sent[j])
    BY <2>1
  <2>. QED
    BY <2>1, <2>2, <2>3, Zenon
<1>. QED
  BY <1>1, LaunchAlways, PTL

-----------------------------------------------------------------------------
(* The traces a transaction leaves. *)
\* Where an operation is while its command does something else.
Paused == {"snapshot", "prepare", "uload", "upreview", "done", "crashed"}

\* A file or a plan holds the output of t, it has a record, or an operation on
\* it is past its planning.
Traced(t) ==
  \/ \E f \in File : content[f] = t
  \/ \E u \in Txn, f \in File : before[u][f] = t
  \/ record[t] # "none"
  \/ \E q \in Proc : Kind[q] \in {"undo", "repair"} /\ Target[q] = t
                       /\ pc[q] \notin Idle
  \/ \E q \in Proc : Kind[q] = "commit" /\ Target[q] = t /\ pc[q] \notin Paused

\* The commit of t goes from its planning to the checks before the lock.
Sets(p, t) == /\ Kind[p] = "commit" /\ Target[p] = t
              /\ pc[p] \in Paused /\ pc'[p] \notin Paused

\* Nothing but its commit leaves a first trace of a transaction.
LEMMA TraceBegins ==
  ASSUME TypeOK, GateInv, NEW p \in Proc, Run(p) \/ Crash(p), NEW t \in Txn,
         Traced(t)'
  PROVE  Traced(t) \/ Sets(p, t)
<1>0. /\ Writes(p) /\ Plans(p) /\ Recorded(p)
      /\ Target[p] \in Txn
  BY StepEffect, StepRecorded, LocalTypes DEF Effect
<1>1. ASSUME NEW f \in File, content'[f] = t
      PROVE  Traced(t)
  <2>1. CASE content'[f] = content[f]
    BY <1>1, <2>1 DEF Traced
  <2>2. CASE content'[f] # content[f]
    <3>1. Acts(p)
      BY <2>2, GcWritesNothing DEF Acts
    <3>2. \/ content'[f] = Target[p] /\ pc[p] \in {"rename", "uunwind"}
          \/ content'[f] = before[Target[p]][f]
      BY <2>2, <3>1, WriteInGrip
    <3>3. Kind[p] \in {"commit", "undo", "repair"}
      BY <3>1, RepositoryConstants DEF Acts
    <3>. QED
      BY <1>0, <1>1, <3>2, <3>3 DEF Traced, Idle, Paused
  <2>. QED
    BY <2>1, <2>2
<1>2. ASSUME NEW u \in Txn, NEW f \in File, before'[u][f] = t
      PROVE  Traced(t)
  <2>1. before'[u][f] = before[u][f] \/ \E g \in File : before'[u][f] = content[g]
    <3>1. CASE before' = before
      BY <3>1
    <3>2. ASSUME NEW g \in File,
                 before' = [before EXCEPT ![Target[p]][g] = content[g]]
          PROVE  before'[u][f] \in {before[u][f], content[g]}
      BY <1>0, <3>2 DEF TypeOK
    <3>. QED
      BY <1>0, <3>1, <3>2 DEF Plans
  <2>. QED
    BY <1>2, <2>1 DEF Traced
<1>3. ASSUME record'[t] # "none"
      PROVE  Traced(t)
  <2>1. \/ record'[t] = record[t]
        \/ Target[p] = t /\ \E s : Concludes(p, s)
    BY <1>0, <1>3 DEF Recorded, TypeOK
  <2>. QED
    BY <1>3, <2>1 DEF Traced, Concludes, Idle, Paused
<1>4. ASSUME NEW q \in Proc, Kind[q] \in {"undo", "repair"}, Target[q] = t,
             pc'[q] \notin Idle
      PROVE  Traced(t)
  <2>1. pc[q] \notin Idle \/ record[t] # "none"
    BY <1>4, NothingToUndo, Others DEF Same, Idle
  <2>. QED
    BY <1>4, <2>1 DEF Traced
<1>5. ASSUME NEW q \in Proc, Kind[q] = "commit", Target[q] = t,
             pc'[q] \notin Paused
      PROVE  Traced(t) \/ Sets(p, t)
  <2>1. pc'[q] = pc[q] \/ q = p
    BY Others DEF Same
  <2>. QED
    BY <1>5, <2>1 DEF Traced, Sets
<1>. QED
  BY <1>1, <1>2, <1>3, <1>4, <1>5 DEF Traced

\* It leaves those labels when it has read every file of their loops.
LEMMA PausedStep ==
  ASSUME TypeOK, NEW p \in Proc, Kind[p] \in {"commit", "undo"},
         Run(p) \/ Crash(p), pc[p] \in Paused, pc'[p] \notin Paused
  PROVE  pc[p] \in {"prepare", "upreview"} /\ todo[p] = {}
<1> USE DEF Paused, Enter
<1>1. CASE Crash(p)
  BY <1>1 DEF Crash, TypeOK
<1>2. CASE Commit(p)
  <2>1. \/ Snapshot(p) \/ Prepare(p)
        \/ Advance(p, "prepare", "precheck", Inputs[Target[p]])
    BY <1>2 DEF Commit, Prepare, Precheck, Acquire, Recheck, Gate, StageBefore,
       StageAfter, RetainBefore, FinalGate, StartRenames, RenameOver,
       SyncRenames, VerifyOutputs, Validate, Reverify, Audit, Rollback,
       SyncRollback, VerifyRollback, RecordRollback, Cleanup, Catch, Unwind,
       SyncUnwind, RecordUnwind, Finish, Abort, ReleaseLock, CheckFile, Advance,
       Finished, TakeLock, Conclude, RestoreLast, Sync, UnlinkSibling, Throw
  <2>2. CASE Snapshot(p)
    BY <2>2 DEF Snapshot, TypeOK
  <2>3. CASE Prepare(p)
    BY <2>3 DEF Prepare, Advance, CheckFile, TypeOK
  <2>4. CASE Advance(p, "prepare", "precheck", Inputs[Target[p]])
    BY <2>4 DEF Advance, Finished
  <2>. QED
    BY <2>1, <2>2, <2>3, <2>4
<1>3. CASE Undo(p)
  <2>1. \/ LoadCommitted(p) \/ Preview(p) \/ Advance(p, "upreview", "lock", {})
    BY <1>3 DEF Undo, Preview, AcquireUndo, ReadImages, StageRestore, UndoGate,
       RestoreFile, SyncRestore, VerifyRestore, RecordUndone, CatchUndo,
       RollForward, JudgeUnwind, RecordPartial, CleanUndo, ReleaseLock,
       CheckFile, UndoableFile, Advance, Finished, TakeLock, Conclude,
       RestoreLast, Sync, UnlinkSibling, Throw
  <2>2. CASE LoadCommitted(p) \/ Preview(p)
    BY <2>2 DEF LoadCommitted, Preview, UndoableFile, TypeOK
  <2>3. CASE Advance(p, "upreview", "lock", {})
    BY <2>3 DEF Advance, Finished
  <2>. QED
    BY <2>1, <2>2, <2>3
<1>. QED
  BY <1>1, <1>2, <1>3 DEF Run, Repair, Gc

-----------------------------------------------------------------------------
(* Partial commits. *)
Reporting == {"cleanup", "finish", "uclean", "release", "done"}

\* Whoever records a partial commit is going to return it.
LEMMA PartialBegins ==
  ASSUME TypeOK, NEW p \in Proc, Kind[p] \in {"commit", "undo"},
         Run(p) \/ Crash(p), NEW t \in Txn,
         record'[t] = "partial-commit", record[t] # "partial-commit",
         "recordsync" \notin faulted'
  PROVE  /\ Target[p] = t
         /\ pc[p] \in {"rbpersist", "unwindpersist", "upartial"}
         /\ pc'[p] \in Reporting /\ outcome'[p] = "partial-commit"
<1>1. /\ Target[p] = t
      /\ pc[p] \in {"rbpersist", "unwindpersist", "upartial"}
  BY StepRecorded DEF Recorded, Concludes, TypeOK
<1>2. \/ RecordRollback(p) \/ RecordUnwind(p) \/ RecordPartial(p)
  <2>1. ~Crash(p)
    BY DEF Crash
  <2>2. CASE Commit(p)
    BY <1>1, <2>2 DEF Commit, Snapshot, Prepare, Precheck, Acquire, Recheck, Gate,
       StageBefore, StageAfter, RetainBefore, FinalGate, StartRenames, RenameOver,
       SyncRenames, VerifyOutputs, Validate, Reverify, Audit, Rollback,
       SyncRollback, VerifyRollback, Cleanup, Catch, Unwind,
       SyncUnwind, Finish, Abort, ReleaseLock, CheckFile, Advance,
       Finished, TakeLock, RestoreLast, Sync, UnlinkSibling, Throw
  <2>3. CASE Undo(p)
    BY <1>1, <2>3 DEF Undo, LoadCommitted, Preview, AcquireUndo, ReadImages,
       StageRestore, UndoGate, RestoreFile, SyncRestore, VerifyRestore,
       RecordUndone, CatchUndo, RollForward, JudgeUnwind, CleanUndo, ReleaseLock,
       CheckFile, UndoableFile, Advance, Finished, TakeLock, Conclude,
       RestoreLast, Sync, UnlinkSibling, Throw
  <2>. QED
    BY <2>1, <2>2, <2>3 DEF Run, Repair, Gc
<1>3. PICK s, to, l, b : to \in Reporting /\ Conclude(p, l, s, to, b)
  BY <1>2 DEF RecordRollback, RecordUnwind, RecordPartial, Reporting
<1>4. PersistRecord(t, s) /\ Enter(p, to, {}) /\ outcome' = [outcome EXCEPT ![p] = s]
  BY <1>1, <1>3 DEF Conclude, PersistFails, Fault, TypeOK
<1>5. s = "partial-commit"
  BY <1>4 DEF PersistRecord, TypeOK
<1>. QED
  BY <1>1, <1>3, <1>4, <1>5 DEF Enter, TypeOK

\* Nothing after that changes what it returns, unless an unlink fails.
LEMMA PartialReturns ==
  ASSUME TypeOK, NEW p \in Proc, Kind[p] \in {"commit", "undo"}, Run(p),
         pc[p] \in Reporting, outcome[p] = "partial-commit",
         "unlink" \notin faulted'
  PROVE  pc'[p] \in Reporting /\ outcome'[p] = "partial-commit"
<1>1. Cleanup(p) \/ Finish(p) \/ CleanUndo(p) \/ ReleaseLock(p)
  <2>1. CASE Commit(p)
    BY <2>1 DEF Reporting, Commit, Snapshot, Prepare, Precheck, Acquire, Recheck,
       Gate, StageBefore, StageAfter, RetainBefore, FinalGate, StartRenames,
       RenameOver, SyncRenames, VerifyOutputs, Validate, Reverify, Audit,
       Rollback, SyncRollback, VerifyRollback, RecordRollback, Catch, Unwind,
       SyncUnwind, RecordUnwind, Abort, CheckFile, Advance,
       Finished, TakeLock, RestoreLast, Sync, UnlinkSibling, Throw, Conclude
  <2>2. CASE Undo(p)
    BY <2>2 DEF Reporting, Undo, LoadCommitted, Preview, AcquireUndo, ReadImages,
       StageRestore, UndoGate, RestoreFile, SyncRestore, VerifyRestore,
       RecordUndone, CatchUndo, RollForward, JudgeUnwind, RecordPartial,
       CheckFile, UndoableFile, Advance, Finished, TakeLock, Conclude,
       RestoreLast, Sync
  <2>. QED
    BY <2>1, <2>2 DEF Run, Repair, Gc
<1> USE DEF Reporting, Enter, Fault, TypeOK
<1>2. CASE Cleanup(p) \/ Finish(p)
  BY <1>2 DEF Cleanup, Finish, UnlinkSibling, Advance
<1>3. CASE CleanUndo(p)
  BY <1>3 DEF CleanUndo, UnlinkSibling, Advance, Throw
<1>4. CASE ReleaseLock(p)
  BY <1>4 DEF ReleaseLock
<1>. QED
  BY <1>1, <1>2, <1>3, <1>4

-----------------------------------------------------------------------------
(* Commands. *)
Drafting == {"plan", "publish", "prepare", "format", "measure", "ask"}
Outcomes == {"none", "invalid", "provider-failure", "conflict", "no-op",
             "inspected", "failed", "previewed", "declined", "undone",
             "verification-failed", "partial-commit", "written"}
StageLabel == Drafting \cup {"load", "commit", "verify", "over"}

\* Everything of the commands that what they tell rests on.
CommandType ==
  /\ stage \in [Proc -> StageLabel]
  /\ output \in [Proc -> [File -> Nat]]
  /\ inspected \in [Proc -> SUBSET (File \X Nat)]
  /\ shown \in [Proc -> SUBSET (File \X Nat)]
  /\ consent \in [Proc -> BOOLEAN]
  /\ checks \in [Proc -> BOOLEAN]
  /\ report \in [Proc -> Outcomes]

LEMMA CommandTypeStep ==
  ASSUME CommandType, TypeOK', NEW p \in Proc, Command(p)
  PROVE  CommandType'
<1> USE DEF CommandType, StageLabel, Drafting, Outcomes
<1>1. CASE Engine(p)
  <2>1. passed'[p] \in BOOLEAN
    BY DEF TypeOK
  <2>2. checks' \in [Proc -> BOOLEAN]
    BY <1>1, <2>1 DEF Engine
  <2>. QED
    BY <1>1, <2>2 DEF Engine, draftVars
<1>2. CASE Killed(p)
  BY <1>2 DEF Killed, draftVars, finalVars
<1>3. CASE PlanFails(p) \/ Decide(p) \/ Publish(p) \/ Prepared(p)
  BY <1>3 DEF PlanFails, Decide, Publish, Prepared, At, To, End, draftVars,
     finalVars
<1>4. CASE Format(p)
  <2>1. PICK f : \/ output' = output
                 \/ /\ f \in Changed[Target[p]]
                    /\ output' = [output EXCEPT ![p][f] = @ + 1]
    BY <1>4 DEF Format
  <2>2. f \in Changed[Target[p]] => f \in File
    BY RepositoryConstants
  <2>3. f \in File => [output[p] EXCEPT ![f] = @ + 1] \in [File -> Nat]
    OBVIOUS
  <2>4. output' \in [Proc -> [File -> Nat]]
    BY <2>1, <2>2, <2>3
  <2>5. stage' \in [Proc -> StageLabel] /\ UNCHANGED <<inspected, shown, finalVars>>
    BY <1>4 DEF Format, To, End
  <2>. QED
    BY <1>4, <2>4, <2>5 DEF Format, To, End, finalVars
<1>5. CASE Inspect(p) \/ Measure(p)
  <2>1. Versions(p) \in SUBSET (File \X Nat)
    BY RepositoryConstants DEF Versions
  <2>2. /\ inspected' \in {inspected, [inspected EXCEPT ![p] = Parsed(p)]}
        /\ shown' \in {shown, [shown EXCEPT ![p] = Versions(p)]}
        /\ UNCHANGED <<output, finalVars>>
    BY <1>5 DEF Inspect, Measure
  <2>3. /\ inspected' \in [Proc -> SUBSET (File \X Nat)]
        /\ shown' \in [Proc -> SUBSET (File \X Nat)]
    <3> DEFINE Pairs == SUBSET (File \X Nat)
    <3>1. /\ Versions(p) \in Pairs /\ Parsed(p) \in Pairs
          /\ inspected \in [Proc -> Pairs] /\ shown \in [Proc -> Pairs]
      BY <2>1 DEF Parsed
    <3> HIDE DEF Pairs
    <3>2. inspected' \in [Proc -> Pairs] /\ shown' \in [Proc -> Pairs]
      BY <2>2, <3>1
    <3>. QED
      BY <3>2 DEF Pairs
  <2>4. stage' \in [Proc -> StageLabel]
    BY <1>5 DEF Inspect, Measure, To, End
  <2>5. report' \in {report, [report EXCEPT ![p] = "failed"],
                     [report EXCEPT ![p] = "invalid"]}
    BY <1>5 DEF Inspect, Measure, To, End
  <2>6. report' \in [Proc -> Outcomes]
    BY <2>5
  <2>7. output' = output /\ consent' = consent /\ checks' = checks
    BY <2>2 DEF finalVars
  <2>. QED
    BY <2>3, <2>4, <2>6, <2>7
<1>6. CASE Ask(p)
  BY <1>6 DEF Ask, At, To, End, draftVars
<1>7. CASE Loaded(p) \/ UndoReturned(p) \/ Report(p)
  BY <1>7 DEF Loaded, UndoReturned, Report, At, To, End, draftVars, finalVars
<1>8. CASE Returned(p)
  BY <1>8 DEF Returned, At, To, End, draftVars
<1>9. CASE VerifyFile(p)
  BY <1>9 DEF VerifyFile, At, draftVars
<1>. QED
  BY <1>1, <1>2, <1>3, <1>4, <1>5, <1>6, <1>7, <1>8, <1>9 DEF Command

\* A step leaves what the command of q has come to alone.
Keeps(q) == /\ stage'[q] = stage[q] /\ output'[q] = output[q]
            /\ inspected'[q] = inspected[q] /\ shown'[q] = shown[q]
            /\ consent'[q] = consent[q] /\ checks'[q] = checks[q]
            /\ report'[q] = report[q] /\ proc'[q] = proc[q]

LEMMA CommandsApart ==
  ASSUME CommandType, LaunchType, NEW p \in Proc, Command(p),
         NEW q \in Proc, q # p
  PROVE  Keeps(q)
<1> USE DEF CommandType, LaunchType, Keeps
<1>1. CASE Engine(p) \/ Killed(p)
  BY <1>1 DEF Engine, Killed, draftVars, finalVars
<1>2. CASE PlanFails(p) \/ Decide(p) \/ Publish(p) \/ Prepared(p)
  BY <1>2 DEF PlanFails, Decide, Publish, Prepared, At, To, End, draftVars,
     finalVars
<1>3. CASE Format(p) \/ Inspect(p) \/ Measure(p)
  BY <1>3 DEF Format, Inspect, Measure, At, To, End, finalVars
<1>4. CASE Ask(p) \/ Loaded(p) \/ UndoReturned(p) \/ Report(p)
  BY <1>4 DEF Ask, Loaded, UndoReturned, Report, At, To, End, draftVars, finalVars
<1>5. CASE Returned(p) \/ VerifyFile(p)
  BY <1>5 DEF Returned, VerifyFile, At, To, End, draftVars
<1>. QED
  BY <1>1, <1>2, <1>3, <1>4, <1>5 DEF Command

-----------------------------------------------------------------------------
(* What is written was parsed, measured and shown. *)
Agreed(p) == /\ consent[p]
             /\ inspected[p] = Parsed(p)
             /\ shown[p] = Versions(p)
             /\ ChangedBytes(shown[p]) <= Limit

\* From one stage to the next, what was parsed, measured and shown is what the
\* outputs still are; nothing changes them after the consent.
Drafts(p) == Kind[p] = "commit" =>
  /\ stage[p] # "load"
  /\ stage[p] = "measure" => inspected[p] = Parsed(p)
  /\ stage[p] = "ask" => /\ inspected[p] = Parsed(p)
                         /\ shown[p] = Versions(p)
                         /\ ChangedBytes(shown[p]) <= Limit
  /\ stage[p] \in {"commit", "verify"} => consent[p]
  /\ consent[p] => Agreed(p) /\ stage[p] \in {"commit", "verify", "over"}

LEMMA DraftsStep ==
  ASSUME CommandType, NEW p \in Proc, Command(p), Drafts(p)
  PROVE  Drafts(p)'
<1> USE DEF CommandType, Drafts, Agreed, Versions, Parsed
<1>1. CASE Engine(p) \/ Killed(p)
  BY <1>1 DEF Engine, Killed, draftVars, finalVars
<1>2. CASE PlanFails(p) \/ Decide(p) \/ Publish(p) \/ Prepared(p)
  BY <1>2 DEF PlanFails, Decide, Publish, Prepared, At, To, End, draftVars,
     finalVars
<1>3. CASE Format(p)
  BY <1>3 DEF Format, At, To, End, finalVars
<1>4. CASE Inspect(p)
  BY <1>4 DEF Inspect, At, To, End, finalVars
<1>5. CASE Measure(p)
  <2>1. /\ stage[p] = "measure" /\ inspected' = inspected /\ output' = output
        /\ consent' = consent
    BY <1>5 DEF Measure, At, finalVars
  <2>2. CASE stage'[p] = "over"
    BY <2>1, <2>2
  <2>3. CASE stage'[p] = "ask"
    <3>1. shown'[p] = Versions(p) /\ ChangedBytes(Versions(p)) <= Limit
      BY <1>5, <2>3 DEF Measure, End
    <3>. QED
      BY <2>1, <2>3, <3>1
  <2>. QED
    BY <1>5, <2>2, <2>3 DEF Measure, End, To
<1>6. CASE Ask(p)
  BY <1>6 DEF Ask, At, To, End, draftVars
<1>7. CASE Loaded(p) \/ UndoReturned(p) \/ Report(p)
  BY <1>7 DEF Loaded, UndoReturned, Report, At, To, End, draftVars, finalVars
<1>8. CASE Returned(p) \/ VerifyFile(p)
  BY <1>8 DEF Returned, VerifyFile, At, To, End, draftVars
<1>. QED
  BY <1>1, <1>2, <1>3, <1>4, <1>5, <1>6, <1>7, <1>8 DEF Command

\* A command does something else only while its operation rests.
Rests(p) == stage[p] # "commit" => pc[p] \in Paused

LEMMA RestsStep ==
  ASSUME TypeOK, CommandType, NEW p \in Proc, Kind[p] \in {"commit", "undo"},
         Command(p), Rests(p)
  PROVE  Rests(p)'
<1> USE DEF CommandType, Rests
<1>1. CASE Engine(p)
  BY <1>1, PausedStep DEF Engine, Awaited, Paused
<1>2. CASE Killed(p)
  <2>1. pc'[p] \in {"done", "crashed"}
    BY <1>2 DEF Killed, Crash, Enter, Live, vars, TypeOK
  <2>. QED
    BY <2>1 DEF Paused
<1>3. CASE PlanFails(p) \/ Decide(p) \/ Publish(p) \/ Prepared(p)
  BY <1>3 DEF PlanFails, Decide, Publish, Prepared, At, vars
<1>4. CASE Format(p) \/ Inspect(p) \/ Measure(p) \/ Ask(p) \/ Loaded(p)
  BY <1>4 DEF Format, Inspect, Measure, Ask, Loaded, At, vars
<1>5. CASE UndoReturned(p) \/ Returned(p)
  BY <1>5 DEF UndoReturned, Returned, At, vars, Paused
<1>6. CASE VerifyFile(p) \/ Report(p)
  BY <1>6 DEF VerifyFile, Report, At, vars
<1>. QED
  BY <1>1, <1>2, <1>3, <1>4, <1>5, <1>6 DEF Command

\* What a step of a command is to the engine.
LEMMA CommandRuns ==
  ASSUME NEW p \in Proc, Command(p)
  PROVE  \/ Engine(p) /\ Run(p)
         \/ Crash(p)
         \/ UNCHANGED vars
<1>1. CASE PlanFails(p) \/ Decide(p) \/ Publish(p) \/ Prepared(p) \/ Format(p)
  BY <1>1 DEF PlanFails, Decide, Publish, Prepared, Format, At
<1>2. CASE Inspect(p) \/ Measure(p) \/ Ask(p) \/ Loaded(p)
  BY <1>2 DEF Inspect, Measure, Ask, Loaded, At
<1>3. CASE UndoReturned(p) \/ Returned(p) \/ VerifyFile(p) \/ Report(p)
  BY <1>3 DEF UndoReturned, Returned, VerifyFile, Report, At
<1>. QED
  BY <1>1, <1>2, <1>3 DEF Command, Engine, Killed

\* Nobody takes the consent back.
LEMMA ConsentStays ==
  ASSUME CommandType, NEW p \in Proc, Command(p), consent[p]
  PROVE  consent'[p]
<1>1. \/ consent' = consent
      \/ consent' = [consent EXCEPT ![p] = TRUE]
  BY DEF Command, Engine, Killed, PlanFails, Decide, Publish, Prepared, Format,
     Inspect, Measure, Ask, Loaded, UndoReturned, Returned, VerifyFile, Report,
     finalVars
<1>. QED
  BY <1>1 DEF CommandType

\* There is no trace of a rewrite that nobody agreed to.
Consented == \A p \in Proc :
  Kind[p] = "commit" /\ Traced(Target[p]) => consent[p]

LEMMA ConsentedStep ==
  ASSUME TypeOK, GateInv, CommandType, LaunchType, Consented,
         NEW p \in Proc, Command(p), Drafts(p)
  PROVE  Consented'
<1>. SUFFICES ASSUME NEW q \in Proc, Kind[q] = "commit", Traced(Target[q])'
              PROVE  consent'[q]
  BY DEF Consented
<1>0. Target[q] \in Txn
  BY LocalTypes
<1>1. CASE Traced(Target[q])
  <2>1. consent[q]
    BY <1>1 DEF Consented
  <2>. QED
    BY <2>1, ConsentStays, CommandsApart DEF Keeps
<1>2. CASE ~Traced(Target[q])
  <2>1. ~UNCHANGED vars
    BY <1>2 DEF vars, Traced
  <2>2. /\ (Engine(p) /\ Run(p)) \/ Crash(p)
        /\ Sets(p, Target[q])
    BY <1>0, <1>2, <2>1, CommandRuns, TraceBegins
  <2>3. p = q
    BY <2>2, RepositoryConstants DEF Sets
  <2>4. ~Crash(p)
    BY <2>2 DEF Crash, Enter, TypeOK, Sets, Paused
  <2>5. stage[p] = "commit" /\ consent' = consent
    BY <2>2, <2>3, <2>4, PausedStep DEF Sets, Engine, Awaited
  <2>. QED
    BY <2>3, <2>5 DEF Drafts
<1>. QED
  BY <1>1, <1>2

-----------------------------------------------------------------------------
(* What is told. *)

\* "written" is reported last, and only if every check has passed.
Checked(p) == report[p] = "written" => checks[p] /\ proc[p] = "exit0"

LEMMA CheckedStep ==
  ASSUME CommandType, LaunchType, NEW p \in Proc, Command(p), Checked(p)
  PROVE  Checked(p)'
<1> USE DEF CommandType, LaunchType, Checked
<1>0. proc[p] = "running"
  BY CommandEnds
<1>1. CASE Engine(p) \/ Killed(p)
  BY <1>0, <1>1 DEF Engine, Killed
<1>2. CASE PlanFails(p) \/ Decide(p) \/ Publish(p) \/ Prepared(p)
  BY <1>0, <1>2 DEF PlanFails, Decide, Publish, Prepared, To, End
<1>3. CASE Format(p) \/ Inspect(p) \/ Measure(p)
  BY <1>0, <1>3 DEF Format, Inspect, Measure, To, End
<1>4. CASE Ask(p) \/ Loaded(p) \/ UndoReturned(p)
  BY <1>0, <1>4 DEF Ask, Loaded, UndoReturned, To, End
<1>5. CASE Returned(p) \/ VerifyFile(p)
  BY <1>0, <1>5 DEF Returned, VerifyFile, To, End
<1>6. CASE Report(p)
  BY <1>0, <1>6 DEF Report, End, finalVars
<1>. QED
  BY <1>1, <1>2, <1>3, <1>4, <1>5, <1>6 DEF Command

\* The command of p ended with 3, was ended by a signal, or is about to return
\* a partial commit.
Tells(p) ==
  \/ proc[p] = "exit3"
  \/ proc[p] \in Signal \cup {"killed"}
  \/ /\ proc[p] = "running"
     /\ stage[p] = "commit"
     /\ outcome[p] = "partial-commit"
     /\ pc[p] \in Reporting

Silent(t) == /\ record[t] = "partial-commit"
             /\ faulted \cap {"recordsync", "unlink"} = {}

PartialTold == \A t \in Txn : Silent(t) => \E p \in Proc : Target[p] = t /\ Tells(p)

\* A command that tells of a partial commit goes on to do so.
LEMMA TellsStep ==
  ASSUME TypeOK, CommandType, LaunchType, NEW p \in Proc, Command(p), Tells(p),
         Kind[p] \in {"commit", "undo"}, "unlink" \notin faulted'
  PROVE  Tells(p)'
<1> USE DEF CommandType, LaunchType
<1>0. /\ proc[p] = "running" /\ stage[p] = "commit"
      /\ outcome[p] = "partial-commit" /\ pc[p] \in Reporting
  BY CommandEnds, SessionConstants DEF Tells
<1>1. CASE Engine(p)
  <2>1. pc'[p] \in Reporting /\ outcome'[p] = "partial-commit"
    BY <1>0, <1>1, PartialReturns DEF Engine
  <2>. QED
    BY <1>0, <1>1, <2>1 DEF Engine, Tells
<1>2. CASE Killed(p)
  <2>1. PICK how \in {"killed"} \cup
          (IF p \in Launched THEN {sent[p][i] : i \in DOMAIN sent[p]} ELSE {}) :
          proc' = [proc EXCEPT ![p] = how]
    BY <1>2 DEF Killed
  <2>2. how \in Signal \cup {"killed"}
    OBVIOUS
  <2>. QED
    BY <2>1, <2>2 DEF Tells
<1>3. CASE PlanFails(p) \/ Decide(p) \/ Publish(p) \/ Prepared(p)
  BY <1>0, <1>3 DEF PlanFails, Decide, Publish, Prepared, At
<1>4. CASE Format(p) \/ Inspect(p) \/ Measure(p) \/ Ask(p) \/ Loaded(p)
  BY <1>0, <1>4 DEF Format, Inspect, Measure, Ask, Loaded, At
<1>5. CASE UndoReturned(p) \/ Returned(p)
  BY <1>0, <1>5 DEF UndoReturned, Returned, End, To, Tells
<1>6. CASE VerifyFile(p) \/ Report(p)
  BY <1>0, <1>6 DEF VerifyFile, Report, At
<1>. QED
  BY <1>1, <1>2, <1>3, <1>4, <1>5, <1>6 DEF Command

LEMMA ToldStep ==
  ASSUME TypeOK, CommandType, LaunchType, PartialTold, NEW p \in Proc, Command(p),
         Rests(p), \A q \in Proc : Kind[q] \in {"commit", "undo"}
  PROVE  PartialTold'
<1>. SUFFICES ASSUME NEW t \in Txn, Silent(t)'
              PROVE  \E q \in Proc : Target[q] = t /\ Tells(q)'
  BY DEF PartialTold
<1>0. faulted \subseteq faulted'
  <2>1. UNCHANGED vars \/ Run(p) \/ Crash(p)
    BY CommandRuns
  <2>. QED
    BY <2>1, FaultsCount, FaultGrows DEF vars
<1>1. CASE record[t] = "partial-commit"
  <2>1. PICK q \in Proc : Target[q] = t /\ Tells(q)
    BY <1>0, <1>1 DEF PartialTold, Silent
  <2>2. CASE q = p
    BY <2>1, <2>2, TellsStep DEF Silent
  <2>3. CASE q # p
    <3>1. proc'[q] = proc[q] /\ stage'[q] = stage[q]
      BY <2>3, CommandsApart DEF Keeps
    <3>2. pc'[q] = pc[q] /\ outcome'[q] = outcome[q]
      BY <2>3, CommandRuns, Others DEF Same, vars
    <3>. QED
      BY <2>1, <3>1, <3>2 DEF Tells
  <2>. QED
    BY <2>2, <2>3
<1>2. CASE record[t] # "partial-commit"
  <2>1. (Engine(p) /\ Run(p)) \/ Crash(p)
    BY <1>2, CommandRuns DEF Silent, vars
  <2>2. /\ Target[p] = t /\ pc[p] \in {"rbpersist", "unwindpersist", "upartial"}
        /\ pc'[p] \in Reporting /\ outcome'[p] = "partial-commit"
    BY <1>2, <2>1, PartialBegins DEF Silent
  <2>3. Engine(p)
    BY <2>1, <2>2 DEF Crash, Enter, TypeOK, Reporting
  <2>4. stage[p] = "commit"
    BY <2>2 DEF Rests, Paused
  <2>5. Tells(p)'
    BY <2>2, <2>3, <2>4 DEF Engine, Tells
  <2>. QED
    BY <2>2, <2>5
<1>. QED
  BY <1>1, <1>2

-----------------------------------------------------------------------------
SessionInv ==
  /\ CommandType
  /\ \A p \in Proc : Drafts(p) /\ Rests(p) /\ Checked(p)
  /\ Consented
  /\ PartialTold

\* A launcher that starts its program does not revive one that has run.
LEMMA LaunchingKeeps ==
  ASSUME LaunchInv, NEW j \in Launched, Launching(j), NEW p \in Proc
  PROVE  proc'[p] = proc[p] \/ proc[p] = "unborn"
<1>1. Launch(j)
  BY DEF Launching
<1>2. \/ proc' = proc
      \/ proc' = [proc EXCEPT ![j] = "running"] /\ lpc[j] = "start"
  BY <1>1 DEF Launch, Hook, Start, Assign, Relay, Reap, Restore, Exit, Arrive,
     LaunchGoto
<1>3. proc \in [Proc -> Status] /\ (lpc[j] = "start" => proc[j] = "unborn")
  BY DEF LaunchInv, LaunchType, Relaying
<1>. QED
  BY <1>2, <1>3

LEMMA SessionStep ==
  ASSUME TypeOK, TypeOK', GateInv, LaunchInv, SessionInv,
         [SessionNext]_sessionVars
  PROVE  SessionInv'
<1>0. /\ \A q \in Proc : Kind[q] \in {"commit", "undo"}
      /\ LaunchType
  BY SessionConstants DEF LaunchInv
<1>1. ASSUME NEW p \in Proc, Command(p) PROVE SessionInv'
  <2>1. CommandType'
    BY <1>1, CommandTypeStep DEF SessionInv
  <2>2. ASSUME NEW q \in Proc PROVE Drafts(q)' /\ Rests(q)' /\ Checked(q)'
    <3>1. CASE q = p
      BY <1>0, <1>1, <3>1, DraftsStep, RestsStep, CheckedStep DEF SessionInv
    <3>2. CASE q # p
      <4>1. Keeps(q)
        BY <1>0, <1>1, <3>2, CommandsApart DEF SessionInv
      <4>2. pc'[q] = pc[q]
        BY <1>1, <3>2, CommandRuns, Others DEF Same, vars
      <4>3. Versions(q)' = Versions(q) /\ Parsed(q)' = Parsed(q)
        BY <4>1 DEF Versions, Parsed, Keeps
      <4>4. Drafts(q)'
        BY <4>1, <4>3 DEF SessionInv, Drafts, Agreed, Keeps
      <4>. QED
        BY <4>1, <4>2, <4>4 DEF SessionInv, Rests, Checked, Keeps
    <3>. QED
      BY <3>1, <3>2
  <2>3. Consented'
    BY <1>0, <1>1, ConsentedStep DEF SessionInv
  <2>4. PartialTold'
    BY <1>0, <1>1, ToldStep DEF SessionInv
  <2>. QED
    BY <2>1, <2>2, <2>3, <2>4 DEF SessionInv
<1>2. ASSUME NEW j \in Launched, Launching(j) PROVE SessionInv'
  <2>1. UNCHANGED <<vars, commandVars>>
    BY <1>2 DEF Launching
  <2>2. \A p \in Proc : proc'[p] = proc[p] \/ proc[p] = "unborn"
    BY <1>2, LaunchingKeeps
  <2>3. \A p \in Proc : Tells(p) => Tells(p)'
    BY <2>1, <2>2, SessionConstants DEF Tells, vars, commandVars
  <2>4. PartialTold'
    BY <2>1, <2>3 DEF SessionInv, PartialTold, Silent, vars
  <2>5. \A p \in Proc : Checked(p)'
    BY <2>1, <2>2 DEF SessionInv, Checked, commandVars, finalVars
  <2>6. \A p \in Proc : Drafts(p)' /\ Rests(p)'
    BY <2>1 DEF SessionInv, Drafts, Agreed, Versions, Parsed, Rests, vars, commandVars,
       draftVars, finalVars
  <2>7. CommandType' /\ Consented'
    BY <2>1 DEF SessionInv, CommandType, Consented, Traced, vars, commandVars,
       draftVars, finalVars
  <2>. QED
    BY <2>4, <2>5, <2>6, <2>7 DEF SessionInv
<1>3. CASE Edited
  <2>1. UNCHANGED <<launchVars, proc, commandVars>> /\ ForeignEdit
    BY <1>3 DEF Edited
  <2>2. /\ UNCHANGED <<record, before, outcome, faulted, pc>>
        /\ \A f \in File : content'[f] = content[f] \/ content'[f] \in Foreign
    BY <2>1 DEF ForeignEdit, TypeOK
  <2>3. \A t \in Txn : Traced(t)' => Traced(t)
    BY <2>2, RepositoryConstants DEF Traced
  <2>4. CommandType' /\ Consented'
    BY <2>1, <2>3, LocalTypes DEF SessionInv, CommandType, Consented, commandVars,
       draftVars, finalVars
  <2>5. PartialTold'
    BY <2>1, <2>2 DEF SessionInv, PartialTold, Silent, Tells, commandVars
  <2>6. \A p \in Proc : Drafts(p)' /\ Rests(p)' /\ Checked(p)'
    BY <2>1, <2>2 DEF SessionInv, Drafts, Agreed, Versions, Parsed, Rests, Checked,
       commandVars, draftVars, finalVars
  <2>. QED
    BY <2>4, <2>5, <2>6 DEF SessionInv
<1>4. CASE UNCHANGED sessionVars
  <2>1. UNCHANGED <<vars, commandVars, proc>>
    BY <1>4 DEF sessionVars
  <2>2. CommandType' /\ Consented' /\ PartialTold'
    BY <2>1 DEF SessionInv, CommandType, Consented, Traced, PartialTold, Silent, Tells,
       vars, commandVars, draftVars, finalVars
  <2>3. \A p \in Proc : Drafts(p)' /\ Rests(p)' /\ Checked(p)'
    BY <2>1 DEF SessionInv, Drafts, Agreed, Versions, Parsed, Rests, Checked, vars,
       commandVars, draftVars, finalVars
  <2>. QED
    BY <2>2, <2>3 DEF SessionInv
<1>. QED
  BY <1>1, <1>2, <1>3, <1>4 DEF SessionNext

LEMMA SessionStart == SessionInit => SessionInv
<1>. SUFFICES ASSUME SessionInit PROVE SessionInv
  OBVIOUS
<1>0. Init
  BY DEF SessionInit
<1>1. CommandType
  <2>1. [f \in File |-> 0] \in [File -> Nat]
    OBVIOUS
  <2>. QED
    BY <2>1 DEF SessionInit, CommandType, StageLabel, Drafting, Outcomes
<1>2. \A p \in Proc : /\ stage[p] = IF Kind[p] = "undo" THEN "load" ELSE "plan"
                      /\ consent[p] = FALSE /\ report[p] = "none"
                      /\ pc[p] = IF Kind[p] = "undo" THEN "uload" ELSE "snapshot"
  BY <1>0, SessionConstants DEF SessionInit, Init, StartLabel
<1>3. \A p \in Proc : Drafts(p) /\ Rests(p) /\ Checked(p)
  BY <1>2 DEF Drafts, Rests, Checked, Paused
<1>4. \A t \in Txn : ~Traced(t)
  <2>1. \A p \in Proc : Kind[p] # "repair" /\ pc[p] \in Paused
                          /\ (Kind[p] = "undo" => pc[p] \in Idle)
    BY <1>2, SessionConstants DEF Paused, Idle
  <2>2. \A t \in Txn : /\ \A f \in File : content[f] # t
                       /\ \A u \in Txn, f \in File : before[u][f] # t
                       /\ record[t] = "none"
    BY <1>0, RepositoryConstants DEF Init
  <2>. QED
    BY <2>1, <2>2 DEF Traced
<1>5. Consented
  BY <1>4, RepositoryConstants DEF Consented
<1>6. PartialTold
  BY <1>0 DEF PartialTold, Silent, Init
<1>. QED
  BY <1>1, <1>3, <1>5, <1>6 DEF SessionInv

LEMMA SessionAlways ==
  SessionSpec => [](TypeOK /\ GateInv /\ LaunchInv /\ SessionInv)
<1>1. TypeOK /\ TypeOK' /\ GateInv /\ LaunchInv /\ SessionInv
        /\ [SessionNext]_sessionVars => SessionInv'
  BY SessionStep
<1>. QED
  BY <1>1, SessionStart, LaunchAlways, SessionImplementsLifecycle, GateAlways, PTL
     DEF SessionSpec

\* A file holds the output of a rewrite only if somebody agreed to exactly
\* those bytes, and they were parsed, if there is a parser for their language,
\* and within the limit: for every interleaving of commands, undos, edits,
\* failures and kills.
THEOREM OutputsWereShown == SessionSpec => []WrittenAsShown
<1>1. CommandType /\ SessionInv => WrittenAsShown
  BY DEF SessionInv, Consented, Traced, Drafts, Agreed, WrittenAsShown
<1>. QED
  BY <1>1, SessionAlways, PTL DEF SessionInv

\* A partial commit is told by the exit code of some command.
THEOREM PartialCommitsAreTold == SessionSpec => []PartialIsTold
<1>1. SessionInv => PartialIsTold
  <2>1. \A p \in Proc : Tells(p) /\ proc[p] \in Code => proc[p] = "exit3"
    BY SessionConstants DEF Tells, Code
  <2>. QED
    BY <2>1 DEF SessionInv, PartialTold, Silent, PartialIsTold
<1>. QED
  BY <1>1, SessionAlways, PTL

\* What a command reports as written is what the files hold.
THEOREM WrittenHolds == SessionSpec => []WrittenIsApplied
<1>1. SessionInv /\ CommittedMeansApplied => WrittenIsApplied
  <2>1. \A p \in Proc : Target[p] \in Txn
    BY RepositoryConstants
  <2>. QED
    BY <2>1 DEF SessionInv, Checked, CommittedMeansApplied, WrittenIsApplied
<1>. QED
  BY <1>1, SessionAlways, SessionImplementsLifecycle, CommittedIsApplied, PTL
=============================================================================
