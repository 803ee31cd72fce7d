------------------------------ MODULE Launcher ------------------------------
(***************************************************************************)
(* src/python/tfs_ripast/launcher.py and __main__.py: the Python program   *)
(* that starts the command line in a session of its own, passes SIGINT and *)
(* SIGTERM on to it and ends as it ended.  A Python signal handler runs    *)
(* between any two steps of the program.                                   *)
(*                                                                         *)
(* Labels of lpc: hook (install the handlers), start (resolve, Popen),     *)
(* assign (the child runs, the variable `child` is still None), relay (the *)
(* pending signals), wait, restore (the finally block), exit, gone.        *)
(***************************************************************************)
EXTENDS Naturals, Sequences, FiniteSets

CONSTANTS
  Launched,  \* the processes started by a launcher of their own
  Signal     \* the forwarded signals, each sent to a launcher at most once

VARIABLES
  proc,      \* process table: unborn, running, or how the process ended
  lpc,       \* what each launcher does next
  handled,   \* signals for which `forward` is installed
  pending,   \* signals that arrived while `child` was None
  sent,      \* signals sent to the child, in order
  arrived,   \* (history) signals the launcher was sent
  result     \* how the launcher is going to end, and then how it ended

launchVars == <<lpc, handled, pending, sent, arrived, result>>

Code == {"exit0", "exit1", "exit2", "exit3"}
Ended == Code \cup Signal \cup {"killed"}
LauncherLabel == {"hook", "start", "assign", "relay", "wait", "restore",
                  "exit", "gone"}

\* What _exit_with_child_status makes of the status of the child.  No handler
\* can be set for SIGKILL: signal.signal raises and Python exits with 1.
PassOn(status) == IF status = "killed" THEN "exit1" ELSE status

LaunchGoto(j, from, to) ==
  /\ lpc[j] = from
  /\ lpc' = [lpc EXCEPT ![j] = to]

LaunchInit ==
  /\ lpc = [j \in Launched |-> "hook"]
  /\ handled = [j \in Launched |-> {}]
  /\ pending = [j \in Launched |-> <<>>]
  /\ sent = [j \in Launched |-> <<>>]
  /\ arrived = [j \in Launched |-> {}]
  /\ result = [j \in Launched |-> "none"]

-----------------------------------------------------------------------------
\* The handlers are installed one by one.
Hook(j) ==
  /\ \E s \in Signal \ handled[j] :
       /\ handled' = [handled EXCEPT ![j] = @ \cup {s}]
       /\ LaunchGoto(j, "hook", IF handled'[j] = Signal THEN "start" ELSE "hook")
  /\ UNCHANGED <<proc, pending, sent, arrived, result>>

\* resolve_executable and Popen.  Either may fail: main reports it with 2, and
\* pending signals are forgotten.
Start(j) ==
  /\ \/ /\ LaunchGoto(j, "start", "assign")
        /\ proc' = [proc EXCEPT ![j] = "running"]
        /\ UNCHANGED result
     \/ /\ LaunchGoto(j, "start", "restore")
        /\ result' = [result EXCEPT ![j] = "exit2"]
        /\ UNCHANGED proc
  /\ UNCHANGED <<handled, pending, sent, arrived>>

Assign(j) ==
  /\ LaunchGoto(j, "assign", "relay")
  /\ UNCHANGED <<proc, handled, pending, sent, arrived, result>>

\* send_signal to a child that still runs, else nothing.
SendTo(j, s) ==
  sent' = [sent EXCEPT ![j] = IF proc[j] = "running" THEN Append(@, s) ELSE @]

\* Mutant: the loop over the pending signals is missing.
RelayNothing(j) ==
  /\ LaunchGoto(j, "relay", "wait")
  /\ UNCHANGED <<proc, handled, pending, sent, arrived, result>>

\* The loop over the pending signals, then wait or communicate.
Relay(j) ==
  /\ IF pending[j] = <<>>
       THEN /\ LaunchGoto(j, "relay", "wait")
            /\ UNCHANGED <<pending, sent>>
       ELSE /\ LaunchGoto(j, "relay", "relay")
            /\ SendTo(j, Head(pending[j]))
            /\ pending' = [pending EXCEPT ![j] = Tail(@)]
  /\ UNCHANGED <<proc, handled, arrived, result>>

\* Mutant: poll instead of wait, so a child that still runs counts as ended.
ReapEarly(j) ==
  /\ LaunchGoto(j, "wait", "restore")
  /\ result' = [result EXCEPT ![j] = IF proc[j] = "running" THEN "exit0"
                                     ELSE proc[j]]
  /\ UNCHANGED <<proc, handled, pending, sent, arrived>>

Reap(j) ==
  /\ proc[j] \in Ended
  /\ LaunchGoto(j, "wait", "restore")
  /\ result' = [result EXCEPT ![j] = proc[j]]
  /\ UNCHANGED <<proc, handled, pending, sent, arrived>>

\* The finally block puts the previous handlers back, one by one.
Restore(j) ==
  /\ \E s \in handled[j] :
       /\ handled' = [handled EXCEPT ![j] = @ \ {s}]
       /\ LaunchGoto(j, "restore", IF handled'[j] = {} THEN "exit" ELSE "restore")
  /\ UNCHANGED <<proc, pending, sent, arrived, result>>

Exit(j) ==
  /\ LaunchGoto(j, "exit", "gone")
  /\ result' = [result EXCEPT ![j] = PassOn(@)]
  /\ UNCHANGED <<proc, handled, pending, sent, arrived>>

\* Without a handler of `forward` a signal ends the launcher.  With it, it is
\* kept while `child` is None and sent on once there is one.
ChildIsNone(j) == lpc[j] \in {"hook", "start", "assign"} \/ proc[j] = "unborn"

Arrive(j, s) ==
  /\ lpc[j] # "gone"
  /\ s \notin arrived[j]
  /\ arrived' = [arrived EXCEPT ![j] = @ \cup {s}]
  /\ \/ /\ s \notin handled[j]
        /\ lpc' = [lpc EXCEPT ![j] = "gone"]
        /\ result' = [result EXCEPT ![j] = s]
        /\ UNCHANGED <<pending, sent>>
     \/ /\ s \in handled[j]
        /\ ChildIsNone(j)
        /\ pending' = [pending EXCEPT ![j] = Append(@, s)]
        /\ UNCHANGED <<lpc, sent, result>>
     \/ /\ s \in handled[j]
        /\ ~ChildIsNone(j)
        /\ SendTo(j, s)
        /\ UNCHANGED <<lpc, pending, result>>
  /\ UNCHANGED <<proc, handled>>

Launch(j) ==
  \/ Hook(j) \/ Start(j) \/ Assign(j) \/ Relay(j) \/ Reap(j) \/ Restore(j)
  \/ Exit(j) \/ \E s \in Signal : Arrive(j, s)

-----------------------------------------------------------------------------
\* The launcher ends after the program it started and with its exact status,
\* unless a signal came when its own handlers were not installed.  Left out by
\* name is the child that is killed: Python cannot give SIGKILL its default
\* handler, so the launcher then exits with 1 (PassOn).
StatusPassedOn ==
  \A j \in Launched : lpc[j] = "gone" /\ proc[j] # "unborn" =>
    /\ proc[j] \in Ended
    /\ proc[j] # "killed" =>
         \/ result[j] = proc[j]
         \/ result[j] \in arrived[j] \ {sent[j][i] : i \in DOMAIN sent[j]}

\* While the launcher waits for a running child, every signal it was sent has
\* been sent on, exactly once, whether it came before, during or after the
\* start of the child.
EachRelayedOnce ==
  \A j \in Launched : lpc[j] = "wait" /\ proc[j] = "running" =>
    /\ {sent[j][i] : i \in DOMAIN sent[j]} = arrived[j]
    /\ Len(sent[j]) = Cardinality(arrived[j])
=============================================================================
