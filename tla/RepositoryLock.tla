--------------------------- MODULE RepositoryLock ---------------------------
(***************************************************************************)
(* The advisory repository lock (src/src/transaction.ts: acquireLock,      *)
(* tryReclaimStaleLock, releaseLock, withRepositoryLock).  The lock is the *)
(* file .tfs-ripast/lock, created with O_EXCL and then filled with a JSON  *)
(* payload naming the pid of its holder.  A claimant that finds the file   *)
(* reads it, probes the pid with signal 0 and, when no such process        *)
(* exists, unlinks the file and tries once more.                           *)
(*                                                                         *)
(* Every system call is one action, so any two processes interleave        *)
(* between any two calls; a process may die before any of them.            *)
(***************************************************************************)
CONSTANTS
  Proc,    \* processes (CLI invocations) of one repository
  Pid,     \* process identifiers, which the system recycles
  None,    \* no process, no lock file
  NoPid,   \* the payload of a lock file that is still empty
  PidOf    \* the identifier each process runs under

ASSUME LockConstants ==
  /\ None \notin Proc
  /\ NoPid \notin Pid
  /\ PidOf \in [Proc -> Pid]

VARIABLES
  file,      \* the creator of the file at .tfs-ripast/lock, or None
  payload,   \* the pid written in that file, NoPid while it is empty
  pc,        \* where each process is in acquireLock / releaseLock
  attempt,   \* acquireLock's loop counter, 0 or 1
  seenPid,   \* the pid tryReclaimStaleLock parsed from the file it read
  seenFile,  \* (history) whose file that was
  misfired   \* (history) some unlink removed a file other than the one its
             \* process had read (a claimant) or created (a holder)

vars == <<file, payload, pc, attempt, seenPid, seenFile, misfired>>
local == <<attempt, seenPid, seenFile>>

PcValues == {"unborn", "idle", "create", "write", "held",
             "read", "probe", "unlink", "refused", "dead"}

TypeOK ==
  /\ file \in Proc \cup {None}
  /\ payload \in Pid \cup {NoPid}
  /\ pc \in [Proc -> PcValues]
  /\ attempt \in [Proc -> {0, 1}]
  /\ seenPid \in [Proc -> Pid \cup {NoPid}]
  /\ seenFile \in [Proc -> Proc \cup {None}]
  /\ misfired \in BOOLEAN

Init ==
  /\ file = None
  /\ payload = NoPid
  /\ pc = [p \in Proc |-> "unborn"]
  /\ attempt = [p \in Proc |-> 0]
  /\ seenPid = [p \in Proc |-> NoPid]
  /\ seenFile = [p \in Proc |-> None]
  /\ misfired = FALSE

-----------------------------------------------------------------------------
\* pidAlive: signal 0 reaches a live process with that identifier.  The
\* process that answers need not be the one that wrote the lock.
Running(p) == pc[p] \notin {"unborn", "dead"}
PidAlive(pid) == \E p \in Proc : PidOf[p] = pid /\ Running(p)

Goto(p, l) == pc' = [pc EXCEPT ![p] = l]

\* What a call kept in its local variables is gone when it returns.
Forget(p) ==
  /\ attempt' = [attempt EXCEPT ![p] = 0]
  /\ seenPid' = [seenPid EXCEPT ![p] = NoPid]
  /\ seenFile' = [seenFile EXCEPT ![p] = None]

\* The system starts a process under an identifier that is not in use.
Spawn(p) ==
  /\ pc[p] = "unborn"
  /\ ~PidAlive(PidOf[p])
  /\ Goto(p, "idle")
  /\ UNCHANGED <<file, payload, local, misfired>>

\* The process ends, by a crash, a signal or a normal exit: at any point.
Die(p) ==
  /\ Running(p)
  /\ Goto(p, "dead")
  /\ Forget(p)
  /\ UNCHANGED <<file, payload, misfired>>

\* acquireLock is called.
Enter(p) ==
  /\ pc[p] = "idle"
  /\ Goto(p, "create")
  /\ UNCHANGED <<file, payload, local, misfired>>

\* Mutant: flag "w" instead of "wx".
CreateShared(p) ==
  /\ pc[p] = "create"
  /\ file' = p
  /\ payload' = NoPid
  /\ Goto(p, "write")
  /\ Forget(p)
  /\ UNCHANGED misfired

\* writeFile(..., { flag: "wx" }), first half: open with O_CREAT | O_EXCL.
CreateExclusive(p) ==
  /\ pc[p] = "create"
  /\ file = None
  /\ file' = p
  /\ payload' = NoPid
  /\ Goto(p, "write")
  /\ Forget(p)
  /\ UNCHANGED misfired

\* EEXIST: one attempt to reclaim, then give up.
CreateRefused(p) ==
  /\ pc[p] = "create"
  /\ file # None
  /\ Goto(p, IF attempt[p] = 0 THEN "read" ELSE "refused")
  /\ UNCHANGED <<file, payload, local, misfired>>

\* writeFile, second half: the payload goes into the file this process
\* opened, which a claimant may have unlinked from under it.
WritePayload(p) ==
  /\ pc[p] = "write"
  /\ payload' = IF file = p THEN PidOf[p] ELSE payload
  /\ Goto(p, "held")
  /\ UNCHANGED <<file, local, misfired>>

\* The write fails (no space, I/O error): acquireLock throws and the empty
\* lock file stays behind.
WriteFails(p) ==
  /\ pc[p] = "write"
  /\ Goto(p, "refused")
  /\ UNCHANGED <<file, payload, local, misfired>>

\* tryReclaimStaleLock: readFile fails when the file is already gone.
ReadStale(p) ==
  /\ pc[p] = "read"
  /\ IF file = None
       THEN /\ Goto(p, "refused")
            /\ UNCHANGED <<seenPid, seenFile>>
       ELSE /\ Goto(p, "probe")
            /\ seenPid' = [seenPid EXCEPT ![p] = payload]
            /\ seenFile' = [seenFile EXCEPT ![p] = file]
  /\ UNCHANGED <<file, payload, attempt, misfired>>

\* Mutant: an unparseable payload counts as stale.
StaleUnlessLive(pid) == ~PidAlive(pid)

\* lockHolderPid / pidAlive: an unparseable payload or a live pid refuses.
Stale(pid) == pid # NoPid /\ ~PidAlive(pid)

\* Mutant: a live holder is waited for instead of refused.
ProbeAgain(p) ==
  /\ pc[p] = "probe"
  /\ Goto(p, IF Stale(seenPid[p]) THEN "unlink" ELSE "create")
  /\ UNCHANGED <<file, payload, local, misfired>>

Probe(p) ==
  /\ pc[p] = "probe"
  /\ Goto(p, IF Stale(seenPid[p]) THEN "unlink" ELSE "refused")
  /\ UNCHANGED <<file, payload, local, misfired>>

\* unlink(lockPath) by name: whatever file is there now goes away.
UnlinkPath(expected) ==
  /\ file' = None
  /\ payload' = NoPid
  /\ misfired' = (misfired \/ file \notin {None, expected})

\* Mutant: after reclaiming the file the claimant gives up.
UnlinkWithoutRetry(p) ==
  /\ pc[p] = "unlink"
  /\ IF file = None
       THEN UNCHANGED <<file, payload, misfired>>
       ELSE UnlinkPath(seenFile[p])
  /\ Goto(p, "refused")
  /\ UNCHANGED local

UnlinkStale(p) ==
  /\ pc[p] = "unlink"
  /\ IF file = None
       THEN /\ Goto(p, "refused")
            /\ UNCHANGED <<file, payload, local, misfired>>
       ELSE /\ UnlinkPath(seenFile[p])
            /\ Goto(p, "create")
            /\ attempt' = [attempt EXCEPT ![p] = 1]
            /\ seenPid' = [seenPid EXCEPT ![p] = NoPid]
            /\ seenFile' = [seenFile EXCEPT ![p] = None]

\* releaseLock in the holder's finally block.
Release(p) ==
  /\ pc[p] = "held"
  /\ UnlinkPath(p)
  /\ Goto(p, "idle")
  /\ UNCHANGED local

\* safeUnlink rethrows any error but ENOENT: the file stays behind.
ReleaseFails(p) ==
  /\ pc[p] = "held"
  /\ Goto(p, "idle")
  /\ UNCHANGED <<file, payload, local, misfired>>

\* The caller sees "Repository transaction lock is held" and may call again.
Return(p) ==
  /\ pc[p] = "refused"
  /\ Goto(p, "idle")
  /\ Forget(p)
  /\ UNCHANGED <<file, payload, misfired>>

Step(p) ==
  \/ CreateExclusive(p) \/ CreateRefused(p) \/ WritePayload(p) \/ WriteFails(p)
  \/ ReadStale(p) \/ Probe(p) \/ UnlinkStale(p)
  \/ Release(p) \/ ReleaseFails(p) \/ Return(p)

Next == \E p \in Proc : Spawn(p) \/ Die(p) \/ Enter(p) \/ Step(p)

Spec == Init /\ [][Next]_vars

\* A live process is always scheduled again: each await resolves.
FairSpec == Spec /\ \A p \in Proc : WF_vars(Step(p))
-----------------------------------------------------------------------------
InLock(p) == pc[p] \in {"write", "held"}

\* README.md:212: the advisory lock serializes concurrent transactions.
MutualExclusion ==
  \A p, q \in Proc : InLock(p) /\ InLock(q) => p = q

\* Two processes are inside only after some unlink(2) removed a lock file
\* other than the one it was decided for: the reclaim race is the only way
\* to lose mutual exclusion in acquireLock and releaseLock.
ExclusiveUnlessMisfired == ~misfired => MutualExclusion

\* Without a process that died there is nothing to reclaim and no race: the
\* two-step reclaim of tryReclaimStaleLock never breaks a live lock by itself.
ExclusiveWithoutDeath == (\A p \in Proc : pc[p] # "dead") => MutualExclusion

\* A non-empty lock file names the process that created it, whatever was
\* unlinked between its creation and the write of the payload.
PayloadNamesCreator ==
  payload # NoPid => file \in Proc /\ payload = PidOf[file]

\* The lock file of a live process goes away only by that process's own
\* release, or by a misfired unlink.
LiveLockKept ==
  [][\A p \in Proc : ~misfired' /\ file = p /\ file' # p =>
        \/ pc[p] = "dead"
        \/ pc[p] = "held" /\ pc'[p] = "idle"]_vars

\* acquireLock's loop always ends: the single retry cannot chase a lock that
\* others keep creating.
AttemptEnds ==
  \A p \in Proc : pc[p] = "create" ~> pc[p] \in {"held", "refused", "dead"}

\* A lock left by a dead holder that had written its payload is recovered by
\* the first attempt of a process nobody interferes with.
OrphanOf(p) == /\ file \in Proc \ {p} /\ payload # NoPid
               /\ \A q \in Proc \ {p} : pc[q] = "dead"
SoleSurvivorRecovers ==
  \A p \in Proc :
    (pc[p] = "create" /\ attempt[p] = 0 /\ OrphanOf(p) /\ payload # PidOf[p])
      ~> (file = p \/ pc[p] = "dead")

\* Until an unlink misfires, the protocol implements AbstractLock: the creator
\* of the lock file is the owner, and ownership passes only by a release or by
\* a reclaim from a process that is gone.
Abstract == INSTANCE AbstractLock
              WITH owner <- file, gone <- {p \in Proc : pc[p] = "dead"}
AbstractLockSpec ==
  Abstract!Init /\ [][Abstract!Next \/ misfired']_(Abstract!vars)
=============================================================================
