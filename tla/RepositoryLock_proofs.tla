------------------------ MODULE RepositoryLock_proofs ------------------------
(***************************************************************************)
(* Theorems about RepositoryLock for every set of processes and every      *)
(* assignment of process identifiers, recycled ones included.              *)
(***************************************************************************)
EXTENDS RepositoryLock, TLAPS

\* The creator of the lock file has been started.
CreatorBorn == file \in Proc => pc[file] # "unborn"

\* What a claimant remembers: the file it read belongs to a process that was
\* started, and the pid it parsed is that process's.
MemoryTrue ==
  \A p \in Proc : pc[p] \in {"probe", "unlink"} =>
    /\ seenFile[p] \in Proc
    /\ pc[seenFile[p]] # "unborn"
    /\ seenPid[p] # NoPid => seenPid[p] = PidOf[seenFile[p]]

\* A claimant that decided to unlink saw the file of a process now dead.
TargetDead ==
  \A p \in Proc : pc[p] = "unlink" => pc[seenFile[p]] = "dead"

\* Until an unlink misfires, whoever is in the lock created its file.
InsideOwns == ~misfired => \A p \in Proc : InLock(p) => file = p

\* Only the death of some process makes a misfire possible.
MisfireNeedsDeath == misfired => \E p \in Proc : pc[p] = "dead"

IInv == /\ TypeOK
        /\ PayloadNamesCreator
        /\ CreatorBorn
        /\ MemoryTrue
        /\ TargetDead
        /\ InsideOwns
        /\ MisfireNeedsDeath

USE DEF Goto, Forget, local

\* The initial state satisfies the invariant.
LEMMA InitIInv == Init => IInv
  BY LockConstants
  DEF Init, IInv, TypeOK, PcValues, PayloadNamesCreator, CreatorBorn,
      MemoryTrue, TargetDead, InsideOwns, InLock, MisfireNeedsDeath

\* A claimant moves on to the unlink only when the creator of the file it
\* read is dead: no live process answers to the pid it parsed.
LEMMA ProbeFindsDead ==
  ASSUME IInv, NEW p \in Proc, pc[p] = "probe", Stale(seenPid[p])
  PROVE  pc[seenFile[p]] = "dead"
  BY DEF IInv, MemoryTrue, Stale, PidAlive, Running

\* Each step of each process preserves the invariant.
LEMMA StepIInv ==
  ASSUME IInv, NEW p \in Proc, Spawn(p) \/ Die(p) \/ Enter(p) \/ Step(p)
  PROVE  IInv'
<1> USE LockConstants
<1> USE DEF IInv, TypeOK, PcValues
<1>1. CASE Spawn(p)
  BY <1>1 DEF Spawn, PayloadNamesCreator, CreatorBorn, MemoryTrue, TargetDead,
              InsideOwns, InLock, MisfireNeedsDeath
<1>2. CASE Die(p)
  BY <1>2 DEF Die, Running, PayloadNamesCreator, CreatorBorn, MemoryTrue,
              TargetDead, InsideOwns, InLock, MisfireNeedsDeath
<1>3. CASE Enter(p)
  BY <1>3 DEF Enter, PayloadNamesCreator, CreatorBorn, MemoryTrue, TargetDead,
              InsideOwns, InLock, MisfireNeedsDeath
<1>4. CASE CreateExclusive(p)
  BY <1>4 DEF CreateExclusive, PayloadNamesCreator, CreatorBorn, MemoryTrue,
              TargetDead, InsideOwns, InLock, MisfireNeedsDeath
<1>5. CASE CreateRefused(p)
  BY <1>5 DEF CreateRefused, PayloadNamesCreator, CreatorBorn, MemoryTrue,
              TargetDead, InsideOwns, InLock, MisfireNeedsDeath
<1>6. CASE WritePayload(p)
  BY <1>6 DEF WritePayload, PayloadNamesCreator, CreatorBorn, MemoryTrue,
              TargetDead, InsideOwns, InLock, MisfireNeedsDeath
<1>7. CASE WriteFails(p)
  BY <1>7 DEF WriteFails, PayloadNamesCreator, CreatorBorn, MemoryTrue,
              TargetDead, InsideOwns, InLock, MisfireNeedsDeath
<1>8. CASE ReadStale(p)
  BY <1>8 DEF ReadStale, PayloadNamesCreator, CreatorBorn, MemoryTrue,
              TargetDead, InsideOwns, InLock, MisfireNeedsDeath
<1>9. CASE Probe(p)
  BY <1>9, ProbeFindsDead DEF Probe, PayloadNamesCreator, CreatorBorn,
              MemoryTrue, TargetDead, InsideOwns, InLock, MisfireNeedsDeath
<1>10. CASE UnlinkStale(p)
  <2>1. CASE file = None
    BY <1>10, <2>1 DEF UnlinkStale, PayloadNamesCreator, CreatorBorn,
      MemoryTrue, TargetDead, InsideOwns, InLock, MisfireNeedsDeath
  <2>2. CASE file # None
    <3>1. pc[p] = "unlink" /\ seenFile[p] \in Proc /\ pc[seenFile[p]] = "dead"
      BY <1>10 DEF UnlinkStale, MemoryTrue, TargetDead
    <3>2. /\ file' = None /\ payload' = NoPid
          /\ pc' = [pc EXCEPT ![p] = "create"]
          /\ attempt' = [attempt EXCEPT ![p] = 1]
          /\ seenPid' = [seenPid EXCEPT ![p] = NoPid]
          /\ seenFile' = [seenFile EXCEPT ![p] = None]
          /\ misfired' = (misfired \/ file # seenFile[p])
      BY <1>10, <2>2 DEF UnlinkStale, UnlinkPath
    <3>3. TypeOK' /\ PayloadNamesCreator' /\ CreatorBorn'
      BY <3>2 DEF PayloadNamesCreator, CreatorBorn
    <3>4. MemoryTrue' /\ TargetDead'
      BY <3>1, <3>2 DEF MemoryTrue, TargetDead
    <3>5. InsideOwns'
      BY <3>1, <3>2 DEF InsideOwns, InLock
    <3>6. pc'[seenFile[p]] = "dead"
      BY <3>1, <3>2
    <3>7. MisfireNeedsDeath'
      BY <3>1, <3>6 DEF MisfireNeedsDeath
    <3>8. QED
      BY <3>3, <3>4, <3>5, <3>7
  <2>3. QED
    BY <2>1, <2>2
<1>11. CASE Release(p)
  BY <1>11 DEF Release, UnlinkPath, PayloadNamesCreator, CreatorBorn,
              MemoryTrue, TargetDead, InsideOwns, InLock, MisfireNeedsDeath
<1>12. CASE ReleaseFails(p)
  BY <1>12 DEF ReleaseFails, PayloadNamesCreator, CreatorBorn, MemoryTrue,
              TargetDead, InsideOwns, InLock, MisfireNeedsDeath
<1>13. CASE Return(p)
  BY <1>13 DEF Return, PayloadNamesCreator, CreatorBorn, MemoryTrue,
              TargetDead, InsideOwns, InLock, MisfireNeedsDeath
<1>14. QED
  BY <1>1, <1>2, <1>3, <1>4, <1>5, <1>6, <1>7, <1>8, <1>9, <1>10, <1>11,
     <1>12, <1>13 DEF Step

\* The invariant holds in every reachable state.
THEOREM LockInvariant == Spec => []IInv
<1>1. IInv /\ [Next]_vars => IInv'
  <2> SUFFICES ASSUME IInv, [Next]_vars PROVE IInv'
    OBVIOUS
  <2>1. CASE Next
    BY <2>1, StepIInv DEF Next
  <2>2. CASE UNCHANGED vars
    BY <2>2 DEF vars, IInv, TypeOK, PayloadNamesCreator, CreatorBorn,
      MemoryTrue, TargetDead, InsideOwns, InLock, MisfireNeedsDeath
  <2>3. QED
    BY <2>1, <2>2
<1>2. QED
  BY InitIInv, <1>1, PTL DEF Spec

-----------------------------------------------------------------------------
\* The variables keep their types.
THEOREM TypeCorrect == Spec => []TypeOK
<1>1. IInv => TypeOK
  BY DEF IInv
<1>2. QED
  BY LockInvariant, <1>1, PTL

\* The lock excludes unless an unlink removed the wrong lock file: the
\* reclaim race is the only hole of acquireLock / releaseLock.
THEOREM LockExcludes == Spec => []ExclusiveUnlessMisfired
<1>1. IInv => ExclusiveUnlessMisfired
  BY DEF IInv, InsideOwns, ExclusiveUnlessMisfired, MutualExclusion
<1>2. QED
  BY LockInvariant, <1>1, PTL

\* Whatever the interleaving, the lock excludes as long as no process of the
\* repository has died.
THEOREM LockExcludesWithoutDeath == Spec => []ExclusiveWithoutDeath
<1>1. IInv => ExclusiveWithoutDeath
  BY DEF IInv, InsideOwns, MisfireNeedsDeath, ExclusiveWithoutDeath,
         MutualExclusion
<1>2. QED
  BY LockInvariant, <1>1, PTL

\* The pid in the lock file is always that of the process that created it.
THEOREM PayloadTrue == Spec => []PayloadNamesCreator
<1>1. IInv => PayloadNamesCreator
  BY DEF IInv
<1>2. QED
  BY LockInvariant, <1>1, PTL

\* Only its owner or a misfired unlink takes the lock from a live process.
THEOREM LiveLockIsKept == Spec => LiveLockKept
<1>1. IInv /\ [Next]_vars =>
        [\A p \in Proc : ~misfired' /\ file = p /\ file' # p =>
            \/ pc[p] = "dead"
            \/ pc[p] = "held" /\ pc'[p] = "idle"]_vars
  <2> SUFFICES ASSUME IInv, [Next]_vars, NEW p \in Proc,
                      ~misfired', file = p, file' # p
               PROVE  pc[p] = "dead" \/ (pc[p] = "held" /\ pc'[p] = "idle")
    OBVIOUS
  <2> USE LockConstants DEF IInv, TypeOK
  <2>1. PICK q \in Proc : UnlinkStale(q) \/ Release(q)
    BY DEF vars, Next, Step, Spawn, Die, Enter, CreateExclusive, CreateRefused,
      WritePayload, WriteFails, ReadStale, Probe, ReleaseFails, Return
  <2>2. CASE UnlinkStale(q)
    BY <2>2 DEF UnlinkStale, UnlinkPath, TargetDead
  <2>3. CASE Release(q)
    BY <2>3 DEF Release, UnlinkPath
  <2>4. QED
    BY <2>1, <2>2, <2>3
<1>2. QED
  BY LockInvariant, <1>1, PTL DEF Spec, LiveLockKept

-----------------------------------------------------------------------------
\* The protocol on the lock file implements the abstract lock for as long as
\* no unlink has misfired.
THEOREM LockImplementsAbstract == Spec => AbstractLockSpec
<1>1. Init => Abstract!Init
  BY DEF Init, Abstract!Init
<1>2. IInv /\ [Next]_vars => [Abstract!Next \/ misfired']_(Abstract!vars)
  <2> SUFFICES ASSUME IInv, [Next]_vars, ~misfired'
               PROVE  [Abstract!Next]_(Abstract!vars)
    OBVIOUS
  <2> DEFINE Dead == {p \in Proc : pc[p] = "dead"}
  <2> USE LockConstants DEF IInv, TypeOK, PcValues
  <2>1. CASE UNCHANGED vars
    BY <2>1 DEF vars, Abstract!vars
  <2>2. ASSUME NEW p \in Proc,
               Spawn(p) \/ Die(p) \/ Enter(p) \/ Step(p)
        PROVE  [Abstract!Next]_(Abstract!vars)
    <3>1. CASE Die(p)
      <4>1. p \notin Dead /\ Dead' = Dead \cup {p} /\ file' = file
        BY <3>1 DEF Die, Running
      <4>2. QED
        BY <4>1 DEF Abstract!Next, Abstract!Terminate
    <3>2. CASE CreateExclusive(p)
      <4>1. file = None /\ p \notin Dead /\ file' = p /\ Dead' = Dead
        BY <3>2 DEF CreateExclusive
      <4>2. QED
        BY <4>1 DEF Abstract!Next, Abstract!Acquire
    <3>3. CASE UnlinkStale(p) /\ file # None
      <4>1. file = seenFile[p] /\ pc[file] = "dead" /\ file \in Proc
        BY <3>3 DEF UnlinkStale, UnlinkPath, TargetDead
      <4>2. file \in Dead /\ file' = None /\ Dead' = Dead
        BY <3>3, <4>1 DEF UnlinkStale, UnlinkPath
      <4>3. QED
        BY <4>2 DEF Abstract!Next, Abstract!Reclaim
    <3>4. CASE Release(p)
      <4>1. file = p /\ p \notin Dead /\ file' = None /\ Dead' = Dead
        BY <3>4 DEF Release, UnlinkPath, InsideOwns, InLock
      <4>2. QED
        BY <4>1 DEF Abstract!Next, Abstract!Release
    <3>5. CASE \/ Spawn(p) \/ Enter(p) \/ CreateRefused(p) \/ WritePayload(p)
               \/ WriteFails(p) \/ ReadStale(p) \/ Probe(p)
               \/ UnlinkStale(p) /\ file = None
               \/ ReleaseFails(p) \/ Return(p)
      <4>1. file' = file /\ Dead' = Dead
        BY <3>5 DEF Spawn, Enter, CreateRefused, WritePayload, WriteFails,
          ReadStale, Probe, UnlinkStale, ReleaseFails, Return
      <4>2. QED
        BY <4>1 DEF Abstract!vars
    <3>6. QED
      BY <2>2, <3>1, <3>2, <3>3, <3>4, <3>5 DEF Step
  <2>3. QED
    BY <2>1, <2>2 DEF Next
<1>3. QED
  BY LockInvariant, <1>1, <1>2, PTL DEF Spec, AbstractLockSpec
=============================================================================
