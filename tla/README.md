# Verification of tfs-ripast

TLA+ models of tfs-ripast, a command line tool that plans a rewrite of many
files of a repository and applies it as a transaction that can be undone,
repaired and pruned. TLC checks the models on small instances; TLAPS proves
what matters most for every instance. Paths below are relative to the
repository root (`src/...` is the TypeScript program).

## 1. The system

| component | code | state it keeps | operations |
|---|---|---|---|
| repository lock | `src/transaction.ts` 525-659 | `.tfs-ripast/lock`, holding the pid of its creator | acquire (with one reclaim of a stale lock), release |
| transaction commit | `src/transaction.ts` 380-1065, `src/filesystem.ts` | repository files, siblings next to them, `transactions/<id>.json`, `transactions/<id>/before/*` | prepare, commit, roll back after failed checks, unwind after a failed step |
| undo | `src/transaction.ts` 1112-1292 | the same | preview, undo, roll forward after a failed step |
| assisted repair | `src/maintenance.ts` 60-260 | the same | classify, restore, record |
| retention (gc) | `src/maintenance.ts` 262-366 | the same | list, judge, prune |
| late audit of records | `src/transaction.ts` 1302 | the record | rewrite it, perhaps undo; called by no command |
| processes | `src/providers/process.ts` | one child with its process group, pipes, three timers | spawn, capture, terminate, settle |
| plan publication | `src/cli-artifacts.ts` 164-311 | the plan file and its sibling | publish |
| discovery | `src/cli-discovery.ts`, `src/filesystem.ts` 112-178 | the snapshots and the evidence of one derivation | list, snapshot, scan, drop, build a plan, derive it again |
| providers | `src/providers/{provider,ripgrep,astGrep}.ts` | none beyond a call | search, parse, contain |
| evidence correlation | `src/evidence.ts` | none | group, classify |
| planner | `src/planner.ts` | none | select edits, find conflicts, check expectations |
| diff and measures | `src/diff.ts`, `src/cli-run.ts` 332-470 | none | unified diff, number of changed bytes |
| validation | `src/validation.ts` | none beyond a call | resolve, run on prepared outputs, run after the commit |
| git scope | `src/git.ts` | none (HEAD, index and worktree are git's) | status, list, audit the inputs, query again before the first write |
| command line | `src/cli*.ts` | the prepared outputs and the consent of one command | parse, plan, preview, prompt, run a command, report |
| Python compiler and launcher | `python/tfs_ripast` | the child process, signals not yet passed on | compile a plan, start the CLI and forward signals, end as it ended |
| installer | `scripts/install-local.sh` | installed trees | stage, swap, roll back |

How they interact: a command derives an edit plan (git scope, snapshots,
providers, evidence, planner) or loads one and derives it again, may publish it,
prepares the transaction (files are read again and compared with the plan),
formats and parses the prepared outputs, measures them against the policy,
previews and asks, commits, verifies and ends with a code that the launcher
passes on. Commit, undo,
repair and gc meet on the disk: the repository files, the records, the before
images and the lock. Nothing else is shared, and every command is a process of
its own, so *any* two of them may run at the same time, and either may be killed
between two system calls. Everybody else (editors, formatters, validators) may
write the repository files at any time, without the lock.

What is hard: checks made before the lock is taken and used after it; the steps
of a rollback failing in turn; a record renamed into place and then reported as
not persisted; the two-step reclaim of a stale lock; the order of a child's
exit, close, stdin and timer events; a tree that changes under a derivation of
a dozen processes, each of which sees another moment of it; and an exit code
that has to be right about all of that. `PROJECT.json` lists these hazards with the
line where each bites and the property that would notice.

## 2. Modules

| module | models | composed by |
|---|---|---|
| `AbstractLock` | what the lock promises: at most one live owner, ownership passes only by release or from a process that is gone | refined by `RepositoryLock` |
| `RepositoryLock` | every system call of acquireLock, tryReclaimStaleLock and releaseLock, pids and their reuse | - |
| `Repository` | files, records, images, siblings; the calls the operations share; editors and kills | extended by the four below |
| `Commit`, `Undo`, `Repair`, `Gc` | one operation each | `Lifecycle` |
| `Lifecycle` | any number of processes, each running one operation | `MC_Lifecycle` |
| `ProcessRunner` | runArgumentVector with the child, its descendants and the kernel | - |
| `PlanOutput` | saveEditPlan, several invocations under one name | - |
| `Discovery` | resolveEditPlan and what it calls: git scope, snapshots, scans, audit; the saved plan derived again | - |
| `Planning` | one file from the evidence of the providers to its new content: correlation, policies, edits, conflicts, application | `Previews` |
| `Diff` | renderUnifiedDiff and renderPreview as functions, and what carrying out a diff gives | `Previews`, `Measures` |
| `Previews` | the diffs of every outcome of `Planning` | `Reporting` |
| `Measures` | disjointChangedBytes as a function, with reference definitions | `Reporting` |
| `Reporting` | the measures, taken of every outcome of `Planning` | `MC_Planning` |
| `Launcher` | the Python launcher with its signal handlers | `Commands` |
| `Commands` | runEditPlan and runUndo around the engine: publish, format, inspect, measure, ask, verify, report | extends `Lifecycle` and `Launcher` |
| `Session` | commands, launchers, editors and kills on one repository | extends `Commands`, implements `Lifecycle` |
| `MC_*` | instances for TLC | |
| `RepositoryLock_proofs` | theorems on the lock | |
| `Lifecycle_proofs`, `Records_proofs` | theorems on the engine: types, images, gates; then, extending those, what exits and records say | |
| `Planning_proofs`, `Discovery_proofs` | theorems on the planner and its diffs and on the derivation | |
| `ProcessRunner_proofs`, `PlanOutput_proofs` | theorems on the process runner and on publication | |
| `Session_proofs` | sessions implement the engine's specification; what the commands and launchers promise | |

**The engine** (`Repository`, `Commit`, `Undo`, `Repair`, `Gc`). A process has a
label `pc[p]`; an action is one `await` of a file system call (all reads of one
file count as one), so edits, kills and other processes fall between any two. A
`for` loop of the code is a label with the set `todo[p]` of files left, taken in
path order, backwards in rollbacks. A failing call is `Fault(kind)`; what the
code's `catch` and `finally` blocks do then is spelled out by the labels
(`catch unwind unwindsync ...`). Local variables that survive several awaits are
variables (`renamed`, `clean` for `rollbackComplete`, `chosen` for repair's
classification, `prune` for gc's).

*Contents.* A file holds `Original`, something `Foreign`, or the output of
transaction `t`, written `t`. Comparing contents stands for the comparison of
hash, mode, size, device and inode. A file is read atomically:
`readStableFile` stats it before and after and refuses what changed meanwhile.
`before[t]` is what the plan of `t` has read, `retained[t]` the files whose
before image is stored, `window[p]` (history) the files edited since `p` last
looked.

*The lock* is abstract in `Lifecycle`: `TakeLock` takes it when it is free or
its owner is gone. That is what `RepositoryLock` implements, except for the
reclaim race (finding 1 below); the engine's results therefore hold as long as no
unlink of a stale lock misfires, and the race is recorded on its own instead of
being mixed into every other result.

*Simplifications.* runUndo verifies and previews before it asks; both only read
and are one read-only pass. An `rm -r` of gc that fails half way counts as a
failure of the removal of that transaction. The result of validators is a choice
(`passed`), and whatever files they rewrite are foreign edits. Git's second
opinion (`Gate`) passes or refuses.

**ProcessRunner.** One action per event handler or timer of `runArgumentVector`;
`terminate`, `finish`, `capture` and `finishAfterIo` are operators used by the
handlers, as in the code; a handler that terminates and finishes does both in its
one event. The environment is the worst that Unix allows: the
child and its descendants write, end, ignore SIGTERM, leave the group and hold
the pipes. No order is assumed between the stdin events and exit and close; a failed
start is reported on the next tick, before any timer.
Bytes are counted in units; the message captured for a failed stdin write is one.

**PlanOutput.** One action per file system call of `saveEditPlan`; the label is
the call that comes next. `published[p]` is what the hard link made visible.

**Planning.** Evidence arrives piece by piece; correlateEvidence, buildEditPlan
and the blocking check are one action each, applySnapshotEdits is one action per
turn of its loop. The code is sequential: what makes it hard is that four pieces
of code compare ranges in four ways (spansTouch, overlapReason, the sort and the
check of applySnapshotEdits) and must agree on touching, empty and nested ones.
Content is a sequence of units. The greedy pairing of adjacent matches takes its
candidates in the order of a key made of ids; the model allows every maximal
pairing, so results do not depend on ids.

**Diff and Previews.** A hunk is what lies between the common lines at both ends,
with some of these as context; what does not fit gives way to a marker.
`Patched` carries a diff out. No definition is a RECURSIVE operator, so that
diffs can be proved about.

**Measures and Reporting.** Myers' search from both ends is transcribed with its
diagonals and its early exits, since those are what can be wrong; a byte is a
unit. `Distance` and `ScriptLength` are the textbook tables it is compared with.
`MC_Planning` also compares the scripts with the
reference on every pair of texts of up to five units, beyond the outcomes of the
planner.

**Discovery.** The tree is the worktree, the index and the commits, as functions
from files to contents; a content stands for bytes, a *spot* for a byte range
with its text. `Holds`, `Lexical` and `Structural` say which spots a content
has, ripgrep finds and ast-grep finds; `Link` is what a path resolves to. Each
git or provider process (each listing command of a mode, hash-object and
ls-files of each input) and each read of a file, of the scope and of the
snapshot, is one action and sees the tree of its own moment; editors, `git add`
and `git commit` act in between. Every way a process can fail is the one action
`Fail`, since each of them throws. The pipeline of scans is sequential in the
code; listing the files and resolving the git scope are not, so `Discover`
interleaves with `Status`, `List`, `ReadHead`, `Scope` and `ReadScoped`. `Save`
ends the first derivation and starts that of `apply` on the saved plan, which
may lie in the tree it was made of. Providers may report files they were not
asked for (`stray`).

**Commands, Launcher and Session.** A command of process `p` has a `stage`, the
engine's own label `pc[p]` goes on inside the action `Engine` while the command
awaits it, and every other action of a command leaves the engine's variables
alone: that is the refinement of section 5. A prepared output is a version,
raised by one each time a formatter changes it; parsing, measuring and showing
remember the version they were about. Files of languages without a parser
(`Parsable`) are passed over by the syntax check, as in the code. The launcher
is its own small machine: a Python signal handler may run between any two of its
steps, and `child` is still None while `Popen` has already started the process.

## 3. Runs

All runs use 2 workers and finish in under two minutes each.

| run | instance | what it shows |
|---|---|---|
| `lock` | 4 processes, 3 pids, so that a pid comes back; 123 000 states | exclusion is lost only by a misfired unlink, or never when nobody dies; the abstract lock is implemented; attempts end; a dead holder's lock is recovered |
| `recovery` | commit, repair and gc (every flag) of one transaction over 2 of 3 files; 1 edit, 2 failing calls, 1 kill; 614 000 states | before images are kept; what an operation returns is durable, and the files are what their record says; nothing is left behind |
| `stack` | two commits sharing a file, one with keep-on-failure, and an undo; 1 edit, 1 failing call; 602 000 states | plans are fresh when they are written, nobody loses another's output |
| `undo` | commit, undo, gc; 1 edit, 1 failing call, 1 kill; 137 000 states | the same of the undo paths; seen edits survive, pruning takes dead images only, every operation ends |
| `process` | a child, 2 descendants, limit 2 and 3 units written; 145 000 states | no orphans, true results (with exact truncation and the right end), one settlement, settlement always |
| `plan_output` | 3 invocations, 3 failing calls, 1 foreign change, 1 kill; 47 000 states | never replaces, always whole, reports truly what is there and what is left behind, returns |
| `planning` | up to 3 pieces of evidence of 2 operations with different policies, 5 ranges (an insertion, touching, nested, equal) over a crlf file of 5 units; 671 000 states | what passes the planner applies, the result is the simultaneous substitution, nothing is dropped unsaid, providers agree, the change is counted as large as it is and its diff is the whole story or says that it is not |
| `session` | a rewrite of two files, one of a language that can be parsed, with 3 lists of formatters, behind a launcher with one signal, and an undo of it; 1 edit, 1 failing call, 1 kill; 1.2 million states | what is written is what was parsed, measured, shown and agreed to; exit code and outcome are true of the repository; the launcher passes signals and status on |
| `discovery` | 4 paths (a source file, an ignored file, a link to it, the saved plan, which is ignored too), 4 states of worktree, index and HEAD, 7 ways to run the command, 2 changes under it; 1.8 million states | nothing in scope is missed, nothing outside it edited, no edit on bytes nobody matched, an unchanged plan can be applied, a clean worktree stays recoverable, every derivation ends |
| `lock_race`, `gc_partial`, `undone_sync` | as small as the case allows | the findings of section 6 |

*Why the bounds are enough.* Two rewritten files are the least that can be
half-way, a third that is only read exercises the stale gate on inputs; more
files repeat a loop. The saved plan is ignored by git, so that plans that
require a clean worktree are saved and applied, too; where it is not, they end
in `dirty` before anything else can happen to them. One edit between any two
steps is the adversary of every check, two failing calls reach the failures
inside `catch` (rollback, then its record), one kill leaves every intermediate
state behind for the others. Two transactions are what it takes to destroy an
output, three operations what it takes to have one of them stale and two racing.
Formatting both files exceeds the limit of changed bytes and formatting one does
not; one list names a file that is not rewritten. Of a derivation, two changes
are what it takes to change a file and to change it back between a snapshot and
a scan. With three pids and four processes a recycled pid meets a stale lock
while two claimants race for it. The proofs of section 5 do not depend on these
bounds.

*Fairness.* `FairSpec` of the lock, the engine and PlanOutput: every process is
scheduled again (`WF` on its steps), since Node resolves or rejects each awaited
file system call. Kills, edits and faults are never forced. ProcessRunner: the
timers fire and Node reports a failed start; nothing is assumed of the child, of
its descendants, or of the streams: `Settles` holds for a child that does
nothing at all. Discovery: `WF` on its own steps, as every process it runs has a
timeout; editors, git and failures are not forced, and neither is the user's
decision to save or to apply.

*Deadlock* is not checked: in every model the processes end and the system
stops.

Every property has a mutant in `PROJECT.json`: the same definition with a
plausible bug, under which the run reports that property violated. The mutated
forms stand before the definition they mutate and are marked `Mutant`.

## 4. What the properties say

* `BeforeImageKept`: whatever instant the process is killed at, a file that holds
  a transaction's output has its before image on disk (unless gc removed it).
* `NoLostOutput`, `OnlyUnseenEditsLost`, `FreshPlan`: what may be overwritten,
  and what a commit may still rely on when it renames its first file. Node has no
  compare-and-rename, so an edit that falls after the last look is lost:
  `window` draws exactly that line.
* `RecordTruthful`: the record can be relied on. It is what the operation
  returned (`ReturnedIsDurable`), at every instant a reverted transaction has
  left no output behind (`RevertedMeansGone`), and whenever the lock is free a
  committed one is in every file or was written over since
  (`CommittedMeansApplied`), after failures and kills. `CleanExit`,
  `PrunedIsDead`, `Termination`.
* `TruthfulResult`: a process result without timeout and truncation is the
  child's own end and everything anyone wrote to its pipes; what is cut off is
  marked, and only then. runPreparedValidations relies on it when it takes stdout
  for the formatted file. `NoOrphans`, `SettlesOnce`, `Settles`.
* `NeverReplaced`, `WholePlan`, `ReportTrue` (the result, the warning and the
  sibling left behind agree), `Returns`.
* `ConflictFreeApplies`, `OutputIsSubstitution`: what buildEditPlan does not call
  a conflict can be applied from the end, and the result is what replacing all
  ranges at once gives.
* `EvidenceAccounted`: in a plan that is carried out each piece of evidence is
  cited by an edit of its operation and range, or its operation's policy skipped
  it, which for an unparseable match needs no diagnostic. `ProvidersAgree`: text
  and structure that touch without being one span stop the plan, unless one of
  the spans was found by both.
* `CountedTruly`: the count that `maxChangedBytes` limits lies between the
  Levenshtein distance and the length of a shortest script of the two contents.
  It can exceed the size of the edits: "xya" to "apq" counts four.
  `DiffTells`: a diff keeps to its budget, is empty only if no line changed, and
  without the marker it can be carried out and is complete.
* `NothingMissed`: in a file of the scope that nobody touched, every match is in
  the plan, or the plan says why not. `ScopeKept`: no edit outside the
  operation's paths, globs and the files git listed, whatever a provider reports.
* `MatchedIsReplaced`: snapshots and scans see different moments, and only the
  hash of each match ties them together. `RefusedOnlyIfChanged`: short of
  processes that fail and while nobody changes anything, the making of a plan is
  refused only for what its command asks of the tree (an operand that is not
  there or out of bounds, a repository, a clean worktree), and the saved plan is
  not refused at all, be it saved in its own tree. Left out by name
  (`ShownByStatus`) is a plan that requires a clean worktree and lies where git
  status shows it (section 6).
  `Recoverable`: what requireClean is for. `Ends`.
* `WrittenAsShown`: formatters change prepared outputs after planning; what
  reaches the disk is the version that was parsed (if its language has a
  parser), measured and shown, and somebody agreed. `WrittenIsApplied`,
  `PartialIsTold`: exit codes 0 and 3 are true of the repository; the first as
  far as `CommittedMeansApplied` is, since runEditPlan reports what its record
  says: not if an undo of the transaction was killed half way or could not write
  down that it had failed.
* `EachRelayedOnce`, `StatusPassedOn`: no signal is lost or doubled around the
  start of the child, and the launcher ends with its child's exact status, unless
  a signal came while its own handlers were out. A child that was killed is left
  out by name: the launcher then exits with 1 (section 6).

The exceptions written into some of them (a directory sync that fails after the
record was renamed, a repair that classifies while an undo or another commit
runs, a second failing call) are the disagreements of section 6.

## 5. What is proved

Assumptions: `LockConstants`, `RepositoryConstants`, `Flags`, `Bounds`,
`PlanningConstants`, `PreviewConstants`, `SessionConstants`,
`DiscoveryConstants` and `RunnerConstants` (sets are sets of the right things;
each transaction is prepared once; contents of editors differ from outputs of
transactions; a link resolves in one step; providers find only what is there).
All are evaluated by TLC on every run of their modules. Nothing is assumed of
the number of processes, files, transactions, edits, faults or kills, or of what
a child writes and starts.

| theorem | statement |
|---|---|
| `RepositoryLock_proofs!LockExcludes`, `LockExcludesWithoutDeath`, `LockImplementsAbstract` | the safety properties of the run `lock`, and the refinement of `AbstractLock` |
| `RepositoryLock_proofs!TypeCorrect`, `PayloadTrue`, `LiveLockIsKept` | types; a payload in the lock file is its creator's; nobody removes a live lock short of a misfire |
| `Lifecycle_proofs!TypeCorrect` | `Spec => []TypeOK` |
| `Lifecycle_proofs!ImagesAreKept` | `Spec => []BeforeImageKept` |
| `Lifecycle_proofs!OutputsSurvive` | `Spec => NoLostOutput` |
| `Lifecycle_proofs!EditsSeenSurvive` | `Spec => OnlyUnseenEditsLost` |
| `Lifecycle_proofs!PlansAreFresh` | `Spec => []FreshPlan` |
| `Records_proofs!ExitsAreClean` | `Spec => []CleanExit` |
| `Records_proofs!RecordsAreTruthful` | `Spec => []RecordTruthful`; its parts are `ReturnsAreDurable`, `RevertedIsGone`, `CommittedIsApplied` |
| `Records_proofs!PrunedStaysDead` | `Spec => []PrunedIsDead` |
| `Planning_proofs!TypeCorrect`, `PassedPlansApply` | `Spec => []TypeOK`, `Spec => []ConflictFreeApplies` |
| `Planning_proofs!OutputsAreSubstituted` | `Spec => []OutputIsSubstitution` |
| `Planning_proofs!DiffsTellAll` | `Spec => []DiffTells` |
| `Planning_proofs!EvidenceIsAccounted`, `ProvidersDoAgree` | `Spec => []EvidenceAccounted`, `Spec => []ProvidersAgree` |
| `Session_proofs!SessionImplementsLifecycle` | `SessionSpec => Spec`: what is proved of the engine holds of sessions |
| `Session_proofs!InterruptedKeepsImages` | `SessionSpec => []BeforeImageKept` |
| `Session_proofs!OutputsWereShown` | `SessionSpec => []WrittenAsShown` |
| `Session_proofs!WrittenHolds`, `PartialCommitsAreTold` | `SessionSpec => []WrittenIsApplied`, `SessionSpec => []PartialIsTold` |
| `Session_proofs!StatusIsPassedOn`, `SignalsRelayedOnce` | `SessionSpec => []StatusPassedOn`, `SessionSpec => []EachRelayedOnce` |
| `Discovery_proofs!NothingIsMissed` | `Spec => []NothingMissed` |
| `Discovery_proofs!DerivationInvariant` | `Spec => []IInv` |
| `Discovery_proofs!ReplacesMatches` | `Spec => MatchedIsReplaced` |
| `Discovery_proofs!WritesAreRecoverable` | `Spec => []Recoverable` |
| `Discovery_proofs!PlansStayInScope` | `Spec => []ScopeKept`, if no other path is a link to the saved plan |
| `Discovery_proofs!SavedPlansCanBeApplied` | `Spec => []RefusedOnlyIfChanged`, with the exceptions it names, if no other path is a link to the saved plan |
| `ProcessRunner_proofs!RunnerInvariant` | `Spec => []IInv` |
| `ProcessRunner_proofs!NobodyIsLeft` | `Spec => []NoOrphans` |
| `ProcessRunner_proofs!ResultsAreTrue` | `Spec => []TruthfulResult` |
| `ProcessRunner_proofs!OnlyOneSettlement` | `Spec => SettlesOnce` |
| `PlanOutput_proofs!PublicationInvariant` | `Spec => []PublicationInv` |
| `PlanOutput_proofs!PublishedIsWhole`, `ReportsAreTrue`, `DestinationIsKept` | `Spec => []WholePlan`, `Spec => []ReportTrue`, `Spec => NeverReplaced` |

*The lock.* Exclusion is not inductive: it needs that whoever is inside created
the file that is there, or an unlink has misfired, and that a claimant about to
unlink has read a payload of a process that was dead when it was probed. That
invariant also gives the step of the refinement.

*Before images.* `BeforeImageKept` needs two more facts: a file a commit is about
to rename over, or has renamed, is already retained (`Staged`), and only gc, of a
transaction it prunes, removes images. `Others` and `StepEffect` say once, for
all operations, what a step of one process can do to another's local state and to
the disk; the later proofs cite them instead of opening forty actions again.

*The gates.* Three things together: between acquireLock and releaseLock a process
owns the lock (`LockHeld`, labels `Locked`); while a transaction is planned
nobody can undo or repair it (`PlannedFirst`), so its plan is never remade under
a running operation; and for each label, what the operation has already verified
of each file and may still rely on. Since only the owner of the lock writes
repository files, a verified file can only be changed by an editor, and then it
is in `window[p]`.

*The ends.* `ExitInv` says of each process, as long as no unlink fails: at which
labels it has no sibling on disk (`Tidy`), that it owns the lock only inside or
when it was killed there (`Holds`), and that an outcome is set only where the
record already says so (`Durable`). `Holds` and `Durable` need `LockHeld`: no
other process, gc included, writes a record while this one is inside.

*Records.* That a file does not hold the output of `t` is not inductive: the
rollback of another transaction, planned on that output, would put it back.
`Stems(B, f)` are the contents that descend from those of `B`: `B`, the outputs
planned on one of them, the outputs planned on these, and so on. A reverted
transaction has no descendant in its files (`Apart`), a committed one has only
descendants of its own output or of an edit there (`Applied`). Both have the same
shape: the file is in a set of contents, and whoever may still write the file
(`Grip`) was planned on a content of that set. They are kept because the set is
even (`Even`): it holds an output exactly if it holds what that was planned on,
so neither renaming nor restoring leaves it. That needs that no transaction is
planned on a descendant of itself (`Rooted`). Around this core, `RevertedInv` and
`CommittedInv` say for the labels of each operation how far it is with its own
files when it is about to write a record. What gc has judged stays dead because a
reverted transaction is only ever left with `Apart` (`PrunedStaysDead`).

*The planner.* Two facts make the loop safe: an edit is determined by its range
and replacement (`Keyed`), and of disjoint half-open ranges the one that sorts
first from the end begins where all others have ended (`LastIsBehind`). The
second fails if ties on the start are broken the other way: an insertion at the
start of a longer edit must come after it. `OutputsAreSubstituted` adds what the
loop has written: up to `previousStart` the snapshot, from there on what the
reference says, without an insertion at that very place that is still to come
(`Rest`). One turn (`Turn`) has three cases: an insertion where the text written
so far begins, an insertion before a unit that is kept, and a replacement; the
units in between are untouched (`UntouchedGap`) and those under a replacement
write nothing (`Replacing`). The reference recurs on the positions of the file.
Induction on them, and that the recursive function exists at all, are obtained
from the least element of a set of numbers (`LeastExists`, `DownTo`), which
follows from the library's theorem that `<` is well founded; so no theorem with
an operator parameter is needed.

*Evidence.* A match holds the evidence of one operation and range, or of a pair
of such; pairs are disjoint, so no evidence is in two matches
(`EvidenceInOneMatch`). Two replacements for one match would be two edits of one
range, a conflict, so in a plan that is carried out a match has one replacement
and its edit cites all of it (`OneReplacement`, `PlannedIsCited`). Where two
spans touch and neither was found by both, both are candidates, and a maximal
pairing takes one of them (`TouchingIsAdjacent`): an adjacent match, which
blocks.

*Publication.* `Progress` says for each call of `saveEditPlan` what is on disk
and what has been published when it comes; `OthersApart` that nobody else touches
it. The retries of the unlink are bounded because the second failure returns.

*Sessions.* The mapping is the identity on the engine's variables; the proof is
that every action of a command but `Engine` and `Killed` stutters, and that those
two are steps of one process. The theorems on images and records follow.
`SessionInv` adds what the commands know: before a rewrite has its consent there
is no trace of its transaction on disk; the versions that were inspected and
shown do not change after it; and whoever records a partial commit is on its way
to return it, by 3 or by one of the exceptions of `PartialIsTold`.

*The launcher.* `LaunchInv` counts signals: what has arrived is what was passed
on, what waits to be, and what ended the launcher while its own handlers were
out. The status is that of the child by `Reap` and `PassOn`, SIGKILL apart. While
`child` is still None and `Popen` has started the process, a signal
waits, and the loop after the assignment takes all that wait.

*Discovery.* `IInv` has one part per question: what the derivation holds is
below the operation's paths (`InOperand`), read from the tree or excluded
(`Snapped`), consistent with its snapshot from `built` on (`Hashed`), inside the
git scope (`InRepository`), and, where a clean worktree is demanded, checked
clean when it is about to be written (`CleanWhenReady`). `ReplacesMatches` is
`Hashed` and the comparison of prepareTransaction. `PlansStayInScope` has a
hypothesis, `PlanNotLinked`: the saved plan is excluded by the name it has, so a
link to it that the operation names brings it back into the derivation.
`NothingIsMissed` follows one file that nobody touches through the stages of a
derivation: at each, what it has been found to be is what it is (`Followed`),
and what is left out of the plan is owed to a diagnostic (`NoneLost`).

`SavedPlansCanBeApplied` compares two derivations. As long as nobody edits
(`Quiet`), what a derivation holds at each stage is a function of the tree: the
allowed files are `Allow`, the evidence is `Early` and then `Later`, the
diagnostics are `Remarks`, the audit is `Audited`. So within one derivation
there is nothing to refuse but what the command asks of the tree: an operand
(`OnRefusals`), a repository or a clean worktree (`Verdict`). What is saved is
`Plan0` with `Identity0`, and whoever got that far was not refused any of these
(`Progress`). Saving adds
the plan to the tree, where it is excluded by its name; `AsBefore` says that
nothing else changes, and the lemmas after it that each of these functions gives
the same for the second derivation; git status does, too, unless it shows the
plan (`ShownByStatus`). Two facts of the code are needed: saveEditPlan
never replaces a file (the guard of `Save`), or the plan could take the place of
an input; and no input is a link to it (`PlanNotLinked`).

*The diff.* Lines are opaque: of splitLines it only matters that it gives a
sequence (`LinesAreSequence`). `CommonIsPrefix` finds the common prefix by the
least place where two sequences differ; the suffix is that of the rest reversed,
so the two never overlap (`Parts`). A diff without the marker has a hunk that
covers both files, and `BodyIs` gives its lines one by one. What is picked from
it by two of the three tags leaves out one run of lines, and the k-th of the
others is counted over that gap (`Gap`, `Picked`). So the kept and the added lines
are the new file, the kept and the removed ones the old file.

*The process runner.* A close that could not settle waits for stdin, with the
pipes read and nobody left to write (`Events`), so whatever settles then reports
all output. The escalation and the forced end are only armed in a run that has
timed out or overflowed, and the forced end only once an exit or an issued
signal is known (`Timers`): that is why a forced result always explains itself
and never passes for the child's own. `Reported` and `NoOrphans` last because
`Aged` holds of every step: an end stays, writers do not come back, and an empty
group stays empty, as whoever left it takes its descendants along.

The inductive invariants were checked with TLC on the instances of section 3
before they were proved.

Two of the properties changed when their proofs failed. The invariant of a
repair could not be shown of a file that an editor had put back as planned while
another commit was about to overwrite it; TLC then found the schedule, 60 states
long, and `Unexceptional` names it (section 6). `WrittenIsApplied` was claimed of
any number of failing calls and of undos killed half way, which no instance had
reached. `RevertedMeansGone` on the other hand turned out to hold while the lock
is held, too. `Obstacle` was a `CASE` with overlapping guards, which TLC resolves
by order and TLA+ does not. `Save` did not say that saveEditPlan never replaces a
file, without which a saved plan could have destroyed an input of its own.

*Only model-checked:* `CountedTruly`: its definitions are a search that calls
itself on both halves, tables filled recursively and a fold over the script, and
what such definitions compute for every input needs an induction over data.
*Out of the prover's reach:* `Termination`, `AttemptEnds`,
`SoleSurvivorRecovers`, `Settles`, `Returns`, `Ends` (liveness under fairness).

## 6. Where the code does something else than it says

| run | what happens |
|---|---|
| `lock_race` | Two processes read the same stale lock; one removes it and creates its own, the other then removes *that* and creates its own: both are inside. `src/transaction.ts:567` says only one racing claimant wins. |
| `gc_partial` | gc judges records without the lock and deletes under it: with `--include-undoable`, a record read as committed becomes partial-commit before its images are removed. `README.md:152` says partial-commit records are never pruned. |
| `undone_sync` | The record `undone` is renamed into place, the directory sync fails, the undo rolls forward: record undone, files committed (`tests/transaction.test.ts:725` expects committed). |

Further disagreements, found while modelling and not kept as runs:

* When the record of a complete rollback cannot be written, the catch renames
  the before siblings a second time (`src/transaction.ts:1042`); they are gone,
  so the transaction is called partial-commit although no file holds its output.
  `README.md:135` says that some files hold committed content.
  `CommittedMeansApplied` admits a second failing call for this reason.
* repair classifies the files before it has the lock (`src/maintenance.ts:205`).
  If that falls between the restoring of an undo and its roll-forward, it takes
  them for restored and records rolled-back over committed files
  (`README.md:135`). `RevertedMeansGone` and `PrunedIsDead`
  exclude an undo and a repair together.
* The same classification can be outdated by a commit. A file of the transaction
  was planned on an edit and is put back to it by an editor; another commit,
  planned on the output, has already passed its gates and overwrites it; repair
  takes the file for restored; the commit then fails, puts the output back, and
  repair records rolled-back over it. `Unexceptional` excludes repairs of
  transactions that were planned on contents of editors.
* A repair that meets a file edited after its classification stops after others
  were restored, although `docs/commands.md:92` says that a single blocked file
  prevents any restoration.
* A CLI killed by SIGKILL makes the launcher fail in `signal.signal` and exit
  with 1 (`PassOn`), while `python/tfs_ripast/__main__.py:90` promises the
  child's exact status. `StatusPassedOn` leaves this case out by name.
* A preview whose line budget is used up exactly by one file leaves the next
  file out without the marker (`PreviewStopsSilently` in `MC_Planning`), and
  a change of line ends alone has an empty diff (`LinesOf`).
* A plan made with requireClean and saved in its own worktree where git does not
  ignore it can never be applied as it lies: the saved plan is an untracked file,
  `repositoryStatus` excludes only `.tfs-ripast` (`src/git.ts:209`), and apply
  refuses the dirty worktree (`src/git.ts:267`) although nobody edited anything.
  The listings of the same derivation do exclude the saved plan. No document
  says that such a plan can be applied; `RefusedOnlyIfChanged` excludes it
  (`ShownByStatus`), and plans saved outside the worktree, below `.tfs-ripast` or
  under an ignore rule are not concerned.
* A commit that succeeded and then fails to sync its record or to remove the
  lock ends with exit code 1, as `PartialIsTold` spells out for partial ones.

## 7. What is not modelled

*In modelled components.* Of the planner and the correlation: ids and the
normalisation of paths, and evidence of two hashes for one range, on which
buildEditPlan throws. Of the providers: the parsing of their output, byte
offsets and encodings (spots), limits (`Fail`). Of the runner: the argument
limits and the UTF-8 decoding of its result, a group that refuses the signal
(`process.kill` failing with anything but ESRCH throws out of the handler), and
the reuse of a group id between
the end of the last member and the final SIGKILL of `finish`. Of the command
line: the parser, the text of the output and the commands that only read. Of the
validation runner: which program a named check stands for. Of snapshots: the
rejection of hard links, devices and paths that escape the root, which is a read
that throws.

*Hazards without a property.* A runner that is killed by a signal it does not
handle: its exit listener does not run and the detached group goes on; no
document says otherwise, so there is nothing to check. Before images of a commit
that ends before its first record: they stay for ever, as gc walks records only.
A claimant whose payload write fails leaves an empty lock file nobody reclaims,
by design. `finalizeTransactionValidations` rewrites a record without the lock;
it is exported and called by no command and no test.

*Not at all.* Schemas, languages and output formatting: data without state. The
Python plan compiler: a pure expansion of a template. The installer's swap of
directories. The benchmark harness.

## 8. What is left

1. finalizeTransactionValidations as a fifth operation of `Lifecycle`, as soon as
   a command calls it.
2. The installer's swap of trees with its rollback.
3. An abstract transaction (all, nothing or reported as partial) that
   `Lifecycle` is shown to implement for a commit nobody kills.
4. Proofs: what of `CountedTruly` the induction on positions reaches, for which
   Myers' search would have to become a recursive function.
