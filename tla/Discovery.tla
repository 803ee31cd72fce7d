------------------------------- MODULE Discovery -------------------------------
(***************************************************************************)
(* Where the evidence of an edit plan comes from, while editors and git    *)
(* change the tree under the derivation:                                   *)
(*   src/src/cli-discovery.ts   resolveEditPlan                            *)
(*   src/src/git.ts             resolveGitScope, auditGitScope             *)
(*   src/src/providers/         the scans of ripgrep and ast-grep          *)
(*   src/src/cli.ts             plan, then apply of the saved plan         *)
(* One operation of one rewrite plan is derived, and once more if the plan *)
(* is saved and applied.  Each process that is run, and each file that is  *)
(* read, sees the tree of its own moment.  Any process may time out, be    *)
(* truncated or end badly: every such branch throws (Fail).  A content     *)
(* stands for the bytes of a file, a spot for a byte range with the text   *)
(* found there.  Correlation and the planner's policies are in Planning.   *)
(***************************************************************************)
EXTENDS Naturals, Sequences, FiniteSets

CONSTANTS
  File,       \* paths below the root
  Operand,    \* the files below the operation's paths
  Reserved,   \* files of .git and .tfs-ripast
  Ignored,    \* files the ignore rules match
  FileOperand, \* the operation's paths that name a file
  Globbed,    \* files the operation's globs admit
  Link,       \* the file a path resolves to, itself unless it is a symlink
  Language, Unknown,
  Detected,   \* the language of a file by its name, or Unknown
  Content, Absent,
  Versions,   \* the contents an edit may give a file
  Unsnapshot, \* contents snapshotTargets leaves out: binary files
  Spot,
  Holds,      \* the spots whose text a content has at their range
  Lexical,    \* the spots ripgrep finds in a content
  Structural, \* the spots ast-grep finds in a content taken as a language
  Broken,     \* languages in which the pattern does not parse
  PlanFile,   \* the saved plan, in the repository or not (then not in File)
  Starts,     \* <<HEAD, index, worktree>> the derivation may start from
  Options,    \* what the command may be run with: [git, mode, clean, respect,
              \* langs, stray], stray being files ripgrep reports unasked
  MaxEdits

Tree == [File -> Content \cup {Absent}]
Mode == {"all", "tracked", "changed", "staged", "since"}

ASSUME DiscoveryConstants ==
  /\ FileOperand \subseteq Operand /\ Operand \subseteq File
  /\ Link \in [File -> File]
  /\ \A f \in File : Link[Link[f]] = Link[f]
  /\ Absent \notin Content /\ Unknown \notin Language
  /\ Detected \in [File -> Language \cup {Unknown}]
  /\ \A c \in Content : Lexical[c] \subseteq Holds[c] /\ Holds[c] \subseteq Spot
  /\ \A c \in Content, l \in Language : Structural[c][l] \subseteq Holds[c]
  /\ Versions \in [File -> SUBSET Content]
  /\ Starts \subseteq Tree \X Tree \X Tree
  /\ \A o \in Options :
       o.mode \in Mode /\ o.langs \in Seq(Language) /\ o.stray \subseteq File

VARIABLES
  content, index, \* the worktree and the index
  history,        \* the trees of the commits, the last one being HEAD
  edits,          \* changes to any of them so far
  touched,        \* files changed since the derivation began
  opt,            \* the options of the command
  round,          \* "plan" or "apply"
  stage, reason,  \* where the derivation is; what it threw
  git,            \* where resolveGitScope is
  listed,         \* discoverSnapshotPaths, or Pending
  scope,          \* GitScope: files, head; listings still to come
  allowed,        \* allowedByScope
  todo,           \* files still to be read
  snap,           \* the snapshots, a function on the files read
  snapshotted,    \* the files that were when ripgrep was asked
  evidence,       \* <<provider, file, spot>>
  notes,          \* provider diagnostics, <<code, file>>
  calls,          \* scans of ast-grep still to be made, by language
  groups,         \* <<language, files>> of the scan that is being made
  audit,          \* gitScope.inputs of the files audited
  saved           \* the plan that was saved

tree == <<content, index, history, edits>>
work == <<round, stage, reason, git, listed, scope, allowed, todo, snap,
          snapshotted, evidence, notes, calls, groups, audit, saved>>
vars == <<tree, touched, opt, work>>

Nothing == [f \in {} |-> Absent]
Pending == {"pending"}
NoScope == [files |-> {}, head |-> 0, listings |-> {}]

Init ==
  /\ \E s \in Starts : history = <<s[1]>> /\ index = s[2] /\ content = s[3]
  /\ edits = 0
  /\ opt \in Options
  /\ round = "plan" /\ saved = Nothing
  /\ stage = "search" /\ reason = "none" /\ git = "status"
  /\ listed = Pending /\ scope = NoScope
  /\ allowed = {} /\ todo = {} /\ snap = Nothing /\ snapshotted = {}
  /\ evidence = {} /\ notes = {}
  /\ calls = <<>> /\ groups = {}
  /\ audit = Nothing
  /\ touched = {}

-----------------------------------------------------------------------------
(* The repository *)

Committed == history[Len(history)]
Tracked == {f \in File : index[f] # Absent}
Present == {f \in File : content[f] # Absent}
Hidden(f) == opt.respect /\ f \in Ignored
Untracked == {f \in Present \ Tracked : ~Hidden(f)}
Staged == {f \in Tracked : index[f] # Committed[f]}
Unstaged == {f \in Tracked \cap Present : content[f] # index[f]}
Since == {f \in Tracked \cap Present : content[f] # history[1][f]}

\* Mutant: staged changes and new files are not counted.
CleanUnstaged == Unstaged = {}

\* git status --porcelain prints nothing.
Clean == \A f \in File \ Reserved :
  IF f \in Tracked THEN content[f] = index[f] /\ index[f] = Committed[f]
  ELSE Committed[f] = Absent /\ (content[f] # Absent => f \in Ignored)

\* git check-ignore does not report tracked files.
GitIgnored(f) == opt.git /\ Hidden(f) /\ f \notin Tracked

\* The mode's git commands, and what each of them lists.
Listings(mode) ==
  IF mode = "changed" THEN {"unstaged", "staged", "untracked"} ELSE {mode}
Listed(command) ==
  (CASE command = "tracked"   -> Tracked
     [] command = "staged"    -> Staged
     [] command = "unstaged"  -> Unstaged
     [] command = "untracked" -> Untracked
     [] command = "since"     -> Since
     [] OTHER                 -> Tracked \cup Untracked) \ Reserved
Listing(mode) == UNION {Listed(command) : command \in Listings(mode)}

\* rg --files, which follows no link and obeys the ignore files.
RgFiles == {f \in Present \ Reserved : Link[f] = f /\ ~Hidden(f)}

\* Mutant: the saved plan is not kept out of its own derivation.
ExcludedNothing == {}
\* savedArtifactExclusions
Excluded == IF round = "apply" THEN {PlanFile} ELSE {}

Readable(f) == content[f] # Absent /\ content[Link[f]] # Absent

-----------------------------------------------------------------------------
(* Candidates *)

Throw(why) == stage' = "threw" /\ reason' = why

\* requiresRepository
NeedsGit == opt.mode # "all" \/ opt.clean

\* A path that is named is listed whatever the ignore rules say, and must exist.
Discover ==
  /\ stage \in {"search", "scope"} /\ listed = Pending
  /\ \/ /\ \E f \in FileOperand : ~Readable(f)
        /\ Throw("operand") /\ UNCHANGED listed
     \/ /\ \A f \in FileOperand : Readable(f)
        /\ listed' = (RgFiles \cap Operand) \cup FileOperand
        /\ UNCHANGED <<stage, reason>>
  /\ UNCHANGED <<tree, touched, opt, round, git, scope, allowed, todo, snap,
                 snapshotted, evidence, notes, calls, groups, audit, saved>>

Status ==
  /\ stage = "search" /\ git = "status"
  /\ \/ ~opt.git /\ NeedsGit /\ Throw("git") /\ UNCHANGED <<git, scope>>
     \/ /\ ~opt.git /\ ~NeedsGit
        /\ git' = "none" /\ UNCHANGED <<stage, reason, scope>>
     \/ /\ opt.git /\ opt.clean /\ ~Clean
        /\ Throw("dirty") /\ UNCHANGED <<git, scope>>
     \/ /\ opt.git /\ (opt.clean => Clean)
        /\ git' = "list"
        /\ scope' = [scope EXCEPT !.listings = Listings(opt.mode)]
        /\ UNCHANGED <<stage, reason>>
  /\ UNCHANGED <<tree, touched, opt, round, listed, allowed, todo, snap,
                 snapshotted, evidence, notes, calls, groups, audit, saved>>

ListBy(command) ==
  /\ stage = "search" /\ git = "list" /\ command \in scope.listings
  /\ scope' = [scope EXCEPT !.files = @ \cup Listed(command),
                            !.listings = @ \ {command}]
  /\ git' = IF scope'.listings = {} THEN "head" ELSE "list"
  /\ UNCHANGED <<tree, touched, opt, round, stage, reason, listed, allowed,
                 todo, snap, snapshotted, evidence, notes, calls, groups,
                 audit, saved>>

List == \E command \in scope.listings : ListBy(command)

ReadHead ==
  /\ stage = "search" /\ git = "head"
  /\ git' = "resolved"
  /\ scope' = [scope EXCEPT !.head = Len(history)]
  /\ UNCHANGED <<tree, touched, opt, round, stage, reason, listed, allowed,
                 todo, snap, snapshotted, evidence, notes, calls, groups,
                 audit, saved>>

\* scopedRepositorySnapshots: what can be read of the listed files, under the
\* names they resolve to; without git, of what rg lists for the root.
Identities(S) ==
  {Link[f] : f \in {g \in S \ Excluded :
     Readable(g) /\ content[Link[g]] \notin Unsnapshot}} \ Reserved

\* Mutant: the tree is taken to be a repository.
ResolvedGit == git = "resolved"
Resolved == git \in {"none", "resolved"}

\* The files that are read to know what may be snapshotted.
Scope ==
  /\ stage = "search" /\ Resolved /\ (git = "resolved" => listed # Pending)
  /\ todo' = (IF git = "resolved" THEN scope.files ELSE RgFiles) \ Excluded
  /\ stage' = "scope"
  /\ UNCHANGED <<tree, touched, opt, round, reason, git, listed, scope, allowed,
                 snap, snapshotted, evidence, notes, calls, groups, audit,
                 saved>>

ReadScoped(f) ==
  /\ stage = "scope" /\ f \in todo
  /\ todo' = todo \ {f}
  /\ allowed' = allowed \cup Identities({f})
  /\ UNCHANGED <<tree, touched, opt, round, stage, reason, git, listed, scope,
                 snap, snapshotted, evidence, notes, calls, groups, audit,
                 saved>>

\* Mutant: only what rg lists is looked at.
TargetsListed == {f \in listed \ Excluded : git = "resolved" => f \in allowed}

\* targetSnapshotPaths
Targets ==
  {f \in listed \ Excluded : git = "resolved" => f \in allowed}
    \cup (allowed \cap Operand)

Target ==
  /\ stage = "scope" /\ todo = {} /\ listed # Pending
  /\ todo' = Targets
  /\ stage' = "snapshot"
  /\ UNCHANGED <<tree, touched, opt, round, reason, git, listed, scope, allowed,
                 snap, snapshotted, evidence, notes, calls, groups, audit,
                 saved>>

\* snapshotTargets, one file; a file that is gone makes it throw.  Of a file
\* that is reached twice the last reading stays, if it was not snapshotted
\* before ripgrep was asked.
Snapshot(f) ==
  /\ stage \in {"snapshot", "late"} /\ f \in todo
  /\ todo' = todo \ {f}
  /\ LET g == Link[f] IN
     \/ ~Readable(f) /\ Throw("gone") /\ UNCHANGED snap
     \/ /\ Readable(f)
        /\ snap' = IF \/ content[g] \in Unsnapshot
                      \/ g \in Reserved \cup snapshotted
                   THEN snap
                   ELSE [h \in DOMAIN snap \cup {g} |->
                           IF h = g THEN content[g] ELSE snap[h]]
        /\ UNCHANGED <<stage, reason>>
  /\ UNCHANGED <<tree, touched, opt, round, git, listed, scope, allowed,
                 snapshotted, evidence, notes, calls, groups, audit, saved>>

-----------------------------------------------------------------------------
(* The scans *)

Candidates == DOMAIN snap \cap Operand

\* What both providers ask of a file and of what it resolves to.
Admitted(f) ==
  \A g \in {f, Link[f]} :
    g \in (Operand \cap Globbed) \ Reserved /\ ~GitIgnored(g)

\* ripgrep takes the first of the operation's languages for a candidate.
Spoken(f) ==
  opt.langs = <<>> \/ \A g \in {f, Link[f]} :
    g \in Candidates \/ \E i \in DOMAIN opt.langs : opt.langs[i] = Detected[g]

\* prepareOperationScope, and ripgrep's check of the files among the paths,
\* where a link that leads nowhere is no file.
Refused ==
  \E f \in FileOperand :
    \/ GitIgnored(f) \/ GitIgnored(Link[f])
    \/ {f, Link[f]} \cap Reserved # {} \/ Link[f] \notin Operand
    \/ Readable(f) /\ ~({f, Link[f]} \subseteq Globbed /\ Spoken(f))

Found(by, files, spots) == UNION {{by} \X {f} \X spots[f] : f \in files}
FilesOf(E) == {e[2] : e \in E}
Noted(code, files) == {code} \X files

\* Mutant: what is found outside the scope of git is snapshotted as well.
LateUnscoped(E) == FilesOf(E) \ (DOMAIN snap \cup Excluded)

\* discoveredByProvider
Late(E) == {f \in FilesOf(E) \ (DOMAIN snap \cup Excluded) :
              git = "resolved" => f \in allowed}

ScanLexical ==
  /\ stage = "snapshot" /\ todo = {}
  /\ snapshotted' = DOMAIN snap
  /\ calls' = IF opt.langs = <<>> THEN <<Unknown>> ELSE opt.langs
  /\ \/ /\ Refused /\ Throw("operand")
        /\ UNCHANGED <<evidence, notes, todo>>
     \/ /\ ~Refused /\ ~(Candidates \subseteq Present) /\ Throw("gone")
        /\ UNCHANGED <<evidence, notes, todo>>
     \/ /\ ~Refused /\ Candidates \subseteq Present
        /\ LET stray == {f \in opt.stray \ Excluded : Readable(f)}
               seen == IF Candidates = {} THEN {} ELSE Candidates \cup stray
               found == Found("ripgrep", seen,
                              [f \in seen |-> Lexical[content[Link[f]]]])
           IN  /\ evidence' = {e \in found : Admitted(e[2]) /\ Spoken(e[2])}
               /\ notes' = Noted("rejected", FilesOf(found \ evidence'))
               /\ todo' = Late(evidence')
        /\ stage' = "late" /\ UNCHANGED reason
  /\ UNCHANGED <<tree, touched, opt, round, git, listed, scope, allowed, snap,
                 groups, audit, saved>>

\* AstGrepProvider.scan sorts the candidates by language: each has its own, or
\* for each language the operation names all have that.
Validate ==
  /\ stage = "late" /\ todo = {} /\ groups = {} /\ calls # <<>>
  /\ calls' = Tail(calls)
  /\ LET l == calls[1]
         Decision(f) == IF l = Unknown THEN Detected[f] ELSE l
         admitted == {f \in Candidates : Admitted(f)}
         spoken == {Decision(f) : f \in admitted} \ {Unknown}
     IN  /\ groups' = {<<m, {f \in admitted : Decision(f) = m}>> : m \in spoken}
         /\ notes' = notes \cup Noted("rejected", Candidates \ admitted)
                       \cup Noted("unsupported",
                                  {f \in admitted : Decision(f) = Unknown})
  /\ UNCHANGED <<tree, touched, opt, round, stage, reason, git, listed, scope,
                 allowed, todo, snap, snapshotted, evidence, audit, saved>>

\* mergeProviderResults: the first language that finds anything in a file.
Taken(E) == {e[2] : e \in {d \in E : d[1] = "ast-grep"}}

\* One process of ast-grep; a pattern its language cannot parse is reported.
ScanStructural(g) ==
  /\ stage = "late" /\ g \in groups
  /\ groups' = groups \ {g}
  /\ \/ /\ g[1] \in Broken
        /\ notes' = notes \cup Noted("pattern-error", g[2])
        /\ UNCHANGED evidence
     \/ /\ g[1] \notin Broken
        /\ LET seen == g[2] \cap Present
               found == Found("ast-grep", seen,
                              [f \in seen |-> Structural[content[f]][g[1]]])
           IN  /\ evidence' = evidence \cup {e \in found :
                                Admitted(e[2]) /\ e[2] \notin Taken(evidence)}
               /\ notes' = notes \cup Noted("rejected",
                             {f \in FilesOf(found) : ~Admitted(f)})
  /\ UNCHANGED <<tree, touched, opt, round, stage, reason, git, listed, scope,
                 allowed, todo, snap, snapshotted, calls, audit, saved>>

\* Evidence of a file that is not snapshotted is dropped and reported.
Omit ==
  /\ stage = "late" /\ todo = {} /\ groups = {} /\ calls = <<>>
  /\ evidence' = {e \in evidence : e[2] \in DOMAIN snap}
  /\ notes' = notes \cup Noted("omitted", FilesOf(evidence) \ DOMAIN snap)
  /\ stage' = "audit"
  /\ todo' = IF git = "resolved" THEN DOMAIN snap ELSE {}
  /\ UNCHANGED <<tree, touched, opt, round, reason, git, listed, scope, allowed,
                 snap, snapshotted, calls, groups, audit, saved>>

-----------------------------------------------------------------------------
(* The plan *)

\* git hash-object, then git ls-files --stage: one input after the other.
HashObject(f) ==
  /\ stage = "audit" /\ f \in todo /\ todo \cap DOMAIN audit = {}
  /\ \/ f \notin Present /\ Throw("gone") /\ UNCHANGED audit
     \/ /\ f \in Present
        /\ audit' = [h \in DOMAIN audit \cup {f} |->
                       IF h = f THEN <<content[f]>> ELSE audit[h]]
        /\ UNCHANGED <<stage, reason>>
  /\ UNCHANGED <<tree, touched, opt, round, git, listed, scope, allowed, todo,
                 snap, snapshotted, evidence, notes, calls, groups, saved>>

IndexBlob(f) ==
  /\ stage = "audit" /\ f \in todo \cap DOMAIN audit
  /\ todo' = todo \ {f}
  /\ audit' = [audit EXCEPT ![f] = <<@[1], index[f]>>]
  /\ UNCHANGED <<tree, touched, opt, round, stage, reason, git, listed, scope,
                 allowed, snap, snapshotted, evidence, notes, calls, groups,
                 saved>>

Audit(f) == HashObject(f) \/ IndexBlob(f)

Derived == [inputs |-> snap, evidence |-> evidence, diagnostics |-> notes]
Identity == [head |-> scope.head, blobs |-> audit]

\* Mutant: the evidence is not held against the snapshot.
ConsistentTrusting == TRUE

\* buildEditPlan: each matchedTextHash is that of the snapshot's bytes.
Consistent == \A e \in evidence : e[3] \in Holds[snap[e[2]]]

\* The stored scope, buildEditPlan, assertSavedPlanMatchesDerivation.
Build ==
  /\ stage = "audit" /\ todo = {}
  /\ LET again == round = "apply" IN
     \/ again /\ Identity # saved.identity /\ Throw("scope")
     \/ (again => Identity = saved.identity) /\ ~Consistent /\ Throw("hash")
     \/ /\ again /\ Identity = saved.identity /\ Consistent
        /\ Derived # saved.plan /\ Throw("stale")
     \/ /\ again => Identity = saved.identity /\ Derived = saved.plan
        /\ Consistent
        /\ stage' = "built" /\ UNCHANGED reason
  /\ UNCHANGED <<tree, touched, opt, round, git, listed, scope, allowed, todo,
                 snap, snapshotted, evidence, notes, calls, groups, audit,
                 saved>>

\* The plan is written to PlanFile, never over another file, and later applied
\* by another command, which derives it again under the stored mode.
Save ==
  /\ stage = "built" /\ round = "plan"
  /\ PlanFile \notin Present
  /\ round' = "apply"
  /\ saved' = [plan |-> Derived, identity |-> Identity]
  /\ \E c \in Content : content' = [f \in File |->
       IF f = PlanFile THEN c ELSE content[f]]
  /\ stage' = "search" /\ reason' = "none" /\ git' = "status"
  /\ listed' = Pending /\ scope' = NoScope
  /\ allowed' = {} /\ todo' = {} /\ snap' = Nothing /\ snapshotted' = {}
  /\ evidence' = {} /\ notes' = {}
  /\ calls' = <<>> /\ groups' = {}
  /\ audit' = Nothing
  /\ touched' = {}
  /\ UNCHANGED <<index, history, edits, opt>>

\* prepareTransaction: every input still holds its snapshot.
Prepare ==
  /\ stage = "built" /\ evidence # {}
  /\ \/ /\ \E f \in DOMAIN snap : content[f] # snap[f]
        /\ Throw("changed")
     \/ /\ \A f \in DOMAIN snap : content[f] = snap[f]
        /\ stage' = "prepared" /\ UNCHANGED reason
  /\ UNCHANGED <<tree, touched, opt, round, git, listed, scope, allowed, todo,
                 snap, snapshotted, evidence, notes, calls, groups, audit,
                 saved>>

\* recheckGitScopeClean, before the first file is written.
Recheck ==
  /\ stage = "prepared"
  /\ \/ opt.clean /\ ~Clean /\ Throw("dirty")
     \/ (opt.clean => Clean) /\ stage' = "ready" /\ UNCHANGED reason
  /\ UNCHANGED <<tree, touched, opt, round, git, listed, scope, allowed, todo,
                 snap, snapshotted, evidence, notes, calls, groups, audit,
                 saved>>

\* A process fails, times out or exceeds its limits, or reports nonsense.
Fail ==
  /\ stage \notin {"built", "ready", "threw"}
  /\ Throw("failed")
  /\ UNCHANGED <<tree, touched, opt, round, git, listed, scope, allowed, todo,
                 snap, snapshotted, evidence, notes, calls, groups, audit,
                 saved>>

-----------------------------------------------------------------------------
(* Everybody else *)

Meddle(files) ==
  /\ edits < MaxEdits /\ stage \notin {"ready", "threw"}
  /\ edits' = edits + 1
  /\ touched' = touched \cup files
  /\ UNCHANGED <<opt, work>>

Edit(f) ==
  /\ f # PlanFile
  /\ \E c \in Versions[f] \cup {Absent} :
       c # content[f] /\ content' = [content EXCEPT ![f] = c]
  /\ Meddle({f, Link[f]})
  /\ UNCHANGED <<index, history>>

GitAdd(f) ==
  /\ opt.git /\ index[f] # content[f]
  /\ index' = [index EXCEPT ![f] = content[f]]
  /\ Meddle({f})
  /\ UNCHANGED <<content, history>>

GitCommit ==
  /\ opt.git /\ index # Committed
  /\ history' = Append(history, index)
  /\ Meddle(File)
  /\ UNCHANGED <<content, index>>

Derive ==
  \/ Discover \/ Status \/ List \/ ReadHead \/ Scope \/ Target
  \/ \E f \in File : ReadScoped(f) \/ Snapshot(f) \/ Audit(f)
  \/ ScanLexical \/ Validate \/ (\E g \in groups : ScanStructural(g)) \/ Omit
  \/ Build

Next ==
  \/ Derive \/ Fail \/ Save \/ Prepare \/ Recheck
  \/ \E f \in File : Edit(f) \/ GitAdd(f)
  \/ GitCommit

Spec == Init /\ [][Next]_vars /\ WF_vars(Derive)

-----------------------------------------------------------------------------
(* Properties *)

Built == stage \in {"built", "prepared", "ready"}

\* What is handed to the commit replaces the text its providers reported: if
\* a file was edited between its snapshot and a scan, and even if it was then
\* changed back, no edit lands on bytes nobody matched.
MatchedIsReplaced ==
  [][Prepare /\ stage' = "prepared" =>
       \A e \in evidence : e[3] \in Holds[content[e[2]]]]_vars

\* Nothing is missed silently.  In a file in scope that nobody touched since
\* the derivation began, every spot ripgrep finds is in the evidence, and so
\* is what ast-grep finds in the first of its languages that finds anything;
\* a file the globs, the ignore rules or the parser keep out is reported.
Tongues(f) == IF opt.langs = <<>> THEN <<Detected[f]>> ELSE opt.langs
Finds(f, l) == l \notin Broken \cup {Unknown} /\ Structural[content[f]][l] # {}
FirstFinds(f, i) ==
  Finds(f, Tongues(f)[i]) /\ \A j \in 1..i - 1 : ~Finds(f, Tongues(f)[j])
InScope(f) ==
  /\ Link[f] = f /\ f \in (Operand \cap Present) \ (Reserved \cup Excluded)
  /\ content[f] \notin Unsnapshot
  /\ IF opt.git THEN f \in Listing(opt.mode) ELSE ~Hidden(f)
NothingMissed ==
  Built => \A f \in File \ touched : InScope(f) =>
    IF Admitted(f)
    THEN /\ \A s \in Lexical[content[f]] : <<"ripgrep", f, s>> \in evidence
         /\ \A i \in DOMAIN Tongues(f) : FirstFinds(f, i) =>
              \A s \in Structural[content[f]][Tongues(f)[i]] :
                <<"ast-grep", f, s>> \in evidence
    ELSE <<"rejected", f>> \in notes

\* Nothing outside the scope is edited, whatever a provider reports: only
\* files below the operation's paths, admitted by its globs, and, in a
\* repository, listed for the mode or the target of a link that is listed.
ScopeKept ==
  Built => \A f \in FilesOf(evidence) :
    /\ f \in (Operand \cap Globbed) \ (Reserved \cup Excluded)
    /\ opt.git => \E g \in scope.files : Link[g] = f

\* A plan that is saved, be it in the repository it was made for, can be
\* applied: short of processes that fail, a derivation nobody interferes with
\* is only refused when the plan is made, for what its command asks of the tree
\* as it was.  Left out by name is the plan that requires a clean worktree and
\* is saved where git status shows it: it is itself what makes that dirty.
ShownByStatus == opt.clean /\ PlanFile \in File \ (Reserved \cup Ignored)
RefusedOnlyIfChanged ==
  stage = "threw" /\ edits = 0 =>
    \/ reason = "failed"
    \/ round = "plan" /\ reason \in {"operand", "git", "dirty"}
    \/ round = "apply" /\ reason = "dirty" /\ ShownByStatus

\* Where a clean worktree is required, what is about to be written over can be
\* had back from the last commit, unless git ignores the file.
Recoverable ==
  stage = "ready" /\ opt.clean => \A f \in FilesOf(evidence) :
    content[f] = snap[f] => snap[f] = Committed[f] \/ f \in Ignored \ Tracked

\* Every derivation ends: in a plan or in an error.
Ends == <>(Built \/ stage = "threw")
=============================================================================
