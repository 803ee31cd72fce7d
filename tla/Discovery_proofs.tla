--------------------------- MODULE Discovery_proofs ---------------------------
(***************************************************************************)
(* Whatever is edited, staged or committed while a plan is derived, and    *)
(* whatever the processes report: the plan replaces text that was matched, *)
(* stays in its scope, and, with a clean worktree required, only writes    *)
(* over what git holds.                                                    *)
(***************************************************************************)
EXTENDS Discovery, TLAPS

\* The repository is a repository, and the scope of git names files of it.
Typed ==
  /\ content \in Tree /\ index \in Tree
  /\ history \in Seq(Tree)
  /\ scope.files \subseteq File
  /\ scope = [files |-> scope.files, head |-> scope.head,
              listings |-> scope.listings]

Scanning == stage \in {"snapshot", "late"}
Judged == stage \in {"audit", "built", "prepared", "ready"}

\* What is kept of a scan is admitted; after omissions it is snapshotted; and
\* a plan is built only when the snapshots hold it.
InOperand == FilesOf(evidence) \subseteq (Operand \cap Globbed) \ Reserved
Snapped == Judged => FilesOf(evidence) \subseteq DOMAIN snap
Hashed == Built => Consistent

\* In a repository what may be snapshotted is fixed before the first snapshot.
Scoped == {f \in File : Link[f] = f /\ \E g \in scope.files : Link[g] = f}
InRepository ==
  /\ git = "none" => ~opt.git
  /\ snapshotted \subseteq DOMAIN snap
  /\ stage = "search" => allowed = {}
  /\ stage \in {"search", "scope"} => DOMAIN snap = {}
  /\ stage = "scope" \/ Scanning \/ Judged =>
       /\ Resolved
       /\ opt.git => allowed \subseteq Scoped /\ DOMAIN snap \subseteq Scoped
  /\ stage = "scope" /\ opt.git => todo \subseteq scope.files
  /\ Scanning /\ opt.git => todo \subseteq allowed

CleanWhenReady == stage = "ready" /\ opt.clean => Clean

IInv ==
  Typed /\ InOperand /\ Snapped /\ Hashed /\ InRepository /\ CleanWhenReady

-----------------------------------------------------------------------------
LEMMA ListedIsFiles == \A command : Listed(command) \subseteq File
BY DEF Listed, Tracked, Staged, Unstaged, Untracked, Since, Present

LEMMA ListingIsFiles == \A mode : Listing(mode) \subseteq File
BY ListedIsFiles DEF Listing

LEMMA InitTyped == Init => IInv
BY DiscoveryConstants
   DEF Init, IInv, Typed, InOperand, Snapped, Hashed, InRepository,
       CleanWhenReady, Scanning, Judged, Built, FilesOf, Nothing, NoScope

LEMMA TypedStep == Typed /\ [Next]_vars => Typed'
<1> SUFFICES ASSUME Typed, [Next]_vars PROVE Typed'
  OBVIOUS
<1> USE DEF Typed
<1>1. ASSUME UNCHANGED <<tree, scope>> PROVE Typed'
  BY <1>1 DEF tree
<1>2. CASE List
  BY <1>2, ListedIsFiles DEF List, ListBy, tree
<1>3. CASE Status \/ ReadHead
  BY <1>3 DEF Status, ReadHead, tree
<1>4. CASE Save
  <2>1. content' \in Tree
    BY <1>4 DEF Save, Tree
  <2>2. UNCHANGED <<index, history>> /\ scope' = NoScope
    BY <1>4 DEF Save
  <2> QED BY <2>1, <2>2 DEF NoScope
<1>5. ASSUME NEW f \in File, Edit(f) PROVE Typed'
  <2>1. PICK c \in Versions[f] \cup {Absent} : content' = [content EXCEPT ![f] = c]
    BY <1>5 DEF Edit
  <2>2. Versions[f] \subseteq Content
    BY DiscoveryConstants
  <2>3. content' \in Tree
    BY <2>1, <2>2 DEF Tree
  <2> QED BY <1>5, <2>3 DEF Edit, Meddle, work
<1>6. ASSUME NEW f \in File, GitAdd(f) PROVE Typed'
  <2>1. index' \in Tree
    BY <1>6 DEF GitAdd, Tree
  <2> QED BY <1>6, <2>1 DEF GitAdd, Meddle, work
<1>7. CASE GitCommit
  BY <1>7 DEF GitCommit, Meddle, work
<1>8. CASE UNCHANGED vars
  BY <1>8, <1>1 DEF vars, work
<1>9. CASE Discover \/ Scope \/ Target \/ ScanLexical \/ Validate \/ Omit \/ Build
  BY <1>9, <1>1 DEF Discover, Scope, Target, ScanLexical, Validate, Omit, Build
<1>10. ASSUME NEW f \in File, ReadScoped(f) \/ Snapshot(f) \/ Audit(f) PROVE Typed'
  BY <1>10, <1>1 DEF ReadScoped, Snapshot, Audit, HashObject, IndexBlob
<1>11. ASSUME NEW g \in groups, ScanStructural(g) PROVE Typed'
  BY <1>11, <1>1 DEF ScanStructural
<1>12. CASE Fail \/ Prepare \/ Recheck
  BY <1>12, <1>1 DEF Fail, Prepare, Recheck
<1> QED
  BY <1>2, <1>3, <1>4, <1>5, <1>6, <1>7, <1>8, <1>9, <1>10, <1>11, <1>12
  DEF Next, Derive

LEMMA InOperandStep == InOperand /\ [Next]_vars => InOperand'
<1> SUFFICES ASSUME InOperand, [Next]_vars PROVE InOperand'
  OBVIOUS
<1> USE DEF InOperand, FilesOf
<1>1. ASSUME UNCHANGED evidence PROVE InOperand'
  BY <1>1
<1>2. CASE ScanLexical
  <2>1. CASE UNCHANGED evidence
    BY <2>1, <1>1
  <2>2. CASE ~UNCHANGED evidence
    <3>1. \A e \in evidence' : Admitted(e[2])
      BY <1>2, <2>2 DEF ScanLexical
    <3>2. \A e \in evidence' : e[2] \in (Operand \cap Globbed) \ Reserved
      BY <3>1 DEF Admitted
    <3> QED BY <3>2
  <2> QED BY <2>1, <2>2
<1>3. ASSUME NEW g \in groups, ScanStructural(g) PROVE InOperand'
  <2>1. \A e \in evidence' : e \in evidence \/ Admitted(e[2])
    BY <1>3 DEF ScanStructural
  <2>2. \A e \in evidence' : e[2] \in (Operand \cap Globbed) \ Reserved
    BY <2>1 DEF Admitted
  <2> QED BY <2>2
<1>4. CASE Omit
  BY <1>4 DEF Omit
<1>5. CASE Save
  BY <1>5 DEF Save
<1>6. CASE UNCHANGED vars
  BY <1>6, <1>1 DEF vars, work
<1>7. CASE Discover \/ Status \/ List \/ ReadHead \/ Scope \/ Target \/ Validate \/ Build
  BY <1>7, <1>1
  DEF Discover, Status, List, ListBy, ReadHead, Scope, Target, Validate, Build
<1>8. ASSUME NEW f \in File, ReadScoped(f) \/ Snapshot(f) \/ Audit(f) PROVE InOperand'
  BY <1>8, <1>1 DEF ReadScoped, Snapshot, Audit, HashObject, IndexBlob
<1>9. CASE Fail \/ Prepare \/ Recheck
  BY <1>9, <1>1 DEF Fail, Prepare, Recheck
<1>10. ASSUME NEW f \in File, Edit(f) \/ GitAdd(f) PROVE InOperand'
  BY <1>10, <1>1 DEF Edit, GitAdd, Meddle, work
<1>11. CASE GitCommit
  BY <1>11, <1>1 DEF GitCommit, Meddle, work
<1> QED
  BY <1>2, <1>3, <1>4, <1>5, <1>6, <1>7, <1>8, <1>9, <1>10, <1>11 DEF Next, Derive

LEMMA JudgedStep ==
  Snapped /\ Hashed /\ [Next]_vars => Snapped' /\ Hashed'
<1> SUFFICES ASSUME Snapped, Hashed, [Next]_vars PROVE Snapped' /\ Hashed'
  OBVIOUS
<1> USE DEF Snapped, Hashed, Judged, Built
<1>1. ASSUME UNCHANGED <<stage, snap, evidence>> PROVE Snapped' /\ Hashed'
  BY <1>1 DEF Consistent, FilesOf
<1>2. ASSUME stage' \in {"search", "snapshot", "late", "threw"} PROVE Snapped' /\ Hashed'
  BY <1>2
<1>3. CASE Omit
  BY <1>3 DEF Omit, FilesOf
<1>4. ASSUME NEW f \in File, Audit(f) PROVE Snapped' /\ Hashed'
  BY <1>4 DEF Audit, HashObject, IndexBlob, Throw, FilesOf
<1>5. CASE Build
  BY <1>5 DEF Build, Throw, FilesOf, Consistent
<1>6. CASE Prepare \/ Recheck
  BY <1>6 DEF Prepare, Recheck, Throw, FilesOf, Consistent
<1>7. CASE Save \/ Fail
  BY <1>7, <1>2 DEF Save, Fail, Throw
<1>8. CASE Discover \/ Status \/ List \/ ReadHead \/ Scope \/ Target
  BY <1>8, <1>2 DEF Discover, Status, List, ListBy, ReadHead, Scope, Target, Throw
<1>9. ASSUME NEW f \in File, Snapshot(f) PROVE Snapped' /\ Hashed'
  BY <1>9, <1>2 DEF Snapshot, Throw
<1>14. ASSUME NEW f \in File, ReadScoped(f) PROVE Snapped' /\ Hashed'
  BY <1>14, <1>1 DEF ReadScoped
<1>10. CASE ScanLexical \/ Validate
  <2>1. stage' \in {"late", "threw"}
    BY <1>10 DEF ScanLexical, Validate, Throw
  <2> QED BY <2>1, <1>2
<1>11. ASSUME NEW g \in groups, ScanStructural(g) PROVE Snapped' /\ Hashed'
  <2>1. stage' = "late"
    BY <1>11 DEF ScanStructural
  <2> QED BY <2>1, <1>2
<1>12. ASSUME NEW f \in File, Edit(f) \/ GitAdd(f) PROVE Snapped' /\ Hashed'
  BY <1>12, <1>1 DEF Edit, GitAdd, Meddle, work
<1>13. CASE GitCommit \/ UNCHANGED vars
  BY <1>13, <1>1 DEF GitCommit, Meddle, work, vars
<1> QED
  BY <1>3, <1>4, <1>5, <1>6, <1>7, <1>8, <1>9, <1>10, <1>11, <1>12, <1>13, <1>14
  DEF Next, Derive

LEMMA CleanStep == CleanWhenReady /\ [Next]_vars => CleanWhenReady'
<1> SUFFICES ASSUME CleanWhenReady, [Next]_vars PROVE CleanWhenReady'
  OBVIOUS
<1> USE DEF CleanWhenReady
<1>1. ASSUME stage' # "ready" PROVE CleanWhenReady'
  BY <1>1
<1>2. CASE UNCHANGED vars
  BY <1>2
  DEF vars, tree, work, Clean, Tracked, Committed
<1>3. CASE Recheck
  BY <1>3
  DEF Recheck, Throw, tree, Clean, Tracked, Committed
<1>4. ASSUME NEW f \in File, Edit(f) \/ GitAdd(f) PROVE CleanWhenReady'
  BY <1>4, <1>1 DEF Edit, GitAdd, Meddle, work
<1>5. CASE GitCommit
  BY <1>5, <1>1 DEF GitCommit, Meddle, work
<1>6. CASE Discover \/ Status \/ List \/ ReadHead \/ Scope \/ Target
  BY <1>6, <1>1 DEF Discover, Status, List, ListBy, ReadHead, Scope, Target, Throw
<1>7. ASSUME NEW f \in File, ReadScoped(f) \/ Snapshot(f) \/ Audit(f) PROVE CleanWhenReady'
  BY <1>7, <1>1 DEF ReadScoped, Snapshot, Audit, HashObject, IndexBlob, Throw
<1>8. CASE ScanLexical \/ Validate \/ Omit
  <2>1. stage' \in {"late", "audit", "threw"}
    BY <1>8 DEF ScanLexical, Validate, Omit, Throw
  <2> QED BY <2>1, <1>1
<1>9. ASSUME NEW g \in groups, ScanStructural(g) PROVE CleanWhenReady'
  <2>1. stage' = "late"
    BY <1>9 DEF ScanStructural
  <2> QED BY <2>1, <1>1
<1>10. CASE Build \/ Prepare \/ Save \/ Fail
  BY <1>10, <1>1 DEF Build, Prepare, Save, Fail, Throw
<1> QED
  BY <1>2, <1>3, <1>4, <1>5, <1>6, <1>7, <1>8, <1>9, <1>10 DEF Next, Derive

\* A listed path and the path it resolves to are both paths of the repository.
LEMMA ScopeResolved ==
  ASSUME Typed, NEW S \in SUBSET scope.files
  PROVE  Identities(S) \subseteq Scoped
<1> SUFFICES ASSUME NEW f \in Identities(S) PROVE f \in Scoped
  OBVIOUS
<1>1. PICK g \in S : f = Link[g]
  BY DEF Identities
<1>2. g \in scope.files /\ g \in File /\ f \in File /\ Link[f] = f
  BY <1>1, DiscoveryConstants DEF Typed
<1> QED BY <1>1, <1>2 DEF Scoped

LEMMA RepositoryStep ==
  Typed /\ InRepository /\ [Next]_vars => InRepository'
<1> SUFFICES ASSUME Typed, InRepository, [Next]_vars PROVE InRepository'
  OBVIOUS
<1> USE DEF InRepository, Scanning, Judged, Resolved
<1>1. ASSUME UNCHANGED <<opt, git, allowed, snap, snapshotted, scope>>,
             \/ UNCHANGED <<stage, todo>>
             \/ stage' = "threw"
             \/ stage = "search" /\ stage' = "search"
             \/ Scanning /\ Scanning' /\ todo' \subseteq todo
             \/ (Scanning \/ Judged) /\ Judged'
      PROVE  InRepository'
  BY <1>1 DEF Scoped
<1>2. CASE Status
  BY <1>2 DEF Status, Throw
<1>3. CASE List \/ ReadHead
  BY <1>3 DEF List, ListBy, ReadHead
<1>4. CASE Scope \/ Target
  <2>1. /\ stage \in {"search", "scope"} /\ Resolved
        /\ UNCHANGED <<git, opt, scope, allowed, snap, snapshotted>>
        /\ \/ /\ stage' = "scope" /\ stage = "search"
              /\ git = "resolved" => todo' \subseteq scope.files
           \/ /\ stage' = "snapshot" /\ todo' = Targets
    BY <1>4 DEF Scope, Target
  <2>2. git = "resolved" => Targets \subseteq allowed
    BY DEF Targets
  <2>3. Scoped' = Scoped
    BY <2>1 DEF Scoped
  <2> QED BY <2>1, <2>2, <2>3
<1>15. ASSUME NEW f \in File, ReadScoped(f) PROVE InRepository'
  <2>1. /\ stage = "scope" /\ f \in todo /\ todo' = todo \ {f}
        /\ allowed' = allowed \cup Identities({f})
        /\ UNCHANGED <<git, opt, scope, stage, snap, snapshotted>>
    BY <1>15 DEF ReadScoped
  <2>2. opt.git => Identities({f}) \subseteq Scoped
    BY <2>1, ScopeResolved
  <2>3. Scoped' = Scoped
    BY <2>1 DEF Scoped
  <2> QED BY <2>1, <2>2, <2>3
<1>5. ASSUME NEW f \in File, Snapshot(f) PROVE InRepository'
  <2>1. CASE stage' = "threw"
    BY <1>5, <2>1 DEF Snapshot
  <2>2. CASE stage' # "threw"
    <3>1. /\ Scanning /\ Scanning' /\ f \in todo /\ todo' = todo \ {f}
          /\ UNCHANGED <<git, opt, scope, allowed, snapshotted>>
          /\ DOMAIN snap \subseteq DOMAIN snap'
          /\ DOMAIN snap' \subseteq DOMAIN snap \cup {Link[f]}
      BY <1>5, <2>2 DEF Snapshot, Throw
    <3>2. opt.git => Link[f] = f /\ f \in Scoped
      BY <3>1 DEF Scoped
    <3>3. Scoped' = Scoped
      BY <3>1 DEF Scoped
    <3> QED BY <3>1, <3>2, <3>3
  <2> QED BY <2>1, <2>2
<1>6. CASE ScanLexical
  <2>1. /\ stage = "snapshot" /\ stage' \in {"late", "threw"}
        /\ UNCHANGED <<git, opt, scope, allowed, snap>>
        /\ snapshotted' = DOMAIN snap
    BY <1>6 DEF ScanLexical, Throw
  <2>2. stage' = "late" => todo' = Late(evidence')
    BY <1>6 DEF ScanLexical, Throw
  <2>3. stage' = "late" /\ opt.git => todo' \subseteq allowed
    BY <2>1, <2>2 DEF Late
  <2>4. Scoped' = Scoped
    BY <2>1 DEF Scoped
  <2> QED BY <2>1, <2>3, <2>4
<1>7. CASE Validate \/ Omit
  BY <1>7, <1>1 DEF Validate, Omit
<1>8. ASSUME NEW g \in groups, ScanStructural(g) PROVE InRepository'
  <2>1. UNCHANGED <<opt, git, allowed, snap, snapshotted, scope, stage, todo>>
    BY <1>8 DEF ScanStructural
  <2> QED BY <2>1, <1>1
<1>9. ASSUME NEW f \in File, Audit(f) PROVE InRepository'
  BY <1>9, <1>1 DEF Audit, HashObject, IndexBlob, Throw
<1>10. CASE Build \/ Prepare \/ Recheck \/ Fail
  <2>1. /\ UNCHANGED <<opt, git, allowed, snap, snapshotted, scope>>
        /\ stage' = "threw" \/ (Judged /\ Judged')
    BY <1>10 DEF Build, Prepare, Recheck, Fail, Throw
  <2> QED BY <2>1, <1>1
<1>11. CASE Save
  BY <1>11 DEF Save, Nothing
<1>12. CASE Discover
  BY <1>12, <1>1 DEF Discover, Throw
<1>13. ASSUME NEW f \in File, Edit(f) \/ GitAdd(f) PROVE InRepository'
  BY <1>13, <1>1 DEF Edit, GitAdd, Meddle, work
<1>14. CASE GitCommit \/ UNCHANGED vars
  BY <1>14, <1>1 DEF GitCommit, Meddle, work, vars
<1> QED
  BY <1>2, <1>3, <1>4, <1>5, <1>6, <1>7, <1>8, <1>9, <1>10, <1>11, <1>12,
     <1>13, <1>14, <1>15
  DEF Next, Derive

THEOREM DerivationInvariant == Spec => []IInv
<1>1. IInv /\ [Next]_vars => IInv'
  BY TypedStep, InOperandStep, JudgedStep, RepositoryStep, CleanStep DEF IInv
<1> QED BY InitTyped, <1>1, PTL DEF Spec

\* Whoever edits what, and however often, while a plan is derived: a match is
\* only replaced where its text still is.
THEOREM ReplacesMatches == Spec => MatchedIsReplaced
<1>1. ASSUME IInv, Prepare, stage' = "prepared"
      PROVE  \A e \in evidence : e[3] \in Holds[content[e[2]]]
  <2>1. Consistent /\ FilesOf(evidence) \subseteq DOMAIN snap
    BY <1>1 DEF IInv, Hashed, Snapped, Built, Judged, Prepare
  <2>2. \A f \in DOMAIN snap : content[f] = snap[f]
    BY <1>1 DEF Prepare, Throw
  <2> QED BY <2>1, <2>2 DEF Consistent, FilesOf
<1>2. IInv /\ [Next]_vars =>
        [Prepare /\ stage' = "prepared" =>
           \A e \in evidence : e[3] \in Holds[content[e[2]]]]_vars
  BY <1>1
<1> QED BY <1>2, DerivationInvariant, PTL DEF Spec, MatchedIsReplaced

\* Where a clean worktree is required, what is about to be written over is in
\* the last commit, unless git ignores it.
THEOREM WritesAreRecoverable == Spec => []Recoverable
<1>1. IInv => Recoverable
  <2> SUFFICES ASSUME IInv, stage = "ready", opt.clean,
                      NEW f \in FilesOf(evidence), content[f] = snap[f]
               PROVE  snap[f] = Committed[f] \/ f \in Ignored \ Tracked
    BY DEF Recoverable
  <2>1. f \in File \ Reserved
    BY DiscoveryConstants DEF IInv, InOperand
  <2>2. IF f \in Tracked THEN content[f] = index[f] /\ index[f] = Committed[f]
        ELSE Committed[f] = Absent /\ (content[f] # Absent => f \in Ignored)
    BY <2>1 DEF IInv, CleanWhenReady, Clean
  <2> QED BY <2>2
<1> QED BY <1>1, DerivationInvariant, PTL

-----------------------------------------------------------------------------
\* The scope, for a saved plan that no other path of the repository leads to.
PlanNotLinked == \A f \in File : Link[f] = PlanFile => f = PlanFile
PlanLeftOut ==
  /\ Scanning \/ Judged => DOMAIN snap \cap Excluded = {}
  /\ stage = "scope" => (allowed \cup todo) \cap Excluded = {}
  /\ Scanning => todo \cap Excluded = {}

LEMMA PlanStep ==
  ASSUME PlanNotLinked
  PROVE  IInv /\ PlanLeftOut /\ [Next]_vars => PlanLeftOut'
<1> SUFFICES ASSUME IInv, PlanLeftOut, [Next]_vars PROVE PlanLeftOut'
  OBVIOUS
<1> USE DEF PlanLeftOut, Scanning, Judged
<1>1. ASSUME UNCHANGED <<round, snap, allowed>>,
             \/ UNCHANGED <<stage, todo>>
             \/ stage' \in {"search", "threw"}
             \/ Scanning /\ Scanning' /\ todo' \subseteq todo
             \/ (Scanning \/ Judged) /\ Judged'
      PROVE  PlanLeftOut'
  BY <1>1 DEF Excluded
<1>2. CASE Scope
  <2>1. /\ stage = "search" /\ stage' = "scope" /\ UNCHANGED <<round, snap, allowed>>
        /\ todo' \cap Excluded = {}
    BY <1>2 DEF Scope
  <2>2. allowed = {} /\ Excluded' = Excluded
    BY <2>1 DEF Excluded, IInv, InRepository
  <2> QED BY <2>1, <2>2
<1>13. ASSUME NEW f \in File, ReadScoped(f) PROVE PlanLeftOut'
  <2>1. /\ stage = "scope" /\ f \in todo /\ todo' = todo \ {f}
        /\ allowed' = allowed \cup Identities({f})
        /\ UNCHANGED <<round, stage, snap>>
    BY <1>13 DEF ReadScoped
  <2>2. Identities({f}) \cap Excluded = {}
    BY DEF Identities, Excluded, PlanNotLinked
  <2>3. Excluded' = Excluded
    BY <2>1 DEF Excluded
  <2> QED BY <2>1, <2>2, <2>3
<1>14. CASE Target
  <2>1. /\ stage = "scope" /\ stage' = "snapshot" /\ UNCHANGED <<round, snap>>
        /\ todo' = Targets
    BY <1>14 DEF Target
  <2>2. Targets \cap Excluded = {}
    BY <2>1 DEF Targets
  <2>3. DOMAIN snap = {} /\ Excluded' = Excluded
    BY <2>1 DEF IInv, InRepository, Excluded
  <2> QED BY <2>1, <2>2, <2>3
<1>3. ASSUME NEW f \in File, Snapshot(f) PROVE PlanLeftOut'
  <2>1. CASE stage' = "threw"
    BY <1>3, <2>1 DEF Snapshot
  <2>2. CASE stage' # "threw"
    <3>1. /\ Scanning /\ Scanning' /\ f \in todo /\ todo' = todo \ {f}
          /\ UNCHANGED round
          /\ DOMAIN snap' \subseteq DOMAIN snap \cup {Link[f]}
      BY <1>3, <2>2 DEF Snapshot, Throw
    <3>2. Link[f] \notin Excluded
      BY <3>1 DEF Excluded, PlanNotLinked
    <3>3. Excluded' = Excluded
      BY <3>1 DEF Excluded
    <3> QED BY <3>1, <3>2, <3>3
  <2> QED BY <2>1, <2>2
<1>4. CASE ScanLexical
  <2>1. /\ stage = "snapshot" /\ stage' \in {"late", "threw"}
        /\ UNCHANGED <<round, snap>>
        /\ stage' = "late" => todo' = Late(evidence')
    BY <1>4 DEF ScanLexical, Throw
  <2>2. Late(evidence') \cap Excluded = {}
    BY DEF Late
  <2>3. Excluded' = Excluded
    BY <2>1 DEF Excluded
  <2> QED BY <2>1, <2>2, <2>3
<1>5. CASE Discover \/ Status \/ List \/ ReadHead
  BY <1>5, <1>1 DEF Discover, Status, List, ListBy, ReadHead, Throw
<1>6. CASE Validate \/ Omit
  BY <1>6, <1>1 DEF Validate, Omit
<1>7. ASSUME NEW g \in groups, ScanStructural(g) PROVE PlanLeftOut'
  <2>1. UNCHANGED <<round, snap, allowed, stage, todo>>
    BY <1>7 DEF ScanStructural
  <2> QED BY <2>1, <1>1
<1>8. ASSUME NEW f \in File, Audit(f) PROVE PlanLeftOut'
  BY <1>8, <1>1 DEF Audit, HashObject, IndexBlob, Throw
<1>9. CASE Build \/ Prepare \/ Recheck \/ Fail
  <2>1. /\ UNCHANGED <<round, snap, allowed>>
        /\ stage' = "threw" \/ (Judged /\ Judged')
    BY <1>9 DEF Build, Prepare, Recheck, Fail, Throw
  <2> QED BY <2>1, <1>1
<1>10. CASE Save
  BY <1>10 DEF Save
<1>11. ASSUME NEW f \in File, Edit(f) \/ GitAdd(f) PROVE PlanLeftOut'
  BY <1>11, <1>1 DEF Edit, GitAdd, Meddle, work
<1>12. CASE GitCommit \/ UNCHANGED vars
  BY <1>12, <1>1 DEF GitCommit, Meddle, work, vars
<1> QED
  BY <1>2, <1>3, <1>4, <1>5, <1>6, <1>7, <1>8, <1>9, <1>10, <1>11, <1>12, <1>13,
     <1>14
  DEF Next, Derive

\* Whatever a provider reports and whatever is edited meanwhile, only files of
\* the operation that git lists for the mode are edited, and never the plan.
THEOREM PlansStayInScope ==
  ASSUME PlanNotLinked
  PROVE  Spec => []ScopeKept
<1>1. Init => PlanLeftOut
  BY DEF Init, PlanLeftOut, Scanning, Judged
<1>2. IInv /\ PlanLeftOut /\ [Next]_vars => PlanLeftOut'
  BY PlanStep
<1>3. IInv /\ PlanLeftOut => ScopeKept
  <2> SUFFICES ASSUME IInv, PlanLeftOut, Built, NEW f \in FilesOf(evidence)
               PROVE  /\ f \in (Operand \cap Globbed) \ (Reserved \cup Excluded)
                      /\ opt.git => \E g \in scope.files : Link[g] = f
    BY DEF ScopeKept
  <2>1. Judged /\ f \in DOMAIN snap
    BY DEF IInv, Snapped, Judged, Built
  <2> QED BY <2>1 DEF IInv, InOperand, InRepository, PlanLeftOut, Scoped
<1> QED BY <1>1, <1>2, <1>3, DerivationInvariant, PTL DEF Spec

-----------------------------------------------------------------------------
(* What is not missed.  The argument follows one file that nobody touches   *)
(* through the derivation.                                                  *)

\* The languages ast-grep is asked for, and how many it has been asked.
Asked == IF opt.langs = <<>> THEN <<Unknown>> ELSE opt.langs
Done == Len(Asked) - Len(calls)

\* The calls that are left are the last ones, and the groups being scanned are
\* those of the last call made, each file in the group of its language.
Queue ==
  /\ git \in {"list", "head", "resolved"} => opt.git
  /\ stage \in {"search", "scope", "snapshot"} => groups = {}
  /\ stage = "late" =>
       /\ calls \in Seq(Language \cup {Unknown}) /\ Len(calls) <= Len(Asked)
       /\ \A i \in 1..Len(calls) : calls[i] = Asked[Done + i]
       /\ \A g \in groups : \A f \in g[2] :
            Done >= 1 /\ g[1] = Tongues(f)[Done] /\ g[1] # Unknown

\* The scan of a file as its i-th language is still to come.
Owed(f, i) == i > Done \/ (i = Done /\ \E g \in groups : f \in g[2])

Matched(f) ==
  \A i \in DOMAIN Tongues(f) : FirstFinds(f, i) =>
    \A s \in Structural[content[f]][Tongues(f)[i]] : <<"ast-grep", f, s>> \in evidence
Worded(f) == \A s \in Lexical[content[f]] : <<"ripgrep", f, s>> \in evidence
Reported(f) ==
  IF Admitted(f) THEN Worded(f) /\ Matched(f) ELSE <<"rejected", f>> \in notes

\* Where a file in scope is, at each stage.
Followed(f) ==
  /\ stage = "search" /\ git = "list" =>
       f \in scope.files \/ \E command \in scope.listings : f \in Listed(command)
  /\ git \in {"head", "resolved"} => f \in scope.files
  /\ stage = "scope" => f \in todo \cup allowed
  /\ stage = "snapshot" => f \in todo \cup DOMAIN snap
  /\ stage = "late" => f \in DOMAIN snap
  /\ stage = "late" /\ Admitted(f) =>
       /\ Worded(f)
       /\ IF f \in Taken(evidence) THEN Matched(f)
          ELSE \A i \in DOMAIN Tongues(f) : Finds(f, Tongues(f)[i]) => Owed(f, i)
  /\ stage = "late" /\ ~Admitted(f) /\ Done > 0 => <<"rejected", f>> \in notes
  /\ Judged => Reported(f)
Wanted(f) == f \in File \ touched /\ InScope(f)
NoneLost == \A f \in File : Wanted(f) => Followed(f)

\* What a step leaves alone of a file nobody touches.
Same(f) ==
  /\ UNCHANGED <<history, opt, round>>
  /\ content'[f] = content[f] /\ index'[f] = index[f]

LEMMA Untouched ==
  ASSUME NEW f \in File, Typed, [Next]_vars, ~Save, f \notin touched'
  PROVE  Same(f) /\ f \notin touched
<1> USE DEF Same
<1>1. ASSUME UNCHANGED <<tree, touched, opt, round>>
      PROVE  Same(f) /\ f \notin touched
  BY <1>1 DEF tree
<1>2. ASSUME NEW g \in File, Edit(g) PROVE Same(f) /\ f \notin touched
  <2>1. f \notin touched \cup {g, Link[g]} /\ UNCHANGED <<index, history, opt, round>>
    BY <1>2 DEF Edit, Meddle, work
  <2>2. \E c : content' = [content EXCEPT ![g] = c]
    BY <1>2 DEF Edit
  <2> QED BY <2>1, <2>2 DEF Typed, Tree
<1>3. ASSUME NEW g \in File, GitAdd(g) PROVE Same(f) /\ f \notin touched
  <2>1. f \notin touched \cup {g} /\ UNCHANGED <<content, history, opt, round>>
    BY <1>3 DEF GitAdd, Meddle, work
  <2>2. index' = [index EXCEPT ![g] = content[g]]
    BY <1>3 DEF GitAdd
  <2> QED BY <2>1, <2>2 DEF Typed, Tree
<1>4. CASE GitCommit
  BY <1>4 DEF GitCommit, Meddle
<1>5. CASE UNCHANGED vars
  BY <1>5, <1>1 DEF vars, work
<1>6. CASE Discover \/ Status \/ List \/ ReadHead \/ Scope \/ Target
  BY <1>6, <1>1 DEF Discover, Status, List, ListBy, ReadHead, Scope, Target
<1>7. ASSUME NEW g \in File, ReadScoped(g) \/ Snapshot(g) \/ Audit(g) PROVE Same(f) /\ f \notin touched
  BY <1>7, <1>1 DEF ReadScoped, Snapshot, Audit, HashObject, IndexBlob
<1>8. CASE ScanLexical
  BY <1>8, <1>1 DEF ScanLexical
<1>9. CASE Validate \/ Omit \/ Build
  BY <1>9, <1>1 DEF Validate, Omit, Build
<1>10. ASSUME NEW g \in groups, ScanStructural(g) PROVE Same(f) /\ f \notin touched
  BY <1>10, <1>1 DEF ScanStructural
<1>11. CASE Fail \/ Prepare \/ Recheck
  BY <1>11, <1>1 DEF Fail, Prepare, Recheck
<1> QED
  BY <1>2, <1>3, <1>4, <1>5, <1>6, <1>7, <1>8, <1>9, <1>10, <1>11
  DEF Next, Derive

\* Of such a file, git and the providers say what they said before.
LEMMA Alike ==
  ASSUME NEW f \in File, Same(f), Link[f] = f
  PROVE  /\ InScope(f)' <=> InScope(f)
         /\ \A command : (f \in Listed(command))' <=> f \in Listed(command)
         /\ Admitted(f)' <=> Admitted(f)
         /\ Asked' = Asked /\ Tongues(f)' = Tongues(f)
         /\ \A l : Finds(f, l)' <=> Finds(f, l)
         /\ \A i : FirstFinds(f, i)' <=> FirstFinds(f, i)
<1> USE DEF Same
<1>1. /\ (f \in Tracked)' <=> f \in Tracked
      /\ (f \in Present)' <=> f \in Present
      /\ Hidden(f)' <=> Hidden(f)
      /\ Committed' = Committed
      /\ Excluded' = Excluded
  BY DEF Tracked, Present, Hidden, Committed, Excluded
<1>2. /\ (f \in Untracked)' <=> f \in Untracked
      /\ (f \in Staged)' <=> f \in Staged
      /\ (f \in Unstaged)' <=> f \in Unstaged
      /\ (f \in Since)' <=> f \in Since
  BY <1>1 DEF Untracked, Staged, Unstaged, Since
<1>9. \A command : (f \in Listed(command))' <=> f \in Listed(command)
  BY <1>1, <1>2 DEF Listed
<1>3. (f \in Listing(opt.mode))' <=> f \in Listing(opt.mode)
  BY <1>9 DEF Listing
<1>4. InScope(f)' <=> InScope(f)
  BY <1>1, <1>3 DEF InScope
<1>5. Admitted(f)' <=> Admitted(f)
  BY <1>1 DEF Admitted, GitIgnored
<1>6. Asked' = Asked /\ Tongues(f)' = Tongues(f)
  BY DEF Asked, Tongues
<1>7. \A l : Finds(f, l)' <=> Finds(f, l)
  BY DEF Finds
<1>8. \A i : FirstFinds(f, i)' <=> FirstFinds(f, i)
  BY <1>6, <1>7 DEF FirstFinds
<1> QED BY <1>4, <1>5, <1>6, <1>7, <1>8, <1>9
LEMMA AskedIsSequence ==
  ASSUME opt \in Options
  PROVE  /\ Asked \in Seq(Language \cup {Unknown}) /\ Len(Asked) \in Nat \ {0}
         /\ \A f : DOMAIN Tongues(f) = 1..Len(Asked)
         /\ \A f : \A i \in 1..Len(Asked) :
              Tongues(f)[i] = IF Asked[i] = Unknown THEN Detected[f] ELSE Asked[i]
<1>1. opt.langs \in Seq(Language)
  BY DiscoveryConstants
<1>2. CASE opt.langs = <<>>
  BY <1>2 DEF Asked, Tongues
<1>3. CASE opt.langs # <<>>
  <2>1. Asked = opt.langs /\ \A f : Tongues(f) = opt.langs
    BY <1>3 DEF Asked, Tongues
  <2>2. Len(opt.langs) \in Nat \ {0} /\ DOMAIN opt.langs = 1..Len(opt.langs)
    BY <1>1, <1>3
  <2>3. \A i \in 1..Len(opt.langs) : opt.langs[i] \in Language
    BY <1>1
  <2>4. opt.langs \in Seq(Language \cup {Unknown})
    BY <1>1
  <2> QED BY <2>1, <2>2, <2>3, <2>4, DiscoveryConstants
<1> QED BY <1>2, <1>3

LEMMA QueueStep ==
  opt \in Options /\ Queue /\ [Next]_vars => (opt \in Options)' /\ Queue'
<1> SUFFICES ASSUME opt \in Options, Queue, [Next]_vars
             PROVE  (opt \in Options)' /\ Queue'
  OBVIOUS
<1> USE DEF Queue
<1>1. ASSUME UNCHANGED <<opt, calls, groups>>,
             UNCHANGED git \/ git' = "none" \/ (opt.git /\ stage' = "search"),
             UNCHANGED stage \/ stage' \notin {"search", "late"},
             stage' \in {"scope", "snapshot"} => stage \in {"search", "scope", "snapshot"}
      PROVE  (opt \in Options)' /\ Queue'
  BY <1>1 DEF Asked, Done, Tongues
<1>2. CASE Status
  BY <1>2, <1>1 DEF Status, Throw
<1>3. CASE Discover \/ List \/ ReadHead \/ Scope \/ Target
  BY <1>3, <1>1 DEF Discover, List, ListBy, ReadHead, Scope, Target, Throw
<1>4. ASSUME NEW f \in File, ReadScoped(f) \/ Snapshot(f) \/ Audit(f)
      PROVE  (opt \in Options)' /\ Queue'
  BY <1>4, <1>1 DEF ReadScoped, Snapshot, Audit, HashObject, IndexBlob, Throw
<1>5. CASE Omit \/ Build \/ Fail \/ Prepare \/ Recheck
  BY <1>5, <1>1 DEF Omit, Build, Fail, Prepare, Recheck, Throw
<1>6. CASE ScanLexical
  <2>1. /\ stage = "snapshot" /\ stage' \in {"late", "threw"}
        /\ UNCHANGED <<opt, git, groups>> /\ calls' = Asked
    BY <1>6 DEF ScanLexical, Throw, Asked
  <2>2. Asked' = Asked
    BY <2>1 DEF Asked
  <2>3. Done' = 0
    BY <2>1, <2>2, AskedIsSequence DEF Done
  <2> QED BY <2>1, <2>2, <2>3, AskedIsSequence
<1>7. CASE Validate
  <2> DEFINE l == calls[1]
             Decision(f) == IF l = Unknown THEN Detected[f] ELSE l
             admitted == {f \in Candidates : Admitted(f)}
  <2>1. /\ stage = "late" /\ stage' = "late" /\ calls # <<>>
        /\ UNCHANGED <<opt, git>> /\ calls' = Tail(calls)
    BY <1>7 DEF Validate
  <2>2. \A g \in groups' : g[1] # Unknown /\ \A f \in g[2] : Decision(f) = g[1]
    BY <1>7 DEF Validate
  <2>3. Asked' = Asked /\ \A f : Tongues(f)' = Tongues(f)
    BY <2>1 DEF Asked, Tongues
  <2>4. /\ calls' \in Seq(Language \cup {Unknown}) /\ Len(calls') = Len(calls) - 1
        /\ Len(calls) \in Nat \ {0}
        /\ \A i \in 1..Len(calls') : calls'[i] = calls[i + 1]
    BY <2>1
  <2>5. Done' = Done + 1 /\ Done \in Nat
    BY <2>1, <2>3, <2>4, AskedIsSequence DEF Done
  <2>6. \A i \in 1..Len(calls') : calls'[i] = Asked'[Done' + i]
    <3>1. \A i \in 1..Len(calls') : i + 1 \in 1..Len(calls)
      BY <2>4
    <3> QED BY <2>1, <2>3, <2>4, <2>5, <3>1
  <2>7. calls[1] = Asked[Done + 1] /\ Done + 1 \in 1..Len(Asked)
    BY <2>1, <2>4, <2>5, AskedIsSequence DEF Done
  <2>8. \A g \in groups' : \A f \in g[2] :
          Done' >= 1 /\ g[1] = Tongues(f)'[Done'] /\ g[1] # Unknown
    BY <2>2, <2>3, <2>5, <2>7, AskedIsSequence
  <2>9. Len(calls') <= Len(Asked')
    BY <2>1, <2>3, <2>4, AskedIsSequence
  <2> QED BY <2>1, <2>4, <2>6, <2>8, <2>9
<1>8. ASSUME NEW g \in groups, ScanStructural(g)
      PROVE  (opt \in Options)' /\ Queue'
  <2>1. /\ stage = "late" /\ UNCHANGED <<opt, git, stage, calls>>
        /\ groups' \subseteq groups
    BY <1>8 DEF ScanStructural
  <2> QED BY <2>1 DEF Asked, Done, Tongues
<1>9. CASE Save
  BY <1>9 DEF Save
<1>10. ASSUME NEW f \in File, Edit(f) \/ GitAdd(f)
       PROVE  (opt \in Options)' /\ Queue'
  BY <1>10, <1>1 DEF Edit, GitAdd, Meddle, work
<1>11. CASE GitCommit \/ UNCHANGED vars
  BY <1>11, <1>1 DEF GitCommit, Meddle, work, vars
<1> QED
  BY <1>2, <1>3, <1>4, <1>5, <1>6, <1>7, <1>8, <1>9, <1>10, <1>11
  DEF Next, Derive
LEMMA FoundIsTriple ==
  ASSUME NEW by, NEW files, NEW spots, NEW e \in Found(by, files, spots)
  PROVE  e[1] = by /\ e[2] \in files /\ e[3] \in spots[e[2]]
<1>1. PICK f \in files : e \in {by} \X {f} \X spots[f]
  BY DEF Found
<1>2. e[1] \in {by} /\ e[2] \in {f} /\ e[3] \in spots[f]
  BY <1>1
<1> QED BY <1>1, <1>2

\* A file in scope, up to the scans: listed, snapshotted, searched for words.
LEMMA FollowedSearch ==
  ASSUME NEW f \in File, Typed, InRepository, opt \in Options, Queue,
         Same(f), Wanted(f), Followed(f),
         Status \/ List \/ ReadHead \/ Scope \/ Target
  PROVE  Followed(f)'
<1> USE DEF Followed, Judged
<1>1. /\ Link[f] = f /\ f \in (Operand \cap Present) \ (Reserved \cup Excluded)
      /\ content[f] \notin Unsnapshot
      /\ IF opt.git THEN f \in Listing(opt.mode) ELSE ~Hidden(f)
  BY DEF Wanted, InScope
<1>2. CASE Status
  <2>1. \/ stage' = "threw" /\ UNCHANGED <<git, scope>>
        \/ git' = "none" /\ stage' = "search"
        \/ /\ git' = "list" /\ stage' = "search" /\ opt.git
           /\ scope'.listings = Listings(opt.mode)
    BY <1>2 DEF Status, Throw, Typed
  <2>2. opt.git => \E command \in Listings(opt.mode) : f \in Listed(command)
    BY <1>1 DEF Listing
  <2>3. \A command : (f \in Listed(command))' <=> f \in Listed(command)
    BY <1>1, Alike
  <2> QED BY <2>1, <2>2, <2>3
<1>3. CASE List
  <2>1. PICK command \in scope.listings : ListBy(command)
    BY <1>3 DEF List
  <2>2. /\ git = "list" /\ stage = "search" /\ stage' = "search"
        /\ scope'.files = scope.files \cup Listed(command)
        /\ scope'.listings = scope.listings \ {command}
        /\ git' = IF scope'.listings = {} THEN "head" ELSE "list"
    BY <2>1 DEF ListBy, Typed
  <2>3. \A c : (f \in Listed(c))' <=> f \in Listed(c)
    BY <1>1, Alike
  <2>4. f \in scope'.files \/ \E c \in scope'.listings : f \in Listed(c)
    <3>1. f \in scope.files \/ \E c \in scope.listings : f \in Listed(c)
      BY <2>2
    <3> QED BY <2>2, <3>1
  <2> QED BY <2>2, <2>3, <2>4
<1>4. CASE ReadHead
  <2>1. f \in scope.files /\ stage' = "search" /\ scope'.files = scope.files
    BY <1>4 DEF ReadHead, Typed
  <2> QED BY <1>4, <2>1 DEF ReadHead
<1>5. CASE Scope
  <2>1. /\ UNCHANGED <<git, scope, snap>> /\ stage' = "scope"
        /\ todo' = (IF git = "resolved" THEN scope.files ELSE RgFiles) \ Excluded
        /\ git = "resolved" \/ git = "none"
    BY <1>5 DEF Scope, Resolved
  <2>2. git = "none" => f \in RgFiles
    BY <1>1 DEF RgFiles, InRepository
  <2>3. f \in todo'
    BY <2>1, <2>2, <1>1
  <2> QED BY <2>1, <2>3
<1>6. CASE Target
  <2>1. /\ UNCHANGED <<git, scope, snap>> /\ stage' = "snapshot" /\ todo' = Targets
        /\ f \in allowed /\ git \in {"none", "resolved"}
    BY <1>6 DEF Target, InRepository, Resolved
  <2>2. f \in todo'
    BY <2>1, <1>1 DEF Targets
  <2> QED BY <2>1, <2>2
<1> QED BY <1>2, <1>3, <1>4, <1>5, <1>6

LEMMA FollowedScoped ==
  ASSUME NEW f \in File, NEW g \in File, InRepository, Same(f), Wanted(f), Followed(f),
         ReadScoped(g)
  PROVE  Followed(f)'
<1>1. /\ Link[f] = f /\ f \in Present \ (Reserved \cup Excluded)
      /\ content[f] \notin Unsnapshot
  BY DEF Wanted, InScope
<1>2. /\ stage = "scope" /\ stage' = "scope" /\ UNCHANGED <<git, scope>>
      /\ todo' = todo \ {g} /\ allowed' = allowed \cup Identities({g})
      /\ git \in {"none", "resolved"}
  BY DEF ReadScoped, InRepository, Resolved
<1>3. f \in Identities({f})
  BY <1>1 DEF Identities, Readable, Present
<1>4. f \in todo' \cup allowed'
  BY <1>2, <1>3 DEF Followed
<1> QED BY <1>2, <1>4 DEF Followed, Judged

LEMMA FollowedSnapshot ==
  ASSUME NEW f \in File, NEW g \in File, InRepository, Same(f), Wanted(f),
         Followed(f), Snapshot(g)
  PROVE  Followed(f)'
<1> USE DEF Followed, Judged
<1>1. Link[f] = f /\ f \in Present \ Reserved /\ content[f] \notin Unsnapshot
  BY DEF Wanted, InScope
<1>2. UNCHANGED <<content, git, scope, evidence, notes, calls, groups>>
  BY DEF Snapshot, tree
<1>3. CASE stage' = "threw"
  BY <1>3, <1>2
<1>4. CASE stage' # "threw"
  <2>1. /\ UNCHANGED stage /\ todo' = todo \ {g} /\ stage \in {"snapshot", "late"}
        /\ DOMAIN snap \subseteq DOMAIN snap'
        /\ g = f => f \in DOMAIN snap'
    BY <1>1, <1>4 DEF Snapshot, Throw, InRepository
  <2>2. f \in todo \cup DOMAIN snap => f \in todo' \cup DOMAIN snap'
    BY <2>1
  <2>3. /\ Admitted(f)' <=> Admitted(f)
        /\ Asked' = Asked /\ Tongues(f)' = Tongues(f)
        /\ \A l : Finds(f, l)' <=> Finds(f, l)
        /\ \A i : FirstFinds(f, i)' <=> FirstFinds(f, i)
    BY <1>1, Alike
  <2>4. Matched(f)' <=> Matched(f)
    BY <1>2, <2>3 DEF Matched
  <2>5. Worded(f)' <=> Worded(f)
    BY <1>2 DEF Worded
  <2>6. Done' = Done /\ \A i : Owed(f, i)' <=> Owed(f, i)
    BY <1>2, <2>3 DEF Done, Owed
  <2> QED BY <1>2, <2>1, <2>2, <2>3, <2>4, <2>5, <2>6
<1> QED BY <1>3, <1>4

LEMMA FollowedLexical ==
  ASSUME NEW f \in File, opt \in Options, Queue, Same(f), Wanted(f), Followed(f),
         ScanLexical
  PROVE  Followed(f)'
<1> USE DEF Followed, Judged
<1>1. Link[f] = f /\ f \in (Operand \cap Present) \ (Reserved \cup Excluded)
  BY DEF Wanted, InScope
<1>2. /\ stage = "snapshot" /\ todo = {} /\ UNCHANGED <<content, git, scope, snap, groups>>
      /\ calls' = Asked
  BY DEF ScanLexical, Asked, tree
<1>3. f \in Candidates
  BY <1>1, <1>2 DEF Candidates
<1>4. CASE stage' = "threw"
  BY <1>2, <1>4
<1>5. CASE stage' # "threw"
  <2> DEFINE stray == {h \in opt.stray \ Excluded : Readable(h)}
             seen == IF Candidates = {} THEN {} ELSE Candidates \cup stray
             found == Found("ripgrep", seen,
                            [h \in seen |-> Lexical[content[Link[h]]]])
  <2>1. stage' = "late" /\ evidence' = {e \in found : Admitted(e[2]) /\ Spoken(e[2])}
    BY <1>5 DEF ScanLexical, Throw
  <2>2. f \in seen
    BY <1>3
  <2>3. \A s \in Lexical[content[f]] : <<"ripgrep", f, s>> \in found
    BY <1>1, <2>2 DEF Found
  <2>4. Spoken(f)
    BY <1>1, <1>3 DEF Spoken
  <2>5. Admitted(f) => \A s \in Lexical[content[f]] : <<"ripgrep", f, s>> \in evidence'
    BY <2>1, <2>3, <2>4
  <2>6. Taken(evidence') = {}
    <3>1. \A e \in found : e[1] = "ripgrep"
      BY FoundIsTriple
    <3> QED BY <2>1, <3>1 DEF Taken
  <2>7. (Admitted(f)' <=> Admitted(f)) /\ Asked' = Asked /\ Tongues(f)' = Tongues(f)
    BY <1>1, Alike
  <2>8. Done' = 0
    BY <1>2, <2>7, AskedIsSequence DEF Done
  <2>9. \A i \in DOMAIN Tongues(f)' : i > Done'
    BY <2>7, <2>8, AskedIsSequence
  <2>10. Admitted(f)' => Worded(f)'
    BY <1>2, <2>5, <2>7 DEF Worded
  <2>11. \A i \in DOMAIN Tongues(f)' : Owed(f, i)'
    BY <2>9 DEF Owed
  <2>12. f \in DOMAIN snap' /\ (git \in {"head", "resolved"} => f \in scope.files)
    BY <1>2
  <2> QED
    BY <1>2, <2>1, <2>6, <2>8, <2>10, <2>11, <2>12
<1> QED BY <1>4, <1>5

\* The next call: every file of its language is put in a group, or reported.
LEMMA FollowedValidate ==
  ASSUME NEW f \in File, opt \in Options, Queue, Same(f), Wanted(f), Followed(f),
         Validate
  PROVE  Followed(f)'
<1> USE DEF Followed, Judged
<1> DEFINE l == calls[1]
           Decision(h) == IF l = Unknown THEN Detected[h] ELSE l
           admitted == {h \in Candidates : Admitted(h)}
<1>1. Link[f] = f /\ f \in Operand
  BY DEF Wanted, InScope
<1>2. /\ stage = "late" /\ groups = {} /\ calls # <<>> /\ calls' = Tail(calls)
      /\ UNCHANGED <<content, stage, git, scope, snap, evidence>>
  BY DEF Validate, tree
<1>3. f \in Candidates
  BY <1>1, <1>2 DEF Candidates
<1>4. /\ Admitted(f)' <=> Admitted(f)
      /\ Asked' = Asked /\ Tongues(f)' = Tongues(f)
      /\ \A m : Finds(f, m)' <=> Finds(f, m)
      /\ \A i : FirstFinds(f, i)' <=> FirstFinds(f, i)
  BY <1>1, Alike
<1>5. (Matched(f)' <=> Matched(f)) /\ (Worded(f)' <=> Worded(f))
  BY <1>2, <1>4 DEF Matched, Worded
<1>6. Len(calls') = Len(calls) - 1 /\ Len(calls) \in 1..Len(Asked)
  BY <1>2, AskedIsSequence DEF Queue
<1>7. Done' = Done + 1 /\ Done \in Nat /\ Done + 1 \in 1..Len(Asked)
  BY <1>4, <1>6, AskedIsSequence DEF Done
<1>8. l = Asked[Done + 1]
  BY <1>2, <1>6 DEF Queue
<1>9. Tongues(f)[Done + 1] = Decision(f)
  BY <1>7, <1>8, AskedIsSequence
<1>10. ~Admitted(f) => <<"rejected", f>> \in notes'
  <2>1. Noted("rejected", Candidates \ admitted) \subseteq notes'
    BY DEF Validate
  <2> QED BY <2>1, <1>3 DEF Noted
<1>11. ASSUME Admitted(f), f \notin Taken(evidence), NEW i \in DOMAIN Tongues(f),
              Finds(f, Tongues(f)[i])
       PROVE  Owed(f, i)'
  <2>1. i > Done /\ i \in Nat
    BY <1>2, <1>11, AskedIsSequence DEF Owed
  <2>2. CASE i > Done + 1
    BY <2>2, <1>7 DEF Owed
  <2>3. CASE i = Done + 1
    <3>1. Decision(f) # Unknown
      BY <1>9, <1>11, <2>3 DEF Finds
    <3>2. groups' = {<<m, {h \in admitted : Decision(h) = m}>> :
                       m \in {Decision(h) : h \in admitted} \ {Unknown}}
      BY DEF Validate
    <3>3. f \in admitted
      BY <1>3, <1>11
    <3>4. <<Decision(f), {h \in admitted : Decision(h) = Decision(f)}>> \in groups'
      BY <3>1, <3>2, <3>3
    <3>5. \E g \in groups' : f \in g[2]
      BY <3>3, <3>4
    <3> QED BY <3>5, <2>3, <1>7 DEF Owed
  <2> QED BY <2>1, <2>2, <2>3, <1>7
<1> QED BY <1>2, <1>4, <1>5, <1>10, <1>11

\* One process of ast-grep: what it finds first in a file is kept whole.
LEMMA FollowedStructural ==
  ASSUME NEW f \in File, opt \in Options, Queue, Same(f), Wanted(f), Followed(f),
         NEW g \in groups, ScanStructural(g)
  PROVE  Followed(f)'
<1> USE DEF Followed, Judged
<1> DEFINE seen == g[2] \cap Present
           found == Found("ast-grep", seen,
                          [h \in seen |-> Structural[content[h]][g[1]]])
<1>1. Link[f] = f /\ f \in Present
  BY DEF Wanted, InScope
<1>2. /\ stage = "late" /\ groups' = groups \ {g}
      /\ UNCHANGED <<content, stage, git, scope, snap, calls>>
  BY DEF ScanStructural, tree
<1>3. /\ Admitted(f)' <=> Admitted(f)
      /\ Asked' = Asked /\ Tongues(f)' = Tongues(f)
      /\ \A m : Finds(f, m)' <=> Finds(f, m)
      /\ \A i : FirstFinds(f, i)' <=> FirstFinds(f, i)
      /\ Done' = Done
  BY <1>1, <1>2, Alike DEF Done
<1>4. evidence \subseteq evidence' /\ notes \subseteq notes'
  BY DEF ScanStructural
<1>5. (Matched(f) => Matched(f)') /\ (Worded(f) => Worded(f)')
  BY <1>2, <1>3, <1>4 DEF Matched, Worded
<1>6. CASE g[1] \in Broken \/ f \notin g[2]
  <2>1. f \in Taken(evidence') => f \in Taken(evidence)
    <3>1. CASE g[1] \in Broken
      BY <3>1 DEF ScanStructural
    <3>2. CASE g[1] \notin Broken /\ f \notin g[2]
      <4>1. evidence' \subseteq evidence \cup found
        BY <3>2 DEF ScanStructural
      <4>2. \A e \in found : e[2] # f
        BY <3>2, FoundIsTriple
      <4> QED BY <4>1, <4>2 DEF Taken
    <3> QED BY <3>1, <3>2, <1>6
  <2>2. ASSUME NEW i \in DOMAIN Tongues(f), Finds(f, Tongues(f)[i]), Owed(f, i)
        PROVE  Owed(f, i)'
    <3>1. CASE i > Done
      BY <3>1, <1>3 DEF Owed
    <3>2. CASE i = Done /\ \E h \in groups : f \in h[2]
      <4>1. PICK h \in groups : f \in h[2]
        BY <3>2
      <4>2. h[1] = Tongues(f)[i] /\ h[1] \notin Broken
        BY <1>2, <2>2, <3>2, <4>1 DEF Queue, Finds
      <4>3. h \in groups'
        BY <1>2, <1>6, <4>1, <4>2
      <4> QED BY <3>2, <4>1, <4>3, <1>3 DEF Owed
    <3> QED BY <2>2, <3>1, <3>2 DEF Owed
  <2>3. f \in Taken(evidence) => f \in Taken(evidence')
    BY <1>4 DEF Taken
  <2> QED BY <1>2, <1>3, <1>4, <1>5, <2>1, <2>2, <2>3
<1>7. CASE g[1] \notin Broken /\ f \in g[2]
  <2>1. Done \in 1..Len(Asked) /\ g[1] = Tongues(f)[Done]
    <3>1. Len(calls) \in Nat /\ Len(Asked) \in Nat
      BY <1>2, AskedIsSequence DEF Queue
    <3>2. Done >= 1 /\ g[1] = Tongues(f)[Done]
      BY <1>2, <1>7 DEF Queue
    <3> QED BY <3>1, <3>2 DEF Done
  <2>2. evidence' = evidence \cup
          {e \in found : Admitted(e[2]) /\ e[2] \notin Taken(evidence)}
    BY <1>7 DEF ScanStructural
  <2>3. f \in seen
    BY <1>1, <1>7
  <2>4. \A s \in Structural[content[f]][g[1]] : <<"ast-grep", f, s>> \in found
    BY <2>3 DEF Found
  <2>5. CASE ~Admitted(f) \/ f \in Taken(evidence)
    <3>1. f \in Taken(evidence) => f \in Taken(evidence')
      BY <1>4 DEF Taken
    <3> QED BY <2>5, <3>1, <1>2, <1>3, <1>4, <1>5
  <2>6. CASE Admitted(f) /\ f \notin Taken(evidence)
    <3>1. \A s \in Structural[content[f]][Tongues(f)[Done]] :
            <<"ast-grep", f, s>> \in evidence'
      BY <2>1, <2>2, <2>4, <2>6
    <3>2. \A i \in DOMAIN Tongues(f) : Finds(f, Tongues(f)[i]) => Owed(f, i)
      BY <1>2, <2>6
    <3>3. DOMAIN Tongues(f) = 1..Len(Asked) /\ Len(Asked) \in Nat
      BY AskedIsSequence
    <3>4. \A i \in DOMAIN Tongues(f) : Finds(f, Tongues(f)[i]) => i >= Done
      BY <3>2, <3>3, <2>1 DEF Owed
    <3>5. CASE Structural[content[f]][g[1]] = {}
      <4>1. f \notin Taken(evidence')
        <5>1. \A e \in found : e[2] # f
          <6>1. \A e \in found : e[3] \in Structural[content[e[2]]][g[1]]
            BY FoundIsTriple
          <6> QED BY <6>1, <3>5
        <5> QED BY <5>1, <2>2, <2>6 DEF Taken
      <4>2. \A i \in DOMAIN Tongues(f) : Finds(f, Tongues(f)[i]) => i > Done
        <5>1. ~Finds(f, Tongues(f)[Done])
          BY <3>5, <2>1 DEF Finds
        <5> QED BY <5>1, <3>3, <3>4, <2>1
      <4> QED BY <4>1, <4>2, <1>2, <1>3, <1>4, <1>5, <2>6 DEF Owed
    <3>6. CASE Structural[content[f]][g[1]] # {}
      <4>1. f \in Taken(evidence')
        <5>1. PICK s \in Structural[content[f]][g[1]] : TRUE
          BY <3>6
        <5>2. <<"ast-grep", f, s>> \in evidence'
          BY <5>1, <3>1, <2>1
        <5> QED BY <5>2 DEF Taken
      <4>2. Finds(f, Tongues(f)[Done])
        BY <1>2, <1>7, <2>1, <3>6 DEF Queue, Finds
      <4>3. ASSUME NEW i \in DOMAIN Tongues(f), FirstFinds(f, i) PROVE i = Done
        <5>1. i >= Done
          BY <3>4, <4>3 DEF FirstFinds
        <5>2. ~(Done \in 1..i - 1)
          BY <4>2, <4>3 DEF FirstFinds
        <5> QED BY <5>1, <5>2, <3>3, <2>1
      <4>4. Matched(f)'
        BY <1>2, <1>3, <3>1, <4>3 DEF Matched
      <4> QED BY <4>1, <4>4, <1>2, <1>3, <1>5, <2>6
    <3> QED BY <3>5, <3>6
  <2> QED BY <2>5, <2>6
<1> QED BY <1>6, <1>7
\* Everything else leaves what is known of the file as it is, or ends the search.
LEMMA FollowedStep ==
  ASSUME NEW f \in File, IInv, opt \in Options, Queue, [Next]_vars, ~Save,
         Same(f), Wanted(f), Followed(f)
  PROVE  Followed(f)'
<1>1. Link[f] = f /\ Typed /\ InRepository
  BY DEF Wanted, InScope, IInv
<1>2. /\ Admitted(f)' <=> Admitted(f)
      /\ Asked' = Asked /\ Tongues(f)' = Tongues(f)
      /\ \A command : (f \in Listed(command))' <=> f \in Listed(command)
      /\ \A l : Finds(f, l)' <=> Finds(f, l)
      /\ \A i : FirstFinds(f, i)' <=> FirstFinds(f, i)
  BY <1>1, Alike
<1>3. content'[f] = content[f]
  BY DEF Same
<1>15. ASSUME NEW g \in File, ReadScoped(g) PROVE Followed(f)'
  BY <1>1, <1>15, FollowedScoped
<1>4. ASSUME UNCHANGED <<git, scope, allowed, snap, evidence, notes, calls, groups>>,
             \/ stage' = "threw" \/ UNCHANGED <<stage, todo>>
             \/ Judged /\ Judged'
      PROVE  Followed(f)'
  <2>1. (Matched(f)' <=> Matched(f)) /\ (Worded(f)' <=> Worded(f))
    BY <1>2, <1>3, <1>4 DEF Matched, Worded
  <2>2. Done' = Done /\ \A i : Owed(f, i)' <=> Owed(f, i)
    BY <1>2, <1>4 DEF Done, Owed
  <2> QED BY <1>2, <1>4, <2>1, <2>2 DEF Followed, Judged, Reported
<1>5. CASE Status \/ List \/ ReadHead \/ Scope \/ Target
  BY <1>1, <1>5, FollowedSearch
<1>6. ASSUME NEW g \in File, Snapshot(g) PROVE Followed(f)'
  BY <1>1, <1>6, FollowedSnapshot
<1>7. CASE ScanLexical
  BY <1>7, FollowedLexical
<1>8. CASE Validate
  BY <1>8, FollowedValidate
<1>9. ASSUME NEW g \in groups, ScanStructural(g) PROVE Followed(f)'
  BY <1>9, FollowedStructural
<1>10. CASE Omit
  <2>1. /\ stage = "late" /\ stage' = "audit" /\ groups = {} /\ calls = <<>>
        /\ UNCHANGED <<git, scope, snap>> /\ notes \subseteq notes'
        /\ evidence' = {e \in evidence : e[2] \in DOMAIN snap}
    BY <1>10 DEF Omit
  <2>2. f \in DOMAIN snap /\ (git \in {"head", "resolved"} => f \in scope.files)
    BY <2>1 DEF Followed
  <2>3. Done = Len(Asked) /\ Len(Asked) \in Nat \ {0}
    BY <2>1, AskedIsSequence DEF Done
  <2>4. ASSUME Admitted(f) PROVE Worded(f) /\ Matched(f)
    <3>1. \A i \in DOMAIN Tongues(f) : ~Owed(f, i)
      BY <2>1, <2>3, AskedIsSequence DEF Owed
    <3> QED BY <2>1, <2>4, <3>1 DEF Followed, Matched, FirstFinds
  <2>5. Reported(f)'
    BY <1>2, <1>3, <2>1, <2>2, <2>3, <2>4
    DEF Reported, Followed, Worded, Matched
  <2> QED BY <2>1, <2>2, <2>5 DEF Followed, Judged
<1>11. CASE Build \/ Fail \/ Prepare \/ Recheck \/ Discover
  BY <1>11, <1>4 DEF Build, Fail, Prepare, Recheck, Discover, Throw, Judged
<1>12. ASSUME NEW g \in File, Audit(g) PROVE Followed(f)'
  BY <1>12, <1>4 DEF Audit, HashObject, IndexBlob, Throw, Judged
<1>13. ASSUME NEW g \in File, Edit(g) \/ GitAdd(g) PROVE Followed(f)'
  BY <1>13, <1>4 DEF Edit, GitAdd, Meddle, work
<1>14. CASE GitCommit \/ UNCHANGED vars
  BY <1>14, <1>4 DEF GitCommit, Meddle, work, vars
<1> QED
  BY <1>5, <1>6, <1>7, <1>8, <1>9, <1>10, <1>11, <1>12, <1>13, <1>14, <1>15
  DEF Next, Derive

LEMMA NoneLostStep ==
  IInv /\ opt \in Options /\ Queue /\ NoneLost /\ [Next]_vars => NoneLost'
<1> SUFFICES ASSUME IInv, opt \in Options, Queue, NoneLost, [Next]_vars,
                    NEW f \in File, Wanted(f)'
             PROVE  Followed(f)'
  BY DEF NoneLost
<1>1. CASE Save
  BY <1>1 DEF Save, Followed, Judged
<1>2. CASE ~Save
  <2>1. Same(f) /\ f \notin touched /\ Link[f] = f
    BY <1>2, Untouched DEF Wanted, InScope, IInv
  <2>2. Wanted(f)
    BY <2>1, Alike DEF Wanted
  <2> QED BY <1>2, <2>1, <2>2, FollowedStep DEF NoneLost
<1> QED BY <1>1, <1>2

\* Whatever happens elsewhere in the tree, in a file in scope that nobody
\* touches every match is in the plan, or the plan says that it is not.
THEOREM NothingIsMissed == Spec => []NothingMissed
<1>1. Init => opt \in Options /\ Queue /\ NoneLost
  BY DEF Init, Queue, NoneLost, Followed, Judged
<1>2. IInv /\ opt \in Options /\ Queue /\ NoneLost /\ [Next]_vars
        => (opt \in Options)' /\ Queue' /\ NoneLost'
  BY QueueStep, NoneLostStep
<1>3. NoneLost => NothingMissed
  BY DEF NoneLost, NothingMissed, Followed, Wanted, Reported, Worded, Matched,
         Built, Judged
<1> QED BY <1>1, <1>2, <1>3, DerivationInvariant, PTL DEF Spec

-----------------------------------------------------------------------------
(* What a derivation comes to when nobody changes anything is a function of  *)
(* the tree without the saved plan, so the second one comes to the same.     *)

\* The steps of a derivation, as functions of the tree alone: what of it is
\* looked at, snapshotted and found, in the order of the code.
Scoping == IF opt.git THEN Listing(opt.mode) ELSE RgFiles
Allow == Identities(Scoping)
Named == {f \in FileOperand : Readable(f)}
RgListed == (RgFiles \cap Operand) \cup Named
Wished ==
  {f \in RgListed \ Excluded : opt.git => f \in Allow} \cup (Allow \cap Operand)
Kept(S) == {g \in {Link[f] : f \in S} \ Reserved : content[g] \notin Unsnapshot}
Early == Kept(Wished)

Strays == {f \in opt.stray \ Excluded : Readable(f)}
Searched == IF Early \cap Operand = {} THEN {} ELSE (Early \cap Operand) \cup Strays
SpokenEarly(f) ==
  opt.langs = <<>> \/ \A g \in {f, Link[f]} :
    g \in Early \cap Operand \/ \E i \in DOMAIN opt.langs : opt.langs[i] = Detected[g]
RefusedEarly ==
  \E f \in FileOperand :
    \/ GitIgnored(f) \/ GitIgnored(Link[f])
    \/ {f, Link[f]} \cap Reserved # {} \/ Link[f] \notin Operand
    \/ f \in Named /\ ~({f, Link[f]} \subseteq Globbed /\ SpokenEarly(f))
WordHits == Found("ripgrep", Searched, [f \in Searched |-> Lexical[content[Link[f]]]])
Words == {e \in WordHits : Admitted(e[2]) /\ SpokenEarly(e[2])}
Later == {f \in FilesOf(Words) \ (Early \cup Excluded) : opt.git => f \in Allow}
All == Early \cup Kept(Later)

Parsed == {f \in All \cap Operand : Admitted(f)}
FirstSpots(f) ==
  UNION {Structural[content[f]][Tongues(f)[i]] :
           i \in {j \in DOMAIN Tongues(f) : FirstFinds(f, j)}}
Shapes == Found("ast-grep", Parsed, [f \in Parsed |-> FirstSpots(f)])
Mute(f, i) == Tongues(f)[i] = Unknown
Garbled(f, i) == Tongues(f)[i] \in Broken \ {Unknown}
Remarks ==
  Noted("rejected", FilesOf(WordHits \ Words))
    \cup Noted("rejected", (All \cap Operand) \ Parsed)
    \cup Noted("unsupported", {f \in Parsed : \E i \in DOMAIN Tongues(f) : Mute(f, i)})
    \cup Noted("pattern-error", {f \in Parsed : \E i \in DOMAIN Tongues(f) : Garbled(f, i)})
Hits == Words \cup Shapes
Audited == IF opt.git THEN All ELSE {}
Plan0 ==
  [inputs |-> [f \in All |-> content[f]],
   evidence |-> {e \in Hits : e[2] \in All},
   diagnostics |-> Remarks \cup Noted("omitted", FilesOf(Hits) \ All)]
Identity0 ==
  [head |-> IF opt.git THEN Len(history) ELSE 0,
   blobs |-> [f \in Audited |-> <<content[f], index[f]>>]]

\* How far the derivation is, if nobody has changed anything.
OnScope ==
  /\ listed = Pending \/ listed = RgListed
  /\ git = "list" =>
       scope.files \cup UNION {Listed(c) : c \in scope.listings} = Listing(opt.mode)
  /\ git = "status" => scope.files = {}
  /\ git \in {"head", "resolved"} => scope.files = Listing(opt.mode)
  /\ stage = "scope" =>
       (git = "resolved" <=> opt.git) /\ allowed \cup Identities(todo) = Allow
  /\ scope.head = IF git = "resolved" THEN Len(history) ELSE 0
  /\ Scanning \/ Judged => (git = "resolved" <=> opt.git) /\ allowed = Allow
OnSnapshots ==
  /\ snap = [f \in DOMAIN snap |-> content[f]]
  /\ stage = "snapshot" =>
       /\ todo \subseteq Wished /\ DOMAIN snap \subseteq Early
       /\ Early \subseteq DOMAIN snap \cup Kept(todo)
  /\ stage = "late" =>
       /\ todo \subseteq Later /\ DOMAIN snap \subseteq All
       /\ All \subseteq DOMAIN snap \cup Kept(todo)
       /\ todo # {} => Done = 0
  /\ Judged => DOMAIN snap = All
OnScans ==
  /\ stage = "late" =>
       /\ Words \subseteq evidence /\ evidence \subseteq Words \cup Shapes
       /\ \A g \in groups : g[2] \subseteq Parsed
       /\ \A f \in Parsed :
            IF f \in Taken(evidence)
            THEN \A s \in FirstSpots(f) : <<"ast-grep", f, s>> \in evidence
            ELSE \A i \in DOMAIN Tongues(f) : Finds(f, Tongues(f)[i]) => Owed(f, i)
  /\ Judged => evidence = {e \in Hits : e[2] \in All}
OnNotes ==
  /\ stage = "late" =>
       /\ notes \subseteq Remarks
       /\ Noted("rejected", FilesOf(WordHits \ Words)) \subseteq notes
       /\ Done > 0 => Noted("rejected", (All \cap Operand) \ Parsed) \subseteq notes
       /\ \A f \in Parsed : \A i \in DOMAIN Tongues(f) :
            /\ i <= Done /\ Mute(f, i) => <<"unsupported", f>> \in notes
            /\ Garbled(f, i) /\ ~Owed(f, i) => <<"pattern-error", f>> \in notes
  /\ Judged => notes = Remarks \cup Noted("omitted", FilesOf(Hits) \ All)
OnAudit ==
  /\ stage \in {"search", "scope", "snapshot", "late"} => audit = Nothing
  /\ stage = "audit" =>
       /\ todo \subseteq Audited /\ DOMAIN audit \subseteq Audited
       /\ Audited \subseteq DOMAIN audit \cup todo
       /\ audit = [f \in DOMAIN audit |->
                    IF f \in todo THEN <<content[f]>> ELSE <<content[f], index[f]>>]
  /\ Built => audit = [f \in Audited |-> <<content[f], index[f]>>]
\* What has been asked of the tree, and was granted.
OnRefusals ==
  /\ round \in {"plan", "apply"}
  /\ stage \notin {"search", "scope", "threw"} => listed # Pending
  /\ listed # Pending \/ round = "apply" => Named = FileOperand
  /\ git # "status" \/ round = "apply" => opt.git \/ ~NeedsGit
  /\ opt.clean /\ (git # "status" \/ (round = "apply" /\ ~ShownByStatus)) => Clean
  /\ stage = "late" \/ Judged \/ round = "apply" => ~RefusedEarly
SavedPlan == round = "apply" => saved = [plan |-> Plan0, identity |-> Identity0]
NoRefusal ==
  stage = "threw" =>
    \/ reason = "failed"
    \/ round = "plan" /\ reason \in {"operand", "git", "dirty"}
    \/ round = "apply" /\ reason = "dirty" /\ ShownByStatus
Progress == OnScope /\ OnSnapshots /\ OnScans /\ OnNotes /\ OnAudit
Verdict == SavedPlan /\ OnRefusals /\ NoRefusal
Quiet == edits = 0 => Progress /\ Verdict

\* What the derivation looks at, and a step that leaves that alone.
Seen == Present \ Excluded
AsBefore ==
  /\ UNCHANGED <<index, history, opt>>
  /\ Seen' = Seen
  /\ \A f \in Seen : content'[f] = content[f]

LEMMA ListedAlike ==
  ASSUME AsBefore, NEW f \in Seen
  PROVE  /\ (f \in Listing(opt.mode))' <=> f \in Listing(opt.mode)
         /\ (f \in RgFiles)' <=> f \in RgFiles
<1>1. f \in Present /\ f \in Present' /\ content'[f] = content[f] /\ f \in File
  BY DEF AsBefore, Seen, Present
<1>2. /\ (f \in Tracked)' <=> f \in Tracked
      /\ Hidden(f)' <=> Hidden(f)
      /\ Committed' = Committed
      /\ history' = history /\ opt' = opt /\ index' = index
  BY DEF AsBefore, Tracked, Hidden, Committed
<1>3. /\ (f \in Untracked)' <=> f \in Untracked
      /\ (f \in Staged)' <=> f \in Staged
      /\ (f \in Unstaged)' <=> f \in Unstaged
      /\ (f \in Since)' <=> f \in Since
  BY <1>1, <1>2 DEF Untracked, Staged, Unstaged, Since
<1>6. \A command : (f \in Listed(command))' <=> f \in Listed(command)
  BY <1>1, <1>2, <1>3 DEF Listed
<1>4. (f \in Listing(opt.mode))' <=> f \in Listing(opt.mode)
  BY <1>2, <1>6 DEF Listing
<1>5. (f \in RgFiles)' <=> f \in RgFiles
  BY <1>1, <1>2 DEF RgFiles
<1> QED BY <1>4, <1>5

\* Whatever resolves to something seen is seen itself.
LEMMA LegibleIsSeen ==
  ASSUME PlanNotLinked, NEW f \in File
  PROVE  /\ (f \notin Excluded /\ Readable(f)) <=> (f \in Seen /\ Link[f] \in Seen)
         /\ (f \notin Excluded /\ Readable(f))' <=> (f \in Seen /\ Link[f] \in Seen)'
<1>1. Link[f] \in File
  BY DiscoveryConstants
<1>2. (f \notin Excluded /\ Readable(f)) <=> (f \in Seen /\ Link[f] \in Seen)
  BY <1>1 DEF PlanNotLinked, Excluded, Readable, Seen, Present
<1>3. (f \notin Excluded /\ Readable(f))' <=> (f \in Seen /\ Link[f] \in Seen)'
  BY <1>1 DEF PlanNotLinked, Excluded, Readable, Seen, Present
<1> QED BY <1>2, <1>3

\* The paths that may be snapshotted, and what is snapshotted of them, is seen.
LEMMA AllowIsSeen ==
  ASSUME PlanNotLinked
  PROVE  /\ Allow \subseteq Seen
         /\ \A f \in Allow : Link[f] = f
<1> SUFFICES ASSUME NEW f \in Allow PROVE f \in Seen /\ Link[f] = f
  OBVIOUS
<1>1. PICK g \in Scoping \ Excluded : Readable(g) /\ f = Link[g]
  BY DEF Allow, Identities
<1>2. g \in File
  BY <1>1, ListingIsFiles DEF Scoping, RgFiles, Present
<1> QED BY <1>1, <1>2, LegibleIsSeen, DiscoveryConstants

LEMMA WishedIsSeen ==
  ASSUME PlanNotLinked
  PROVE  /\ \A f \in Wished : f \in Seen /\ Link[f] \in Seen
         /\ \A f \in Early : f \in Seen /\ Link[f] = f
<1>1. ASSUME NEW f \in Wished PROVE f \in Seen /\ Link[f] \in Seen
  <2>1. CASE f \in Allow
    BY <2>1, AllowIsSeen
  <2>2. CASE f \in RgFiles \ Excluded
    BY <2>2 DEF Seen, RgFiles
  <2>3. CASE f \in Named \ Excluded
    BY <2>3, LegibleIsSeen, DiscoveryConstants DEF Named
  <2> QED BY <2>1, <2>2, <2>3 DEF Wished, RgListed
<1>2. ASSUME NEW f \in Early PROVE f \in Seen /\ Link[f] = f
  <2>1. PICK g \in Wished : f = Link[g]
    BY DEF Early, Kept
  <2>2. g \in File
    BY <2>1, <1>1 DEF Seen, Present
  <2> QED BY <2>1, <2>2, <1>1, DiscoveryConstants
<1> QED BY <1>1, <1>2

LEMMA SearchedIsSeen ==
  ASSUME PlanNotLinked, opt \in Options
  PROVE  \A f \in Searched : f \in Seen /\ Link[f] \in Seen
<1>1. \A f \in Early : f \in Seen /\ Link[f] \in Seen
  BY WishedIsSeen
<1>2. \A f \in Strays : f \in Seen /\ Link[f] \in Seen
  BY LegibleIsSeen, DiscoveryConstants DEF Strays
<1> QED BY <1>1, <1>2 DEF Searched

LEMMA LaterIsSeen ==
  ASSUME PlanNotLinked, opt \in Options
  PROVE  /\ FilesOf(WordHits) \subseteq Searched
         /\ Later \subseteq Searched
         /\ All \subseteq Seen
         /\ \A f \in All : Link[f] = f
<1>1. FilesOf(WordHits) \subseteq Searched
  <2>1. \A e \in WordHits : e[2] \in Searched
    BY FoundIsTriple DEF WordHits
  <2> QED BY <2>1 DEF FilesOf
<1>2. Later \subseteq Searched
  BY <1>1 DEF Later, Words, FilesOf
<1>3. \A f \in Kept(Later) : f \in Seen /\ Link[f] = f
  <2> SUFFICES ASSUME NEW f \in Kept(Later) PROVE f \in Seen /\ Link[f] = f
    OBVIOUS
  <2>1. PICK g \in Later : f = Link[g]
    BY DEF Kept
  <2>2. g \in Seen /\ Link[g] \in Seen /\ g \in File
    BY <1>2, SearchedIsSeen DEF Seen, Present
  <2> QED BY <2>1, <2>2, DiscoveryConstants
<1> QED BY <1>1, <1>2, <1>3, WishedIsSeen DEF All

LEMMA SeenAlike ==
  ASSUME PlanNotLinked, opt \in Options, AsBefore
  PROVE  UNCHANGED <<Allow, Wished, Early, Searched>>
<1>1. /\ UNCHANGED <<index, history, opt>> /\ Seen' = Seen
      /\ \A f \in Seen : content'[f] = content[f]
  BY DEF AsBefore
<1>2. \A f \in Seen : /\ (f \in Listing(opt.mode))' <=> f \in Listing(opt.mode)
                      /\ (f \in RgFiles)' <=> f \in RgFiles
  BY ListedAlike
<1>3. \A f \in Seen : (f \in Scoping)' <=> f \in Scoping
  BY <1>1, <1>2 DEF Scoping
<1>4. \A f \in File : (f \notin Excluded /\ Readable(f)) <=> (f \in Seen /\ Link[f] \in Seen)
  BY LegibleIsSeen
<1>5. \A f \in File : (f \notin Excluded /\ Readable(f))' <=> (f \in Seen /\ Link[f] \in Seen)
  BY LegibleIsSeen, <1>1
<1>6. Allow' = Allow
  <2> DEFINE Picked == {g \in Scoping \ Excluded :
                          Readable(g) /\ content[Link[g]] \notin Unsnapshot}
  <2>1. Scoping \subseteq File /\ Scoping' \subseteq File
    <3>1. Scoping \subseteq File
      BY ListingIsFiles DEF Scoping, RgFiles, Present
    <3>2. Scoping' \subseteq File
      BY DEF Scoping, RgFiles, Present, Listing, Listed, Tracked, Staged,
                Unstaged, Untracked, Since
    <3> QED BY <3>1, <3>2
  <2>2. Picked = {g \in Scoping : (g \in Seen /\ Link[g] \in Seen)
                                   /\ content[Link[g]] \notin Unsnapshot}
    BY <2>1, <1>4
  <2>3. Picked' = {g \in Scoping' : (g \in Seen /\ Link[g] \in Seen)
                                     /\ content'[Link[g]] \notin Unsnapshot}
    BY <2>1, <1>5, <1>1
  <2>4. Picked' = Picked
    BY <2>2, <2>3, <1>1, <1>3
  <2>5. Allow = {Link[f] : f \in Picked} \ Reserved
    BY DEF Allow, Identities
  <2>6. Allow' = {Link[f] : f \in Picked'} \ Reserved
    BY DEF Allow, Identities
  <2> QED BY <2>4, <2>5, <2>6
<1>7. Wished' = Wished
  <2>1. RgListed \ Excluded = {f \in Seen : f \in RgFiles /\ f \in Operand}
          \cup {f \in FileOperand : f \in Seen /\ Link[f] \in Seen}
    <3>1. Named \ Excluded = {f \in FileOperand : f \in Seen /\ Link[f] \in Seen}
      BY <1>4, DiscoveryConstants DEF Named
    <3> QED BY <3>1 DEF RgListed, RgFiles, Seen
  <2>2. RgListed' \ Excluded' = {f \in Seen : f \in RgFiles' /\ f \in Operand}
          \cup {f \in FileOperand : f \in Seen /\ Link[f] \in Seen}
    <3>1. Named' \ Excluded' = {f \in FileOperand : f \in Seen /\ Link[f] \in Seen}
      BY <1>5, DiscoveryConstants DEF Named
    <3>2. (RgFiles' \cap Operand) \ Excluded' = {f \in Seen' : f \in RgFiles' /\ f \in Operand}
      BY DEF RgFiles, Seen
    <3> QED BY <3>1, <3>2, <1>1 DEF RgListed
  <2>3. RgListed' \ Excluded' = RgListed \ Excluded
    BY <2>1, <2>2, <1>2
  <2>4. Wished = {f \in RgListed \ Excluded : opt.git => f \in Allow}
                   \cup (Allow \cap Operand)
    BY DEF Wished
  <2>5. Wished' = {f \in RgListed' \ Excluded' : opt'.git => f \in Allow'}
                   \cup (Allow' \cap Operand)
    BY DEF Wished
  <2> QED BY <2>3, <2>4, <2>5, <1>1, <1>6
<1>8. Early' = Early
  <2>1. \A f \in Wished : content'[Link[f]] = content[Link[f]]
    BY WishedIsSeen, <1>1
  <2>2. {Link[f] : f \in Wished'} = {Link[f] : f \in Wished}
    BY <1>7
  <2>3. \A g \in {Link[f] : f \in Wished} : content'[g] = content[g]
    BY <2>1
  <2> QED BY <2>2, <2>3 DEF Early, Kept
<1>9. Searched' = Searched
  <2>1. Strays = {f \in opt.stray : f \in Seen /\ Link[f] \in Seen}
    BY <1>4, DiscoveryConstants DEF Strays
  <2>2. Strays' = {f \in opt.stray : f \in Seen /\ Link[f] \in Seen}
    BY <1>5, <1>1, DiscoveryConstants DEF Strays
  <2> QED BY <2>1, <2>2, <1>8 DEF Searched
<1> QED BY <1>6, <1>7, <1>8, <1>9

LEMMA WordsAlike ==
  ASSUME PlanNotLinked, opt \in Options, AsBefore
  PROVE  UNCHANGED <<WordHits, Words, Later, All>>
<1>1. /\ UNCHANGED <<index, history, opt, Allow, Early, Searched>> /\ Seen' = Seen
      /\ \A f \in Seen : content'[f] = content[f]
  BY SeenAlike DEF AsBefore
<1>2. \A f \in Searched : f \in Seen /\ Link[f] \in Seen
  BY SearchedIsSeen
<1>3. WordHits' = WordHits
  <2>1. [f \in Searched |-> Lexical[content[Link[f]]]]
          = [f \in Searched |-> Lexical[content'[Link[f]]]]
    BY <1>1, <1>2
  <2> QED BY <2>1, <1>1 DEF WordHits
<1>4. \A f : (Admitted(f)' <=> Admitted(f)) /\ (SpokenEarly(f)' <=> SpokenEarly(f))
  <2>1. \A f : GitIgnored(f)' <=> GitIgnored(f)
    BY <1>1 DEF GitIgnored, Hidden, Tracked
  <2> QED BY <2>1, <1>1 DEF Admitted, SpokenEarly
<1>5. Words' = Words
  BY <1>3, <1>4 DEF Words
<1>6. FilesOf(Words) \subseteq Seen
  <2>1. FilesOf(WordHits) \subseteq Searched
    BY LaterIsSeen
  <2> QED BY <2>1, <1>2 DEF Words, FilesOf
<1>7. Later' = Later
  <2>1. Later = {f \in FilesOf(Words) \ Early : opt.git => f \in Allow}
    BY <1>6 DEF Later, Seen
  <2>2. Later' = {f \in FilesOf(Words) \ Early : opt.git => f \in Allow}
    BY <1>1, <1>5, <1>6 DEF Later, Seen, FilesOf
  <2> QED BY <2>1, <2>2
<1>8. Kept(Later)' = Kept(Later)
  <2>1. \A f \in Later : content'[Link[f]] = content[Link[f]]
    BY LaterIsSeen, <1>1, <1>2
  <2> QED BY <2>1, <1>7 DEF Kept
<1> QED BY <1>1, <1>3, <1>5, <1>7, <1>8 DEF All

LEMMA ShapesAlike ==
  ASSUME PlanNotLinked, opt \in Options, AsBefore
  PROVE  UNCHANGED <<Parsed, Shapes, Remarks, Hits, Plan0, Identity0>>
<1>1. /\ UNCHANGED <<index, history, opt, WordHits, Words, All>>
      /\ All \subseteq Seen
      /\ \A f \in All : content'[f] = content[f]
  BY SeenAlike, WordsAlike, LaterIsSeen DEF AsBefore
<1>2. \A f : Admitted(f)' <=> Admitted(f)
  <2>1. \A f : GitIgnored(f)' <=> GitIgnored(f)
    BY <1>1 DEF GitIgnored, Hidden, Tracked
  <2> QED BY <2>1 DEF Admitted
<1>3. Parsed' = Parsed /\ Parsed \subseteq All
  BY <1>1, <1>2 DEF Parsed
<1>4. \A f : Tongues(f)' = Tongues(f)
  BY <1>1 DEF Tongues
<1>5. \A f \in Parsed : FirstSpots(f)' = FirstSpots(f)
  <2> SUFFICES ASSUME NEW f \in Parsed PROVE FirstSpots(f)' = FirstSpots(f)
    OBVIOUS
  <2>1. content'[f] = content[f] /\ Tongues(f)' = Tongues(f)
    BY <1>1, <1>3, <1>4
  <2>2. \A l : Finds(f, l)' <=> Finds(f, l)
    BY <2>1 DEF Finds
  <2>3. \A i : FirstFinds(f, i)' <=> FirstFinds(f, i)
    BY <2>1, <2>2 DEF FirstFinds
  <2> QED BY <2>1, <2>3 DEF FirstSpots
<1>6. Shapes' = Shapes
  <2>1. [f \in Parsed |-> FirstSpots(f)] = [f \in Parsed |-> FirstSpots(f)']
    BY <1>5
  <2> QED BY <2>1, <1>3 DEF Shapes
<1>7. Remarks' = Remarks
  <2>1. \A f, i : (Mute(f, i)' <=> Mute(f, i)) /\ (Garbled(f, i)' <=> Garbled(f, i))
    BY <1>4 DEF Mute, Garbled
  <2>2. \A f : DOMAIN Tongues(f)' = DOMAIN Tongues(f)
    BY <1>4
  <2> QED BY <2>1, <2>2, <1>1, <1>3 DEF Remarks
<1>8. Hits' = Hits
  BY <1>1, <1>6 DEF Hits
<1>9. Plan0' = Plan0
  <2>1. [f \in All |-> content'[f]] = [f \in All |-> content[f]]
    BY <1>1
  <2> QED BY <2>1, <1>1, <1>7, <1>8 DEF Plan0, FilesOf
<1>10. Identity0' = Identity0
  <2>1. Audited' = Audited /\ Audited \subseteq All
    BY <1>1 DEF Audited
  <2>2. [f \in Audited |-> <<content'[f], index'[f]>>]
          = [f \in Audited |-> <<content[f], index[f]>>]
    BY <1>1, <2>1
  <2> QED BY <2>1, <2>2, <1>1 DEF Identity0
<1> QED BY <1>3, <1>6, <1>7, <1>8, <1>9, <1>10

\* Every step but a change and the second derivation's beginning.
Works == Derive \/ Fail \/ Prepare \/ Recheck \/ UNCHANGED vars
Settled == UNCHANGED <<content, index, history, edits, opt, round, saved>>

LEMMA WorksSettle == Works => Settled
<1> SUFFICES ASSUME Works PROVE Settled
  OBVIOUS
<1> USE DEF Settled, tree
<1>1. CASE Discover \/ Status \/ List \/ ReadHead \/ Scope \/ Target
  BY <1>1 DEF Discover, Status, List, ListBy, ReadHead, Scope, Target
<1>2. ASSUME NEW f \in File, ReadScoped(f) \/ Snapshot(f) \/ Audit(f) PROVE Settled
  BY <1>2 DEF ReadScoped, Snapshot, Audit, HashObject, IndexBlob
<1>3. CASE ScanLexical \/ Validate \/ Omit \/ Build
  BY <1>3 DEF ScanLexical, Validate, Omit, Build
<1>4. ASSUME NEW g \in groups, ScanStructural(g) PROVE Settled
  BY <1>4 DEF ScanStructural
<1>5. CASE Fail \/ Prepare \/ Recheck \/ UNCHANGED vars
  BY <1>5 DEF Fail, Prepare, Recheck, vars, work
<1> QED BY <1>1, <1>2, <1>3, <1>4, <1>5 DEF Works, Derive

LEMMA QuietSteps == edits \in Nat /\ [Next]_vars /\ edits' = 0 => edits = 0 /\ (Works \/ Save)
<1> SUFFICES ASSUME edits \in Nat, [Next]_vars, edits' = 0
             PROVE  edits = 0 /\ (Works \/ Save)
  OBVIOUS
<1>1. ASSUME NEW f \in File, Edit(f) \/ GitAdd(f) PROVE FALSE
  BY <1>1 DEF Edit, GitAdd, Meddle
<1>2. CASE GitCommit
  BY <1>2 DEF GitCommit, Meddle
<1>3. Works \/ Save
  BY <1>1, <1>2 DEF Next, Works
<1>4. edits' = edits
  BY <1>3, WorksSettle DEF Settled, Save
<1> QED BY <1>3, <1>4

LEMMA SettledAlike ==
  ASSUME PlanNotLinked, opt \in Options, Settled
  PROVE  /\ UNCHANGED <<Allow, Wished, Early, WordHits, Words, Later, All, Parsed,
                        Shapes, Remarks, Hits, Audited, Plan0, Identity0>>
         /\ UNCHANGED <<RgFiles, Named, RgListed, Listing(opt.mode), Asked>>
         /\ \A S : Kept(S)' = Kept(S) /\ Identities(S)' = Identities(S)
         /\ \A command : Listed(command)' = Listed(command)
         /\ (RefusedEarly' <=> RefusedEarly) /\ (Clean' <=> Clean)
<1>1. AsBefore
  BY DEF Settled, AsBefore, Seen, Present, Excluded
<1>2. UNCHANGED <<Allow, Wished, Early, WordHits, Words, Later, All, Parsed,
                  Shapes, Remarks, Hits, Plan0, Identity0>>
  BY <1>1, SeenAlike, WordsAlike, ShapesAlike
<1>3. Audited' = Audited
  BY <1>2 DEF Audited, Settled
<1>4. UNCHANGED <<Tracked, Present, Committed>> /\ \A f : Hidden(f)' <=> Hidden(f)
  BY DEF Settled, Tracked, Present, Committed, Hidden
<1>5. UNCHANGED <<Untracked, Staged, Unstaged, Since>>
  BY <1>4 DEF Settled, Untracked, Staged, Unstaged, Since
<1>6. /\ UNCHANGED <<RgFiles, Asked>>
      /\ \A command : Listed(command)' = Listed(command)
  BY <1>4, <1>5 DEF Settled, RgFiles, Listed, Asked
<1>7. Listing(opt.mode)' = Listing(opt.mode)
  BY <1>6 DEF Settled, Listing
<1>8. \A S : Kept(S)' = Kept(S) /\ Identities(S)' = Identities(S)
  BY DEF Settled, Kept, Identities, Readable, Excluded
<1>9. UNCHANGED <<Named, RgListed>>
  BY <1>6 DEF Settled, Named, RgListed, Readable
<1>10. RefusedEarly' <=> RefusedEarly
  <2>1. \A f : GitIgnored(f)' <=> GitIgnored(f)
    BY <1>4 DEF Settled, GitIgnored
  <2>2. \A f : SpokenEarly(f)' <=> SpokenEarly(f)
    BY <1>2 DEF Settled, SpokenEarly
  <2> QED BY <2>1, <2>2, <1>9 DEF RefusedEarly
<1>11. Clean' <=> Clean
  BY <1>4 DEF Settled, Clean
<1> QED BY <1>2, <1>3, <1>6, <1>7, <1>8, <1>9, <1>10, <1>11

LEMMA SettledPoints ==
  ASSUME Settled, NEW f
  PROVE  /\ Admitted(f)' <=> Admitted(f)
         /\ Tongues(f)' = Tongues(f) /\ FirstSpots(f)' = FirstSpots(f)
         /\ \A l : Finds(f, l)' <=> Finds(f, l)
         /\ \A i : /\ FirstFinds(f, i)' <=> FirstFinds(f, i)
                   /\ Mute(f, i)' <=> Mute(f, i)
                   /\ Garbled(f, i)' <=> Garbled(f, i)
<1>1. Tongues(f)' = Tongues(f) /\ content' = content
  BY DEF Settled, Tongues
<1>2. \A l : Finds(f, l)' <=> Finds(f, l)
  BY <1>1 DEF Finds
<1>3. \A i : FirstFinds(f, i)' <=> FirstFinds(f, i)
  BY <1>1, <1>2 DEF FirstFinds
<1>4. Admitted(f)' <=> Admitted(f)
  BY DEF Settled, Admitted, GitIgnored, Hidden, Tracked
<1> QED BY <1>1, <1>2, <1>3, <1>4 DEF FirstSpots, Mute, Garbled

LEMMA OnScopeStep ==
  ASSUME PlanNotLinked, opt \in Options, IInv, Queue, OnScope, Works
  PROVE  OnScope'
<1>1. /\ Settled /\ UNCHANGED <<Allow, RgListed, Listing(opt.mode), history, opt>>
      /\ \A S : Identities(S)' = Identities(S)
      /\ \A command : Listed(command)' = Listed(command)
  BY WorksSettle, SettledAlike DEF Settled
<1> USE DEF OnScope, Scanning, Judged
<1>2. ASSUME UNCHANGED <<listed, git, scope, allowed>>,
             \/ stage' = "threw"
             \/ stage' \notin {"scope"} /\ (Scanning \/ Judged)
             \/ UNCHANGED <<stage, todo>>
      PROVE  OnScope'
  BY <1>1, <1>2
<1>3. CASE Discover
  <2>1. /\ UNCHANGED <<git, scope, allowed, todo>>
        /\ stage' = "threw" \/ UNCHANGED stage
        /\ listed' = listed \/ listed' = RgListed
    BY <1>3, DiscoveryConstants DEF Discover, Throw, RgListed, Named
  <2> QED BY <1>1, <2>1
<1>4. CASE Status
  <2>1. \/ stage' = "threw" /\ UNCHANGED <<git, scope, listed>>
        \/ git' = "none" /\ stage' = "search" /\ UNCHANGED <<scope, listed>> /\ git = "status"
        \/ /\ git' = "list" /\ stage' = "search" /\ UNCHANGED listed /\ git = "status"
           /\ scope' = [scope EXCEPT !.listings = Listings(opt.mode)]
    BY <1>4 DEF Status, Throw
  <2>2. /\ scope'.listings = Listings(opt.mode) => UNCHANGED listed
        /\ Listing(opt.mode) = UNION {Listed(c) : c \in Listings(opt.mode)}
    BY <2>1 DEF Listing
  <2> QED BY <1>1, <2>1, <2>2 DEF IInv, Typed
<1>5. CASE List
  <2>1. PICK command \in scope.listings : ListBy(command)
    BY <1>5 DEF List
  <2>2. /\ git = "list" /\ stage' = "search" /\ UNCHANGED listed
        /\ scope'.files = scope.files \cup Listed(command)
        /\ scope'.listings = scope.listings \ {command} /\ scope'.head = scope.head
        /\ git' = IF scope'.listings = {} THEN "head" ELSE "list"
    BY <2>1 DEF ListBy, IInv, Typed
  <2>3. scope'.files \cup UNION {Listed(c) : c \in scope'.listings} = Listing(opt.mode)
    BY <2>1, <2>2
  <2> QED BY <1>1, <2>2, <2>3
<1>6. CASE ReadHead
  <2>1. scope'.head = Len(history) /\ scope'.files = scope.files
    BY <1>6 DEF ReadHead, IInv, Typed
  <2> QED BY <1>1, <1>6, <2>1 DEF ReadHead
<1>7. CASE Scope
  <2>1. /\ UNCHANGED <<git, listed, scope, allowed>> /\ Resolved /\ stage = "search"
        /\ stage' = "scope"
        /\ todo' = (IF git = "resolved" THEN scope.files ELSE RgFiles) \ Excluded
    BY <1>7 DEF Scope
  <2>2. (git = "resolved" <=> opt.git) /\ allowed = {}
    BY <2>1 DEF Resolved, Queue, IInv, InRepository
  <2>3. todo' = Scoping \ Excluded
    BY <2>1, <2>2 DEF Scoping
  <2>4. Identities(todo') = Allow
    BY <2>3 DEF Allow, Identities
  <2> QED BY <1>1, <2>1, <2>2, <2>4
<1>13. ASSUME NEW f \in File, ReadScoped(f) PROVE OnScope'
  <2>1. /\ UNCHANGED <<git, listed, scope, stage>> /\ stage = "scope" /\ f \in todo
        /\ todo' = todo \ {f} /\ allowed' = allowed \cup Identities({f})
    BY <1>13 DEF ReadScoped
  <2>2. Identities(todo) = Identities({f}) \cup Identities(todo \ {f})
    BY <2>1 DEF Identities
  <2> QED BY <1>1, <2>1, <2>2
<1>14. CASE Target
  <2>1. /\ UNCHANGED <<git, listed, scope, allowed>> /\ stage = "scope" /\ todo = {}
        /\ stage' = "snapshot"
    BY <1>14 DEF Target
  <2>2. Identities({}) = {}
    BY DEF Identities
  <2> QED BY <1>1, <2>1, <2>2
<1>8. ASSUME NEW f \in File, Snapshot(f) \/ Audit(f) PROVE OnScope'
  BY <1>8, <1>2 DEF Snapshot, Audit, HashObject, IndexBlob, Throw
<1>9. CASE ScanLexical \/ Validate \/ Omit \/ Build
  BY <1>9, <1>2 DEF ScanLexical, Validate, Omit, Build, Throw
<1>10. ASSUME NEW g \in groups, ScanStructural(g) PROVE OnScope'
  BY <1>10, <1>2 DEF ScanStructural
<1>11. CASE Fail \/ Prepare \/ Recheck
  BY <1>11, <1>2 DEF Fail, Prepare, Recheck, Throw
<1>12. CASE UNCHANGED vars
  BY <1>12, <1>1 DEF vars, work
<1> QED
  BY <1>3, <1>4, <1>5, <1>6, <1>7, <1>8, <1>9, <1>10, <1>11, <1>12, <1>13, <1>14
  DEF Works, Derive

\* The search for words, once everything wished for is snapshotted.
LEMMA LexicalIsWords ==
  ASSUME opt \in Options, OnScope, OnSnapshots, ScanLexical, stage' = "late"
  PROVE  /\ DOMAIN snap = Early
         /\ evidence' = Words /\ todo' = Later
         /\ notes' = Noted("rejected", FilesOf(WordHits \ Words))
         /\ calls' = Asked /\ stage = "snapshot"
         /\ UNCHANGED <<snap, groups>>
<1>1. /\ stage = "snapshot" /\ todo = {} /\ calls' = Asked
      /\ UNCHANGED <<snap, groups>>
  BY DEF ScanLexical, Asked
<1>2. DOMAIN snap = Early
  BY <1>1 DEF OnSnapshots, Kept
<1>3. Candidates = Early \cap Operand
  BY <1>2 DEF Candidates
<1> DEFINE stray == {f \in opt.stray \ Excluded : Readable(f)}
           seen == IF Candidates = {} THEN {} ELSE Candidates \cup stray
           found == Found("ripgrep", seen,
                          [f \in seen |-> Lexical[content[Link[f]]]])
<1>4. seen = Searched
  BY <1>3 DEF Searched, Strays
<1>5. found = WordHits
  BY <1>4 DEF WordHits
<1>6. \A f : Spoken(f) <=> SpokenEarly(f)
  BY <1>3 DEF Spoken, SpokenEarly
<1>7. /\ evidence' = {e \in found : Admitted(e[2]) /\ Spoken(e[2])}
      /\ notes' = Noted("rejected", FilesOf(found \ evidence'))
      /\ todo' = Late(evidence')
  BY DEF ScanLexical, Throw
<1>8. evidence' = Words
  BY <1>5, <1>6, <1>7 DEF Words
<1>9. todo' = Later
  BY <1>1, <1>2, <1>7, <1>8 DEF Late, Later, OnScope, Scanning
<1> QED BY <1>1, <1>2, <1>5, <1>7, <1>8, <1>9

\* What a path among the operands is refused for is there from the start.
LEMMA RefusedIsEarly ==
  ASSUME OnSnapshots, Named = FileOperand, stage = "snapshot", todo = {}
  PROVE  Refused <=> RefusedEarly
<1>1. DOMAIN snap = Early
  BY DEF OnSnapshots, Kept
<1>2. \A f : Spoken(f) <=> SpokenEarly(f)
  BY <1>1 DEF Candidates, Spoken, SpokenEarly
<1>3. \A f \in FileOperand : f \in Named /\ Readable(f)
  BY DEF Named
<1> QED BY <1>2, <1>3 DEF Refused, RefusedEarly

LEMMA OneMoreSnapshot ==
  ASSUME PlanNotLinked, opt \in Options, IInv, OnSnapshots, Works,
         NEW f \in File, Snapshot(f), stage' # "threw"
  PROVE  OnSnapshots'
<1> DEFINE g == Link[f]
<1>1. /\ UNCHANGED <<Wished, Early, Later, All, Asked, content, calls, stage>>
      /\ \A S : Kept(S)' = Kept(S)
  BY WorksSettle, SettledAlike DEF Settled, Snapshot, Throw
<1>2. /\ stage \in {"snapshot", "late"} /\ f \in todo /\ todo' = todo \ {f}
      /\ snap' = IF content[g] \in Unsnapshot \/ g \in Reserved \cup snapshotted
                 THEN snap
                 ELSE [h \in DOMAIN snap \cup {g} |->
                         IF h = g THEN content[g] ELSE snap[h]]
  BY DEF Snapshot, Throw
<1>3. DOMAIN snap' \subseteq DOMAIN snap \cup Kept(todo)
  BY <1>2 DEF Kept
<1>4. DOMAIN snap \cup Kept(todo) \subseteq DOMAIN snap' \cup Kept(todo')
  <2> SUFFICES ASSUME NEW h \in DOMAIN snap \cup Kept(todo)
               PROVE  h \in DOMAIN snap' \cup Kept(todo')
    OBVIOUS
  <2>1. DOMAIN snap \subseteq DOMAIN snap'
    BY <1>2
  <2>2. g \notin Reserved /\ content[g] \notin Unsnapshot => g \in DOMAIN snap'
    BY <1>2 DEF IInv, InRepository
  <2>3. ASSUME h \in Kept(todo), h # g PROVE h \in Kept(todo')
    BY <1>2, <2>3 DEF Kept
  <2> QED BY <2>1, <2>2, <2>3 DEF Kept
<1>5. snap' = [h \in DOMAIN snap' |-> content[h]]
  <2>1. CASE snap' = snap
    BY <2>1 DEF OnSnapshots
  <2>2. CASE snap' = [h \in DOMAIN snap \cup {g} |->
                         IF h = g THEN content[g] ELSE snap[h]]
    <3>1. \A h \in DOMAIN snap : snap[h] = content[h]
      BY DEF OnSnapshots
    <3> QED BY <2>2, <3>1
  <2> QED BY <1>2, <2>1, <2>2
<1>6. \A S, T : S \subseteq T => Kept(S) \subseteq Kept(T)
  BY DEF Kept
<1>7. CASE stage = "snapshot"
  <2>1. DOMAIN snap' \subseteq Early /\ Early \subseteq DOMAIN snap' \cup Kept(todo')
    <3>1. Kept(todo) \subseteq Early
      BY <1>6, <1>7 DEF OnSnapshots, Early
    <3> QED BY <1>3, <1>4, <1>7, <3>1 DEF OnSnapshots
  <2> QED BY <1>1, <1>2, <1>5, <1>7, <2>1 DEF OnSnapshots, Judged
<1>8. CASE stage = "late"
  <2>1. DOMAIN snap' \subseteq All /\ All \subseteq DOMAIN snap' \cup Kept(todo')
    <3>1. Kept(todo) \subseteq All
      BY <1>6, <1>8 DEF OnSnapshots, All
    <3> QED BY <1>3, <1>4, <1>8, <3>1 DEF OnSnapshots
  <2>2. todo \subseteq Later /\ Done = 0
    BY <1>2, <1>8 DEF OnSnapshots
  <2>3. Done' = 0
    BY <1>1, <2>2 DEF Done
  <2> QED BY <1>1, <1>2, <1>5, <1>8, <2>1, <2>2, <2>3 DEF OnSnapshots, Judged
<1> QED BY <1>2, <1>7, <1>8

LEMMA OnSnapshotsStep ==
  ASSUME PlanNotLinked, opt \in Options, IInv, Queue, OnScope, OnSnapshots, Works
  PROVE  OnSnapshots'
<1>1. /\ UNCHANGED <<Wished, Early, Later, All, Asked, content>>
      /\ \A S : Kept(S)' = Kept(S)
  BY WorksSettle, SettledAlike DEF Settled
<1>2. snap = [f \in DOMAIN snap |-> content[f]] /\ Kept({}) = {}
  BY DEF OnSnapshots, Kept
<1>3. ASSUME UNCHANGED snap,
             \/ stage' \in {"search", "scope", "threw"}
             \/ UNCHANGED <<stage, todo, calls>>
             \/ Judged /\ Judged'
      PROVE  OnSnapshots'
  <2>1. UNCHANGED calls => Done' = Done
    BY <1>1 DEF Done
  <2> QED BY <1>1, <1>2, <1>3, <2>1 DEF OnSnapshots, Judged
<1>4. CASE Target
  <2>1. /\ stage = "scope" /\ stage' = "snapshot" /\ UNCHANGED snap
        /\ listed # Pending /\ todo = {} /\ todo' = Targets
    BY <1>4 DEF Target
  <2>2. (git = "resolved" <=> opt.git) /\ allowed = Allow
    BY <2>1 DEF OnScope, Identities
  <2>3. todo' = Wished
    BY <2>1, <2>2 DEF Targets, Wished, OnScope
  <2>4. DOMAIN snap = {}
    BY <2>1 DEF IInv, InRepository
  <2> QED BY <1>1, <1>2, <2>1, <2>3, <2>4 DEF OnSnapshots, Early, Judged
<1>5. ASSUME NEW f \in File, Snapshot(f) PROVE OnSnapshots'
  <2>1. CASE stage' # "threw"
    BY <1>5, <2>1, OneMoreSnapshot
  <2>2. CASE stage' = "threw"
    <3>1. UNCHANGED snap
      BY <1>5, <2>2 DEF Snapshot
    <3> QED BY <2>2, <3>1, <1>3
  <2> QED BY <2>1, <2>2
<1>6. CASE ScanLexical
  <2>1. stage' \in {"late", "threw"} /\ UNCHANGED snap
    BY <1>6 DEF ScanLexical, Throw
  <2>2. CASE stage' = "late"
    <3>1. DOMAIN snap = Early /\ todo' = Later /\ calls' = Asked
      BY <1>6, <2>2, LexicalIsWords
    <3>2. Done' = 0
      BY <3>1, <1>1, AskedIsSequence DEF Done
    <3> QED BY <1>1, <1>2, <2>1, <2>2, <3>1, <3>2 DEF OnSnapshots, All, Judged
  <2> QED BY <2>1, <2>2, <1>3
<1>7. CASE Validate
  <2>1. UNCHANGED <<snap, stage, todo>> /\ stage = "late" /\ todo = {}
    BY <1>7 DEF Validate
  <2> QED BY <1>1, <1>2, <2>1 DEF OnSnapshots, Judged
<1>8. CASE Omit
  <2>1. UNCHANGED snap /\ stage = "late" /\ todo = {} /\ stage' = "audit"
    BY <1>8 DEF Omit
  <2> QED BY <1>1, <1>2, <2>1 DEF OnSnapshots, Judged
<1>9. CASE Discover \/ Status \/ List \/ ReadHead \/ Scope
  BY <1>9, <1>3 DEF Discover, Status, List, ListBy, ReadHead, Scope, Throw
<1>10. ASSUME NEW g \in groups, ScanStructural(g) PROVE OnSnapshots'
  BY <1>10, <1>3 DEF ScanStructural
<1>11. ASSUME NEW f \in File, ReadScoped(f) \/ Audit(f) PROVE OnSnapshots'
  BY <1>11, <1>3 DEF ReadScoped, Audit, HashObject, IndexBlob, Throw, Judged
<1>12. CASE Build \/ Fail \/ Prepare \/ Recheck
  BY <1>12, <1>3 DEF Build, Fail, Prepare, Recheck, Throw, Judged
<1>13. CASE UNCHANGED vars
  BY <1>13, <1>3 DEF vars, work
<1> QED
  BY <1>4, <1>5, <1>6, <1>7, <1>8, <1>9, <1>10, <1>11, <1>12, <1>13
  DEF Works, Derive

\* One call of ast-grep: the files it is asked about, or cannot be.
LEMMA OneMoreCall ==
  ASSUME opt \in Options, Queue, OnSnapshots, Validate
  PROVE  /\ Done \in Nat /\ Done + 1 \in 1..Len(Asked) /\ Done' = Done + 1
         /\ groups = {} /\ UNCHANGED <<stage, evidence, snap, todo>>
         /\ stage = "late" /\ DOMAIN snap = All
         /\ \A g \in groups' : g[2] \subseteq Parsed
         /\ \A f \in Parsed : Tongues(f)[Done + 1] # Unknown =>
              \E g \in groups' : f \in g[2]
         /\ notes' = notes \cup Noted("rejected", (All \cap Operand) \ Parsed)
                       \cup Noted("unsupported", {f \in Parsed : Mute(f, Done + 1)})
<1> DEFINE l == calls[1]
           Decision(h) == IF l = Unknown THEN Detected[h] ELSE l
           admitted == {h \in Candidates : Admitted(h)}
<1>1. /\ stage = "late" /\ todo = {} /\ groups = {} /\ calls # <<>>
      /\ calls' = Tail(calls) /\ UNCHANGED <<stage, evidence, snap, todo, opt>>
  BY DEF Validate
<1>2. DOMAIN snap = All
  BY <1>1 DEF OnSnapshots, Kept
<1>3. Candidates = All \cap Operand /\ admitted = Parsed
  BY <1>2 DEF Candidates, Parsed
<1>4. Len(calls') = Len(calls) - 1 /\ Len(calls) \in 1..Len(Asked)
  BY <1>1, AskedIsSequence DEF Queue
<1>5. Done' = Done + 1 /\ Done \in Nat /\ Done + 1 \in 1..Len(Asked)
  <2>1. Asked' = Asked
    BY <1>1 DEF Asked
  <2> QED BY <2>1, <1>4, AskedIsSequence DEF Done
<1>6. l = Asked[Done + 1]
  BY <1>1, <1>4 DEF Queue
<1>7. \A f : Tongues(f)[Done + 1] = Decision(f)
  BY <1>5, <1>6, AskedIsSequence
<1>8. groups' = {<<m, {h \in Parsed : Decision(h) = m}>> :
                   m \in {Decision(h) : h \in Parsed} \ {Unknown}}
  BY <1>3 DEF Validate
<1>9. \A f \in Parsed : Tongues(f)[Done + 1] # Unknown => \E g \in groups' : f \in g[2]
  <2> SUFFICES ASSUME NEW f \in Parsed, Decision(f) # Unknown
               PROVE  \E g \in groups' : f \in g[2]
    BY <1>7
  <2>1. <<Decision(f), {h \in Parsed : Decision(h) = Decision(f)}>> \in groups'
    BY <1>8
  <2> QED BY <2>1
<1>10. notes' = notes \cup Noted("rejected", (All \cap Operand) \ Parsed)
                  \cup Noted("unsupported", {f \in Parsed : Mute(f, Done + 1)})
  <2>1. notes' = notes \cup Noted("rejected", Candidates \ admitted)
                   \cup Noted("unsupported", {f \in admitted : Decision(f) = Unknown})
    BY DEF Validate
  <2>2. {f \in Parsed : Decision(f) = Unknown} = {f \in Parsed : Mute(f, Done + 1)}
    BY <1>7 DEF Mute
  <2> QED BY <1>3, <2>1, <2>2
<1> QED BY <1>1, <1>2, <1>5, <1>8, <1>9, <1>10

LEMMA FirstIsUnique ==
  ASSUME opt \in Options, NEW f, NEW i \in 1..Len(Asked), FirstFinds(f, i)
  PROVE  FirstSpots(f) = Structural[content[f]][Tongues(f)[i]]
<1>1. DOMAIN Tongues(f) = 1..Len(Asked) /\ Len(Asked) \in Nat
  BY AskedIsSequence
<1>2. \A j \in DOMAIN Tongues(f) : FirstFinds(f, j) <=> j = i
  BY <1>1 DEF FirstFinds
<1>3. {j \in DOMAIN Tongues(f) : FirstFinds(f, j)} = {i}
  BY <1>1, <1>2
<1> QED BY <1>3 DEF FirstSpots

\* A file that is being scanned and has nothing yet: what is found is the first.
LEMMA FoundFirst ==
  ASSUME opt \in Options, Queue, OnScans, stage = "late", NEW g \in groups,
         NEW f \in g[2], f \notin Taken(evidence), g[1] \notin Broken,
         Structural[content[f]][g[1]] # {}
  PROVE  FirstSpots(f) = Structural[content[f]][g[1]]
<1>1. Done \in 1..Len(Asked) /\ g[1] = Tongues(f)[Done] /\ g[1] # Unknown
  BY AskedIsSequence DEF Queue, Done
<1>2. f \in Parsed
  BY DEF OnScans
<1>3. DOMAIN Tongues(f) = 1..Len(Asked) /\ Len(Asked) \in Nat
  BY AskedIsSequence
<1>4. \A j \in DOMAIN Tongues(f) : Finds(f, Tongues(f)[j]) => j >= Done
  <2>1. \A j \in DOMAIN Tongues(f) : Finds(f, Tongues(f)[j]) => Owed(f, j)
    BY <1>2 DEF OnScans
  <2> QED BY <1>1, <1>3, <2>1 DEF Owed
<1>5. Finds(f, Tongues(f)[Done])
  BY <1>1 DEF Finds
<1>6. FirstFinds(f, Done)
  BY <1>1, <1>3, <1>4, <1>5 DEF FirstFinds
<1> QED BY <1>1, <1>6, FirstIsUnique

\* One process of ast-grep.
LEMMA OneMoreScan ==
  ASSUME PlanNotLinked, opt \in Options, Queue, OnScans, Works,
         NEW g \in groups, ScanStructural(g)
  PROVE  OnScans'
<1> DEFINE seen == g[2] \cap Present
           found == Found("ast-grep", seen,
                          [h \in seen |-> Structural[content[h]][g[1]]])
<1>1. Settled /\ UNCHANGED <<Words, Shapes, Parsed, Asked, content, calls, stage>>
  BY WorksSettle, SettledAlike DEF Settled, ScanStructural
<1>2. /\ stage = "late" /\ groups' = groups \ {g}
      /\ Done' = Done
  BY <1>1 DEF ScanStructural, Done
<1>3. /\ g[1] \in Broken => evidence' = evidence
      /\ g[1] \notin Broken => evidence' = evidence \cup {e \in found :
           Admitted(e[2]) /\ e[2] \notin Taken(evidence)}
  BY DEF ScanStructural
<1>4. evidence \subseteq evidence'
  BY <1>3
<1>5. g[2] \subseteq Parsed /\ Parsed \subseteq Seen
  BY <1>2, LaterIsSeen DEF OnScans, Parsed
<1>6. seen = g[2]
  BY <1>5 DEF Seen
<1>7. \A e \in found : e[1] = "ast-grep" /\ e[2] \in g[2]
                        /\ e[3] \in Structural[content[e[2]]][g[1]]
  BY <1>6, FoundIsTriple
<1>8. evidence' \subseteq Words \cup Shapes
  <2> SUFFICES ASSUME NEW e \in found, g[1] \notin Broken, e[2] \notin Taken(evidence)
               PROVE  e \in Shapes
    BY <1>2, <1>3 DEF OnScans
  <2>1. PICK f \in seen : e \in {"ast-grep"} \X {f} \X Structural[content[f]][g[1]]
    BY DEF Found
  <2>2. f \in g[2] /\ f = e[2] /\ Structural[content[f]][g[1]] # {} /\ f \in Parsed
    BY <2>1, <1>5
  <2>3. FirstSpots(f) = Structural[content[f]][g[1]]
    BY <2>2, <1>2, FoundFirst
  <2> QED BY <2>1, <2>2, <2>3 DEF Shapes, Found
<1>9. ASSUME NEW f \in Parsed, f \in Taken(evidence')
      PROVE  \A s \in FirstSpots(f) : <<"ast-grep", f, s>> \in evidence'
  <2>1. CASE f \in Taken(evidence)
    BY <1>2, <1>4, <2>1 DEF OnScans
  <2>2. CASE f \notin Taken(evidence)
    <3>1. PICK e \in evidence' : e[1] = "ast-grep" /\ e[2] = f /\ e \notin evidence
      BY <1>9, <2>2 DEF Taken
    <3>2. g[1] \notin Broken /\ e \in found
      BY <1>3, <3>1
    <3>3. f \in g[2] /\ Structural[content[f]][g[1]] # {}
      BY <1>7, <3>1, <3>2
    <3>4. FirstSpots(f) = Structural[content[f]][g[1]]
      BY <2>2, <3>2, <3>3, <1>2, FoundFirst
    <3>5. \A s \in FirstSpots(f) : <<"ast-grep", f, s>> \in found
      BY <3>3, <3>4, <1>6 DEF Found
    <3> QED BY <1>3, <2>2, <3>2, <3>5 DEF Parsed
  <2> QED BY <2>1, <2>2
<1>10. ASSUME NEW f \in Parsed, f \notin Taken(evidence'), NEW i \in DOMAIN Tongues(f),
              Finds(f, Tongues(f)[i])
       PROVE  Owed(f, i)'
  <2>1. f \notin Taken(evidence)
    BY <1>4, <1>10 DEF Taken
  <2>2. Owed(f, i)
    BY <1>2, <1>10, <2>1 DEF OnScans
  <2>3. CASE i > Done
    BY <2>3, <1>2 DEF Owed
  <2>4. CASE i = Done /\ f \notin g[2]
    BY <2>2, <2>4, <1>2 DEF Owed
  <2>5. CASE i = Done /\ f \in g[2]
    <3>1. g[1] = Tongues(f)[i]
      BY <1>2, <2>5 DEF Queue
    <3>2. g[1] \notin Broken /\ Structural[content[f]][g[1]] # {}
      BY <3>1, <1>10 DEF Finds
    <3>3. PICK s \in Structural[content[f]][g[1]] : TRUE
      BY <3>2
    <3>4. <<"ast-grep", f, s>> \in found
      BY <3>3, <2>5, <1>6 DEF Found
    <3>5. <<"ast-grep", f, s>> \in evidence'
      BY <3>2, <3>4, <2>1, <1>3 DEF Parsed
    <3> QED BY <3>5, <1>10 DEF Taken
  <2> QED BY <2>2, <2>3, <2>4, <2>5 DEF Owed
<1>11. \A f : /\ Tongues(f)' = Tongues(f) /\ FirstSpots(f)' = FirstSpots(f)
              /\ \A l : Finds(f, l)' <=> Finds(f, l)
  BY <1>1, SettledPoints
<1>12. \A h \in groups' : h[2] \subseteq Parsed
  BY <1>2 DEF OnScans
<1>13. Words \subseteq evidence'
  BY <1>2, <1>4 DEF OnScans
<1> QED BY <1>1, <1>2, <1>8, <1>9, <1>10, <1>11, <1>12, <1>13 DEF OnScans, Judged

\* Once no call is left everything is found, and everything remarked on.
LEMMA AllScanned ==
  ASSUME opt \in Options, Queue, OnSnapshots, OnScans, OnNotes, Omit
  PROVE  DOMAIN snap = All /\ evidence = Hits /\ notes = Remarks
<1>1. stage = "late" /\ todo = {} /\ groups = {} /\ calls = <<>>
  BY DEF Omit
<1>2. DOMAIN snap = All
  BY <1>1 DEF OnSnapshots, Kept
<1>3. Done = Len(Asked) /\ Len(Asked) \in Nat \ {0}
  BY <1>1, AskedIsSequence DEF Done
<1>4. \A f : \A i \in DOMAIN Tongues(f) : i \in 1..Len(Asked) /\ ~Owed(f, i)
  BY <1>1, <1>3, AskedIsSequence DEF Owed
<1>5. Shapes \subseteq evidence
  <2> SUFFICES ASSUME NEW e \in Shapes PROVE e \in evidence
    OBVIOUS
  <2>1. PICK f \in Parsed : e \in {"ast-grep"} \X {f} \X FirstSpots(f)
    BY DEF Shapes, Found
  <2>2. PICK s \in FirstSpots(f) : e = <<"ast-grep", f, s>>
    BY <2>1
  <2>3. \E i \in DOMAIN Tongues(f) : FirstFinds(f, i)
    BY <2>2 DEF FirstSpots
  <2>4. f \in Taken(evidence)
    BY <1>1, <1>4, <2>1, <2>3 DEF OnScans, FirstFinds
  <2> QED BY <1>1, <2>2, <2>4 DEF OnScans
<1>6. evidence = Hits
  BY <1>1, <1>5 DEF OnScans, Hits
<1>7. Remarks \subseteq notes
  <2>1. /\ Noted("rejected", FilesOf(WordHits \ Words)) \subseteq notes
        /\ Done > 0 => Noted("rejected", (All \cap Operand) \ Parsed) \subseteq notes
        /\ \A f \in Parsed : \A i \in DOMAIN Tongues(f) :
             /\ i <= Done /\ Mute(f, i) => <<"unsupported", f>> \in notes
             /\ Garbled(f, i) /\ ~Owed(f, i) => <<"pattern-error", f>> \in notes
    BY <1>1 DEF OnNotes
  <2>2. Done > 0 /\ \A f : \A i \in DOMAIN Tongues(f) : i <= Done
    BY <1>3, <1>4
  <2>3. \A f \in Parsed : \A i \in DOMAIN Tongues(f) :
          /\ Mute(f, i) => <<"unsupported", f>> \in notes
          /\ Garbled(f, i) => <<"pattern-error", f>> \in notes
    BY <2>1, <2>2, <1>4
  <2>4. Noted("unsupported", {f \in Parsed : \E i \in DOMAIN Tongues(f) : Mute(f, i)})
          \subseteq notes
    <3>1. \A f \in {h \in Parsed : \E i \in DOMAIN Tongues(h) : Mute(h, i)} :
            <<"unsupported", f>> \in notes
      BY <2>3
    <3> QED BY <3>1 DEF Noted
  <2>5. Noted("pattern-error", {f \in Parsed : \E i \in DOMAIN Tongues(f) : Garbled(f, i)})
          \subseteq notes
    <3>1. \A f \in {h \in Parsed : \E i \in DOMAIN Tongues(h) : Garbled(h, i)} :
            <<"pattern-error", f>> \in notes
      BY <2>3
    <3> QED BY <3>1 DEF Noted
  <2> QED BY <2>1, <2>2, <2>4, <2>5 DEF Remarks
<1> QED BY <1>1, <1>2, <1>6, <1>7 DEF OnNotes

LEMMA OnScansStep ==
  ASSUME PlanNotLinked, opt \in Options, Queue, OnScope, OnSnapshots, OnScans, OnNotes, Works
  PROVE  OnScans'
<1>1. UNCHANGED <<Words, Shapes, Parsed, Asked, Hits, All, content>>
  BY WorksSettle, SettledAlike DEF Settled
<1>2. \A f : /\ Tongues(f)' = Tongues(f) /\ FirstSpots(f)' = FirstSpots(f)
             /\ \A l : Finds(f, l)' <=> Finds(f, l)
  BY WorksSettle, SettledPoints
<1>3. ASSUME UNCHANGED <<evidence, calls, groups>>,
             \/ stage' \in {"search", "scope", "snapshot", "threw"}
             \/ UNCHANGED stage
             \/ Judged /\ Judged'
      PROVE  OnScans'
  <2>1. Done' = Done /\ \A f, i : Owed(f, i)' <=> Owed(f, i)
    BY <1>1, <1>3 DEF Done, Owed
  <2> QED BY <1>1, <1>2, <1>3, <2>1 DEF OnScans, Judged
<1>4. CASE ScanLexical
  <2>1. stage' \in {"late", "threw"}
    BY <1>4 DEF ScanLexical, Throw
  <2>2. CASE stage' = "late"
    <3>1. /\ evidence' = Words /\ calls' = Asked /\ stage = "snapshot"
          /\ UNCHANGED groups
      BY <1>4, <2>2, LexicalIsWords
    <3>2. groups' = {}
      BY <3>1 DEF Queue
    <3>3. Done' = 0
      BY <3>1, <1>1, AskedIsSequence DEF Done
    <3>4. Taken(evidence') = {}
      <4>1. \A e \in WordHits : e[1] = "ripgrep"
        BY FoundIsTriple DEF WordHits
      <4> QED BY <3>1, <4>1 DEF Taken, Words
    <3>5. \A f : \A i \in DOMAIN Tongues(f) : Owed(f, i)'
      BY <3>3, AskedIsSequence DEF Owed
    <3> QED BY <1>1, <1>2, <2>2, <3>1, <3>2, <3>4, <3>5 DEF OnScans, Judged
  <2>3. CASE stage' = "threw"
    BY <2>3 DEF OnScans, Judged
  <2> QED BY <2>1, <2>2, <2>3
<1>5. CASE Validate
  <2>1. /\ Done \in Nat /\ Done + 1 \in 1..Len(Asked) /\ Done' = Done + 1
        /\ groups = {} /\ UNCHANGED <<stage, evidence>> /\ stage = "late"
        /\ \A g \in groups' : g[2] \subseteq Parsed
        /\ \A f \in Parsed : Tongues(f)[Done + 1] # Unknown =>
             \E g \in groups' : f \in g[2]
    BY <1>5, OneMoreCall
  <2>2. ASSUME NEW f \in Parsed, f \notin Taken(evidence), NEW i \in DOMAIN Tongues(f),
               Finds(f, Tongues(f)[i])
        PROVE  Owed(f, i)'
    <3>1. i > Done /\ i \in Nat
      BY <2>1, <2>2, AskedIsSequence DEF OnScans, Owed
    <3>2. CASE i > Done + 1
      BY <3>2, <2>1 DEF Owed
    <3>3. CASE i = Done + 1
      BY <3>3, <2>1, <2>2 DEF Owed, Finds
    <3> QED BY <3>1, <3>2, <3>3, <2>1
  <2> QED BY <1>1, <1>2, <2>1, <2>2 DEF OnScans, Judged
<1>6. CASE Omit
  <2>1. DOMAIN snap = All /\ evidence = Hits
    BY <1>6, AllScanned
  <2> QED BY <1>1, <1>6, <2>1 DEF Omit, OnScans, Judged
<1>7. ASSUME NEW g \in groups, ScanStructural(g) PROVE OnScans'
  BY <1>7, OneMoreScan
<1>8. CASE Discover \/ Status \/ List \/ ReadHead \/ Scope \/ Target
  BY <1>8, <1>3 DEF Discover, Status, List, ListBy, ReadHead, Scope, Target, Throw
<1>9. ASSUME NEW f \in File, ReadScoped(f) \/ Snapshot(f) \/ Audit(f) PROVE OnScans'
  BY <1>9, <1>3 DEF ReadScoped, Snapshot, Audit, HashObject, IndexBlob, Throw
<1>10. CASE Build \/ Fail \/ Prepare \/ Recheck
  BY <1>10, <1>3 DEF Build, Fail, Prepare, Recheck, Throw, Judged
<1>11. CASE UNCHANGED vars
  BY <1>11, <1>3 DEF vars, work
<1> QED
  BY <1>4, <1>5, <1>6, <1>7, <1>8, <1>9, <1>10, <1>11 DEF Works, Derive

\* What one process of ast-grep reports of its files.
LEMMA OneMoreReport ==
  ASSUME PlanNotLinked, opt \in Options, Queue, OnScans, OnNotes, Works,
         NEW g \in groups, ScanStructural(g)
  PROVE  OnNotes'
<1> DEFINE seen == g[2] \cap Present
           found == Found("ast-grep", seen,
                          [h \in seen |-> Structural[content[h]][g[1]]])
<1>1. UNCHANGED <<WordHits, Words, Parsed, All, Remarks, Hits, Asked, stage, calls>>
  BY WorksSettle, SettledAlike DEF ScanStructural
<1>2. \A f : /\ Tongues(f)' = Tongues(f)
             /\ \A i : (Mute(f, i)' <=> Mute(f, i)) /\ (Garbled(f, i)' <=> Garbled(f, i))
  BY WorksSettle, SettledPoints
<1>3. stage = "late" /\ groups' = groups \ {g} /\ Done' = Done /\ g[2] \subseteq Parsed
  BY <1>1 DEF ScanStructural, Done, OnScans
<1>4. \A f \in g[2] : /\ Done \in DOMAIN Tongues(f) /\ g[1] = Tongues(f)[Done]
                      /\ g[1] # Unknown
  BY <1>3, AskedIsSequence DEF Queue, Done
<1>5. g[1] \notin Broken => notes' = notes
  <2> SUFFICES ASSUME g[1] \notin Broken PROVE notes' = notes
    OBVIOUS
  <2>1. notes' = notes \cup Noted("rejected", {f \in FilesOf(found) : ~Admitted(f)})
    BY DEF ScanStructural
  <2>2. \A e \in found : e[2] \in g[2]
    BY FoundIsTriple
  <2>3. {f \in FilesOf(found) : ~Admitted(f)} = {}
    BY <2>2, <1>3 DEF FilesOf, Parsed
  <2> QED BY <2>1, <2>3 DEF Noted
<1>6. g[1] \in Broken => notes' = notes \cup Noted("pattern-error", g[2])
  BY DEF ScanStructural
<1>7. notes' \subseteq Remarks
  <2>1. g[1] \in Broken => Noted("pattern-error", g[2]) \subseteq Remarks
    BY <1>3, <1>4 DEF Garbled, Noted, Remarks
  <2> QED BY <1>3, <1>5, <1>6, <2>1 DEF OnNotes
<1>8. notes \subseteq notes'
  BY <1>5, <1>6
<1>9. ASSUME NEW f \in Parsed, NEW i \in DOMAIN Tongues(f), Garbled(f, i), ~Owed(f, i)'
      PROVE  <<"pattern-error", f>> \in notes'
  <2>1. CASE ~Owed(f, i)
    BY <2>1, <1>3, <1>8, <1>9 DEF OnNotes
  <2>2. CASE Owed(f, i)
    <3>1. i = Done /\ f \in g[2]
      BY <2>2, <1>3, <1>9 DEF Owed
    <3>2. g[1] \in Broken
      BY <3>1, <1>4, <1>9 DEF Garbled
    <3> QED BY <3>1, <3>2, <1>6 DEF Noted
  <2> QED BY <2>1, <2>2
<1> QED BY <1>1, <1>2, <1>3, <1>7, <1>8, <1>9 DEF OnNotes, Judged

LEMMA OnNotesStep ==
  ASSUME PlanNotLinked, opt \in Options, Queue, OnScope, OnSnapshots, OnScans, OnNotes, Works
  PROVE  OnNotes'
<1>1. UNCHANGED <<WordHits, Words, Parsed, All, Remarks, Hits, Asked>>
  BY WorksSettle, SettledAlike
<1>2. \A f : /\ Tongues(f)' = Tongues(f)
             /\ \A i : (Mute(f, i)' <=> Mute(f, i)) /\ (Garbled(f, i)' <=> Garbled(f, i))
  BY WorksSettle, SettledPoints
<1>3. ASSUME UNCHANGED <<notes, calls, groups>>,
             \/ stage' \in {"search", "scope", "snapshot", "threw"}
             \/ UNCHANGED stage
             \/ Judged /\ Judged'
      PROVE  OnNotes'
  <2>1. Done' = Done /\ \A f, i : Owed(f, i)' <=> Owed(f, i)
    BY <1>1, <1>3 DEF Done, Owed
  <2> QED BY <1>1, <1>2, <1>3, <2>1 DEF OnNotes, Judged
<1>4. CASE ScanLexical
  <2>1. stage' \in {"late", "threw"}
    BY <1>4 DEF ScanLexical, Throw
  <2>2. CASE stage' = "late"
    <3>1. notes' = Noted("rejected", FilesOf(WordHits \ Words)) /\ calls' = Asked
      BY <1>4, <2>2, LexicalIsWords
    <3>2. Done' = 0
      BY <3>1, <1>1, AskedIsSequence DEF Done
    <3>3. \A f : \A i \in DOMAIN Tongues(f) : i > Done' /\ Owed(f, i)' /\ ~(i <= Done')
      BY <3>2, AskedIsSequence DEF Owed
    <3>4. notes' \subseteq Remarks
      BY <3>1 DEF Remarks
    <3>5. ASSUME NEW f \in Parsed', NEW i \in (DOMAIN Tongues(f))'
          PROVE  ~(i <= Done') /\ Owed(f, i)'
      BY <1>2, <3>3, <3>5
    <3>6. /\ ~(Done' > 0) /\ ~Judged'
          /\ Noted("rejected", FilesOf(WordHits \ Words))' \subseteq notes'
          /\ notes' \subseteq Remarks'
      BY <1>1, <2>2, <3>1, <3>2, <3>4 DEF Judged
    <3> QED BY <3>5, <3>6 DEF OnNotes
  <2>3. CASE stage' = "threw"
    BY <2>3 DEF OnNotes, Judged
  <2> QED BY <2>1, <2>2, <2>3
<1>5. CASE Validate
  <2>1. /\ Done \in Nat /\ Done + 1 \in 1..Len(Asked) /\ Done' = Done + 1
        /\ groups = {} /\ UNCHANGED stage /\ stage = "late"
        /\ \A f \in Parsed : Tongues(f)[Done + 1] # Unknown =>
             \E g \in groups' : f \in g[2]
        /\ notes' = notes \cup Noted("rejected", (All \cap Operand) \ Parsed)
                      \cup Noted("unsupported", {f \in Parsed : Mute(f, Done + 1)})
    BY <1>5, OneMoreCall
  <2>2. \A f : DOMAIN Tongues(f) = 1..Len(Asked) /\ Len(Asked) \in Nat
    BY AskedIsSequence
  <2>3. notes' \subseteq Remarks
    <3>1. Noted("unsupported", {f \in Parsed : Mute(f, Done + 1)}) \subseteq Remarks
      BY <2>1, <2>2 DEF Noted, Remarks
    <3>2. Noted("rejected", (All \cap Operand) \ Parsed) \subseteq Remarks
      BY DEF Remarks
    <3> QED BY <2>1, <3>1, <3>2 DEF OnNotes
  <2>4. ASSUME NEW f \in Parsed, NEW i \in DOMAIN Tongues(f)
        PROVE  /\ i <= Done' /\ Mute(f, i) => <<"unsupported", f>> \in notes'
               /\ Garbled(f, i) /\ ~Owed(f, i)' => <<"pattern-error", f>> \in notes'
    <3>1. CASE i <= Done
      <4>1. ~Owed(f, i)
        BY <2>1, <2>2, <3>1 DEF Owed
      <4> QED BY <2>1, <3>1, <4>1 DEF OnNotes
    <3>2. CASE i = Done + 1
      <4>1. Mute(f, i) => <<"unsupported", f>> \in notes'
        BY <2>1, <3>2 DEF Noted
      <4>2. Garbled(f, i) => Owed(f, i)'
        BY <2>1, <3>2 DEF Owed, Garbled
      <4> QED BY <4>1, <4>2
    <3>3. CASE i > Done + 1
      BY <3>3, <2>1, <2>2 DEF Owed
    <3> QED BY <3>1, <3>2, <3>3, <2>1, <2>2
  <2>5. Noted("rejected", (All \cap Operand) \ Parsed) \subseteq notes'
    BY <2>1
  <2>6. Noted("rejected", FilesOf(WordHits \ Words)) \subseteq notes'
    BY <2>1 DEF OnNotes
  <2> QED BY <1>1, <1>2, <2>1, <2>3, <2>4, <2>5, <2>6 DEF OnNotes, Judged
<1>6. CASE Omit
  <2>1. DOMAIN snap = All /\ evidence = Hits /\ notes = Remarks
    BY <1>6, AllScanned
  <2> QED BY <1>1, <1>6, <2>1 DEF Omit, OnNotes, Judged, FilesOf
<1>7. ASSUME NEW g \in groups, ScanStructural(g) PROVE OnNotes'
  BY <1>7, OneMoreReport
<1>8. CASE Discover \/ Status \/ List \/ ReadHead \/ Scope \/ Target
  BY <1>8, <1>3 DEF Discover, Status, List, ListBy, ReadHead, Scope, Target, Throw
<1>9. ASSUME NEW f \in File, ReadScoped(f) \/ Snapshot(f) \/ Audit(f) PROVE OnNotes'
  BY <1>9, <1>3 DEF ReadScoped, Snapshot, Audit, HashObject, IndexBlob, Throw
<1>10. CASE Build \/ Fail \/ Prepare \/ Recheck
  BY <1>10, <1>3 DEF Build, Fail, Prepare, Recheck, Throw, Judged
<1>11. CASE UNCHANGED vars
  BY <1>11, <1>3 DEF vars, work
<1> QED
  BY <1>4, <1>5, <1>6, <1>7, <1>8, <1>9, <1>10, <1>11 DEF Works, Derive

LEMMA OneMoreHash ==
  ASSUME PlanNotLinked, opt \in Options, OnAudit, Works,
         NEW f \in File, HashObject(f), stage' # "threw"
  PROVE  OnAudit'
<1>1. UNCHANGED <<Audited, content, index, stage, todo>> /\ stage = "audit"
  BY WorksSettle, SettledAlike DEF Settled, HashObject, Throw
<1>2. /\ f \in todo /\ todo \subseteq Audited
      /\ audit' = [h \in DOMAIN audit \cup {f} |->
                     IF h = f THEN <<content[f]>> ELSE audit[h]]
  BY <1>1 DEF HashObject, Throw, OnAudit
<1>3. DOMAIN audit' = DOMAIN audit \cup {f}
  BY <1>2
<1>4. audit' = [h \in DOMAIN audit' |->
                  IF h \in todo THEN <<content[h]>> ELSE <<content[h], index[h]>>]
  <2>1. \A h \in DOMAIN audit :
          audit[h] = IF h \in todo THEN <<content[h]>> ELSE <<content[h], index[h]>>
    BY <1>1 DEF OnAudit
  <2> QED BY <1>2, <1>3, <2>1
<1> QED BY <1>1, <1>2, <1>3, <1>4 DEF OnAudit, Built

LEMMA OneMoreBlob ==
  ASSUME PlanNotLinked, opt \in Options, OnAudit, Works, NEW f \in File, IndexBlob(f)
  PROVE  OnAudit'
<1>1. UNCHANGED <<Audited, content, index, stage>> /\ stage = "audit"
  BY WorksSettle, SettledAlike DEF Settled, IndexBlob
<1>2. /\ f \in todo \cap DOMAIN audit /\ todo' = todo \ {f}
      /\ audit' = [audit EXCEPT ![f] = <<@[1], index[f]>>]
  BY <1>1 DEF IndexBlob
<1>3. \A h \in DOMAIN audit :
        audit[h] = IF h \in todo THEN <<content[h]>> ELSE <<content[h], index[h]>>
  BY <1>1 DEF OnAudit
<1>4. DOMAIN audit' = DOMAIN audit /\ audit[f][1] = content[f]
  BY <1>2, <1>3
<1>5. audit' = [h \in DOMAIN audit |-> IF h = f THEN <<content[f], index[f]>> ELSE audit[h]]
  BY <1>2, <1>4
<1>6. audit' = [h \in DOMAIN audit |->
                  IF h \in todo' THEN <<content[h]>> ELSE <<content[h], index[h]>>]
  BY <1>2, <1>3, <1>5
<1> QED BY <1>1, <1>2, <1>4, <1>6 DEF OnAudit, Built

LEMMA AuditIsWhole ==
  ASSUME OnAudit, stage = "audit", todo = {}
  PROVE  audit = [f \in Audited |-> <<content[f], index[f]>>]
<1>1. DOMAIN audit = Audited
  BY DEF OnAudit
<1>2. \A f \in Audited : audit[f] = <<content[f], index[f]>>
  BY <1>1 DEF OnAudit
<1>3. audit = [f \in DOMAIN audit |-> audit[f]]
  BY DEF OnAudit
<1> QED BY <1>1, <1>2, <1>3

LEMMA OnAuditStep ==
  ASSUME PlanNotLinked, opt \in Options, Queue, OnScope, OnSnapshots, OnScans, OnNotes,
         OnAudit, Works
  PROVE  OnAudit'
<1>1. UNCHANGED <<Audited, content, index>>
  BY WorksSettle, SettledAlike DEF Settled
<1>2. ASSUME UNCHANGED audit,
             \/ stage' = "threw"
             \/ UNCHANGED <<stage, todo>>
             \/ stage' \in {"search", "scope", "snapshot", "late"}
                  /\ stage \in {"search", "scope", "snapshot", "late"}
             \/ Built /\ Built'
      PROVE  OnAudit'
  BY <1>1, <1>2 DEF OnAudit, Judged, Built
<1>3. CASE Omit
  <2>1. /\ stage = "late" /\ stage' = "audit" /\ UNCHANGED audit
        /\ todo' = IF git = "resolved" THEN DOMAIN snap ELSE {}
    BY <1>3 DEF Omit
  <2>2. DOMAIN snap = All
    BY <1>3, AllScanned
  <2>3. todo' = Audited
    BY <2>1, <2>2 DEF OnScope, Scanning, Audited
  <2>4. audit = Nothing
    BY <2>1 DEF OnAudit
  <2> QED BY <1>1, <2>1, <2>3, <2>4 DEF OnAudit, Built, Nothing
<1>4. ASSUME NEW f \in File, Audit(f) PROVE OnAudit'
  <2>1. CASE HashObject(f) /\ stage' # "threw"
    BY <2>1, OneMoreHash
  <2>2. CASE HashObject(f) /\ stage' = "threw"
    BY <2>2, <1>2 DEF HashObject
  <2>3. CASE IndexBlob(f)
    BY <2>3, OneMoreBlob
  <2> QED BY <1>4, <2>1, <2>2, <2>3 DEF Audit
<1>5. CASE Build
  <2>1. /\ stage = "audit" /\ todo = {} /\ UNCHANGED audit
        /\ stage' \in {"built", "threw"}
    BY <1>5 DEF Build, Throw
  <2>2. audit = [f \in Audited |-> <<content[f], index[f]>>]
    BY <2>1, AuditIsWhole
  <2> QED BY <1>1, <2>1, <2>2 DEF OnAudit, Built
<1>6. CASE Discover \/ Status \/ List \/ ReadHead \/ Scope \/ Target
  BY <1>6, <1>2 DEF Discover, Status, List, ListBy, ReadHead, Scope, Target, Throw
<1>7. ASSUME NEW f \in File, ReadScoped(f) \/ Snapshot(f) PROVE OnAudit'
  BY <1>7, <1>2 DEF ReadScoped, Snapshot, Throw
<1>8. CASE ScanLexical \/ Validate
  BY <1>8, <1>2 DEF ScanLexical, Validate, Throw
<1>9. ASSUME NEW g \in groups, ScanStructural(g) PROVE OnAudit'
  BY <1>9, <1>2 DEF ScanStructural
<1>10. CASE Fail \/ Prepare \/ Recheck
  BY <1>10, <1>2 DEF Fail, Prepare, Recheck, Throw, Built
<1>11. CASE UNCHANGED vars
  BY <1>11, <1>2 DEF vars, work
<1> QED
  BY <1>3, <1>4, <1>5, <1>6, <1>7, <1>8, <1>9, <1>10, <1>11 DEF Works, Derive

\* What is built is what the tree alone determines, and its text is matched.
LEMMA BuiltIsPlan ==
  ASSUME OnScope, OnSnapshots, OnScans, OnNotes, OnAudit,
         Built \/ (stage = "audit" /\ todo = {})
  PROVE  Derived = Plan0 /\ Identity = Identity0
<1>1. Judged
  BY DEF Judged, Built
<1>2. snap = [f \in All |-> content[f]]
  BY <1>1 DEF OnSnapshots
<1>3. /\ evidence = {e \in Hits : e[2] \in All}
      /\ notes = Remarks \cup Noted("omitted", FilesOf(Hits) \ All)
  BY <1>1 DEF OnScans, OnNotes
<1>5. audit = [f \in Audited |-> <<content[f], index[f]>>]
  BY AuditIsWhole DEF OnAudit
<1>6. scope.head = IF opt.git THEN Len(history) ELSE 0
  BY <1>1 DEF OnScope
<1> QED BY <1>2, <1>3, <1>5, <1>6 DEF Derived, Identity, Plan0, Identity0

LEMMA HitsHold ==
  ASSUME PlanNotLinked, opt \in Options, Typed, NEW e \in Hits, e[2] \in All
  PROVE  e[3] \in Holds[content[e[2]]]
<1> DEFINE f == e[2]
<1>1. Link[f] = f /\ f \in File /\ content[f] \in Content
  BY LaterIsSeen DEF Seen, Present, Typed, Tree
<1>2. CASE e \in Words
  <2>1. e \in WordHits
    BY <1>2 DEF Words
  <2>2. f \in Searched
        /\ e[3] \in [h \in Searched |-> Lexical[content[Link[h]]]][f]
    BY <2>1, FoundIsTriple DEF WordHits
  <2> QED BY <1>1, <2>2, DiscoveryConstants
<1>3. CASE e \in Shapes
  <2>1. f \in Parsed /\ e[3] \in [h \in Parsed |-> FirstSpots(h)][f]
    BY <1>3, FoundIsTriple DEF Shapes
  <2>2. PICK i \in DOMAIN Tongues(f) :
          FirstFinds(f, i) /\ e[3] \in Structural[content[f]][Tongues(f)[i]]
    BY <2>1 DEF FirstSpots
  <2>3. Tongues(f)[i] # Unknown
    BY <2>2 DEF FirstFinds, Finds
  <2>4. Tongues(f)[i] \in Language
    <3>1. i \in 1..Len(Asked) /\ Asked[i] \in Language \cup {Unknown}
      BY <2>2, AskedIsSequence
    <3>2. Detected[f] \in Language \cup {Unknown}
      BY <1>1, DiscoveryConstants
    <3> QED BY <2>3, <3>1, <3>2, AskedIsSequence
  <2> QED BY <1>1, <2>2, <2>4, DiscoveryConstants
<1> QED BY <1>2, <1>3 DEF Hits

LEMMA AuditedIsConsistent ==
  ASSUME PlanNotLinked, opt \in Options, Typed, OnSnapshots, OnScans, Judged
  PROVE  Consistent
<1>1. snap = [f \in All |-> content[f]] /\ evidence = {e \in Hits : e[2] \in All}
  BY DEF OnSnapshots, OnScans
<1> QED BY <1>1, HitsHold DEF Consistent

\* A derivation that has asked git or rg was granted what it asked for.
LEMMA OnRefusalsStep ==
  ASSUME PlanNotLinked, opt \in Options, OnSnapshots, OnRefusals, Works
  PROVE  OnRefusals'
<1>1. /\ UNCHANGED <<Named, round, opt>>
      /\ (RefusedEarly' <=> RefusedEarly) /\ (Clean' <=> Clean)
  BY WorksSettle, SettledAlike DEF Settled
<1>2. (NeedsGit' <=> NeedsGit) /\ (ShownByStatus' <=> ShownByStatus)
  BY <1>1 DEF NeedsGit, ShownByStatus
<1> USE DEF OnRefusals
<1>3. ASSUME UNCHANGED <<listed, git>> \/ (UNCHANGED listed /\ git # "status"),
             \/ stage' \in {"search", "scope", "threw"}
             \/ UNCHANGED stage
             \/ (stage = "late" \/ Judged) /\ (stage' = "late" \/ Judged')
      PROVE  OnRefusals'
  <2>1. stage = "late" \/ Judged => stage \notin {"search", "scope", "threw"}
    BY DEF Judged
  <2>2. stage' \in {"search", "scope", "threw"} => ~(stage' = "late" \/ Judged')
    BY DEF Judged
  <2>3. UNCHANGED stage => (Judged' <=> Judged)
    BY DEF Judged
  <2> QED BY <1>1, <1>2, <1>3, <2>1, <2>2, <2>3
<1>4. CASE Discover
  <2>1. listed' # listed => Named = FileOperand
    BY <1>4 DEF Discover, Named
  <2>2. /\ UNCHANGED git /\ stage' \in {"search", "scope", "threw"}
        /\ ~(stage' = "late" \/ Judged')
    BY <1>4 DEF Discover, Throw, Judged
  <2> QED BY <1>1, <1>2, <2>1, <2>2
<1>5. CASE Status
  <2>1. /\ UNCHANGED listed /\ stage' \in {"search", "threw"}
        /\ ~(stage' = "late" \/ Judged')
    BY <1>5 DEF Status, Throw, Judged
  <2>2. \/ UNCHANGED git
        \/ ~NeedsGit
        \/ opt.git /\ (opt.clean => Clean)
    BY <1>5 DEF Status
  <2>3. opt.clean => NeedsGit
    BY DEF NeedsGit
  <2> QED BY <1>1, <1>2, <2>1, <2>2, <2>3
<1>6. CASE List \/ ReadHead
  BY <1>6, <1>3 DEF List, ListBy, ReadHead
<1>7. CASE Target
  <2>1. /\ UNCHANGED <<listed, git>> /\ listed # Pending
        /\ ~(stage' = "late" \/ Judged')
    BY <1>7 DEF Target, Judged
  <2> QED BY <1>1, <1>2, <2>1
<1>8. CASE ScanLexical
  <2>1. /\ UNCHANGED <<listed, git>> /\ stage = "snapshot" /\ todo = {}
        /\ stage' = "threw" \/ (stage' = "late" /\ ~Refused)
    BY <1>8 DEF ScanLexical, Throw
  <2>2. listed # Pending /\ Named = FileOperand
    BY <2>1
  <2>3. stage' = "late" => ~RefusedEarly
    BY <2>1, <2>2, RefusedIsEarly
  <2>4. stage' = "threw" => ~(stage' = "late" \/ Judged')
    BY DEF Judged
  <2> QED BY <1>1, <1>2, <2>1, <2>2, <2>3, <2>4
<1>9. CASE Scope \/ Validate \/ Omit \/ Build
  BY <1>9, <1>3 DEF Scope, Validate, Omit, Build, Throw, Judged, Built
<1>10. ASSUME NEW g \in groups, ScanStructural(g) PROVE OnRefusals'
  BY <1>10, <1>3 DEF ScanStructural
<1>11. ASSUME NEW f \in File, ReadScoped(f) \/ Snapshot(f) \/ Audit(f)
       PROVE  OnRefusals'
  BY <1>11, <1>3 DEF ReadScoped, Snapshot, Audit, HashObject, IndexBlob, Throw
<1>12. CASE Fail \/ Prepare \/ Recheck
  BY <1>12, <1>3 DEF Fail, Prepare, Recheck, Throw, Judged, Built
<1>13. CASE UNCHANGED vars
  BY <1>13, <1>3 DEF vars, work
<1> QED
  BY <1>4, <1>5, <1>6, <1>7, <1>8, <1>9, <1>10, <1>11, <1>12, <1>13
  DEF Works, Derive

LEMMA NoRefusalStep ==
  ASSUME PlanNotLinked, opt \in Options, IInv, Progress, Verdict, Works
  PROVE  NoRefusal'
<1> USE DEF NoRefusal
<1>0. /\ OnScope /\ OnSnapshots /\ OnScans /\ OnNotes /\ OnAudit
      /\ SavedPlan /\ OnRefusals /\ NoRefusal
      /\ UNCHANGED <<round, opt>>
      /\ (ShownByStatus' <=> ShownByStatus)
  BY WorksSettle DEF Progress, Verdict, Settled, ShownByStatus
<1>1. ASSUME UNCHANGED <<stage, reason>> \/ stage' # "threw" PROVE NoRefusal'
  BY <1>0, <1>1
<1>2. CASE Fail
  BY <1>2 DEF Fail, Throw
<1>12. CASE Discover
  <2>1. CASE \E f \in FileOperand : ~Readable(f)
    <3>1. round = "plan"
      BY <1>0, <2>1 DEF OnRefusals, Named
    <3>2. reason' = "operand"
      BY <1>12, <2>1 DEF Discover, Throw
    <3> QED BY <1>0, <3>1, <3>2
  <2>2. CASE \A f \in FileOperand : Readable(f)
    BY <1>12, <2>2, <1>1 DEF Discover
  <2> QED BY <2>1, <2>2
<1>13. CASE Status
  <2>1. \/ UNCHANGED <<stage, reason>>
        \/ reason' = "git" /\ ~opt.git /\ NeedsGit
        \/ reason' = "dirty" /\ opt.clean /\ ~Clean
    BY <1>13 DEF Status, Throw
  <2> QED BY <1>0, <1>1, <2>1 DEF OnRefusals
<1>14. CASE Recheck
  <2>1. git # "status"
    BY <1>14 DEF Recheck, IInv, InRepository, Judged, Resolved
  <2>2. opt.clean => Clean
    BY <1>0, <2>1 DEF OnRefusals
  <2> QED BY <1>14, <2>2, <1>1 DEF Recheck
<1>3. ASSUME NEW f \in File, Snapshot(f) PROVE NoRefusal'
  <2>1. stage \in {"snapshot", "late"} /\ f \in todo
    BY <1>3 DEF Snapshot
  <2>2. f \in Wished \/ f \in Searched
    BY <1>0, <2>1, LaterIsSeen DEF OnSnapshots
  <2>3. f \in Seen /\ Link[f] \in Seen
    BY <2>2, WishedIsSeen, SearchedIsSeen
  <2>4. Readable(f)
    BY <2>3 DEF Seen, Present, Readable
  <2> QED BY <1>3, <2>1, <2>4, <1>1 DEF Snapshot
<1>4. CASE ScanLexical
  <2>1. stage = "snapshot" /\ todo = {}
    BY <1>4 DEF ScanLexical
  <2>2. Candidates \subseteq Present
    BY <1>0, <2>1, WishedIsSeen DEF OnSnapshots, Candidates, Seen
  <2>3. Refused => round = "plan"
    BY <1>0, <2>1, RefusedIsEarly DEF OnRefusals
  <2>4. stage' # "threw" \/ (Refused /\ reason' = "operand")
    BY <1>4, <2>2 DEF ScanLexical, Throw
  <2> QED BY <1>0, <1>1, <2>3, <2>4
<1>5. ASSUME NEW f \in File, Audit(f) PROVE NoRefusal'
  <2>1. f \in Audited
    BY <1>0, <1>5 DEF Audit, HashObject, IndexBlob, OnAudit
  <2>2. f \in Present
    BY <2>1, LaterIsSeen DEF Audited, Seen
  <2> QED BY <1>5, <2>2, <1>1 DEF Audit, HashObject, IndexBlob
<1>6. CASE Build
  <2>1. stage = "audit" /\ todo = {} /\ Judged
    BY <1>6 DEF Build, Judged
  <2>2. Derived = Plan0 /\ Identity = Identity0 /\ Consistent
    BY <1>0, <2>1, BuiltIsPlan, AuditedIsConsistent DEF IInv
  <2>3. round = "apply" => Identity = saved.identity /\ Derived = saved.plan
    BY <1>0, <2>2 DEF SavedPlan
  <2>4. stage' = "built"
    BY <1>6, <2>2, <2>3 DEF Build
  <2> QED BY <2>4, <1>1
<1>7. CASE Prepare
  <2>1. \A f \in DOMAIN snap : content[f] = snap[f]
    BY <1>0 DEF OnSnapshots
  <2>2. stage' = "prepared"
    BY <1>7, <2>1 DEF Prepare
  <2> QED BY <2>2, <1>1
<1>8. CASE List \/ ReadHead \/ Scope \/ Target
  BY <1>8, <1>1 DEF List, ListBy, ReadHead, Scope, Target
<1>15. ASSUME NEW f \in File, ReadScoped(f) PROVE NoRefusal'
  BY <1>15, <1>1 DEF ReadScoped
<1>9. CASE Validate \/ Omit
  BY <1>9, <1>1 DEF Validate, Omit
<1>10. ASSUME NEW g \in groups, ScanStructural(g) PROVE NoRefusal'
  BY <1>10, <1>1 DEF ScanStructural
<1>11. CASE UNCHANGED vars
  BY <1>11, <1>1 DEF vars, work
<1> QED
  BY <1>2, <1>3, <1>4, <1>5, <1>6, <1>7, <1>8, <1>9, <1>10, <1>11, <1>12, <1>13,
     <1>14, <1>15
  DEF Works, Derive

\* The plan is saved, and derived again from the same tree but for itself.
LEMMA SaveStep ==
  ASSUME PlanNotLinked, opt \in Options, IInv, Progress, OnRefusals, Save
  PROVE  Progress' /\ Verdict'
<1> USE DEF Progress
<1>1. /\ stage' = "search" /\ listed' = Pending /\ git' = "status"
      /\ scope'.files = {} /\ scope'.head = 0 /\ snap' = Nothing /\ audit' = Nothing
      /\ stage = "built" /\ round = "plan" /\ round' = "apply"
      /\ saved' = [plan |-> Derived, identity |-> Identity]
      /\ UNCHANGED <<index, history, opt>> /\ PlanFile \notin Present
  BY DEF Save, NoScope
<1>2. DOMAIN Nothing = {} /\ \A g : Nothing = [f \in {} |-> g[f]]
  BY DEF Nothing
<1>3. PICK c \in Content : content' = [f \in File |-> IF f = PlanFile THEN c ELSE content[f]]
  BY DEF Save
<1>4. c # Absent
  BY DiscoveryConstants
<1>5. Excluded = {} /\ Excluded' = {PlanFile}
  BY <1>1 DEF Excluded
<1>6. Seen' = Seen
  BY <1>1, <1>3, <1>4, <1>5 DEF Seen, Present
<1>7. \A f \in Seen : content'[f] = content[f]
  BY <1>1, <1>3 DEF Seen, Present
<1>8. AsBefore
  BY <1>1, <1>6, <1>7 DEF AsBefore
<1>9. Plan0' = Plan0 /\ Identity0' = Identity0
  BY <1>8, ShapesAlike
<1>10. SavedPlan'
  <2>1. Derived = Plan0 /\ Identity = Identity0
    BY <1>1, BuiltIsPlan DEF Built
  <2> QED BY <1>1, <1>9, <2>1 DEF SavedPlan
<1>11. OnScope'
  BY <1>1 DEF OnScope, Scanning, Judged
<1>12. OnSnapshots'
  <2>1. snap' = [f \in DOMAIN snap' |-> content'[f]]
    BY <1>1 DEF Nothing
  <2> QED BY <1>1, <2>1 DEF OnSnapshots, Judged
<1>13. OnScans' /\ OnNotes' /\ NoRefusal'
  BY <1>1 DEF OnScans, OnNotes, NoRefusal, Judged
<1>14. OnAudit'
  BY <1>1 DEF OnAudit, Built
<1>15. Judged /\ git # "status"
  BY <1>1 DEF Judged, IInv, InRepository, Resolved
<1>16. Named = FileOperand /\ listed # Pending
  BY <1>1 DEF OnRefusals
<1>17. Named' = FileOperand
  <2>1. ASSUME NEW f \in FileOperand PROVE Readable(f)'
    <3>1. Readable(f) /\ f \in File /\ Link[f] \in File
      BY <1>16, DiscoveryConstants DEF Named
    <3>2. f \in Seen /\ Link[f] \in Seen
      BY <1>5, <3>1 DEF Seen, Present, Readable
    <3> QED BY <1>7, <3>1, <3>2 DEF Readable
  <2> QED BY <2>1 DEF Named
<1>18. ~RefusedEarly'
  <2>1. ~RefusedEarly
    BY <1>15 DEF OnRefusals
  <2>2. Early' = Early
    BY <1>8, SeenAlike
  <2>3. \A f : SpokenEarly(f)' <=> SpokenEarly(f)
    BY <1>1, <2>2 DEF SpokenEarly
  <2>4. \A f : GitIgnored(f)' <=> GitIgnored(f)
    BY <1>1 DEF GitIgnored, Hidden, Tracked
  <2> QED BY <1>16, <1>17, <2>1, <2>3, <2>4 DEF RefusedEarly
<1>19. opt.clean /\ ~ShownByStatus => Clean'
  <2> SUFFICES ASSUME opt.clean, ~ShownByStatus, NEW f \in File \ Reserved
               PROVE  (IF f \in Tracked THEN content[f] = index[f] /\ index[f] = Committed[f]
                       ELSE Committed[f] = Absent /\ (content[f] # Absent => f \in Ignored))'
    BY DEF Clean
  <2>1. Clean
    BY <1>15 DEF OnRefusals
  <2>2. IF f \in Tracked THEN content[f] = index[f] /\ index[f] = Committed[f]
        ELSE Committed[f] = Absent /\ (content[f] # Absent => f \in Ignored)
    BY <2>1 DEF Clean
  <2>3. Tracked' = Tracked /\ Committed' = Committed
    BY <1>1 DEF Tracked, Committed
  <2>4. CASE f # PlanFile
    BY <1>1, <1>3, <2>2, <2>3, <2>4
  <2>5. CASE f = PlanFile
    <3>1. f \in Ignored
      BY <2>5 DEF ShownByStatus
    <3>2. f \notin Tracked
      BY <1>1, <2>2, <2>5 DEF Present, Tracked
    <3> QED BY <2>2, <2>3, <3>1, <3>2
  <2> QED BY <2>4, <2>5
<1>20. OnRefusals'
  <2>1. opt.git \/ ~NeedsGit
    BY <1>15 DEF OnRefusals
  <2>2. (NeedsGit' <=> NeedsGit) /\ (ShownByStatus' <=> ShownByStatus)
    BY <1>1 DEF NeedsGit, ShownByStatus
  <2> QED BY <1>1, <1>17, <1>18, <1>19, <2>1, <2>2 DEF OnRefusals
<1> QED BY <1>10, <1>11, <1>12, <1>13, <1>14, <1>20 DEF Verdict

LEMMA QuietStep ==
  ASSUME PlanNotLinked
  PROVE  /\ IInv /\ opt \in Options /\ Queue /\ edits \in Nat /\ Quiet /\ [Next]_vars
         => Quiet' /\ (edits \in Nat)'
<1> SUFFICES ASSUME IInv, opt \in Options, Queue, edits \in Nat, Quiet, [Next]_vars
             PROVE  Quiet' /\ (edits \in Nat)'
  OBVIOUS
<1>1. edits' \in Nat
  <2>1. CASE edits' = edits
    BY <2>1
  <2>2. ASSUME NEW files, Meddle(files) PROVE edits' \in Nat
    BY <2>2 DEF Meddle
  <2>3. Works \/ Save => edits' = edits
    BY WorksSettle DEF Settled, Save
  <2> QED BY <2>1, <2>2, <2>3 DEF Next, Works, Edit, GitAdd, GitCommit
<1>2. Quiet'
  <2> SUFFICES ASSUME edits' = 0
               PROVE  Progress' /\ Verdict'
    BY DEF Quiet
  <2>1. edits = 0 /\ (Works \/ Save)
    BY QuietSteps
  <2>2. Progress /\ Verdict
    BY <2>1 DEF Quiet
  <2>3. CASE Works
    <3>0. OnScope /\ OnSnapshots /\ OnScans /\ OnNotes /\ OnAudit /\ OnRefusals
      BY <2>2 DEF Progress, Verdict
    <3>1. SavedPlan'
      BY <2>2, <2>3, WorksSettle, SettledAlike DEF Verdict, SavedPlan, Settled
    <3>2. OnScope' /\ OnSnapshots'
      BY <2>3, <3>0, OnScopeStep, OnSnapshotsStep
    <3>3. OnScans' /\ OnNotes'
      BY <2>3, <3>0, OnScansStep, OnNotesStep
    <3>4. OnAudit' /\ OnRefusals' /\ NoRefusal'
      BY <2>2, <2>3, <3>0, OnAuditStep, OnRefusalsStep, NoRefusalStep
    <3> QED BY <3>1, <3>2, <3>3, <3>4 DEF Progress, Verdict
  <2>4. CASE Save
    BY <2>2, <2>4, SaveStep DEF Verdict
  <2> QED BY <2>1, <2>3, <2>4
<1> QED BY <1>1, <1>2

LEMMA InitQuiet == Init => Quiet /\ edits \in Nat
<1> SUFFICES ASSUME Init PROVE Quiet /\ edits \in Nat
  OBVIOUS
<1>1. /\ stage = "search" /\ listed = Pending /\ git = "status" /\ round = "plan"
      /\ scope.files = {} /\ scope.head = 0 /\ snap = Nothing /\ audit = Nothing
      /\ edits = 0
  BY DEF Init, NoScope
<1>2. OnSnapshots
  <2>1. snap = [f \in DOMAIN snap |-> content[f]]
    BY <1>1 DEF Nothing
  <2> QED BY <1>1, <2>1 DEF OnSnapshots, Judged
<1>3. OnAudit
  BY <1>1 DEF OnAudit, Built
<1>4. OnScope /\ OnScans /\ OnNotes /\ SavedPlan /\ NoRefusal
  BY <1>1 DEF OnScope, OnScans, OnNotes, SavedPlan, NoRefusal, Scanning, Judged
<1>5. OnRefusals
  BY <1>1 DEF OnRefusals, Judged
<1> QED BY <1>1, <1>2, <1>3, <1>4, <1>5 DEF Quiet, Progress, Verdict

\* A saved plan can be applied: if nobody changes the tree, its derivation is
\* granted again what it asks of git and of the operands, and gives the same
\* inputs, evidence and diagnostics, although the plan itself is there now.  The
\* exception is the plan that requires a clean worktree and shows up in it.  No
\* other path may lead to the plan.
THEOREM SavedPlansCanBeApplied ==
  ASSUME PlanNotLinked
  PROVE  Spec => []RefusedOnlyIfChanged
<1>1. Init => opt \in Options /\ Queue
  BY DEF Init, Queue
<1>2. Quiet /\ edits \in Nat => RefusedOnlyIfChanged
  BY DEF Quiet, Verdict, NoRefusal, RefusedOnlyIfChanged
<1>3. IInv /\ opt \in Options /\ Queue /\ Quiet /\ edits \in Nat /\ [Next]_vars
        => (opt \in Options)' /\ Queue' /\ Quiet' /\ (edits \in Nat)'
  BY QueueStep, QuietStep
<1> QED BY <1>1, <1>2, <1>3, InitQuiet, DerivationInvariant, PTL DEF Spec
=============================================================================
