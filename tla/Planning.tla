------------------------------- MODULE Planning -------------------------------
(***************************************************************************)
(* From the evidence of the providers to the bytes of one file:            *)
(*   src/src/evidence.ts   correlateEvidence                               *)
(*   src/src/planner.ts    buildEditPlan                                   *)
(*   src/src/cli-run.ts, transaction.ts   the blocking checks              *)
(*   src/src/diff.ts       applySnapshotEdits                              *)
(* One file: evidence, edits and conflicts of different files never meet.  *)
(* Ranges are half-open; a unit of content stands for some bytes.  A piece *)
(* of evidence is identified by what it says; its hash is that of the      *)
(* snapshot, since buildEditPlan throws on any other.  `with` is the       *)
(* operation's template expanded with the evidence's captures, or Missing  *)
(* when a capture is missing (expandReplacement throws).                   *)
(* Diagnostics that never block (the providers' own) are left out, and so  *)
(* is unresolved-conflicts, which says what Conflicts says.                *)
(***************************************************************************)
EXTENDS Integers, Sequences, FiniteSets

CONSTANTS
  Op,          \* operations of the rewrite plan
  Snapshot,    \* the file as it was read, a sequence of units
  ByteRange,   \* ranges <<from, to>> providers may report
  Replacement, \* expanded templates, sequences of units
  Missing,     \* no expansion
  Require,     \* matchPolicy.require of an operation
  OnUnparseable, \* matchPolicy.onUnparseable of an operation
  Expected,    \* expectedCount of an operation, as the set of allowed counts
  Newline,     \* the newline style of the file, "lf" or "crlf"
  MaxEvidence  \* bound on the evidence reported

By == {"lexical", "structural"}
With == Replacement \cup {Missing}
Evidence == [op : Op, range : ByteRange, by : By, with : With]

ASSUME PlanningConstants ==
  /\ Snapshot \in Seq(STRING)
  /\ ByteRange \subseteq {r \in (0..Len(Snapshot)) \X (0..Len(Snapshot)) : r[1] <= r[2]}
  /\ Replacement \subseteq Seq({"lf", "crlf"} \cup {Snapshot[i] : i \in DOMAIN Snapshot})
  /\ Missing \notin Replacement
  /\ Require \in [Op -> {"eligible", "confirmed", "structural", "lexical"}]
  /\ OnUnparseable \in [Op -> {"allow", "skip", "error"}]
  /\ Expected \in [Op -> SUBSET Nat]
  /\ MaxEvidence \in Nat

VARIABLES
  stage,       \* "search", "correlated", "planned", "apply", "done", "blocked", "threw"
  unavailable, \* operations ast-grep could not run for this file
  evidence,    \* what the providers have reported
  matches,     \* CorrelationResult.matches
  edits,       \* EditPlan.edits
  diagnostics, \* EditPlan.diagnostics, as <<code, operation>>
  todo,        \* edits still to be applied
  output,      \* the content with the others applied
  previousStart

vars == <<stage, unavailable, evidence, matches, edits, diagnostics, todo,
          output, previousStart>>

Init ==
  /\ stage = "search"
  /\ unavailable \in SUBSET Op
  /\ evidence = {} /\ matches = {} /\ edits = {} /\ diagnostics = {}
  /\ todo = {}
  /\ output = Snapshot
  /\ previousStart = Len(Snapshot)

-----------------------------------------------------------------------------
(* Correlation *)

Structural(E) == \E e \in E : e.by = "structural"
Lexical(E) == \E e \in E : e.by = "lexical"

\* exactMatch: the evidence of one operation for one range.
ExactClass(E) ==
  IF Structural(E) /\ Lexical(E) THEN "confirmed"
  ELSE IF Structural(E) THEN "ast-only" ELSE "text-only"
Match(op, from, to, class, E) ==
  [op |-> op, range |-> <<from, to>>, class |-> class, evidence |-> E]
Exact(E) ==
  {LET group == {f \in E : f.op = e.op /\ f.range = e.range}
   IN  Match(e.op, e.range[1], e.range[2], ExactClass(group), group) : e \in E}

Touch(r, s) == r[1] <= s[2] /\ s[1] <= r[2]

\* Mutant: overlapping spans only, not touching ones, are paired.
OverlapOnly(m, n) ==
  /\ m.op = n.op /\ m.range[1] < n.range[2] /\ n.range[1] < m.range[2]
  /\ Structural(m.evidence) # Structural(n.evidence)

\* Matches of one operation whose spans touch, one from each provider.
MayPair(m, n) ==
  /\ m.op = n.op /\ Touch(m.range, n.range)
  /\ Structural(m.evidence) # Structural(n.evidence)

Pairs(M) == {P \in SUBSET M : \E m, n \in P : P = {m, n} /\ MayPair(m, n)}

\* Candidates are taken greedily in the order of a key, none twice.  The key
\* only decides which maximal pairing comes out, so any may.
MaximalPairings(M) ==
  {C \in SUBSET Pairs(M) :
     /\ \A P, Q \in C : P # Q => P \cap Q = {}
     /\ \A P \in Pairs(M) : P \in C \/ P \cap UNION C # {}}

Least(S) == CHOOSE i \in S : \A j \in S : i <= j
Greatest(S) == CHOOSE i \in S : \A j \in S : j <= i

Adjacent(P) ==
  Match((CHOOSE m \in P : TRUE).op, Least({m.range[1] : m \in P}),
        Greatest({m.range[2] : m \in P}), "adjacent",
        UNION {m.evidence : m \in P})

\* A text-only match is unparseable where ast-grep could not run.
Reclassify(m) ==
  IF m.class = "text-only" /\ m.op \in unavailable
  THEN [m EXCEPT !.class = "unparseable"] ELSE m

\* Mutant: a match may be paired with several others.
PairTransitively(E) ==
  LET unmatched == {m \in Exact(E) : m.class # "confirmed"} IN
  {{Reclassify(m) : m \in {n \in Exact(E) : n.class = "confirmed"}
                          \cup {n \in unmatched : n \notin UNION Pairs(unmatched)}
                          \cup {Adjacent(P) : P \in Pairs(unmatched)}}}

\* The possible results of correlateEvidence.
Correlations(E) ==
  LET unmatched == {m \in Exact(E) : m.class # "confirmed"} IN
  {{Reclassify(m) : m \in (Exact(E) \ UNION C) \cup {Adjacent(P) : P \in C}} :
     C \in MaximalPairings(unmatched)}

Correlate ==
  /\ stage = "search"
  /\ stage' = "correlated"
  /\ matches' \in Correlations(evidence)
  /\ UNCHANGED <<unavailable, evidence, edits, diagnostics, todo, output,
                 previousStart>>

\* A provider reports one more piece of evidence.
Report(e) ==
  /\ stage = "search"
  /\ Cardinality(evidence) < MaxEvidence
  /\ e \notin evidence
  /\ evidence' = evidence \cup {e}
  /\ UNCHANGED <<stage, unavailable, matches, edits, diagnostics, todo, output,
                 previousStart>>

-----------------------------------------------------------------------------
(* Planning *)

MatchesPolicy(m) ==
  CASE Require[m.op] = "confirmed" -> m.class = "confirmed"
    [] Require[m.op] = "structural" -> Structural(m.evidence)
    [] Require[m.op] = "lexical" -> Lexical(m.evidence)
    [] OTHER -> m.class \in {"confirmed", "ast-only", "text-only", "unparseable"}

Skipped(m) == m.class = "unparseable" /\ OnUnparseable[m.op] = "skip"

Replacements(m) == {e.with : e \in m.evidence} \ {Missing}

\* What keeps a match from becoming an edit; "none" if nothing does.
Obstacle(m) ==
  IF m.class = "adjacent" THEN "adjacent-match-unresolved"
  ELSE IF Skipped(m) THEN "skipped"
  ELSE IF m.class = "unparseable" /\ OnUnparseable[m.op] = "error"
       THEN "unparseable-match"
  ELSE IF ~MatchesPolicy(m) THEN "match-policy-skip"
  ELSE IF Replacements(m) = {} THEN "missing-replacement-capture"
  ELSE "none"

Planned(M) == {m \in M : Obstacle(m) = "none"}

\* The evidence an edit cites: all of the match if it has one replacement.
Cited(m, w) ==
  IF Replacements(m) = {w} THEN m.evidence ELSE {e \in m.evidence : e.with = w}

\* One edit for each range and replacement, whichever operations ask for it.
Edits(M) ==
  {LET same == {m \in Planned(M) : m.range = k[1] /\ k[2] \in Replacements(m)}
   IN  [range |-> k[1], with |-> k[2], ops |-> {m.op : m \in same},
        evidence |-> UNION {Cited(m, k[2]) : m \in same}] :
     k \in UNION {{m.range} \X Replacements(m) : m \in Planned(M)}}

\* Mutant: of two edits of one range the replacements are not compared.
OverlapApart(a, b) ==
  /\ a.range # b.range
  /\ a.range[2] > b.range[1] /\ b.range[2] > a.range[1]

\* overlapReason is defined: same-range, nested-overlap or partial-overlap.
Overlap(a, b) ==
  IF a.range = b.range THEN a.with # b.with
  ELSE a.range[2] > b.range[1] /\ b.range[2] > a.range[1]

Conflicts(E) == {P \in SUBSET E : \E a, b \in P : P = {a, b} /\ Overlap(a, b)}

\* expectedCountDiagnostics: edits an operation takes part in.
Miscounted(E) == {o \in Op : Cardinality({e \in E : o \in e.ops}) \notin Expected[o]}

Plan ==
  /\ stage = "correlated"
  /\ stage' = "planned"
  /\ edits' = Edits(matches)
  /\ diagnostics' = {<<Obstacle(m), m.op>> : m \in {n \in matches :
                        Obstacle(n) \notin {"none", "skipped"}}}
                    \cup {<<"expected-count", o>> : o \in Miscounted(edits')}
  /\ UNCHANGED <<unavailable, evidence, matches, todo, output, previousStart>>

\* blockingPlanError and assertTransactable.
Blocked ==
  \/ Conflicts(edits) # {}
  \/ \E d \in diagnostics : d[1] # "match-policy-skip"

Decide ==
  /\ stage = "planned"
  /\ stage' = IF Blocked THEN "blocked" ELSE "apply"
  /\ todo' = IF Blocked THEN {} ELSE edits
  /\ UNCHANGED <<unavailable, evidence, matches, edits, diagnostics, output,
                 previousStart>>

-----------------------------------------------------------------------------
(* Application *)

\* normalizedReplacement: in a crlf file every newline becomes crlf.
Normalized(w) ==
  [i \in DOMAIN w |-> IF Newline = "crlf" /\ w[i] = "lf" THEN "crlf" ELSE w[i]]

\* Mutant: of two edits at one start the shorter comes first.
BeforeShort(e, f) ==
  e.range[1] > f.range[1] \/ (e.range[1] = f.range[1] /\ e.range[2] <= f.range[2])

Before(e, f) ==
  e.range[1] > f.range[1] \/ (e.range[1] = f.range[1] /\ e.range[2] >= f.range[2])

\* One turn of the loop of applySnapshotEdits, from the end of the file.
ApplyEdit ==
  /\ stage = "apply"
  /\ \E e \in todo :
       /\ \A f \in todo : Before(e, f)
       /\ todo' = todo \ {e}
       /\ IF e.range[2] > previousStart
          THEN stage' = "threw" /\ UNCHANGED <<output, previousStart>>
          ELSE /\ output' = SubSeq(output, 1, e.range[1]) \o Normalized(e.with)
                              \o SubSeq(output, e.range[2] + 1, Len(output))
               /\ previousStart' = e.range[1]
               /\ UNCHANGED stage
  /\ UNCHANGED <<unavailable, evidence, matches, edits, diagnostics>>

Finish ==
  /\ stage = "apply" /\ todo = {}
  /\ stage' = "done"
  /\ UNCHANGED <<unavailable, evidence, matches, edits, diagnostics, todo,
                 output, previousStart>>

Next ==
  \/ \E e \in Evidence : Report(e)
  \/ Correlate \/ Plan \/ Decide \/ ApplyEdit \/ Finish

Spec == Init /\ [][Next]_vars

-----------------------------------------------------------------------------
\* The types of the variables.
Edit == [range : ByteRange, with : Replacement, ops : SUBSET Op,
         evidence : SUBSET Evidence]
TypeOK ==
  /\ stage \in {"search", "correlated", "planned", "apply", "done", "blocked", "threw"}
  /\ unavailable \subseteq Op
  /\ evidence \subseteq Evidence
  /\ edits \subseteq Edit
  /\ todo \subseteq edits
  /\ previousStart \in 0..Len(Snapshot)

\* Once the plan is not blocked, applySnapshotEdits never refuses it, also for
\* insertions and for edits that touch: what buildEditPlan does not call a
\* conflict can be applied.
ConflictFreeApplies == stage # "threw"

\* The reference: at each position first what is inserted there, then what
\* replaces the units from there on, or the unit itself if nothing covers it.
Inserted(i) == {e \in edits : e.range = <<i, i>>}
Replaced(i) == {e \in edits : e.range[1] = i /\ e.range[2] > i}
Covered(i) == \E e \in edits : e.range[1] < i + 1 /\ i + 1 <= e.range[2]
TextOf(S) == IF S = {} THEN <<>> ELSE Normalized((CHOOSE e \in S : TRUE).with)
Kept(i) == IF i = Len(Snapshot) \/ Covered(i) THEN <<>> ELSE <<Snapshot[i + 1]>>
TextFrom[i \in 0..Len(Snapshot) + 1] ==
  IF i = Len(Snapshot) + 1 THEN <<>>
  ELSE TextOf(Inserted(i)) \o TextOf(Replaced(i)) \o Kept(i) \o TextFrom[i + 1]
Substituted == TextFrom[0]

\* Applying the edits one after the other, from the end, gives what replacing
\* all ranges at once gives, and nothing of it depends on who found what first.
OutputIsSubstitution == stage = "done" => output = Substituted

\* Nothing is dropped silently: in a plan that is carried out, every piece of
\* evidence is cited by an edit of its operation and range, unless its match
\* was skipped by the policies of its operation; and no piece is in two
\* matches.
EvidenceAccounted ==
  /\ stage # "search" =>
       \A e \in evidence : Cardinality({m \in matches : e \in m.evidence}) = 1
  /\ stage \in {"apply", "done"} => \A e \in evidence :
       \/ \E f \in edits : e \in f.evidence /\ e.op \in f.ops /\ f.range = e.range
       \/ <<"match-policy-skip", e.op>> \in diagnostics
       \/ OnUnparseable[e.op] = "skip" /\ e.op \in unavailable

\* In a plan that is carried out the providers do not contradict each other:
\* where text and structure of one operation touch without being the same
\* span, one of the two spans was found by both.
ProvidersAgree ==
  stage \in {"apply", "done"} => \A e, f \in evidence :
    /\ e.op = f.op /\ e.by # f.by /\ e.range # f.range /\ Touch(e.range, f.range)
    => \E g \in evidence : \/ g.op = e.op /\ g.range = e.range /\ g.by # e.by
                           \/ g.op = f.op /\ g.range = f.range /\ g.by # f.by
=============================================================================
