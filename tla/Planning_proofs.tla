---------------------------- MODULE Planning_proofs ----------------------------
(***************************************************************************)
(* Whatever the planner lets pass, applySnapshotEdits can apply, and what  *)
(* it writes is the file with all ranges replaced at once; no evidence is  *)
(* lost on the way and the providers do not contradict each other: for     *)
(* every file, every set of ranges and templates, every policy.            *)
(***************************************************************************)
EXTENDS Previews, FiniteSetTheorems, SequenceTheorems, WellFoundedInduction,
        TLAPS

LEMMA Ranges ==
  /\ Len(Snapshot) \in Nat
  /\ \A r \in ByteRange : /\ r[1] \in 0..Len(Snapshot) /\ r[2] \in 0..Len(Snapshot)
                      /\ r[1] <= r[2] /\ r = <<r[1], r[2]>>
<1>1. Len(Snapshot) \in Nat
  BY PlanningConstants
<1> QED BY <1>1, PlanningConstants

-----------------------------------------------------------------------------
\* What correlation tells the planner of a match that is not adjacent.
MatchOK(m) == m.class # "adjacent" => /\ m.op \in Op
                                      /\ m.range \in ByteRange
                                      /\ m.evidence \subseteq Evidence

LEMMA ExactOK ==
  ASSUME NEW E \in SUBSET Evidence, NEW m \in Exact(E)
  PROVE  MatchOK(m) /\ MatchOK(Reclassify(m))
<1>1. PICK e \in E : m = LET group == {f \in E : f.op = e.op /\ f.range = e.range}
                        IN  Match(e.op, e.range[1], e.range[2], ExactClass(group), group)
  BY DEF Exact
<1> DEFINE group == {f \in E : f.op = e.op /\ f.range = e.range}
           class == ExactClass(group)
<1>2. m = [op |-> e.op, range |-> <<e.range[1], e.range[2]>>, class |-> class,
           evidence |-> group]
  BY <1>1 DEF Match
<1>3. e.op \in Op /\ e.range \in ByteRange
  BY DEF Evidence
<1>4. e.range = <<e.range[1], e.range[2]>>
  BY <1>3, Ranges
<1>5. group \subseteq Evidence
  OBVIOUS
<1> HIDE DEF group, class
<1>6. m.op = e.op /\ m.range = e.range /\ m.evidence = group
  BY <1>2, <1>4
<1>7. /\ Reclassify(m).op = m.op
      /\ Reclassify(m).range = m.range
      /\ Reclassify(m).evidence = m.evidence
  BY <1>2 DEF Reclassify
<1> QED BY <1>3, <1>5, <1>6, <1>7 DEF MatchOK

LEMMA CorrelationOK ==
  ASSUME NEW E \in SUBSET Evidence, NEW M \in Correlations(E)
  PROVE  \A m \in M : MatchOK(m)
<1> DEFINE unmatched == {m \in Exact(E) : m.class # "confirmed"}
<1>1. PICK C \in MaximalPairings(unmatched) :
        M = {Reclassify(m) : m \in (Exact(E) \ UNION C) \cup {Adjacent(P) : P \in C}}
  BY DEF Correlations
<1>2. ASSUME NEW P \in C PROVE MatchOK(Reclassify(Adjacent(P)))
  <2>1. Adjacent(P).class = "adjacent"
    BY DEF Adjacent, Match
  <2> QED BY <2>1 DEF Reclassify, MatchOK
<1> QED BY <1>1, <1>2, ExactOK

\* An edit is determined by its range and replacement.
Keyed(S) == \A e, f \in S : e.range = f.range /\ e.with = f.with => e = f

LEMMA EditsOK ==
  ASSUME NEW M, \A m \in M : MatchOK(m)
  PROVE  Edits(M) \subseteq Edit /\ Keyed(Edits(M))
<1> DEFINE keys == UNION {{m.range} \X Replacements(m) : m \in Planned(M)}
           same(k) == {m \in Planned(M) : m.range = k[1] /\ k[2] \in Replacements(m)}
           edit(k) == [range |-> k[1], with |-> k[2], ops |-> {m.op : m \in same(k)},
                       evidence |-> UNION {Cited(m, k[2]) : m \in same(k)}]
<1>1. Edits(M) = {edit(k) : k \in keys}
  BY DEF Edits
<1>2. ASSUME NEW m \in Planned(M)
      PROVE  /\ m.op \in Op /\ m.range \in ByteRange /\ m.evidence \subseteq Evidence
  BY <1>2 DEF Planned, Obstacle, MatchOK
<1>3. ASSUME NEW m \in Planned(M) PROVE Replacements(m) \subseteq Replacement
  BY <1>2 DEF Replacements, Evidence, With
<1>4. ASSUME NEW k \in keys
      PROVE  k[1] \in ByteRange /\ k[2] \in Replacement /\ k = <<k[1], k[2]>>
  BY <1>2, <1>3
<1>5. ASSUME NEW m \in Planned(M), NEW w PROVE Cited(m, w) \subseteq Evidence
  BY <1>2 DEF Cited
<1>6. ASSUME NEW k \in keys PROVE edit(k) \in Edit
  <2>1. {m.op : m \in same(k)} \subseteq Op
    BY <1>2
  <2>2. UNION {Cited(m, k[2]) : m \in same(k)} \subseteq Evidence
    BY <1>5
  <2> QED BY <1>4, <2>1, <2>2 DEF Edit
<1>7. ASSUME NEW k \in keys, NEW l \in keys, edit(k).range = edit(l).range,
             edit(k).with = edit(l).with
      PROVE  edit(k) = edit(l)
  <2>1. k[1] = l[1] /\ k[2] = l[2]
    BY <1>7
  <2>2. k = l
    BY <2>1, <1>4
  <2> QED BY <2>2
<1> HIDE DEF edit, keys
<1> QED BY <1>1, <1>6, <1>7 DEF Keyed

-----------------------------------------------------------------------------
\* The last of the edits left lies behind all others, since they are disjoint.
LEMMA LastIsBehind ==
  ASSUME NEW S \in SUBSET Edit, Keyed(S), Conflicts(S) = {},
         NEW e \in S, NEW f \in S, e # f, Before(e, f)
  PROVE  f.range[2] <= e.range[1]
<1>1. ~Overlap(e, f)
  <2>1. {e, f} \notin Conflicts(S)
    OBVIOUS
  <2> QED BY <2>1 DEF Conflicts
<1>2. e.range # f.range
  BY <1>1 DEF Keyed, Overlap
<1>3. e.range \in ByteRange /\ f.range \in ByteRange
  BY DEF Edit
<1> DEFINE a == e.range[1]  b == e.range[2]  c == f.range[1]  d == f.range[2]
<1>4. a \in Nat /\ b \in Nat /\ c \in Nat /\ d \in Nat /\ a <= b /\ c <= d
  BY <1>3, Ranges
<1>5. ~(a = c /\ b = d)
  BY <1>2, <1>3, Ranges
<1>6. b <= c \/ d <= a
  <2>1. ~(b > c /\ d > a)
    BY <1>1, <1>2 DEF Overlap
  <2> QED BY <2>1, <1>4
<1>7. a > c \/ (a = c /\ b >= d)
  BY DEF Before
<1> HIDE DEF a, b, c, d
<1>8. d <= a
  BY <1>4, <1>5, <1>6, <1>7
<1> QED BY <1>8 DEF a, d

-----------------------------------------------------------------------------
\* Matches are typed, edits are keyed, and what is left to apply ends before
\* what has been applied.
IInv ==
  /\ TypeOK
  /\ \A m \in matches : MatchOK(m)
  /\ Keyed(edits)
  /\ stage # "apply" => /\ todo = {}
                        /\ previousStart = Len(Snapshot) \/ stage = "done"
  /\ stage = "apply" => /\ Conflicts(edits) = {}
                        /\ \A e \in todo : e.range[2] <= previousStart
  /\ stage # "threw"

LEMMA Begins == Init => IInv
  BY Ranges DEF Init, IInv, TypeOK, Keyed

LEMMA Keeps == IInv /\ [Next]_vars => IInv'
<1> SUFFICES ASSUME IInv, [Next]_vars PROVE IInv'
  OBVIOUS
<1> USE DEF IInv
<1>1. ASSUME NEW e \in Evidence, Report(e) PROVE IInv'
  BY <1>1 DEF Report, TypeOK, Edit, Keyed, MatchOK, Conflicts, Overlap
<1>2. CASE Correlate
  <2>1. \A m \in matches' : MatchOK(m)
    BY <1>2, CorrelationOK DEF Correlate, TypeOK
  <2> QED BY <1>2, <2>1 DEF Correlate, TypeOK
<1>3. CASE Plan
  <2>1. edits' \subseteq Edit /\ Keyed(edits')
    BY <1>3, EditsOK DEF Plan
  <2>2. todo = {}
    BY <1>3 DEF Plan
  <2> QED BY <1>3, <2>1, <2>2 DEF Plan, TypeOK
<1>4. CASE Decide
  <2>1. \A e \in edits : e.range[2] <= Len(Snapshot)
    BY Ranges DEF TypeOK, Edit
  <2> QED BY <1>4, <2>1 DEF Decide, Blocked, TypeOK
<1>5. CASE ApplyEdit
  <2>1. PICK e \in todo :
          /\ \A f \in todo : Before(e, f)
          /\ todo' = todo \ {e}
          /\ IF e.range[2] > previousStart
             THEN stage' = "threw" /\ UNCHANGED <<output, previousStart>>
             ELSE previousStart' = e.range[1] /\ UNCHANGED stage
    BY <1>5 DEF ApplyEdit
  <2>2. e \in Edit /\ e.range[1] \in 0..Len(Snapshot) /\ e.range[2] \in Nat
    BY Ranges DEF TypeOK, Edit
  <2>3. stage' = "apply" /\ previousStart' = e.range[1]
    BY <1>5, <2>1, <2>2 DEF ApplyEdit, TypeOK
  <2>4. \A f \in todo' : f.range[2] <= previousStart'
    <3> TAKE f \in todo'
    <3>1. f \in edits /\ e \in edits /\ f # e /\ Before(e, f)
      BY <2>1 DEF TypeOK
    <3> QED BY <1>5, <2>3, <3>1, LastIsBehind DEF ApplyEdit, TypeOK
  <2> QED BY <1>5, <2>1, <2>2, <2>3, <2>4 DEF ApplyEdit, TypeOK
<1>6. CASE Finish
  BY <1>6 DEF Finish, TypeOK
<1>7. CASE UNCHANGED vars
  BY <1>7 DEF vars, TypeOK
<1> QED BY <1>1, <1>2, <1>3, <1>4, <1>5, <1>6, <1>7 DEF Next

LEMMA Always == Spec => []IInv
  BY Begins, Keeps, PTL DEF Spec

\* The planner's state keeps its types (evidence.ts, planner.ts, diff.ts).
THEOREM TypeCorrect == Spec => []TypeOK
<1>1. IInv => TypeOK
  BY DEF IInv
<1> QED BY <1>1, Always, PTL

\* A plan that buildEditPlan does not block is never refused by the overlap
\* check of applySnapshotEdits (src/src/diff.ts:44).
THEOREM PassedPlansApply == Spec => []ConflictFreeApplies
<1>1. IInv => ConflictFreeApplies
  BY DEF IInv, ConflictFreeApplies
<1> QED BY <1>1, Always, PTL

-----------------------------------------------------------------------------
(* What becomes of the evidence.                                            *)

\* The exact match a piece of evidence belongs to.
Group(E, e) == {f \in E : f.op = e.op /\ f.range = e.range}
ExactOf(E, e) == Match(e.op, e.range[1], e.range[2], ExactClass(Group(E, e)), Group(E, e))

LEMMA ExactIsGroup ==
  ASSUME NEW E \in SUBSET Evidence
  PROVE  /\ Exact(E) = {ExactOf(E, e) : e \in E}
         /\ \A e \in E : /\ ExactOf(E, e).op = e.op
                         /\ ExactOf(E, e).range = e.range
                         /\ ExactOf(E, e).class = ExactClass(Group(E, e))
                         /\ ExactOf(E, e).evidence = Group(E, e)
                         /\ e \in Group(E, e)
<1>1. Exact(E) = {ExactOf(E, e) : e \in E}
  BY DEF Exact, ExactOf, Group
<1>2. ASSUME NEW e \in E
      PROVE  /\ ExactOf(E, e).op = e.op /\ ExactOf(E, e).range = e.range
             /\ ExactOf(E, e).class = ExactClass(Group(E, e))
             /\ ExactOf(E, e).evidence = Group(E, e) /\ e \in Group(E, e)
  <2>1. e.range = <<e.range[1], e.range[2]>>
    BY Ranges DEF Evidence
  <2>2. e \in Group(E, e)
    BY DEF Group
  <2> QED BY <2>1, <2>2 DEF ExactOf, Match
<1> QED BY <1>1, <1>2

\* No two exact matches share a piece of evidence.
LEMMA ExactIsUnique ==
  ASSUME NEW E \in SUBSET Evidence, NEW e \in E, NEW m \in Exact(E), e \in m.evidence
  PROVE  m = ExactOf(E, e)
<1>1. PICK f \in E : m = ExactOf(E, f)
  BY ExactIsGroup
<1>2. e \in Group(E, f)
  BY <1>1, ExactIsGroup
<1>3. e.op = f.op /\ e.range = f.range
  BY <1>2 DEF Group
<1>4. Group(E, e) = Group(E, f)
  BY <1>3 DEF Group
<1> QED BY <1>1, <1>3, <1>4 DEF ExactOf

LEMMA ReclassifyKeeps ==
  ASSUME NEW op, NEW from, NEW to, NEW class, NEW E
  PROVE  LET m == Match(op, from, to, class, E) IN
         /\ Reclassify(m).op = op /\ Reclassify(m).range = <<from, to>>
         /\ Reclassify(m).evidence = E
         /\ class = "adjacent" => Reclassify(m).class = "adjacent"
         /\ class \notin {"adjacent", "unparseable"} =>
              /\ Reclassify(m).class # "adjacent"
              /\ Reclassify(m).class = "unparseable" => op \in unavailable
BY DEF Reclassify, Match

LEMMA ExactReclassified ==
  ASSUME NEW E \in SUBSET Evidence, NEW e \in E
  PROVE  LET m == Reclassify(ExactOf(E, e)) IN
         /\ m.op = e.op /\ m.range = e.range /\ m.evidence = Group(E, e)
         /\ m.class # "adjacent"
         /\ m.class = "unparseable" => m.op \in unavailable
<1>1. ExactClass(Group(E, e)) \notin {"adjacent", "unparseable"}
  BY DEF ExactClass
<1>2. e.range = <<e.range[1], e.range[2]>>
  BY Ranges DEF Evidence
<1> QED BY <1>1, <1>2, ReclassifyKeeps DEF ExactOf

LEMMA AdjacentReclassified ==
  ASSUME NEW P
  PROVE  /\ Reclassify(Adjacent(P)).class = "adjacent"
         /\ Reclassify(Adjacent(P)).evidence = UNION {m.evidence : m \in P}
BY ReclassifyKeeps DEF Adjacent

\* Every piece of evidence is in one match: its own or that of a pair.
LEMMA EvidenceInOneMatch ==
  ASSUME NEW E \in SUBSET Evidence, NEW M \in Correlations(E), NEW e \in E
  PROVE  \E m \in M :
           /\ \A n \in M : e \in n.evidence <=> n = m
           /\ \/ m = Reclassify(ExactOf(E, e))
              \/ m.class = "adjacent"
<1> DEFINE unmatched == {m \in Exact(E) : m.class # "confirmed"}
<1>1. PICK C \in MaximalPairings(unmatched) :
        M = {Reclassify(m) : m \in (Exact(E) \ UNION C) \cup {Adjacent(P) : P \in C}}
  BY DEF Correlations
<1>2. /\ C \subseteq Pairs(unmatched)
      /\ \A P, Q \in C : P # Q => P \cap Q = {}
  BY DEF MaximalPairings
<1>3. \A P \in C : P \subseteq Exact(E)
  BY <1>2 DEF Pairs
<1> DEFINE x == ExactOf(E, e)
<1>4. x \in Exact(E) /\ e \in x.evidence
  BY ExactIsGroup
<1>5. ASSUME NEW n \in Exact(E) PROVE Reclassify(n).evidence = n.evidence
  BY ExactIsGroup, ExactReclassified
<1>6. ASSUME NEW n \in M, e \in n.evidence
      PROVE  \/ n = Reclassify(x) /\ x \notin UNION C
             \/ \E P \in C : x \in P /\ n = Reclassify(Adjacent(P))
  <2>1. CASE \E y \in Exact(E) \ UNION C : n = Reclassify(y)
    BY <2>1, <1>5, <1>6, ExactIsUnique
  <2>2. CASE \E P \in C : n = Reclassify(Adjacent(P))
    <3>1. PICK P \in C : n = Reclassify(Adjacent(P))
      BY <2>2
    <3>2. PICK y \in P : e \in y.evidence
      BY <1>6, <3>1, AdjacentReclassified
    <3>3. y = x
      BY <1>3, <3>2, ExactIsUnique
    <3> QED BY <3>1, <3>2, <3>3
  <2> QED BY <1>1, <2>1, <2>2
<1>7. CASE x \notin UNION C
  <2>1. Reclassify(x) \in M /\ e \in Reclassify(x).evidence
    BY <1>1, <1>4, <1>5, <1>7
  <2>2. \A n \in M : e \in n.evidence => n = Reclassify(x)
    BY <1>6, <1>7
  <2> QED BY <2>1, <2>2
<1>8. CASE x \in UNION C
  <2>1. PICK P \in C : x \in P
    BY <1>8
  <2> DEFINE m == Reclassify(Adjacent(P))
  <2>2. m \in M
    BY <1>1, <2>1
  <2>3. e \in m.evidence /\ m.class = "adjacent"
    BY <1>4, <2>1, AdjacentReclassified
  <2>4. \A Q \in C : x \in Q => Q = P
    BY <1>2, <2>1
  <2>5. \A n \in M : e \in n.evidence => n = m
    BY <1>6, <1>8, <2>4
  <2> QED BY <2>2, <2>3, <2>5
<1> QED BY <1>7, <1>8

\* Text and structure of one operation that touch leave an adjacent match, if
\* neither span was found by both.
LEMMA TouchingIsAdjacent ==
  ASSUME NEW E \in SUBSET Evidence, NEW M \in Correlations(E),
         NEW e \in E, NEW f \in E,
         e.op = f.op, e.by # f.by, e.range # f.range, Touch(e.range, f.range),
         \A g \in E : /\ g.op = e.op /\ g.range = e.range => g.by = e.by
                      /\ g.op = f.op /\ g.range = f.range => g.by = f.by
  PROVE  \E m \in M : m.class = "adjacent"
<1> DEFINE unmatched == {m \in Exact(E) : m.class # "confirmed"}
           x == ExactOf(E, e)
           y == ExactOf(E, f)
<1>1. PICK C \in MaximalPairings(unmatched) :
        M = {Reclassify(m) : m \in (Exact(E) \ UNION C) \cup {Adjacent(P) : P \in C}}
  BY DEF Correlations
<1>2. /\ \A g \in Group(E, e) : g.by = e.by
      /\ \A g \in Group(E, f) : g.by = f.by
  BY DEF Group
<1>3. e.by \in By /\ f.by \in By /\ e \in Group(E, e) /\ f \in Group(E, f)
  BY DEF Evidence, Group
<1>4. /\ ExactClass(Group(E, e)) # "confirmed" /\ ExactClass(Group(E, f)) # "confirmed"
      /\ Structural(Group(E, e)) # Structural(Group(E, f))
  BY <1>2, <1>3 DEF ExactClass, Structural, Lexical, By
<1>5. x \in unmatched /\ y \in unmatched
  BY <1>4, ExactIsGroup
<1>6. MayPair(x, y)
  BY <1>4, ExactIsGroup DEF MayPair
<1>7. {x, y} \in Pairs(unmatched)
  BY <1>5, <1>6 DEF Pairs
<1>8. {x, y} \in C \/ {x, y} \cap UNION C # {}
  BY <1>7 DEF MaximalPairings
<1>9. PICK P \in C : TRUE
  BY <1>8
<1> QED BY <1>1, <1>9, AdjacentReclassified

-----------------------------------------------------------------------------
\* What the later stages hold is what the earlier ones made of the evidence,
\* and what is applied was not blocked.
Derived ==
  /\ stage # "search" => matches \in Correlations(evidence)
  /\ stage \in {"planned", "apply", "done"} =>
       /\ edits = Edits(matches)
       /\ \A m \in matches : Obstacle(m) \in {"none", "skipped"}
                             \/ <<Obstacle(m), m.op>> \in diagnostics
  /\ stage \in {"apply", "done"} => ~Blocked

LEMMA DerivedStep == IInv /\ Derived /\ [Next]_vars => Derived'
<1> SUFFICES ASSUME IInv, Derived, [Next]_vars PROVE Derived'
  OBVIOUS
<1> USE DEF Derived
<1>1. ASSUME UNCHANGED <<unavailable, evidence, matches, edits, diagnostics>>,
             stage' = stage \/ (stage = "apply" /\ stage' \in {"threw", "done"})
      PROVE  Derived'
  <2>1. Correlations(evidence)' = Correlations(evidence)
    BY <1>1 DEF Correlations, Reclassify
  <2>2. Blocked' <=> Blocked
    BY <1>1 DEF Blocked
  <2> QED BY <1>1, <2>1, <2>2
<1>2. ASSUME NEW e \in Evidence, Report(e) PROVE Derived'
  BY <1>2 DEF Report
<1>3. CASE Correlate
  <2>1. Correlations(evidence)' = Correlations(evidence)
    BY <1>3 DEF Correlate, Correlations, Reclassify
  <2> QED BY <1>3, <2>1 DEF Correlate
<1>4. CASE Plan
  BY <1>4 DEF Plan, Correlations, Reclassify
<1>5. CASE Decide
  BY <1>5 DEF Decide, Correlations, Reclassify, Blocked
<1>6. CASE ApplyEdit \/ Finish
  BY <1>6, <1>1 DEF ApplyEdit, Finish
<1>7. CASE UNCHANGED vars
  BY <1>7, <1>1 DEF vars
<1> QED BY <1>2, <1>3, <1>4, <1>5, <1>6, <1>7 DEF Next

LEMMA AlwaysDerived == Spec => [](TypeOK /\ Derived)
<1>1. Init => Derived
  BY DEF Init, Derived
<1>2. IInv => TypeOK
  BY DEF IInv
<1> QED BY <1>1, <1>2, DerivedStep, Always, PTL DEF Spec

\* What is carried out was not stopped by any of its matches.
LEMMA NoObstacle ==
  ASSUME Derived, stage \in {"apply", "done"}, NEW m \in matches
  PROVE  /\ m.class # "adjacent"
         /\ \/ Obstacle(m) \in {"none", "skipped"}
            \/ Obstacle(m) = "match-policy-skip"
                 /\ <<"match-policy-skip", m.op>> \in diagnostics
<1>1. \A d \in diagnostics : d[1] = "match-policy-skip"
  BY DEF Derived, Blocked
<1>2. \/ Obstacle(m) \in {"none", "skipped"}
      \/ Obstacle(m) = "match-policy-skip"
           /\ <<"match-policy-skip", m.op>> \in diagnostics
  BY <1>1 DEF Derived
<1> QED BY <1>2 DEF Obstacle

\* A match that nothing keeps from it becomes an edit for each replacement.
LEMMA EditOfMatch ==
  ASSUME NEW M, NEW m \in Planned(M), NEW w \in Replacements(m)
  PROVE  \E f \in Edits(M) : /\ f.range = m.range /\ f.with = w
                             /\ m.op \in f.ops /\ Cited(m, w) \subseteq f.evidence
<1> DEFINE same(k) == {n \in Planned(M) : n.range = k[1] /\ k[2] \in Replacements(n)}
           edit(k) == [range |-> k[1], with |-> k[2], ops |-> {n.op : n \in same(k)},
                       evidence |-> UNION {Cited(n, k[2]) : n \in same(k)}]
           keys == UNION {{n.range} \X Replacements(n) : n \in Planned(M)}
           k == <<m.range, w>>
<1>1. Edits(M) = {edit(l) : l \in keys}
  BY DEF Edits
<1>2. k \in keys
  OBVIOUS
<1>3. m \in same(k)
  OBVIOUS
<1>4. /\ edit(k).range = m.range /\ edit(k).with = w
      /\ m.op \in edit(k).ops /\ Cited(m, w) \subseteq edit(k).evidence
  BY <1>3
<1> HIDE DEF edit, keys, k
<1> QED BY <1>1, <1>2, <1>4

\* A match with two replacements would make two edits of one range.
LEMMA OneReplacement ==
  ASSUME NEW M, Conflicts(Edits(M)) = {}, NEW m \in Planned(M)
  PROVE  \E w : Replacements(m) = {w}
<1>1. PICK w \in Replacements(m) : TRUE
  BY DEF Planned, Obstacle
<1>2. ASSUME NEW v \in Replacements(m), v # w PROVE FALSE
  <2>1. PICK a \in Edits(M) : a.range = m.range /\ a.with = w
    BY EditOfMatch
  <2>2. PICK b \in Edits(M) : b.range = m.range /\ b.with = v
    BY EditOfMatch
  <2>3. Overlap(a, b)
    BY <1>2, <2>1, <2>2 DEF Overlap
  <2>4. {a, b} \in Conflicts(Edits(M))
    BY <2>3 DEF Conflicts
  <2> QED BY <2>4
<1> QED BY <1>1, <1>2

LEMMA PlannedIsCited ==
  ASSUME NEW M, Conflicts(Edits(M)) = {}, NEW m \in Planned(M), NEW e \in m.evidence
  PROVE  \E f \in Edits(M) : e \in f.evidence /\ m.op \in f.ops /\ f.range = m.range
<1>1. PICK w : Replacements(m) = {w}
  BY OneReplacement
<1>2. Cited(m, w) = m.evidence
  BY <1>1 DEF Cited
<1> QED BY <1>1, <1>2, EditOfMatch

\* Nothing the providers report is dropped without a word (planner.ts 245-300).
THEOREM EvidenceIsAccounted == Spec => []EvidenceAccounted
<1>1. TypeOK /\ Derived => EvidenceAccounted
  <2> SUFFICES ASSUME TypeOK, Derived, stage # "search", NEW e \in evidence
               PROVE  /\ Cardinality({m \in matches : e \in m.evidence}) = 1
                      /\ stage \in {"apply", "done"} =>
                           \/ \E f \in edits : /\ e \in f.evidence /\ e.op \in f.ops
                                               /\ f.range = e.range
                           \/ <<"match-policy-skip", e.op>> \in diagnostics
                           \/ OnUnparseable[e.op] = "skip" /\ e.op \in unavailable
    BY DEF EvidenceAccounted
  <2>1. evidence \in SUBSET Evidence /\ matches \in Correlations(evidence)
    BY DEF TypeOK, Derived
  <2>2. PICK m \in matches :
          /\ \A n \in matches : e \in n.evidence <=> n = m
          /\ \/ m = Reclassify(ExactOf(evidence, e)) \/ m.class = "adjacent"
    BY <2>1, EvidenceInOneMatch
  <2>3. {n \in matches : e \in n.evidence} = {m}
    BY <2>2
  <2>4. Cardinality({n \in matches : e \in n.evidence}) = 1
    BY <2>3, FS_Singleton
  <2>5. ASSUME stage \in {"apply", "done"}
        PROVE  \/ \E f \in edits : /\ e \in f.evidence /\ e.op \in f.ops
                                   /\ f.range = e.range
               \/ <<"match-policy-skip", e.op>> \in diagnostics
               \/ OnUnparseable[e.op] = "skip" /\ e.op \in unavailable
    <3>1. m = Reclassify(ExactOf(evidence, e))
      BY <2>2, <2>5, NoObstacle
    <3>2. /\ m.op = e.op /\ m.range = e.range /\ e \in m.evidence
          /\ m.class = "unparseable" => m.op \in unavailable
      BY <2>1, <2>2, <3>1, ExactReclassified
    <3>3. CASE Obstacle(m) = "none"
      <4>1. m \in Planned(matches)
        BY <3>3 DEF Planned
      <4>2. edits = Edits(matches) /\ Conflicts(edits) = {}
        BY <2>5 DEF Derived, Blocked
      <4> QED BY <3>2, <4>1, <4>2, PlannedIsCited
    <3>4. CASE Obstacle(m) = "skipped"
      BY <3>2, <3>4 DEF Obstacle, Skipped
    <3>5. CASE Obstacle(m) \notin {"none", "skipped"}
      BY <2>5, <3>2, <3>5, NoObstacle
    <3> QED BY <3>3, <3>4, <3>5
  <2> QED BY <2>4, <2>5
<1> QED BY <1>1, AlwaysDerived, PTL

\* Text and structure that touch without being one span stop the plan, unless
\* one of the spans was found by both (evidence.ts 120-200).
THEOREM ProvidersDoAgree == Spec => []ProvidersAgree
<1>1. TypeOK /\ Derived => ProvidersAgree
  <2> SUFFICES ASSUME TypeOK, Derived, stage \in {"apply", "done"},
                      NEW e \in evidence, NEW f \in evidence,
                      e.op = f.op, e.by # f.by, e.range # f.range,
                      Touch(e.range, f.range),
                      ~\E g \in evidence :
                          \/ g.op = e.op /\ g.range = e.range /\ g.by # e.by
                          \/ g.op = f.op /\ g.range = f.range /\ g.by # f.by
               PROVE  FALSE
    BY DEF ProvidersAgree
  <2>1. evidence \in SUBSET Evidence /\ matches \in Correlations(evidence)
    BY DEF TypeOK, Derived
  <2>2. \E m \in matches : m.class = "adjacent"
    BY <2>1, TouchingIsAdjacent
  <2> QED BY <2>2, NoObstacle
<1> QED BY <1>1, AlwaysDerived, PTL

-----------------------------------------------------------------------------
(* The result of the loop.  Induction on positions goes through the least   *)
(* element of a set of natural numbers.                                     *)

LessThan == {p \in Nat \X Nat : p[1] < p[2]}

LEMMA LeastExists ==
  ASSUME NEW T \in SUBSET Nat, T # {}
  PROVE  \E m \in T : \A n \in T : m <= n
<1>1. OpToRel(<, Nat) = LessThan
  BY DEF OpToRel, LessThan
<1>2. PICK m \in T : \A n \in T : ~(<<n, m>> \in LessThan)
  BY <1>1, NatLessThanWellFounded, WFMin
<1>3. ASSUME NEW n \in T PROVE m <= n
  <2>1. <<n, m>> \in Nat \X Nat /\ <<n, m>>[1] = n /\ <<n, m>>[2] = m
    OBVIOUS
  <2>2. ~(n < m)
    BY <1>2, <2>1 DEF LessThan
  <2> QED BY <2>2
<1> QED BY <1>3

\* What holds of n and passes down from each position to the one below.
LEMMA DownTo ==
  ASSUME NEW n \in Nat, NEW j \in 0..n, NEW S, n \in S,
         \A i \in j..n - 1 : i + 1 \in S => i \in S
  PROVE  j \in S
<1> DEFINE T == {k \in 0..n - j : n - k \notin S}
<1>1. SUFFICES ASSUME j \notin S PROVE FALSE
  OBVIOUS
<1>2. n - j \in T /\ T \in SUBSET Nat
  BY <1>1
<1>3. PICK k \in T : \A l \in T : k <= l
  <2> HIDE DEF T
  <2> QED BY <1>2, LeastExists
<1>4. k # 0
  BY <1>3
<1>5. k - 1 \in 0..n - j /\ k - 1 \notin T
  BY <1>3, <1>4
<1>6. n - (k - 1) \in S /\ n - k \in j..n - 1 /\ (n - k) + 1 = n - (k - 1)
  BY <1>3, <1>4, <1>5
<1>7. n - k \in S
  BY <1>6
<1> QED BY <1>3, <1>7

Size == Len(Snapshot)
Units == {"lf", "crlf"} \cup {Snapshot[i] : i \in 1..Size}
Texts == Seq(Units)

\* The file, the templates and what the reference is made of are sequences of
\* the units of the file and of line ends.
LEMMA SnapshotIsText ==
  Size \in Nat /\ Snapshot \in Texts /\ \A i \in 0..Size - 1 : <<Snapshot[i + 1]>> \in Texts
<1>1. Size \in Nat /\ DOMAIN Snapshot = 1..Size /\ Snapshot = [i \in 1..Size |-> Snapshot[i]]
  BY PlanningConstants, LenProperties DEF Size
<1>2. Snapshot \in [1..Size -> Units]
  BY <1>1 DEF Units
<1>3. \A i \in 0..Size - 1 : Snapshot[i + 1] \in Units
  BY <1>1 DEF Units
<1> QED BY <1>1, <1>2, <1>3, SeqDef DEF Texts

LEMMA NormalizedIsText == \A w \in Replacement : Normalized(w) \in Texts
<1> SUFFICES ASSUME NEW w \in Replacement PROVE Normalized(w) \in Texts
  OBVIOUS
<1>1. DOMAIN Snapshot = 1..Size
  BY PlanningConstants, LenProperties DEF Size
<1>2. w \in Seq(Units)
  BY <1>1, PlanningConstants DEF Units
<1>3. Len(w) \in Nat /\ DOMAIN w = 1..Len(w) /\ \A i \in 1..Len(w) : w[i] \in Units
  BY <1>2, LenProperties, ElementOfSeq
<1>4. Normalized(w) \in [1..Len(w) -> Units]
  BY <1>3 DEF Normalized, Units
<1> QED BY <1>3, <1>4, SeqDef DEF Texts

LEMMA PiecesAreTexts ==
  ASSUME edits \subseteq Edit
  PROVE  /\ Snapshot \in Texts /\ Size \in Nat
         /\ \A S \in SUBSET edits : TextOf(S) \in Texts
         /\ \A i \in 0..Size : Kept(i) \in Texts
         /\ \A i : Inserted(i) \subseteq edits /\ Replaced(i) \subseteq edits
<1>1. Snapshot \in Texts /\ Size \in Nat
  BY SnapshotIsText
<1>2. ASSUME NEW S \in SUBSET edits PROVE TextOf(S) \in Texts
  <2>1. CASE S = {}
    BY <2>1 DEF TextOf, Texts
  <2>2. CASE S # {}
    <3>1. (CHOOSE e \in S : TRUE) \in S
      BY <2>2
    <3>2. (CHOOSE e \in S : TRUE).with \in Replacement
      BY <3>1 DEF Edit
    <3> QED BY <2>2, <3>2, NormalizedIsText DEF TextOf
  <2> QED BY <2>1, <2>2
<1>3. ASSUME NEW i \in 0..Size PROVE Kept(i) \in Texts
  <2>1. i = Size \/ i \in 0..Size - 1
    BY <1>1, <1>3
  <2>2. <<>> \in Texts
    BY DEF Texts
  <2> QED BY <2>1, <2>2, SnapshotIsText DEF Kept, Size
<1> QED BY <1>1, <1>2, <1>3 DEF Inserted, Replaced

\* What the reference writes at position i, and its equation.
TextAt(i) == TextOf(Inserted(i)) \o TextOf(Replaced(i)) \o Kept(i)
Unfolds(f, j) ==
  f = [i \in j..Size + 1 |-> IF i = Size + 1 THEN <<>> ELSE TextAt(i) \o f[i + 1]]

\* The definition of TextFrom is not empty: it can be made from its last
\* position down.
LEMMA TextFromUnfolds == Unfolds(TextFrom, 0)
<1>1. Size \in Nat
  BY Ranges DEF Size
<1> DEFINE S == {j \in 0..Size + 1 : \E f : Unfolds(f, j)}
<1>2. Size + 1 \in S
  <2> DEFINE f == [i \in Size + 1..Size + 1 |-> <<>>]
  <2>1. Unfolds(f, Size + 1)
    BY <1>1 DEF Unfolds
  <2> QED BY <1>1, <2>1
<1>3. ASSUME NEW j \in 0..Size, j + 1 \in S PROVE j \in S
  <2>1. PICK f : Unfolds(f, j + 1)
    BY <1>3
  <2> DEFINE g == [i \in j..Size + 1 |-> IF i = j THEN TextAt(j) \o f[j + 1] ELSE f[i]]
             h == [i \in j..Size + 1 |-> IF i = Size + 1 THEN <<>> ELSE TextAt(i) \o g[i + 1]]
  <2>2. ASSUME NEW i \in j..Size + 1 PROVE g[i] = h[i]
    <3>1. CASE i = j
      <4>1. j + 1 \in j..Size + 1 /\ j + 1 # j /\ j # Size + 1
        BY <1>1
      <4>2. g[j + 1] = f[j + 1]
        BY <4>1
      <4> QED BY <3>1, <4>1, <4>2
    <3>2. CASE i = Size + 1
      <4>1. i \in j + 1..Size + 1 /\ i # j
        BY <1>1, <3>2
      <4>2. f[i] = <<>>
        BY <2>1, <3>2, <4>1 DEF Unfolds
      <4> QED BY <3>2, <4>1, <4>2
    <3>3. CASE i # j /\ i # Size + 1
      <4>1. i \in j + 1..Size + 1 /\ i + 1 \in j..Size + 1 /\ i + 1 # j
        BY <1>1, <3>3
      <4>2. f[i] = TextAt(i) \o f[i + 1]
        BY <2>1, <3>3, <4>1 DEF Unfolds
      <4>3. g[i] = f[i] /\ g[i + 1] = f[i + 1]
        BY <3>3, <4>1
      <4> QED BY <3>3, <4>2, <4>3
    <3> QED BY <3>1, <3>2, <3>3
  <2>3. g = h
    BY <2>2
  <2>4. Unfolds(g, j)
    BY <2>3 DEF Unfolds
  <2> QED BY <1>1, <2>4
<1>4. 0 \in S
  <2> HIDE DEF S
  <2>1. Size + 1 \in Nat /\ 0 \in 0..Size + 1
    BY <1>1
  <2>2. \A i \in 0..(Size + 1) - 1 : i + 1 \in S => i \in S
    BY <1>1, <1>3
  <2> QED BY <1>2, <2>1, <2>2, DownTo
<1>5. TextFrom = CHOOSE f : Unfolds(f, 0)
  BY DEF TextFrom, Unfolds, TextAt, Size
<1> QED BY <1>4, <1>5

\* The reference at one position is what is written there and the rest.
LEMMA TextFromStep ==
  ASSUME edits \subseteq Edit
  PROVE  /\ TextFrom[Size + 1] = <<>>
         /\ \A i \in 0..Size : TextFrom[i] = TextAt(i) \o TextFrom[i + 1]
         /\ \A i \in 0..Size : TextAt(i) \in Texts
         /\ \A i \in 0..Size + 1 : TextFrom[i] \in Texts
<1>1. Size \in Nat
  BY Ranges DEF Size
<1>2. ASSUME NEW i \in 0..Size + 1
      PROVE  TextFrom[i] = IF i = Size + 1 THEN <<>> ELSE TextAt(i) \o TextFrom[i + 1]
  BY <1>1, TextFromUnfolds DEF Unfolds
<1>3. ASSUME NEW i \in 0..Size PROVE TextAt(i) \in Texts
  BY PiecesAreTexts, ConcatProperties DEF TextAt, Texts
<1>4. ASSUME NEW i \in 0..Size PROVE TextFrom[i] = TextAt(i) \o TextFrom[i + 1]
  <2>1. i \in 0..Size + 1 /\ i # Size + 1
    BY <1>1
  <2> QED BY <1>2, <2>1
<1>5. TextFrom[Size + 1] = <<>>
  <2>1. Size + 1 \in 0..Size + 1
    BY <1>1
  <2> QED BY <1>2, <2>1
<1> DEFINE S == {i \in 0..Size + 1 : TextFrom[i] \in Texts}
<1>6. Size + 1 \in S
  <2>1. Size + 1 \in 0..Size + 1
    BY <1>1
  <2>2. <<>> \in Texts
    BY DEF Texts
  <2> QED BY <1>5, <2>1, <2>2
<1>7. ASSUME NEW i \in 0..Size, i + 1 \in S PROVE i \in S
  <2>1. i \in 0..Size + 1
    BY <1>1
  <2>2. TextAt(i) \o TextFrom[i + 1] \in Texts
    BY <1>3, <1>7, ConcatProperties DEF Texts
  <2> QED BY <1>4, <2>1, <2>2
<1>8. ASSUME NEW j \in 0..Size + 1 PROVE j \in S
  <2> HIDE DEF S
  <2>1. Size + 1 \in Nat
    BY <1>1
  <2>2. \A i \in j..(Size + 1) - 1 : i + 1 \in S => i \in S
    BY <1>1, <1>7
  <2> QED BY <1>6, <2>1, <2>2, DownTo
<1> QED BY <1>3, <1>4, <1>5, <1>8

\* Over positions that an edit covers the reference writes nothing.
LEMMA CoveredGap ==
  ASSUME edits \subseteq Edit, NEW n \in 0..Size, NEW j \in 0..n,
         \A i \in j..n - 1 : TextAt(i) = <<>>
  PROVE  TextFrom[j] = TextFrom[n]
<1>1. Size \in Nat
  BY Ranges DEF Size
<1> DEFINE S == {i \in 0..n : TextFrom[i] = TextFrom[n]}
<1>2. n \in S
  BY <1>1
<1>3. ASSUME NEW i \in j..n - 1, i + 1 \in S PROVE i \in S
  <2>1. i \in 0..Size /\ i + 1 \in 0..Size + 1 /\ i \in 0..n
    BY <1>1
  <2>2. TextFrom[i] = <<>> \o TextFrom[i + 1] /\ TextFrom[i + 1] \in Texts
    BY <2>1, TextFromStep
  <2>3. TextFrom[i] = TextFrom[i + 1]
    BY <2>2, ConcatEmptySeq DEF Texts
  <2> QED BY <1>3, <2>1, <2>3
<1>4. j \in S
  <2> HIDE DEF S
  <2> QED BY <1>1, <1>2, <1>3, DownTo
<1> QED BY <1>4

\* Concatenation of texts is associative.
LEMMA Associative == \A x, y, z \in Texts : x \o (y \o z) = (x \o y) \o z
<1> SUFFICES ASSUME NEW x \in Texts, NEW y \in Texts, NEW z \in Texts
             PROVE  x \o (y \o z) = (x \o y) \o z
  OBVIOUS
<1> QED BY ConcatAssociative DEF Texts

\* Over positions that no edit touches the reference copies the snapshot.
LEMMA UntouchedGap ==
  ASSUME edits \subseteq Edit, NEW n \in 0..Size, NEW j \in 0..n,
         \A i \in j..n - 1 : TextAt(i) = <<Snapshot[i + 1]>>
  PROVE  TextFrom[j] = SubSeq(Snapshot, j + 1, n) \o TextFrom[n]
<1>1. Size \in Nat /\ Snapshot \in Texts /\ Len(Snapshot) = Size
  BY SnapshotIsText DEF Size
<1> DEFINE S == {i \in 0..n : TextFrom[i] = SubSeq(Snapshot, i + 1, n) \o TextFrom[n]}
<1>2. n \in 0..n /\ TextFrom[n] \in Texts
  BY <1>1, TextFromStep
<1>3. n \in S
  <2>1. SubSeq(Snapshot, n + 1, n) = <<>>
    BY <1>1, SubSeqEmpty
  <2>2. <<>> \o TextFrom[n] = TextFrom[n]
    BY <1>2, ConcatEmptySeq DEF Texts
  <2> QED BY <1>2, <2>1, <2>2
<1>4. ASSUME NEW i \in j..n - 1, i + 1 \in S PROVE i \in S
  <2>1. i \in 0..Size /\ i \in 0..n /\ i \in 0..Size - 1
    BY <1>1
  <2>2. TextFrom[i] = <<Snapshot[i + 1]>> \o TextFrom[i + 1]
    BY <2>1, TextFromStep
  <2>3. TextFrom[i + 1] = SubSeq(Snapshot, (i + 1) + 1, n) \o TextFrom[n]
    BY <1>4
  <2>4. SubSeq(Snapshot, i + 1, n) = <<Snapshot[i + 1]>> \o SubSeq(Snapshot, (i + 1) + 1, n)
    <3>1. i + 1 \in 1..Len(Snapshot) /\ n \in i + 1..Len(Snapshot)
      BY <1>1, <2>1
    <3> QED BY <1>1, <3>1, SubSeqRecursiveFirst DEF Texts
  <2>5. <<Snapshot[i + 1]>> \in Texts /\ SubSeq(Snapshot, (i + 1) + 1, n) \in Texts
    <3>1. \A k \in (i + 1) + 1..n : Snapshot[k] \in Units
      BY <1>1, <2>1, ElementOfSeq DEF Texts
    <3>2. (i + 1) + 1 \in Int /\ n \in Int
      BY <1>1, <2>1
    <3> QED BY <2>1, <3>1, <3>2, SnapshotIsText, SubSeqProperties DEF Texts
  <2>6. <<Snapshot[i + 1]>> \o (SubSeq(Snapshot, (i + 1) + 1, n) \o TextFrom[n])
          = (<<Snapshot[i + 1]>> \o SubSeq(Snapshot, (i + 1) + 1, n)) \o TextFrom[n]
    <3> DEFINE u == <<Snapshot[i + 1]>>  v == SubSeq(Snapshot, (i + 1) + 1, n)
    <3>1. u \in Texts /\ v \in Texts
      BY <2>5
    <3>2. TextFrom[n] \in Texts
      BY <1>2
    <3> HIDE DEF u, v
    <3>3. u \o (v \o TextFrom[n]) = (u \o v) \o TextFrom[n]
      BY <3>1, <3>2, Associative
    <3> QED BY <3>3 DEF u, v
  <2> QED BY <2>1, <2>2, <2>3, <2>4, <2>6
<1>5. j \in S
  <2> HIDE DEF S
  <2> QED BY <1>1, <1>3, <1>4, DownTo
<1> QED BY <1>5

\* Cutting a text whose beginning is still the snapshot.
LEMMA Cut ==
  ASSUME NEW U, NEW s \in Seq(U), NEW R \in Seq(U),
         NEW p \in 0..Len(s), NEW a \in 0..p, NEW b \in 0..p
  PROVE  LET o == SubSeq(s, 1, p) \o R
         IN  /\ SubSeq(o, 1, a) = SubSeq(s, 1, a)
             /\ SubSeq(o, b + 1, Len(o)) = SubSeq(s, b + 1, p) \o R
             /\ SubSeq(s, 1, a) \in Seq(U) /\ SubSeq(s, b + 1, p) \in Seq(U)
<1> DEFINE o == SubSeq(s, 1, p) \o R
<1>1. Len(s) \in Nat /\ Len(R) \in Nat /\ \A i \in 1..Len(s) : s[i] \in U
  BY LenProperties, ElementOfSeq
<1>2. /\ SubSeq(s, 1, p) \in Seq(U) /\ Len(SubSeq(s, 1, p)) = p
      /\ \A i \in 1..p : SubSeq(s, 1, p)[i] = s[i]
  BY <1>1, SubSeqProperties
<1>3. /\ SubSeq(s, 1, a) \in Seq(U) /\ Len(SubSeq(s, 1, a)) = a
      /\ \A i \in 1..a : SubSeq(s, 1, a)[i] = s[i]
  BY <1>1, SubSeqProperties
<1>4. /\ SubSeq(s, b + 1, p) \in Seq(U) /\ Len(SubSeq(s, b + 1, p)) = p - b
      /\ \A i \in 1..p - b : SubSeq(s, b + 1, p)[i] = s[b + i]
  BY <1>1, SubSeqProperties
<1>5. /\ o \in Seq(U) /\ Len(o) = p + Len(R)
      /\ \A i \in 1..p + Len(R) : o[i] = IF i <= p THEN s[i] ELSE R[i - p]
  BY <1>1, <1>2, ConcatProperties
<1> HIDE DEF o
<1>6. \A i \in 1..Len(o) : o[i] \in U
  BY <1>5, ElementOfSeq
<1>7. /\ SubSeq(o, 1, a) \in Seq(U) /\ Len(SubSeq(o, 1, a)) = a
      /\ \A i \in 1..a : SubSeq(o, 1, a)[i] = o[i]
  BY <1>1, <1>5, <1>6, SubSeqProperties
<1>8. SubSeq(o, 1, a) = SubSeq(s, 1, a)
  <2>1. \A i \in 1..a : SubSeq(o, 1, a)[i] = SubSeq(s, 1, a)[i]
    BY <1>1, <1>3, <1>5, <1>7
  <2> QED BY <1>3, <1>7, <2>1, SeqEqual
<1> DEFINE q == Len(o)
<1>9. /\ SubSeq(o, b + 1, q) \in Seq(U) /\ Len(SubSeq(o, b + 1, q)) = q - b
      /\ \A i \in 1..q - b : SubSeq(o, b + 1, q)[i] = o[b + i]
  BY <1>1, <1>5, <1>6, SubSeqProperties
<1> DEFINE t == SubSeq(s, b + 1, p) \o R
<1>10. /\ t \in Seq(U) /\ Len(t) = (p - b) + Len(R)
       /\ \A i \in 1..(p - b) + Len(R) :
            t[i] = IF i <= p - b THEN s[b + i] ELSE R[i - (p - b)]
  BY <1>1, <1>4, ConcatProperties
<1> HIDE DEF t
<1>11. SubSeq(o, b + 1, q) = t
  <2>1. \A i \in 1..q - b : SubSeq(o, b + 1, q)[i] = t[i]
    <3> SUFFICES ASSUME NEW i \in 1..q - b PROVE SubSeq(o, b + 1, q)[i] = t[i]
      OBVIOUS
    <3>1. SubSeq(o, b + 1, q)[i] = o[b + i] /\ b + i \in 1..p + Len(R)
      BY <1>1, <1>5, <1>9
    <3>2. CASE i <= p - b
      <4>1. b + i <= p /\ i \in 1..(p - b) + Len(R)
        BY <1>1, <1>5, <3>2
      <4>2. t[i] = s[b + i] /\ o[b + i] = s[b + i]
        BY <1>5, <1>10, <3>1, <3>2, <4>1
      <4> QED BY <3>1, <4>2
    <3>3. CASE i > p - b
      <4>1. b + i > p /\ i \in 1..(p - b) + Len(R) /\ (b + i) - p = i - (p - b)
        BY <1>1, <1>5, <3>3
      <4>2. t[i] = R[i - (p - b)]
        BY <1>10, <3>3, <4>1
      <4>3. o[b + i] = R[(b + i) - p]
        BY <1>5, <3>1, <4>1
      <4> QED BY <3>1, <4>1, <4>2, <4>3
    <3> QED BY <1>1, <1>5, <3>2, <3>3
  <2>2. Len(t) = q - b
    BY <1>1, <1>5, <1>10
  <2> QED BY <1>9, <1>10, <2>1, <2>2, SeqEqual
<1> QED BY <1>3, <1>4, <1>8, <1>11 DEF o, t

\* What is still to be written from a position on, when the edits in T have
\* not been applied: an insertion at the position itself may be among them.
Rest(p, T) ==
  (IF Inserted(p) \cap T = {} THEN TextOf(Inserted(p)) ELSE <<>>)
    \o (TextOf(Replaced(p)) \o (Kept(p) \o TextFrom[p + 1]))

\* With no insertion left at the position the rest is what the reference says.
LEMMA RestIsText ==
  ASSUME edits \subseteq Edit, NEW p \in 0..Size, NEW T
  PROVE  /\ Rest(p, T) \in Texts
         /\ Inserted(p) \cap T = {} => Rest(p, T) = TextFrom[p]
<1> DEFINE x == TextOf(Inserted(p))  y == TextOf(Replaced(p))
           k == Kept(p)              z == TextFrom[p + 1]
<1>1. x \in Texts /\ y \in Texts /\ k \in Texts /\ <<>> \in Texts
  BY PiecesAreTexts DEF Texts
<1>2. z \in Texts /\ TextFrom[p] = ((x \o y) \o k) \o z
  <2>1. Size \in Nat /\ p + 1 \in 0..Size + 1
    BY SnapshotIsText
  <2> QED BY <2>1, TextFromStep DEF TextAt
<1> HIDE DEF x, y, k, z
<1>3. \A s, t \in Texts : s \o t \in Texts
  BY ConcatProperties DEF Texts
<1>4. (IF Inserted(p) \cap T = {} THEN x ELSE <<>>) \in Texts
  BY <1>1
<1>5. Rest(p, T) = (IF Inserted(p) \cap T = {} THEN x ELSE <<>>) \o (y \o (k \o z))
  BY DEF Rest, x, y, k, z
<1>6. x \o (y \o (k \o z)) = ((x \o y) \o k) \o z
  <2>1. z \in Texts
    BY <1>2
  <2>2. k \o z \in Texts /\ x \o y \in Texts
    BY <1>1, <2>1, ConcatProperties DEF Texts
  <2>3. ASSUME NEW v \in Texts PROVE x \o (y \o v) = (x \o y) \o v
    BY <1>1, Associative
  <2>4. ASSUME NEW u \in Texts PROVE u \o (k \o z) = (u \o k) \o z
    BY <1>1, <2>1, Associative
  <2>5. x \o (y \o (k \o z)) = (x \o y) \o (k \o z)
    BY <2>2, <2>3
  <2>6. (x \o y) \o (k \o z) = ((x \o y) \o k) \o z
    BY <2>2, <2>4
  <2> QED BY <2>5, <2>6
<1>7. k \o z \in Texts /\ y \o (k \o z) \in Texts
  BY <1>1, <1>2, <1>3
<1>8. Rest(p, T) \in Texts
  BY <1>3, <1>4, <1>5, <1>7
<1>9. Inserted(p) \cap T = {} => Rest(p, T) = TextFrom[p]
  BY <1>2, <1>5, <1>6
<1> QED BY <1>8, <1>9

\* Where no edit begins or reaches over, the unit is kept.
LEMMA Untouched ==
  ASSUME edits \subseteq Edit, NEW i \in 0..Size - 1,
         \A f \in edits : f.range[1] > i \/ (f.range[2] <= i /\ f.range[1] < i)
  PROVE  TextAt(i) = <<Snapshot[i + 1]>>
<1>1. Size \in Nat /\ <<Snapshot[i + 1]>> \in Texts
  BY SnapshotIsText
<1>2. ASSUME NEW f \in edits
      PROVE  /\ f.range[1] # i /\ ~(f.range[1] < i + 1 /\ i + 1 <= f.range[2])
             /\ f.range # <<i, i>>
  <2>1. f.range \in ByteRange
    BY DEF Edit
  <2>2. f.range[1] \in Nat /\ f.range[2] \in Nat /\ f.range[1] <= f.range[2]
    BY <2>1, Ranges
  <2>3. f.range[1] # i /\ ~(f.range[1] < i + 1 /\ i + 1 <= f.range[2])
    BY <1>1, <2>2
  <2> QED BY <2>3
<1>3. Inserted(i) = {} /\ Replaced(i) = {} /\ ~Covered(i)
  BY <1>2 DEF Inserted, Replaced, Covered
<1>4. Kept(i) = <<Snapshot[i + 1]>>
  BY <1>1, <1>3 DEF Kept, Size
<1> QED BY <1>1, <1>3, <1>4, ConcatEmptySeq DEF TextAt, TextOf, Texts

\* Two edits of a plan without conflicts lie apart.
LEMMA Apart ==
  ASSUME edits \subseteq Edit, Keyed(edits), Conflicts(edits) = {},
         NEW e \in edits, NEW f \in edits, e # f
  PROVE  e.range # f.range /\ (e.range[2] <= f.range[1] \/ f.range[2] <= e.range[1])
<1>1. ~Overlap(e, f)
  <2>1. {e, f} \notin Conflicts(edits)
    OBVIOUS
  <2> QED BY <2>1 DEF Conflicts
<1>2. e.range # f.range
  BY <1>1 DEF Keyed, Overlap
<1>3. /\ e.range[1] \in Nat /\ e.range[2] \in Nat
      /\ f.range[1] \in Nat /\ f.range[2] \in Nat
  BY Ranges DEF Edit
<1> QED BY <1>1, <1>2, <1>3 DEF Overlap

\* An edit that takes the place of some units: nothing else is written where
\* it lies.
LEMMA Replacing ==
  ASSUME edits \subseteq Edit, Keyed(edits), Conflicts(edits) = {},
         NEW e \in edits, e.range[1] < e.range[2]
  PROVE  /\ Replaced(e.range[1]) = {e} /\ Kept(e.range[1]) = <<>>
         /\ TextFrom[e.range[1] + 1] = TextFrom[e.range[2]]
<1> DEFINE a == e.range[1]  b == e.range[2]
<1>1. Size \in Nat /\ Size = Len(Snapshot) /\ a \in 0..Size /\ b \in 0..Size /\ a < b
  BY Ranges DEF Edit, Size
<1>2. ASSUME NEW f \in edits
      PROVE  f.range[1] \in Nat /\ f.range[2] \in Nat /\ f.range[1] <= f.range[2]
  BY Ranges DEF Edit
<1>3. Replaced(a) = {e}
  <2>1. ASSUME NEW f \in edits, f.range[1] = a, f.range[2] > a PROVE f = e
    BY <1>1, <1>2, <2>1, Apart
  <2> QED BY <1>1, <2>1 DEF Replaced
<1>4. ASSUME NEW i \in a..b - 1 PROVE Kept(i) = <<>>
  BY <1>1, <1>2 DEF Kept, Covered
<1>5. ASSUME NEW i \in a + 1..b - 1 PROVE TextAt(i) = <<>>
  <2>1. ASSUME NEW f \in edits, f.range[1] = i PROVE FALSE
    <3>1. f # e
      BY <1>1, <2>1
    <3>2. f.range[2] <= a \/ b <= f.range[1]
      BY <3>1, Apart
    <3> QED BY <1>1, <1>2, <2>1, <3>2
  <2>2. Inserted(i) = {} /\ Replaced(i) = {}
    BY <2>1 DEF Inserted, Replaced
  <2>3. Kept(i) = <<>>
    BY <1>1, <1>4
  <2>4. <<>> \o <<>> = <<>>
    OBVIOUS
  <2> QED BY <2>2, <2>3, <2>4 DEF TextAt, TextOf
<1>6. TextFrom[a + 1] = TextFrom[b]
  <2>1. a + 1 \in 0..b
    BY <1>1
  <2> HIDE DEF a, b
  <2> QED BY <1>1, <1>5, <2>1, CoveredGap
<1> QED BY <1>1, <1>3, <1>4, <1>6

\* One turn of the loop: between what the edit writes and what has been written
\* lie units that no edit touches.
LEMMA Turn ==
  ASSUME edits \subseteq Edit, Keyed(edits), Conflicts(edits) = {},
         NEW p \in 0..Size, NEW T \in SUBSET edits, NEW e \in T,
         \A f \in edits \ T : p <= f.range[1],
         e.range[2] <= p,
         \A f \in T \ {e} : f.range[2] <= e.range[1]
  PROVE  Normalized(e.with) \o (SubSeq(Snapshot, e.range[2] + 1, p) \o Rest(p, T))
           = Rest(e.range[1], T \ {e})
<1> DEFINE a == e.range[1]  b == e.range[2]  w == Normalized(e.with)
           r == Rest(p, T)
<1>1. /\ Size \in Nat /\ Size = Len(Snapshot) /\ Snapshot \in Texts
      /\ a \in 0..Size /\ b \in 0..Size /\ a <= b /\ b <= p /\ e.range = <<a, b>>
      /\ a \in 0..p /\ b \in 0..p
  BY SnapshotIsText, Ranges DEF Edit, Size
<1>2. ASSUME NEW f \in edits
      PROVE  /\ f.range[1] \in Nat /\ f.range[2] \in Nat /\ f.range[1] <= f.range[2]
             /\ f.range = <<f.range[1], f.range[2]>>
  BY Ranges DEF Edit
<1>3. /\ w \in Texts /\ TextOf({e}) = w
      /\ TextFrom[a + 1] \in Texts /\ TextFrom[p] \in Texts
      /\ TextOf({}) = <<>> /\ \A s \in Texts : <<>> \o s = s
  <2>1. w \in Texts
    BY NormalizedIsText DEF Edit
  <2>2. TextOf({e}) = w
    <3>1. (CHOOSE x \in {e} : TRUE) = e
      OBVIOUS
    <3> QED BY <3>1 DEF TextOf
  <2>3. a + 1 \in 0..Size + 1 /\ p \in 0..Size + 1
    BY <1>1
  <2>4. \A s \in Texts : <<>> \o s = s
    BY ConcatEmptySeq DEF Texts
  <2> QED BY <2>1, <2>2, <2>3, <2>4, TextFromStep DEF TextOf
\* An insertion where the text written so far begins.
<1>4. CASE a = p
  <2>1. b = p /\ e \in Inserted(p)
    BY <1>1, <1>4 DEF Inserted
  <2>2. Inserted(p) = {e}
    <3>1. \A f \in Inserted(p) : f = e
      BY <1>1, <1>4, <2>1, Apart DEF Inserted
    <3> QED BY <2>1, <3>1
  <2> DEFINE x == TextOf(Replaced(p)) \o (Kept(p) \o TextFrom[p + 1])
  <2>3. Rest(p, T) = <<>> \o x
    BY <2>1 DEF Rest
  <2>4. Rest(a, T \ {e}) = w \o x
    BY <1>3, <1>4, <2>2 DEF Rest
  <2>5. x \in Texts
    <3>1. p + 1 \in 0..Size + 1
      BY <1>1
    <3>2. TextOf(Replaced(p)) \in Texts /\ Kept(p) \in Texts /\ TextFrom[p + 1] \in Texts
      BY <3>1, PiecesAreTexts, TextFromStep
    <3>3. Kept(p) \o TextFrom[p + 1] \in Texts
      BY <3>2, ConcatProperties DEF Texts
    <3> QED BY <3>2, <3>3, ConcatProperties DEF Texts
  <2>6. SubSeq(Snapshot, b + 1, p) = <<>>
    BY <1>1, <2>1, SubSeqEmpty
  <2> HIDE DEF a, b, w, x
  <2> QED BY <1>3, <2>3, <2>4, <2>5, <2>6 DEF a, b, w
<1>5. CASE a # p
  <2>1. a \in 0..p - 1
    BY <1>1, <1>5
  <2>2. Inserted(p) \cap T = {}
    BY <1>1, <1>2, <2>1 DEF Inserted
  <2>3. r = TextFrom[p]
    BY <1>1, <2>2, RestIsText
  <2>4. ASSUME NEW i \in b..p - 1, a < i
        PROVE  TextAt(i) = <<Snapshot[i + 1]>>
    <3>1. ASSUME NEW f \in edits
          PROVE  f.range[1] > i \/ (f.range[2] <= i /\ f.range[1] < i)
      BY <1>1, <1>2, <2>4
    <3>2. i \in 0..Size - 1
      BY <1>1
    <3> QED BY <3>1, <3>2, Untouched
  \* It takes the place of some units.
  <2>5. CASE a < b
    <3>1. TextFrom[b] = SubSeq(Snapshot, b + 1, p) \o TextFrom[p]
      <4>1. \A i \in b..p - 1 : TextAt(i) = <<Snapshot[i + 1]>>
        BY <1>1, <2>4, <2>5
      <4> HIDE DEF b
      <4> QED BY <1>1, <4>1, UntouchedGap
    <3>2. Replaced(a) = {e} /\ Kept(a) = <<>> /\ TextFrom[a + 1] = TextFrom[b]
      BY <2>5, Replacing
    <3>3. Inserted(a) \subseteq T \ {e}
      BY <1>1, <1>2, <2>1, <2>5 DEF Inserted
    <3>4. (IF Inserted(a) \cap (T \ {e}) = {} THEN TextOf(Inserted(a)) ELSE <<>>) = <<>>
      BY <1>3, <3>3
    <3>5. w \o TextFrom[b] \in Texts
      BY <1>3, <3>2, ConcatProperties DEF Texts
    <3>6. Rest(a, T \ {e}) = <<>> \o (w \o (<<>> \o TextFrom[b]))
      BY <1>3, <3>2, <3>4 DEF Rest
    <3> HIDE DEF a, b, w, r
    <3>7. Rest(a, T \ {e}) = w \o TextFrom[b]
      BY <1>3, <3>2, <3>5, <3>6
    <3> QED BY <2>3, <3>1, <3>7 DEF a, b, w, r
  \* It is an insertion before a unit that is kept.
  <2>6. CASE a = b
    <3>1. a + 1 \in 0..p /\ a \in 0..Size - 1
      BY <1>1, <2>1
    <3>2. TextFrom[a + 1] = SubSeq(Snapshot, (a + 1) + 1, p) \o TextFrom[p]
      <4>1. \A i \in a + 1..p - 1 : TextAt(i) = <<Snapshot[i + 1]>>
        BY <1>1, <2>1, <2>4, <2>6
      <4> HIDE DEF a
      <4> QED BY <1>1, <3>1, <4>1, UntouchedGap
    <3>3. Inserted(a) = {e}
      <4>1. \A f \in Inserted(a) : f = e
        BY <1>1, <2>6, Apart DEF Inserted
      <4> QED BY <1>1, <2>6, <4>1 DEF Inserted
    <3>4. ASSUME NEW f \in edits, f.range[1] < a + 1, a + 1 <= f.range[2] PROVE FALSE
      BY <1>1, <1>2, <2>1, <2>6, <3>4
    <3>5. Replaced(a) = {} /\ Kept(a) = <<Snapshot[a + 1]>>
      BY <1>1, <1>2, <3>1, <3>4 DEF Replaced, Kept, Covered
    <3>6. Rest(a, T \ {e}) = w \o (<<>> \o (<<Snapshot[a + 1]>> \o TextFrom[a + 1]))
      BY <1>3, <3>3, <3>5 DEF Rest
    <3>7. SubSeq(Snapshot, a + 1, p)
            = <<Snapshot[a + 1]>> \o SubSeq(Snapshot, (a + 1) + 1, p)
      <4>1. a + 1 \in 1..Len(Snapshot) /\ p \in a + 1..Len(Snapshot)
        BY <1>1, <2>1
      <4> HIDE DEF a
      <4> QED BY <1>1, <4>1, SubSeqRecursiveFirst DEF Texts
    <3>8. <<Snapshot[a + 1]>> \in Texts /\ SubSeq(Snapshot, (a + 1) + 1, p) \in Texts
      <4>1. \A k \in (a + 1) + 1..p : Snapshot[k] \in Units
        BY <1>1, <3>1, ElementOfSeq DEF Texts
      <4>2. (a + 1) + 1 \in Int /\ p \in Int
        BY <1>1, <3>1
      <4> HIDE DEF a
      <4> QED BY <3>1, <4>1, <4>2, SnapshotIsText, SubSeqProperties DEF Texts
    <3> DEFINE u == <<Snapshot[a + 1]>>  v == SubSeq(Snapshot, (a + 1) + 1, p)
    <3>9. u \o TextFrom[a + 1] \in Texts
      BY <1>3, <3>8, ConcatProperties DEF Texts
    <3>a. u \in Texts /\ v \in Texts
      BY <3>8
    <3>b. TextFrom[p] \in Texts
      BY <1>3
    <3> HIDE DEF a, b, w, r, u, v
    <3>10. u \o (v \o TextFrom[p]) = (u \o v) \o TextFrom[p]
      BY <3>a, <3>b, Associative
    <3>11. Rest(a, T \ {e}) = w \o (SubSeq(Snapshot, a + 1, p) \o TextFrom[p])
      BY <1>3, <3>2, <3>6, <3>7, <3>9, <3>10 DEF u, v
    <3>12. w \o (SubSeq(Snapshot, b + 1, p) \o r) = Rest(a, T \ {e})
      BY <2>3, <2>6, <3>11
    <3> QED BY <3>12 DEF a, b, w, r
  <2>7. a < b \/ a = b
    BY <1>1
  <2> QED BY <2>5, <2>6, <2>7
<1> QED BY <1>4, <1>5

\* The loop has applied the edits behind previousStart and left everything
\* before it as it was read.
Applied ==
  /\ stage \in {"search", "correlated", "planned"} => output = Snapshot
  /\ stage = "apply" =>
       /\ \A f \in edits \ todo : previousStart <= f.range[1]
       /\ output = SubSeq(Snapshot, 1, previousStart) \o Rest(previousStart, todo)
  /\ stage = "done" => output = TextFrom[0]

\* The reference depends on the edits alone.
LEMMA SameText ==
  ASSUME edits' = edits
  PROVE  /\ TextFrom' = TextFrom
         /\ Rest(previousStart, todo)' = Rest(previousStart', todo')
  BY DEF Rest, TextFrom, TextOf, Inserted, Replaced, Kept, Covered

\* Every step keeps Applied; the turn of the loop is Turn after Cut.
LEMMA AppliedStep == IInv /\ Applied /\ [Next]_vars => Applied'
<1> SUFFICES ASSUME IInv, Applied, [Next]_vars PROVE Applied'
  OBVIOUS
<1>1. /\ edits \subseteq Edit /\ Keyed(edits) /\ todo \subseteq edits
      /\ previousStart \in 0..Size /\ Size \in Nat /\ Size = Len(Snapshot)
      /\ Snapshot \in Texts
  BY SnapshotIsText DEF IInv, TypeOK, Size
<1>2. ASSUME NEW e \in Evidence, Report(e) PROVE Applied'
  BY <1>2 DEF Report, Applied
<1>3. CASE Correlate
  BY <1>3 DEF Correlate, Applied
<1>4. CASE Plan
  BY <1>4 DEF Plan, Applied
<1>5. CASE Decide
  <2>1. output = Snapshot /\ previousStart = Size /\ edits' = edits /\ output' = output
        /\ previousStart' = previousStart
    BY <1>1, <1>5 DEF Decide, Applied, IInv
  <2>2. Rest(Size, edits) = <<>>
    <3>1. ASSUME NEW f \in edits PROVE ~(f.range[2] > Size)
      BY <1>1, Ranges DEF Edit, Size
    <3>2. Replaced(Size) = {} /\ Kept(Size) = <<>>
      BY <3>1 DEF Replaced, Kept, Size
    <3>3. TextFrom[Size + 1] = <<>>
      BY <1>1, TextFromStep
    <3>4. Inserted(Size) \cap edits = Inserted(Size)
      BY DEF Inserted
    <3>5. (IF Inserted(Size) \cap edits = {} THEN TextOf(Inserted(Size)) ELSE <<>>) = <<>>
      BY <3>4 DEF TextOf
    <3>6. <<>> \o (<<>> \o (<<>> \o <<>>)) = <<>>
      OBVIOUS
    <3> QED BY <3>2, <3>3, <3>5, <3>6 DEF Rest, TextOf
  <2>3. SubSeq(Snapshot, 1, Size) \o <<>> = Snapshot
    BY <1>1, SubSeqFull, ConcatEmptySeq DEF Texts
  <2>4. stage' = "apply" => todo' = edits
    BY <1>5 DEF Decide
  <2>5. stage' = "apply" => Rest(previousStart, todo)' = <<>>
    BY <2>1, <2>2, <2>4, SameText
  <2>6. stage' \in {"blocked", "apply"}
    BY <1>5 DEF Decide
  <2> QED BY <2>1, <2>3, <2>4, <2>5, <2>6 DEF Applied
<1>6. CASE ApplyEdit
  <2>1. PICK e \in todo :
          /\ \A f \in todo : Before(e, f)
          /\ todo' = todo \ {e}
          /\ IF e.range[2] > previousStart
             THEN stage' = "threw" /\ UNCHANGED <<output, previousStart>>
             ELSE /\ output' = SubSeq(output, 1, e.range[1]) \o Normalized(e.with)
                                 \o SubSeq(output, e.range[2] + 1, Len(output))
                  /\ previousStart' = e.range[1] /\ UNCHANGED stage
    BY <1>6 DEF ApplyEdit
  <2>2. stage = "apply" /\ edits' = edits
    BY <1>6 DEF ApplyEdit
  <2>3. Conflicts(edits) = {} /\ \A f \in todo : f.range[2] <= previousStart
    BY <2>2 DEF IInv
  <2> DEFINE p == previousStart  a == e.range[1]  b == e.range[2]
             w == Normalized(e.with)  r == Rest(p, todo)
  <2>4. /\ a \in Nat /\ b \in Nat /\ a <= b /\ b <= p /\ a \in 0..p /\ b \in 0..p
        /\ w \in Texts /\ p \in 0..Size
    <3>1. e.range \in ByteRange /\ e.with \in Replacement
      BY <1>1 DEF Edit
    <3>2. a \in Nat /\ b \in Nat /\ a <= b
      BY <3>1, Ranges
    <3> QED BY <1>1, <2>3, <3>1, <3>2, NormalizedIsText
  <2>5. /\ stage' = "apply" /\ previousStart' = a
        /\ output' = (SubSeq(output, 1, a) \o w) \o SubSeq(output, b + 1, Len(output))
    <3>1. ~(e.range[2] > previousStart)
      BY <1>1, <2>4
    <3> QED BY <2>1, <2>2, <3>1
  <2>6. r \in Texts /\ output = SubSeq(Snapshot, 1, p) \o r
    BY <1>1, <2>2, <2>4, RestIsText DEF Applied
  <2>7. \A f \in todo \ {e} : f.range[2] <= a
    <3> SUFFICES ASSUME NEW f \in todo \ {e} PROVE f.range[2] <= a
      OBVIOUS
    <3>1. f \in edits /\ e \in edits /\ f # e /\ Before(e, f)
      BY <1>1, <2>1
    <3> QED BY <1>1, <2>3, <3>1, LastIsBehind
  <2>8. \A f \in edits \ todo' : a <= f.range[1]
    <3> SUFFICES ASSUME NEW f \in edits \ todo' PROVE a <= f.range[1]
      OBVIOUS
    <3>1. CASE f = e
      BY <2>4, <3>1
    <3>2. CASE f # e
      <4>1. p <= f.range[1] /\ f.range[1] \in Nat
        BY <1>1, <2>1, <2>2, <3>2, Ranges DEF Applied, Edit
      <4> QED BY <2>4, <4>1
    <3> QED BY <3>1, <3>2
  <2> DEFINE x == SubSeq(Snapshot, 1, a)  y == SubSeq(Snapshot, b + 1, p)
  <2>9. /\ SubSeq(output, 1, a) = x /\ SubSeq(output, b + 1, Len(output)) = y \o r
        /\ x \in Texts /\ y \in Texts
    <3>1. Snapshot \in Seq(Units) /\ r \in Seq(Units) /\ p \in 0..Len(Snapshot)
      BY <1>1, <2>4, <2>6 DEF Texts
    <3> HIDE DEF a, b, p, r
    <3>2. LET o == SubSeq(Snapshot, 1, p) \o r
          IN  /\ SubSeq(o, 1, a) = SubSeq(Snapshot, 1, a)
              /\ SubSeq(o, b + 1, Len(o)) = SubSeq(Snapshot, b + 1, p) \o r
              /\ SubSeq(Snapshot, 1, a) \in Seq(Units)
              /\ SubSeq(Snapshot, b + 1, p) \in Seq(Units)
      BY <2>4, <3>1, Cut
    <3> QED BY <2>6, <3>2 DEF Texts
  <2>10. w \o (y \o r) = Rest(a, todo')
    <3>1. \A f \in edits \ todo : p <= f.range[1]
      BY <2>2 DEF Applied
    <3>2. e.range[2] <= p /\ p \in 0..Size /\ todo \in SUBSET edits
      BY <1>1, <2>4
    <3>3. w \o (y \o r) = Rest(a, todo \ {e})
      <4>1. \A f \in edits \ todo : previousStart <= f.range[1]
        BY <3>1
      <4>2. \A f \in todo \ {e} : f.range[2] <= e.range[1]
        BY <2>7
      <4>3. e.range[2] <= previousStart /\ previousStart \in 0..Size
        BY <3>2
      <4> HIDE DEF p, a, b, w, r, x, y
      <4>4. Normalized(e.with) \o (SubSeq(Snapshot, e.range[2] + 1, previousStart)
                                    \o Rest(previousStart, todo))
              = Rest(e.range[1], todo \ {e})
        <5>1. /\ edits \subseteq Edit /\ Keyed(edits) /\ Conflicts(edits) = {}
              /\ todo \in SUBSET edits /\ e \in todo
          BY <1>1, <2>3
        <5>2. ASSUME NEW T \in SUBSET edits, NEW g \in T,
                     \A f \in edits \ T : previousStart <= f.range[1],
                     g.range[2] <= previousStart,
                     \A f \in T \ {g} : f.range[2] <= g.range[1]
              PROVE  Normalized(g.with)
                       \o (SubSeq(Snapshot, g.range[2] + 1, previousStart)
                             \o Rest(previousStart, T))
                     = Rest(g.range[1], T \ {g})
          BY <4>3, <5>1, <5>2, Turn
        <5> QED BY <4>1, <4>2, <4>3, <5>1, <5>2
      <4> QED BY <4>4 DEF p, a, b, w, r, y
    <3> QED BY <2>1, <3>3
  <2>11. (x \o w) \o (y \o r) = x \o (w \o (y \o r))
    <3>1. y \o r \in Texts
      BY <2>6, <2>9, ConcatProperties DEF Texts
    <3> HIDE DEF x, y, w, r
    <3> QED BY <2>4, <2>9, <3>1, Associative
  <2>12. Rest(previousStart, todo)' = Rest(a, todo')
    BY <2>2, <2>5, SameText
  <2>13. output' = SubSeq(Snapshot, 1, previousStart') \o Rest(previousStart, todo)'
    BY <2>5, <2>9, <2>10, <2>11, <2>12
  <2> QED BY <2>2, <2>5, <2>8, <2>13 DEF Applied
<1>7. CASE Finish
  <2>1. /\ stage = "apply" /\ todo = {} /\ stage' = "done"
        /\ edits' = edits /\ output' = output
    BY <1>7 DEF Finish
  <2>2. output = SubSeq(Snapshot, 1, previousStart) \o TextFrom[previousStart]
    BY <1>1, <2>1, RestIsText DEF Applied
  <2>3. \A i \in 0..previousStart - 1 : TextAt(i) = <<Snapshot[i + 1]>>
    <3> SUFFICES ASSUME NEW i \in 0..previousStart - 1
                 PROVE  TextAt(i) = <<Snapshot[i + 1]>>
      OBVIOUS
    <3>1. \A f \in edits : f.range[1] > i
      <4> SUFFICES ASSUME NEW f \in edits PROVE f.range[1] > i
        OBVIOUS
      <4>1. previousStart <= f.range[1] /\ f.range[1] \in Nat
        BY <1>1, <2>1, Ranges DEF Applied, Edit
      <4> QED BY <1>1, <4>1
    <3>2. i \in 0..Size - 1
      BY <1>1
    <3> QED BY <1>1, <3>1, <3>2, Untouched
  <2>4. TextFrom[0] = SubSeq(Snapshot, 1, previousStart) \o TextFrom[previousStart]
    <3>1. 0 \in 0..previousStart /\ 0 + 1 = 1
      BY <1>1
    <3>2. TextFrom[0] = SubSeq(Snapshot, 0 + 1, previousStart) \o TextFrom[previousStart]
      BY <1>1, <2>3, <3>1, UntouchedGap
    <3> QED BY <3>1, <3>2
  <2> QED BY <2>1, <2>2, <2>4, SameText DEF Applied
<1>8. CASE UNCHANGED vars
  <2>1. UNCHANGED <<stage, output, edits, todo, previousStart>>
    BY <1>8 DEF vars
  <2>2. TextFrom' = TextFrom /\ Rest(previousStart, todo)' = Rest(previousStart, todo)
    BY <2>1, SameText
  <2> QED BY <2>1, <2>2 DEF Applied
<1> QED BY <1>2, <1>3, <1>4, <1>5, <1>6, <1>7, <1>8 DEF Next

\* Applying the edits of a plan from the end of the file backwards, in the
\* order of their starts, gives what replacing all their ranges at once gives
\* (applySnapshotEdits, diff.ts).
THEOREM OutputsAreSubstituted == Spec => []OutputIsSubstitution
<1>1. Init => Applied
  BY DEF Init, Applied
<1>2. Applied => OutputIsSubstitution
  BY DEF Applied, OutputIsSubstitution, Substituted
<1> QED BY <1>1, <1>2, AppliedStep, Always, PTL DEF Spec

-----------------------------------------------------------------------------
(* The diff of a file and its new content (diff.ts).  The lines are taken   *)
(* as they come: only that they form sequences matters.                     *)

LEMMA FunctionIsSeq ==
  ASSUME NEW n \in Nat, NEW L, NEW f \in [1..n -> L]
  PROVE  f \in Seq(L) /\ Len(f) = n /\ DOMAIN f = 1..n
<1>1. f \in Seq(L)
  BY SeqDef
<1>2. DOMAIN f = 1..n /\ DOMAIN f = 1..Len(f) /\ Len(f) \in Nat
  BY <1>1, LenProperties
<1> QED BY <1>1, <1>2

\* LinesOf gives a sequence, whatever the lines.
LEMMA LinesAreSequence ==
  ASSUME NEW U, NEW s \in Seq(U)
  PROVE  \E L : LinesOf(s) \in Seq(L)
<1> DEFINE ends == {i \in DOMAIN s : IsNewline(s[i]) \/ i = Len(s)}
           Start(k) == IF k = 1 THEN 1 ELSE Nth(ends, k - 1) + 1
           Stop(k) == LET i == Nth(ends, k) IN IF IsNewline(s[i]) THEN i - 1 ELSE i
           line(k) == SubSeq(s, Start(k), Stop(k))
           n == Cardinality(ends)
<1>1. IsFiniteSet(ends) /\ n \in Nat
  <2>1. DOMAIN s = 1..Len(s) /\ Len(s) \in Nat
    BY LenProperties
  <2>2. IsFiniteSet(1..Len(s))
    BY <2>1, FS_Interval
  <2>3. ends \in SUBSET (1..Len(s))
    BY <2>1
  <2>4. IsFiniteSet(ends)
    BY <2>2, <2>3, FS_Subset
  <2> QED BY <2>4, FS_CardinalityType
<1>2. LinesOf(s) = [k \in 1..n |-> line(k)]
  BY DEF LinesOf
<1> DEFINE L == {line(k) : k \in 1..n}
<1>3. LinesOf(s) \in [1..n -> L]
  <2> HIDE DEF line, n
  <2> QED BY <1>2
<1>4. LinesOf(s) \in Seq(L)
  <2> HIDE DEF L, n, ends
  <2> QED BY <1>1, <1>3, SeqDef
<1> QED BY <1>4

\* The common prefix is one.
LEMMA CommonIsPrefix ==
  ASSUME NEW L, NEW a \in Seq(L), NEW b \in Seq(L)
  PROVE  /\ Common(a, b) \in 0..Low(Len(a), Len(b))
         /\ \A i \in 1..Common(a, b) : a[i] = b[i]
<1> DEFINE top == Low(Len(a), Len(b))
           ok(n) == /\ SubSeq(a, 1, n) = SubSeq(b, 1, n)
                    /\ n < top => a[n + 1] # b[n + 1]
<1>1. Len(a) \in Nat /\ Len(b) \in Nat /\ top \in Nat /\ top <= Len(a) /\ top <= Len(b)
  BY DEF Low
<1>2. \A n \in 0..top : SubSeq(a, 1, n) = SubSeq(b, 1, n) <=> \A i \in 1..n : a[i] = b[i]
  <2> SUFFICES ASSUME NEW n \in 0..top
               PROVE  SubSeq(a, 1, n) = SubSeq(b, 1, n) <=> \A i \in 1..n : a[i] = b[i]
    OBVIOUS
  <2> HIDE DEF top
  <2>1. /\ SubSeq(a, 1, n) = [i \in 1..n |-> a[i]]
        /\ SubSeq(b, 1, n) = [i \in 1..n |-> b[i]]
    BY <1>1
  <2> QED BY <2>1
<1>3. \E n \in 0..top : ok(n)
  <2> DEFINE T == {i \in 1..top : a[i] # b[i]}
  <2>1. CASE T = {}
    <3>1. ok(top)
      BY <1>1, <1>2, <2>1
    <3>2. top \in 0..top
      BY <1>1
    <3> HIDE DEF top, ok
    <3> QED BY <3>1, <3>2
  <2>2. CASE T # {}
    <3>1. PICK m \in T : \A i \in T : m <= i
      <4>1. T \in SUBSET Nat
        BY <1>1
      <4> HIDE DEF T
      <4> QED BY <2>2, <4>1, LeastExists
    <3>2. m - 1 \in 0..top /\ m - 1 + 1 = m /\ a[m] # b[m]
      BY <1>1, <3>1
    <3>3. \A i \in 1..m - 1 : a[i] = b[i]
      BY <1>1, <3>1
    <3>4. SubSeq(a, 1, m - 1) = SubSeq(b, 1, m - 1)
      BY <1>2, <3>2, <3>3
    <3> QED BY <3>2, <3>4
  <2> QED BY <2>1, <2>2
<1>4. Common(a, b) = CHOOSE n \in 0..top : ok(n)
  BY DEF Common
<1>5. Common(a, b) \in 0..top /\ ok(Common(a, b))
  <2> HIDE DEF top, ok
  <2> QED BY <1>3, <1>4
<1> QED BY <1>2, <1>5

\* The k-th of the numbers 1..N without u+1..u+d.
Gapped(u, d, N) == {i \in 1..N : i <= u \/ u + d < i}

LEMMA Gap ==
  ASSUME NEW u \in Nat, NEW d \in Nat, NEW N \in Nat, u + d <= N
  PROVE  /\ Cardinality(Gapped(u, d, N)) = N - d
         /\ \A k \in 1..N - d :
              Nth(Gapped(u, d, N), k) = IF k <= u THEN k ELSE k + d
<1> DEFINE P == {j \in 1..N : j <= u \/ u + d < j}
           below(i) == {j \in P : j <= i}
           hole == u + 1..u + d
<1>1. \A i \in 0..N : Cardinality({j \in 1..i : j <= u \/ u + d < j})
                       = IF i <= u THEN i ELSE IF i <= u + d THEN u ELSE i - d
  <2> SUFFICES ASSUME NEW i \in 0..N
               PROVE  Cardinality({j \in 1..i : j <= u \/ u + d < j})
                       = IF i <= u THEN i ELSE IF i <= u + d THEN u ELSE i - d
    OBVIOUS
  <2>1. CASE i <= u + d
    <3> DEFINE m == IF i <= u THEN i ELSE u
    <3>1. {j \in 1..i : j <= u \/ u + d < j} = 1..m
      BY <2>1
    <3>2. Cardinality(1..m) = m
      BY FS_Interval
    <3> QED BY <2>1, <3>1, <3>2
  <2>2. CASE u + d < i
    <3>1. {j \in 1..i : j <= u \/ u + d < j} = (1..i) \ hole
      OBVIOUS
    <3>2. (1..i) \cap hole = hole
      BY <2>2
    <3>3. Cardinality(hole) = d /\ IsFiniteSet(1..i) /\ Cardinality(1..i) = i
      BY FS_Interval
    <3>4. Cardinality((1..i) \ hole) = i - d
      <4> HIDE DEF hole
      <4>1. Cardinality((1..i) \ hole)
              = Cardinality(1..i) - Cardinality((1..i) \cap hole)
        BY <3>3, FS_Difference
      <4> QED BY <3>2, <3>3, <4>1
    <3>5. ~(i <= u) /\ ~(i <= u + d)
      BY <2>2
    <3> HIDE DEF hole
    <3> QED BY ONLY <3>1, <3>4, <3>5
  <2> QED BY <2>1, <2>2
<1>2. Cardinality(P) = N - d
  <2> QED BY <1>1
<1>3. \A i \in P : Cardinality(below(i)) = IF i <= u THEN i ELSE i - d
  <2> SUFFICES ASSUME NEW i \in P
               PROVE  Cardinality(below(i)) = IF i <= u THEN i ELSE i - d
    OBVIOUS
  <2>1. below(i) = {j \in 1..i : j <= u \/ u + d < j}
    OBVIOUS
  <2> QED BY <1>1, <2>1
<1>4. ASSUME NEW k \in 1..N - d
      PROVE  Nth(P, k) = IF k <= u THEN k ELSE k + d
  <2> DEFINE x == IF k <= u THEN k ELSE k + d
  <2>1. x \in P /\ Cardinality(below(x)) = k
    BY <1>3
  <2>2. \A i \in P : Cardinality(below(i)) = k => i = x
    BY <1>3
  <2>3. Nth(P, k) = CHOOSE i \in P : Cardinality(below(i)) = k
    BY DEF Nth
  <2> HIDE DEF x, below
  <2>4. Nth(P, k) = x
    BY <2>1, <2>2, <2>3
  <2> QED BY <2>4 DEF x
<1> QED BY <1>2, <1>4 DEF Gapped

\* The lines before and after what the diff of a and b is about.
Prefix(a, b) == Common(a, b)
Suffix(a, b) == Common(Reverse(Drop(a, Prefix(a, b))), Reverse(Drop(b, Prefix(a, b))))

LEMMA Parts ==
  ASSUME NEW L, NEW a \in Seq(L), NEW b \in Seq(L)
  PROVE  LET p == Prefix(a, b)  s == Suffix(a, b) IN
         /\ p \in Nat /\ s \in Nat /\ p + s <= Len(a) /\ p + s <= Len(b)
         /\ \A i \in 1..p : a[i] = b[i]
         /\ \A i \in 1..s : a[Len(a) - s + i] = b[Len(b) - s + i]
<1> DEFINE p == Prefix(a, b)  s == Suffix(a, b)  n == Len(a)  m == Len(b)
           x == Reverse(Drop(a, p))  y == Reverse(Drop(b, p))
<1>1. n \in Nat /\ m \in Nat
  OBVIOUS
<1>2. p \in 0..Low(n, m) /\ \A i \in 1..p : a[i] = b[i]
  BY CommonIsPrefix DEF Prefix
<1>3. p \in Nat /\ p <= n /\ p <= m
  BY <1>1, <1>2 DEF Low
<1>4. ASSUME NEW c \in Seq(L), p <= Len(c)
      PROVE  /\ Reverse(Drop(c, p)) \in Seq(L) /\ Len(Reverse(Drop(c, p))) = Len(c) - p
             /\ \A i \in 1..Len(c) - p : Reverse(Drop(c, p))[i] = c[Len(c) + 1 - i]
  <2> HIDE DEF p
  <2>1. /\ Drop(c, p) \in Seq(L) /\ Len(Drop(c, p)) = Len(c) - p
        /\ \A i \in 1..Len(c) - p : Drop(c, p)[i] = c[p + i]
    BY <1>3, <1>4 DEF Drop
  <2> DEFINE d == Drop(c, p)  r == Reverse(d)
  <2>2. r = [i \in 1..Len(d) |-> d[(Len(d) - i) + 1]]
    BY DEF Reverse
  <2> HIDE DEF d
  <2>3. Len(d) \in Nat /\ Len(d) = Len(c) - p
    BY <1>3, <1>4, <2>1 DEF d
  <2>4. \A i \in 1..Len(d) : (Len(d) - i) + 1 \in 1..Len(d) /\ d[(Len(d) - i) + 1] \in L
    BY <2>1, <2>3 DEF d
  <2>5. r \in Seq(L) /\ Len(r) = Len(d)
    <3>1. r \in [1..Len(d) -> L]
      BY <2>2, <2>4
    <3> HIDE DEF r
    <3> QED BY <2>3, <3>1, FunctionIsSeq
  <2>6. \A i \in 1..Len(c) - p : r[i] = c[Len(c) + 1 - i]
    <3> SUFFICES ASSUME NEW i \in 1..Len(c) - p PROVE r[i] = c[Len(c) + 1 - i]
      OBVIOUS
    <3>1. r[i] = d[(Len(d) - i) + 1] /\ (Len(d) - i) + 1 \in 1..Len(c) - p
      BY <2>2, <2>3, <2>4
    <3>2. d[(Len(d) - i) + 1] = c[p + ((Len(d) - i) + 1)]
      BY <2>1, <3>1 DEF d
    <3>3. p + ((Len(d) - i) + 1) = Len(c) + 1 - i
      BY <1>3, <2>3
    <3> QED BY <3>1, <3>2, <3>3
  <2> QED BY <2>3, <2>5, <2>6 DEF d
<1>5. /\ x \in Seq(L) /\ Len(x) = n - p /\ \A i \in 1..n - p : x[i] = a[n + 1 - i]
      /\ y \in Seq(L) /\ Len(y) = m - p /\ \A i \in 1..m - p : y[i] = b[m + 1 - i]
  BY <1>3, <1>4
<1>6. s \in 0..Low(n - p, m - p) /\ \A i \in 1..s : x[i] = y[i]
  <2>1. s = Common(x, y)
    BY DEF Suffix
  <2> HIDE DEF s, x, y, n, m, p
  <2>2. /\ Common(x, y) \in 0..Low(Len(x), Len(y))
        /\ \A i \in 1..Common(x, y) : x[i] = y[i]
    <3>1. x \in Seq(L) /\ y \in Seq(L)
      BY <1>5
    <3> QED BY ONLY <3>1, CommonIsPrefix
  <2> QED BY <1>5, <2>1, <2>2
<1> HIDE DEF s, x, y, p, n, m
<1>7. s \in Nat /\ p + s <= n /\ p + s <= m
  BY <1>1, <1>3, <1>6 DEF Low
<1>8. ASSUME NEW i \in 1..s PROVE a[n - s + i] = b[m - s + i]
  <2> DEFINE j == s + 1 - i
  <2>1. j \in 1..s /\ n + 1 - j = n - s + i /\ m + 1 - j = m - s + i
        /\ j \in 1..n - p /\ j \in 1..m - p
    BY <1>1, <1>3, <1>7
  <2> HIDE DEF j
  <2> QED BY <1>5, <1>6, <2>1
<1> QED BY <1>2, <1>3, <1>7, <1>8 DEF s, p, n, m

Entries(L) == {"kept", "removed", "added"} \X L

LEMMA Segment ==
  ASSUME NEW L, NEW a \in Seq(L), NEW x \in Nat, NEW y \in x..Len(a),
         NEW tag \in {"kept", "removed", "added"}
  PROVE  LET t == Tagged(tag, SubSeq(a, x + 1, y)) IN
         /\ t \in Seq(Entries(L)) /\ Len(t) = y - x
         /\ \A i \in 1..y - x : t[i] = <<tag, a[x + i]>>
<1> DEFINE c == SubSeq(a, x + 1, y)
<1>1. /\ c \in Seq(L) /\ Len(c) = y - x /\ y - x \in Nat
      /\ \A i \in 1..y - x : c[i] = a[x + i]
  <2>1. Len(a) \in Nat /\ y \in Nat /\ x <= y /\ y <= Len(a)
    <3>1. Len(a) \in Nat
      OBVIOUS
    <3> QED BY <3>1
  <2>2. \A i \in x + 1..y : a[i] \in L
    BY <2>1, ElementOfSeq
  <2>3. /\ c \in Seq(L)
        /\ Len(c) = IF x + 1 <= y THEN y - (x + 1) + 1 ELSE 0
        /\ \A i \in 1..y - (x + 1) + 1 : c[i] = a[x + 1 + i - 1]
    <3>1. x + 1 \in Int /\ y \in Int
      BY <2>1
    <3> QED BY <2>2, <3>1, SubSeqProperties
  <2> HIDE DEF c
  <2>4. y - (x + 1) + 1 = y - x /\ \A i \in 1..y - x : x + 1 + i - 1 = x + i
    BY <2>1
  <2> QED BY <2>1, <2>3, <2>4
<1>2. DOMAIN c = 1..y - x /\ \A i \in 1..y - x : c[i] \in L
  BY <1>1, LenProperties, ElementOfSeq
<1> HIDE DEF c
<1>3. Tagged(tag, c) = [i \in 1..y - x |-> <<tag, c[i]>>]
  BY <1>2 DEF Tagged
<1>4. \A i \in 1..y - x : <<tag, c[i]>> \in Entries(L)
  BY <1>2 DEF Entries
<1>5. Tagged(tag, c) \in [1..y - x -> Entries(L)]
  BY <1>3, <1>4
<1> HIDE DEF Entries
<1>6. Tagged(tag, c) \in Seq(Entries(L)) /\ Len(Tagged(tag, c)) = y - x
  BY <1>1, <1>5, FunctionIsSeq
<1>7. \A i \in 1..y - x : Tagged(tag, c)[i] = <<tag, a[x + i]>>
  BY <1>1, <1>3
<1> QED BY <1>6, <1>7 DEF c

LEMMA Joined ==
  ASSUME NEW E, NEW t1 \in Seq(E), NEW t2 \in Seq(E), NEW t3 \in Seq(E), NEW t4 \in Seq(E)
  PROVE  LET t == t1 \o t2 \o t3 \o t4 IN
         /\ t \in Seq(E) /\ Len(t) = Len(t1) + Len(t2) + Len(t3) + Len(t4)
         /\ \A i \in 1..Len(t) :
              t[i] = IF i <= Len(t1) THEN t1[i]
                     ELSE IF i <= Len(t1) + Len(t2) THEN t2[i - Len(t1)]
                     ELSE IF i <= Len(t1) + Len(t2) + Len(t3)
                     THEN t3[i - (Len(t1) + Len(t2))]
                     ELSE t4[i - (Len(t1) + Len(t2) + Len(t3))]
<1> DEFINE u == t1 \o t2  v == u \o t3  w == v \o t4
<1>1. /\ u \in Seq(E) /\ Len(u) = Len(t1) + Len(t2)
      /\ \A i \in 1..Len(u) : u[i] = IF i <= Len(t1) THEN t1[i] ELSE t2[i - Len(t1)]
  BY ConcatProperties
<1> HIDE DEF u
<1>2. /\ v \in Seq(E) /\ Len(v) = Len(u) + Len(t3)
      /\ \A i \in 1..Len(v) : v[i] = IF i <= Len(u) THEN u[i] ELSE t3[i - Len(u)]
  <2>1. u \in Seq(E)
    BY <1>1
  <2> HIDE DEF u
  <2> QED BY ONLY <2>1, t3 \in Seq(E), ConcatProperties
<1> HIDE DEF v
<1>3. /\ w \in Seq(E) /\ Len(w) = Len(v) + Len(t4)
      /\ \A i \in 1..Len(w) : w[i] = IF i <= Len(v) THEN v[i] ELSE t4[i - Len(v)]
  <2>1. v \in Seq(E)
    BY <1>2
  <2> HIDE DEF u
  <2> QED BY ONLY <2>1, t4 \in Seq(E), ConcatProperties
<1> HIDE DEF w
<1>4. Len(t1) \in Nat /\ Len(t2) \in Nat /\ Len(t3) \in Nat /\ Len(t4) \in Nat
  OBVIOUS
<1>5. /\ w \in Seq(E) /\ Len(w) = Len(t1) + Len(t2) + Len(t3) + Len(t4)
      /\ \A i \in 1..Len(w) :
           w[i] = IF i <= Len(t1) THEN t1[i]
                  ELSE IF i <= Len(t1) + Len(t2) THEN t2[i - Len(t1)]
                  ELSE IF i <= Len(t1) + Len(t2) + Len(t3) THEN t3[i - (Len(t1) + Len(t2))]
                  ELSE t4[i - (Len(t1) + Len(t2) + Len(t3))]
  BY <1>1, <1>2, <1>3, <1>4
<1> QED BY <1>5 DEF w, v, u

\* The lines of a hunk; those of a hunk that covers both files, one by one.
LEMMA BodyIs ==
  ASSUME NEW L, NEW a \in Seq(L), NEW b \in Seq(L), NEW context \in Nat
  PROVE  LET h == Hunk(a, b, context)
             p == Prefix(a, b)  s == Suffix(a, b)  n == Len(a)  m == Len(b)
         IN  /\ h.body \in Seq(Entries(L))
             /\ h.from = 0 /\ h.aTo = n /\ h.bTo = m =>
                  /\ Len(h.body) = n + m - p - s
                  /\ \A i \in 1..n + m - p - s :
                       /\ i <= p => h.body[i] = <<"kept", a[i]>>
                       /\ p < i /\ i <= n - s => h.body[i] = <<"removed", a[i]>>
                       /\ n - s < i /\ i <= n + m - p - s - s =>
                            h.body[i] = <<"added", b[i - (n - s) + p]>>
                       /\ n + m - p - s - s < i => h.body[i] = <<"kept", b[i - (n - s) + p]>>
<1> DEFINE h == Hunk(a, b, context)
           p == Prefix(a, b)  s == Suffix(a, b)  n == Len(a)  m == Len(b)
           from == High(0, p - context)  bTo == Low(m, m - s + context)
           aTo == Low(n, n - s + context)
           t1 == Tagged("kept", SubSeq(a, from + 1, p))
           t2 == Tagged("removed", SubSeq(a, p + 1, n - s))
           t3 == Tagged("added", SubSeq(b, p + 1, m - s))
           t4 == Tagged("kept", SubSeq(b, m - s + 1, bTo))
<1>1. h = [from |-> from, aTo |-> aTo, bTo |-> bTo, body |-> t1 \o t2 \o t3 \o t4]
  BY DEF Hunk, Prefix, Suffix
<1>2. /\ n \in Nat /\ m \in Nat /\ p \in Nat /\ s \in Nat /\ p + s <= n /\ p + s <= m
  <2>1. n \in Nat /\ m \in Nat
    OBVIOUS
  <2>2. p \in Nat /\ s \in Nat /\ p + s <= n /\ p + s <= m
    BY Parts
  <2> QED BY <2>1, <2>2
<1> HIDE DEF h, p, s, n, m
<1>3. from \in Nat /\ from <= p /\ bTo \in Nat /\ m - s <= bTo /\ bTo <= m
  BY <1>2 DEF High, Low
<1> HIDE DEF from, aTo, bTo
<1>4. /\ t1 \in Seq(Entries(L)) /\ Len(t1) = p - from
      /\ \A i \in 1..p - from : t1[i] = <<"kept", a[from + i]>>
  <2>1. p \in from..n
    BY <1>2, <1>3
  <2> QED BY <1>3, <2>1, Segment DEF n
<1>5. /\ t2 \in Seq(Entries(L)) /\ Len(t2) = n - s - p
      /\ \A i \in 1..n - s - p : t2[i] = <<"removed", a[p + i]>>
  <2>1. n - s \in p..n
    BY <1>2
  <2> QED BY <1>2, <2>1, Segment DEF n
<1>6. /\ t3 \in Seq(Entries(L)) /\ Len(t3) = m - s - p
      /\ \A i \in 1..m - s - p : t3[i] = <<"added", b[p + i]>>
  <2>1. m - s \in p..m
    BY <1>2
  <2> QED BY <1>2, <2>1, Segment DEF m
<1>7. /\ t4 \in Seq(Entries(L)) /\ Len(t4) = bTo - (m - s)
      /\ \A i \in 1..bTo - (m - s) : t4[i] = <<"kept", b[m - s + i]>>
  <2>1. bTo \in m - s..m /\ m - s \in Nat
    BY <1>2, <1>3
  <2> QED BY <2>1, Segment DEF m
<1> DEFINE t == t1 \o t2 \o t3 \o t4
<1> HIDE DEF t1, t2, t3, t4
<1>8. /\ t \in Seq(Entries(L))
      /\ Len(t) = Len(t1) + Len(t2) + Len(t3) + Len(t4)
      /\ \A i \in 1..Len(t) :
           t[i] = IF i <= Len(t1) THEN t1[i]
                  ELSE IF i <= Len(t1) + Len(t2) THEN t2[i - Len(t1)]
                  ELSE IF i <= Len(t1) + Len(t2) + Len(t3)
                  THEN t3[i - (Len(t1) + Len(t2))]
                  ELSE t4[i - (Len(t1) + Len(t2) + Len(t3))]
  <2>1. /\ t1 \in Seq(Entries(L)) /\ t2 \in Seq(Entries(L))
        /\ t3 \in Seq(Entries(L)) /\ t4 \in Seq(Entries(L))
    BY <1>4, <1>5, <1>6, <1>7
  <2> QED BY ONLY <2>1, Joined
<1> HIDE DEF t
<1>9. h.body = t /\ h.from = from /\ h.aTo = aTo /\ h.bTo = bTo
  BY <1>1 DEF t
<1>10. ASSUME from = 0, bTo = m
       PROVE  /\ Len(t) = n + m - p - s
              /\ \A i \in 1..n + m - p - s :
                   /\ i <= p => t[i] = <<"kept", a[i]>>
                   /\ p < i /\ i <= n - s => t[i] = <<"removed", a[i]>>
                   /\ n - s < i /\ i <= n + m - p - s - s =>
                        t[i] = <<"added", b[i - (n - s) + p]>>
                   /\ n + m - p - s - s < i => t[i] = <<"kept", b[i - (n - s) + p]>>
  <2>1. Len(t1) = p /\ Len(t2) = n - s - p /\ Len(t3) = m - s - p /\ Len(t4) = s
    BY <1>2, <1>4, <1>5, <1>6, <1>7, <1>10
  <2>2. Len(t) = n + m - p - s
    BY <1>2, <1>8, <2>1
  <2> SUFFICES ASSUME NEW i \in 1..n + m - p - s
               PROVE  /\ i <= p => t[i] = <<"kept", a[i]>>
                      /\ p < i /\ i <= n - s => t[i] = <<"removed", a[i]>>
                      /\ n - s < i /\ i <= n + m - p - s - s =>
                           t[i] = <<"added", b[i - (n - s) + p]>>
                      /\ n + m - p - s - s < i =>
                           t[i] = <<"kept", b[i - (n - s) + p]>>
    BY <2>2
  <2>3. t[i] = IF i <= p THEN t1[i]
               ELSE IF i <= n - s THEN t2[i - p]
               ELSE IF i <= n + m - p - s - s THEN t3[i - (n - s)]
               ELSE t4[i - (n + m - p - s - s)]
    <3>1. i \in 1..Len(t)
      BY <2>2
    <3>2. /\ Len(t1) = p /\ Len(t1) + Len(t2) = n - s
          /\ Len(t1) + Len(t2) + Len(t3) = n + m - p - s - s
      BY <1>2, <2>1
    <3> QED BY <1>8, <3>1, <3>2
  <2>4. CASE i <= p
    <3>1. i \in 1..p - from /\ from + i = i
      BY <1>2, <1>10, <2>4
    <3>2. t[i] = <<"kept", a[i]>>
      BY <1>4, <2>3, <2>4, <3>1
    <3>3. ~(p < i) /\ ~(n - s < i) /\ ~(n + m - p - s - s < i)
      BY <1>2, <2>4
    <3> QED BY <3>2, <3>3
  <2>5. CASE p < i /\ i <= n - s
    <3>1. i - p \in 1..n - s - p /\ p + (i - p) = i
      BY <1>2, <2>5
    <3>2. t[i] = t2[i - p]
      BY <1>2, <2>3, <2>5
    <3>3. t2[i - p] = <<"removed", a[p + (i - p)]>>
      BY <1>5, <3>1
    <3>4. t[i] = <<"removed", a[i]>>
      BY <3>1, <3>2, <3>3
    <3>5. ~(i <= p) /\ ~(n - s < i) /\ ~(n + m - p - s - s < i)
      BY <1>2, <2>5
    <3> QED BY <3>4, <3>5
  <2>6. CASE n - s < i /\ i <= n + m - p - s - s
    <3>1. i - (n - s) \in 1..m - s - p /\ p + (i - (n - s)) = i - (n - s) + p
      BY <1>2, <2>6
    <3>2. t[i] = t3[i - (n - s)]
      BY <1>2, <2>3, <2>6
    <3>3. t3[i - (n - s)] = <<"added", b[p + (i - (n - s))]>>
      BY <1>6, <3>1
    <3>4. t[i] = <<"added", b[i - (n - s) + p]>>
      BY <3>1, <3>2, <3>3
    <3>5. ~(i <= p) /\ ~(i <= n - s) /\ ~(n + m - p - s - s < i)
      BY <1>2, <2>6
    <3> QED BY <3>4, <3>5
  <2>7. CASE n + m - p - s - s < i
    <3> DEFINE j == i - (n + m - p - s - s)
    <3>1. j \in 1..bTo - (m - s) /\ m - s + j = i - (n - s) + p
      BY <1>2, <1>10, <2>7
    <3>2. t[i] = t4[j]
      BY <1>2, <2>3, <2>7
    <3> HIDE DEF j
    <3>3. t4[j] = <<"kept", b[m - s + j]>>
      BY <1>7, <3>1
    <3>4. t[i] = <<"kept", b[i - (n - s) + p]>>
      BY <3>1, <3>2, <3>3
    <3>5. ~(i <= p) /\ ~(i <= n - s) /\ ~(i <= n + m - p - s - s)
      BY <1>2, <2>7
    <3> QED BY <3>4, <3>5
  <2> QED BY <1>2, <2>4, <2>5, <2>6, <2>7
<1> QED BY <1>8, <1>9, <1>10 DEF h, p, s, n, m

\* What is picked from the lines of a diff by tags that leave d lines out
\* after the first u.
LeavesOut(body, tags, u, d) ==
  /\ Len(body) \in Nat /\ DOMAIN body = 1..Len(body)
  /\ u \in Nat /\ d \in Nat /\ u + d <= Len(body)
  /\ \A i \in 1..Len(body) : body[i][1] \in tags <=> i <= u \/ u + d < i

LEMMA Picked ==
  ASSUME NEW diff, NEW tags, NEW u, NEW d, LeavesOut(Drop(diff, 3), tags, u, d)
  PROVE  Of(diff, tags) = [k \in 1..Len(Drop(diff, 3)) - d |->
                             Drop(diff, 3)[IF k <= u THEN k ELSE k + d][2]]
<1> DEFINE body == Drop(diff, 3)
<1>0. /\ Len(body) \in Nat /\ DOMAIN body = 1..Len(body)
      /\ u \in Nat /\ d \in Nat /\ u + d <= Len(body)
      /\ \A i \in 1..Len(body) : body[i][1] \in tags <=> i <= u \/ u + d < i
  BY DEF LeavesOut
<1> DEFINE P == {i \in DOMAIN body : body[i][1] \in tags}
           N == Len(body)
<1>1. N \in Nat /\ DOMAIN body = 1..N
  BY <1>0
<1>2. P = Gapped(u, d, N)
  <2> HIDE DEF body
  <2> QED BY <1>0 DEF Gapped
<1>3. Of(diff, tags) = [k \in 1..Cardinality(P) |-> body[Nth(P, k)][2]]
  BY DEF Of
<1>4. /\ Cardinality(P) = N - d
      /\ \A k \in 1..N - d : Nth(P, k) = IF k <= u THEN k ELSE k + d
  <2> HIDE DEF N, P
  <2>1. u + d <= N
    BY <1>0 DEF N
  <2> QED BY ONLY <1>0, <1>1, <1>2, <2>1, Gap
<1> HIDE DEF P
<1> QED BY <1>3, <1>4

\* renderUnifiedDiff, of lines: what UnifiedDiff makes of those of two texts.
Rendered(a, b, context, budget) ==
  LET hunk == Hunk(a, b, context)
      head == <<<<"before">>, <<"after">>, <<"range", hunk.from, hunk.aTo, hunk.bTo>>>>
  IN  Bounded(head \o hunk.body,
              hunk.from = 0 /\ hunk.aTo = Len(a) /\ hunk.bTo = Len(b),
              High(1, budget))

\* Such a diff keeps to its budget and says so when it does not tell all.
LEMMA RenderedTells ==
  ASSUME NEW L, NEW a \in Seq(L), NEW b \in Seq(L), NEW context \in Nat,
         NEW budget \in Nat \ {0}
  PROVE  LET diff == Rendered(a, b, context, budget) IN
         /\ Len(diff) <= budget
         /\ diff # <<>>
         /\ (\A i \in DOMAIN diff : diff[i] # Marker) =>
              /\ Patched(a, diff) = b
              /\ Of(diff, {"kept", "removed"}) = a
<1> DEFINE h == Hunk(a, b, context)
           p == Prefix(a, b)  s == Suffix(a, b)  n == Len(a)  m == Len(b)
           third == <<"range", h.from, h.aTo, h.bTo>>
           head == <<<<"before">>, <<"after">>, third>>
           body == h.body
           E == Entries(L) \cup {<<"before">>, <<"after">>, third}
           lines == head \o body
           complete == h.from = 0 /\ h.aTo = n /\ h.bTo = m
           diff == Rendered(a, b, context, budget)
           cut == Append(SubSeq(lines, 1, Low(Len(lines), budget - 1)), Marker)
<1>1. /\ n \in Nat /\ m \in Nat /\ p \in Nat /\ s \in Nat /\ p + s <= n /\ p + s <= m
      /\ \A i \in 1..p : a[i] = b[i]
      /\ \A i \in 1..s : a[n - s + i] = b[m - s + i]
  <2>1. n \in Nat /\ m \in Nat
    OBVIOUS
  <2> QED BY <2>1, Parts
<1>2. /\ body \in Seq(Entries(L))
      /\ complete =>
           /\ Len(body) = n + m - p - s
           /\ \A i \in 1..n + m - p - s :
                /\ i <= p => body[i] = <<"kept", a[i]>>
                /\ p < i /\ i <= n - s => body[i] = <<"removed", a[i]>>
                /\ n - s < i /\ i <= n + m - p - s - s =>
                     body[i] = <<"added", b[i - (n - s) + p]>>
                /\ n + m - p - s - s < i => body[i] = <<"kept", b[i - (n - s) + p]>>
  BY BodyIs
<1>3. diff = IF complete /\ Len(lines) <= budget THEN lines ELSE cut
  <2>1. High(1, budget) = budget
    BY DEF High
  <2> QED BY <2>1 DEF Rendered, Bounded
<1> HIDE DEF h, p, s, n, m, diff
<1>4. head \in Seq(E) /\ Len(head) = 3 /\ head[3] = third
  <2> HIDE DEF third
  <2> QED OBVIOUS
<1>5. body \in Seq(E)
  BY <1>2
<1> HIDE DEF head, body, E
<1>6. /\ lines \in Seq(E) /\ Len(lines) = 3 + Len(body) /\ Len(body) \in Nat
      /\ \A i \in 1..Len(lines) : lines[i] = IF i <= 3 THEN head[i] ELSE body[i - 3]
  <2>1. Len(body) \in Nat
    BY <1>5
  <2>2. /\ lines \in Seq(E) /\ Len(lines) = Len(head) + Len(body)
        /\ \A i \in 1..Len(head) + Len(body) :
             lines[i] = IF i <= Len(head) THEN head[i] ELSE body[i - Len(head)]
    BY ONLY <1>4, <1>5, ConcatProperties
  <2> QED BY <1>4, <2>1, <2>2
<1> HIDE DEF lines
<1> DEFINE top == Low(Len(lines), budget - 1)
           shown == SubSeq(lines, 1, top)
<1>7. top \in Nat /\ top <= Len(lines) /\ top <= budget - 1
  BY <1>6 DEF Low
<1>8. shown \in Seq(E) /\ Len(shown) = top
  <2> HIDE DEF top
  <2> QED BY <1>6, <1>7
<1>9. /\ Len(cut) = top + 1 /\ DOMAIN cut = 1..top + 1 /\ cut[top + 1] = Marker
  <2>1. cut = Append(shown, Marker)
    OBVIOUS
  <2>2. shown \in Seq(E \cup {Marker})
    BY <1>8
  <2> HIDE DEF cut, shown, top
  <2> QED BY <1>7, <1>8, <2>1, <2>2
<1>10. Len(diff) <= budget /\ diff # <<>>
  <2>1. CASE diff = lines /\ Len(lines) <= budget
    BY <1>6, <2>1
  <2>2. CASE diff = cut
    <3> HIDE DEF cut, top
    <3> QED BY <1>7, <1>9, <2>2
  <2> QED BY <1>3, <2>1, <2>2
<1>11. ASSUME \A i \in DOMAIN diff : diff[i] # Marker
       PROVE  Patched(a, diff) = b /\ Of(diff, {"kept", "removed"}) = a
  <2>1. diff = lines /\ complete
    <3>1. diff # cut
      <4> HIDE DEF cut, top
      <4>1. top + 1 \in DOMAIN cut
        BY <1>7, <1>9
      <4> QED BY <1>9, <1>11, <4>1
    <3> QED BY <1>3, <3>1
  <2> DEFINE N == n + m - p - s
  <2>2. N \in Nat /\ Len(body) = N
    BY <1>1, <1>2, <2>1 DEF body
  <2>3. Drop(diff, 3) = body
    <3>1. /\ Drop(diff, 3) \in Seq(E) /\ Len(Drop(diff, 3)) = Len(body)
          /\ \A i \in 1..Len(body) : Drop(diff, 3)[i] = body[i]
      <4>1. Drop(diff, 3) = SubSeq(lines, 4, Len(lines))
        BY <2>1 DEF Drop
      <4>2. /\ SubSeq(lines, 4, Len(lines)) \in Seq(E)
            /\ Len(SubSeq(lines, 4, Len(lines))) = Len(body)
            /\ \A i \in 1..Len(body) : SubSeq(lines, 4, Len(lines))[i] = lines[i + 3]
        BY <1>6
      <4>3. \A i \in 1..Len(body) : lines[i + 3] = body[i]
        BY <1>6
      <4> QED BY <4>1, <4>2, <4>3
    <3> QED BY ONLY <3>1, <1>5, SeqEqual
  <2>4. \A i \in 1..N :
          /\ i <= p => body[i] = <<"kept", a[i]>>
          /\ p < i /\ i <= n - s => body[i] = <<"removed", a[i]>>
          /\ n - s < i /\ i <= n + m - p - s - s =>
               body[i] = <<"added", b[i - (n - s) + p]>>
          /\ n + m - p - s - s < i => body[i] = <<"kept", b[i - (n - s) + p]>>
    BY <1>2, <2>1 DEF body
  <2>12. \A i \in 1..N :
           /\ body[i][1] \in {"kept", "removed", "added"}
           /\ body[i][1] = "removed" <=> p < i /\ i <= n - s
           /\ body[i][1] = "added" <=> n - s < i /\ i <= n + m - p - s - s
           /\ i <= n - s => body[i][2] = a[i]
           /\ n - s < i => body[i][2] = b[i - (n - s) + p]
    <3> SUFFICES ASSUME NEW i \in 1..N
                 PROVE  /\ body[i][1] \in {"kept", "removed", "added"}
                        /\ body[i][1] = "removed" <=> p < i /\ i <= n - s
                        /\ body[i][1] = "added" <=> n - s < i /\ i <= n + m - p - s - s
                        /\ i <= n - s => body[i][2] = a[i]
                        /\ n - s < i => body[i][2] = b[i - (n - s) + p]
      OBVIOUS
    <3>1. CASE i <= p
      <4>1. body[i] = <<"kept", a[i]>> /\ i <= n - s
        BY <1>1, <2>4, <3>1
      <4> QED BY <1>1, <3>1, <4>1
    <3>2. CASE p < i /\ i <= n - s
      <4>1. body[i] = <<"removed", a[i]>>
        BY <1>1, <2>4, <3>2
      <4> QED BY <1>1, <3>2, <4>1
    <3>3. CASE n - s < i /\ i <= n + m - p - s - s
      <4>1. body[i] = <<"added", b[i - (n - s) + p]>>
        BY <1>1, <2>4, <3>3
      <4> QED BY <1>1, <3>3, <4>1
    <3>4. CASE n + m - p - s - s < i
      <4>1. body[i] = <<"kept", b[i - (n - s) + p]>> /\ ~(i <= n - s)
        BY <1>1, <2>4, <3>4
      <4> QED BY <1>1, <3>4, <4>1
    <3> QED BY <1>1, <3>1, <3>2, <3>3, <3>4
  <2>5. Of(diff, {"kept", "added"}) = b
    <3> DEFINE d == n - s - p  tags == {"kept", "added"}
    <3>1. d \in Nat /\ p + d = n - s /\ p + d <= N /\ N - d = m
      BY <1>1
    <3>2. \A i \in 1..N : body[i][1] \in tags <=> i <= p \/ p + d < i
      BY <1>1, <2>12
    <3>3. \A k \in 1..m : body[IF k <= p THEN k ELSE k + d][2] = b[k]
      <4> SUFFICES ASSUME NEW k \in 1..m
                   PROVE  body[IF k <= p THEN k ELSE k + d][2] = b[k]
        OBVIOUS
      <4>1. CASE k <= p
        <5>1. k \in 1..N /\ k \in 1..p
          BY <1>1, <4>1
        <5> QED BY <1>1, <2>12, <4>1, <5>1
      <4>2. CASE p < k
        <5> DEFINE e == k + d
        <5>1. e \in 1..N /\ n - s < e /\ e - (n - s) + p = k
          BY <1>1, <4>2
        <5>2. (IF k <= p THEN k ELSE k + d) = e
          BY <1>1, <4>2
        <5> HIDE DEF e, N
        <5>3. body[e][2] = b[e - (n - s) + p]
          BY <2>12, <5>1
        <5> QED BY <5>1, <5>2, <5>3
      <4> QED BY <1>1, <4>1, <4>2
    <3> HIDE DEF d, tags, N
    <3>4. LeavesOut(body, tags, p, d)
      BY <1>1, <1>5, <2>2, <3>1, <3>2, LenProperties DEF LeavesOut
    <3>6. Of(diff, tags) = [k \in 1..Len(body) - d |->
                              body[IF k <= p THEN k ELSE k + d][2]]
      BY <2>3, <3>4, Picked
    <3>7. b = [k \in 1..m |-> b[k]]
      BY LenProperties DEF m
    <3> QED BY <2>2, <3>1, <3>3, <3>6, <3>7 DEF tags
  <2>6. Of(diff, {"kept", "removed"}) = a
    <3> DEFINE d == m - s - p  u == n - s  tags == {"kept", "removed"}
    <3>1. d \in Nat /\ u \in Nat /\ u + d <= N /\ N - d = n
      BY <1>1
    <3>2. \A i \in 1..N : body[i][1] \in tags <=> i <= u \/ u + d < i
      BY <1>1, <2>12
    <3>3. \A k \in 1..n : body[IF k <= u THEN k ELSE k + d][2] = a[k]
      <4> SUFFICES ASSUME NEW k \in 1..n
                   PROVE  body[IF k <= u THEN k ELSE k + d][2] = a[k]
        OBVIOUS
      <4>1. CASE k <= u
        <5>1. k \in 1..N
          BY <1>1, <4>1
        <5> QED BY <1>1, <2>12, <4>1, <5>1
      <4>2. CASE u < k
        <5> DEFINE e == k + d  j == k - u
        <5>1. e \in 1..N /\ n - s < e /\ e - (n - s) + p = m - s + j
          BY <1>1, <4>2
        <5>2. j \in 1..s /\ n - s + j = k
          BY <1>1, <4>2
        <5>3. (IF k <= u THEN k ELSE k + d) = e
          BY <1>1, <4>2
        <5> HIDE DEF e, j, N
        <5>4. body[e][2] = b[e - (n - s) + p] /\ a[k] = b[m - s + j]
          BY <1>1, <2>12, <5>1, <5>2
        <5> QED BY <5>1, <5>3, <5>4
      <4> QED BY <1>1, <4>1, <4>2
    <3> HIDE DEF d, u, tags, N
    <3>4. LeavesOut(body, tags, u, d)
      BY <1>1, <1>5, <2>2, <3>1, <3>2, LenProperties DEF LeavesOut
    <3>6. Of(diff, tags) = [k \in 1..Len(body) - d |->
                              body[IF k <= u THEN k ELSE k + d][2]]
      BY <2>3, <3>4, Picked
    <3>7. a = [k \in 1..n |-> a[k]]
      BY LenProperties DEF n
    <3> QED BY <2>2, <3>1, <3>3, <3>6, <3>7 DEF tags
  <2>7. diff[3] = third /\ diff # <<>>
    BY <1>4, <1>6, <1>10, <2>1
  <2>8. diff[3][2] = 0 /\ diff[3][3] = n
    BY <2>1, <2>7
  <2>9. Patched(a, diff) = SubSeq(a, 1, 0) \o b \o SubSeq(a, n + 1, n)
    BY <2>5, <2>7, <2>8 DEF Patched, Drop, n
  <2>10. SubSeq(a, 1, 0) = <<>> /\ SubSeq(a, n + 1, n) = <<>>
    BY <1>1, SubSeqEmpty
  <2>11. <<>> \o b \o <<>> = b
    BY ConcatEmptySeq
  <2> QED BY <2>6, <2>9, <2>10, <2>11
<1> QED BY <1>10, <1>11 DEF diff

\* The diffs shown of a plan's outcome keep to their budget, are empty only if
\* no line changed, and are the whole story unless they say that something was
\* left out (renderUnifiedDiff, diff.ts).
THEOREM DiffsTellAll == Spec => []DiffTells
<1>1. Init => Applied
  BY DEF Init, Applied
<1>2. IInv /\ Applied => DiffTells
  <2> SUFFICES ASSUME IInv, Applied, stage = "done",
                      NEW context \in Contexts, NEW budget \in Budgets
               PROVE  LET diff == UnifiedDiff(Snapshot, output, context, budget)
                          before == LinesOf(Snapshot)
                          after == LinesOf(output)
                      IN  /\ Len(diff) <= budget
                          /\ diff = <<>> <=> before = after
                          /\ (\A i \in DOMAIN diff : diff[i] # Marker) =>
                               /\ Patched(before, diff) = after
                               /\ diff # <<>> => Of(diff, {"kept", "removed"}) = before
    BY DEF DiffTells
  <2> DEFINE a == LinesOf(Snapshot)  b == LinesOf(output)
             diff == UnifiedDiff(Snapshot, output, context, budget)
  <2>1. context \in Nat /\ budget \in Nat \ {0}
    BY PreviewConstants
  <2>2. Snapshot \in Seq(Units) /\ output \in Seq(Units)
    <3>1. edits \subseteq Edit /\ output = TextFrom[0] /\ Size \in Nat
      BY SnapshotIsText DEF IInv, TypeOK, Applied
    <3>2. TextFrom[0] \in Texts
      BY <3>1, TextFromStep
    <3> QED BY <3>1, <3>2, SnapshotIsText DEF Texts
  <2>3. PICK L : a \in Seq(L) /\ b \in Seq(L)
    <3>1. PICK L1 : a \in Seq(L1)
      BY <2>2, LinesAreSequence
    <3>2. PICK L2 : b \in Seq(L2)
      BY <2>2, LinesAreSequence
    <3> HIDE DEF a, b
    <3>3. a \in Seq(L1 \cup L2) /\ b \in Seq(L1 \cup L2)
      BY <3>1, <3>2
    <3> QED BY <3>3
  <2>4. diff = IF a = b THEN <<>> ELSE Rendered(a, b, context, budget)
    BY DEF UnifiedDiff, Rendered
  <2> HIDE DEF a, b, diff
  <2>5. /\ Len(diff) <= budget
        /\ diff = <<>> <=> a = b
        /\ (\A i \in DOMAIN diff : diff[i] # Marker) =>
             /\ Patched(a, diff) = b
             /\ diff # <<>> => Of(diff, {"kept", "removed"}) = a
    <3>1. CASE a = b
      <4>1. diff = <<>> /\ Len(diff) = 0
        BY <2>4, <3>1
      <4> QED BY <2>1, <3>1, <4>1 DEF Patched
    <3>2. CASE a # b
      <4>1. diff = Rendered(a, b, context, budget)
        BY <2>4, <3>2
      <4>2. /\ Len(diff) <= budget /\ diff # <<>>
            /\ (\A i \in DOMAIN diff : diff[i] # Marker) =>
                 /\ Patched(a, diff) = b
                 /\ Of(diff, {"kept", "removed"}) = a
        BY <2>1, <2>3, <4>1, RenderedTells
      <4> QED BY <3>2, <4>2
    <3> QED BY <3>1, <3>2
  <2> QED BY <2>5 DEF a, b, diff
<1> QED BY <1>1, <1>2, AppliedStep, Always, PTL DEF Spec
=============================================================================
