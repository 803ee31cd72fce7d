-------------------------------- MODULE Measures --------------------------------
(***************************************************************************)
(* The count of changed bytes that the policy limits, as a pure function   *)
(* of the content of a file before and after, a sequence of units:         *)
(*   src/src/cli-run.ts   disjointChangedBytes                             *)
(***************************************************************************)
EXTENDS Diff

-----------------------------------------------------------------------------
(* The changed bytes: Myers' search from both ends for a point that a      *)
(* shortest edit script passes through, and so on with the two halves.     *)

\* How far v gets on diagonal k with d insertions and deletions.
Furthest(a, b, v, d, k) ==
  LET x == IF k = -d \/ (k # d /\ v[k - 1] < v[k + 1]) THEN v[k + 1]
           ELSE v[k - 1] + 1
  IN  IF x < k THEN x ELSE x + Common(Drop(a, x), Drop(b, x - k))

\* Where a search at d on diagonal k meets the one from the other end.
Meets(a, b, x, k, other) ==
  LET o == Len(a) - Len(b) - k IN
  o \in DOMAIN other /\ other[o] # -1 /\ x + other[o] >= Len(a)

\* One distance of one search: the diagonals from k on.  The search leaves out
\* `low` and `high` diagonals that ran off the ends; `met` is where it met.
RECURSIVE Sweep(_, _, _, _, _, _, _)
Sweep(a, b, d, k, search, other, may) ==
  IF k > d - search.high THEN search ELSE
  LET x == Furthest(a, b, search.reach, d, k)
      next == [search EXCEPT !.reach[k] = x]
  IN  IF x > Len(a)
      THEN Sweep(a, b, d, k + 2, [next EXCEPT !.high = @ + 2], other, may)
      ELSE IF x - k > Len(b)
      THEN Sweep(a, b, d, k + 2, [next EXCEPT !.low = @ + 2], other, may)
      ELSE IF may /\ Meets(a, b, x, k, other.reach)
      THEN [next EXCEPT !.met = <<k>>]
      ELSE Sweep(a, b, d, k + 2, next, other, may)

RECURSIVE Rounds(_, _, _, _, _)
Rounds(a, b, d, forward, reverse) ==
  IF d >= (Len(a) + Len(b) + 1) \div 2 THEN <<>> ELSE
  LET delta == Len(a) - Len(b)
      odd == delta % 2 # 0
      fore == Sweep(a, b, d, forward.low - d, forward, reverse, odd)
      back == Sweep(Reverse(a), Reverse(b), d, reverse.low - d, reverse, fore, ~odd)
      Point(k) == <<fore.reach[k], fore.reach[k] - k>>
  IN  IF fore.met # <<>> THEN Point(fore.met[1])
      ELSE IF back.met # <<>> THEN Point(delta - back.met[1])
      ELSE Rounds(a, b, d + 1, fore, back)

\* bisect: <<length of the first part of a, of b>>, or <<>>.
Bisect(a, b) ==
  LET half == (Len(a) + Len(b) + 1) \div 2
      search == [reach |-> [k \in -half..half |-> IF k = 1 THEN 0 ELSE -1],
                 low |-> 0, high |-> 0, met |-> <<>>]
  IN  Rounds(a, b, 0, search, search)

Times(step, n) == [i \in 1..n |-> step]

\* diff: the steps that turn a into b.
RECURSIVE Script(_, _)
Script(a, b) ==
  LET prefix == Common(a, b)
      suffix == Common(Reverse(Drop(a, prefix)), Reverse(Drop(b, prefix)))
      l == SubSeq(a, prefix + 1, Len(a) - suffix)
      r == SubSeq(b, prefix + 1, Len(b) - suffix)
      split == Bisect(l, r)
      middle ==
        IF l = <<>> \/ r = <<>> \/ split \in {<<>>, <<0, 0>>, <<Len(l), Len(r)>>}
        THEN Times("delete", Len(l)) \o Times("insert", Len(r))
        ELSE Script(SubSeq(l, 1, split[1]), SubSeq(r, 1, split[2]))
               \o Script(Drop(l, split[1]), Drop(r, split[2]))
  IN  Times("equal", prefix) \o middle \o Times("equal", suffix)

\* flush: a hunk counts for the longer of what goes and what comes.
Flush(c) == [changed |-> c.changed + High(c.deleted, c.inserted),
             deleted |-> 0, inserted |-> 0]
Count(c, step) ==
  CASE step = "equal"  -> Flush(c)
    [] step = "delete" -> [c EXCEPT !.deleted = @ + 1]
    [] step = "insert" -> [c EXCEPT !.inserted = @ + 1]

\* Mutant: only what is deleted counts.
DeletedOnly(a, b) ==
  Len(SelectSeq(Script(a, b), LAMBDA s : s = "delete"))

\* disjointChangedBytes
ChangedUnits(a, b) ==
  Flush(FoldLeft(Count, [changed |-> 0, deleted |-> 0, inserted |-> 0],
                 Script(a, b))).changed

-----------------------------------------------------------------------------
(* The references *)

\* The least number of units to delete, insert or replace.
Distance(a, b) ==
  LET D[i \in 0..Len(a), j \in 0..Len(b)] ==
        IF i = 0 \/ j = 0 THEN i + j
        ELSE IF a[i] = b[j] THEN D[i - 1, j - 1]
        ELSE 1 + Low(D[i - 1, j - 1], Low(D[i - 1, j], D[i, j - 1]))
  IN  D[Len(a), Len(b)]

\* The least number of units to delete or insert.
ScriptLength(a, b) ==
  LET D[i \in 0..Len(a), j \in 0..Len(b)] ==
        IF i = 0 \/ j = 0 THEN i + j
        ELSE IF a[i] = b[j] THEN D[i - 1, j - 1]
        ELSE 1 + Low(D[i - 1, j], D[i, j - 1])
  IN  D[Len(a), Len(b)]

\* The steps turn a into b, and no fewer do.
Shortest(steps, a, b) ==
  LET Walk(w, step) ==
        LET i == w.i + (IF step = "insert" THEN 0 ELSE 1)
            j == w.j + (IF step = "delete" THEN 0 ELSE 1)
        IN  [i |-> i, j |-> j,
             ok |-> w.ok /\ i <= Len(a) /\ j <= Len(b)
                         /\ (step = "equal" => a[i] = b[j])]
      end == FoldLeft(Walk, [i |-> 0, j |-> 0, ok |-> TRUE], steps)
  IN  /\ end = [i |-> Len(a), j |-> Len(b), ok |-> TRUE]
      /\ Len(SelectSeq(steps, LAMBDA s : s # "equal")) = ScriptLength(a, b)
=============================================================================
