---------------------------------- MODULE Diff ----------------------------------
(***************************************************************************)
(* The unified diff of a file, as a pure function of its content before    *)
(* and after:                                                              *)
(*   src/src/diff.ts   renderUnifiedDiff and renderPreview                 *)
(* A content is a sequence of units, of which "lf" and "crlf" end lines.   *)
(***************************************************************************)
EXTENDS Integers, Sequences, FiniteSets, SequencesExt

Low(a, b) == IF a < b THEN a ELSE b
High(a, b) == IF a < b THEN b ELSE a
Drop(s, n) == SubSeq(s, n + 1, Len(s))
Nth(P, k) == CHOOSE i \in P : Cardinality({j \in P : j <= i}) = k

\* The length of the longest common prefix.
Common(a, b) ==
  CHOOSE n \in 0..Low(Len(a), Len(b)) :
    /\ SubSeq(a, 1, n) = SubSeq(b, 1, n)
    /\ n < Low(Len(a), Len(b)) => a[n + 1] # b[n + 1]

IsNewline(u) == u \in {"lf", "crlf"}

\* splitLines: the lines, without their ends, which are not compared.
LinesOf(s) ==
  LET ends == {i \in DOMAIN s : IsNewline(s[i]) \/ i = Len(s)}
      Start(k) == IF k = 1 THEN 1 ELSE Nth(ends, k - 1) + 1
      Stop(k) == LET i == Nth(ends, k) IN IF IsNewline(s[i]) THEN i - 1 ELSE i
  IN  [k \in 1..Cardinality(ends) |-> SubSeq(s, Start(k), Stop(k))]

Tagged(tag, lines) == [i \in DOMAIN lines |-> <<tag, lines[i]>>]
Marker == <<"marker">>

\* The hunk of renderUnifiedDiff: from and to delimit it in a and in b.
Hunk(a, b, context) ==
  LET prefix == Common(a, b)
      suffix == Common(Reverse(Drop(a, prefix)), Reverse(Drop(b, prefix)))
      from == High(0, prefix - context)
      aTo == Low(Len(a), Len(a) - suffix + context)
      bTo == Low(Len(b), Len(b) - suffix + context)
  IN  [from |-> from, aTo |-> aTo, bTo |-> bTo,
       body |-> Tagged("kept", SubSeq(a, from + 1, prefix))
                  \o Tagged("removed", SubSeq(a, prefix + 1, Len(a) - suffix))
                  \o Tagged("added", SubSeq(b, prefix + 1, Len(b) - suffix))
                  \o Tagged("kept", SubSeq(b, Len(b) - suffix + 1, bTo))]

\* Mutant: context that is left out is not marked.
BoundedUnmarked(lines, complete, maxLines) ==
  IF Len(lines) <= maxLines THEN lines
  ELSE Append(SubSeq(lines, 1, maxLines - 1), Marker)

\* appendBounded, line by line: what does not fit gives way to the marker.
Bounded(lines, complete, maxLines) ==
  IF complete /\ Len(lines) <= maxLines THEN lines
  ELSE Append(SubSeq(lines, 1, Low(Len(lines), maxLines - 1)), Marker)

\* renderUnifiedDiff; the budget is in lines, a budget of bytes cuts likewise.
UnifiedDiff(before, after, context, maxLines) ==
  LET a == LinesOf(before)
      b == LinesOf(after)
      hunk == Hunk(a, b, context)
      head == <<<<"before">>, <<"after">>, <<"range", hunk.from, hunk.aTo, hunk.bTo>>>>
  IN  IF a = b THEN <<>>
      ELSE Bounded(head \o hunk.body,
                   hunk.from = 0 /\ hunk.aTo = Len(a) /\ hunk.bTo = Len(b),
                   High(1, maxLines))

\* renderPreview: the diffs of the files while there are lines left.
Preview(changes, context, maxLines) ==
  LET Show(shown, change) ==
        IF Len(shown) >= maxLines THEN shown
        ELSE shown \o UnifiedDiff(change[1], change[2], context,
                                  maxLines - Len(shown))
  IN  FoldLeft(Show, <<>>, changes)

-----------------------------------------------------------------------------
(* The reference: the lines of a text one obtains by carrying out a diff that *)
(* has no marker.                                                            *)

Of(diff, tags) ==
  LET body == Drop(diff, 3)
      taken == {i \in DOMAIN body : body[i][1] \in tags}
  IN  [k \in 1..Cardinality(taken) |-> body[Nth(taken, k)][2]]
Patched(lines, diff) ==
  IF diff = <<>> THEN lines
  ELSE SubSeq(lines, 1, diff[3][2]) \o Of(diff, {"kept", "added"})
         \o Drop(lines, diff[3][3])
=============================================================================
