----------------------------- MODULE MC_Planning -----------------------------
(* A crlf file of two lines and two operations, one of which insists on      *)
(* structural evidence; insertions, touching and nested ranges.              *)
EXTENDS Reporting
CONSTANTS o1, o2
MCOp == {o1, o2}
MCSnapshot == <<"a", "crlf", "b", "a", "crlf">>
MCContexts == {0, 1, 3}
MCBudgets == {1, 4, 100}
MCByteRange == {<<0, 1>>, <<0, 2>>, <<1, 1>>, <<1, 2>>, <<1, 3>>}
MCReplacement == {<<>>, <<"a", "lf">>}
MCRequire == [o \in Op |-> IF o = o1 THEN "eligible" ELSE "structural"]
MCOnUnparseable == [o \in Op |-> IF o = o1 THEN "allow" ELSE "skip"]
MCExpected == [o \in Op |-> IF o = o1 THEN 0..3 ELSE 0..1]

Texts(units, n) == UNION {[1..k -> units] : k \in 0..n}
\* disjointChangedBytes finds a shortest script, also where the search from
\* both ends has to split several times.
ASSUME ScriptIsShortest ==
  \A a, b \in Texts({"a", "b"}, 5) \cup Texts({"a", "b", "c"}, 3) :
    Shortest(Script(a, b), a, b)
\* A preview that stops because its lines are used up does not say so: the
\* second file is left out without a marker.
ASSUME PreviewStopsSilently ==
  LET change == <<<<"a", "lf">>, <<"b", "lf">>>>
      preview == Preview(<<change, change>>, 3, 5)
  IN  /\ preview = Preview(<<change>>, 3, 100)
      /\ \A i \in DOMAIN preview : preview[i] # Marker
=============================================================================
