----------------------------- MODULE MC_Discovery -----------------------------
(***************************************************************************)
(* A file the plan rewrites, an ignored one, a link to it, and the saved   *)
(* plan, which holds the text that is searched for.                        *)
(***************************************************************************)
EXTENDS Discovery

MCFile == {"main", "gen", "link", "plan"}
MCLink == [f \in MCFile |-> IF f = "link" THEN "gen" ELSE f]
MCDetected == [f \in MCFile |-> IF f = "gen" THEN "none" ELSE "ts"]

\* "old" has the match, "moved" has it and the structure elsewhere, "new" has
\* none, and "blob" is binary.
MCLanguage == {"ts", "js", "py"}
MCContent == {"old", "moved", "new", "blob"}
MCVersions == [f \in MCFile |-> CASE f = "main" -> MCContent
                                   [] f = "gen" -> {"old", "new"}
                                   [] OTHER -> {"old"}]
MCHolds == [c \in MCContent |->
  CASE c = "moved" -> {1, 2} [] c = "new" -> {} [] OTHER -> {1}]
MCLexical == [c \in MCContent |-> IF c = "new" THEN {} ELSE {1}]
MCStructural == [c \in MCContent |-> [l \in MCLanguage |->
  CASE c = "old" /\ l = "ts" -> {1}
    [] c = "moved" -> IF l = "ts" THEN {2} ELSE {1}
    [] OTHER -> {}]]

\* A clean worktree; a change that is staged, one that is not; the ignored
\* file and the link to it, there, and committed.
MCTree(S, c) == [f \in MCFile |-> IF f \notin S THEN "absent"
                                  ELSE IF f = "main" THEN c ELSE "old"]
MCOne(c) == MCTree({"main"}, c)
MCAll(c) == MCTree({"main", "gen", "link"}, c)
MCStarts ==
  {<<MCOne("old"), MCOne("old"), MCOne("old")>>,
   <<MCOne("old"), MCOne("moved"), MCAll("moved")>>,
   <<MCAll("moved"), MCAll("moved"), MCAll("moved")>>,
   <<MCAll("new"), MCAll("new"), MCAll("moved")>>}
MCCommand(repo, mode, clean, respect, langs, stray) ==
  [git |-> repo, mode |-> mode, clean |-> clean, respect |-> respect,
   langs |-> langs, stray |-> stray]
MCOptions ==
  {MCCommand(TRUE, "all", FALSE, FALSE, <<>>, {}),
   MCCommand(TRUE, "changed", FALSE, TRUE, <<"js">>, {"gen", "link"}),
   MCCommand(TRUE, "staged", FALSE, FALSE, <<>>, {"gen"}),
   MCCommand(TRUE, "tracked", TRUE, FALSE, <<"py", "js", "ts">>, {}),
   MCCommand(TRUE, "since", TRUE, TRUE, <<"ts">>, {}),
   MCCommand(FALSE, "all", FALSE, TRUE, <<"ts", "js">>, {"gen"}),
   MCCommand(FALSE, "staged", FALSE, TRUE, <<>>, {})}
=============================================================================
