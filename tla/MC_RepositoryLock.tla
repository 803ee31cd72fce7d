-------------------------- MODULE MC_RepositoryLock --------------------------
(* Four processes under three identifiers: p4 may be started under the        *)
(* identifier of p1 once p1 is gone.                                          *)
EXTENDS RepositoryLock
CONSTANTS p1, p2, p3, p4
MCProc == {p1, p2, p3, p4}
MCPid == {1, 2, 3}
MCPidOf == [p \in MCProc |-> CASE p = p1 -> 1 [] p = p2 -> 2
                               [] p = p3 -> 3 [] p = p4 -> 1]
MCTrio == {p1, p2, p3}
MCTrioPidOf == [p \in MCTrio |-> MCPidOf[p]]
=============================================================================
