--------------------------- MODULE MCDependencies ---------------------------
(***************************************************************************)
(* Three Kustomizations on one source: infra, apps that needs infra, and   *)
(* tests that needs both.  An edit of apps may close a cycle with tests,   *)
(* or open it; infra may depend on itself.                                 *)
(***************************************************************************)
EXTENDS Dependencies

MCChain ==
    [k \in Ks |-> CASE k = "infra" -> {} [] k = "apps" -> {"infra"}
                    [] k = "tests" -> {"infra", "apps"}]

MCCycle == [MCChain EXCEPT !["apps"] = {"infra", "tests"}]

MCSelf == [MCChain EXCEPT !["infra"] = {"infra"}]

MCGraphs == {MCChain, MCCycle, MCSelf}
MCSourceRef == [k \in Ks |-> "repo"]
MCFirst == [s \in Sources |-> "r1"]
MCExpr == {<<"apps", "tests">>}

\* One worker with an edit, one with a failure, and two without them.
MCBounds ==
    {[concurrent |-> 1, edits |-> 1, moves |-> 1, faults |-> 0],
     [concurrent |-> 1, edits |-> 0, moves |-> 1, faults |-> 1],
     [concurrent |-> 2, edits |-> 0, moves |-> 1, faults |-> 0]}

\* Only the edit.
MCOneEdit == {[concurrent |-> 1, edits |-> 1, moves |-> 0, faults |-> 0]}

\* vars is watched and used by apps and tests; keys is not watched.
MCConfigRefs ==
    [k \in Ks |-> CASE k = "infra" -> {"keys"} [] OTHER -> {"vars"}]
=============================================================================
