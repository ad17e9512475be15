---------------------------- MODULE MCReconciler ----------------------------
(***************************************************************************)
(* Small instances of Reconciler for TLC: manifests in which a revision    *)
(* drops an object, and the specs that each run lets the user write.       *)
(***************************************************************************)
EXTENDS Reconciler

\* r1 holds a and b; r2 drops a; r3, where it exists, brings a back.  The
\* second path holds only a.
MCManifests ==
    [r \in Revisions |-> [p \in Paths |->
        CASE p = "p2" -> {"a"}
          [] r = "r2" -> Objects \ {"a"}
          [] OTHER -> Objects]]

Git == [kind |-> "GitRepository", namespace |-> "apps", name |-> "repo"]
Foreign == [kind |-> "GitRepository", namespace |-> "infra", name |-> "repo"]

MCOneSource == {Git}
MCTwoSources == {Git, Foreign}

\* A source that appears, gets an artifact and only moves forward.
MCForward ==
    {<<"missing", "empty">>, <<"empty", "r1">>, <<"r1", "r2">>, <<"r1", "empty">>,
     <<"empty", "r2">>, <<"r1", "missing">>} \cap (ArtifactStates \X ArtifactStates)

\* A source that may also go back, as a reverted tag or branch does.
MCRevert ==
    MCForward \cup {<<"r2", "r1">>}

\* A source that drops an object and brings it back under a third revision.
MCThirdRevision ==
    {<<"r1", "r2">>, <<"r2", "r3">>}

Base ==
    [sourceRef |-> Git, path |-> "p1", prune |-> TRUE, deletionPolicy |-> "",
     suspend |-> FALSE, wait |-> FALSE, healthChecks |-> {},
     dependsOn |-> FALSE, exprs |-> "valid"]

Waiting == [Base EXCEPT !.wait = TRUE]
Checked == [Base EXCEPT !.healthChecks = {"b"}]
Moved == [Base EXCEPT !.path = "p2"]
Suspended == [Base EXCEPT !.suspend = TRUE]
Dependent == [Waiting EXCEPT !.dependsOn = TRUE]

\* The specs of the run about failures: wait for everything, or for b, move to
\* the other path, stop pruning, each with another deletion policy; the last one
\* can only be finalized.
MCFailing ==
    {Waiting, [Moved EXCEPT !.deletionPolicy = "Delete"],
     [Checked EXCEPT !.prune = FALSE, !.deletionPolicy = "WaitForTermination"],
     [Base EXCEPT !.deletionPolicy = "Orphan", !.exprs = "badHealthExpr"]}

\* Specs that stall: denied sources, broken expressions; a suspended one, and a
\* good one.
MCStalling ==
    {Dependent, Suspended, [Base EXCEPT !.sourceRef = Foreign],
     [Base EXCEPT !.exprs = "badHealthExpr"],
     [Dependent EXCEPT !.exprs = "badReadyExpr"]}

MCSuspending == {Base, Suspended, [Suspended EXCEPT !.path = "p2"], Moved}
MCPlain == {Base}
MCLive == {[Waiting EXCEPT !.deletionPolicy = "WaitForTermination"]}
=============================================================================
