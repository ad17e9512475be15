----------------------------- MODULE Reconciler -----------------------------
(***************************************************************************)
(* One Kustomization and the worker that reconciles it: the state machine  *)
(* of KustomizationReconciler in internal/controller/.  The model keeps    *)
(* every status write, early return and requeue of Reconcile, reconcile,   *)
(* checkHealth, prune, finalize and finalizeStatus, and interleaves them   *)
(* with edits of the spec, moves of the source, deletion, drift, failed    *)
(* API calls and crashes of the controller.                                *)
(*                                                                         *)
(* A managed object is "absent", "terminating" (its DELETE was accepted),  *)
(* or live, in which case the model keeps the revision its content was     *)
(* last applied from.                                                      *)
(***************************************************************************)
EXTENDS Integers, FiniteSets

CONSTANTS
    Objects,          \* identities of the managed Kubernetes objects
    Protected,        \* objects labelled kustomize.toolkit.fluxcd.io/prune: disabled
    Ignored,          \* objects labelled reconcile: disabled or ssa: Ignore
    Revisions,        \* artifact revisions
    Paths,            \* values of .spec.path
    Manifests,        \* [Revisions -> [Paths -> SUBSET Objects]]: what a build yields
    SourceRefs,       \* values of .spec.sourceRef, namespace defaulted
    Namespace,        \* namespace of the Kustomization
    Specs,            \* specs a user may write
    NoCrossNamespaceRefs, AllowExternalArtifact, CancelHealthCheckOnRequeue,
    Faults,           \* kinds of fault that may happen
    MaxFaults,        \* bound on their number
    MaxGeneration,    \* bound on spec edits
    MaxRequests,      \* bound on reconcile.fluxcd.io/requestedAt values
    SourceSteps,      \* pairs <<from, to>>: how the artifact of a source may change
    MaxSourceMoves    \* bound on source updates

VARIABLES
    ks,        \* the Kustomization as the API server stores it
    objs,      \* the managed objects as the API server stores them
    sources,   \* the artifact of every source
    account,   \* does the account to impersonate exist?
    queue,     \* the workqueue's entry: "none", "timer" or "event"
    timer,     \* is a delayed requeue pending?
    pc,        \* what the worker does next
    obj,       \* the worker's in-memory copy of the Kustomization
    rev,       \* revision of the artifact the worker resolved
    todo,      \* objects the current apply or delete call has left
    failed,    \* objects whose DELETE was refused in the current call
    result,    \* what Reconcile is about to return
    faults,    \* faults left
    moves      \* source updates left

ApiVars == <<ks, objs, sources, account>>
QueueVars == <<queue, timer>>
WorkerVars == <<pc, obj, rev, todo, failed, result>>
vars == <<ks, objs, sources, account, queue, timer, pc, obj, rev, todo,
          failed, result, faults, moves>>

NoRevision == "none"

\* A source that does not exist, one without an artifact, one with an artifact.
ArtifactStates == {"missing", "empty"} \cup Revisions

Policies == {"", "MirrorPrune", "Delete", "WaitForTermination", "Orphan"}

KustomizationSpec ==
    [sourceRef : SourceRefs, path : Paths, prune : BOOLEAN,
     deletionPolicy : Policies, suspend : BOOLEAN, wait : BOOLEAN,
     healthChecks : SUBSET Objects, dependsOn : BOOLEAN,
     exprs : {"valid", "badHealthExpr", "badReadyExpr"}]

FaultKinds == {"api", "dependency", "patch", "torn", "fetch", "build", "apply",
               "prune", "health", "crash", "drift", "account", "termination"}

ASSUME ObjectsAssumption ==
    /\ Protected \subseteq Objects
    /\ Ignored \subseteq Objects
    /\ Revisions \cap {"none", "absent", "terminating", "missing", "empty"} = {}
    /\ Manifests \in [Revisions -> [Paths -> SUBSET Objects]]
    /\ SourceSteps \subseteq ArtifactStates \X ArtifactStates

ASSUME SpecsAssumption ==
    /\ SourceRefs \subseteq [kind : STRING, namespace : STRING, name : STRING]
    /\ Specs \subseteq KustomizationSpec
    /\ Specs # {}

ASSUME BoundsAssumption ==
    /\ Faults \subseteq FaultKinds
    /\ {NoCrossNamespaceRefs, AllowExternalArtifact,
        CancelHealthCheckOnRequeue} \subseteq BOOLEAN
    /\ MaxFaults \in Nat
    /\ MaxGeneration \in Nat \ {0}
    /\ MaxRequests \in Nat
    /\ MaxSourceMoves \in Nat

-----------------------------------------------------------------------------
(* The Kustomization object.                                               *)

\* The entry .status.history.Upsert puts first: the status of the latest
\* attempt that reached the apply, and its revision.
HistoryEntry ==
    [revision : Revisions \cup {NoRevision},
     status : {"none", "ReconciliationSucceeded", "ReconciliationFailed",
               "PruneFailed", "HealthCheckFailed"}]

KustomizationStatus ==
    [inventory : SUBSET Objects,
     ready : {"none", "True", "False", "Unknown"},
     healthy : {"none", "True", "False", "Unknown"},
     reconciling : {"none", "Progressing", "ProgressingWithRetry"},
     stalled : BOOLEAN,
     observedGeneration : 0 .. MaxGeneration + 1,
     lastAppliedRevision : Revisions \cup {NoRevision},
     lastAttemptedRevision : Revisions \cup {NoRevision},
     lastHandledReconcileAt : 0 .. MaxRequests,
     history : HistoryEntry]

Kustomization ==
    [exists : BOOLEAN, deleting : BOOLEAN, finalizer : BOOLEAN,
     generation : 1 .. MaxGeneration + 1, requestedAt : 0 .. MaxRequests,
     spec : Specs, status : KustomizationStatus]

EmptyStatus ==
    [inventory |-> {}, ready |-> "none", healthy |-> "none",
     reconciling |-> "none", stalled |-> FALSE, observedGeneration |-> 0,
     lastAppliedRevision |-> NoRevision, lastAttemptedRevision |-> NoRevision,
     lastHandledReconcileAt |-> 0,
     history |-> [revision |-> NoRevision, status |-> "none"]]

\* A Kustomization a user has just created.
Created(spec) ==
    [exists |-> TRUE, deleting |-> FALSE, finalizer |-> FALSE,
     generation |-> 1, requestedAt |-> 0, spec |-> spec,
     status |-> EmptyStatus]

\* The worker holds no object while it is idle.
NoObject == Created(CHOOSE s \in Specs : TRUE)

Live == {o \in Objects : objs[o] \in Revisions}

\* Objects that DeleteAll skips: their labels match the exclusions.
Exempt == Protected \cup Ignored

-----------------------------------------------------------------------------
(* Conditions, faults and the status patch.                                *)

MarkReady(status, value) == [status EXCEPT !.ready = value]

\* Reconciling and Stalled are exclusive: setting one removes the other.
MarkReconciling(status) ==
    [status EXCEPT !.reconciling = "Progressing", !.stalled = FALSE]

MarkStalled(status) ==
    [status EXCEPT !.stalled = TRUE, !.reconciling = "none"]

Upsert(status, outcome) ==
    [status EXCEPT !.history = [revision |-> rev, status |-> outcome]]

\* An attempt that fails once the apply has begun.
Fail(status, outcome) == MarkReady(Upsert(status, outcome), "False")

Fault(kind) ==
    /\ kind \in Faults
    /\ faults > 0
    /\ faults' = faults - 1

\* What a patch of the finalizers, the conditions and the status leaves in the
\* API server.  The spec, the generation and the annotations belong to the
\* user; an object under deletion goes away with its last finalizer.
Persist(k) ==
    [ks EXCEPT !.finalizer = k.finalizer, !.status = k.status,
               !.exists = ~ks.deleting \/ k.finalizer]

PatchLands(k) ==
    /\ ks.exists
    /\ ks' = Persist(k)
    /\ UNCHANGED faults

\* The patcher sends the conditions, the metadata and the rest of the status in
\* three requests, of which any may be lost.
WithConditions(status, of) ==
    [status EXCEPT !.ready = of.ready, !.healthy = of.healthy,
                   !.reconciling = of.reconciling, !.stalled = of.stalled]

Torn(k) ==
    {[ks EXCEPT !.finalizer = f, !.status = s, !.exists = ~ks.deleting \/ f] :
        f \in {ks.finalizer, k.finalizer},
        s \in {ks.status, k.status, WithConditions(ks.status, k.status),
               WithConditions(k.status, ks.status)}}

\* The patch returns an error: it was refused, only its answer was lost, or some
\* of its requests failed.
PatchErrs(k) ==
    /\ ks.exists
    /\ \/ Fault("patch") /\ ks' \in {ks, Persist(k)}
       \/ Fault("torn") /\ ks' \in Torn(k)

\* Leave Reconcile with the given status; the deferred function runs next.
Return(status, res) ==
    /\ obj' = [obj EXCEPT !.status = status]
    /\ result' = res
    /\ pc' = "defer"
    /\ todo' = {}
    /\ failed' = {}
    /\ UNCHANGED rev

\* Report progress and go on; when the patch fails reconcile returns an error,
\* and Reconcile retries at the retry interval.
Progress(status, next) ==
    /\ PatchLands([obj EXCEPT !.status = status])
    /\ obj' = [obj EXCEPT !.status = status]
    /\ pc' = next
    /\ UNCHANGED <<rev, failed, result>>

ProgressFails(status) ==
    /\ PatchErrs([obj EXCEPT !.status = status])
    /\ Return(status, "requeue")

-----------------------------------------------------------------------------
(* Reconcile: admission, source, dependencies.                             *)

\* Get: the worker takes the key off the queue and reads the object.
Dequeue ==
    /\ pc = "idle"
    /\ queue # "none"
    /\ queue' = "none"
    /\ pc' = IF ks.exists THEN "read" ELSE "idle"
    /\ obj' = IF ks.exists THEN ks ELSE NoObject
    /\ UNCHANGED <<ApiVars, timer, rev, todo, failed, result, faults, moves>>

DeclareFinalizerNoRequeue ==   \* mutant: relies on a watch event that never comes
    /\ pc = "read"
    /\ ~obj.deleting
    /\ ~obj.finalizer
    /\ obj' = [obj EXCEPT !.finalizer = TRUE]
    /\ result' = "done"
    /\ pc' = "defer"
    /\ UNCHANGED <<ApiVars, QueueVars, rev, todo, failed, faults, moves>>

\* The first reconciliation adds the finalizer and requeues.
DeclareFinalizer ==
    /\ pc = "read"
    /\ ~obj.deleting
    /\ ~obj.finalizer
    /\ obj' = [obj EXCEPT !.finalizer = TRUE]
    /\ result' = "requeue"
    /\ pc' = "defer"
    /\ UNCHANGED <<ApiVars, QueueVars, rev, todo, failed, faults, moves>>

Admitted == pc = "read" /\ ~obj.deleting /\ obj.finalizer

SkipSuspended ==
    /\ Admitted
    /\ obj.spec.suspend
    /\ Return(obj.status, "done")
    /\ UNCHANGED <<ApiVars, QueueVars, faults, moves>>

\* An invalid CEL expression is terminal: stalled, observed, not retried.
Stall(status) ==
    [MarkStalled(MarkReady(status, "False"))
        EXCEPT !.observedGeneration = obj.generation]

RejectHealthExprs ==
    /\ Admitted
    /\ ~obj.spec.suspend
    /\ obj.spec.exprs = "badHealthExpr"
    /\ Return(Stall(obj.status), "terminal")
    /\ UNCHANGED <<ApiVars, QueueVars, faults, moves>>

AccessDenied(ref) ==
    \/ NoCrossNamespaceRefs /\ ref.namespace # Namespace
    \/ ref.kind = "ExternalArtifact" /\ ~AllowExternalArtifact

Resolving ==
    /\ Admitted
    /\ ~obj.spec.suspend
    /\ obj.spec.exprs # "badHealthExpr"

DenySource ==
    /\ Resolving
    /\ AccessDenied(obj.spec.sourceRef)
    /\ Return(MarkStalled(MarkReady(obj.status, "False")), "terminal")
    /\ UNCHANGED <<ApiVars, QueueVars, faults, moves>>

\* Neither found nor "not found": retried with backoff.
SourceError ==
    /\ Resolving
    /\ ~AccessDenied(obj.spec.sourceRef)
    /\ Fault("api")
    /\ Return(MarkReady(obj.status, "False"), "error")
    /\ UNCHANGED <<ApiVars, QueueVars, moves>>

\* The source does not exist, or has no artifact yet.
SourceNotReady ==
    /\ Resolving
    /\ ~AccessDenied(obj.spec.sourceRef)
    /\ sources[obj.spec.sourceRef] \in {"missing", "empty"}
    /\ Return(MarkReady(obj.status, "False"), "requeue")
    /\ UNCHANGED <<ApiVars, QueueVars, faults, moves>>

ResolveSourceUnchecked ==   \* mutant: no check for a missing artifact
    /\ Resolving
    /\ ~AccessDenied(obj.spec.sourceRef)
    /\ rev' = sources[obj.spec.sourceRef]
    /\ pc' = "deps"
    /\ UNCHANGED <<ApiVars, QueueVars, obj, todo, failed, result, faults, moves>>

ResolveSource ==
    /\ Resolving
    /\ ~AccessDenied(obj.spec.sourceRef)
    /\ sources[obj.spec.sourceRef] \in Revisions
    /\ rev' = sources[obj.spec.sourceRef]
    /\ pc' = "deps"
    /\ UNCHANGED <<ApiVars, QueueVars, obj, todo, failed, result, faults, moves>>

RejectReadyExpr ==
    /\ pc = "deps"
    /\ obj.spec.dependsOn
    /\ obj.spec.exprs = "badReadyExpr"
    /\ Return(Stall(obj.status), "terminal")
    /\ UNCHANGED <<ApiVars, QueueVars, faults, moves>>

DependencyNotReady ==
    /\ pc = "deps"
    /\ obj.spec.dependsOn
    /\ Fault("dependency")
    /\ Return(MarkReady(obj.status, "False"), "requeue")
    /\ UNCHANGED <<ApiVars, QueueVars, moves>>

\* The dependencies, if any, are ready: reconcile reports progress.
InProgress == MarkReconciling(MarkReady(obj.status, "Unknown"))

StartProgress ==
    /\ pc = "deps"
    /\ obj.spec.dependsOn => obj.spec.exprs # "badReadyExpr"
    /\ \/ Progress(InProgress, "fetch") /\ UNCHANGED todo
       \/ ProgressFails(InProgress)
    /\ UNCHANGED <<objs, sources, account, QueueVars, moves>>

-----------------------------------------------------------------------------
(* reconcile: fetch, build, apply, prune, health checks.                   *)

\* The download, the unpacking or the check of .spec.path fails.
FetchFails ==
    /\ pc = "fetch"
    /\ Fault("fetch")
    /\ Return(MarkReady(obj.status, "False"), "requeue")
    /\ UNCHANGED <<ApiVars, QueueVars, moves>>

Attempted ==
    MarkReconciling([obj.status EXCEPT !.lastAttemptedRevision = rev])

FetchArtifact ==
    /\ pc = "fetch"
    /\ \/ Progress(Attempted, "build") /\ UNCHANGED todo
       \/ ProgressFails(Attempted)
    /\ UNCHANGED <<objs, sources, account, QueueVars, moves>>

\* The client, the generator, the decryption or the kustomize build fails.
BuildFails ==
    /\ pc = "build"
    /\ Fault("build")
    /\ Return(MarkReady(obj.status, "False"), "requeue")
    /\ UNCHANGED <<ApiVars, QueueVars, moves>>

Built == Manifests[rev][obj.spec.path]

Build ==
    /\ pc = "build"
    /\ \/ Progress(MarkReconciling(obj.status), "apply") /\ todo' = Built
       \/ ProgressFails(MarkReconciling(obj.status))
    /\ UNCHANGED <<objs, sources, account, QueueVars, moves>>

ApplyOneIfAbsent(o) ==   \* mutant: what exists is taken for applied
    /\ pc = "apply"
    /\ o \in todo
    /\ todo' = todo \ {o}
    /\ objs' = IF objs[o] # "absent" THEN objs ELSE [objs EXCEPT ![o] = rev]
    /\ UNCHANGED <<ks, sources, account, QueueVars, pc, obj, rev, failed,
                   result, faults, moves>>

\* Server-side apply of one object.  An excluded object is skipped; applying
\* to an object under deletion does not stop its termination.
ApplyOne(o) ==
    /\ pc = "apply"
    /\ o \in todo
    /\ todo' = todo \ {o}
    /\ objs' = IF o \in Ignored \/ objs[o] = "terminating"
               THEN objs ELSE [objs EXCEPT ![o] = rev]
    /\ UNCHANGED <<ks, sources, account, QueueVars, pc, obj, rev, failed,
                   result, faults, moves>>

\* The apply fails on some object: the ones applied before it stay applied,
\* and no change set is returned, so the inventory is not touched.
ApplyFails ==
    /\ pc = "apply"
    /\ todo # {}
    /\ Fault("apply")
    /\ Return(Fail(obj.status, "ReconciliationFailed"), "requeue")
    /\ UNCHANGED <<ApiVars, QueueVars, moves>>

DiffSwapped(inventory, target) == target \ inventory   \* mutant: swapped order

\* Entries of an inventory that the target does not have.
Diff(inventory, target) == inventory \ target

MergeNothing(inventory, survivors) == inventory   \* mutant: survivors forgotten

\* The inventory with the survivors of a failed prune put back.
Merge(inventory, survivors) == inventory \cup survivors

\* Everything is applied: the new inventory replaces the one in memory, and
\* the stale objects go to garbage collection when pruning is enabled.
ApplyDone ==
    /\ pc = "apply"
    /\ todo = {}
    /\ obj' = [obj EXCEPT !.status.inventory = Built]
    /\ todo' = IF obj.spec.prune THEN Diff(obj.status.inventory, Built) ELSE {}
    /\ pc' = "prune"
    /\ UNCHANGED <<ApiVars, QueueVars, rev, failed, result, faults, moves>>

\* DELETE of one object, by garbage collection or by the finalizer.
DeleteOne(o) ==
    /\ pc \in {"prune", "delete"}
    /\ o \in todo
    /\ todo' = todo \ {o}
    /\ objs' = IF o \in Exempt \/ o \notin Live
               THEN objs ELSE [objs EXCEPT ![o] = "terminating"]
    /\ UNCHANGED <<ks, sources, account, QueueVars, pc, obj, rev, failed,
                   result, faults, moves>>

\* The API server refuses; DeleteAll goes on with the other objects.
DeleteRefused(o) ==
    /\ pc \in {"prune", "delete"}
    /\ o \in todo
    /\ Fault("prune")
    /\ todo' = todo \ {o}
    /\ failed' = failed \cup {o}
    /\ UNCHANGED <<ApiVars, QueueVars, pc, obj, rev, result, moves>>

\* Refused objects survive in the inventory, so that the next attempt retries.
PruneFails ==
    /\ pc = "prune"
    /\ todo = {}
    /\ failed # {}
    /\ Return([Fail(obj.status, "PruneFailed")
                  EXCEPT !.inventory = Merge(obj.status.inventory, failed)],
              "requeue")
    /\ UNCHANGED <<ApiVars, QueueVars, faults, moves>>

\* The objects whose health is checked: with .spec.wait the applied ones,
\* without the skipped ones, else those that .spec.healthChecks lists.
ToCheck == IF obj.spec.wait THEN Built \ Ignored ELSE obj.spec.healthChecks

Succeed(status) ==
    [MarkReady(Upsert(status, "ReconciliationSucceeded"), "True")
        EXCEPT !.lastAppliedRevision = rev]

Pruned == pc = "prune" /\ todo = {} /\ failed = {}

SkipHealthCheck ==
    /\ Pruned
    /\ ToCheck = {}
    /\ Return(Succeed([obj.status EXCEPT !.healthy = "none"]), "requeue")
    /\ UNCHANGED <<ApiVars, QueueVars, faults, moves>>

Checking == MarkReconciling([obj.status EXCEPT !.healthy = "Unknown"])

StartHealthCheck ==
    /\ Pruned
    /\ ToCheck # {}
    /\ \/ Progress(Checking, "wait") /\ UNCHANGED todo
       \/ /\ PatchErrs([obj EXCEPT !.status = Checking])
          /\ Return(Fail(Checking, "HealthCheckFailed"), "requeue")
    /\ UNCHANGED <<objs, sources, account, QueueVars, moves>>

Healthy == [obj.status EXCEPT !.healthy = "True"]

HealthCheckPassesForGood ==   \* mutant: no requeue at the interval
    /\ pc = "wait"
    /\ ToCheck \subseteq Live
    /\ \/ /\ PatchLands([obj EXCEPT !.status = Healthy])
          /\ Return(Succeed(Healthy), "done")
       \/ /\ PatchErrs([obj EXCEPT !.status = Healthy])
          /\ Return(Fail(Healthy, "HealthCheckFailed"), "requeue")
    /\ UNCHANGED <<objs, sources, account, QueueVars, moves>>

HealthCheckPasses ==
    /\ pc = "wait"
    /\ ToCheck \subseteq Live
    /\ \/ /\ PatchLands([obj EXCEPT !.status = Healthy])
          /\ Return(Succeed(Healthy), "requeue")
       \/ /\ PatchErrs([obj EXCEPT !.status = Healthy])
          /\ Return(Fail(Healthy, "HealthCheckFailed"), "requeue")
    /\ UNCHANGED <<objs, sources, account, QueueVars, moves>>

\* Is there an event that cancels the health check?
Enqueued == CancelHealthCheckOnRequeue /\ queue = "event"

\* The wait times out: an object is unhealthy, terminating or gone.
HealthCheckFails ==
    /\ pc = "wait"
    /\ ~Enqueued
    /\ \/ Fault("health")
       \/ ~(ToCheck \subseteq Live) /\ UNCHANGED faults
    /\ Return(Fail([obj.status EXCEPT !.healthy = "False"],
                   "HealthCheckFailed"), "requeue")
    /\ UNCHANGED <<ApiVars, QueueVars, moves>>

\* A watch event queued the object while the health check was running.
HealthCheckCanceled ==
    /\ pc = "wait"
    /\ Enqueued
    /\ Return(MarkReady(obj.status, "False"), "requeue")
    /\ UNCHANGED <<ApiVars, QueueVars, faults, moves>>

-----------------------------------------------------------------------------
(* finalize.                                                               *)

GetDeletionPolicy(spec) ==
    IF spec.deletionPolicy = "" THEN "MirrorPrune" ELSE spec.deletionPolicy

FinalizerShouldDeleteResources(k) ==
    /\ ~k.spec.suspend
    /\ k.status.inventory # {}
    /\ \/ GetDeletionPolicy(k.spec) = "MirrorPrune" /\ k.spec.prune
       \/ GetDeletionPolicy(k.spec) \in {"Delete", "WaitForTermination"}

RemoveFinalizer ==
    /\ obj' = [obj EXCEPT !.finalizer = FALSE]
    /\ result' = "done"
    /\ pc' = "defer"
    /\ UNCHANGED <<rev, todo, failed>>

\* Nothing to delete, or the account to impersonate is gone.
FinalizeWithoutDelete ==
    /\ pc = "read"
    /\ obj.deleting
    /\ ~FinalizerShouldDeleteResources(obj) \/ ~account
    /\ RemoveFinalizer
    /\ UNCHANGED <<ApiVars, QueueVars, faults, moves>>

Finalizing ==
    pc = "read" /\ obj.deleting /\ FinalizerShouldDeleteResources(obj) /\ account

FinalizeError ==
    /\ Finalizing
    /\ Fault("api")
    /\ Return(obj.status, "error")
    /\ UNCHANGED <<ApiVars, QueueVars, moves>>

StartFinalize ==
    /\ Finalizing
    /\ todo' = obj.status.inventory
    /\ pc' = "delete"
    /\ UNCHANGED <<ApiVars, QueueVars, obj, rev, failed, result, faults, moves>>

DeleteFailsQuietly ==   \* mutant: the error is swallowed
    /\ pc = "delete"
    /\ todo = {}
    /\ failed # {}
    /\ Return(obj.status, "done")
    /\ UNCHANGED <<ApiVars, QueueVars, faults, moves>>

DeleteFails ==
    /\ pc = "delete"
    /\ todo = {}
    /\ failed # {}
    /\ Return(obj.status, "error")
    /\ UNCHANGED <<ApiVars, QueueVars, faults, moves>>

DeletedOrRefused == pc = "delete" /\ todo = {}   \* mutant: refusals ignored

Deleted == pc = "delete" /\ todo = {} /\ failed = {}

FinishDelete ==
    /\ Deleted
    /\ GetDeletionPolicy(obj.spec) # "WaitForTermination"
    /\ RemoveFinalizer
    /\ UNCHANGED <<ApiVars, QueueVars, faults, moves>>

AwaitTermination ==
    /\ Deleted
    /\ GetDeletionPolicy(obj.spec) = "WaitForTermination"
    /\ pc' = "terminate"
    /\ UNCHANGED <<ApiVars, QueueVars, obj, rev, todo, failed, result, faults, moves>>

\* The deleted objects are gone, or the wait timed out and is only logged.
StopWaiting ==
    /\ pc = "terminate"
    /\ \/ /\ \A o \in obj.status.inventory \ Exempt : objs[o] = "absent"
          /\ UNCHANGED faults
       \/ Fault("termination")
    /\ RemoveFinalizer
    /\ UNCHANGED <<ApiVars, QueueVars, moves>>

-----------------------------------------------------------------------------
(* The deferred function of Reconcile, and the requeue of the runtime.     *)

FinalizeStatusLatest(k) ==   \* mutant: claims the latest generation, not the read one
    IF k.status.ready = "True"
    THEN [k.status EXCEPT !.reconciling = "none",
                          !.observedGeneration = ks.generation]
    ELSE k.status

FinalizeStatusUnhandled(k) ==   \* mutant: the request is not acknowledged
    IF k.status.ready = "True"
    THEN [k.status EXCEPT !.reconciling = "none",
                          !.observedGeneration = k.generation]
    ELSE k.status

FinalizeStatus(k) ==
    LET handled == [k.status EXCEPT !.lastHandledReconcileAt =
                        IF k.requestedAt > 0 THEN k.requestedAt ELSE @]
    IN  CASE handled.ready = "True" ->
                [handled EXCEPT !.reconciling = "none",
                                !.observedGeneration = k.generation]
          [] handled.ready = "False" /\ handled.reconciling # "none" ->
                [handled EXCEPT !.reconciling = "ProgressingWithRetry"]
          [] OTHER -> handled

Reported == [obj EXCEPT !.status = FinalizeStatus(obj)]

Release ==
    /\ pc' = "idle"
    /\ obj' = NoObject
    /\ rev' = NoRevision
    /\ todo' = {}
    /\ failed' = {}
    /\ result' = "done"

\* A result with Requeue or RequeueAfter, or an error, queues the key again.
Report ==
    /\ pc = "defer"
    /\ PatchLands(Reported)
    /\ timer' = (timer \/ result \in {"requeue", "error"})
    /\ Release
    /\ UNCHANGED <<objs, sources, account, queue, moves>>

ReportFailsQuietly ==   \* mutant: the error of the patch is only logged
    /\ pc = "defer"
    /\ \/ PatchErrs(Reported)
       \/ ~ks.exists /\ UNCHANGED <<ks, faults>>
    /\ timer' = (timer \/ result \in {"requeue", "error"})
    /\ Release
    /\ UNCHANGED <<objs, sources, account, queue, moves>>

\* The error of the patch joins the returned one.  The aggregate is retried
\* unless it holds a terminal error.
ReportFails ==
    /\ pc = "defer"
    /\ \/ PatchErrs(Reported)
       \/ ~ks.exists /\ UNCHANGED <<ks, faults>>
    /\ timer' = (timer \/ result # "terminal")
    /\ Release
    /\ UNCHANGED <<objs, sources, account, queue, moves>>

-----------------------------------------------------------------------------
(* The runtime and the environment.                                        *)

TimerFires ==
    /\ timer
    /\ timer' = FALSE
    /\ queue' = IF queue = "none" THEN "timer" ELSE queue
    /\ UNCHANGED <<ApiVars, WorkerVars, faults, moves>>

\* The controller dies.  The one that takes over lists every Kustomization.
Crash ==
    /\ Fault("crash")
    /\ Release
    /\ timer' = FALSE
    /\ queue' = IF ks.exists THEN "event" ELSE "none"
    /\ UNCHANGED <<ApiVars, moves>>

\* A user changes the spec.
EditSpec(spec) ==
    /\ ks.exists
    /\ ks.generation < MaxGeneration
    /\ spec # ks.spec
    /\ ks' = [ks EXCEPT !.spec = spec, !.generation = @ + 1]
    /\ queue' = "event"
    /\ UNCHANGED <<objs, sources, account, timer, WorkerVars, faults, moves>>

\* A user annotates the object with reconcile.fluxcd.io/requestedAt.
RequestReconcile ==
    /\ ks.exists
    /\ ks.requestedAt < MaxRequests
    /\ ks' = [ks EXCEPT !.requestedAt = @ + 1]
    /\ queue' = "event"
    /\ UNCHANGED <<objs, sources, account, timer, WorkerVars, faults, moves>>

\* A user deletes the object: it stays, with a new generation, while it has a
\* finalizer.
Delete ==
    /\ ks.exists
    /\ ~ks.deleting
    /\ ks' = IF ks.finalizer
             THEN [ks EXCEPT !.deleting = TRUE, !.generation = @ + 1]
             ELSE [ks EXCEPT !.exists = FALSE]
    /\ queue' = "event"
    /\ UNCHANGED <<objs, sources, account, timer, WorkerVars, faults, moves>>

\* The artifact a watch event carries, if its predicate lets it pass.  The
\* event of a deleted source carries the last known artifact.
EventArtifact(old, new) ==
    CASE new = "missing" -> old
      [] old = "missing" -> new
      [] OTHER -> IF new # old THEN new ELSE "empty"

RequestsUnlessBusy(ref, artifact) ==   \* mutant: revision not compared
    /\ ks.exists
    /\ ks.spec.sourceRef = ref
    /\ artifact \in Revisions
    /\ ks.status.ready # "True"
    /\ ks.status.reconciling = "none"

\* Does the change of a source queue the Kustomization?
RequestsForRevisionChange(ref, artifact) ==
    /\ ks.exists
    /\ ks.spec.sourceRef = ref
    /\ ref.kind = "ExternalArtifact" => AllowExternalArtifact
    /\ artifact \in Revisions
    /\ ~ /\ ks.status.ready = "True" \/ ks.status.reconciling # "none"
         /\ ks.status.lastAttemptedRevision = artifact

MoveSource(ref, new) ==
    /\ moves > 0
    /\ <<sources[ref], new>> \in SourceSteps
    /\ sources' = [sources EXCEPT ![ref] = new]
    /\ moves' = moves - 1
    /\ queue' = IF RequestsForRevisionChange(ref, EventArtifact(sources[ref], new))
                THEN "event" ELSE queue
    /\ UNCHANGED <<ks, objs, account, timer, WorkerVars, faults>>

\* Someone else removes a managed object.
Drift(o) ==
    /\ o \in Live
    /\ Fault("drift")
    /\ objs' = [objs EXCEPT ![o] = "absent"]
    /\ UNCHANGED <<ks, sources, account, QueueVars, WorkerVars, moves>>

\* The finalizers of a deleted object are done.
Terminated(o) ==
    /\ objs[o] = "terminating"
    /\ objs' = [objs EXCEPT ![o] = "absent"]
    /\ UNCHANGED <<ks, sources, account, QueueVars, WorkerVars, faults, moves>>

\* The account to impersonate is deleted.
LoseAccount ==
    /\ account
    /\ Fault("account")
    /\ account' = FALSE
    /\ UNCHANGED <<ks, objs, sources, QueueVars, WorkerVars, moves>>

-----------------------------------------------------------------------------

Init ==
    /\ \E s \in Specs : ks = Created(s)
    /\ objs = [o \in Objects |-> "absent"]
    /\ sources \in [SourceRefs -> ArtifactStates]
    /\ account = TRUE
    /\ queue = "event"
    /\ timer = FALSE
    /\ pc = "idle"
    /\ obj = NoObject
    /\ rev = NoRevision
    /\ todo = {}
    /\ failed = {}
    /\ result = "done"
    /\ faults = MaxFaults
    /\ moves = MaxSourceMoves

Reconcile ==
    \/ Dequeue \/ DeclareFinalizer \/ SkipSuspended \/ RejectHealthExprs
    \/ DenySource \/ SourceError \/ SourceNotReady \/ ResolveSource
    \/ RejectReadyExpr \/ DependencyNotReady \/ StartProgress
    \/ FetchFails \/ FetchArtifact \/ BuildFails \/ Build
    \/ ApplyFails \/ ApplyDone \/ PruneFails
    \/ \E o \in Objects : ApplyOne(o) \/ DeleteOne(o) \/ DeleteRefused(o)
    \/ SkipHealthCheck \/ StartHealthCheck
    \/ HealthCheckPasses \/ HealthCheckFails \/ HealthCheckCanceled
    \/ Report \/ ReportFails

Finalize ==
    \/ FinalizeWithoutDelete \/ FinalizeError \/ StartFinalize \/ DeleteFails
    \/ FinishDelete \/ AwaitTermination \/ StopWaiting

Worker == Reconcile \/ Finalize

Environment ==
    \/ TimerFires \/ Crash \/ RequestReconcile \/ Delete \/ LoseAccount
    \/ \E s \in Specs : EditSpec(s)
    \/ \E ref \in SourceRefs, new \in ArtifactStates : MoveSource(ref, new)
    \/ \E o \in Objects : Drift(o) \/ Terminated(o)

Next == Worker \/ Environment

Spec == Init /\ [][Next]_vars

\* The worker goroutine keeps running, a pending requeue fires, and the
\* garbage collector of the cluster ends the termination of an object.
FairSpec ==
    /\ Spec
    /\ WF_vars(Worker)
    /\ WF_vars(TimerFires)
    /\ \A o \in Objects : WF_vars(Terminated(o))

-----------------------------------------------------------------------------
(* Properties.                                                             *)

PcValues == {"idle", "read", "deps", "fetch", "build", "apply", "prune",
             "wait", "delete", "terminate", "defer"}

\* Every variable has its type; in particular the status the worker builds in
\* memory and the one the API server stores are well formed, and an idle
\* worker holds nothing.
TypeOK ==
    /\ ks \in Kustomization
    /\ objs \in [Objects -> {"absent", "terminating"} \cup Revisions]
    /\ sources \in [SourceRefs -> ArtifactStates]
    /\ account \in BOOLEAN
    /\ queue \in {"none", "timer", "event"}
    /\ timer \in BOOLEAN
    /\ pc \in PcValues
    /\ obj \in Kustomization
    /\ rev \in Revisions \cup {NoRevision}
    /\ pc \in {"deps", "fetch", "build", "apply", "prune", "wait"}
           => rev \in Revisions
    /\ todo \subseteq Objects
    /\ failed \subseteq Objects
    /\ result \in {"done", "requeue", "error", "terminal"}
    /\ faults \in 0 .. MaxFaults
    /\ moves \in 0 .. MaxSourceMoves

\* The inventory never forgets: whatever fails, crashes or is retried, an
\* entry leaves the stored inventory only when its object was deleted, is
\* exempt from pruning, or the reconciled spec has pruning disabled.  This is
\* what reconcile and prune promise by merging the survivors back.
InventoryNeverForgets ==
    [][\A o \in ks.status.inventory \ ks'.status.inventory :
          o \in Live => o \in Exempt \/ ~obj.spec.prune]_vars

\* Ready never covers a partial apply: while the stored Ready condition is
\* True, the inventory is one build of the last applied revision, no tracked
\* object carries the content of another revision, and the history starts
\* with that success.  reconcile stores Ready=Unknown before it mutates
\* anything.  (A torn patch may store the condition without the rest.)
ReadyMeansOneBuild ==
    ks.exists /\ ks.status.ready = "True" /\ "torn" \notin Faults =>
        LET applied == ks.status.lastAppliedRevision IN
        /\ applied \in Revisions
        /\ \E p \in Paths : ks.status.inventory = Manifests[applied][p]
        /\ \A o \in ks.status.inventory \ Ignored :
              o \in Live => objs[o] = applied
        /\ ks.status.history = [revision |-> applied,
                                status |-> "ReconciliationSucceeded"]

\* The finalizer goes last: a Kustomization whose policy asks for deletion
\* leaves the API server only when everything in its inventory was deleted
\* (and, with WaitForTermination and no timeout, is gone), unless the account
\* to impersonate is lost.
FinalizedMeansCollected ==
    [][ks.exists /\ ks.deleting /\ ~ks'.exists =>
          \/ ~FinalizerShouldDeleteResources(obj)
          \/ ~account
          \/ \A o \in ks.status.inventory \ Exempt :
                /\ o \notin Live
                /\ /\ GetDeletionPolicy(obj.spec) = "WaitForTermination"
                   /\ "termination" \notin Faults
                   => objs[o] = "absent"]_vars

\* The objects as the abstract specification sees them, without revisions.
ClusterView ==
    [o \in Objects |-> IF o \in Live THEN "live" ELSE objs[o]]

\* What the spec that the worker has read asks for.
PolicyView ==
    [prune |-> obj.spec.prune,
     finalizing |-> obj.deleting,
     delete |-> obj.deleting /\ FinalizerShouldDeleteResources(obj),
     await |-> /\ GetDeletionPolicy(obj.spec) = "WaitForTermination"
               /\ "termination" \notin Faults,
     reachable |-> account]

Owner == INSTANCE Ownership
         WITH present <- ks.exists, tracked <- ks.status.inventory,
              cluster <- ClusterView, policy <- PolicyView

\* The reconciler keeps its promise of ownership: whatever fails, crashes or is
\* edited on the way, it deletes only what the stored inventory lists and what
\* the spec it works on asks it to delete, gives up no live object that it
\* should prune, and the Kustomization leaves last.
OwnershipIsKept == Owner!Spec

\* Garbage is tracked: between reconciliations, with pruning enabled in every
\* spec, each live object that is not exempt is in the stored inventory, so
\* that a later revision or the finalizer can remove it, even if it could not be
\* pruned before.  (A failed apply, a lost patch or a crash may leave what was
\* applied untracked until the next success.)
GarbageIsTracked ==
    /\ pc = "idle"
    /\ ks.exists
    /\ \A s \in Specs : s.prune
    /\ {"apply", "patch", "torn", "crash"} \cap Faults = {}
    => Live \subseteq ks.status.inventory \cup Exempt

\* The observed generation tells the truth: while Ready is True for the
\* current generation, what is applied is the build of the current spec.
\* checkDependencies of a dependent relies on it.
ObservedMeansApplied ==
    /\ ks.exists
    /\ ~ks.deleting
    /\ ks.status.ready = "True"
    /\ ks.status.observedGeneration = ks.generation
    => ks.status.inventory =
          Manifests[ks.status.lastAppliedRevision][ks.spec.path]

\* Ready leaves no garbage: while Ready is True and every spec prunes, each live
\* object that is not exempt is one the inventory lists.
ReadyLeavesNoGarbage ==
    /\ ks.exists
    /\ ks.status.ready = "True"
    /\ \A s \in Specs : s.prune
    => Live \subseteq ks.status.inventory \cup Exempt

Quiet == pc = "idle" /\ queue = "none" /\ ks.exists

\* Is there an error that only a human can repair?
NeedsHuman(spec) ==
    \/ spec.exprs = "badHealthExpr"
    \/ spec.exprs = "badReadyExpr" /\ spec.dependsOn
    \/ AccessDenied(spec.sourceRef)

\* The controller never stops silently: a Kustomization that no queue entry and no
\* timer will bring back is suspended or has a spec that only a human can repair,
\* whatever failed on the way, and reports Stalled unless that report was lost.
NoSilentStop ==
    Quiet /\ ~timer =>
        \/ ks.spec.suspend
        \/ /\ NeedsHuman(ks.spec)
           /\ {"patch", "torn"} \cap Faults = {} => ks.status.stalled

\* No wake-up is lost: when the worker has nothing queued and Ready is True
\* for the current generation, the last applied revision is the one the
\* source has now.
QuietIsCurrent ==
    /\ Quiet
    /\ ~ks.spec.suspend
    /\ ~ks.deleting
    /\ ks.status.ready = "True"
    /\ ks.status.observedGeneration = ks.generation
    /\ sources[ks.spec.sourceRef] \in Revisions
    => ks.status.lastAppliedRevision = sources[ks.spec.sourceRef]

Reconcilable ==
    /\ ks.exists
    /\ ~ks.deleting
    /\ ~ks.spec.suspend
    /\ ~NeedsHuman(ks.spec)
    /\ sources[ks.spec.sourceRef] \in Revisions

Current ==
    LET applied == sources[ks.spec.sourceRef] IN
    /\ ks.status.ready = "True"
    /\ ks.status.observedGeneration = ks.generation
    /\ ks.status.lastAppliedRevision = applied
    /\ ks.status.inventory = Manifests[applied][ks.spec.path]
    /\ ks.status.inventory \ Ignored \subseteq Live

\* The desired state is reached, and reached again after every disturbance:
\* if the Kustomization stays reconcilable, it is current over and over.
EventuallyCurrent == <>[]Reconcilable => []<>Current

\* A deleted Kustomization goes away, whatever fails on the way.
DeletionCompletes == (ks.exists /\ ks.deleting) ~> ~ks.exists

\* Every reconcile request is eventually acknowledged in the status.
RequestIsHandled ==
    ks.exists ~> (ks.exists =>
                    ks.status.lastHandledReconcileAt = ks.requestedAt)
=============================================================================
