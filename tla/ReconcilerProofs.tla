-------------------------- MODULE ReconcilerProofs --------------------------
(***************************************************************************)
(* Proofs about Reconciler, for every set of objects, manifests, specs and *)
(* faults.                                                                 *)
(***************************************************************************)
EXTENDS Reconciler, TLAPS

\* Only the deletion of the object takes its generation past the bound on edits.
GenerationBounded == ks.deleting \/ ks.generation <= MaxGeneration

TypeInv == TypeOK /\ GenerationBounded

Results == {"done", "requeue", "error", "terminal"}

-----------------------------------------------------------------------------
(* The operators that build a status yield a status.                       *)

\* A condition set on a well-formed status leaves it well formed.
LEMMA ConditionsTyped ==
    ASSUME NEW s \in KustomizationStatus,
           NEW v \in {"none", "True", "False", "Unknown"}
    PROVE  /\ MarkReady(s, v) \in KustomizationStatus
           /\ MarkReconciling(s) \in KustomizationStatus
           /\ MarkStalled(s) \in KustomizationStatus
           /\ [s EXCEPT !.healthy = v] \in KustomizationStatus
BY DEF KustomizationStatus, MarkReady, MarkReconciling, MarkStalled

\* So does the record of an attempt in the history.
LEMMA HistoryTyped ==
    ASSUME NEW s \in KustomizationStatus,
           rev \in Revisions \cup {NoRevision},
           NEW h \in {"none", "ReconciliationSucceeded", "ReconciliationFailed",
                      "PruneFailed", "HealthCheckFailed"}
    PROVE  /\ Upsert(s, h) \in KustomizationStatus
           /\ Fail(s, h) \in KustomizationStatus
           /\ Succeed(s) \in KustomizationStatus
<1>1. \A x \in {"none", "ReconciliationSucceeded", "ReconciliationFailed",
                "PruneFailed", "HealthCheckFailed"} :
         Upsert(s, x) \in KustomizationStatus
  BY DEF KustomizationStatus, Upsert, HistoryEntry
<1>2. Fail(s, h) \in KustomizationStatus
  BY <1>1, ConditionsTyped DEF Fail
<1>3. MarkReady(Upsert(s, "ReconciliationSucceeded"), "True") \in KustomizationStatus
  BY <1>1, ConditionsTyped
<1>4. Succeed(s) \in KustomizationStatus
  BY <1>3 DEF Succeed, KustomizationStatus
<1> QED BY <1>1, <1>2, <1>4

\* And so do the status of a stalled object and the one the deferred function
\* reports.
LEMMA ReportTyped ==
    ASSUME obj \in Kustomization
    PROVE  /\ Stall(obj.status) \in KustomizationStatus
           /\ FinalizeStatus(obj) \in KustomizationStatus
           /\ Reported \in Kustomization
<1>0. obj.status \in KustomizationStatus /\ obj.generation \in 0 .. MaxGeneration + 1
      /\ obj.requestedAt \in 0 .. MaxRequests
  BY BoundsAssumption DEF Kustomization
<1>1. MarkStalled(MarkReady(obj.status, "False")) \in KustomizationStatus
  BY <1>0, ConditionsTyped
<1>2. Stall(obj.status) \in KustomizationStatus
  BY <1>0, <1>1 DEF Stall, KustomizationStatus
<1>3. FinalizeStatus(obj) \in KustomizationStatus
  <2> DEFINE handled == [obj.status EXCEPT !.lastHandledReconcileAt =
                            IF obj.requestedAt > 0 THEN obj.requestedAt ELSE @]
  <2>1. handled \in KustomizationStatus
    BY <1>0 DEF KustomizationStatus
  <2> HIDE DEF handled
  <2>2. [handled EXCEPT !.reconciling = "none",
                        !.observedGeneration = obj.generation] \in KustomizationStatus
    BY <1>0, <2>1 DEF KustomizationStatus
  <2>3. [handled EXCEPT !.reconciling = "ProgressingWithRetry"] \in KustomizationStatus
    BY <2>1 DEF KustomizationStatus
  <2>4. FinalizeStatus(obj) =
           CASE handled.ready = "True" ->
                [handled EXCEPT !.reconciling = "none",
                                !.observedGeneration = obj.generation]
          [] handled.ready = "False" /\ handled.reconciling # "none" ->
                [handled EXCEPT !.reconciling = "ProgressingWithRetry"]
          [] OTHER -> handled
    BY DEF FinalizeStatus, handled
  <2> QED BY <2>1, <2>2, <2>3, <2>4
<1>4. Reported \in Kustomization
  BY <1>3 DEF Reported, Kustomization
<1> QED BY <1>2, <1>3, <1>4

-----------------------------------------------------------------------------
(* Type correctness.                                                       *)

\* The parts of the type invariant that the worker's steps touch.
WorkerTyped ==
    /\ pc \in PcValues
    /\ obj \in Kustomization
    /\ rev \in Revisions \cup {NoRevision}
    /\ pc \in {"deps", "fetch", "build", "apply", "prune", "wait"}
           => rev \in Revisions
    /\ todo \subseteq Objects
    /\ failed \subseteq Objects
    /\ result \in Results

KsTyped == ks \in Kustomization /\ GenerationBounded

\* A Kustomization that was just created has the type of one.
LEMMA CreatedTyped ==
    ASSUME NEW s \in Specs
    PROVE  Created(s) \in Kustomization
BY BoundsAssumption DEF Created, EmptyStatus, Kustomization,
   KustomizationStatus, HistoryEntry, NoRevision

\* The placeholder of an idle worker has the type of a Kustomization.
LEMMA NoObjectTyped == NoObject \in Kustomization
<1>1. (CHOOSE s \in Specs : TRUE) \in Specs
  BY SpecsAssumption
<1> QED BY <1>1, CreatedTyped DEF NoObject

\* The worker keeps well-formed state when it returns.
LEMMA ReturnTyped ==
    ASSUME TypeInv, NEW s \in KustomizationStatus, NEW res \in Results,
           Return(s, res)
    PROVE  WorkerTyped'
BY DEF TypeInv, TypeOK, Return, WorkerTyped, Kustomization, PcValues

\* An idle worker holds well-formed placeholders.
LEMMA ReleaseTyped == ASSUME Release PROVE WorkerTyped'
BY NoObjectTyped DEF Release, WorkerTyped, PcValues, Results, NoRevision

\* Dropping the finalizer in memory keeps the types.
LEMMA RemoveFinalizerTyped ==
    ASSUME TypeInv, RemoveFinalizer
    PROVE  WorkerTyped'
BY DEF TypeInv, TypeOK, RemoveFinalizer, WorkerTyped, Kustomization, PcValues, Results

\* A patch stores a well-formed object, whatever its outcome.
LEMMA PersistTyped ==
    ASSUME TypeInv, NEW k \in Kustomization
    PROVE  /\ Persist(k) \in Kustomization
           /\ Persist(k).deleting = ks.deleting
           /\ Persist(k).generation = ks.generation
BY DEF TypeInv, TypeOK, Persist, Kustomization

\* So does any part of one.
LEMMA TornTyped ==
    ASSUME TypeInv, NEW k \in Kustomization, NEW t \in Torn(k)
    PROVE  /\ t \in Kustomization
           /\ t.deleting = ks.deleting
           /\ t.generation = ks.generation
           /\ t.finalizer = ks.finalizer \/ t.finalizer = k.finalizer
           /\ t.exists = (~ks.deleting \/ t.finalizer)
           /\ \/ t.status.inventory = ks.status.inventory
              \/ t.status.inventory = k.status.inventory
           /\ t.status.ready = ks.status.ready \/ t.status.ready = k.status.ready
<1>0. ks \in Kustomization
  BY DEF TypeInv, TypeOK
<1>1. PICK f \in {ks.finalizer, k.finalizer},
           s \in {ks.status, k.status, WithConditions(ks.status, k.status),
                  WithConditions(k.status, ks.status)} :
         t = [ks EXCEPT !.finalizer = f, !.status = s, !.exists = ~ks.deleting \/ f]
  BY DEF Torn
<1>2. /\ s \in KustomizationStatus
      /\ s.inventory = ks.status.inventory \/ s.inventory = k.status.inventory
      /\ s.ready = ks.status.ready \/ s.ready = k.status.ready
  BY <1>0 DEF WithConditions, Kustomization, KustomizationStatus
<1>3. f \in BOOLEAN
  BY <1>0 DEF Kustomization
<1>4. /\ t.finalizer = f /\ t.status = s /\ t.exists = (~ks.deleting \/ f)
      /\ t.deleting = ks.deleting /\ t.generation = ks.generation
      /\ t \in Kustomization
  BY <1>0, <1>1, <1>2, <1>3 DEF Kustomization
<1> QED BY <1>1, <1>2, <1>4

\* The budget of faults never goes below zero.
LEMMA FaultTyped ==
    ASSUME TypeInv, NEW kind, Fault(kind)
    PROVE  faults' \in 0 .. MaxFaults
BY BoundsAssumption DEF TypeInv, TypeOK, Fault

\* A patch, landed or not, keeps the types of what the API server stores.
LEMMA PatchTyped ==
    ASSUME TypeInv, NEW k \in Kustomization, PatchLands(k) \/ PatchErrs(k)
    PROVE  KsTyped' /\ faults' \in 0 .. MaxFaults
<1>1. ks' = ks \/ ks' = Persist(k) \/ ks' \in Torn(k)
  BY DEF PatchLands, PatchErrs
<1>2. KsTyped'
  BY <1>1, PersistTyped, TornTyped
     DEF TypeInv, TypeOK, KsTyped, GenerationBounded
<1>3. faults' \in 0 .. MaxFaults
  BY FaultTyped DEF TypeInv, TypeOK, PatchLands, PatchErrs
<1> QED BY <1>2, <1>3

\* Both outcomes of a progress report keep the types.
LEMMA ProgressTyped ==
    ASSUME TypeInv, NEW s \in KustomizationStatus,
           NEW next \in PcValues, rev \in Revisions,
           \/ Progress(s, next) /\ todo' \subseteq Objects
           \/ ProgressFails(s)
    PROVE  WorkerTyped' /\ KsTyped' /\ faults' \in 0 .. MaxFaults
<1>1. [obj EXCEPT !.status = s] \in Kustomization
  BY DEF TypeInv, TypeOK, Kustomization
<1>2. KsTyped' /\ faults' \in 0 .. MaxFaults
  BY <1>1, PatchTyped DEF Progress, ProgressFails
<1>3. CASE Progress(s, next) /\ todo' \subseteq Objects
  BY <1>1, <1>2, <1>3 DEF Progress, WorkerTyped, TypeInv, TypeOK, Results
<1>4. CASE ProgressFails(s)
  BY <1>2, <1>4, ReturnTyped DEF ProgressFails, Results
<1> QED BY <1>3, <1>4

\* What is built is a set of objects.
LEMMA BuiltTyped ==
    ASSUME TypeInv, rev \in Revisions
    PROVE  Built \subseteq Objects
<1>1. obj.spec.path \in Paths
  BY SpecsAssumption DEF TypeInv, TypeOK, Kustomization, KustomizationSpec
<1> QED BY <1>1, ObjectsAssumption DEF Built

\* Collects the parts of the type invariant.
LEMMA TypeParts ==
    ASSUME WorkerTyped', KsTyped',
           (objs \in [Objects -> {"absent", "terminating"} \cup Revisions])',
           (sources \in [SourceRefs -> ArtifactStates])',
           (account \in BOOLEAN)',
           (queue \in {"none", "timer", "event"})',
           (timer \in BOOLEAN)',
           (faults \in 0 .. MaxFaults)',
           (moves \in 0 .. MaxSourceMoves)'
    PROVE  TypeInv'
BY DEF WorkerTyped, KsTyped, TypeInv, TypeOK, Results

\* Every step of the worker that ends in Return, with the status it returns.
LEMMA ReturnSteps ==
    ASSUME TypeInv,
           \/ SkipSuspended \/ RejectHealthExprs \/ DenySource \/ SourceError
           \/ SourceNotReady \/ RejectReadyExpr \/ DependencyNotReady
           \/ FetchFails \/ BuildFails \/ ApplyFails \/ PruneFails
           \/ SkipHealthCheck \/ HealthCheckFails \/ HealthCheckCanceled
           \/ FinalizeError \/ DeleteFails
    PROVE  TypeInv'
<1>0. /\ obj \in Kustomization
      /\ obj.status \in KustomizationStatus
      /\ rev \in Revisions \cup {NoRevision}
      /\ MarkReady(obj.status, "False") \in KustomizationStatus
  BY ConditionsTyped DEF TypeInv, TypeOK, Kustomization
<1>1. WorkerTyped'
  <2>1. CASE SkipSuspended
    BY <1>0, <2>1, ReturnTyped DEF SkipSuspended, Results
  <2>2. CASE RejectHealthExprs
    BY <1>0, <2>2, ReturnTyped, ReportTyped DEF RejectHealthExprs, Results
  <2>3. CASE DenySource
    BY <1>0, <2>3, ReturnTyped, ConditionsTyped DEF DenySource, Results
  <2>4. CASE SourceError
    BY <1>0, <2>4, ReturnTyped DEF SourceError, Results
  <2>5. CASE SourceNotReady
    BY <1>0, <2>5, ReturnTyped DEF SourceNotReady, Results
  <2>6. CASE RejectReadyExpr
    BY <1>0, <2>6, ReturnTyped, ReportTyped DEF RejectReadyExpr, Results
  <2>7. CASE DependencyNotReady
    BY <1>0, <2>7, ReturnTyped DEF DependencyNotReady, Results
  <2>8. CASE FetchFails
    BY <1>0, <2>8, ReturnTyped DEF FetchFails, Results
  <2>9. CASE BuildFails
    BY <1>0, <2>9, ReturnTyped DEF BuildFails, Results
  <2>10. CASE ApplyFails
    BY <1>0, <2>10, ReturnTyped, HistoryTyped DEF ApplyFails, Results
  <2>11. CASE PruneFails
    <3>1. Fail(obj.status, "PruneFailed") \in KustomizationStatus
      BY <1>0, HistoryTyped
    <3>2. Merge(obj.status.inventory, failed) \subseteq Objects
      BY <1>0 DEF Merge, TypeInv, TypeOK, KustomizationStatus
    <3>3. [Fail(obj.status, "PruneFailed")
              EXCEPT !.inventory = Merge(obj.status.inventory, failed)]
             \in KustomizationStatus
      BY <3>1, <3>2 DEF KustomizationStatus
    <3> QED BY <2>11, <3>3, ReturnTyped DEF PruneFails, Results
  <2>12. CASE SkipHealthCheck
    <3>1. [obj.status EXCEPT !.healthy = "none"] \in KustomizationStatus
      BY <1>0, ConditionsTyped
    <3> QED BY <1>0, <2>12, <3>1, ReturnTyped, HistoryTyped DEF SkipHealthCheck, Results
  <2>13. CASE HealthCheckFails
    <3>1. [obj.status EXCEPT !.healthy = "False"] \in KustomizationStatus
      BY <1>0, ConditionsTyped
    <3> QED BY <1>0, <2>13, <3>1, ReturnTyped, HistoryTyped DEF HealthCheckFails, Results
  <2>14. CASE HealthCheckCanceled
    BY <1>0, <2>14, ReturnTyped DEF HealthCheckCanceled, Results
  <2>15. CASE FinalizeError
    BY <1>0, <2>15, ReturnTyped DEF FinalizeError, Results
  <2>16. CASE DeleteFails
    BY <1>0, <2>16, ReturnTyped DEF DeleteFails, Results
  <2> QED BY <2>1, <2>2, <2>3, <2>4, <2>5, <2>6, <2>7, <2>8, <2>9, <2>10,
             <2>11, <2>12, <2>13, <2>14, <2>15, <2>16
<1>2. /\ UNCHANGED <<ks, objs, sources, account, queue, timer, moves>>
      /\ UNCHANGED faults \/ \E kind \in FaultKinds : Fault(kind)
  BY DEF SkipSuspended, RejectHealthExprs, DenySource, SourceError,
         SourceNotReady, RejectReadyExpr, DependencyNotReady, FetchFails,
         BuildFails, ApplyFails, PruneFails, SkipHealthCheck, HealthCheckFails,
         HealthCheckCanceled, FinalizeError, DeleteFails, ApiVars, QueueVars,
         FaultKinds
<1>3. faults' \in 0 .. MaxFaults
  BY <1>2, FaultTyped DEF TypeInv, TypeOK
<1> QED
  BY <1>1, <1>2, <1>3, TypeParts DEF TypeInv, TypeOK, KsTyped, GenerationBounded

\* Every step of the worker that patches the status on its way.
LEMMA PatchSteps ==
    ASSUME TypeInv,
           \/ StartProgress \/ FetchArtifact \/ Build \/ StartHealthCheck
           \/ HealthCheckPasses \/ Report \/ ReportFails
    PROVE  TypeInv'
<1>0. /\ obj \in Kustomization
      /\ obj.status \in KustomizationStatus
      /\ rev \in Revisions \cup {NoRevision}
      /\ todo \subseteq Objects
  BY DEF TypeInv, TypeOK, Kustomization
<1>a. \A s \in KustomizationStatus : [obj EXCEPT !.status = s] \in Kustomization
  BY <1>0 DEF Kustomization
<1>1. WorkerTyped' /\ KsTyped' /\ faults' \in 0 .. MaxFaults
  <2>1. CASE StartProgress
    <3>1. InProgress \in KustomizationStatus
      BY <1>0, ConditionsTyped DEF InProgress
    <3>2. rev \in Revisions /\ "fetch" \in PcValues
      BY <2>1 DEF StartProgress, TypeInv, TypeOK, PcValues
    <3> QED BY <1>0, <2>1, <3>1, <3>2, ProgressTyped DEF StartProgress
  <2>2. CASE FetchArtifact
    <3>1. rev \in Revisions /\ "build" \in PcValues
      BY <2>2 DEF FetchArtifact, TypeInv, TypeOK, PcValues
    <3>2. [obj.status EXCEPT !.lastAttemptedRevision = rev] \in KustomizationStatus
      BY <1>0 DEF KustomizationStatus
    <3>3. Attempted \in KustomizationStatus
      BY <3>2, ConditionsTyped DEF Attempted
    <3> QED BY <1>0, <2>2, <3>1, <3>3, ProgressTyped DEF FetchArtifact
  <2>3. CASE Build
    <3>1. rev \in Revisions /\ "apply" \in PcValues
      BY <2>3 DEF Build, TypeInv, TypeOK, PcValues
    <3>2. Built \subseteq Objects
      BY <3>1, BuiltTyped
    <3>3. MarkReconciling(obj.status) \in KustomizationStatus
      BY <1>0, ConditionsTyped
    <3> QED BY <2>3, <3>1, <3>2, <3>3, ProgressTyped DEF Build
  <2>4. CASE StartHealthCheck
    <3>1. rev \in Revisions /\ "wait" \in PcValues
      BY <2>4 DEF StartHealthCheck, Pruned, TypeInv, TypeOK, PcValues
    <3>2. Checking \in KustomizationStatus
      BY <1>0, ConditionsTyped DEF Checking
    <3>3. CASE Progress(Checking, "wait") /\ UNCHANGED todo
      BY <1>0, <3>1, <3>2, <3>3, ProgressTyped
    <3>4. CASE /\ PatchErrs([obj EXCEPT !.status = Checking])
               /\ Return(Fail(Checking, "HealthCheckFailed"), "requeue")
      BY <1>0, <1>a, <3>2, <3>4, PatchTyped, ReturnTyped, HistoryTyped DEF Results
    <3> QED BY <2>4, <3>3, <3>4 DEF StartHealthCheck
  <2>5. CASE HealthCheckPasses
    <3>1. Healthy \in KustomizationStatus
      BY <1>0, ConditionsTyped DEF Healthy
    <3>2. KsTyped' /\ faults' \in 0 .. MaxFaults
      BY <1>a, <2>5, <3>1, PatchTyped DEF HealthCheckPasses
    <3>3. WorkerTyped'
      BY <1>0, <2>5, <3>1, ReturnTyped, HistoryTyped DEF HealthCheckPasses, Results
    <3> QED BY <3>2, <3>3
  <2>6. CASE Report
    BY <1>0, <2>6, ReportTyped, PatchTyped, ReleaseTyped DEF Report
  <2>7. CASE ReportFails
    <3>1. CASE PatchErrs(Reported)
      BY <1>0, <2>7, <3>1, ReportTyped, PatchTyped, ReleaseTyped DEF ReportFails
    <3>2. CASE UNCHANGED <<ks, faults>>
      BY <2>7, <3>2, ReleaseTyped
         DEF ReportFails, TypeInv, TypeOK, KsTyped, GenerationBounded
    <3> QED BY <2>7, <3>1, <3>2 DEF ReportFails
  <2> QED BY <2>1, <2>2, <2>3, <2>4, <2>5, <2>6, <2>7
<1>2. /\ UNCHANGED <<objs, sources, account, queue, moves>>
      /\ timer' \in BOOLEAN
  BY DEF StartProgress, FetchArtifact, Build, StartHealthCheck,
         HealthCheckPasses, Report, ReportFails, QueueVars, TypeInv, TypeOK
<1> QED
  BY <1>1, <1>2, TypeParts DEF TypeInv, TypeOK

\* The other steps of the worker.
LEMMA QuietSteps ==
    ASSUME TypeInv,
           \/ Dequeue \/ DeclareFinalizer \/ ResolveSource \/ ApplyDone
           \/ \E o \in Objects : ApplyOne(o) \/ DeleteOne(o) \/ DeleteRefused(o)
           \/ FinalizeWithoutDelete \/ StartFinalize \/ FinishDelete
           \/ AwaitTermination \/ StopWaiting
    PROVE  TypeInv'
<1>0. /\ obj \in Kustomization
      /\ obj.status \in KustomizationStatus
      /\ obj.spec.sourceRef \in SourceRefs
  BY SpecsAssumption DEF TypeInv, TypeOK, Kustomization, KustomizationSpec
<1>1. CASE Dequeue
  <2>1. WorkerTyped'
    BY <1>1, NoObjectTyped DEF Dequeue, TypeInv, TypeOK, WorkerTyped, PcValues, Results
  <2> QED
    BY <1>1, <2>1, TypeParts
       DEF Dequeue, ApiVars, TypeInv, TypeOK, KsTyped, GenerationBounded
<1>2. CASE DeclareFinalizer
  <2>1. WorkerTyped'
    BY <1>2 DEF DeclareFinalizer, TypeInv, TypeOK, WorkerTyped, PcValues, Results,
                Kustomization
  <2> QED
    BY <1>2, <2>1, TypeParts
       DEF DeclareFinalizer, ApiVars, QueueVars, TypeInv, TypeOK, KsTyped, GenerationBounded
<1>3. CASE ResolveSource
  <2>1. WorkerTyped'
    BY <1>0, <1>3 DEF ResolveSource, TypeInv, TypeOK, WorkerTyped, PcValues, Results
  <2> QED
    BY <1>3, <2>1, TypeParts
       DEF ResolveSource, ApiVars, QueueVars, TypeInv, TypeOK, KsTyped, GenerationBounded
<1>4. CASE ApplyDone
  <2>1. rev \in Revisions
    BY <1>4 DEF ApplyDone, TypeInv, TypeOK
  <2>2. Built \subseteq Objects
    BY <2>1, BuiltTyped
  <2>3. obj' \in Kustomization /\ todo' \subseteq Objects
    BY <1>0, <1>4, <2>2 DEF ApplyDone, Diff, Kustomization, KustomizationStatus
  <2>4. WorkerTyped'
    BY <1>4, <2>1, <2>3 DEF ApplyDone, TypeInv, TypeOK, WorkerTyped, PcValues, Results
  <2> QED
    BY <1>4, <2>4, TypeParts
       DEF ApplyDone, ApiVars, QueueVars, TypeInv, TypeOK, KsTyped, GenerationBounded
<1>5. ASSUME NEW o \in Objects, ApplyOne(o) \/ DeleteOne(o) \/ DeleteRefused(o)
      PROVE  TypeInv'
  <2>1. WorkerTyped' /\ faults' \in 0 .. MaxFaults
    BY <1>5, FaultTyped
       DEF ApplyOne, DeleteOne, DeleteRefused, TypeInv, TypeOK, WorkerTyped, Results
  <2>2. (objs \in [Objects -> {"absent", "terminating"} \cup Revisions])'
    BY <1>5 DEF ApplyOne, DeleteOne, DeleteRefused, ApiVars, TypeInv, TypeOK
  <2> QED
    BY <1>5, <2>1, <2>2, TypeParts
       DEF ApplyOne, DeleteOne, DeleteRefused, ApiVars, QueueVars, TypeInv, TypeOK,
           KsTyped, GenerationBounded
<1>6. CASE FinalizeWithoutDelete \/ FinishDelete \/ StopWaiting
  <2>1. WorkerTyped'
    BY <1>6, RemoveFinalizerTyped DEF FinalizeWithoutDelete, FinishDelete, StopWaiting
  <2>2. faults' \in 0 .. MaxFaults
    BY <1>6, FaultTyped
       DEF FinalizeWithoutDelete, FinishDelete, StopWaiting, TypeInv, TypeOK
  <2> QED
    BY <1>6, <2>1, <2>2, TypeParts
       DEF FinalizeWithoutDelete, FinishDelete, StopWaiting, ApiVars, QueueVars,
           TypeInv, TypeOK, KsTyped, GenerationBounded
<1>7. CASE StartFinalize \/ AwaitTermination
  <2>1. WorkerTyped'
    BY <1>0, <1>7
       DEF StartFinalize, AwaitTermination, TypeInv, TypeOK, WorkerTyped, PcValues,
           Results, KustomizationStatus
  <2> QED
    BY <1>7, <2>1, TypeParts
       DEF StartFinalize, AwaitTermination, ApiVars, QueueVars, TypeInv, TypeOK,
           KsTyped, GenerationBounded
<1> QED BY <1>1, <1>2, <1>3, <1>4, <1>5, <1>6, <1>7

\* The steps of the runtime and of the users.
LEMMA EnvironmentSteps ==
    ASSUME TypeInv, Environment
    PROVE  TypeInv'
<1>0. UNCHANGED WorkerVars => WorkerTyped'
  BY DEF WorkerVars, TypeInv, TypeOK, WorkerTyped, Results
<1>1. CASE TimerFires
  BY <1>0, <1>1, TypeParts
     DEF TimerFires, ApiVars, TypeInv, TypeOK, KsTyped, GenerationBounded
<1>2. CASE Crash
  BY <1>2, FaultTyped, ReleaseTyped, TypeParts
     DEF Crash, ApiVars, TypeInv, TypeOK, KsTyped, GenerationBounded
<1>3. CASE RequestReconcile
  <2>1. KsTyped'
    BY <1>3, BoundsAssumption
       DEF RequestReconcile, TypeInv, TypeOK, KsTyped, GenerationBounded, Kustomization
  <2> QED BY <1>0, <1>3, <2>1, TypeParts DEF RequestReconcile, TypeInv, TypeOK
<1>4. CASE Delete
  <2>1. ks.generation \in 1 .. MaxGeneration
    BY <1>4, BoundsAssumption DEF Delete, TypeInv, TypeOK, GenerationBounded, Kustomization
  <2>2. ks.generation + 1 \in 1 .. MaxGeneration + 1
    BY <2>1, BoundsAssumption
  <2>3. KsTyped'
    <3>1. CASE ks.finalizer
      <4>1. ks' = [ks EXCEPT !.deleting = TRUE, !.generation = ks.generation + 1]
        BY <1>4, <3>1 DEF Delete
      <4> QED
        BY <2>2, <4>1 DEF TypeInv, TypeOK, KsTyped, GenerationBounded, Kustomization
    <3>2. CASE ~ks.finalizer
      <4>1. ks' = [ks EXCEPT !.exists = FALSE]
        BY <1>4, <3>2 DEF Delete
      <4> QED
        BY <2>1, <4>1 DEF TypeInv, TypeOK, KsTyped, GenerationBounded, Kustomization
    <3> QED BY <3>1, <3>2
  <2> QED BY <1>0, <1>4, <2>3, TypeParts DEF Delete, TypeInv, TypeOK
<1>5. CASE LoseAccount
  BY <1>0, <1>5, FaultTyped, TypeParts
     DEF LoseAccount, QueueVars, TypeInv, TypeOK, KsTyped, GenerationBounded
<1>6. ASSUME NEW s \in Specs, EditSpec(s) PROVE TypeInv'
  <2>1. /\ ks.generation + 1 \in 1 .. MaxGeneration + 1
        /\ ks.generation + 1 <= MaxGeneration
    BY <1>6, BoundsAssumption DEF EditSpec, TypeInv, TypeOK, Kustomization
  <2>2. ks' = [ks EXCEPT !.spec = s, !.generation = ks.generation + 1]
    BY <1>6 DEF EditSpec
  <2>3. KsTyped'
    BY <2>1, <2>2 DEF TypeInv, TypeOK, KsTyped, GenerationBounded, Kustomization
  <2> QED BY <1>0, <1>6, <2>3, TypeParts DEF EditSpec, TypeInv, TypeOK
<1>7. ASSUME NEW ref \in SourceRefs, NEW new \in ArtifactStates, MoveSource(ref, new)
      PROVE  TypeInv'
  <2>1. moves' \in 0 .. MaxSourceMoves
    BY <1>7, BoundsAssumption DEF MoveSource, TypeInv, TypeOK
  <2>2. sources' \in [SourceRefs -> ArtifactStates]
    BY <1>7 DEF MoveSource, TypeInv, TypeOK
  <2> QED
    BY <1>0, <1>7, <2>1, <2>2, TypeParts
       DEF MoveSource, TypeInv, TypeOK, KsTyped, GenerationBounded
<1>8. ASSUME NEW o \in Objects, Drift(o) \/ Terminated(o) PROVE TypeInv'
  <2>1. (objs \in [Objects -> {"absent", "terminating"} \cup Revisions])'
    BY <1>8 DEF Drift, Terminated, TypeInv, TypeOK
  <2>2. faults' \in 0 .. MaxFaults
    BY <1>8, FaultTyped DEF Drift, Terminated, TypeInv, TypeOK
  <2> QED
    BY <1>0, <1>8, <2>1, <2>2, TypeParts
       DEF Drift, Terminated, QueueVars, TypeInv, TypeOK, KsTyped, GenerationBounded
<1> QED
  BY <1>1, <1>2, <1>3, <1>4, <1>5, <1>6, <1>7, <1>8 DEF Environment

\* The initial state is well formed.
LEMMA TypeInit ==
    ASSUME Init
    PROVE  TypeInv
<1>1. ks \in Kustomization /\ ks.generation = 1
  BY CreatedTyped DEF Init, Created
<1>2. GenerationBounded
  BY <1>1, BoundsAssumption DEF GenerationBounded
<1>3. faults \in 0 .. MaxFaults /\ moves \in 0 .. MaxSourceMoves
  BY BoundsAssumption DEF Init
<1>4. objs \in [Objects -> {"absent", "terminating"} \cup Revisions]
  BY DEF Init
<1>5. TypeOK
  BY <1>1, <1>3, <1>4, NoObjectTyped DEF Init, TypeOK, PcValues
<1> QED BY <1>2, <1>5 DEF TypeInv

\* Every step keeps the types.
LEMMA TypeStep ==
    ASSUME TypeInv, [Next]_vars
    PROVE  TypeInv'
<1>1. CASE Reconcile
  BY <1>1, ReturnSteps, PatchSteps, QuietSteps DEF Reconcile
<1>2. CASE Finalize
  BY <1>2, ReturnSteps, QuietSteps DEF Finalize
<1>3. CASE Environment
  BY <1>3, EnvironmentSteps
<1>4. CASE UNCHANGED vars
  BY <1>4 DEF vars, TypeInv, TypeOK, GenerationBounded
<1> QED BY <1>1, <1>2, <1>3, <1>4 DEF Next, Worker

\* In every reachable state of the reconciler each variable has its type; the
\* worker resolves a revision before it fetches, builds, applies or prunes.
THEOREM TypeCorrect == Spec => []TypeOK
<1>1. Init => TypeInv
  BY TypeInit
<1>2. TypeInv /\ [Next]_vars => TypeInv'
  BY TypeStep
<1>3. TypeInv => TypeOK
  BY DEF TypeInv
<1> QED BY <1>1, <1>2, <1>3, PTL DEF Spec

-----------------------------------------------------------------------------
(* The inductive invariant behind the safety properties.                   *)

Stored == ks.status.inventory
Known == obj.status.inventory

\* The worker carries objects to work on only inside apply, prune and delete.
Bookkeeping ==
    /\ pc \notin {"apply", "prune", "delete"} => todo = {}
    /\ pc \notin {"prune", "delete"} => failed = {}

\* Past admission the object in memory is not under deletion and has its
\* finalizer; under deletion it has it until finalize removes it.
Admission ==
    /\ ks.exists /\ ks.deleting => ks.finalizer
    /\ pc \in {"deps", "fetch", "build", "apply", "prune", "wait"} =>
          obj.finalizer /\ ~obj.deleting
    /\ pc \in {"delete", "terminate"} =>
          /\ obj.finalizer
          /\ obj.deleting
    /\ pc = "read" /\ obj.deleting => obj.finalizer

\* The worker has in mind whatever the stored inventory lists: until the apply
\* is done, and in finalize, all of it; from then on all of it that lives and
\* may be pruned, with the objects garbage collection has not settled.
Remembers ==
    /\ pc \in {"read", "deps", "fetch", "build", "apply", "delete", "terminate"} =>
          Stored \subseteq Known
    /\ pc = "defer" /\ obj.deleting => Stored \subseteq Known
    /\ pc \in {"prune", "wait", "defer"} =>
          \A o \in Stored : o \in Live =>
             o \in Known \cup Exempt \cup todo \cup failed \/ ~obj.spec.prune

\* The status is the report of one successful build.
OneBuild(status) ==
    /\ status.lastAppliedRevision \in Revisions
    /\ \E p \in Paths : status.inventory = Manifests[status.lastAppliedRevision][p]
    /\ \A o \in status.inventory \ Ignored :
          o \in Live => objs[o] = status.lastAppliedRevision
    /\ status.history = [revision |-> status.lastAppliedRevision,
                         status |-> "ReconciliationSucceeded"]

\* No patch is torn.
Whole == "torn" \notin Faults

\* Ready=True is the report of one build, in the API server and in memory, and
\* neither says Ready=True from the first mutation to the end of the attempt.
Truthful ==
    /\ Whole /\ ks.status.ready = "True" => OneBuild(ks.status)
    /\ Whole /\ obj.status.ready = "True" => OneBuild(obj.status)
    /\ pc \in {"fetch", "build", "apply", "prune", "wait"} =>
          obj.status.ready = "Unknown" /\ ks.status.ready # "True"
    /\ pc \in {"apply", "prune", "wait"} =>
          \A o \in Built \ Ignored :
             o \in Live => objs[o] = rev \/ (pc = "apply" /\ o \in todo)
    /\ pc \in {"prune", "wait"} => Known = Built

\* What finalize has achieved when it drops the finalizer.
Collected ==
    \/ ~FinalizerShouldDeleteResources(obj)
    \/ ~account
    \/ \A o \in Known \ Exempt :
          /\ o \notin Live
          /\ /\ GetDeletionPolicy(obj.spec) = "WaitForTermination"
             /\ "termination" \notin Faults
             => objs[o] = "absent"

Finalization ==
    /\ pc = "delete" =>
          \A o \in Known \ Exempt : o \in todo \cup failed \/ o \notin Live
    /\ pc = "terminate" => \A o \in Known \ Exempt : o \notin Live
    /\ pc = "defer" /\ ~obj.finalizer => obj.deleting /\ Collected

Consistent == Bookkeeping /\ Admission /\ Remembers /\ Truthful /\ Finalization

SafetyInv == TypeInv /\ Consistent

-----------------------------------------------------------------------------
(* What the operators do to the fields the invariant is about.             *)

\* Conditions leave the inventory alone, and only MarkReady touches Ready.
LEMMA ConditionFields ==
    ASSUME NEW s \in KustomizationStatus,
           NEW v \in {"none", "True", "False", "Unknown"}
    PROVE  /\ MarkReady(s, v).inventory = s.inventory
           /\ MarkReady(s, v).ready = v
           /\ MarkReconciling(s).inventory = s.inventory
           /\ MarkReconciling(s).ready = s.ready
           /\ MarkStalled(s).inventory = s.inventory
           /\ MarkStalled(s).ready = s.ready
           /\ [s EXCEPT !.healthy = v].inventory = s.inventory
           /\ [s EXCEPT !.healthy = v].ready = s.ready
BY DEF KustomizationStatus, MarkReady, MarkReconciling, MarkStalled

\* A failed attempt is not Ready; a successful one is, at the resolved revision.
LEMMA HistoryFields ==
    ASSUME NEW s \in KustomizationStatus,
           rev \in Revisions \cup {NoRevision},
           NEW h \in {"none", "ReconciliationSucceeded", "ReconciliationFailed",
                      "PruneFailed", "HealthCheckFailed"}
    PROVE  /\ Fail(s, h).inventory = s.inventory
           /\ Fail(s, h).ready = "False"
           /\ Succeed(s).inventory = s.inventory
           /\ Succeed(s).lastAppliedRevision = rev
           /\ Succeed(s).history = [revision |-> rev,
                                    status |-> "ReconciliationSucceeded"]
BY DEF KustomizationStatus, Fail, Succeed, Upsert, MarkReady

\* The deferred function keeps what a success reports.
LEMMA ReportFields ==
    ASSUME obj \in Kustomization
    PROVE  /\ Stall(obj.status).inventory = Known
           /\ Stall(obj.status).ready = "False"
           /\ FinalizeStatus(obj).inventory = Known
           /\ FinalizeStatus(obj).ready = obj.status.ready
           /\ FinalizeStatus(obj).lastAppliedRevision = obj.status.lastAppliedRevision
           /\ FinalizeStatus(obj).history = obj.status.history
           /\ Reported.finalizer = obj.finalizer
           /\ Reported.status = FinalizeStatus(obj)
<1>0. obj.status \in KustomizationStatus
  BY DEF Kustomization
<1>1. Stall(obj.status).inventory = Known /\ Stall(obj.status).ready = "False"
  BY <1>0 DEF Stall, MarkStalled, MarkReady, KustomizationStatus, Known
<1>2. /\ FinalizeStatus(obj).inventory = Known
      /\ FinalizeStatus(obj).ready = obj.status.ready
      /\ FinalizeStatus(obj).lastAppliedRevision = obj.status.lastAppliedRevision
      /\ FinalizeStatus(obj).history = obj.status.history
  BY <1>0 DEF FinalizeStatus, KustomizationStatus, Known
<1>3. Reported.finalizer = obj.finalizer /\ Reported.status = FinalizeStatus(obj)
  BY DEF Reported, Kustomization
<1> QED BY <1>1, <1>2, <1>3

\* What a patch may leave in the API server.
PatchEffect(k) ==
    /\ ks'.status.inventory = Stored \/ ks'.status.inventory = k.status.inventory
    /\ ks'.status.ready = ks.status.ready \/ ks'.status.ready = k.status.ready
    /\ Whole => ks'.status = ks.status \/ ks'.status = k.status
    /\ ks'.deleting = ks.deleting
    /\ ks'.exists /\ ks'.deleting => ks.finalizer \/ k.finalizer
    /\ ~ks'.exists => ks.deleting /\ ~k.finalizer

\* A patch stores the old status or the given one, or parts of both when it is
\* torn, and the object goes away only when it is under deletion and the patch
\* has no finalizer.
LEMMA PatchEffects ==
    ASSUME SafetyInv, NEW k \in Kustomization, PatchLands(k) \/ PatchErrs(k)
    PROVE  /\ PatchEffect(k)
           /\ (ks.exists /\ ks.deleting => ks.finalizer)'
<1>1. ks.exists /\ (ks' = ks \/ ks' = Persist(k) \/ (~Whole /\ ks' \in Torn(k)))
  BY DEF PatchLands, PatchErrs, Fault, Whole
<1>2. ks \in Kustomization
  BY DEF SafetyInv, TypeInv, TypeOK
<1>3. CASE ks' = ks
  BY <1>1, <1>2, <1>3 DEF PatchEffect, SafetyInv, Consistent, Admission, Stored
<1>4. CASE ks' = Persist(k)
  <2>1. /\ ks'.status = k.status
        /\ ks'.deleting = ks.deleting
        /\ ks'.finalizer = k.finalizer
        /\ ks'.exists = (~ks.deleting \/ k.finalizer)
    BY <1>2, <1>4 DEF Persist, Kustomization
  <2>2. /\ ks.deleting \in BOOLEAN /\ k.finalizer \in BOOLEAN
    BY <1>2 DEF Kustomization
  <2> QED BY <2>1, <2>2 DEF PatchEffect
<1>5. CASE ~Whole /\ ks' \in Torn(k)
  <2>1. /\ ks'.deleting = ks.deleting
        /\ ks'.finalizer = ks.finalizer \/ ks'.finalizer = k.finalizer
        /\ ks'.exists = (~ks.deleting \/ ks'.finalizer)
        /\ ks'.status.inventory = Stored \/ ks'.status.inventory = k.status.inventory
        /\ ks'.status.ready = ks.status.ready \/ ks'.status.ready = k.status.ready
        /\ ks' \in Kustomization
    BY <1>5, TornTyped DEF SafetyInv, Stored
  <2>2. /\ ks.deleting \in BOOLEAN /\ k.finalizer \in BOOLEAN /\ ks.finalizer \in BOOLEAN
        /\ ks'.finalizer \in BOOLEAN
    BY <1>2, <2>1 DEF Kustomization
  <2>3. ks.deleting => ks.finalizer
    BY <1>1 DEF SafetyInv, Consistent, Admission
  <2> QED BY <1>5, <2>1, <2>2, <2>3 DEF PatchEffect
<1> QED BY <1>1, <1>3, <1>4, <1>5

-----------------------------------------------------------------------------
(* Steps that return without touching the API server or the inventory.     *)

ReturnEffect ==
    /\ UNCHANGED <<ks, objs, account, rev>>
    /\ pc \in {"read", "deps", "fetch", "build", "apply", "wait", "delete"}
    /\ pc' = "defer" /\ todo' = {} /\ failed' = {}
    /\ obj.finalizer
    /\ obj'.finalizer = obj.finalizer
    /\ obj'.deleting = obj.deleting
    /\ obj'.spec = obj.spec
    /\ obj'.status.inventory = Known
    /\ obj'.status.ready = "True" => obj'.status = obj.status

\* Return replaces the status of the object in memory and nothing else of it.
LEMMA ReturnFields ==
    ASSUME obj \in Kustomization, NEW s, NEW res, Return(s, res)
    PROVE  /\ obj'.status = s
           /\ obj'.finalizer = obj.finalizer
           /\ obj'.deleting = obj.deleting
           /\ obj'.spec = obj.spec
           /\ pc' = "defer" /\ todo' = {} /\ failed' = {} /\ rev' = rev
BY DEF Return, Kustomization

\* Every early return of Reconcile, reconcile and finalize has that effect.
LEMMA ReturnEffects ==
    ASSUME SafetyInv,
           \/ SkipSuspended \/ RejectHealthExprs \/ DenySource \/ SourceError
           \/ SourceNotReady \/ RejectReadyExpr \/ DependencyNotReady
           \/ FetchFails \/ BuildFails \/ ApplyFails
           \/ HealthCheckFails \/ HealthCheckCanceled
           \/ FinalizeError \/ DeleteFails
    PROVE  ReturnEffect
<1>0. /\ obj \in Kustomization
      /\ obj.status \in KustomizationStatus
      /\ rev \in Revisions \cup {NoRevision}
  BY DEF SafetyInv, TypeInv, TypeOK, Kustomization
<1>1. UNCHANGED <<ks, objs, account>>
  BY DEF SkipSuspended, RejectHealthExprs, DenySource, SourceError,
         SourceNotReady, RejectReadyExpr, DependencyNotReady, FetchFails,
         BuildFails, ApplyFails, HealthCheckFails,
         HealthCheckCanceled, FinalizeError, DeleteFails, ApiVars
<1>2. /\ pc \in {"read", "deps", "fetch", "build", "apply", "wait", "delete"}
      /\ obj.finalizer
  BY DEF SkipSuspended, RejectHealthExprs, DenySource, SourceError,
         SourceNotReady, RejectReadyExpr, DependencyNotReady, FetchFails,
         BuildFails, ApplyFails, HealthCheckFails,
         HealthCheckCanceled, FinalizeError, DeleteFails, Resolving, Admitted,
         Finalizing, SafetyInv, Consistent, Admission
<1>3. \E s, res : /\ Return(s, res)
                  /\ s.inventory = Known
                  /\ s.ready = "True" => s = obj.status
  <2>0. /\ MarkReady(obj.status, "False") \in KustomizationStatus
        /\ MarkReady(obj.status, "False").inventory = Known
        /\ MarkReady(obj.status, "False").ready = "False"
    BY <1>0, ConditionsTyped, ConditionFields DEF Known
  <2>1. CASE SkipSuspended \/ FinalizeError \/ DeleteFails
    BY <2>1 DEF SkipSuspended, FinalizeError, DeleteFails, Known
  <2>2. CASE RejectHealthExprs \/ RejectReadyExpr
    BY <1>0, <2>2, ReportFields DEF RejectHealthExprs, RejectReadyExpr
  <2>3. CASE DenySource
    BY <2>0, <2>3, ConditionFields DEF DenySource
  <2>4. CASE \/ SourceError \/ SourceNotReady \/ DependencyNotReady
             \/ FetchFails \/ BuildFails \/ HealthCheckCanceled
    BY <2>0, <2>4 DEF SourceError, SourceNotReady, DependencyNotReady,
                      FetchFails, BuildFails, HealthCheckCanceled
  <2>5. CASE ApplyFails
    BY <1>0, <2>5, HistoryFields DEF ApplyFails, Known
  <2>6. CASE HealthCheckFails
    <3>1. /\ [obj.status EXCEPT !.healthy = "False"] \in KustomizationStatus
          /\ [obj.status EXCEPT !.healthy = "False"].inventory = Known
      BY <1>0, ConditionsTyped, ConditionFields DEF Known
    <3> QED BY <1>0, <2>6, <3>1, HistoryFields DEF HealthCheckFails
  <2> QED BY <2>1, <2>2, <2>3, <2>4, <2>5, <2>6
<1> QED BY <1>0, <1>1, <1>2, <1>3, ReturnFields DEF ReturnEffect

\* An early return keeps the invariant.
LEMMA ReturnKeeps ==
    ASSUME SafetyInv, ReturnEffect
    PROVE  Consistent'
<1>0. Live' = Live
  BY DEF Live, ReturnEffect
<1>1. Bookkeeping'
  BY DEF Bookkeeping, ReturnEffect
<1>2. Admission'
  BY DEF Admission, ReturnEffect, SafetyInv, Consistent
<1>3. Remembers'
  <2>1. obj.deleting => Stored \subseteq Known
    BY DEF ReturnEffect, SafetyInv, Consistent, Remembers, Admission
  <2>2. \A o \in Stored : o \in Live => o \in Known \cup Exempt \/ ~obj.spec.prune
    BY DEF ReturnEffect, SafetyInv, Consistent, Remembers, Bookkeeping
  <2> QED BY <1>0, <2>1, <2>2 DEF Remembers, ReturnEffect, Stored, Known
<1>4. Truthful'
  BY <1>0 DEF Truthful, OneBuild, ReturnEffect, SafetyInv, Consistent
<1>5. Finalization'
  BY DEF Finalization, ReturnEffect
<1> QED BY <1>1, <1>2, <1>3, <1>4, <1>5 DEF Consistent

-----------------------------------------------------------------------------
(* The end of an attempt.                                                  *)

\* A failed prune keeps in mind what it could not delete.
LEMMA PruneFailsKeeps ==
    ASSUME SafetyInv, PruneFails
    PROVE  Consistent'
<1>0. /\ obj \in Kustomization
      /\ obj.status \in KustomizationStatus
      /\ rev \in Revisions \cup {NoRevision}
      /\ pc = "prune" /\ todo = {}
      /\ UNCHANGED <<ks, objs, account>>
      /\ Live' = Live
  BY DEF SafetyInv, TypeInv, TypeOK, Kustomization, PruneFails, ApiVars, Live
<1>1. /\ obj'.status = [Fail(obj.status, "PruneFailed")
                           EXCEPT !.inventory = Merge(Known, failed)]
      /\ obj'.finalizer = obj.finalizer
      /\ obj'.deleting = obj.deleting
      /\ obj'.spec = obj.spec
      /\ pc' = "defer" /\ todo' = {} /\ failed' = {} /\ rev' = rev
  BY <1>0, ReturnFields DEF PruneFails, Known
<1>2. Fail(obj.status, "PruneFailed") \in KustomizationStatus
  BY <1>0, HistoryTyped
<1>3. obj'.status.inventory = Known \cup failed /\ obj'.status.ready = "False"
  BY <1>0, <1>1, <1>2, HistoryFields DEF KustomizationStatus, Merge
<1>4. obj.finalizer /\ ~obj.deleting
  BY <1>0 DEF SafetyInv, Consistent, Admission
<1>5. Bookkeeping'
  BY <1>1 DEF Bookkeeping
<1>6. Admission'
  BY <1>0, <1>1 DEF Admission, SafetyInv, Consistent
<1>7. Remembers'
  BY <1>0, <1>1, <1>3, <1>4 DEF Remembers, SafetyInv, Consistent, Stored, Known
<1>8. Truthful'
  BY <1>0, <1>1, <1>3 DEF Truthful, OneBuild, SafetyInv, Consistent
<1>9. Finalization'
  BY <1>1, <1>4 DEF Finalization
<1> QED BY <1>5, <1>6, <1>7, <1>8, <1>9 DEF Consistent

\* A success: everything is applied, nothing is left to prune.
LEMMA SuccessKeeps ==
    ASSUME SafetyInv, NEW s \in KustomizationStatus, s.inventory = Known,
           pc \in {"prune", "wait"}, todo = {}, failed = {},
           Return(Succeed(s), "requeue"),
           UNCHANGED <<objs, account>>,
           \/ UNCHANGED ks
           \/ /\ PatchEffect([obj EXCEPT !.status = s])
              /\ (ks.exists /\ ks.deleting => ks.finalizer)'
              /\ s.ready = "Unknown"
    PROVE  Consistent'
<1>0. /\ obj \in Kustomization
      /\ rev \in Revisions
      /\ obj.spec.path \in Paths
      /\ Live' = Live
  BY SpecsAssumption
     DEF SafetyInv, TypeInv, TypeOK, Kustomization, KustomizationSpec, Live
<1>1. /\ obj'.status = Succeed(s)
      /\ obj'.finalizer = obj.finalizer
      /\ obj'.deleting = obj.deleting
      /\ obj'.spec = obj.spec
      /\ pc' = "defer" /\ todo' = {} /\ failed' = {} /\ rev' = rev
  BY <1>0, ReturnFields
<1>2. /\ obj'.status.inventory = Known
      /\ obj'.status.lastAppliedRevision = rev
      /\ obj'.status.history = [revision |-> rev,
                                status |-> "ReconciliationSucceeded"]
  BY <1>0, <1>1, HistoryFields
<1>3. obj.finalizer /\ ~obj.deleting
  BY DEF SafetyInv, Consistent, Admission
<1>4. [obj EXCEPT !.status = s].status = s
  BY <1>0 DEF Kustomization
<1>5. /\ Stored' = Stored \/ Stored' = Known
      /\ ks'.status.ready = ks.status.ready \/ ks'.status.ready = "Unknown"
  BY <1>4 DEF PatchEffect, Stored
<1>6. Bookkeeping'
  BY <1>1 DEF Bookkeeping
<1>7. Admission'
  BY <1>1 DEF Admission, SafetyInv, Consistent
<1>8. Remembers'
  <2>1. \A o \in Stored : o \in Live => o \in Known \cup Exempt \/ ~obj.spec.prune
    BY DEF SafetyInv, Consistent, Remembers
  <2>2. Known' = Known
    BY <1>2 DEF Known
  <2> QED BY <1>0, <1>1, <1>3, <1>5, <2>1, <2>2 DEF Remembers
<1>9. Truthful'
  <2>1. ks'.status.ready # "True"
    BY <1>5 DEF SafetyInv, Consistent, Truthful
  <2>2. /\ Known = Built
        /\ \A o \in Built \ Ignored : o \in Live => objs[o] = rev
    BY DEF SafetyInv, Consistent, Truthful
  <2>3. OneBuild(obj.status)'
    BY <1>0, <1>2, <2>2 DEF OneBuild, Built
  <2> QED BY <1>1, <2>1, <2>3 DEF Truthful
<1>10. Finalization'
  BY <1>1, <1>3 DEF Finalization
<1> QED BY <1>6, <1>7, <1>8, <1>9, <1>10 DEF Consistent

\* So does a success without health checks.
LEMMA SkipHealthCheckKeeps ==
    ASSUME SafetyInv, SkipHealthCheck
    PROVE  Consistent'
<1>1. obj.status \in KustomizationStatus
  BY DEF SafetyInv, TypeInv, TypeOK, Kustomization
<1>2. /\ [obj.status EXCEPT !.healthy = "none"] \in KustomizationStatus
      /\ [obj.status EXCEPT !.healthy = "none"].inventory = Known
  BY <1>1, ConditionsTyped, ConditionFields DEF Known
<1> QED BY <1>2, SuccessKeeps DEF SkipHealthCheck, Pruned, ApiVars

-----------------------------------------------------------------------------
(* Steps that patch the status.                                            *)

\* A progress report that lands stores the inventory the worker has in mind,
\* and Ready=Unknown.
LEMMA ProgressKeeps ==
    ASSUME SafetyInv, NEW s \in KustomizationStatus,
           s.inventory = Known, s.ready = "Unknown",
           NEW next, Progress(s, next), UNCHANGED <<objs, account>>,
           \/ pc = "deps" /\ next = "fetch" /\ UNCHANGED todo
           \/ pc = "fetch" /\ next = "build" /\ UNCHANGED todo
           \/ pc = "build" /\ next = "apply" /\ todo' = Built
           \/ Pruned /\ next = "wait" /\ UNCHANGED todo
    PROVE  Consistent'
<1> DEFINE k == [obj EXCEPT !.status = s]
<1>0. obj \in Kustomization /\ ks \in Kustomization /\ Live' = Live
  BY DEF SafetyInv, TypeInv, TypeOK, Live
<1>1. k \in Kustomization /\ k.status = s
  BY <1>0 DEF Kustomization
<1>2. /\ obj'.status = s
      /\ obj'.finalizer = obj.finalizer
      /\ obj'.deleting = obj.deleting
      /\ obj'.spec = obj.spec
      /\ pc' = next /\ rev' = rev /\ failed' = failed
  BY <1>0 DEF Progress, Kustomization
<1>3. ks'.status = s /\ (ks.exists /\ ks.deleting => ks.finalizer)'
  <2>1. ks' = Persist(k) /\ PatchLands(k)
    BY DEF Progress, PatchLands
  <2>2. ks'.status = s
    BY <1>0, <1>1, <2>1 DEF Persist, Kustomization
  <2> HIDE DEF k
  <2> QED BY <1>1, <2>1, <2>2, PatchEffects
<1>4. obj.finalizer /\ ~obj.deleting
  BY DEF SafetyInv, Consistent, Admission, Pruned
<1>5. Stored' = Known /\ Known' = Known /\ Built' = Built
  BY <1>2, <1>3 DEF Stored, Known, Built
<1>6. Bookkeeping'
  BY <1>2 DEF Bookkeeping, SafetyInv, Consistent, Pruned
<1>7. Admission'
  BY <1>2, <1>3, <1>4 DEF Admission
<1>8. Remembers'
  BY <1>2, <1>4, <1>5 DEF Remembers
<1>9. Truthful'
  <2>1. next = "wait" =>
           /\ Known = Built
           /\ \A o \in Built \ Ignored : o \in Live => objs[o] = rev
    BY DEF SafetyInv, Consistent, Truthful, Pruned
  <2> QED BY <1>0, <1>2, <1>3, <1>5, <2>1 DEF Truthful, Pruned
<1>10. Finalization'
  BY <1>2 DEF Finalization
<1> QED BY <1>6, <1>7, <1>8, <1>9, <1>10 DEF Consistent

\* A progress report that fails ends the attempt; it may have landed.
LEMMA FailedProgressKeeps ==
    ASSUME SafetyInv, NEW s \in KustomizationStatus, NEW t, NEW res,
           s.inventory = Known, s.ready = "Unknown",
           t.inventory = Known, t.ready # "True",
           pc \in {"deps", "fetch", "build", "prune", "wait"},
           todo = {}, failed = {},
           PatchErrs([obj EXCEPT !.status = s]), Return(t, res),
           UNCHANGED <<objs, account>>
    PROVE  Consistent'
<1> DEFINE k == [obj EXCEPT !.status = s]
<1>0. obj \in Kustomization /\ ks \in Kustomization /\ Live' = Live
  BY DEF SafetyInv, TypeInv, TypeOK, Live
<1>1. k \in Kustomization /\ k.status = s
  BY <1>0 DEF Kustomization
<1>2. /\ obj'.status = t
      /\ obj'.finalizer = obj.finalizer
      /\ obj'.deleting = obj.deleting
      /\ obj'.spec = obj.spec
      /\ pc' = "defer" /\ todo' = {} /\ failed' = {} /\ rev' = rev
  BY <1>0, ReturnFields
<1>3. /\ Stored' = Stored \/ Stored' = Known
      /\ Whole => ks'.status = ks.status \/ ks'.status = s
      /\ (ks.exists /\ ks.deleting => ks.finalizer)'
  <2>1. PatchErrs(k)
    OBVIOUS
  <2> HIDE DEF k
  <2> QED BY <1>1, <2>1, PatchEffects DEF PatchEffect, Stored
<1>4. obj.finalizer /\ ~obj.deleting
  BY DEF SafetyInv, Consistent, Admission
<1>5. (Stored' = Stored \/ Stored' = Known) /\ Known' = Known
  BY <1>2, <1>3 DEF Known
<1>6. Bookkeeping'
  BY <1>2 DEF Bookkeeping
<1>7. Admission'
  BY <1>2, <1>3 DEF Admission
<1>8. Remembers'
  <2>1. \A o \in Stored : o \in Live => o \in Known \cup Exempt \/ ~obj.spec.prune
    BY DEF SafetyInv, Consistent, Remembers
  <2> QED BY <1>0, <1>2, <1>4, <1>5, <2>1 DEF Remembers
<1>9. Truthful'
  <2>1. Whole /\ ks.status.ready = "True" => OneBuild(ks.status)
    BY DEF SafetyInv, Consistent, Truthful
  <2>2. Whole => (ks.status.ready = "True" => OneBuild(ks.status))'
    BY <1>0, <1>3, <2>1 DEF OneBuild
  <2> QED BY <1>2, <2>2 DEF Truthful, Whole
<1>10. Finalization'
  BY <1>2, <1>4 DEF Finalization
<1> QED BY <1>6, <1>7, <1>8, <1>9, <1>10 DEF Consistent

\* The progress reports of reconcile and checkHealth keep the invariant.
LEMMA PatchStepsKeep ==
    ASSUME SafetyInv,
           \/ StartProgress \/ FetchArtifact \/ Build \/ StartHealthCheck
           \/ HealthCheckPasses
    PROVE  Consistent'
<1>0. /\ obj \in Kustomization
      /\ obj.status \in KustomizationStatus
      /\ rev \in Revisions \cup {NoRevision}
      /\ UNCHANGED <<objs, account>>
  BY DEF SafetyInv, TypeInv, TypeOK, Kustomization, StartProgress, FetchArtifact,
         Build, StartHealthCheck, HealthCheckPasses
<1>1. CASE StartProgress
  <2>1. InProgress \in KustomizationStatus /\ InProgress.inventory = Known
        /\ InProgress.ready = "Unknown"
    <3>1. /\ MarkReady(obj.status, "Unknown") \in KustomizationStatus
          /\ MarkReady(obj.status, "Unknown").inventory = Known
          /\ MarkReady(obj.status, "Unknown").ready = "Unknown"
      BY <1>0, ConditionsTyped, ConditionFields DEF Known
    <3> QED BY <3>1, ConditionsTyped, ConditionFields DEF InProgress
  <2>2. pc = "deps" /\ todo = {} /\ failed = {}
    BY <1>1 DEF StartProgress, SafetyInv, Consistent, Bookkeeping
  <2>3. CASE Progress(InProgress, "fetch") /\ UNCHANGED todo
    BY <1>0, <2>1, <2>2, <2>3, ProgressKeeps
  <2>4. CASE ProgressFails(InProgress)
    BY <1>0, <2>1, <2>2, <2>4, FailedProgressKeeps DEF ProgressFails
  <2> QED BY <1>1, <2>3, <2>4 DEF StartProgress
<1>2. CASE FetchArtifact
  <2>0. obj.status.ready = "Unknown" /\ pc = "fetch" /\ todo = {} /\ failed = {}
    BY <1>2 DEF FetchArtifact, SafetyInv, Consistent, Truthful, Bookkeeping
  <2>1. /\ [obj.status EXCEPT !.lastAttemptedRevision = rev] \in KustomizationStatus
        /\ [obj.status EXCEPT !.lastAttemptedRevision = rev].inventory = Known
        /\ [obj.status EXCEPT !.lastAttemptedRevision = rev].ready = "Unknown"
    BY <1>0, <2>0 DEF KustomizationStatus, Known
  <2>2. Attempted \in KustomizationStatus /\ Attempted.inventory = Known
        /\ Attempted.ready = "Unknown"
    BY <2>1, ConditionsTyped, ConditionFields DEF Attempted
  <2>3. CASE Progress(Attempted, "build") /\ UNCHANGED todo
    BY <1>0, <2>0, <2>2, <2>3, ProgressKeeps
  <2>4. CASE ProgressFails(Attempted)
    BY <1>0, <2>0, <2>2, <2>4, FailedProgressKeeps DEF ProgressFails
  <2> QED BY <1>2, <2>3, <2>4 DEF FetchArtifact
<1>3. CASE Build
  <2>0. obj.status.ready = "Unknown" /\ pc = "build" /\ todo = {} /\ failed = {}
    BY <1>3 DEF Build, SafetyInv, Consistent, Truthful, Bookkeeping
  <2>1. /\ MarkReconciling(obj.status) \in KustomizationStatus
        /\ MarkReconciling(obj.status).inventory = Known
        /\ MarkReconciling(obj.status).ready = "Unknown"
    BY <1>0, <2>0, ConditionsTyped, ConditionFields DEF Known
  <2>2. CASE Progress(MarkReconciling(obj.status), "apply") /\ todo' = Built
    BY <1>0, <2>0, <2>1, <2>2, ProgressKeeps
  <2>3. CASE ProgressFails(MarkReconciling(obj.status))
    BY <1>0, <2>0, <2>1, <2>3, FailedProgressKeeps DEF ProgressFails
  <2> QED BY <1>3, <2>2, <2>3 DEF Build
<1>4. CASE StartHealthCheck
  <2>0. Pruned /\ obj.status.ready = "Unknown"
    BY <1>4 DEF StartHealthCheck, Pruned, SafetyInv, Consistent, Truthful
  <2>1. Checking \in KustomizationStatus /\ Checking.inventory = Known
        /\ Checking.ready = "Unknown"
    <3>1. /\ [obj.status EXCEPT !.healthy = "Unknown"] \in KustomizationStatus
          /\ [obj.status EXCEPT !.healthy = "Unknown"].inventory = Known
          /\ [obj.status EXCEPT !.healthy = "Unknown"].ready = "Unknown"
      BY <1>0, <2>0, ConditionsTyped, ConditionFields DEF Known
    <3> QED BY <3>1, ConditionsTyped, ConditionFields DEF Checking
  <2>2. CASE Progress(Checking, "wait") /\ UNCHANGED todo
    BY <1>0, <2>0, <2>1, <2>2, ProgressKeeps
  <2>3. CASE /\ PatchErrs([obj EXCEPT !.status = Checking])
             /\ Return(Fail(Checking, "HealthCheckFailed"), "requeue")
    <3>1. /\ Fail(Checking, "HealthCheckFailed").inventory = Known
          /\ Fail(Checking, "HealthCheckFailed").ready # "True"
      BY <1>0, <2>1, HistoryFields
    <3> QED BY <1>0, <2>0, <2>1, <2>3, <3>1, FailedProgressKeeps DEF Pruned
  <2> QED BY <1>4, <2>2, <2>3 DEF StartHealthCheck
<1>5. CASE HealthCheckPasses
  <2>0. pc = "wait" /\ obj.status.ready = "Unknown" /\ todo = {} /\ failed = {}
    BY <1>5 DEF HealthCheckPasses, SafetyInv, Consistent, Truthful, Bookkeeping
  <2>1. Healthy \in KustomizationStatus /\ Healthy.inventory = Known
        /\ Healthy.ready = "Unknown"
    BY <1>0, <2>0, ConditionsTyped, ConditionFields DEF Healthy, Known
  <2>2. [obj EXCEPT !.status = Healthy] \in Kustomization
    BY <1>0, <2>1 DEF Kustomization
  <2>3. CASE /\ PatchLands([obj EXCEPT !.status = Healthy])
             /\ Return(Succeed(Healthy), "requeue")
    BY <1>0, <2>0, <2>1, <2>2, <2>3, PatchEffects, SuccessKeeps
  <2>4. CASE /\ PatchErrs([obj EXCEPT !.status = Healthy])
             /\ Return(Fail(Healthy, "HealthCheckFailed"), "requeue")
    <3>1. /\ Fail(Healthy, "HealthCheckFailed").inventory = Known
          /\ Fail(Healthy, "HealthCheckFailed").ready # "True"
      BY <1>0, <2>1, HistoryFields
    <3> QED BY <1>0, <2>0, <2>1, <2>4, <3>1, FailedProgressKeeps
  <2> QED BY <1>5, <2>3, <2>4 DEF HealthCheckPasses
<1> QED BY <1>1, <1>2, <1>3, <1>4, <1>5

-----------------------------------------------------------------------------
(* The deferred report, the other steps of the worker, and the rest.       *)

\* Whatever the deferred patch does, the stored status is one that was stored
\* before or the one the worker reports.
LEMMA ReportKeeps ==
    ASSUME SafetyInv, Report \/ ReportFails
    PROVE  Consistent'
<1>0. /\ obj \in Kustomization
      /\ UNCHANGED <<objs, account>>
      /\ pc = "defer"
      /\ Live' = Live
  BY DEF SafetyInv, TypeInv, TypeOK, Report, ReportFails, Live
<1>1. /\ pc' = "idle" /\ todo' = {} /\ failed' = {}
      /\ obj'.status.ready = "none"
  BY DEF Report, ReportFails, Release, NoObject, Created, EmptyStatus
<1>2. /\ Whole => ks'.status = ks.status \/ ks'.status = FinalizeStatus(obj)
      /\ (ks.exists /\ ks.deleting => ks.finalizer)'
  <2>1. CASE PatchLands(Reported) \/ PatchErrs(Reported)
    BY <1>0, <2>1, PatchEffects, ReportTyped, ReportFields DEF PatchEffect
  <2>2. CASE UNCHANGED ks
    BY <2>2 DEF SafetyInv, Consistent, Admission
  <2> QED BY <2>1, <2>2 DEF Report, ReportFails
<1>3. Truthful'
  <2>1. Whole /\ ks.status.ready = "True" => OneBuild(ks.status)
    BY DEF SafetyInv, Consistent, Truthful
  <2>2. Whole /\ FinalizeStatus(obj).ready = "True" => OneBuild(FinalizeStatus(obj))
    BY <1>0, ReportFields DEF SafetyInv, Consistent, Truthful, OneBuild, Known
  <2>3. Whole => (ks.status.ready = "True" => OneBuild(ks.status))'
    BY <1>0, <1>2, <2>1, <2>2 DEF OneBuild
  <2> QED BY <1>1, <2>3 DEF Truthful, Whole
<1> QED
  BY <1>1, <1>2, <1>3 DEF Consistent, Bookkeeping, Admission, Remembers, Finalization

\* The worker reads the object, or goes on without touching the status.
LEMMA QuietStepsKeep ==
    ASSUME SafetyInv,
           \/ Dequeue \/ DeclareFinalizer \/ ResolveSource
           \/ StartFinalize \/ AwaitTermination
    PROVE  Consistent'
<1>0. /\ obj \in Kustomization /\ ks \in Kustomization
      /\ UNCHANGED <<ks, objs, account>>
      /\ Live' = Live
  BY DEF SafetyInv, TypeInv, TypeOK, Dequeue, DeclareFinalizer, ResolveSource,
         StartFinalize, AwaitTermination, ApiVars, Live
<1>1. CASE Dequeue
  <2>1. CASE ks.exists
    <3>1. obj' = ks /\ pc' = "read" /\ UNCHANGED <<todo, failed, rev>> /\ pc = "idle"
      BY <1>1, <2>1 DEF Dequeue
    <3> QED
      BY <1>0, <2>1, <3>1
         DEF SafetyInv, Consistent, Bookkeeping, Admission, Remembers, Truthful,
             OneBuild, Finalization, Stored, Known
  <2>2. CASE ~ks.exists
    <3>1. /\ pc' = "idle" /\ UNCHANGED <<todo, failed>> /\ pc = "idle"
          /\ obj'.status.ready = "none"
      BY <1>1, <2>2 DEF Dequeue, NoObject, Created, EmptyStatus
    <3> QED
      BY <1>0, <2>2, <3>1
         DEF SafetyInv, Consistent, Bookkeeping, Admission, Remembers, Truthful,
             OneBuild, Finalization
  <2> QED BY <2>1, <2>2
<1>2. CASE DeclareFinalizer
  <2>1. /\ obj'.status = obj.status /\ obj'.spec = obj.spec
        /\ obj'.finalizer /\ obj'.deleting = obj.deleting /\ ~obj.deleting
        /\ pc = "read" /\ pc' = "defer" /\ UNCHANGED <<todo, failed, rev>>
    BY <1>0, <1>2 DEF DeclareFinalizer, Kustomization
  <2> QED
    BY <1>0, <2>1
       DEF SafetyInv, Consistent, Bookkeeping, Admission, Remembers, Truthful,
           OneBuild, Finalization, Stored, Known
<1>3. CASE ResolveSource
  <2>1. /\ pc = "read" /\ pc' = "deps" /\ UNCHANGED <<obj, todo, failed>>
        /\ obj.finalizer /\ ~obj.deleting
    BY <1>3 DEF ResolveSource, Resolving, Admitted
  <2> QED
    BY <1>0, <2>1
       DEF SafetyInv, Consistent, Bookkeeping, Admission, Remembers, Truthful,
           OneBuild, Finalization, Stored, Known
<1>4. CASE StartFinalize
  <2>1. /\ pc = "read" /\ pc' = "delete" /\ UNCHANGED <<obj, failed, rev>>
        /\ obj.deleting /\ todo' = Known
    BY <1>4 DEF StartFinalize, Finalizing, Known
  <2> QED
    BY <1>0, <2>1
       DEF SafetyInv, Consistent, Bookkeeping, Admission, Remembers, Truthful,
           OneBuild, Finalization, Stored, Known
<1>5. CASE AwaitTermination
  <2>1. /\ pc = "delete" /\ pc' = "terminate" /\ UNCHANGED <<obj, todo, failed, rev>>
        /\ todo = {} /\ failed = {}
    BY <1>5 DEF AwaitTermination, Deleted
  <2> QED
    BY <1>0, <2>1
       DEF SafetyInv, Consistent, Bookkeeping, Admission, Remembers, Truthful,
           OneBuild, Finalization, Stored, Known
<1> QED BY <1>1, <1>2, <1>3, <1>4, <1>5

-----------------------------------------------------------------------------
(* Steps that touch the managed objects.                                   *)

\* Applying an object that the worker has to apply breaks nothing: nothing is
\* reported Ready, and the object becomes one of the resolved revision.
LEMMA ApplyOneKeeps ==
    ASSUME SafetyInv, NEW o \in Objects, ApplyOne(o)
    PROVE  Consistent'
<1>0. /\ UNCHANGED <<ks, account, pc, obj, rev, failed>>
      /\ pc = "apply" /\ todo' = todo \ {o}
      /\ objs \in [Objects -> {"absent", "terminating"} \cup Revisions]
  BY DEF ApplyOne, SafetyInv, TypeInv, TypeOK
<1>1. /\ Stored' = Stored /\ Known' = Known /\ Built' = Built
  BY <1>0 DEF Stored, Known, Built
<1>2. Bookkeeping' /\ Admission' /\ Remembers' /\ Finalization'
  BY <1>0, <1>1
     DEF SafetyInv, Consistent, Bookkeeping, Admission, Remembers, Finalization
<1>3. Truthful'
  <2>1. obj.status.ready = "Unknown" /\ ks.status.ready # "True"
    BY <1>0 DEF SafetyInv, Consistent, Truthful
  <2>2. ASSUME NEW x \in Built \ Ignored, x \in Live'
        PROVE  objs'[x] = rev \/ x \in todo'
    <3>1. x \in Objects
      BY <2>2 DEF Live
    <3>2. CASE x = o
      BY <1>0, <2>2, <3>2, ObjectsAssumption DEF ApplyOne, Live
    <3>3. CASE x # o
      <4>1. objs'[x] = objs[x]
        BY <1>0, <3>1, <3>3 DEF ApplyOne
      <4>2. x \in Live
        BY <2>2, <3>1, <4>1 DEF Live
      <4> QED
        BY <1>0, <2>2, <3>3, <4>1, <4>2 DEF SafetyInv, Consistent, Truthful
    <3> QED BY <3>2, <3>3
  <2> QED BY <1>0, <1>1, <2>1, <2>2 DEF Truthful
<1> QED BY <1>2, <1>3 DEF Consistent

\* The new inventory is the build; what it no longer lists is to be pruned.
LEMMA ApplyDoneKeeps ==
    ASSUME SafetyInv, ApplyDone
    PROVE  Consistent'
<1>0. /\ obj \in Kustomization /\ obj.status \in KustomizationStatus
      /\ UNCHANGED <<ks, objs, account, rev, failed>>
      /\ pc = "apply" /\ pc' = "prune" /\ todo = {} /\ Live' = Live
  BY DEF ApplyDone, SafetyInv, TypeInv, TypeOK, Kustomization, ApiVars, Live
<1>1. /\ obj'.status.inventory = Built
      /\ obj'.status.ready = obj.status.ready
      /\ obj'.spec = obj.spec
      /\ obj'.finalizer = obj.finalizer
      /\ obj'.deleting = obj.deleting
      /\ todo' = IF obj.spec.prune THEN Known \ Built ELSE {}
  BY <1>0 DEF ApplyDone, Diff, Known, Kustomization, KustomizationStatus
<1>2. Known' = Built /\ Built' = Built /\ Stored' = Stored
  BY <1>0, <1>1 DEF Stored, Known, Built
<1>3. Bookkeeping' /\ Finalization' /\ Admission'
  BY <1>0, <1>1 DEF SafetyInv, Consistent, Bookkeeping, Finalization, Admission
<1>4. Remembers'
  <2>1. Stored \subseteq Known
    BY <1>0 DEF SafetyInv, Consistent, Remembers
  <2> QED BY <1>0, <1>1, <1>2, <2>1 DEF Remembers
<1>5. Truthful'
  BY <1>0, <1>1, <1>2 DEF SafetyInv, Consistent, Truthful
<1> QED BY <1>3, <1>4, <1>5 DEF Consistent

\* The objects may only leave the cluster, or start to.
Shrinks ==
    /\ \A o \in Objects : objs'[o] \in Revisions => objs'[o] = objs[o]
    /\ \A o \in Objects : objs[o] = "absent" => objs'[o] = "absent"

\* Objects that leave while the worker does nothing break nothing.
LEMMA ShrinkKeeps ==
    ASSUME SafetyInv, Shrinks,
           UNCHANGED <<ks, account, pc, obj, rev, todo, failed>>
    PROVE  Consistent'
<1>0. /\ Live' \subseteq Live
      /\ \A o \in Live' : objs'[o] = objs[o]
      /\ \A o \in Objects : objs[o] = "absent" => objs'[o] = "absent"
  BY DEF Shrinks, Live
<1>1. Stored' = Stored /\ Known' = Known /\ Built' = Built
  BY DEF Stored, Known, Built
<1>2. Bookkeeping' /\ Admission' /\ Remembers'
  BY <1>0, <1>1 DEF SafetyInv, Consistent, Bookkeeping, Admission, Remembers
<1>3. Truthful'
  BY <1>0, <1>1 DEF SafetyInv, Consistent, Truthful, OneBuild
<1>4. Finalization'
  <2>1. Known \subseteq Objects
    BY DEF SafetyInv, TypeInv, TypeOK, Kustomization, KustomizationStatus, Known
  <2>2. Collected => Collected'
    BY <1>0, <1>1, <2>1 DEF Collected, FinalizerShouldDeleteResources
  <2> QED BY <1>0, <1>1, <2>2 DEF SafetyInv, Consistent, Finalization
<1> QED BY <1>2, <1>3, <1>4 DEF Consistent

\* A DELETE settles its object: it is exempt, gone, going, or remembered.
LEMMA DeleteKeeps ==
    ASSUME SafetyInv, NEW o \in Objects, DeleteOne(o) \/ DeleteRefused(o)
    PROVE  Consistent'
<1>0. /\ UNCHANGED <<ks, account, pc, obj, rev>>
      /\ pc \in {"prune", "delete"}
      /\ todo' = todo \ {o}
      /\ failed' = failed \/ failed' = failed \cup {o}
      /\ objs \in [Objects -> {"absent", "terminating"} \cup Revisions]
  BY DEF DeleteOne, DeleteRefused, ApiVars, SafetyInv, TypeInv, TypeOK
<1>1. Shrinks
  BY <1>0, ObjectsAssumption DEF DeleteOne, DeleteRefused, ApiVars, Shrinks, Live
<1>2. /\ Live' \subseteq Live
      /\ \A x \in Live' : objs'[x] = objs[x]
      /\ o \in Live' => o \in Exempt \/ o \in failed'
      /\ failed \subseteq failed'
  <2>1. Live' \subseteq Live /\ \A x \in Live' : objs'[x] = objs[x]
    BY <1>1 DEF Shrinks, Live
  <2>2. o \in Live' => o \in Exempt \/ o \in failed'
    BY <1>0, ObjectsAssumption DEF DeleteOne, DeleteRefused, Live
  <2> QED BY <1>0, <2>1, <2>2
<1>3. Stored' = Stored /\ Known' = Known /\ Built' = Built
  BY <1>0 DEF Stored, Known, Built
<1>4. Bookkeeping' /\ Admission'
  BY <1>0 DEF SafetyInv, Consistent, Bookkeeping, Admission
<1>5. Remembers'
  <2>1. CASE pc = "prune"
    <3>1. \A x \in Stored : x \in Live =>
             x \in Known \cup Exempt \cup todo \cup failed \/ ~obj.spec.prune
      BY <2>1 DEF SafetyInv, Consistent, Remembers
    <3>2. \A x \in Stored : x \in Live' =>
             x \in Known \cup Exempt \cup todo' \cup failed' \/ ~obj.spec.prune
      BY <1>0, <1>2, <3>1
    <3> QED BY <1>0, <1>3, <2>1, <3>2 DEF Remembers
  <2>2. CASE pc = "delete"
    BY <1>0, <1>3, <2>2 DEF SafetyInv, Consistent, Remembers
  <2> QED BY <1>0, <2>1, <2>2
<1>6. Truthful'
  BY <1>0, <1>2, <1>3 DEF SafetyInv, Consistent, Truthful, OneBuild
<1>7. Finalization'
  BY <1>0, <1>2, <1>3 DEF SafetyInv, Consistent, Finalization
<1> QED BY <1>4, <1>5, <1>6, <1>7 DEF Consistent

\* The finalizer is dropped only when there is nothing to delete, nothing to
\* delete it with, or everything is deleted.
LEMMA RemoveFinalizerKeeps ==
    ASSUME SafetyInv, FinalizeWithoutDelete \/ FinishDelete \/ StopWaiting
    PROVE  Consistent'
<1>0. /\ obj \in Kustomization
      /\ UNCHANGED <<ks, objs, account, rev, todo, failed>>
      /\ pc \in {"read", "delete", "terminate"} /\ pc' = "defer"
      /\ obj.deleting
      /\ todo = {} /\ failed = {}
      /\ Live' = Live
  BY DEF FinalizeWithoutDelete, FinishDelete, StopWaiting, RemoveFinalizer, Deleted,
         ApiVars, SafetyInv, TypeInv, TypeOK, Consistent, Admission, Bookkeeping, Live
<1>1. /\ obj'.status = obj.status /\ obj'.spec = obj.spec
      /\ obj'.deleting = obj.deleting
  BY <1>0 DEF FinalizeWithoutDelete, FinishDelete, StopWaiting, RemoveFinalizer,
              Kustomization
<1>2. Stored' = Stored /\ Known' = Known
  BY <1>0, <1>1 DEF Stored, Known
<1>3. Bookkeeping' /\ Admission'
  BY <1>0 DEF SafetyInv, Consistent, Bookkeeping, Admission
<1>4. Remembers'
  BY <1>0, <1>1, <1>2 DEF SafetyInv, Consistent, Remembers
<1>5. Truthful'
  BY <1>0, <1>1 DEF SafetyInv, Consistent, Truthful, OneBuild
<1>6. Collected
  <2>1. CASE FinalizeWithoutDelete
    BY <2>1 DEF FinalizeWithoutDelete, Collected
  <2>2. CASE FinishDelete
    BY <2>2 DEF FinishDelete, Deleted, SafetyInv, Consistent, Finalization, Collected
  <2>3. CASE StopWaiting
    BY <2>3 DEF StopWaiting, Fault, SafetyInv, Consistent, Finalization, Collected, Known
  <2> QED BY <2>1, <2>2, <2>3
<1>7. Collected'
  BY <1>0, <1>1, <1>2, <1>6 DEF Collected, FinalizerShouldDeleteResources
<1>8. Finalization'
  BY <1>0, <1>1, <1>7 DEF Finalization
<1> QED BY <1>3, <1>4, <1>5, <1>8 DEF Consistent

\* The runtime and the users.
LEMMA EnvironmentKeeps ==
    ASSUME SafetyInv, Environment
    PROVE  Consistent'
<1>0. ks \in Kustomization
  BY DEF SafetyInv, TypeInv, TypeOK
<1>1. ASSUME UNCHANGED <<objs, pc, obj, rev, todo, failed>>,
             account' = account \/ ~account',
             ks'.status = ks.status,
             (ks.exists /\ ks.deleting => ks.finalizer)'
      PROVE  Consistent'
  <2>1. Stored' = Stored /\ Known' = Known /\ Live' = Live /\ Built' = Built
    BY <1>1 DEF Stored, Known, Live, Built
  <2>2. Bookkeeping' /\ Admission' /\ Remembers'
    BY <1>1, <2>1 DEF SafetyInv, Consistent, Bookkeeping, Admission, Remembers
  <2>3. Truthful'
    BY <1>1, <2>1 DEF SafetyInv, Consistent, Truthful, OneBuild
  <2>4. Collected => Collected'
    BY <1>1, <2>1 DEF Collected, FinalizerShouldDeleteResources
  <2>5. Finalization'
    BY <1>1, <2>1, <2>4 DEF SafetyInv, Consistent, Finalization
  <2> QED BY <2>2, <2>3, <2>5 DEF Consistent
<1>a. ks.exists /\ ks.deleting => ks.finalizer
  BY DEF SafetyInv, Consistent, Admission
<1>2. CASE TimerFires \/ LoseAccount
  BY <1>1, <1>2, <1>a DEF TimerFires, LoseAccount, ApiVars, WorkerVars
<1>3. CASE Crash
  <2>1. /\ pc' = "idle" /\ todo' = {} /\ failed' = {}
        /\ obj'.status.ready = "none"
        /\ UNCHANGED <<ks, objs, account>>
    BY <1>3 DEF Crash, Release, NoObject, Created, EmptyStatus, ApiVars
  <2>2. Live' = Live
    BY <2>1 DEF Live
  <2> QED
    BY <1>a, <2>1, <2>2
       DEF SafetyInv, Consistent, Bookkeeping, Admission, Remembers, Truthful,
           OneBuild, Finalization
<1>4. CASE RequestReconcile
  <2>1. /\ ks'.status = ks.status /\ ks'.exists = ks.exists
        /\ ks'.deleting = ks.deleting /\ ks'.finalizer = ks.finalizer
    BY <1>0, <1>4 DEF RequestReconcile, Kustomization
  <2> QED BY <1>1, <1>4, <1>a, <2>1 DEF RequestReconcile, WorkerVars
<1>5. CASE Delete
  <2>1. /\ ks'.status = ks.status
        /\ (ks.exists /\ ks.deleting => ks.finalizer)'
    <3>1. CASE ks.finalizer
      BY <1>0, <1>5, <3>1 DEF Delete, Kustomization
    <3>2. CASE ~ks.finalizer
      BY <1>0, <1>5, <3>2 DEF Delete, Kustomization
    <3> QED BY <3>1, <3>2
  <2> QED BY <1>1, <1>5, <2>1 DEF Delete, WorkerVars
<1>6. ASSUME NEW s \in Specs, EditSpec(s) PROVE Consistent'
  <2>1. /\ ks'.status = ks.status /\ ks'.exists = ks.exists
        /\ ks'.deleting = ks.deleting /\ ks'.finalizer = ks.finalizer
    BY <1>0, <1>6 DEF EditSpec, Kustomization
  <2> QED BY <1>1, <1>6, <1>a, <2>1 DEF EditSpec, WorkerVars
<1>7. ASSUME NEW ref \in SourceRefs, NEW new \in ArtifactStates, MoveSource(ref, new)
      PROVE  Consistent'
  BY <1>1, <1>7, <1>a DEF MoveSource, WorkerVars
<1>8. ASSUME NEW o \in Objects, Drift(o) \/ Terminated(o) PROVE Consistent'
  <2>1. objs \in [Objects -> {"absent", "terminating"} \cup Revisions]
    BY DEF SafetyInv, TypeInv, TypeOK
  <2>2. Shrinks
    BY <1>8, <2>1, ObjectsAssumption DEF Drift, Terminated, Shrinks
  <2> QED BY <1>8, <2>2, ShrinkKeeps DEF Drift, Terminated, WorkerVars
<1> QED
  BY <1>2, <1>3, <1>4, <1>5, <1>6, <1>7, <1>8 DEF Environment

-----------------------------------------------------------------------------
(* The theorems.                                                           *)

\* Every step of the reconciler keeps the invariant.
LEMMA StepKeeps ==
    ASSUME SafetyInv, [Next]_vars
    PROVE  SafetyInv'
<1>1. TypeInv'
  BY TypeStep DEF SafetyInv
<1>2. Consistent'
  <2>1. CASE Reconcile
    BY <2>1, ReturnEffects, ReturnKeeps, PruneFailsKeeps, SkipHealthCheckKeeps,
       PatchStepsKeep, ReportKeeps, QuietStepsKeep, ApplyOneKeeps,
       ApplyDoneKeeps, DeleteKeeps DEF Reconcile
  <2>2. CASE Finalize
    BY <2>2, ReturnEffects, ReturnKeeps, QuietStepsKeep, RemoveFinalizerKeeps
       DEF Finalize
  <2>3. CASE Environment
    BY <2>3, EnvironmentKeeps
  <2>4. CASE UNCHANGED vars
    <3>1. UNCHANGED <<ks, account, pc, obj, rev, todo, failed>> /\ Shrinks
      BY <2>4 DEF vars, Shrinks
    <3> QED BY <3>1, ShrinkKeeps
  <2> QED BY <2>1, <2>2, <2>3, <2>4 DEF Next, Worker
<1> QED BY <1>1, <1>2 DEF SafetyInv

\* The invariant holds initially.
LEMMA InitKeeps ==
    ASSUME Init
    PROVE  SafetyInv
<1>1. TypeInv
  BY TypeInit
<1>2. ~ks.deleting /\ ks.status.ready = "none" /\ obj.status.ready = "none"
  BY DEF Init, NoObject, Created, EmptyStatus
<1>3. Consistent
  BY <1>2
     DEF Init, Consistent, Bookkeeping, Admission, Remembers, Truthful, Finalization
<1> QED BY <1>1, <1>3 DEF SafetyInv

\* Whatever interleaving of reconciliations, failures, crashes and edits: the
\* worker remembers what the stored inventory lists, reports Ready only for one
\* complete build, and drops the finalizer last.
THEOREM SafetyInvariant == Spec => []SafetyInv
<1>1. Init => SafetyInv
  BY InitKeeps
<1>2. SafetyInv /\ [Next]_vars => SafetyInv'
  BY StepKeeps
<1> QED BY <1>1, <1>2, PTL DEF Spec

\* A stored Ready=True always stands for one complete build: StartProgress
\* takes it back before the first object is applied.
THEOREM ReadyIsTruthful == Spec => []ReadyMeansOneBuild
<1>1. SafetyInv => ReadyMeansOneBuild
  BY DEF SafetyInv, Consistent, Truthful, Whole, OneBuild, ReadyMeansOneBuild
<1> QED BY <1>1, SafetyInvariant, PTL

\* A patch of the worker stores the inventory the worker has in mind.
WorkerPatch ==
    /\ pc \in {"deps", "fetch", "build", "prune", "wait", "defer"}
    /\ todo = {} /\ failed = {}
    /\ \E k \in Kustomization :
          /\ k.status.inventory = Known
          /\ k.finalizer = obj.finalizer
          /\ PatchLands(k) \/ PatchErrs(k)

\* Every progress report is such a patch.
LEMMA ReportsArePatches ==
    ASSUME SafetyInv,
           \/ StartProgress \/ FetchArtifact \/ Build \/ StartHealthCheck
           \/ HealthCheckPasses
    PROVE  WorkerPatch
<1>0. /\ obj \in Kustomization /\ ks \in Kustomization
      /\ obj.status \in KustomizationStatus
      /\ rev \in Revisions \cup {NoRevision}
      /\ Bookkeeping
  BY DEF SafetyInv, TypeInv, TypeOK, Consistent, Kustomization
<1>1. ASSUME NEW s \in KustomizationStatus, s.inventory = Known
      PROVE  /\ [obj EXCEPT !.status = s] \in Kustomization
             /\ [obj EXCEPT !.status = s].status.inventory = Known
             /\ [obj EXCEPT !.status = s].finalizer = obj.finalizer
  BY <1>0, <1>1 DEF Kustomization
<1>2. CASE StartProgress
  <2>1. InProgress \in KustomizationStatus /\ InProgress.inventory = Known
    <3>1. /\ MarkReady(obj.status, "Unknown") \in KustomizationStatus
          /\ MarkReady(obj.status, "Unknown").inventory = Known
      BY <1>0, ConditionsTyped, ConditionFields DEF Known
    <3> QED BY <3>1, ConditionsTyped, ConditionFields DEF InProgress
  <2> QED
    BY <1>0, <1>1, <1>2, <2>1
       DEF StartProgress, Progress, ProgressFails, WorkerPatch, Bookkeeping
<1>3. CASE FetchArtifact
  <2>1. /\ [obj.status EXCEPT !.lastAttemptedRevision = rev] \in KustomizationStatus
        /\ [obj.status EXCEPT !.lastAttemptedRevision = rev].inventory = Known
    BY <1>0 DEF KustomizationStatus, Known
  <2>2. Attempted \in KustomizationStatus /\ Attempted.inventory = Known
    BY <2>1, ConditionsTyped, ConditionFields DEF Attempted
  <2> QED
    BY <1>0, <1>1, <1>3, <2>2
       DEF FetchArtifact, Progress, ProgressFails, WorkerPatch, Bookkeeping
<1>4. CASE Build
  <2>1. /\ MarkReconciling(obj.status) \in KustomizationStatus
        /\ MarkReconciling(obj.status).inventory = Known
    BY <1>0, ConditionsTyped, ConditionFields DEF Known
  <2> QED
    BY <1>0, <1>1, <1>4, <2>1
       DEF Build, Progress, ProgressFails, WorkerPatch, Bookkeeping
<1>5. CASE StartHealthCheck
  <2>1. Checking \in KustomizationStatus /\ Checking.inventory = Known
    <3>1. /\ [obj.status EXCEPT !.healthy = "Unknown"] \in KustomizationStatus
          /\ [obj.status EXCEPT !.healthy = "Unknown"].inventory = Known
      BY <1>0, ConditionsTyped, ConditionFields DEF Known
    <3> QED BY <3>1, ConditionsTyped, ConditionFields DEF Checking
  <2> QED
    BY <1>1, <1>5, <2>1 DEF StartHealthCheck, Progress, WorkerPatch, Pruned
<1>6. CASE HealthCheckPasses
  <2>1. Healthy \in KustomizationStatus /\ Healthy.inventory = Known
    BY <1>0, ConditionsTyped, ConditionFields DEF Healthy, Known
  <2> QED
    BY <1>0, <1>1, <1>6, <2>1 DEF HealthCheckPasses, WorkerPatch, Bookkeeping
<1> QED BY <1>2, <1>3, <1>4, <1>5, <1>6

\* The stored status and the last finalizer change in a patch of the worker
\* and in no other step.
LEMMA StatusChanges ==
    ASSUME SafetyInv, [Next]_vars
    PROVE  \/ ks'.status = ks.status /\ (~ks'.exists => ~ks.exists \/ ~ks.deleting)
           \/ WorkerPatch
<1>0. /\ obj \in Kustomization /\ ks \in Kustomization
      /\ obj.status \in KustomizationStatus
      /\ rev \in Revisions \cup {NoRevision}
      /\ Bookkeeping
  BY DEF SafetyInv, TypeInv, TypeOK, Consistent, Kustomization
<1>1. CASE \/ StartProgress \/ FetchArtifact \/ Build \/ StartHealthCheck
           \/ HealthCheckPasses
  BY <1>1, ReportsArePatches
<1>2. CASE Report \/ ReportFails
  <2>1. /\ Reported \in Kustomization
        /\ Reported.status.inventory = Known
        /\ Reported.finalizer = obj.finalizer
    BY <1>0, ReportTyped, ReportFields
  <2>2. CASE PatchLands(Reported) \/ PatchErrs(Reported)
    BY <1>0, <1>2, <2>1, <2>2 DEF Report, ReportFails, WorkerPatch, Bookkeeping
  <2>3. CASE UNCHANGED ks
    BY <2>3
  <2> QED BY <1>2, <2>2, <2>3 DEF Report, ReportFails
<1>3. CASE \/ Dequeue \/ DeclareFinalizer \/ SkipSuspended \/ RejectHealthExprs
           \/ DenySource \/ SourceError \/ SourceNotReady \/ ResolveSource
           \/ RejectReadyExpr \/ DependencyNotReady \/ FetchFails \/ BuildFails
           \/ ApplyFails \/ ApplyDone \/ PruneFails
           \/ \E o \in Objects : ApplyOne(o) \/ DeleteOne(o) \/ DeleteRefused(o)
           \/ SkipHealthCheck \/ HealthCheckFails \/ HealthCheckCanceled
           \/ Finalize
  <2>1. ks' = ks
    BY <1>3
       DEF Dequeue, DeclareFinalizer, SkipSuspended, RejectHealthExprs, DenySource,
           SourceError, SourceNotReady, ResolveSource, RejectReadyExpr,
           DependencyNotReady, FetchFails, BuildFails, ApplyFails, ApplyDone,
           PruneFails, ApplyOne, DeleteOne, DeleteRefused, SkipHealthCheck,
           HealthCheckFails, HealthCheckCanceled, Finalize, FinalizeWithoutDelete,
           FinalizeError, StartFinalize, DeleteFails, FinishDelete,
           AwaitTermination, StopWaiting, ApiVars
  <2> QED BY <2>1
<1>4. CASE Environment
  <2>1. CASE Delete
    <3>1. CASE ks.finalizer
      BY <1>0, <2>1, <3>1 DEF Delete, Kustomization
    <3>2. CASE ~ks.finalizer
      BY <1>0, <2>1, <3>2 DEF Delete, Kustomization
    <3> QED BY <3>1, <3>2
  <2>2. CASE RequestReconcile
    BY <1>0, <2>2 DEF RequestReconcile, Kustomization
  <2>3. ASSUME NEW s \in Specs, EditSpec(s)
        PROVE  ks'.status = ks.status /\ ks'.exists = ks.exists
    BY <1>0, <2>3 DEF EditSpec, Kustomization
  <2>4. CASE \/ TimerFires \/ Crash \/ LoseAccount
             \/ \E ref \in SourceRefs, new \in ArtifactStates : MoveSource(ref, new)
             \/ \E o \in Objects : Drift(o) \/ Terminated(o)
    BY <2>4 DEF TimerFires, Crash, LoseAccount, MoveSource, Drift, Terminated, ApiVars
  <2> QED BY <1>4, <2>1, <2>2, <2>3, <2>4 DEF Environment
<1>5. CASE UNCHANGED vars
  BY <1>5 DEF vars
<1> QED
  BY <1>1, <1>2, <1>3, <1>4, <1>5
     DEF Next, Worker, Reconcile

\* An entry leaves the stored inventory only when its object is not live, is
\* exempt from pruning, or the spec being reconciled does not prune: PruneFails
\* merges back what could not be deleted, and a failed apply changes nothing.
THEOREM InventoryIsKept == Spec => InventoryNeverForgets
<1>1. SafetyInv /\ [Next]_vars =>
         [\A o \in ks.status.inventory \ ks'.status.inventory :
             o \in Live => o \in Exempt \/ ~obj.spec.prune]_vars
  <2> SUFFICES ASSUME SafetyInv, [Next]_vars,
                      NEW o \in ks.status.inventory \ ks'.status.inventory,
                      o \in Live
               PROVE  o \in Exempt \/ ~obj.spec.prune
    OBVIOUS
  <2>1. WorkerPatch
    BY StatusChanges
  <2>2. o \in Stored /\ o \notin Known
    <3>1. PICK k \in Kustomization :
             k.status.inventory = Known /\ (PatchLands(k) \/ PatchErrs(k))
      BY <2>1 DEF WorkerPatch
    <3>2. \/ ks'.status.inventory = Stored
          \/ ks'.status.inventory = k.status.inventory
      BY <3>1, PatchEffects DEF PatchEffect
    <3> QED BY <3>1, <3>2 DEF Stored
  <2> QED BY <2>1, <2>2 DEF WorkerPatch, SafetyInv, Consistent, Remembers
<1> QED BY <1>1, SafetyInvariant, PTL DEF Spec, InventoryNeverForgets

\* A Kustomization under deletion leaves the API server only when what its
\* policy asks to delete is deleted, or cannot be for lack of an account.
THEOREM FinalizerGoesLast == Spec => FinalizedMeansCollected
<1>1. SafetyInv /\ [Next]_vars =>
         [ks.exists /\ ks.deleting /\ ~ks'.exists =>
             \/ ~FinalizerShouldDeleteResources(obj)
             \/ ~account
             \/ \A o \in ks.status.inventory \ Exempt :
                   /\ o \notin Live
                   /\ /\ GetDeletionPolicy(obj.spec) = "WaitForTermination"
                      /\ "termination" \notin Faults
                      => objs[o] = "absent"]_vars
  <2> SUFFICES ASSUME SafetyInv, [Next]_vars,
                      ks.exists, ks.deleting, ~ks'.exists
               PROVE  \/ ~FinalizerShouldDeleteResources(obj)
                      \/ ~account
                      \/ \A o \in Stored \ Exempt :
                            /\ o \notin Live
                            /\ /\ GetDeletionPolicy(obj.spec) = "WaitForTermination"
                               /\ "termination" \notin Faults
                               => objs[o] = "absent"
    BY DEF Stored
  <2>1. WorkerPatch
    BY StatusChanges
  <2>2. ~obj.finalizer
    <3>1. PICK k \in Kustomization :
             k.finalizer = obj.finalizer /\ (PatchLands(k) \/ PatchErrs(k))
      BY <2>1 DEF WorkerPatch
    <3> QED BY <3>1, PatchEffects DEF PatchEffect
  <2>3. pc = "defer" /\ obj.deleting /\ Collected
    BY <2>1, <2>2 DEF WorkerPatch, SafetyInv, Consistent, Admission, Finalization
  <2>4. Stored \subseteq Known
    BY <2>3 DEF SafetyInv, Consistent, Remembers
  <2> QED BY <2>3, <2>4 DEF Collected
<1> QED BY <1>1, SafetyInvariant, PTL DEF Spec, FinalizedMeansCollected
=============================================================================
