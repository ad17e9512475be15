--------------------------- MODULE PromiseProofs ---------------------------
(***************************************************************************)
(* What the reconciler promises its users, for every set of objects, specs *)
(* and faults:                                                             *)
(*   - it implements Ownership, torn patches and crashes included;         *)
(*   - what it may have to prune one day stays tracked;                    *)
(*   - it never stops silently;                                            *)
(*   - what it reports for a generation is what it applied for it.         *)
(***************************************************************************)
EXTENDS ReconcilerProofs

-----------------------------------------------------------------------------
(* Ownership: the inductive invariant.                                     *)

\* The stored object outlives the worker's interest in it: past admission it
\* exists with its finalizer, and whoever owns objects has a finalizer.
Anchored ==
    /\ pc \notin {"idle", "defer"} /\ obj.finalizer => ks.exists /\ ks.finalizer
    /\ ks.exists /\ Stored # {} => ks.finalizer
    /\ pc # "idle" /\ ks.exists /\ Known # {} => ks.finalizer
    /\ pc # "idle" /\ obj.deleting => ks.deleting

\* What the worker is about to delete is in the stored inventory, and the spec it
\* works on asks for it.
Tracks ==
    /\ pc \in {"read", "deps", "fetch", "build", "apply", "delete", "terminate"} =>
          Known \subseteq Stored
    /\ pc = "defer" /\ obj.deleting => Known \subseteq Stored
    /\ pc \in {"prune", "delete"} => todo \subseteq Stored
    /\ pc = "prune" /\ todo # {} => obj.spec.prune
    /\ pc = "delete" => FinalizerShouldDeleteResources(obj)

OwnerInv == SafetyInv /\ Anchored /\ Tracks

-----------------------------------------------------------------------------
(* The invariant is inductive.                                             *)

\* What the finalizers and the existence of the object are after a patch.
LEMMA PatchAnchors ==
    ASSUME SafetyInv, NEW k \in Kustomization, PatchLands(k) \/ PatchErrs(k)
    PROVE  /\ ks.exists
           /\ ks'.deleting = ks.deleting
           /\ ks'.finalizer = ks.finalizer \/ ks'.finalizer = k.finalizer
           /\ ks'.exists = (~ks.deleting \/ ks'.finalizer)
           /\ Stored' = Stored \/ Stored' = k.status.inventory
<1>0. ks \in Kustomization /\ TypeInv /\ ks.exists
  BY DEF SafetyInv, TypeInv, TypeOK, PatchLands, PatchErrs
<1>1. ks' = ks \/ ks' = Persist(k) \/ ks' \in Torn(k)
  BY DEF PatchLands, PatchErrs
<1>2. CASE ks' = ks
  <2>1. ks.deleting => ks.finalizer
    BY <1>0 DEF SafetyInv, Consistent, Admission
  <2>2. ks.exists = (~ks.deleting \/ ks.finalizer)
    BY <1>0, <2>1 DEF Kustomization
  <2> QED BY <1>0, <1>2, <2>2 DEF Stored
<1>3. CASE ks' = Persist(k)
  BY <1>0, <1>3 DEF Persist, Kustomization, Stored
<1>4. CASE ks' \in Torn(k)
  BY <1>0, <1>4, TornTyped DEF Stored
<1> QED BY <1>1, <1>2, <1>3, <1>4

\* An early return, with the inventory of the worker's object as it was.
LEMMA ReturnAnchors ==
    ASSUME OwnerInv, ReturnEffect
    PROVE  Anchored' /\ Tracks'
<1>1. Stored' = Stored /\ Known' = Known /\ ks' = ks
  BY DEF ReturnEffect, Stored, Known
<1>2. ks.exists /\ ks.finalizer
  BY DEF OwnerInv, Anchored, ReturnEffect
<1>3. obj.deleting => pc \in {"read", "delete"}
  BY DEF OwnerInv, SafetyInv, Consistent, Admission, ReturnEffect
<1>4. Anchored'
  BY <1>1, <1>2 DEF OwnerInv, Anchored, ReturnEffect
<1>5. Tracks'
  BY <1>1, <1>3 DEF OwnerInv, Tracks, ReturnEffect
<1> QED BY <1>4, <1>5

\* The ends of an attempt that has pruned.
LEMMA PrunedAnchors ==
    ASSUME OwnerInv, PruneFails \/ SkipHealthCheck
    PROVE  Anchored' /\ Tracks'
<1>0. obj \in Kustomization
  BY DEF OwnerInv, SafetyInv, TypeInv, TypeOK
<1>1. PICK s, res : Return(s, res)
  BY DEF PruneFails, SkipHealthCheck
<1>2. ks' = ks /\ pc = "prune"
  BY DEF PruneFails, SkipHealthCheck, Pruned, ApiVars
<1>3. /\ obj'.finalizer = obj.finalizer /\ obj'.deleting = obj.deleting
      /\ pc' = "defer"
  BY <1>0, <1>1, ReturnFields
<1>4. obj.finalizer /\ ~obj.deleting
  BY <1>2 DEF OwnerInv, SafetyInv, Consistent, Admission
<1>5. ks.exists /\ ks.finalizer
  BY <1>2, <1>4 DEF OwnerInv, Anchored
<1>6. Anchored'
  BY <1>2, <1>3, <1>4, <1>5 DEF Anchored
<1>7. Tracks'
  BY <1>3, <1>4 DEF Tracks
<1> QED BY <1>6, <1>7

\* The progress reports before the apply leave the inventory alone.
LEMMA EarlyReports ==
    ASSUME SafetyInv
    PROVE  /\ InProgress.inventory = Known
           /\ Attempted.inventory = Known
           /\ MarkReconciling(obj.status).inventory = Known
<1>0. obj.status \in KustomizationStatus /\ rev \in Revisions \cup {NoRevision}
  BY DEF SafetyInv, TypeInv, TypeOK, Kustomization
<1> QED
  BY <1>0 DEF InProgress, Attempted, MarkReconciling, MarkReady, KustomizationStatus,
              Known

\* A progress report, landed, refused or torn.
LEMMA ProgressAnchors ==
    ASSUME OwnerInv,
           \/ StartProgress \/ FetchArtifact \/ Build \/ StartHealthCheck
           \/ HealthCheckPasses
    PROVE  Anchored' /\ Tracks'
<1>0. obj \in Kustomization /\ ks \in Kustomization /\ SafetyInv
  BY DEF OwnerInv, SafetyInv, TypeInv, TypeOK
<1>1. /\ pc \in {"deps", "fetch", "build", "prune", "wait"}
      /\ WorkerPatch
  BY <1>0, ReportsArePatches
     DEF StartProgress, FetchArtifact, Build, StartHealthCheck, HealthCheckPasses,
         Pruned
<1>2. obj.finalizer /\ ~obj.deleting /\ ks.exists /\ ks.finalizer
  BY <1>1 DEF OwnerInv, SafetyInv, Consistent, Admission, Anchored
<1>3. /\ ks'.finalizer = TRUE /\ ks'.exists /\ ks'.deleting = ks.deleting
      /\ Stored' = Stored \/ Stored' = Known
  <2>1. PICK k \in Kustomization :
           /\ k.status.inventory = Known /\ k.finalizer = obj.finalizer
           /\ PatchLands(k) \/ PatchErrs(k)
    BY <1>1 DEF WorkerPatch
  <2>2. /\ ks'.deleting = ks.deleting
        /\ ks'.finalizer = ks.finalizer \/ ks'.finalizer = k.finalizer
        /\ ks'.exists = (~ks.deleting \/ ks'.finalizer)
        /\ Stored' = Stored \/ Stored' = k.status.inventory
    BY <1>0, <2>1, PatchAnchors
  <2>3. ks.finalizer = TRUE /\ obj.finalizer = TRUE
    BY <1>0, <1>2 DEF Kustomization
  <2> QED BY <2>1, <2>2, <2>3
<1>4. ASSUME NEW s, NEW next, Progress(s, next)
      PROVE  /\ obj'.finalizer = obj.finalizer /\ obj'.deleting = obj.deleting
             /\ obj'.status = s /\ pc' = next
  BY <1>0, <1>4 DEF Progress, Kustomization
<1>5. ASSUME NEW s, NEW res, Return(s, res)
      PROVE  Anchored' /\ Tracks'
  <2>1. /\ obj'.finalizer = obj.finalizer /\ obj'.deleting = obj.deleting
        /\ pc' = "defer"
    BY <1>0, <1>5, ReturnFields
  <2>2. Anchored'
    BY <1>2, <1>3, <2>1 DEF Anchored
  <2>3. Tracks'
    BY <1>2, <2>1 DEF Tracks
  <2> QED BY <2>2, <2>3
<1>6. ASSUME NEW s, NEW next, Progress(s, next), s.inventory = Known,
             pc \in {"deps", "fetch", "build"}, next \in {"fetch", "build", "apply"}
      PROVE  Anchored' /\ Tracks'
  <2>1. Known = Stored
    BY <1>6 DEF OwnerInv, SafetyInv, Consistent, Remembers, Tracks
  <2>2. /\ Known' = Known /\ pc' = next
        /\ obj'.finalizer = obj.finalizer /\ obj'.deleting = obj.deleting
    BY <1>4, <1>6 DEF Known
  <2>3. Anchored'
    BY <1>2, <1>3, <2>2 DEF Anchored
  <2>4. Tracks'
    BY <1>2, <1>3, <1>6, <2>1, <2>2 DEF Tracks
  <2> QED BY <2>3, <2>4
<1>7. ASSUME NEW s, Progress(s, "wait")
      PROVE  Anchored' /\ Tracks'
  <2>1. /\ pc' = "wait"
        /\ obj'.finalizer = obj.finalizer /\ obj'.deleting = obj.deleting
    BY <1>4, <1>7
  <2>2. Anchored'
    BY <1>2, <1>3, <2>1 DEF Anchored
  <2>3. Tracks'
    BY <2>1 DEF Tracks
  <2> QED BY <2>2, <2>3
<1>8. CASE StartProgress
  BY <1>0, <1>5, <1>6, <1>8, EarlyReports DEF StartProgress, ProgressFails
<1>9. CASE FetchArtifact
  BY <1>0, <1>5, <1>6, <1>9, EarlyReports DEF FetchArtifact, ProgressFails
<1>10. CASE Build
  BY <1>0, <1>5, <1>6, <1>10, EarlyReports DEF Build, ProgressFails
<1>11. CASE StartHealthCheck
  BY <1>5, <1>7, <1>11 DEF StartHealthCheck
<1>12. CASE HealthCheckPasses
  BY <1>5, <1>12 DEF HealthCheckPasses
<1> QED BY <1>8, <1>9, <1>10, <1>11, <1>12

\* The deferred report.  The finalizer may land without the status, and the
\* status without the finalizer.
LEMMA ReportAnchors ==
    ASSUME OwnerInv, Report \/ ReportFails
    PROVE  Anchored' /\ Tracks'
<1>0. /\ obj \in Kustomization /\ ks \in Kustomization /\ SafetyInv
      /\ pc = "defer" /\ pc' = "idle"
  BY DEF OwnerInv, SafetyInv, TypeInv, TypeOK, Report, ReportFails, Release
<1>1. Tracks'
  BY <1>0 DEF Tracks
<1>2. CASE UNCHANGED ks
  <2>1. Stored' = Stored
    BY <1>2 DEF Stored
  <2> QED BY <1>0, <1>1, <1>2, <2>1 DEF OwnerInv, Anchored
<1>3. CASE PatchLands(Reported) \/ PatchErrs(Reported)
  <2>1. /\ Reported \in Kustomization /\ Reported.status.inventory = Known
        /\ Reported.finalizer = obj.finalizer
    BY <1>0, ReportTyped, ReportFields
  <2>2. /\ ks.exists /\ ks'.deleting = ks.deleting
        /\ ks'.finalizer = ks.finalizer \/ ks'.finalizer = obj.finalizer
        /\ ks'.exists = (~ks.deleting \/ ks'.finalizer)
        /\ Stored' = Stored \/ Stored' = Known
    BY <1>0, <1>3, <2>1, PatchAnchors
  <2>3. Stored # {} \/ Known # {} => ks.finalizer
    BY <1>0, <2>2 DEF OwnerInv, Anchored
  <2>4. CASE obj.finalizer
    BY <1>0, <1>1, <2>2, <2>3, <2>4 DEF Anchored
  <2>5. CASE ~obj.finalizer
    <3>1. ks.deleting
      BY <1>0, <2>5 DEF OwnerInv, Anchored, SafetyInv, Consistent, Finalization
    <3> QED BY <1>0, <1>1, <2>2, <3>1 DEF Anchored
  <2> QED BY <2>4, <2>5
<1> QED BY <1>2, <1>3 DEF Report, ReportFails

\* The worker reads the object, or goes on in memory.
LEMMA QuietAnchors ==
    ASSUME OwnerInv,
           \/ Dequeue \/ DeclareFinalizer \/ ResolveSource
           \/ StartFinalize \/ AwaitTermination
    PROVE  Anchored' /\ Tracks'
<1>0. /\ obj \in Kustomization /\ ks \in Kustomization /\ SafetyInv
      /\ Anchored /\ Tracks
  BY DEF OwnerInv, SafetyInv, TypeInv, TypeOK
<1>s. ks' = ks /\ Stored' = Stored
  BY DEF Dequeue, DeclareFinalizer, ResolveSource, StartFinalize, AwaitTermination,
         ApiVars, Stored
<1>1. CASE Dequeue
  <2>1. \/ pc' = "idle"
        \/ pc' = "read" /\ obj' = ks /\ ks.exists
    BY <1>1 DEF Dequeue
  <2>2. CASE pc' = "idle"
    BY <1>0, <1>s, <2>2 DEF Anchored, Tracks
  <2>3. CASE pc' = "read" /\ obj' = ks /\ ks.exists
    <3>1. Known' = Stored
      BY <2>3 DEF Known, Stored
    <3>2. Anchored'
      BY <1>0, <1>s, <2>3, <3>1 DEF Anchored
    <3>3. Tracks'
      BY <1>s, <2>3, <3>1 DEF Tracks
    <3> QED BY <3>2, <3>3
  <2> QED BY <2>1, <2>2, <2>3
<1>2. CASE DeclareFinalizer
  <2>1. /\ pc = "read" /\ pc' = "defer" /\ ~obj.deleting
        /\ obj'.deleting = obj.deleting /\ Known' = Known
    BY <1>0, <1>2 DEF DeclareFinalizer, Kustomization, Known
  <2> QED BY <1>0, <1>s, <2>1 DEF Anchored, Tracks
<1>3. CASE ResolveSource
  <2>1. /\ pc = "read" /\ pc' = "deps" /\ obj' = obj /\ Known' = Known
        /\ obj.finalizer
    BY <1>3 DEF ResolveSource, Resolving, Admitted, Known
  <2> QED BY <1>0, <1>s, <2>1 DEF Anchored, Tracks
<1>4. CASE StartFinalize
  <2>1. /\ pc = "read" /\ pc' = "delete" /\ obj' = obj /\ Known' = Known
        /\ todo' = Known /\ FinalizerShouldDeleteResources(obj) /\ obj.deleting
    BY <1>4 DEF StartFinalize, Finalizing, Known
  <2>2. FinalizerShouldDeleteResources(obj)'
    BY <2>1 DEF FinalizerShouldDeleteResources, GetDeletionPolicy
  <2>3. Anchored'
    BY <1>0, <1>s, <2>1 DEF Anchored
  <2>4. Tracks'
    BY <1>0, <1>s, <2>1, <2>2 DEF Tracks
  <2> QED BY <2>3, <2>4
<1>5. CASE AwaitTermination
  <2>1. /\ pc = "delete" /\ pc' = "terminate" /\ obj' = obj /\ Known' = Known
    BY <1>5 DEF AwaitTermination, Deleted, Known
  <2> QED BY <1>0, <1>s, <2>1 DEF Anchored, Tracks
<1> QED BY <1>1, <1>2, <1>3, <1>4, <1>5

\* Applying and deleting: the garbage is what the stored inventory lists beyond
\* the build.
LEMMA ObjectsAnchor ==
    ASSUME OwnerInv,
           \/ \E o \in Objects : ApplyOne(o) \/ DeleteOne(o) \/ DeleteRefused(o)
           \/ ApplyDone
    PROVE  Anchored' /\ Tracks'
<1>0. /\ obj \in Kustomization /\ SafetyInv /\ Anchored /\ Tracks
  BY DEF OwnerInv, SafetyInv, TypeInv, TypeOK
<1>1. ASSUME NEW o \in Objects, ApplyOne(o) \/ DeleteOne(o) \/ DeleteRefused(o)
      PROVE  Anchored' /\ Tracks'
  <2>1. /\ UNCHANGED <<ks, pc, obj>> /\ todo' \subseteq todo
        /\ Stored' = Stored /\ Known' = Known
    BY <1>1 DEF ApplyOne, DeleteOne, DeleteRefused, ApiVars, Stored, Known
  <2>2. FinalizerShouldDeleteResources(obj)' = FinalizerShouldDeleteResources(obj)
    BY <2>1 DEF FinalizerShouldDeleteResources, GetDeletionPolicy
  <2> QED BY <1>0, <2>1, <2>2 DEF Anchored, Tracks
<1>2. CASE ApplyDone
  <2>1. /\ pc = "apply" /\ pc' = "prune" /\ ks' = ks /\ Stored' = Stored
        /\ obj'.finalizer = obj.finalizer /\ obj'.deleting = obj.deleting
        /\ obj'.spec = obj.spec
        /\ todo' \subseteq Known
        /\ todo' # {} => obj.spec.prune
    BY <1>0, <1>2 DEF ApplyDone, Diff, ApiVars, Kustomization, Known, Stored
  <2>2. obj.finalizer /\ ~obj.deleting
    BY <1>0, <2>1 DEF SafetyInv, Consistent, Admission
  <2>3. Anchored'
    BY <1>0, <2>1, <2>2 DEF Anchored
  <2>4. Tracks'
    BY <1>0, <2>1, <2>2 DEF Tracks
  <2> QED BY <2>3, <2>4
<1> QED BY <1>1, <1>2

\* finalize drops the finalizer in memory.
LEMMA RemoveAnchors ==
    ASSUME OwnerInv, FinalizeWithoutDelete \/ FinishDelete \/ StopWaiting
    PROVE  Anchored' /\ Tracks'
<1>0. obj \in Kustomization /\ SafetyInv /\ Anchored /\ Tracks
  BY DEF OwnerInv, SafetyInv, TypeInv, TypeOK
<1>1. /\ pc \in {"read", "delete", "terminate"} /\ pc' = "defer" /\ ks' = ks
      /\ obj'.deleting = obj.deleting /\ Known' = Known /\ Stored' = Stored
  BY <1>0 DEF FinalizeWithoutDelete, FinishDelete, StopWaiting, RemoveFinalizer,
     Deleted, ApiVars, Kustomization, Known, Stored
<1> QED BY <1>0, <1>1 DEF Anchored, Tracks

\* Users, sources and the cluster leave the worker and the inventory alone; an
\* object that owns something is only marked for deletion.
LEMMA EnvironmentAnchors ==
    ASSUME OwnerInv, Environment
    PROVE  Anchored' /\ Tracks'
<1>0. /\ ks \in Kustomization /\ SafetyInv /\ Anchored /\ Tracks
  BY DEF OwnerInv, SafetyInv, TypeInv, TypeOK
<1>1. ASSUME UNCHANGED <<pc, obj, todo>>, ks'.status = ks.status,
             ks'.finalizer = ks.finalizer, ks.deleting => ks'.deleting,
             ks.finalizer /\ ks.exists => ks'.exists, ks'.exists => ks.exists
      PROVE  Anchored' /\ Tracks'
  <2>1. Known' = Known /\ Stored' = Stored
    BY <1>1 DEF Known, Stored
  <2>2. FinalizerShouldDeleteResources(obj)' = FinalizerShouldDeleteResources(obj)
    BY <1>1 DEF FinalizerShouldDeleteResources, GetDeletionPolicy
  <2>3. Anchored'
    BY <1>0, <1>1, <2>1 DEF Anchored
  <2>4. Tracks'
    BY <1>0, <1>1, <2>1, <2>2 DEF Tracks
  <2> QED BY <2>3, <2>4
<1>2. CASE Crash
  <2>1. pc' = "idle" /\ ks' = ks /\ Stored' = Stored
    BY <1>2 DEF Crash, Release, ApiVars, Stored
  <2> QED BY <1>0, <2>1 DEF Anchored, Tracks
<1>3. CASE Delete
  <2>1. CASE ks.finalizer
    BY <1>0, <1>1, <1>3, <2>1 DEF Delete, WorkerVars, Kustomization
  <2>2. CASE ~ks.finalizer
    BY <1>0, <1>1, <1>3, <2>2 DEF Delete, WorkerVars, Kustomization
  <2> QED BY <2>1, <2>2
<1>4. CASE RequestReconcile
  BY <1>0, <1>1, <1>4 DEF RequestReconcile, WorkerVars, Kustomization
<1>5. ASSUME NEW s \in Specs, EditSpec(s) PROVE Anchored' /\ Tracks'
  BY <1>0, <1>1, <1>5 DEF EditSpec, WorkerVars, Kustomization
<1>6. CASE \/ TimerFires \/ LoseAccount
           \/ \E ref \in SourceRefs, new \in ArtifactStates : MoveSource(ref, new)
           \/ \E o \in Objects : Drift(o) \/ Terminated(o)
  <2>1. UNCHANGED <<ks, pc, obj, todo>>
    BY <1>6 DEF TimerFires, LoseAccount, MoveSource, Drift, Terminated, ApiVars,
       WorkerVars
  <2> QED BY <1>1, <2>1
<1> QED BY <1>2, <1>3, <1>4, <1>5, <1>6 DEF Environment

\* Every step keeps the invariant.
LEMMA OwnerStep ==
    ASSUME OwnerInv, [Next]_vars
    PROVE  OwnerInv'
<1>1. SafetyInv'
  BY StepKeeps DEF OwnerInv
<1>2. Anchored' /\ Tracks'
  <2>1. CASE Reconcile
    BY <2>1, ReturnEffects, ReturnAnchors, PrunedAnchors, ProgressAnchors,
       ReportAnchors, QuietAnchors, ObjectsAnchor DEF Reconcile, OwnerInv
  <2>2. CASE Finalize
    BY <2>2, ReturnEffects, ReturnAnchors, QuietAnchors, RemoveAnchors
       DEF Finalize, OwnerInv
  <2>3. CASE Environment
    BY <2>3, EnvironmentAnchors
  <2>4. CASE UNCHANGED vars
    BY <2>4 DEF vars, OwnerInv, Anchored, Tracks, Known, Stored,
       FinalizerShouldDeleteResources, GetDeletionPolicy
  <2> QED BY <2>1, <2>2, <2>3, <2>4 DEF Next, Worker
<1> QED BY <1>1, <1>2 DEF OwnerInv

\* The invariant holds initially.
LEMMA OwnerInit ==
    ASSUME Init
    PROVE  OwnerInv
<1>1. SafetyInv
  BY InitKeeps
<1>2. Stored = {} /\ pc = "idle"
  BY DEF Init, Created, EmptyStatus, Stored
<1> QED BY <1>1, <1>2 DEF OwnerInv, Anchored, Tracks

-----------------------------------------------------------------------------
(* Every step maps to a step of Ownership.                                 *)

\* What the worker works on, as the abstract specification sees it.
LEMMA PolicyTyped ==
    ASSUME NEW k \in Kustomization, NEW reachable \in BOOLEAN
    PROVE  [prune |-> k.spec.prune,
            finalizing |-> k.deleting,
            delete |-> k.deleting /\ FinalizerShouldDeleteResources(k),
            await |-> /\ GetDeletionPolicy(k.spec) = "WaitForTermination"
                      /\ "termination" \notin Faults,
            reachable |-> reachable] \in Owner!Policy
<1>1. k.spec.prune \in BOOLEAN /\ k.deleting \in BOOLEAN
  BY SpecsAssumption DEF Kustomization, KustomizationSpec
<1>2. (k.deleting /\ FinalizerShouldDeleteResources(k)) \in BOOLEAN
  OBVIOUS
<1>3. (/\ GetDeletionPolicy(k.spec) = "WaitForTermination"
       /\ "termination" \notin Faults) \in BOOLEAN
  OBVIOUS
<1> HIDE DEF FinalizerShouldDeleteResources, GetDeletionPolicy
<1> QED BY <1>1, <1>2, <1>3 DEF Owner!Policy

\* An object that is live after a revision was written to it.
LEMMA LiveView ==
    ASSUME NEW o \in Objects, objs \in [Objects -> {"absent", "terminating"} \cup Revisions]
    PROVE  /\ ClusterView[o] = "live" <=> o \in Live
           /\ ClusterView[o] = "terminating" <=> objs[o] = "terminating"
           /\ ClusterView[o] = "absent" <=> objs[o] = "absent"
BY ObjectsAssumption DEF ClusterView, Live

\* A step that leaves the objects, the inventory and the existence alone.
LEMMA Unseen ==
    ASSUME UNCHANGED <<ks, objs>>
    PROVE  Owner!Decide
BY DEF Owner!Decide, ClusterView, Live

\* Applying, deleting and losing an object.
LEMMA ObjectStepMaps ==
    ASSUME OwnerInv, NEW o \in Objects,
           \/ ApplyOne(o) \/ DeleteOne(o) \/ DeleteRefused(o)
           \/ Drift(o) \/ Terminated(o)
    PROVE  Owner!Apply(o) \/ Owner!Collect(o) \/ Owner!Vanish(o) \/ Owner!Decide
<1>0. /\ obj \in Kustomization /\ SafetyInv /\ Anchored /\ Tracks
      /\ objs \in [Objects -> {"absent", "terminating"} \cup Revisions]
      /\ ks' = ks
  BY DEF OwnerInv, SafetyInv, TypeInv, TypeOK, ApplyOne, DeleteOne, DeleteRefused,
         Drift, Terminated, ApiVars
<1>1. CASE objs' = objs
  BY <1>0, <1>1, Unseen
<1>2. CASE ApplyOne(o) /\ objs' # objs
  <2>1. /\ pc = "apply" /\ objs[o] # "terminating" /\ rev \in Revisions
        /\ objs' = [objs EXCEPT ![o] = rev]
    BY <1>0, <1>2 DEF ApplyOne, SafetyInv, TypeInv, TypeOK
  <2>2. ks.exists
    BY <1>0, <2>1 DEF Anchored, SafetyInv, Consistent, Admission
  <2>3. ClusterView[o] # "terminating"
    BY <1>0, <2>1, LiveView
  <2>4. ClusterView' = [ClusterView EXCEPT ![o] = "live"]
    BY <1>0, <2>1 DEF ClusterView, Live
  <2> QED BY <1>0, <2>2, <2>3, <2>4 DEF Owner!Apply
<1>3. CASE DeleteOne(o) /\ objs' # objs
  <2>1. /\ pc \in {"prune", "delete"} /\ o \in todo /\ o \notin Exempt /\ o \in Live
        /\ objs' = [objs EXCEPT ![o] = "terminating"]
    BY <1>3 DEF DeleteOne
  <2>2. ks.exists
    BY <1>0, <2>1 DEF Anchored, SafetyInv, Consistent, Admission
  <2>3. o \in ks.status.inventory
    BY <1>0, <2>1 DEF Tracks, Stored
  <2>4. PolicyView.prune \/ PolicyView.delete
    BY <1>0, <2>1 DEF Tracks, PolicyView, SafetyInv, Consistent, Admission
  <2>5. ClusterView[o] = "live"
    BY <1>0, <2>1, LiveView
  <2>6. ClusterView' = [ClusterView EXCEPT ![o] = "terminating"]
    BY <1>0, <2>1, ObjectsAssumption DEF ClusterView, Live
  <2> QED BY <1>0, <2>1, <2>2, <2>3, <2>4, <2>5, <2>6 DEF Owner!Collect
<1>4. CASE Drift(o) \/ Terminated(o)
  <2>1. objs' = [objs EXCEPT ![o] = "absent"] /\ objs[o] # "absent"
    BY <1>4, ObjectsAssumption DEF Drift, Terminated, Live
  <2>2. ClusterView[o] # "absent"
    BY <1>0, <2>1, LiveView
  <2>3. ClusterView' = [ClusterView EXCEPT ![o] = "absent"]
    BY <1>0, <2>1, ObjectsAssumption DEF ClusterView, Live
  <2> QED BY <1>0, <2>2, <2>3 DEF Owner!Vanish
<1>5. DeleteRefused(o) => objs' = objs
  BY DEF DeleteRefused, ApiVars
<1> QED BY <1>1, <1>2, <1>3, <1>4, <1>5

\* A patch stores an inventory, or is the end of the Kustomization.
LEMMA PatchMaps ==
    ASSUME OwnerInv, WorkerPatch, UNCHANGED objs
    PROVE  Owner!Record \/ Owner!Leave
<1>0. /\ obj \in Kustomization /\ ks \in Kustomization /\ SafetyInv
      /\ objs \in [Objects -> {"absent", "terminating"} \cup Revisions]
  BY DEF OwnerInv, SafetyInv, TypeInv, TypeOK
<1>1. PICK k \in Kustomization :
         /\ k.status.inventory = Known /\ k.finalizer = obj.finalizer
         /\ PatchLands(k) \/ PatchErrs(k)
  BY DEF WorkerPatch
<1>2. /\ ks.exists
      /\ Stored' = Stored \/ Stored' = Known
      /\ ks'.exists \in BOOLEAN
      /\ ~ks'.exists => ks.deleting /\ ~obj.finalizer
  <2>1. KsTyped'
    BY <1>0, <1>1, PatchTyped DEF SafetyInv
  <2> QED
    BY <1>0, <1>1, <2>1, PatchAnchors, PatchEffects
       DEF PatchEffect, KsTyped, Kustomization
<1>3. ClusterView' = ClusterView
  BY DEF ClusterView, Live
<1>4. CASE ks'.exists
  <2>1. Stored' \in SUBSET Objects
    BY <1>0, <1>2 DEF Kustomization, KustomizationStatus, Stored, Known
  <2>2. ASSUME NEW o \in Stored \ Stored', ClusterView[o] = "live"
        PROVE  o \in Exempt \/ ~PolicyView.prune
    <3>1. o \in Objects /\ o \notin Known /\ o \in Stored
      BY <1>0, <1>2, <2>2 DEF Kustomization, KustomizationStatus, Stored, Known
    <3>2. o \in Live
      BY <1>0, <2>2, <3>1, LiveView
    <3> QED
      BY <1>0, <3>1, <3>2 DEF PolicyView, WorkerPatch, SafetyInv, Consistent, Remembers
  <2>3. ks'.exists = ks.exists
    BY <1>0, <1>2, <1>4 DEF Kustomization
  <2> QED BY <1>2, <1>3, <2>1, <2>2, <2>3 DEF Owner!Record, Stored
<1>5. CASE ~ks'.exists
  <2>1. pc = "defer" /\ obj.deleting /\ Collected
    BY <1>0, <1>2, <1>5 DEF WorkerPatch, SafetyInv, Consistent, Admission, Finalization
  <2>2. Known = Stored
    BY <1>0, <2>1 DEF OwnerInv, Tracks, SafetyInv, Consistent, Remembers
  <2>3. ks'.exists = FALSE
    BY <1>2, <1>5
  <2>4. PolicyView.finalizing
    BY <2>1 DEF PolicyView
  <2>5. ASSUME PolicyView.delete, PolicyView.reachable, NEW o \in Stored \ Exempt
        PROVE  /\ ClusterView[o] # "live"
               /\ PolicyView.await => ClusterView[o] = "absent"
    <3>1. o \in Objects
      BY <1>0, <2>5 DEF Kustomization, KustomizationStatus, Stored
    <3>2. /\ o \notin Live
          /\ /\ GetDeletionPolicy(obj.spec) = "WaitForTermination"
             /\ "termination" \notin Faults
             => objs[o] = "absent"
      BY <2>1, <2>2, <2>5 DEF Collected, PolicyView
    <3> QED BY <1>0, <3>1, <3>2, LiveView DEF PolicyView
  <2> QED BY <1>2, <1>3, <2>2, <2>3, <2>4, <2>5 DEF Owner!Leave, Stored
<1> QED BY <1>4, <1>5

\* A user who deletes a Kustomization without a finalizer leaves nothing behind;
\* the other steps of users and sources change nothing that is owned.
LEMMA UserMaps ==
    ASSUME OwnerInv,
           \/ TimerFires \/ Crash \/ RequestReconcile \/ Delete \/ LoseAccount
           \/ \E s \in Specs : EditSpec(s)
           \/ \E ref \in SourceRefs, new \in ArtifactStates : MoveSource(ref, new)
    PROVE  Owner!Leave \/ Owner!Decide
<1>0. ks \in Kustomization /\ Anchored
  BY DEF OwnerInv, SafetyInv, TypeInv, TypeOK
<1>1. UNCHANGED objs
  BY DEF TimerFires, Crash, RequestReconcile, Delete, LoseAccount, EditSpec,
         MoveSource, ApiVars
<1>2. ClusterView' = ClusterView
  BY <1>1 DEF ClusterView, Live
<1>3. CASE Delete
  <2>1. CASE ks.finalizer
    <3>1. ks'.exists = ks.exists /\ ks'.status = ks.status
      BY <1>0, <1>3, <2>1 DEF Delete, Kustomization
    <3> QED BY <1>2, <3>1 DEF Owner!Decide
  <2>2. CASE ~ks.finalizer
    <3>1. ks.exists /\ ks'.exists = FALSE /\ ks'.status = ks.status
      BY <1>0, <1>3, <2>2 DEF Delete, Kustomization
    <3>2. ks.status.inventory = {}
      BY <1>0, <2>2, <3>1 DEF Anchored, Stored
    <3> QED BY <1>2, <3>1, <3>2 DEF Owner!Leave
  <2> QED BY <2>1, <2>2
<1>4. CASE RequestReconcile \/ \E s \in Specs : EditSpec(s)
  <2>1. ks'.exists = ks.exists /\ ks'.status = ks.status
    BY <1>0, <1>4 DEF RequestReconcile, EditSpec, Kustomization
  <2> QED BY <1>2, <2>1 DEF Owner!Decide
<1>5. CASE \/ TimerFires \/ Crash \/ LoseAccount
           \/ \E ref \in SourceRefs, new \in ArtifactStates : MoveSource(ref, new)
  <2>1. UNCHANGED ks
    BY <1>5 DEF TimerFires, Crash, LoseAccount, MoveSource, ApiVars
  <2> QED BY <1>1, <2>1, Unseen
<1> QED BY <1>3, <1>4, <1>5

\* The worker's steps in memory, and its patches.
LEMMA WorkerMaps ==
    ASSUME OwnerInv, Worker
    PROVE  \/ \E o \in Objects : Owner!Apply(o) \/ Owner!Collect(o) \/ Owner!Vanish(o)
           \/ Owner!Record \/ Owner!Leave \/ Owner!Decide
<1>0. SafetyInv /\ obj \in Kustomization
  BY DEF OwnerInv, SafetyInv, TypeInv, TypeOK
<1>1. CASE \/ StartProgress \/ FetchArtifact \/ Build \/ StartHealthCheck
           \/ HealthCheckPasses
  <2>1. UNCHANGED objs
    BY <1>1 DEF StartProgress, FetchArtifact, Build, StartHealthCheck, HealthCheckPasses
  <2>2. WorkerPatch
    BY <1>0, <1>1, ReportsArePatches
  <2> QED BY <2>1, <2>2, PatchMaps
<1>2. CASE Report \/ ReportFails
  <2>1. UNCHANGED objs
    BY <1>2 DEF Report, ReportFails
  <2>2. CASE UNCHANGED ks
    BY <2>1, <2>2, Unseen
  <2>3. CASE PatchLands(Reported) \/ PatchErrs(Reported)
    <3>1. /\ Reported \in Kustomization
          /\ Reported.status.inventory = Known
          /\ Reported.finalizer = obj.finalizer
      BY <1>0, ReportTyped, ReportFields
    <3>2. WorkerPatch
      BY <1>0, <1>2, <2>3, <3>1
         DEF Report, ReportFails, WorkerPatch, SafetyInv, Consistent, Bookkeeping
    <3> QED BY <2>1, <3>2, PatchMaps
  <2> QED BY <1>2, <2>2, <2>3 DEF Report, ReportFails
<1>3. CASE \E o \in Objects : ApplyOne(o) \/ DeleteOne(o) \/ DeleteRefused(o)
  BY <1>3, ObjectStepMaps
<1>4. CASE \/ Dequeue \/ DeclareFinalizer \/ SkipSuspended \/ RejectHealthExprs
           \/ DenySource \/ SourceError \/ SourceNotReady \/ ResolveSource
           \/ RejectReadyExpr \/ DependencyNotReady \/ FetchFails \/ BuildFails
           \/ ApplyFails \/ ApplyDone \/ PruneFails
           \/ SkipHealthCheck \/ HealthCheckFails \/ HealthCheckCanceled
           \/ Finalize
  <2>1. UNCHANGED <<ks, objs>>
    BY <1>4
       DEF Dequeue, DeclareFinalizer, SkipSuspended, RejectHealthExprs, DenySource,
           SourceError, SourceNotReady, ResolveSource, RejectReadyExpr,
           DependencyNotReady, FetchFails, BuildFails, ApplyFails, ApplyDone,
           PruneFails, SkipHealthCheck, HealthCheckFails, HealthCheckCanceled,
           Finalize, FinalizeWithoutDelete, FinalizeError, StartFinalize,
           DeleteFails, FinishDelete, AwaitTermination, StopWaiting, ApiVars
  <2> QED BY <2>1, Unseen
<1> QED BY <1>1, <1>2, <1>3, <1>4 DEF Worker, Reconcile

\* The reconciler implements Ownership: every step of the worker, of users, of
\* sources and of the cluster is a step of the abstract specification, or none.
THEOREM ReconcilerImplementsOwnership == Spec => OwnershipIsKept
<1>1. Init => Owner!Init
  <2> SUFFICES ASSUME Init PROVE Owner!Init
    OBVIOUS
  <2>1. obj \in Kustomization /\ account \in BOOLEAN
    BY NoObjectTyped DEF Init
  <2>2. PolicyView \in Owner!Policy
    BY <2>1, PolicyTyped DEF PolicyView
  <2>3. ks.exists = TRUE /\ ks.status.inventory = {}
    BY DEF Init, Created, EmptyStatus
  <2>4. ClusterView = [o \in Objects |-> "absent"]
    BY ObjectsAssumption DEF Init, ClusterView, Live
  <2> QED BY <2>2, <2>3, <2>4 DEF Owner!Init
<1>2. OwnerInv /\ [Next]_vars => [Owner!Next]_(Owner!vars)
  <2> SUFFICES ASSUME OwnerInv, [Next]_vars PROVE [Owner!Next]_(Owner!vars)
    OBVIOUS
  <2>1. CASE UNCHANGED vars
    BY <2>1 DEF vars, Owner!vars, ClusterView, Live, PolicyView
  <2>2. CASE Next
    <3>1. (obj \in Kustomization /\ account \in BOOLEAN)'
      BY OwnerStep DEF OwnerInv, SafetyInv, TypeInv, TypeOK
    <3>2. PolicyView' \in Owner!Policy
      BY <3>1, PolicyTyped
         DEF PolicyView, FinalizerShouldDeleteResources, GetDeletionPolicy
    <3>3. \/ \E o \in Objects :
                Owner!Apply(o) \/ Owner!Collect(o) \/ Owner!Vanish(o)
          \/ Owner!Record \/ Owner!Leave \/ Owner!Decide
      BY <2>2, WorkerMaps, ObjectStepMaps, UserMaps DEF Next, Environment
    <3> QED BY <3>2, <3>3 DEF Owner!Next
  <2> QED BY <2>1, <2>2
<1>3. Spec => []OwnerInv
  BY OwnerInit, OwnerStep, PTL DEF Spec
<1> QED BY <1>1, <1>2, <1>3, PTL DEF Spec, OwnershipIsKept, Owner!Spec

-----------------------------------------------------------------------------
(* Garbage is tracked.                                                     *)

\* Pruning is enabled in every spec, and neither the apply nor a patch nor the
\* controller fails half-way.
Collectable ==
    /\ \A s \in Specs : s.prune
    /\ {"apply", "patch", "torn", "crash"} \cap Faults = {}

\* What lives and may be pruned is in the stored inventory, in the build being
\* applied, in what the worker has in mind, or still to be garbage collected.
Covered ==
    /\ pc \in {"idle", "read", "deps", "fetch", "build", "delete", "terminate"} =>
          Live \subseteq Stored \cup Exempt
    /\ pc = "apply" => Live \subseteq Stored \cup Exempt \cup Built /\ todo \subseteq Built
    /\ pc = "prune" => Live \subseteq Known \cup Exempt \cup todo \cup failed
    /\ pc \in {"wait", "defer"} => Live \subseteq Known \cup Exempt

GarbageInv == Collectable /\ ks.exists => Covered

\* Until the apply is done, and in finalize, the worker has in mind exactly what
\* is stored.
LEMMA KnownIsStored ==
    ASSUME OwnerInv,
           pc \in {"read", "deps", "fetch", "build", "apply", "delete", "terminate"}
    PROVE  Known = Stored
BY DEF OwnerInv, SafetyInv, Consistent, Remembers, Tracks

\* Without a fault of the patch, a patch lands: it stores what the worker has in
\* mind.
LEMMA PatchStoresKnown ==
    ASSUME OwnerInv, Collectable, WorkerPatch
    PROVE  ks.exists /\ Stored' = Known
<1>0. ks \in Kustomization
  BY DEF OwnerInv, SafetyInv, TypeInv, TypeOK
<1>1. PICK k \in Kustomization :
         k.status.inventory = Known /\ (PatchLands(k) \/ PatchErrs(k))
  BY DEF WorkerPatch
<1>2. PatchLands(k)
  BY <1>1 DEF PatchErrs, Fault, Collectable
<1> QED BY <1>0, <1>1, <1>2 DEF PatchLands, Persist, Kustomization, Stored

\* An early return ends the attempt before the apply, after it, or in finalize.
LEMMA ReturnCovers ==
    ASSUME OwnerInv, GarbageInv, ReturnEffect, pc = "apply" => "apply" \in Faults
    PROVE  GarbageInv'
<1>0. Live' = Live /\ Known' = Known /\ ks' = ks /\ pc' = "defer"
  BY DEF ReturnEffect, Live, Known
<1> SUFFICES ASSUME Collectable, ks.exists PROVE Live \subseteq Known \cup Exempt
  BY <1>0 DEF GarbageInv, Covered, Collectable
<1>1. Covered /\ pc # "apply"
  BY DEF GarbageInv, Collectable
<1> QED BY <1>1, KnownIsStored DEF Covered, ReturnEffect

\* The ends of an attempt that has pruned.
LEMMA PrunedCovers ==
    ASSUME OwnerInv, GarbageInv, PruneFails \/ SkipHealthCheck
    PROVE  GarbageInv'
<1>0. /\ obj \in Kustomization /\ obj.status \in KustomizationStatus
      /\ rev \in Revisions \cup {NoRevision}
      /\ pc = "prune" /\ todo = {} /\ ks' = ks /\ Live' = Live
  BY DEF OwnerInv, SafetyInv, TypeInv, TypeOK, Kustomization, PruneFails,
         SkipHealthCheck, Pruned, ApiVars, Live
<1>1. pc' = "defer" /\ Known \cup failed \subseteq Known'
  <2>1. CASE PruneFails
    <3>1. Fail(obj.status, "PruneFailed") \in KustomizationStatus
      BY <1>0, HistoryTyped
    <3>2. [Fail(obj.status, "PruneFailed")
             EXCEPT !.inventory = Merge(obj.status.inventory, failed)].inventory
           = Known \cup failed
      BY <3>1 DEF KustomizationStatus, Merge, Known
    <3> QED BY <1>0, <2>1, <3>2, ReturnFields DEF PruneFails, Known
  <2>2. CASE SkipHealthCheck
    <3>1. /\ [obj.status EXCEPT !.healthy = "none"] \in KustomizationStatus
          /\ [obj.status EXCEPT !.healthy = "none"].inventory = Known
      BY <1>0, ConditionsTyped, ConditionFields DEF Known
    <3>2. Succeed([obj.status EXCEPT !.healthy = "none"]).inventory = Known
      BY <1>0, <3>1, HistoryFields
    <3> QED BY <1>0, <2>2, <3>2, ReturnFields DEF SkipHealthCheck, Pruned, Known
  <2> QED BY <2>1, <2>2
<1> QED BY <1>0, <1>1 DEF GarbageInv, Covered, Collectable

\* The progress reports: they store what the worker has in mind.
LEMMA ProgressCovers ==
    ASSUME OwnerInv, GarbageInv,
           \/ StartProgress \/ FetchArtifact \/ Build \/ StartHealthCheck
           \/ HealthCheckPasses
    PROVE  GarbageInv'
<1>0. /\ SafetyInv /\ obj \in Kustomization /\ obj.status \in KustomizationStatus
      /\ rev \in Revisions \cup {NoRevision} /\ Live' = Live
  BY DEF OwnerInv, SafetyInv, TypeInv, TypeOK, Kustomization, StartProgress,
         FetchArtifact, Build, StartHealthCheck, HealthCheckPasses, Live
<1> SUFFICES ASSUME Collectable PROVE Covered'
  BY DEF GarbageInv, Collectable
<1>1. ks.exists /\ Stored' = Known
  BY <1>0, ReportsArePatches, PatchStoresKnown
<1>2. Covered
  BY <1>1 DEF GarbageInv
<1>3. \A k : ~PatchErrs(k)
  BY DEF PatchErrs, Fault, Collectable
<1>4. ASSUME NEW s, NEW next, Progress(s, next), s.inventory = Known
      PROVE  Known' = Known /\ pc' = next /\ failed' = failed
  BY <1>0, <1>4 DEF Progress, Kustomization, Known
<1>5. CASE StartProgress \/ FetchArtifact \/ Build
  <2>1. Known' = Known /\ pc' \in {"fetch", "build", "apply"}
    BY <1>0, <1>3, <1>4, <1>5, EarlyReports
       DEF StartProgress, FetchArtifact, Build, ProgressFails
  <2>3. pc' = "apply" => todo' = Built'
    BY <1>0, <1>3, <1>5
       DEF StartProgress, FetchArtifact, Build, ProgressFails, Progress, Built,
           Kustomization
  <2>2. Live \subseteq Known \cup Exempt
    BY <1>2, <1>5, KnownIsStored DEF Covered, StartProgress, FetchArtifact, Build
  <2> QED BY <1>0, <1>1, <2>1, <2>2, <2>3 DEF Covered
<1>6. CASE StartHealthCheck
  <2>1. Checking.inventory = Known
    <3>1. /\ [obj.status EXCEPT !.healthy = "Unknown"] \in KustomizationStatus
          /\ [obj.status EXCEPT !.healthy = "Unknown"].inventory = Known
      BY <1>0, ConditionsTyped, ConditionFields DEF Known
    <3> QED BY <3>1, ConditionsTyped, ConditionFields DEF Checking
  <2>2. Known' = Known /\ pc' = "wait" /\ Pruned
    BY <1>3, <1>4, <1>6, <2>1 DEF StartHealthCheck
  <2> QED BY <1>0, <1>2, <2>2 DEF Covered, Pruned
<1>7. CASE HealthCheckPasses
  <2>1. Healthy \in KustomizationStatus /\ Healthy.inventory = Known
    BY <1>0, ConditionsTyped, ConditionFields DEF Healthy, Known
  <2>2. Succeed(Healthy).inventory = Known
    BY <1>0, <2>1, HistoryFields
  <2>3. Known' = Known /\ pc' = "defer" /\ pc = "wait"
    BY <1>0, <1>3, <1>7, <2>2, ReturnFields DEF HealthCheckPasses, Known
  <2> QED BY <1>0, <1>2, <2>3 DEF Covered
<1> QED BY <1>5, <1>6, <1>7

\* The deferred report stores it too, or the object is gone.
LEMMA ReportCovers ==
    ASSUME OwnerInv, GarbageInv, Report \/ ReportFails
    PROVE  GarbageInv'
<1>0. /\ obj \in Kustomization /\ ks \in Kustomization /\ SafetyInv
      /\ pc = "defer" /\ pc' = "idle" /\ Live' = Live
  BY DEF OwnerInv, SafetyInv, TypeInv, TypeOK, Report, ReportFails, Release, Live
<1> SUFFICES ASSUME Collectable, ks'.exists PROVE Covered'
  BY DEF GarbageInv, Collectable
<1>1. CASE Report
  <2>1. /\ Reported \in Kustomization /\ Reported.status.inventory = Known
        /\ Reported.finalizer = obj.finalizer
    BY <1>0, ReportTyped, ReportFields
  <2>2. WorkerPatch
    BY <1>0, <1>1, <2>1 DEF Report, WorkerPatch, SafetyInv, Consistent, Bookkeeping
  <2>3. ks.exists /\ Stored' = Known
    BY <2>2, PatchStoresKnown
  <2> QED BY <1>0, <2>3 DEF GarbageInv, Covered
<1>2. CASE ReportFails
  BY <1>2 DEF ReportFails, PatchErrs, Fault, Collectable
<1> QED BY <1>1, <1>2

\* Applying and deleting one object, and the end of the apply.
LEMMA ObjectsCover ==
    ASSUME OwnerInv, GarbageInv,
           \/ \E o \in Objects : ApplyOne(o) \/ DeleteOne(o) \/ DeleteRefused(o)
           \/ ApplyDone
    PROVE  GarbageInv'
<1>0. /\ SafetyInv /\ obj \in Kustomization /\ obj.status \in KustomizationStatus
      /\ objs \in [Objects -> {"absent", "terminating"} \cup Revisions]
  BY DEF OwnerInv, SafetyInv, TypeInv, TypeOK, Kustomization
<1> SUFFICES ASSUME Collectable, ks'.exists PROVE Covered'
  BY DEF GarbageInv, Collectable
<1>1. ks' = ks /\ Covered
  BY DEF ApplyOne, DeleteOne, DeleteRefused, ApplyDone, ApiVars, GarbageInv
<1>2. ASSUME NEW o \in Objects, ApplyOne(o)
      PROVE  Covered'
  <2>1. /\ UNCHANGED <<pc, obj, rev>> /\ pc = "apply"
        /\ Stored' = Stored /\ Built' = Built
    BY <1>1, <1>2 DEF ApplyOne, Stored, Built
  <2>2. o \in Built /\ todo' \subseteq Built
    BY <1>1, <1>2 DEF ApplyOne, Covered
  <2>3. Live' \subseteq Live \cup {o}
    BY <1>0, <1>2 DEF ApplyOne, Live
  <2> QED BY <1>1, <2>1, <2>2, <2>3 DEF Covered
<1>3. ASSUME NEW o \in Objects, DeleteOne(o) \/ DeleteRefused(o)
      PROVE  Covered'
  <2>1. /\ UNCHANGED <<pc, obj>> /\ pc \in {"prune", "delete"}
        /\ Stored' = Stored /\ Known' = Known
    BY <1>1, <1>3 DEF DeleteOne, DeleteRefused, Stored, Known
  <2>2. Live' \subseteq Live
    BY <1>0, <1>3, ObjectsAssumption DEF DeleteOne, DeleteRefused, ApiVars, Live
  <2>3. Live' \subseteq Exempt \cup (todo' \cup failed') \cup (Live \ (todo \cup failed))
    BY <1>0, <1>3, ObjectsAssumption DEF DeleteOne, DeleteRefused, ApiVars, Live
  <2> QED BY <1>1, <2>1, <2>2, <2>3 DEF Covered
<1>4. CASE ApplyDone
  <2>1. /\ pc = "apply" /\ pc' = "prune" /\ Known' = Built /\ Live' = Live
        /\ todo' = IF obj.spec.prune THEN Known \ Built ELSE {}
    BY <1>0, <1>4 DEF ApplyDone, Diff, ApiVars, Live, Known, Kustomization,
       KustomizationStatus
  <2>2. obj.spec.prune /\ Known = Stored
    BY <1>0, <2>1, KnownIsStored DEF Collectable, Kustomization
  <2> QED BY <1>1, <2>1, <2>2 DEF Covered
<1> QED BY <1>2, <1>3, <1>4

\* The steps in memory.
LEMMA QuietCovers ==
    ASSUME OwnerInv, GarbageInv,
           \/ Dequeue \/ DeclareFinalizer \/ ResolveSource
           \/ StartFinalize \/ AwaitTermination
           \/ FinalizeWithoutDelete \/ FinishDelete \/ StopWaiting
    PROVE  GarbageInv'
<1>0. /\ obj \in Kustomization /\ ks' = ks /\ Live' = Live /\ Stored' = Stored
  BY DEF OwnerInv, SafetyInv, TypeInv, TypeOK, Dequeue, DeclareFinalizer,
         ResolveSource, StartFinalize, AwaitTermination, FinalizeWithoutDelete,
         FinishDelete, StopWaiting, ApiVars, Live, Stored
<1>1. CASE \/ Dequeue \/ ResolveSource \/ StartFinalize \/ AwaitTermination
  <2>1. /\ pc \in {"idle", "read", "delete"}
        /\ pc' \in {"idle", "read", "deps", "delete", "terminate"}
    BY <1>1 DEF Dequeue, ResolveSource, Resolving, Admitted, StartFinalize,
       Finalizing, AwaitTermination, Deleted
  <2> QED BY <1>0, <2>1 DEF GarbageInv, Covered, Collectable
<1>2. CASE \/ DeclareFinalizer \/ FinalizeWithoutDelete \/ FinishDelete \/ StopWaiting
  <2>1. /\ pc \in {"read", "delete", "terminate"} /\ pc' = "defer" /\ Known' = Known
    BY <1>0, <1>2 DEF DeclareFinalizer, FinalizeWithoutDelete, FinishDelete, Deleted,
       StopWaiting, RemoveFinalizer, Known, Kustomization
  <2>2. Known = Stored
    BY <2>1, KnownIsStored
  <2> QED BY <1>0, <2>1, <2>2 DEF GarbageInv, Covered, Collectable
<1> QED BY <1>1, <1>2

\* Users leave the status alone; drift and termination only take objects away.
LEMMA EnvironmentCovers ==
    ASSUME OwnerInv, GarbageInv, Environment
    PROVE  GarbageInv'
<1>0. /\ ks \in Kustomization
      /\ objs \in [Objects -> {"absent", "terminating"} \cup Revisions]
  BY DEF OwnerInv, SafetyInv, TypeInv, TypeOK
<1> SUFFICES ASSUME Collectable, ks'.exists PROVE Covered'
  BY DEF GarbageInv, Collectable
<1>1. ~Crash
  BY DEF Crash, Fault, Collectable
<1>2. UNCHANGED <<pc, obj, rev, todo, failed>>
  BY <1>1 DEF Environment, TimerFires, RequestReconcile, Delete, LoseAccount, EditSpec,
     MoveSource, Drift, Terminated, WorkerVars
<1>3. ks.exists /\ ks'.status = ks.status
  <2>1. CASE Delete
    <3>1. CASE ks.finalizer
      BY <1>0, <2>1, <3>1 DEF Delete, Kustomization
    <3>2. CASE ~ks.finalizer
      BY <1>0, <2>1, <3>2 DEF Delete, Kustomization
    <3> QED BY <3>1, <3>2
  <2>2. CASE RequestReconcile \/ \E s \in Specs : EditSpec(s)
    BY <1>0, <2>2 DEF RequestReconcile, EditSpec, Kustomization
  <2>3. CASE ks' = ks
    BY <2>3
  <2> QED
    BY <1>1, <2>1, <2>2, <2>3
       DEF Environment, TimerFires, LoseAccount, MoveSource, Drift, Terminated, ApiVars
<1>4. Live' \subseteq Live
  <2>1. CASE \E o \in Objects : Drift(o) \/ Terminated(o)
    BY <1>0, <2>1, ObjectsAssumption DEF Drift, Terminated, Live
  <2>2. CASE UNCHANGED objs
    BY <2>2 DEF Live
  <2> QED
    BY <1>1, <2>1, <2>2
       DEF Environment, TimerFires, RequestReconcile, Delete, LoseAccount, EditSpec,
           MoveSource, ApiVars
<1>5. Covered /\ Known' = Known /\ Stored' = Stored /\ Built' = Built
  BY <1>2, <1>3 DEF GarbageInv, Known, Stored, Built
<1> QED BY <1>2, <1>4, <1>5 DEF Covered

\* Between reconciliations every live object that may be pruned is in the stored
\* inventory, when every spec prunes and neither an apply nor a patch nor the
\* controller fails half-way: a failed prune keeps its survivors, and the apply
\* of a new revision starts from the inventory of the one before.
THEOREM GarbageStaysTracked == Spec => []GarbageIsTracked
<1>1. Init => OwnerInv /\ GarbageInv
  <2> SUFFICES ASSUME Init PROVE OwnerInv /\ GarbageInv
    OBVIOUS
  <2>1. Live = {} /\ pc = "idle"
    BY ObjectsAssumption DEF Init, Live
  <2> QED BY <2>1, OwnerInit DEF GarbageInv, Covered
<1>2. OwnerInv /\ GarbageInv /\ [Next]_vars => (OwnerInv /\ GarbageInv)'
  <2> SUFFICES ASSUME OwnerInv, GarbageInv, [Next]_vars PROVE OwnerInv' /\ GarbageInv'
    OBVIOUS
  <2>1. OwnerInv' /\ SafetyInv
    BY OwnerStep DEF OwnerInv
  <2>2. CASE \/ SkipSuspended \/ RejectHealthExprs \/ DenySource \/ SourceError
             \/ SourceNotReady \/ RejectReadyExpr \/ DependencyNotReady
             \/ FetchFails \/ BuildFails \/ ApplyFails
             \/ HealthCheckFails \/ HealthCheckCanceled
             \/ FinalizeError \/ DeleteFails
    <3>1. ReturnEffect
      BY <2>1, <2>2, ReturnEffects
    <3>2. pc = "apply" => "apply" \in Faults
      BY <2>2 DEF SkipSuspended, RejectHealthExprs, DenySource, SourceError,
         SourceNotReady, RejectReadyExpr, DependencyNotReady, FetchFails,
         BuildFails, ApplyFails, HealthCheckFails, HealthCheckCanceled,
         FinalizeError, DeleteFails, Resolving, Admitted, Finalizing, Fault
    <3> QED BY <2>1, <3>1, <3>2, ReturnCovers
  <2>3. CASE Worker
    BY <2>1, <2>2, <2>3, PrunedCovers, ProgressCovers, ReportCovers, ObjectsCover,
       QuietCovers DEF Worker, Reconcile, Finalize
  <2>4. CASE Environment
    BY <2>1, <2>4, EnvironmentCovers
  <2>5. CASE UNCHANGED vars
    BY <2>1, <2>5 DEF vars, GarbageInv, Covered, Collectable, Live, Stored, Known, Built
  <2> QED BY <2>3, <2>4, <2>5 DEF Next
<1>3. GarbageInv => GarbageIsTracked
  BY DEF GarbageInv, Collectable, Covered, GarbageIsTracked, Stored
<1> QED BY <1>1, <1>2, <1>3, PTL DEF Spec

-----------------------------------------------------------------------------
(* The reconciler never stops silently.                                    *)

\* Nothing brings the Kustomization back, and that is as it should be.
Excused ==
    \/ ks.spec.suspend
    \/ /\ NeedsHuman(ks.spec)
       /\ {"patch", "torn"} \cap Faults = {} => ks.status.stalled

\* As long as nothing is queued, the worker holds the spec that is stored, and
\* what it is about to return without a requeue has an excuse.
WakeInv ==
    /\ pc = "idle" /\ ks.exists /\ queue = "none" /\ ~timer => Excused
    /\ pc # "idle" /\ ks.exists /\ queue = "none" =>
          obj.spec = ks.spec /\ obj.deleting = ks.deleting
    /\ pc = "defer" /\ result = "done" =>
          obj.spec.suspend \/ (obj.deleting /\ ~obj.finalizer)
    /\ pc = "defer" /\ result = "terminal" =>
          NeedsHuman(obj.spec) /\ obj.status.stalled

AwakeInv == SafetyInv /\ WakeInv

-----------------------------------------------------------------------------

\* A patch, whole or torn, belongs to an object that exists and leaves its spec.
LEMMA PatchLeavesSpec ==
    ASSUME SafetyInv, NEW k, PatchLands(k) \/ PatchErrs(k)
    PROVE  ks.exists /\ ks'.spec = ks.spec /\ ks'.deleting = ks.deleting
<1>0. ks \in Kustomization
  BY DEF SafetyInv, TypeInv, TypeOK
<1>1. ks.exists /\ (ks' = ks \/ ks' = Persist(k) \/ ks' \in Torn(k))
  BY DEF PatchLands, PatchErrs
<1>2. CASE ks' = Persist(k)
  BY <1>0, <1>1, <1>2 DEF Persist, Kustomization
<1>3. CASE ks' \in Torn(k)
  <2>1. PICK f \in {ks.finalizer, k.finalizer},
             s \in {ks.status, k.status, WithConditions(ks.status, k.status),
                    WithConditions(k.status, ks.status)} :
           ks' = [ks EXCEPT !.finalizer = f, !.status = s, !.exists = ~ks.deleting \/ f]
    BY <1>3 DEF Torn
  <2> QED BY <1>0, <1>1, <2>1 DEF Kustomization
<1> QED BY <1>1, <1>2, <1>3

\* The worker goes on, or is about to return.
Onward ==
    /\ pc # "idle" /\ pc' # "idle" /\ queue' = queue
    /\ obj'.spec = obj.spec /\ obj'.deleting = obj.deleting
    /\ ks'.spec = ks.spec /\ ks'.deleting = ks.deleting
    /\ ks'.exists => ks.exists
    /\ pc' = "defer" /\ result' = "done" =>
          obj'.spec.suspend \/ (obj'.deleting /\ ~obj'.finalizer)
    /\ pc' = "defer" /\ result' = "terminal" =>
          NeedsHuman(obj'.spec) /\ obj'.status.stalled

\* Such a step keeps the invariant.
LEMMA OnwardKeeps == ASSUME WakeInv, Onward PROVE WakeInv'
<1>1. NeedsHuman(obj'.spec) => NeedsHuman(obj.spec)'
  BY DEF NeedsHuman, AccessDenied
<1> QED BY <1>1 DEF WakeInv, Onward

\* A return that requeues needs no excuse.
LEMMA RequeueOnward ==
    ASSUME SafetyInv, UNCHANGED <<ks, queue>>, pc # "idle",
           NEW s, NEW res \in {"requeue", "error"}, Return(s, res)
    PROVE  Onward
<1>0. obj \in Kustomization
  BY DEF SafetyInv, TypeInv, TypeOK
<1>1. /\ obj'.spec = obj.spec /\ obj'.deleting = obj.deleting /\ pc' = "defer"
      /\ result' = res
  BY <1>0, ReturnFields DEF Return
<1> QED BY <1>1 DEF Onward

\* The early returns: the terminal ones stall, the others requeue or are the
\* one of a suspended object.
LEMMA ReturnsOnward ==
    ASSUME SafetyInv,
           \/ SkipSuspended \/ RejectHealthExprs \/ DenySource \/ SourceError
           \/ SourceNotReady \/ RejectReadyExpr \/ DependencyNotReady
           \/ FetchFails \/ BuildFails \/ ApplyFails \/ PruneFails
           \/ SkipHealthCheck \/ HealthCheckFails \/ HealthCheckCanceled
           \/ FinalizeError \/ DeleteFails
    PROVE  Onward
<1>0. obj \in Kustomization /\ obj.status \in KustomizationStatus
  BY DEF SafetyInv, TypeInv, TypeOK, Kustomization
<1>1. UNCHANGED <<ks, queue>> /\ pc # "idle"
  BY DEF SkipSuspended, RejectHealthExprs, DenySource, SourceError, SourceNotReady,
         RejectReadyExpr, DependencyNotReady, FetchFails, BuildFails, ApplyFails,
         PruneFails, SkipHealthCheck, HealthCheckFails, HealthCheckCanceled,
         FinalizeError, DeleteFails, Resolving, Admitted, Finalizing, Pruned,
         ApiVars, QueueVars
<1>2. CASE SkipSuspended
  <2>1. Return(obj.status, "done") /\ obj.spec.suspend
    BY <1>2 DEF SkipSuspended
  <2>2. /\ obj'.spec = obj.spec /\ obj'.deleting = obj.deleting /\ result' = "done"
    BY <1>0, <2>1, ReturnFields DEF Return
  <2> QED BY <1>1, <2>1, <2>2 DEF Onward, Return
<1>3. ASSUME NEW s, Return(s, "terminal"), s.stalled, NeedsHuman(obj.spec)
      PROVE  Onward
  <2>1. /\ obj'.spec = obj.spec /\ obj'.deleting = obj.deleting
        /\ obj'.status = s /\ result' = "terminal"
    BY <1>0, <1>3, ReturnFields DEF Return
  <2> QED BY <1>1, <1>3, <2>1 DEF Onward, Return
<1>4. CASE RejectHealthExprs \/ RejectReadyExpr
  <2>1. Return(Stall(obj.status), "terminal") /\ NeedsHuman(obj.spec)
    BY <1>4 DEF RejectHealthExprs, RejectReadyExpr, NeedsHuman
  <2>2. Stall(obj.status).stalled
    BY <1>0 DEF Stall, MarkStalled, MarkReady, KustomizationStatus
  <2> QED BY <1>3, <2>1, <2>2
<1>5. CASE DenySource
  <2>1. MarkStalled(MarkReady(obj.status, "False")).stalled
    BY <1>0 DEF MarkStalled, MarkReady, KustomizationStatus
  <2> QED BY <1>3, <1>5, <2>1 DEF DenySource, NeedsHuman
<1>6. CASE SourceError \/ FinalizeError \/ DeleteFails
  BY <1>1, <1>6, RequeueOnward DEF SourceError, FinalizeError, DeleteFails
<1>7. CASE \/ SourceNotReady \/ DependencyNotReady \/ FetchFails \/ BuildFails
           \/ ApplyFails \/ PruneFails \/ SkipHealthCheck \/ HealthCheckFails
           \/ HealthCheckCanceled
  BY <1>1, <1>7, RequeueOnward
     DEF SourceNotReady, DependencyNotReady, FetchFails, BuildFails, ApplyFails,
         PruneFails, SkipHealthCheck, HealthCheckFails, HealthCheckCanceled
<1> QED BY <1>2, <1>4, <1>5, <1>6, <1>7

\* The progress reports go on, or requeue.
LEMMA ProgressOnward ==
    ASSUME SafetyInv,
           \/ StartProgress \/ FetchArtifact \/ Build \/ StartHealthCheck
           \/ HealthCheckPasses
    PROVE  Onward
<1>0. obj \in Kustomization
  BY DEF SafetyInv, TypeInv, TypeOK
<1>1. queue' = queue /\ pc # "idle"
  BY DEF StartProgress, FetchArtifact, Build, StartHealthCheck, HealthCheckPasses,
         Pruned, QueueVars
<1>2. ks.exists /\ ks'.spec = ks.spec /\ ks'.deleting = ks.deleting
  BY ReportsArePatches, PatchLeavesSpec DEF WorkerPatch
<1>3. ASSUME NEW s, NEW next \in {"fetch", "build", "apply", "wait"}, Progress(s, next)
      PROVE  Onward
  <2>1. obj'.spec = obj.spec /\ obj'.deleting = obj.deleting /\ pc' = next
    BY <1>0, <1>3 DEF Progress, Kustomization
  <2> QED BY <1>1, <1>2, <2>1 DEF Onward
<1>4. ASSUME NEW s, Return(s, "requeue")
      PROVE  Onward
  <2>1. /\ obj'.spec = obj.spec /\ obj'.deleting = obj.deleting /\ pc' = "defer"
        /\ result' = "requeue"
    BY <1>0, <1>4, ReturnFields DEF Return
  <2> QED BY <1>1, <1>2, <2>1 DEF Onward
<1> QED
  BY <1>3, <1>4 DEF StartProgress, FetchArtifact, Build, StartHealthCheck,
     HealthCheckPasses, ProgressFails

\* The steps in memory, and those on the managed objects.
LEMMA QuietOnward ==
    ASSUME SafetyInv,
           \/ DeclareFinalizer \/ ResolveSource \/ ApplyDone
           \/ \E o \in Objects : ApplyOne(o) \/ DeleteOne(o) \/ DeleteRefused(o)
           \/ StartFinalize \/ AwaitTermination
           \/ FinalizeWithoutDelete \/ FinishDelete \/ StopWaiting
    PROVE  Onward
<1>0. obj \in Kustomization
  BY DEF SafetyInv, TypeInv, TypeOK
<1>1. UNCHANGED <<ks, queue>>
  BY DEF DeclareFinalizer, ResolveSource, ApplyDone, ApplyOne, DeleteOne,
         DeleteRefused, StartFinalize, AwaitTermination, FinalizeWithoutDelete,
         FinishDelete, StopWaiting, ApiVars, QueueVars
<1>2. CASE DeclareFinalizer
  BY <1>0, <1>1, <1>2 DEF DeclareFinalizer, Onward, Kustomization
<1>3. CASE ApplyDone
  BY <1>0, <1>1, <1>3 DEF ApplyDone, Onward, Kustomization
<1>4. CASE \/ ResolveSource \/ StartFinalize \/ AwaitTermination
           \/ \E o \in Objects : ApplyOne(o) \/ DeleteOne(o) \/ DeleteRefused(o)
  BY <1>1, <1>4
     DEF ResolveSource, Resolving, Admitted, StartFinalize, Finalizing,
         AwaitTermination, Deleted, ApplyOne, DeleteOne, DeleteRefused, Onward
<1>5. CASE FinalizeWithoutDelete \/ FinishDelete \/ StopWaiting
  <2>1. RemoveFinalizer /\ obj.deleting /\ pc # "idle"
    BY <1>5 DEF FinalizeWithoutDelete, FinishDelete, StopWaiting, Deleted, SafetyInv,
       Consistent, Admission
  <2>2. /\ obj'.spec = obj.spec /\ obj'.deleting = obj.deleting
        /\ obj'.finalizer = FALSE /\ result' = "done" /\ pc' = "defer"
    BY <1>0, <2>1 DEF RemoveFinalizer, Kustomization
  <2> QED BY <1>1, <2>1, <2>2 DEF Onward
<1> QED BY <1>2, <1>3, <1>4, <1>5

\* The deferred report: what is not requeued has its excuse, or is gone.
LEMMA ReportAwake ==
    ASSUME AwakeInv, Report \/ ReportFails
    PROVE  WakeInv'
<1>0. /\ SafetyInv /\ WakeInv /\ obj \in Kustomization /\ ks \in Kustomization
      /\ obj.status \in KustomizationStatus /\ result \in Results /\ timer \in BOOLEAN
      /\ pc = "defer" /\ pc' = "idle" /\ queue' = queue
  BY DEF AwakeInv, SafetyInv, TypeInv, TypeOK, Kustomization, Report, ReportFails,
         Release, Results
<1>1. SUFFICES ASSUME ks'.exists, queue = "none", ~timer'
               PROVE  Excused'
  BY <1>0 DEF WakeInv
<1>2. /\ ks.exists /\ ks'.spec = ks.spec /\ ks'.deleting = ks.deleting
      /\ obj.spec = ks.spec /\ obj.deleting = ks.deleting
  <2>1. ks.exists /\ ks'.spec = ks.spec /\ ks'.deleting = ks.deleting
    BY <1>0, <1>1, PatchLeavesSpec DEF Report, ReportFails
  <2> QED BY <1>0, <1>1, <2>1 DEF WakeInv
<1>3. CASE Report
  <2>1. result \in {"done", "terminal"} /\ PatchLands(Reported)
    BY <1>0, <1>1, <1>3 DEF Report, Results
  <2>2. CASE result = "done"
    <3>1. CASE obj.spec.suspend
      BY <1>2, <3>1 DEF Excused
    <3>2. CASE obj.deleting /\ ~obj.finalizer
      <4>1. ks'.exists = (~ks.deleting \/ obj.finalizer)
        BY <1>0, <2>1, ReportFields DEF PatchLands, Persist, Kustomization
      <4> QED BY <1>1, <1>2, <3>2, <4>1
    <3> QED BY <1>0, <2>2, <3>1, <3>2 DEF WakeInv
  <2>3. CASE result = "terminal"
    <3>1. ks'.status = FinalizeStatus(obj)
      BY <1>0, <2>1, ReportFields DEF PatchLands, Persist, Kustomization
    <3>2. FinalizeStatus(obj).stalled = obj.status.stalled
      BY <1>0 DEF FinalizeStatus, KustomizationStatus
    <3>3. NeedsHuman(ks.spec) /\ obj.status.stalled
      BY <1>0, <1>2, <2>3 DEF WakeInv
    <3>4. NeedsHuman(ks.spec)'
      BY <1>2, <3>3 DEF NeedsHuman, AccessDenied
    <3> QED BY <3>1, <3>2, <3>3, <3>4 DEF Excused
  <2> QED BY <2>1, <2>2, <2>3
<1>4. CASE ReportFails
  <2>1. result = "terminal" /\ PatchErrs(Reported)
    BY <1>0, <1>1, <1>2, <1>4 DEF ReportFails
  <2>2. {"patch", "torn"} \cap Faults # {}
    BY <2>1 DEF PatchErrs, Fault
  <2>3. NeedsHuman(ks.spec)
    BY <1>0, <1>2, <2>1 DEF WakeInv
  <2>4. NeedsHuman(ks.spec)'
    BY <1>2, <2>3 DEF NeedsHuman, AccessDenied
  <2> QED BY <2>2, <2>4 DEF Excused
<1> QED BY <1>3, <1>4

\* Whatever changes the object queues it; the worker takes it off the queue to
\* read it.
LEMMA EventsAwake ==
    ASSUME AwakeInv, Environment \/ Dequeue
    PROVE  WakeInv'
<1>0. WakeInv /\ ks \in Kustomization
  BY DEF AwakeInv, SafetyInv, TypeInv, TypeOK
<1>1. CASE Dequeue
  <2>1. CASE ks.exists
    BY <1>1, <2>1 DEF Dequeue, WakeInv, ApiVars
  <2>2. CASE ~ks.exists
    BY <1>1, <2>2 DEF Dequeue, WakeInv, ApiVars
  <2> QED BY <2>1, <2>2
<1>2. CASE Crash
  BY <1>2 DEF Crash, Release, WakeInv, ApiVars
<1>3. CASE RequestReconcile \/ Delete \/ \E s \in Specs : EditSpec(s)
  <2>1. queue' = "event" /\ UNCHANGED <<pc, obj, result>>
    BY <1>3 DEF RequestReconcile, Delete, EditSpec, WorkerVars
  <2>2. NeedsHuman(obj.spec)' = NeedsHuman(obj.spec)
    BY <2>1 DEF NeedsHuman, AccessDenied
  <2> QED BY <1>0, <2>1, <2>2 DEF WakeInv
<1>4. ASSUME UNCHANGED <<ks, pc, obj, result>>,
             queue' = "none" => queue = "none" /\ timer' = timer
      PROVE  WakeInv'
  <2>1. /\ NeedsHuman(obj.spec)' = NeedsHuman(obj.spec)
        /\ Excused' = Excused
    BY <1>4 DEF NeedsHuman, AccessDenied, Excused
  <2> QED BY <1>0, <1>4, <2>1 DEF WakeInv
<1>5. CASE \/ TimerFires \/ LoseAccount
           \/ \E ref \in SourceRefs, new \in ArtifactStates : MoveSource(ref, new)
           \/ \E o \in Objects : Drift(o) \/ Terminated(o)
  BY <1>4, <1>5 DEF TimerFires, LoseAccount, MoveSource, Drift, Terminated, ApiVars,
     QueueVars, WorkerVars
<1> QED BY <1>1, <1>2, <1>3, <1>5 DEF Environment

\* The invariant holds initially: the new object is queued.
LEMMA AwakeInit == ASSUME Init PROVE AwakeInv
BY InitKeeps DEF Init, AwakeInv, WakeInv

\* Every step keeps it.
LEMMA AwakeStep ==
    ASSUME AwakeInv, [Next]_vars
    PROVE  AwakeInv'
<1>1. SafetyInv /\ SafetyInv' /\ WakeInv
  BY StepKeeps DEF AwakeInv
<1>2. CASE Worker
  BY <1>1, <1>2, ReturnsOnward, ProgressOnward, QuietOnward, OnwardKeeps,
     ReportAwake, EventsAwake DEF Worker, Reconcile, Finalize, AwakeInv
<1>3. CASE Environment
  BY <1>1, <1>3, EventsAwake DEF AwakeInv
<1>4. CASE UNCHANGED vars
  BY <1>1, <1>4 DEF vars, AwakeInv, WakeInv, Excused, NeedsHuman, AccessDenied
<1> QED BY <1>2, <1>3, <1>4 DEF Next

\* A Kustomization that neither the queue nor a timer will bring back is
\* suspended, or waits for a human to repair its spec and says so, unless the
\* patch that would say so was lost: each error is retried, except the terminal
\* ones, and each change queues the object.
THEOREM NeverStopsSilently == Spec => []NoSilentStop
<1>1. AwakeInv => NoSilentStop
  BY DEF AwakeInv, WakeInv, Excused, NoSilentStop, Quiet
<1> QED BY <1>1, AwakeInit, AwakeStep, PTL DEF Spec

-----------------------------------------------------------------------------
(* What Ready=True claims for the observed generation.                     *)

\* The worker has resolved the source of the object; it has recorded the attempt.
Attempt == {"deps", "fetch", "build", "apply", "prune", "wait"}
Recorded == {"build", "apply", "prune", "wait"}

\* The generations the worker knows of are never ahead of the stored one, and
\* one generation has one spec.
Generations ==
    /\ ks.status.observedGeneration <= ks.generation
    /\ pc # "idle" =>
          /\ obj.status.observedGeneration <= obj.generation
          /\ obj.generation <= ks.generation
          /\ ks.exists /\ ~ks.deleting /\ obj.generation = ks.generation =>
                obj.spec = ks.spec

\* Ready=True belongs to an object that has its finalizer.
Kept ==
    /\ ks.exists /\ ks.status.ready = "True" => ks.finalizer
    /\ pc # "idle" /\ obj.status.ready = "True" => obj.finalizer \/ obj.deleting

\* What an attempt has passed on its way.
Attempting ==
    /\ pc \in Attempt => ~AccessDenied(obj.spec.sourceRef) /\ ~obj.spec.suspend
    /\ pc \in Recorded => obj.status.lastAttemptedRevision = rev

\* The status reports the build of the given spec, from the revision that was
\* attempted last.
Claims(status, spec) ==
    /\ status.inventory = Manifests[status.lastAppliedRevision][spec.path]
    /\ status.lastAttemptedRevision = status.lastAppliedRevision
    /\ ~AccessDenied(spec.sourceRef)

\* The worker is about to report a success of its own.
Succeeded ==
    /\ pc = "defer" /\ obj.status.ready = "True"
    /\ ~obj.spec.suspend /\ ~obj.deleting

InMind ==
    Succeeded => Claims(obj.status, obj.spec) /\ obj.status.lastAppliedRevision = rev

Told ==
    /\ ks.exists /\ ~ks.deleting /\ ~ks.spec.suspend
    /\ ks.status.ready = "True"
    /\ ks.status.observedGeneration = ks.generation
    => Claims(ks.status, ks.spec)

\* A torn patch may store the conditions of one attempt with the rest of another.
Reports == Generations /\ Attempting /\ (Whole => Kept /\ InMind /\ Told)

ReportInv == OwnerInv /\ AwakeInv /\ Reports

-----------------------------------------------------------------------------
(* The order of the revisions.                                             *)

\* The artifact of a source may go from one state to the other: every set that
\* the changes of a source do not leave has the second if it has the first.
Leads(from, to) ==
    \A S \in SUBSET ArtifactStates :
       from \in S /\ (\A step \in SourceSteps : step[1] \in S => step[2] \in S)
          => to \in S

\* Every patch lands, no source returns to a revision it has left, and all
\* sources that may be used are one.
Steady ==
    /\ {"patch", "torn"} \cap Faults = {}
    /\ \A r, s \in Revisions : Leads(r, s) /\ Leads(s, r) => r = s
    /\ \A s, t \in Specs :
          \/ AccessDenied(s.sourceRef) \/ AccessDenied(t.sourceRef)
          \/ s.sourceRef = t.sourceRef

\* The sources have been at this revision.
Follows(r) ==
    r \in Revisions =>
       \A s \in Specs : AccessDenied(s.sourceRef) \/ Leads(r, sources[s.sourceRef])

Resolved == pc \in Attempt \/ Succeeded

\* The revision the worker resolved is not behind the recorded ones, and is the
\* one the source has now unless a change of the source queued the object.
Ordered ==
    /\ Follows(ks.status.lastAttemptedRevision)
    /\ Follows(obj.status.lastAttemptedRevision)
    /\ Follows(rev)
    /\ Resolved =>
          /\ ks.status.lastAttemptedRevision \in Revisions =>
                Leads(ks.status.lastAttemptedRevision, rev)
          /\ obj.status.lastAttemptedRevision \in Revisions =>
                Leads(obj.status.lastAttemptedRevision, rev)
          /\ ks.exists /\ queue = "none" /\ sources[obj.spec.sourceRef] \in Revisions =>
                sources[obj.spec.sourceRef] = rev

UpToDate == Steady => Ordered /\ QuietIsCurrent

CurrentInv == ReportInv /\ UpToDate

-----------------------------------------------------------------------------
(* The steps of an attempt.                                                *)

\* What the operators on a status do to the recorded revision and generation.
Carries(s, t) ==
    /\ s \in KustomizationStatus
    /\ s.lastAttemptedRevision = t.lastAttemptedRevision
    /\ s.observedGeneration = t.observedGeneration

\* Conditions leave the recorded revision and generation alone.
LEMMA ConditionsCarry ==
    ASSUME NEW s \in KustomizationStatus,
           NEW v \in {"none", "True", "False", "Unknown"}
    PROVE  /\ Carries(MarkReady(s, v), s)
           /\ Carries(MarkReconciling(s), s)
           /\ Carries(MarkStalled(s), s)
           /\ Carries([s EXCEPT !.healthy = v], s)
<1>1. \A t \in {MarkReady(s, v), MarkReconciling(s), MarkStalled(s),
                [s EXCEPT !.healthy = v]} :
         /\ t.lastAttemptedRevision = s.lastAttemptedRevision
         /\ t.observedGeneration = s.observedGeneration
  BY DEF KustomizationStatus, MarkReady, MarkReconciling, MarkStalled
<1> QED BY <1>1, ConditionsTyped DEF Carries

\* So does the record of an attempt in the history.
LEMMA HistoryCarries ==
    ASSUME NEW s \in KustomizationStatus,
           rev \in Revisions \cup {NoRevision},
           NEW h \in {"none", "ReconciliationSucceeded", "ReconciliationFailed",
                      "PruneFailed", "HealthCheckFailed"}
    PROVE  Carries(Fail(s, h), s) /\ Carries(Succeed(s), s)
<1>1. \A t \in {Fail(s, h), Succeed(s)} :
         /\ t.lastAttemptedRevision = s.lastAttemptedRevision
         /\ t.observedGeneration = s.observedGeneration
  BY DEF KustomizationStatus, Fail, Succeed, Upsert, MarkReady
<1> QED BY <1>1, HistoryTyped DEF Carries

\* A step of the worker inside Reconcile, past the read and the resolution of
\* the source.
Advance ==
    /\ UNCHANGED <<sources, queue, rev>>
    /\ pc # "idle" /\ pc' # "idle"
    /\ pc' \in Attempt => pc \in Attempt
    /\ obj'.spec = obj.spec /\ obj'.deleting = obj.deleting
    /\ obj'.generation = obj.generation
    /\ obj'.status.observedGeneration \in {obj.status.observedGeneration, obj.generation}
    /\ \/ /\ obj'.status.lastAttemptedRevision = obj.status.lastAttemptedRevision
          /\ pc' \in Recorded => pc \in Recorded
       \/ obj'.status.lastAttemptedRevision = rev /\ pc \in Attempt
    /\ ks'.spec = ks.spec /\ ks'.deleting = ks.deleting
    /\ ks'.generation = ks.generation /\ (ks'.exists => ks.exists)
    /\ ks'.status.observedGeneration \in
          {ks.status.observedGeneration, obj.status.observedGeneration}
    /\ Whole => (ks'.status.ready = "True" => ks' = ks)
    /\ Steady => ks'.status.lastAttemptedRevision \in
                    {ks.status.lastAttemptedRevision, obj'.status.lastAttemptedRevision}
    /\ Whole /\ obj'.status.ready = "True" => obj'.finalizer \/ obj'.deleting
    /\ Whole => InMind'
    /\ Whole /\ Succeeded' => pc \in Attempt

\* Such a step keeps the reports true.
LEMMA AdvanceKeeps ==
    ASSUME ReportInv, Advance
    PROVE  Reports'
<1>0. /\ ks \in Kustomization /\ obj \in Kustomization
      /\ Generations /\ Attempting
  BY DEF ReportInv, Reports, OwnerInv, SafetyInv, TypeInv, TypeOK
<1>1. /\ ks.generation \in Int /\ obj.generation \in Int
      /\ ks.status.observedGeneration \in Int /\ obj.status.observedGeneration \in Int
  BY <1>0 DEF Kustomization, KustomizationStatus
<1>2. Generations'
  BY <1>0, <1>1 DEF Generations, Advance
<1>3. AccessDenied(obj.spec.sourceRef)' = AccessDenied(obj.spec.sourceRef)
  BY DEF AccessDenied, Advance
<1>4. Attempting'
  BY <1>0, <1>3 DEF Attempting, Advance
<1>5. ASSUME Whole PROVE Kept' /\ InMind' /\ Told'
  <2>1. Kept /\ Told
    BY <1>5 DEF ReportInv, Reports
  <2>2. Kept'
    BY <1>5, <2>1 DEF Kept, Advance
  <2>3. Told'
    <3>1. CASE ks' = ks
      BY <2>1, <3>1 DEF Told, Claims, AccessDenied
    <3>2. CASE ks'.status.ready # "True"
      BY <3>2 DEF Told
    <3> QED BY <1>5, <3>1, <3>2 DEF Advance
  <2> QED BY <1>5, <2>2, <2>3 DEF Advance
<1> QED BY <1>2, <1>4, <1>5 DEF Reports, Whole

\* A source that leads somewhere leads wherever one more change takes it.
LEMMA LeadsOn ==
    ASSUME NEW r, NEW old \in ArtifactStates, NEW new, Leads(r, old),
           <<old, new>> \in SourceSteps
    PROVE  Leads(r, new)
<1> SUFFICES ASSUME NEW S \in SUBSET ArtifactStates, r \in S,
                    \A step \in SourceSteps : step[1] \in S => step[2] \in S
             PROVE  new \in S
  BY DEF Leads
<1>1. old \in S
  BY DEF Leads
<1>2. <<old, new>>[1] \in S => <<old, new>>[2] \in S
  OBVIOUS
<1> QED BY <1>1, <1>2

\* And every state leads to itself.
LEMMA LeadsHere == ASSUME NEW r PROVE Leads(r, r)
BY DEF Leads

\* Steady runs have no failed patch.
LEMMA SteadyPatches ==
    ASSUME Steady
    PROVE  Whole /\ \A k : ~PatchErrs(k)
BY DEF Steady, Whole, PatchErrs, Fault

\* The order of the revisions survives the steps of an attempt.
LEMMA AdvanceOrders ==
    ASSUME CurrentInv, Advance
    PROVE  UpToDate'
<1> SUFFICES ASSUME Steady PROVE Ordered' /\ QuietIsCurrent'
  BY DEF UpToDate, Steady, AccessDenied, Leads
<1>0. Ordered /\ Whole
  BY SteadyPatches DEF CurrentInv, UpToDate
<1>1. QuietIsCurrent'
  BY DEF QuietIsCurrent, Quiet, Advance
<1>2. /\ Follows(ks.status.lastAttemptedRevision)' <=>
            Follows(ks'.status.lastAttemptedRevision)
      /\ Follows(obj.status.lastAttemptedRevision)' <=>
            Follows(obj'.status.lastAttemptedRevision)
      /\ Follows(rev)' <=> Follows(rev)
  BY DEF Follows, Advance
<1>3. /\ obj'.status.lastAttemptedRevision \in {obj.status.lastAttemptedRevision, rev}
      /\ ks'.status.lastAttemptedRevision \in
            {ks.status.lastAttemptedRevision, obj'.status.lastAttemptedRevision}
      /\ rev' = rev
  BY DEF Advance
<1>4. Resolved' => Resolved
  BY <1>0 DEF Resolved, Advance
<1>5. Follows(ks'.status.lastAttemptedRevision) /\ Follows(obj'.status.lastAttemptedRevision)
  BY <1>0, <1>3 DEF Ordered
<1>6. Leads(rev, rev)
  BY LeadsHere
<1>7. ASSUME Resolved'
      PROVE  /\ ks'.status.lastAttemptedRevision \in Revisions =>
                   Leads(ks'.status.lastAttemptedRevision, rev)
             /\ obj'.status.lastAttemptedRevision \in Revisions =>
                   Leads(obj'.status.lastAttemptedRevision, rev)
             /\ ks'.exists /\ queue' = "none" /\ sources'[obj'.spec.sourceRef] \in Revisions =>
                   sources'[obj'.spec.sourceRef] = rev
  <2>1. /\ ks.status.lastAttemptedRevision \in Revisions =>
                   Leads(ks.status.lastAttemptedRevision, rev)
        /\ obj.status.lastAttemptedRevision \in Revisions =>
                   Leads(obj.status.lastAttemptedRevision, rev)
        /\ ks.exists /\ queue = "none" /\ sources[obj.spec.sourceRef] \in Revisions =>
                   sources[obj.spec.sourceRef] = rev
    BY <1>0, <1>4, <1>7 DEF Ordered
  <2> QED BY <1>3, <1>6, <2>1 DEF Advance
<1>8. Ordered'
  <2>1. rev' = rev
    BY <1>3
  <2> QED BY <1>0, <1>2, <1>5, <1>7, <2>1 DEF Ordered, Leads
<1> QED BY <1>1, <1>8

\* An early return that is not Ready, or leaves the status of a suspended or
\* deleted object as it was read.
LEMMA ReturnAdvances ==
    ASSUME ReportInv, pc # "idle", UNCHANGED <<ks, sources, queue>>,
           NEW s, NEW res, Return(s, res),
           s.lastAttemptedRevision = obj.status.lastAttemptedRevision,
           s.observedGeneration \in {obj.status.observedGeneration, obj.generation},
           s.ready = "True" =>
              obj.status.ready = "True" /\ (obj.spec.suspend \/ obj.deleting)
    PROVE  Advance
<1>0. obj \in Kustomization /\ ks \in Kustomization
  BY DEF ReportInv, OwnerInv, SafetyInv, TypeInv, TypeOK
<1>1. /\ obj'.status = s /\ obj'.spec = obj.spec /\ obj'.deleting = obj.deleting
      /\ obj'.finalizer = obj.finalizer /\ obj'.generation = obj.generation
      /\ pc' = "defer" /\ rev' = rev
  BY <1>0 DEF Return, Kustomization
<1>2. ~Succeeded'
  BY <1>1 DEF Succeeded
<1>3. Whole /\ s.ready = "True" => obj.finalizer \/ obj.deleting
  BY DEF ReportInv, Reports, Kept
<1> QED BY <1>1, <1>2, <1>3 DEF Advance, Attempt, Recorded, InMind

\* The early returns of Reconcile, reconcile and finalize.
LEMMA ReturnsAdvance ==
    ASSUME ReportInv,
           \/ SkipSuspended \/ RejectHealthExprs \/ DenySource \/ SourceError
           \/ SourceNotReady \/ RejectReadyExpr \/ DependencyNotReady
           \/ FetchFails \/ BuildFails \/ ApplyFails \/ PruneFails
           \/ HealthCheckFails \/ HealthCheckCanceled
           \/ FinalizeError \/ DeleteFails
    PROVE  Advance
<1>0. /\ obj \in Kustomization /\ obj.status \in KustomizationStatus
      /\ rev \in Revisions \cup {NoRevision} /\ SafetyInv
  BY DEF ReportInv, OwnerInv, SafetyInv, TypeInv, TypeOK, Kustomization
<1>1. pc # "idle" /\ UNCHANGED <<ks, sources, queue>>
  BY DEF SkipSuspended, RejectHealthExprs, DenySource, SourceError, SourceNotReady,
         RejectReadyExpr, DependencyNotReady, FetchFails, BuildFails, ApplyFails,
         PruneFails, HealthCheckFails, HealthCheckCanceled, FinalizeError,
         DeleteFails, Resolving, Admitted, Finalizing, ApiVars, QueueVars
<1>2. CASE SkipSuspended \/ FinalizeError \/ DeleteFails
  <2>1. obj.spec.suspend \/ obj.deleting
    BY <1>0, <1>2 DEF SkipSuspended, FinalizeError, Finalizing, DeleteFails, SafetyInv,
       Consistent, Admission
  <2> QED BY <1>1, <1>2, <2>1, ReturnAdvances DEF SkipSuspended, FinalizeError, DeleteFails
<1>3. CASE RejectHealthExprs \/ RejectReadyExpr
  <2>1. /\ Stall(obj.status).ready = "False"
        /\ Stall(obj.status).lastAttemptedRevision = obj.status.lastAttemptedRevision
        /\ Stall(obj.status).observedGeneration = obj.generation
    BY <1>0 DEF Stall, MarkStalled, MarkReady, KustomizationStatus
  <2> QED BY <1>1, <1>3, <2>1, ReturnAdvances DEF RejectHealthExprs, RejectReadyExpr
<1>4. /\ Carries(MarkReady(obj.status, "False"), obj.status)
      /\ MarkReady(obj.status, "False").ready = "False"
  BY <1>0, ConditionsCarry, ConditionFields
<1>5. CASE DenySource
  <2>1. /\ Carries(MarkStalled(MarkReady(obj.status, "False")), MarkReady(obj.status, "False"))
        /\ MarkStalled(MarkReady(obj.status, "False")).ready = "False"
    BY <1>4, ConditionsCarry, ConditionFields DEF Carries
  <2> QED BY <1>1, <1>4, <1>5, <2>1, ReturnAdvances DEF DenySource, Carries
<1>6. CASE \/ SourceError \/ SourceNotReady \/ DependencyNotReady
           \/ FetchFails \/ BuildFails \/ HealthCheckCanceled
  BY <1>1, <1>4, <1>6, ReturnAdvances
     DEF SourceError, SourceNotReady, DependencyNotReady, FetchFails, BuildFails,
         HealthCheckCanceled, Carries
<1>7. CASE ApplyFails
  <2>1. /\ Carries(Fail(obj.status, "ReconciliationFailed"), obj.status)
        /\ Fail(obj.status, "ReconciliationFailed").ready = "False"
    BY <1>0, HistoryCarries, HistoryFields
  <2> QED BY <1>1, <1>7, <2>1, ReturnAdvances DEF ApplyFails, Carries
<1>8. CASE PruneFails
  <2> DEFINE t == Fail(obj.status, "PruneFailed")
             u == [t EXCEPT !.inventory = Merge(obj.status.inventory, failed)]
  <2>1. Carries(t, obj.status) /\ t.ready = "False"
    BY <1>0, HistoryCarries, HistoryFields
  <2> HIDE DEF t
  <2>2. /\ u.ready = t.ready /\ u.lastAttemptedRevision = t.lastAttemptedRevision
        /\ u.observedGeneration = t.observedGeneration
    BY <2>1 DEF Carries, KustomizationStatus
  <2>3. Return(u, "requeue")
    BY <1>8 DEF PruneFails, t
  <2> HIDE DEF u
  <2> QED BY <1>1, <2>1, <2>2, <2>3, ReturnAdvances DEF Carries
<1>9. CASE HealthCheckFails
  <2> DEFINE t == [obj.status EXCEPT !.healthy = "False"]
  <2>1. Carries(t, obj.status)
    BY <1>0, ConditionsCarry
  <2>2. Return(Fail(t, "HealthCheckFailed"), "requeue")
    BY <1>9 DEF HealthCheckFails
  <2> HIDE DEF t
  <2>3. /\ Carries(Fail(t, "HealthCheckFailed"), t)
        /\ Fail(t, "HealthCheckFailed").ready = "False"
    BY <1>0, <2>1, HistoryCarries, HistoryFields DEF Carries
  <2> QED BY <1>1, <2>1, <2>2, <2>3, ReturnAdvances DEF Carries
<1> QED BY <1>2, <1>3, <1>5, <1>6, <1>7, <1>8, <1>9

\* The steps in memory, and those on the managed objects.  Only an object that
\* is not Ready has still to get its finalizer.
LEMMA QuietAdvances ==
    ASSUME ReportInv,
           \/ DeclareFinalizer \/ ApplyDone
           \/ \E o \in Objects : ApplyOne(o) \/ DeleteOne(o) \/ DeleteRefused(o)
           \/ StartFinalize \/ AwaitTermination
           \/ FinalizeWithoutDelete \/ FinishDelete \/ StopWaiting
    PROVE  Advance
<1>0. /\ obj \in Kustomization /\ ks \in Kustomization
      /\ obj.status \in KustomizationStatus /\ SafetyInv
  BY DEF ReportInv, OwnerInv, SafetyInv, TypeInv, TypeOK, Kustomization
<1>1. UNCHANGED <<ks, sources, queue, rev>>
  BY DEF DeclareFinalizer, ApplyDone, ApplyOne, DeleteOne, DeleteRefused,
         StartFinalize, AwaitTermination, FinalizeWithoutDelete, FinishDelete,
         StopWaiting, RemoveFinalizer, ApiVars, QueueVars
<1>2. Whole /\ obj.status.ready = "True" /\ pc # "idle" => obj.finalizer \/ obj.deleting
  BY DEF ReportInv, Reports, Kept
<1>3. CASE DeclareFinalizer
  <2>1. /\ obj'.status = obj.status /\ obj'.spec = obj.spec
        /\ obj'.deleting = obj.deleting /\ obj'.generation = obj.generation
        /\ pc = "read" /\ pc' = "defer" /\ ~obj.deleting /\ ~obj.finalizer
    BY <1>0, <1>3 DEF DeclareFinalizer, Kustomization
  <2>2. Whole => obj'.status.ready # "True"
    BY <1>2, <2>1
  <2> QED BY <1>1, <2>1, <2>2 DEF Advance, Attempt, Recorded, InMind, Succeeded
<1>4. CASE ApplyDone
  <2>1. /\ obj'.spec = obj.spec /\ obj'.deleting = obj.deleting
        /\ obj'.generation = obj.generation /\ obj'.finalizer = obj.finalizer
        /\ obj'.status.ready = obj.status.ready
        /\ obj'.status.lastAttemptedRevision = obj.status.lastAttemptedRevision
        /\ obj'.status.observedGeneration = obj.status.observedGeneration
        /\ pc = "apply" /\ pc' = "prune"
    BY <1>0, <1>4 DEF ApplyDone, Kustomization, KustomizationStatus
  <2> QED BY <1>1, <1>2, <2>1 DEF Advance, Attempt, Recorded, InMind, Succeeded
<1>5. CASE \/ StartFinalize \/ AwaitTermination
           \/ \E o \in Objects : ApplyOne(o) \/ DeleteOne(o) \/ DeleteRefused(o)
  <2>1. /\ obj' = obj /\ pc # "idle"
        /\ pc' = pc \/ pc' \in {"delete", "terminate"}
        /\ pc' # "defer"
    BY <1>5 DEF StartFinalize, Finalizing, AwaitTermination, Deleted, ApplyOne,
       DeleteOne, DeleteRefused
  <2>2. pc' # "idle" /\ (pc' \in Attempt \cup Recorded => pc' = pc)
    BY <2>1 DEF Attempt, Recorded
  <2>3. ~Succeeded'
    BY <2>1 DEF Succeeded
  <2> QED BY <1>1, <1>2, <2>1, <2>2, <2>3 DEF Advance, InMind
<1>6. CASE FinalizeWithoutDelete \/ FinishDelete \/ StopWaiting
  <2>1. RemoveFinalizer /\ obj.deleting /\ pc # "idle"
    BY <1>0, <1>6 DEF FinalizeWithoutDelete, FinishDelete, StopWaiting, Deleted,
       SafetyInv, Consistent, Admission
  <2>2. /\ obj'.status = obj.status /\ obj'.spec = obj.spec
        /\ obj'.deleting = obj.deleting /\ obj'.generation = obj.generation
        /\ pc' = "defer"
    BY <1>0, <2>1 DEF RemoveFinalizer, Kustomization
  <2>3. ~Succeeded'
    BY <2>1, <2>2 DEF Succeeded
  <2> QED BY <1>1, <2>1, <2>2, <2>3 DEF Advance, Attempt, Recorded, InMind
<1> QED BY <1>3, <1>4, <1>5, <1>6

\* What a patch leaves of the generations, of Ready and of the recorded revision.
PatchReports(s) ==
    /\ ks'.spec = ks.spec /\ ks'.deleting = ks.deleting
    /\ ks'.generation = ks.generation /\ (ks'.exists => ks.exists)
    /\ ks'.status.observedGeneration \in {ks.status.observedGeneration, s.observedGeneration}
    /\ Whole => ks' = ks \/ ks' = Persist([obj EXCEPT !.status = s])
    /\ Whole => ks' = ks \/ ks'.status = s
    /\ Steady => ks'.status = s

\* A patch, landed, refused or torn, reports what it was given or what was there.
LEMMA PatchesReport ==
    ASSUME SafetyInv, NEW s \in KustomizationStatus,
           PatchLands([obj EXCEPT !.status = s]) \/ PatchErrs([obj EXCEPT !.status = s])
    PROVE  PatchReports(s)
<1> DEFINE k == [obj EXCEPT !.status = s]
<1>0. /\ obj \in Kustomization /\ ks \in Kustomization /\ TypeInv
      /\ k \in Kustomization /\ k.status = s
  BY DEF SafetyInv, TypeInv, TypeOK, Kustomization
<1>1. /\ ks.exists
      /\ ks' = ks \/ ks' = Persist(k) \/ (~Whole /\ ks' \in Torn(k))
      /\ Steady => ks' = Persist(k)
  BY SteadyPatches DEF PatchLands, PatchErrs, Fault, Whole
<1>s. Steady => Whole
  BY SteadyPatches
<1> HIDE DEF k
<1>2. CASE ks' = Persist(k)
  <2>1. /\ ks'.status = s /\ ks'.spec = ks.spec /\ ks'.deleting = ks.deleting
        /\ ks'.generation = ks.generation
    BY <1>0, <1>2 DEF Persist, Kustomization
  <2> QED BY <1>1, <1>2, <2>1 DEF PatchReports, k
<1>3. CASE ks' = ks
  <2>1. Steady => ks'.status = s
    BY <1>0, <1>1 DEF Persist, Kustomization
  <2> QED BY <1>1, <1>3, <2>1 DEF PatchReports
<1>4. CASE ~Whole /\ ks' \in Torn(k)
  <2>1. PICK f \in {ks.finalizer, k.finalizer},
             t \in {ks.status, s, WithConditions(ks.status, s),
                    WithConditions(s, ks.status)} :
           ks' = [ks EXCEPT !.finalizer = f, !.status = t, !.exists = ~ks.deleting \/ f]
    BY <1>0, <1>4 DEF Torn
  <2>2. t.observedGeneration \in {ks.status.observedGeneration, s.observedGeneration}
    BY <1>0 DEF WithConditions, Kustomization, KustomizationStatus
  <2>3. /\ ks'.status = t /\ ks'.spec = ks.spec /\ ks'.deleting = ks.deleting
        /\ ks'.generation = ks.generation
    BY <1>0, <2>1 DEF Kustomization
  <2> QED BY <1>1, <1>4, <1>s, <2>2, <2>3 DEF PatchReports
<1> QED BY <1>1, <1>2, <1>3, <1>4

\* A progress report, with the status the worker goes on or returns with.
LEMMA ReportAdvances ==
    ASSUME ReportInv, pc \in Attempt, pc' # "idle", UNCHANGED <<sources, queue, rev>>,
           NEW s \in KustomizationStatus, PatchReports(s), s.ready = "Unknown",
           s.observedGeneration = obj.status.observedGeneration,
           NEW t, obj' = [obj EXCEPT !.status = t],
           t.lastAttemptedRevision = s.lastAttemptedRevision,
           t.observedGeneration = s.observedGeneration,
           \/ /\ s.lastAttemptedRevision = obj.status.lastAttemptedRevision
              /\ pc' \in Recorded => pc \in Recorded
           \/ s.lastAttemptedRevision = rev,
           \/ t.ready # "True"
           \/ /\ pc' = "defer" /\ pc \in {"prune", "wait"} /\ t.inventory = Known
              /\ s.lastAttemptedRevision = obj.status.lastAttemptedRevision
              /\ t.lastAppliedRevision = rev
    PROVE  Advance
<1>0. /\ obj \in Kustomization /\ SafetyInv
  BY DEF ReportInv, OwnerInv, SafetyInv, TypeInv, TypeOK
<1>1. /\ obj'.status = t /\ obj'.spec = obj.spec /\ obj'.deleting = obj.deleting
      /\ obj'.generation = obj.generation /\ obj'.finalizer = obj.finalizer
  BY <1>0 DEF Kustomization
<1>2. Whole => (ks'.status.ready = "True" => ks' = ks)
  BY DEF PatchReports
<1>3. obj.finalizer
  BY <1>0 DEF SafetyInv, Consistent, Admission, Attempt
<1>4. InMind'
  <2> SUFFICES ASSUME t.ready = "True"
               PROVE  Claims(obj'.status, obj'.spec) /\ obj'.status.lastAppliedRevision = rev'
    BY <1>1 DEF InMind, Succeeded, Claims, AccessDenied
  <2>1. Known = Built /\ obj.status.lastAttemptedRevision = rev
    BY <1>0 DEF SafetyInv, Consistent, Truthful, ReportInv, Reports, Attempting, Recorded
  <2>2. ~AccessDenied(obj.spec.sourceRef)
    BY DEF ReportInv, Reports, Attempting
  <2> QED BY <1>1, <2>1, <2>2 DEF Claims, Built
<1>5. pc # "idle"
  BY DEF Attempt
<1> QED BY <1>1, <1>2, <1>3, <1>4, <1>5 DEF Advance, PatchReports

\* A success without health checks writes nothing on its way.
LEMMA SkipAdvances ==
    ASSUME ReportInv, SkipHealthCheck
    PROVE  Advance
<1>0. /\ obj \in Kustomization /\ ks \in Kustomization /\ SafetyInv
      /\ obj.status \in KustomizationStatus /\ rev \in Revisions \cup {NoRevision}
      /\ pc = "prune" /\ UNCHANGED <<ks, sources, queue>>
  BY DEF ReportInv, OwnerInv, SafetyInv, TypeInv, TypeOK, Kustomization,
         SkipHealthCheck, Pruned, ApiVars, QueueVars
<1> DEFINE s == [obj.status EXCEPT !.healthy = "none"]
<1>1. Carries(s, obj.status) /\ s.inventory = Known
  BY <1>0, ConditionsCarry, ConditionFields DEF Known
<1>2. Return(Succeed(s), "requeue")
  BY DEF SkipHealthCheck
<1> HIDE DEF s
<1>3. /\ Carries(Succeed(s), s) /\ Succeed(s).inventory = Known
      /\ Succeed(s).lastAppliedRevision = rev
  BY <1>0, <1>1, HistoryCarries, HistoryFields DEF Carries
<1>4. /\ obj'.status = Succeed(s) /\ obj'.spec = obj.spec /\ obj'.deleting = obj.deleting
      /\ obj'.generation = obj.generation /\ obj'.finalizer = obj.finalizer
      /\ pc' = "defer" /\ rev' = rev
  BY <1>0, <1>2 DEF Return, Kustomization
<1>5. /\ Known = Built /\ obj.status.lastAttemptedRevision = rev /\ obj.finalizer
      /\ ~AccessDenied(obj.spec.sourceRef)
  BY <1>0 DEF SafetyInv, Consistent, Truthful, Admission, ReportInv, Reports, Attempting,
     Attempt, Recorded
<1>6. InMind'
  BY <1>1, <1>3, <1>4, <1>5 DEF InMind, Claims, Carries, Built, AccessDenied
<1> QED BY <1>0, <1>1, <1>3, <1>4, <1>5, <1>6 DEF Advance, Carries, Attempt, Recorded

\* The progress reports of reconcile and checkHealth.
LEMMA ProgressAdvances ==
    ASSUME ReportInv,
           \/ StartProgress \/ FetchArtifact \/ Build \/ StartHealthCheck
           \/ HealthCheckPasses
    PROVE  Advance
<1>0. /\ obj \in Kustomization /\ ks \in Kustomization /\ SafetyInv
      /\ obj.status \in KustomizationStatus /\ rev \in Revisions \cup {NoRevision}
      /\ UNCHANGED <<sources, queue>>
  BY DEF ReportInv, OwnerInv, SafetyInv, TypeInv, TypeOK, Kustomization, StartProgress,
         FetchArtifact, Build, StartHealthCheck, HealthCheckPasses, QueueVars
<1>1. pc \in {"fetch", "build", "prune", "wait"} => obj.status.ready = "Unknown"
  BY <1>0 DEF SafetyInv, Consistent, Truthful
<1>2. ASSUME NEW s \in KustomizationStatus, NEW next, next # "idle",
             s.ready = "Unknown", pc \in Attempt,
             s.observedGeneration = obj.status.observedGeneration,
             \/ /\ s.lastAttemptedRevision = obj.status.lastAttemptedRevision
                /\ next \in Recorded => pc \in Recorded
             \/ s.lastAttemptedRevision = rev,
             Progress(s, next) \/ ProgressFails(s)
      PROVE  Advance
  <2>1. PatchReports(s)
    BY <1>0, <1>2, PatchesReport DEF Progress, ProgressFails
  <2>2. /\ obj' = [obj EXCEPT !.status = s] /\ rev' = rev
        /\ pc' = next \/ pc' = "defer"
    BY <1>2 DEF Progress, ProgressFails, Return
  <2>3. pc' # "idle" /\ (pc' \in Recorded => pc' = next)
    BY <1>2, <2>2 DEF Recorded
  <2> QED BY <1>0, <1>2, <2>1, <2>2, <2>3, ReportAdvances
<1>3. CASE StartProgress
  <2> DEFINE t == MarkReady(obj.status, "Unknown")
  <2>1. Carries(t, obj.status) /\ t.ready = "Unknown"
    BY <1>0, ConditionsCarry, ConditionFields
  <2>2. InProgress = MarkReconciling(t)
    BY DEF InProgress
  <2> HIDE DEF t
  <2>3. Carries(InProgress, t) /\ InProgress.ready = "Unknown"
    BY <2>1, <2>2, ConditionsCarry, ConditionFields DEF Carries
  <2> QED BY <1>2, <1>3, <2>1, <2>3 DEF StartProgress, Carries, Attempt, Recorded
<1>4. CASE FetchArtifact
  <2> DEFINE t == [obj.status EXCEPT !.lastAttemptedRevision = rev]
  <2>1. /\ t \in KustomizationStatus /\ t.ready = "Unknown"
        /\ t.observedGeneration = obj.status.observedGeneration
        /\ t.lastAttemptedRevision = rev
    BY <1>0, <1>1, <1>4 DEF FetchArtifact, KustomizationStatus
  <2>2. Attempted = MarkReconciling(t)
    BY DEF Attempted
  <2> HIDE DEF t
  <2>3. Carries(Attempted, t) /\ Attempted.ready = "Unknown"
    BY <2>1, <2>2, ConditionsCarry, ConditionFields
  <2> QED BY <1>2, <1>4, <2>1, <2>3 DEF FetchArtifact, Carries, Attempt
<1>5. CASE Build
  <2>1. /\ Carries(MarkReconciling(obj.status), obj.status)
        /\ MarkReconciling(obj.status).ready = "Unknown"
    BY <1>0, <1>1, <1>5, ConditionsCarry, ConditionFields DEF Build
  <2> QED BY <1>2, <1>5, <2>1 DEF Build, Carries, Attempt, Recorded
<1>6. CASE StartHealthCheck
  <2> DEFINE t == [obj.status EXCEPT !.healthy = "Unknown"]
  <2>0. pc = "prune"
    BY <1>6 DEF StartHealthCheck, Pruned
  <2>1. Carries(t, obj.status) /\ t.ready = "Unknown"
    BY <1>0, <1>1, <2>0, ConditionsCarry, ConditionFields
  <2>2. Checking = MarkReconciling(t)
    BY DEF Checking
  <2> HIDE DEF t
  <2>3. Carries(Checking, t) /\ Checking.ready = "Unknown"
    BY <2>1, <2>2, ConditionsCarry, ConditionFields DEF Carries
  <2>4. /\ Carries(Fail(Checking, "HealthCheckFailed"), Checking)
        /\ Fail(Checking, "HealthCheckFailed").ready = "False"
    BY <1>0, <2>3, HistoryCarries, HistoryFields DEF Carries
  <2>5. CASE Progress(Checking, "wait")
    BY <1>2, <2>0, <2>1, <2>3, <2>5 DEF Carries, Attempt, Recorded
  <2>6. CASE /\ PatchErrs([obj EXCEPT !.status = Checking])
             /\ Return(Fail(Checking, "HealthCheckFailed"), "requeue")
    <3>1. PatchReports(Checking)
      BY <1>0, <2>3, <2>6, PatchesReport DEF Carries
    <3>2. pc \in Attempt /\ pc' = "defer" /\ pc' \notin Recorded /\ rev' = rev
          /\ obj' = [obj EXCEPT !.status = Fail(Checking, "HealthCheckFailed")]
      BY <2>0, <2>6 DEF Return, Attempt, Recorded
    <3> QED BY <1>0, <2>1, <2>3, <2>4, <3>1, <3>2, ReportAdvances DEF Carries
  <2> QED BY <1>6, <2>5, <2>6 DEF StartHealthCheck
<1>7. CASE HealthCheckPasses
  <2>0. pc = "wait"
    BY <1>7 DEF HealthCheckPasses
  <2>1. /\ Carries(Healthy, obj.status) /\ Healthy.ready = "Unknown"
        /\ Healthy.inventory = Known
    BY <1>0, <1>1, <2>0, ConditionsCarry, ConditionFields DEF Healthy, Known
  <2>2. PatchReports(Healthy)
    BY <1>0, <1>7, <2>1, PatchesReport DEF HealthCheckPasses, Carries
  <2>3. /\ Carries(Fail(Healthy, "HealthCheckFailed"), Healthy)
        /\ Fail(Healthy, "HealthCheckFailed").ready = "False"
        /\ Carries(Succeed(Healthy), Healthy) /\ Succeed(Healthy).inventory = Known
        /\ Succeed(Healthy).lastAppliedRevision = rev
    BY <1>0, <2>1, HistoryCarries, HistoryFields DEF Carries
  <2>4. /\ pc \in Attempt /\ pc' = "defer" /\ pc' \notin Recorded /\ rev' = rev
        /\ \/ obj' = [obj EXCEPT !.status = Fail(Healthy, "HealthCheckFailed")]
           \/ obj' = [obj EXCEPT !.status = Succeed(Healthy)]
    BY <1>7, <2>0 DEF HealthCheckPasses, Return, Attempt, Recorded
  <2>5. CASE obj' = [obj EXCEPT !.status = Fail(Healthy, "HealthCheckFailed")]
    BY <1>0, <2>1, <2>2, <2>3, <2>4, <2>5, ReportAdvances DEF Carries
  <2>6. CASE obj' = [obj EXCEPT !.status = Succeed(Healthy)]
    BY <1>0, <2>0, <2>1, <2>2, <2>3, <2>4, <2>6, ReportAdvances DEF Carries
  <2> QED BY <2>4, <2>5, <2>6
<1> QED BY <1>3, <1>4, <1>5, <1>6, <1>7

-----------------------------------------------------------------------------
(* The read, the resolution of the source, and the deferred report.        *)

\* An idle worker has no revision in mind.
LEMMA NoObjectFields ==
    /\ NoObject.status.lastAttemptedRevision \notin Revisions
    /\ NoRevision \notin Revisions
BY ObjectsAssumption DEF NoObject, Created, EmptyStatus, NoRevision

\* What the worker reads is what is stored.
LEMMA DequeueReports ==
    ASSUME CurrentInv, Dequeue
    PROVE  Reports' /\ UpToDate'
<1>0. /\ ks \in Kustomization /\ Reports /\ UNCHANGED <<ks, sources, rev>>
      /\ pc = "idle" /\ pc' \in {"idle", "read"}
      /\ pc' = "idle" => ~ks.exists
      /\ pc' = "read" => obj' = ks /\ ks.exists
      /\ obj' = ks \/ obj' = NoObject
  BY DEF CurrentInv, ReportInv, OwnerInv, SafetyInv, TypeInv, TypeOK, Dequeue, ApiVars
<1>1. ks.generation \in Int /\ ks.status.observedGeneration \in Int
  BY <1>0 DEF Kustomization, KustomizationStatus
<1>2. Generations'
  BY <1>0, <1>1 DEF Generations, Reports
<1>3. Attempting'
  BY <1>0 DEF Attempting, Attempt, Recorded
<1>4. ~Succeeded' /\ ~Resolved'
  BY <1>0 DEF Succeeded, Resolved, Attempt
<1>5. Whole => Kept' /\ InMind' /\ Told'
  BY <1>0, <1>4 DEF Reports, Kept, InMind, Told, Claims, AccessDenied
<1>6. ASSUME Steady PROVE Ordered' /\ QuietIsCurrent'
  <2>1. Ordered
    BY <1>6 DEF CurrentInv, UpToDate
  <2>2. obj'.status.lastAttemptedRevision \in Revisions =>
           obj'.status.lastAttemptedRevision = ks.status.lastAttemptedRevision
    BY <1>0, NoObjectFields
  <2>3. Ordered'
    BY <1>0, <1>4, <2>1, <2>2 DEF Ordered, Follows, Leads, AccessDenied
  <2>4. QuietIsCurrent'
    BY <1>0 DEF QuietIsCurrent, Quiet
  <2> QED BY <2>3, <2>4
<1> QED BY <1>2, <1>3, <1>5, <1>6 DEF Reports, UpToDate, Steady, Whole, AccessDenied, Leads

\* The revision the source has now is not behind any that was recorded before.
LEMMA ResolveReports ==
    ASSUME CurrentInv, ResolveSource
    PROVE  Reports' /\ UpToDate'
<1>0. /\ obj \in Kustomization /\ obj.spec \in Specs /\ Reports
      /\ UNCHANGED <<ks, sources, queue, obj>>
      /\ pc = "read" /\ pc' = "deps"
      /\ ~AccessDenied(obj.spec.sourceRef) /\ ~obj.spec.suspend
      /\ rev' = sources[obj.spec.sourceRef]
  BY DEF CurrentInv, ReportInv, OwnerInv, SafetyInv, TypeInv, TypeOK, Kustomization,
         ResolveSource, Resolving, Admitted, ApiVars, QueueVars
<1>1. Generations'
  BY <1>0 DEF Reports, Generations
<1>2. Attempting'
  BY <1>0 DEF Attempting, Recorded, AccessDenied
<1>3. ~Succeeded'
  BY <1>0 DEF Succeeded
<1>4. Whole => Kept' /\ InMind' /\ Told'
  BY <1>0, <1>3 DEF Reports, Kept, InMind, Told, Claims, AccessDenied
<1>5. ASSUME Steady PROVE Ordered' /\ QuietIsCurrent'
  <2>1. Ordered
    BY <1>5 DEF CurrentInv, UpToDate
  <2>2. Follows(rev')
    <3> SUFFICES ASSUME NEW s \in Specs, ~AccessDenied(s.sourceRef)
                 PROVE  Leads(rev', sources[s.sourceRef])
      BY DEF Follows
    <3>1. s.sourceRef = obj.spec.sourceRef
      BY <1>0, <1>5 DEF Steady
    <3> QED BY <1>0, <3>1, LeadsHere
  <2>3. \A r : Follows(r) /\ r \in Revisions => Leads(r, rev')
    BY <1>0 DEF Follows
  <2>4. /\ Follows(ks.status.lastAttemptedRevision)
        /\ Follows(obj.status.lastAttemptedRevision)
    BY <2>1 DEF Ordered
  <2>5. /\ Follows(ks.status.lastAttemptedRevision)'
        /\ Follows(obj.status.lastAttemptedRevision)' /\ Follows(rev)'
    BY <1>0, <2>2, <2>4 DEF Follows
  <2>6. /\ ks.status.lastAttemptedRevision \in Revisions =>
             Leads(ks.status.lastAttemptedRevision, rev')
        /\ obj.status.lastAttemptedRevision \in Revisions =>
             Leads(obj.status.lastAttemptedRevision, rev')
    BY <2>3, <2>4
  <2>7. Ordered'
    BY <1>0, <2>5, <2>6 DEF Ordered, Leads
  <2>8. QuietIsCurrent'
    BY <1>0 DEF QuietIsCurrent, Quiet
  <2> QED BY <2>7, <2>8
<1> QED BY <1>1, <1>2, <1>4, <1>5 DEF Reports, UpToDate, Steady, Whole, AccessDenied, Leads

\* The deferred function observes the generation that the worker has read.
LEMMA FinalizeCarries ==
    ASSUME obj \in Kustomization
    PROVE  /\ FinalizeStatus(obj).lastAttemptedRevision = obj.status.lastAttemptedRevision
           /\ FinalizeStatus(obj).observedGeneration =
                 IF obj.status.ready = "True" THEN obj.generation
                                              ELSE obj.status.observedGeneration
<1>0. obj.status \in KustomizationStatus
  BY DEF Kustomization
<1> QED BY <1>0 DEF FinalizeStatus, KustomizationStatus

\* The deferred report: Ready=True is stored for a generation only with what the
\* worker has done for that generation.
LEMMA DeferReports ==
    ASSUME CurrentInv, Report \/ ReportFails
    PROVE  Reports' /\ UpToDate'
<1>0. /\ obj \in Kustomization /\ ks \in Kustomization /\ SafetyInv /\ Reports
      /\ Anchored /\ WakeInv
      /\ pc = "defer" /\ pc' = "idle" /\ obj' = NoObject /\ rev' = NoRevision
      /\ UNCHANGED <<sources, queue>>
      /\ FinalizeStatus(obj) \in KustomizationStatus
  BY ReportTyped DEF CurrentInv, ReportInv, AwakeInv, OwnerInv, SafetyInv, TypeInv,
     TypeOK, Report, ReportFails, Release
<1>1. /\ ks.generation \in Int /\ ks.status.observedGeneration \in Int
      /\ obj.generation \in Int /\ obj.status.observedGeneration \in Int
  BY <1>0 DEF Kustomization, KustomizationStatus
<1>2. ~Succeeded' /\ ~Resolved' /\ Attempting'
  BY <1>0 DEF Succeeded, Resolved, Attempting, Attempt, Recorded
<1>3. CASE ks' = ks /\ ~ks.exists
  <2>1. Reports'
    BY <1>0, <1>2, <1>3 DEF Reports, Generations, Kept, InMind, Told, Whole
  <2>2. ASSUME Steady PROVE Ordered' /\ QuietIsCurrent'
    <3>1. Ordered
      BY <2>2 DEF CurrentInv, UpToDate
    <3>2. Ordered'
      BY <1>0, <1>2, <1>3, <3>1, NoObjectFields DEF Ordered, Follows, Leads, AccessDenied
    <3>3. QuietIsCurrent'
      BY <1>3 DEF QuietIsCurrent, Quiet
    <3> QED BY <3>2, <3>3
  <2> QED BY <2>1, <2>2 DEF UpToDate, Steady, AccessDenied, Leads
<1>4. CASE PatchLands(Reported) \/ PatchErrs(Reported)
  <2>1. PatchReports(FinalizeStatus(obj)) /\ ks.exists
    BY <1>0, <1>4, PatchesReport DEF Reported, PatchLands, PatchErrs
  <2>2. Generations'
    <3>1. /\ ks.status.observedGeneration <= ks.generation
          /\ obj.status.observedGeneration <= obj.generation
          /\ obj.generation <= ks.generation
      BY <1>0 DEF Reports, Generations
    <3>2. FinalizeStatus(obj).observedGeneration <= ks.generation
      BY <1>0, <1>1, <3>1, FinalizeCarries
    <3> QED BY <1>0, <2>1, <3>1, <3>2 DEF Generations, PatchReports
  <2>3. ASSUME ks'.status = FinalizeStatus(obj), ks'.exists, ~ks'.deleting,
               ~ks'.spec.suspend, ks'.status.ready = "True", Whole,
               ks'.status.observedGeneration = ks'.generation
        PROVE  /\ Claims(ks'.status, ks'.spec)
               /\ Succeeded /\ ks'.status.lastAppliedRevision = rev
               /\ obj.spec = ks'.spec
    <3>1. obj.status.ready = "True"
      BY <1>0, <2>3, ReportFields
    <3>2. obj.generation = ks.generation /\ ~ks.deleting /\ ks'.spec = ks.spec
      BY <1>0, <2>1, <2>3, <3>1, FinalizeCarries DEF PatchReports
    <3>3. obj.spec = ks.spec /\ ~obj.deleting
      BY <1>0, <2>1, <3>2 DEF Reports, Generations, Anchored
    <3>4. Succeeded
      BY <1>0, <2>3, <3>1, <3>2, <3>3 DEF Succeeded
    <3>5. Claims(obj.status, obj.spec) /\ obj.status.lastAppliedRevision = rev
      BY <1>0, <2>3, <3>4 DEF Reports, InMind
    <3> QED
      BY <1>0, <2>3, <3>2, <3>3, <3>4, <3>5, ReportFields, FinalizeCarries
         DEF Claims, Known
  <2>4. ASSUME Whole PROVE Kept' /\ InMind' /\ Told'
    <3>1. Kept /\ Told
      BY <1>0, <2>4 DEF Reports
    <3>2. CASE ks' = ks
      BY <1>0, <1>2, <3>1, <3>2 DEF Kept, InMind, Told, Claims, AccessDenied
    <3>3. CASE /\ ks'.status = FinalizeStatus(obj)
               /\ ks' = Persist([obj EXCEPT !.status = FinalizeStatus(obj)])
      <4>1. /\ ks'.finalizer = obj.finalizer
            /\ ks'.exists = (~ks.deleting \/ obj.finalizer)
        BY <1>0, <3>3 DEF Persist, Kustomization
      <4>2. ks'.status.ready = "True" => obj.finalizer \/ obj.deleting
        BY <1>0, <3>1, <3>3, ReportFields DEF Kept
      <4>3. Kept'
        BY <1>0, <4>1, <4>2 DEF Kept, Anchored
      <4>4. Told'
        BY <2>3, <2>4, <3>3 DEF Told, Claims, AccessDenied
      <4> QED BY <1>2, <4>3, <4>4 DEF InMind
    <3> QED BY <2>1, <2>4, <3>2, <3>3 DEF PatchReports
  <2>5. ASSUME Steady PROVE Ordered' /\ QuietIsCurrent'
    <3>0. Ordered /\ Whole /\ ks'.status = FinalizeStatus(obj)
      BY <2>1, <2>5, SteadyPatches DEF CurrentInv, UpToDate, PatchReports
    <3>1. ks'.status.lastAttemptedRevision = obj.status.lastAttemptedRevision
      BY <1>0, <3>0, FinalizeCarries
    <3>2. Ordered'
      <4>1. /\ Follows(ks.status.lastAttemptedRevision)'
            /\ Follows(obj.status.lastAttemptedRevision)' /\ Follows(rev)'
        BY <1>0, <3>0, <3>1, NoObjectFields DEF Ordered, Follows, Leads, AccessDenied
      <4> QED BY <1>2, <4>1 DEF Ordered
    <3>3. QuietIsCurrent'
      <4> SUFFICES ASSUME Quiet', ~ks'.spec.suspend, ~ks'.deleting,
                          ks'.status.ready = "True",
                          ks'.status.observedGeneration = ks'.generation,
                          sources[ks'.spec.sourceRef] \in Revisions
                   PROVE  ks'.status.lastAppliedRevision = sources[ks'.spec.sourceRef]
        BY <1>0 DEF QuietIsCurrent
      <4>1. queue = "none" /\ ks'.exists
        BY <1>0 DEF Quiet
      <4>2. Succeeded /\ ks'.status.lastAppliedRevision = rev /\ obj.spec = ks'.spec
        BY <2>3, <3>0, <4>1
      <4> QED BY <2>1, <3>0, <4>1, <4>2 DEF Ordered, Resolved
    <3> QED BY <3>2, <3>3
  <2> QED
    BY <1>2, <2>2, <2>4, <2>5 DEF Reports, UpToDate, Steady, Whole, AccessDenied, Leads
<1> QED BY <1>3, <1>4 DEF Report, ReportFails

-----------------------------------------------------------------------------
(* Users, sources and the cluster.                                         *)

\* A new spec has a new generation, which no status has observed yet.
LEMMA UserReports ==
    ASSUME CurrentInv, RequestReconcile \/ Delete \/ \E s \in Specs : EditSpec(s)
    PROVE  Reports' /\ UpToDate'
<1>0. /\ obj \in Kustomization /\ ks \in Kustomization /\ Reports
      /\ UNCHANGED <<pc, obj, rev, sources>> /\ queue' = "event"
  BY DEF CurrentInv, ReportInv, OwnerInv, SafetyInv, TypeInv, TypeOK, RequestReconcile,
         Delete, EditSpec, WorkerVars
<1>1. /\ ks.generation \in Int /\ ks.status.observedGeneration \in Int
      /\ obj.generation \in Int /\ obj.status.observedGeneration \in Int
  BY <1>0 DEF Kustomization, KustomizationStatus
<1>2. /\ ks'.status = ks.status
      /\ ks'.exists => ks.exists /\ ks'.finalizer = ks.finalizer
      /\ \/ ks'.generation = ks.generation /\ ks'.spec = ks.spec /\ ks'.deleting = ks.deleting
         \/ ks'.generation = ks.generation /\ ~ks'.exists
         \/ ks'.generation = ks.generation + 1
  <2>1. CASE Delete
    <3>1. CASE ks.finalizer
      BY <1>0, <2>1, <3>1 DEF Delete, Kustomization
    <3>2. CASE ~ks.finalizer
      BY <1>0, <2>1, <3>2 DEF Delete, Kustomization
    <3> QED BY <3>1, <3>2
  <2>2. CASE RequestReconcile
    BY <1>0, <2>2 DEF RequestReconcile, Kustomization
  <2>3. ASSUME NEW s \in Specs, EditSpec(s)
        PROVE  /\ ks'.status = ks.status /\ ks'.exists = ks.exists
               /\ ks'.finalizer = ks.finalizer /\ ks'.generation = ks.generation + 1
    BY <1>0, <2>3 DEF EditSpec, Kustomization
  <2> QED BY <2>1, <2>2, <2>3
<1>3. Generations'
  <2>1. /\ ks.status.observedGeneration <= ks.generation
        /\ pc # "idle" => /\ obj.status.observedGeneration <= obj.generation
                          /\ obj.generation <= ks.generation
                          /\ ks.exists /\ ~ks.deleting /\ obj.generation = ks.generation =>
                                obj.spec = ks.spec
    BY <1>0 DEF Reports, Generations
  <2>2. CASE ks'.generation = ks.generation + 1
    BY <1>0, <1>1, <1>2, <2>1, <2>2 DEF Generations
  <2>3. CASE ks'.generation = ks.generation
    BY <1>0, <1>1, <1>2, <2>1, <2>3 DEF Generations
  <2> QED BY <1>2, <2>2, <2>3
<1>4. Attempting' /\ (Succeeded' <=> Succeeded) /\ (Resolved' <=> Resolved)
  BY <1>0 DEF Reports, Attempting, Succeeded, Resolved, AccessDenied
<1>5. ASSUME Whole PROVE Kept' /\ InMind' /\ Told'
  <2>1. Kept /\ InMind /\ Told
    BY <1>0, <1>5 DEF Reports
  <2>2. Kept' /\ InMind'
    BY <1>0, <1>2, <1>4, <2>1 DEF Kept, InMind, Claims, AccessDenied
  <2>3. ks'.generation = ks.generation + 1 =>
           ks'.status.observedGeneration # ks'.generation
    BY <1>0, <1>1, <1>2 DEF Reports, Generations
  <2>4. Told'
    BY <1>2, <2>1, <2>3 DEF Told, Claims, AccessDenied
  <2> QED BY <2>2, <2>4
<1>6. ASSUME Steady PROVE Ordered' /\ QuietIsCurrent'
  <2>1. Ordered
    BY <1>6 DEF CurrentInv, UpToDate
  <2>2. Ordered'
    BY <1>0, <1>2, <1>4, <2>1 DEF Ordered, Follows, Leads, AccessDenied
  <2>3. QuietIsCurrent'
    BY <1>0 DEF QuietIsCurrent, Quiet
  <2> QED BY <2>2, <2>3
<1> QED
  BY <1>3, <1>4, <1>5, <1>6 DEF Reports, UpToDate, Steady, Whole, AccessDenied, Leads

\* The steps that leave what is stored and the sources alone.
LEMMA ClusterReports ==
    ASSUME CurrentInv, UNCHANGED <<ks, sources>>,
           \/ UNCHANGED <<pc, obj, rev>> /\ (queue' = "none" => queue = "none")
           \/ Release /\ (ks.exists => queue' # "none")
    PROVE  Reports' /\ UpToDate'
<1>0. Reports
  BY DEF CurrentInv, ReportInv
<1>1. CASE UNCHANGED <<pc, obj, rev>> /\ (queue' = "none" => queue = "none")
  <2>1. Reports'
    BY <1>0, <1>1
       DEF Reports, Generations, Attempting, Kept, InMind, Told, Claims, Succeeded,
           AccessDenied, Whole
  <2>2. ASSUME Steady PROVE Ordered' /\ QuietIsCurrent'
    <3>1. Ordered /\ QuietIsCurrent
      BY <2>2 DEF CurrentInv, UpToDate
    <3>2. (Resolved' <=> Resolved)
      BY <1>1 DEF Resolved, Succeeded
    <3>3. Ordered'
      BY <1>1, <3>1, <3>2 DEF Ordered, Follows, Leads, AccessDenied
    <3>4. QuietIsCurrent'
      BY <1>1, <3>1 DEF QuietIsCurrent, Quiet
    <3> QED BY <3>3, <3>4
  <2> QED BY <2>1, <2>2 DEF UpToDate, Steady, AccessDenied, Leads
<1>2. CASE Release /\ (ks.exists => queue' # "none")
  <2>0. pc' = "idle" /\ obj' = NoObject /\ rev' = NoRevision
    BY <1>2 DEF Release
  <2>1. ~Succeeded' /\ ~Resolved' /\ Attempting'
    BY <2>0 DEF Succeeded, Resolved, Attempting, Attempt, Recorded
  <2>2. Reports'
    BY <1>0, <2>0, <2>1
       DEF Reports, Generations, Kept, InMind, Told, Claims, AccessDenied, Whole
  <2>3. ASSUME Steady PROVE Ordered' /\ QuietIsCurrent'
    <3>1. Ordered
      BY <2>3 DEF CurrentInv, UpToDate
    <3>2. Ordered'
      BY <2>0, <2>1, <3>1, NoObjectFields DEF Ordered, Follows, Leads, AccessDenied
    <3>3. QuietIsCurrent'
      BY <1>2 DEF QuietIsCurrent, Quiet
    <3> QED BY <3>2, <3>3
  <2> QED BY <2>2, <2>3 DEF UpToDate, Steady, AccessDenied, Leads
<1> QED BY <1>1, <1>2

\* The event of a source that moves to another revision carries it; it is dropped
\* only if that is the revision attempted last.
LEMMA DroppedEvents ==
    ASSUME NEW ref \in SourceRefs, NEW new \in Revisions, MoveSource(ref, new),
           sources[ref] # new, queue' = "none",
           ks.exists, ks.spec.sourceRef = ref, ~AccessDenied(ref)
    PROVE  ks.status.lastAttemptedRevision = new
<1>1. new \notin {"missing", "empty"}
  BY ObjectsAssumption
<1>2. EventArtifact(sources[ref], new) = new
  BY <1>1 DEF EventArtifact
<1>3. ~RequestsForRevisionChange(ref, new)
  BY <1>2 DEF MoveSource
<1> QED BY <1>3 DEF RequestsForRevisionChange, AccessDenied

\* A change of the source that matters queues the object, unless the worker is
\* about to report that revision.
LEMMA SourceReports ==
    ASSUME CurrentInv, NEW ref \in SourceRefs, NEW new \in ArtifactStates,
           MoveSource(ref, new)
    PROVE  Reports' /\ UpToDate'
<1>0. /\ obj \in Kustomization /\ ks \in Kustomization /\ Reports /\ WakeInv
      /\ obj.spec \in Specs /\ ks.spec \in Specs
      /\ sources \in [SourceRefs -> ArtifactStates]
      /\ UNCHANGED <<ks, pc, obj, rev>>
      /\ sources' = [sources EXCEPT ![ref] = new]
      /\ <<sources[ref], new>> \in SourceSteps
      /\ queue' = "none" => queue = "none"
  BY DEF CurrentInv, ReportInv, AwakeInv, OwnerInv, SafetyInv, TypeInv, TypeOK,
         Kustomization, MoveSource, WorkerVars
<1>1. Reports'
  BY <1>0 DEF Reports, Generations, Attempting, Kept, InMind, Told, Claims, Succeeded,
     AccessDenied, Whole
<1>2. ASSUME Steady PROVE Ordered' /\ QuietIsCurrent'
  <2>0. Ordered /\ QuietIsCurrent /\ Whole
    BY <1>2, SteadyPatches DEF CurrentInv, UpToDate
  <2>r. \A s \in Specs : s.sourceRef \in SourceRefs
    BY SpecsAssumption DEF KustomizationSpec
  <2>1. ASSUME NEW r, Follows(r)
        PROVE  r \in Revisions =>
                  \A s \in Specs : AccessDenied(s.sourceRef) \/ Leads(r, sources'[s.sourceRef])
    <3> SUFFICES ASSUME r \in Revisions, NEW s \in Specs, ~AccessDenied(s.sourceRef)
                 PROVE  Leads(r, sources'[s.sourceRef])
      OBVIOUS
    <3>1. Leads(r, sources[s.sourceRef])
      BY <2>1 DEF Follows
    <3>2. CASE s.sourceRef = ref
      BY <1>0, <3>1, <3>2, LeadsOn
    <3>3. CASE s.sourceRef # ref
      BY <1>0, <2>r, <3>1, <3>3
    <3> QED BY <3>2, <3>3
  <2>2. /\ Follows(ks.status.lastAttemptedRevision)'
        /\ Follows(obj.status.lastAttemptedRevision)' /\ Follows(rev)'
    BY <1>0, <2>0, <2>1 DEF Ordered, Follows, Leads, AccessDenied
  <2>3. Resolved' <=> Resolved
    BY <1>0 DEF Resolved, Succeeded
  <2>4. ASSUME Resolved, ks.exists, queue' = "none",
               sources'[obj.spec.sourceRef] \in Revisions
        PROVE  sources'[obj.spec.sourceRef] = rev
    <3>1. CASE sources'[obj.spec.sourceRef] = sources[obj.spec.sourceRef]
      BY <1>0, <2>0, <2>4, <3>1 DEF Ordered
    <3>2. CASE sources'[obj.spec.sourceRef] # sources[obj.spec.sourceRef]
      <4>1. obj.spec.sourceRef = ref /\ sources'[obj.spec.sourceRef] = new
            /\ sources[ref] # new
        BY <1>0, <2>r, <3>2
      <4>2. pc # "idle" /\ ~AccessDenied(ref) /\ rev \in Revisions
        <5>1. CASE pc \in Attempt
          BY <1>0, <4>1, <5>1 DEF Reports, Attempting, Attempt, CurrentInv, ReportInv,
             OwnerInv, SafetyInv, TypeInv, TypeOK
        <5>2. CASE Succeeded
          <6>1. Claims(obj.status, obj.spec) /\ obj.status.lastAppliedRevision = rev
            BY <1>0, <2>0, <5>2 DEF Reports, InMind
          <6>2. obj.status.lastAppliedRevision \in Revisions
            BY <2>0, <5>2 DEF Succeeded, CurrentInv, ReportInv, OwnerInv, SafetyInv,
               Consistent, Truthful, OneBuild
          <6> QED BY <4>1, <5>2, <6>1, <6>2 DEF Claims, Succeeded
        <5> QED BY <2>4, <5>1, <5>2 DEF Resolved
      <4>3. obj.spec = ks.spec
        BY <1>0, <2>4, <4>2 DEF WakeInv
      <4>4. ks.status.lastAttemptedRevision = new /\ new \in Revisions
        BY <2>4, <4>1, <4>2, <4>3, DroppedEvents
      <4>5. Leads(new, rev)
        BY <2>0, <2>4, <4>4 DEF Ordered
      <4>6. Leads(rev, sources[ref])
        BY <1>0, <2>0, <4>1, <4>2 DEF Ordered, Follows
      <4>7. Leads(rev, new)
        BY <1>0, <4>6, LeadsOn
      <4> QED BY <1>2, <4>1, <4>2, <4>4, <4>5, <4>7 DEF Steady
    <3> QED BY <3>1, <3>2
  <2>5. Ordered'
    <3>1. Resolved => /\ ks.status.lastAttemptedRevision \in Revisions =>
                            Leads(ks.status.lastAttemptedRevision, rev)
                      /\ obj.status.lastAttemptedRevision \in Revisions =>
                            Leads(obj.status.lastAttemptedRevision, rev)
      BY <2>0 DEF Ordered
    <3> QED BY <1>0, <2>2, <2>3, <2>4, <3>1 DEF Ordered, Leads
  <2>6. QuietIsCurrent'
    <3> SUFFICES ASSUME pc = "idle", queue' = "none", ks.exists, ~ks.spec.suspend,
                        ~ks.deleting, ks.status.ready = "True",
                        ks.status.observedGeneration = ks.generation,
                        sources'[ks.spec.sourceRef] \in Revisions
                 PROVE  ks.status.lastAppliedRevision = sources'[ks.spec.sourceRef]
      BY <1>0 DEF QuietIsCurrent, Quiet
    <3>1. CASE sources'[ks.spec.sourceRef] = sources[ks.spec.sourceRef]
      BY <1>0, <2>0, <3>1 DEF QuietIsCurrent, Quiet
    <3>2. CASE sources'[ks.spec.sourceRef] # sources[ks.spec.sourceRef]
      <4>1. ks.spec.sourceRef = ref /\ sources'[ks.spec.sourceRef] = new
            /\ sources[ref] # new
        BY <1>0, <2>r, <3>2
      <4>2. Claims(ks.status, ks.spec)
        BY <1>0, <2>0 DEF Reports, Told
      <4>3. ks.status.lastAttemptedRevision = new
        BY <4>1, <4>2, DroppedEvents DEF Claims
      <4> QED BY <4>1, <4>2, <4>3 DEF Claims
    <3> QED BY <3>1, <3>2
  <2> QED BY <2>5, <2>6
<1> QED BY <1>1, <1>2 DEF UpToDate, Steady, AccessDenied, Leads

\* Every step keeps the invariant.
LEMMA CurrentStep ==
    ASSUME CurrentInv, [Next]_vars
    PROVE  CurrentInv'
<1>0. ReportInv /\ SafetyInv
  BY DEF CurrentInv, ReportInv, OwnerInv
<1>1. OwnerInv'
  BY <1>0, OwnerStep DEF ReportInv
<1>2. AwakeInv'
  BY <1>0, AwakeStep DEF ReportInv
<1>3. Advance => Reports' /\ UpToDate'
  BY <1>0, AdvanceKeeps, AdvanceOrders
<1>4. Reports' /\ UpToDate'
  <2>1. CASE Reconcile
    BY <1>0, <1>3, <2>1, ReturnsAdvance, QuietAdvances, SkipAdvances, ProgressAdvances,
       DequeueReports, ResolveReports, DeferReports DEF Reconcile
  <2>2. CASE Finalize
    BY <1>0, <1>3, <2>2, ReturnsAdvance, QuietAdvances DEF Finalize
  <2>3. CASE Environment
    <3>1. CASE Crash
      <4>1. UNCHANGED <<ks, sources>> /\ Release /\ (ks.exists => queue' # "none")
        BY <3>1 DEF Crash, ApiVars
      <4> QED BY <4>1, ClusterReports
    <3>2. CASE TimerFires \/ LoseAccount \/ \E o \in Objects : Drift(o) \/ Terminated(o)
      <4>1. UNCHANGED <<ks, sources, pc, obj, rev>> /\ (queue' = "none" => queue = "none")
        BY <3>2 DEF TimerFires, LoseAccount, Drift, Terminated, ApiVars, QueueVars,
           WorkerVars
      <4> QED BY <4>1, ClusterReports
    <3> QED BY <2>3, <3>1, <3>2, UserReports, SourceReports DEF Environment
  <2>4. CASE UNCHANGED vars
    BY <2>4, ClusterReports DEF vars
  <2> QED BY <2>1, <2>2, <2>3, <2>4 DEF Next, Worker
<1> QED BY <1>1, <1>2, <1>4 DEF CurrentInv, ReportInv

\* The invariant holds initially: nothing is reported yet.
LEMMA CurrentInit == ASSUME Init PROVE CurrentInv
<1>1. OwnerInv /\ AwakeInv
  BY OwnerInit, AwakeInit
<1>2. /\ pc = "idle" /\ queue = "event" /\ rev = NoRevision /\ obj = NoObject
      /\ ks.status.ready = "none" /\ ks.generation = 1
      /\ ks.status.observedGeneration = 0
      /\ ks.status.lastAttemptedRevision = NoRevision
  BY DEF Init, Created, EmptyStatus
<1>3. Reports
  BY <1>2 DEF Reports, Generations, Attempting, Attempt, Recorded, Kept, InMind,
     Succeeded, Told
<1>4. UpToDate
  BY <1>2, NoObjectFields
     DEF UpToDate, Ordered, Follows, Resolved, Attempt, Succeeded, QuietIsCurrent, Quiet
<1> QED BY <1>1, <1>3, <1>4 DEF CurrentInv, ReportInv

\* Ready=True with the current generation observed means that the build of the
\* current spec was applied and is what the inventory lists, unless the object is
\* suspended (Reconcile returns before it looks at the spec, and the deferred
\* function observes the generation all the same) or a patch was torn.
THEOREM ObservedIsApplied ==
    Spec => []("torn" \notin Faults /\ ~ks.spec.suspend => ObservedMeansApplied)
<1>1. CurrentInv => ("torn" \notin Faults /\ ~ks.spec.suspend => ObservedMeansApplied)
  BY DEF CurrentInv, ReportInv, Reports, Told, Claims, ObservedMeansApplied, Whole
<1> QED BY <1>1, CurrentInit, CurrentStep, PTL DEF Spec

\* A Kustomization that is Ready for its current generation while nothing is
\* queued has applied the revision its source has now, when patches land, no
\* source returns to a revision it has left, and there is one source to use: the
\* watch drops the event of a new revision only if that revision is the one the
\* worker attempted last.
THEOREM ReadyIsCurrent == Spec => [](Steady => QuietIsCurrent)
<1>1. CurrentInv => (Steady => QuietIsCurrent)
  BY DEF CurrentInv, UpToDate
<1> QED BY <1>1, CurrentInit, CurrentStep, PTL DEF Spec
=============================================================================
