---------------------------- MODULE Dependencies ----------------------------
(***************************************************************************)
(* Several Kustomizations that depend on each other: how checkDependencies *)
(* orders the rollout of a source, and how the watches of sources and of   *)
(* ConfigMaps and Secrets wake them up.  The steps of a reconciliation are *)
(* those of Reconciler, as far as another Kustomization can see them.      *)
(***************************************************************************)
EXTENDS Integers, FiniteSets

CONSTANTS
    Ks,               \* names of the Kustomizations
    Graphs,           \* values of .spec.dependsOn for all of them, to start with
                      \* and to choose from in an edit
    WithExpr,         \* pairs <<k, d>> whose dependency has a readyExpr
    AdditiveCELDependencyCheck,
    Sources,
    SourceRef,        \* [Ks -> Sources]: .spec.sourceRef
    Revisions,
    First,            \* [Sources -> Revisions]: what the sources start with
    Configs,          \* ConfigMaps and Secrets
    ConfigRefs,       \* [Ks -> SUBSET Configs]: substituteFrom, kubeConfig, secretRef
    Watched,          \* those with the watch label, when WatchConfigs is on
    Editable,         \* Kustomizations whose spec users edit
    Bounds            \* MaxConcurrentReconciles, and bounds on the edits, on the
                      \* updates of sources, ConfigMaps and Secrets, and on the
                      \* failed attempts and crashes that go with it

ASSUME DependenciesAssumption ==
    /\ Graphs \subseteq [Ks -> SUBSET Ks]
    /\ WithExpr \subseteq Ks \X Ks
    /\ AdditiveCELDependencyCheck \in BOOLEAN
    /\ SourceRef \in [Ks -> Sources]
    /\ "none" \notin Revisions
    /\ First \in [Sources -> Revisions]
    /\ ConfigRefs \in [Ks -> SUBSET Configs]
    /\ Watched \subseteq Configs
    /\ Bounds \subseteq [concurrent : Nat \ {0}, edits : Nat, moves : Nat, faults : Nat]

VARIABLES
    concurrent,  \* MaxConcurrentReconciles, the same all along
    dependsOn,   \* .spec.dependsOn of every Kustomization
    exists,      \* was the Kustomization created?
    generation,  \* generation of every Kustomization
    status,      \* status of every Kustomization
    artifact,    \* revision of every source
    config,      \* version of every ConfigMap and Secret
    applied,     \* versions that the last applied build was made with
    queued,      \* keys in the workqueue
    timers,      \* keys with a pending delayed requeue
    worker,      \* what the worker of every key does
    edits,       \* edits of specs left
    moves,       \* updates left
    faults,      \* failures left
    dropped,     \* history: ConfigMaps and Secrets whose last update queued nobody
    ever         \* history: revisions every Kustomization has applied

Given == <<concurrent, dependsOn, config, applied, edits, dropped>>
vars == <<concurrent, dependsOn, exists, generation, status, artifact, config,
          applied, queued, timers, worker, edits, moves, faults, dropped, ever>>

Revision == Revisions \cup {"none"}

Status ==
    [ready : {"none", "True", "False", "Unknown"}, reconciling : BOOLEAN,
     observedGeneration : Nat,
     lastAppliedRevision : Revision, lastAttemptedRevision : Revision]

Versions == [Configs -> Nat]
NoVersions == [c \in Configs |-> 0]

\* generation, dependsOn: of the object as it was read; left: the dependencies
\* that checkDependencies still has to look at; config: the versions of ConfigMaps
\* and Secrets that the build read.
WorkerState ==
    [pc : {"idle", "source", "deps", "fetch", "build", "apply"},
     generation : Nat, dependsOn : SUBSET Ks, rev : Revision,
     left : SUBSET Ks, config : Versions]

Idle == [pc |-> "idle", generation |-> 0, dependsOn |-> {}, rev |-> "none",
         left |-> {}, config |-> NoVersions]

Busy == {k \in Ks : worker[k].pc # "idle"}

-----------------------------------------------------------------------------
(* One reconciliation.                                                     *)

\* A worker takes a key that no other worker has, and reads the object.
Start(k) ==
    /\ k \in queued
    /\ k \notin Busy
    /\ Cardinality(Busy) < concurrent
    /\ queued' = queued \ {k}
    /\ worker' = [worker EXCEPT ![k] =
                    [Idle EXCEPT !.pc = "source", !.generation = generation[k],
                                 !.dependsOn = dependsOn[k]]]
    /\ UNCHANGED <<Given, exists, generation, status, artifact, timers, moves, faults, ever>>

ResolveSource(k) ==
    /\ worker[k].pc = "source"
    /\ worker' = [worker EXCEPT ![k].pc = "deps", ![k].rev = artifact[SourceRef[k]],
                                ![k].left = worker[k].dependsOn]
    /\ UNCHANGED <<Given, exists, generation, status, artifact, queued, timers, moves,
                   faults, ever>>

DependencyReadyAnyRevision(k, d) ==   \* mutant: the revision is not compared
    LET dep == status[d] IN
    /\ dep.ready = "True"
    /\ dep.observedGeneration = generation[d]

\* The built-in readiness check of a dependency.
DependencyReady(k, d) ==
    LET dep == status[d] IN
    /\ dep.ready # "none"
    /\ dep.observedGeneration = generation[d]
    /\ dep.ready = "True"
    /\ SourceRef[d] = SourceRef[k] => dep.lastAppliedRevision = worker[k].rev

\* A readyExpr replaces the built-in check, or adds to it.
BuiltInCheck(k, d) == <<k, d>> \notin WithExpr \/ AdditiveCELDependencyCheck

CheckFirstDependency(k, d) ==   \* mutant: the loop ends with the first that is ready
    /\ worker[k].pc = "deps"
    /\ d \in worker[k].left
    /\ exists[d]
    /\ BuiltInCheck(k, d) => DependencyReady(k, d)
    /\ worker' = [worker EXCEPT ![k].left = {}]
    /\ UNCHANGED <<Given, exists, generation, status, artifact, queued, timers, moves,
                   faults, ever>>

\* One dependency is read, past the cache, and found ready; the value of a
\* readyExpr is the user's.
CheckDependency(k, d) ==
    /\ worker[k].pc = "deps"
    /\ d \in worker[k].left
    /\ exists[d]
    /\ BuiltInCheck(k, d) => DependencyReady(k, d)
    /\ worker' = [worker EXCEPT ![k].left = @ \ {d}]
    /\ UNCHANGED <<Given, exists, generation, status, artifact, queued, timers, moves,
                   faults, ever>>

DependencyNotReadyNoRetry(k, d) ==   \* mutant: waits for an event
    /\ worker[k].pc = "deps"
    /\ d \in worker[k].left
    /\ \/ ~exists[d]
       \/ BuiltInCheck(k, d) /\ ~DependencyReady(k, d)
       \/ <<k, d>> \in WithExpr
    /\ status' = [status EXCEPT ![k].ready = "False"]
    /\ worker' = [worker EXCEPT ![k] = Idle]
    /\ UNCHANGED <<Given, exists, generation, artifact, queued, timers, moves, faults, ever>>

\* It is missing or not ready: retry at the dependency requeue interval.
DependencyNotReady(k, d) ==
    /\ worker[k].pc = "deps"
    /\ d \in worker[k].left
    /\ \/ ~exists[d]
       \/ BuiltInCheck(k, d) /\ ~DependencyReady(k, d)
       \/ <<k, d>> \in WithExpr
    /\ status' = [status EXCEPT ![k].ready = "False"]
    /\ timers' = timers \cup {k}
    /\ worker' = [worker EXCEPT ![k] = Idle]
    /\ UNCHANGED <<Given, exists, generation, artifact, queued, moves, faults, ever>>

StartProgress(k) ==
    /\ worker[k].pc = "deps"
    /\ worker[k].left = {}
    /\ status' = [status EXCEPT ![k].ready = "Unknown", ![k].reconciling = TRUE]
    /\ worker' = [worker EXCEPT ![k].pc = "fetch"]
    /\ UNCHANGED <<Given, exists, generation, artifact, queued, timers, moves, faults, ever>>

FetchArtifact(k) ==
    /\ worker[k].pc = "fetch"
    /\ status' = [status EXCEPT ![k].lastAttemptedRevision = worker[k].rev]
    /\ worker' = [worker EXCEPT ![k].pc = "build"]
    /\ UNCHANGED <<Given, exists, generation, artifact, queued, timers, moves,
                   faults, ever>>

\* The build substitutes variables from ConfigMaps and Secrets and decrypts
\* with the keys of a Secret.
Build(k) ==
    /\ worker[k].pc = "build"
    /\ worker' = [worker EXCEPT ![k].pc = "apply",
                    ![k].config = [c \in Configs |->
                        IF c \in ConfigRefs[k] THEN config[c] ELSE 0]]
    /\ UNCHANGED <<Given, exists, generation, status, artifact, queued, timers,
                   moves, faults, ever>>

\* Fetch, build, apply, prune or health checks fail: retry.
Fail(k) ==
    /\ worker[k].pc \in {"fetch", "build", "apply"}
    /\ faults > 0
    /\ faults' = faults - 1
    /\ status' = [status EXCEPT ![k].ready = "False"]
    /\ timers' = timers \cup {k}
    /\ worker' = [worker EXCEPT ![k] = Idle]
    /\ UNCHANGED <<Given, exists, generation, artifact, queued, moves, ever>>

\* The build is applied, pruned and healthy; come back at the interval.
Succeed(k) ==
    /\ worker[k].pc = "apply"
    /\ status' = [status EXCEPT
                    ![k].ready = "True", ![k].reconciling = FALSE,
                    ![k].observedGeneration = worker[k].generation,
                    ![k].lastAppliedRevision = worker[k].rev]
    /\ applied' = [applied EXCEPT ![k] = worker[k].config]
    /\ ever' = [ever EXCEPT ![k] = @ \cup {worker[k].rev}]
    /\ timers' = timers \cup {k}
    /\ worker' = [worker EXCEPT ![k] = Idle]
    /\ UNCHANGED <<concurrent, dependsOn, exists, generation, artifact, config, queued,
                   edits, moves, faults, dropped>>

-----------------------------------------------------------------------------
(* The runtime, the users and the sources.                                 *)

TimerFires(k) ==
    /\ k \in timers
    /\ timers' = timers \ {k}
    /\ queued' = queued \cup {k}
    /\ UNCHANGED <<Given, exists, generation, status, artifact, worker, moves, faults, ever>>

Crash ==
    /\ faults > 0
    /\ faults' = faults - 1
    /\ worker' = [k \in Ks |-> Idle]
    /\ timers' = {}
    /\ queued' = {k \in Ks : exists[k]}
    /\ UNCHANGED <<Given, exists, generation, status, artifact, moves, ever>>

Create(k) ==
    /\ ~exists[k]
    /\ exists' = [exists EXCEPT ![k] = TRUE]
    /\ queued' = queued \cup {k}
    /\ UNCHANGED <<Given, generation, status, artifact, timers, worker, moves, faults, ever>>

\* A user edits the spec, and with it what the Kustomization depends on or not.
EditSpec(k) ==
    /\ k \in Editable
    /\ exists[k]
    /\ edits > 0
    /\ edits' = edits - 1
    /\ generation' = [generation EXCEPT ![k] = @ + 1]
    /\ \E g \in Graphs : dependsOn' = [dependsOn EXCEPT ![k] = g[k]]
    /\ queued' = queued \cup {k}
    /\ UNCHANGED <<concurrent, config, applied, dropped, exists, status, artifact, timers,
                   worker, moves, faults, ever>>

\* dependency.Sort refuses a list in which several depend on each other in a cycle.
Circular(list) ==
    \E cycle \in SUBSET list \ {{}} :
        \A k \in cycle : (dependsOn[k] \ {k}) \cap cycle # {}

\* The Kustomizations that a new revision of a source queues: those that use
\* it, but for the ones that are ready or reconciling at that very revision.
\* When the list cannot be sorted, nothing is queued.
RequestsForRevisionChange(s, r) ==
    LET list == {k \in Ks :
                    /\ exists[k]
                    /\ SourceRef[k] = s
                    /\ ~ /\ status[k].ready = "True" \/ status[k].reconciling
                         /\ status[k].lastAttemptedRevision = r}
    IN  IF Circular(list) THEN {} ELSE list

MoveSource(s, r) ==
    /\ moves > 0
    /\ r # artifact[s]
    /\ moves' = moves - 1
    /\ artifact' = [artifact EXCEPT ![s] = r]
    /\ queued' = queued \cup RequestsForRevisionChange(s, r)
    /\ UNCHANGED <<Given, exists, generation, status, timers, worker, faults, ever>>

RequestsUnlessAttempted(c) ==   \* mutant: the filter of the source watch
    LET list == {k \in Ks : /\ exists[k]
                            /\ c \in ConfigRefs[k]
                            /\ status[k].ready # "True" /\ ~status[k].reconciling}
    IN  IF Circular(list) THEN {} ELSE list

Users(c) == {k \in Ks : exists[k] /\ c \in ConfigRefs[k]}

\* The Kustomizations that an update of a watched ConfigMap or Secret queues: all
\* that refer to it, ready or not, or none when they cannot be sorted.
RequestsForConfigDependency(c) ==
    IF Circular(Users(c)) THEN {} ELSE Users(c)

EditConfig(c) ==
    /\ moves > 0
    /\ moves' = moves - 1
    /\ config' = [config EXCEPT ![c] = @ + 1]
    /\ queued' = IF c \in Watched
                 THEN queued \cup RequestsForConfigDependency(c) ELSE queued
    /\ dropped' = IF Circular(Users(c)) THEN dropped \cup {c} ELSE dropped \ {c}
    /\ UNCHANGED <<concurrent, dependsOn, exists, generation, status, artifact, applied,
                   timers, worker, edits, faults, ever>>

-----------------------------------------------------------------------------

Init ==
    /\ \E b \in Bounds : /\ concurrent = b.concurrent /\ edits = b.edits
                         /\ moves = b.moves /\ faults = b.faults
    /\ dependsOn \in Graphs
    /\ exists = [k \in Ks |-> FALSE]
    /\ generation = [k \in Ks |-> 1]
    /\ status = [k \in Ks |->
                   [ready |-> "none", reconciling |-> FALSE, observedGeneration |-> 0,
                    lastAppliedRevision |-> "none", lastAttemptedRevision |-> "none"]]
    /\ artifact = First
    /\ config = NoVersions
    /\ applied = [k \in Ks |-> NoVersions]
    /\ queued = {}
    /\ timers = {}
    /\ worker = [k \in Ks |-> Idle]
    /\ dropped = {}
    /\ ever = [k \in Ks |-> {}]

Work(k) ==
    \/ Start(k) \/ ResolveSource(k)
    \/ \E d \in Ks : CheckDependency(k, d) \/ DependencyNotReady(k, d)
    \/ StartProgress(k) \/ FetchArtifact(k) \/ Build(k) \/ Fail(k) \/ Succeed(k)

Next ==
    \/ \E k \in Ks : Work(k) \/ TimerFires(k) \/ Create(k) \/ EditSpec(k)
    \/ \E s \in Sources, r \in Revisions : MoveSource(s, r)
    \/ \E c \in Configs : EditConfig(c)
    \/ Crash

Spec == Init /\ [][Next]_vars

\* The workqueue is first in, first out, so that a key that waits gets a worker;
\* a worker keeps running, and a pending requeue fires.
FairSpec ==
    /\ Spec
    /\ \A k \in Ks : SF_vars(Start(k)) /\ WF_vars(Work(k)) /\ WF_vars(TimerFires(k))

-----------------------------------------------------------------------------
(* Properties.                                                             *)

\* Every variable has its type, and a worker past ResolveSource has a revision.
TypeOK ==
    /\ concurrent \in Nat \ {0}
    /\ dependsOn \in [Ks -> SUBSET Ks]
    /\ exists \in [Ks -> BOOLEAN]
    /\ generation \in [Ks -> Nat \ {0}]
    /\ status \in [Ks -> Status]
    /\ artifact \in [Sources -> Revisions]
    /\ config \in Versions
    /\ applied \in [Ks -> Versions]
    /\ queued \subseteq Ks
    /\ timers \subseteq Ks
    /\ worker \in [Ks -> WorkerState]
    /\ \A k \in Ks : worker[k].pc \in {"deps", "fetch", "build", "apply"} =>
                        worker[k].rev \in Revisions
    /\ {edits, moves, faults} \subseteq Nat
    /\ dropped \subseteq Configs
    /\ ever \in [Ks -> SUBSET Revisions]

\* Does the order of the rollout bind k to d, if it depends on it?
Bound(k, d) == SourceRef[d] = SourceRef[k] /\ BuiltInCheck(k, d)

\* A revision of a shared source reaches the dependencies first: a worker attempts
\* it only after every dependency of the spec it has read has applied it, although
\* the dependencies are read one by one, and move on or are edited in the meantime;
\* and a generation that is reported as observed was rolled out after its
\* dependencies.
RolloutOrder ==
    \A k, d \in Ks : Bound(k, d) =>
        /\ d \in worker[k].dependsOn /\ worker[k].pc \in {"fetch", "build", "apply"} =>
              worker[k].rev \in ever[d]
        /\ d \in dependsOn[k] /\ status[k].observedGeneration = generation[k] =>
              status[k].lastAppliedRevision \in ever[d]

\* Kustomizations that wait for each other or for themselves.
Interdependent(c) ==
    /\ c # {}
    /\ \A k \in c : \E d \in dependsOn[k] \cap c : BuiltInCheck(k, d)

\* A cycle does not start: while none of the Kustomizations of a cycle has been
\* applied, none is that has read its present spec, also when edits close and open
\* cycles.
CycleNeverStarts ==
    [][\A c \in SUBSET Ks :
          Interdependent(c) /\ (\A k \in c : ever[k] = {}) =>
              \A k \in c : worker[k].generation = generation[k] => ever'[k] = {}]_vars

\* Interdependent Kustomizations are never applied: there is always one whose
\* present spec is not reported as observed and ready.
InterdependentNeverApplied ==
    \A c \in SUBSET Ks : Interdependent(c) =>
        \E k \in c : ~ /\ status[k].ready = "True"
                       /\ status[k].observedGeneration = generation[k]

\* No update of a ConfigMap or Secret is lost: a Kustomization that reports Ready
\* and that nothing brings back before the interval was built with the versions
\* of its watched ConfigMaps and Secrets that exist now, also when they changed
\* while it was being reconciled; the exception is one whose users formed a
\* dependency cycle when it changed, for which requestsForConfigDependency queues
\* nobody.
NoConfigUpdateLost ==
    \A k \in Ks : \A c \in (ConfigRefs[k] \cap Watched) \ dropped :
        status[k].ready = "True" /\ k \notin queued \cup Busy =>
            applied[k][c] = config[c]

IsCurrent(k) ==
    /\ status[k].ready = "True"
    /\ status[k].observedGeneration = generation[k]
    /\ status[k].lastAppliedRevision = artifact[SourceRef[k]]
    /\ \A c \in ConfigRefs[k] : applied[k][c] = config[c]

\* A Kustomization that waits for a readyExpr, for a cycle, or for another that
\* does.
Blocked ==
    UNION {c \in SUBSET Ks :
              \A k \in c : \E d \in dependsOn[k] : d \in c \/ <<k, d>> \in WithExpr}

\* The rollout completes: whatever order the Kustomizations are created in and
\* whatever fails or is edited, once all exist and the sources rest, each that is
\* not blocked is ready at its revision, over and over.  Dependents are not woken up
\* when a dependency becomes ready, an unwatched ConfigMap wakes up nobody, and the
\* watches drop the requests they cannot sort: the requeue intervals bring all of
\* them back.  This is for one worker.  With several, a dependent may look at its
\* dependency each time that one is in the middle of a periodic reconciliation.
RolloutCompletes ==
    concurrent = 1 /\ <>[](\A k \in Ks : exists[k]) =>
        \A k \in Ks : []<>(k \in Blocked \/ IsCurrent(k))
=============================================================================
