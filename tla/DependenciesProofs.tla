------------------------- MODULE DependenciesProofs -------------------------
(***************************************************************************)
(* The order of a rollout, the fate of dependency cycles and the updates   *)
(* of ConfigMaps and Secrets, for every set of Kustomizations, dependency  *)
(* graphs, edits of them and sources, and any number of workers.           *)
(***************************************************************************)
EXTENDS Dependencies, TLAPS

\* What a Kustomization reports as applied or ready, it has applied; the spec that
\* its worker has read is the present one or an older one.
Reported(k) ==
    /\ status[k].lastAppliedRevision \in ever[k] \cup {"none"}
    /\ status[k].ready = "True" => ever[k] # {}
    /\ status[k].observedGeneration <= generation[k]
    /\ worker[k].pc # "idle" =>
          /\ worker[k].generation <= generation[k]
          /\ worker[k].generation = generation[k] => worker[k].dependsOn = dependsOn[k]

\* A dependency that the worker is done with was applied, at the worker's revision
\* when they share the source.
Checked(k, d) ==
    d \in worker[k].dependsOn /\ BuiltInCheck(k, d) =>
        \/ worker[k].pc \in {"idle", "source"}
        \/ worker[k].pc = "deps" /\ d \in worker[k].left
        \/ /\ ever[d] # {}
           /\ Bound(k, d) => worker[k].rev \in ever[d]

\* A generation that is reported as observed was rolled out after its dependencies.
Observed(k, d) ==
    Bound(k, d) /\ d \in dependsOn[k] /\ status[k].observedGeneration = generation[k] =>
        status[k].lastAppliedRevision \in ever[d]

Ordered(k) == Reported(k) /\ \A d \in Ks : Checked(k, d) /\ Observed(k, d)

OrderInv == TypeOK /\ \A k \in Ks : Ordered(k)

-----------------------------------------------------------------------------
(* Types.                                                                  *)

\* An idle worker has its type.
LEMMA IdleTyped == Idle \in WorkerState /\ Idle.pc = "idle"
  BY DependenciesAssumption DEF Idle, WorkerState, Revision, Versions, NoVersions

\* The parts of the type invariant that the workers and the statuses are not in.
RestTyped ==
    /\ concurrent \in Nat \ {0}
    /\ dependsOn \in [Ks -> SUBSET Ks]
    /\ exists \in [Ks -> BOOLEAN]
    /\ generation \in [Ks -> Nat \ {0}]
    /\ artifact \in [Sources -> Revisions]
    /\ config \in Versions
    /\ queued \subseteq Ks
    /\ timers \subseteq Ks
    /\ {edits, moves, faults} \subseteq Nat
    /\ dropped \subseteq Configs

\* Every step of a worker, and every other step, keeps them.
LEMMA RestKeeps ==
    ASSUME TypeOK, [Next]_vars
    PROVE  RestTyped'
<1>0. RestTyped
  BY DEF TypeOK, RestTyped
<1>1. ASSUME NEW k \in Ks, Work(k) PROVE RestTyped'
  <2>1. /\ UNCHANGED <<concurrent, dependsOn, config, exists, generation, artifact,
                       edits, moves, dropped>>
        /\ queued' \subseteq queued
        /\ timers' \subseteq timers \cup {k}
        /\ faults' = faults \/ (faults > 0 /\ faults' = faults - 1)
    BY <1>1 DEF Work, Start, ResolveSource, CheckDependency, DependencyNotReady,
           StartProgress, FetchArtifact, Build, Fail, Succeed, Given
  <2>2. faults' \in Nat
    BY <1>0, <2>1 DEF RestTyped
  <2> QED BY <1>0, <2>1, <2>2 DEF RestTyped
<1>2. ASSUME NEW k \in Ks, TimerFires(k) \/ Create(k) PROVE RestTyped'
  BY <1>0, <1>2 DEF RestTyped, TimerFires, Create, Given
<1>3. ASSUME NEW k \in Ks, EditSpec(k) PROVE RestTyped'
  <2>1. PICK g \in Graphs : dependsOn' = [dependsOn EXCEPT ![k] = g[k]]
    BY <1>3 DEF EditSpec
  <2>2. dependsOn' \in [Ks -> SUBSET Ks]
    BY <1>0, <2>1, DependenciesAssumption DEF RestTyped
  <2>3. generation' = [generation EXCEPT ![k] = generation[k] + 1]
    BY <1>3 DEF EditSpec
  <2>4. generation' \in [Ks -> Nat \ {0}] /\ edits' \in Nat
    BY <1>0, <1>3, <2>3 DEF RestTyped, EditSpec
  <2> QED BY <1>0, <1>3, <2>2, <2>4 DEF RestTyped, EditSpec
<1>4. ASSUME NEW s \in Sources, NEW r \in Revisions, MoveSource(s, r)
      PROVE  RestTyped'
  <2>1. RequestsForRevisionChange(s, r) \subseteq Ks
    BY DEF RequestsForRevisionChange
  <2>2. moves' \in Nat
    BY <1>0, <1>4 DEF RestTyped, MoveSource
  <2> QED BY <1>0, <1>4, <2>1, <2>2 DEF RestTyped, MoveSource, Given
<1>5. ASSUME NEW c \in Configs, EditConfig(c) PROVE RestTyped'
  <2>1. RequestsForConfigDependency(c) \subseteq Ks
    BY DEF RequestsForConfigDependency, Users
  <2>2. moves' \in Nat
    BY <1>0, <1>5 DEF RestTyped, EditConfig
  <2>3. config' = [config EXCEPT ![c] = config[c] + 1]
    BY <1>5 DEF EditConfig
  <2>4. config' \in Versions
    BY <1>0, <2>3 DEF RestTyped, Versions
  <2> QED BY <1>0, <1>5, <2>1, <2>2, <2>4 DEF RestTyped, EditConfig
<1>6. CASE Crash
  <2>1. faults' \in Nat
    BY <1>0, <1>6 DEF RestTyped, Crash
  <2> QED BY <1>0, <1>6, <2>1 DEF RestTyped, Crash, Given
<1>7. CASE UNCHANGED vars
  BY <1>0, <1>7 DEF RestTyped, vars
<1> QED BY <1>1, <1>2, <1>3, <1>4, <1>5, <1>6, <1>7 DEF Next

\* What another Kustomization's worker and users cannot touch.
Frame(k) ==
    /\ \A x \in Ks : ever[x] \subseteq ever'[x]
    /\ \A x \in Ks \ {k} : /\ status'[x] = status[x]
                           /\ worker'[x] = worker[x]
                           /\ generation'[x] = generation[x]
                           /\ dependsOn'[x] = dependsOn[x]

\* The types of what a worker changes.
WorkTyped ==
    /\ status \in [Ks -> Status]
    /\ worker \in [Ks -> WorkerState]
    /\ ever \in [Ks -> SUBSET Revisions]
    /\ applied \in [Ks -> Versions]

\* A step about k keeps the invariant if it keeps it for k.
LEMMA LocalKeeps ==
    ASSUME OrderInv, NEW k \in Ks, Frame(k), WorkTyped', RestTyped',
           worker'[k].pc \in {"deps", "fetch", "build", "apply"} =>
               worker'[k].rev \in Revisions,
           Ordered(k)'
    PROVE  OrderInv'
<1>1. TypeOK'
  BY DEF OrderInv, TypeOK, Frame, RestTyped, WorkTyped
<1>2. ASSUME NEW x \in Ks PROVE Ordered(x)'
  <2>1. CASE x = k
    BY <2>1
  <2>2. CASE x # k
    <3>1. /\ status'[x] = status[x] /\ worker'[x] = worker[x]
          /\ generation'[x] = generation[x] /\ dependsOn'[x] = dependsOn[x]
          /\ \A y \in Ks : ever[y] \subseteq ever'[y]
      BY <2>2 DEF Frame
    <3>2. Ordered(x)
      BY DEF OrderInv
    <3>3. Reported(x)'
      BY <3>1, <3>2 DEF Ordered, Reported
    <3>4. ASSUME NEW d \in Ks PROVE Checked(x, d)' /\ Observed(x, d)'
      BY <3>1, <3>2 DEF Ordered, Checked, Observed, Bound, BuiltInCheck
    <3> QED BY <3>3, <3>4 DEF Ordered
  <2> QED BY <2>1, <2>2
<1> QED BY <1>1, <1>2 DEF OrderInv

-----------------------------------------------------------------------------
(* The order of the rollout.                                               *)

\* The steps of a worker keep the invariant.
LEMMA WorkKeeps ==
    ASSUME OrderInv, NEW k \in Ks, Work(k)
    PROVE  OrderInv'
<1>0. /\ worker \in [Ks -> WorkerState] /\ status \in [Ks -> Status]
      /\ worker[k] \in WorkerState /\ status[k] \in Status
      /\ ever \in [Ks -> SUBSET Revisions]
      /\ generation[k] \in Nat
      /\ artifact[SourceRef[k]] \in Revisions
      /\ dependsOn[k] \subseteq Ks
      /\ "none" \notin Revisions
      /\ applied \in [Ks -> Versions] /\ config \in Versions
      /\ worker[k].pc \in {"deps", "fetch", "build", "apply"} => worker[k].rev \in Revisions
  BY DependenciesAssumption DEF OrderInv, TypeOK
<1>a. Reported(k) /\ \A d \in Ks : Checked(k, d) /\ Observed(k, d)
  BY DEF OrderInv, Ordered
<1>r. RestTyped'
  BY RestKeeps DEF OrderInv, Next
<1>g. UNCHANGED <<dependsOn, generation>>
  BY DEF Work, Start, ResolveSource, CheckDependency, DependencyNotReady,
         StartProgress, FetchArtifact, Build, Fail, Succeed, Given
<1>1. CASE Start(k)
  <2> DEFINE w == [Idle EXCEPT !.pc = "source", !.generation = generation[k],
                               !.dependsOn = dependsOn[k]]
  <2>1. /\ w \in WorkerState /\ w.pc = "source"
        /\ w.generation = generation[k] /\ w.dependsOn = dependsOn[k]
    BY <1>0, IdleTyped DEF WorkerState
  <2> HIDE DEF w
  <2>2. worker' = [worker EXCEPT ![k] = w] /\ UNCHANGED <<status, ever, applied>>
    BY <1>1 DEF Start, w, Given
  <2>3. WorkTyped' /\ Frame(k)
    BY <1>0, <1>g, <2>1, <2>2 DEF WorkTyped, Frame
  <2>4. Ordered(k)'
    BY <1>0, <1>a, <1>g, <2>1, <2>2
    DEF Ordered, Reported, Checked, Observed, Bound, BuiltInCheck
  <2> QED BY <1>0, <1>r, <2>1, <2>2, <2>3, <2>4, LocalKeeps
<1>2. CASE ResolveSource(k)
  <2>1. /\ worker'[k].pc = "deps" /\ worker'[k].rev = artifact[SourceRef[k]]
        /\ worker'[k].left = worker[k].dependsOn
        /\ worker'[k].dependsOn = worker[k].dependsOn
        /\ worker'[k].generation = worker[k].generation
        /\ worker' \in [Ks -> WorkerState]
        /\ \A x \in Ks \ {k} : worker'[x] = worker[x]
        /\ UNCHANGED <<status, ever, applied>>
        /\ worker[k].pc = "source"
    BY <1>0, <1>2 DEF ResolveSource, WorkerState, Revision, Given
  <2>2. WorkTyped' /\ Frame(k)
    BY <1>0, <1>g, <2>1 DEF WorkTyped, Frame
  <2>3. Ordered(k)'
    BY <1>0, <1>a, <1>g, <2>1
    DEF Ordered, Reported, Checked, Observed, Bound, BuiltInCheck
  <2> QED BY <1>0, <1>r, <2>1, <2>2, <2>3, LocalKeeps
<1>3. ASSUME NEW d \in Ks, CheckDependency(k, d) PROVE OrderInv'
  <2>1. /\ worker'[k].pc = "deps" /\ worker'[k].rev = worker[k].rev
        /\ worker'[k].left = worker[k].left \ {d}
        /\ worker'[k].dependsOn = worker[k].dependsOn
        /\ worker'[k].generation = worker[k].generation
        /\ worker' \in [Ks -> WorkerState]
        /\ \A x \in Ks \ {k} : worker'[x] = worker[x]
        /\ UNCHANGED <<status, ever, applied>>
        /\ worker[k].pc = "deps"
    BY <1>0, <1>3 DEF CheckDependency, WorkerState, Given
  <2>2. BuiltInCheck(k, d) => ever[d] # {} /\ (Bound(k, d) => worker[k].rev \in ever[d])
    <3>1. BuiltInCheck(k, d) =>
             /\ status[d].ready = "True"
             /\ Bound(k, d) => status[d].lastAppliedRevision = worker[k].rev
      BY <1>3 DEF CheckDependency, Bound, DependencyReady
    <3>2. /\ status[d].lastAppliedRevision \in ever[d] \cup {"none"}
          /\ status[d].ready = "True" => ever[d] # {}
      BY DEF OrderInv, Ordered, Reported
    <3> QED BY <1>0, <2>1, <3>1, <3>2
  <2>3. WorkTyped' /\ Frame(k)
    BY <1>0, <1>g, <2>1 DEF WorkTyped, Frame
  <2>4. Reported(k)'
    BY <1>0, <1>a, <1>g, <2>1 DEF Reported
  <2>5. ASSUME NEW e \in Ks PROVE Checked(k, e)' /\ Observed(k, e)'
    BY <1>0, <1>a, <1>g, <2>1, <2>2 DEF Checked, Observed, Bound, BuiltInCheck
  <2>6. Ordered(k)'
    BY <2>4, <2>5 DEF Ordered
  <2> QED BY <1>0, <1>r, <2>1, <2>3, <2>6, LocalKeeps
<1>4. CASE Fail(k) \/ \E d \in Ks : DependencyNotReady(k, d)
  <2>1. /\ status'[k].lastAppliedRevision = status[k].lastAppliedRevision
        /\ status'[k].observedGeneration = status[k].observedGeneration
        /\ status'[k].ready = "False"
        /\ status' \in [Ks -> Status]
        /\ \A x \in Ks \ {k} : status'[x] = status[x]
    <3>1. status' = [status EXCEPT ![k].ready = "False"]
      BY <1>4 DEF Fail, DependencyNotReady
    <3> QED BY <1>0, <3>1 DEF Status
  <2>2. worker' = [worker EXCEPT ![k] = Idle] /\ UNCHANGED <<ever, applied>>
    BY <1>4 DEF Fail, DependencyNotReady, Given
  <2>3. worker'[k].pc = "idle"
    BY <1>0, <2>2, IdleTyped
  <2>4. WorkTyped' /\ Frame(k)
    BY <1>0, <1>g, <2>1, <2>2, IdleTyped DEF WorkTyped, Frame
  <2>5. Ordered(k)'
    BY <1>0, <1>a, <1>g, <2>1, <2>2, <2>3
    DEF Ordered, Reported, Checked, Observed, Bound, BuiltInCheck
  <2> QED BY <1>r, <2>3, <2>4, <2>5, LocalKeeps
<1>5. CASE StartProgress(k) \/ FetchArtifact(k)
  <2>1. /\ status'[k].lastAppliedRevision = status[k].lastAppliedRevision
        /\ status'[k].observedGeneration = status[k].observedGeneration
        /\ status'[k].ready \in {"Unknown", status[k].ready}
        /\ status' \in [Ks -> Status]
        /\ \A x \in Ks \ {k} : status'[x] = status[x]
    <3>1. CASE StartProgress(k)
      BY <1>0, <3>1 DEF StartProgress, Status
    <3>2. CASE FetchArtifact(k)
      BY <1>0, <3>2 DEF FetchArtifact, Status, WorkerState
    <3> QED BY <1>5, <3>1, <3>2
  <2>2. /\ \/ worker[k].pc = "deps" /\ worker[k].left = {}
           \/ worker[k].pc = "fetch"
        /\ worker'[k].pc \in {"fetch", "build"} /\ worker'[k].rev = worker[k].rev
        /\ worker'[k].dependsOn = worker[k].dependsOn
        /\ worker'[k].generation = worker[k].generation
        /\ worker' \in [Ks -> WorkerState]
        /\ \A x \in Ks \ {k} : worker'[x] = worker[x]
        /\ UNCHANGED <<ever, applied>>
    <3>1. CASE StartProgress(k)
      BY <1>0, <3>1 DEF StartProgress, WorkerState, Given
    <3>2. CASE FetchArtifact(k)
      BY <1>0, <3>2 DEF FetchArtifact, WorkerState, Given
    <3> QED BY <1>5, <3>1, <3>2
  <2>3. WorkTyped' /\ Frame(k)
    BY <1>0, <1>g, <2>1, <2>2 DEF WorkTyped, Frame
  <2>4. Ordered(k)'
    BY <1>0, <1>a, <1>g, <2>1, <2>2
    DEF Ordered, Reported, Checked, Observed, Bound, BuiltInCheck
  <2> QED BY <1>0, <1>r, <2>2, <2>3, <2>4, LocalKeeps
<1>6. CASE Build(k)
  <2>1. /\ worker[k].pc = "build"
        /\ worker'[k].pc = "apply" /\ worker'[k].rev = worker[k].rev
        /\ worker'[k].dependsOn = worker[k].dependsOn
        /\ worker'[k].generation = worker[k].generation
        /\ \A x \in Ks \ {k} : worker'[x] = worker[x]
        /\ UNCHANGED <<status, ever, applied>>
    BY <1>0, <1>6 DEF Build, WorkerState, Given
  <2>2. worker' \in [Ks -> WorkerState]
    <3> DEFINE read == [c \in Configs |-> IF c \in ConfigRefs[k] THEN config[c] ELSE 0]
    <3>1. read \in Versions
      BY <1>0 DEF Versions
    <3> HIDE DEF read
    <3>2. worker' = [worker EXCEPT ![k].pc = "apply", ![k].config = read]
      BY <1>6 DEF Build, read
    <3> QED BY <1>0, <3>1, <3>2 DEF WorkerState
  <2>3. WorkTyped' /\ Frame(k)
    BY <1>0, <1>g, <2>1, <2>2 DEF WorkTyped, Frame
  <2>4. Ordered(k)'
    BY <1>0, <1>a, <1>g, <2>1
    DEF Ordered, Reported, Checked, Observed, Bound, BuiltInCheck
  <2> QED BY <1>0, <1>r, <2>1, <2>3, <2>4, LocalKeeps
<1>7. CASE Succeed(k)
  <2>1. /\ worker[k].pc = "apply" /\ worker[k].rev \in Revisions
        /\ worker[k].generation \in Nat
        /\ worker[k].generation <= generation[k]
        /\ applied' \in [Ks -> Versions]
    BY <1>0, <1>7, <1>a DEF Succeed, WorkerState, Reported
  <2>2. /\ status'[k].lastAppliedRevision = worker[k].rev
        /\ status'[k].observedGeneration = worker[k].generation
        /\ status' \in [Ks -> Status]
        /\ \A x \in Ks \ {k} : status'[x] = status[x]
    BY <1>0, <1>7, <2>1 DEF Succeed, Status, Revision
  <2>3. /\ worker' = [worker EXCEPT ![k] = Idle]
        /\ ever' = [ever EXCEPT ![k] = ever[k] \cup {worker[k].rev}]
    BY <1>7 DEF Succeed
  <2>4. /\ worker'[k].pc = "idle" /\ ever' \in [Ks -> SUBSET Revisions]
        /\ worker[k].rev \in ever'[k]
        /\ \A x \in Ks : ever[x] \subseteq ever'[x]
    BY <1>0, <2>1, <2>3, IdleTyped
  <2>5. WorkTyped' /\ Frame(k)
    BY <1>0, <1>g, <2>1, <2>2, <2>3, <2>4, IdleTyped DEF WorkTyped, Frame
  <2>6. Reported(k)'
    BY <1>0, <1>g, <2>1, <2>2, <2>4 DEF Reported
  <2>7. ASSUME NEW d \in Ks PROVE Checked(k, d)' /\ Observed(k, d)'
    <3>1. Checked(k, d)'
      BY <2>4 DEF Checked
    <3>2. SUFFICES ASSUME Bound(k, d), d \in dependsOn[k],
                          worker[k].generation = generation[k]
                   PROVE  worker[k].rev \in ever[d]
      BY <1>g, <2>2, <2>4, <3>1 DEF Observed, Bound, BuiltInCheck
    <3>3. d \in worker[k].dependsOn /\ BuiltInCheck(k, d)
      BY <1>a, <2>1, <3>2 DEF Reported, Bound
    <3> QED BY <1>a, <2>1, <3>2, <3>3 DEF Checked
  <2>8. Ordered(k)'
    BY <2>6, <2>7 DEF Ordered
  <2> QED BY <1>r, <2>4, <2>5, <2>8, LocalKeeps
<1> QED
  BY <1>1, <1>2, <1>3, <1>4, <1>5, <1>6, <1>7 DEF Work

\* An edit makes the observed generation an old one; the other steps of users,
\* sources and the runtime touch neither the status nor, but for a crash, the workers.
LEMMA OthersKeep ==
    ASSUME OrderInv, [Next]_vars, ~ \E k \in Ks : Work(k)
    PROVE  OrderInv'
<1>0. /\ worker \in [Ks -> WorkerState] /\ status \in [Ks -> Status]
      /\ ever \in [Ks -> SUBSET Revisions] /\ applied \in [Ks -> Versions]
      /\ generation \in [Ks -> Nat \ {0}] /\ dependsOn \in [Ks -> SUBSET Ks]
  BY DEF OrderInv, TypeOK
<1>r. RestTyped'
  BY RestKeeps DEF OrderInv
<1>1. ASSUME NEW k \in Ks, EditSpec(k) PROVE OrderInv'
  <2>1. PICK g \in Graphs : dependsOn' = [dependsOn EXCEPT ![k] = g[k]]
    BY <1>1 DEF EditSpec
  <2>2. /\ UNCHANGED <<status, worker, ever, applied>>
        /\ generation' = [generation EXCEPT ![k] = generation[k] + 1]
    BY <1>1 DEF EditSpec
  <2>3. WorkTyped' /\ Frame(k)
    BY <1>0, <2>1, <2>2 DEF WorkTyped, Frame
  <2>4. Ordered(k) /\ status[k] \in Status /\ worker[k] \in WorkerState
    BY <1>0 DEF OrderInv
  <2>5. /\ generation[k] \in Nat /\ generation'[k] = generation[k] + 1
        /\ status[k].observedGeneration \in Nat /\ worker[k].generation \in Nat
    BY <1>0, <2>2, <2>4 DEF Status, WorkerState
  <2>6. Reported(k)'
    BY <2>2, <2>4, <2>5 DEF Ordered, Reported
  <2>7. ASSUME NEW d \in Ks PROVE Checked(k, d)' /\ Observed(k, d)'
    <3>1. status[k].observedGeneration # generation'[k]
      BY <2>4, <2>5 DEF Ordered, Reported
    <3> QED BY <2>2, <2>4, <3>1 DEF Ordered, Checked, Observed, Bound, BuiltInCheck
  <2>8. Ordered(k)'
    BY <2>6, <2>7 DEF Ordered
  <2>9. worker'[k].pc \in {"deps", "fetch", "build", "apply"} => worker'[k].rev \in Revisions
    BY <2>2 DEF OrderInv, TypeOK
  <2> QED BY <1>r, <2>3, <2>8, <2>9, LocalKeeps
<1>2. CASE ~ \E k \in Ks : EditSpec(k)
  <2>1. /\ UNCHANGED <<status, ever, dependsOn, generation, applied>>
        /\ worker' = worker \/ worker' = [k \in Ks |-> Idle]
    BY <1>2 DEF Next, TimerFires, Create, MoveSource, EditConfig, Crash, vars, Given
  <2>2. TypeOK'
    BY <1>r, <2>1, IdleTyped DEF OrderInv, TypeOK, RestTyped
  <2>3. ASSUME NEW k \in Ks PROVE Ordered(k)'
    <3>1. Ordered(k)
      BY DEF OrderInv
    <3>2. CASE worker' = worker
      BY <2>1, <3>1, <3>2
      DEF Ordered, Reported, Checked, Observed, Bound, BuiltInCheck
    <3>3. CASE worker' = [x \in Ks |-> Idle]
      <4>1. worker'[k].pc = "idle"
        BY <3>3, IdleTyped
      <4> QED BY <2>1, <3>1, <4>1
              DEF Ordered, Reported, Checked, Observed, Bound, BuiltInCheck
    <3> QED BY <2>1, <3>2, <3>3
  <2> QED BY <2>2, <2>3 DEF OrderInv
<1> QED BY <1>1, <1>2

\* The order is inductive.
LEMMA OrderInvariant == Spec => []OrderInv
<1>1. Init => OrderInv
  <2> SUFFICES ASSUME Init PROVE OrderInv
    OBVIOUS
  <2>1. status \in [Ks -> Status]
    BY DependenciesAssumption DEF Init, Status, Revision
  <2>2. PICK b \in Bounds : /\ concurrent = b.concurrent /\ edits = b.edits
                            /\ moves = b.moves /\ faults = b.faults
    BY DEF Init
  <2>3. concurrent \in Nat \ {0} /\ edits \in Nat /\ moves \in Nat /\ faults \in Nat
    BY <2>2, DependenciesAssumption
  <2>4. /\ config \in Versions /\ applied \in [Ks -> Versions]
        /\ dependsOn \in [Ks -> SUBSET Ks] /\ generation \in [Ks -> Nat \ {0}]
    BY DependenciesAssumption DEF Init, NoVersions, Versions
  <2>5. TypeOK
    BY <2>1, <2>3, <2>4, IdleTyped, DependenciesAssumption DEF Init, TypeOK
  <2>6. ASSUME NEW k \in Ks PROVE Ordered(k)
    <3>1. /\ worker[k].pc = "idle" /\ status[k].ready = "none"
          /\ status[k].observedGeneration = 0 /\ generation[k] = 1
          /\ status[k].lastAppliedRevision = "none"
      BY IdleTyped DEF Init
    <3> QED BY <3>1 DEF Ordered, Reported, Checked, Observed
  <2> QED BY <2>5, <2>6 DEF OrderInv
<1>2. OrderInv /\ [Next]_vars => OrderInv'
  BY WorkKeeps, OthersKeep
<1> QED BY <1>1, <1>2, PTL DEF Spec

\* A revision of a shared source reaches a Kustomization only after each of its
\* dependencies, with any number of workers and whatever is edited.
THEOREM RolloutIsOrdered == Spec => []RolloutOrder
<1>1. OrderInv => RolloutOrder
  <2> SUFFICES ASSUME OrderInv, NEW k \in Ks, NEW d \in Ks, Bound(k, d)
               PROVE  /\ d \in worker[k].dependsOn
                         /\ worker[k].pc \in {"fetch", "build", "apply"} =>
                            worker[k].rev \in ever[d]
                      /\ d \in dependsOn[k]
                         /\ status[k].observedGeneration = generation[k] =>
                            status[k].lastAppliedRevision \in ever[d]
    BY DEF RolloutOrder
  <2>1. Checked(k, d) /\ Observed(k, d)
    BY DEF OrderInv, Ordered
  <2> QED BY <2>1 DEF Checked, Observed, Bound
<1> QED BY <1>1, OrderInvariant, PTL

-----------------------------------------------------------------------------
(* Dependency cycles.                                                      *)

\* A cycle of which nothing was applied never gets started: the worker of each of
\* them that has read its present spec still has one of the others to wait for.
THEOREM CyclesNeverStart == Spec => CycleNeverStarts
<1> DEFINE Step == \A c \in SUBSET Ks :
              Interdependent(c) /\ (\A k \in c : ever[k] = {}) =>
                  \A k \in c : worker[k].generation = generation[k] => ever'[k] = {}
<1>1. OrderInv /\ [Next]_vars => [Step]_vars
  <2> SUFFICES ASSUME OrderInv, Next, NEW c \in SUBSET Ks, Interdependent(c),
                      \A k \in c : ever[k] = {},
                      NEW k \in c, worker[k].generation = generation[k]
               PROVE  ever'[k] = {}
    OBVIOUS
  <2>0. k \in Ks /\ ever \in [Ks -> SUBSET Revisions] /\ ever[k] = {}
    BY DEF OrderInv, TypeOK
  <2>1. CASE ever' = ever
    BY <2>0, <2>1
  <2>2. ASSUME NEW x \in Ks, Succeed(x) PROVE ever'[k] = {}
    <3>1. CASE x # k
      BY <2>0, <2>2, <3>1 DEF Succeed
    <3>2. CASE x = k
      <4>1. worker[k].pc = "apply"
        BY <2>2, <3>2 DEF Succeed
      <4>2. Reported(k) /\ \A d \in Ks : Checked(k, d)
        BY <2>0 DEF OrderInv, Ordered
      <4>3. PICK d \in dependsOn[k] \cap c : BuiltInCheck(k, d)
        BY DEF Interdependent
      <4>4. d \in worker[k].dependsOn
        BY <4>1, <4>2, <4>3 DEF Reported
      <4>5. ever[d] # {}
        BY <4>1, <4>2, <4>3, <4>4 DEF Checked
      <4> QED BY <4>3, <4>5
    <3> QED BY <3>1, <3>2
  <2> QED BY <2>1, <2>2
          DEF Next, Work, Start, ResolveSource, CheckDependency, DependencyNotReady,
              StartProgress, FetchArtifact, Build, Fail, TimerFires, Create, EditSpec,
              MoveSource, EditConfig, Crash
<1>2. [][Step]_vars => CycleNeverStarts
  BY PTL DEF CycleNeverStarts
<1> QED BY <1>1, <1>2, OrderInvariant, PTL DEF Spec

-----------------------------------------------------------------------------
(* Updates of ConfigMaps and Secrets.                                      *)

\* A Kustomization that was not created yet has no worker and is not ready.
Unborn ==
    \A k \in Ks : ~exists[k] => /\ worker[k].pc = "idle"
                                /\ status[k].ready # "True"
                                /\ k \notin queued
                                /\ k \notin timers

\* The Kustomization will be built again, or was built with the version of c that
\* exists now.
Informed(k, c) ==
    \/ k \in queued
    \/ worker[k].pc \in {"source", "deps", "fetch", "build"}
    \/ worker[k].pc = "apply" /\ worker[k].config[c] = config[c]
    \/ /\ worker[k].pc = "idle"
       /\ status[k].ready = "True" => applied[k][c] = config[c]

ConfigInv ==
    /\ Unborn
    /\ \A k \in Ks : \A c \in ConfigRefs[k] \cap Watched :
          c \notin dropped => Informed(k, c)

\* A Kustomization that does not exist yet is left alone.
LEMMA UnbornKeeps ==
    ASSUME TypeOK, Unborn, [Next]_vars
    PROVE  Unborn'
<1> SUFFICES ASSUME NEW k \in Ks, ~exists'[k]
             PROVE  /\ worker'[k].pc = "idle"
                    /\ status'[k].ready # "True"
                    /\ k \notin queued'
                    /\ k \notin timers'
  BY DEF Unborn
<1>0. /\ worker \in [Ks -> WorkerState] /\ status \in [Ks -> Status]
      /\ exists \in [Ks -> BOOLEAN]
  BY DEF TypeOK
<1>1. ~exists[k]
  BY <1>0 DEF Next, Work, Start, ResolveSource, CheckDependency, DependencyNotReady,
     StartProgress, FetchArtifact, Build, Fail, Succeed, TimerFires, Create,
     EditSpec, MoveSource, EditConfig, Crash, vars
<1>2. /\ worker[k].pc = "idle" /\ status[k].ready # "True"
      /\ k \notin queued /\ k \notin timers
  BY <1>1 DEF Unborn
<1>3. ASSUME NEW x \in Ks, Work(x)
      PROVE  /\ worker'[k].pc = "idle" /\ status'[k].ready # "True"
             /\ k \notin queued' /\ k \notin timers'
  <2>1. x # k
    BY <1>2, <1>3 DEF Work, Start, ResolveSource, CheckDependency,
       DependencyNotReady, StartProgress, FetchArtifact, Build, Fail, Succeed
  <2>2. /\ worker'[k] = worker[k] /\ status'[k] = status[k]
        /\ queued' \subseteq queued /\ timers' \subseteq timers \cup {x}
    BY <1>0, <1>3, <2>1 DEF Work, Start, ResolveSource, CheckDependency,
       DependencyNotReady, StartProgress, FetchArtifact, Build, Fail, Succeed
  <2> QED BY <1>2, <2>1, <2>2
<1>4. CASE ~ \E x \in Ks : Work(x)
  <2>1. /\ status' = status /\ timers' \subseteq timers
        /\ worker' = worker \/ worker' = [x \in Ks |-> Idle]
    BY <1>4 DEF Next, TimerFires, Create, EditSpec, MoveSource, EditConfig, Crash, vars
  <2>2. k \notin queued'
    <3>1. ASSUME NEW s \in Sources, NEW r \in Revisions
          PROVE  k \notin RequestsForRevisionChange(s, r)
      BY <1>1 DEF RequestsForRevisionChange
    <3>2. ASSUME NEW c \in Configs PROVE k \notin RequestsForConfigDependency(c)
      BY <1>1 DEF RequestsForConfigDependency, Users
    <3>3. ASSUME NEW x \in Ks, Create(x) PROVE k \notin queued'
      BY <1>0, <1>2, <3>3 DEF Create
    <3>4. ASSUME NEW x \in Ks, TimerFires(x) \/ EditSpec(x) PROVE k \notin queued'
      BY <1>1, <1>2, <3>4 DEF TimerFires, EditSpec
    <3> QED
      BY <1>1, <1>2, <1>4, <3>1, <3>2, <3>3, <3>4
      DEF Next, MoveSource, EditConfig, Crash, vars
  <2> QED BY <1>2, <2>1, <2>2 DEF Idle
<1> QED BY <1>3, <1>4

\* The version that the build read is compared with the one that exists after
\* every step; an update in between puts the key back in the queue.
LEMMA ConfigKeeps ==
    ASSUME TypeOK, ConfigInv, [Next]_vars
    PROVE  ConfigInv'
<1>u. Unborn'
  BY UnbornKeeps DEF ConfigInv
<1> SUFFICES ASSUME NEW k \in Ks, NEW c \in ConfigRefs[k] \cap Watched,
                    c \notin dropped'
             PROVE  Informed(k, c)'
  BY <1>u DEF ConfigInv
<1>0. /\ worker \in [Ks -> WorkerState] /\ status \in [Ks -> Status]
      /\ exists \in [Ks -> BOOLEAN] /\ config \in [Configs -> Nat]
      /\ applied \in [Ks -> Versions] /\ c \in Configs
  BY DependenciesAssumption DEF TypeOK, Versions
<1>2. c \notin dropped => Informed(k, c)
  BY DEF ConfigInv
<1>3. ASSUME NEW x \in Ks, Work(x) PROVE Informed(k, c)'
  <2>0. config' = config /\ dropped' = dropped
    BY <1>3 DEF Work, Start, ResolveSource, CheckDependency, DependencyNotReady,
       StartProgress, FetchArtifact, Build, Fail, Succeed, Given
  <2>1. CASE x # k
    <3>1. /\ worker'[k] = worker[k] /\ status'[k] = status[k]
          /\ applied'[k] = applied[k]
          /\ k \in queued => k \in queued'
      BY <1>0, <1>3, <2>1 DEF Work, Start, ResolveSource, CheckDependency,
         DependencyNotReady, StartProgress, FetchArtifact, Build, Fail, Succeed, Given
    <3> QED BY <1>2, <2>0, <3>1 DEF Informed
  <2>2. CASE Start(k)
    <3>1. worker'[k].pc = "source"
      BY <1>0, <2>2 DEF Start, Idle
    <3> QED BY <3>1 DEF Informed
  <2>3. CASE ResolveSource(k) \/ StartProgress(k) \/ FetchArtifact(k)
    <3>1. worker'[k].pc \in {"deps", "fetch", "build"}
      BY <1>0, <2>3 DEF ResolveSource, StartProgress, FetchArtifact, WorkerState
    <3> QED BY <3>1 DEF Informed
  <2>4. ASSUME NEW d \in Ks, CheckDependency(k, d) PROVE Informed(k, c)'
    <3>1. worker'[k].pc = "deps"
      BY <1>0, <2>4 DEF CheckDependency, WorkerState
    <3> QED BY <3>1 DEF Informed
  <2>5. CASE Fail(k) \/ \E d \in Ks : DependencyNotReady(k, d)
    <3>1. /\ worker' = [worker EXCEPT ![k] = Idle]
          /\ status' = [status EXCEPT ![k].ready = "False"]
      BY <2>5 DEF Fail, DependencyNotReady
    <3>2. /\ worker'[k] = Idle /\ status'[k].ready = "False"
      BY <1>0, <3>1 DEF Status
    <3> QED BY <3>2 DEF Informed, Idle
  <2>6. CASE Build(k)
    <3>1. worker'[k].pc = "apply" /\ worker'[k].config[c] = config[c]
      BY <1>0, <2>6 DEF Build, WorkerState
    <3> QED BY <2>0, <3>1 DEF Informed
  <2>7. CASE Succeed(k)
    <3>1. /\ worker[k].pc = "apply" /\ worker'[k] = Idle
          /\ applied'[k] = worker[k].config /\ queued' = queued
      BY <1>0, <2>7 DEF Succeed
    <3> QED BY <1>2, <2>0, <3>1 DEF Informed, Idle
  <2> QED BY <1>3, <2>1, <2>2, <2>3, <2>4, <2>5, <2>6, <2>7 DEF Work
<1>4. ASSUME NEW e \in Configs, EditConfig(e) PROVE Informed(k, c)'
  <2>1. /\ UNCHANGED <<worker, status, applied>> /\ queued \subseteq queued'
    BY <1>4 DEF EditConfig
  <2>2. CASE e # c
    <3>1. config'[c] = config[c] /\ c \notin dropped
      BY <1>0, <1>4, <2>2 DEF EditConfig
    <3> QED BY <1>2, <2>1, <3>1 DEF Informed
  <2>3. CASE e = c
    <3>1. CASE exists[k]
      <4>1. k \in RequestsForConfigDependency(c)
        BY <1>4, <2>3, <3>1 DEF EditConfig, RequestsForConfigDependency, Users
      <4>2. k \in queued'
        BY <1>4, <2>3, <4>1 DEF EditConfig
      <4> QED BY <4>2 DEF Informed
    <3>2. CASE ~exists[k]
      <4>1. worker[k].pc = "idle" /\ status[k].ready # "True"
        BY <3>2 DEF ConfigInv, Unborn
      <4> QED BY <2>1, <4>1 DEF Informed
    <3> QED BY <3>1, <3>2
  <2> QED BY <2>2, <2>3
<1>5. CASE Crash
  <2>1. worker'[k] = Idle /\ status' = status /\ queued' = {x \in Ks : exists[x]}
    BY <1>5 DEF Crash
  <2>2. CASE exists[k]
    BY <2>1, <2>2 DEF Informed
  <2>3. CASE ~exists[k]
    BY <2>1, <2>3 DEF ConfigInv, Unborn, Informed, Idle
  <2> QED BY <2>2, <2>3
<1>6. CASE /\ UNCHANGED <<worker, status, applied, config, dropped>>
           /\ queued \subseteq queued'
  BY <1>2, <1>6 DEF Informed
<1>7. CASE \/ \E x \in Ks : TimerFires(x) \/ Create(x) \/ EditSpec(x)
           \/ \E s \in Sources, r \in Revisions : MoveSource(s, r)
           \/ UNCHANGED vars
  <2>1. /\ UNCHANGED <<worker, status, applied, config, dropped>>
        /\ queued \subseteq queued'
    BY <1>7 DEF TimerFires, Create, EditSpec, MoveSource, Given, vars
  <2> QED BY <1>6, <2>1
<1> QED BY <1>3, <1>4, <1>5, <1>7 DEF Next

\* No update of a watched ConfigMap or Secret is lost.
THEOREM ConfigUpdatesReachTheirUsers == Spec => []NoConfigUpdateLost
<1>1. Init => ConfigInv
  BY DEF Init, ConfigInv, Unborn, Informed, Idle
<1>2. TypeOK /\ ConfigInv /\ [Next]_vars => ConfigInv'
  BY ConfigKeeps
<1>3. OrderInv => TypeOK
  BY DEF OrderInv
<1>4. TypeOK /\ ConfigInv => NoConfigUpdateLost
  <2> SUFFICES ASSUME TypeOK, ConfigInv, NEW k \in Ks,
                      NEW c \in ConfigRefs[k] \cap Watched,
                      status[k].ready = "True", k \notin queued \cup Busy,
                      c \notin dropped
               PROVE  applied[k][c] = config[c]
    BY DEF NoConfigUpdateLost
  <2>1. Informed(k, c)
    BY DEF ConfigInv
  <2>2. worker[k].pc = "idle"
    BY DEF Busy
  <2> QED BY <2>1, <2>2 DEF Informed
<1> QED BY <1>1, <1>2, <1>3, <1>4, OrderInvariant, PTL DEF Spec
=============================================================================
