# A TLA+ verification of kustomize-controller

The modules in this directory model the control flow of kustomize-controller: how one
Kustomization is reconciled and finalized, how several of them wait for each other and hand
objects over, how the encrypted files of an artifact and the encrypted resources of a build are
decrypted, which credentials the decryption uses, and what becomes of temporary directories. TLC
checks the models on small instances; TLAPS proves the central safety properties for every
value of the constants. `PROJECT.json` maps each definition to the lines it translates and
lists the runs, the mutants, the findings, the hazards and the theorems.

## 1. Inventory of the system

| Part | Source | State it keeps | Operations |
|---|---|---|---|
| KustomizationReconciler | `internal/controller/kustomization_controller.go` | the Kustomization's finalizers, conditions, inventory, revisions, history; the managed objects | `Reconcile`, `reconcile`, `getSource`, `checkDependencies`, `build`, `apply`, `prune`, `checkHealth`, `finalize`, `finalizeStatus`, `patch` |
| Inventory | `internal/inventory/inventory.go` | a set of object identities | `New`, `AddChangeSet`, `Merge`, `List`, `Diff` |
| Watches, indexers | `kustomization_manager.go`, `kustomization_indexers.go`, `source_predicate.go` | the workqueue | predicate on artifact revisions, `requestsForRevisionChangeOf`, `requestsForConfigDependency`, sort by dependency |
| Dependencies | `checkDependencies`, `dependency.Sort` | the statuses of other Kustomizations | read each dependency past the cache, compare generation, Ready and revision, evaluate `readyExpr` |
| Decryptor, sources | `internal/decryptor/decryptor.go` | files of the unpacked artifact, visited sets | `DecryptSources`, `recurseKustomizationFiles`, `decryptKustomizationSources`, `sopsDecryptFile` |
| Decryptor, resources | same file; `build` and `apply` | built resources | `DecryptResource`, `detectFormatFromMarkerBytes`, `SopsDecryptWithFormat`, `decryptEnvelopedValues`, `IsEncryptedSecret` |
| Decryptor, credentials | `decryptor.go`, `transit_engine.go`, `internal/sops/keyservice/server.go` | imported identities and tokens, login paths, Vault tokens | `ImportKeys`, `SetAuthOptions`, `Server.Decrypt`, `resolveVaultToken` |
| Credential loaders | `internal/sops/azkv`, `internal/sops/awskms` | none | parsing |
| Ownership | `SetOwnerLabels`, `deleteObjects`, the inventories | owner labels of the objects | label and apply; delete what carries the own label |
| Temporary directories | `internal/controller/tmpdir.go`, `main.go`, `decryptor.New` | directories on disk | create, remove when done; list leftovers at start, remove them in the background |
| Wiring, API types, events, metrics | `main.go`, `api/` | configuration | flags, feature gates, registration |

**Interaction.** A watch event, or a delayed requeue, puts the key of a Kustomization in the
workqueue; one worker at a time handles a key. The worker reads the object, changes its copy,
writes intermediate reports to the API server, changes managed objects one by one, and writes
the final report in a deferred function. The next source event is filtered by comparing its
revision with the stored status, so that status is both output and input. A dependent
Kustomization reads the stored status of its dependencies. Two Kustomizations meet in the
cluster when an object moves from one to the other. The build calls the Decryptor, and
SOPS calls back into its key service for each master key.

**What is hard.** The worker's copy and the stored object drift apart while the spec is edited,
the object deleted or the source moved. Any API call may fail, any report may land and its
answer be lost, and the process may die between two of them. Apply and prune are partial. The
controller must neither forget an object that it has to remove, nor say Ready of something it
did not apply, nor stop without anyone bringing the object back. Nothing wakes a dependent.
Kustomization files, like dependencies, may be cyclic. Go maps give the imports and the marker
tests an arbitrary order. The list of hazards in `PROJECT.json` names the lines.

**What makes each part correct.**

* Reconciler: Ready describes one complete build; the inventory never loses a live object that
  has to be pruned; the finalizer is the last thing to go; every retry, edit, request and
  source move leads to a reconciliation; a reported generation is one that was applied.
* Ownership: garbage collection takes only what the Kustomization owns, a label in the cluster is
  backed by an inventory unless an attempt did not end, and an object that moves arrives at its new owner.
* Dependencies: a revision reaches dependencies before dependents; the rollout ends; a cycle
  does not start and blocks only what waits for it; an edited ConfigMap or Secret reaches the
  builds that use it.
* Decryptor, sources: the walk ends, is complete, and changes nothing that is not referred to.
* Decryptor, resources: no ciphertext reaches the cluster by mistake; the result is a function of
  the input, although Go iterates maps in any order.
* Temporary directories: nothing in use is removed; leftovers go.
* Decryptor, credentials: an explicit credential goes before the ServiceAccount, and that before
  the environment; one list of trusted servers per build; no login where there is a token.

## 2. The modules

```
Ownership <= Reconciler -- MCReconciler      Dependencies ---- MCDependencies
                 |                                 \--------- DependenciesProofs
          ReconcilerProofs                   Handover -------- MCHandover
                 |                                 \--------- HandoverProofs
           PromiseProofs                     DecryptSources -- MCDecryptSources
                                                   \--------- DecryptSourcesProofs
TempDirs -- TempDirsProofs                   KeyService ------ MCKeyService
                                                   \--------- KeyServiceProofs
                                             DecryptResource - MCDecryptResource
                                                   \--------- DecryptResourceProofs
```

`<=` is the refinement; the other lines are EXTENDS. An `MC...` module holds the constant values of the runs; the cfg files choose among them. No
cfg replaces a definition of a model. Definitions commented `mutant` are the faulty variants
that `PROJECT.json` names: TLC finds the property of a run violated when the variant takes the
place of the original. No action uses them.

### Reconciler

One Kustomization and the worker that handles it.

| Variable | Stands for |
|---|---|
| `ks` | the Kustomization in the API server: existence, deletion, finalizer, generation, `requestedAt`, spec and status |
| `objs` | the managed objects: absent, terminating, or live with the revision they were applied from |
| `sources` | for each source: missing, without artifact, or a revision |
| `account` | whether the account to impersonate exists |
| `queue`, `timer` | the workqueue entry (and whether an event put it there, which is what cancels health checks) and the pending delayed requeue |
| `pc`, `obj`, `rev`, `todo`, `failed`, `result` | the worker: next step, its copy of the object, resolved revision, objects left in the apply or delete call, refused deletes, what Reconcile returns |
| `faults`, `moves` | bounds |

The actions follow the code in order. `Dequeue` is the `Get`; `DeclareFinalizer`,
`SkipSuspended`, `RejectHealthExprs`, `DenySource`, `SourceError`, `SourceNotReady`,
`ResolveSource`, `RejectReadyExpr` and `DependencyNotReady` are the early returns of
`Reconcile`. `StartProgress`, `FetchArtifact`, `Build`, `StartHealthCheck` and
`HealthCheckPasses` contain the five intermediate patches of `reconcile` and `checkHealth`,
each with its error branch. `ApplyOne` and `DeleteOne` change one object, so that a failure or
a crash may come between two. `ApplyDone` replaces the inventory in memory before
the prune, `PruneFails` merges the survivors back. `Report` and `ReportFails` are the deferred
function: `FinalizeStatus`, the patch and the requeue of the runtime. `Finalize...`,
`StartFinalize`, `DeleteFails`, `FinishDelete`, `AwaitTermination` and `StopWaiting` are
`finalize`. The environment edits, deletes and annotates the object, moves sources (with the
predicate and the revision filter of the watch), removes managed objects, ends terminations,
deletes the account and kills the controller.

Each `Fault(kind)` stands for a family of errors that take the same path: `"build"` for the
client, generator, decryption and build, `"fetch"` for the download, the archive and the check
of the path. `Persist` says what a patch owns: finalizer and status, never the spec; the patch
of an object under deletion without finalizer removes it. The patcher sends conditions,
metadata and the rest of the status in separate requests: `Torn` is what is left when some of
them fail (fault `"torn"`), `Fault("patch")` a patch that is lost as a whole or whose answer is.

### Ownership

What a user of the controller may rely on, without revisions, queues, conditions or retries: the
stored inventory owns objects, only owned objects that the policy asks to delete are deleted, a
live object is given up only when the policy does not prune or the object is exempt, and a
Kustomization leaves when it owns nothing or what its policy lets it leave behind. `Reconciler`
instantiates it with its stored inventory, the objects without their revisions, and the policy
of the spec that the worker has read; `OwnershipIsKept` says that it implements it.

### Handover

Several Kustomizations and their labels on shared objects. The steps are those of `Reconciler`
as far as they touch objects and inventories, for each Kustomization at the revision it resolved;
the `GET` and the `DELETE` of `DeleteAll` are separate steps, since the `DELETE` has no
precondition on what the `GET` saw. `Fail` is an apply that fails before or after any of the
objects, or an attempt whose last patch is lost; `Crash` ends all attempts. Neither stores an inventory.
A deleted object is gone at once and pruning is enabled: `Reconciler` has the other cases.
Two history variables: `foreign`, what others owned when a reconciliation started, and `stray`,
what an attempt without an end has applied and the inventory does not list.

### Dependencies

Several Kustomizations with several workers. A reconciliation is reduced to what others can
see: `StartProgress` (Ready=Unknown), `FetchArtifact` (last attempted revision), `Fail`,
`Succeed`. `CheckDependency` and `DependencyNotReady` read one dependency at a time, as the loop
of `checkDependencies` does. A `readyExpr` is an arbitrary answer, and replaces or complements
the built-in check according to the feature gate. `RequestsForRevisionChange` is the handler of
the source watch, with the sort that refuses a cycle and then drops all requests;
`RequestsForConfigDependency` is that of the watches of ConfigMaps and Secrets, with the same
sort over their users. A build reads the versions of its ConfigMaps and Secrets once (`Build`),
and `applied` remembers the versions of the last successful one. `Watched` are those that the
label selector of the watch matches. `EditSpec` changes the generation and may change
`dependsOn`, so that cycles are closed and opened while reconciliations run; a worker goes by the
`dependsOn` it has read. A Kustomization may depend on itself: the code reads its status like
that of any other, and the sort ignores it. `Bounds` is a set of combinations of a number of
workers with bounds on edits, updates and failures, of which each behaviour takes one. `ever` and
`dropped` are history variables: the revisions each Kustomization has applied, and the ConfigMaps
and Secrets whose last update queued nobody, since the sort refused a cycle.

### DecryptSources

The walk of `DecryptSources` with the call stack of the recursion as state. A tree gives each
directory a kustomization file (references with the format that their key or name suggests,
resources, components) and each file a content. `Marked` is `bytes.Contains` of the format's
marker; JSON and binary share theirs. Paths are canonical names: the rules that keep a path
inside the root belong to the library `securejoin`.

### DecryptResource

The loop of `build` that validates, decrypts and substitutes the resources, and the check of
`apply` that refuses Secrets with a remainder of `.sops`. A content says how it was encrypted,
not its bytes. `DetectFormatFromMarkerBytes` is the set of formats whose marker the text contains: the loop
over the Go map may answer any of them. `SopsDecryptWithFormat` has the two ways of the code: with
JSON detected and a comment regex in the metadata it decrypts the values that carry the
envelope; else it leaves all to `tree.Decrypt`, which in a file without comments skips the values that
the regex chose (`"ciphertext"` is what remains) and fails at those that it spared. `DecryptEntry` takes the entries of a Secret in any
order. `EmitPlainFile` is what a tree of one format becomes in another: a binary file written
under a name that promises structured data keeps its envelope (`"wrapped"`); a tree without the
single value of a binary file cannot become one.

### TempDirs

Directories below `os.TempDir()`: the artifacts of the workers (`TempDirPrefix`), the GnuPG homes
of their Decryptors (another prefix), the list that the purge works on, and kills that skip
the deferred removals.

### KeyService

The credentials of one Decryptor during one build. `ImportEntry` takes the entries of the
Secret in any order; only the age identities of the controller's own Secret are used.
`SetAuthOptions` completes what was not imported. `Decrypt`, `NoCredential`, `CachedToken`,
`LoadLoginPaths`, `BeginLogin` and the logins are the requests of SOPS: one per
master key until one is answered. A login ends before the server is asked (`LoginFails`), with a
server that denies it or whose answer is lost or holds no token (`LoginUnanswered`: nothing is cached), or
with a token (`Login`). `asked` counts the calls of `vaultLogin` for each server; the Vault client
may repeat the HTTP request of one call by itself. `EditConfigMap` interleaves the operator.

## 3. What the runs check

Each run ends within three minutes with two TLC workers.

| Run | Instance | Shows |
|---|---|---|
| `failures` | 2 objects, 2 revisions, 4 specs with one deletion policy each, 2 faults of 10 kinds, 1 edit, 1 source move | `TypeOK`, `ReadyMeansOneBuild`, `ObservedMeansApplied`, `NoSilentStop`, `InventoryNeverForgets`, `FinalizedMeansCollected`, `OwnershipIsKept` (the refinement) |
| `wakeups` | 3 objects (one ignored), 2 sources, a denied one, broken expressions, 1 fault, 2 source moves | `NoSilentStop`, `QuietIsCurrent`, `GarbageIsTracked` |
| `liveness` | `WaitForTermination`, a protected object, a request, a source that also goes back, 1 fault, torn patches among them | `EventuallyCurrent`, `DeletionCompletes`, `RequestIsHandled` |
| `rollout` | infra, apps that needs infra, tests that needs both, with a cycle or a self-dependency or without; 1 source, a watched and an unwatched ConfigMap, any order of creation, 1 update, and in addition 1 edit, 1 fault, or a second worker | `RolloutOrder`, `NoConfigUpdateLost`, `CycleNeverStarts`, `RolloutCompletes` (the last with one worker) |
| `handover` | 2 Kustomizations with a worker each, 2 objects, 3 revisions, 2 source moves, a deletion, 2 refused DELETEs, failed attempts or crashes | `LabelIsTracked`, `ForeignIsSpared`, `HandoverCompletes` |
| `decrypt` | 3 directories that share, loop, dangle or are broken; 2 files | `SourcesDecrypted`, `DepthBounded`, `OnlyReferencesChange`, `Terminates` |
| `resources` | whole resources of 2 kinds and API versions with every `.sops`; Secrets with 3 entries, plain, quoting, locked, or encrypted in several formats with and without comment regexes; 2 resources per build | `CiphertextNeverApplied`, `ResultIsDetermined` |
| `keys` | 3 files, 2 Vault servers, named and global Secrets, annotations, 1 edit, failing requests and logins | `TypeOK`, `PrecedenceIsKept`, `OneAllowlist`, `NoLoginAfterToken` |
| `tempdirs` | 2 workers, 5 artifact directories, 1 GnuPG home, 2 kills, 1 failed removal or timeout | `InUseIsSafe`, `LeftoversArePurged` |
| `partial_apply` | 3 revisions, 1 failed apply | **violated**: `ReadyLeavesNoGarbage` |
| `suspended_edit` | edits of path and suspend | **violated**: `ObservedMeansApplied` |
| `closed_cycle` | the chain of `rollout`, 1 edit of `dependsOn` | **violated**: `InterdependentNeverApplied` |

**The three disagreements.**

* `partial_apply`: `apply` returns no change set when `ApplyAllStaged` fails half-way. Objects
  applied before the failure are in no inventory. If the next revision drops one of them, it
  stays, and the Kustomization becomes Ready. The documentation promises that objects that were
  applied and are missing from the current revision are removed. `GarbageIsTracked` shows that
  without failed applies, lost patches and crashes all live objects are tracked between
  reconciliations.
* `suspended_edit`: `finalizeStatus` copies the generation into `observedGeneration` whenever
  Ready is True, also on the early return of a suspended object. A spec that is changed while, or
  together with, being suspended is reported as observed and ready. `failures` shows the same
  property for specs that are not suspended.
* `closed_cycle`: apps and tests, which depends on apps, are ready; then apps is edited to depend on
  tests. `checkDependencies` finds tests ready at the same revision and applies apps, and both report
  Ready for specs that depend on each other. The documentation says that interdependent
  Kustomizations are never applied. What does hold is `CycleNeverStarts`: while none of a cycle
  has been applied, none that has read its present spec is.

**Other observations**, which contradict no document and which no run states as a violation:

* A denied source stalls without observing the generation, and the early returns keep a Stalled
  condition that has been repaired.
* A terminal error whose patch fails is not retried, so that Stalled is not reported. `NoSilentStop`
  still holds: the spec is one that only a person can repair. That Stalled is stored is its claim
  where no patch is lost (`wakeups`), and of the theorem for all such sets of faults.
* A torn patch may store Ready=True without the inventory and revision it speaks of, until the
  retry: `ReadyMeansOneBuild` speaks of specifications without torn patches. What does not depend
  on it (`InventoryNeverForgets`, `FinalizedMeansCollected`, `OwnershipIsKept`, `NoSilentStop`
  and the liveness properties) holds with them.
* A DELETE without precondition may take an object that its new owner applied after the GET. The
  next reconciliation of the new owner brings it back: `HandoverCompletes`.
* An entry of a Secret that is a JSON file with a comment regex carries the marker of JSON and of
  binary files, and only where JSON is detected does `SopsDecryptWithFormat` take the branch for
  comment regexes. Detected as binary, it keeps the ciphertext of the values that the regex chose, or is
  refused for those that it spared; with the MAC check, which the controller never enables, it is
  refused or not. Which one it is depends on the order of a Go map. These are the exceptions in
  `ResultIsDetermined` and `CiphertextNeverApplied`, which name the possible outcomes.
* A file that is first referred to under a key that suggests another format is left encrypted and
  yet recorded by `visitRef`; a later reference in the right format is then skipped. `SourcesDecrypted` speaks
  of files with references in their own format only.
* What a failed or crashed attempt has applied stays labelled and in no inventory until a later
  attempt applies it again (`stray` in `Handover`). If none does, it stays for good, as in `partial_apply`.
* A Vault server that denied a login, or whose answer was lost, is asked again by the next request, so that it may
  issue several tokens to one build. `NoLoginAfterToken` speaks of tokens that have arrived.
* The purge looks for `TempDirPrefix` only: the GnuPG home of a killed process stays until the
  volume goes. `LeftoversArePurged` speaks of artifacts.

**Bounds.** Two objects are one that a revision drops and one that stays; a third is needed only
for exclusion labels. Two revisions give an old and a new one; `handover` has a third in which
both objects have moved or gone. Two faults allow a failure during the retry of a failure. One edit separates the
read generation from the current one. Two source moves let a source flap back to a revision that
the status still names. Three Kustomizations give a chain and one with two dependencies on the same source, which a
second worker moves on while they are read one by one. Three
directories give a diamond and cycles of every length up to three. Five names of artifact
directories are two for the workers of each of two processes and a spare one. `MaxGeneration + 1` in the
types is the increment that deletion makes. There is no symmetry: objects and revisions play
different roles.

**Fairness.** `WF(Worker)`: a reconciliation that has begun, or whose key waits, goes on, since
the worker is a goroutine and its calls have timeouts. `WF(TimerFires)`: `AddAfter` and the rate
limiter of the workqueue deliver. `WF(Terminated(o))`: the cluster ends terminations;
where it does not, the fault `"termination"` lets the wait time out. In `Dependencies`,
`SF(Start(k))`: the workqueue is first in, first out, so that a waiting key gets one of
the workers although others take turns. `Handover` assumes the same: the interval brings each
key back. `TempDirs`: the process starts, the purge and the deferred functions go on; a
reconciliation need not start. `DecryptSources` is sequential: `WF(Next)`. No fairness
is put on users, sources or faults. `RolloutCompletes` is checked with one worker. With two it
does not follow from these assumptions: a dependent may read its dependency each time that one
is in the middle of its periodic reconciliation, with Ready=Unknown; only the different
intervals make this unlikely.

**Deadlock.** `CHECK_DEADLOCK FALSE` where the system may stop: a suspended, stalled or deleted
Kustomization is not requeued; a walk or a build ends. `rollout`, `handover` and `tempdirs`
check for deadlock.

## 4. What is proved

Everything in the eight modules `...Proofs` holds for all constants that satisfy the named
assumptions (`ObjectsAssumption`, `SpecsAssumption`, `BoundsAssumption`,
`DependenciesAssumption`, `HandoverAssumption`, `DisjointAssumption`, `TempDirsAssumption`,
`ConfigsAssumption`, `TreesAssumption`, `InputsAssumption`):
objects, revisions, manifests, specs, labels, kinds and number of
faults, number of Kustomizations and workers, artifacts and credentials are arbitrary. The assumptions ask for well-typed
constants and for names that differ from the markers of the model; `DisjointAssumption` says that
no object is in the manifests of two Kustomizations at the same revision; `InputsAssumption` that no
conversion is declared for binary files, which have an envelope instead, that only binary files share
the marker of JSON, and that kustomize builds no entry that is ciphertext without SOPS metadata.

* `TypeCorrect`: `Spec => []TypeOK`. `TypeOK` is inductive with `GenerationBounded`: the
  increment by `Delete` happens once.
* `SafetyInvariant`: `Spec => []SafetyInv`, the inductive invariant of the others. Its parts:
  `Bookkeeping` (objects are carried only inside apply, prune and delete), `Admission` (an object past admission has
  its finalizer and is not being deleted), `Remembers` (whatever the stored inventory lists is in
  the copy's inventory, among the objects still to be pruned or refused, gone, or exempt),
  `Truthful` (Ready=True, stored or in memory, reports one build; neither holds from the first
  mutation to the end of the attempt; objects already applied carry the resolved revision),
  `Finalization` (what has been deleted when the finalizer is dropped).
* `ReadyIsTruthful`: `Spec => []ReadyMeansOneBuild`. It is not inductive by itself: it needs
  that Unknown was stored before the first apply, and what the copy says in between.
* `InventoryIsKept`: `Spec => InventoryNeverForgets`, from `Remembers` at each patch that
  the worker sends.
* `FinalizerGoesLast`: `Spec => FinalizedMeansCollected`, from `Finalization`.
* `RolloutIsOrdered`: `Spec => []RolloutOrder`. The invariant `OrderInv` adds that what a
  Kustomization reports it has applied (`Reported`), that an observed generation was rolled out after its
  dependencies (`Observed`), and that a dependency already checked, of the `dependsOn` that the
  worker has read, had applied the revision the worker resolved (`Checked`).
* `ReconcilerImplementsOwnership`: `Spec => OwnershipIsKept`, the refinement. Each action is shown
  to be a step of `Ownership` or to leave its variables alone. Beyond `SafetyInv` it needs
  `Anchored` (the finalizer is stored before anything is owned and until the end) and `Tracks`,
  the converse of `Remembers`: what the worker is about to delete is in the stored inventory, and
  the spec it has read asks for it.
* `NeverStopsSilently`: `Spec => []NoSilentStop`. `WakeInv`: while nothing is queued the worker
  holds the stored spec, so that what it returns without a requeue (`"done"`, `"terminal"`) is
  justified by that spec.
* `GarbageStaysTracked`: `Spec => []GarbageIsTracked`. `GarbageInv` says where a live object is known
  at each point of a reconciliation: in the stored inventory between attempts, in what is being
  applied, in the copy's inventory, or among what is left to prune or was refused. It uses
  `OwnerInv` of the refinement: until the apply is done the copy has the inventory that is stored
  (`KnownIsStored`).
* `ObservedIsApplied`: `Spec => []("torn" \notin Faults /\ ~ks.spec.suspend => ObservedMeansApplied)`.
  `Reports` relates the generations of the copy and of the stored object, each of which has one
  spec (`Generations`), and says what each status tells: a worker about to report a
  success of its own has the build of its spec at the resolved revision in its copy (`InMind`), and a
  stored report of the present generation is about the present spec (`Told`). Both
  hypotheses are needed: `suspended_edit` is the counterexample for a suspended object, and a torn patch stores Ready without the inventory.
* `ReadyIsCurrent`: `Spec => [](Steady => QuietIsCurrent)`. `Ordered` says that a revision
  resolved, attempted or applied is one that the source has or has left (`Follows`), so that an
  event that the watch drops names the revision last attempted. `Steady` has three
  hypotheses, and TLC finds `QuietIsCurrent` violated without each of them. *No patch is lost*: when the
  report of progress and the final report of one attempt are both lost, the Ready=True of the
  attempt before stays, and only the timer brings the object back. *No source
  returns to a revision it has left*: the event of the return names the revision in the status and
  is dropped, while the worker is about to record the other one. *One usable source*: two
  sources with equal revisions are not told apart by the filter. In each case the interval
  repairs it: that is `EventuallyCurrent`, which `liveness` checks with torn patches and a
  source that goes back.
* `CyclesNeverStart`: `Spec => CycleNeverStarts`, from `OrderInv`: a worker about to apply has checked
  every dependency of the spec it read, and a dependency that passes the built-in check has applied
  something. It holds for every graph, self-dependencies included, and whatever edits do to it.
* `ConfigUpdatesReachTheirUsers`: `Spec => []NoConfigUpdateLost`. `ConfigInv`: a user of a watched
  object is queued, has not yet built, is applying the present version, or is not ready, or was
  built with it.
* `HandoverInvariant`, `LabelsAreTracked`, `HandedOverIsSpared`. `HandoverInv`: an object with the
  label of a Kustomization is, at each point of its reconciliation, in its inventory, in what it
  applies, among what garbage collection has in hand, or in `stray`; what was another's at the start is never
  what it is about to delete.
* `PurgeIsSafe`: `Spec => []InUseIsSafe`. `PurgeInv`: the purge list holds only directories that
  exist, hence names that `MkdirTemp` cannot hand out.
* `KeyTypes`, `PrecedenceHolds`, `AllowlistIsRead`, `LoginsAreCached` from `KeyInvariant`. `KeyInv`:
  while entries are imported, the credentials are those read so far and no server has been asked
  (`Preparing`); the key service has the ones that take precedence (`Served`); one reading
  of the ConfigMap lists every server that was asked for a token (`Listed`); the tokens that arrived are
  cached, and a login is for a server without one (`Cached`).
* `WalkIsComplete`, `RecursionIsBounded`, `OnlyReferences` from `WalkInvariant`. `WalkInv`: the active
  calls are for different, visited and reachable directories (`Calls`); what a visited
  kustomization file leads or refers to has been dealt with or is left to the call for that file
  (`Closed`, `Referred`); a file is as it was fetched until it is dealt with (`Contained`). When
  the stack is empty nothing is left, so that the visited directories hold `Top` and their own
  children, and `Reachable` is the smallest such set. The depth follows since the stack is an
  injection into a finite set.
* `BuildIsDetermined`: `Spec => []ResultIsDetermined`, and `NoCiphertextIsApplied`:
  `Spec => []CiphertextNeverApplied`. `BuildInv`: the loop has decrypted what it has passed and not
  touched the rest (`Loop`, `Visit`); in a Secret the entries seen are decrypted and the others
  as they were (`EntriesInv`), so that their order does not matter; a failure has a
  reason in the input (`Outcome`). The lemmas `MarkedEntry` and `RefusedEntry` carry the argument about
  formats with the same marker: what is written depends on the format in which an entry was
  encrypted and on its name, and on the format that was detected only where there is a comment regex.

**Only model-checked.** The liveness properties `EventuallyCurrent`, `DeletionCompletes`,
`RequestIsHandled`, `RolloutCompletes`, `HandoverCompletes`, `Terminates` and `LeftoversArePurged`:
fairness and ENABLED are beyond the prover. Each invariant and action property of a passing run
is proved; `ObservedMeansApplied` and `QuietIsCurrent` under the hypotheses above.

## 5. What is not modelled

* The informer cache: reads are fresh. A patch is a merge patch against the copy that was read; with an
  old copy it leaves alone the fields in which copy and attempt agree. Which fields those are
  depends on more of the status than the model has.
* The labels `ssa: IfNotPresent` and `force`, post-build substitution as such, and the exclusion of the object
  itself from health checks: they change which objects a call touches, not the order of
  steps.
* Events, metrics, messages and masking of secrets; process wiring; older API versions;
  generated code; parsing of static cloud credentials; `Server.Encrypt`, which the controller
  never calls.
* External code, modelled from its use and marked so in the map: server-side apply and
  DeleteAll of `fluxcd/pkg/ssa`, conditions and history of `fluxcd/pkg`, the workqueue and the
  API server, `dependency.Sort`, SOPS and the key services.

## 6. Plan

Done: (1) `Reconciler` with its runs and proofs, and torn patches; (2) `Dependencies` with config
watches and cycles; (3) `DecryptSources`; (4) `KeyService`; (5) `Ownership`, the refinement checked
and proved; (6) `Handover`; (7) `DecryptResource`; (8) `TempDirs`; (9) `NoSilentStop` and the
cycles proved; (10) the safety of `KeyService` and `DecryptSources` proved; (11) garbage, the truth of
reports and the revision filter proved for `Reconciler`; (12) the safety of `DecryptResource` proved.

Left:

1. An abstract ordered rollout for `Dependencies`, with its refinement proved.
2. A weaker `Steady`: sources that differ in their revisions instead of one.
3. A cached copy that lags behind the API server.
