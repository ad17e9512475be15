------------------------------ MODULE Handover ------------------------------
(***************************************************************************)
(* Kustomizations that hand objects over to each other: a revision moves   *)
(* an object from the manifests of one to those of another.  Apply labels  *)
(* an object with the name of its Kustomization, and garbage collection,   *)
(* of a reconciliation or of the finalizer, spares what carries another    *)
(* label.  The two reconcile at the same time, in any order, each at the   *)
(* revision it resolved.  An attempt that fails or crashes half-way stores *)
(* no inventory: what it applied may then belong to nobody.                *)
(*                                                                         *)
(* The steps of one reconciliation are those of Reconciler, as far as they *)
(* touch objects and inventories; a deleted object is gone at once here.   *)
(***************************************************************************)
EXTENDS Integers, FiniteSets

CONSTANTS
    Ks,           \* names of the Kustomizations
    Objects,
    Revisions,
    Manifests,    \* [Revisions -> [Ks -> SUBSET Objects]]: the builds
    First,        \* the revision of the source at the beginning
    Concurrent,   \* MaxConcurrentReconciles
    Removable,    \* Kustomizations that users delete
    MaxMoves,     \* bound on source updates
    MaxFaults     \* bound on refused DELETEs, failed attempts and crashes

ASSUME HandoverAssumption ==
    /\ Manifests \in [Revisions -> [Ks -> SUBSET Objects]]
    /\ First \in Revisions
    /\ Ks \cap {"absent"} = {}
    /\ "none" \notin Objects
    /\ Concurrent \in Nat \ {0}
    /\ Removable \subseteq Ks
    /\ MaxMoves \in Nat
    /\ MaxFaults \in Nat

\* No object is in the manifests of two Kustomizations at one revision.
ASSUME DisjointAssumption ==
    \A r \in Revisions : \A j, k \in Ks :
        j # k => Manifests[r][j] \cap Manifests[r][k] = {}

VARIABLES
    label,      \* the owner label of every object, or "absent"
    revision,   \* revision of the source
    exists,     \* Kustomizations that exist
    deleting,   \* Kustomizations under deletion
    inventory,  \* stored inventory of every Kustomization
    worker,     \* what the worker of every Kustomization does
    foreign,    \* history: objects with another label when it started
    stray,      \* history: objects an attempt without an end has applied, and
                \* that the inventory does not list
    moves,      \* source updates left
    faults      \* failures left

vars == <<label, revision, exists, deleting, inventory, worker, foreign, stray,
          moves, faults>>

\* todo: objects the apply or delete call has left; found: the object between its
\* GET and its DELETE; failed: objects whose DELETE was refused.
Worker ==
    [pc : {"idle", "apply", "prune", "delete"}, rev : Revisions,
     todo : SUBSET Objects, found : Objects \cup {"none"}, failed : SUBSET Objects]

Idle == [pc |-> "idle", rev |-> First, todo |-> {}, found |-> "none", failed |-> {}]

Busy == {k \in Ks : worker[k].pc # "idle"}

-----------------------------------------------------------------------------
(* One reconciliation.                                                     *)

StartWithNewObjects(k) ==   \* mutant: what the inventory lists is not applied again
    /\ k \in exists
    /\ k \notin Busy
    /\ Cardinality(Busy) < Concurrent
    /\ worker' = [worker EXCEPT ![k] =
                    IF k \in deleting
                    THEN [Idle EXCEPT !.pc = "delete", !.todo = inventory[k]]
                    ELSE [Idle EXCEPT !.pc = "apply", !.rev = revision,
                                      !.todo = Manifests[revision][k] \ inventory[k]]]
    /\ foreign' = [foreign EXCEPT ![k] =
                     {o \in Objects : label[o] \notin {k, "absent"}}]
    /\ UNCHANGED <<label, revision, exists, deleting, inventory, stray, moves, faults>>

\* An event or the interval brings the key back; a worker reads the object and
\* resolves the source, or finalizes.
Start(k) ==
    /\ k \in exists
    /\ k \notin Busy
    /\ Cardinality(Busy) < Concurrent
    /\ worker' = [worker EXCEPT ![k] =
                    IF k \in deleting
                    THEN [Idle EXCEPT !.pc = "delete", !.todo = inventory[k]]
                    ELSE [Idle EXCEPT !.pc = "apply", !.rev = revision,
                                      !.todo = Manifests[revision][k]]]
    /\ foreign' = [foreign EXCEPT ![k] =
                     {o \in Objects : label[o] \notin {k, "absent"}}]
    /\ UNCHANGED <<label, revision, exists, deleting, inventory, stray, moves, faults>>

\* SetOwnerLabels and the apply: the object is k's now, whoever had it.
ApplyOne(k, o) ==
    /\ worker[k].pc = "apply"
    /\ o \in worker[k].todo
    /\ label' = [label EXCEPT ![o] = k]
    /\ worker' = [worker EXCEPT ![k].todo = @ \ {o}]
    /\ UNCHANGED <<revision, exists, deleting, inventory, foreign, stray, moves, faults>>

ApplyDone(k) ==
    /\ worker[k].pc = "apply"
    /\ worker[k].todo = {}
    /\ worker' = [worker EXCEPT ![k].pc = "prune",
                                ![k].todo = inventory[k] \ Manifests[worker[k].rev][k]]
    /\ UNCHANGED <<label, revision, exists, deleting, inventory, foreign, stray, moves,
                   faults>>

Collecting(k) == worker[k].pc \in {"prune", "delete"} /\ worker[k].found = "none"

GetAny(k, o) ==   \* mutant: no inclusions, any object is deleted
    /\ Collecting(k)
    /\ o \in worker[k].todo
    /\ worker' = [worker EXCEPT ![k].todo = @ \ {o},
                                ![k].found = IF label[o] # "absent" THEN o ELSE "none"]
    /\ UNCHANGED <<label, revision, exists, deleting, inventory, foreign, stray, moves,
                   faults>>

\* DeleteAll reads an object.  One that is gone counts as deleted, one without
\* the labels of k is skipped; both are settled.
Get(k, o) ==
    /\ Collecting(k)
    /\ o \in worker[k].todo
    /\ worker' = [worker EXCEPT ![k].todo = @ \ {o},
                                ![k].found = IF label[o] = k THEN o ELSE "none"]
    /\ UNCHANGED <<label, revision, exists, deleting, inventory, foreign, stray, moves,
                   faults>>

\* The DELETE has no precondition: it takes the object whatever its label is now.
DeleteFound(k) ==
    /\ worker[k].found # "none"
    /\ label' = [label EXCEPT ![worker[k].found] = "absent"]
    /\ worker' = [worker EXCEPT ![k].found = "none"]
    /\ UNCHANGED <<revision, exists, deleting, inventory, foreign, stray, moves, faults>>

DeleteRefused(k) ==
    /\ worker[k].found # "none"
    /\ faults > 0
    /\ faults' = faults - 1
    /\ worker' = [worker EXCEPT ![k].found = "none", ![k].failed = @ \cup {worker[k].found}]
    /\ UNCHANGED <<label, revision, exists, deleting, inventory, foreign, stray, moves>>

Collected(k) == Collecting(k) /\ worker[k].todo = {}

FinishForgetful(k) ==   \* mutant: the survivors are not merged back
    /\ Collected(k)
    /\ worker[k].pc = "prune"
    /\ inventory' = [inventory EXCEPT ![k] = Manifests[worker[k].rev][k]]
    /\ worker' = [worker EXCEPT ![k] = Idle]
    /\ foreign' = [foreign EXCEPT ![k] = {}]
    /\ stray' = [stray EXCEPT ![k] = @ \ inventory'[k]]
    /\ UNCHANGED <<label, revision, exists, deleting, moves, faults>>

\* The new inventory is stored, with the survivors of a failed prune.
Finish(k) ==
    /\ Collected(k)
    /\ worker[k].pc = "prune"
    /\ inventory' = [inventory EXCEPT ![k] = Manifests[worker[k].rev][k] \cup worker[k].failed]
    /\ worker' = [worker EXCEPT ![k] = Idle]
    /\ foreign' = [foreign EXCEPT ![k] = {}]
    /\ stray' = [stray EXCEPT ![k] = @ \ inventory'[k]]
    /\ UNCHANGED <<label, revision, exists, deleting, moves, faults>>

\* finalize drops the finalizer, unless a DELETE failed: then it is retried.
FinishDelete(k) ==
    /\ Collected(k)
    /\ worker[k].pc = "delete"
    /\ exists' = IF worker[k].failed = {} THEN exists \ {k} ELSE exists
    /\ worker' = [worker EXCEPT ![k] = Idle]
    /\ foreign' = [foreign EXCEPT ![k] = {}]
    /\ UNCHANGED <<label, revision, deleting, inventory, stray, moves, faults>>

\* What the attempt of k has applied, if the inventory does not list it.
Unlisted(k) ==
    IF worker[k].pc \in {"apply", "prune"}
    THEN Manifests[worker[k].rev][k] \ (worker[k].todo \cup inventory[k])
    ELSE {}

\* The apply fails, before or after some of the objects, or the patch at the end is
\* lost: the stored inventory stays what it was.
Fail(k) ==
    /\ worker[k].pc = "apply" \/ Collected(k)
    /\ faults > 0
    /\ faults' = faults - 1
    /\ worker' = [worker EXCEPT ![k] = Idle]
    /\ foreign' = [foreign EXCEPT ![k] = {}]
    /\ stray' = [stray EXCEPT ![k] = @ \cup Unlisted(k)]
    /\ UNCHANGED <<label, revision, exists, deleting, inventory, moves>>

\* The controller crashes, with all its workers.
Crash ==
    /\ Busy # {}
    /\ faults > 0
    /\ faults' = faults - 1
    /\ worker' = [k \in Ks |-> Idle]
    /\ foreign' = [k \in Ks |-> {}]
    /\ stray' = [k \in Ks |-> stray[k] \cup Unlisted(k)]
    /\ UNCHANGED <<label, revision, exists, deleting, inventory, moves>>

-----------------------------------------------------------------------------
(* The source and the users.                                               *)

MoveSource(r) ==
    /\ moves > 0
    /\ r # revision
    /\ revision' = r
    /\ moves' = moves - 1
    /\ UNCHANGED <<label, exists, deleting, inventory, worker, foreign, stray, faults>>

Delete(k) ==
    /\ k \in (Removable \cap exists) \ deleting
    /\ deleting' = deleting \cup {k}
    /\ UNCHANGED <<label, revision, exists, inventory, worker, foreign, stray, moves, faults>>

-----------------------------------------------------------------------------

Init ==
    /\ label = [o \in Objects |-> "absent"]
    /\ revision = First
    /\ exists = Ks
    /\ deleting = {}
    /\ inventory = [k \in Ks |-> {}]
    /\ worker = [k \in Ks |-> Idle]
    /\ foreign = [k \in Ks |-> {}]
    /\ stray = [k \in Ks |-> {}]
    /\ moves = MaxMoves
    /\ faults = MaxFaults

Work(k) ==
    \/ \E o \in Objects : ApplyOne(k, o) \/ Get(k, o)
    \/ ApplyDone(k) \/ DeleteFound(k) \/ DeleteRefused(k)
    \/ Finish(k) \/ FinishDelete(k) \/ Fail(k)

Next ==
    \/ \E k \in Ks : Start(k) \/ Work(k) \/ Delete(k)
    \/ \E r \in Revisions : MoveSource(r)
    \/ Crash

Spec == Init /\ [][Next]_vars

\* The interval brings every Kustomization back and the queue is first in,
\* first out, so that each gets a worker; a worker goes on.
FairSpec ==
    /\ Spec
    /\ \A k \in Ks : SF_vars(Start(k)) /\ WF_vars(Work(k))

-----------------------------------------------------------------------------
(* Properties.                                                             *)

\* Every variable has its type.
TypeOK ==
    /\ label \in [Objects -> Ks \cup {"absent"}]
    /\ revision \in Revisions
    /\ exists \subseteq Ks
    /\ deleting \subseteq Ks
    /\ inventory \in [Ks -> SUBSET Objects]
    /\ worker \in [Ks -> Worker]
    /\ foreign \in [Ks -> SUBSET Objects]
    /\ stray \in [Ks -> SUBSET Objects]
    /\ moves \in 0 .. MaxMoves
    /\ faults \in 0 .. MaxFaults

\* What carries a label is tracked: while a Kustomization is not reconciling,
\* each object with its label is in its stored inventory, and once it is gone no
\* object carries its label, whoever took objects over in the meantime.  The
\* exception is what an attempt applied that failed or crashed before it could store
\* the inventory, until a later one applies it again.
LabelIsTracked ==
    \A k \in Ks : worker[k].pc = "idle" =>
        \A o \in Objects : label[o] = k =>
            o \in stray[k] \/ (k \in exists /\ o \in inventory[k])

\* Garbage collection spares what was handed over: an object that carries
\* another label when a reconciliation starts is not deleted by it, however the
\* two reconciliations interleave.
ForeignIsSpared ==
    [][\A o \in Objects : label[o] # "absent" /\ label'[o] = "absent" =>
          \E k \in Ks : /\ worker[k].found = o
                        /\ worker'[k].found = "none"
                        /\ o \notin foreign[k]]_vars

\* The Kustomizations that want an object.
Claimants(o) == {k \in exists \ deleting : o \in Manifests[revision][k]}

\* It is with one of them; or nobody wants it and it is gone, or carries the label of
\* an attempt that had no end.
Settled ==
    \A o \in Objects :
        IF Claimants(o) # {} THEN label[o] \in Claimants(o)
        ELSE label[o] = "absent" \/ \E k \in Ks : label[o] = k /\ o \in stray[k]

\* The handover completes: although the former owner may apply an object late,
\* at the old revision, fail half-way, or delete it between the GET and the DELETE of
\* its garbage collection, in the end each object is with the Kustomization that
\* lists it, and the objects nobody lists are gone, but for those that only failed
\* or crashed attempts have applied, which nobody collects.
HandoverCompletes == <>[]Settled
=============================================================================
