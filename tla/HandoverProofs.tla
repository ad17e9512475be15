--------------------------- MODULE HandoverProofs ---------------------------
(***************************************************************************)
(* Proofs about Handover, for any number of Kustomizations, objects,       *)
(* revisions and workers.                                                  *)
(***************************************************************************)
EXTENDS Handover, TLAPS

\* Where an object with the label of k is to be found while k reconciles: the
\* apply adds the new manifests to the inventory, garbage collection takes every
\* stale object through todo, found and failed.
Tracked(k, o) ==
    /\ worker[k].pc = "idle" => o \in inventory[k]
    /\ worker[k].pc = "apply" =>
          o \in inventory[k] \cup (Manifests[worker[k].rev][k] \ worker[k].todo)
    /\ worker[k].pc = "prune" =>
          \/ o \in Manifests[worker[k].rev][k] \cup worker[k].todo \cup worker[k].failed
          \/ o = worker[k].found
    /\ worker[k].pc = "delete" =>
          o \in worker[k].todo \cup worker[k].failed \/ o = worker[k].found

\* What holds of one Kustomization: its objects are tracked, but for those that an
\* attempt without an end has left; a busy worker has a Kustomization, and only
\* garbage collection has an object in its hands, one of the inventory.
LabelsTracked(k) ==
    \A o \in Objects : label[o] = k /\ o \notin stray[k] => k \in exists /\ Tracked(k, o)

WorkerSane(k) ==
    /\ worker[k].pc # "idle" => k \in exists
    /\ worker[k].pc \in {"idle", "apply"} => worker[k].found = "none" /\ worker[k].failed = {}
    /\ worker[k].pc = "apply" => worker[k].todo \subseteq Manifests[worker[k].rev][k]
    /\ worker[k].pc = "prune" =>
          \A o \in worker[k].todo : o \notin Manifests[worker[k].rev][k]
    /\ worker[k].pc \in {"prune", "delete"} =>
          /\ worker[k].todo \cup worker[k].failed \subseteq inventory[k]
          /\ worker[k].found \in inventory[k] \cup {"none"}

\* What was another's when k started is k's only if k has applied it since, and
\* is never the object that k is about to delete.
ForeignKept(k) ==
    \A o \in foreign[k] :
        /\ label[o] = k => /\ worker[k].pc \in {"apply", "prune"}
                           /\ o \in Manifests[worker[k].rev][k]
        /\ o # worker[k].found

Good(k) == LabelsTracked(k) /\ WorkerSane(k) /\ ForeignKept(k)

HandoverInv == TypeOK /\ \A k \in Ks : Good(k)

\* The initial states satisfy the invariant.
LEMMA InitHandover == Init => HandoverInv
<1> SUFFICES ASSUME Init PROVE HandoverInv
  OBVIOUS
<1>1. Idle \in Worker
  BY HandoverAssumption DEF Idle, Worker
<1>2. TypeOK
  BY <1>1, HandoverAssumption DEF Init, TypeOK
<1>3. ASSUME NEW k \in Ks PROVE Good(k)
  <2>1. LabelsTracked(k)
    BY HandoverAssumption DEF Init, LabelsTracked
  <2>2. WorkerSane(k)
    BY DEF Init, WorkerSane, Idle
  <2>3. ForeignKept(k)
    BY DEF Init, ForeignKept
  <2> QED BY <2>1, <2>2, <2>3 DEF Good
<1> QED BY <1>2, <1>3 DEF HandoverInv

\* A step of one Kustomization leaves the others alone, unless it takes an
\* object from them.
LEMMA OthersStayGood ==
    ASSUME HandoverInv, NEW k \in Ks, TypeOK', Good(k)',
           \A j \in Ks \ {k} : /\ worker'[j] = worker[j]
                               /\ foreign'[j] = foreign[j]
                               /\ stray'[j] = stray[j]
                               /\ inventory'[j] = inventory[j]
                               /\ j \in exists => j \in exists'
                               /\ \A o \in Objects : label'[o] = j => label[o] = j
    PROVE  HandoverInv'
<1>1. ASSUME NEW j \in Ks, j # k PROVE Good(j)'
  <2>1. LabelsTracked(j)'
    BY <1>1 DEF HandoverInv, Good, LabelsTracked, Tracked
  <2>2. WorkerSane(j)'
    BY <1>1 DEF HandoverInv, Good, WorkerSane
  <2>3. ForeignKept(j)'
    BY <1>1 DEF HandoverInv, Good, ForeignKept, TypeOK
  <2> QED BY <2>1, <2>2, <2>3 DEF Good
<1> QED BY <1>1 DEF HandoverInv

\* Taking a key keeps the invariant.
LEMMA StartKeeps ==
    ASSUME HandoverInv, NEW k \in Ks, Start(k)
    PROVE  HandoverInv'
<1>1. worker[k] \in Worker /\ Good(k)
  BY DEF HandoverInv, TypeOK
<1> DEFINE w == IF k \in deleting
                THEN [Idle EXCEPT !.pc = "delete", !.todo = inventory[k]]
                ELSE [Idle EXCEPT !.pc = "apply", !.rev = revision,
                                  !.todo = Manifests[revision][k]]
<1>2. w \in Worker /\ worker' = [worker EXCEPT ![k] = w]
  <2>1. /\ inventory[k] \subseteq Objects
        /\ Manifests[revision][k] \subseteq Objects
        /\ revision \in Revisions
    BY HandoverAssumption DEF HandoverInv, TypeOK
  <2>2. CASE k \in deleting
    BY <2>1, <2>2, HandoverAssumption DEF Worker, Idle, Start
  <2>3. CASE k \notin deleting
    BY <2>1, <2>3, HandoverAssumption DEF Worker, Idle, Start
  <2> QED BY <2>2, <2>3
<1>3. /\ worker[k].pc = "idle" /\ k \in exists
      /\ w.pc \in {"apply", "delete"}
      /\ w.pc = "delete" => w.todo = inventory[k]
      /\ w.pc = "apply" => w.todo = Manifests[w.rev][k]
      /\ w.found = "none" /\ w.failed = {}
      /\ foreign' = [foreign EXCEPT ![k] = {o \in Objects : label[o] \notin {k, "absent"}}]
      /\ UNCHANGED <<label, revision, exists, deleting, inventory, stray, moves, faults>>
  BY <1>1, HandoverAssumption DEF Start, Busy, HandoverInv, TypeOK, Worker, Idle
<1> HIDE DEF w
<1>4. worker'[k] = w /\ \A j \in Ks \ {k} : worker'[j] = worker[j]
  BY <1>2 DEF HandoverInv, TypeOK
<1>5. TypeOK'
  BY <1>1, <1>2, <1>3 DEF HandoverInv, TypeOK, Worker
<1>6. LabelsTracked(k)'
  <2> SUFFICES ASSUME NEW o \in Objects, label'[o] = k, o \notin stray'[k]
               PROVE  k \in exists' /\ Tracked(k, o)'
    BY DEF LabelsTracked
  <2>1. label[o] = k /\ o \notin stray[k] => k \in exists /\ Tracked(k, o)
    BY <1>1 DEF Good, LabelsTracked
  <2>2. WorkerSane(k)
    BY <1>1 DEF Good
  <2> QED BY <1>1, <1>2, <1>3, <1>4, <2>1, <2>2
          DEF Tracked, WorkerSane, HandoverInv, TypeOK, Worker
<1>7. WorkerSane(k)'
  BY <1>1, <1>2, <1>3, <1>4 DEF Good, WorkerSane, HandoverInv, TypeOK
<1>8. ForeignKept(k)'
  BY <1>1, <1>2, <1>3, <1>4, HandoverAssumption DEF Good, WorkerSane, ForeignKept, HandoverInv, TypeOK
<1>9. \A j \in Ks \ {k} : /\ foreign'[j] = foreign[j]
                          /\ stray'[j] = stray[j]
                          /\ inventory'[j] = inventory[j]
                          /\ j \in exists => j \in exists'
                          /\ \A o \in Objects : label'[o] = j => label[o] = j
  BY <1>1, <1>3, HandoverAssumption DEF HandoverInv, TypeOK, Worker
<1> QED BY <1>4, <1>5, <1>6, <1>7, <1>8, <1>9, OthersStayGood DEF Good

\* Applying an object keeps the invariant: it is in the manifests.
LEMMA ApplyOneKeeps ==
    ASSUME HandoverInv, NEW k \in Ks, NEW p \in Objects, ApplyOne(k, p)
    PROVE  HandoverInv'
<1>1. worker[k] \in Worker /\ Good(k)
  BY DEF HandoverInv, TypeOK
<1> DEFINE w == [worker[k] EXCEPT !.todo = @ \ {p}]
<1>2. w \in Worker /\ worker' = [worker EXCEPT ![k] = w]
  BY <1>1, HandoverAssumption DEF ApplyOne, HandoverInv, TypeOK, Worker, Idle
<1>3. /\ w.pc = worker[k].pc
      /\ w.rev = worker[k].rev
      /\ w.todo = worker[k].todo \ {p}
      /\ w.found = worker[k].found
      /\ w.failed = worker[k].failed
      /\ worker[k].pc = "apply" /\ p \in worker[k].todo
      /\ label' = [label EXCEPT ![p] = k]
      /\ UNCHANGED <<revision, exists, deleting, inventory, foreign, stray, moves, faults>>
  BY <1>1, HandoverAssumption DEF ApplyOne, HandoverInv, TypeOK, Worker, Idle
<1> HIDE DEF w
<1>4. worker'[k] = w /\ \A j \in Ks \ {k} : worker'[j] = worker[j]
  BY <1>2 DEF HandoverInv, TypeOK
<1>5. TypeOK'
  BY <1>1, <1>2, <1>3 DEF HandoverInv, TypeOK, Worker
<1>6. LabelsTracked(k)'
  <2> SUFFICES ASSUME NEW o \in Objects, label'[o] = k, o \notin stray'[k]
               PROVE  k \in exists' /\ Tracked(k, o)'
    BY DEF LabelsTracked
  <2>1. label[o] = k /\ o \notin stray[k] => k \in exists /\ Tracked(k, o)
    BY <1>1 DEF Good, LabelsTracked
  <2>2. WorkerSane(k)
    BY <1>1 DEF Good
  <2> QED BY <1>1, <1>2, <1>3, <1>4, <2>1, <2>2
          DEF Tracked, WorkerSane, HandoverInv, TypeOK, Worker
<1>7. WorkerSane(k)'
  BY <1>1, <1>2, <1>3, <1>4 DEF Good, WorkerSane, HandoverInv, TypeOK
<1>8. ForeignKept(k)'
  BY <1>1, <1>2, <1>3, <1>4, HandoverAssumption DEF Good, WorkerSane, ForeignKept, HandoverInv, TypeOK
<1>9. \A j \in Ks \ {k} : /\ foreign'[j] = foreign[j]
                          /\ stray'[j] = stray[j]
                          /\ inventory'[j] = inventory[j]
                          /\ j \in exists => j \in exists'
                          /\ \A o \in Objects : label'[o] = j => label[o] = j
  BY <1>1, <1>3, HandoverAssumption DEF HandoverInv, TypeOK, Worker
<1> QED BY <1>4, <1>5, <1>6, <1>7, <1>8, <1>9, OthersStayGood DEF Good

\* So does the end of the apply: what is stale goes to garbage collection.
LEMMA ApplyDoneKeeps ==
    ASSUME HandoverInv, NEW k \in Ks, ApplyDone(k)
    PROVE  HandoverInv'
<1>1. worker[k] \in Worker /\ Good(k)
  BY DEF HandoverInv, TypeOK
<1> DEFINE w == [worker[k] EXCEPT !.pc = "prune", !.todo = inventory[k] \ Manifests[worker[k].rev][k]]
<1>2. w \in Worker /\ worker' = [worker EXCEPT ![k] = w]
  BY <1>1, HandoverAssumption DEF ApplyDone, HandoverInv, TypeOK, Worker, Idle
<1>3. /\ w.pc = "prune"
      /\ w.rev = worker[k].rev
      /\ w.todo = inventory[k] \ Manifests[worker[k].rev][k]
      /\ w.found = worker[k].found
      /\ w.failed = worker[k].failed
      /\ worker[k].pc = "apply" /\ worker[k].todo = {}
      /\ UNCHANGED label
      /\ UNCHANGED <<revision, exists, deleting, inventory, foreign, stray, moves, faults>>
  BY <1>1, HandoverAssumption DEF ApplyDone, HandoverInv, TypeOK, Worker, Idle
<1> HIDE DEF w
<1>4. worker'[k] = w /\ \A j \in Ks \ {k} : worker'[j] = worker[j]
  BY <1>2 DEF HandoverInv, TypeOK
<1>5. TypeOK'
  BY <1>1, <1>2, <1>3 DEF HandoverInv, TypeOK, Worker
<1>6. LabelsTracked(k)'
  <2> SUFFICES ASSUME NEW o \in Objects, label'[o] = k, o \notin stray'[k]
               PROVE  k \in exists' /\ Tracked(k, o)'
    BY DEF LabelsTracked
  <2>1. label[o] = k /\ o \notin stray[k] => k \in exists /\ Tracked(k, o)
    BY <1>1 DEF Good, LabelsTracked
  <2>2. WorkerSane(k)
    BY <1>1 DEF Good
  <2>3. label[o] = k
    BY <1>3
  <2>4. inventory'[k] = inventory[k]
    BY <1>3 DEF HandoverInv, TypeOK
  <2> QED BY <1>3, <1>4, <2>1, <2>2, <2>3, <2>4, HandoverAssumption DEF Tracked, WorkerSane
<1>7. WorkerSane(k)'
  BY <1>1, <1>2, <1>3, <1>4 DEF Good, WorkerSane, HandoverInv, TypeOK
<1>8. ForeignKept(k)'
  BY <1>1, <1>2, <1>3, <1>4, HandoverAssumption DEF Good, WorkerSane, ForeignKept, HandoverInv, TypeOK
<1>9. \A j \in Ks \ {k} : /\ foreign'[j] = foreign[j]
                          /\ stray'[j] = stray[j]
                          /\ inventory'[j] = inventory[j]
                          /\ j \in exists => j \in exists'
                          /\ \A o \in Objects : label'[o] = j => label[o] = j
  BY <1>1, <1>3, HandoverAssumption DEF HandoverInv, TypeOK, Worker
<1> QED BY <1>4, <1>5, <1>6, <1>7, <1>8, <1>9, OthersStayGood DEF Good

\* So does reading an object: one that is dropped has another label, or none.
LEMMA GetKeeps ==
    ASSUME HandoverInv, NEW k \in Ks, NEW p \in Objects, Get(k, p)
    PROVE  HandoverInv'
<1>1. worker[k] \in Worker /\ Good(k)
  BY DEF HandoverInv, TypeOK
<1> DEFINE w == [worker[k] EXCEPT !.todo = @ \ {p}, !.found = IF label[p] = k THEN p ELSE "none"]
<1>2. w \in Worker /\ worker' = [worker EXCEPT ![k] = w]
  BY <1>1, HandoverAssumption DEF Get, Collecting, HandoverInv, TypeOK, Worker, Idle
<1>3. /\ w.pc = worker[k].pc
      /\ w.rev = worker[k].rev
      /\ w.todo = worker[k].todo \ {p}
      /\ w.found = IF label[p] = k THEN p ELSE "none"
      /\ w.failed = worker[k].failed
      /\ worker[k].pc \in {"prune", "delete"}
      /\ worker[k].found = "none" /\ p \in worker[k].todo
      /\ UNCHANGED label
      /\ UNCHANGED <<revision, exists, deleting, inventory, foreign, stray, moves, faults>>
  BY <1>1, HandoverAssumption DEF Get, Collecting, HandoverInv, TypeOK, Worker, Idle
<1> HIDE DEF w
<1>4. worker'[k] = w /\ \A j \in Ks \ {k} : worker'[j] = worker[j]
  BY <1>2 DEF HandoverInv, TypeOK
<1>5. TypeOK'
  BY <1>1, <1>2, <1>3 DEF HandoverInv, TypeOK, Worker
<1>6. LabelsTracked(k)'
  <2> SUFFICES ASSUME NEW o \in Objects, label'[o] = k, o \notin stray'[k]
               PROVE  k \in exists' /\ Tracked(k, o)'
    BY DEF LabelsTracked
  <2>1. label[o] = k /\ o \notin stray[k] => k \in exists /\ Tracked(k, o)
    BY <1>1 DEF Good, LabelsTracked
  <2>2. WorkerSane(k)
    BY <1>1 DEF Good
  <2>3. label[o] = k
    BY <1>3
  <2>4. inventory'[k] = inventory[k]
    BY <1>3 DEF HandoverInv, TypeOK
  <2> QED BY <1>3, <1>4, <2>1, <2>2, <2>3, <2>4, HandoverAssumption DEF Tracked, WorkerSane
<1>7. WorkerSane(k)'
  BY <1>1, <1>2, <1>3, <1>4 DEF Good, WorkerSane, HandoverInv, TypeOK
<1>8. ForeignKept(k)'
  BY <1>1, <1>2, <1>3, <1>4, HandoverAssumption DEF Good, WorkerSane, ForeignKept, HandoverInv, TypeOK
<1>9. \A j \in Ks \ {k} : /\ foreign'[j] = foreign[j]
                          /\ stray'[j] = stray[j]
                          /\ inventory'[j] = inventory[j]
                          /\ j \in exists => j \in exists'
                          /\ \A o \in Objects : label'[o] = j => label[o] = j
  BY <1>1, <1>3, HandoverAssumption DEF HandoverInv, TypeOK, Worker
<1> QED BY <1>4, <1>5, <1>6, <1>7, <1>8, <1>9, OthersStayGood DEF Good

\* So does a DELETE.
LEMMA DeleteFoundKeeps ==
    ASSUME HandoverInv, NEW k \in Ks, DeleteFound(k)
    PROVE  HandoverInv'
<1>1. worker[k] \in Worker /\ Good(k)
  BY DEF HandoverInv, TypeOK
<1> DEFINE w == [worker[k] EXCEPT !.found = "none"]
<1>2. w \in Worker /\ worker' = [worker EXCEPT ![k] = w]
  BY <1>1, HandoverAssumption DEF DeleteFound, HandoverInv, TypeOK, Worker, Idle
<1>3. /\ w.pc = worker[k].pc
      /\ w.rev = worker[k].rev
      /\ w.todo = worker[k].todo
      /\ w.found = "none"
      /\ w.failed = worker[k].failed
      /\ worker[k].found \in Objects
      /\ label' = [label EXCEPT ![worker[k].found] = "absent"]
      /\ UNCHANGED <<revision, exists, deleting, inventory, foreign, stray, moves, faults>>
  BY <1>1, HandoverAssumption DEF DeleteFound, HandoverInv, TypeOK, Worker, Idle
<1> HIDE DEF w
<1>4. worker'[k] = w /\ \A j \in Ks \ {k} : worker'[j] = worker[j]
  BY <1>2 DEF HandoverInv, TypeOK
<1>5. TypeOK'
  BY <1>1, <1>2, <1>3 DEF HandoverInv, TypeOK, Worker
<1>6. LabelsTracked(k)'
  <2> SUFFICES ASSUME NEW o \in Objects, label'[o] = k, o \notin stray'[k]
               PROVE  k \in exists' /\ Tracked(k, o)'
    BY DEF LabelsTracked
  <2>1. label[o] = k /\ o \notin stray[k] => k \in exists /\ Tracked(k, o)
    BY <1>1 DEF Good, LabelsTracked
  <2>2. WorkerSane(k)
    BY <1>1 DEF Good
  <2>3. label[o] = k /\ o # worker[k].found
    BY <1>3, HandoverAssumption DEF HandoverInv, TypeOK
  <2> QED BY <1>3, <1>4, <2>1, <2>2, <2>3, HandoverAssumption DEF Tracked, WorkerSane
<1>7. WorkerSane(k)'
  <2>1. WorkerSane(k) /\ inventory' = inventory /\ exists' = exists
    BY <1>1, <1>3 DEF Good
  <2>2. worker[k].found # "none"
    BY <1>3, HandoverAssumption
  <2> QED BY <1>3, <1>4, <2>1, <2>2 DEF WorkerSane
<1>8. ForeignKept(k)'
  BY <1>1, <1>2, <1>3, <1>4, HandoverAssumption DEF Good, WorkerSane, ForeignKept, HandoverInv, TypeOK
<1>9. \A j \in Ks \ {k} : /\ foreign'[j] = foreign[j]
                          /\ stray'[j] = stray[j]
                          /\ inventory'[j] = inventory[j]
                          /\ j \in exists => j \in exists'
                          /\ \A o \in Objects : label'[o] = j => label[o] = j
  BY <1>1, <1>3, HandoverAssumption DEF HandoverInv, TypeOK, Worker
<1> QED BY <1>4, <1>5, <1>6, <1>7, <1>8, <1>9, OthersStayGood DEF Good

\* So does a refused DELETE: the object is remembered.
LEMMA DeleteRefusedKeeps ==
    ASSUME HandoverInv, NEW k \in Ks, DeleteRefused(k)
    PROVE  HandoverInv'
<1>1. worker[k] \in Worker /\ Good(k)
  BY DEF HandoverInv, TypeOK
<1> DEFINE w == [worker[k] EXCEPT !.found = "none", !.failed = @ \cup {worker[k].found}]
<1>2. w \in Worker /\ worker' = [worker EXCEPT ![k] = w]
  BY <1>1, HandoverAssumption DEF DeleteRefused, HandoverInv, TypeOK, Worker, Idle
<1>3. /\ w.pc = worker[k].pc
      /\ w.rev = worker[k].rev
      /\ w.todo = worker[k].todo
      /\ w.found = "none"
      /\ w.failed = worker[k].failed \cup {worker[k].found}
      /\ worker[k].found \in Objects
      /\ faults' \in 0 .. MaxFaults
      /\ UNCHANGED <<label, revision, exists, deleting, inventory, foreign, stray, moves>>
  BY <1>1, HandoverAssumption DEF DeleteRefused, HandoverInv, TypeOK, Worker, Idle
<1> HIDE DEF w
<1>4. worker'[k] = w /\ \A j \in Ks \ {k} : worker'[j] = worker[j]
  BY <1>2 DEF HandoverInv, TypeOK
<1>5. TypeOK'
  BY <1>1, <1>2, <1>3 DEF HandoverInv, TypeOK, Worker
<1>6. LabelsTracked(k)'
  <2> SUFFICES ASSUME NEW o \in Objects, label'[o] = k, o \notin stray'[k]
               PROVE  k \in exists' /\ Tracked(k, o)'
    BY DEF LabelsTracked
  <2>1. label[o] = k /\ o \notin stray[k] => k \in exists /\ Tracked(k, o)
    BY <1>1 DEF Good, LabelsTracked
  <2>2. WorkerSane(k)
    BY <1>1 DEF Good
  <2> QED BY <1>1, <1>2, <1>3, <1>4, <2>1, <2>2
          DEF Tracked, WorkerSane, HandoverInv, TypeOK, Worker
<1>7. WorkerSane(k)'
  <2>1. WorkerSane(k) /\ inventory' = inventory /\ exists' = exists
    BY <1>1, <1>3 DEF Good
  <2>2. worker[k].found # "none"
    BY <1>3, HandoverAssumption
  <2> QED BY <1>3, <1>4, <2>1, <2>2 DEF WorkerSane
<1>8. ForeignKept(k)'
  BY <1>1, <1>2, <1>3, <1>4, HandoverAssumption DEF Good, WorkerSane, ForeignKept, HandoverInv, TypeOK
<1>9. \A j \in Ks \ {k} : /\ foreign'[j] = foreign[j]
                          /\ stray'[j] = stray[j]
                          /\ inventory'[j] = inventory[j]
                          /\ j \in exists => j \in exists'
                          /\ \A o \in Objects : label'[o] = j => label[o] = j
  BY <1>1, <1>3, HandoverAssumption DEF HandoverInv, TypeOK, Worker
<1> QED BY <1>4, <1>5, <1>6, <1>7, <1>8, <1>9, OthersStayGood DEF Good

\* So does storing the inventory, with the survivors.
LEMMA FinishKeeps ==
    ASSUME HandoverInv, NEW k \in Ks, Finish(k)
    PROVE  HandoverInv'
<1>1. worker[k] \in Worker /\ Good(k)
  BY DEF HandoverInv, TypeOK
<1> DEFINE w == Idle
<1>2. w \in Worker /\ worker' = [worker EXCEPT ![k] = w]
  BY <1>1, HandoverAssumption DEF Finish, Collected, Collecting, HandoverInv, TypeOK, Worker, Idle
<1>3. /\ w.pc = "idle" /\ w.found = "none" /\ w.failed = {}
      /\ worker[k].pc = "prune" /\ worker[k].found = "none" /\ worker[k].todo = {}
      /\ inventory' = [inventory EXCEPT ![k] = Manifests[worker[k].rev][k] \cup worker[k].failed]
      /\ Manifests[worker[k].rev][k] \cup worker[k].failed \subseteq Objects
      /\ foreign' = [foreign EXCEPT ![k] = {}]
      /\ stray' = [stray EXCEPT ![k] = stray[k] \ inventory'[k]]
      /\ UNCHANGED <<label, revision, exists, deleting, moves, faults>>
  BY <1>1, HandoverAssumption DEF Finish, Collected, Collecting, HandoverInv, TypeOK, Worker, Idle
<1> HIDE DEF w
<1>4. worker'[k] = w /\ \A j \in Ks \ {k} : worker'[j] = worker[j]
  BY <1>2 DEF HandoverInv, TypeOK
<1>5. TypeOK'
  BY <1>1, <1>2, <1>3 DEF HandoverInv, TypeOK, Worker
<1>6. LabelsTracked(k)'
  <2> SUFFICES ASSUME NEW o \in Objects, label'[o] = k, o \notin stray'[k]
               PROVE  k \in exists' /\ Tracked(k, o)'
    BY DEF LabelsTracked
  <2>1. label[o] = k /\ o \notin stray[k] => k \in exists /\ Tracked(k, o)
    BY <1>1 DEF Good, LabelsTracked
  <2>2. WorkerSane(k)
    BY <1>1 DEF Good
  <2>3. label[o] = k
    BY <1>3
  <2>4. inventory'[k] = Manifests[worker[k].rev][k] \cup worker[k].failed
    BY <1>3 DEF HandoverInv, TypeOK
  <2> QED BY <1>3, <1>4, <2>1, <2>2, <2>3, <2>4, HandoverAssumption DEF Tracked, WorkerSane
<1>7. WorkerSane(k)'
  BY <1>1, <1>2, <1>3, <1>4 DEF Good, WorkerSane, HandoverInv, TypeOK
<1>8. ForeignKept(k)'
  BY <1>1, <1>2, <1>3, <1>4, HandoverAssumption DEF Good, WorkerSane, ForeignKept, HandoverInv, TypeOK
<1>9. \A j \in Ks \ {k} : /\ foreign'[j] = foreign[j]
                          /\ stray'[j] = stray[j]
                          /\ inventory'[j] = inventory[j]
                          /\ j \in exists => j \in exists'
                          /\ \A o \in Objects : label'[o] = j => label[o] = j
  BY <1>1, <1>3, HandoverAssumption DEF HandoverInv, TypeOK, Worker
<1> QED BY <1>4, <1>5, <1>6, <1>7, <1>8, <1>9, OthersStayGood DEF Good

\* So does the end of the finalizer: nothing carries the label any more, or the
\* inventory stays.
LEMMA FinishDeleteKeeps ==
    ASSUME HandoverInv, NEW k \in Ks, FinishDelete(k)
    PROVE  HandoverInv'
<1>1. worker[k] \in Worker /\ Good(k)
  BY DEF HandoverInv, TypeOK
<1> DEFINE w == Idle
<1>2. w \in Worker /\ worker' = [worker EXCEPT ![k] = w]
  BY <1>1, HandoverAssumption DEF FinishDelete, Collected, Collecting, HandoverInv, TypeOK, Worker, Idle
<1>3. /\ w.pc = "idle" /\ w.found = "none" /\ w.failed = {}
      /\ worker[k].pc = "delete" /\ worker[k].found = "none" /\ worker[k].todo = {}
      /\ exists' = IF worker[k].failed = {} THEN exists \ {k} ELSE exists
      /\ foreign' = [foreign EXCEPT ![k] = {}]
      /\ UNCHANGED <<label, revision, deleting, inventory, stray, moves, faults>>
  BY <1>1, HandoverAssumption DEF FinishDelete, Collected, Collecting, HandoverInv, TypeOK, Worker, Idle
<1> HIDE DEF w
<1>4. worker'[k] = w /\ \A j \in Ks \ {k} : worker'[j] = worker[j]
  BY <1>2 DEF HandoverInv, TypeOK
<1>5. TypeOK'
  BY <1>1, <1>2, <1>3 DEF HandoverInv, TypeOK, Worker
<1>6. LabelsTracked(k)'
  <2> SUFFICES ASSUME NEW o \in Objects, label'[o] = k, o \notin stray'[k]
               PROVE  k \in exists' /\ Tracked(k, o)'
    BY DEF LabelsTracked
  <2>1. label[o] = k /\ o \notin stray[k] => k \in exists /\ Tracked(k, o)
    BY <1>1 DEF Good, LabelsTracked
  <2>2. WorkerSane(k)
    BY <1>1 DEF Good
  <2>3. label[o] = k
    BY <1>3
  <2>4. inventory'[k] = inventory[k]
    BY <1>3 DEF HandoverInv, TypeOK
  <2> QED BY <1>3, <1>4, <2>1, <2>2, <2>3, <2>4, HandoverAssumption DEF Tracked, WorkerSane
<1>7. WorkerSane(k)'
  BY <1>1, <1>2, <1>3, <1>4 DEF Good, WorkerSane, HandoverInv, TypeOK
<1>8. ForeignKept(k)'
  BY <1>1, <1>2, <1>3, <1>4, HandoverAssumption DEF Good, WorkerSane, ForeignKept, HandoverInv, TypeOK
<1>9. \A j \in Ks \ {k} : /\ foreign'[j] = foreign[j]
                          /\ stray'[j] = stray[j]
                          /\ inventory'[j] = inventory[j]
                          /\ j \in exists => j \in exists'
                          /\ \A o \in Objects : label'[o] = j => label[o] = j
  BY <1>1, <1>3, HandoverAssumption DEF HandoverInv, TypeOK, Worker
<1> QED BY <1>4, <1>5, <1>6, <1>7, <1>8, <1>9, OthersStayGood DEF Good

\* An attempt without an end leaves what it has applied to the history.
LEMMA FailKeeps ==
    ASSUME HandoverInv, NEW k \in Ks, Fail(k)
    PROVE  HandoverInv'
<1>1. worker[k] \in Worker /\ Good(k) /\ Unlisted(k) \subseteq Objects
  BY HandoverAssumption DEF HandoverInv, TypeOK, Unlisted, Worker
<1>2. Idle \in Worker /\ Idle.pc = "idle" /\ Idle.found = "none" /\ Idle.failed = {}
  BY HandoverAssumption DEF Worker, Idle
<1>3. /\ worker' = [worker EXCEPT ![k] = Idle]
      /\ foreign' = [foreign EXCEPT ![k] = {}]
      /\ stray' = [stray EXCEPT ![k] = stray[k] \cup Unlisted(k)]
      /\ faults' \in 0 .. MaxFaults
      /\ UNCHANGED <<label, revision, exists, deleting, inventory, moves>>
  BY HandoverAssumption DEF Fail, HandoverInv, TypeOK
<1>4. /\ worker'[k] = Idle /\ \A j \in Ks \ {k} : worker'[j] = worker[j]
      /\ foreign'[k] = {} /\ \A j \in Ks \ {k} : foreign'[j] = foreign[j]
      /\ stray'[k] = stray[k] \cup Unlisted(k)
      /\ \A j \in Ks \ {k} : stray'[j] = stray[j]
  BY <1>3 DEF HandoverInv, TypeOK
<1>5. TypeOK'
  BY <1>1, <1>2, <1>3 DEF HandoverInv, TypeOK
<1>6. LabelsTracked(k)'
  <2> SUFFICES ASSUME NEW o \in Objects, label'[o] = k, o \notin stray'[k]
               PROVE  k \in exists' /\ Tracked(k, o)'
    BY DEF LabelsTracked
  <2>1. k \in exists /\ Tracked(k, o) /\ o \notin Unlisted(k) /\ WorkerSane(k)
    BY <1>1, <1>3, <1>4 DEF Good, LabelsTracked
  <2>2. o \in inventory[k]
    BY <1>1, <2>1, HandoverAssumption DEF Tracked, Unlisted, WorkerSane, Worker
  <2> QED BY <1>2, <1>3, <1>4, <2>1, <2>2 DEF Tracked
<1>7. WorkerSane(k)' /\ ForeignKept(k)'
  BY <1>2, <1>4 DEF WorkerSane, ForeignKept
<1>8. \A j \in Ks \ {k} : /\ worker'[j] = worker[j] /\ foreign'[j] = foreign[j]
                          /\ stray'[j] = stray[j] /\ inventory'[j] = inventory[j]
                          /\ j \in exists => j \in exists'
                          /\ \A o \in Objects : label'[o] = j => label[o] = j
  BY <1>3, <1>4
<1> QED BY <1>5, <1>6, <1>7, <1>8, OthersStayGood DEF Good

\* So does a crash, for every Kustomization.
LEMMA CrashKeeps ==
    ASSUME HandoverInv, Crash
    PROVE  HandoverInv'
<1>1. Idle \in Worker /\ Idle.pc = "idle" /\ Idle.found = "none" /\ Idle.failed = {}
  BY HandoverAssumption DEF Worker, Idle
<1>2. /\ worker' = [k \in Ks |-> Idle] /\ foreign' = [k \in Ks |-> {}]
      /\ stray' = [k \in Ks |-> stray[k] \cup Unlisted(k)]
      /\ faults' \in 0 .. MaxFaults
      /\ UNCHANGED <<label, revision, exists, deleting, inventory, moves>>
  BY HandoverAssumption DEF Crash, HandoverInv, TypeOK
<1>3. ASSUME NEW k \in Ks PROVE Unlisted(k) \subseteq Objects
  BY HandoverAssumption DEF HandoverInv, TypeOK, Unlisted, Worker
<1>4. TypeOK'
  <2>1. stray' \in [Ks -> SUBSET Objects]
    BY <1>2, <1>3 DEF HandoverInv, TypeOK
  <2> QED BY <1>1, <1>2, <2>1 DEF HandoverInv, TypeOK
<1>5. ASSUME NEW k \in Ks PROVE Good(k)'
  <2>0. /\ worker[k] \in Worker /\ worker'[k] = Idle /\ foreign'[k] = {}
        /\ stray'[k] = stray[k] \cup Unlisted(k)
    BY <1>2 DEF HandoverInv, TypeOK
  <2>1. LabelsTracked(k)'
    <3> SUFFICES ASSUME NEW o \in Objects, label'[o] = k, o \notin stray'[k]
                 PROVE  k \in exists' /\ Tracked(k, o)'
      BY DEF LabelsTracked
    <3>1. k \in exists /\ Tracked(k, o) /\ o \notin Unlisted(k) /\ WorkerSane(k)
      BY <1>2, <2>0 DEF HandoverInv, Good, LabelsTracked
    <3>2. o \in inventory[k]
      BY <2>0, <3>1, HandoverAssumption DEF Tracked, Unlisted, WorkerSane, Worker
    <3> QED BY <1>1, <1>2, <2>0, <3>1, <3>2 DEF Tracked
  <2>2. WorkerSane(k)' /\ ForeignKept(k)'
    BY <1>1, <2>0 DEF WorkerSane, ForeignKept
  <2> QED BY <2>1, <2>2 DEF Good
<1> QED BY <1>4, <1>5 DEF HandoverInv

\* The users and the source do not touch what the invariant is about.
LEMMA OthersKeep ==
    ASSUME HandoverInv,
           \/ \E k \in Ks : Delete(k)
           \/ \E r \in Revisions : MoveSource(r)
           \/ UNCHANGED vars
    PROVE  HandoverInv'
<1>1. UNCHANGED <<label, exists, inventory, worker, foreign, stray>>
  BY DEF Delete, MoveSource, vars
<1>2. /\ revision' \in Revisions
      /\ deleting' \subseteq Ks
      /\ moves' \in 0 .. MaxMoves
      /\ faults' \in 0 .. MaxFaults
  <2>1. CASE \E k \in Ks : Delete(k)
    BY <2>1 DEF HandoverInv, TypeOK, Delete
  <2>2. CASE \E r \in Revisions : MoveSource(r)
    BY <2>2, HandoverAssumption DEF HandoverInv, TypeOK, MoveSource
  <2>3. CASE UNCHANGED vars
    BY <2>3 DEF HandoverInv, TypeOK, vars
  <2> QED BY <2>1, <2>2, <2>3
<1>4. TypeOK'
  BY <1>1, <1>2 DEF HandoverInv, TypeOK
<1>3. ASSUME NEW k \in Ks PROVE Good(k)'
  <2>1. LabelsTracked(k)'
    BY <1>1 DEF HandoverInv, Good, LabelsTracked, Tracked
  <2>2. WorkerSane(k)'
    BY <1>1 DEF HandoverInv, Good, WorkerSane
  <2>3. ForeignKept(k)'
    BY <1>1 DEF HandoverInv, Good, ForeignKept
  <2> QED BY <2>1, <2>2, <2>3 DEF Good
<1> QED BY <1>3, <1>4 DEF HandoverInv

\* Every step keeps the invariant.
LEMMA StepHandover == HandoverInv /\ [Next]_vars => HandoverInv'
BY StartKeeps, ApplyOneKeeps, ApplyDoneKeeps, GetKeeps, DeleteFoundKeeps,
   DeleteRefusedKeeps, FinishKeeps, FinishDeleteKeeps, FailKeeps, CrashKeeps,
   OthersKeep DEF Next, Work

\* The invariant holds in every reachable state.
THEOREM HandoverInvariant == Spec => []HandoverInv
BY InitHandover, StepHandover, PTL DEF Spec

\* An object with the label of a Kustomization that is not reconciling is in its
\* stored inventory, and a Kustomization that is gone leaves no object with its
\* label (LabelIsTracked), for any number of Kustomizations, handovers, failures and
\* crashes; only what a failed or crashed attempt has applied is excepted.
THEOREM LabelsAreTracked == Spec => []LabelIsTracked
<1>1. HandoverInv => LabelIsTracked
  BY DEF HandoverInv, Good, LabelsTracked, Tracked, LabelIsTracked
<1> QED BY <1>1, HandoverInvariant, PTL

\* prune and finalize never delete an object that carried another label when
\* the reconciliation started (ForeignIsSpared).
THEOREM HandedOverIsSpared == Spec => ForeignIsSpared
<1> DEFINE Spared == \A o \in Objects : label[o] # "absent" /\ label'[o] = "absent" =>
                        \E k \in Ks : /\ worker[k].found = o
                                      /\ worker'[k].found = "none"
                                      /\ o \notin foreign[k]
<1>1. HandoverInv /\ [Next]_vars => [Spared]_vars
  <2> SUFFICES ASSUME HandoverInv, Next, NEW o \in Objects,
                      label[o] # "absent", label'[o] = "absent"
               PROVE  \E k \in Ks : /\ worker[k].found = o
                                    /\ worker'[k].found = "none"
                                    /\ o \notin foreign[k]
    OBVIOUS
  <2>1. PICK k \in Ks : DeleteFound(k) \/ \E p \in Objects : ApplyOne(k, p)
    BY DEF Next, Start, Work, ApplyDone, Get, DeleteRefused, Finish, FinishDelete,
           Fail, Crash, Delete, MoveSource
  <2>2. label'[o] # k
    BY HandoverAssumption
  <2>3. DeleteFound(k) /\ o = worker[k].found
    BY <2>1, <2>2 DEF HandoverInv, TypeOK, ApplyOne, DeleteFound
  <2>4. worker'[k].found = "none"
    BY <2>3 DEF HandoverInv, TypeOK, DeleteFound, Worker
  <2>5. o \notin foreign[k]
    BY <2>3 DEF HandoverInv, Good, ForeignKept
  <2> QED BY <2>3, <2>4, <2>5
<1> QED BY <1>1, HandoverInvariant, PTL DEF Spec, ForeignIsSpared
=============================================================================
