------------------------------ MODULE Ownership ------------------------------
(***************************************************************************)
(* What the reconciler promises about the objects in the cluster, without  *)
(* revisions, queues, conditions or retries: the stored inventory owns     *)
(* objects, only owned objects are collected, ownership of a live object   *)
(* is given up only when the policy says so, and a Kustomization leaves    *)
(* only when it owns nothing, or what its policy lets it leave behind.     *)
(***************************************************************************)
CONSTANTS
    Objects,    \* identities of the managed objects
    Exempt      \* objects whose labels keep them from being deleted

VARIABLES
    present,    \* does the Kustomization exist?
    tracked,    \* its stored inventory
    cluster,    \* every object: "absent", "live" or "terminating"
    policy      \* what the spec in force asks for

vars == <<present, tracked, cluster, policy>>

\* Prune what the build dropped; the Kustomization is being finalized, and then:
\* delete what it owns, wait until it is gone, and is the cluster reachable?
Policy ==
    [prune : BOOLEAN, finalizing : BOOLEAN, delete : BOOLEAN, await : BOOLEAN,
     reachable : BOOLEAN]

Init ==
    /\ present = TRUE
    /\ tracked = {}
    /\ cluster = [o \in Objects |-> "absent"]
    /\ policy \in Policy

\* The controller applies an object.
Apply(o) ==
    /\ present
    /\ cluster[o] # "terminating"
    /\ cluster' = [cluster EXCEPT ![o] = "live"]
    /\ UNCHANGED <<present, tracked>>

\* The controller deletes an object: one that it owns, that is not exempt, and
\* because the policy asks for it.
Collect(o) ==
    /\ present
    /\ o \in tracked \ Exempt
    /\ policy.prune \/ policy.delete
    /\ cluster[o] = "live"
    /\ cluster' = [cluster EXCEPT ![o] = "terminating"]
    /\ UNCHANGED <<present, tracked>>

\* An object ends its termination, or someone else removes it.
Vanish(o) ==
    /\ cluster[o] # "absent"
    /\ cluster' = [cluster EXCEPT ![o] = "absent"]
    /\ UNCHANGED <<present, tracked>>

\* A new inventory is stored.
Record ==
    /\ present
    /\ tracked' \in SUBSET Objects
    /\ \A o \in tracked \ tracked' :
          cluster[o] = "live" => o \in Exempt \/ ~policy.prune
    /\ UNCHANGED <<present, cluster>>

\* The Kustomization goes away.
Leave ==
    /\ present
    /\ present' = FALSE
    /\ \/ tracked = {}
       \/ /\ policy.finalizing
          /\ policy.delete /\ policy.reachable =>
                \A o \in tracked \ Exempt :
                   /\ cluster[o] # "live"
                   /\ policy.await => cluster[o] = "absent"
    /\ UNCHANGED <<tracked, cluster>>

\* The spec in force changes.
Decide == UNCHANGED <<present, tracked, cluster>>

Next ==
    /\ \/ \E o \in Objects : Apply(o) \/ Collect(o) \/ Vanish(o)
       \/ Record \/ Leave \/ Decide
    /\ policy' \in Policy

Spec == Init /\ [][Next]_vars
=============================================================================
