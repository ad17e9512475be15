------------------------------ MODULE TempDirs ------------------------------
(***************************************************************************)
(* The directories the controller keeps below os.TempDir(): the workers'   *)
(* artifacts and GnuPG homes, what a killed process leaves behind, and the *)
(* purge of the leftovers in the background of the process that follows.   *)
(***************************************************************************)
EXTENDS Integers, FiniteSets

CONSTANTS
    Workers,      \* reconciliations that run at the same time
    Artifacts,    \* directory names that start with TempDirPrefix
    Homes,        \* directory names of GnuPG homes, which have another prefix
    MaxKills,     \* bound on killed processes
    MaxTroubles   \* bound on failed removals, failed listings and timeouts

ASSUME TempDirsAssumption ==
    /\ Artifacts \cap Homes = {}
    /\ "none" \notin Artifacts \cup Homes
    /\ MaxKills \in Nat
    /\ MaxTroubles \in Nat

VARIABLES
    dirs,      \* directories that exist
    process,   \* "starting" (before the manager runs) or "running"
    stale,     \* directories the purge has left to remove
    artifact,  \* the directory each worker extracts its artifact into
    home,      \* the GnuPG home of each worker's Decryptor
    removing,  \* workers whose deferred functions are running
    kills,     \* kills left
    troubles   \* troubles left

vars == <<dirs, process, stale, artifact, home, removing, kills, troubles>>

None == "none"

\* The directories of reconciliations that are running.
InUse == ({artifact[w] : w \in Workers} \cup {home[w] : w \in Workers}) \ {None}

Trouble == troubles > 0 /\ troubles' = troubles - 1

-----------------------------------------------------------------------------
(* The start of the process.                                               *)

ListStaleTempDirs == dirs \cap Artifacts

StartListingLate ==   \* mutant: the manager starts first, the purge lists in the background
    /\ \/ process = "starting" /\ process' = "running" /\ UNCHANGED stale
       \/ process = "running" /\ stale = {} /\ stale' = ListStaleTempDirs /\ UNCHANGED process
    /\ UNCHANGED <<dirs, artifact, home, removing, kills, troubles>>

\* main: the leftovers are listed, then the manager starts.
Start ==
    /\ process = "starting"
    /\ stale' = ListStaleTempDirs
    /\ process' = "running"
    /\ UNCHANGED <<dirs, artifact, home, removing, kills, troubles>>

\* os.TempDir() cannot be listed: start without a purge.
StartWithoutPurge ==
    /\ process = "starting"
    /\ Trouble
    /\ process' = "running"
    /\ UNCHANGED <<dirs, stale, artifact, home, removing, kills>>

-----------------------------------------------------------------------------
(* PurgeTempDirs, in the background.                                       *)

PurgeFirst(d) ==   \* mutant: returns after the first directory
    /\ process = "running"
    /\ d \in stale
    /\ stale' = {}
    /\ dirs' = dirs \ {d}
    /\ UNCHANGED <<process, artifact, home, removing, kills, troubles>>

Purge(d) ==
    /\ process = "running"
    /\ d \in stale
    /\ stale' = stale \ {d}
    /\ dirs' = dirs \ {d}
    /\ UNCHANGED <<process, artifact, home, removing, kills, troubles>>

PurgeFails(d) ==
    /\ process = "running"
    /\ d \in stale
    /\ Trouble
    /\ stale' = stale \ {d}
    /\ UNCHANGED <<dirs, process, artifact, home, removing, kills>>

\* The timeout expires, or the manager is stopping: the rest stays.
PurgeAborts ==
    /\ process = "running"
    /\ stale # {}
    /\ Trouble
    /\ stale' = {}
    /\ UNCHANGED <<dirs, process, artifact, home, removing, kills>>

-----------------------------------------------------------------------------
(* One reconciliation.                                                     *)

\* MkdirTemp: a name that does not exist.
MkdirTemp(w, d) ==
    /\ process = "running"
    /\ artifact[w] = None
    /\ d \in Artifacts \ dirs
    /\ dirs' = dirs \cup {d}
    /\ artifact' = [artifact EXCEPT ![w] = d]
    /\ UNCHANGED <<process, stale, home, removing, kills, troubles>>

\* build creates a Decryptor with a GnuPG home of its own.
NewDecryptor(w, d) ==
    /\ process = "running"
    /\ artifact[w] # None
    /\ home[w] = None
    /\ w \notin removing
    /\ d \in Homes \ dirs
    /\ dirs' = dirs \cup {d}
    /\ home' = [home EXCEPT ![w] = d]
    /\ UNCHANGED <<process, stale, artifact, removing, kills, troubles>>

\* build returns: the cleanup of the Decryptor.  Its error is ignored.
Cleanup(w) ==
    /\ home[w] # None
    /\ \/ dirs' = dirs \ {home[w]} /\ UNCHANGED troubles
       \/ Trouble /\ UNCHANGED dirs
    /\ home' = [home EXCEPT ![w] = None]
    /\ removing' = removing \cup {w}
    /\ UNCHANGED <<process, stale, artifact, kills>>

\* reconcile returns, with or without having built: the deferred removal.
RemoveArtifact(w) ==
    /\ artifact[w] # None
    /\ home[w] = None
    /\ \/ dirs' = dirs \ {artifact[w]} /\ UNCHANGED troubles
       \/ Trouble /\ UNCHANGED dirs
    /\ artifact' = [artifact EXCEPT ![w] = None]
    /\ removing' = removing \ {w}
    /\ UNCHANGED <<process, stale, home, kills>>

\* The process exits without running its deferred functions, and restarts.
Kill ==
    /\ kills > 0
    /\ kills' = kills - 1
    /\ process' = "starting"
    /\ stale' = {}
    /\ artifact' = [w \in Workers |-> None]
    /\ home' = [w \in Workers |-> None]
    /\ removing' = {}
    /\ UNCHANGED <<dirs, troubles>>

-----------------------------------------------------------------------------

Init ==
    /\ dirs = {}
    /\ process = "starting"
    /\ stale = {}
    /\ artifact = [w \in Workers |-> None]
    /\ home = [w \in Workers |-> None]
    /\ removing = {}
    /\ kills = MaxKills
    /\ troubles = MaxTroubles

Next ==
    \/ Start \/ StartWithoutPurge \/ PurgeAborts \/ Kill
    \/ \E d \in Artifacts : Purge(d) \/ PurgeFails(d)
    \/ \E w \in Workers :
          \/ Cleanup(w) \/ RemoveArtifact(w)
          \/ \E d \in Artifacts : MkdirTemp(w, d)
          \/ \E d \in Homes : NewDecryptor(w, d)

Spec == Init /\ [][Next]_vars

\* The process starts, the purge goroutine and every reconciliation go on.
FairSpec ==
    /\ Spec
    /\ WF_vars(Start)
    /\ WF_vars(\E d \in Artifacts : Purge(d))
    /\ \A w \in Workers : WF_vars(Cleanup(w)) /\ WF_vars(RemoveArtifact(w))

-----------------------------------------------------------------------------
(* Properties.                                                             *)

\* Every variable has its type.
TypeOK ==
    /\ dirs \subseteq Artifacts \cup Homes
    /\ process \in {"starting", "running"}
    /\ stale \subseteq Artifacts \cup Homes
    /\ artifact \in [Workers -> Artifacts \cup {None}]
    /\ home \in [Workers -> Homes \cup {None}]
    /\ removing \subseteq Workers
    /\ kills \in 0 .. MaxKills
    /\ troubles \in 0 .. MaxTroubles

\* A running reconciliation keeps its directories: the purge, which runs at the
\* same time and removes directories with the same prefix, never takes one away,
\* and no two reconciliations share one.
InUseIsSafe ==
    /\ InUse \subseteq dirs
    /\ stale \cap InUse = {}
    /\ \A v, w \in Workers : v # w /\ artifact[v] # None => artifact[v] # artifact[w]

\* The directories of artifacts that no reconciliation uses.
Leftover(d) == d \in dirs \cap Artifacts /\ d \notin InUse

\* Leftovers go: as long as no removal fails and no purge is cut short, a
\* directory that a killed process left behind is removed.
LeftoversArePurged ==
    [](troubles = MaxTroubles) => \A d \in Artifacts : Leftover(d) ~> ~Leftover(d)
=============================================================================
