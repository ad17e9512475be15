--------------------------- MODULE TempDirsProofs ---------------------------
(***************************************************************************)
(* A proof that the background purge and the reconciliations do not meet,  *)
(* for any number of workers, directories, kills and troubles.             *)
(***************************************************************************)
EXTENDS TempDirs, TLAPS

\* The directory of a worker exists, is not on the purge list, and is its own.
Safe(w) ==
    /\ artifact[w] # None => artifact[w] \in dirs /\ artifact[w] \notin stale
    /\ home[w] # None => home[w] \in dirs /\ home[w] \notin stale
    /\ \A v \in Workers \ {w} :
          /\ artifact[w] # None => artifact[v] # artifact[w]
          /\ home[w] # None => home[v] # home[w]

\* The purge list was drawn up before the first reconciliation: it holds
\* directories that still exist, and nobody has one while the process starts.
PurgeInv ==
    /\ TypeOK
    /\ stale \subseteq dirs
    /\ process = "starting" =>
          /\ stale = {}
          /\ \A w \in Workers : artifact[w] = None /\ home[w] = None
    /\ \A w \in Workers : Safe(w)

\* The initial states satisfy the invariant.
LEMMA InitPurge == Init => PurgeInv
BY TempDirsAssumption DEF Init, PurgeInv, TypeOK, Safe

\* The steps of the process and of the purge keep the invariant.
LEMMA ProcessKeeps ==
    ASSUME PurgeInv,
           \/ Start \/ StartWithoutPurge \/ PurgeAborts \/ Kill
           \/ \E d \in Artifacts : Purge(d) \/ PurgeFails(d)
           \/ UNCHANGED vars
    PROVE  PurgeInv'
<1>1. CASE Start
  BY <1>1, TempDirsAssumption DEF Start, ListStaleTempDirs, PurgeInv, TypeOK, Safe
<1>2. CASE StartWithoutPurge
  BY <1>2, TempDirsAssumption DEF StartWithoutPurge, Trouble, PurgeInv, TypeOK, Safe
<1>3. CASE PurgeAborts
  BY <1>3, TempDirsAssumption DEF PurgeAborts, Trouble, PurgeInv, TypeOK, Safe
<1>4. CASE Kill
  BY <1>4, TempDirsAssumption DEF Kill, PurgeInv, TypeOK, Safe
<1>5. CASE \E d \in Artifacts : Purge(d)
  BY <1>5, TempDirsAssumption DEF Purge, PurgeInv, TypeOK, Safe
<1>6. CASE \E d \in Artifacts : PurgeFails(d)
  BY <1>6, TempDirsAssumption DEF PurgeFails, Trouble, PurgeInv, TypeOK, Safe
<1>7. CASE UNCHANGED vars
  BY <1>7 DEF vars, PurgeInv, TypeOK, Safe
<1> QED BY <1>1, <1>2, <1>3, <1>4, <1>5, <1>6, <1>7

\* A new directory is on no list and nobody's: its name did not exist.
LEMMA CreationKeeps ==
    ASSUME PurgeInv, NEW w \in Workers,
           \/ \E d \in Artifacts : MkdirTemp(w, d)
           \/ \E d \in Homes : NewDecryptor(w, d)
    PROVE  PurgeInv'
<1>1. CASE \E d \in Artifacts : MkdirTemp(w, d)
  BY <1>1, TempDirsAssumption DEF MkdirTemp, PurgeInv, TypeOK, Safe
<1>2. CASE \E d \in Homes : NewDecryptor(w, d)
  BY <1>2, TempDirsAssumption DEF NewDecryptor, PurgeInv, TypeOK, Safe
<1> QED BY <1>1, <1>2

\* A worker removes only its own directories.
LEMMA RemovalKeeps ==
    ASSUME PurgeInv, NEW w \in Workers, Cleanup(w) \/ RemoveArtifact(w)
    PROVE  PurgeInv'
<1>1. CASE Cleanup(w)
  BY <1>1, TempDirsAssumption DEF Cleanup, Trouble, PurgeInv, TypeOK, Safe, None
<1>2. CASE RemoveArtifact(w)
  BY <1>2, TempDirsAssumption DEF RemoveArtifact, Trouble, PurgeInv, TypeOK, Safe, None
<1> QED BY <1>1, <1>2

\* The directories of the running reconciliations are never purged and never
\* shared (InUseIsSafe), however many there are and whatever is killed.
THEOREM PurgeIsSafe == Spec => []InUseIsSafe
<1>1. PurgeInv /\ [Next]_vars => PurgeInv'
  BY ProcessKeeps, CreationKeeps, RemovalKeeps DEF Next
<1>2. PurgeInv => InUseIsSafe
  BY DEF PurgeInv, Safe, InUseIsSafe, InUse
<1> QED BY InitPurge, <1>1, <1>2, PTL DEF Spec
=============================================================================
