-------------------------- MODULE KeyServiceProofs --------------------------
(***************************************************************************)
(* Proofs about KeyService, for any Secrets, ServiceAccounts, files, Vault *)
(* servers and edits of the ConfigMap.                                     *)
(***************************************************************************)
EXTENDS KeyService, FiniteSetTheorems, TLAPS

\* Which entries the build takes from the Secret.
Taken(k) == k \in Imported(config) /\ config.entries[k] = "good"

\* Until the key service runs nothing has been served, and the credentials are
\* the entries imported so far.
Preparing ==
    /\ pc \in {"import", "auth"} =>
          /\ used = {} /\ tokens = {} /\ loginPaths = {}
          /\ \A a \in Addresses : asked[a] = 0
          /\ \A k \in Kinds :
                cred[k] = IF Taken(k) /\ k \notin unread THEN "static" ELSE "none"
    /\ pc = "auth" => unread = {}

Unread == unread \subseteq Imported(config)

\* The credentials of the key service are the ones that take precedence, and so
\* are those it has used.
Served ==
    /\ pc \in {"serve", "login"} => \A k \in Kinds : Credential(k) = Precedence(k)
    /\ \A u \in used : u[2] = Precedence(u[1])

\* One reading of the ConfigMap at most, made during the build, lists every server
\* that was asked for a token.
Listed ==
    /\ loginPaths = {} \/ \E listed \in seen : loginPaths = {listed}
    /\ cred["vault"] = "configMap" =>
          \A a \in Addresses : asked[a] > 0 => \E listed \in loginPaths : a \in listed

\* The servers that have answered with a token are those with a cached one, and a
\* login is for another one, with a method to log in.
Cached ==
    /\ received = tokens
    /\ pc = "login" => request \in Addresses \ tokens /\ WithLogin

\* The ConfigMap, if it can be read, is one that was seen during the build.
Read == configMap.readable => configMap.listed \in seen

KeyInv == TypeOK /\ Unread /\ Preparing /\ Served /\ Listed /\ Cached /\ Read

-----------------------------------------------------------------------------

\* The initial states satisfy the invariant.
LEMMA InitKeyInv == Init => KeyInv
<1> SUFFICES ASSUME Init PROVE KeyInv
  OBVIOUS
<1>0. /\ config \in Configs /\ edits = 0 /\ pc = "import" /\ unread = Imported(config)
      /\ cred = [k \in Kinds |-> "none"] /\ loginPaths = {} /\ tokens = {}
      /\ todo = Files /\ file \in Files /\ untried = Keys[file] /\ request = "none"
      /\ used = {} /\ asked = [a \in Addresses |-> 0] /\ received = {}
      /\ configMap \in [readable : BOOLEAN, listed : SUBSET Addresses]
  BY DEF Init
<1>1. TypeOK
  <2>1. Cardinality(loginPaths) <= 1
    <3>1. Cardinality({}) = 0
      BY FS_EmptySet
    <3> QED BY <1>0, <3>1
  <2>2. unread \subseteq Kinds
    BY <1>0 DEF Imported, Kinds
  <2>3. untried \subseteq MasterKey
    BY <1>0, ConfigsAssumption
  <2>4. seen \subseteq SUBSET Addresses
    <3>1. seen = IF configMap.readable THEN {configMap.listed} ELSE {}
      BY DEF Init
    <3> QED BY <1>0, <3>1
  <2>5. /\ cred \in [Kinds -> {"none", "static", "lazy", "annotations", "configMap"}]
        /\ asked \in [Addresses -> Nat] /\ received \subseteq Addresses
        /\ edits \in 0 .. MaxEdits
    BY <1>0, ConfigsAssumption
  <2>6. (pc = "login") = (request # "none")
    BY <1>0
  <2> QED BY <1>0, <2>1, <2>2, <2>3, <2>4, <2>5, <2>6 DEF TypeOK
<1>2. Unread /\ Preparing
  BY <1>0 DEF Unread, Preparing, Taken
<1>3. Served /\ Listed /\ Cached
  BY <1>0 DEF Served, Listed, Cached
<1>4. Read
  BY DEF Init, Read
<1> QED BY <1>1, <1>2, <1>3, <1>4 DEF KeyInv

\* An edit of the ConfigMap leaves the build alone.
LEMMA EditKeeps == ASSUME KeyInv, EditConfigMap PROVE KeyInv'
<1> USE DEF KeyInv
<1>1. UNCHANGED <<config, pc, unread, cred, loginPaths, tokens, todo, file, untried,
                  request, used, asked, received>>
  BY DEF EditConfigMap, buildVars
<1>2. /\ configMap' \in [readable : BOOLEAN, listed : SUBSET Addresses]
      /\ edits' \in 0 .. MaxEdits
      /\ seen \subseteq seen' /\ seen' \subseteq SUBSET Addresses
  <2>1. configMap' \in [readable : BOOLEAN, listed : SUBSET Addresses]
    BY DEF EditConfigMap
  <2>2. edits' \in 0 .. MaxEdits
    <3>1. edits \in 0 .. MaxEdits /\ edits < MaxEdits /\ edits' = edits + 1
      BY DEF EditConfigMap, TypeOK
    <3> QED BY <3>1, ConfigsAssumption
  <2>3. seen \subseteq seen' /\ seen' \subseteq SUBSET Addresses
    <3>1. /\ seen' = IF configMap'.readable THEN seen \cup {configMap'.listed} ELSE seen
          /\ seen \subseteq SUBSET Addresses
      BY DEF EditConfigMap, TypeOK
    <3> QED BY <2>1, <3>1
  <2> QED BY <2>1, <2>2, <2>3
<1>3. TypeOK'
  BY <1>1, <1>2 DEF TypeOK
<1>4. Unread' /\ Preparing'
  BY <1>1 DEF Unread, Preparing, Taken, Imported
<1>5. Served'
  BY <1>1 DEF Served, Credential, Precedence, VaultK8sAuth
<1>6. Listed' /\ Cached'
  BY <1>1, <1>2 DEF Listed, Cached, WithLogin
<1>7. Read'
  BY DEF EditConfigMap, Read
<1> QED BY <1>3, <1>4, <1>5, <1>6, <1>7

-----------------------------------------------------------------------------
(* Preparing the credentials.                                              *)

\* What the steps of the build leave alone.
Fixed == UNCHANGED <<config, configMap, edits, seen>>

\* The build fails before anything was served.
LEMMA FailKeeps ==
    ASSUME KeyInv, Fixed, pc # "login", pc' = "failed",
           UNCHANGED <<unread, cred, loginPaths, tokens, todo, file, untried, request,
                       used, asked, received>>
    PROVE  KeyInv'
<1>1. TypeOK'
  BY DEF KeyInv, Fixed, TypeOK
<1>2. Unread' /\ Preparing' /\ Cached' /\ Listed' /\ Read'
  BY DEF KeyInv, Fixed, Unread, Imported, Preparing, Cached, Listed, Read
<1>3. Served'
  BY DEF KeyInv, Fixed, Served, Precedence, VaultK8sAuth
<1> QED BY <1>1, <1>2, <1>3 DEF KeyInv

\* One more entry is imported.
LEMMA ImportKeeps ==
    ASSUME KeyInv, Fixed, NEW k \in Kinds, ImportEntry(k)
    PROVE  KeyInv'
<1>0. /\ pc = "import" /\ k \in unread
      /\ unread' = unread \ {k}
      /\ cred' = [cred EXCEPT ![k] = IF config.entries[k] = "good" THEN "static" ELSE @]
      /\ UNCHANGED <<pc, loginPaths, tokens, todo, file, untried, request, used, asked,
                     received>>
  BY DEF ImportEntry, Importing
<1>1. TypeOK'
  BY <1>0 DEF KeyInv, Fixed, TypeOK
<1>2. ASSUME NEW j \in Kinds
      PROVE  cred'[j] = IF Taken(j) /\ j \notin unread' THEN "static" ELSE "none"
  <2>1. cred[j] = IF Taken(j) /\ j \notin unread THEN "static" ELSE "none"
    BY <1>0 DEF KeyInv, Preparing
  <2>2. cred \in [Kinds -> {"none", "static", "lazy", "annotations", "configMap"}]
    BY DEF KeyInv, TypeOK
  <2>3. CASE j = k
    <3>1. k \in Imported(config)
      BY <1>0 DEF KeyInv, Unread
    <3> QED BY <1>0, <2>1, <2>2, <2>3, <3>1 DEF Taken
  <2> QED BY <1>0, <2>1, <2>2, <2>3
<1>3. Preparing'
  <2>1. \A j \in Kinds : Taken(j)' = Taken(j)
    BY DEF Fixed, Taken, Imported
  <2> QED BY <1>0, <1>2, <2>1 DEF KeyInv, Preparing
<1>4. Served' /\ Cached' /\ Read'
  BY <1>0 DEF KeyInv, Served, Cached, Preparing, Fixed, Read
<1>5. Listed'
  BY <1>0 DEF KeyInv, Listed, Preparing, Fixed
<1>6. Unread'
  BY <1>0 DEF KeyInv, Unread, Fixed, Imported
<1> QED BY <1>1, <1>3, <1>4, <1>5, <1>6 DEF KeyInv

\* All entries are imported.
LEMMA ImportDoneKeeps == ASSUME KeyInv, Fixed, ImportDone PROVE KeyInv'
<1>0. /\ pc = "import" /\ unread = {} /\ pc' = "auth"
      /\ UNCHANGED <<unread, cred, loginPaths, tokens, todo, file, untried, request, used,
                     asked, received>>
  BY DEF ImportDone, Importing
<1>1. TypeOK'
  BY <1>0 DEF KeyInv, Fixed, TypeOK
<1>2. Unread' /\ Preparing' /\ Cached' /\ Listed' /\ Read'
  BY <1>0 DEF KeyInv, Fixed, Unread, Taken, Imported, Preparing, Cached, Listed, Read
<1>3. Served'
  BY <1>0 DEF KeyInv, Preparing, Served
<1> QED BY <1>1, <1>2, <1>3 DEF KeyInv

\* The entries that are taken are the ones that go before the ServiceAccount.
LEMMA TakenFirst ==
    ASSUME KeyInv, NEW k \in Kinds
    PROVE  Precedence(k) = IF Taken(k) THEN "static"
                           ELSE CASE k \in Clouds -> "lazy"
                                  [] k = "vault" /\ VaultK8sAuth(config) # "none" ->
                                        VaultK8sAuth(config)
                                  [] OTHER -> "default"
<1>1. Taken(k) <=> /\ config.entries[k] = "good"
                   /\ config.secretRef = "named" \/ (config.secretRef = "global" /\ k = "age")
  BY DEF Taken, Imported
<1> QED BY <1>1 DEF Precedence

\* SetAuthOptions completes the credentials in the order of precedence.
LEMMA SetAuthOptionsKeeps == ASSUME KeyInv, Fixed, SetAuthOptions PROVE KeyInv'
<1>0. /\ pc = "auth" /\ pc' = "serve"
      /\ cred' = [k \in Kinds |->
                    CASE cred[k] = "none" /\ k \in Clouds -> "lazy"
                      [] cred[k] = "none" /\ k = "vault" -> VaultK8sAuth(config)
                      [] OTHER -> cred[k]]
      /\ UNCHANGED <<unread, loginPaths, tokens, todo, file, untried, request, used, asked,
                     received>>
  BY DEF SetAuthOptions
<1>a. /\ used = {} /\ tokens = {} /\ loginPaths = {}
      /\ \A k \in Kinds : cred[k] = IF Taken(k) THEN "static" ELSE "none"
  BY <1>0 DEF KeyInv, Preparing
<1>b. VaultK8sAuth(config) \in {"annotations", "configMap", "none"}
  BY DEF VaultK8sAuth
<1>1. TypeOK'
  <2>1. cred' \in [Kinds -> {"none", "static", "lazy", "annotations", "configMap"}]
    BY <1>0, <1>b DEF KeyInv, TypeOK
  <2> QED BY <1>0, <2>1 DEF KeyInv, Fixed, TypeOK
<1>2. ASSUME NEW k \in Kinds
      PROVE  Credential(k)' = Precedence(k)
  <2>1. CASE Taken(k)
    BY <1>0, <1>a, <2>1, TakenFirst DEF Credential
  <2>2. CASE ~Taken(k) /\ k \in Clouds
    <3>1. k # "vault"
      BY <2>2 DEF Clouds
    <3>2. cred'[k] = "lazy"
      BY <1>0, <1>a, <2>2, <3>1
    <3>3. Precedence(k) = "lazy"
      BY <2>2, <3>1, TakenFirst
    <3> QED BY <3>2, <3>3 DEF Credential
  <2>3. CASE ~Taken(k) /\ k = "vault"
    <3>1. k \notin Clouds
      BY <2>3 DEF Clouds
    <3>2. cred'[k] = VaultK8sAuth(config)
      BY <1>0, <1>a, <2>3, <3>1
    <3> QED BY <1>b, <2>3, <3>1, <3>2, TakenFirst DEF Credential
  <2>4. CASE ~Taken(k) /\ k \notin Clouds /\ k # "vault"
    BY <1>0, <1>a, <2>4, TakenFirst DEF Credential
  <2> QED BY <2>1, <2>2, <2>3, <2>4
<1>3. Served'
  <2>1. \A k \in Kinds : Precedence(k)' = Precedence(k)
    BY DEF Fixed, Precedence, VaultK8sAuth
  <2> QED BY <1>0, <1>a, <1>2, <2>1 DEF Served
<1>4. Unread' /\ Preparing' /\ Cached' /\ Listed' /\ Read'
  BY <1>0, <1>a DEF KeyInv, Fixed, Unread, Imported, Preparing, Cached, Listed, Read
<1> QED BY <1>1, <1>3, <1>4 DEF KeyInv

-----------------------------------------------------------------------------
(* Serving requests.                                                       *)

\* A request that is answered with the credential that takes precedence, or
\* refused, leaves a file to go on with, and a history that is in order.
LEMMA RequestEnds ==
    ASSUME KeyInv, Fixed, pc \in {"serve", "login"}, NEW k \in Kinds, NEW key,
           Answer(k, Credential(k)) \/ Refuse(key)
    PROVE  /\ pc' \in {"serve", "done", "failed"}
           /\ todo' \subseteq Files /\ file' \in Files /\ untried' \subseteq MasterKey
           /\ used' \subseteq Kinds \X {"default", "static", "lazy", "annotations", "configMap"}
           /\ \A u \in used' : u[2] = Precedence(u[1])'
<1>0. /\ todo \subseteq Files /\ file \in Files /\ untried \subseteq MasterKey
      /\ used \subseteq Kinds \X {"default", "static", "lazy", "annotations", "configMap"}
      /\ cred \in [Kinds -> {"none", "static", "lazy", "annotations", "configMap"}]
      /\ \A u \in used : u[2] = Precedence(u[1])
      /\ Credential(k) = Precedence(k)
  BY DEF KeyInv, TypeOK, Served
<1>1. \A j : Precedence(j)' = Precedence(j)
  BY DEF Fixed, Precedence, VaultK8sAuth
<1>2. CASE Answer(k, Credential(k))
  <2>1. Credential(k) \in {"default", "static", "lazy", "annotations", "configMap"}
    BY <1>0 DEF Credential
  <2>2. /\ used' = used \cup {<<k, Credential(k)>>} /\ todo' = todo \ {file}
        /\ pc' \in {"serve", "done"}
    BY <1>2 DEF Answer
  <2>3. file' \in Files /\ untried' \subseteq MasterKey
    BY <1>0, <1>2, ConfigsAssumption DEF Answer
  <2>4. \A u \in used' : u[2] = Precedence(u[1])
    BY <1>0, <2>2
  <2> QED BY <1>0, <1>1, <2>1, <2>2, <2>3, <2>4
<1>3. CASE Refuse(key)
  BY <1>0, <1>1, <1>3 DEF Refuse
<1> QED BY <1>2, <1>3

\* A request that needs no login.
LEMMA ServeKeeps ==
    ASSUME KeyInv, Fixed, pc = "serve", NEW k \in Kinds, NEW key,
           Answer(k, Credential(k)) \/ Refuse(key),
           UNCHANGED <<unread, cred, loginPaths, tokens, request, asked, received>>
    PROVE  KeyInv'
<1>1. /\ pc' \in {"serve", "done", "failed"}
      /\ todo' \subseteq Files /\ file' \in Files /\ untried' \subseteq MasterKey
      /\ used' \subseteq Kinds \X {"default", "static", "lazy", "annotations", "configMap"}
      /\ \A u \in used' : u[2] = Precedence(u[1])'
  BY RequestEnds
<1>2. TypeOK'
  BY <1>1 DEF KeyInv, Fixed, TypeOK
<1>3. Served'
  <2>1. \A j \in Kinds : Credential(j)' = Precedence(j)'
    BY DEF KeyInv, Served, Fixed, Credential, Precedence, VaultK8sAuth
  <2> QED BY <1>1, <2>1 DEF Served
<1>4. Unread' /\ Preparing' /\ Listed' /\ Cached' /\ Read'
  BY <1>1 DEF KeyInv, Fixed, Unread, Imported, Preparing, Listed, Cached, Read
<1> QED BY <1>2, <1>3, <1>4 DEF KeyInv

\* A login begins: the ConfigMap has been read now, or before, or is not needed.
LEMMA BeginKeeps ==
    ASSUME KeyInv, Fixed, NEW a \in Addresses, LoadLoginPaths(a) \/ BeginLogin(a)
    PROVE  KeyInv'
<1>0. /\ pc = "serve" /\ pc' = "login" /\ request' = a /\ a \notin tokens /\ WithLogin
      /\ UNCHANGED <<unread, cred, tokens, todo, file, untried, used, asked, received>>
  BY DEF LoadLoginPaths, BeginLogin, WithLogin
<1>1. \/ loginPaths' = loginPaths
      \/ /\ loginPaths = {} /\ loginPaths' = {configMap.listed}
         /\ configMap.readable /\ cred["vault"] = "configMap"
  BY DEF LoadLoginPaths, BeginLogin
<1>2. configMap.readable => configMap.listed \in seen
  BY DEF KeyInv, Read
<1>3. seen \subseteq SUBSET Addresses
  BY DEF KeyInv, TypeOK
<1>4. TypeOK'
  <2>1. loginPaths' \subseteq SUBSET Addresses /\ Cardinality(loginPaths') <= 1
    <3>1. \A x : Cardinality({x}) = 1
      BY FS_Singleton
    <3>2. loginPaths \subseteq SUBSET Addresses /\ Cardinality(loginPaths) <= 1
      BY DEF KeyInv, TypeOK
    <3>3. CASE loginPaths' = loginPaths
      BY <3>2, <3>3
    <3>4. CASE loginPaths' = {configMap.listed} /\ configMap.readable
      BY <1>2, <1>3, <3>1, <3>4
    <3> QED BY <1>1, <3>3, <3>4
  <2> QED BY <1>0, <2>1, ConfigsAssumption DEF KeyInv, Fixed, TypeOK
<1>5. Served'
  BY <1>0 DEF KeyInv, Served, Fixed, Credential, Precedence, VaultK8sAuth
<1>6. Listed'
  BY <1>0, <1>1, <1>2 DEF KeyInv, Listed, Fixed
<1>7. Unread' /\ Preparing' /\ Cached' /\ Read'
  BY <1>0 DEF KeyInv, Fixed, Unread, Imported, Preparing, Cached, WithLogin, Read
<1> QED BY <1>4, <1>5, <1>6, <1>7 DEF KeyInv

\* A login fails before the server is asked.
LEMMA LoginFailsKeeps == ASSUME KeyInv, Fixed, LoginFails PROVE KeyInv'
<1>0. /\ pc = "login" /\ Refuse(VaultKey(request)) /\ request' = "none"
      /\ UNCHANGED <<unread, cred, loginPaths, tokens, asked, received>>
  BY DEF LoginFails
<1>1. /\ pc' \in {"serve", "done", "failed"}
      /\ todo' \subseteq Files /\ file' \in Files /\ untried' \subseteq MasterKey
      /\ used' \subseteq Kinds \X {"default", "static", "lazy", "annotations", "configMap"}
      /\ \A u \in used' : u[2] = Precedence(u[1])'
  BY <1>0, RequestEnds DEF Kinds
<1>2. TypeOK'
  BY <1>0, <1>1 DEF KeyInv, Fixed, TypeOK
<1>3. Served'
  <2>1. \A j \in Kinds : Credential(j)' = Precedence(j)'
    BY <1>0 DEF KeyInv, Served, Fixed, Credential, Precedence, VaultK8sAuth
  <2> QED BY <1>1, <2>1 DEF Served
<1>4. Unread' /\ Preparing' /\ Listed' /\ Cached' /\ Read'
  BY <1>0, <1>1 DEF KeyInv, Fixed, Unread, Imported, Preparing, Listed, Cached, Read
<1> QED BY <1>2, <1>3, <1>4 DEF KeyInv

\* The server is asked for a token.
LEMMA SendKeeps ==
    ASSUME KeyInv, Fixed, SendLogin, UNCHANGED <<cred, loginPaths>>
    PROVE  asked' \in [Addresses -> Nat] /\ Listed'
<1>1. request \in Addresses /\ asked \in [Addresses -> Nat]
  BY DEF SendLogin, KeyInv, Cached, TypeOK
<1>2. asked' \in [Addresses -> Nat]
  BY <1>1 DEF SendLogin
<1>3. Listed'
  <2>1. \A a \in Addresses : a # request => asked'[a] = asked[a]
    BY <1>1 DEF SendLogin
  <2>2. cred["vault"] = "configMap" => \E listed \in loginPaths : request \in listed
    BY DEF SendLogin, Trusted
  <2> QED BY <2>1, <2>2 DEF KeyInv, Listed, Fixed
<1> QED BY <1>2, <1>3

\* It answers with a token or not.
LEMMA LoginKeeps == ASSUME KeyInv, Fixed, Login \/ LoginUnanswered PROVE KeyInv'
<1>0. /\ pc = "login" /\ SendLogin /\ request' = "none"
      /\ Answer("vault", cred["vault"]) \/ Refuse(VaultKey(request))
      /\ UNCHANGED <<unread, cred, loginPaths>>
      /\ \/ tokens' = tokens \cup {request} /\ received' = received \cup {request}
         \/ tokens' = tokens /\ received' = received
  BY DEF Login, LoginUnanswered, SendLogin
<1>a. "vault" \in Kinds /\ cred["vault"] = Credential("vault")
  BY <1>0 DEF KeyInv, Cached, WithLogin, Credential, Kinds
<1>1. /\ pc' \in {"serve", "done", "failed"}
      /\ todo' \subseteq Files /\ file' \in Files /\ untried' \subseteq MasterKey
      /\ used' \subseteq Kinds \X {"default", "static", "lazy", "annotations", "configMap"}
      /\ \A u \in used' : u[2] = Precedence(u[1])'
  BY <1>0, <1>a, RequestEnds
<1>b. request \in Addresses
  BY <1>0 DEF KeyInv, Cached
<1>c. asked' \in [Addresses -> Nat] /\ Listed'
  BY <1>0, SendKeeps
<1>2. TypeOK'
  <2>1. tokens' \subseteq Addresses /\ received' \subseteq Addresses
    BY <1>0, <1>b DEF KeyInv, TypeOK
  <2> QED BY <1>0, <1>1, <1>c, <2>1 DEF KeyInv, Fixed, TypeOK
<1>3. Served'
  <2>1. \A j \in Kinds : Credential(j)' = Precedence(j)'
    BY <1>0 DEF KeyInv, Served, Fixed, Credential, Precedence, VaultK8sAuth
  <2> QED BY <1>1, <2>1 DEF Served
<1>4. Cached'
  BY <1>0, <1>1 DEF KeyInv, Cached
<1>5. Unread' /\ Preparing' /\ Read'
  BY <1>0, <1>1 DEF KeyInv, Fixed, Unread, Imported, Preparing, Read
<1> QED BY <1>2, <1>3, <1>4, <1>5, <1>c DEF KeyInv

-----------------------------------------------------------------------------

\* Every step keeps the invariant.
LEMMA NextKeyInv == ASSUME KeyInv, [Next]_vars PROVE KeyInv'
<1>1. CASE UNCHANGED vars
  <2>1. Fixed /\ UNCHANGED <<pc, unread, cred, loginPaths, tokens, todo, file, untried,
                             request, used, asked, received>>
    BY <1>1 DEF vars, buildVars, Fixed
  <2>2. TypeOK' /\ Unread' /\ Preparing'
    BY <2>1 DEF KeyInv, TypeOK, Fixed, Unread, Preparing, Taken, Imported
  <2>3. Served'
    BY <2>1 DEF KeyInv, Fixed, Served, Credential, Precedence, VaultK8sAuth
  <2>4. Listed' /\ Cached' /\ Read'
    BY <2>1 DEF KeyInv, Fixed, Listed, Cached, WithLogin, Read
  <2> QED BY <2>2, <2>3, <2>4 DEF KeyInv
<1>2. CASE EditConfigMap
  BY <1>2, EditKeeps
<1>3. CASE BuildStep /\ Fixed
  <2>1. CASE GetSecretFails \/ SetAuthOptionsFails \/ \E k \in Kinds : ImportFails(k)
    BY <1>3, <2>1, FailKeeps DEF GetSecretFails, SetAuthOptionsFails, ImportFails, Importing
  <2>2. CASE ImportDone
    BY <1>3, <2>2, ImportDoneKeeps
  <2>3. CASE SetAuthOptions
    BY <1>3, <2>3, SetAuthOptionsKeeps
  <2>4. CASE LoginFails
    BY <1>3, <2>4, LoginFailsKeeps
  <2>5. CASE Login \/ LoginUnanswered
    BY <1>3, <2>5, LoginKeeps
  <2>6. CASE \E k \in Kinds : ImportEntry(k)
    BY <1>3, <2>6, ImportKeeps
  <2>7. CASE \E key \in MasterKey : Decrypt(key) \/ NoCredential(key)
    <3>1. PICK key \in MasterKey : Decrypt(key) \/ NoCredential(key)
      BY <2>7
    <3>2. key.kind \in Kinds
      BY DEF MasterKey, Kinds
    <3>3. /\ pc = "serve"
          /\ Answer(key.kind, Credential(key.kind)) \/ Refuse(key)
          /\ UNCHANGED <<unread, cred, loginPaths, tokens, request, asked, received>>
      BY <3>1 DEF Decrypt, NoCredential
    <3> QED BY <1>3, <3>2, <3>3, ServeKeeps
  <2>8. CASE \E a \in Addresses : CachedToken(a) \/ LoadLoginPathsFails(a)
    <3>1. PICK a \in Addresses : CachedToken(a) \/ LoadLoginPathsFails(a)
      BY <2>8
    <3>2. "vault" \in Kinds
      BY DEF Kinds
    <3>3. /\ pc = "serve" /\ WithLogin
          /\ Answer("vault", cred["vault"]) \/ Refuse(VaultKey(a))
          /\ UNCHANGED <<unread, cred, loginPaths, tokens, request, asked, received>>
      BY <3>1 DEF CachedToken, LoadLoginPathsFails, WithLogin
    <3>4. cred["vault"] = Credential("vault")
      BY <3>3 DEF WithLogin, Credential
    <3>5. Answer("vault", Credential("vault")) \/ Refuse(VaultKey(a))
      BY <3>3, <3>4
    <3> QED BY <1>3, <3>2, <3>3, <3>5, ServeKeeps
  <2>9. CASE \E a \in Addresses : LoadLoginPaths(a) \/ BeginLogin(a)
    BY <1>3, <2>9, BeginKeeps
  <2> QED
    BY <1>3, <2>1, <2>2, <2>3, <2>4, <2>5, <2>6, <2>7, <2>8, <2>9 DEF BuildStep
<1> QED BY <1>1, <1>2, <1>3 DEF Next, Fixed

\* The inductive invariant about credentials, login paths and tokens holds.
THEOREM KeyInvariant == Spec => []KeyInv
BY InitKeyInv, NextKeyInv, PTL DEF Spec

\* Every variable of KeyService keeps its type; a login is in progress exactly
\* while there is a request for one.
THEOREM KeyTypes == Spec => []TypeOK
<1>1. KeyInv => TypeOK
  BY DEF KeyInv
<1> QED BY <1>1, KeyInvariant, PTL

\* Requests are served with the credential that takes precedence, for every
\* Secret, ServiceAccount and order of the imports.
THEOREM PrecedenceHolds == Spec => []PrecedenceIsKept
<1>1. KeyInv => PrecedenceIsKept
  BY DEF KeyInv, Served, PrecedenceIsKept
<1> QED BY <1>1, KeyInvariant, PTL

\* One reading of the ConfigMap decides about all logins of a build, granted or not,
\* however often it is edited.
THEOREM AllowlistIsRead == Spec => []OneAllowlist
<1>1. ASSUME KeyInv PROVE OneAllowlist
  <2> SUFFICES ASSUME cred["vault"] = "configMap",
                      NEW b \in Addresses, asked[b] > 0
               PROVE  \E listed \in seen :
                         {a \in Addresses : asked[a] > 0} \subseteq listed
    BY DEF OneAllowlist
  <2>1. \A a \in Addresses : asked[a] > 0 => \E listed \in loginPaths : a \in listed
    BY <1>1 DEF KeyInv, Listed
  <2>2. PICK listed \in seen : loginPaths = {listed}
    BY <1>1, <2>1 DEF KeyInv, Listed
  <2> QED BY <2>1, <2>2
<1> QED BY <1>1, KeyInvariant, PTL

\* Once a Vault server has answered a login with a token, the build does not ask it
\* again: only logins that were denied, or whose answer was lost, are repeated.
THEOREM LoginsAreCached == Spec => NoLoginAfterToken
<1>1. ASSUME KeyInv, [Next]_vars
      PROVE  [\A a \in Addresses : asked'[a] # asked[a] => a \notin received]_vars
  <2> SUFFICES ASSUME NEW a \in Addresses, asked'[a] # asked[a]
               PROVE  a \notin received
    OBVIOUS
  <2>1. SendLogin
    BY <1>1 DEF Next, BuildStep, vars, buildVars, GetSecretFails, ImportDone,
       SetAuthOptionsFails, SetAuthOptions, LoginFails, LoginUnanswered, Login,
       ImportEntry, ImportFails, Decrypt, NoCredential, CachedToken,
       LoadLoginPathsFails, LoadLoginPaths, BeginLogin, EditConfigMap
  <2>2. request \in Addresses \ tokens /\ received = tokens
        /\ asked \in [Addresses -> Nat]
    BY <1>1, <2>1 DEF SendLogin, KeyInv, Cached, TypeOK
  <2>3. a = request
    BY <2>1, <2>2 DEF SendLogin
  <2> QED BY <2>2, <2>3
<1> QED BY <1>1, KeyInvariant, PTL DEF Spec, NoLoginAfterToken
=============================================================================
