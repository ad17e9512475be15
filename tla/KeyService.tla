----------------------------- MODULE KeyService -----------------------------
(***************************************************************************)
(* The credentials of one Decryptor: ImportKeys, SetAuthOptions and the    *)
(* local SOPS key service that answers the requests of one build.  The     *)
(* build is sequential; the ConfigMap that lists the trusted Vault servers *)
(* may be edited at any moment of it.                                      *)
(***************************************************************************)
EXTENDS Integers, FiniteSets

CONSTANTS
    Addresses,  \* addresses of Vault servers
    Files,      \* encrypted files and resources of the build
    Keys,       \* master keys of each file: [Files -> SUBSET MasterKey]
    Configs,    \* configurations a build may start with
    MaxEdits    \* edits of the ConfigMap during the build

Clouds == {"aws", "azure", "gcp"}
Kinds == {"age", "pgp", "vault"} \cup Clouds

\* A master key of the SOPS metadata; only Vault keys have an address.
MasterKey ==
    [kind : Kinds \ {"vault"}, address : {"none"}] \cup [kind : {"vault"}, address : Addresses]

\* secretRef: the Secret of .spec.decryption.secretRef, else the controller's
\*   age Secret, else none.
\* entries: for each kind, what the Secret holds under its extension or name.
\* account: the decryption ServiceAccount: there or not, its annotations valid
\*   or not, with a transit engine login path or not, and the clouds for which
\*   its annotations are invalid.
\* flag: is --sops-vault-configmap set?
Config ==
    [secretRef : {"named", "global", "none"}, secretFound : BOOLEAN,
     entries : [Kinds -> {"absent", "good", "bad", "blank"}],
     accountFound : BOOLEAN, valid : BOOLEAN, loginPath : BOOLEAN,
     invalid : SUBSET Clouds, flag : BOOLEAN]

ASSUME ConfigsAssumption ==
    /\ Configs \subseteq Config
    /\ \A c \in Configs : \A k \in Kinds :
          /\ k # "vault" => c.entries[k] # "blank"
          /\ k = "vault" => c.entries[k] # "bad"
    /\ Keys \in [Files -> SUBSET MasterKey]
    /\ \A f \in Files : Keys[f] # {}
    /\ "none" \notin Addresses
    /\ MaxEdits \in Nat

VARIABLES
    config,      \* what the build finds
    configMap,   \* the ConfigMap: can it be read, and the addresses it lists
    edits,
    pc,          \* "import", "auth", "serve", "login", "done" or "failed"
    unread,      \* entries of the Secret that are not imported yet
    cred,        \* for each kind: "none", "static", or how to obtain one
    loginPaths,  \* {}, or the addresses that loadVaultLoginPaths returned
    tokens,      \* addresses with a cached Vault token
    todo,        \* files that are not decrypted yet
    file,        \* the file being decrypted, if todo is not empty
    untried,     \* its keys that have not been asked for yet
    request,     \* the Vault address of a login in progress, or "none"
    used,        \* kinds and credentials that served requests
    asked,       \* number of calls of vaultLogin for each Vault server
    received,    \* servers that answered one of them with a token
    seen         \* readable contents of the ConfigMap during the build

buildVars == <<pc, unread, cred, loginPaths, tokens, todo, file, untried, request,
               used, asked, received>>
vars == <<config, configMap, edits, seen, buildVars>>

TypeOK ==
    /\ config \in Configs
    /\ configMap \in [readable : BOOLEAN, listed : SUBSET Addresses]
    /\ edits \in 0..MaxEdits
    /\ pc \in {"import", "auth", "serve", "login", "done", "failed"}
    /\ unread \subseteq Kinds
    /\ cred \in [Kinds -> {"none", "static", "lazy", "annotations", "configMap"}]
    /\ loginPaths \subseteq SUBSET Addresses
    /\ Cardinality(loginPaths) <= 1
    /\ tokens \subseteq Addresses
    /\ todo \subseteq Files
    /\ file \in Files
    /\ untried \subseteq MasterKey
    /\ request \in Addresses \cup {"none"}
    /\ (pc = "login") = (request # "none")
    /\ used \subseteq Kinds \X {"default", "static", "lazy", "annotations", "configMap"}
    /\ asked \in [Addresses -> Nat]
    /\ received \subseteq Addresses
    /\ seen \subseteq SUBSET Addresses

-----------------------------------------------------------------------------
(* ImportKeys.                                                             *)

\* The entries that are read: all of a named Secret, only the age identities of
\* the controller's.
Imported(c) ==
    CASE c.secretRef = "named"  -> {k \in Kinds : c.entries[k] # "absent"}
      [] c.secretRef = "global" -> {k \in {"age"} : c.entries[k] # "absent"}
      [] OTHER -> {}

GetSecretFails ==
    /\ pc = "import"
    /\ config.secretRef # "none"
    /\ ~config.secretFound
    /\ pc' = "failed"
    /\ UNCHANGED <<unread, cred, loginPaths, tokens, todo, file, untried, request, used,
                   asked, received>>

Importing == pc = "import" /\ (config.secretRef # "none" => config.secretFound)

\* Entries come in the order of a Go map.  A blank Vault token imports as none.
ImportEntry(k) ==
    /\ Importing
    /\ k \in unread
    /\ config.entries[k] # "bad"
    /\ unread' = unread \ {k}
    /\ cred' = [cred EXCEPT ![k] = IF config.entries[k] = "good" THEN "static" ELSE @]
    /\ UNCHANGED <<pc, loginPaths, tokens, todo, file, untried, request, used, asked,
                   received>>

ImportFails(k) ==
    /\ Importing
    /\ k \in unread
    /\ config.entries[k] = "bad"
    /\ pc' = "failed"
    /\ UNCHANGED <<unread, cred, loginPaths, tokens, todo, file, untried, request, used,
                   asked, received>>

ImportDone ==
    /\ Importing
    /\ unread = {}
    /\ pc' = "auth"
    /\ UNCHANGED <<unread, cred, loginPaths, tokens, todo, file, untried, request, used,
                   asked, received>>

-----------------------------------------------------------------------------
(* SetAuthOptions.                                                         *)

\* The annotations and the flag exclude each other; the cloud annotations are
\* not validated here.
BaseSpecValid(c) == c.valid /\ ~(c.loginPath /\ c.flag)

\* newVaultK8sAuthFunc.
VaultK8sAuth(c) ==
    CASE c.loginPath -> "annotations"
      [] ~c.loginPath /\ c.flag -> "configMap"
      [] OTHER -> "none"

SetAuthOptionsFails ==
    /\ pc = "auth"
    /\ ~(config.accountFound /\ BaseSpecValid(config))
    /\ pc' = "failed"
    /\ UNCHANGED <<unread, cred, loginPaths, tokens, todo, file, untried, request, used,
                   asked, received>>

SetAuthOptionsOverride ==   \* mutant: imported credentials are replaced
    /\ pc = "auth"
    /\ config.accountFound /\ BaseSpecValid(config)
    /\ cred' = [k \in Kinds |->
                  CASE k \in Clouds -> "lazy"
                    [] k = "vault" -> VaultK8sAuth(config)
                    [] OTHER -> cred[k]]
    /\ pc' = "serve"
    /\ UNCHANGED <<unread, loginPaths, tokens, todo, file, untried, request, used, asked,
                   received>>

SetAuthOptions ==
    /\ pc = "auth"
    /\ config.accountFound /\ BaseSpecValid(config)
    /\ cred' = [k \in Kinds |->
                  CASE cred[k] = "none" /\ k \in Clouds -> "lazy"
                    [] cred[k] = "none" /\ k = "vault" -> VaultK8sAuth(config)
                    [] OTHER -> cred[k]]
    /\ pc' = "serve"
    /\ UNCHANGED <<unread, loginPaths, tokens, todo, file, untried, request, used, asked,
                   received>>

-----------------------------------------------------------------------------
(* Server.Decrypt: one request per master key until the data key is found. *)

\* The request is answered with the credential: the file is decrypted and the
\* next one begins.
Answer(k, credential) ==
    /\ used' = used \cup {<<k, credential>>}
    /\ todo' = todo \ {file}
    /\ \/ /\ todo' = {}
          /\ pc' = "done"
          /\ UNCHANGED <<file, untried>>
       \/ /\ file' \in todo'
          /\ untried' = Keys[file']
          /\ pc' = "serve"

\* The request fails: SOPS asks for the other keys, if there are any.
Refuse(key) ==
    /\ untried' = untried \ {key}
    /\ pc' = IF untried' = {} THEN "failed" ELSE "serve"
    /\ UNCHANGED <<file, todo, used>>

\* Is there a credential to send the request with?
Usable(k) ==
    \/ k \in {"age", "pgp"} /\ cred[k] = "static"
    \/ k \in Clouds /\ (cred[k] = "lazy" => k \notin config.invalid)
    \/ k = "vault" /\ cred[k] \in {"static", "none"}

\* The credential: a Vault request without one goes to the default server.
Credential(k) == IF cred[k] = "none" THEN "default" ELSE cred[k]

\* Requests that need no login.  The key service may fail a valid request too.
Decrypt(key) ==
    /\ pc = "serve"
    /\ key \in untried
    /\ Usable(key.kind)
    /\ Answer(key.kind, Credential(key.kind)) \/ Refuse(key)
    /\ UNCHANGED <<unread, cred, loginPaths, tokens, request, asked, received>>

NoCredential(key) ==
    /\ pc = "serve"
    /\ key \in untried
    /\ ~Usable(key.kind)
    /\ key.kind # "vault"
    /\ Refuse(key)
    /\ UNCHANGED <<unread, cred, loginPaths, tokens, request, asked, received>>

-----------------------------------------------------------------------------
(* resolveVaultToken with the Kubernetes auth method.                      *)

VaultKey(a) == [kind |-> "vault", address |-> a]

WithLogin == cred["vault"] \in {"annotations", "configMap"}

CachedToken(a) ==
    /\ pc = "serve"
    /\ VaultKey(a) \in untried
    /\ WithLogin
    /\ a \in tokens
    /\ Answer("vault", cred["vault"]) \/ Refuse(VaultKey(a))
    /\ UNCHANGED <<unread, cred, loginPaths, tokens, request, asked, received>>

\* The ConfigMap cannot be read: loginPaths stays nil, and a later request
\* tries again.
LoadLoginPathsFails(a) ==
    /\ pc = "serve"
    /\ VaultKey(a) \in untried
    /\ cred["vault"] = "configMap" /\ a \notin tokens
    /\ loginPaths = {}
    /\ Refuse(VaultKey(a))
    /\ UNCHANGED <<unread, cred, loginPaths, tokens, request, asked, received>>

LoadLoginPathsAgain(a) ==   \* mutant: the ConfigMap is read for each request
    /\ pc = "serve"
    /\ VaultKey(a) \in untried
    /\ cred["vault"] = "configMap" /\ a \notin tokens
    /\ configMap.readable
    /\ loginPaths' = {configMap.listed}
    /\ pc' = "login"
    /\ request' = a
    /\ UNCHANGED <<unread, cred, tokens, todo, file, untried, used, asked, received>>

LoadLoginPaths(a) ==
    /\ pc = "serve"
    /\ VaultKey(a) \in untried
    /\ cred["vault"] = "configMap" /\ a \notin tokens
    /\ loginPaths = {}
    /\ configMap.readable
    /\ loginPaths' = {configMap.listed}
    /\ pc' = "login"
    /\ request' = a
    /\ UNCHANGED <<unread, cred, tokens, todo, file, untried, used, asked, received>>

\* Nothing to load: the login paths are known, or come from the annotations.
BeginLogin(a) ==
    /\ pc = "serve"
    /\ VaultKey(a) \in untried
    /\ WithLogin /\ a \notin tokens
    /\ cred["vault"] = "annotations" \/ loginPaths # {}
    /\ pc' = "login"
    /\ request' = a
    /\ UNCHANGED <<unread, cred, loginPaths, tokens, todo, file, untried, used, asked,
                   received>>

\* Is there a login path for the address?
Trusted(a) == cred["vault"] = "annotations" \/ \E listed \in loginPaths : a \in listed

LoginFailsUnreset ==   \* mutant: the request stays open
    /\ pc = "login"
    /\ Refuse(VaultKey(request))
    /\ UNCHANGED <<unread, cred, loginPaths, tokens, request, asked, received>>

\* No login path, no Kubernetes token, one without a usable subject, or no client
\* for the server: it is not asked, and nothing is cached.
LoginFails ==
    /\ pc = "login"
    /\ Refuse(VaultKey(request))
    /\ request' = "none"
    /\ UNCHANGED <<unread, cred, loginPaths, tokens, asked, received>>

\* vaultLogin sends the Kubernetes token to the server.
SendLogin ==
    /\ pc = "login"
    /\ Trusted(request)
    /\ asked' = [asked EXCEPT ![request] = @ + 1]
    /\ request' = "none"

\* The server denies the login, or its answer is lost or has no token in it, whether
\* or not it has issued one.  Nothing is cached: a later request logs in again.
LoginUnanswered ==
    /\ SendLogin
    /\ Refuse(VaultKey(request))
    /\ UNCHANGED <<unread, cred, loginPaths, tokens, received>>

LoginUncached ==   \* mutant: the token is not cached
    /\ SendLogin
    /\ received' = received \cup {request}
    /\ Answer("vault", cred["vault"]) \/ Refuse(VaultKey(request))
    /\ UNCHANGED <<unread, cred, loginPaths, tokens>>

\* The token is cached, then used for the request.
Login ==
    /\ SendLogin
    /\ received' = received \cup {request}
    /\ tokens' = tokens \cup {request}
    /\ Answer("vault", cred["vault"]) \/ Refuse(VaultKey(request))
    /\ UNCHANGED <<unread, cred, loginPaths>>

-----------------------------------------------------------------------------

\* The operator edits, breaks or repairs the ConfigMap.
EditConfigMap ==
    /\ pc \notin {"done", "failed"}
    /\ edits < MaxEdits
    /\ \E readable \in BOOLEAN, listed \in SUBSET Addresses :
          configMap' = [readable |-> readable, listed |-> listed]
    /\ configMap' # configMap
    /\ seen' = IF configMap'.readable THEN seen \cup {configMap'.listed} ELSE seen
    /\ edits' = edits + 1
    /\ UNCHANGED <<config, buildVars>>

Init ==
    /\ config \in Configs
    /\ configMap \in [readable : BOOLEAN, listed : SUBSET Addresses]
    /\ edits = 0
    /\ seen = IF configMap.readable THEN {configMap.listed} ELSE {}
    /\ pc = "import"
    /\ unread = Imported(config)
    /\ cred = [k \in Kinds |-> "none"]
    /\ loginPaths = {}
    /\ tokens = {}
    /\ todo = Files
    /\ file \in Files
    /\ untried = Keys[file]
    /\ request = "none"
    /\ used = {}
    /\ asked = [a \in Addresses |-> 0]
    /\ received = {}

BuildStep ==
    \/ GetSecretFails \/ ImportDone \/ SetAuthOptionsFails \/ SetAuthOptions
    \/ LoginFails \/ LoginUnanswered \/ Login
    \/ \E k \in Kinds : ImportEntry(k) \/ ImportFails(k)
    \/ \E key \in MasterKey : Decrypt(key) \/ NoCredential(key)
    \/ \E a \in Addresses :
          CachedToken(a) \/ LoadLoginPathsFails(a) \/ LoadLoginPaths(a) \/ BeginLogin(a)

Next ==
    \/ BuildStep /\ UNCHANGED <<config, configMap, edits, seen>>
    \/ EditConfigMap

Spec == Init /\ [][Next]_vars

-----------------------------------------------------------------------------
(* Properties.                                                             *)

\* What each kind of request is to be served with: a static credential of the named
\* Secret before the ServiceAccount, and the ServiceAccount before the environment of
\* the controller.
Precedence(k) ==
    IF config.entries[k] = "good"
       /\ (config.secretRef = "named" \/ (config.secretRef = "global" /\ k = "age"))
    THEN "static"
    ELSE CASE k \in Clouds -> "lazy"
           [] k = "vault" /\ VaultK8sAuth(config) # "none" -> VaultK8sAuth(config)
           [] OTHER -> "default"

\* Requests are served with the credential that takes precedence, and the
\* controller's own Secret never stands in for the identity of the object.
PrecedenceIsKept ==
    \A u \in used : u[2] = Precedence(u[1])

\* One reading of the ConfigMap decides for the whole build which Vault servers
\* are sent a ServiceAccount token, whether or not they grant the login, and it was
\* made during this build: edits between two requests are seen together or not at
\* all.
OneAllowlist ==
    cred["vault"] = "configMap" =>
        LET sent == {a \in Addresses : asked[a] > 0} IN
        sent # {} => \E listed \in seen : sent \subseteq listed

\* A build asks a Vault server for a token only while it has none from it: once a
\* login was answered with one, no other file and no failed request makes it log in
\* again.  A login that was denied, or whose answer was lost, is repeated, so that
\* the server may issue more than one.
NoLoginAfterToken ==
    [][\A a \in Addresses : asked'[a] # asked[a] => a \notin received]_vars
=============================================================================
