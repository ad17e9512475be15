---------------------------- MODULE MCKeyService ----------------------------
(***************************************************************************)
(* Builds of three files: two Vault servers and two clouds as alternatives *)
(* of each other, with Secrets and ServiceAccounts that hold some, wrong   *)
(* or no credentials.                                                      *)
(***************************************************************************)
EXTENDS KeyService

Key(kind) == [kind |-> kind, address |-> "none"]

MCKeys ==
    [f \in Files |->
        CASE f = "f1" -> {VaultKey("v1"), VaultKey("v2")}
          [] f = "f2" -> {VaultKey("v1"), Key("aws")}
          [] OTHER -> {VaultKey("v2"), Key("age"), Key("azure")}]

Plain ==
    [secretRef |-> "none", secretFound |-> TRUE,
     entries |-> [k \in Kinds |-> "absent"],
     accountFound |-> TRUE, valid |-> TRUE, loginPath |-> FALSE,
     invalid |-> {}, flag |-> FALSE]

\* Secrets with a good, a bad or a blank entry beside others.
Entries ==
    {[k \in Kinds |-> IF k = "vault" THEN vault ELSE IF k = "aws" THEN aws
                      ELSE IF k = "age" THEN "good" ELSE "absent"] :
        vault \in {"absent", "good", "blank"}, aws \in {"absent", "good", "bad"}}

MCConfigs ==
    {[Plain EXCEPT !.secretRef = ref, !.entries = e, !.flag = flag, !.loginPath = path,
                   !.invalid = {"aws"}] :
        ref \in {"named", "global"}, e \in Entries, flag \in BOOLEAN, path \in BOOLEAN}
    \cup {[Plain EXCEPT !.flag = TRUE], [Plain EXCEPT !.accountFound = FALSE],
          [Plain EXCEPT !.valid = FALSE],
          [Plain EXCEPT !.secretRef = "named", !.secretFound = FALSE]}
=============================================================================
