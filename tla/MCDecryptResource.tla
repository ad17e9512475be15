-------------------------- MODULE MCDecryptResource --------------------------
(***************************************************************************)
(* Small builds for DecryptResource: every kind of resource alone, and a   *)
(* Secret whose two entries hold every pair of contents, before or after a *)
(* resource that is fine.                                                  *)
(***************************************************************************)
EXTENDS DecryptResource

MCExtension == [key \in Keys |->
    CASE key = "app.yaml" -> "yaml" [] key = "auth" -> "dockerconfigjson" [] OTHER -> ""]

\* A binary file is JSON at rest.
MCSameMarker == {<<"binary", "json">>, <<"json", "binary">>}

MCConvertible == {<<"json", "yaml">>, <<"yaml", "json">>}

MCConfigs == Config

Plain == [state |-> "plain", format |-> "binary", regex |-> "none"]

MCContents ==
    {Plain, [Plain EXCEPT !.state = "malformed"],
     [Plain EXCEPT !.state = "quoting", !.format = "ini"],
     [Plain EXCEPT !.state = "locked", !.format = "json"]}
    \cup {[state |-> "encrypted", format |-> f, regex |-> "none"] :
             f \in {"binary", "json"}}
    \cup {[state |-> "encrypted", format |-> f, regex |-> "chosen"] :
             f \in {"json", "yaml"}}
    \cup {[state |-> "encrypted", format |-> "json", regex |-> "spared"],
          [state |-> "encrypted", format |-> "binary", regex |-> "idle"]}

ConfigMap ==
    [named |-> TRUE, apiVersion |-> "v1", kind |-> "ConfigMap", disabled |-> FALSE,
     sops |-> "none", values |-> "plain", comments |-> FALSE, tampered |-> FALSE,
     data |-> [key \in Keys |-> Plain], badVariables |-> FALSE]

\* Whole resources: not encrypted, encrypted, or with a remainder of .sops.
Wholes ==
    {[ConfigMap EXCEPT !.kind = k, !.apiVersion = v, !.disabled = d, !.sops = s[1],
                       !.values = s[2], !.comments = c, !.tampered = t] :
        k \in {"ConfigMap", "Secret"}, v \in {"v1", "example.com/v1"}, d \in BOOLEAN,
        s \in {<<"none", "plain">>, <<"empty", "plain">>, <<"empty", "encrypted">>,
               <<"mac", "encrypted">>, <<"mac", "locked">>},
        c \in BOOLEAN, t \in BOOLEAN}

Secrets ==
    {[ConfigMap EXCEPT !.kind = "Secret", !.disabled = d, !.data = data] :
        d \in BOOLEAN, data \in [Keys -> MCContents]}

Broken == {[ConfigMap EXCEPT !.named = FALSE], [ConfigMap EXCEPT !.badVariables = TRUE]}

MCInputs ==
    {<<r>> : r \in Wholes \cup Broken} \cup {<<ConfigMap, s>> : s \in Secrets}
    \cup {<<s, b>> : s \in Secrets, b \in Broken}
=============================================================================
