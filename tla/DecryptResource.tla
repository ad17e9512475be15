--------------------------- MODULE DecryptResource ---------------------------
(***************************************************************************)
(* The last part of a build: the loop of build that validates, decrypts    *)
(* and substitutes every resource, Decryptor.DecryptResource with its loop *)
(* over the data entries of a Secret, and the check with which apply       *)
(* refuses Secrets that are still encrypted.                               *)
(*                                                                         *)
(* Go iterates a map in any order.  The loops over the data of a Secret    *)
(* and over the markers of the SOPS formats do so here.                    *)
(***************************************************************************)
EXTENDS Integers, Sequences, FiniteSets

CONSTANTS
    Keys,         \* names of data entries
    Extension,    \* [Keys -> STRING]: what the name of an entry ends with
    SameMarker,   \* pairs of formats that leave the same marker when encrypted
    Convertible,  \* pairs <<f, g>>: a structured file in format f can be written
                  \* in format g
    Configs,      \* configurations of the Decryptor and of the build
    Inputs        \* sequences of resources that kustomize may build

Formats == {"binary", "dotenv", "ini", "json", "yaml"}

\* decryption: the provider of .spec.decryption; checkSopsMac: verify the MAC;
\* postBuild: is .spec.postBuild set?
Config ==
    [decryption : {"none", "sops", "other"}, checkSopsMac : BOOLEAN,
     postBuild : BOOLEAN]

\* A data entry: plain text, text that is no base64, plain text that quotes the
\* marker of a format, a file encrypted in a format, one that SOPS refuses (no
\* data key, a bad ciphertext), a decrypted file that is still inside the envelope
\* of the binary format, or a file with ciphertext and no SOPS metadata.  regex: has
\* its metadata a comment regex, and was a value encrypted (chosen) or not encrypted
\* (spared) for its comment, or no value at all (idle)?
Content ==
    [state : {"plain", "malformed", "quoting", "encrypted", "locked", "wrapped",
              "ciphertext"},
     format : Formats, regex : {"none", "idle", "chosen", "spared"}]

\* sops: has the resource a field .sops, and in it a MAC?  values: the values
\* that SOPS encrypted; comments: were they chosen by a comment regex?
\* tampered: does the MAC differ from the content?
Resource ==
    [named : BOOLEAN, apiVersion : STRING, kind : STRING, disabled : BOOLEAN,
     sops : {"none", "empty", "mac"}, values : {"plain", "encrypted", "locked"},
     comments : BOOLEAN, tampered : BOOLEAN, data : [Keys -> Content],
     badVariables : BOOLEAN]

ASSUME InputsAssumption ==
    /\ Extension \in [Keys -> STRING]
    /\ SameMarker \subseteq Formats \X Formats
    /\ \A f \in Formats : <<f, "json">> \in SameMarker => f \in {"binary", "json"}
    /\ Convertible \subseteq (Formats \ {"binary"}) \X Formats
    /\ Configs \subseteq Config
    /\ Inputs \subseteq Seq(Resource)
    /\ \A built \in Inputs : \A n \in DOMAIN built : \A key \in Keys :
          built[n].data[key].state # "ciphertext"

VARIABLES
    config,     \* configuration of this build
    input,      \* the resources as kustomize built them
    resources,  \* the resources of the resource map now
    i,          \* the resource the loop is at
    left,       \* entries of its data the loop has not seen
    dataMap,    \* the copy of its data that the loop changes
    pc          \* "check", "decrypt", "entries", "substitute", "apply",
                \* "applied" or "failed"

vars == <<config, input, resources, i, left, dataMap, pc>>

-----------------------------------------------------------------------------
(* SOPS.                                                                   *)

\* The format the name of an entry stands for; a name that says nothing is
\* taken for a binary file.
FormatForPath(key) ==
    CASE Extension[key] = "dockerconfigjson" -> "json"
      [] Extension[key] = "env" -> "dotenv"
      [] Extension[key] \in {"ini", "json", "yaml"} -> Extension[key]
      [] OTHER -> "binary"

\* The formats that detectFormatFromMarkerBytes may answer: those whose marker
\* the text contains.
DetectFormatFromMarkerBytes(content) ==
    IF content.state \in {"quoting", "encrypted", "locked"}
    THEN {f \in Formats : f = content.format \/ <<content.format, f>> \in SameMarker}
    ELSE {}

\* What becomes of the tree of a file when it is written in another format.  A
\* binary file is the single value "data" of its tree; a tree without such a
\* value cannot be written as a binary file.
EmitPlainFile(format, outputFormat) ==
    CASE format = outputFormat \/ <<format, outputFormat>> \in Convertible -> "plain"
      [] format = "binary" /\ outputFormat # "binary" -> "wrapped"
      [] OTHER -> "error"

\* A file that is JSON at rest has no comments, so that SOPS cannot tell what a
\* comment regex has chosen or spared.
WithoutComments(content) == content.format \in {"binary", "json"}

DecryptByDetectedFormat(content, inputFormat, outputFormat) ==   \* mutant: it decides
    LET emitted == EmitPlainFile(inputFormat, outputFormat) IN
    CASE content.state # "encrypted" \/ emitted = "error" -> "error"
      [] OTHER -> IF config.checkSopsMac /\ content.regex # "none" THEN "error" ELSE emitted

\* SopsDecryptWithFormat of an entry.  Its file was encrypted in content.format;
\* formats with the same marker have the same encrypted representation, so that
\* the store of the detected one loads it.  Text that only quotes a marker cannot be
\* loaded.  When JSON was detected and there is a comment regex, the values in an
\* envelope are decrypted, and the MAC cannot be verified.  Otherwise it is left to
\* tree.Decrypt: in a file without comments this skips what the regex chose, which
\* the MAC check notices, and chokes on what the regex spared.
SopsDecryptWithFormat(content, inputFormat, outputFormat) ==
    LET emitted == EmitPlainFile(content.format, outputFormat)
        envelopes == inputFormat = "json" /\ content.regex # "none"
        lost == ~envelopes /\ WithoutComments(content)
    IN  IF \/ content.state # "encrypted"
           \/ emitted = "error"
           \/ envelopes /\ config.checkSopsMac
           \/ lost /\ content.regex = "spared"
           \/ lost /\ content.regex = "chosen" /\ config.checkSopsMac
        THEN "error"
        ELSE IF lost /\ content.regex = "chosen" THEN "ciphertext" ELSE emitted

SopsDecryptJsonByComments(res) ==   \* mutant: values chosen by comments stay encrypted
    CASE res.values = "locked" -> "error"
      [] config.checkSopsMac /\ res.tampered -> "error"
      [] OTHER -> IF res.comments THEN res.values ELSE "plain"

\* SopsDecryptWithFormat of a whole resource, as JSON.  The build has dropped
\* the comments, so values that were chosen by a comment regex are recognised by
\* their envelope, and their MAC cannot be verified.
SopsDecryptJson(res) ==
    CASE res.values = "locked" -> "error"
      [] config.checkSopsMac /\ (res.comments \/ res.tampered) -> "error"
      [] OTHER -> "plain"

-----------------------------------------------------------------------------
(* build: the loop over the resources.                                     *)

Res == resources[i]

Fail == pc' = "failed" /\ UNCHANGED <<config, input, resources, i, left, dataMap>>

GoTo(next) == pc' = next /\ UNCHANGED <<config, input, resources, i, left, dataMap>>

\* A resource needs an apiVersion, a kind and a name.
RejectUnnamed ==
    /\ pc = "check"
    /\ i <= Len(resources)
    /\ ~Res.named
    /\ Fail

Check ==
    /\ pc = "check"
    /\ i <= Len(resources)
    /\ Res.named
    /\ GoTo(IF config.decryption # "none" THEN "decrypt" ELSE "substitute")

IsSOPSEncryptedResource(res) == res.sops = "mac"

\* Not for this provider, switched off by an annotation, or nothing to decrypt.
SkipResource ==
    /\ pc = "decrypt"
    /\ \/ Res.disabled
       \/ config.decryption # "sops"
       \/ ~IsSOPSEncryptedResource(Res) /\ Res.kind # "Secret"
    /\ GoTo("substitute")

Decrypting == pc = "decrypt" /\ ~Res.disabled /\ config.decryption = "sops"

DecryptWhole ==
    /\ Decrypting
    /\ IsSOPSEncryptedResource(Res)
    /\ SopsDecryptJson(Res) # "error"
    /\ resources' = [resources EXCEPT ![i].sops = "none",
                                      ![i].values = SopsDecryptJson(Res)]
    /\ pc' = "substitute"
    /\ UNCHANGED <<config, input, i, left, dataMap>>

DecryptWholeFails ==
    /\ Decrypting
    /\ IsSOPSEncryptedResource(Res)
    /\ SopsDecryptJson(Res) = "error"
    /\ Fail

StartEntries ==
    /\ Decrypting
    /\ ~IsSOPSEncryptedResource(Res)
    /\ Res.kind = "Secret"
    /\ dataMap' = Res.data
    /\ left' = Keys
    /\ pc' = "entries"
    /\ UNCHANGED <<config, input, resources, i>>

\* An entry that is no base64 is left to the API server; one without a marker
\* is plain text.
SkipEntry(key) ==
    /\ pc = "entries"
    /\ key \in left
    /\ DetectFormatFromMarkerBytes(dataMap[key]) = {}
    /\ left' = left \ {key}
    /\ UNCHANGED <<config, input, resources, i, dataMap, pc>>

DecryptEntry(key, format) ==
    /\ pc = "entries"
    /\ key \in left
    /\ format \in DetectFormatFromMarkerBytes(dataMap[key])
    /\ LET out == SopsDecryptWithFormat(dataMap[key], format, FormatForPath(key)) IN
       /\ out # "error"
       /\ dataMap' = [dataMap EXCEPT ![key].state = out]
    /\ left' = left \ {key}
    /\ UNCHANGED <<config, input, resources, i, pc>>

DecryptEntryFails(key, format) ==
    /\ pc = "entries"
    /\ key \in left
    /\ format \in DetectFormatFromMarkerBytes(dataMap[key])
    /\ SopsDecryptWithFormat(dataMap[key], format, FormatForPath(key)) = "error"
    /\ Fail

\* SetDataMap: the decrypted copy replaces the data of the Secret.
FinishEntries ==
    /\ pc = "entries"
    /\ left = {}
    /\ resources' = [resources EXCEPT ![i].data = dataMap]
    /\ pc' = "substitute"
    /\ UNCHANGED <<config, input, i, left, dataMap>>

SubstituteVariables ==
    /\ pc = "substitute"
    /\ config.postBuild => ~Res.badVariables
    /\ i' = i + 1
    /\ pc' = "check"
    /\ UNCHANGED <<config, input, resources, left, dataMap>>

SubstituteFails ==
    /\ pc = "substitute"
    /\ config.postBuild
    /\ Res.badVariables
    /\ Fail

Built ==
    /\ pc = "check"
    /\ i > Len(resources)
    /\ GoTo("apply")

-----------------------------------------------------------------------------
(* apply: nothing encrypted goes to the cluster by mistake.                *)

IsEncryptedSecret(res) ==
    res.kind = "Secret" /\ res.apiVersion = "v1" /\ res.sops # "none"

Refused == \E n \in DOMAIN resources :
              IsEncryptedSecret(resources[n]) /\ ~resources[n].disabled

RefuseEncryptedSecret ==
    /\ pc = "apply"
    /\ Refused
    /\ Fail

Apply ==
    /\ pc = "apply"
    /\ ~Refused
    /\ GoTo("applied")

-----------------------------------------------------------------------------

Init ==
    /\ config \in Configs
    /\ input \in Inputs
    /\ resources = input
    /\ i = 1
    /\ left = {}
    /\ dataMap = [key \in Keys |->
                    [state |-> "plain", format |-> "binary", regex |-> "none"]]
    /\ pc = "check"

Next ==
    \/ RejectUnnamed \/ Check \/ SkipResource \/ DecryptWhole \/ DecryptWholeFails
    \/ StartEntries \/ FinishEntries \/ SubstituteVariables \/ SubstituteFails
    \/ \E key \in Keys :
          \/ SkipEntry(key)
          \/ \E f \in Formats : DecryptEntry(key, f) \/ DecryptEntryFails(key, f)
    \/ Built \/ RefuseEncryptedSecret \/ Apply

Spec == Init /\ [][Next]_vars

-----------------------------------------------------------------------------
(* Properties.                                                             *)

Decrypts(res) == config.decryption = "sops" /\ ~res.disabled

WholeFails(res) ==
    \/ res.values = "locked"
    \/ config.checkSopsMac /\ (res.comments \/ res.tampered)

\* Does SOPS, or the name of the entry, turn it into an error?
EntryFails(key, content) ==
    \/ content.state \in {"quoting", "locked"}
    \/ /\ content.state = "encrypted"
       /\ content.format \notin {"binary", FormatForPath(key)}
       /\ <<content.format, FormatForPath(key)>> \notin Convertible

EntriesFail(res) == \E key \in Keys : EntryFails(key, res.data[key])

\* The entries of JSON files with a comment regex, whose fate depends on which of the
\* two formats with their marker is detected: such an entry may be refused, or it
\* may keep the ciphertext of the values that the regex chose.
MayBeRefused(content) ==
    /\ content.state = "encrypted" /\ WithoutComments(content) /\ content.regex # "none"
    /\ content.regex = "spared" \/ config.checkSopsMac

MayStayEncrypted(content) ==
    /\ content.state = "encrypted" /\ WithoutComments(content)
    /\ content.regex = "chosen" /\ ~config.checkSopsMac

\* Is this a Secret whose entries are decrypted one by one?
ByEntry(res) == Decrypts(res) /\ res.sops # "mac" /\ res.kind = "Secret"

MayFail(res) == ByEntry(res) /\ \E key \in Keys : MayBeRefused(res.data[key])

\* Does the resource make the build or the apply fail?
Fails(res) ==
    \/ ~res.named
    \/ config.postBuild /\ res.badVariables
    \/ Decrypts(res) /\ res.sops = "mac" /\ WholeFails(res)
    \/ ByEntry(res) /\ EntriesFail(res)
    \/ /\ res.kind = "Secret" /\ res.apiVersion = "v1" /\ ~res.disabled
       /\ \/ res.sops = "empty"
          \/ res.sops = "mac" /\ ~Decrypts(res)

\* What may become of an entry: a binary file under the name of another format stays
\* in its envelope.
DecryptedEntry(key, content) ==
    IF content.state # "encrypted" THEN {content}
    ELSE {[content EXCEPT !.state =
              IF content.format = "binary" /\ FormatForPath(key) # "binary"
              THEN "wrapped" ELSE "plain"]}
         \cup IF MayStayEncrypted(content)
              THEN {[content EXCEPT !.state = "ciphertext"]} ELSE {}

\* Is out what may be applied for the resource?
Decrypted(res, out) ==
    IF Decrypts(res) /\ res.sops = "mac"
    THEN out = [res EXCEPT !.sops = "none", !.values = "plain"]
    ELSE IF ByEntry(res)
         THEN /\ out = [res EXCEPT !.data = out.data]
              /\ \A key \in Keys : out.data[key] \in DecryptedEntry(key, res.data[key])
         ELSE out = res

\* The result is a function of the input: whether the build succeeds, and what
\* it yields, depends neither on the order of the data entries nor on which of
\* the formats that share a marker detectFormatFromMarkerBytes meets first.  The
\* exception are entries in JSON that were encrypted with a comment regex: the build
\* may or may not fail for one with a spared value or, with the MAC check, for any
\* of them, and without the check one with a chosen value is decrypted or keeps its
\* ciphertext.
ResultIsDetermined ==
    /\ pc = "failed" => \E n \in DOMAIN input : Fails(input[n]) \/ MayFail(input[n])
    /\ pc = "applied" =>
          \A n \in DOMAIN input :
             ~Fails(input[n]) /\ Decrypted(input[n], resources[n])

\* Ciphertext does not reach the cluster by mistake: unless an annotation asks
\* for it, no encrypted Secret is applied, with or without .spec.decryption, and
\* with it no value and no entry that SOPS encrypted, but for entries in JSON with
\* values that a comment regex has chosen.
CiphertextNeverApplied ==
    pc = "applied" =>
        \A n \in DOMAIN resources :
            LET res == resources[n] IN
            /\ ~res.disabled /\ res.kind = "Secret" /\ res.apiVersion = "v1"
               => res.sops = "none"
            /\ Decrypts(res) /\ input[n].sops = "mac" => res.values = "plain"
            /\ ByEntry(input[n]) =>
                  \A key \in Keys :
                     \/ res.data[key].state \notin {"encrypted", "locked", "ciphertext"}
                     \/ MayStayEncrypted(input[n].data[key])
=============================================================================
