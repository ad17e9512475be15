------------------------ MODULE DecryptResourceProofs ------------------------
(***************************************************************************)
(* What is built is a function of what kustomize yields, and no ciphertext *)
(* is applied by mistake, for every set of keys, of formats that share a   *)
(* marker, and of resources.                                               *)
(***************************************************************************)
EXTENDS DecryptResource, SequenceTheorems, TLAPS

\* The resource passes its decryption, and with its variables the whole build.
PassesDecryption(res) ==
    /\ res.named
    /\ ~(Decrypts(res) /\ res.sops = "mac" /\ WholeFails(res))
    /\ ~(ByEntry(res) /\ EntriesFail(res))

Passes(res) == PassesDecryption(res) /\ (config.postBuild => ~res.badVariables)

TypeInv ==
    /\ config \in Config
    /\ input \in Inputs /\ input \in Seq(Resource)
    /\ resources \in Seq(Resource)
    /\ Len(resources) = Len(input)
    /\ i \in 1 .. Len(input) + 1
    /\ left \subseteq Keys
    /\ dataMap \in [Keys -> Content]
    /\ pc \in {"check", "decrypt", "entries", "substitute", "apply", "applied", "failed"}

\* What the loop has passed is decrypted, and what it has not reached is untouched.
Loop ==
    /\ pc \in {"decrypt", "entries", "substitute"} => i <= Len(input)
    /\ pc \in {"apply", "applied"} => i > Len(input)
    /\ \A n \in 1 .. Len(input) :
          /\ n < i => Decrypted(input[n], resources[n]) /\ Passes(input[n])
          /\ n > i => resources[n] = input[n]

\* The resource the loop is at.
Visit ==
    i <= Len(input) =>
       /\ pc \in {"check", "decrypt", "entries"} => resources[i] = input[i]
       /\ pc \in {"decrypt", "entries"} => input[i].named
       /\ pc = "substitute" =>
             Decrypted(input[i], resources[i]) /\ PassesDecryption(input[i])

\* The loop over the entries of a Secret: those it has seen are decrypted.
EntriesInv ==
    pc = "entries" =>
       /\ ByEntry(input[i])
       /\ \A key \in left : dataMap[key] = input[i].data[key]
       /\ \A key \in Keys \ left :
             /\ dataMap[key] \in DecryptedEntry(key, input[i].data[key])
             /\ ~EntryFails(key, input[i].data[key])

\* A failure has its reason, and what is applied was not refused.
Blamed == \E n \in DOMAIN input : Fails(input[n]) \/ MayFail(input[n])

Outcome == (pc = "failed" => Blamed) /\ (pc = "applied" => ~Refused)

BuildInv == TypeInv /\ Loop /\ Visit /\ EntriesInv /\ Outcome

-----------------------------------------------------------------------------
(* What decryption yields.                                                 *)

\* The name of an entry stands for a format.
LEMMA FormatTyped == ASSUME NEW key \in Keys PROVE FormatForPath(key) \in Formats
BY DEF FormatForPath, Formats

\* What an entry may become is an entry.
LEMMA EntryTyped ==
    ASSUME NEW key, NEW c \in Content, NEW d \in DecryptedEntry(key, c)
    PROVE  d \in Content
BY DEF DecryptedEntry, Content

\* Decryption leaves alone what the other checks look at.
LEMMA DecryptedKeeps ==
    ASSUME NEW res \in Resource, NEW out, Decrypted(res, out)
    PROVE  /\ out.badVariables = res.badVariables
           /\ out.kind = res.kind
           /\ out.apiVersion = res.apiVersion
           /\ out.disabled = res.disabled
<1>1. \/ out = [res EXCEPT !.sops = "none", !.values = "plain"]
      \/ out = [res EXCEPT !.data = out.data]
      \/ out = res
  BY DEF Decrypted
<1> QED BY <1>1 DEF Resource

\* An entry without a marker is what it was; text that has none cannot fail.
LEMMA UnmarkedEntry ==
    ASSUME NEW key \in Keys, NEW c \in Content, DetectFormatFromMarkerBytes(c) = {}
    PROVE  ~EntryFails(key, c) /\ c \in DecryptedEntry(key, c)
<1>1. c.state \notin {"quoting", "encrypted", "locked"}
  BY DEF DetectFormatFromMarkerBytes, Content
<1> QED BY <1>1 DEF EntryFails, DecryptedEntry

\* An entry that SOPS decrypts: in whatever format it was detected, what is
\* written depends on the format it was encrypted in and on its name, unless it
\* lost the comments that its regex needs.
LEMMA MarkedEntry ==
    ASSUME NEW key \in Keys, NEW c \in Content, NEW f,
           SopsDecryptWithFormat(c, f, FormatForPath(key)) # "error"
    PROVE  /\ ~EntryFails(key, c)
           /\ [c EXCEPT !.state = SopsDecryptWithFormat(c, f, FormatForPath(key))]
                 \in DecryptedEntry(key, c)
<1> DEFINE out == SopsDecryptWithFormat(c, f, FormatForPath(key))
           emitted == EmitPlainFile(c.format, FormatForPath(key))
<1>0. FormatForPath(key) \in Formats
  BY FormatTyped
<1>1. /\ c.state = "encrypted" /\ emitted # "error"
      /\ out = emitted \/ (out = "ciphertext" /\ MayStayEncrypted(c))
  BY DEF SopsDecryptWithFormat, MayStayEncrypted
<1>2. emitted =
         IF c.format = "binary" /\ FormatForPath(key) # "binary" THEN "wrapped" ELSE "plain"
  <2>1. CASE c.format = "binary"
    <3>1. <<c.format, FormatForPath(key)>> \notin Convertible
      BY <2>1, InputsAssumption
    <3> QED BY <2>1, <3>1 DEF EmitPlainFile
  <2>2. CASE c.format # "binary"
    BY <1>1, <2>2 DEF EmitPlainFile
  <2> QED BY <2>1, <2>2
<1>3. ~EntryFails(key, c)
  BY <1>1 DEF EmitPlainFile, EntryFails
<1> HIDE DEF out, emitted
<1>4. [c EXCEPT !.state = out] \in DecryptedEntry(key, c)
  BY <1>1, <1>2 DEF DecryptedEntry
<1> QED BY <1>3, <1>4 DEF out

\* An entry that SOPS refuses, or of which it cannot tell what the regex spared.
LEMMA RefusedEntry ==
    ASSUME NEW key \in Keys, NEW c \in Content, NEW f \in DetectFormatFromMarkerBytes(c),
           SopsDecryptWithFormat(c, f, FormatForPath(key)) = "error"
    PROVE  EntryFails(key, c) \/ MayBeRefused(c)
<1>1. c.state \in {"quoting", "encrypted", "locked"}
  BY DEF DetectFormatFromMarkerBytes
<1>2. CASE c.state = "encrypted" /\ ~MayBeRefused(c)
  <2>0. c.regex \in {"none", "idle", "chosen", "spared"} /\ c.format \in Formats
    BY DEF Content
  <2>1. f = "json" => WithoutComments(c)
    BY <1>2, <2>0, InputsAssumption DEF DetectFormatFromMarkerBytes, WithoutComments
  <2>2. EmitPlainFile(c.format, FormatForPath(key)) = "error"
    BY <1>2, <2>0, <2>1 DEF SopsDecryptWithFormat, MayBeRefused, EmitPlainFile
  <2> QED BY <1>2, <2>2 DEF EmitPlainFile, EntryFails
<1> QED BY <1>1, <1>2 DEF EntryFails

\* A resource that is decrypted as a whole.
LEMMA WholeResource ==
    ASSUME NEW res, Decrypts(res), res.sops = "mac"
    PROVE  /\ SopsDecryptJson(res) = "error" <=> WholeFails(res)
           /\ SopsDecryptJson(res) # "error" => SopsDecryptJson(res) = "plain"
           /\ Decrypted(res, [res EXCEPT !.sops = "none", !.values = "plain"])
BY DEF SopsDecryptJson, WholeFails, Decrypted

-----------------------------------------------------------------------------
(* The steps of a build.                                                   *)

\* No step changes the configuration or the input, and so what becomes of them.
LEMMA SameBuild ==
    ASSUME config' = config, input' = input
    PROVE  /\ \A n : /\ Decrypts(input[n])' <=> Decrypts(input[n])
                     /\ ByEntry(input[n])' <=> ByEntry(input[n])
                     /\ \A key : DecryptedEntry(key, input[n].data[key])'
                                   = DecryptedEntry(key, input[n].data[key])
                     /\ PassesDecryption(input[n])' <=> PassesDecryption(input[n])
                     /\ Passes(input[n])' <=> Passes(input[n])
           /\ Blamed' <=> Blamed
<1> USE DEF Decrypts, ByEntry, WholeFails, EntriesFail, EntryFails, MayBeRefused,
            WithoutComments, FormatForPath
<1>1. \A n : /\ Decrypts(input[n])' <=> Decrypts(input[n])
             /\ ByEntry(input[n])' <=> ByEntry(input[n])
  OBVIOUS
<1>2. \A n, key : DecryptedEntry(key, input[n].data[key])'
                     = DecryptedEntry(key, input[n].data[key])
  BY DEF DecryptedEntry, MayStayEncrypted
<1>3. \A n : /\ PassesDecryption(input[n])' <=> PassesDecryption(input[n])
             /\ Passes(input[n])' <=> Passes(input[n])
  BY DEF PassesDecryption, Passes
<1>4. Blamed' <=> Blamed
  BY DEF Blamed, Fails, MayFail
<1> QED BY <1>1, <1>2, <1>3, <1>4

\* What is applied for a resource stays the same, too.
LEMMA SameResult ==
    ASSUME config' = config, input' = input, NEW n, resources'[n] = resources[n]
    PROVE  Decrypted(input[n], resources[n])' <=> Decrypted(input[n], resources[n])
BY DEF Decrypted, Decrypts, ByEntry, DecryptedEntry, MayStayEncrypted, WithoutComments,
       FormatForPath

\* A build that fails for a reason.
LEMMA FailStep ==
    ASSUME BuildInv, Fail, Blamed
    PROVE  BuildInv'
<1> USE DEF Fail
<1>1. TypeInv'
  BY DEF BuildInv, TypeInv
<1>2. Loop'
  BY SameBuild, SameResult DEF BuildInv, Loop
<1>3. Visit' /\ EntriesInv'
  BY DEF Visit, EntriesInv
<1>4. Outcome'
  BY SameBuild DEF Outcome
<1> QED BY <1>1, <1>2, <1>3, <1>4 DEF BuildInv

\* The resource the loop is at, before it is decrypted.
LEMMA AtResource ==
    ASSUME BuildInv, i <= Len(input)
    PROVE  /\ i \in DOMAIN input /\ i \in DOMAIN resources
           /\ input[i] \in Resource /\ resources[i] \in Resource
           /\ pc \in {"check", "decrypt", "entries"} => Res = input[i]
<1>1. i \in 1 .. Len(input) /\ Len(resources) = Len(input)
  BY DEF BuildInv, TypeInv
<1>2. i \in DOMAIN input /\ i \in DOMAIN resources
  BY <1>1, LenProperties DEF BuildInv, TypeInv
<1>3. input[i] \in Resource /\ resources[i] \in Resource
  BY <1>1, ElementOfSeq DEF BuildInv, TypeInv
<1> QED BY <1>2, <1>3 DEF BuildInv, Visit, Res

\* The resource the loop is at while it is decrypted or substituted.
LEMMA InLoop ==
    ASSUME BuildInv, pc \in {"decrypt", "entries", "substitute"}
    PROVE  i <= Len(input)
BY DEF BuildInv, Loop

\* A check that refuses the resource the loop is at, or entries of it, has its
\* reason in the input.
LEMMA BuildFails ==
    ASSUME BuildInv,
           \/ RejectUnnamed \/ DecryptWholeFails \/ SubstituteFails
           \/ \E key \in Keys, f \in Formats : DecryptEntryFails(key, f)
    PROVE  BuildInv'
<1>1. CASE RejectUnnamed
  <2>1. i <= Len(input)
    BY <1>1 DEF BuildInv, TypeInv, RejectUnnamed
  <2>2. i \in DOMAIN input /\ Fails(input[i])
    BY <1>1, <2>1, AtResource DEF RejectUnnamed, Fails
  <2> QED BY <1>1, <2>2, FailStep DEF RejectUnnamed, Blamed
<1>2. CASE DecryptWholeFails
  <2>1. i \in DOMAIN input /\ Res = input[i]
    BY <1>2, InLoop, AtResource DEF DecryptWholeFails, Decrypting
  <2>2. Decrypts(input[i]) /\ input[i].sops = "mac" /\ WholeFails(input[i])
    BY <1>2, <2>1, WholeResource
       DEF DecryptWholeFails, Decrypting, Decrypts, IsSOPSEncryptedResource
  <2>3. Blamed
    BY <2>1, <2>2 DEF Blamed, Fails
  <2> QED BY <1>2, <2>3, FailStep DEF DecryptWholeFails
<1>3. CASE SubstituteFails
  <2>1. i <= Len(input)
    BY <1>3, InLoop DEF SubstituteFails
  <2>2. i \in DOMAIN input /\ input[i] \in Resource /\ Decrypted(input[i], Res)
    BY <1>3, <2>1, AtResource DEF SubstituteFails, BuildInv, Visit, Res
  <2>3. Blamed
    BY <1>3, <2>2, DecryptedKeeps DEF SubstituteFails, Blamed, Fails
  <2> QED BY <1>3, <2>3, FailStep DEF SubstituteFails
<1>4. CASE \E key \in Keys, f \in Formats : DecryptEntryFails(key, f)
  <2>1. PICK key \in Keys, f \in Formats : DecryptEntryFails(key, f)
    BY <1>4
  <2>2. i \in DOMAIN input /\ input[i] \in Resource
    BY <2>1, InLoop, AtResource DEF DecryptEntryFails
  <2> DEFINE c == input[i].data[key]
  <2>3. c \in Content /\ dataMap[key] = c
    BY <2>1, <2>2 DEF DecryptEntryFails, BuildInv, EntriesInv, Resource
  <2>4. EntryFails(key, c) \/ MayBeRefused(c)
    <3> HIDE DEF c
    <3> QED BY <2>1, <2>3, RefusedEntry DEF DecryptEntryFails
  <2>5. ByEntry(input[i])
    BY <2>1 DEF DecryptEntryFails, BuildInv, EntriesInv
  <2>6. Fails(input[i]) \/ MayFail(input[i])
    BY <2>4, <2>5 DEF Fails, MayFail, EntriesFail
  <2> QED BY <2>1, <2>2, <2>6, FailStep DEF DecryptEntryFails, Blamed
<1> QED BY <1>1, <1>2, <1>3, <1>4

\* A decrypted Secret that still has a field .sops was one whose decryption the
\* configuration does not ask for.
LEMMA RefusalIsBlamed ==
    ASSUME BuildInv, RefuseEncryptedSecret
    PROVE  BuildInv'
<1>1. PICK n \in DOMAIN resources :
         IsEncryptedSecret(resources[n]) /\ ~resources[n].disabled
  BY DEF RefuseEncryptedSecret, Refused
<1>2. n \in 1 .. Len(input) /\ n \in DOMAIN input /\ n < i
  <2>1. n \in 1 .. Len(input) /\ n \in DOMAIN input
    BY LenProperties DEF BuildInv, TypeInv
  <2> QED BY <2>1 DEF BuildInv, TypeInv, Loop, RefuseEncryptedSecret
<1>3. Decrypted(input[n], resources[n]) /\ input[n] \in Resource
  BY <1>2, ElementOfSeq DEF BuildInv, TypeInv, Loop
<1>4. Fails(input[n])
  <2>1. input[n].kind = "Secret" /\ input[n].apiVersion = "v1" /\ ~input[n].disabled
    BY <1>1, <1>3, DecryptedKeeps DEF IsEncryptedSecret
  <2>2. input[n].sops = "empty" \/ (input[n].sops = "mac" /\ ~Decrypts(input[n]))
    BY <1>1, <1>3 DEF IsEncryptedSecret, Decrypted, ByEntry, Resource
  <2> QED BY <2>1, <2>2 DEF Fails
<1> QED BY <1>2, <1>4, FailStep DEF Blamed, RefuseEncryptedSecret

\* The steps that only move the loop on.
LEMMA MoveStep ==
    ASSUME BuildInv, Check \/ SkipResource \/ Built \/ Apply
    PROVE  BuildInv'
<1> USE DEF GoTo
<1>0. /\ UNCHANGED <<config, input, resources, i, left, dataMap>>
      /\ pc' \in {"decrypt", "substitute", "apply", "applied"}
  BY DEF Check, SkipResource, Built, Apply
<1>1. TypeInv'
  BY <1>0 DEF BuildInv, TypeInv
<1>2. Loop'
  <2>1. (pc' \in {"decrypt", "entries", "substitute"} => i <= Len(input))
        /\ (pc' \in {"apply", "applied"} => i > Len(input))
    BY DEF Check, SkipResource, Built, Apply, BuildInv, TypeInv, Loop
  <2> QED BY <1>0, <2>1, SameBuild, SameResult DEF BuildInv, Loop
<1>3. Visit'
  <2>1. CASE Check
    <3>1. /\ Res = input[i]
          /\ pc' = (IF config.decryption # "none" THEN "decrypt" ELSE "substitute")
      BY <2>1, AtResource DEF Check, BuildInv, TypeInv
    <3>2. input[i].named
      BY <2>1, <3>1 DEF Check
    <3>3. config.decryption = "none" =>
             Decrypted(input[i], input[i]) /\ PassesDecryption(input[i])
      BY <3>2 DEF Decrypted, PassesDecryption, Decrypts, ByEntry
    <3> QED BY <1>0, <3>1, <3>2, <3>3, SameBuild, SameResult DEF Visit, Res
  <2>2. CASE SkipResource
    <3>1. Res = input[i] /\ input[i].named /\ pc' = "substitute"
      BY <2>2, InLoop, AtResource DEF SkipResource, BuildInv, Visit
    <3>2. Decrypted(input[i], input[i]) /\ PassesDecryption(input[i])
      BY <2>2, <3>1
         DEF SkipResource, Decrypted, PassesDecryption, Decrypts, ByEntry,
             IsSOPSEncryptedResource
    <3> QED BY <1>0, <3>1, <3>2, SameBuild, SameResult DEF Visit, Res
  <2>3. CASE Built \/ Apply
    BY <2>3, <1>0 DEF Built, Apply, Visit
  <2> QED BY <2>1, <2>2, <2>3
<1>4. EntriesInv'
  BY <1>0 DEF EntriesInv
<1>5. Outcome'
  BY <1>0 DEF Outcome, Check, SkipResource, Built, Apply, Refused
<1> QED BY <1>1, <1>2, <1>3, <1>4, <1>5 DEF BuildInv

\* The loop over the entries of a Secret.
LEMMA EntryStep ==
    ASSUME BuildInv,
           \/ StartEntries
           \/ \E key \in Keys : SkipEntry(key) \/ \E f \in Formats : DecryptEntry(key, f)
    PROVE  BuildInv'
<1>0. /\ UNCHANGED <<config, input, resources, i>> /\ pc' = "entries"
      /\ pc \in {"decrypt", "entries"}
  BY DEF StartEntries, Decrypting, SkipEntry, DecryptEntry
<1>1. /\ i <= Len(input) /\ i \in DOMAIN input /\ input[i] \in Resource
      /\ resources[i] = input[i] /\ input[i].named
  BY <1>0, InLoop, AtResource DEF BuildInv, Visit, Res
<1>2. input[i].data \in [Keys -> Content]
  BY <1>1 DEF Resource
<1>3. (left \subseteq Keys /\ dataMap \in [Keys -> Content])' /\ EntriesInv'
  <2>1. CASE StartEntries
    BY <1>0, <1>1, <1>2, <2>1, SameBuild
       DEF StartEntries, Decrypting, EntriesInv, Decrypts, ByEntry,
           IsSOPSEncryptedResource, Res
  <2>2. ASSUME NEW key \in Keys,
               \/ SkipEntry(key)
               \/ \E f \in Formats : DecryptEntry(key, f)
        PROVE  (left \subseteq Keys /\ dataMap \in [Keys -> Content])' /\ EntriesInv'
    <3> DEFINE c == input[i].data[key]
    <3>1. /\ key \in left /\ left' = left \ {key} /\ left \subseteq Keys
          /\ dataMap \in [Keys -> Content] /\ pc = "entries" /\ dataMap[key] = c
          /\ c \in Content
      BY <2>2, <1>2 DEF SkipEntry, DecryptEntry, BuildInv, TypeInv, EntriesInv
    <3>2. PICK d \in DecryptedEntry(key, c) :
             ~EntryFails(key, c) /\ dataMap' = [dataMap EXCEPT ![key] = d]
      <4> HIDE DEF c
      <4>1. CASE SkipEntry(key)
        <5>1. DetectFormatFromMarkerBytes(c) = {}
          BY <3>1, <4>1 DEF SkipEntry
        <5>2. ~EntryFails(key, c) /\ c \in DecryptedEntry(key, c)
          BY <3>1, <5>1, UnmarkedEntry
        <5> QED BY <3>1, <4>1, <5>2 DEF SkipEntry
      <4>2. ASSUME NEW f \in Formats, DecryptEntry(key, f)
            PROVE  \E d \in DecryptedEntry(key, c) :
                      ~EntryFails(key, c) /\ dataMap' = [dataMap EXCEPT ![key] = d]
        <5>1. SopsDecryptWithFormat(c, f, FormatForPath(key)) # "error"
          BY <3>1, <4>2 DEF DecryptEntry
        <5>2. /\ ~EntryFails(key, c)
              /\ [c EXCEPT !.state = SopsDecryptWithFormat(c, f, FormatForPath(key))]
                    \in DecryptedEntry(key, c)
          BY <3>1, <5>1, MarkedEntry
        <5>3. dataMap' = [dataMap EXCEPT ![key] =
                 [c EXCEPT !.state = SopsDecryptWithFormat(c, f, FormatForPath(key))]]
          BY <3>1, <4>2 DEF DecryptEntry
        <5> QED BY <5>2, <5>3
      <4> QED BY <2>2, <4>1, <4>2
    <3>3. d \in Content
      <4> HIDE DEF c
      <4> QED BY <3>1, EntryTyped
    <3>4. /\ ByEntry(input[i])
          /\ \A k \in left : dataMap[k] = input[i].data[k]
          /\ \A k \in Keys \ left :
                /\ dataMap[k] \in DecryptedEntry(k, input[i].data[k])
                /\ ~EntryFails(k, input[i].data[k])
      BY <3>1 DEF BuildInv, EntriesInv
    <3>5. \A k \in left' : dataMap'[k] = input[i].data[k]
      BY <3>1, <3>2, <3>4
    <3>6. \A k \in Keys \ left' : /\ dataMap'[k] \in DecryptedEntry(k, input[i].data[k])
                                  /\ ~EntryFails(k, input[i].data[k])
      BY <3>1, <3>2, <3>4
    <3>7. EntriesInv'
      BY <1>0, <3>4, <3>5, <3>6, SameBuild DEF EntriesInv
    <3>8. dataMap' \in [Keys -> Content] /\ left' \subseteq Keys
      BY <3>1, <3>2, <3>3
    <3> QED BY <3>7, <3>8
  <2> QED BY <2>1, <2>2
<1>4. TypeInv'
  BY <1>0, <1>3 DEF BuildInv, TypeInv
<1>5. Loop'
  BY <1>0, <1>1, SameBuild, SameResult DEF BuildInv, Loop
<1>6. Visit' /\ Outcome'
  BY <1>0, <1>1 DEF Visit, Outcome
<1> QED BY <1>3, <1>4, <1>5, <1>6 DEF BuildInv

\* The resource the loop is at is replaced by what it decrypts to.
LEMMA ReplaceStep ==
    ASSUME BuildInv, pc \in {"decrypt", "entries"}, PassesDecryption(input[i]),
           NEW d \in Resource, Decrypted(input[i], d),
           resources' = [resources EXCEPT ![i] = d],
           pc' = "substitute", UNCHANGED <<config, input, i, left, dataMap>>
    PROVE  BuildInv'
<1>1. /\ i <= Len(input) /\ i \in DOMAIN resources /\ input[i] \in Resource
      /\ i \in 1 .. Len(resources)
  BY InLoop, AtResource DEF BuildInv, TypeInv
<1>3. /\ resources' \in Seq(Resource) /\ Len(resources') = Len(resources)
      /\ \A n \in 1 .. Len(resources) :
            resources'[n] = IF n = i THEN d ELSE resources[n]
  BY <1>1, ExceptSeq DEF BuildInv, TypeInv
<1>4. TypeInv'
  BY <1>3 DEF BuildInv, TypeInv
<1>5. Loop'
  <2>1. Len(resources) = Len(input) /\ i \in Nat
    BY DEF BuildInv, TypeInv
  <2>2. \A n \in 1 .. Len(input) : n # i => resources'[n] = resources[n]
    BY <1>3, <2>1
  <2>3. \A n \in 1 .. Len(input) :
           /\ n < i => Decrypted(input[n], resources[n])' /\ Passes(input[n])
           /\ n > i => resources'[n] = input[n]
    BY <2>1, <2>2, SameResult DEF BuildInv, Loop
  <2> QED BY <1>1, <2>3, SameBuild DEF Loop
<1>6. Visit'
  <2>1. resources'[i] = d /\ i' = i /\ input' = input /\ config' = config
    BY <1>1, <1>3
  <2>2. Decrypted(input[i], resources[i])'
    <3>1. CASE Decrypts(input[i]) /\ input[i].sops = "mac"
      BY <2>1, <3>1 DEF Decrypted, Decrypts
    <3>2. CASE ~(Decrypts(input[i]) /\ input[i].sops = "mac") /\ ByEntry(input[i])
      <4>1. d = [input[i] EXCEPT !.data = d.data]
        BY <3>2 DEF Decrypted
      <4>2. \A key \in Keys : d.data[key] \in DecryptedEntry(key, input[i].data[key])'
        BY <2>1, <3>2, SameBuild DEF Decrypted
      <4> QED BY <2>1, <3>2, <4>1, <4>2 DEF Decrypted, Decrypts, ByEntry
    <3>3. CASE ~(Decrypts(input[i]) /\ input[i].sops = "mac") /\ ~ByEntry(input[i])
      BY <2>1, <3>3 DEF Decrypted, Decrypts, ByEntry
    <3> QED BY <3>1, <3>2, <3>3
  <2> QED BY <1>1, <2>2, SameBuild DEF Visit
<1>7. EntriesInv' /\ Outcome'
  BY DEF EntriesInv, Outcome
<1> QED BY <1>4, <1>5, <1>6, <1>7 DEF BuildInv

\* A resource is decrypted as a whole.
LEMMA WholeStep ==
    ASSUME BuildInv, DecryptWhole
    PROVE  BuildInv'
<1>1. /\ resources[i] = input[i] /\ i \in DOMAIN resources /\ input[i] \in Resource
      /\ input[i].named
  BY InLoop, AtResource DEF DecryptWhole, Decrypting, BuildInv, Visit, Res
<1>2. Decrypts(input[i]) /\ input[i].sops = "mac"
  BY <1>1 DEF DecryptWhole, Decrypting, Decrypts, IsSOPSEncryptedResource, Res
<1> DEFINE d == [input[i] EXCEPT !.sops = "none", !.values = "plain"]
<1>3. /\ ~WholeFails(input[i])
      /\ SopsDecryptJson(input[i]) = "plain"
      /\ Decrypted(input[i], d)
  BY <1>1, <1>2, WholeResource DEF DecryptWhole, Res
<1>4. resources' = [resources EXCEPT ![i] = d] /\ d \in Resource
  BY <1>1, <1>3 DEF DecryptWhole, Res, Resource
<1>5. PassesDecryption(input[i])
  BY <1>1, <1>2, <1>3 DEF PassesDecryption, ByEntry
<1> HIDE DEF d
<1> QED BY <1>3, <1>4, <1>5, ReplaceStep DEF DecryptWhole, Decrypting

\* The decrypted entries replace the data of the Secret.
LEMMA FinishStep ==
    ASSUME BuildInv, FinishEntries
    PROVE  BuildInv'
<1>1. /\ resources[i] = input[i] /\ i \in DOMAIN resources /\ input[i] \in Resource
      /\ input[i].named
  BY InLoop, AtResource DEF FinishEntries, BuildInv, Visit, Res
<1>2. /\ ByEntry(input[i]) /\ dataMap \in [Keys -> Content]
      /\ \A key \in Keys : /\ dataMap[key] \in DecryptedEntry(key, input[i].data[key])
                           /\ ~EntryFails(key, input[i].data[key])
  BY DEF FinishEntries, BuildInv, TypeInv, EntriesInv
<1> DEFINE d == [input[i] EXCEPT !.data = dataMap]
<1>3. d \in Resource /\ d.data = dataMap /\ d = [input[i] EXCEPT !.data = d.data]
  BY <1>1, <1>2 DEF Resource
<1> HIDE DEF d
<1>4. Decrypted(input[i], d)
  BY <1>2, <1>3 DEF Decrypted, ByEntry
<1>5. resources' = [resources EXCEPT ![i] = d]
  BY <1>1 DEF FinishEntries, d
<1>6. PassesDecryption(input[i])
  BY <1>1, <1>2 DEF PassesDecryption, EntriesFail, ByEntry
<1> QED BY <1>3, <1>4, <1>5, <1>6, ReplaceStep DEF FinishEntries

\* The variables of the resource are substituted: it has passed, and the loop moves
\* to the next one, which is as kustomize built it.
LEMMA SubstituteStep ==
    ASSUME BuildInv, SubstituteVariables
    PROVE  BuildInv'
<1>1. /\ i <= Len(input) /\ input[i] \in Resource /\ i \in Nat /\ Len(input) \in Nat
      /\ Decrypted(input[i], resources[i]) /\ PassesDecryption(input[i])
  BY InLoop, AtResource, LenProperties DEF SubstituteVariables, BuildInv, TypeInv, Visit
<1>2. Passes(input[i])
  BY <1>1, DecryptedKeeps DEF SubstituteVariables, Res, Passes
<1>3. TypeInv'
  BY <1>1 DEF SubstituteVariables, BuildInv, TypeInv
<1>4. \A n \in 1 .. Len(input) :
         /\ n < i + 1 => Decrypted(input[n], resources[n]) /\ Passes(input[n])
         /\ n > i => resources[n] = input[n]
  <2> SUFFICES ASSUME NEW n \in 1 .. Len(input)
               PROVE  /\ n < i + 1 => Decrypted(input[n], resources[n]) /\ Passes(input[n])
                      /\ n > i => resources[n] = input[n]
    OBVIOUS
  <2>1. n < i + 1 => n < i \/ n = i
    BY <1>1
  <2> QED BY <1>1, <1>2, <2>1 DEF BuildInv, Loop
<1>5. Loop'
  <2>1. \A n \in 1 .. Len(input) : n > i + 1 => n > i
    BY <1>1
  <2> QED BY <1>4, <2>1, SameBuild, SameResult DEF SubstituteVariables, Loop
<1>6. Visit'
  <2>1. i + 1 <= Len(input) => i + 1 \in 1 .. Len(input) /\ i + 1 > i
    BY <1>1
  <2> QED BY <1>4, <2>1 DEF SubstituteVariables, Visit
<1>7. EntriesInv' /\ Outcome'
  BY DEF SubstituteVariables, EntriesInv, Outcome
<1> QED BY <1>3, <1>5, <1>6, <1>7 DEF BuildInv

-----------------------------------------------------------------------------
(* The invariant and what follows from it.                                 *)

\* A build starts with what kustomize built, before its first resource.
LEMMA BuildInit == Init => BuildInv
<1> SUFFICES ASSUME Init PROVE BuildInv
  OBVIOUS
<1>1. config \in Config /\ input \in Inputs /\ input \in Seq(Resource)
  BY InputsAssumption DEF Init
<1>2. Len(input) \in Nat
  BY <1>1, LenProperties
<1>3. dataMap \in [Keys -> Content]
  BY DEF Init, Content, Formats
<1>4. TypeInv
  BY <1>1, <1>2, <1>3 DEF Init, TypeInv
<1>5. Loop /\ Visit
  BY <1>1, <1>2 DEF Init, Loop, Visit
<1>6. EntriesInv /\ Outcome
  BY DEF Init, EntriesInv, Outcome
<1> QED BY <1>4, <1>5, <1>6 DEF BuildInv

\* Every step of the build keeps the invariant.
LEMMA BuildStep == BuildInv /\ [Next]_vars => BuildInv'
<1> SUFFICES ASSUME BuildInv, [Next]_vars PROVE BuildInv'
  OBVIOUS
<1>1. CASE \/ RejectUnnamed \/ DecryptWholeFails \/ SubstituteFails
           \/ \E key \in Keys, f \in Formats : DecryptEntryFails(key, f)
  BY <1>1, BuildFails
<1>2. CASE RefuseEncryptedSecret
  BY <1>2, RefusalIsBlamed
<1>3. CASE Check \/ SkipResource \/ Built \/ Apply
  BY <1>3, MoveStep
<1>4. CASE \/ StartEntries
           \/ \E key \in Keys : SkipEntry(key) \/ \E f \in Formats : DecryptEntry(key, f)
  BY <1>4, EntryStep
<1>5. CASE DecryptWhole
  BY <1>5, WholeStep
<1>6. CASE FinishEntries
  BY <1>6, FinishStep
<1>7. CASE SubstituteVariables
  BY <1>7, SubstituteStep
<1>8. CASE UNCHANGED vars
  <2>1. UNCHANGED <<config, input, resources, i, left, dataMap, pc>>
    BY <1>8 DEF vars
  <2>2. TypeInv'
    BY <2>1 DEF BuildInv, TypeInv
  <2>3. Loop' /\ Visit'
    BY <2>1, SameBuild, SameResult DEF BuildInv, Loop, Visit
  <2>4. EntriesInv'
    BY <2>1, SameBuild DEF BuildInv, EntriesInv
  <2>5. Outcome'
    BY <2>1, SameBuild DEF BuildInv, Outcome, Refused
  <2> QED BY <2>2, <2>3, <2>4, <2>5 DEF BuildInv
<1> QED BY <1>1, <1>2, <1>3, <1>4, <1>5, <1>6, <1>7, <1>8 DEF Next

\* The invariant holds in every state of a build.
LEMMA BuildInvariant == Spec => []BuildInv
BY BuildInit, BuildStep, PTL DEF Spec

\* What is applied is what every resource decrypts to, and each has passed every
\* check.
LEMMA AppliedResources ==
    ASSUME BuildInv, pc = "applied"
    PROVE  /\ DOMAIN input = 1 .. Len(input) /\ DOMAIN resources = DOMAIN input
           /\ \A n \in DOMAIN input :
                 /\ input[n] \in Resource
                 /\ Decrypted(input[n], resources[n])
                 /\ Passes(input[n])
                 /\ ~(IsEncryptedSecret(resources[n]) /\ ~resources[n].disabled)
<1>1. DOMAIN input = 1 .. Len(input) /\ DOMAIN resources = 1 .. Len(input)
  BY LenProperties DEF BuildInv, TypeInv
<1>2. \A n \in 1 .. Len(input) : n < i
  BY LenProperties DEF BuildInv, TypeInv, Loop
<1>3. \A n \in DOMAIN input : input[n] \in Resource
  BY <1>1, ElementOfSeq DEF BuildInv, TypeInv
<1>4. \A n \in DOMAIN input : Decrypted(input[n], resources[n]) /\ Passes(input[n])
  BY <1>1, <1>2 DEF BuildInv, Loop
<1>5. ~Refused
  BY DEF BuildInv, Outcome
<1> QED BY <1>1, <1>3, <1>4, <1>5 DEF Refused

\* A resource that passed the build and the check of apply fails nowhere.
LEMMA AppliedPasses ==
    ASSUME NEW res \in Resource, NEW out, Decrypted(res, out), Passes(res),
           ~(IsEncryptedSecret(out) /\ ~out.disabled)
    PROVE  ~Fails(res)
<1>1. ~(/\ res.kind = "Secret" /\ res.apiVersion = "v1" /\ ~res.disabled
        /\ out.sops # "none")
  BY DecryptedKeeps DEF IsEncryptedSecret
<1>2. \/ res.sops = "empty"
      \/ res.sops = "mac" /\ ~Decrypts(res)
      => out.sops # "none"
  BY DEF Decrypted, ByEntry, Resource
<1> QED BY <1>1, <1>2 DEF Passes, PassesDecryption, Fails

\* Whatever order the data entries are met in, and whichever of the formats with the
\* same marker detectFormatFromMarkerBytes answers, a build fails only for a resource
\* that has to fail it (or for a JSON entry that was encrypted with a comment regex), and
\* what is applied is what every resource of the input decrypts to (but for the
\* values of such entries that the regex has chosen, without the MAC check).
THEOREM BuildIsDetermined == Spec => []ResultIsDetermined
<1>1. BuildInv => ResultIsDetermined
  <2> SUFFICES ASSUME BuildInv PROVE ResultIsDetermined
    OBVIOUS
  <2>1. pc = "failed" => Blamed
    BY DEF BuildInv, Outcome
  <2>2. ASSUME pc = "applied", NEW n \in DOMAIN input
        PROVE  ~Fails(input[n]) /\ Decrypted(input[n], resources[n])
    BY <2>2, AppliedResources, AppliedPasses
  <2> QED BY <2>1, <2>2 DEF ResultIsDetermined, Blamed
<1> QED BY <1>1, BuildInvariant, PTL

\* An encrypted entry of a decrypted Secret is decrypted when none of its entries
\* fails, unless a comment regex chose a value of it.
LEMMA DecryptedHasNoCiphertext ==
    ASSUME NEW res \in Resource, NEW out, Decrypted(res, out), ByEntry(res),
           ~EntriesFail(res), NEW key \in Keys, res.data[key].state # "ciphertext"
    PROVE  \/ out.data[key].state \notin {"encrypted", "locked", "ciphertext"}
           \/ MayStayEncrypted(res.data[key])
<1>1. ~EntryFails(key, res.data[key]) /\ res.data[key] \in Content
  BY DEF EntriesFail, Resource
<1>2. out.data[key] \in DecryptedEntry(key, res.data[key])
  BY DEF Decrypted, ByEntry
<1> DEFINE c == res.data[key]
           d == out.data[key]
<1>3. \/ d.state \notin {"encrypted", "locked", "ciphertext"}
      \/ MayStayEncrypted(c)
  <2>1. /\ ~EntryFails(key, c) /\ c \in Content /\ c.state # "ciphertext"
        /\ d \in DecryptedEntry(key, c)
    BY <1>1, <1>2
  <2> HIDE DEF c, d
  <2> QED BY <2>1 DEF DecryptedEntry, EntryFails, Content
<1> QED BY <1>3

\* No encrypted Secret is applied unless an annotation asks for it, and of what the
\* configuration has decrypted no value and no entry is still ciphertext, but for
\* JSON entries with values that a comment regex has chosen.
THEOREM NoCiphertextIsApplied == Spec => []CiphertextNeverApplied
<1>1. BuildInv => CiphertextNeverApplied
  <2> SUFFICES ASSUME BuildInv, pc = "applied", NEW n \in DOMAIN resources
               PROVE  LET res == resources[n] IN
                      /\ ~res.disabled /\ res.kind = "Secret" /\ res.apiVersion = "v1"
                         => res.sops = "none"
                      /\ Decrypts(res) /\ input[n].sops = "mac" => res.values = "plain"
                      /\ ByEntry(input[n]) =>
                            \A key \in Keys :
                               \/ res.data[key].state
                                     \notin {"encrypted", "locked", "ciphertext"}
                               \/ MayStayEncrypted(input[n].data[key])
    BY DEF CiphertextNeverApplied
  <2>1. /\ input[n] \in Resource /\ Decrypted(input[n], resources[n]) /\ Passes(input[n])
        /\ n \in DOMAIN input
        /\ ~(IsEncryptedSecret(resources[n]) /\ ~resources[n].disabled)
    BY AppliedResources
  <2>2. Decrypts(resources[n]) <=> Decrypts(input[n])
    BY <2>1, DecryptedKeeps DEF Decrypts
  <2>3. Decrypts(input[n]) /\ input[n].sops = "mac" => resources[n].values = "plain"
    BY <2>1 DEF Decrypted, Resource
  <2>4. ASSUME ByEntry(input[n]), NEW key \in Keys
        PROVE  \/ resources[n].data[key].state
                     \notin {"encrypted", "locked", "ciphertext"}
               \/ MayStayEncrypted(input[n].data[key])
    <3>1. ~EntriesFail(input[n])
      BY <2>1, <2>4 DEF Passes, PassesDecryption
    <3>2. input[n].data[key].state # "ciphertext"
      BY <2>1, InputsAssumption DEF BuildInv, TypeInv
    <3> QED BY <2>1, <2>4, <3>1, <3>2, DecryptedHasNoCiphertext
  <2> QED BY <2>1, <2>2, <2>3, <2>4 DEF IsEncryptedSecret
<1> QED BY <1>1, BuildInvariant, PTL
=============================================================================
