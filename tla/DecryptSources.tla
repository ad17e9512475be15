--------------------------- MODULE DecryptSources ---------------------------
(***************************************************************************)
(* Decryptor.DecryptSources: before the build, walk the kustomization      *)
(* files below .spec.path and decrypt in place the files that their secret *)
(* generators and patches refer to.  recurseKustomizationFiles is a        *)
(* recursive function; its call stack is part of the state here.           *)
(*                                                                         *)
(* Paths are the ones securePaths returns: every spelling of a reference   *)
(* is one canonical name inside the root.                                  *)
(***************************************************************************)
EXTENDS Integers, Sequences, FiniteSets

CONSTANTS
    Dirs,        \* directories of the artifact
    Files,       \* files that kustomization files may refer to
    Top,         \* the directory of .spec.path
    Formats,     \* SOPS formats a path or a key may suggest
    SameMarker,  \* pairs of formats that leave the same marker when encrypted
    Trees        \* artifacts to decrypt

\* The content of a file: plain text, encrypted in one of the formats, encrypted
\* text that was decrypted in a wrong format, or no regular file of legal size.
Contents == {"plain", "garbled", "irregular"} \cup Formats

\* A kustomization file: the references of its secret generators and patches,
\* in the order of visit, its resources and its components.
KustomizationFile ==
    [refs : Seq([file : Files \cup {"nowhere"}, format : Formats]),
     resources : Seq(Dirs \cup Files \cup {"nowhere"}),
     components : Seq(Dirs \cup Files \cup {"nowhere"})]

\* broken: directories without a kustomization file, with several, or with one
\* that cannot be read.
Tree ==
    [kustomization : [Dirs -> KustomizationFile],
     broken : SUBSET Dirs,
     content : [Files -> Contents]]

ASSUME TreesAssumption ==
    /\ Top \in Dirs
    /\ IsFiniteSet(Dirs)
    /\ Dirs \cap (Files \cup {"nowhere"}) = {}
    /\ "nowhere" \notin Files
    /\ Formats \cap {"plain", "garbled", "irregular"} = {}
    /\ SameMarker \subseteq Formats \X Formats
    /\ \A t \in Trees : t \in Tree

VARIABLES
    tree,       \* the artifact as it was fetched
    content,    \* the content of its files now
    stack,      \* active calls of recurseKustomizationFiles
    target,     \* the path of the call that comes next
    pc,         \* "call", "visit", "recurse" or "done"
    visited,    \* paths recurseKustomizationFiles has seen
    decrypted,  \* files visitRef has dealt with
    result      \* what DecryptSources returns: "none" yet, "ok" or "error"

vars == <<tree, content, stack, target, pc, visited, decrypted, result>>

MarkedUnknown(file, format) == TRUE   \* mutant: a format without marker bytes

\* Is the file, encrypted or not, marked as encrypted in the format?
Marked(file, format) ==
    content[file] = format \/ <<content[file], format>> \in SameMarker

Abort ==
    /\ result' = "error"
    /\ pc' = "done"

Frame == stack[Len(stack)]

\* The active call goes on with the given references and resources.
Continue(refs, resources) ==
    stack' = [stack EXCEPT ![Len(stack)] =
                [dir |-> @.dir, refs |-> refs, resources |-> resources]]

-----------------------------------------------------------------------------
(* recurseKustomizationFiles.                                              *)

ShortCircuit ==
    /\ pc = "call"
    /\ target \in visited
    /\ pc' = "recurse"
    /\ UNCHANGED <<tree, content, stack, target, visited, decrypted, result>>

\* A file, a remote base or a dangling reference: the caller ignores the error,
\* unless there is no caller.
NotADirectory ==
    /\ pc = "call"
    /\ target \notin visited
    /\ target \notin Dirs
    /\ visited' = visited \cup {target}
    /\ IF stack = <<>> THEN Abort ELSE pc' = "recurse" /\ UNCHANGED result
    /\ UNCHANGED <<tree, content, stack, target, decrypted>>

LoadFails ==
    /\ pc = "call"
    /\ target \in Dirs \ visited
    /\ target \in tree.broken
    /\ visited' = visited \cup {target}
    /\ Abort
    /\ UNCHANGED <<tree, content, stack, target, decrypted>>

LoadWithoutComponents ==   \* mutant: components are not walked
    /\ pc = "call"
    /\ target \in Dirs \ visited
    /\ target \notin tree.broken
    /\ visited' = visited \cup {target}
    /\ LET kus == tree.kustomization[target] IN
       stack' = Append(stack, [dir |-> target, refs |-> kus.refs,
                               resources |-> kus.resources])
    /\ pc' = "visit"
    /\ UNCHANGED <<tree, content, target, decrypted, result>>

LoadUnmarked ==   \* mutant: the directory is not marked as visited
    /\ pc = "call"
    /\ target \in Dirs \ visited
    /\ target \notin tree.broken
    /\ LET kus == tree.kustomization[target] IN
       stack' = Append(stack, [dir |-> target, refs |-> kus.refs,
                               resources |-> kus.resources \o kus.components])
    /\ pc' = "visit"
    /\ UNCHANGED <<tree, content, target, visited, decrypted, result>>

Load ==
    /\ pc = "call"
    /\ target \in Dirs \ visited
    /\ target \notin tree.broken
    /\ visited' = visited \cup {target}
    /\ LET kus == tree.kustomization[target] IN
       stack' = Append(stack, [dir |-> target, refs |-> kus.refs,
                               resources |-> kus.resources \o kus.components])
    /\ pc' = "visit"
    /\ UNCHANGED <<tree, content, target, decrypted, result>>

RecurseAgain ==   \* mutant: the loop does not advance
    /\ pc = "recurse"
    /\ Frame.resources # <<>>
    /\ target' = Head(Frame.resources)
    /\ pc' = "call"
    /\ UNCHANGED <<tree, content, stack, visited, decrypted, result>>

Recurse ==
    /\ pc = "recurse"
    /\ Frame.resources # <<>>
    /\ target' = Head(Frame.resources)
    /\ Continue(<<>>, Tail(Frame.resources))
    /\ pc' = "call"
    /\ UNCHANGED <<tree, content, visited, decrypted, result>>

\* The call returns, to the loop of its caller or to DecryptSources.
Return ==
    /\ pc = "recurse"
    /\ Frame.resources = <<>>
    /\ stack' = SubSeq(stack, 1, Len(stack) - 1)
    /\ IF Len(stack) = 1
       THEN pc' = "done" /\ result' = "ok"
       ELSE UNCHANGED <<pc, result>>
    /\ UNCHANGED <<tree, content, target, visited, decrypted>>

-----------------------------------------------------------------------------
(* decryptKustomizationSources: the visit of one kustomization file.       *)

Reference == Head(Frame.refs)

Visiting == pc = "visit" /\ Frame.refs # <<>>

NextReference == Continue(Tail(Frame.refs), Frame.resources)

VisitedReference ==
    /\ Visiting
    /\ Reference.file \in decrypted
    /\ NextReference
    /\ UNCHANGED <<tree, content, target, pc, visited, decrypted, result>>

\* The file does not exist, is not a regular file or is too large.
BadReference ==
    /\ Visiting
    /\ Reference.file \notin decrypted
    /\ Reference.file \in Files => content[Reference.file] = "irregular"
    /\ Abort
    /\ UNCHANGED <<tree, content, stack, target, visited, decrypted>>

Readable ==
    /\ Visiting
    /\ Reference.file \in Files \ decrypted
    /\ content[Reference.file] # "irregular"

\* Without the marker of the expected format the file is left as it is.
UnmarkedReference ==
    /\ Readable
    /\ ~Marked(Reference.file, Reference.format)
    /\ decrypted' = decrypted \cup {Reference.file}
    /\ NextReference
    /\ UNCHANGED <<tree, content, target, pc, visited, result>>

\* The file is replaced by its plain text.  The stores of two formats with the
\* same marker read each other's files, but not to the right text.
DecryptReference ==
    /\ Readable
    /\ Marked(Reference.file, Reference.format)
    /\ content' = [content EXCEPT ![Reference.file] =
                     IF @ = Reference.format THEN "plain" ELSE "garbled"]
    /\ decrypted' = decrypted \cup {Reference.file}
    /\ NextReference
    /\ UNCHANGED <<tree, target, pc, visited, result>>

\* No key, a bad ciphertext, or a failed write.
DecryptFails ==
    /\ Readable
    /\ Marked(Reference.file, Reference.format)
    /\ Abort
    /\ UNCHANGED <<tree, content, stack, target, visited, decrypted>>

VisitDone ==
    /\ pc = "visit"
    /\ Frame.refs = <<>>
    /\ pc' = "recurse"
    /\ UNCHANGED <<tree, content, stack, target, visited, decrypted, result>>

-----------------------------------------------------------------------------

Init ==
    /\ tree \in Trees
    /\ content = tree.content
    /\ stack = <<>>
    /\ target = Top
    /\ pc = "call"
    /\ visited = {}
    /\ decrypted = {}
    /\ result = "none"

Next ==
    \/ ShortCircuit \/ NotADirectory \/ LoadFails \/ Load \/ Recurse \/ Return
    \/ VisitedReference \/ BadReference \/ UnmarkedReference \/ DecryptReference
    \/ DecryptFails \/ VisitDone

Spec == Init /\ [][Next]_vars

\* The walk is sequential code: it goes on until it returns.
FairSpec == Spec /\ WF_vars(Next)

-----------------------------------------------------------------------------
(* Properties.                                                             *)

Items(s) == {s[i] : i \in DOMAIN s}

\* The directories a kustomization file leads to.
Children(d) ==
    LET kus == tree.kustomization[d] IN
    IF d \in tree.broken THEN {} ELSE Items(kus.resources \o kus.components) \cap Dirs

\* The directories that Top leads to: the smallest set that holds Top and the
\* children of its members.
Reachable ==
    {d \in Dirs : \A s \in SUBSET Dirs :
        Top \in s /\ (\A x \in s : Children(x) \subseteq s) => d \in s}

\* The references of the reachable kustomization files.
References ==
    UNION {Items(tree.kustomization[d].refs) : d \in Reachable \ tree.broken}

\* The walk is complete: when DecryptSources succeeds, each file that reachable
\* kustomization files refer to in the format it is encrypted in, and in no
\* other, is plain text, however the files share, nest and loop.
SourcesDecrypted ==
    result = "ok" =>
        /\ Reachable \subseteq visited
        /\ \A f \in Files :
              /\ \E ref \in References : ref.file = f
              /\ \A ref \in References : ref.file = f => ref.format = tree.content[f]
              => content[f] = "plain"

\* Nothing else is touched: a file changes only if it is encrypted and a
\* reachable kustomization file refers to it.
OnlyReferencesChange ==
    [][\A f \in Files : content'[f] # content[f] =>
          /\ content[f] \in Formats
          /\ \E ref \in References : ref.file = f]_vars

\* The recursion is as deep as there are directories at most, so that cyclic
\* references cannot exhaust the stack.
DepthBounded == Len(stack) <= Cardinality(Dirs)

\* The walk ends, with cyclic and dangling references too.
Terminates == <>(pc = "done")
=============================================================================
