------------------------ MODULE DecryptSourcesProofs ------------------------
(***************************************************************************)
(* Proofs about DecryptSources, for every artifact: any number of          *)
(* directories and files that refer to each other in any way.              *)
(***************************************************************************)
EXTENDS DecryptSources, FiniteSetTheorems, SequenceTheorems, TLAPS

Paths == Dirs \cup Files \cup {"nowhere"}
Refs == [file : Files \cup {"nowhere"}, format : Formats]
Call == [dir : Dirs, refs : Seq(Refs), resources : Seq(Paths)]

\* The references and the bases in the kustomization file of a directory.
RefsOf(d) == Items(tree.kustomization[d].refs)
Bases(d) == Items(tree.kustomization[d].resources \o tree.kustomization[d].components)

Typed ==
    /\ tree \in Trees
    /\ content \in [Files -> Contents]
    /\ stack \in Seq(Call)
    /\ target \in Paths
    /\ pc \in {"call", "visit", "recurse", "done"}
    /\ visited \subseteq Paths
    /\ decrypted \subseteq Files
    /\ pc \in {"visit", "recurse"} => stack # <<>>
    /\ result = "ok" => stack = <<>> /\ pc = "done"

\* The active calls are for different directories, which were visited and can be
\* reached, and have left a part of their references and bases.
Calls ==
    /\ \A i \in DOMAIN stack :
          /\ stack[i].dir \in (visited \cap Reachable) \ tree.broken
          /\ Items(stack[i].refs) \subseteq RefsOf(stack[i].dir)
          /\ Items(stack[i].resources) \subseteq Bases(stack[i].dir)
          /\ i < Len(stack) \/ pc \in {"call", "recurse"} => stack[i].refs = <<>>
    /\ \A i, j \in DOMAIN stack : stack[i].dir = stack[j].dir => i = j

\* The walk begins at Top and calls only what can be reached.
Begun ==
    /\ \/ Top \in visited
       \/ visited = {} /\ stack = <<>> /\ target = Top /\ pc = "call"
    /\ pc = "call" /\ target \in Dirs => target \in Reachable

\* Only the first call has no caller.
Entered == pc = "call" /\ stack = <<>> => visited = {}

\* The call for a directory has a base or a reference left.
BaseLeft(d, c) == \E i \in DOMAIN stack : stack[i].dir = d /\ c \in Items(stack[i].resources)
RefLeft(d, ref) == \E i \in DOMAIN stack : stack[i].dir = d /\ ref \in Items(stack[i].refs)

\* What a visited kustomization file leads to is visited, is the next call, or
\* is left to the call for that file.
Closed ==
    \A d \in visited \cap Dirs : \A c \in Children(d) :
        \/ c \in visited
        \/ pc = "call" /\ target = c
        \/ BaseLeft(d, c)

\* What it refers to is dealt with, or is left to the call for that file.
Referred ==
    \A d \in (visited \cap Dirs) \ tree.broken : \A ref \in RefsOf(d) :
        \/ ref.file \in decrypted
        \/ RefLeft(d, ref)

\* A file is as it was until it is dealt with, and is plain text then if all
\* references to it agree with its format.
Unanimous(f) == \A ref \in References : ref.file = f => ref.format = tree.content[f]

Contained ==
    \A f \in Files :
        /\ f \notin decrypted => content[f] = tree.content[f]
        /\ f \in decrypted /\ Unanimous(f) => content[f] = "plain"

WalkInv == Typed /\ Calls /\ Begun /\ Entered /\ Closed /\ Referred /\ Contained

-----------------------------------------------------------------------------
(* Sequences and trees.                                                    *)

\* The items of a sequence are its head and the items of its tail.
LEMMA ItemsOfTail ==
    ASSUME NEW S, NEW s \in Seq(S), s # <<>>
    PROVE  /\ Head(s) \in S /\ Tail(s) \in Seq(S)
           /\ Items(s) = {Head(s)} \cup Items(Tail(s))
<1>1. /\ Len(s) \in Nat /\ Len(s) > 0 /\ DOMAIN s = 1 .. Len(s) /\ Head(s) = s[1]
      /\ Tail(s) \in Seq(S) /\ DOMAIN Tail(s) = 1 .. Len(s) - 1
      /\ \A i \in 1 .. Len(s) - 1 : Tail(s)[i] = s[i + 1]
  OBVIOUS
<1>2. ASSUME NEW x \in Items(s) PROVE x = Head(s) \/ x \in Items(Tail(s))
  <2>1. PICK i \in 1 .. Len(s) : x = s[i]
    BY <1>1, <1>2 DEF Items
  <2>2. CASE i = 1
    BY <1>1, <2>1, <2>2
  <2>3. CASE i # 1
    <3>1. i - 1 \in 1 .. Len(s) - 1 /\ Tail(s)[i - 1] = s[i]
      BY <1>1, <2>1, <2>3
    <3> QED BY <1>1, <2>1, <3>1 DEF Items
  <2> QED BY <2>2, <2>3
<1>3. Head(s) \in Items(s) /\ Items(Tail(s)) \subseteq Items(s)
  BY <1>1 DEF Items
<1> QED BY <1>1, <1>2, <1>3

LEMMA ItemsOfEmpty == Items(<<>>) = {}
BY DEF Items

\* Top can be reached, what a reachable directory leads to can be reached, and
\* nothing else can.
LEMMA TopReachable == Top \in Reachable
BY TreesAssumption DEF Reachable

LEMMA ChildReachable ==
    ASSUME NEW d \in Reachable, NEW c \in Children(d)
    PROVE  c \in Reachable
BY DEF Reachable, Children

LEMMA ReachableLeast ==
    ASSUME NEW s \in SUBSET Dirs, Top \in s, \A x \in s : Children(x) \subseteq s
    PROVE  Reachable \subseteq s
BY DEF Reachable

\* The tree of the artifact is the same all along.
LEMMA SameTree ==
    ASSUME tree' = tree
    PROVE  /\ Reachable' = Reachable /\ References' = References
           /\ \A d : Children(d)' = Children(d) /\ RefsOf(d)' = RefsOf(d) /\ Bases(d)' = Bases(d)
BY DEF Reachable, References, Children, RefsOf, Bases

\* A kustomization file has its type.
LEMMA TreeTyped ==
    ASSUME Typed, NEW d \in Dirs
    PROVE  /\ tree.kustomization[d].refs \in Seq(Refs)
           /\ tree.kustomization[d].resources \in Seq(Paths)
           /\ tree.kustomization[d].components \in Seq(Paths)
           /\ tree.kustomization[d].resources \o tree.kustomization[d].components \in Seq(Paths)
           /\ d \notin tree.broken => Children(d) = Bases(d) \cap Dirs
           /\ tree.content \in [Files -> Contents]
<1>1. tree \in Tree
  BY TreesAssumption DEF Typed
<1>2. tree.kustomization[d] \in KustomizationFile
  BY <1>1 DEF Tree
<1>3. /\ tree.kustomization[d].refs \in Seq(Refs)
      /\ tree.kustomization[d].resources \in Seq(Paths)
      /\ tree.kustomization[d].components \in Seq(Paths)
  BY <1>2 DEF KustomizationFile, Refs, Paths
<1>4. d \notin tree.broken => Children(d) = Bases(d) \cap Dirs
  BY DEF Children, Bases
<1> QED BY <1>1, <1>3, <1>4 DEF Tree

\* A call goes on with less to do; the others are as they were.
LEMMA Continued ==
    ASSUME stack \in Seq(Call), stack # <<>>, NEW refs \in Seq(Refs),
           NEW resources \in Seq(Paths), Continue(refs, resources)
    PROVE  /\ stack' \in Seq(Call) /\ stack' # <<>> /\ Len(stack') = Len(stack)
           /\ DOMAIN stack' = DOMAIN stack /\ Len(stack) \in DOMAIN stack
           /\ \A i \in DOMAIN stack : i # Len(stack) => stack'[i] = stack[i]
           /\ stack'[Len(stack)].dir = Frame.dir
           /\ stack'[Len(stack)].refs = refs
           /\ stack'[Len(stack)].resources = resources
<1>1. Len(stack) \in DOMAIN stack /\ stack[Len(stack)] \in Call /\ DOMAIN stack = 1 .. Len(stack)
  OBVIOUS
<1>2. stack' = [stack EXCEPT ![Len(stack)] =
                  [dir |-> stack[Len(stack)].dir, refs |-> refs, resources |-> resources]]
  BY <1>1 DEF Continue
<1>3. [dir |-> stack[Len(stack)].dir, refs |-> refs, resources |-> resources] \in Call
  BY <1>1 DEF Call
<1>4. stack' \in Seq(Call) /\ Len(stack') = Len(stack) /\ DOMAIN stack' = DOMAIN stack
  BY <1>1, <1>2, <1>3
<1> QED BY <1>1, <1>2, <1>4 DEF Frame

\* A call is added on top.
LEMMA Pushed ==
    ASSUME stack \in Seq(Call), NEW call \in Call, stack' = Append(stack, call)
    PROVE  /\ stack' \in Seq(Call) /\ stack' # <<>> /\ Len(stack') = Len(stack) + 1
           /\ DOMAIN stack = 1 .. Len(stack) /\ DOMAIN stack' = 1 .. Len(stack) + 1
           /\ \A i \in DOMAIN stack : stack'[i] = stack[i]
           /\ stack'[Len(stack) + 1] = call
OBVIOUS

\* The call on top returns.
LEMMA Popped ==
    ASSUME stack \in Seq(Call), stack # <<>>, stack' = SubSeq(stack, 1, Len(stack) - 1)
    PROVE  /\ stack' \in Seq(Call) /\ Len(stack') = Len(stack) - 1
           /\ DOMAIN stack = 1 .. Len(stack) /\ DOMAIN stack' = 1 .. Len(stack) - 1
           /\ Len(stack) = 1 => stack' = <<>>
           /\ Len(stack) # 1 => stack' # <<>>
           /\ \A i \in DOMAIN stack' : stack'[i] = stack[i]
<1> DEFINE n == Len(stack) - 1
<1>1. Len(stack) \in Nat /\ Len(stack) > 0 /\ DOMAIN stack = 1 .. Len(stack)
  BY EmptySeq, LenProperties
<1>2. n \in Nat /\ n <= Len(stack)
  BY <1>1
<1>3. stack' \in Seq(Call) /\ Len(stack') = n /\ \A i \in 1 .. n : stack'[i] = stack[i]
  <2>1. CASE n = 0
    <3>1. SubSeq(stack, 1, 0) = <<>>
      BY SubSeqEmpty
    <3>2. stack' = <<>>
      BY <2>1, <3>1
    <3>3. stack' \in Seq(Call) /\ Len(stack') = 0
      BY <3>2, EmptySeq
    <3>4. 1 .. n = {}
      BY <2>1
    <3> HIDE DEF n
    <3> QED BY <2>1, <3>3, <3>4
  <2>2. CASE n > 0
    <3>1. \A i \in 1 .. n : stack[i] \in Call
      BY <1>1, <1>2, LenProperties
    <3> HIDE DEF n
    <3>2. /\ SubSeq(stack, 1, n) \in Seq(Call)
          /\ Len(SubSeq(stack, 1, n)) = IF 1 <= n THEN n - 1 + 1 ELSE 0
          /\ \A i \in 1 .. n - 1 + 1 : SubSeq(stack, 1, n)[i] = stack[1 + i - 1]
      BY <1>2, <3>1, SubSeqProperties
    <3>3. stack' = SubSeq(stack, 1, n)
      BY DEF n
    <3>4. n - 1 + 1 = n /\ 1 <= n /\ \A i \in 1 .. n : 1 + i - 1 = i
      BY <1>2, <2>2
    <3>5. stack' \in Seq(Call)
      BY <3>2, <3>3
    <3>6. Len(stack') = n
      <4>1. Len(SubSeq(stack, 1, n)) = n
        BY <3>2, <3>4
      <4> QED BY <3>3, <4>1, Zenon
    <3>7. ASSUME NEW i \in 1 .. n PROVE stack'[i] = stack[i]
      <4>1. SubSeq(stack, 1, n)[i] = stack[i]
        BY <3>2, <3>4
      <4> QED BY <3>3, <4>1, Zenon
    <3> QED BY <3>5, <3>6, <3>7
  <2>3. n = 0 \/ n > 0
    BY <1>1
  <2> QED BY <2>1, <2>2, <2>3, Zenon
<1>4. DOMAIN stack' = 1 .. n
  BY <1>3, LenProperties
<1>5. Len(stack) = 1 => stack' = <<>>
  BY <1>3, EmptySeq
<1>6. Len(stack) # 1 => stack' # <<>>
  <2>1. stack' = <<>> => Len(stack') = 0
    BY EmptySeq
  <2> QED BY <1>1, <1>3, <2>1
<1> QED BY <1>1, <1>3, <1>4, <1>5, <1>6

-----------------------------------------------------------------------------
(* The invariant is inductive.                                             *)

\* The initial states satisfy the invariant.
LEMMA InitWalk == Init => WalkInv
<1> SUFFICES ASSUME Init PROVE WalkInv
  OBVIOUS
<1>0. /\ tree \in Trees /\ content = tree.content /\ stack = <<>> /\ target = Top
      /\ pc = "call" /\ visited = {} /\ decrypted = {} /\ result = "none"
  BY DEF Init
<1>1. Typed
  <2>1. tree.content \in [Files -> Contents]
    BY <1>0, TreesAssumption DEF Tree
  <2> QED BY <1>0, <2>1, TreesAssumption DEF Typed, Paths
<1>2. Calls
  BY <1>0 DEF Calls
<1>3. Begun /\ Entered
  BY <1>0, TopReachable DEF Begun, Entered
<1>4. Closed /\ Referred
  BY <1>0 DEF Closed, Referred
<1>5. Contained
  BY <1>0 DEF Contained
<1> QED BY <1>1, <1>2, <1>3, <1>4, <1>5 DEF WalkInv

\* A step that leaves the stack and the files alone.
LEMMA QuietKeeps ==
    ASSUME WalkInv, UNCHANGED <<tree, content, stack, target, visited, decrypted>>,
           \/ ShortCircuit
           \/ VisitDone
           \/ pc = "visit" /\ pc' = "done" /\ result' = "error"
    PROVE  WalkInv'
<1>0. /\ pc' \in {"recurse", "done"} /\ result' \in {result, "error"}
      /\ pc = "call" => target \in visited /\ pc' = "recurse"
      /\ pc = "visit" /\ pc' = "recurse" => Frame.refs = <<>>
      /\ pc \in {"call", "visit"}
      /\ pc' = "done" => result' = "error"
  BY DEF ShortCircuit, VisitDone
<1>1. Typed'
  <2>1. pc' = "recurse" => stack # <<>>
    <3>1. CASE pc = "call"
      <4>1. visited # {}
        BY <1>0, <3>1
      <4>2. stack # <<>>
        BY <3>1, <4>1, <1>0 DEF WalkInv, Entered
      <4> QED BY <4>2
    <3>2. CASE pc = "visit"
      BY <3>2 DEF WalkInv, Typed
    <3> QED BY <1>0, <3>1, <3>2
  <2> QED BY <1>0, <2>1 DEF WalkInv, Typed
<1>2. Calls'
  BY <1>0, SameTree DEF WalkInv, Calls, Frame
<1>3. Begun' /\ Entered'
  BY <1>0, SameTree DEF WalkInv, Begun, Entered
<1>4. Closed'
  BY <1>0, SameTree DEF WalkInv, Closed, BaseLeft
<1>5. Referred' /\ Contained'
  BY SameTree DEF WalkInv, Referred, RefLeft, Contained, Unanimous
<1> QED BY <1>1, <1>2, <1>3, <1>4, <1>5 DEF WalkInv

\* A call for something that is no directory, or for one that cannot be read.
LEMMA NotADirectoryKeeps ==
    ASSUME WalkInv, NotADirectory \/ LoadFails
    PROVE  WalkInv'
<1>0. /\ UNCHANGED <<tree, content, stack, target, decrypted>>
      /\ pc = "call" /\ visited' = visited \cup {target} /\ target \notin visited
      /\ target \in Dirs => target \in tree.broken
      /\ \/ pc' = "recurse" /\ stack # <<>> /\ result' = result
         \/ pc' = "done" /\ result' = "error"
  BY DEF NotADirectory, LoadFails, Abort
<1>1. Typed'
  BY <1>0 DEF WalkInv, Typed
<1>2. Calls'
  BY <1>0, SameTree DEF WalkInv, Calls
<1>3. Top \in visited'
  BY <1>0 DEF WalkInv, Begun
<1>4. Begun' /\ Entered'
  BY <1>0, <1>3, SameTree DEF Begun, Entered
<1>5. target \in Dirs => Children(target) = {}
  BY <1>0 DEF Children
<1>6. Closed'
  <2> SUFFICES ASSUME NEW d \in visited' \cap Dirs, NEW c \in Children(d),
                      c \notin visited'
               PROVE  BaseLeft(d, c)
    BY <1>0, SameTree DEF Closed, BaseLeft
  <2>1. d \in visited /\ c # target /\ c \notin visited
    BY <1>0, <1>5
  <2> QED BY <2>1 DEF WalkInv, Closed
<1>7. Referred'
  BY <1>0, SameTree DEF WalkInv, Referred, RefLeft
<1>8. Contained'
  BY <1>0, SameTree DEF WalkInv, Contained, Unanimous
<1> QED BY <1>1, <1>2, <1>4, <1>6, <1>7, <1>8 DEF WalkInv

\* A call for a directory: its references and bases are all left to do.
LEMMA LoadKeeps ==
    ASSUME WalkInv, Load
    PROVE  WalkInv'
<1> DEFINE kus == tree.kustomization[target]
           call == [dir |-> target, refs |-> kus.refs,
                    resources |-> kus.resources \o kus.components]
           n == Len(stack) + 1
<1>0. /\ UNCHANGED <<tree, content, target, decrypted, result>>
      /\ pc = "call" /\ pc' = "visit" /\ visited' = visited \cup {target}
      /\ target \in Dirs /\ target \notin visited /\ target \notin tree.broken
      /\ stack' = Append(stack, call)
  BY DEF Load
<1>1. /\ call \in Call /\ call.dir = target
      /\ Items(call.refs) = RefsOf(target) /\ Items(call.resources) = Bases(target)
  BY <1>0, TreeTyped DEF WalkInv, Call, RefsOf, Bases
<1> HIDE DEF call
<1>2. /\ stack' \in Seq(Call) /\ stack' # <<>> /\ Len(stack') = n
      /\ DOMAIN stack = 1 .. Len(stack) /\ DOMAIN stack' = 1 .. n
      /\ \A i \in DOMAIN stack : stack'[i] = stack[i]
      /\ stack'[n] = call /\ Len(stack) \in Nat
  BY <1>0, <1>1, Pushed DEF WalkInv, Typed
<1>3. /\ DOMAIN stack \subseteq DOMAIN stack' /\ n \in DOMAIN stack'
      /\ \A i \in DOMAIN stack' : i = n \/ (i \in DOMAIN stack /\ i < n)
  BY <1>2
<1>4. Typed'
  BY <1>0, <1>2 DEF WalkInv, Typed
<1>5. target \in Reachable /\ Top \in visited'
  BY <1>0 DEF WalkInv, Begun
<1>6. Calls'
  <2>1. ASSUME NEW i \in DOMAIN stack'
        PROVE  /\ stack'[i].dir \in (visited' \cap Reachable) \ tree.broken
               /\ Items(stack'[i].refs) \subseteq RefsOf(stack'[i].dir)
               /\ Items(stack'[i].resources) \subseteq Bases(stack'[i].dir)
               /\ i < n => stack'[i].refs = <<>>
    <3>1. CASE i = n
      BY <1>0, <1>1, <1>2, <1>5, <3>1
    <3>2. CASE i \in DOMAIN stack
      BY <1>0, <1>2, <3>2 DEF WalkInv, Calls
    <3> QED BY <1>3, <3>1, <3>2
  <2>2. ASSUME NEW i \in DOMAIN stack', NEW j \in DOMAIN stack',
               stack'[i].dir = stack'[j].dir
        PROVE  i = j
    <3>1. \A k \in DOMAIN stack : stack'[k].dir # target
      BY <1>0, <1>2 DEF WalkInv, Calls
    <3>2. stack'[n].dir = target
      BY <1>1, <1>2
    <3>3. i \in DOMAIN stack /\ j \in DOMAIN stack => i = j
      BY <1>2, <2>2 DEF WalkInv, Calls
    <3> QED BY <1>3, <2>2, <3>1, <3>2, <3>3
  <2>3. Reachable' = Reachable
    BY <1>0, SameTree
  <2> QED BY <1>0, <1>2, <2>1, <2>2, <2>3 DEF Calls, RefsOf, Bases
<1>7. Begun' /\ Entered'
  BY <1>0, <1>5 DEF Begun, Entered
<1>8. Closed'
  <2> SUFFICES ASSUME NEW d \in visited' \cap Dirs, NEW c \in Children(d),
                      c \notin visited'
               PROVE  BaseLeft(d, c)'
    BY <1>0, SameTree DEF Closed
  <2>1. CASE d = target
    <3>1. c \in Bases(target)
      BY <1>0, <2>1, TreeTyped DEF WalkInv
    <3> QED BY <1>1, <1>2, <1>3, <2>1, <3>1 DEF BaseLeft
  <2>2. CASE d # target
    <3>1. d \in visited /\ c # target /\ c \notin visited
      BY <1>0, <2>2
    <3>2. PICK i \in DOMAIN stack : stack[i].dir = d /\ c \in Items(stack[i].resources)
      BY <3>1, <1>0 DEF WalkInv, Closed, BaseLeft
    <3> QED BY <1>2, <1>3, <3>2 DEF BaseLeft
  <2> QED BY <2>1, <2>2
<1>9. Referred'
  <2> SUFFICES ASSUME NEW d \in (visited' \cap Dirs) \ tree.broken, NEW ref \in RefsOf(d),
                      ref.file \notin decrypted
               PROVE  RefLeft(d, ref)'
    BY <1>0, SameTree DEF Referred
  <2>1. CASE d = target
    BY <1>1, <1>2, <1>3, <2>1 DEF RefLeft
  <2>2. CASE d # target
    <3>1. d \in (visited \cap Dirs) \ tree.broken
      BY <1>0, <2>2
    <3>2. PICK i \in DOMAIN stack : stack[i].dir = d /\ ref \in Items(stack[i].refs)
      BY <3>1 DEF WalkInv, Referred, RefLeft
    <3> QED BY <1>2, <1>3, <3>2 DEF RefLeft
  <2> QED BY <2>1, <2>2
<1>10. Contained'
  BY <1>0, SameTree DEF WalkInv, Contained, Unanimous
<1> QED BY <1>4, <1>6, <1>7, <1>8, <1>9, <1>10 DEF WalkInv

\* The call on top has dealt with some of what it had left.
LEMMA Lessened ==
    ASSUME WalkInv, stack # <<>>, tree' = tree, visited' = visited,
           NEW refs \in Seq(Refs), NEW resources \in Seq(Paths), Continue(refs, resources),
           Items(refs) \subseteq Items(Frame.refs),
           Items(resources) \subseteq Items(Frame.resources),
           pc' = "visit" \/ refs = <<>>
    PROVE  /\ stack' \in Seq(Call) /\ stack' # <<>>
           /\ Calls'
           /\ \A d, c : BaseLeft(d, c)
                 => \/ c \in Items(Frame.resources) \ Items(resources)
                    \/ BaseLeft(d, c)'
           /\ \A d, ref : RefLeft(d, ref)
                 => \/ ref \in Items(Frame.refs) \ Items(refs)
                    \/ RefLeft(d, ref)'
<1> DEFINE n == Len(stack)
<1>1. /\ stack' \in Seq(Call) /\ stack' # <<>> /\ Len(stack') = n
      /\ DOMAIN stack' = DOMAIN stack /\ n \in DOMAIN stack
      /\ \A i \in DOMAIN stack : i # n => stack'[i] = stack[i]
      /\ stack'[n].dir = stack[n].dir /\ stack'[n].refs = refs /\ stack'[n].resources = resources
  BY Continued DEF WalkInv, Typed, Frame
<1>2. \A i \in DOMAIN stack : i # n => i < n
  BY DEF WalkInv, Typed
<1> HIDE DEF n
<1>3. \A i \in DOMAIN stack : stack'[i].dir = stack[i].dir
  BY <1>1
<1>4. Calls'
  <2>1. ASSUME NEW i \in DOMAIN stack
        PROVE  /\ stack'[i].dir \in (visited \cap Reachable) \ tree.broken
               /\ Items(stack'[i].refs) \subseteq RefsOf(stack'[i].dir)
               /\ Items(stack'[i].resources) \subseteq Bases(stack'[i].dir)
               /\ i < n \/ pc' \in {"call", "recurse"} => stack'[i].refs = <<>>
    <3>1. CASE i = n
      <4>1. ~(i < n)
        BY <3>1 DEF WalkInv, Typed, n
      <4> QED BY <1>1, <3>1, <4>1 DEF WalkInv, Calls, Frame, n
    <3>2. CASE i # n
      BY <1>1, <1>2, <3>2 DEF WalkInv, Calls, n
    <3> QED BY <3>1, <3>2
  <2>2. \A i, j \in DOMAIN stack : stack'[i].dir = stack'[j].dir => i = j
    BY <1>3 DEF WalkInv, Calls
  <2>3. Reachable' = Reachable
    BY SameTree
  <2> QED BY <1>1, <2>1, <2>2, <2>3 DEF Calls, RefsOf, Bases
<1>5. ASSUME NEW d, NEW c, NEW i \in DOMAIN stack,
             stack[i].dir = d /\ c \in Items(stack[i].resources)
      PROVE  \/ c \in Items(Frame.resources) \ Items(resources)
             \/ \E k \in DOMAIN stack' : stack'[k].dir = d /\ c \in Items(stack'[k].resources)
  <2>1. CASE i = n
    BY <1>1, <1>5, <2>1 DEF Frame, n
  <2>2. CASE i # n
    BY <1>1, <1>5, <2>2
  <2> QED BY <2>1, <2>2
<1>6. ASSUME NEW d, NEW ref, NEW i \in DOMAIN stack,
             stack[i].dir = d /\ ref \in Items(stack[i].refs)
      PROVE  \/ ref \in Items(Frame.refs) \ Items(refs)
             \/ \E k \in DOMAIN stack' : stack'[k].dir = d /\ ref \in Items(stack'[k].refs)
  <2>1. CASE i = n
    BY <1>1, <1>6, <2>1 DEF Frame, n
  <2>2. CASE i # n
    BY <1>1, <1>6, <2>2
  <2> QED BY <2>1, <2>2
<1>7. ASSUME NEW d, NEW c, BaseLeft(d, c)
      PROVE  c \in Items(Frame.resources) \ Items(resources) \/ BaseLeft(d, c)'
  BY <1>5, <1>7 DEF BaseLeft
<1>8. ASSUME NEW d, NEW ref, RefLeft(d, ref)
      PROVE  ref \in Items(Frame.refs) \ Items(refs) \/ RefLeft(d, ref)'
  BY <1>6, <1>8 DEF RefLeft
<1> QED BY <1>1, <1>4, <1>7, <1>8

\* What is known of the call on top.
LEMMA TopCall ==
    ASSUME WalkInv, stack # <<>>
    PROVE  /\ Len(stack) \in DOMAIN stack
           /\ Frame \in Call /\ Frame.refs \in Seq(Refs) /\ Frame.resources \in Seq(Paths)
           /\ Frame.dir \in (visited \cap Reachable) \ tree.broken
           /\ Items(Frame.refs) \subseteq RefsOf(Frame.dir)
           /\ Items(Frame.resources) \cap Dirs \subseteq Children(Frame.dir)
           /\ pc \in {"call", "recurse"} => Frame.refs = <<>>
<1>1. Len(stack) \in DOMAIN stack /\ Frame \in Call
  BY DEF WalkInv, Typed, Frame
<1>2. Frame.refs \in Seq(Refs) /\ Frame.resources \in Seq(Paths) /\ Frame.dir \in Dirs
  BY <1>1 DEF Call
<1>3. /\ Frame.dir \in (visited \cap Reachable) \ tree.broken
      /\ Items(Frame.refs) \subseteq RefsOf(Frame.dir)
      /\ Items(Frame.resources) \subseteq Bases(Frame.dir)
      /\ pc \in {"call", "recurse"} => Frame.refs = <<>>
  BY <1>1 DEF WalkInv, Calls, Frame
<1>4. Children(Frame.dir) = Bases(Frame.dir) \cap Dirs
  BY <1>2, <1>3, TreeTyped DEF WalkInv
<1> QED BY <1>1, <1>2, <1>3, <1>4

\* The next base is called.
LEMMA RecurseKeeps ==
    ASSUME WalkInv, Recurse
    PROVE  WalkInv'
<1>0. /\ UNCHANGED <<tree, content, visited, decrypted, result>>
      /\ pc = "recurse" /\ pc' = "call" /\ Frame.resources # <<>>
      /\ target' = Head(Frame.resources) /\ Continue(<<>>, Tail(Frame.resources))
  BY DEF Recurse
<1>1. stack # <<>>
  BY <1>0 DEF WalkInv, Typed
<1>2. /\ target' \in Paths /\ Tail(Frame.resources) \in Seq(Paths)
      /\ Items(Frame.resources) = {target'} \cup Items(Tail(Frame.resources))
  BY <1>0, <1>1, TopCall, ItemsOfTail
<1>3. /\ stack' \in Seq(Call) /\ stack' # <<>> /\ Calls'
      /\ \A d, c : BaseLeft(d, c)
            => \/ c = target'
               \/ BaseLeft(d, c)'
      /\ \A d, ref : RefLeft(d, ref)
            => RefLeft(d, ref)'
  <2>1. <<>> \in Seq(Refs) /\ Items(<<>>) = {} /\ Items(Frame.refs) = {}
    BY <1>0, <1>1, TopCall, ItemsOfEmpty
  <2>2. /\ stack' \in Seq(Call) /\ stack' # <<>> /\ Calls'
        /\ \A d, c : BaseLeft(d, c)
              => \/ c \in Items(Frame.resources) \ Items(Tail(Frame.resources))
                 \/ BaseLeft(d, c)'
        /\ \A d, ref : RefLeft(d, ref)
              => \/ ref \in Items(Frame.refs) \ Items(<<>>)
                 \/ RefLeft(d, ref)'
    <3>1. Items(<<>>) \subseteq Items(Frame.refs)
      BY <2>1
    <3>2. Items(Tail(Frame.resources)) \subseteq Items(Frame.resources)
      BY <1>2
    <3>3. tree' = tree /\ visited' = visited
      BY <1>0
    <3> QED BY <1>0, <1>1, <1>2, <2>1, <3>1, <3>2, <3>3, Lessened, Zenon
  <2> QED BY <1>2, <2>1, <2>2
<1>4. Typed'
  BY <1>0, <1>2, <1>3 DEF WalkInv, Typed
<1>5. target' \in Dirs => target' \in Reachable
  <2>1. target' \in Dirs => target' \in Children(Frame.dir)
    BY <1>1, <1>2, TopCall
  <2> QED BY <1>1, <2>1, TopCall, ChildReachable
<1>6. Begun' /\ Entered'
  BY <1>0, <1>3, <1>5, SameTree DEF WalkInv, Begun, Entered
<1>7. Closed'
  BY <1>0, <1>3, SameTree DEF WalkInv, Closed
<1>8. Referred'
  BY <1>0, <1>3, SameTree DEF WalkInv, Referred
<1>9. Contained'
  BY <1>0, SameTree DEF WalkInv, Contained, Unanimous
<1> QED BY <1>3, <1>4, <1>6, <1>7, <1>8, <1>9 DEF WalkInv

\* The call on top has nothing left and returns.
LEMMA ReturnKeeps ==
    ASSUME WalkInv, Return
    PROVE  WalkInv'
<1> DEFINE n == Len(stack)
<1>0. /\ UNCHANGED <<tree, content, target, visited, decrypted>>
      /\ pc = "recurse" /\ Frame.resources = <<>>
      /\ stack' = SubSeq(stack, 1, n - 1)
      /\ n = 1 => pc' = "done" /\ result' = "ok"
      /\ n # 1 => pc' = "recurse" /\ result' = result
  BY DEF Return
<1>1. stack # <<>> /\ stack \in Seq(Call)
  BY <1>0 DEF WalkInv, Typed
<1>2. /\ stack' \in Seq(Call) /\ Len(stack') = n - 1
      /\ DOMAIN stack = 1 .. n /\ DOMAIN stack' = 1 .. n - 1
      /\ n = 1 => stack' = <<>>
      /\ n # 1 => stack' # <<>>
      /\ \A i \in DOMAIN stack' : stack'[i] = stack[i]
  BY <1>0, <1>1, Popped
<1>3. /\ DOMAIN stack' \subseteq DOMAIN stack
      /\ \A i \in DOMAIN stack : i = n \/ (i \in DOMAIN stack' /\ i < n)
  <2>1. n \in Nat
    BY <1>1
  <2> QED BY <1>2, <2>1
<1>4. Items(stack[n].resources) = {} /\ Items(stack[n].refs) = {}
  <2>1. Frame.refs = <<>>
    BY <1>0, <1>1, TopCall
  <2> QED BY <1>0, <2>1, ItemsOfEmpty DEF Frame
<1>5. Typed'
  <2>1. n # 1 => result' # "ok"
    BY <1>0 DEF WalkInv, Typed
  <2>2. /\ pc' \in {"done", "recurse"} /\ (pc' = "recurse" => stack' # <<>>)
        /\ (result' = "ok" => stack' = <<>> /\ pc' = "done")
    BY <1>0, <1>2, <2>1
  <2> QED BY <1>0, <1>2, <2>2 DEF WalkInv, Typed
<1> HIDE DEF n
<1>6. Calls'
  <2>1. \A i \in DOMAIN stack' : stack'[i].refs = <<>>
    BY <1>0, <1>2, <1>3 DEF WalkInv, Calls
  <2>2. Reachable' = Reachable
    BY <1>0, SameTree
  <2> QED BY <1>0, <1>2, <1>3, <2>1, <2>2 DEF WalkInv, Calls, RefsOf, Bases
<1>7. Begun' /\ Entered'
  <2>1. pc' # "call"
    BY <1>0
  <2> QED BY <1>0, <1>1, <2>1 DEF WalkInv, Begun, Entered
<1>8. \A d, c : (BaseLeft(d, c) => BaseLeft(d, c)') /\ (RefLeft(d, c) => RefLeft(d, c)')
  BY <1>2, <1>3, <1>4 DEF BaseLeft, RefLeft
<1>9. Closed' /\ Referred'
  BY <1>0, <1>8, SameTree DEF WalkInv, Closed, Referred
<1>10. Contained'
  BY <1>0, SameTree DEF WalkInv, Contained, Unanimous
<1> QED BY <1>5, <1>6, <1>7, <1>8, <1>9, <1>10 DEF WalkInv

\* The reference that is visited is one of a reachable kustomization file.
LEMMA VisitedIsReferred ==
    ASSUME WalkInv, Visiting
    PROVE  /\ stack # <<>> /\ Reference \in Refs /\ Reference \in References
           /\ Tail(Frame.refs) \in Seq(Refs)
           /\ Items(Frame.refs) = {Reference} \cup Items(Tail(Frame.refs))
<1>1. stack # <<>> /\ Frame.refs # <<>>
  BY DEF WalkInv, Typed, Visiting
<1>2. /\ Reference \in Refs /\ Tail(Frame.refs) \in Seq(Refs)
      /\ Items(Frame.refs) = {Reference} \cup Items(Tail(Frame.refs))
  BY <1>1, TopCall, ItemsOfTail DEF Reference
<1>3. Reference \in RefsOf(Frame.dir) /\ Frame.dir \in Reachable \ tree.broken
  BY <1>1, <1>2, TopCall
<1> QED BY <1>1, <1>2, <1>3 DEF References, RefsOf

\* A reference is dealt with.
LEMMA ReferenceKeeps ==
    ASSUME WalkInv, VisitedReference \/ UnmarkedReference \/ DecryptReference
    PROVE  WalkInv'
<1> DEFINE f == Reference.file
<1>0. /\ UNCHANGED <<tree, target, pc, visited, result>>
      /\ Visiting /\ NextReference /\ f \in Files
      /\ decrypted' = decrypted \cup {f} /\ pc = "visit"
  BY DEF VisitedReference, UnmarkedReference, DecryptReference, Readable, Visiting, WalkInv, Typed
<1>1. /\ stack # <<>> /\ Reference \in Refs /\ Reference \in References
      /\ Tail(Frame.refs) \in Seq(Refs)
      /\ Items(Frame.refs) = {Reference} \cup Items(Tail(Frame.refs))
  BY <1>0, VisitedIsReferred
<1>2. /\ stack' \in Seq(Call) /\ stack' # <<>> /\ Calls'
      /\ \A d, c : BaseLeft(d, c) => BaseLeft(d, c)'
      /\ \A d, ref : RefLeft(d, ref) => ref = Reference \/ RefLeft(d, ref)'
  <2>1. Frame.resources \in Seq(Paths)
    BY <1>1, TopCall
  <2>2. Continue(Tail(Frame.refs), Frame.resources) /\ pc' = "visit" /\ tree' = tree /\ visited' = visited
    BY <1>0 DEF NextReference
  <2>3. Items(Tail(Frame.refs)) \subseteq Items(Frame.refs)
    BY <1>1
  <2>4. /\ stack' \in Seq(Call) /\ stack' # <<>> /\ Calls'
        /\ \A d, c : BaseLeft(d, c)
              => \/ c \in Items(Frame.resources) \ Items(Frame.resources)
                 \/ BaseLeft(d, c)'
        /\ \A d, ref : RefLeft(d, ref)
              => \/ ref \in Items(Frame.refs) \ Items(Tail(Frame.refs))
                 \/ RefLeft(d, ref)'
    BY <1>1, <2>1, <2>2, <2>3, Lessened
  <2> QED BY <1>1, <2>4
<1>3. /\ content' \in [Files -> Contents]
      /\ \A g \in Files : g # f => content'[g] = content[g]
  BY <1>0 DEF VisitedReference, UnmarkedReference, DecryptReference, Contents, WalkInv, Typed
<1>4. Typed'
  BY <1>0, <1>2, <1>3 DEF WalkInv, Typed
<1>5. Begun' /\ Entered'
  <2>1. Top \in visited
    BY <1>0 DEF WalkInv, Begun
  <2> QED BY <1>0, <2>1 DEF Begun, Entered
<1>6. Closed'
  BY <1>0, <1>2, SameTree DEF WalkInv, Closed
<1>7. Referred'
  BY <1>0, <1>2, SameTree DEF WalkInv, Referred
<1>8. Unanimous(f) => content'[f] = "plain"
  <2>1. CASE VisitedReference
    BY <1>0, <2>1 DEF VisitedReference, WalkInv, Contained
  <2>2. CASE UnmarkedReference \/ DecryptReference
    <3>1. f \notin decrypted /\ content[f] = tree.content[f]
      BY <1>0, <2>2 DEF UnmarkedReference, DecryptReference, Readable, WalkInv, Contained
    <3>2. Unanimous(f) => Reference.format = content[f]
      BY <1>1, <3>1 DEF Unanimous
    <3>3. Unanimous(f) => Marked(f, Reference.format)
      BY <3>2 DEF Marked
    <3>4. content \in [Files -> Contents]
      BY DEF WalkInv, Typed
    <3> QED BY <1>0, <2>2, <3>2, <3>3, <3>4 DEF UnmarkedReference, DecryptReference
  <2> QED BY <2>1, <2>2
<1>9. Contained'
  <2>1. \A g \in Files : Unanimous(g)' = Unanimous(g)
    BY <1>0, SameTree DEF Unanimous
  <2>2. ASSUME NEW g \in Files
        PROVE  /\ g \notin decrypted' => content'[g] = tree'.content[g]
               /\ g \in decrypted' /\ Unanimous(g) => content'[g] = "plain"
    BY <1>0, <1>3, <1>8 DEF WalkInv, Contained
  <2> QED BY <2>1, <2>2 DEF Contained
<1> QED BY <1>2, <1>4, <1>5, <1>6, <1>7, <1>9 DEF WalkInv

\* Every step keeps the invariant.
LEMMA NextWalk == WalkInv /\ [Next]_vars => WalkInv'
<1> SUFFICES ASSUME WalkInv, [Next]_vars PROVE WalkInv'
  OBVIOUS
<1>1. CASE ShortCircuit \/ VisitDone
  BY <1>1, QuietKeeps DEF ShortCircuit, VisitDone
<1>2. CASE BadReference \/ DecryptFails
  BY <1>2, QuietKeeps DEF BadReference, DecryptFails, Readable, Visiting, Abort
<1>3. CASE NotADirectory \/ LoadFails
  BY <1>3, NotADirectoryKeeps
<1>4. CASE Load
  BY <1>4, LoadKeeps
<1>5. CASE Recurse
  BY <1>5, RecurseKeeps
<1>6. CASE Return
  BY <1>6, ReturnKeeps
<1>7. CASE VisitedReference \/ UnmarkedReference \/ DecryptReference
  BY <1>7, ReferenceKeeps
<1>8. CASE UNCHANGED vars
  <2>1. UNCHANGED <<tree, content, stack, target, pc, visited, decrypted, result>>
    BY <1>8 DEF vars
  <2>2. Typed' /\ Begun' /\ Entered'
    BY <2>1, SameTree DEF WalkInv, Typed, Begun, Entered
  <2>3. Calls'
    BY <2>1, SameTree DEF WalkInv, Calls
  <2>4. Closed' /\ Referred'
    BY <2>1, SameTree DEF WalkInv, Closed, Referred, BaseLeft, RefLeft
  <2>5. Contained'
    BY <2>1, SameTree DEF WalkInv, Contained, Unanimous
  <2> QED BY <2>2, <2>3, <2>4, <2>5 DEF WalkInv
<1> QED BY <1>1, <1>2, <1>3, <1>4, <1>5, <1>6, <1>7, <1>8 DEF Next

-----------------------------------------------------------------------------
(* Theorems.                                                               *)

\* The invariant of recurseKustomizationFiles and decryptKustomizationSources.
THEOREM WalkInvariant == Spec => []WalkInv
BY InitWalk, NextWalk, PTL DEF Spec

\* When DecryptSources succeeds, everything below .spec.path was visited and what
\* it refers to in the right format is plain text: with nothing left on the
\* stack, the visited directories hold Top and their own children.
THEOREM WalkIsComplete == Spec => []SourcesDecrypted
<1>1. WalkInv => SourcesDecrypted
  <2> SUFFICES ASSUME WalkInv, result = "ok" PROVE SourcesDecrypted
    BY DEF SourcesDecrypted
  <2>1. stack = <<>> /\ pc = "done"
    BY DEF WalkInv, Typed
  <2>2. \A d, c : ~BaseLeft(d, c) /\ ~RefLeft(d, c)
    BY <2>1 DEF BaseLeft, RefLeft
  <2>3. Reachable \subseteq visited \cap Dirs
    <3> DEFINE s == visited \cap Dirs
    <3>1. s \in SUBSET Dirs
      OBVIOUS
    <3>2. Top \in s
      BY <2>1, TreesAssumption DEF WalkInv, Begun
    <3>3. \A x \in s : Children(x) \subseteq s
      <4>1. \A x \in s : Children(x) \subseteq Dirs
        BY DEF Children
      <4>2. \A x \in s : Children(x) \subseteq visited
        BY <2>1, <2>2 DEF WalkInv, Closed
      <4> QED BY <4>1, <4>2
    <3> HIDE DEF s
    <3>4. Reachable \subseteq s
      BY <3>1, <3>2, <3>3, ReachableLeast
    <3> QED BY <3>4 DEF s
  <2>4. ASSUME NEW ref \in References PROVE ref.file \in decrypted
    <3>1. PICK d \in Reachable \ tree.broken : ref \in RefsOf(d)
      BY DEF References, RefsOf
    <3>2. d \in (visited \cap Dirs) \ tree.broken
      BY <2>3, <3>1
    <3> QED BY <2>2, <3>1, <3>2 DEF WalkInv, Referred
  <2>5. ASSUME NEW f \in Files, \E ref \in References : ref.file = f, Unanimous(f)
        PROVE  content[f] = "plain"
    BY <2>4, <2>5 DEF WalkInv, Contained
  <2> QED BY <2>3, <2>5 DEF SourcesDecrypted, Unanimous
<1> QED BY <1>1, WalkInvariant, PTL

\* The recursion is never deeper than there are directories: the active calls
\* are for different ones.
THEOREM RecursionIsBounded == Spec => []DepthBounded
<1>1. WalkInv => DepthBounded
  <2> SUFFICES ASSUME WalkInv PROVE DepthBounded
    OBVIOUS
  <2> DEFINE n == Len(stack)
             f == [i \in 1 .. n |-> stack[i].dir]
  <2>1. n \in Nat /\ DOMAIN stack = 1 .. n /\ \A i \in 1 .. n : stack[i] \in Call
    BY DEF WalkInv, Typed
  <2> HIDE DEF n
  <2>2. f \in [1 .. n -> Dirs]
    BY <2>1 DEF Call
  <2>3. \A i, j \in 1 .. n : f[i] = f[j] => i = j
    BY <2>1 DEF WalkInv, Calls
  <2> HIDE DEF f
  <2>4. f \in Injection(1 .. n, Dirs)
    BY <2>2, <2>3 DEF Injection, IsInjective
  <2>5. IsFiniteSet(1 .. n) /\ Cardinality(1 .. n) = n
    BY <2>1, FS_Interval
  <2>6. Cardinality(1 .. n) <= Cardinality(Dirs)
    BY <2>4, TreesAssumption, FS_Injection
  <2> QED BY <2>5, <2>6 DEF DepthBounded, n
<1> QED BY <1>1, WalkInvariant, PTL

\* Only an encrypted file that a reachable kustomization file refers to changes.
THEOREM OnlyReferences == Spec => OnlyReferencesChange
<1>1. ASSUME WalkInv, [Next]_vars
      PROVE  [\A f \in Files : content'[f] # content[f] =>
                 /\ content[f] \in Formats
                 /\ \E ref \in References : ref.file = f]_vars
  <2> SUFFICES ASSUME Next, NEW f \in Files, content'[f] # content[f]
               PROVE  content[f] \in Formats /\ \E ref \in References : ref.file = f
    BY <1>1
  <2>1. DecryptReference
    BY DEF Next, ShortCircuit, NotADirectory, LoadFails, Load, Recurse, Return,
           VisitedReference, BadReference, UnmarkedReference, DecryptFails, VisitDone
  <2>2. f = Reference.file /\ Visiting /\ Marked(f, Reference.format)
    BY <1>1, <2>1 DEF DecryptReference, Readable, WalkInv, Typed
  <2>3. Reference \in Refs /\ Reference \in References
    BY <1>1, <2>2, VisitedIsReferred
  <2>4. content[f] \in Formats
    BY <2>2, <2>3, TreesAssumption DEF Marked, Refs
  <2> QED BY <2>2, <2>3, <2>4
<1> QED BY <1>1, WalkInvariant, PTL DEF OnlyReferencesChange, Spec
=============================================================================
