-------------------------- MODULE FileSystemProofs --------------------------
(***************************************************************************)
(* Proofs about the file system in memory: whatever programs make, link,   *)
(* move, remove, open and write, the nodes stay well formed, the entries   *)
(* of the directories account for every file and directory, a path without *)
(* its links leads where it led with them, what a call made is under the   *)
(* name it was given, and nothing drops out of the tree but by removals.   *)
(***************************************************************************)
EXTENDS FileSystem, FiniteSetTheorems, SequenceTheorems, TLAPS

-----------------------------------------------------------------------------
(* Functions that are defined by recursion on a number.                    *)

LEMMA Least ==
  ASSUME NEW T, T \subseteq Nat, T # {}
  PROVE  \E j \in T : \A o \in T : j <= o
<1> DEFINE R == OpToRel(<, Nat)
<1>1. IsWellFoundedOn(R, Nat)
  BY NatLessThanWellFounded
<1>2. \A a, b \in Nat : a < b => <<a, b>> \in R
  BY DEF OpToRel
<1> HIDE DEF R
<1>3. PICK j \in T : \A o \in T : ~ (<<o, j>> \in R)
  BY <1>1, WFMin
<1>4. ASSUME NEW o \in T PROVE j <= o
  <2>1. o \in Nat /\ j \in Nat /\ ~(o < j)
    BY <1>2, <1>3
  <2> QED
    BY <2>1
<1> QED
  BY <1>4

LEMMA Climb ==
  ASSUME NEW N \in Nat, NEW T, 0 \in T, \A n \in 1..N : n - 1 \in T => n \in T
  PROVE  \A n \in 0..N : n \in T
<1> DEFINE Out == {n \in 0..N : n \notin T}
<1> SUFFICES ASSUME Out # {} PROVE FALSE
  OBVIOUS
<1>1. Out \subseteq Nat
  OBVIOUS
<1>2. PICK n \in Out : \A o \in Out : n <= o
  BY <1>1, Least
<1>3. n \in 1..N
  BY <1>2
<1>4. n - 1 \in 0..N /\ ~ (n <= n - 1)
  BY <1>3
<1> QED
  BY <1>2, <1>3, <1>4

LEMMA Descend ==
  ASSUME NEW N \in Nat, NEW T, N \in T, \A n \in 0..(N - 1) : n + 1 \in T => n \in T
  PROVE  \A n \in 0..N : n \in T
<1> DEFINE U == {m \in 0..N : N - m \in T}
<1>1. 0 \in U
  OBVIOUS
<1>2. ASSUME NEW m \in 1..N, m - 1 \in U PROVE m \in U
  <2>1. N - m \in 0..(N - 1) /\ N - m + 1 = N - (m - 1)
    OBVIOUS
  <2> QED
    BY <1>2, <2>1
<1>3. \A m \in 0..N : m \in U
  <2> HIDE DEF U
  <2> QED
    BY <1>1, <1>2, Climb
<1>4. ASSUME NEW n \in 0..N PROVE n \in T
  <2>1. N - n \in 0..N /\ N - (N - n) = n
    OBVIOUS
  <2>2. N - n \in U
    BY <1>3, <2>1
  <2> QED
    BY <2>1, <2>2
<1> QED
  BY <1>4

\* Each value of g follows from the one before, or from the one after.
Up(S, s, F, N, g) ==
  g \in [0..N -> S] /\ g[0] = s /\ \A n \in 1..N : g[n] = F[n][g[n - 1]]
Down(S, s, F, N, g) ==
  g \in [0..N -> S] /\ g[N] = s /\ \A n \in 0..(N - 1) : g[n] = F[n][g[n + 1]]

LEMMA UpExists ==
  ASSUME NEW S, NEW s, s \in S, NEW F, F \in [Nat -> [S -> S]], NEW N, N \in Nat
  PROVE  \E g : Up(S, s, F, N, g)
<1> DEFINE Good(n, g) == g[0] = s /\ \A k \in 1..n : g[k] = F[k][g[k - 1]]
           T == {n \in Nat : \E g \in [0..n -> S] : Good(n, g)}
<1>1. 0 \in T
  <2> DEFINE g == [i \in 0..0 |-> s]
  <2>1. g \in [0..0 -> S] /\ Good(0, g)
    OBVIOUS
  <2> QED
    BY <2>1
<1>2. ASSUME NEW n \in 1..N, n - 1 \in T PROVE n \in T
  <2>1. PICK f \in [0..(n - 1) -> S] : Good(n - 1, f)
    BY <1>2
  <2> DEFINE g == [i \in 0..n |-> IF i = n THEN F[n][f[n - 1]] ELSE f[i]]
  <2>2. n - 1 \in 0..(n - 1) /\ n \in Nat /\ n \in 0..n /\ n - 1 # n
    OBVIOUS
  <2>3. F[n][f[n - 1]] \in S
    <3>1. f[n - 1] \in S /\ F[n] \in [S -> S]
      BY <2>2
    <3> QED
      BY <3>1
  <2>4. \A i \in 0..n : i # n => i \in 0..(n - 1)
    BY <2>2
  <2>5. g \in [0..n -> S]
    BY <2>3, <2>4
  <2>6. 0 \in 0..n /\ 0 # n
    BY <2>2
  <2>7. g[0] = s
    BY <2>1, <2>6
  <2>8. ASSUME NEW k \in 1..n PROVE g[k] = F[k][g[k - 1]]
    <3>1. k \in 0..n /\ k - 1 \in 0..n /\ k - 1 # n
      BY <2>2
    <3>2. g[k - 1] = f[k - 1]
      BY <3>1
    <3>3. CASE k = n
      BY <3>1, <3>2, <3>3
    <3>4. CASE k # n
      <4>1. k \in 1..(n - 1)
        BY <3>4, <2>2
      <4>2. f[k] = F[k][f[k - 1]]
        BY <2>1, <4>1
      <4> QED
        BY <3>1, <3>2, <3>4, <4>2
    <3> QED
      BY <3>3, <3>4
  <2>9. Good(n, g)
    <3> HIDE DEF g
    <3> QED
      BY <2>7, <2>8
  <2> HIDE DEF g, Good
  <2> QED
    BY <2>2, <2>5, <2>9
<1>3. N \in T
  <2> HIDE DEF T
  <2>1. N \in 0..N
    OBVIOUS
  <2> QED
    BY <1>1, <1>2, <2>1, Climb
<1> QED
  BY <1>3 DEF Up

LEMMA DownExists ==
  ASSUME NEW S, NEW s, s \in S, NEW F, F \in [Nat -> [S -> S]], NEW N, N \in Nat
  PROVE  \E g : Down(S, s, F, N, g)
<1> DEFINE back(n) == IF n <= N THEN N - n ELSE 0
           H == [n \in Nat |-> F[back(n)]]
<1>1. \A n \in Nat : back(n) \in Nat
  OBVIOUS
<1>2. H \in [Nat -> [S -> S]]
  BY <1>1
<1>3. \A n \in 0..N : H[n] = F[N - n]
  OBVIOUS
<1> HIDE DEF H
<1> HIDE DEF back
<1>4. PICK h : Up(S, s, H, N, h)
  BY <1>2, UpExists
<1> DEFINE g == [n \in 0..N |-> h[N - n]]
<1>5. \A n \in 0..N : N - n \in 0..N
  OBVIOUS
<1>6. g \in [0..N -> S]
  BY <1>4, <1>5 DEF Up
<1>7. N \in 0..N /\ N - N = 0
  OBVIOUS
<1>8. g[N] = s
  BY <1>4, <1>7 DEF Up
<1>9. ASSUME NEW n \in 0..(N - 1) PROVE g[n] = F[n][g[n + 1]]
  <2>1. /\ n \in 0..N /\ n + 1 \in 0..N /\ N - n \in 1..N
        /\ N - (n + 1) = N - n - 1 /\ N - (N - n) = n
    OBVIOUS
  <2>2. g[n] = h[N - n] /\ g[n + 1] = h[N - n - 1]
    BY <2>1
  <2>3. h[N - n] = H[N - n][h[N - n - 1]]
    BY <1>4, <2>1 DEF Up
  <2>4. H[N - n] = F[n]
    BY <1>3, <2>1, <1>5
  <2> HIDE DEF g
  <2> QED
    BY <2>2, <2>3, <2>4
<1> HIDE DEF g
<1>10. Down(S, s, F, N, g)
  BY <1>6, <1>8, <1>9 DEF Down
<1> QED
  BY <1>10

-----------------------------------------------------------------------------
(* Paths.                                                                  *)

LEMMA SeqWithin ==
  ASSUME NEW S, NEW T, NEW s \in Seq(S), \A i \in 1..Len(s) : s[i] \in T
  PROVE  s \in Seq(T)
<1>1. s \in [1..Len(s) -> T] /\ Len(s) \in Nat
  OBVIOUS
<1> QED
  BY <1>1, SeqDef

LEMMA NamesAreParts ==
  Name \subseteq Part /\ Part \subseteq STRING /\ Seq(Name) \subseteq Seq(Part)
<1>2. Name \subseteq Part /\ Part \subseteq STRING
  BY FileSystemAssumption DEF Part
<1>3. ASSUME NEW s \in Seq(Name) PROVE s \in Seq(Part)
  BY <1>2, SeqMonotonic
<1> QED
  BY <1>2, <1>3

LEMMA CleanStepIsPath ==
  ASSUME NEW path \in Seq(Name), NEW part \in Part
  PROVE  CleanStep(path, part) \in Seq(Name)
<1>1. CASE part = "."
  BY <1>1 DEF CleanStep
<1>2. CASE part = ".."
  <2>1. CASE path = <<>>
    BY <1>2, <2>1 DEF CleanStep
  <2>2. CASE path # <<>>
    <3>1. Front(path) \in Seq(Name)
      BY <2>2 DEF Front
    <3>2. CleanStep(path, part) = Front(path)
      BY <1>2, <2>2 DEF CleanStep
    <3> QED
      BY <3>1, <3>2
  <2> QED
    BY <2>1, <2>2
<1>3. CASE part \notin {".", ".."}
  <2>1. part \in Name
    BY <1>3 DEF Part
  <2>2. CleanStep(path, part) = Append(path, part)
    BY <1>3 DEF CleanStep
  <2> QED
    BY <2>1, <2>2
<1> QED
  BY <1>1, <1>2, <1>3

\* A path is resolved to names: nothing in it is "." or "..".
LEMMA CleanIsPath ==
  ASSUME NEW parts \in Seq(Part)
  PROVE  Clean(parts) \in Seq(Name)
<1> DEFINE N == Len(parts)
           S == Seq(Name)
           F == [n \in Nat |-> [x \in S |-> IF n \in 1..N THEN CleanStep(x, parts[n]) ELSE x]]
           Is(f) == f = [n \in 0..N |-> IF n = 0 THEN <<>> ELSE CleanStep(f[n - 1], parts[n])]
           clean == CHOOSE f : Is(f)
<1>0. N \in Nat /\ <<>> \in S
  OBVIOUS
<1>1. \A n \in 1..N : \A x \in S : CleanStep(x, parts[n]) \in S
  <2> TAKE n \in 1..N
  <2> TAKE x \in S
  <2>1. parts[n] \in Part
    OBVIOUS
  <2> QED
    BY <2>1, CleanStepIsPath
<1> HIDE DEF N, S
<1>2. F \in [Nat -> [S -> S]]
  BY <1>1
<1>3. \A n \in 1..N : \A x \in S : F[n][x] = CleanStep(x, parts[n])
  BY <1>0
<1> HIDE DEF F
<1>4. PICK g : Up(S, <<>>, F, N, g)
  BY <1>0, <1>2, UpExists
<1>5. ASSUME NEW n \in 1..N PROVE g[n] = CleanStep(g[n - 1], parts[n])
  <2>1. n - 1 \in 0..N
    BY <1>0
  <2>2. g[n - 1] \in S
    BY <1>4, <2>1 DEF Up
  <2> QED
    BY <1>3, <1>4, <2>2 DEF Up
<1>6. Is(g)
  <2>1. \A n \in 0..N : n = 0 \/ n \in 1..N
    BY <1>0
  <2>2. \A n \in 0..N : g[n] = IF n = 0 THEN <<>> ELSE CleanStep(g[n - 1], parts[n])
    BY <1>4, <1>5, <2>1 DEF Up
  <2>3. g = [n \in 0..N |-> g[n]]
    BY <1>4 DEF Up
  <2> QED
    BY <2>2, <2>3
<1>7. Is(clean)
  <2> HIDE DEF Is
  <2> QED
    BY <1>6
<1>8. Clean(parts) = clean[N]
  BY DEF Clean, N
<1>9. clean[0] = <<>> /\ \A n \in 1..N : clean[n] = CleanStep(clean[n - 1], parts[n])
  <2> HIDE DEF clean
  <2>1. 0 \in 0..N /\ \A n \in 1..N : n \in 0..N /\ n # 0
    BY <1>0
  <2> QED
    BY <1>7, <2>1
<1> HIDE DEF clean
<1>10. \A n \in 0..N : clean[n] \in S
  <2> DEFINE T == {n \in 0..N : clean[n] \in S}
  <2>1. 0 \in T
    BY <1>0, <1>9
  <2>2. \A n \in 1..N : n - 1 \in T => n \in T
    BY <1>0, <1>1, <1>9
  <2>3. \A n \in 0..N : n \in T
    <3> HIDE DEF T
    <3> QED
      BY <1>0, <2>1, <2>2, Climb
  <2> QED
    BY <2>3
<1> QED
  BY <1>0, <1>8, <1>10 DEF S

LEMMA NilIsNoError ==
  /\ nil # "permission" /\ nil # "link" /\ nil # "notDirectory" /\ nil # "notExist"
  /\ nil # "notEmpty" /\ nil # "tooManySymlinks" /\ nil # "exist" /\ nil # "isDirectory"
  /\ nil # "invalid" /\ nil # "busy" /\ nil # "closed" /\ nil # "badFD" /\ nil # "EOF"
BY Zenon DEF nil

\* A path at or below the root, as a call resolves it.
InRoot(path) == path \in Seq(Name) /\ IsPrefix(Root, path)

LEMMA ResolvePathIsInRoot ==
  ASSUME NEW dir \in Seq(Name), NEW path \in Target
  PROVE  /\ ResolvePath(dir, path).err \in {nil, "permission"}
         /\ ResolvePath(dir, path).err = nil => InRoot(ResolvePath(dir, path).path)
<1> DEFINE parts == IF path.abs THEN path.parts ELSE dir \o path.parts
<1>1. path.parts \in Seq(Part) /\ path.abs \in BOOLEAN
  BY DEF Target
<1>2. dir \in Seq(Part)
  BY NamesAreParts
<1>3. dir \o path.parts \in Seq(Part)
  BY <1>1, <1>2, ConcatProperties
<1>4. parts \in Seq(Part)
  BY <1>1, <1>3
<1>5. ResolvePath(dir, path) =
        [err |-> IF IsPrefix(Root, Clean(parts)) THEN nil ELSE "permission",
         path |-> Clean(parts)]
  BY DEF ResolvePath, WithinRoot
<1> HIDE DEF parts
<1>6. Clean(parts) \in Seq(Name)
  BY <1>4, CleanIsPath
<1> QED
  BY <1>5, <1>6, NilIsNoError DEF InRoot

LEMMA RelativeIsTarget ==
  ASSUME NEW path \in Paths
  PROVE  /\ relative(path) \in Target
         /\ Resolved(relative(path)).err \in {nil, "permission"}
         /\ Resolved(relative(path)).err = nil => InRoot(Resolved(relative(path)).path)
<1>1. relative(path) \in Target
  BY FileSystemAssumption DEF relative, Target
<1>2. Root \in Seq(Name)
  BY FileSystemAssumption
<1> QED
  BY <1>1, <1>2, ResolvePathIsInRoot DEF Resolved

LEMMA BelowRoot ==
  ASSUME NEW path, InRoot(path), path # Root
  PROVE  path # <<>> /\ Front(path) \in Seq(Name) /\ Last(path) \in Name
<1>1. /\ Root \in Seq(Name) /\ path \in Seq(Name) /\ Len(Root) <= Len(path)
      /\ SubSeq(Root, 1, Len(Root)) = SubSeq(path, 1, Len(Root))
  BY FileSystemAssumption DEF InRoot, IsPrefix
<1>2. path # <<>>
  <2> SUFFICES ASSUME path = <<>> PROVE FALSE
    OBVIOUS
  <2>1. Len(Root) = 0
    BY <1>1
  <2>2. Root = <<>>
    BY <1>1, <2>1
  <2> QED
    BY <2>2
<1> QED
  BY <1>1, <1>2 DEF Front, Last
-----------------------------------------------------------------------------
(* Nodes.                                                                  *)

NodeOK(nodes, i) ==
  LET names == DOMAIN nodes[i].children IN
  /\ nodes[i] \in Nodes({nodes[i].children})
  /\ names \subseteq Name /\ nodes[i].children \in [names -> DOMAIN nodes \ {1}]
  /\ nodes[i].kind # "directory" => names = {}
  /\ nodes[i].kind # "regular" => nodes[i].data = <<>>

LEMMA NodesAreOK ==
  ASSUME NEW nodes, NodesOK(nodes)
  PROVE  /\ Len(nodes) \in Nat /\ DOMAIN nodes = 1..Len(nodes) /\ 1 \in DOMAIN nodes
         /\ nodes[1].kind = "directory"
         /\ \A i \in DOMAIN nodes : NodeOK(nodes, i)
<1> DEFINE S == Nodes({nodes[i].children : i \in DOMAIN nodes})
<1>1. nodes \in Seq(S) /\ nodes # <<>>
  BY DEF NodesOK
<1> HIDE DEF S
<1>2. Len(nodes) \in Nat /\ DOMAIN nodes = 1..Len(nodes) /\ 1 \in DOMAIN nodes
  BY <1>1
<1>3. ASSUME NEW i \in DOMAIN nodes PROVE nodes[i] \in Nodes({nodes[i].children})
  <2>1. nodes[i] \in S
    BY <1>1, <1>2
  <2> QED
    BY <2>1 DEF Nodes, S
<1> QED
  BY <1>2, <1>3 DEF NodesOK, NodeOK

LEMMA OKAreNodes ==
  ASSUME NEW n \in Nat, n # 0, NEW nodes, nodes = [i \in 1..n |-> nodes[i]],
         nodes[1].kind = "directory", \A i \in 1..n : NodeOK(nodes, i)
  PROVE  NodesOK(nodes) /\ Len(nodes) = n
<1> DEFINE S == Nodes({nodes[i].children : i \in DOMAIN nodes})
<1>1. DOMAIN nodes = 1..n
  OBVIOUS
<1>2. \A i \in 1..n : nodes[i] \in S
  BY <1>1 DEF NodeOK, Nodes
<1> HIDE DEF S
<1>3. nodes \in [1..n -> S]
  BY <1>2
<1>4. nodes \in Seq(S)
  BY <1>3, SeqDef
<1>5. Len(nodes) = n
  BY <1>4, <1>1, LenProperties
<1>6. nodes # <<>>
  BY <1>5, EmptySeq
<1> QED
  BY <1>1, <1>4, <1>5, <1>6 DEF NodesOK, NodeOK, S

-----------------------------------------------------------------------------
(* Lookups.                                                                *)

LookupErrors == {nil, "link", "permission", "notDirectory", "notExist", "tooManySymlinks"}

\* What a lookup answers: a node, which is no symbolic link if it follows them.
Answers(nodes, follow) ==
  {a \in [err : LookupErrors, ino : Nat, path : Seq(STRING)] :
     a.err = nil => /\ a.ino \in DOMAIN nodes /\ a.path \in Seq(Name)
                    /\ follow => nodes[a.ino].kind # "symlink"}

LEMMA NamesAreStrings == Seq(Name) \subseteq Seq(STRING)
<1>1. Name \subseteq STRING
  BY NamesAreParts
<1>2. ASSUME NEW s \in Seq(Name) PROVE s \in Seq(STRING)
  BY <1>1, SeqMonotonic
<1> QED
  BY <1>2

LEMMA MissingAnswers ==
  ASSUME NEW nodes, NEW follow, NEW err \in LookupErrors \ {nil}
  PROVE  Missing(err) \in Answers(nodes, follow)
<1>1. <<>> \in Seq(STRING)
  OBVIOUS
<1> QED
  BY <1>1 DEF Missing, Answers

LEMMA ToLinkAnswers ==
  ASSUME NEW nodes, NEW follow, NEW path \in Seq(STRING)
  PROVE  ToLink(path) \in Answers(nodes, follow)
BY NilIsNoError DEF ToLink, Answers, LookupErrors

LEMMA FoundAnswers ==
  ASSUME NEW nodes, NodesOK(nodes), NEW follow, NEW ino \in DOMAIN nodes,
         NEW path \in Seq(Name), follow => nodes[ino].kind # "symlink"
  PROVE  Found(ino, path) \in Answers(nodes, follow)
<1>1. ino \in Nat /\ path \in Seq(STRING)
  BY NodesAreOK, NamesAreStrings
<1> QED
  BY <1>1 DEF Found, Answers, LookupErrors

LEMMA ChildIsNode ==
  ASSUME NEW nodes, NodesOK(nodes), NEW i \in DOMAIN nodes,
         NEW name \in DOMAIN nodes[i].children
  PROVE  /\ name \in Name /\ nodes[i].kind = "directory"
         /\ nodes[i].children[name] \in DOMAIN nodes /\ nodes[i].children[name] # 1
<1>1. NodeOK(nodes, i)
  BY NodesAreOK
<1> QED
  BY <1>1 DEF NodeOK

LEMMA TargetIsTarget ==
  ASSUME NEW nodes, NodesOK(nodes), NEW i \in DOMAIN nodes
  PROVE  nodes[i].target \in Target
<1>1. nodes[i] \in Nodes({nodes[i].children})
  BY NodesAreOK DEF NodeOK
<1> QED
  BY <1>1 DEF Nodes

LEMMA LookupStepAnswers ==
  ASSUME NEW nodes, NodesOK(nodes), NEW follow \in BOOLEAN, NEW at \in Answers(nodes, FALSE),
         at.err = nil, NEW parts \in Seq(STRING), NEW n \in 1..Len(parts)
  PROVE  LookupStep(nodes, at, parts, n, follow) \in Answers(nodes, follow)
<1> DEFINE child  == nodes[at.ino].children[parts[n]]
           target == ResolvePath(at.path, nodes[child].target)
           rest   == SubSeq(parts, n + 1, Len(parts))
<1>1. at.ino \in DOMAIN nodes /\ at.path \in Seq(Name)
  BY DEF Answers
<1>2. CASE nodes[at.ino].kind # "directory"
  <2>1. LookupStep(nodes, at, parts, n, follow) = Missing("notDirectory")
    BY <1>2 DEF LookupStep
  <2> QED
    BY <2>1, MissingAnswers, NilIsNoError DEF LookupErrors
<1>3. CASE nodes[at.ino].kind = "directory" /\ parts[n] \notin DOMAIN nodes[at.ino].children
  <2>1. LookupStep(nodes, at, parts, n, follow) = Missing("notExist")
    BY <1>3 DEF LookupStep
  <2> QED
    BY <2>1, MissingAnswers, NilIsNoError DEF LookupErrors
<1>4. CASE nodes[at.ino].kind = "directory" /\ parts[n] \in DOMAIN nodes[at.ino].children
  <2>1. parts[n] \in Name /\ child \in DOMAIN nodes
    BY <1>1, <1>4, ChildIsNode
  <2>2. CASE nodes[child].kind # "symlink" \/ (n = Len(parts) /\ ~follow)
    <3>1. LookupStep(nodes, at, parts, n, follow) = Found(child, Append(at.path, parts[n]))
      BY <1>4, <2>2 DEF LookupStep
    <3>2. Append(at.path, parts[n]) \in Seq(Name)
      BY <1>1, <2>1, AppendProperties
    <3>3. follow => nodes[child].kind # "symlink"
      BY <2>2
    <3> HIDE DEF child
    <3> QED
      BY <2>1, <3>1, <3>2, <3>3, FoundAnswers
  <2>3. CASE ~(nodes[child].kind # "symlink" \/ (n = Len(parts) /\ ~follow))
    <3>1. LookupStep(nodes, at, parts, n, follow) =
            IF target.err # nil THEN Missing(target.err) ELSE ToLink(target.path \o rest)
      BY <1>4, <2>3 DEF LookupStep, ThroughLink
    <3>2. nodes[child].target \in Target
      BY <2>1, TargetIsTarget
    <3>3. target.err \in {nil, "permission"} /\ (target.err = nil => target.path \in Seq(Name))
      BY <1>1, <3>2, ResolvePathIsInRoot DEF InRoot
    <3>4. rest \in Seq(STRING)
      <4>1. n + 1 \in Int /\ Len(parts) \in Int
        OBVIOUS
      <4>2. \A i \in (n + 1)..Len(parts) : parts[i] \in STRING
        <5>1. \A i \in (n + 1)..Len(parts) : i \in 1..Len(parts)
          BY <4>1
        <5> QED
          BY <5>1, ElementOfSeq
      <4> QED
        BY <4>1, <4>2, SubSeqProperties
    <3> HIDE DEF target, rest
    <3>5. CASE target.err # nil
      BY <3>1, <3>3, <3>5, MissingAnswers DEF LookupErrors
    <3>6. CASE target.err = nil
      <4>1. target.path \in Seq(STRING)
        BY <3>3, <3>6, NamesAreStrings
      <4>2. target.path \o rest \in Seq(STRING)
        BY <3>4, <4>1, ConcatProperties
      <4> QED
        BY <3>1, <3>6, <4>2, ToLinkAnswers
    <3> QED
      BY <3>5, <3>6
  <2> QED
    BY <2>2, <2>3
<1> QED
  BY <1>2, <1>3, <1>4

LEMMA AnswersWeaken ==
  ASSUME NEW nodes, NEW follow \in BOOLEAN, NEW at \in Answers(nodes, follow)
  PROVE  at \in Answers(nodes, FALSE)
BY DEF Answers

LEMMA RestIsPath ==
  ASSUME NEW S, NEW path \in Seq(S)
  PROVE  SubSeq(path, Len(Root) + 1, Len(path)) \in Seq(S)
<1>1. Len(Root) \in Nat /\ Len(path) \in Nat
  BY FileSystemAssumption
<1>2. \A i \in (Len(Root) + 1)..Len(path) : path[i] \in S
  <2>1. \A i \in (Len(Root) + 1)..Len(path) : i \in 1..Len(path)
    BY <1>1
  <2> QED
    BY <2>1, ElementOfSeq
<1> QED
  BY <1>1, <1>2, SubSeqProperties

\* The places a lookup comes to, name by name.
Walk(nodes, parts, follow, walk) ==
  /\ walk \in [0..Len(parts) -> Answers(nodes, follow)]
  /\ walk[0] = Found(1, Root)
  /\ \A n \in 1..Len(parts) :
       walk[n] = IF walk[n - 1].err # nil THEN walk[n - 1]
                 ELSE LookupStep(nodes, walk[n - 1], parts, n, follow)

LEMMA LookupWalks ==
  ASSUME NEW nodes, NodesOK(nodes), NEW follow \in BOOLEAN, NEW path \in Seq(STRING)
  PROVE  \E walk : /\ Walk(nodes, PartsBelowRoot(path), follow, walk)
                   /\ LookupUntilLink(nodes, path, follow) = walk[Len(PartsBelowRoot(path))]
<1> DEFINE parts == SubSeq(path, Len(Root) + 1, Len(path))
           N == Len(parts)
           S == Answers(nodes, follow)
           step(at, n) == IF at.err # nil THEN at ELSE LookupStep(nodes, at, parts, n, follow)
           F == [n \in Nat |-> [x \in S |-> IF n \in 1..N THEN step(x, n) ELSE x]]
           Is(f) == f = [n \in 0..N |-> IF n = 0 THEN Found(1, Root)
                                        ELSE LET at == f[n - 1] IN
                                             IF at.err # nil THEN at
                                             ELSE LookupStep(nodes, at, parts, n, follow)]
           walk == CHOOSE f : Is(f)
<1>0. parts \in Seq(STRING) /\ N \in Nat
  BY RestIsPath
<1> HIDE DEF parts
<1>1. Found(1, Root) \in S
  <2>1. 1 \in DOMAIN nodes /\ nodes[1].kind # "symlink" /\ Root \in Seq(Name)
    BY NodesAreOK, FileSystemAssumption
  <2> QED
    BY <2>1, FoundAnswers
<1>2. ASSUME NEW x \in S, NEW n \in 1..N PROVE step(x, n) \in S
  BY <1>0, AnswersWeaken, LookupStepAnswers
<1>3. LookupUntilLink(nodes, path, follow) = walk[N]
  BY DEF LookupUntilLink, PartsBelowRoot, parts
<1> HIDE DEF N, S
<1>4. F \in [Nat -> [S -> S]]
  BY <1>2
<1>5. \A n \in 1..N : \A x \in S : F[n][x] = step(x, n)
  BY <1>0
<1> HIDE DEF F
<1>6. PICK g : Up(S, Found(1, Root), F, N, g)
  BY <1>0, <1>1, <1>4, UpExists
<1>7. ASSUME NEW n \in 1..N PROVE g[n] = step(g[n - 1], n)
  <2>1. n - 1 \in 0..N
    BY <1>0
  <2>2. g[n - 1] \in S
    BY <1>6, <2>1 DEF Up
  <2> QED
    BY <1>5, <1>6, <2>2 DEF Up
<1>8. Is(g)
  <2>1. \A n \in 0..N : n = 0 \/ n \in 1..N
    BY <1>0
  <2>2. \A n \in 0..N : g[n] = IF n = 0 THEN Found(1, Root) ELSE step(g[n - 1], n)
    <3> HIDE DEF step
    <3> QED
      BY <1>6, <1>7, <2>1 DEF Up
  <2>3. g = [n \in 0..N |-> g[n]]
    BY <1>6 DEF Up
  <2> QED
    BY <2>2, <2>3
<1>9. Is(walk)
  <2> HIDE DEF Is
  <2> QED
    BY <1>8
<1>10. walk[0] = Found(1, Root) /\ \A n \in 1..N : walk[n] = step(walk[n - 1], n)
  <2> HIDE DEF walk
  <2>1. 0 \in 0..N /\ \A n \in 1..N : n \in 0..N /\ n # 0
    BY <1>0
  <2> QED
    BY <1>9, <2>1
<1> HIDE DEF walk, step
<1>11. \A n \in 0..N : walk[n] \in S
  <2> DEFINE T == {n \in 0..N : walk[n] \in S}
  <2>1. 0 \in T
    BY <1>0, <1>1, <1>10
  <2>2. \A n \in 1..N : n - 1 \in T => n \in T
    BY <1>0, <1>2, <1>10
  <2>3. \A n \in 0..N : n \in T
    <3> HIDE DEF T
    <3> QED
      BY <1>0, <2>1, <2>2, Climb
  <2> QED
    BY <2>3
<1>12. walk \in [0..N -> S]
  <2> HIDE DEF Is
  <2>1. walk = [n \in 0..N |-> walk[n]]
    BY <1>9 DEF Is
  <2> QED
    BY <1>11, <2>1
<1>13. /\ parts = PartsBelowRoot(path) /\ N = Len(parts)
       /\ \A n \in 1..N : walk[n] = IF walk[n - 1].err # nil THEN walk[n - 1]
                                     ELSE LookupStep(nodes, walk[n - 1], parts, n, follow)
  BY <1>10 DEF parts, PartsBelowRoot, N, step
<1>14. Walk(nodes, parts, follow, walk)
  BY <1>10, <1>12, <1>13 DEF Walk, S
<1> QED
  BY <1>3, <1>13, <1>14

LEMMA LookupUntilLinkAnswers ==
  ASSUME NEW nodes, NodesOK(nodes), NEW follow \in BOOLEAN, NEW path \in Seq(STRING)
  PROVE  LookupUntilLink(nodes, path, follow) \in Answers(nodes, follow)
<1> DEFINE N == Len(PartsBelowRoot(path))
<1>1. N \in 0..N
  <2>1. PartsBelowRoot(path) \in Seq(STRING)
    BY RestIsPath DEF PartsBelowRoot
  <2> QED
    BY <2>1
<1>2. PICK walk : /\ walk \in [0..N -> Answers(nodes, follow)]
                  /\ LookupUntilLink(nodes, path, follow) = walk[N]
  BY LookupWalks DEF Walk
<1> HIDE DEF N
<1> QED
  BY <1>1, <1>2

\* The lookups within each other, one for each link that is followed.
Links(nodes, follow, look) ==
  /\ look \in [0..(maxSymlinkDepth + 1) ->
                [Seq(STRING) -> {a \in Answers(nodes, follow) : a.err # "link"}]]
  /\ look[maxSymlinkDepth + 1] = [p \in Seq(STRING) |-> Missing("tooManySymlinks")]
  /\ \A n \in 0..maxSymlinkDepth :
       look[n] = [p \in Seq(STRING) |->
                    FollowedBy(LookupUntilLink(nodes, p, follow), look[n + 1])]

LEMMA LookupFollows ==
  ASSUME NEW nodes, NodesOK(nodes), NEW follow \in BOOLEAN
  PROVE  \E look : /\ Links(nodes, follow, look)
                   /\ \A path \in Seq(STRING) : LookupPath(nodes, path, follow) = look[0][path]
<1> DEFINE N == maxSymlinkDepth + 1
           Q == Seq(STRING)
           A == {a \in Answers(nodes, follow) : a.err # "link"}
           S == [Q -> A]
           first(p) == LookupUntilLink(nodes, p, follow)
           next(x, p) == IF first(p).err = "link" THEN x[first(p).path] ELSE first(p)
           deep == [p \in Q |-> Missing("tooManySymlinks")]
           F == [n \in Nat |-> [x \in S |-> [p \in Q |-> next(x, p)]]]
           Is(f) == f = [depth \in 0..N |->
                           [p \in Q |->
                              IF depth > maxSymlinkDepth THEN Missing("tooManySymlinks")
                              ELSE IF first(p).err = "link"
                                   THEN f[depth + 1][first(p).path] ELSE first(p)]]
           look == CHOOSE f : Is(f)
<1>0. N \in Nat /\ N > maxSymlinkDepth /\ maxSymlinkDepth \in Nat /\ maxSymlinkDepth = N - 1
  BY DEF maxSymlinkDepth
<1>1. deep \in S
  <2>1. Missing("tooManySymlinks") \in A
    BY MissingAnswers, NilIsNoError DEF LookupErrors, Missing
  <2> HIDE DEF A
  <2> QED
    BY <2>1
<1>2. ASSUME NEW x \in S, NEW p \in Q PROVE next(x, p) \in A
  <2>1. first(p) \in Answers(nodes, follow)
    BY LookupUntilLinkAnswers
  <2>2. first(p).path \in Q
    BY <2>1 DEF Answers
  <2>3. first(p).err = "link" \/ first(p) \in A
    BY <2>1
  <2> HIDE DEF A, first, Q
  <2> QED
    BY <2>2, <2>3
<1>3. \A path \in Q : LookupPath(nodes, path, follow) = look[0][path]
  BY DEF LookupPath, FollowedBy
<1> HIDE DEF N, A, first
<1>4. F \in [Nat -> [S -> S]]
  <2> HIDE DEF next, Q
  <2>1. \A x \in S : [p \in Q |-> next(x, p)] \in S
    BY <1>2
  <2> HIDE DEF S
  <2> QED
    BY <2>1
<1>5. \A n \in 0..(N - 1) : \A x \in S : F[n][x] = [p \in Q |-> next(x, p)]
  <2>1. \A n \in 0..(N - 1) : n \in Nat
    BY <1>0
  <2> HIDE DEF next, Q, S
  <2> QED
    BY <2>1
<1> HIDE DEF F, S
<1>6. PICK g : Down(S, deep, F, N, g)
  <2> HIDE DEF deep
  <2> QED
    BY <1>0, <1>1, <1>4, DownExists
<1>7. ASSUME NEW n \in 0..(N - 1) PROVE g[n] = [p \in Q |-> next(g[n + 1], p)]
  <2>1. n + 1 \in 0..N
    BY <1>0
  <2>2. g[n + 1] \in S
    BY <1>6, <2>1 DEF Down
  <2> HIDE DEF next, Q
  <2> QED
    BY <1>5, <1>6, <2>2 DEF Down
<1>8. Is(g)
  <2>1. \A n \in 0..N : (n = N /\ n > maxSymlinkDepth) \/ (n \in 0..(N - 1) /\ ~(n > maxSymlinkDepth))
    BY <1>0
  <2>2. ASSUME NEW n \in 0..N
        PROVE  g[n] = [p \in Q |-> IF n > maxSymlinkDepth THEN Missing("tooManySymlinks")
                                   ELSE next(g[n + 1], p)]
    <3>1. CASE n = N /\ n > maxSymlinkDepth
      <4> HIDE DEF next, Q
      <4>1. g[n] = deep
        BY <1>6, <3>1 DEF Down
      <4> QED
        BY <3>1, <4>1
    <3>2. CASE n \in 0..(N - 1) /\ ~(n > maxSymlinkDepth)
      <4> HIDE DEF next, Q
      <4> QED
        BY <1>7, <3>2
    <3> QED
      BY <2>1, <3>1, <3>2
  <2>3. g = [n \in 0..N |-> g[n]]
    BY <1>6 DEF Down
  <2> HIDE DEF Q
  <2> QED
    BY <2>2, <2>3 DEF first
<1>9. Is(look)
  <2> HIDE DEF Is
  <2> QED
    BY <1>8
<1>10. \A n \in 0..N : look[n] = [p \in Q |-> IF n > maxSymlinkDepth THEN Missing("tooManySymlinks")
                                              ELSE next(look[n + 1], p)]
  <2> HIDE DEF look
  <2> QED
    BY <1>9 DEF first
<1> HIDE DEF look
<1>11. \A n \in 0..N : look[n] \in S
  <2> DEFINE T == {n \in 0..N : look[n] \in S}
  <2>1. N \in T
    <3>1. N \in 0..N
      BY <1>0
    <3>2. look[N] = deep
      <4> HIDE DEF next, Q
      <4> QED
        BY <1>0, <1>10, <3>1
    <3> QED
      BY <1>1, <3>1, <3>2
  <2>2. ASSUME NEW n \in 0..(N - 1), n + 1 \in T PROVE n \in T
    <3>1. n \in 0..N /\ ~(n > maxSymlinkDepth)
      BY <1>0
    <3> HIDE DEF next, Q
    <3>2. look[n] = [p \in Q |-> next(look[n + 1], p)]
      BY <1>10, <3>1
    <3>3. look[n + 1] \in S
      BY <2>2
    <3>4. look[n] \in S
      BY <1>2, <3>2, <3>3 DEF S
    <3> QED
      BY <3>1, <3>4
  <2>3. \A n \in 0..N : n \in T
    <3> HIDE DEF T
    <3> QED
      BY <1>0, <2>1, <2>2, Descend
  <2> QED
    BY <2>3
<1>12. look \in [0..N -> S]
  <2> HIDE DEF Is, next
  <2>1. look = [n \in 0..N |-> look[n]]
    BY <1>9 DEF Is
  <2> QED
    BY <1>11, <2>1
<1>13. \A n \in 0..maxSymlinkDepth : look[n] = [p \in Q |-> next(look[n + 1], p)]
  <2>1. \A n \in 0..maxSymlinkDepth : n \in 0..N /\ ~(n > maxSymlinkDepth)
    BY <1>0
  <2> HIDE DEF next, Q
  <2> QED
    BY <1>10, <2>1
<1>14. look[N] = deep
  <2>1. N \in 0..N
    BY <1>0
  <2> HIDE DEF next, Q
  <2> QED
    BY <1>0, <1>10, <2>1
<1>15. Links(nodes, follow, look)
  BY <1>12, <1>13, <1>14 DEF Links, FollowedBy, first, N, S, A
<1> QED
  BY <1>3, <1>15

LEMMA LookupPathAnswers ==
  ASSUME NEW nodes, NodesOK(nodes), NEW follow \in BOOLEAN, NEW path \in Seq(STRING)
  PROVE  /\ LookupPath(nodes, path, follow) \in Answers(nodes, follow)
         /\ LookupPath(nodes, path, follow).err # "link"
<1> DEFINE A == {a \in Answers(nodes, follow) : a.err # "link"}
           N == maxSymlinkDepth + 1
<1>1. 0 \in 0..N
  BY DEF maxSymlinkDepth
<1>2. PICK look : look \in [0..N -> [Seq(STRING) -> A]] /\ LookupPath(nodes, path, follow) = look[0][path]
  BY LookupFollows DEF Links
<1> HIDE DEF A, N
<1>3. LookupPath(nodes, path, follow) \in A
  BY <1>1, <1>2
<1> QED
  BY <1>3 DEF A

LEMMA InRootIsPath ==
  ASSUME NEW path, InRoot(path)
  PROVE  path \in Seq(Name) /\ path \in Seq(STRING)
BY NamesAreStrings DEF InRoot

LEMMA LookupAnswers ==
  ASSUME NEW nodes, NodesOK(nodes), NEW follow \in BOOLEAN, NEW path \in Paths,
         Lookup(nodes, relative(path), follow).err = nil
  PROVE  /\ Lookup(nodes, relative(path), follow).ino \in DOMAIN nodes
         /\ follow => nodes[Lookup(nodes, relative(path), follow).ino].kind # "symlink"
<1> DEFINE r == Resolved(relative(path))
           a == LookupPath(nodes, r.path, follow)
<1>1. Lookup(nodes, relative(path), follow) = IF r.err # nil THEN Missing(r.err) ELSE a
  BY DEF Lookup
<1>2. r.err = nil => InRoot(r.path)
  BY RelativeIsTarget
<1>3. r.err = nil => a \in Answers(nodes, follow)
  <2> HIDE DEF r
  <2> QED
    BY <1>2, InRootIsPath, LookupPathAnswers
<1> HIDE DEF a, r
<1>4. r.err = nil
  BY <1>1 DEF Missing
<1> QED
  BY <1>1, <1>3, <1>4 DEF Answers

LEMMA LookupParentAnswers ==
  ASSUME NEW nodes, NodesOK(nodes), NEW path \in Seq(STRING)
  PROVE  LET parent == LookupParent(nodes, path) IN
         /\ parent.err \in LookupErrors \ {"link"}
         /\ parent.err = nil =>
              /\ parent.ino \in DOMAIN nodes /\ nodes[parent.ino].kind = "directory"
              /\ parent.path \in Seq(Name) /\ parent.base = Last(path) /\ path # Root
<1> DEFINE a == LookupPath(nodes, Front(path), TRUE)
           dir == InDirectory(nodes, a)
<1>1. Front(path) \in Seq(STRING)
  <2>1. \A i \in 1..(Len(path) - 1) : i \in 1..Len(path)
    OBVIOUS
  <2>2. \A i \in 1..(Len(path) - 1) : path[i] \in STRING
    BY <2>1, ElementOfSeq
  <2>3. 1 \in Int /\ Len(path) - 1 \in Int
    OBVIOUS
  <2> QED
    BY <2>2, <2>3, SubSeqProperties DEF Front
<1>2. a \in Answers(nodes, TRUE) /\ a.err # "link"
  BY <1>1, LookupPathAnswers
<1>3. CASE path = Root
  <2>1. LookupParent(nodes, path) = EntryAt(Missing("permission"), "none")
    BY <1>3 DEF LookupParent
  <2> QED
    BY <2>1, NilIsNoError DEF EntryAt, Missing, LookupErrors
<1>4. CASE path # Root
  <2>1. LookupParent(nodes, path) = EntryAt(dir, Last(path))
    BY <1>4 DEF LookupParent
  <2> HIDE DEF a
  <2>2. dir.err \in LookupErrors \ {"link"}
    BY <1>2 DEF InDirectory, Missing, Answers, LookupErrors
  <2>3. dir.err = nil => dir = a /\ nodes[a.ino].kind = "directory"
    BY NilIsNoError DEF InDirectory, Missing
  <2> HIDE DEF dir
  <2> QED
    BY <1>2, <1>4, <2>1, <2>2, <2>3 DEF EntryAt, Answers
<1> QED
  BY <1>3, <1>4

\* The directory of an entry that a call looked up.
ParentOK(nodes, parent) ==
  /\ parent.ino \in DOMAIN nodes /\ nodes[parent.ino].kind = "directory"
  /\ parent.base \in Name

LEMMA LookupParentOK ==
  ASSUME NEW nodes, NodesOK(nodes), NEW path, InRoot(path),
         LookupParent(nodes, path).err = nil
  PROVE  ParentOK(nodes, LookupParent(nodes, path))
<1>1. path \in Seq(STRING)
  BY InRootIsPath
<1> QED
  BY <1>1, LookupParentAnswers, BelowRoot DEF ParentOK

LEMMA EntryIsNode ==
  ASSUME NEW nodes, NodesOK(nodes), NEW parent, parent.ino \in DOMAIN nodes,
         HasEntry(nodes, parent)
  PROVE  /\ parent.base \in Name /\ nodes[parent.ino].kind = "directory"
         /\ Entry(nodes, parent) \in DOMAIN nodes /\ Entry(nodes, parent) # 1
BY ChildIsNode DEF HasEntry, Entry

CreateAnswers ==
  {a \in [err : LookupErrors, ino : {0}, path : Seq(STRING)] :
     a.err = "link" => InRoot(a.path)}

LEMMA CreatePathInAnswers ==
  ASSUME NEW nodes, NodesOK(nodes), NEW path \in Seq(STRING)
  PROVE  LET a == CreatePathIn(nodes, path, LookupParent(nodes, path)) IN
         a \in CreateAnswers /\ (a.err = nil => a.path = path)
<1> DEFINE parent == LookupParent(nodes, path)
           target == ResolvePath(parent.path, nodes[Entry(nodes, parent)].target)
           a      == CreatePathIn(nodes, path, parent)
<1>0. <<>> \in Seq(STRING)
  OBVIOUS
<1>1. /\ parent.err \in LookupErrors \ {"link"}
      /\ parent.err = nil => parent.ino \in DOMAIN nodes /\ parent.path \in Seq(Name)
  BY LookupParentAnswers
<1> HIDE DEF parent
<1>2. \A err \in LookupErrors \ {nil, "link"} : Missing(err) \in CreateAnswers /\ Missing(err).err # nil
  BY <1>0 DEF Missing, CreateAnswers
<1>3. CASE parent.err # nil
  <2>1. a = Missing(parent.err)
    BY <1>3 DEF CreatePathIn
  <2>2. a \in CreateAnswers /\ a.err # nil
    BY <1>1, <1>2, <1>3, <2>1
  <2> QED
    BY <2>2 DEF parent
<1>4. CASE parent.err = nil
  <2>1. CASE ~HasEntry(nodes, parent) \/ nodes[Entry(nodes, parent)].kind # "symlink"
    <3>1. a = Found(0, path)
      BY <1>4, <2>1 DEF CreatePathIn
    <3> QED
      BY <3>1, NilIsNoError DEF Found, CreateAnswers, LookupErrors, parent
  <2>2. CASE HasEntry(nodes, parent) /\ nodes[Entry(nodes, parent)].kind = "symlink"
    <3>1. a = IF target.err # nil THEN Missing(target.err) ELSE ToLink(target.path \o <<>>)
      BY <1>4, <2>2 DEF CreatePathIn, ThroughLink
    <3>2. Entry(nodes, parent) \in DOMAIN nodes
      BY <1>1, <1>4, <2>2, EntryIsNode
    <3>3. /\ target.err \in {nil, "permission"}
          /\ target.err = nil => InRoot(target.path)
      BY <1>1, <1>4, <3>2, TargetIsTarget, ResolvePathIsInRoot
    <3> HIDE DEF target
    <3>4. CASE target.err # nil
      <4>1. target.err \in LookupErrors \ {nil, "link"}
        BY <3>3, <3>4 DEF LookupErrors
      <4> QED
        BY <1>2, <3>1, <3>4, <4>1 DEF parent
    <3>5. CASE target.err = nil
      <4>1. InRoot(target.path) /\ target.path \in Seq(STRING)
        BY <3>3, <3>5, InRootIsPath
      <4>2. target.path \o <<>> = target.path
        BY <4>1
      <4> QED
        BY <3>1, <3>5, <4>1, <4>2, NilIsNoError DEF ToLink, CreateAnswers, LookupErrors, parent
    <3> QED
      BY <3>4, <3>5
  <2> QED
    BY <2>1, <2>2
<1> QED
  BY <1>3, <1>4

\* The searches within each other, one for each link that dangles.
Creates(nodes, create) ==
  /\ create \in [0..(maxSymlinkDepth + 1) ->
                  [Seq(STRING) -> {a \in CreateAnswers : a.err # "link"}]]
  /\ create[maxSymlinkDepth + 1] = [p \in Seq(STRING) |-> Missing("tooManySymlinks")]
  /\ \A n \in 0..maxSymlinkDepth :
       create[n] = [p \in Seq(STRING) |->
                      FollowedBy(CreatePathIn(nodes, p, LookupParent(nodes, p)), create[n + 1])]

LEMMA CreateFollows ==
  ASSUME NEW nodes, NodesOK(nodes), NEW path \in Seq(STRING)
  PROVE  \E create : Creates(nodes, create) /\ ResolveCreatePath(nodes, path) = create[0][path]
<1> DEFINE N == maxSymlinkDepth + 1
           Q == Seq(STRING)
           B == {a \in CreateAnswers : a.err # "link"}
           A == [Q -> B]
           first(p) == CreatePathIn(nodes, p, LookupParent(nodes, p))
           next(x, p) == IF first(p).err = "link" THEN x[first(p).path] ELSE first(p)
           deep == [p \in Q |-> Missing("tooManySymlinks")]
           F == [n \in Nat |-> [x \in A |-> [p \in Q |-> next(x, p)]]]
           Is(f) == f = [depth \in 0..N |->
                           [p \in Q |->
                              IF depth > maxSymlinkDepth THEN Missing("tooManySymlinks")
                              ELSE IF first(p).err = "link"
                                   THEN f[depth + 1][first(p).path] ELSE first(p)]]
           create == CHOOSE f : Is(f)
<1>0. N \in Nat /\ N > maxSymlinkDepth /\ maxSymlinkDepth \in Nat /\ maxSymlinkDepth = N - 1
  BY DEF maxSymlinkDepth
<1>1. deep \in A
  <2>1. <<>> \in Seq(STRING)
    OBVIOUS
  <2>2. Missing("tooManySymlinks") \in B
    BY <2>1, NilIsNoError DEF Missing, LookupErrors, CreateAnswers
  <2> HIDE DEF Q, B
  <2> QED
    BY <2>2
<1>2. ASSUME NEW x \in A PROVE [p \in Q |-> next(x, p)] \in A
  <2>1. ASSUME NEW p \in Q PROVE next(x, p) \in B
    <3>1. first(p) \in CreateAnswers
      BY CreatePathInAnswers
    <3>2. first(p).path \in Q
      BY <3>1 DEF CreateAnswers
    <3>3. first(p).err = "link" \/ first(p) \in B
      BY <3>1
    <3> HIDE DEF first, Q, B
    <3> QED
      BY <3>2, <3>3
  <2> HIDE DEF next, Q, B
  <2> QED
    BY <2>1
<1>3. ResolveCreatePath(nodes, path) = create[0][path]
  BY DEF ResolveCreatePath, FollowedBy
<1> HIDE DEF N, A, first
<1>4. F \in [Nat -> [A -> A]]
  <2> HIDE DEF next, Q
  <2> QED
    BY <1>2
<1>5. \A n \in 0..(N - 1) : \A x \in A : F[n][x] = [p \in Q |-> next(x, p)]
  <2>1. \A n \in 0..(N - 1) : n \in Nat
    BY <1>0
  <2> HIDE DEF next, Q
  <2> QED
    BY <2>1
<1> HIDE DEF F
<1>6. PICK g : Down(A, deep, F, N, g)
  <2> HIDE DEF deep
  <2> QED
    BY <1>0, <1>1, <1>4, DownExists
<1>7. ASSUME NEW n \in 0..(N - 1) PROVE g[n] = [p \in Q |-> next(g[n + 1], p)]
  <2>1. n + 1 \in 0..N
    BY <1>0
  <2>2. g[n + 1] \in A
    BY <1>6, <2>1 DEF Down
  <2> HIDE DEF next, Q
  <2> QED
    BY <1>5, <1>6, <2>2 DEF Down
<1>8. Is(g)
  <2>1. \A n \in 0..N : (n = N /\ n > maxSymlinkDepth) \/ (n \in 0..(N - 1) /\ ~(n > maxSymlinkDepth))
    BY <1>0
  <2>2. ASSUME NEW n \in 0..N
        PROVE  g[n] = [p \in Q |-> IF n > maxSymlinkDepth THEN Missing("tooManySymlinks")
                                   ELSE next(g[n + 1], p)]
    <3>1. CASE n = N /\ n > maxSymlinkDepth
      <4> HIDE DEF next, Q
      <4>1. g[n] = deep
        BY <1>6, <3>1 DEF Down
      <4> QED
        BY <3>1, <4>1
    <3>2. CASE n \in 0..(N - 1) /\ ~(n > maxSymlinkDepth)
      <4> HIDE DEF next, Q
      <4> QED
        BY <1>7, <3>2
    <3> QED
      BY <2>1, <3>1, <3>2
  <2>3. g = [n \in 0..N |-> g[n]]
    BY <1>6 DEF Down
  <2> HIDE DEF Q
  <2> QED
    BY <2>2, <2>3 DEF first
<1>9. Is(create)
  <2> HIDE DEF Is
  <2> QED
    BY <1>8
<1>10. \A n \in 0..N : create[n] = [p \in Q |-> IF n > maxSymlinkDepth THEN Missing("tooManySymlinks")
                                                ELSE next(create[n + 1], p)]
  <2> HIDE DEF create
  <2> QED
    BY <1>9 DEF first
<1> HIDE DEF create
<1>11. \A n \in 0..N : create[n] \in A
  <2> DEFINE T == {n \in 0..N : create[n] \in A}
  <2>1. N \in T
    <3>1. N \in 0..N
      BY <1>0
    <3>2. create[N] = deep
      <4> HIDE DEF next, Q
      <4> QED
        BY <1>0, <1>10, <3>1
    <3> QED
      BY <1>1, <3>1, <3>2
  <2>2. ASSUME NEW n \in 0..(N - 1), n + 1 \in T PROVE n \in T
    <3>1. n \in 0..N /\ ~(n > maxSymlinkDepth)
      BY <1>0
    <3> HIDE DEF next, Q
    <3>2. create[n] = [p \in Q |-> next(create[n + 1], p)]
      BY <1>10, <3>1
    <3>3. create[n + 1] \in A
      BY <2>2
    <3>4. create[n] \in A
      BY <1>2, <3>2, <3>3
    <3> QED
      BY <3>1, <3>4
  <2>3. \A n \in 0..N : n \in T
    <3> HIDE DEF T
    <3> QED
      BY <1>0, <2>1, <2>2, Descend
  <2> QED
    BY <2>3
<1>12. create \in [0..N -> A]
  <2> HIDE DEF Is, next
  <2>1. create = [n \in 0..N |-> create[n]]
    BY <1>9 DEF Is
  <2> QED
    BY <1>11, <2>1
<1>13. \A n \in 0..maxSymlinkDepth : create[n] = [p \in Q |-> next(create[n + 1], p)]
  <2>1. \A n \in 0..maxSymlinkDepth : n \in 0..N /\ ~(n > maxSymlinkDepth)
    BY <1>0
  <2> HIDE DEF next, Q
  <2> QED
    BY <1>10, <2>1
<1>14. create[N] = deep
  <2>1. N \in 0..N
    BY <1>0
  <2> HIDE DEF next, Q
  <2> QED
    BY <1>0, <1>10, <2>1
<1>15. Creates(nodes, create)
  BY <1>12, <1>13, <1>14 DEF Creates, FollowedBy, first, N, A
<1> QED
  BY <1>3, <1>15

\* The path at which a file is created is below the root like the one it came from.
LEMMA ResolveCreatePathInRoot ==
  ASSUME NEW nodes, NodesOK(nodes), NEW path, InRoot(path),
         ResolveCreatePath(nodes, path).err = nil
  PROVE  InRoot(ResolveCreatePath(nodes, path).path)
<1> DEFINE N == maxSymlinkDepth
           first(p) == CreatePathIn(nodes, p, LookupParent(nodes, p))
           result == ResolveCreatePath(nodes, path)
           Good(a) == a.err = nil => InRoot(a.path)
<1>0. N \in Nat /\ N + 1 \in Nat
  BY DEF maxSymlinkDepth
<1>1. PICK create : Creates(nodes, create) /\ result = create[0][path]
  BY InRootIsPath, CreateFollows
<1>2. result.err = nil
  OBVIOUS
<1> HIDE DEF result
<1>3. \A p : InRoot(p) => /\ Good(first(p))
                          /\ first(p).err = "link" => InRoot(first(p).path)
  <2> TAKE p
  <2> SUFFICES ASSUME InRoot(p)
               PROVE  Good(first(p)) /\ (first(p).err = "link" => InRoot(first(p).path))
    OBVIOUS
  <2>1. first(p) \in CreateAnswers /\ (first(p).err = nil => first(p).path = p)
    BY InRootIsPath, CreatePathInAnswers
  <2> HIDE DEF first
  <2> QED
    BY <2>1 DEF CreateAnswers
<1>4. /\ create[N + 1] = [p \in Seq(STRING) |-> Missing("tooManySymlinks")]
      /\ \A n \in 0..N : create[n] = [p \in Seq(STRING) |-> FollowedBy(first(p), create[n + 1])]
  BY <1>1 DEF Creates
<1> HIDE DEF N, first
<1> DEFINE T == {n \in 0..(N + 1) : \A p : InRoot(p) => Good(create[n][p])}
<1>5. N + 1 \in T
  <2>1. \A p : InRoot(p) => create[N + 1][p].err # nil
    BY <1>4, InRootIsPath, NilIsNoError DEF Missing
  <2> QED
    BY <1>0, <2>1
<1>6. ASSUME NEW n \in 0..((N + 1) - 1), n + 1 \in T PROVE n \in T
  <2>1. n \in 0..N /\ n \in 0..(N + 1)
    BY <1>0
  <2>2. ASSUME NEW p, InRoot(p) PROVE Good(create[n][p])
    <3>1. create[n][p] = IF first(p).err = "link" THEN create[n + 1][first(p).path] ELSE first(p)
      BY <1>4, <2>1, <2>2, InRootIsPath DEF FollowedBy
    <3> HIDE DEF Good
    <3> QED
      BY <1>3, <1>6, <2>2, <3>1
  <2> HIDE DEF Good
  <2> QED
    BY <2>1, <2>2
<1>7. \A n \in 0..(N + 1) : n \in T
  <2> HIDE DEF T
  <2> QED
    BY <1>0, <1>5, <1>6, Descend
<1>8. 0 \in 0..(N + 1)
  BY <1>0
<1> QED
  BY <1>1, <1>2, <1>7, <1>8 DEF result

-----------------------------------------------------------------------------
(* Changes of the nodes.                                                   *)

\* m has the nodes of nodes, each of the same kind.
SameNodes(m, nodes) ==
  /\ Len(m) = Len(nodes) /\ DOMAIN m = DOMAIN nodes
  /\ \A i \in DOMAIN nodes : m[i].kind = nodes[i].kind

LEMMA ChangeNode ==
  ASSUME NEW nodes, NodesOK(nodes), NEW d \in DOMAIN nodes, NEW node,
         node \in Nodes({node.children}), node.kind = nodes[d].kind,
         DOMAIN node.children \subseteq Name,
         node.children \in [DOMAIN node.children -> DOMAIN nodes \ {1}],
         node.kind # "directory" => DOMAIN node.children = {},
         node.kind # "regular" => node.data = <<>>
  PROVE  LET m == [nodes EXCEPT ![d] = node] IN
         NodesOK(m) /\ SameNodes(m, nodes)
<1> DEFINE m == [nodes EXCEPT ![d] = node]
           n == Len(nodes)
<1>1. /\ n \in Nat /\ DOMAIN nodes = 1..n /\ 1 \in DOMAIN nodes
      /\ nodes[1].kind = "directory" /\ \A i \in DOMAIN nodes : NodeOK(nodes, i)
  BY NodesAreOK
<1> HIDE DEF n
<1>2. n # 0
  BY <1>1
<1>3. DOMAIN m = 1..n /\ m = [i \in 1..n |-> m[i]]
  BY <1>1
<1>4. \A i \in 1..n : m[i] = IF i = d THEN node ELSE nodes[i]
  BY <1>1
<1> HIDE DEF m
<1>5. m[1].kind = "directory"
  BY <1>1, <1>4
<1>6. ASSUME NEW i \in 1..n PROVE NodeOK(m, i)
  <2>1. CASE i = d
    <3>1. m[i] = node
      BY <1>4, <2>1
    <3> QED
      BY <1>1, <1>3, <3>1 DEF NodeOK
  <2>2. CASE i # d
    <3>1. m[i] = nodes[i] /\ NodeOK(nodes, i)
      BY <1>1, <1>4, <2>2
    <3> QED
      BY <1>1, <1>3, <3>1 DEF NodeOK
  <2> QED
    BY <2>1, <2>2
<1>7. NodesOK(m) /\ Len(m) = n
  BY <1>1, <1>2, <1>3, <1>5, <1>6, OKAreNodes
<1>8. SameNodes(m, nodes)
  BY <1>1, <1>3, <1>4, <1>7 DEF SameNodes, n
<1> QED
  BY <1>7, <1>8 DEF m

LEMMA ChangeChildren ==
  ASSUME NEW nodes, NodesOK(nodes), NEW d \in DOMAIN nodes, NEW c,
         nodes[d].kind = "directory", DOMAIN c \subseteq Name,
         c \in [DOMAIN c -> DOMAIN nodes \ {1}]
  PROVE  LET m == [nodes EXCEPT ![d].children = c] IN
         /\ NodesOK(m) /\ SameNodes(m, nodes)
         /\ \A i \in DOMAIN nodes : /\ m[i].nlink = nodes[i].nlink
                                    /\ m[i].children = IF i = d THEN c ELSE nodes[i].children
<1> DEFINE node == [nodes[d] EXCEPT !.children = c]
           m == [nodes EXCEPT ![d] = node]
<1>1. NodeOK(nodes, d)
  BY NodesAreOK
<1>2. /\ node \in Nodes({c}) /\ node.children = c /\ node.kind = nodes[d].kind
      /\ node.nlink = nodes[d].nlink /\ node.data = nodes[d].data
  BY <1>1 DEF NodeOK, Nodes
<1>3. node.data = <<>>
  BY <1>1, <1>2 DEF NodeOK
<1> HIDE DEF node
<1>4. NodesOK(m) /\ SameNodes(m, nodes)
  BY <1>2, <1>3, ChangeNode
<1>5. \A i \in DOMAIN nodes : m[i] = IF i = d THEN node ELSE nodes[i]
  OBVIOUS
<1>6. \A i \in DOMAIN nodes : /\ m[i].nlink = nodes[i].nlink
                              /\ m[i].children = IF i = d THEN c ELSE nodes[i].children
  BY <1>2, <1>5
<1>7. [nodes EXCEPT ![d].children = c] = m
  BY DEF node
<1> QED
  BY <1>4, <1>6, <1>7

LEMMA ChangeLinks ==
  ASSUME NEW nodes, NodesOK(nodes), NEW d \in DOMAIN nodes, NEW k \in Nat
  PROVE  LET m == [nodes EXCEPT ![d] = [nodes[d] EXCEPT !.nlink = k]] IN
         /\ NodesOK(m) /\ SameNodes(m, nodes)
         /\ \A i \in DOMAIN nodes : /\ m[i].nlink = IF i = d THEN k ELSE nodes[i].nlink
                                    /\ m[i].children = nodes[i].children
<1> DEFINE node == [nodes[d] EXCEPT !.nlink = k]
           m == [nodes EXCEPT ![d] = node]
<1>1. NodeOK(nodes, d)
  BY NodesAreOK
<1>2. /\ node \in Nodes({nodes[d].children}) /\ node.children = nodes[d].children
      /\ node.kind = nodes[d].kind /\ node.nlink = k /\ node.data = nodes[d].data
  BY <1>1 DEF NodeOK, Nodes
<1> HIDE DEF node
<1>4. NodesOK(m) /\ SameNodes(m, nodes)
  BY <1>1, <1>2, ChangeNode DEF NodeOK
<1>5. \A i \in DOMAIN nodes : m[i] = IF i = d THEN node ELSE nodes[i]
  OBVIOUS
<1>6. \A i \in DOMAIN nodes : /\ m[i].nlink = IF i = d THEN k ELSE nodes[i].nlink
                              /\ m[i].children = nodes[i].children
  BY <1>2, <1>5
<1> QED
  BY <1>4, <1>6 DEF node

LEMMA ChangeData ==
  ASSUME NEW nodes, NodesOK(nodes), NEW d \in DOMAIN nodes, nodes[d].kind = "regular",
         NEW data \in Seq(Nat)
  PROVE  LET m == [nodes EXCEPT ![d].data = data] IN
         /\ NodesOK(m) /\ SameNodes(m, nodes)
         /\ \A i \in DOMAIN nodes : /\ m[i].nlink = nodes[i].nlink
                                    /\ m[i].children = nodes[i].children
<1> DEFINE node == [nodes[d] EXCEPT !.data = data]
           m == [nodes EXCEPT ![d] = node]
<1>1. NodeOK(nodes, d)
  BY NodesAreOK
<1>2. /\ node \in Nodes({nodes[d].children}) /\ node.children = nodes[d].children
      /\ node.kind = nodes[d].kind /\ node.nlink = nodes[d].nlink
  BY <1>1 DEF NodeOK, Nodes
<1> HIDE DEF node
<1>4. NodesOK(m) /\ SameNodes(m, nodes)
  BY <1>1, <1>2, ChangeNode DEF NodeOK
<1>5. \A i \in DOMAIN nodes : m[i] = IF i = d THEN node ELSE nodes[i]
  OBVIOUS
<1>6. \A i \in DOMAIN nodes : /\ m[i].nlink = nodes[i].nlink
                              /\ m[i].children = nodes[i].children
  BY <1>2, <1>5
<1>7. [nodes EXCEPT ![d].data = data] = m
  BY DEF node
<1> QED
  BY <1>4, <1>6, <1>7

LEMMA AddedNode ==
  ASSUME NEW nodes, NodesOK(nodes), NEW node, node \in Nodes({<<>>}),
         node.kind # "regular" => node.data = <<>>
  PROVE  LET m == Append(nodes, node)
             n == Len(nodes)
         IN /\ NodesOK(m) /\ Len(m) = n + 1 /\ DOMAIN m = DOMAIN nodes \cup {n + 1}
            /\ n + 1 \notin DOMAIN nodes /\ n + 1 # 1
            /\ m[n + 1] = node /\ node.children = <<>>
            /\ \A i \in DOMAIN nodes : m[i] = nodes[i]
<1> DEFINE m == Append(nodes, node)
           n == Len(nodes)
           S == Nodes({nodes[i].children : i \in DOMAIN nodes}) \cup {node}
<1>1. /\ n \in Nat /\ DOMAIN nodes = 1..n /\ 1 \in DOMAIN nodes
      /\ nodes[1].kind = "directory" /\ \A i \in DOMAIN nodes : NodeOK(nodes, i)
  BY NodesAreOK
<1>2. nodes \in Seq(S)
  <2>1. nodes \in Seq(Nodes({nodes[i].children : i \in DOMAIN nodes}))
    BY DEF NodesOK
  <2> QED
    BY <2>1, SeqMonotonic
<1>3. node \in S
  OBVIOUS
<1> HIDE DEF S
<1>4. /\ m \in Seq(S) /\ Len(m) = n + 1 /\ DOMAIN m = 1..(n + 1)
      /\ m[n + 1] = node /\ \A i \in 1..n : m[i] = nodes[i]
  BY <1>2, <1>3, AppendProperties
<1> HIDE DEF m, n
<1>5. m = [i \in 1..(n + 1) |-> m[i]]
  <2>1. m \in [1..(n + 1) -> S]
    BY <1>4, LenProperties
  <2> QED
    BY <2>1
<1>6. DOMAIN m = DOMAIN nodes \cup {n + 1} /\ n + 1 \notin DOMAIN nodes /\ n + 1 # 1
  BY <1>1, <1>4
<1>7. m[1].kind = "directory"
  BY <1>1, <1>4
<1>8. node.children = <<>> /\ node \in Nodes({node.children})
  BY DEF Nodes
<1>9. ASSUME NEW i \in 1..(n + 1) PROVE NodeOK(m, i)
  <2>1. CASE i = n + 1
    <3>1. m[i] = node /\ DOMAIN node.children = {}
      BY <1>4, <1>8, <2>1
    <3>2. node.children \in [{} -> DOMAIN m \ {1}]
      BY <1>8
    <3> QED
      BY <1>8, <3>1, <3>2 DEF NodeOK
  <2>2. CASE i # n + 1
    <3>1. i \in 1..n
      BY <1>1, <2>2
    <3>2. m[i] = nodes[i] /\ NodeOK(nodes, i)
      BY <1>1, <1>4, <3>1
    <3> QED
      BY <1>6, <3>2 DEF NodeOK
  <2> QED
    BY <2>1, <2>2
<1>10. NodesOK(m)
  <2>1. n + 1 \in Nat /\ n + 1 # 0
    BY <1>1
  <2> QED
    BY <1>5, <1>7, <1>9, <2>1, OKAreNodes
<1> QED
  BY <1>1, <1>4, <1>6, <1>8, <1>10 DEF m, n

-----------------------------------------------------------------------------
(* Entries.                                                                *)

LEMMA InEntriesFor ==
  ASSUME NEW nodes, NEW dirs, NEW i, NEW e
  PROVE  e \in EntriesFor(nodes, dirs, i) <=>
           \E d \in dirs : \E name \in DOMAIN nodes[d].children :
             e = <<d, name>> /\ nodes[d].children[name] = i
BY DEF EntriesFor

LEMMA RemovedChild ==
  ASSUME NEW k, NEW base
  PROVE  LET c == Restrict(k, DOMAIN k \ {base}) IN
         /\ DOMAIN c = DOMAIN k \ {base} /\ c = [n \in DOMAIN c |-> c[n]]
         /\ \A n \in DOMAIN c : c[n] = k[n]
BY DEF Restrict

Place(parent) == <<parent.ino, parent.base>>

\* m is nodes with another entry, which names node ino.
LEMMA EntryAdded ==
  ASSUME NEW nodes, NodesOK(nodes), NEW parent, ParentOK(nodes, parent),
         ~HasEntry(nodes, parent), NEW ino \in DOMAIN nodes, ino # 1
  PROVE  LET m == WithEntry(nodes, parent, ino) IN
         /\ NodesOK(m) /\ SameNodes(m, nodes)
         /\ \A i \in DOMAIN nodes : m[i].nlink = nodes[i].nlink
         /\ \A i \in DOMAIN nodes : i # parent.ino => m[i].children = nodes[i].children
         /\ HasEntry(m, parent) /\ Entry(m, parent) = ino
         /\ \A i : EntriesOf(m, i) = IF i = ino THEN EntriesOf(nodes, i) \cup {Place(parent)}
                                     ELSE EntriesOf(nodes, i)
         /\ \A i : Place(parent) \notin EntriesOf(nodes, i)
<1> DEFINE d == parent.ino
           b == parent.base
           k == nodes[d].children
           c == WithChild(k, b, ino)
           m == [nodes EXCEPT ![d].children = c]
<1>1. d \in DOMAIN nodes /\ nodes[d].kind = "directory" /\ b \in Name /\ b \notin DOMAIN k
  BY DEF ParentOK, HasEntry
<1>2. k \in [DOMAIN k -> DOMAIN nodes \ {1}] /\ DOMAIN k \subseteq Name
  BY <1>1, NodesAreOK DEF NodeOK
<1>3. /\ DOMAIN c = DOMAIN k \cup {b} /\ c = [n \in DOMAIN c |-> c[n]]
      /\ c[b] = ino /\ \A n \in DOMAIN k : c[n] = k[n]
  <2> HIDE DEF k
  <2> QED
    BY <1>1 DEF WithChild
<1> HIDE DEF c
<1>4. c \in [DOMAIN c -> DOMAIN nodes \ {1}] /\ DOMAIN c \subseteq Name
  BY <1>1, <1>2, <1>3
<1>5. /\ NodesOK(m) /\ SameNodes(m, nodes)
      /\ \A i \in DOMAIN nodes : /\ m[i].nlink = nodes[i].nlink
                                 /\ m[i].children = IF i = d THEN c ELSE nodes[i].children
  BY <1>1, <1>4, ChangeChildren
<1>6. WithEntry(nodes, parent, ino) = m
  BY DEF WithEntry, c
<1> HIDE DEF m
<1>7. HasEntry(m, parent) /\ Entry(m, parent) = ino
  BY <1>1, <1>3, <1>5 DEF HasEntry, Entry
<1>8. DOMAIN m = DOMAIN nodes
  BY <1>5 DEF SameNodes
<1>9. ASSUME NEW i PROVE Place(parent) \notin EntriesOf(nodes, i)
  <2> SUFFICES ASSUME Place(parent) \in EntriesOf(nodes, i) PROVE FALSE
    OBVIOUS
  <2>1. PICK f \in DOMAIN nodes : \E name \in DOMAIN nodes[f].children : Place(parent) = <<f, name>>
    BY InEntriesFor DEF EntriesOf
  <2> QED
    BY <1>1, <2>1 DEF Place
<1>10. ASSUME NEW i, NEW e
       PROVE  e \in EntriesOf(m, i) <=> e \in EntriesOf(nodes, i) \/ (i = ino /\ e = Place(parent))
  <2>1. ASSUME e \in EntriesOf(m, i)
        PROVE  e \in EntriesOf(nodes, i) \/ (i = ino /\ e = Place(parent))
    <3>1. PICK f \in DOMAIN nodes : \E name \in DOMAIN m[f].children :
                 e = <<f, name>> /\ m[f].children[name] = i
      BY <1>8, <2>1, InEntriesFor DEF EntriesOf
    <3>2. PICK name \in DOMAIN m[f].children : e = <<f, name>> /\ m[f].children[name] = i
      BY <3>1
    <3>3. CASE f = d /\ name = b
      BY <1>3, <1>5, <3>2, <3>3 DEF Place
    <3>4. CASE ~(f = d /\ name = b)
      <4>1. name \in DOMAIN nodes[f].children /\ nodes[f].children[name] = i
        BY <1>3, <1>5, <3>2, <3>4
      <4> QED
        BY <3>2, <4>1, InEntriesFor DEF EntriesOf
    <3> QED
      BY <3>3, <3>4
  <2>2. ASSUME e \in EntriesOf(nodes, i) PROVE e \in EntriesOf(m, i)
    <3>1. PICK f \in DOMAIN nodes : \E name \in DOMAIN nodes[f].children :
                 e = <<f, name>> /\ nodes[f].children[name] = i
      BY <2>2, InEntriesFor DEF EntriesOf
    <3>2. PICK name \in DOMAIN nodes[f].children : e = <<f, name>> /\ nodes[f].children[name] = i
      BY <3>1
    <3>3. name \in DOMAIN m[f].children /\ m[f].children[name] = i
      BY <1>3, <1>5, <3>2
    <3> QED
      BY <1>8, <3>2, <3>3, InEntriesFor DEF EntriesOf
  <2>3. ASSUME i = ino, e = Place(parent) PROVE e \in EntriesOf(m, i)
    <3>1. b \in DOMAIN m[d].children /\ m[d].children[b] = i /\ e = <<d, b>>
      BY <1>1, <1>3, <1>5, <2>3 DEF Place
    <3> QED
      BY <1>1, <1>8, <3>1, InEntriesFor DEF EntriesOf
  <2> QED
    BY <2>1, <2>2, <2>3
<1>11. \A i : EntriesOf(m, i) = IF i = ino THEN EntriesOf(nodes, i) \cup {Place(parent)}
                                ELSE EntriesOf(nodes, i)
  BY <1>10
<1> QED
  BY <1>5, <1>6, <1>7, <1>9, <1>11

\* m is nodes without the entry of parent, if it is there.
LEMMA EntryRemoved ==
  ASSUME NEW nodes, NodesOK(nodes), NEW parent, ParentOK(nodes, parent)
  PROVE  LET m == WithoutEntry(nodes, parent) IN
         /\ NodesOK(m) /\ SameNodes(m, nodes)
         /\ \A i \in DOMAIN nodes : m[i].nlink = nodes[i].nlink
         /\ ~HasEntry(m, parent)
         /\ \A i : EntriesOf(m, i) = EntriesOf(nodes, i) \ {Place(parent)}
<1> DEFINE d == parent.ino
           b == parent.base
           k == nodes[d].children
           c == Restrict(k, DOMAIN k \ {b})
           m == [nodes EXCEPT ![d].children = c]
<1>1. d \in DOMAIN nodes /\ nodes[d].kind = "directory"
  BY DEF ParentOK
<1>2. k \in [DOMAIN k -> DOMAIN nodes \ {1}] /\ DOMAIN k \subseteq Name
  BY <1>1, NodesAreOK DEF NodeOK
<1>3. /\ DOMAIN c = DOMAIN k \ {b} /\ c = [n \in DOMAIN c |-> c[n]]
      /\ \A n \in DOMAIN c : c[n] = k[n]
  <2> HIDE DEF k
  <2> QED
    BY RemovedChild
<1> HIDE DEF c
<1>4. c \in [DOMAIN c -> DOMAIN nodes \ {1}] /\ DOMAIN c \subseteq Name
  BY <1>2, <1>3
<1>5. /\ NodesOK(m) /\ SameNodes(m, nodes)
      /\ \A i \in DOMAIN nodes : /\ m[i].nlink = nodes[i].nlink
                                 /\ m[i].children = IF i = d THEN c ELSE nodes[i].children
  BY <1>1, <1>4, ChangeChildren
<1>6. WithoutEntry(nodes, parent) = m
  BY DEF WithoutEntry, c
<1> HIDE DEF m
<1>7. ~HasEntry(m, parent)
  BY <1>1, <1>3, <1>5 DEF HasEntry
<1>8. DOMAIN m = DOMAIN nodes
  BY <1>5 DEF SameNodes
<1>9. ASSUME NEW i, NEW e
      PROVE  e \in EntriesOf(m, i) <=> e \in EntriesOf(nodes, i) /\ e # Place(parent)
  <2>1. ASSUME e \in EntriesOf(m, i)
        PROVE  e \in EntriesOf(nodes, i) /\ e # Place(parent)
    <3>1. PICK f \in DOMAIN nodes : \E name \in DOMAIN m[f].children :
                 e = <<f, name>> /\ m[f].children[name] = i
      BY <1>8, <2>1, InEntriesFor DEF EntriesOf
    <3>2. PICK name \in DOMAIN m[f].children : e = <<f, name>> /\ m[f].children[name] = i
      BY <3>1
    <3>3. /\ name \in DOMAIN nodes[f].children /\ nodes[f].children[name] = i
          /\ ~(f = d /\ name = b)
      BY <1>3, <1>5, <3>2
    <3>4. e # Place(parent)
      BY <3>2, <3>3 DEF Place
    <3> QED
      BY <3>2, <3>3, <3>4, InEntriesFor DEF EntriesOf
  <2>2. ASSUME e \in EntriesOf(nodes, i), e # Place(parent) PROVE e \in EntriesOf(m, i)
    <3>1. PICK f \in DOMAIN nodes : \E name \in DOMAIN nodes[f].children :
                 e = <<f, name>> /\ nodes[f].children[name] = i
      BY <2>2, InEntriesFor DEF EntriesOf
    <3>2. PICK name \in DOMAIN nodes[f].children : e = <<f, name>> /\ nodes[f].children[name] = i
      BY <3>1
    <3>3. ~(f = d /\ name = b)
      BY <2>2, <3>2 DEF Place
    <3>4. name \in DOMAIN m[f].children /\ m[f].children[name] = i
      BY <1>3, <1>5, <3>2, <3>3
    <3> QED
      BY <1>8, <3>2, <3>4, InEntriesFor DEF EntriesOf
  <2> QED
    BY <2>1, <2>2
<1>10. \A i : EntriesOf(m, i) = EntriesOf(nodes, i) \ {Place(parent)}
  BY <1>9
<1> QED
  BY <1>5, <1>6, <1>7, <1>10

\* Level by level, the nodes that a node leads to.
Levels(nodes, ino, level) ==
  /\ level \in [0..Len(nodes) -> SUBSET DOMAIN nodes]
  /\ level[0] = {ino}
  /\ \A n \in 1..Len(nodes) :
       level[n] = level[n - 1] \cup UNION {Range(nodes[d].children) : d \in level[n - 1]}

LEMMA LevelsExist ==
  ASSUME NEW nodes, NodesOK(nodes), NEW ino \in DOMAIN nodes
  PROVE  \E level : /\ Levels(nodes, ino, level)
                    /\ NodesBelow(nodes, ino) = level[Len(nodes)]
<1> DEFINE N == Len(nodes)
           S == SUBSET (DOMAIN nodes)
           next(x) == x \cup UNION {Range(nodes[dir].children) : dir \in x}
           F == [n \in Nat |-> [x \in S |-> next(x)]]
           Is(f) == f = [n \in 0..N |->
                           IF n = 0 THEN {ino}
                           ELSE LET above == f[n - 1]
                                IN above \cup UNION {Range(nodes[dir].children) : dir \in above}]
           below == CHOOSE f : Is(f)
<1>0. N \in Nat
  BY NodesAreOK
<1>1. {ino} \in S
  OBVIOUS
<1>2. ASSUME NEW x \in S PROVE next(x) \in S
  <2>1. ASSUME NEW dir \in x, NEW y \in Range(nodes[dir].children) PROVE y \in DOMAIN nodes
    <3>1. PICK name \in DOMAIN nodes[dir].children : y = nodes[dir].children[name]
      BY DEF Range
    <3> QED
      BY <3>1, ChildIsNode
  <2> QED
    BY <2>1
<1>3. NodesBelow(nodes, ino) = below[N]
  BY DEF NodesBelow
<1> HIDE DEF N, S
<1>4. F \in [Nat -> [S -> S]]
  <2> HIDE DEF next
  <2> QED
    BY <1>2
<1>5. \A n \in 1..N : \A x \in S : F[n][x] = next(x)
  <2> HIDE DEF next
  <2>1. \A n \in 1..N : n \in Nat
    BY <1>0
  <2> QED
    BY <2>1
<1> HIDE DEF F
<1>6. PICK g : Up(S, {ino}, F, N, g)
  BY <1>0, <1>1, <1>4, UpExists
<1>7. ASSUME NEW n \in 1..N PROVE g[n] = next(g[n - 1])
  <2>1. n - 1 \in 0..N
    BY <1>0
  <2>2. g[n - 1] \in S
    BY <1>6, <2>1 DEF Up
  <2> HIDE DEF next
  <2> QED
    BY <1>5, <1>6, <2>2 DEF Up
<1>8. Is(g)
  <2>1. \A n \in 0..N : n = 0 \/ n \in 1..N
    BY <1>0
  <2>2. \A n \in 0..N : g[n] = IF n = 0 THEN {ino} ELSE next(g[n - 1])
    <3> HIDE DEF next
    <3> QED
      BY <1>6, <1>7, <2>1 DEF Up
  <2>3. g = [n \in 0..N |-> g[n]]
    BY <1>6 DEF Up
  <2> QED
    BY <2>2, <2>3
<1>9. Is(below)
  <2> HIDE DEF Is
  <2> QED
    BY <1>8
<1>10. below[0] = {ino} /\ \A n \in 1..N : below[n] = next(below[n - 1])
  <2> HIDE DEF below
  <2>1. 0 \in 0..N /\ \A n \in 1..N : n \in 0..N /\ n # 0
    BY <1>0
  <2> QED
    BY <1>9, <2>1
<1> HIDE DEF below
<1>11. \A n \in 0..N : below[n] \in S
  <2> HIDE DEF next
  <2> DEFINE T == {n \in 0..N : below[n] \in S}
  <2>1. 0 \in T
    BY <1>0, <1>1, <1>10
  <2>2. \A n \in 1..N : n - 1 \in T => n \in T
    BY <1>0, <1>2, <1>10
  <2>3. \A n \in 0..N : n \in T
    <3> HIDE DEF T
    <3> QED
      BY <1>0, <2>1, <2>2, Climb
  <2> QED
    BY <2>3
<1>12. below \in [0..N -> S]
  <2> HIDE DEF Is, next
  <2>1. below = [n \in 0..N |-> below[n]]
    BY <1>9 DEF Is
  <2> QED
    BY <1>11, <2>1
<1>13. Levels(nodes, ino, below)
  BY <1>10, <1>12 DEF Levels, S, N
<1> QED
  BY <1>3, <1>13 DEF N

\* What the entries of the nodes in T name is in T.
Closed(nodes, T) == \A c : \A e \in EntriesOf(nodes, c) : e[1] \in T => c \in T

LEMMA ChildrenAreEntries ==
  ASSUME NEW nodes, NEW d \in DOMAIN nodes, NEW c
  PROVE  c \in Range(nodes[d].children) <=> \E e \in EntriesOf(nodes, c) : e[1] = d
<1>1. ASSUME c \in Range(nodes[d].children) PROVE \E e \in EntriesOf(nodes, c) : e[1] = d
  <2>1. PICK name \in DOMAIN nodes[d].children : nodes[d].children[name] = c
    BY <1>1 DEF Range
  <2>2. <<d, name>> \in EntriesOf(nodes, c)
    BY <2>1, InEntriesFor DEF EntriesOf
  <2> QED
    BY <2>2
<1>2. ASSUME NEW e \in EntriesOf(nodes, c), e[1] = d PROVE c \in Range(nodes[d].children)
  <2>1. PICK f \in DOMAIN nodes : \E name \in DOMAIN nodes[f].children :
               e = <<f, name>> /\ nodes[f].children[name] = c
    BY InEntriesFor DEF EntriesOf
  <2> QED
    BY <1>2, <2>1 DEF Range
<1> QED
  BY <1>1, <1>2

\* Every set that has a node and is closed has all that is below the node.
LEMMA BelowIsLeast ==
  ASSUME NEW nodes, NodesOK(nodes), NEW ino \in DOMAIN nodes,
         NEW T, ino \in T, Closed(nodes, T)
  PROVE  NodesBelow(nodes, ino) \subseteq T
<1> DEFINE N == Len(nodes)
<1>0. N \in Nat
  BY NodesAreOK
<1>1. PICK level : Levels(nodes, ino, level) /\ NodesBelow(nodes, ino) = level[N]
  BY LevelsExist
<1> DEFINE U == {n \in 0..N : level[n] \subseteq T}
<1>2. 0 \in U
  BY <1>0, <1>1 DEF Levels
<1>3. ASSUME NEW n \in 1..N, n - 1 \in U PROVE n \in U
  <2>1. /\ n \in 0..N /\ level[n - 1] \subseteq T /\ level[n - 1] \subseteq DOMAIN nodes
        /\ level[n] = level[n - 1] \cup UNION {Range(nodes[d].children) : d \in level[n - 1]}
    BY <1>0, <1>1, <1>3 DEF Levels
  <2>2. ASSUME NEW d \in level[n - 1], NEW c \in Range(nodes[d].children) PROVE c \in T
    BY <2>1, ChildrenAreEntries DEF Closed
  <2> QED
    BY <2>1, <2>2
<1>4. \A n \in 0..N : n \in U
  <2> HIDE DEF U, N
  <2> QED
    BY <1>0, <1>2, <1>3, Climb
<1> QED
  BY <1>0, <1>1, <1>4

\* Every level adds a node, or all have been found.
LEMMA BelowIsClosed ==
  ASSUME NEW nodes, NodesOK(nodes), NEW ino \in DOMAIN nodes
  PROVE  /\ NodesBelow(nodes, ino) \subseteq DOMAIN nodes
         /\ ino \in NodesBelow(nodes, ino)
         /\ Closed(nodes, NodesBelow(nodes, ino))
<1> DEFINE N == Len(nodes)
           D == DOMAIN nodes
<1>0. N \in Nat /\ D = 1..N
  BY NodesAreOK
<1>1. PICK level : Levels(nodes, ino, level) /\ NodesBelow(nodes, ino) = level[N]
  BY LevelsExist
<1> DEFINE more(x) == x \cup UNION {Range(nodes[d].children) : d \in x}
           Good(n) == /\ level[n] \subseteq D /\ ino \in level[n]
                      /\ \/ more(level[n]) = level[n]
                         \/ Cardinality(level[n]) >= n + 1
           U == {n \in 0..N : Good(n)}
<1>2. IsFiniteSet(D) /\ Cardinality(D) = N
  <2>1. IsFiniteSet(1..N) /\ Cardinality(1..N) = IF 1 > N THEN 0 ELSE N - 1 + 1
    <3> HIDE DEF N
    <3>1. 1 \in Int /\ N \in Int
      BY <1>0
    <3> QED
      BY <3>1, FS_Interval
  <2> HIDE DEF N, D
  <2>2. (IF 1 > N THEN 0 ELSE N - 1 + 1) = N
    BY <1>0
  <2> QED
    BY <1>0, <2>1, <2>2
<1>3. /\ level[0] = {ino}
      /\ \A n \in 0..N : level[n] \subseteq D
      /\ \A n \in 1..N : level[n] = more(level[n - 1])
  BY <1>0, <1>1 DEF Levels
<1>4. \A n \in 0..N : IsFiniteSet(level[n]) /\ Cardinality(level[n]) \in Nat
  BY <1>2, <1>3, FS_Subset, FS_CardinalityType
<1>5. \A x : x \subseteq more(x)
  OBVIOUS
<1> HIDE DEF more, N, D
<1>6. 0 \in U
  <2>1. Cardinality(level[0]) = 1
    BY <1>3, FS_Singleton
  <2>2. 0 \in 0..N
    BY <1>0
  <2>3. Cardinality(level[0]) >= 0 + 1
    BY <2>1
  <2>4. level[0] \subseteq D /\ ino \in level[0]
    BY <1>3, <2>2
  <2> QED
    BY <2>2, <2>3, <2>4
<1>7. ASSUME NEW n \in 1..N, n - 1 \in U PROVE n \in U
  <2>1. n \in 0..N /\ n - 1 \in 0..N /\ n - 1 + 1 = n
    BY <1>0
  <2>2. level[n] = more(level[n - 1]) /\ level[n - 1] \subseteq level[n] /\ level[n] \subseteq D
    BY <1>3, <1>5, <2>1
  <2>3. Good(n - 1)
    BY <1>7
  <2>4. ino \in level[n]
    BY <2>2, <2>3
  <2>5. CASE level[n] = level[n - 1]
    BY <2>1, <2>2, <2>4, <2>5
  <2>6. CASE level[n] # level[n - 1]
    <3>1. PICK c \in level[n] : c \notin level[n - 1]
      BY <2>2, <2>6
    <3>2. /\ IsFiniteSet(level[n - 1] \cup {c})
          /\ Cardinality(level[n - 1] \cup {c}) = Cardinality(level[n - 1]) + 1
      BY <1>4, <2>1, <3>1, FS_AddElement
    <3>3. Cardinality(level[n - 1] \cup {c}) <= Cardinality(level[n])
      <4>1. level[n - 1] \cup {c} \subseteq level[n]
        BY <2>2, <3>1
      <4> QED
        BY <1>4, <2>1, <4>1, FS_Subset
    <3>4. Cardinality(level[n - 1]) >= n
      BY <2>1, <2>2, <2>3, <2>6
    <3>5. Cardinality(level[n]) >= n + 1
      BY <1>4, <2>1, <3>2, <3>3, <3>4
    <3> QED
      BY <2>1, <2>2, <2>4, <3>5
  <2> QED
    BY <2>5, <2>6
<1>8. \A n \in 0..N : n \in U
  <2> HIDE DEF U
  <2> QED
    BY <1>0, <1>6, <1>7, Climb
<1>9. Good(N)
  BY <1>0, <1>8
<1>10. Cardinality(level[N]) <= N
  BY <1>0, <1>2, <1>9, FS_Subset
<1>11. more(level[N]) = level[N]
  <2>1. Cardinality(level[N]) \in Nat
    BY <1>0, <1>4
  <2> QED
    BY <1>0, <1>9, <1>10, <2>1
<1>12. Closed(nodes, level[N])
  <2> SUFFICES ASSUME NEW c, NEW e \in EntriesOf(nodes, c), e[1] \in level[N]
               PROVE  c \in level[N]
    BY DEF Closed
  <2>1. e[1] \in DOMAIN nodes
    BY <1>9 DEF D
  <2>2. c \in Range(nodes[e[1]].children)
    BY <2>1, ChildrenAreEntries
  <2> QED
    BY <1>11, <2>2 DEF more
<1> QED
  BY <1>1, <1>9, <1>12 DEF D

LEMMA DirectoriesBelowAre ==
  ASSUME NEW nodes, NodesOK(nodes), NEW ino \in DOMAIN nodes
  PROVE  \A d \in DirectoriesBelow(nodes, ino) :
           d \in DOMAIN nodes /\ nodes[d].kind = "directory"
BY BelowIsClosed DEF DirectoriesBelow

\* m is nodes with the directories dirs emptied; the files count what they lost.
LEMMA DirectoriesEmptied ==
  ASSUME NEW nodes, NodesOK(nodes), \A i : IsFiniteSet(EntriesOf(nodes, i)), NEW dirs,
         \A d \in dirs : d \in DOMAIN nodes /\ nodes[d].kind = "directory"
  PROVE  LET m == EmptyDirectories(nodes, dirs)
             lost(i) == EntriesFor(nodes, dirs, i)
         IN /\ NodesOK(m) /\ SameNodes(m, nodes)
            /\ \A i \in DOMAIN nodes : nodes[i].kind # "directory" =>
                 m[i].nlink = IF nodes[i].nlink > Cardinality(lost(i))
                              THEN nodes[i].nlink - Cardinality(lost(i)) ELSE 0
            /\ \A i : /\ lost(i) \subseteq EntriesOf(nodes, i)
                      /\ EntriesOf(m, i) = EntriesOf(nodes, i) \ lost(i)
<1> DEFINE lost(i) == EntriesFor(nodes, dirs, i)
           m == EmptyDirectories(nodes, dirs)
           n == Len(nodes)
           less(i) == IF nodes[i].nlink > Cardinality(lost(i))
                      THEN nodes[i].nlink - Cardinality(lost(i)) ELSE 0
<1>1. /\ n \in Nat /\ DOMAIN nodes = 1..n /\ 1 \in DOMAIN nodes
      /\ nodes[1].kind = "directory" /\ \A i \in DOMAIN nodes : NodeOK(nodes, i)
  BY NodesAreOK
<1>2. m = [i \in DOMAIN nodes |->
             IF i \in dirs THEN [nodes[i] EXCEPT !.children = <<>>]
             ELSE IF nodes[i].kind = "directory" THEN nodes[i]
             ELSE [nodes[i] EXCEPT !.nlink = less(i)]]
  BY DEF EmptyDirectories, Unlink
<1>3. \A i : lost(i) \subseteq EntriesOf(nodes, i)
  BY InEntriesFor DEF EntriesOf
<1>4. \A i \in DOMAIN nodes : less(i) \in Nat
  <2> TAKE i \in DOMAIN nodes
  <2>1. Cardinality(lost(i)) \in Nat
    BY <1>3, FS_Subset, FS_CardinalityType
  <2>2. nodes[i].nlink \in Nat
    BY <1>1 DEF NodeOK, Nodes
  <2> QED
    BY <2>1, <2>2
<1> HIDE DEF n, m, less
<1>5. ASSUME NEW i \in DOMAIN nodes
      PROVE  /\ NodeOK(m, i) /\ m[i].kind = nodes[i].kind
             /\ nodes[i].kind # "directory" => m[i].nlink = less(i)
             /\ DOMAIN m[i].children = IF i \in dirs THEN {} ELSE DOMAIN nodes[i].children
             /\ \A name \in DOMAIN m[i].children : m[i].children[name] = nodes[i].children[name]
  <2>0. NodeOK(nodes, i) /\ DOMAIN m = DOMAIN nodes
    BY <1>1, <1>2
  <2>1. CASE i \in dirs
    <3>1. m[i] = [nodes[i] EXCEPT !.children = <<>>]
      BY <1>2, <2>1
    <3>2. /\ m[i] \in Nodes({<<>>}) /\ m[i].children = <<>>
          /\ m[i].kind = nodes[i].kind /\ m[i].data = nodes[i].data
      BY <2>0, <3>1 DEF NodeOK, Nodes
    <3>3. DOMAIN m[i].children = {} /\ m[i].children \in [{} -> DOMAIN m \ {1}]
      BY <3>2
    <3>4. nodes[i].kind = "directory"
      BY <2>1
    <3>5. NodeOK(m, i)
      BY <2>0, <3>2, <3>3, <3>4 DEF NodeOK
    <3> QED
      BY <2>1, <3>2, <3>3, <3>4, <3>5
  <2>2. CASE i \notin dirs /\ nodes[i].kind = "directory"
    <3>1. m[i] = nodes[i]
      BY <1>2, <2>2
    <3>2. NodeOK(m, i)
      BY <2>0, <3>1 DEF NodeOK
    <3> QED
      BY <2>2, <3>1, <3>2
  <2>3. CASE i \notin dirs /\ nodes[i].kind # "directory"
    <3>1. m[i] = [nodes[i] EXCEPT !.nlink = less(i)]
      BY <1>2, <2>3
    <3>2. /\ m[i] \in Nodes({nodes[i].children}) /\ m[i].children = nodes[i].children
          /\ m[i].kind = nodes[i].kind /\ m[i].data = nodes[i].data /\ m[i].nlink = less(i)
      BY <1>4, <2>0, <3>1 DEF NodeOK, Nodes
    <3>3. NodeOK(m, i)
      BY <2>0, <3>2 DEF NodeOK
    <3> QED
      BY <2>3, <3>2, <3>3
  <2> QED
    BY <2>1, <2>2, <2>3
<1>6. DOMAIN m = DOMAIN nodes /\ m = [i \in 1..n |-> m[i]]
  BY <1>1, <1>2
<1>7. NodesOK(m) /\ Len(m) = n
  <2>1. n # 0 /\ m[1].kind = "directory"
    BY <1>1, <1>5
  <2> QED
    BY <1>1, <1>5, <1>6, <2>1, OKAreNodes
<1>8. SameNodes(m, nodes)
  BY <1>5, <1>6, <1>7 DEF SameNodes, n
<1>9. ASSUME NEW i, NEW e
      PROVE  e \in EntriesOf(m, i) <=> e \in EntriesOf(nodes, i) /\ e \notin lost(i)
  <2>1. ASSUME e \in EntriesOf(m, i)
        PROVE  e \in EntriesOf(nodes, i) /\ e \notin lost(i)
    <3>1. PICK f \in DOMAIN nodes : \E name \in DOMAIN m[f].children :
                 e = <<f, name>> /\ m[f].children[name] = i
      <4>1. DOMAIN m = DOMAIN nodes
        BY <1>6
      <4> QED
        BY <4>1, <2>1, InEntriesFor DEF EntriesOf
    <3>2. PICK name \in DOMAIN m[f].children : e = <<f, name>> /\ m[f].children[name] = i
      BY <3>1
    <3>3. f \notin dirs /\ name \in DOMAIN nodes[f].children /\ nodes[f].children[name] = i
      BY <1>5, <3>2
    <3>4. e \in EntriesOf(nodes, i)
      BY <3>2, <3>3, InEntriesFor DEF EntriesOf
    <3>5. e \notin lost(i)
      <4> SUFFICES ASSUME e \in lost(i) PROVE FALSE
        OBVIOUS
      <4>1. PICK d \in dirs : \E nm \in DOMAIN nodes[d].children : e = <<d, nm>>
        BY InEntriesFor
      <4> QED
        BY <3>2, <3>3, <4>1
    <3> QED
      BY <3>4, <3>5
  <2>2. ASSUME e \in EntriesOf(nodes, i), e \notin lost(i) PROVE e \in EntriesOf(m, i)
    <3>1. PICK f \in DOMAIN nodes : \E name \in DOMAIN nodes[f].children :
                 e = <<f, name>> /\ nodes[f].children[name] = i
      BY <2>2, InEntriesFor DEF EntriesOf
    <3>2. PICK name \in DOMAIN nodes[f].children : e = <<f, name>> /\ nodes[f].children[name] = i
      BY <3>1
    <3>3. f \notin dirs
      BY <2>2, <3>2, InEntriesFor
    <3>4. name \in DOMAIN m[f].children /\ m[f].children[name] = i
      BY <1>5, <3>2, <3>3
    <3> QED
      BY <1>6, <3>2, <3>4, InEntriesFor DEF EntriesOf
  <2> QED
    BY <2>1, <2>2
<1>10. \A i : EntriesOf(m, i) = EntriesOf(nodes, i) \ lost(i)
  BY <1>9
<1> QED
  BY <1>3, <1>5, <1>7, <1>8, <1>10 DEF m, less

-----------------------------------------------------------------------------
(* Counts.                                                                 *)

\* The entries that name node i account for it; but are the nodes whose count
\* may be wrong.
Accounted(nodes, but, i) ==
  /\ IsFiniteSet(EntriesOf(nodes, i))
  /\ nodes[i].kind = "directory" => Cardinality(EntriesOf(nodes, i)) <= 1
  /\ nodes[i].kind # "directory" /\ i \notin but =>
       nodes[i].nlink = Cardinality(EntriesOf(nodes, i))

GoodNodes(nodes, but) ==
  NodesOK(nodes) /\ \A i \in DOMAIN nodes : Accounted(nodes, but, i)

\* Nodes stay what they are, and there may be more.
Keeps(nodes, m) ==
  /\ DOMAIN nodes \subseteq DOMAIN m
  /\ \A i \in DOMAIN nodes : m[i].kind = nodes[i].kind

LEMMA NoEntriesElsewhere ==
  ASSUME NEW nodes, NodesOK(nodes), NEW i, i \notin DOMAIN nodes
  PROVE  EntriesOf(nodes, i) = {}
<1> SUFFICES ASSUME NEW e \in EntriesOf(nodes, i) PROVE FALSE
  OBVIOUS
<1>1. PICK d \in DOMAIN nodes : \E name \in DOMAIN nodes[d].children : nodes[d].children[name] = i
  BY InEntriesFor DEF EntriesOf
<1> QED
  BY <1>1, ChildIsNode

LEMMA AllFinite ==
  ASSUME NEW nodes, NEW but, GoodNodes(nodes, but)
  PROVE  \A i : IsFiniteSet(EntriesOf(nodes, i))
<1> TAKE i
<1>1. CASE i \in DOMAIN nodes
  BY <1>1 DEF GoodNodes, Accounted
<1>2. CASE i \notin DOMAIN nodes
  BY <1>2, NoEntriesElsewhere, FS_EmptySet DEF GoodNodes
<1> QED
  BY <1>1, <1>2

LEMMA EntriesOfAppended ==
  ASSUME NEW nodes, NodesOK(nodes), NEW node, node \in Nodes({<<>>}),
         node.kind # "regular" => node.data = <<>>
  PROVE  \A i : EntriesOf(Append(nodes, node), i) = EntriesOf(nodes, i)
<1> DEFINE m == Append(nodes, node)
           n == Len(nodes)
<1>1. /\ DOMAIN m = DOMAIN nodes \cup {n + 1} /\ DOMAIN m[n + 1].children = {}
      /\ \A i \in DOMAIN nodes : m[i] = nodes[i]
  <2>1. m[n + 1] = node /\ node.children = <<>>
    BY AddedNode
  <2>2. DOMAIN m[n + 1].children = {}
    BY <2>1
  <2> QED
    BY <2>2, AddedNode
<1> HIDE DEF m, n
<1>2. ASSUME NEW i, NEW e PROVE e \in EntriesOf(m, i) <=> e \in EntriesOf(nodes, i)
  <2>1. ASSUME e \in EntriesOf(m, i) PROVE e \in EntriesOf(nodes, i)
    <3>1. PICK f \in DOMAIN m : \E name \in DOMAIN m[f].children :
                 e = <<f, name>> /\ m[f].children[name] = i
      BY <2>1, InEntriesFor DEF EntriesOf
    <3>2. f \in DOMAIN nodes /\ m[f] = nodes[f]
      BY <1>1, <3>1
    <3> QED
      BY <3>1, <3>2, InEntriesFor DEF EntriesOf
  <2>2. ASSUME e \in EntriesOf(nodes, i) PROVE e \in EntriesOf(m, i)
    <3>1. PICK f \in DOMAIN nodes : \E name \in DOMAIN nodes[f].children :
                 e = <<f, name>> /\ nodes[f].children[name] = i
      BY <2>2, InEntriesFor DEF EntriesOf
    <3>2. f \in DOMAIN m /\ m[f] = nodes[f]
      BY <1>1
    <3> QED
      BY <3>1, <3>2, InEntriesFor DEF EntriesOf
  <2> QED
    BY <2>1, <2>2
<1>3. ASSUME NEW i PROVE EntriesOf(m, i) = EntriesOf(nodes, i)
  <2>1. EntriesOf(m, i) \subseteq EntriesOf(nodes, i)
    BY <1>2
  <2>2. EntriesOf(nodes, i) \subseteq EntriesOf(m, i)
    BY <1>2
  <2> QED
    BY <2>1, <2>2
<1> QED
  BY <1>3 DEF m

LEMMA DropAbsent ==
  ASSUME NEW E, NEW x, x \notin E
  PROVE  E \ {x} = E
OBVIOUS

LEMMA PutBack ==
  ASSUME NEW E, NEW x, x \in E
  PROVE  ((E \ {x}) \ {x}) \cup {x} = E
OBVIOUS

LEMMA CardinalityAdd ==
  ASSUME NEW E, IsFiniteSet(E), NEW x, x \notin E
  PROVE  IsFiniteSet(E \cup {x}) /\ Cardinality(E \cup {x}) = Cardinality(E) + 1
BY FS_AddElement

LEMMA CardinalityDrop ==
  ASSUME NEW E, IsFiniteSet(E), NEW x
  PROVE  /\ IsFiniteSet(E \ {x}) /\ Cardinality(E) \in Nat /\ Cardinality(E \ {x}) \in Nat
         /\ Cardinality(E \ {x}) = IF x \in E THEN Cardinality(E) - 1 ELSE Cardinality(E)
         /\ x \in E => Cardinality(E) > 0
<1>1. IsFiniteSet(E \ {x}) /\ Cardinality(E \ {x}) = IF x \in E THEN Cardinality(E) - 1 ELSE Cardinality(E)
  BY FS_RemoveElement
<1>2. Cardinality(E) \in Nat /\ Cardinality(E \ {x}) \in Nat
  BY <1>1, FS_CardinalityType
<1> QED
  BY <1>1, <1>2

LEMMA CardinalityLoss ==
  ASSUME NEW E, IsFiniteSet(E), NEW lost, lost \subseteq E
  PROVE  /\ IsFiniteSet(E \ lost) /\ Cardinality(lost) \in Nat /\ Cardinality(E) \in Nat
         /\ Cardinality(E \ lost) = Cardinality(E) - Cardinality(lost)
         /\ Cardinality(E \ lost) \in Nat
<1>1. IsFiniteSet(lost) /\ IsFiniteSet(E \ lost)
  BY FS_Subset
<1>2. E \cap lost = lost
  OBVIOUS
<1>3. Cardinality(E \ lost) = Cardinality(E) - Cardinality(lost)
  BY <1>2, FS_Difference
<1> QED
  BY <1>1, <1>3, FS_CardinalityType

\* A new node with its one entry.
LEMMA WithNodeGood ==
  ASSUME NEW nodes, NEW but, GoodNodes(nodes, but), NEW parent, ParentOK(nodes, parent),
         ~HasEntry(nodes, parent), NEW node, node \in Nodes({<<>>}), node.nlink = 1,
         node.kind # "regular" => node.data = <<>>
  PROVE  LET m == WithNode(nodes, parent, node) IN
         /\ GoodNodes(m, but) /\ Keeps(nodes, m) /\ Len(m) = Len(nodes) + 1
         /\ Len(nodes) + 1 \in DOMAIN m /\ m[Len(nodes) + 1].kind = node.kind
         /\ \A i : EntriesOf(nodes, i) \subseteq EntriesOf(m, i)
<1> DEFINE n == Len(nodes) + 1
           a == Append(nodes, node)
           m == WithEntry(a, parent, n)
<1>0. NodesOK(nodes)
  BY DEF GoodNodes
<1>1. /\ NodesOK(a) /\ Len(a) = n /\ DOMAIN a = DOMAIN nodes \cup {n}
      /\ n \notin DOMAIN nodes /\ n # 1 /\ a[n] = node
      /\ \A i \in DOMAIN nodes : a[i] = nodes[i]
  BY <1>0, AddedNode
<1>2. \A i : EntriesOf(a, i) = EntriesOf(nodes, i)
  BY <1>0, EntriesOfAppended
<1>3. WithNode(nodes, parent, node) = m
  BY DEF WithNode
<1> HIDE DEF a, n
<1>4. ParentOK(a, parent) /\ ~HasEntry(a, parent)
  BY <1>1 DEF ParentOK, HasEntry
<1>5. /\ NodesOK(m) /\ SameNodes(m, a)
      /\ \A i \in DOMAIN a : m[i].nlink = a[i].nlink
      /\ \A i : EntriesOf(m, i) = IF i = n THEN EntriesOf(a, i) \cup {Place(parent)}
                                  ELSE EntriesOf(a, i)
  BY <1>1, <1>4, EntryAdded
<1> HIDE DEF m
<1>6. Len(m) = n /\ DOMAIN m = DOMAIN nodes \cup {n} /\ m[n].kind = node.kind
  BY <1>1, <1>5 DEF SameNodes
<1>7. \A i \in DOMAIN nodes : m[i].kind = nodes[i].kind /\ m[i].nlink = nodes[i].nlink
  BY <1>1, <1>5 DEF SameNodes
<1>8. ASSUME NEW i \in DOMAIN m PROVE Accounted(m, but, i)
  <2>1. CASE i = n
    <3>1. EntriesOf(m, i) = {Place(parent)}
      BY <1>0, <1>1, <1>2, <1>5, <2>1, NoEntriesElsewhere
    <3>2. IsFiniteSet(EntriesOf(m, i)) /\ Cardinality(EntriesOf(m, i)) = 1
      BY <3>1, FS_Singleton
    <3>3. m[i].nlink = 1
      BY <1>1, <1>5, <2>1
    <3> QED
      BY <3>2, <3>3 DEF Accounted
  <2>2. CASE i # n
    <3>1. i \in DOMAIN nodes /\ EntriesOf(m, i) = EntriesOf(nodes, i)
      BY <1>2, <1>5, <1>6, <2>2
    <3>2. Accounted(nodes, but, i)
      BY <3>1 DEF GoodNodes
    <3> QED
      BY <1>7, <3>1, <3>2 DEF Accounted
  <2> QED
    BY <2>1, <2>2
<1>9. GoodNodes(m, but) /\ Keeps(nodes, m)
  BY <1>5, <1>6, <1>7, <1>8 DEF GoodNodes, Keeps
<1>10. \A i : EntriesOf(nodes, i) \subseteq EntriesOf(m, i)
  BY <1>2, <1>5
<1> QED
  BY <1>3, <1>6, <1>9, <1>10 DEF n

LEMMA SameChildren ==
  ASSUME NEW nodes, NEW m, DOMAIN m = DOMAIN nodes,
         \A i \in DOMAIN nodes : m[i].children = nodes[i].children
  PROVE  \A i : EntriesOf(m, i) = EntriesOf(nodes, i)
<1>1. ASSUME NEW i, NEW e PROVE e \in EntriesOf(m, i) <=> e \in EntriesOf(nodes, i)
  BY InEntriesFor DEF EntriesOf
<1> QED
  BY <1>1

LEMMA SameKeeps ==
  ASSUME NEW nodes, NEW m, SameNodes(m, nodes)
  PROVE  Keeps(nodes, m)
BY DEF SameNodes, Keeps

LEMMA PlaceOfEntry ==
  ASSUME NEW nodes, NEW parent, parent.ino \in DOMAIN nodes
  PROVE  /\ HasEntry(nodes, parent) => Place(parent) \in EntriesOf(nodes, Entry(nodes, parent))
         /\ \A i : Place(parent) \in EntriesOf(nodes, i) =>
              HasEntry(nodes, parent) /\ Entry(nodes, parent) = i
<1>1. ASSUME HasEntry(nodes, parent)
      PROVE  Place(parent) \in EntriesOf(nodes, Entry(nodes, parent))
  BY <1>1, InEntriesFor DEF EntriesOf, HasEntry, Entry, Place
<1>2. ASSUME NEW i, Place(parent) \in EntriesOf(nodes, i)
      PROVE  HasEntry(nodes, parent) /\ Entry(nodes, parent) = i
  <2>1. PICK d \in DOMAIN nodes : \E name \in DOMAIN nodes[d].children :
               Place(parent) = <<d, name>> /\ nodes[d].children[name] = i
    BY <1>2, InEntriesFor DEF EntriesOf
  <2> QED
    BY <2>1 DEF Place, HasEntry, Entry
<1> QED
  BY <1>1, <1>2

\* Another entry of a file, which is counted.
LEMMA LinkedGood ==
  ASSUME NEW nodes, NEW but, GoodNodes(nodes, but), NEW parent, ParentOK(nodes, parent),
         ~HasEntry(nodes, parent), NEW ino \in DOMAIN nodes, nodes[ino].kind # "directory"
  PROVE  LET m == [WithEntry(nodes, parent, ino) EXCEPT ![ino].nlink = @ + 1] IN
         /\ GoodNodes(m, but) /\ SameNodes(m, nodes)
         /\ \A i : EntriesOf(nodes, i) \subseteq EntriesOf(m, i)
<1> DEFINE a == WithEntry(nodes, parent, ino)
           k == a[ino].nlink + 1
           m == [a EXCEPT ![ino] = [a[ino] EXCEPT !.nlink = k]]
<1>0. NodesOK(nodes) /\ ino # 1
  BY NodesAreOK DEF GoodNodes
<1>1. /\ NodesOK(a) /\ SameNodes(a, nodes)
      /\ \A i \in DOMAIN nodes : a[i].nlink = nodes[i].nlink
      /\ \A i : EntriesOf(a, i) = IF i = ino THEN EntriesOf(nodes, i) \cup {Place(parent)}
                                  ELSE EntriesOf(nodes, i)
      /\ \A i : Place(parent) \notin EntriesOf(nodes, i)
  BY <1>0, EntryAdded
<1>2. [WithEntry(nodes, parent, ino) EXCEPT ![ino].nlink = @ + 1] = m
  OBVIOUS
<1> HIDE DEF a
<1>3. ino \in DOMAIN a /\ k \in Nat
  <2>1. ino \in DOMAIN a
    BY <1>1 DEF SameNodes
  <2>2. a[ino].nlink \in Nat
    BY <1>1, <2>1, NodesAreOK DEF NodeOK, Nodes
  <2> QED
    BY <2>1, <2>2
<1> HIDE DEF k
<1>4. /\ NodesOK(m) /\ SameNodes(m, a)
      /\ \A i \in DOMAIN a : /\ m[i].nlink = IF i = ino THEN k ELSE a[i].nlink
                             /\ m[i].children = a[i].children
  BY <1>1, <1>3, ChangeLinks
<1> HIDE DEF m
<1>5. \A i : EntriesOf(m, i) = EntriesOf(a, i)
  BY <1>4, SameChildren DEF SameNodes
<1>6. SameNodes(m, nodes)
  BY <1>1, <1>4 DEF SameNodes
<1>7. ASSUME NEW i \in DOMAIN nodes PROVE Accounted(m, but, i)
  <2>0. Accounted(nodes, but, i)
    BY DEF GoodNodes
  <2>1. CASE i = ino
    <3>1. /\ EntriesOf(m, i) = EntriesOf(nodes, i) \cup {Place(parent)}
          /\ Place(parent) \notin EntriesOf(nodes, i)
      BY <1>1, <1>5, <2>1
    <3>2. /\ IsFiniteSet(EntriesOf(m, i))
          /\ Cardinality(EntriesOf(m, i)) = Cardinality(EntriesOf(nodes, i)) + 1
      BY <2>0, <3>1, CardinalityAdd DEF Accounted
    <3>3. m[i].kind = nodes[i].kind /\ m[i].nlink = nodes[i].nlink + 1
      BY <1>1, <1>3, <1>4, <1>6, <2>1 DEF SameNodes, k
    <3> QED
      BY <2>0, <2>1, <3>2, <3>3 DEF Accounted
  <2>2. CASE i # ino
    <3>1. EntriesOf(m, i) = EntriesOf(nodes, i)
      BY <1>1, <1>5, <2>2
    <3>2. m[i].kind = nodes[i].kind /\ m[i].nlink = nodes[i].nlink
      BY <1>1, <1>4, <1>6, <2>2 DEF SameNodes
    <3> QED
      BY <2>0, <3>1, <3>2 DEF Accounted
  <2> QED
    BY <2>1, <2>2
<1>8. GoodNodes(m, but)
  BY <1>4, <1>6, <1>7 DEF GoodNodes, SameNodes
<1>9. \A i : EntriesOf(nodes, i) \subseteq EntriesOf(m, i)
  BY <1>1, <1>5
<1> QED
  BY <1>2, <1>6, <1>8, <1>9

\* Without an entry of a directory.
LEMMA DirectoryDetached ==
  ASSUME NEW nodes, NEW but, GoodNodes(nodes, but), NEW parent, ParentOK(nodes, parent),
         HasEntry(nodes, parent), nodes[Entry(nodes, parent)].kind = "directory"
  PROVE  LET m == WithoutEntry(nodes, parent) IN
         GoodNodes(m, but) /\ SameNodes(m, nodes)
<1> DEFINE m == WithoutEntry(nodes, parent)
           ino == Entry(nodes, parent)
<1>0. NodesOK(nodes) /\ parent.ino \in DOMAIN nodes
  BY DEF GoodNodes, ParentOK
<1>1. /\ NodesOK(m) /\ SameNodes(m, nodes)
      /\ \A i \in DOMAIN nodes : m[i].nlink = nodes[i].nlink
      /\ \A i : EntriesOf(m, i) = EntriesOf(nodes, i) \ {Place(parent)}
  BY <1>0, EntryRemoved
<1> HIDE DEF m
<1>2. ASSUME NEW i \in DOMAIN nodes PROVE Accounted(m, but, i)
  <2>0. Accounted(nodes, but, i)
    BY DEF GoodNodes
  <2>1. CASE i = ino
    <3>1. /\ IsFiniteSet(EntriesOf(m, i))
          /\ Cardinality(EntriesOf(m, i)) <= Cardinality(EntriesOf(nodes, i))
          /\ Cardinality(EntriesOf(m, i)) \in Nat /\ Cardinality(EntriesOf(nodes, i)) \in Nat
      <4>1. IsFiniteSet(EntriesOf(nodes, i)) /\ EntriesOf(m, i) = EntriesOf(nodes, i) \ {Place(parent)}
        BY <1>1, <2>0 DEF Accounted
      <4>2. /\ IsFiniteSet(EntriesOf(m, i))
            /\ Cardinality(EntriesOf(m, i)) \in Nat /\ Cardinality(EntriesOf(nodes, i)) \in Nat
            /\ \/ Cardinality(EntriesOf(m, i)) = Cardinality(EntriesOf(nodes, i)) - 1
               \/ Cardinality(EntriesOf(m, i)) = Cardinality(EntriesOf(nodes, i))
        BY <4>1, CardinalityDrop
      <4> QED
        BY <4>2
    <3>2. m[i].kind = "directory" /\ nodes[i].kind = "directory"
      BY <1>1, <2>1 DEF SameNodes
    <3> QED
      BY <2>0, <3>1, <3>2 DEF Accounted
  <2>2. CASE i # ino
    <3>1. Place(parent) \notin EntriesOf(nodes, i)
      BY <1>0, <2>2, PlaceOfEntry
    <3>2. EntriesOf(m, i) = EntriesOf(nodes, i)
      BY <1>1, <3>1
    <3>3. m[i].kind = nodes[i].kind /\ m[i].nlink = nodes[i].nlink
      BY <1>1 DEF SameNodes
    <3> QED
      BY <2>0, <3>2, <3>3 DEF Accounted
  <2> QED
    BY <2>1, <2>2
<1> QED
  BY <1>1, <1>2 DEF GoodNodes, SameNodes, m

\* Without an entry, which the file counts no more.
LEMMA EntryDiscarded ==
  ASSUME NEW nodes, NEW but, GoodNodes(nodes, but), NEW parent, ParentOK(nodes, parent),
         HasEntry(nodes, parent)
  PROVE  LET m == Discard(WithoutEntry(nodes, parent), Entry(nodes, parent), FALSE) IN
         /\ GoodNodes(m, but) /\ SameNodes(m, nodes)
         /\ \A i : EntriesOf(m, i) = EntriesOf(nodes, i) \ {Place(parent)}
<1> DEFINE a == WithoutEntry(nodes, parent)
           ino == Entry(nodes, parent)
           k == IF a[ino].nlink > 1 THEN a[ino].nlink - 1 ELSE 0
           b == [a EXCEPT ![ino] = [a[ino] EXCEPT !.nlink = k]]
           m == Discard(a, ino, FALSE)
<1>0. NodesOK(nodes) /\ parent.ino \in DOMAIN nodes /\ ino \in DOMAIN nodes
  BY EntryIsNode DEF GoodNodes, ParentOK
<1>1. /\ NodesOK(a) /\ SameNodes(a, nodes)
      /\ \A i \in DOMAIN nodes : a[i].nlink = nodes[i].nlink
      /\ \A i : EntriesOf(a, i) = EntriesOf(nodes, i) \ {Place(parent)}
  BY <1>0, EntryRemoved
<1>2. CASE nodes[ino].kind = "directory"
  <2>1. a[ino].kind = "directory"
    BY <1>0, <1>1, <1>2 DEF SameNodes
  <2>2. m = a
    BY <2>1 DEF Discard
  <2>3. GoodNodes(a, but)
    BY <1>2, DirectoryDetached
  <2> HIDE DEF a, m
  <2>4. GoodNodes(m, but) /\ SameNodes(m, nodes) /\ \A i : EntriesOf(m, i) = EntriesOf(nodes, i) \ {Place(parent)}
    BY <1>1, <2>2, <2>3
  <2> QED
    BY <2>4 DEF m, a
<1>3. CASE nodes[ino].kind # "directory"
  <2>1. a[ino].kind # "directory"
    BY <1>0, <1>1, <1>3 DEF SameNodes
  <2>2. m = b
    BY <2>1 DEF Discard, Unlink
  <2> HIDE DEF a
  <2>3. ino \in DOMAIN a /\ a[ino].nlink \in Nat
    <3>1. ino \in DOMAIN a
      BY <1>0, <1>1 DEF SameNodes
    <3> QED
      BY <1>1, <3>1, NodesAreOK DEF NodeOK, Nodes
  <2>4. k \in Nat /\ (a[ino].nlink > 0 => k = a[ino].nlink - 1)
    BY <2>3
  <2> HIDE DEF k
  <2>5. /\ NodesOK(b) /\ SameNodes(b, a)
        /\ \A i \in DOMAIN a : /\ b[i].nlink = IF i = ino THEN k ELSE a[i].nlink
                               /\ b[i].children = a[i].children
    BY <1>1, <2>3, <2>4, ChangeLinks
  <2> HIDE DEF b, m
  <2>6. \A i : EntriesOf(b, i) = EntriesOf(nodes, i) \ {Place(parent)}
    BY <1>1, <2>5, SameChildren DEF SameNodes
  <2>7. SameNodes(b, nodes)
    BY <1>1, <2>5 DEF SameNodes
  <2>8. ASSUME NEW i \in DOMAIN nodes PROVE Accounted(b, but, i)
    <3>0. Accounted(nodes, but, i)
      BY DEF GoodNodes
    <3>1. CASE i = ino
      <4>1. Place(parent) \in EntriesOf(nodes, i)
        BY <1>0, <3>1, PlaceOfEntry
      <4>2. /\ IsFiniteSet(EntriesOf(b, i))
            /\ Cardinality(EntriesOf(b, i)) = Cardinality(EntriesOf(nodes, i)) - 1
            /\ Cardinality(EntriesOf(nodes, i)) > 0
        BY <2>6, <3>0, <4>1, CardinalityDrop DEF Accounted
      <4>3. b[i].kind # "directory" /\ nodes[i].kind # "directory" /\ b[i].nlink = k
        BY <1>0, <1>3, <2>3, <2>5, <2>7, <3>1 DEF SameNodes
      <4>4. a[i].nlink = nodes[i].nlink
        BY <1>1
      <4> QED
        BY <2>4, <3>0, <3>1, <4>2, <4>3, <4>4 DEF Accounted
    <3>2. CASE i # ino
      <4>1. Place(parent) \notin EntriesOf(nodes, i)
        BY <1>0, <3>2, PlaceOfEntry
      <4>2. EntriesOf(b, i) = EntriesOf(nodes, i)
        BY <2>6, <4>1
      <4>3. b[i].kind = nodes[i].kind /\ b[i].nlink = nodes[i].nlink
        BY <1>1, <2>5, <2>7, <3>2 DEF SameNodes
      <4> QED
        BY <3>0, <4>2, <4>3 DEF Accounted
    <3> QED
      BY <3>1, <3>2
  <2>9. GoodNodes(b, but)
    BY <2>5, <2>7, <2>8 DEF GoodNodes, SameNodes
  <2>10. GoodNodes(m, but) /\ SameNodes(m, nodes) /\ \A i : EntriesOf(m, i) = EntriesOf(nodes, i) \ {Place(parent)}
    BY <2>2, <2>6, <2>7, <2>9
  <2> QED
    BY <2>10 DEF m, a
<1> QED
  BY <1>2, <1>3

\* Directories without their entries, which the files count no more.
LEMMA EmptiedGood ==
  ASSUME NEW nodes, NEW but, GoodNodes(nodes, but), NEW ino \in DOMAIN nodes
  PROVE  LET m == EmptyDirectories(nodes, DirectoriesBelow(nodes, ino)) IN
         GoodNodes(m, but) /\ SameNodes(m, nodes)
<1> DEFINE dirs == DirectoriesBelow(nodes, ino)
           m == EmptyDirectories(nodes, dirs)
           lost(i) == EntriesFor(nodes, dirs, i)
<1>0. NodesOK(nodes)
  BY DEF GoodNodes
<1>1. \A d \in dirs : d \in DOMAIN nodes /\ nodes[d].kind = "directory"
  BY <1>0, DirectoriesBelowAre
<1>2. \A i : IsFiniteSet(EntriesOf(nodes, i))
  BY AllFinite
<1> HIDE DEF dirs
<1>3. /\ NodesOK(m) /\ SameNodes(m, nodes)
      /\ \A i \in DOMAIN nodes : nodes[i].kind # "directory" =>
           m[i].nlink = IF nodes[i].nlink > Cardinality(lost(i))
                        THEN nodes[i].nlink - Cardinality(lost(i)) ELSE 0
      /\ \A i : /\ lost(i) \subseteq EntriesOf(nodes, i)
                /\ EntriesOf(m, i) = EntriesOf(nodes, i) \ lost(i)
  BY <1>0, <1>1, <1>2, DirectoriesEmptied
<1> HIDE DEF m, lost
<1>4. ASSUME NEW i \in DOMAIN nodes PROVE Accounted(m, but, i)
  <2>0. Accounted(nodes, but, i)
    BY DEF GoodNodes
  <2>1. IsFiniteSet(EntriesOf(nodes, i)) /\ lost(i) \subseteq EntriesOf(nodes, i)
    BY <1>2, <1>3
  <2>2. EntriesOf(m, i) = EntriesOf(nodes, i) \ lost(i)
    BY <1>3
  <2>3. /\ IsFiniteSet(EntriesOf(m, i))
        /\ Cardinality(lost(i)) \in Nat /\ Cardinality(EntriesOf(nodes, i)) \in Nat
        /\ Cardinality(EntriesOf(m, i)) \in Nat
        /\ Cardinality(EntriesOf(m, i)) = Cardinality(EntriesOf(nodes, i)) - Cardinality(lost(i))
    BY <2>1, <2>2, CardinalityLoss
  <2>4. m[i].kind = nodes[i].kind
    BY <1>3 DEF SameNodes
  <2>5. CASE nodes[i].kind = "directory"
    BY <2>0, <2>3, <2>4, <2>5 DEF Accounted
  <2>6. CASE nodes[i].kind # "directory"
    <3>1. m[i].nlink = IF nodes[i].nlink > Cardinality(lost(i))
                       THEN nodes[i].nlink - Cardinality(lost(i)) ELSE 0
      BY <1>3, <2>6
    <3>2. i \notin but => m[i].nlink = Cardinality(EntriesOf(m, i))
      BY <2>0, <2>3, <2>6, <3>1 DEF Accounted
    <3> QED
      BY <2>3, <2>4, <2>6, <3>2 DEF Accounted
  <2> QED
    BY <2>5, <2>6
<1>5. GoodNodes(m, but) /\ SameNodes(m, nodes)
  BY <1>3, <1>4 DEF GoodNodes, SameNodes
<1> QED
  BY <1>5 DEF m, dirs

\* The entry of a node that is moved to another place, where there is none.
LEMMA MovedGood ==
  ASSUME NEW nodes, NEW but, GoodNodes(nodes, but),
         NEW from, ParentOK(nodes, from), NEW to, ParentOK(nodes, to), ~HasEntry(nodes, to),
         NEW ino \in DOMAIN nodes, ino # 1, Place(from) \in EntriesOf(nodes, ino)
  PROVE  LET m == WithEntry(WithoutEntry(nodes, from), to, ino) IN
         GoodNodes(m, but) /\ SameNodes(m, nodes)
<1> DEFINE a == WithoutEntry(nodes, from)
           m == WithEntry(a, to, ino)
<1>0. /\ NodesOK(nodes) /\ from.ino \in DOMAIN nodes /\ to.ino \in DOMAIN nodes
      /\ \A i : Place(to) \notin EntriesOf(nodes, i)
  BY PlaceOfEntry DEF GoodNodes, ParentOK
<1>1. /\ NodesOK(a) /\ SameNodes(a, nodes)
      /\ \A i \in DOMAIN nodes : a[i].nlink = nodes[i].nlink
      /\ \A i : EntriesOf(a, i) = EntriesOf(nodes, i) \ {Place(from)}
  BY <1>0, EntryRemoved
<1> HIDE DEF a
<1>2. to.ino \in DOMAIN a /\ ParentOK(a, to) /\ ino \in DOMAIN a
  BY <1>0, <1>1 DEF ParentOK, SameNodes
<1>3. ~HasEntry(a, to)
  <2>1. Place(to) \notin EntriesOf(a, Entry(a, to))
    BY <1>0, <1>1
  <2> QED
    BY <1>2, <2>1, PlaceOfEntry
<1>4. /\ NodesOK(m) /\ SameNodes(m, a)
      /\ \A i \in DOMAIN a : m[i].nlink = a[i].nlink
      /\ \A i : EntriesOf(m, i) = IF i = ino THEN EntriesOf(a, i) \cup {Place(to)}
                                  ELSE EntriesOf(a, i)
      /\ \A i : Place(to) \notin EntriesOf(a, i)
  BY <1>1, <1>2, <1>3, EntryAdded
<1> HIDE DEF m
<1>5. SameNodes(m, nodes) /\ \A i \in DOMAIN nodes : m[i].nlink = nodes[i].nlink
  BY <1>1, <1>4 DEF SameNodes
<1>6. ASSUME NEW i \in DOMAIN nodes PROVE Accounted(m, but, i)
  <2>0. Accounted(nodes, but, i)
    BY DEF GoodNodes
  <2>1. IsFiniteSet(EntriesOf(m, i)) /\ Cardinality(EntriesOf(m, i)) = Cardinality(EntriesOf(nodes, i))
    <3>1. CASE i = ino
      <4>1. EntriesOf(a, i) = EntriesOf(nodes, i) \ {Place(from)} /\ Place(from) \in EntriesOf(nodes, i)
        BY <1>1, <3>1
      <4>2. /\ IsFiniteSet(EntriesOf(a, i)) /\ Cardinality(EntriesOf(nodes, i)) \in Nat
            /\ Cardinality(EntriesOf(a, i)) = Cardinality(EntriesOf(nodes, i)) - 1
        BY <2>0, <4>1, CardinalityDrop DEF Accounted
      <4>3. EntriesOf(m, i) = EntriesOf(a, i) \cup {Place(to)} /\ Place(to) \notin EntriesOf(a, i)
        BY <1>4, <3>1
      <4>4. /\ IsFiniteSet(EntriesOf(m, i))
            /\ Cardinality(EntriesOf(m, i)) = Cardinality(EntriesOf(a, i)) + 1
        BY <4>2, <4>3, CardinalityAdd
      <4> QED
        BY <4>2, <4>4
    <3>2. CASE i # ino
      <4>1. Place(from) \notin EntriesOf(nodes, i)
        BY <1>0, <3>2, PlaceOfEntry
      <4>2. EntriesOf(m, i) = EntriesOf(nodes, i)
        <5>1. EntriesOf(m, i) = EntriesOf(a, i) /\ EntriesOf(a, i) = EntriesOf(nodes, i) \ {Place(from)}
          BY <1>1, <1>4, <3>2
        <5> QED
          BY <4>1, <5>1, DropAbsent
      <4> QED
        BY <2>0, <4>2 DEF Accounted
    <3> QED
      BY <3>1, <3>2
  <2>2. m[i].kind = nodes[i].kind /\ m[i].nlink = nodes[i].nlink
    BY <1>5 DEF SameNodes
  <2> QED
    BY <2>0, <2>1, <2>2 DEF Accounted
<1> QED
  BY <1>4, <1>5, <1>6 DEF GoodNodes, SameNodes, m, a

\* A file that is renamed to the very entry it has loses a count.
LEMMA MovedToItself ==
  ASSUME NEW nodes, NEW but, GoodNodes(nodes, but),
         NEW from, ParentOK(nodes, from), NEW to, ParentOK(nodes, to),
         HasEntry(nodes, to), Place(from) = Place(to),
         NEW clear, GoodNodes(clear, but), SameNodes(clear, nodes),
         \A i : EntriesOf(clear, i) = EntriesOf(nodes, i) \ {Place(to)}
  PROVE  LET m == WithEntry(WithoutEntry(clear, from), to, Entry(nodes, to)) IN
         GoodNodes(m, but \cup {Entry(nodes, to)}) /\ SameNodes(m, nodes)
<1> DEFINE ino == Entry(nodes, to)
           a == WithoutEntry(clear, from)
           m == WithEntry(a, to, ino)
<1>0. /\ NodesOK(nodes) /\ from.ino \in DOMAIN nodes /\ to.ino \in DOMAIN nodes
      /\ ino \in DOMAIN nodes /\ ino # 1
  BY EntryIsNode DEF GoodNodes, ParentOK
<1>1. /\ GoodNodes(clear, but) /\ SameNodes(clear, nodes)
      /\ \A i : EntriesOf(clear, i) = EntriesOf(nodes, i) \ {Place(to)}
  OBVIOUS
<1>2. Place(to) \in EntriesOf(nodes, ino) /\ \A i : i # ino => Place(to) \notin EntriesOf(nodes, i)
  BY <1>0, PlaceOfEntry
<1> HIDE DEF ino
<1>3. /\ NodesOK(a) /\ SameNodes(a, clear)
      /\ \A i \in DOMAIN clear : a[i].nlink = clear[i].nlink
      /\ \A i : EntriesOf(a, i) = EntriesOf(clear, i) \ {Place(from)}
  <2>1. NodesOK(clear) /\ ParentOK(clear, from)
    BY <1>1 DEF GoodNodes, SameNodes, ParentOK
  <2> QED
    BY <2>1, EntryRemoved
<1> HIDE DEF a
<1>4. to.ino \in DOMAIN a /\ ParentOK(a, to) /\ ino \in DOMAIN a
  BY <1>0, <1>1, <1>3 DEF ParentOK, SameNodes
<1>5. ~HasEntry(a, to)
  <2>1. Place(to) \notin EntriesOf(a, Entry(a, to))
    BY <1>1, <1>3
  <2> QED
    BY <1>4, <2>1, PlaceOfEntry
<1>6. /\ NodesOK(m) /\ SameNodes(m, a)
      /\ \A i \in DOMAIN a : m[i].nlink = a[i].nlink
      /\ \A i : EntriesOf(m, i) = IF i = ino THEN EntriesOf(a, i) \cup {Place(to)}
                                  ELSE EntriesOf(a, i)
  BY <1>0, <1>3, <1>4, <1>5, EntryAdded
<1> HIDE DEF m
<1>7. SameNodes(m, nodes) /\ \A i \in DOMAIN nodes : m[i].nlink = clear[i].nlink
  BY <1>1, <1>3, <1>6 DEF SameNodes
<1>8. ASSUME NEW i \in DOMAIN nodes PROVE Accounted(m, but \cup {ino}, i)
  <2>1. m[i].kind = nodes[i].kind /\ m[i].nlink = clear[i].nlink /\ clear[i].kind = nodes[i].kind
    BY <1>1, <1>7 DEF SameNodes
  <2>2. CASE i = ino
    <3>1. EntriesOf(m, i) = EntriesOf(nodes, i)
      <4>1. /\ EntriesOf(clear, i) = EntriesOf(nodes, i) \ {Place(to)}
            /\ EntriesOf(a, i) = EntriesOf(clear, i) \ {Place(to)}
            /\ EntriesOf(m, i) = EntriesOf(a, i) \cup {Place(to)}
            /\ Place(to) \in EntriesOf(nodes, i)
        BY <1>1, <1>2, <1>3, <1>6, <2>2
      <4> QED
        BY <4>1, PutBack
    <3>2. Accounted(nodes, but, i)
      BY DEF GoodNodes
    <3> QED
      BY <2>1, <2>2, <3>1, <3>2 DEF Accounted
  <2>3. CASE i # ino
    <3>1. EntriesOf(m, i) = EntriesOf(clear, i)
      <4>1. /\ EntriesOf(m, i) = EntriesOf(a, i) /\ EntriesOf(a, i) = EntriesOf(clear, i) \ {Place(to)}
            /\ Place(to) \notin EntriesOf(clear, i)
        BY <1>1, <1>3, <1>6, <2>3
      <4> QED
        BY <4>1, DropAbsent
    <3>2. Accounted(clear, but, i)
      BY <1>1 DEF GoodNodes, SameNodes
    <3> QED
      BY <2>1, <2>3, <3>1, <3>2 DEF Accounted
  <2> QED
    BY <2>2, <2>3
<1> QED
  BY <1>6, <1>7, <1>8 DEF GoodNodes, SameNodes, m, a, ino

-----------------------------------------------------------------------------
(* The calls keep the count of entries.                                    *)

\* m is what a call made of nodes.
Kept(nodes, but, m) == GoodNodes(m, but) /\ Keeps(nodes, m)

LEMMA ItselfKept ==
  ASSUME NEW nodes, NEW but, GoodNodes(nodes, but)
  PROVE  Kept(nodes, but, nodes)
BY DEF Kept, Keeps

\* ... and it took no entry away.
Grows(nodes, m) == \A i : EntriesOf(nodes, i) \subseteq EntriesOf(m, i)
Grown(nodes, but, m) == Kept(nodes, but, m) /\ Grows(nodes, m)

LEMMA ItselfGrown ==
  ASSUME NEW nodes, NEW but, GoodNodes(nodes, but)
  PROVE  Grown(nodes, but, nodes)
BY ItselfKept DEF Grown, Grows

LEMMA SameKept ==
  ASSUME NEW nodes, NEW but, NEW m, GoodNodes(m, but), SameNodes(m, nodes)
  PROVE  Kept(nodes, but, m)
BY SameKeeps DEF Kept

LEMMA KeptAfter ==
  ASSUME NEW nodes, NEW but, NEW m, NEW k, Kept(nodes, but, m), Kept(m, but, k)
  PROVE  Kept(nodes, but, k)
BY DEF Kept, Keeps

LEMMA GrownAfter ==
  ASSUME NEW nodes, NEW but, NEW m, NEW k, Grown(nodes, but, m), Grown(m, but, k)
  PROVE  Grown(nodes, but, k)
<1>1. Kept(nodes, but, k)
  BY KeptAfter DEF Grown
<1>2. Grows(nodes, k)
  BY DEF Grown, Grows
<1> QED
  BY <1>1, <1>2 DEF Grown

LEMMA ErrorIsMissing ==
  ASSUME NEW err
  PROVE  Missing(err).err = err /\ EntryAt(Missing(err), "none").err = err
BY DEF Missing, EntryAt

\* The directory and the name of what a call creates.
LEMMA NewNameOK ==
  ASSUME NEW nodes, NodesOK(nodes), NEW path \in Paths,
         NewName(nodes, relative(path)).err = nil
  PROVE  /\ ParentOK(nodes, NewName(nodes, relative(path)))
         /\ ~HasEntry(nodes, NewName(nodes, relative(path)))
<1> DEFINE r == Resolved(relative(path))
           parent == LookupParent(nodes, r.path)
           name == NewName(nodes, relative(path))
<1>1. name = IF r.err # nil THEN Missing(r.err)
             ELSE IF parent.err = nil /\ HasEntry(nodes, parent)
             THEN EntryAt(Missing("exist"), "none") ELSE parent
  BY DEF NewName, Unused
<1>2. r.err = nil => InRoot(r.path)
  BY RelativeIsTarget
<1> HIDE DEF r
<1>3. r.err = nil /\ parent.err = nil => ParentOK(nodes, parent)
  BY <1>2, LookupParentOK
<1> HIDE DEF parent, name
<1>4. name.err = nil
  BY DEF name
<1>5. r.err = nil
  BY <1>1, <1>4, ErrorIsMissing
<1>6. ~(parent.err = nil /\ HasEntry(nodes, parent))
  BY <1>1, <1>4, <1>5, ErrorIsMissing, NilIsNoError
<1>7. name = parent
  BY <1>1, <1>5, <1>6
<1>8. ParentOK(nodes, name) /\ ~HasEntry(nodes, name)
  BY <1>3, <1>4, <1>5, <1>6, <1>7
<1> QED
  BY <1>8 DEF name

LEMMA AddNodeGrows ==
  ASSUME NEW nodes, NEW but, GoodNodes(nodes, but),
         NEW parent, parent.err = nil => ParentOK(nodes, parent) /\ ~HasEntry(nodes, parent),
         NEW node, node \in Nodes({<<>>}), node.nlink = 1,
         node.kind # "regular" => node.data = <<>>
  PROVE  Grown(nodes, but, AddNode(nodes, parent, node).fs)
<1>1. CASE parent.err # nil
  <2>1. AddNode(nodes, parent, node).fs = nodes
    BY <1>1 DEF AddNode, Fail
  <2> QED
    BY <2>1, ItselfGrown
<1>2. CASE parent.err = nil
  <2>1. AddNode(nodes, parent, node).fs = WithNode(nodes, parent, node)
    BY <1>2 DEF AddNode, Done
  <2>2. Grown(nodes, but, WithNode(nodes, parent, node))
    BY <1>2, WithNodeGood DEF Grown, Kept, Grows
  <2> QED
    BY <2>1, <2>2
<1> QED
  BY <1>1, <1>2

LEMMA NewNodes ==
  /\ NewNode("directory", directory) \in Nodes({<<>>})
  /\ NewNode("directory", directory).kind = "directory"
  /\ NewNode("directory", directory).nlink = 1
  /\ NewNode("directory", directory).data = <<>>
  /\ NewNode("regular", file) \in Nodes({<<>>})
  /\ NewNode("regular", file).kind = "regular"
  /\ NewNode("regular", file).nlink = 1
<1>1. [abs |-> FALSE, parts |-> <<>>] \in Target
  BY DEF Target
<1> QED
  BY <1>1 DEF NewNode, Nodes, directory, file

LEMMA CreateGrows ==
  ASSUME NEW nodes, NEW but, GoodNodes(nodes, but), NEW path \in Paths,
         NEW node, node \in Nodes({<<>>}), node.nlink = 1,
         node.kind # "regular" => node.data = <<>>
  PROVE  Grown(nodes, but, Create(nodes, relative(path), node).fs)
<1> DEFINE name == NewName(nodes, relative(path))
<1>1. name.err = nil => ParentOK(nodes, name) /\ ~HasEntry(nodes, name)
  BY NewNameOK DEF GoodNodes
<1>2. Create(nodes, relative(path), node) = AddNode(nodes, name, node)
  BY DEF Create
<1> HIDE DEF name
<1> QED
  BY <1>1, <1>2, AddNodeGrows

LEMMA MkdirGrows ==
  ASSUME NEW nodes, NEW but, GoodNodes(nodes, but), NEW path \in Paths
  PROVE  Grown(nodes, but, Mkdir(nodes, relative(path), directory).fs)
<1> DEFINE node == NewNode("directory", directory)
           made == Mkdir(nodes, relative(path), directory)
<1>1. CASE Resolved(relative(path)).path = Root
  <2>1. made.fs = nodes
    BY <1>1 DEF Mkdir, CreateBelowRoot, Fail
  <2> QED
    BY <2>1, ItselfGrown
<1>2. CASE Resolved(relative(path)).path # Root
  <2>1. made = Create(nodes, relative(path), node)
    BY <1>2 DEF Mkdir, CreateBelowRoot
  <2>2. node \in Nodes({<<>>}) /\ node.nlink = 1 /\ node.data = <<>>
    BY NewNodes
  <2> HIDE DEF node, made
  <2>3. Grown(nodes, but, made.fs)
    BY <2>1, <2>2, CreateGrows
  <2> QED
    BY <2>3 DEF made
<1> QED
  BY <1>1, <1>2

LEMMA SymlinkGrows ==
  ASSUME NEW nodes, NEW but, GoodNodes(nodes, but), NEW path \in Paths, NEW target \in Targets
  PROVE  Grown(nodes, but, Symlink(nodes, target, relative(path)).fs)
<1> DEFINE new == NewNode("symlink", {"r", "w", "x"})
           node == [new EXCEPT !.target = target]
<1>1. target \in Target
  BY FileSystemAssumption
<1>2. new \in Nodes({<<>>}) /\ new.nlink = 1 /\ new.data = <<>>
  <2>1. [abs |-> FALSE, parts |-> <<>>] \in Target
    BY DEF Target
  <2> QED
    BY <2>1 DEF NewNode, Nodes, directory
<1>3. Symlink(nodes, target, relative(path)) = Create(nodes, relative(path), node)
  BY DEF Symlink
<1> HIDE DEF new
<1>4. node \in Nodes({<<>>}) /\ node.nlink = 1 /\ node.data = <<>>
  BY <1>1, <1>2 DEF Nodes
<1> HIDE DEF node
<1> QED
  BY <1>3, <1>4, CreateGrows

LEMMA LinkGrows ==
  ASSUME NEW nodes, NEW but, GoodNodes(nodes, but), NEW path \in Paths, NEW other \in Paths
  PROVE  Grown(nodes, but, Link(nodes, relative(other), relative(path)).fs)
<1> DEFINE old == Lookup(nodes, relative(other), TRUE)
           name == NewName(nodes, relative(path))
           linked == LinkAt(nodes, old, name)
           ok == old.err = nil /\ name.err = nil /\ nodes[old.ino].kind # "directory"
<1>1. Link(nodes, relative(other), relative(path)) = linked
  BY DEF Link
<1>2. old.err = nil => old.ino \in DOMAIN nodes
  BY LookupAnswers DEF GoodNodes
<1>3. name.err = nil => ParentOK(nodes, name) /\ ~HasEntry(nodes, name)
  BY NewNameOK DEF GoodNodes
<1> HIDE DEF old, name
<1>4. CASE ~ok
  <2>1. linked.fs = nodes
    BY <1>4 DEF LinkAt, Fail
  <2> QED
    BY <1>1, <2>1, ItselfGrown
<1>5. CASE ok
  <2> DEFINE m == [WithEntry(nodes, name, old.ino) EXCEPT ![old.ino].nlink = @ + 1]
  <2>1. linked.fs = m
    BY <1>5 DEF LinkAt, Done
  <2>2. GoodNodes(m, but) /\ SameNodes(m, nodes) /\ Grows(nodes, m)
    BY <1>2, <1>3, <1>5, LinkedGood DEF Grows
  <2> HIDE DEF m, linked
  <2>3. Grown(nodes, but, m)
    BY <2>2, SameKept DEF Grown
  <2> QED
    BY <1>1, <2>1, <2>3
<1> QED
  BY <1>4, <1>5

LEMMA RemoveEntryKept ==
  ASSUME NEW nodes, NEW but, GoodNodes(nodes, but), NEW path \in Paths
  PROVE  Kept(nodes, but, RemoveEntry(nodes, relative(path)).fs)
<1> DEFINE r == Resolved(relative(path))
           parent == LookupParent(nodes, r.path)
           removed == RemoveEntryFrom(nodes, parent)
           result == RemoveEntry(nodes, relative(path))
           ok == /\ r.err = nil /\ parent.err = nil /\ HasEntry(nodes, parent)
                 /\ ~(DOMAIN nodes[Entry(nodes, parent)].children # {})
           m == Discard(WithoutEntry(nodes, parent), Entry(nodes, parent), FALSE)
<1>1. result = IF r.err # nil THEN Fail(nodes, r.err) ELSE removed
  BY DEF RemoveEntry
<1>2. r.err = nil => InRoot(r.path)
  BY RelativeIsTarget
<1> HIDE DEF r, result
<1>3. r.err = nil /\ parent.err = nil => ParentOK(nodes, parent)
  BY <1>2, LookupParentOK DEF GoodNodes
<1> HIDE DEF parent
<1>4. CASE ~ok
  <2>1. result.fs = nodes
    BY <1>1, <1>4 DEF RemoveEntryFrom, Fail
  <2> QED
    BY <2>1, ItselfKept DEF result
<1>5. CASE ok
  <2>1. result.fs = m
    BY <1>1, <1>5 DEF RemoveEntryFrom, Done
  <2>2. GoodNodes(m, but) /\ SameNodes(m, nodes)
    BY <1>3, <1>5, EntryDiscarded
  <2> HIDE DEF m
  <2> QED
    BY <2>1, <2>2, SameKept DEF result
<1> QED
  BY <1>4, <1>5

LEMMA TreeDiscarded ==
  ASSUME NEW nodes, NEW but, GoodNodes(nodes, but), NEW parent, ParentOK(nodes, parent),
         HasEntry(nodes, parent)
  PROVE  Kept(nodes, but, Discard(WithoutEntry(nodes, parent), Entry(nodes, parent), TRUE))
<1> DEFINE a == WithoutEntry(nodes, parent)
           ino == Entry(nodes, parent)
           m == Discard(a, ino, TRUE)
<1>0. NodesOK(nodes) /\ ino \in DOMAIN nodes
  BY EntryIsNode DEF GoodNodes, ParentOK
<1>1. SameNodes(a, nodes)
  BY <1>0, EntryRemoved
<1>2. ino \in DOMAIN a /\ a[ino].kind = nodes[ino].kind
  BY <1>0, <1>1 DEF SameNodes
<1>3. CASE nodes[ino].kind = "directory"
  <2>1. GoodNodes(a, but)
    BY <1>3, DirectoryDetached
  <2> HIDE DEF a, ino
  <2>2. m = EmptyDirectories(a, DirectoriesBelow(a, ino))
    BY <1>2, <1>3 DEF Discard
  <2>3. Kept(a, but, m)
    <3>1. GoodNodes(EmptyDirectories(a, DirectoriesBelow(a, ino)), but)
          /\ SameNodes(EmptyDirectories(a, DirectoriesBelow(a, ino)), a)
      BY <1>2, <2>1, EmptiedGood
    <3> QED
      BY <2>2, <3>1, SameKept
  <2> HIDE DEF m
  <2>4. Kept(nodes, but, a)
    BY <1>1, <2>1, SameKept
  <2>5. Kept(nodes, but, m)
    BY <2>3, <2>4, KeptAfter
  <2> QED
    BY <2>5 DEF m, a, ino
<1>4. CASE nodes[ino].kind # "directory"
  <2>1. Discard(a, ino, TRUE) = Discard(a, ino, FALSE)
    BY <1>2, <1>4 DEF Discard
  <2>2. GoodNodes(Discard(a, ino, FALSE), but) /\ SameNodes(Discard(a, ino, FALSE), nodes)
    BY EntryDiscarded
  <2> QED
    BY <2>1, <2>2, SameKept
<1> QED
  BY <1>3, <1>4

LEMMA RemoveAllKept ==
  ASSUME NEW nodes, NEW but, GoodNodes(nodes, but), NEW path \in Paths
  PROVE  Kept(nodes, but, RemoveAll(nodes, relative(path)).fs)
<1> DEFINE r == Resolved(relative(path))
           parent == LookupParent(nodes, r.path)
           removed == RemoveAllFrom(nodes, parent)
           result == RemoveAll(nodes, relative(path))
           ok == parent.err = nil /\ HasEntry(nodes, parent)
           m == Discard(WithoutEntry(nodes, parent), Entry(nodes, parent), TRUE)
           e == EmptyDirectories(nodes, DirectoriesBelow(nodes, 1))
<1>1. result = IF r.err # nil THEN Fail(nodes, r.err)
               ELSE IF r.path = Root THEN Done(Discard(nodes, 1, TRUE)) ELSE removed
  BY DEF RemoveAll
<1>2. r.err = nil => InRoot(r.path)
  BY RelativeIsTarget
<1> HIDE DEF r, result
<1>3. r.err = nil /\ parent.err = nil => ParentOK(nodes, parent)
  BY <1>2, LookupParentOK DEF GoodNodes
<1> HIDE DEF parent
<1>4. CASE r.err # nil
  <2>1. result.fs = nodes
    BY <1>1, <1>4 DEF Fail
  <2> QED
    BY <2>1, ItselfKept DEF result
<1>5. CASE r.err = nil /\ r.path = Root
  <2>1. 1 \in DOMAIN nodes /\ nodes[1].kind = "directory"
    BY NodesAreOK DEF GoodNodes
  <2>2. result.fs = e
    BY <1>1, <1>5, <2>1 DEF Discard, Done
  <2>3. GoodNodes(e, but) /\ SameNodes(e, nodes)
    BY <2>1, EmptiedGood
  <2> HIDE DEF e
  <2> QED
    BY <2>2, <2>3, SameKept DEF result
<1>6. CASE r.err = nil /\ r.path # Root /\ ~ok
  <2>1. result.fs = nodes
    BY <1>1, <1>6 DEF RemoveAllFrom, Fail, Done
  <2> QED
    BY <2>1, ItselfKept DEF result
<1>7. CASE r.err = nil /\ r.path # Root /\ ok
  <2>1. result.fs = m
    BY <1>1, <1>7, NilIsNoError DEF RemoveAllFrom, Done
  <2>2. Kept(nodes, but, m)
    BY <1>3, <1>7, TreeDiscarded
  <2> HIDE DEF m
  <2> QED
    BY <2>1, <2>2 DEF result
<1> QED
  BY <1>4, <1>5, <1>6, <1>7

\* A renamed file joins but when its new entry is the one it had.
LEMMA RenameKept ==
  ASSUME NEW nodes, NEW but, GoodNodes(nodes, but), NEW old \in Paths, NEW new \in Paths,
         Rename(nodes, relative(old), relative(new)).err = nil
  PROVE  LET from == LookupParent(nodes, Resolved(relative(old)).path)
             to   == LookupParent(nodes, Resolved(relative(new)).path)
             same == from.ino = to.ino /\ from.base = to.base
         IN /\ Kept(nodes, IF same THEN but \cup {Entry(nodes, from)} ELSE but,
                    Rename(nodes, relative(old), relative(new)).fs)
            /\ Entry(nodes, from) \in DOMAIN nodes
<1> DEFINE o == Resolved(relative(old))
           n == Resolved(relative(new))
           from == LookupParent(nodes, o.path)
           to == LookupParent(nodes, n.path)
           same == from.ino = to.ino /\ from.base = to.base
           result == Rename(nodes, relative(old), relative(new))
           ino == Entry(nodes, from)
           clear == Discard(WithoutEntry(nodes, to), Entry(nodes, to), FALSE)
           after == IF same THEN but \cup {ino} ELSE but
<1>1. result = IF "permission" \in {o.err, n.err} \/ o.path = Root THEN Fail(nodes, "permission")
               ELSE RenameEntry(nodes, from, to)
  BY DEF Rename
<1>2. /\ o.err \in {nil, "permission"} /\ (o.err = nil => InRoot(o.path))
      /\ n.err \in {nil, "permission"} /\ (n.err = nil => InRoot(n.path))
  BY RelativeIsTarget
<1>3. result.err = nil
  OBVIOUS
<1> HIDE DEF o, n, result
<1>4. o.err = nil /\ n.err = nil /\ result = RenameEntry(nodes, from, to)
  BY <1>1, <1>2, <1>3, NilIsNoError DEF Fail
<1>5. /\ from.err = nil => ParentOK(nodes, from)
      /\ to.err = nil => ParentOK(nodes, to)
  BY <1>2, <1>4, LookupParentOK DEF GoodNodes
<1> HIDE DEF from, to
<1>6. from.err = nil /\ HasEntry(nodes, from) /\ to.err = nil
  BY <1>3, <1>4, NilIsNoError DEF RenameEntry, Fail
<1>7. /\ ParentOK(nodes, from) /\ ParentOK(nodes, to) /\ NodesOK(nodes)
      /\ from.ino \in DOMAIN nodes /\ to.ino \in DOMAIN nodes
      /\ ino \in DOMAIN nodes /\ ino # 1
  BY <1>5, <1>6, EntryIsNode DEF ParentOK, GoodNodes
<1>8. Place(from) \in EntriesOf(nodes, ino)
  BY <1>6, <1>7, PlaceOfEntry
<1>9. CASE ~HasEntry(nodes, to)
  <2> DEFINE m == WithEntry(WithoutEntry(nodes, from), to, ino)
  <2>1. result.fs = m
    BY <1>4, <1>6, <1>9 DEF RenameEntry, MoveEntry, Done
  <2>2. GoodNodes(m, but) /\ SameNodes(m, nodes)
    BY <1>7, <1>8, <1>9, MovedGood
  <2> HIDE DEF m, ino
  <2>3. ~same
    BY <1>6, <1>9 DEF HasEntry
  <2>4. Kept(nodes, after, result.fs) 
    BY <2>1, <2>2, <2>3, SameKept
  <2> HIDE DEF after
  <2> QED
    BY <1>7, <2>4 DEF after, ino, result, from, to, o, n
<1>10. CASE HasEntry(nodes, to)
  <2> DEFINE m == WithEntry(WithoutEntry(clear, from), to, ino)
  <2>1. result.fs = m
    BY <1>3, <1>4, <1>6, <1>10, NilIsNoError DEF RenameEntry, MoveEntry, Fail, Done
  <2>2. /\ GoodNodes(clear, but) /\ SameNodes(clear, nodes)
        /\ \A i : EntriesOf(clear, i) = EntriesOf(nodes, i) \ {Place(to)}
    BY <1>7, <1>10, EntryDiscarded
  <2> HIDE DEF clear
  <2>3. GoodNodes(m, after) /\ SameNodes(m, nodes)
    <3>1. CASE same
      <4>1. Place(from) = Place(to) /\ ino = Entry(nodes, to)
        BY <3>1 DEF Place, Entry
      <4>2. GoodNodes(m, but \cup {ino}) /\ SameNodes(m, nodes)
        BY <1>7, <1>10, <2>2, <4>1, MovedToItself
      <4> QED
        BY <3>1, <4>2
    <3>2. CASE ~same
      <4>1. Place(from) # Place(to)
        BY <3>2 DEF Place
      <4>2. Place(from) \in EntriesOf(clear, ino) /\ \A i : Place(to) \notin EntriesOf(clear, i)
        BY <1>8, <2>2, <4>1
      <4>3. ParentOK(clear, from) /\ ParentOK(clear, to) /\ ino \in DOMAIN clear
        BY <1>7, <2>2 DEF SameNodes, ParentOK
      <4>4. ~HasEntry(clear, to)
        BY <4>2, <4>3, PlaceOfEntry DEF ParentOK
      <4>5. GoodNodes(m, but) /\ SameNodes(m, clear)
        BY <1>7, <2>2, <4>2, <4>3, <4>4, MovedGood
      <4> HIDE DEF m
      <4>6. SameNodes(m, nodes)
        BY <2>2, <4>5 DEF SameNodes
      <4> QED
        BY <3>2, <4>5, <4>6
    <3> QED
      BY <3>1, <3>2
  <2> HIDE DEF m, after, ino
  <2>4. Kept(nodes, after, result.fs)
    BY <2>1, <2>3, SameKept
  <2> QED
    BY <1>7, <2>4 DEF after, ino, result, from, to, o, n
<1> QED
  BY <1>9, <1>10

AnyNodes == Seq(Nodes(UNION {[names -> Nat] : names \in SUBSET Name}))

LEMMA NodesAreAny ==
  ASSUME NEW nodes, NodesOK(nodes)
  PROVE  nodes \in AnyNodes
<1> DEFINE S == Nodes({nodes[i].children : i \in DOMAIN nodes})
           C == UNION {[names -> Nat] : names \in SUBSET Name}
<1>1. nodes \in Seq(S)
  BY DEF NodesOK
<1>2. \A i \in DOMAIN nodes : nodes[i] \in Nodes(C)
  <2> TAKE i \in DOMAIN nodes
  <2>1. NodeOK(nodes, i) /\ DOMAIN nodes = 1..Len(nodes)
    BY NodesAreOK
  <2>2. nodes[i].children \in [DOMAIN nodes[i].children -> Nat]
    BY <2>1 DEF NodeOK
  <2>3. nodes[i].children \in C
    BY <2>1, <2>2 DEF NodeOK
  <2> QED
    BY <2>1, <2>3 DEF NodeOK, Nodes
<1> HIDE DEF S, C
<1>3. DOMAIN nodes = 1..Len(nodes)
  BY <1>1
<1>4. nodes \in Seq(Nodes(C))
  BY <1>1, <1>2, <1>3, SeqWithin
<1> QED
  BY <1>4 DEF AnyNodes, C

\* Where MkdirAll has come to.
OnTheWay(nodes, but) ==
  {at \in [fs : AnyNodes, err : LookupErrors, ino : Nat, path : Seq(STRING)] :
     /\ Grown(nodes, but, at.fs)
     /\ at.err = nil => /\ at.ino \in DOMAIN at.fs /\ at.fs[at.ino].kind = "directory"
                        /\ at.path \in Seq(Name)}

LEMMA MkdirStepGrows ==
  ASSUME NEW nodes, NEW but, NEW at \in OnTheWay(nodes, but), at.err = nil, NEW part \in Name
  PROVE  MkdirStep(at, part, directory) \in OnTheWay(nodes, but)
<1> DEFINE m == at.fs
           child == m[at.ino].children[part]
           link == ResolvePath(at.path, m[child].target)
           a == LookupPath(m, link.path, TRUE)
           there == InDirectory(m, a)
           through == MkdirThrough(at, link)
           parent == [ino |-> at.ino, base |-> part]
           node == NewNode("directory", directory)
           made == WithNode(m, parent, node)
           path == Append(at.path, part)
           step == MkdirStep(at, part, directory)
<1>1. /\ at \in [fs : AnyNodes, err : LookupErrors, ino : Nat, path : Seq(STRING)]
      /\ Grown(nodes, but, m) /\ GoodNodes(m, but) /\ NodesOK(m)
      /\ at.ino \in DOMAIN m /\ m[at.ino].kind = "directory" /\ at.path \in Seq(Name)
  BY DEF OnTheWay, Grown, Kept, GoodNodes
<1>2. path \in Seq(Name) /\ path \in Seq(STRING)
  <2>1. path \in Seq(Name)
    BY <1>1, AppendProperties
  <2> QED
    BY <2>1, NamesAreStrings
<1>3. DOMAIN m \subseteq Nat
  BY <1>1, NodesAreOK
<1> HIDE DEF path
<1>4. CASE part \notin DOMAIN m[at.ino].children
  <2>1. step = [fs |-> made, err |-> nil, ino |-> Len(m) + 1, path |-> path]
    BY <1>4 DEF MkdirStep, path
  <2>2. ParentOK(m, parent) /\ ~HasEntry(m, parent)
    BY <1>1, <1>4 DEF ParentOK, HasEntry
  <2>3. node \in Nodes({<<>>}) /\ node.nlink = 1 /\ node.data = <<>> /\ node.kind = "directory"
    BY NewNodes
  <2> HIDE DEF node, parent, step
  <2>4. /\ GoodNodes(made, but) /\ Keeps(m, made)
        /\ Len(m) + 1 \in DOMAIN made /\ made[Len(m) + 1].kind = node.kind
        /\ Grows(m, made)
    BY <1>1, <2>2, <2>3, WithNodeGood DEF Grows
  <2> HIDE DEF made
  <2>5. Grown(nodes, but, made)
    <3>1. Grown(m, but, made)
      BY <2>4 DEF Grown, Kept
    <3> QED
      BY <1>1, <3>1, GrownAfter
  <2>6. made \in AnyNodes /\ Len(m) + 1 \in Nat
    BY <1>1, <2>4, NodesAreAny, NodesAreOK DEF GoodNodes
  <2> HIDE DEF m
  <2>7. [fs |-> made, err |-> nil, ino |-> Len(m) + 1, path |-> path] \in OnTheWay(nodes, but)
    BY <1>2, <2>3, <2>4, <2>5, <2>6 DEF OnTheWay, LookupErrors
  <2> QED
    BY <2>1, <2>7 DEF step
<1>5. CASE part \in DOMAIN m[at.ino].children
  <2>1. child \in DOMAIN m /\ child # 1
    BY <1>1, <1>5, ChildIsNode
  <2>2. m[child].target \in Target
    BY <1>1, <2>1, TargetIsTarget
  <2> HIDE DEF child
  <2>3. link.err \in {nil, "permission"} /\ (link.err = nil => InRoot(link.path))
    BY <1>1, <2>2, ResolvePathIsInRoot
  <2>4. step = IF m[child].kind = "symlink" THEN through
               ELSE IF m[child].kind = "directory"
               THEN [fs |-> m, err |-> nil, ino |-> child, path |-> path]
               ELSE [at EXCEPT !.err = "notDirectory"]
    BY <1>5 DEF MkdirStep, path, child
  <2> HIDE DEF link
  <2>5. through = IF link.err # nil THEN [at EXCEPT !.err = link.err]
                   ELSE [fs |-> m, err |-> there.err, ino |-> there.ino, path |-> there.path]
    BY DEF MkdirThrough
  <2> HIDE DEF step, through
  <2>6. link.err = nil => a \in Answers(m, TRUE)
    BY <1>1, <2>3, InRootIsPath, LookupPathAnswers
  <2> HIDE DEF a
  <2>7. link.err = nil =>
          /\ there \in [err : LookupErrors, ino : Nat, path : Seq(STRING)]
          /\ there.err = nil => /\ there.ino \in DOMAIN m /\ there.path \in Seq(Name)
                                /\ m[there.ino].kind = "directory"
    BY <2>6, NilIsNoError DEF Answers, InDirectory, Missing, LookupErrors
  <2> HIDE DEF there
  <2>8. [at EXCEPT !.err = "notDirectory"] \in OnTheWay(nodes, but)
    BY <1>1, NilIsNoError DEF OnTheWay, LookupErrors
  <2>9. link.err # nil => [at EXCEPT !.err = link.err] \in OnTheWay(nodes, but)
    BY <1>1, <2>3, NilIsNoError DEF OnTheWay, LookupErrors
  <2>10. m \in AnyNodes
    BY <1>1
  <2> HIDE DEF m
  <2>11. link.err = nil =>
           [fs |-> m, err |-> there.err, ino |-> there.ino, path |-> there.path] \in OnTheWay(nodes, but)
    BY <1>1, <2>7, <2>10 DEF OnTheWay
  <2>12. m[child].kind = "directory" =>
           [fs |-> m, err |-> nil, ino |-> child, path |-> path] \in OnTheWay(nodes, but)
    BY <1>1, <1>2, <1>3, <2>1, <2>10 DEF OnTheWay, LookupErrors
  <2>13. step \in OnTheWay(nodes, but)
    BY <2>4, <2>5, <2>8, <2>9, <2>11, <2>12
  <2> QED
    BY <2>13 DEF step
<1> QED
  BY <1>4, <1>5

\* The directories that MkdirAll comes to, name by name.
Makes(nodes, but, parts, made) ==
  /\ made \in [0..Len(parts) -> OnTheWay(nodes, but)]
  /\ made[0] = [fs |-> nodes, err |-> nil, ino |-> 1, path |-> Root]
  /\ \A n \in 1..Len(parts) :
       made[n] = IF made[n - 1].err # nil THEN made[n - 1]
                 ELSE MkdirStep(made[n - 1], parts[n], directory)

LEMMA MkdirWalks ==
  ASSUME NEW nodes, NEW but, GoodNodes(nodes, but), NEW parts \in Seq(Name)
  PROVE  \E made : /\ Makes(nodes, but, parts, made)
                   /\ MkdirBelow(nodes, parts, directory) = made[Len(parts)]
<1> DEFINE N == Len(parts)
           S == OnTheWay(nodes, but)
           start == [fs |-> nodes, err |-> nil, ino |-> 1, path |-> Root]
           step(at, n) == IF at.err # nil THEN at ELSE MkdirStep(at, parts[n], directory)
           F == [n \in Nat |-> [x \in S |-> IF n \in 1..N THEN step(x, n) ELSE x]]
           Is(f) == f = [n \in 0..N |-> IF n = 0 THEN start
                                        ELSE LET at == f[n - 1] IN
                                             IF at.err # nil THEN at
                                             ELSE MkdirStep(at, parts[n], directory)]
           made == CHOOSE f : Is(f)
           result == MkdirBelow(nodes, parts, directory)
<1>0. N \in Nat
  OBVIOUS
<1>1. result = made[N]
  BY DEF MkdirBelow
<1> HIDE DEF result
<1>2. start \in S
  <2>1. NodesOK(nodes)
    BY DEF GoodNodes
  <2>2. /\ 1 \in DOMAIN nodes /\ nodes[1].kind = "directory" /\ Root \in Seq(Name)
        /\ Root \in Seq(STRING) /\ nodes \in AnyNodes /\ Grown(nodes, but, nodes)
    BY <2>1, NodesAreOK, NodesAreAny, FileSystemAssumption, NamesAreStrings, ItselfGrown
  <2> QED
    BY <2>2 DEF OnTheWay, LookupErrors
<1> HIDE DEF start
<1>3. ASSUME NEW x \in S, NEW n \in 1..N PROVE step(x, n) \in S
  <2>1. parts[n] \in Name
    OBVIOUS
  <2> QED
    BY <2>1, MkdirStepGrows
<1> HIDE DEF N, S
<1>4. F \in [Nat -> [S -> S]]
  <2> HIDE DEF step
  <2> QED
    BY <1>3
<1>5. \A n \in 1..N : \A x \in S : F[n][x] = step(x, n)
  <2>1. \A n \in 1..N : n \in Nat
    BY <1>0
  <2> HIDE DEF step
  <2> QED
    BY <2>1
<1> HIDE DEF F
<1>6. PICK g : Up(S, start, F, N, g)
  BY <1>0, <1>2, <1>4, UpExists
<1>7. ASSUME NEW n \in 1..N PROVE g[n] = step(g[n - 1], n)
  <2>1. n - 1 \in 0..N
    BY <1>0
  <2>2. g[n - 1] \in S
    BY <1>6, <2>1 DEF Up
  <2> HIDE DEF step
  <2> QED
    BY <1>5, <1>6, <2>2 DEF Up
<1>8. Is(g)
  <2>1. \A n \in 0..N : n = 0 \/ n \in 1..N
    BY <1>0
  <2>2. \A n \in 0..N : g[n] = IF n = 0 THEN start ELSE step(g[n - 1], n)
    <3> HIDE DEF step
    <3> QED
      BY <1>6, <1>7, <2>1 DEF Up
  <2>3. g = [n \in 0..N |-> g[n]]
    BY <1>6 DEF Up
  <2> QED
    BY <2>2, <2>3
<1>9. Is(made)
  <2> HIDE DEF Is
  <2> QED
    BY <1>8
<1>10. made[0] = start /\ \A n \in 1..N : made[n] = step(made[n - 1], n)
  <2> HIDE DEF made
  <2>1. 0 \in 0..N /\ \A n \in 1..N : n \in 0..N /\ n # 0
    BY <1>0
  <2> QED
    BY <1>9, <2>1
<1> HIDE DEF made
<1>11. \A n \in 0..N : made[n] \in S
  <2> HIDE DEF step
  <2> DEFINE T == {n \in 0..N : made[n] \in S}
  <2>1. 0 \in T
    BY <1>0, <1>2, <1>10
  <2>2. \A n \in 1..N : n - 1 \in T => n \in T
    BY <1>0, <1>3, <1>10
  <2>3. \A n \in 0..N : n \in T
    <3> HIDE DEF T
    <3> QED
      BY <1>0, <2>1, <2>2, Climb
  <2> QED
    BY <2>3
<1>12. made \in [0..N -> S]
  <2> HIDE DEF Is
  <2>1. made = [n \in 0..N |-> made[n]]
    BY <1>9 DEF Is
  <2> QED
    BY <1>11, <2>1
<1>13. Makes(nodes, but, parts, made)
  BY <1>10, <1>12 DEF Makes, N, S, start
<1> QED
  BY <1>1, <1>13 DEF N, result

LEMMA MkdirAllGrows ==
  ASSUME NEW nodes, NEW but, GoodNodes(nodes, but), NEW path \in Paths
  PROVE  Grown(nodes, but, MkdirAll(nodes, relative(path), directory).fs)
<1> DEFINE r == Resolved(relative(path))
           parts == PartsBelowRoot(r.path)
           N == Len(parts)
           result == MkdirAll(nodes, relative(path), directory)
<1>1. CASE r.err # nil
  <2>1. result.fs = nodes
    BY <1>1 DEF MkdirAll, Fail
  <2> QED
    BY <2>1, ItselfGrown
<1>2. CASE r.err = nil
  <2>1. InRoot(r.path)
    BY <1>2, RelativeIsTarget
  <2>2. result = MkdirBelow(nodes, parts, directory)
    BY <1>2 DEF MkdirAll
  <2> HIDE DEF r, result
  <2>3. parts \in Seq(Name) /\ N \in 0..N
    <3>1. parts \in Seq(Name)
      BY <2>1, RestIsPath DEF InRoot, PartsBelowRoot
    <3> HIDE DEF parts
    <3> QED
      BY <3>1
  <2> HIDE DEF parts
  <2>4. PICK made : Makes(nodes, but, parts, made) /\ result = made[N]
    BY <2>2, <2>3, MkdirWalks
  <2>5. result \in OnTheWay(nodes, but)
    BY <2>3, <2>4 DEF Makes
  <2> QED
    BY <2>5 DEF OnTheWay, result
<1> QED
  BY <1>1, <1>2

-----------------------------------------------------------------------------
(* Open files.                                                             *)

LEMMA DataGrows ==
  ASSUME NEW nodes, NEW but, GoodNodes(nodes, but), NEW d \in DOMAIN nodes,
         nodes[d].kind = "regular", NEW data \in Seq(Nat)
  PROVE  Grown(nodes, but, [nodes EXCEPT ![d].data = data])
<1> DEFINE m == [nodes EXCEPT ![d].data = data]
<1>1. /\ NodesOK(m) /\ SameNodes(m, nodes)
      /\ \A i \in DOMAIN nodes : m[i].nlink = nodes[i].nlink /\ m[i].children = nodes[i].children
  BY ChangeData DEF GoodNodes
<1> HIDE DEF m
<1>2. \A i : EntriesOf(m, i) = EntriesOf(nodes, i)
  BY <1>1, SameChildren DEF SameNodes
<1>3. ASSUME NEW i \in DOMAIN nodes PROVE Accounted(m, but, i)
  <2>1. Accounted(nodes, but, i) /\ EntriesOf(m, i) = EntriesOf(nodes, i)
    BY <1>2 DEF GoodNodes
  <2>2. m[i].kind = nodes[i].kind /\ m[i].nlink = nodes[i].nlink
    BY <1>1 DEF SameNodes
  <2> QED
    BY <2>1, <2>2 DEF Accounted
<1>4. Kept(nodes, but, m)
  BY <1>1, <1>3, SameKept DEF GoodNodes, SameNodes
<1>5. Grown(nodes, but, m)
  BY <1>2, <1>4 DEF Grown, Grows
<1> QED
  BY <1>5 DEF m

LEMMA HandlesStay ==
  ASSUME NEW nodes, NEW m, Keeps(nodes, m), NEW h, HandleOK(nodes, h)
  PROVE  HandleOK(m, h)
BY DEF HandleOK, Keeps

\* A handle of a regular file.
LEMMA HandleIsOK ==
  ASSUME NEW nodes, NEW ino \in DOMAIN nodes, nodes[ino].kind = "regular",
         NEW flags, NEW writable \in BOOLEAN, NEW offset \in Nat
  PROVE  HandleOK(nodes, Handle("regular", ino, flags, writable, offset))
BY DEF HandleOK, Handle

LEMMA DataIsSeq ==
  ASSUME NEW nodes, NodesOK(nodes), NEW d \in DOMAIN nodes
  PROVE  nodes[d].data \in Seq(Nat) /\ nodes[d].kind \in {"directory", "regular", "symlink"}
BY NodesAreOK DEF NodeOK, Nodes

LEMMA OpenRegularGrows ==
  ASSUME NEW nodes, NEW but, GoodNodes(nodes, but), NEW ino \in DOMAIN nodes,
         nodes[ino].kind = "regular", NEW flags
  PROVE  LET opened == OpenRegular(nodes, ino, flags) IN
         Grown(nodes, but, opened.fs) /\ HandleOK(opened.fs, opened.handle)
<1> DEFINE writing == flags \cap {"WRONLY", "RDWR"} # {}
           cut == writing /\ "TRUNC" \in flags /\ "APPEND" \notin flags
           empty == [nodes EXCEPT ![ino].data = <<>>]
           ready == IF cut THEN empty ELSE nodes
           offset == fileOffset(ready, ino, flags)
           opened == OpenRegular(nodes, ino, flags)
<1>1. opened = Opened(ready, Handle("regular", ino, flags, writing, offset))
  BY DEF OpenRegular
<1>2. Grown(nodes, but, empty)
  <2>1. <<>> \in Seq(Nat)
    OBVIOUS
  <2> QED
    BY <2>1, DataGrows
<1>3. Grown(nodes, but, nodes)
  BY ItselfGrown
<1> HIDE DEF opened, empty
<1>4. Grown(nodes, but, ready)
  BY <1>2, <1>3
<1> HIDE DEF ready
<1>5. ino \in DOMAIN ready /\ ready[ino].kind = "regular" /\ NodesOK(ready)
  BY <1>4 DEF Grown, Kept, Keeps, GoodNodes
<1>6. offset \in Nat
  <2>1. ready[ino].data \in Seq(Nat)
    BY <1>5, DataIsSeq
  <2> QED
    BY <2>1 DEF fileOffset
<1>7. writing \in BOOLEAN
  OBVIOUS
<1> HIDE DEF writing, offset
<1>8. HandleOK(ready, Handle("regular", ino, flags, writing, offset))
  BY <1>5, <1>6, <1>7, HandleIsOK
<1> QED
  BY <1>1, <1>4, <1>8 DEF Opened, opened

LEMMA CreateAndOpenGrows ==
  ASSUME NEW nodes, NEW but, GoodNodes(nodes, but), NEW path, InRoot(path), NEW flags,
         CreateAndOpen(nodes, path, flags, file).err = nil
  PROVE  LET opened == CreateAndOpen(nodes, path, flags, file) IN
         Grown(nodes, but, opened.fs) /\ HandleOK(opened.fs, opened.handle)
<1> DEFINE create == ResolveCreatePath(nodes, path)
           parent == LookupParent(nodes, create.path)
           node == NewNode("regular", file)
           n == Len(nodes) + 1
           m == WithNode(nodes, parent, node)
           opened == CreateAndOpen(nodes, path, flags, file)
<1>1. opened = IF create.err # nil THEN NotOpened(nodes, create.err)
               ELSE IF parent.err # nil THEN NotOpened(nodes, parent.err)
               ELSE IF HasEntry(nodes, parent) THEN NotOpened(nodes, "exist")
               ELSE Opened(m, Handle("regular", n, flags, TRUE, 0))
  BY DEF CreateAndOpen, CreateAt, CreateIn
<1>2. opened.err = nil
  OBVIOUS
<1>3. create.err = nil => InRoot(create.path)
  BY ResolveCreatePathInRoot DEF GoodNodes
<1> HIDE DEF create, opened
<1>4. create.err = nil /\ parent.err = nil => ParentOK(nodes, parent)
  BY <1>3, LookupParentOK DEF GoodNodes
<1> HIDE DEF parent, m
<1>5. create.err = nil /\ parent.err = nil /\ ~HasEntry(nodes, parent)
  BY <1>1, <1>2, NilIsNoError DEF NotOpened
<1>6. node \in Nodes({<<>>}) /\ node.nlink = 1 /\ node.kind = "regular"
  BY NewNodes
<1> HIDE DEF node
<1>7. Grown(nodes, but, m) /\ n \in DOMAIN m /\ m[n].kind = "regular"
  BY <1>4, <1>5, <1>6, WithNodeGood DEF m, Grown, Kept, Grows
<1>8. HandleOK(m, Handle("regular", n, flags, TRUE, 0))
  BY <1>7, HandleIsOK
<1>9. opened = Opened(m, Handle("regular", n, flags, TRUE, 0))
  BY <1>1, <1>5
<1>10. Grown(nodes, but, opened.fs) /\ HandleOK(opened.fs, opened.handle)
  BY <1>7, <1>8, <1>9 DEF Opened
<1> QED
  BY <1>10 DEF opened

LEMMA OpenFileGrows ==
  ASSUME NEW nodes, NEW but, GoodNodes(nodes, but), NEW path \in Paths, NEW flags,
         OpenFile(nodes, relative(path), flags, file).err = nil
  PROVE  LET opened == OpenFile(nodes, relative(path), flags, file) IN
         Grown(nodes, but, opened.fs) /\ HandleOK(opened.fs, opened.handle)
<1> DEFINE r == Resolved(relative(path))
           at == LookupPath(nodes, r.path, TRUE)
           created == CreateAndOpen(nodes, r.path, flags, file)
           opened == OpenFile(nodes, relative(path), flags, file)
<1>1. opened = IF r.err # nil THEN NotOpened(nodes, r.err)
               ELSE OpenFound(nodes, r.path, at, flags, file)
  BY DEF OpenFile
<1>2. opened.err = nil
  OBVIOUS
<1>3. r.err = nil => InRoot(r.path)
  BY RelativeIsTarget
<1> HIDE DEF opened, r
<1>4. r.err = nil
  BY <1>1, <1>2 DEF NotOpened
<1>5. at \in Answers(nodes, TRUE)
  BY <1>3, <1>4, InRootIsPath, LookupPathAnswers DEF GoodNodes
<1> HIDE DEF at
<1>6. CASE at.err = "notExist" /\ "CREATE" \in flags
  <2>1. opened = created
    BY <1>1, <1>4, <1>6 DEF OpenFound
  <2>2. Grown(nodes, but, created.fs) /\ HandleOK(created.fs, created.handle)
    BY <1>2, <1>3, <1>4, <2>1, CreateAndOpenGrows
  <2> HIDE DEF created
  <2> QED
    BY <2>1, <2>2 DEF opened
<1>7. CASE ~(at.err = "notExist" /\ "CREATE" \in flags)
  <2>1. at.err = nil
    BY <1>1, <1>2, <1>4, <1>7 DEF OpenFound, NotOpened
  <2>2. at.ino \in DOMAIN nodes /\ nodes[at.ino].kind # "symlink"
    BY <1>5, <2>1 DEF Answers
  <2>3. ~({"CREATE", "EXCL"} \subseteq flags)
    BY <1>1, <1>2, <1>4, <1>7, <2>1, NilIsNoError DEF OpenFound, NotOpened
  <2>4. nodes[at.ino].kind # "directory"
    BY <1>1, <1>2, <1>4, <1>7, <2>1, <2>3, NilIsNoError DEF OpenFound, NotOpened
  <2>5. nodes[at.ino].kind = "regular"
    BY <2>2, <2>4, DataIsSeq DEF GoodNodes
  <2>6. opened = OpenRegular(nodes, at.ino, flags)
    BY <1>1, <1>4, <1>7, <2>1, <2>3, <2>5 DEF OpenFound
  <2> QED
    BY <2>2, <2>5, <2>6, OpenRegularGrows DEF opened
<1> QED
  BY <1>6, <1>7

\* A handle that is not closed is one of a regular file.
LEMMA OpenIsRegular ==
  ASSUME NEW nodes, NEW h, HandleOK(nodes, h), ~h.closed
  PROVE  /\ h \in [kind : {"regular"}, ino : DOMAIN nodes, readable : BOOLEAN,
                  writable : BOOLEAN, append : BOOLEAN, offset : Nat,
                  entries : {{}}, closed : {FALSE}]
         /\ nodes[h.ino].kind = "regular"
BY DEF HandleOK, NoHandle, Handle

LEMMA WriteAtIsSeq ==
  ASSUME NEW data \in Seq(Nat), NEW offset \in Nat, NEW bytes \in Seq(Nat)
  PROVE  WriteAt(data, offset, bytes) \in Seq(Nat)
<1> DEFINE n == IF offset + Len(bytes) > Len(data) THEN offset + Len(bytes) ELSE Len(data)
           f == [i \in 1..n |->
                   IF i > offset /\ i <= offset + Len(bytes) THEN bytes[i - offset]
                   ELSE IF i <= Len(data) THEN data[i] ELSE 0]
<1>1. n \in Nat
  OBVIOUS
<1>2. WriteAt(data, offset, bytes) = f
  BY DEF WriteAt
<1> HIDE DEF n
<1>3. ASSUME NEW i \in 1..n PROVE f[i] \in Nat
  <2>1. CASE i > offset /\ i <= offset + Len(bytes)
    <3>1. i - offset \in 1..Len(bytes)
      BY <1>1, <2>1
    <3> QED
      BY <2>1, <3>1
  <2>2. CASE ~(i > offset /\ i <= offset + Len(bytes))
    BY <1>1, <2>2
  <2> QED
    BY <2>1, <2>2
<1>4. f \in [1..n -> Nat]
  BY <1>3
<1> HIDE DEF f
<1> QED
  BY <1>1, <1>2, <1>4, SeqDef

LEMMA WriteGrows ==
  ASSUME NEW nodes, NEW but, GoodNodes(nodes, but), NEW h, HandleOK(nodes, h), ~h.closed,
         NEW bytes \in Seq(Nat), Write(nodes, h, bytes).err = nil
  PROVE  LET written == Write(nodes, h, bytes) IN
         Grown(nodes, but, written.fs) /\ HandleOK(written.fs, written.handle)
<1> DEFINE offset == IF h.append THEN Len(nodes[h.ino].data) ELSE h.offset
           data == WriteAt(nodes[h.ino].data, offset, bytes)
           m == [nodes EXCEPT ![h.ino].data = data]
           handle == [h EXCEPT !.offset = offset + Len(bytes)]
           written == Write(nodes, h, bytes)
<1>1. /\ h \in [kind : {"regular"}, ino : DOMAIN nodes, readable : BOOLEAN,
               writable : BOOLEAN, append : BOOLEAN, offset : Nat,
               entries : {{}}, closed : {FALSE}]
      /\ nodes[h.ino].kind = "regular"
  BY OpenIsRegular
<1>2. nodes[h.ino].data \in Seq(Nat) /\ offset \in Nat
  <2>1. nodes[h.ino].data \in Seq(Nat)
    BY <1>1, DataIsSeq DEF GoodNodes
  <2> QED
    BY <1>1, <2>1
<1>3. h.writable
  <2> SUFFICES ASSUME ~h.writable PROVE FALSE
    OBVIOUS
  <2>1. written.err = "badFD"
    BY <1>1 DEF Write
  <2> QED
    BY <2>1, NilIsNoError
<1>4. written.fs = m /\ written.handle = handle
  BY <1>1, <1>3 DEF Write
<1> HIDE DEF offset
<1>5. data \in Seq(Nat) /\ offset + Len(bytes) \in Nat
  BY <1>2, WriteAtIsSeq
<1> HIDE DEF data, written
<1>6. Grown(nodes, but, m)
  BY <1>1, <1>5, DataGrows
<1> HIDE DEF m
<1>7. HandleOK(nodes, handle)
  BY <1>1, <1>5 DEF HandleOK
<1> HIDE DEF handle
<1>8. HandleOK(m, handle)
  BY <1>6, <1>7, HandlesStay DEF Grown, Kept
<1> QED
  BY <1>4, <1>6, <1>8 DEF written

LEMMA ReadKept ==
  ASSUME NEW nodes, NodesOK(nodes), NEW h, HandleOK(nodes, h), ~h.closed,
         Read(nodes, h, 1).err = nil
  PROVE  LET read == Read(nodes, h, 1) IN
         read.fs = nodes /\ HandleOK(nodes, read.handle) /\ read.bytes \in Seq(Nat)
<1> DEFINE data == nodes[h.ino].data
           left == SubSeq(data, h.offset + 1, Len(data))
           n == IF Len(left) < 1 THEN Len(left) ELSE 1
           handle == [h EXCEPT !.offset = @ + n]
           bytes == SubSeq(left, 1, n)
           read == Read(nodes, h, 1)
<1>1. /\ h \in [kind : {"regular"}, ino : DOMAIN nodes, readable : BOOLEAN,
               writable : BOOLEAN, append : BOOLEAN, offset : Nat,
               entries : {{}}, closed : {FALSE}]
      /\ nodes[h.ino].kind = "regular"
  BY OpenIsRegular
<1>2. data \in Seq(Nat)
  BY <1>1, DataIsSeq
<1>3. h.readable
  <2> SUFFICES ASSUME ~h.readable PROVE FALSE
    OBVIOUS
  <2>1. read.err = "badFD"
    BY <1>1 DEF Read
  <2> QED
    BY <2>1, NilIsNoError
<1>4. left # <<>>
  <2> SUFFICES ASSUME left = <<>> PROVE FALSE
    OBVIOUS
  <2>1. read.err = "EOF"
    BY <1>1, <1>3 DEF Read
  <2> QED
    BY <2>1, NilIsNoError
<1>5. read.fs = nodes /\ read.handle = handle /\ read.bytes = bytes
  BY <1>1, <1>3, <1>4 DEF Read
<1> HIDE DEF data, read
<1>6. left \in Seq(Nat)
  <2>1. h.offset \in Nat /\ Len(data) \in Nat
    BY <1>1, <1>2
  <2>2. \A i \in (h.offset + 1)..Len(data) : i \in 1..Len(data) /\ data[i] \in Nat
    BY <1>2, <2>1
  <2> QED
    BY <2>1, <2>2, SubSeqProperties
<1> HIDE DEF left
<1>7. n \in Nat /\ n <= Len(left)
  BY <1>6
<1> HIDE DEF n
<1>8. bytes \in Seq(Nat)
  <2>1. \A i \in 1..n : left[i] \in Nat
    BY <1>6, <1>7
  <2> QED
    BY <1>7, <2>1, SubSeqProperties
<1> HIDE DEF bytes
<1>9. HandleOK(nodes, handle)
  <2>1. /\ handle \in [kind : {"regular"}, ino : DOMAIN nodes, readable : BOOLEAN,
                       writable : BOOLEAN, append : BOOLEAN, offset : Nat,
                       entries : {{}}, closed : {FALSE}]
        /\ handle.ino = h.ino
    <3>1. h.offset + n \in Nat
      BY <1>1, <1>7
    <3> QED
      BY <1>1, <3>1
  <2> HIDE DEF handle
  <2> QED
    BY <1>1, <2>1 DEF HandleOK
<1> QED
  BY <1>5, <1>8, <1>9 DEF read

LEMMA CloseKeeps ==
  ASSUME NEW nodes, NodesOK(nodes), NEW h, HandleOK(nodes, h), ~h.closed
  PROVE  Close(nodes, h).fs = nodes
<1>1. h.kind = "regular" /\ h.ino \in DOMAIN nodes
  <2>1. h \in [kind : {"regular"}, ino : DOMAIN nodes, readable : BOOLEAN,
              writable : BOOLEAN, append : BOOLEAN, offset : Nat,
              entries : {{}}, closed : {FALSE}]
    BY OpenIsRegular
  <2> QED
    BY <2>1
<1>2. Close(nodes, h).fs = [nodes EXCEPT ![h.ino].fifo = nodes[h.ino].fifo]
  BY <1>1 DEF Close
<1>3. nodes = [i \in DOMAIN nodes |-> nodes[i]]
  <2>1. nodes \in Seq(Nodes({nodes[i].children : i \in DOMAIN nodes}))
    BY DEF NodesOK
  <2> QED
    BY <2>1
<1>4. [nodes[h.ino] EXCEPT !.fifo = nodes[h.ino].fifo] = nodes[h.ino]
  BY <1>1, NodesAreOK DEF NodeOK, Nodes
<1> QED
  BY <1>2, <1>3, <1>4

-----------------------------------------------------------------------------
(* The inductive invariant.  The entries of a node are finitely many, which *)
(* Cardinality says nothing of.                                             *)

Inv ==
  /\ GoodNodes(fs, selfMoved)
  /\ DOMAIN open = Program /\ \A p \in Program : HandleOK(fs, open[p])
  /\ moved \in [Program -> Seq(Nat)]
  /\ selfMoved \subseteq DOMAIN fs

LEMMA InvIsEntriesCount == Inv => EntriesCount
<1> SUFFICES ASSUME Inv PROVE EntriesCount
  OBVIOUS
<1>1. NodesOK(fs) /\ \A i \in DOMAIN fs : Accounted(fs, selfMoved, i)
  BY DEF Inv, GoodNodes
<1>2. TypeOK
  BY <1>1 DEF Inv, TypeOK
<1>3. LinksAreCounted(fs, selfMoved) /\ TreeIsTree(fs)
  BY <1>1 DEF LinksAreCounted, TreeIsTree, Accounted
<1> QED
  BY <1>2, <1>3 DEF EntriesCount

LEMMA InvInit == Init => Inv
<1> SUFFICES ASSUME Init PROVE Inv
  OBVIOUS
<1> DEFINE node == NewNode("directory", directory)
<1>1. fs = <<node>>
  BY DEF Init, New, directory
<1>2. node \in Nodes({<<>>}) /\ node.kind = "directory" /\ node.data = <<>>
  BY NewNodes
<1> HIDE DEF node
<1>3. node.children = <<>> /\ node \in Nodes({node.children})
  BY <1>2 DEF Nodes
<1>4. DOMAIN fs = {1} /\ fs[1] = node /\ fs = [i \in 1..1 |-> fs[i]]
  BY <1>1
<1>5. NodeOK(fs, 1)
  <2>1. DOMAIN node.children = {} /\ node.children \in [{} -> DOMAIN fs \ {1}]
    BY <1>3
  <2> QED
    BY <1>2, <1>3, <1>4, <2>1 DEF NodeOK
<1>6. NodesOK(fs)
  <2>1. 1..1 = {1} /\ 1 \in Nat /\ 1 # 0
    OBVIOUS
  <2>2. \A i \in 1..1 : NodeOK(fs, i)
    BY <1>5, <2>1
  <2> QED
    BY <1>2, <1>4, <2>1, <2>2, OKAreNodes
<1>7. EntriesOf(fs, 1) = {}
  <2> SUFFICES ASSUME NEW e \in EntriesOf(fs, 1) PROVE FALSE
    OBVIOUS
  <2>1. PICK d \in DOMAIN fs : \E name \in DOMAIN fs[d].children : TRUE
    BY InEntriesFor DEF EntriesOf
  <2> QED
    BY <1>3, <1>4, <2>1
<1>8. Accounted(fs, selfMoved, 1)
  <2>1. IsFiniteSet(EntriesOf(fs, 1)) /\ Cardinality(EntriesOf(fs, 1)) = 0
    BY <1>7, FS_EmptySet
  <2> QED
    BY <1>2, <1>4, <2>1 DEF Accounted
<1>9. GoodNodes(fs, selfMoved)
  BY <1>4, <1>6, <1>8 DEF GoodNodes
<1>10. \A p \in Program : HandleOK(fs, open[p])
  BY DEF Init, HandleOK
<1> QED
  BY <1>9, <1>10 DEF Init, Inv

\* A call that changes the tree and opens no file.
LEMMA InvChanges ==
  ASSUME Inv, NEW m, NEW but, Kept(fs, but, m), but \subseteq DOMAIN fs,
         fs' = m, selfMoved' = but, UNCHANGED <<open, moved>>
  PROVE  Inv'
<1>1. GoodNodes(m, but) /\ Keeps(fs, m)
  BY DEF Kept
<1>2. but \subseteq DOMAIN m
  BY <1>1 DEF Keeps
<1>3. \A p \in Program : HandleOK(m, open[p])
  BY <1>1, HandlesStay DEF Inv
<1> QED
  BY <1>1, <1>2, <1>3 DEF Inv

LEMMA InvMove ==
  ASSUME Inv, NEW old \in Paths, NEW new \in Paths, Move(old, new)
  PROVE  Inv'
<1> DEFINE from == LookupParent(fs, Resolved(relative(old)).path)
           to == LookupParent(fs, Resolved(relative(new)).path)
           same == from.ino = to.ino /\ from.base = to.base
           but == IF same THEN selfMoved \cup {Entry(fs, from)} ELSE selfMoved
           result == Rename(fs, relative(old), relative(new))
<1>1. /\ result.err = nil /\ fs' = result.fs /\ UNCHANGED <<open, moved>>
      /\ selfMoved' = but
  BY DEF Move, Changes
<1>2. GoodNodes(fs, selfMoved) /\ selfMoved \subseteq DOMAIN fs
  BY DEF Inv
<1>3. Kept(fs, but, result.fs) /\ Entry(fs, from) \in DOMAIN fs
  BY <1>1, <1>2, RenameKept
<1> HIDE DEF result, from, to
<1>4. but \subseteq DOMAIN fs
  BY <1>2, <1>3
<1> HIDE DEF but
<1> QED
  BY <1>1, <1>3, <1>4, InvChanges

LEMMA InvOpen ==
  ASSUME Inv, NEW p \in Program, NEW path \in Paths, NEW flags, OpenWith(p, path, flags)
  PROVE  Inv'
<1> DEFINE opened == OpenFile(fs, relative(path), flags, file)
<1>1. /\ opened.err = nil /\ fs' = opened.fs /\ open' = [open EXCEPT ![p] = opened.handle]
      /\ moved' = [moved EXCEPT ![p] = <<>>] /\ selfMoved' = selfMoved
  BY DEF OpenWith
<1>2. Kept(fs, selfMoved, opened.fs) /\ HandleOK(opened.fs, opened.handle)
  BY <1>1, OpenFileGrows DEF Inv, Grown
<1> HIDE DEF opened
<1>3. \A q \in Program : HandleOK(opened.fs, open[q])
  BY <1>2, HandlesStay DEF Inv, Kept
<1>4. DOMAIN open' = Program /\ \A q \in Program : HandleOK(fs', open'[q])
  BY <1>1, <1>2, <1>3 DEF Inv
<1>5. GoodNodes(fs', selfMoved') /\ selfMoved' \subseteq DOMAIN fs'
  BY <1>1, <1>2 DEF Inv, Kept, Keeps
<1>6. moved' \in [Program -> Seq(Nat)]
  BY <1>1 DEF Inv
<1> QED
  BY <1>4, <1>5, <1>6 DEF Inv

LEMMA InvWrite ==
  ASSUME Inv, NEW p \in Program, WriteNext(p)
  PROVE  Inv'
<1> DEFINE byte == Len(moved[p]) + 1
           written == Write(fs, open[p], <<byte>>)
<1>1. /\ written.err = nil /\ fs' = written.fs /\ open' = [open EXCEPT ![p] = written.handle]
      /\ moved' = [moved EXCEPT ![p] = Append(@, byte)] /\ selfMoved' = selfMoved
      /\ ~open[p].closed
  BY DEF WriteNext
<1>2. moved[p] \in Seq(Nat)
  BY DEF Inv
<1>3. byte \in Nat /\ <<byte>> \in Seq(Nat) /\ Append(moved[p], byte) \in Seq(Nat)
  BY <1>2
<1> HIDE DEF byte
<1>4. Kept(fs, selfMoved, written.fs) /\ HandleOK(written.fs, written.handle)
  BY <1>1, <1>3, WriteGrows DEF Inv, Grown
<1> HIDE DEF written
<1>5. \A q \in Program : HandleOK(written.fs, open[q])
  BY <1>4, HandlesStay DEF Inv, Kept
<1>6. DOMAIN open' = Program /\ \A q \in Program : HandleOK(fs', open'[q])
  BY <1>1, <1>4, <1>5 DEF Inv
<1>7. GoodNodes(fs', selfMoved') /\ selfMoved' \subseteq DOMAIN fs'
  BY <1>1, <1>4 DEF Inv, Kept, Keeps
<1>8. moved' \in [Program -> Seq(Nat)]
  BY <1>1, <1>3 DEF Inv
<1> QED
  BY <1>6, <1>7, <1>8 DEF Inv

LEMMA InvRead ==
  ASSUME Inv, NEW p \in Program, ReadNext(p)
  PROVE  Inv'
<1> DEFINE read == Read(fs, open[p], 1)
<1>1. /\ read.err = nil /\ fs' = read.fs /\ open' = [open EXCEPT ![p] = read.handle]
      /\ moved' = [moved EXCEPT ![p] = @ \o read.bytes] /\ selfMoved' = selfMoved
      /\ ~open[p].closed
  BY DEF ReadNext
<1>2. read.fs = fs /\ HandleOK(fs, read.handle) /\ read.bytes \in Seq(Nat)
  BY <1>1, ReadKept DEF Inv, GoodNodes
<1> HIDE DEF read
<1>3. DOMAIN open' = Program /\ \A q \in Program : HandleOK(fs', open'[q])
  BY <1>1, <1>2 DEF Inv
<1>4. moved' \in [Program -> Seq(Nat)]
  <2>1. moved[p] \o read.bytes \in Seq(Nat)
    BY <1>2 DEF Inv
  <2> QED
    BY <1>1, <2>1 DEF Inv
<1> QED
  BY <1>1, <1>2, <1>3, <1>4 DEF Inv

LEMMA InvClose ==
  ASSUME Inv, NEW p \in Program, CloseFile(p)
  PROVE  Inv'
<1>1. fs' = fs
  BY CloseKeeps DEF CloseFile, Inv, GoodNodes
<1>2. open' = [open EXCEPT ![p] = NoHandle] /\ moved' = [moved EXCEPT ![p] = <<>>]
      /\ selfMoved' = selfMoved
  BY DEF CloseFile
<1>3. DOMAIN open' = Program /\ \A q \in Program : HandleOK(fs', open'[q])
  <2>1. \A q \in Program : open'[q] = IF q = p THEN NoHandle ELSE open[q]
    BY <1>2 DEF Inv
  <2>2. HandleOK(fs, NoHandle)
    BY DEF HandleOK
  <2> QED
    BY <1>1, <1>2, <2>1, <2>2 DEF Inv
<1>4. moved' \in [Program -> Seq(Nat)]
  BY <1>2 DEF Inv
<1> QED
  BY <1>1, <1>2, <1>3, <1>4 DEF Inv

LEMMA InvNext ==
  ASSUME Inv, [Next]_vars
  PROVE  Inv'
<1>0. GoodNodes(fs, selfMoved) /\ selfMoved \subseteq DOMAIN fs
  BY DEF Inv
<1>1. ASSUME NEW path \in Paths, MakeDirectory(path) PROVE Inv'
  <2>1. Kept(fs, selfMoved, Mkdir(fs, relative(path), directory).fs)
    BY <1>0, MkdirGrows DEF Grown
  <2> QED
    BY <1>0, <1>1, <2>1, InvChanges DEF MakeDirectory, Changes
<1>2. ASSUME NEW path \in Paths, MakeDirectories(path) PROVE Inv'
  <2>1. Kept(fs, selfMoved, MkdirAll(fs, relative(path), directory).fs)
    BY <1>0, MkdirAllGrows DEF Grown
  <2> QED
    BY <1>0, <1>2, <2>1, InvChanges DEF MakeDirectories, Changes
<1>3. ASSUME NEW path \in Paths, RemoveOne(path) PROVE Inv'
  <2>1. Kept(fs, selfMoved, RemoveEntry(fs, relative(path)).fs)
    BY <1>0, RemoveEntryKept
  <2> QED
    BY <1>0, <1>3, <2>1, InvChanges DEF RemoveOne, Changes
<1>4. ASSUME NEW path \in Paths, RemoveTree(path) PROVE Inv'
  <2>1. Kept(fs, selfMoved, RemoveAll(fs, relative(path)).fs)
    BY <1>0, RemoveAllKept
  <2> QED
    BY <1>0, <1>4, <2>1, InvChanges DEF RemoveTree, Changes
<1>5. ASSUME NEW path \in Paths, NEW target \in Targets, MakeSymlink(target, path) PROVE Inv'
  <2>1. Kept(fs, selfMoved, Symlink(fs, target, relative(path)).fs)
    BY <1>0, SymlinkGrows DEF Grown
  <2> QED
    BY <1>0, <1>5, <2>1, InvChanges DEF MakeSymlink, Changes
<1>6. ASSUME NEW path \in Paths, NEW other \in Paths, MakeLink(other, path) PROVE Inv'
  <2>1. Kept(fs, selfMoved, Link(fs, relative(other), relative(path)).fs)
    BY <1>0, LinkGrows DEF Grown
  <2> QED
    BY <1>0, <1>6, <2>1, InvChanges DEF MakeLink, Changes
<1>7. ASSUME NEW path \in Paths, NEW other \in Paths, Move(other, path) PROVE Inv'
  BY <1>7, InvMove
<1>8. ASSUME NEW path \in Paths, NEW p \in Program, NEW flags \in OpenFlags,
             OpenWith(p, path, flags)
      PROVE Inv'
  BY <1>8, InvOpen
<1>9. ASSUME NEW p \in Program, WriteNext(p) PROVE Inv'
  BY <1>9, InvWrite
<1>10. ASSUME NEW p \in Program, ReadNext(p) PROVE Inv'
  BY <1>10, InvRead
<1>11. ASSUME NEW p \in Program, CloseFile(p) PROVE Inv'
  BY <1>11, InvClose
<1>12. CASE UNCHANGED vars
  BY <1>12 DEF Inv, vars
<1> QED
  BY <1>1, <1>2, <1>3, <1>4, <1>5, <1>6, <1>7, <1>8, <1>9, <1>10, <1>11, <1>12 DEF Next

\* Nodes are well formed, and the entries of all directories account for every
\* node: the link count of a file is the number of entries that name it, but for
\* a file that was renamed to itself, and a directory has one entry at most.
THEOREM EntriesStayCounted == Spec => []EntriesCount
<1>1. Init => Inv
  BY InvInit
<1>2. Inv /\ [Next]_vars => Inv'
  BY InvNext
<1>3. Inv => EntriesCount
  BY InvIsEntriesCount
<1> QED
  BY <1>1, <1>2, <1>3, PTL DEF Spec

-----------------------------------------------------------------------------
(* Resolved paths.                                                         *)

\* A step that comes to a node came to it by its name, and it comes to the same
\* node where links at the end of a path are not followed.
LEMMA StepToNode ==
  ASSUME NEW nodes, NEW at, NEW parts, NEW n, LookupStep(nodes, at, parts, n, TRUE).err = nil,
         NEW others, others[n] = parts[n]
  PROVE  /\ LookupStep(nodes, at, parts, n, TRUE).path = Append(at.path, parts[n])
         /\ LookupStep(nodes, at, others, n, FALSE) = LookupStep(nodes, at, parts, n, TRUE)
<1> DEFINE child  == nodes[at.ino].children[parts[n]]
           target == ResolvePath(at.path, nodes[child].target)
           rest   == SubSeq(parts, n + 1, Len(parts))
           step   == LookupStep(nodes, at, parts, n, TRUE)
<1>0. step.err = nil
  OBVIOUS
<1>1. nodes[at.ino].kind = "directory"
  <2> SUFFICES ASSUME nodes[at.ino].kind # "directory" PROVE FALSE
    OBVIOUS
  <2>1. step = Missing("notDirectory")
    BY DEF LookupStep
  <2> HIDE DEF step
  <2> QED
    BY <1>0, <2>1, NilIsNoError DEF Missing
<1>2. parts[n] \in DOMAIN nodes[at.ino].children
  <2> SUFFICES ASSUME parts[n] \notin DOMAIN nodes[at.ino].children PROVE FALSE
    OBVIOUS
  <2>1. step = Missing("notExist")
    BY <1>1 DEF LookupStep
  <2> HIDE DEF step
  <2> QED
    BY <1>0, <2>1, NilIsNoError DEF Missing
<1>3. nodes[child].kind # "symlink"
  <2> SUFFICES ASSUME nodes[child].kind = "symlink" PROVE FALSE
    OBVIOUS
  <2>1. step = IF target.err # nil THEN Missing(target.err) ELSE ToLink(target.path \o rest)
    BY <1>1, <1>2 DEF LookupStep, ThroughLink
  <2> HIDE DEF step, target, rest
  <2> QED
    BY <1>0, <2>1, NilIsNoError DEF Missing, ToLink
<1>4. step = Found(child, Append(at.path, parts[n]))
  BY <1>1, <1>2, <1>3 DEF LookupStep
<1>5. LookupStep(nodes, at, others, n, FALSE) = Found(child, Append(at.path, parts[n]))
  BY <1>1, <1>2, <1>3 DEF LookupStep
<1> HIDE DEF child
<1>6. step.path = Append(at.path, parts[n])
  <2> HIDE DEF step
  <2> QED
    BY <1>4 DEF Found
<1> QED
  BY <1>4, <1>5, <1>6

\* A walk that comes to a node met no link on its way.
LEMMA WalkToNode ==
  ASSUME NEW nodes, NodesOK(nodes), NEW parts \in Seq(STRING), NEW walk,
         Walk(nodes, parts, TRUE, walk), walk[Len(parts)].err = nil
  PROVE  /\ \A n \in 0..Len(parts) : walk[n].err = nil
         /\ \A n \in 1..Len(parts) :
              walk[n] = LookupStep(nodes, walk[n - 1], parts, n, TRUE)
<1> DEFINE N == Len(parts)
           T == {n \in 0..N : walk[n].err = nil}
<1>0. N \in Nat
  OBVIOUS
<1>1. N \in T
  BY <1>0
<1>2. ASSUME NEW n \in 0..(N - 1), n + 1 \in T PROVE n \in T
  <2>1. n \in 0..N /\ n + 1 \in 1..N /\ (n + 1) - 1 = n
    BY <1>0
  <2>2. walk[n + 1] = IF walk[n].err # nil THEN walk[n]
                      ELSE LookupStep(nodes, walk[n], parts, n + 1, TRUE)
    BY <2>1 DEF Walk
  <2> QED
    BY <1>2, <2>1, <2>2
<1>3. \A n \in 0..N : n \in T
  <2> HIDE DEF T, N
  <2> QED
    BY <1>0, <1>1, <1>2, Descend
<1>4. \A n \in 0..N : walk[n].err = nil
  BY <1>3
<1>5. ASSUME NEW n \in 1..N
      PROVE  walk[n] = LookupStep(nodes, walk[n - 1], parts, n, TRUE)
  <2>1. n - 1 \in 0..N
    BY <1>0
  <2> QED
    BY <1>4, <2>1 DEF Walk
<1> QED
  BY <1>4, <1>5

\* The names of a path below the root, and of its beginnings.
LEMMA BeginningsOf ==
  ASSUME NEW path, InRoot(path)
  PROVE  LET L == Len(Root)  parts == PartsBelowRoot(path) IN
         /\ L \in Nat /\ Len(path) = L + Len(parts) /\ parts \in Seq(Name)
         /\ SubSeq(path, 1, L) = Root /\ SubSeq(path, 1, Len(path)) = path
         /\ \A k \in 0..Len(parts) :
              /\ SubSeq(path, 1, L + k) \in Seq(Name)
              /\ Len(PartsBelowRoot(SubSeq(path, 1, L + k))) = k
              /\ \A i \in 1..k : PartsBelowRoot(SubSeq(path, 1, L + k))[i] = parts[i]
         /\ \A k \in 1..Len(parts) :
              SubSeq(path, 1, L + k) = Append(SubSeq(path, 1, L + (k - 1)), parts[k])
<1> DEFINE L == Len(Root)
           parts == PartsBelowRoot(path)
           N == Len(parts)
<1>1. /\ path \in Seq(Name) /\ Root \in Seq(Name) /\ L \in Nat /\ Len(path) \in Nat
      /\ L <= Len(path) /\ SubSeq(Root, 1, L) = SubSeq(path, 1, L)
  BY FileSystemAssumption DEF InRoot, IsPrefix
<1>2. SubSeq(path, 1, L) = Root /\ SubSeq(path, 1, Len(path)) = path
  BY <1>1
<1>3. parts \in Seq(Name)
  BY <1>1, RestIsPath DEF PartsBelowRoot
<1>4. N = Len(path) - L /\ \A i \in 1..N : parts[i] = path[L + i]
  BY <1>1 DEF PartsBelowRoot
<1> HIDE DEF parts
<1>5. N \in Nat /\ Len(path) = L + N
  BY <1>1, <1>4
<1>6. ASSUME NEW k \in 0..N
      PROVE  LET begin == SubSeq(path, 1, L + k) IN
             /\ begin \in Seq(Name) /\ Len(begin) = L + k
             /\ Len(PartsBelowRoot(begin)) = k
             /\ \A i \in 1..k : PartsBelowRoot(begin)[i] = parts[i]
  <2> DEFINE begin == SubSeq(path, 1, L + k)
  <2>1. L + k \in 0..Len(path)
    BY <1>1, <1>5
  <2>2. begin \in Seq(Name) /\ Len(begin) = L + k /\ \A i \in 1..(L + k) : begin[i] = path[i]
    BY <1>1, <2>1
  <2> HIDE DEF begin
  <2>3. Len(PartsBelowRoot(begin)) = k /\ \A i \in 1..k : PartsBelowRoot(begin)[i] = begin[L + i]
    BY <1>1, <2>2 DEF PartsBelowRoot
  <2>4. \A i \in 1..k : i \in 1..N /\ L + i \in 1..(L + k)
    BY <1>1, <1>5
  <2>5. \A i \in 1..k : PartsBelowRoot(begin)[i] = parts[i]
    BY <1>4, <2>2, <2>3, <2>4
  <2> QED
    BY <2>2, <2>3, <2>5 DEF begin
<1>7. ASSUME NEW k \in 1..N
      PROVE  SubSeq(path, 1, L + k) = Append(SubSeq(path, 1, L + (k - 1)), parts[k])
  <2>1. L + k \in 1..Len(path) /\ L + (k - 1) = (L + k) - 1
    BY <1>1, <1>5
  <2>2. parts[k] = path[L + k]
    BY <1>4
  <2>3. \A m \in 1..Len(path) : SubSeq(path, 1, m) = Append(SubSeq(path, 1, m - 1), path[m])
    BY <1>1
  <2> QED
    BY <2>1, <2>2, <2>3
<1> QED
  BY <1>1, <1>2, <1>3, <1>5, <1>6, <1>7 DEF parts

LEMMA InRootJoined ==
  ASSUME NEW path, InRoot(path), NEW rest \in Seq(Name)
  PROVE  InRoot(path \o rest)
<1>1. /\ path \in Seq(Name) /\ Root \in Seq(Name) /\ Len(Root) <= Len(path)
      /\ SubSeq(Root, 1, Len(Root)) = SubSeq(path, 1, Len(Root))
  BY FileSystemAssumption DEF InRoot, IsPrefix
<1>2. path \o rest \in Seq(Name) /\ Len(path \o rest) = Len(path) + Len(rest)
  BY <1>1, ConcatProperties
<1>3. SubSeq(path \o rest, 1, Len(Root)) = SubSeq(path, 1, Len(Root))
  BY <1>1
<1>4. Len(Root) <= Len(path \o rest)
  BY <1>1, <1>2
<1> QED
  BY <1>1, <1>2, <1>3, <1>4 DEF InRoot, IsPrefix

LEMMA InRootAppended ==
  ASSUME NEW path, InRoot(path), NEW name \in Name
  PROVE  InRoot(Append(path, name))
<1>1. <<name>> \in Seq(Name) /\ path \in Seq(Name)
  BY InRootIsPath
<1>2. Append(path, name) = path \o <<name>>
  BY <1>1
<1> QED
  BY <1>1, <1>2, InRootJoined

\* A link is resolved to a path at or below the root, and names are put after it.
LEMMA StepInRoot ==
  ASSUME NEW nodes, NodesOK(nodes), NEW at, at.ino \in DOMAIN nodes, at.path \in Seq(Name),
         NEW parts \in Seq(Name), NEW n \in 1..Len(parts),
         LookupStep(nodes, at, parts, n, TRUE).err = "link"
  PROVE  InRoot(LookupStep(nodes, at, parts, n, TRUE).path)
<1> DEFINE child  == nodes[at.ino].children[parts[n]]
           target == ResolvePath(at.path, nodes[child].target)
           rest   == SubSeq(parts, n + 1, Len(parts))
           step   == LookupStep(nodes, at, parts, n, TRUE)
<1>0. step.err = "link"
  OBVIOUS
<1>1. nodes[at.ino].kind = "directory"
  <2> SUFFICES ASSUME nodes[at.ino].kind # "directory" PROVE FALSE
    OBVIOUS
  <2>1. step = Missing("notDirectory")
    BY DEF LookupStep
  <2> HIDE DEF step
  <2> QED
    BY <1>0, <2>1 DEF Missing
<1>2. parts[n] \in DOMAIN nodes[at.ino].children
  <2> SUFFICES ASSUME parts[n] \notin DOMAIN nodes[at.ino].children PROVE FALSE
    OBVIOUS
  <2>1. step = Missing("notExist")
    BY <1>1 DEF LookupStep
  <2> HIDE DEF step
  <2> QED
    BY <1>0, <2>1 DEF Missing
<1>3. nodes[child].kind = "symlink"
  <2> SUFFICES ASSUME nodes[child].kind # "symlink" PROVE FALSE
    OBVIOUS
  <2>1. step = Found(child, Append(at.path, parts[n]))
    BY <1>1, <1>2 DEF LookupStep
  <2> HIDE DEF step, child
  <2> QED
    BY <1>0, <2>1, NilIsNoError DEF Found
<1>4. step = IF target.err # nil THEN Missing(target.err) ELSE ToLink(target.path \o rest)
  BY <1>1, <1>2, <1>3 DEF LookupStep, ThroughLink
<1>5. child \in DOMAIN nodes
  BY <1>2, ChildIsNode
<1>6. target.err \in {nil, "permission"} /\ (target.err = nil => InRoot(target.path))
  BY <1>5, TargetIsTarget, ResolvePathIsInRoot
<1>7. rest \in Seq(Name)
  <2>1. n + 1 \in Int /\ Len(parts) \in Int
    OBVIOUS
  <2>2. \A i \in (n + 1)..Len(parts) : parts[i] \in Name
    <3>1. \A i \in (n + 1)..Len(parts) : i \in 1..Len(parts)
      BY <2>1
    <3> QED
      BY <3>1, ElementOfSeq
  <2> QED
    BY <2>1, <2>2, SubSeqProperties
<1> HIDE DEF step, target, rest
<1>8. target.err = nil /\ step.path = target.path \o rest
  BY <1>0, <1>4, <1>6 DEF Missing, ToLink
<1>9. InRoot(target.path \o rest)
  BY <1>6, <1>7, <1>8, InRootJoined
<1> QED
  BY <1>8, <1>9 DEF step

\* Where no link is left on a path, each of its beginnings leads to a node that is
\* no link either, by itself.
LEMMA BeginningsLead ==
  ASSUME NEW nodes, NodesOK(nodes), NEW path, InRoot(path),
         LookupUntilLink(nodes, path, TRUE).err = nil
  PROVE  /\ LookupUntilLink(nodes, path, TRUE).path = path
         /\ \A k \in 0..Len(PartsBelowRoot(path)) :
              LET at == LookupUntilLink(nodes, SubSeq(path, 1, Len(Root) + k), FALSE) IN
              /\ at.err = nil /\ nodes[at.ino].kind # "symlink"
              /\ k = Len(PartsBelowRoot(path)) => at = LookupUntilLink(nodes, path, TRUE)
<1> DEFINE end == LookupUntilLink(nodes, path, TRUE)
           parts == PartsBelowRoot(path)
           L == Len(Root)
           N == Len(parts)
           begin(k) == SubSeq(path, 1, L + k)
           at(k) == LookupUntilLink(nodes, begin(k), FALSE)
<1>1. /\ L \in Nat /\ Len(path) = L + N /\ parts \in Seq(Name)
      /\ begin(0) = Root /\ begin(N) = path
      /\ \A k \in 0..N : /\ begin(k) \in Seq(Name) /\ Len(PartsBelowRoot(begin(k))) = k
                         /\ \A i \in 1..k : PartsBelowRoot(begin(k))[i] = parts[i]
      /\ \A k \in 1..N : begin(k) = Append(begin(k - 1), parts[k])
  <2>1. L + 0 = L
    BY BeginningsOf
  <2> QED
    BY <2>1, BeginningsOf
<1>2. path \in Seq(STRING) /\ parts \in Seq(STRING) /\ N \in Nat
  BY <1>1, InRootIsPath, NamesAreStrings
<1>3. PICK walk : Walk(nodes, parts, TRUE, walk) /\ end = walk[N]
  BY <1>2, LookupWalks
<1>4. end.err = nil
  OBVIOUS
<1> HIDE DEF end, parts
<1>5. /\ \A n \in 0..N : walk[n].err = nil
      /\ \A n \in 1..N : walk[n] = LookupStep(nodes, walk[n - 1], parts, n, TRUE)
  <2>1. walk[Len(parts)].err = nil /\ Walk(nodes, parts, TRUE, walk)
    BY <1>3, <1>4
  <2> QED
    BY <1>2, <2>1, WalkToNode
<1>6. walk[0] = Found(1, Root) /\ walk \in [0..N -> Answers(nodes, TRUE)]
  BY <1>3 DEF Walk
<1>7. \A n \in 0..N : nodes[walk[n].ino].kind # "symlink"
  BY <1>5, <1>6 DEF Answers
<1> HIDE DEF N, L, begin
<1>8. \A n \in 0..N : walk[n].path = begin(n)
  <2> DEFINE T == {n \in 0..N : walk[n].path = begin(n)}
  <2>1. 0 \in T
    BY <1>1, <1>2, <1>6 DEF Found
  <2>2. ASSUME NEW n \in 1..N, n - 1 \in T PROVE n \in T
    <3>1. n \in 0..N /\ n - 1 \in 0..N
      BY <1>2
    <3> DEFINE step == LookupStep(nodes, walk[n - 1], parts, n, TRUE)
    <3>2. walk[n] = step /\ walk[n].err = nil
      BY <1>5, <3>1
    <3>3. step.err = nil
      <4> HIDE DEF step
      <4> QED
        BY <3>2
    <3>4. /\ step.path = Append(walk[n - 1].path, parts[n])
          /\ LookupStep(nodes, walk[n - 1], parts, n, FALSE) = step
      BY <3>3, StepToNode
    <3> HIDE DEF step
    <3>5. walk[n].path = begin(n)
      BY <1>1, <2>2, <3>2, <3>4
    <3> QED
      BY <3>1, <3>5
  <2>3. \A n \in 0..N : n \in T
    <3> HIDE DEF T
    <3> QED
      BY <1>2, <2>1, <2>2, Climb
  <2> QED
    BY <2>3
<1>9. ASSUME NEW k \in 0..N
      PROVE  at(k) = walk[k]
  <2> DEFINE others == PartsBelowRoot(begin(k))
  <2>1. k \in Nat /\ Len(others) = k /\ begin(k) \in Seq(STRING) /\ others \in Seq(STRING)
    <3>1. k \in Nat /\ Len(others) = k /\ begin(k) \in Seq(STRING)
      BY <1>1, <1>2, NamesAreStrings
    <3> QED
      BY <3>1, RestIsPath DEF PartsBelowRoot
  <2>2. \A i \in 1..k : others[i] = parts[i]
    BY <1>1
  <2>3. PICK short : Walk(nodes, others, FALSE, short) /\ at(k) = short[k]
    BY <2>1, LookupWalks
  <2> HIDE DEF at
  <2> HIDE DEF others
  <2>4. /\ short[0] = Found(1, Root)
        /\ \A n \in 1..k : short[n] = IF short[n - 1].err # nil THEN short[n - 1]
                                      ELSE LookupStep(nodes, short[n - 1], others, n, FALSE)
    BY <2>1, <2>3 DEF Walk
  <2> DEFINE T == {n \in 0..k : short[n] = walk[n]}
  <2>5. 0 \in T
    BY <1>6, <2>1, <2>4
  <2>6. ASSUME NEW n \in 1..k, n - 1 \in T PROVE n \in T
    <3>1. n \in 0..k /\ n \in 1..N /\ n \in 0..N /\ n - 1 \in 0..N /\ others[n] = parts[n]
      BY <1>2, <2>2
    <3> DEFINE step == LookupStep(nodes, walk[n - 1], parts, n, TRUE)
               same == LookupStep(nodes, walk[n - 1], others, n, FALSE)
    <3>2. walk[n] = step /\ walk[n].err = nil /\ walk[n - 1].err = nil
      BY <1>5, <3>1
    <3>3. step.err = nil
      <4> HIDE DEF step
      <4> QED
        BY <3>2
    <3>4. same = step
      BY <3>1, <3>3, StepToNode
    <3>5. short[n - 1] = walk[n - 1]
      BY <2>6
    <3>6. short[n] = same
      BY <2>4, <3>2, <3>5
    <3> HIDE DEF step, same
    <3> QED
      BY <3>1, <3>2, <3>4, <3>6
  <2>7. \A n \in 0..k : n \in T
    <3> HIDE DEF T
    <3> QED
      BY <2>1, <2>5, <2>6, Climb
  <2> QED
    BY <2>1, <2>3, <2>7
<1> HIDE DEF at
<1>10. end.path = path
  BY <1>1, <1>2, <1>3, <1>8
<1>11. \A k \in 0..N : /\ at(k).err = nil /\ nodes[at(k).ino].kind # "symlink"
                       /\ k = N => at(k) = end
  BY <1>3, <1>5, <1>7, <1>9
<1> QED
  BY <1>10, <1>11 DEF end, at, begin, parts, N, L

\* Where a link leads is at or below the root, like the path it is on.
LEMMA LinkInRoot ==
  ASSUME NEW nodes, NodesOK(nodes), NEW path, InRoot(path),
         LookupUntilLink(nodes, path, TRUE).err = "link"
  PROVE  InRoot(LookupUntilLink(nodes, path, TRUE).path)
<1> DEFINE end == LookupUntilLink(nodes, path, TRUE)
           parts == PartsBelowRoot(path)
           N == Len(parts)
<1>1. parts \in Seq(Name) /\ N \in Nat /\ path \in Seq(STRING)
  BY BeginningsOf, InRootIsPath
<1>2. PICK walk : Walk(nodes, parts, TRUE, walk) /\ end = walk[N]
  BY <1>1, LookupWalks
<1>3. end.err = "link"
  OBVIOUS
<1> HIDE DEF end, parts
<1>4. /\ walk[0] = Found(1, Root) /\ walk \in [0..N -> Answers(nodes, TRUE)]
      /\ \A n \in 1..N : walk[n] = IF walk[n - 1].err # nil THEN walk[n - 1]
                                   ELSE LookupStep(nodes, walk[n - 1], parts, n, TRUE)
  BY <1>2 DEF Walk
<1> HIDE DEF N
<1> DEFINE Good(a) == a.err = "link" => InRoot(a.path)
           T == {n \in 0..N : Good(walk[n])}
<1>5. 0 \in T
  BY <1>1, <1>4, NilIsNoError DEF Found
<1>6. ASSUME NEW n \in 1..N, n - 1 \in T PROVE n \in T
  <2>1. n \in 0..N /\ n - 1 \in 0..N
    BY <1>1
  <2>2. CASE walk[n - 1].err # nil
    BY <1>4, <1>6, <2>1, <2>2
  <2>3. CASE walk[n - 1].err = nil
    <3> DEFINE step == LookupStep(nodes, walk[n - 1], parts, n, TRUE)
    <3>1. walk[n] = step
      BY <1>4, <2>3
    <3>2. walk[n - 1].ino \in DOMAIN nodes /\ walk[n - 1].path \in Seq(Name)
      BY <1>4, <2>1, <2>3 DEF Answers
    <3>3. Good(step)
      BY <1>1, <3>2, StepInRoot DEF N
    <3> HIDE DEF step, Good
    <3> QED
      BY <2>1, <3>1, <3>3
  <2> QED
    BY <2>2, <2>3
<1>7. \A n \in 0..N : n \in T
  <2> HIDE DEF T
  <2> QED
    BY <1>1, <1>5, <1>6, Climb
<1>8. Good(end)
  <2>1. N \in 0..N
    BY <1>1
  <2> QED
    BY <1>2, <1>7, <2>1
<1> QED
  BY <1>3, <1>8 DEF end

\* A lookup that follows every link ends with a walk along a path without links.
LEMMA LookupEnds ==
  ASSUME NEW nodes, NodesOK(nodes), NEW path, InRoot(path),
         LookupPath(nodes, path, TRUE).err = nil
  PROVE  \E q : InRoot(q) /\ LookupUntilLink(nodes, q, TRUE) = LookupPath(nodes, path, TRUE)
<1> DEFINE N == maxSymlinkDepth
           first(p) == LookupUntilLink(nodes, p, TRUE)
           result == LookupPath(nodes, path, TRUE)
           Ends(a) == a.err = nil => \E q : InRoot(q) /\ first(q) = a
<1>0. N \in Nat /\ N + 1 \in Nat
  BY DEF maxSymlinkDepth
<1>1. PICK look : Links(nodes, TRUE, look) /\ result = look[0][path]
  BY InRootIsPath, LookupFollows
<1>2. result.err = nil
  OBVIOUS
<1> HIDE DEF result
<1>3. \A p : InRoot(p) /\ first(p).err = "link" => InRoot(first(p).path)
  BY LinkInRoot
<1>4. /\ look[N + 1] = [p \in Seq(STRING) |-> Missing("tooManySymlinks")]
      /\ \A n \in 0..N : look[n] = [p \in Seq(STRING) |-> FollowedBy(first(p), look[n + 1])]
  BY <1>1 DEF Links
<1> HIDE DEF N, first
<1> DEFINE T == {n \in 0..(N + 1) : \A p : InRoot(p) => Ends(look[n][p])}
<1>5. N + 1 \in T
  <2>1. \A p : InRoot(p) => look[N + 1][p] = Missing("tooManySymlinks")
    BY <1>4, InRootIsPath
  <2>2. Missing("tooManySymlinks").err # nil
    BY NilIsNoError DEF Missing
  <2>3. \A p : InRoot(p) => Ends(look[N + 1][p])
    BY <2>1, <2>2
  <2> HIDE DEF Ends
  <2> QED
    BY <1>0, <2>3
<1>6. ASSUME NEW n \in 0..((N + 1) - 1), n + 1 \in T PROVE n \in T
  <2>1. n \in 0..N /\ n \in 0..(N + 1)
    BY <1>0
  <2>2. ASSUME NEW p, InRoot(p) PROVE Ends(look[n][p])
    <3>1. look[n][p] = IF first(p).err = "link" THEN look[n + 1][first(p).path] ELSE first(p)
      BY <1>4, <2>1, <2>2, InRootIsPath DEF FollowedBy
    <3>2. CASE first(p).err = "link"
      <4>1. Ends(look[n + 1][first(p).path])
        <5> HIDE DEF Ends
        <5> QED
          BY <1>3, <1>6, <2>2, <3>2
      <4> HIDE DEF Ends
      <4> QED
        BY <3>1, <3>2, <4>1
    <3>3. CASE first(p).err # "link"
      BY <2>2, <3>1, <3>3
    <3> QED
      BY <3>2, <3>3
  <2> HIDE DEF Ends
  <2> QED
    BY <2>1, <2>2
<1>7. \A n \in 0..(N + 1) : n \in T
  <2> HIDE DEF T
  <2> QED
    BY <1>0, <1>5, <1>6, Descend
<1>8. Ends(result)
  <2>1. 0 \in 0..(N + 1)
    BY <1>0
  <2> HIDE DEF Ends
  <2> QED
    BY <1>1, <1>7, <2>1
<1> QED
  BY <1>2, <1>8 DEF first, result

\* A lookup that meets no link is one walk.
LEMMA LookupOnce ==
  ASSUME NEW nodes, NodesOK(nodes), NEW path \in Seq(STRING), NEW follow \in BOOLEAN,
         LookupUntilLink(nodes, path, follow).err = nil
  PROVE  LookupPath(nodes, path, follow) = LookupUntilLink(nodes, path, follow)
<1> DEFINE N == maxSymlinkDepth
           first(p) == LookupUntilLink(nodes, p, follow)
           result == LookupPath(nodes, path, follow)
<1>1. 0 \in 0..N
  BY DEF maxSymlinkDepth
<1>2. PICK look : Links(nodes, follow, look) /\ result = look[0][path]
  BY LookupFollows
<1> HIDE DEF result
<1>3. \A n \in 0..N : look[n] = [p \in Seq(STRING) |-> FollowedBy(first(p), look[n + 1])]
  BY <1>2 DEF Links
<1> HIDE DEF N
<1>4. first(path).err = nil
  OBVIOUS
<1> HIDE DEF first
<1>5. result = FollowedBy(first(path), look[0 + 1])
  BY <1>1, <1>2, <1>3
<1>6. result = first(path)
  BY <1>4, <1>5, NilIsNoError DEF FollowedBy
<1> QED
  BY <1>6 DEF result, first

LEMMA ResolvedPathIsCanonical ==
  ASSUME NEW path \in Paths, NodesOK(fs), EvalSymlinks(fs, relative(path)).err = nil
  PROVE  LET real == EvalSymlinks(fs, relative(path)) IN
         /\ IsPrefix(Root, real.path)
         /\ \A n \in Len(Root)..Len(real.path) :
              LET at == LookupPath(fs, SubSeq(real.path, 1, n), FALSE) IN
              at.err = nil /\ fs[at.ino].kind # "symlink"
         /\ LookupPath(fs, real.path, FALSE).ino = real.ino
<1> DEFINE r == Resolved(relative(path))
           real == EvalSymlinks(fs, relative(path))
           found == LookupPath(fs, r.path, TRUE)
           L == Len(Root)
<1>0. real.err = nil
  OBVIOUS
<1>1. real = IF r.err # nil THEN Missing(r.err) ELSE found
  BY DEF EvalSymlinks, Lookup
<1>2. r.err = nil => InRoot(r.path)
  BY RelativeIsTarget
<1> HIDE DEF real
<1>3. r.err = nil /\ real = found
  <2> HIDE DEF r, found
  <2> QED
    BY <1>0, <1>1 DEF Missing
<1>4. InRoot(r.path) /\ found.err = nil
  <2> HIDE DEF r, found
  <2> QED
    BY <1>0, <1>2, <1>3
<1> HIDE DEF r
<1>5. PICK q : InRoot(q) /\ LookupUntilLink(fs, q, TRUE) = found
  BY <1>4, LookupEnds
<1> HIDE DEF found
<1> DEFINE N == Len(PartsBelowRoot(q))
           begin(k) == SubSeq(q, 1, L + k)
           at(k) == LookupUntilLink(fs, begin(k), FALSE)
<1>6. LookupUntilLink(fs, q, TRUE) = real /\ LookupUntilLink(fs, q, TRUE).err = nil
  BY <1>0, <1>3, <1>5
<1>7. /\ real.path = q
      /\ \A k \in 0..N : /\ at(k).err = nil /\ fs[at(k).ino].kind # "symlink"
                         /\ k = N => at(k) = real
  <2>1. /\ LookupUntilLink(fs, q, TRUE).path = q
        /\ \A k \in 0..N : /\ at(k).err = nil /\ fs[at(k).ino].kind # "symlink"
                           /\ k = N => at(k) = LookupUntilLink(fs, q, TRUE)
    BY <1>5, <1>6, BeginningsLead
  <2> HIDE DEF at, N
  <2> QED
    BY <1>6, <2>1
<1>8. /\ L \in Nat /\ N \in Nat /\ Len(q) = L + N /\ begin(N) = q
      /\ \A k \in 0..N : begin(k) \in Seq(STRING)
  <2>1. /\ L \in Nat /\ Len(q) = L + N /\ PartsBelowRoot(q) \in Seq(Name)
        /\ SubSeq(q, 1, Len(q)) = q /\ \A k \in 0..N : begin(k) \in Seq(Name)
    BY <1>5, BeginningsOf
  <2>2. N \in Nat
    BY <2>1
  <2>3. begin(N) = q
    BY <2>1
  <2> HIDE DEF begin, N, L
  <2> QED
    BY <2>1, <2>2, <2>3, NamesAreStrings
<1>9. \A k \in 0..N : LookupPath(fs, begin(k), FALSE) = at(k)
  <2> HIDE DEF begin, N
  <2> QED
    BY <1>7, <1>8, LookupOnce
<1>10. ASSUME NEW n \in L..Len(q)
       PROVE  LET a == LookupPath(fs, SubSeq(q, 1, n), FALSE) IN
              a.err = nil /\ fs[a.ino].kind # "symlink"
  <2>1. n - L \in 0..N /\ L + (n - L) = n
    BY <1>8
  <2>2. begin(n - L) = SubSeq(q, 1, n)
    BY <2>1
  <2> HIDE DEF begin, N, at
  <2> QED
    BY <1>7, <1>9, <2>1, <2>2
<1>11. LookupPath(fs, q, FALSE).ino = real.ino
  <2>1. N \in 0..N
    BY <1>8
  <2> HIDE DEF begin, N, at
  <2> QED
    BY <1>7, <1>8, <1>9, <2>1
<1> HIDE DEF at, begin, N
<1>12. /\ IsPrefix(Root, real.path)
       /\ \A n \in L..Len(real.path) :
            LET a == LookupPath(fs, SubSeq(real.path, 1, n), FALSE) IN
            a.err = nil /\ fs[a.ino].kind # "symlink"
       /\ LookupPath(fs, real.path, FALSE).ino = real.ino
  BY <1>5, <1>7, <1>10, <1>11 DEF InRoot
<1> QED
  BY <1>12 DEF real

\* A path without its symbolic links (EvalSymlinks) is inside the root, goes
\* through no link and names the same file, whatever links there are and however
\* they point at each other: what the sandbox checks before a call is what the
\* call opens.
THEOREM ResolvedStaysCanonical == Spec => []ResolvedIsCanonical
<1>1. Init => Inv
  BY InvInit
<1>2. Inv /\ [Next]_vars => Inv'
  BY InvNext
<1>3. Inv => ResolvedIsCanonical
  BY ResolvedPathIsCanonical DEF Inv, GoodNodes, ResolvedIsCanonical
<1> QED
  BY <1>1, <1>2, <1>3, PTL DEF Spec

-----------------------------------------------------------------------------
(* What a call loses.                                                      *)

LEMMA ReachIsClosed ==
  ASSUME NEW nodes, NodesOK(nodes)
  PROVE  /\ 1 \in DOMAIN nodes /\ Reach(nodes) \subseteq DOMAIN nodes /\ 1 \in Reach(nodes)
         /\ Closed(nodes, Reach(nodes))
<1>1. 1 \in DOMAIN nodes
  BY NodesAreOK
<1> QED
  BY <1>1, BelowIsClosed DEF Reach

\* When every entry of what is still in the tree is kept, or names what is in U or
\* what is in the tree all the same, only what is in U is lost.
LEMMA LostWithin ==
  ASSUME NEW nodes, NodesOK(nodes), NEW m, NodesOK(m), NEW U, Closed(nodes, U),
         \A c : \A e \in EntriesOf(nodes, c) :
           e[1] \in Reach(m) => e \in EntriesOf(m, c) \/ c \in U \/ c \in Reach(m)
  PROVE  Reach(nodes) \ Reach(m) \subseteq U
<1> DEFINE T == Reach(m) \cup U
<1>1. 1 \in DOMAIN nodes /\ 1 \in T /\ Closed(m, Reach(m))
  BY ReachIsClosed
<1>2. Closed(nodes, T)
  <2> SUFFICES ASSUME NEW c, NEW e \in EntriesOf(nodes, c), e[1] \in T
               PROVE  c \in T
    BY DEF Closed
  <2>1. CASE e[1] \in U
    BY <2>1 DEF Closed
  <2>2. CASE e[1] \in Reach(m)
    <3>1. e \in EntriesOf(m, c) => c \in Reach(m)
      BY <1>1, <2>2 DEF Closed
    <3> QED
      BY <2>2, <3>1
  <2> QED
    BY <2>1, <2>2
<1>3. Reach(nodes) \subseteq T
  <2> HIDE DEF T
  <2> QED
    BY <1>1, <1>2, BelowIsLeast DEF Reach
<1> QED
  BY <1>3

LEMMA NothingLost ==
  ASSUME NEW nodes, NodesOK(nodes), NEW but, NEW m, Grown(nodes, but, m)
  PROVE  Reach(nodes) \ Reach(m) = {}
<1>1. NodesOK(m) /\ Grows(nodes, m)
  BY DEF Grown, Kept, GoodNodes
<1>2. Closed(nodes, {})
  BY DEF Closed
<1>3. Reach(nodes) \ Reach(m) \subseteq {}
  BY <1>1, <1>2, LostWithin DEF Grows
<1> QED
  BY <1>3

\* A step that comes to a node comes to the one that the name is an entry of.
LEMMA StepToChild ==
  ASSUME NEW nodes, NEW at, NEW parts \in Seq(STRING), NEW n \in 1..Len(parts),
         at.ino \in DOMAIN nodes, LookupStep(nodes, at, parts, n, TRUE).err = nil
  PROVE  \E e \in EntriesOf(nodes, LookupStep(nodes, at, parts, n, TRUE).ino) : e[1] = at.ino
<1> DEFINE child  == nodes[at.ino].children[parts[n]]
           target == ResolvePath(at.path, nodes[child].target)
           rest   == SubSeq(parts, n + 1, Len(parts))
           step   == LookupStep(nodes, at, parts, n, TRUE)
<1>0. step.err = nil
  OBVIOUS
<1>1. step = IF nodes[at.ino].kind # "directory" THEN Missing("notDirectory")
             ELSE IF parts[n] \notin DOMAIN nodes[at.ino].children THEN Missing("notExist")
             ELSE IF nodes[child].kind # "symlink"
             THEN Found(child, Append(at.path, parts[n]))
             ELSE IF target.err # nil THEN Missing(target.err)
             ELSE ToLink(target.path \o rest)
  BY DEF LookupStep, ThroughLink
<1> HIDE DEF step, target, rest, child
<1>2. parts[n] \in DOMAIN nodes[at.ino].children /\ step.ino = child
  BY <1>0, <1>1, NilIsNoError DEF Missing, ToLink, Found
<1>3. <<at.ino, parts[n]>> \in EntriesOf(nodes, child)
  BY <1>2, InEntriesFor DEF EntriesOf, child
<1>4. \E e \in EntriesOf(nodes, step.ino) : e[1] = at.ino
  BY <1>2, <1>3
<1> QED
  BY <1>4 DEF step

LEMMA FrontInRoot ==
  ASSUME NEW path, InRoot(path), path # Root
  PROVE  InRoot(Front(path)) /\ Last(path) \in Name /\ path = Append(Front(path), Last(path))
<1>1. /\ path \in Seq(Name) /\ Root \in Seq(Name) /\ Len(Root) <= Len(path)
      /\ SubSeq(Root, 1, Len(Root)) = SubSeq(path, 1, Len(Root))
  BY FileSystemAssumption DEF InRoot, IsPrefix
<1>2. Len(path) # Len(Root)
  BY <1>1
<1>3. Len(Root) \in Nat /\ Len(path) \in Nat /\ Len(Root) <= Len(path) - 1 /\ Len(path) - 1 \in Nat
  BY <1>1, <1>2
<1>4. /\ Front(path) \in Seq(Name) /\ Len(Front(path)) = Len(path) - 1
      /\ \A i \in 1..(Len(path) - 1) : Front(path)[i] = path[i]
  <2>1. \A i \in 1..(Len(path) - 1) : path[i] \in Name
    BY <1>1, <1>3
  <2>2. 1 \in Int /\ Len(path) - 1 \in Int
    BY <1>3
  <2>3. SubSeq(path, 1, Len(path) - 1) \in Seq(Name)
    BY <2>1, <2>2, SubSeqProperties
  <2>4. /\ Len(SubSeq(path, 1, Len(path) - 1)) = Len(path) - 1
        /\ \A i \in 1..(Len(path) - 1) : SubSeq(path, 1, Len(path) - 1)[i] = path[i]
    <3> DEFINE k == Len(path) - 1
    <3>1. k \in 0..Len(path)
      BY <1>3
    <3> HIDE DEF k
    <3>2. /\ Len(SubSeq(path, 1, k)) = k
          /\ \A i \in 1..k : SubSeq(path, 1, k)[i] = path[i]
      BY <1>1, <3>1
    <3> QED
      BY <3>2 DEF k
  <2> QED
    BY <2>3, <2>4 DEF Front
<1>5. Last(path) \in Name /\ path = Append(Front(path), Last(path))
  BY <1>1, <1>3 DEF Front, Last
<1>6. SubSeq(Front(path), 1, Len(Root)) = SubSeq(path, 1, Len(Root))
  BY <1>1, <1>3, <1>4
<1> QED
  BY <1>1, <1>3, <1>4, <1>5, <1>6 DEF InRoot, IsPrefix

LEMMA ParentIsFound ==
  ASSUME NEW nodes, NEW path, InRoot(path), LookupParent(nodes, path).err = nil
  PROVE  LET parent == LookupParent(nodes, path)
             found  == LookupPath(nodes, Front(path), TRUE)
         IN /\ path # Root /\ InRoot(Front(path))
            /\ found.err = nil /\ nodes[found.ino].kind = "directory"
            /\ parent.ino = found.ino /\ parent.base = Last(path) /\ parent.path = found.path
<1> DEFINE found == LookupPath(nodes, Front(path), TRUE)
           parent == LookupParent(nodes, path)
           dir == InDirectory(nodes, found)
<1>0. parent.err = nil
  OBVIOUS
<1>1. parent = IF path = Root THEN EntryAt(Missing("permission"), "none")
               ELSE EntryAt(dir, Last(path))
  BY DEF LookupParent
<1> HIDE DEF parent, found
<1>2. path # Root
  BY <1>0, <1>1, NilIsNoError, ErrorIsMissing
<1>3. parent = EntryAt(dir, Last(path))
  BY <1>1, <1>2
<1>4. dir.err = nil /\ parent.ino = dir.ino /\ parent.base = Last(path)
      /\ parent.path = dir.path
  BY <1>0, <1>3 DEF EntryAt
<1>5. dir = found /\ found.err = nil /\ nodes[found.ino].kind = "directory"
  BY <1>4, NilIsNoError DEF InDirectory, Missing
<1>6. InRoot(Front(path))
  BY <1>2, FrontInRoot
<1> QED
  BY <1>2, <1>4, <1>5, <1>6 DEF parent, found

\* A lookup goes down from the root.
LEMMA WalkReaches ==
  ASSUME NEW nodes, NodesOK(nodes), NEW parts \in Seq(STRING), NEW walk,
         Walk(nodes, parts, TRUE, walk), walk[Len(parts)].err = nil
  PROVE  walk[Len(parts)].ino \in Reach(nodes)
<1> DEFINE N == Len(parts)
           T == {n \in 0..N : walk[n].ino \in Reach(nodes)}
<1>0. N \in Nat
  OBVIOUS
<1>1. /\ \A n \in 0..N : walk[n].err = nil
      /\ \A n \in 1..N : walk[n] = LookupStep(nodes, walk[n - 1], parts, n, TRUE)
  BY WalkToNode
<1>2. 0 \in T
  <2>1. walk[0] = Found(1, Root)
    BY DEF Walk
  <2>2. walk[0].ino = 1
    BY <2>1 DEF Found
  <2> QED
    BY <1>0, <2>2, ReachIsClosed
<1>3. ASSUME NEW n \in 1..N, n - 1 \in T PROVE n \in T
  <2>1. n \in 0..N /\ walk[n - 1].ino \in Reach(nodes)
    BY <1>0, <1>3
  <2> DEFINE at == walk[n - 1]
             step == LookupStep(nodes, at, parts, n, TRUE)
  <2>2. step.err = nil /\ step = walk[n]
    BY <1>1, <2>1
  <2>3. at.ino \in DOMAIN nodes
    BY <2>1, ReachIsClosed
  <2> HIDE DEF at
  <2>4. \E e \in EntriesOf(nodes, step.ino) : e[1] = at.ino
    BY <2>2, <2>3, StepToChild
  <2> HIDE DEF step
  <2>5. step.ino \in Reach(nodes)
    BY <2>1, <2>4, ReachIsClosed DEF Closed, at
  <2> QED
    BY <2>1, <2>2, <2>5
<1>4. \A n \in 0..N : n \in T
  <2> HIDE DEF T, N
  <2> QED
    BY <1>0, <1>2, <1>3, Climb
<1> QED
  BY <1>0, <1>4

LEMMA ParentIsReached ==
  ASSUME NEW nodes, NodesOK(nodes), NEW path, InRoot(path),
         LookupParent(nodes, path).err = nil
  PROVE  LookupParent(nodes, path).ino \in Reach(nodes)
<1> DEFINE found == LookupPath(nodes, Front(path), TRUE)
<1>1. /\ path # Root /\ InRoot(Front(path)) /\ found.err = nil
      /\ LookupParent(nodes, path).ino = found.ino
  BY ParentIsFound
<1>2. PICK q : InRoot(q) /\ LookupUntilLink(nodes, q, TRUE) = found
  BY <1>1, LookupEnds
<1> HIDE DEF found
<1> DEFINE parts == PartsBelowRoot(q)
<1>3. q \in Seq(STRING) /\ parts \in Seq(STRING)
  BY <1>2, InRootIsPath, BeginningsOf, NamesAreStrings
<1>4. PICK walk : /\ Walk(nodes, parts, TRUE, walk)
                  /\ LookupUntilLink(nodes, q, TRUE) = walk[Len(parts)]
  BY <1>3, LookupWalks
<1> HIDE DEF parts
<1>5. walk[Len(parts)].ino \in Reach(nodes)
  BY <1>1, <1>2, <1>3, <1>4, WalkReaches
<1> QED
  BY <1>1, <1>2, <1>4, <1>5

LEMMA RestLonger ==
  ASSUME NEW parts \in Seq(Name), NEW n \in 0..Len(parts), NEW name \in Name
  PROVE  LET rest   == SubSeq(parts, n + 1, Len(parts))
             others == Append(parts, name)
         IN rest \in Seq(Name) /\ SubSeq(others, n + 1, Len(others)) = Append(rest, name)
<1> DEFINE rest == SubSeq(parts, n + 1, Len(parts))
           others == Append(parts, name)
           more == SubSeq(others, n + 1, Len(others))
           N == Len(parts)
<1>1. N \in Nat /\ others \in Seq(Name) /\ Len(others) = N + 1 /\ others[N + 1] = name
      /\ \A i \in 1..N : others[i] = parts[i]
  OBVIOUS
<1>2. rest \in Seq(Name) /\ Len(rest) = N - n /\ \A i \in 1..(N - n) : rest[i] = parts[n + i]
  BY <1>1
<1>3. /\ more \in Seq(Name) /\ Len(more) = N + 1 - n
      /\ \A i \in 1..(N + 1 - n) : more[i] = others[n + i]
  <2> HIDE DEF others
  <2> QED
    BY <1>1
<1> HIDE DEF rest, others, more, N
<1>4. Append(rest, name) \in Seq(Name) /\ Len(Append(rest, name)) = N + 1 - n
      /\ \A i \in 1..(N - n) : Append(rest, name)[i] = rest[i]
      /\ Append(rest, name)[N - n + 1] = name
  <2>1. /\ Append(rest, name) \in Seq(Name) /\ Len(Append(rest, name)) = Len(rest) + 1
        /\ \A i \in 1..Len(rest) : Append(rest, name)[i] = rest[i]
        /\ Append(rest, name)[Len(rest) + 1] = name
    BY <1>2
  <2>2. Len(rest) = N - n /\ N - n + 1 = N + 1 - n
    BY <1>1, <1>2
  <2> QED
    BY <2>1, <2>2
<1>5. ASSUME NEW i \in 1..(N + 1 - n) PROVE more[i] = Append(rest, name)[i]
  <2>1. CASE i = N + 1 - n
    BY <1>1, <1>3, <1>4, <2>1
  <2>2. CASE i # N + 1 - n
    <3>1. i \in 1..(N - n) /\ n + i \in 1..N
      BY <1>1, <2>2
    <3> QED
      BY <1>1, <1>2, <1>3, <1>4, <3>1
  <2> QED
    BY <2>1, <2>2
<1>6. more = Append(rest, name)
  BY <1>3, <1>4, <1>5, SeqEqual
<1> QED
  BY <1>2, <1>6 DEF rest, more, others

LEMMA ConcatAppended ==
  ASSUME NEW p \in Seq(Name), NEW q \in Seq(Name), NEW name \in Name
  PROVE  p \o Append(q, name) = Append(p \o q, name)
OBVIOUS

\* A name that is put after a path is put after where its links lead.
LEMMA LongerStep ==
  ASSUME NEW nodes, NodesOK(nodes), NEW at, at.ino \in DOMAIN nodes, at.path \in Seq(Name),
         NEW parts \in Seq(Name), NEW n \in 1..Len(parts), NEW name \in Name,
         NEW follow \in BOOLEAN
  PROVE  LET step   == LookupStep(nodes, at, parts, n, TRUE)
             longer == LookupStep(nodes, at, Append(parts, name), n, follow)
         IN longer = IF step.err = "link" THEN ToLink(Append(step.path, name)) ELSE step
<1> DEFINE others == Append(parts, name)
           child  == nodes[at.ino].children[parts[n]]
           target == ResolvePath(at.path, nodes[child].target)
           rest   == SubSeq(parts, n + 1, Len(parts))
           more   == SubSeq(others, n + 1, Len(others))
           step   == LookupStep(nodes, at, parts, n, TRUE)
           longer == LookupStep(nodes, at, others, n, follow)
           missing == parts[n] \notin DOMAIN nodes[at.ino].children
<1>1. others[n] = parts[n] /\ n # Len(others) /\ others \in Seq(Name)
  OBVIOUS
<1>2. step = IF nodes[at.ino].kind # "directory" THEN Missing("notDirectory")
             ELSE IF missing THEN Missing("notExist")
             ELSE IF nodes[child].kind # "symlink"
             THEN Found(child, Append(at.path, parts[n]))
             ELSE IF target.err # nil THEN Missing(target.err)
             ELSE ToLink(target.path \o rest)
  BY DEF LookupStep, ThroughLink
<1>3. longer = IF nodes[at.ino].kind # "directory" THEN Missing("notDirectory")
             ELSE IF missing THEN Missing("notExist")
             ELSE IF nodes[child].kind # "symlink"
             THEN Found(child, Append(at.path, parts[n]))
             ELSE IF target.err # nil THEN Missing(target.err)
             ELSE ToLink(target.path \o more)
  BY <1>1 DEF LookupStep, ThroughLink
<1>4. ~missing => /\ target.err \in {nil, "permission"}
                  /\ target.err = nil => target.path \in Seq(Name)
  <2> SUFFICES ASSUME ~missing
               PROVE  /\ target.err \in {nil, "permission"}
                      /\ target.err = nil => target.path \in Seq(Name)
    OBVIOUS
  <2>1. child \in DOMAIN nodes
    BY ChildIsNode
  <2>2. target.err \in {nil, "permission"} /\ (target.err = nil => InRoot(target.path))
    BY <2>1, TargetIsTarget, ResolvePathIsInRoot
  <2> HIDE DEF target
  <2> QED
    BY <2>2, InRootIsPath
<1>5. rest \in Seq(Name) /\ more = Append(rest, name)
  <2>1. n \in 0..Len(parts)
    OBVIOUS
  <2> QED
    BY <2>1, RestLonger
<1>6. ~missing /\ target.err = nil => target.path \o more = Append(target.path \o rest, name)
  <2> HIDE DEF target, rest, more, missing
  <2> QED
    BY <1>4, <1>5, ConcatAppended
<1> HIDE DEF step, longer, target, rest, more, child, missing
<1>7. CASE step = ToLink(target.path \o rest) /\ ~missing /\ target.err = nil
  <2>1. longer = ToLink(target.path \o more)
    BY <1>2, <1>3, <1>7, NilIsNoError DEF Missing, ToLink, Found
  <2>2. step.path = target.path \o rest /\ step.err = "link"
    BY <1>7 DEF ToLink
  <2>3. target.path \o more = Append(target.path \o rest, name)
    BY <1>6, <1>7
  <2> QED
    BY <2>1, <2>2, <2>3 DEF step, longer, others
<1>8. CASE ~(step = ToLink(target.path \o rest) /\ ~missing /\ target.err = nil)
  <2>1. longer = step /\ step.err # "link"
    BY <1>2, <1>3, <1>4, <1>8, NilIsNoError DEF Missing, Found
  <2> QED
    BY <2>1 DEF step, longer, others
<1> QED
  BY <1>7, <1>8

\* The last name of a path, at the directory before it.
EntryStep(nodes, dir, name, follow) == LookupStep(nodes, dir, <<name>>, 1, follow)

\* One walk, and the walk along the path with another name.
LEMMA LongerWalk ==
  ASSUME NEW nodes, NodesOK(nodes), NEW path, InRoot(path), NEW name \in Name,
         NEW follow \in BOOLEAN
  PROVE  LET first  == LookupUntilLink(nodes, path, TRUE)
             longer == LookupUntilLink(nodes, Append(path, name), follow)
         IN longer = IF first.err = "link" THEN ToLink(Append(first.path, name))
                     ELSE IF first.err # nil THEN first
                     ELSE EntryStep(nodes, first, name, follow)
<1> DEFINE parts  == PartsBelowRoot(path)
           others == PartsBelowRoot(Append(path, name))
           N      == Len(parts)
           first  == LookupUntilLink(nodes, path, TRUE)
           longer == LookupUntilLink(nodes, Append(path, name), follow)
<1>1. /\ parts \in Seq(Name) /\ N \in Nat /\ path \in Seq(STRING)
      /\ Append(path, name) \in Seq(Name) /\ Append(path, name) \in Seq(STRING)
      /\ others = Append(parts, name) /\ others \in Seq(STRING)
  <2>1. path \in Seq(Name) /\ Root \in Seq(Name) /\ Len(Root) \in 0..Len(path)
    BY FileSystemAssumption DEF InRoot, IsPrefix
  <2>2. parts \in Seq(Name) /\ others = Append(parts, name)
    BY <2>1, RestLonger DEF PartsBelowRoot
  <2>3. Append(path, name) \in Seq(Name) /\ others \in Seq(Name) /\ N \in Nat
    BY <2>1, <2>2, AppendProperties
  <2> QED
    BY <2>1, <2>2, <2>3, NamesAreStrings
<1>2. PICK walk : Walk(nodes, parts, TRUE, walk) /\ first = walk[N]
  BY <1>1, LookupWalks
<1>3. PICK long : Walk(nodes, others, follow, long) /\ longer = long[Len(others)]
  BY <1>1, LookupWalks
<1> HIDE DEF first, longer, others, parts
<1>4. /\ walk[0] = Found(1, Root) /\ walk \in [0..N -> Answers(nodes, TRUE)]
      /\ \A n \in 1..N : walk[n] = IF walk[n - 1].err # nil THEN walk[n - 1]
                                   ELSE LookupStep(nodes, walk[n - 1], parts, n, TRUE)
  BY <1>2 DEF Walk
<1>5. Len(others) = N + 1 /\ others[N + 1] = name
  BY <1>1
<1>6. /\ long[0] = Found(1, Root)
      /\ \A n \in 1..(N + 1) : long[n] = IF long[n - 1].err # nil THEN long[n - 1]
                                         ELSE LookupStep(nodes, long[n - 1], others, n, follow)
  BY <1>3, <1>5 DEF Walk
<1> DEFINE Longer(a) == IF a.err = "link" THEN ToLink(Append(a.path, name)) ELSE a
           T == {n \in 0..N : long[n] = Longer(walk[n])}
<1>7. 0 \in T
  BY <1>1, <1>4, <1>6, NilIsNoError DEF Found
<1>8. ASSUME NEW n \in 1..N, n - 1 \in T PROVE n \in T
  <2>1. n \in 0..N /\ n - 1 \in 0..N /\ n \in 1..(N + 1) /\ n \in 1..Len(parts)
    BY <1>1
  <2> DEFINE a == walk[n - 1]
             b == long[n - 1]
             step == LookupStep(nodes, a, parts, n, TRUE)
             next == LookupStep(nodes, b, others, n, follow)
  <2>2. /\ walk[n] = IF a.err # nil THEN a ELSE step
        /\ long[n] = IF b.err # nil THEN b ELSE next
    BY <1>4, <1>6, <2>1
  <2>3. b = Longer(a)
    BY <1>8
  <2>4. CASE a.err = nil
    <3>1. a.ino \in DOMAIN nodes /\ a.path \in Seq(Name)
      BY <1>4, <2>1, <2>4 DEF Answers
    <3>2. b = a
      BY <2>3, <2>4, NilIsNoError
    <3>3. next = Longer(step)
      <4> HIDE DEF a, b
      <4>1. LookupStep(nodes, a, Append(parts, name), n, follow) = Longer(step)
        BY <1>1, <2>1, <3>1, LongerStep
      <4> HIDE DEF step, Longer
      <4> QED
        BY <1>1, <3>2, <4>1
    <3>4. walk[n] = step /\ long[n] = next
      BY <2>2, <2>4, <3>2
    <3> HIDE DEF step, next, Longer
    <3> QED
      BY <2>1, <3>3, <3>4
  <2>5. CASE a.err # nil
    <3>1. b.err # nil
      BY <2>3, <2>5, NilIsNoError DEF ToLink
    <3>2. walk[n] = a /\ long[n] = b
      BY <2>2, <2>5, <3>1
    <3> HIDE DEF Longer
    <3> QED
      BY <2>1, <2>3, <3>2
  <2> QED
    BY <2>4, <2>5
<1>9. \A n \in 0..N : n \in T
  <2> HIDE DEF T, N
  <2> QED
    BY <1>1, <1>7, <1>8, Climb
<1>10. long[N] = Longer(first) /\ N + 1 \in 1..(N + 1) /\ (N + 1) - 1 = N
  BY <1>1, <1>2, <1>9
<1> DEFINE last == LookupStep(nodes, long[N], others, N + 1, follow)
<1>11. longer = IF long[N].err # nil THEN long[N] ELSE last
  BY <1>3, <1>5, <1>6, <1>10
<1>12. CASE first.err = "link"
  <2>1. long[N] = ToLink(Append(first.path, name)) /\ long[N].err = "link"
    BY <1>10, <1>12 DEF ToLink
  <2> QED
    BY <1>11, <1>12, <2>1, NilIsNoError DEF first, longer
<1>13. CASE first.err # "link" /\ first.err # nil
  <2>1. longer = first
    BY <1>10, <1>11, <1>13
  <2> QED
    BY <1>13, <2>1 DEF first, longer
<1>14. CASE first.err = nil
  <2>1. long[N] = first
    BY <1>10, <1>14, NilIsNoError
  <2>2. /\ <<name>>[1] = name /\ Len(<<name>>) = 1 /\ SubSeq(<<name>>, 1 + 1, 1) = <<>>
        /\ SubSeq(others, (N + 1) + 1, N + 1) = <<>>
    BY <1>1
  <2>3. last = EntryStep(nodes, first, name, follow)
    BY <1>5, <2>1, <2>2 DEF LookupStep, EntryStep
  <2> HIDE DEF last
  <2>4. longer = EntryStep(nodes, first, name, follow)
    BY <1>11, <1>14, <2>1, <2>3
  <2> QED
    BY <1>14, <2>4, NilIsNoError DEF first, longer
<1> QED
  BY <1>12, <1>13, <1>14

\* The entry that a parent has is what a lookup of the path finds that follows no
\* link at the end, after as many links as the parent was looked up through.
LEMMA LongerLookup ==
  ASSUME NEW nodes, NodesOK(nodes), NEW path, InRoot(path), NEW name \in Name
  PROVE  LET found  == LookupPath(nodes, path, TRUE)
             longer == LookupPath(nodes, Append(path, name), FALSE)
         IN /\ found.err = nil /\ nodes[found.ino].kind = "directory"
            /\ name \in DOMAIN nodes[found.ino].children
            => longer.err = nil /\ longer.ino = nodes[found.ino].children[name]
<1> DEFINE N == maxSymlinkDepth
           first(p) == LookupUntilLink(nodes, p, TRUE)
           more(p) == LookupUntilLink(nodes, Append(p, name), FALSE)
           found == LookupPath(nodes, path, TRUE)
           longer == LookupPath(nodes, Append(path, name), FALSE)
           Alike(a, b) == /\ a.err = nil /\ nodes[a.ino].kind = "directory"
                          /\ name \in DOMAIN nodes[a.ino].children
                          => b.err = nil /\ b.ino = nodes[a.ino].children[name]
<1>0. N \in Nat /\ N + 1 \in Nat
  BY DEF maxSymlinkDepth
<1>1. \A p : InRoot(p) => p \in Seq(STRING) /\ Append(p, name) \in Seq(STRING)
  <2> TAKE p
  <2> SUFFICES ASSUME InRoot(p) PROVE p \in Seq(STRING) /\ Append(p, name) \in Seq(STRING)
    OBVIOUS
  <2>1. p \in Seq(Name)
    BY InRootIsPath
  <2>2. Append(p, name) \in Seq(Name)
    BY <2>1, AppendProperties
  <2> QED
    BY <2>1, <2>2, NamesAreStrings
<1>2. PICK look : Links(nodes, TRUE, look) /\ found = look[0][path]
  BY <1>1, LookupFollows
<1>3. PICK long : Links(nodes, FALSE, long) /\ longer = long[0][Append(path, name)]
  BY <1>1, LookupFollows
<1> HIDE DEF found, longer
<1>4. /\ look[N + 1] = [p \in Seq(STRING) |-> Missing("tooManySymlinks")]
      /\ \A n \in 0..N : look[n] = [p \in Seq(STRING) |-> FollowedBy(first(p), look[n + 1])]
  BY <1>2 DEF Links
<1>5. \A n \in 0..N : \A p : InRoot(p) =>
        long[n][Append(p, name)] = FollowedBy(more(p), long[n + 1])
  <2>1. \A n \in 0..N : long[n] = [p \in Seq(STRING) |->
           FollowedBy(LookupUntilLink(nodes, p, FALSE), long[n + 1])]
    BY <1>3 DEF Links
  <2> HIDE DEF N
  <2> QED
    BY <1>1, <2>1
<1>6. \A p : InRoot(p) /\ first(p).err = "link" =>
        InRoot(first(p).path) /\ more(p) = ToLink(Append(first(p).path, name))
  BY LinkInRoot, LongerWalk
<1>7. \A p : InRoot(p) => Alike(first(p), more(p))
  <2> TAKE p
  <2> SUFFICES ASSUME InRoot(p), first(p).err = nil, nodes[first(p).ino].kind = "directory",
                      name \in DOMAIN nodes[first(p).ino].children
               PROVE  more(p).err = nil /\ more(p).ino = nodes[first(p).ino].children[name]
    OBVIOUS
  <2>1. more(p) = EntryStep(nodes, first(p), name, FALSE)
    BY LongerWalk, NilIsNoError
  <2> HIDE DEF first, more
  <2>2. more(p) = Found(nodes[first(p).ino].children[name], Append(first(p).path, name))
    BY <2>1 DEF EntryStep, LookupStep
  <2> QED
    BY <2>2 DEF Found
<1> HIDE DEF N, first, more
<1> DEFINE T == {n \in 0..(N + 1) : \A p : InRoot(p) => Alike(look[n][p], long[n][Append(p, name)])}
<1>8. N + 1 \in T
  <2>1. \A p : InRoot(p) => look[N + 1][p].err # nil
    BY <1>1, <1>4, NilIsNoError DEF Missing
  <2> QED
    BY <1>0, <2>1
<1>9. ASSUME NEW n \in 0..((N + 1) - 1), n + 1 \in T PROVE n \in T
  <2>1. n \in 0..N /\ n \in 0..(N + 1)
    BY <1>0
  <2>2. ASSUME NEW p, InRoot(p) PROVE Alike(look[n][p], long[n][Append(p, name)])
    <3>1. look[n][p] = IF first(p).err = "link" THEN look[n + 1][first(p).path] ELSE first(p)
      BY <1>1, <1>4, <2>1, <2>2 DEF FollowedBy
    <3>2. long[n][Append(p, name)] = IF more(p).err = "link" THEN long[n + 1][more(p).path]
                                     ELSE more(p)
      BY <1>5, <2>1, <2>2 DEF FollowedBy
    <3>3. CASE first(p).err = "link"
      <4>1. InRoot(first(p).path) /\ more(p).err = "link"
            /\ more(p).path = Append(first(p).path, name)
        BY <1>6, <2>2, <3>3 DEF ToLink
      <4>2. Alike(look[n + 1][first(p).path], long[n + 1][Append(first(p).path, name)])
        <5> HIDE DEF Alike
        <5> QED
          BY <1>9, <4>1
      <4> HIDE DEF Alike
      <4> QED
        BY <3>1, <3>2, <3>3, <4>1, <4>2
    <3>4. CASE first(p).err = nil
      <4>1. Alike(first(p), more(p)) /\ look[n][p] = first(p)
        BY <1>7, <2>2, <3>1, <3>4, NilIsNoError
      <4>2. more(p).err = nil => long[n][Append(p, name)] = more(p)
        BY <3>2, NilIsNoError
      <4> QED
        BY <4>1, <4>2
    <3>5. CASE first(p).err # nil /\ first(p).err # "link"
      BY <3>1, <3>5
    <3> QED
      BY <3>3, <3>4, <3>5
  <2> HIDE DEF Alike
  <2> QED
    BY <2>1, <2>2
<1>10. \A n \in 0..(N + 1) : n \in T
  <2> HIDE DEF T
  <2> QED
    BY <1>0, <1>8, <1>9, Descend
<1>11. Alike(found, longer)
  <2>1. 0 \in 0..(N + 1)
    BY <1>0
  <2> HIDE DEF Alike
  <2> QED
    BY <1>2, <1>3, <1>10, <2>1
<1> QED
  BY <1>11 DEF found, longer

LEMMA EntryIsFound ==
  ASSUME NEW nodes, NodesOK(nodes), NEW path, InRoot(path),
         LookupParent(nodes, path).err = nil, HasEntry(nodes, LookupParent(nodes, path))
  PROVE  LET at == LookupPath(nodes, path, FALSE) IN
         at.err = nil /\ at.ino = Entry(nodes, LookupParent(nodes, path))
<1> DEFINE parent == LookupParent(nodes, path)
           found == LookupPath(nodes, Front(path), TRUE)
<1>1. /\ path # Root /\ InRoot(Front(path))
      /\ found.err = nil /\ nodes[found.ino].kind = "directory"
      /\ parent.ino = found.ino /\ parent.base = Last(path)
  BY ParentIsFound
<1>2. Last(path) \in Name /\ path = Append(Front(path), Last(path))
  BY <1>1, FrontInRoot
<1> HIDE DEF parent
<1>3. /\ Last(path) \in DOMAIN nodes[found.ino].children
      /\ Entry(nodes, parent) = nodes[found.ino].children[Last(path)]
  BY <1>1 DEF HasEntry, Entry, parent
<1>4. LET longer == LookupPath(nodes, Append(Front(path), Last(path)), FALSE) IN
      longer.err = nil /\ longer.ino = nodes[found.ino].children[Last(path)]
  BY <1>1, <1>2, <1>3, LongerLookup
<1> HIDE DEF found
<1> QED
  BY <1>2, <1>3, <1>4 DEF parent

\* A removal loses what is at or below the entry it removes.
LEMMA RemovedEntryLoses ==
  ASSUME NEW nodes, NEW but, GoodNodes(nodes, but), NEW parent, ParentOK(nodes, parent),
         HasEntry(nodes, parent)
  PROVE  LET m == Discard(WithoutEntry(nodes, parent), Entry(nodes, parent), FALSE) IN
         Reach(nodes) \ Reach(m) \subseteq NodesBelow(nodes, Entry(nodes, parent))
<1> DEFINE ino == Entry(nodes, parent)
           m == Discard(WithoutEntry(nodes, parent), ino, FALSE)
           U == NodesBelow(nodes, ino)
<1>1. NodesOK(nodes) /\ parent.ino \in DOMAIN nodes /\ ino \in DOMAIN nodes
  BY EntryIsNode DEF GoodNodes, ParentOK
<1>2. NodesOK(m) /\ \A i : EntriesOf(m, i) = EntriesOf(nodes, i) \ {Place(parent)}
  BY EntryDiscarded DEF GoodNodes
<1>3. ino \in U /\ Closed(nodes, U)
  BY <1>1, BelowIsClosed
<1>4. \A i : Place(parent) \in EntriesOf(nodes, i) => i = ino
  BY <1>1, PlaceOfEntry
<1> HIDE DEF m, U, ino
<1>5. \A c : \A e \in EntriesOf(nodes, c) : e \in EntriesOf(m, c) \/ c \in U
  BY <1>2, <1>3, <1>4
<1>6. Reach(nodes) \ Reach(m) \subseteq U
  BY <1>1, <1>2, <1>3, <1>5, LostWithin
<1> QED
  BY <1>6 DEF m, U, ino

LEMMA RemovedTreeLoses ==
  ASSUME NEW nodes, NEW but, GoodNodes(nodes, but), NEW parent, ParentOK(nodes, parent),
         HasEntry(nodes, parent)
  PROVE  LET m == Discard(WithoutEntry(nodes, parent), Entry(nodes, parent), TRUE) IN
         Reach(nodes) \ Reach(m) \subseteq NodesBelow(nodes, Entry(nodes, parent))
<1> DEFINE a == WithoutEntry(nodes, parent)
           ino == Entry(nodes, parent)
           m == Discard(a, ino, TRUE)
           U == NodesBelow(nodes, ino)
<1>1. NodesOK(nodes) /\ parent.ino \in DOMAIN nodes /\ ino \in DOMAIN nodes
  BY EntryIsNode DEF GoodNodes, ParentOK
<1>2. /\ NodesOK(a) /\ SameNodes(a, nodes)
      /\ \A i : EntriesOf(a, i) = EntriesOf(nodes, i) \ {Place(parent)}
  BY <1>1, EntryRemoved
<1>3. ino \in DOMAIN a /\ a[ino].kind = nodes[ino].kind
  BY <1>1, <1>2 DEF SameNodes
<1>4. CASE nodes[ino].kind # "directory"
  <2>1. m = Discard(a, ino, FALSE)
    BY <1>3, <1>4 DEF Discard
  <2> QED
    BY <2>1, RemovedEntryLoses
<1>5. CASE nodes[ino].kind = "directory"
  <2> DEFINE dirs == DirectoriesBelow(a, ino)
             gone(i) == EntriesFor(a, dirs, i)
  <2>1. GoodNodes(a, but)
    BY <1>5, DirectoryDetached
  <2>2. ino \in U /\ Closed(nodes, U) /\ \A i : Place(parent) \in EntriesOf(nodes, i) => i = ino
    BY <1>1, BelowIsClosed, PlaceOfEntry
  <2> HIDE DEF a, U, ino
  <2>3. m = EmptyDirectories(a, dirs)
    BY <1>3, <1>5 DEF Discard
  <2>4. \A d \in dirs : d \in DOMAIN a /\ a[d].kind = "directory"
    BY <1>2, <1>3, DirectoriesBelowAre
  <2>5. dirs \subseteq U
    <3>1. Closed(a, U)
      BY <1>2, <2>2 DEF Closed
    <3> QED
      BY <1>2, <1>3, <2>2, <3>1, BelowIsLeast DEF DirectoriesBelow
  <2> HIDE DEF m, dirs
  <2>6. /\ NodesOK(m)
        /\ \A i : EntriesOf(m, i) = EntriesOf(a, i) \ gone(i)
    <3>1. \A i : IsFiniteSet(EntriesOf(a, i))
      BY <2>1, AllFinite
    <3> QED
      BY <1>2, <2>3, <2>4, <3>1, DirectoriesEmptied
  <2>7. ASSUME NEW c, NEW e \in EntriesOf(nodes, c), e \notin EntriesOf(m, c) PROVE c \in U
    <3>1. CASE e = Place(parent)
      BY <2>2, <2>7, <3>1
    <3>2. CASE e \in gone(c)
      <4>1. e[1] \in dirs
        BY <3>2, InEntriesFor
      <4> QED
        BY <2>2, <2>5, <2>7, <4>1 DEF Closed
    <3> QED
      BY <1>2, <2>6, <2>7, <3>1, <3>2
  <2>8. Reach(nodes) \ Reach(m) \subseteq U
    BY <1>1, <2>2, <2>6, <2>7, LostWithin
  <2> QED
    BY <2>8 DEF m, U, ino, a
<1> QED
  BY <1>4, <1>5

\* The entries after the entry of a node was put in another place.
LEMMA MovedEntries ==
  ASSUME NEW nodes, NodesOK(nodes), NEW from, ParentOK(nodes, from),
         NEW to, ParentOK(nodes, to), \A i : Place(to) \notin EntriesOf(nodes, i),
         NEW ino \in DOMAIN nodes, ino # 1
  PROVE  LET m == WithEntry(WithoutEntry(nodes, from), to, ino) IN
         /\ NodesOK(m) /\ Place(to) \in EntriesOf(m, ino)
         /\ \A i : EntriesOf(nodes, i) \ {Place(from)} \subseteq EntriesOf(m, i)
<1> DEFINE a == WithoutEntry(nodes, from)
           m == WithEntry(a, to, ino)
<1>1. /\ NodesOK(a) /\ SameNodes(a, nodes)
      /\ \A i : EntriesOf(a, i) = EntriesOf(nodes, i) \ {Place(from)}
  BY EntryRemoved
<1> HIDE DEF a
<1>2. to.ino \in DOMAIN a /\ ParentOK(a, to) /\ ino \in DOMAIN a
  BY <1>1 DEF ParentOK, SameNodes
<1>3. ~HasEntry(a, to)
  <2>1. Place(to) \notin EntriesOf(a, Entry(a, to))
    BY <1>1
  <2> QED
    BY <1>2, <2>1, PlaceOfEntry
<1>4. /\ NodesOK(m)
      /\ \A i : EntriesOf(m, i) = IF i = ino THEN EntriesOf(a, i) \cup {Place(to)}
                                  ELSE EntriesOf(a, i)
  BY <1>1, <1>2, <1>3, EntryAdded
<1> HIDE DEF m
<1>5. /\ NodesOK(m) /\ Place(to) \in EntriesOf(m, ino)
      /\ \A i : EntriesOf(nodes, i) \ {Place(from)} \subseteq EntriesOf(m, i)
  BY <1>1, <1>4
<1> QED
  BY <1>5 DEF m, a

\* A rename loses what is at or below the new path, when its directory is still in
\* the tree; otherwise what is at or below the old path, under which the directory
\* of the new path is.
LEMMA RenameLoses ==
  ASSUME NEW nodes, NEW but, GoodNodes(nodes, but),
         NEW from, ParentOK(nodes, from), from.err = nil,
         NEW to, ParentOK(nodes, to), to.err = nil, to.ino \in Reach(nodes),
         RenameEntry(nodes, from, to).err = nil
  PROVE  LET m    == RenameEntry(nodes, from, to).fs
             lost == Reach(nodes) \ Reach(m)
         IN lost # {} =>
              \/ HasEntry(nodes, to) /\ lost \subseteq NodesBelow(nodes, Entry(nodes, to))
              \/ /\ HasEntry(nodes, from) /\ lost \subseteq NodesBelow(nodes, Entry(nodes, from))
                 /\ to.ino \in NodesBelow(nodes, Entry(nodes, from))
<1> DEFINE result == RenameEntry(nodes, from, to)
           ino == Entry(nodes, from)
           gone == Entry(nodes, to)
           discarded == Discard(WithoutEntry(nodes, to), gone, FALSE)
           clear == IF HasEntry(nodes, to) THEN discarded ELSE nodes
           m == WithEntry(WithoutEntry(clear, from), to, ino)
           L == Reach(nodes) \ Reach(m)
<1>1. result.err = nil
  OBVIOUS
<1>2. HasEntry(nodes, from)
  BY <1>1, NilIsNoError DEF RenameEntry, Fail
<1>3. result.fs = m
  BY <1>1, <1>2, NilIsNoError DEF RenameEntry, MoveEntry, Fail, Done
<1>4. /\ NodesOK(nodes) /\ from.ino \in DOMAIN nodes /\ to.ino \in DOMAIN nodes
      /\ ino \in DOMAIN nodes /\ ino # 1
  BY <1>2, EntryIsNode DEF ParentOK, GoodNodes
<1>5. /\ \A i : Place(from) \in EntriesOf(nodes, i) => i = ino
      /\ \A i : Place(to) \in EntriesOf(nodes, i) => HasEntry(nodes, to) /\ i = gone
  BY <1>4, PlaceOfEntry
<1>6. HasEntry(nodes, to) => gone \in DOMAIN nodes
  BY <1>4, EntryIsNode
<1> HIDE DEF ino, gone
<1>7. /\ NodesOK(clear) /\ SameNodes(clear, nodes)
      /\ \A i : EntriesOf(clear, i) = EntriesOf(nodes, i) \ {Place(to)}
  <2>1. CASE HasEntry(nodes, to)
    <3>1. /\ GoodNodes(discarded, but) /\ SameNodes(discarded, nodes)
          /\ \A i : EntriesOf(discarded, i) = EntriesOf(nodes, i) \ {Place(to)}
      BY <2>1, EntryDiscarded DEF gone
    <3> HIDE DEF discarded
    <3> QED
      BY <2>1, <3>1 DEF GoodNodes
  <2>2. CASE ~HasEntry(nodes, to)
    <3>1. SameNodes(nodes, nodes)
      BY DEF SameNodes
    <3>2. \A i : EntriesOf(nodes, i) = EntriesOf(nodes, i) \ {Place(to)}
      BY <1>5, <2>2, DropAbsent
    <3> HIDE DEF discarded
    <3> QED
      BY <1>4, <2>2, <3>1, <3>2
  <2> QED
    BY <2>1, <2>2
<1> HIDE DEF clear
<1>8. /\ NodesOK(m) /\ Place(to) \in EntriesOf(m, ino)
      /\ \A i : (EntriesOf(nodes, i) \ {Place(to)}) \ {Place(from)} \subseteq EntriesOf(m, i)
  <2>1. /\ ParentOK(clear, from) /\ ParentOK(clear, to) /\ ino \in DOMAIN clear
        /\ \A i : Place(to) \notin EntriesOf(clear, i)
    BY <1>4, <1>7 DEF ParentOK, SameNodes
  <2>2. /\ NodesOK(m) /\ Place(to) \in EntriesOf(m, ino)
        /\ \A i : EntriesOf(clear, i) \ {Place(from)} \subseteq EntriesOf(m, i)
    BY <1>4, <1>7, <2>1, MovedEntries
  <2> HIDE DEF m
  <2> QED
    BY <1>7, <2>2
<1> HIDE DEF m, result
<1>9. Place(to)[1] = to.ino /\ Closed(m, Reach(m))
  BY <1>8, ReachIsClosed DEF Place
<1>10. ASSUME L # {}
       PROVE  \/ HasEntry(nodes, to) /\ L \subseteq NodesBelow(nodes, gone)
              \/ L \subseteq NodesBelow(nodes, ino) /\ to.ino \in NodesBelow(nodes, ino)
  <2>1. CASE to.ino \in Reach(m)
    <3> DEFINE U == IF HasEntry(nodes, to) THEN NodesBelow(nodes, gone) ELSE {}
    <3>1. ino \in Reach(m)
      BY <1>8, <1>9, <2>1 DEF Closed
    <3>2. Closed(nodes, U) /\ (HasEntry(nodes, to) => gone \in U)
      <4>1. CASE HasEntry(nodes, to)
        BY <1>4, <1>6, <4>1, BelowIsClosed
      <4>2. CASE ~HasEntry(nodes, to)
        BY <4>2 DEF Closed
      <4> QED
        BY <4>1, <4>2
    <3>3. ASSUME NEW c, NEW e \in EntriesOf(nodes, c)
          PROVE  e \in EntriesOf(m, c) \/ c \in U \/ c \in Reach(m)
      <4> HIDE DEF U
      <4>1. CASE e = Place(from)
        BY <1>5, <3>1, <3>3, <4>1
      <4>2. CASE e = Place(to)
        BY <1>5, <3>2, <3>3, <4>2
      <4>3. CASE e # Place(from) /\ e # Place(to)
        BY <1>8, <3>3, <4>3
      <4> QED
        BY <4>1, <4>2, <4>3
    <3>4. L \subseteq U
      <4> HIDE DEF U
      <4> QED
        BY <1>4, <1>8, <3>2, <3>3, LostWithin
    <3> QED
      BY <1>10, <3>4
  <2>2. CASE to.ino \notin Reach(m)
    <3> DEFINE U == NodesBelow(nodes, ino)
    <3>1. ino \in U /\ Closed(nodes, U)
      BY <1>4, BelowIsClosed
    <3> HIDE DEF U
    <3>2. ASSUME NEW c, NEW e \in EntriesOf(nodes, c), e[1] \in Reach(m)
          PROVE  e \in EntriesOf(m, c) \/ c \in U
      <4>1. e # Place(to)
        BY <1>9, <2>2, <3>2
      <4>2. CASE e = Place(from)
        BY <1>5, <3>1, <3>2, <4>2
      <4>3. CASE e # Place(from)
        BY <1>8, <3>2, <4>1, <4>3
      <4> QED
        BY <4>2, <4>3
    <3>3. L \subseteq U
      BY <1>4, <1>8, <3>1, <3>2, LostWithin
    <3>4. to.ino \in L
      BY <2>2
    <3> QED
      BY <3>3, <3>4 DEF U
  <2> QED
    BY <2>1, <2>2
<1> QED
  BY <1>2, <1>3, <1>10 DEF result, ino, gone

LEMMA LookupOfEntry ==
  ASSUME NodesOK(fs), NEW path \in Paths,
         LookupParent(fs, Resolved(relative(path)).path).err = nil,
         HasEntry(fs, LookupParent(fs, Resolved(relative(path)).path)),
         Resolved(relative(path)).err = nil
  PROVE  LET at == Lookup(fs, relative(path), FALSE) IN
         at.err = nil /\ at.ino = Entry(fs, LookupParent(fs, Resolved(relative(path)).path))
<1> DEFINE r == Resolved(relative(path))
<1>1. InRoot(r.path)
  BY RelativeIsTarget
<1>2. Lookup(fs, relative(path), FALSE) = LookupPath(fs, r.path, FALSE)
  BY DEF Lookup
<1> HIDE DEF r
<1>3. LookupParent(fs, r.path).err = nil /\ HasEntry(fs, LookupParent(fs, r.path))
  BY DEF r
<1>4. LET at == LookupPath(fs, r.path, FALSE) IN
      at.err = nil /\ at.ino = Entry(fs, LookupParent(fs, r.path))
  BY <1>1, <1>3, EntryIsFound
<1> QED
  BY <1>2, <1>4 DEF r

LEMMA LookupOfRoot ==
  ASSUME NEW nodes, NodesOK(nodes), NEW follow \in BOOLEAN
  PROVE  LookupPath(nodes, Root, follow) = Found(1, Root)
<1> DEFINE parts == PartsBelowRoot(Root)
<1>1. Root \in Seq(STRING) /\ Len(parts) = 0
  <2>1. Root \in Seq(Name)
    BY FileSystemAssumption
  <2>2. Len(parts) = 0
    BY <2>1 DEF PartsBelowRoot
  <2> QED
    BY <2>1, <2>2, NamesAreStrings
<1>2. PICK walk : /\ Walk(nodes, parts, follow, walk)
                  /\ LookupUntilLink(nodes, Root, follow) = walk[Len(parts)]
  BY <1>1, LookupWalks
<1>3. LookupUntilLink(nodes, Root, follow) = Found(1, Root)
  BY <1>1, <1>2 DEF Walk
<1>4. Found(1, Root).err = nil
  BY Zenon DEF Found
<1>5. LookupUntilLink(nodes, Root, follow).err = nil
  BY <1>3, <1>4, Zenon
<1> QED
  BY <1>1, <1>3, <1>5, LookupOnce

LEMMA RemovedFrom ==
  ASSUME NEW nodes, NEW parent
  PROVE  /\ RemoveEntryFrom(nodes, parent).err = nil =>
              /\ parent.err = nil /\ HasEntry(nodes, parent)
              /\ RemoveEntryFrom(nodes, parent).fs =
                    Discard(WithoutEntry(nodes, parent), Entry(nodes, parent), FALSE)
         /\ RemoveAllFrom(nodes, parent).err = nil /\ RemoveAllFrom(nodes, parent).fs # nodes =>
              /\ parent.err = nil /\ HasEntry(nodes, parent)
              /\ RemoveAllFrom(nodes, parent).fs =
                    Discard(WithoutEntry(nodes, parent), Entry(nodes, parent), TRUE)
<1>1. ASSUME RemoveEntryFrom(nodes, parent).err = nil
      PROVE  /\ parent.err = nil /\ HasEntry(nodes, parent)
             /\ RemoveEntryFrom(nodes, parent).fs =
                   Discard(WithoutEntry(nodes, parent), Entry(nodes, parent), FALSE)
  BY <1>1, NilIsNoError DEF RemoveEntryFrom, Fail, Done
<1>2. ASSUME RemoveAllFrom(nodes, parent).err = nil, RemoveAllFrom(nodes, parent).fs # nodes
      PROVE  /\ parent.err = nil /\ HasEntry(nodes, parent)
             /\ RemoveAllFrom(nodes, parent).fs =
                   Discard(WithoutEntry(nodes, parent), Entry(nodes, parent), TRUE)
  BY <1>2, NilIsNoError DEF RemoveAllFrom, Fail, Done
<1> QED
  BY <1>1, <1>2, Zenon

LEMMA RemoveOneLoses ==
  ASSUME Inv, NEW path \in Paths, RemoveOne(path), Reach(fs) \ Reach(fs') # {}
  PROVE  AccountsForLoss(path)
<1> DEFINE r == Resolved(relative(path))
           parent == LookupParent(fs, r.path)
           result == RemoveEntry(fs, relative(path))
           at == Lookup(fs, relative(path), FALSE)
           m == Discard(WithoutEntry(fs, parent), Entry(fs, parent), FALSE)
<1>1. result.err = nil /\ fs' = result.fs /\ GoodNodes(fs, selfMoved)
  BY DEF RemoveOne, Changes, Inv
<1>2. result = IF r.err # nil THEN Fail(fs, r.err) ELSE RemoveEntryFrom(fs, parent)
  BY DEF RemoveEntry
<1>3. r.err = nil => InRoot(r.path)
  BY RelativeIsTarget
<1> HIDE DEF result
<1>4. r.err = nil
  <2> HIDE DEF r
  <2> QED
    BY <1>1, <1>2 DEF Fail
<1>5. /\ parent.err = nil /\ HasEntry(fs, parent) /\ fs' = m
  <2> HIDE DEF parent, r
  <2>1. result = RemoveEntryFrom(fs, parent)
    BY <1>2, <1>4
  <2> QED
    BY <1>1, <2>1, RemovedFrom
<1>6. ParentOK(fs, parent)
  <2> HIDE DEF r
  <2> QED
    BY <1>1, <1>3, <1>4, <1>5, LookupParentOK DEF GoodNodes
<1>7. at.err = nil /\ at.ino = Entry(fs, parent)
  BY <1>1, <1>4, <1>5, LookupOfEntry DEF GoodNodes
<1> HIDE DEF parent, at
<1>8. Reach(fs) \ Reach(fs') \subseteq NodesBelow(fs, Entry(fs, parent))
  BY <1>1, <1>5, <1>6, RemovedEntryLoses
<1> HIDE DEF m
<1>9. Reach(fs) \ Reach(fs') \subseteq NodesBelow(fs, at.ino)
  BY <1>7, <1>8
<1> QED
  BY <1>7, <1>9 DEF AccountsForLoss, at

LEMMA RemoveTreeLoses ==
  ASSUME Inv, NEW path \in Paths, RemoveTree(path), Reach(fs) \ Reach(fs') # {}
  PROVE  AccountsForLoss(path)
<1> DEFINE r == Resolved(relative(path))
           parent == LookupParent(fs, r.path)
           result == RemoveAll(fs, relative(path))
           at == Lookup(fs, relative(path), FALSE)
           m == Discard(WithoutEntry(fs, parent), Entry(fs, parent), TRUE)
<1>1. /\ result.err = nil /\ fs' = result.fs /\ result.fs # fs
      /\ GoodNodes(fs, selfMoved) /\ NodesOK(fs)
  BY DEF RemoveTree, Changes, Inv, GoodNodes
<1>2. result = IF r.err # nil THEN Fail(fs, r.err)
               ELSE IF r.path = Root THEN Done(Discard(fs, 1, TRUE))
               ELSE RemoveAllFrom(fs, parent)
  BY DEF RemoveAll
<1>3. r.err = nil => InRoot(r.path)
  BY RelativeIsTarget
<1> HIDE DEF result
<1>4. r.err = nil
  <2> HIDE DEF r, parent
  <2>1. r.err # nil => result.err = r.err
    BY <1>2 DEF Fail
  <2> QED
    BY <1>1, <2>1
<1>5. at.err = nil /\ Reach(fs) \ Reach(fs') \subseteq NodesBelow(fs, at.ino)
  <2>1. CASE r.path = Root
    <3>1. at = Found(1, Root)
      <4>1. at = LookupPath(fs, r.path, FALSE)
        BY <1>4 DEF Lookup
      <4> HIDE DEF at, r
      <4> QED
        BY <1>1, <2>1, <4>1, LookupOfRoot
    <3>2. at.err = nil /\ at.ino = 1
      <4> HIDE DEF at
      <4> QED
        BY <3>1 DEF Found
    <3> QED
      BY <3>2 DEF Reach
  <2>2. CASE r.path # Root
    <3>1. parent.err = nil /\ HasEntry(fs, parent) /\ fs' = m
      <4> HIDE DEF parent, r
      <4>1. result = RemoveAllFrom(fs, parent)
        BY <1>2, <1>4, <2>2
      <4> QED
        BY <1>1, <4>1, RemovedFrom
    <3>2. ParentOK(fs, parent)
      <4> HIDE DEF r
      <4> QED
        BY <1>1, <1>3, <1>4, <3>1, LookupParentOK
    <3>3. at.err = nil /\ at.ino = Entry(fs, parent)
      BY <1>1, <1>4, <3>1, LookupOfEntry
    <3> HIDE DEF parent, at
    <3>4. Reach(fs) \ Reach(fs') \subseteq NodesBelow(fs, Entry(fs, parent))
      BY <1>1, <3>1, <3>2, RemovedTreeLoses
    <3> HIDE DEF m
    <3> QED
      BY <3>3, <3>4
  <2> QED
    BY <2>1, <2>2
<1> QED
  BY <1>5 DEF AccountsForLoss, at

LEMMA MoveLoses ==
  ASSUME Inv, NEW old \in Paths, NEW new \in Paths, Move(old, new),
         Reach(fs) \ Reach(fs') # {}
  PROVE  AccountsForLoss(new) \/ AccountsForLoss(old)
<1> DEFINE o == Resolved(relative(old))
           n == Resolved(relative(new))
           from == LookupParent(fs, o.path)
           to == LookupParent(fs, n.path)
           result == Rename(fs, relative(old), relative(new))
           moved2 == RenameEntry(fs, from, to)
           atOld == Lookup(fs, relative(old), FALSE)
           atNew == Lookup(fs, relative(new), FALSE)
           lost == Reach(fs) \ Reach(fs')
<1>1. result.err = nil /\ fs' = result.fs /\ GoodNodes(fs, selfMoved) /\ NodesOK(fs)
  BY DEF Move, Changes, Inv, GoodNodes
<1>2. result = IF "permission" \in {o.err, n.err} \/ o.path = Root THEN Fail(fs, "permission")
               ELSE moved2
  BY DEF Rename
<1>3. /\ o.err \in {nil, "permission"} /\ (o.err = nil => InRoot(o.path))
      /\ n.err \in {nil, "permission"} /\ (n.err = nil => InRoot(n.path))
  BY RelativeIsTarget
<1> HIDE DEF result, moved2
<1>4. o.err = nil /\ n.err = nil /\ result = moved2
  <2> HIDE DEF o, n
  <2> QED
    BY <1>1, <1>2, <1>3, NilIsNoError DEF Fail
<1>5. from.err = nil /\ to.err = nil /\ moved2.err = nil /\ fs' = moved2.fs
  <2>1. moved2.err = nil /\ fs' = moved2.fs
    BY <1>1, <1>4
  <2> HIDE DEF from, to
  <2>2. from.err = nil /\ to.err = nil
    BY <2>1, NilIsNoError DEF moved2, RenameEntry, Fail
  <2> QED
    BY <2>1, <2>2
<1>6. ParentOK(fs, from) /\ ParentOK(fs, to) /\ to.ino \in Reach(fs)
  <2> HIDE DEF o, n
  <2> QED
    BY <1>1, <1>3, <1>4, <1>5, LookupParentOK, ParentIsReached
<1>7. /\ HasEntry(fs, from) => atOld.err = nil /\ atOld.ino = Entry(fs, from)
      /\ HasEntry(fs, to) => atNew.err = nil /\ atNew.ino = Entry(fs, to)
  BY <1>1, <1>4, <1>5, LookupOfEntry
<1> HIDE DEF from, to, atOld, atNew
<1>8. \/ HasEntry(fs, to) /\ lost \subseteq NodesBelow(fs, Entry(fs, to))
      \/ /\ HasEntry(fs, from) /\ lost \subseteq NodesBelow(fs, Entry(fs, from))
         /\ to.ino \in NodesBelow(fs, Entry(fs, from))
  BY <1>1, <1>5, <1>6, RenameLoses DEF moved2
<1>9. CASE HasEntry(fs, to) /\ lost \subseteq NodesBelow(fs, Entry(fs, to))
  <2>1. atNew.err = nil /\ lost \subseteq NodesBelow(fs, atNew.ino)
    BY <1>7, <1>9
  <2> QED
    BY <2>1 DEF AccountsForLoss, atNew
<1>10. CASE /\ HasEntry(fs, from) /\ lost \subseteq NodesBelow(fs, Entry(fs, from))
            /\ to.ino \in NodesBelow(fs, Entry(fs, from))
  <2>1. /\ atOld.err = nil /\ lost \subseteq NodesBelow(fs, atOld.ino)
        /\ to.ino \in NodesBelow(fs, atOld.ino)
    BY <1>7, <1>10
  <2> QED
    BY <2>1 DEF AccountsForLoss, atOld, to
<1> QED
  BY <1>8, <1>9, <1>10

LEMMA LossIsAccountedFor ==
  ASSUME Inv, [Next]_vars, Reach(fs) \ Reach(fs') # {}
  PROVE  \E path \in Paths : AccountsForLoss(path)
<1> DEFINE lost == Reach(fs) \ Reach(fs')
           same == selfMoved
<1>0. GoodNodes(fs, selfMoved) /\ NodesOK(fs) /\ lost # {}
  BY DEF Inv, GoodNodes
<1>1. ASSUME NEW m, NEW but, Grown(fs, but, m), fs' = m PROVE FALSE
  BY <1>0, <1>1, NothingLost
<1>2. ASSUME NEW path \in Paths, MakeDirectory(path) PROVE FALSE
  <2>1. Grown(fs, selfMoved, Mkdir(fs, relative(path), directory).fs)
    BY <1>0, MkdirGrows
  <2> QED
    BY <1>1, <1>2, <2>1 DEF MakeDirectory, Changes
<1>3. ASSUME NEW path \in Paths, MakeDirectories(path) PROVE FALSE
  <2>1. Grown(fs, selfMoved, MkdirAll(fs, relative(path), directory).fs)
    BY <1>0, MkdirAllGrows
  <2> QED
    BY <1>1, <1>3, <2>1 DEF MakeDirectories, Changes
<1>4. ASSUME NEW path \in Paths, NEW target \in Targets, MakeSymlink(target, path) PROVE FALSE
  <2>1. Grown(fs, selfMoved, Symlink(fs, target, relative(path)).fs)
    BY <1>0, SymlinkGrows
  <2> QED
    BY <1>1, <1>4, <2>1 DEF MakeSymlink, Changes
<1>5. ASSUME NEW path \in Paths, NEW other \in Paths, MakeLink(other, path) PROVE FALSE
  <2>1. Grown(fs, selfMoved, Link(fs, relative(other), relative(path)).fs)
    BY <1>0, LinkGrows
  <2> QED
    BY <1>1, <1>5, <2>1 DEF MakeLink, Changes
<1>6. ASSUME NEW path \in Paths, NEW p \in Program, NEW flags \in OpenFlags,
             OpenWith(p, path, flags)
      PROVE FALSE
  <2>1. OpenFile(fs, relative(path), flags, file).err = nil
    BY <1>6 DEF OpenWith
  <2>2. Grown(fs, selfMoved, OpenFile(fs, relative(path), flags, file).fs)
    BY <1>0, <2>1, OpenFileGrows
  <2> QED
    BY <1>1, <1>6, <2>2 DEF OpenWith
<1>7. ASSUME NEW p \in Program, WriteNext(p) PROVE FALSE
  <2> DEFINE bytes == <<Len(moved[p]) + 1>>
  <2>1. bytes \in Seq(Nat)
    BY DEF Inv
  <2>2. ~open[p].closed /\ Write(fs, open[p], bytes).err = nil /\ fs' = Write(fs, open[p], bytes).fs
    BY <1>7 DEF WriteNext
  <2> HIDE DEF bytes
  <2>3. Grown(fs, selfMoved, Write(fs, open[p], bytes).fs)
    BY <1>0, <2>1, <2>2, WriteGrows DEF Inv
  <2> QED
    BY <1>1, <2>2, <2>3
<1>8. ASSUME NEW p \in Program, ReadNext(p) \/ CloseFile(p) PROVE FALSE
  <2>1. fs' = fs
    BY <1>0, <1>8, ReadKept, CloseKeeps DEF ReadNext, CloseFile, Inv
  <2> QED
    BY <1>0, <2>1
<1>9. CASE UNCHANGED vars
  BY <1>0, <1>9 DEF vars
<1>10. ASSUME NEW path \in Paths, NEW other \in Paths, Move(other, path)
       PROVE  \E q \in Paths : AccountsForLoss(q)
  BY <1>0, <1>10, MoveLoses
<1>11. ASSUME NEW path \in Paths, RemoveOne(path) \/ RemoveTree(path)
       PROVE  AccountsForLoss(path)
  BY <1>0, <1>11, RemoveOneLoses, RemoveTreeLoses
<1> QED
  BY <1>2, <1>3, <1>4, <1>5, <1>6, <1>7, <1>8, <1>9, <1>10, <1>11 DEF Next

\* A file drops out of the tree only by a call that removes it, that puts another
\* in its place, or that moves a directory below itself, and no call loses more
\* than what is at or below the path it was given, whatever links and hard links
\* there are.
THEOREM LostOnlyByCalls == Spec => LostOnlyByRemoval
<1>1. Init => Inv
  BY InvInit
<1>2. Inv /\ [Next]_vars => Inv'
  BY InvNext
<1>3. Inv /\ [Next]_vars =>
        [Reach(fs) \ Reach(fs') # {} => \E path \in Paths : AccountsForLoss(path)]_vars
  BY LossIsAccountedFor
<1> QED
  BY <1>1, <1>2, <1>3, PTL DEF Spec, LostOnlyByRemoval

\* The entries account for every node, and a node is lost only where a call removes.
THEOREM TreeIsKept == Spec => TreeKept
BY EntriesStayCounted, LostOnlyByCalls, PTL DEF TreeKept

-----------------------------------------------------------------------------
(* What a call made is there.                                              *)

\* A lookup finds what another one finds, unless it comes to too many links.
OrTooMany(found, other) == found = other \/ found.err = "tooManySymlinks"

\* After links that were followed, a lookup is the same as at once, but for those
\* it may still follow.
LEMMA DeeperLookup ==
  ASSUME NEW nodes, NodesOK(nodes), NEW look, Links(nodes, TRUE, look)
  PROVE  \A n \in 0..(maxSymlinkDepth + 1) : \A p \in Seq(STRING) :
           OrTooMany(look[n][p], look[0][p])
<1> DEFINE N == maxSymlinkDepth
           Q == Seq(STRING)
           first(p) == LookupUntilLink(nodes, p, TRUE)
<1>0. N \in Nat /\ N + 1 \in Nat
  BY DEF maxSymlinkDepth
<1>1. \A p \in Q : first(p).path \in Q
  BY LookupUntilLinkAnswers DEF Answers
<1>2. \A p \in Q : look[N + 1][p].err = "tooManySymlinks"
  BY DEF Links, Missing
<1>3. \A n \in 0..N : \A p \in Q :
        look[n][p] = IF first(p).err = "link" THEN look[n + 1][first(p).path] ELSE first(p)
  BY DEF Links, FollowedBy
<1> HIDE DEF N, Q, first
<1>4. \A n \in 0..N : \A p \in Q : OrTooMany(look[n + 1][p], look[n][p])
  <2> DEFINE T == {n \in 0..N : \A p \in Q : OrTooMany(look[n + 1][p], look[n][p])}
  <2>1. N \in T
    BY <1>0, <1>2 DEF OrTooMany
  <2>2. ASSUME NEW n \in 0..(N - 1), n + 1 \in T PROVE n \in T
    <3>1. n \in 0..N /\ n + 1 \in 0..N
      BY <1>0
    <3>2. ASSUME NEW p \in Q PROVE OrTooMany(look[n + 1][p], look[n][p])
      <4>1. /\ look[n][p] = IF first(p).err = "link" THEN look[n + 1][first(p).path] ELSE first(p)
            /\ look[n + 1][p] = IF first(p).err = "link" THEN look[(n + 1) + 1][first(p).path]
                                ELSE first(p)
        BY <1>3, <3>1
      <4>2. OrTooMany(look[(n + 1) + 1][first(p).path], look[n + 1][first(p).path])
        BY <1>1, <2>2
      <4> QED
        BY <4>1, <4>2 DEF OrTooMany
    <3> QED
      BY <3>1, <3>2
  <2>3. \A n \in 0..N : n \in T
    <3> HIDE DEF T
    <3> QED
      BY <1>0, <2>1, <2>2, Descend
  <2> QED
    BY <2>3
<1> DEFINE U == {n \in 0..(N + 1) : \A p \in Q : OrTooMany(look[n][p], look[0][p])}
<1>5. 0 \in U
  BY <1>0 DEF OrTooMany
<1>6. ASSUME NEW n \in 1..(N + 1), n - 1 \in U PROVE n \in U
  <2>1. n \in 0..(N + 1) /\ n - 1 \in 0..N /\ (n - 1) + 1 = n
    BY <1>0
  <2>2. \A p \in Q : OrTooMany(look[n][p], look[n - 1][p]) /\ OrTooMany(look[n - 1][p], look[0][p])
    BY <1>4, <1>6, <2>1
  <2>3. \A p \in Q : OrTooMany(look[n][p], look[0][p])
    BY <2>2 DEF OrTooMany
  <2> QED
    BY <2>1, <2>3
<1>7. \A n \in 0..(N + 1) : n \in U
  <2> HIDE DEF U
  <2> QED
    BY <1>0, <1>5, <1>6, Climb
<1> QED
  BY <1>7 DEF N, Q

\* Where a step leads when its link is followed.
Through(nodes, step) == IF step.err = "link" THEN LookupPath(nodes, step.path, TRUE) ELSE step

\* A path with one more name leads where the name leads in the directory that the
\* path leads to.
LEMMA LongerPath ==
  ASSUME NEW nodes, NodesOK(nodes), NEW path, InRoot(path), NEW name \in Name
  PROVE  LET found  == LookupPath(nodes, path, TRUE)
             longer == LookupPath(nodes, Append(path, name), TRUE)
         IN /\ found.err = "tooManySymlinks" => longer.err = "tooManySymlinks"
            /\ found.err = nil =>
                 OrTooMany(longer, Through(nodes, EntryStep(nodes, found, name, TRUE)))
<1> DEFINE N == maxSymlinkDepth
           first(p) == LookupUntilLink(nodes, p, TRUE)
           last(a) == EntryStep(nodes, a, name, TRUE)
           found == LookupPath(nodes, path, TRUE)
           longer == LookupPath(nodes, Append(path, name), TRUE)
           Longer(a, b) == /\ a.err = "tooManySymlinks" => b.err = "tooManySymlinks"
                           /\ a.err = nil => OrTooMany(b, Through(nodes, last(a)))
<1>0. N \in Nat /\ N + 1 \in Nat
  BY DEF maxSymlinkDepth
<1>1. \A p : InRoot(p) => p \in Seq(STRING) /\ Append(p, name) \in Seq(STRING)
  <2> TAKE p
  <2> SUFFICES ASSUME InRoot(p) PROVE p \in Seq(STRING) /\ Append(p, name) \in Seq(STRING)
    OBVIOUS
  <2>1. p \in Seq(Name)
    BY InRootIsPath
  <2>2. Append(p, name) \in Seq(Name)
    BY <2>1, AppendProperties
  <2> QED
    BY <2>1, <2>2, NamesAreStrings
<1>2. PICK look : /\ Links(nodes, TRUE, look)
                  /\ \A p \in Seq(STRING) : LookupPath(nodes, p, TRUE) = look[0][p]
  BY LookupFollows
<1>3. found = look[0][path] /\ longer = look[0][Append(path, name)]
  BY <1>1, <1>2
<1> HIDE DEF found, longer
<1>4. look[N + 1] = [p \in Seq(STRING) |-> Missing("tooManySymlinks")]
  BY <1>2 DEF Links
<1>5. \A n \in 0..N : \A p \in Seq(STRING) :
        look[n][p] = IF first(p).err = "link" THEN look[n + 1][first(p).path] ELSE first(p)
  <2>1. \A n \in 0..N : look[n] = [p \in Seq(STRING) |-> FollowedBy(first(p), look[n + 1])]
    BY <1>2 DEF Links
  <2> HIDE DEF N, first
  <2> QED
    BY <2>1 DEF FollowedBy
<1>6. \A p : InRoot(p) =>
        /\ first(Append(p, name)) = IF first(p).err = "link" THEN ToLink(Append(first(p).path, name))
                                    ELSE IF first(p).err # nil THEN first(p) ELSE last(first(p))
        /\ first(p).err = "link" => InRoot(first(p).path)
  BY LinkInRoot, LongerWalk
<1>7. \A p \in Seq(STRING) : first(p).err = "link" => first(p).path \in Seq(STRING)
  BY LookupUntilLinkAnswers DEF Answers
<1>8. \A n \in 0..(N + 1) : \A p \in Seq(STRING) :
        OrTooMany(look[n][p], LookupPath(nodes, p, TRUE))
  BY <1>2, DeeperLookup
<1> HIDE DEF N, first, last
<1> DEFINE T == {n \in 0..(N + 1) : \A p : InRoot(p) => Longer(look[n][p], look[n][Append(p, name)])}
<1>9. N + 1 \in T
  <2>1. \A p : InRoot(p) => /\ look[N + 1][p].err = "tooManySymlinks"
                            /\ look[N + 1][Append(p, name)].err = "tooManySymlinks"
    BY <1>1, <1>4 DEF Missing
  <2> QED
    BY <1>0, <2>1, NilIsNoError
<1>10. ASSUME NEW n \in 0..((N + 1) - 1), n + 1 \in T PROVE n \in T
  <2>1. n \in 0..N /\ n \in 0..(N + 1) /\ n + 1 \in 0..(N + 1)
    BY <1>0
  <2>2. ASSUME NEW p, InRoot(p) PROVE Longer(look[n][p], look[n][Append(p, name)])
    <3> DEFINE more == first(Append(p, name))
    <3>1. look[n][p] = IF first(p).err = "link" THEN look[n + 1][first(p).path] ELSE first(p)
      BY <1>1, <1>5, <2>1, <2>2
    <3>2. look[n][Append(p, name)] = IF more.err = "link" THEN look[n + 1][more.path] ELSE more
      BY <1>1, <1>5, <2>1, <2>2
    <3>3. more = IF first(p).err = "link" THEN ToLink(Append(first(p).path, name))
                 ELSE IF first(p).err # nil THEN first(p) ELSE last(first(p))
      BY <1>6, <2>2
    <3>4. more.err = "link" => more.path \in Seq(STRING)
      BY <1>1, <1>7, <2>2
    <3> HIDE DEF more
    <3>5. CASE first(p).err = "link"
      <4>1. more.err = "link" /\ more.path = Append(first(p).path, name)
        BY <3>3, <3>5 DEF ToLink
      <4>2. Longer(look[n + 1][first(p).path], look[n + 1][Append(first(p).path, name)])
        <5> HIDE DEF Longer
        <5> QED
          BY <1>6, <1>10, <2>2, <3>5
      <4> HIDE DEF Longer
      <4> QED
        BY <3>1, <3>2, <3>5, <4>1, <4>2
    <3>6. CASE first(p).err = nil
      <4>1. look[n][p] = first(p) /\ more = last(first(p))
        BY <3>1, <3>3, <3>6, NilIsNoError
      <4>2. CASE more.err = "link"
        <5>1. OrTooMany(look[n + 1][more.path], LookupPath(nodes, more.path, TRUE))
          BY <1>8, <2>1, <3>4, <4>2
        <5>2. Through(nodes, more) = LookupPath(nodes, more.path, TRUE)
          BY <4>2 DEF Through
        <5> QED
          BY <3>2, <3>6, <4>1, <4>2, <5>1, <5>2, NilIsNoError
      <4>3. CASE more.err # "link"
        <5>1. Through(nodes, more) = more /\ look[n][Append(p, name)] = more
          BY <3>2, <4>3 DEF Through
        <5> QED
          BY <3>6, <4>1, <5>1, NilIsNoError DEF OrTooMany
      <4> QED
        BY <4>2, <4>3
    <3>7. CASE first(p).err # nil /\ first(p).err # "link"
      <4>1. look[n][p] = first(p) /\ look[n][Append(p, name)] = first(p)
        BY <3>1, <3>2, <3>3, <3>7
      <4> QED
        BY <3>7, <4>1
    <3> QED
      BY <3>5, <3>6, <3>7
  <2> HIDE DEF Longer
  <2> QED
    BY <2>1, <2>2
<1>11. \A n \in 0..(N + 1) : n \in T
  <2> HIDE DEF T
  <2> QED
    BY <1>0, <1>9, <1>10, Descend
<1>12. Longer(found, longer)
  <2>1. 0 \in 0..(N + 1)
    BY <1>0
  <2> HIDE DEF Longer
  <2> QED
    BY <1>3, <1>11, <2>1
<1> QED
  BY <1>12 DEF found, longer, last

\* m has an entry that nodes has not, to a node of its own that has no entries.
Adds(nodes, m) ==
  /\ DOMAIN nodes \subseteq DOMAIN m
  /\ \A i \in DOMAIN nodes :
       /\ m[i].kind = nodes[i].kind /\ m[i].target = nodes[i].target
       /\ \A name \in DOMAIN nodes[i].children :
            name \in DOMAIN m[i].children /\ m[i].children[name] = nodes[i].children[name]
       /\ \A name \in DOMAIN m[i].children \ DOMAIN nodes[i].children :
            m[i].children[name] \notin DOMAIN nodes
  /\ \A i \in DOMAIN m \ DOMAIN nodes : m[i].kind # "symlink" /\ DOMAIN m[i].children = {}

LEMMA WithNodeAdds ==
  ASSUME NEW nodes, NodesOK(nodes), NEW parent, ParentOK(nodes, parent),
         ~HasEntry(nodes, parent), NEW node, node \in Nodes({<<>>}), node.kind # "symlink",
         node.kind # "regular" => node.data = <<>>
  PROVE  LET m == WithNode(nodes, parent, node)
             n == Len(nodes) + 1
         IN /\ Adds(nodes, m)
            /\ parent.base \in DOMAIN m[parent.ino].children
            /\ m[parent.ino].children[parent.base] = n
            /\ n \in DOMAIN m /\ m[n].kind = node.kind
            /\ m[parent.ino].kind = "directory"
<1> DEFINE n == Len(nodes) + 1
           a == Append(nodes, node)
           m == WithNode(nodes, parent, node)
           c == WithChild(a[parent.ino].children, parent.base, n)
<1>1. /\ NodesOK(a) /\ DOMAIN a = DOMAIN nodes \cup {n}
      /\ n \notin DOMAIN nodes /\ n # 1 /\ a[n] = node /\ node.children = <<>>
      /\ \A i \in DOMAIN nodes : a[i] = nodes[i]
  BY AddedNode
<1>2. m = [a EXCEPT ![parent.ino].children = c]
  BY DEF WithNode, WithEntry
<1> HIDE DEF a, n, m
<1>3. parent.ino \in DOMAIN nodes /\ nodes[parent.ino].kind = "directory" /\ parent.base \in Name
  BY DEF ParentOK
<1>4. a[parent.ino] = nodes[parent.ino] /\ parent.base \notin DOMAIN nodes[parent.ino].children
  BY <1>1, <1>3 DEF HasEntry
<1>5. /\ DOMAIN c = DOMAIN nodes[parent.ino].children \cup {parent.base}
      /\ \A name \in DOMAIN c : c[name] = IF name = parent.base THEN n
                                          ELSE nodes[parent.ino].children[name]
  BY <1>4 DEF WithChild
<1> HIDE DEF c
<1>6. parent.ino \in DOMAIN a /\ parent.ino # n
  BY <1>1, <1>3
<1>7. NodeOK(a, parent.ino)
  BY <1>1, <1>6, NodesAreOK
<1>8. /\ DOMAIN m = DOMAIN a
      /\ \A i \in DOMAIN a : i # parent.ino => m[i] = a[i]
      /\ m[parent.ino] = [a[parent.ino] EXCEPT !.children = c]
  BY <1>2, <1>6
<1>9. /\ m[parent.ino].kind = nodes[parent.ino].kind
      /\ m[parent.ino].target = nodes[parent.ino].target
      /\ m[parent.ino].children = c
  BY <1>4, <1>7, <1>8 DEF NodeOK, Nodes
<1>10. \A i \in DOMAIN nodes : i # parent.ino => m[i] = nodes[i]
  BY <1>1, <1>8
<1>11. m[n] = node /\ n \in DOMAIN m /\ DOMAIN m = DOMAIN nodes \cup {n}
  BY <1>1, <1>6, <1>8
<1>12. ASSUME NEW i \in DOMAIN nodes
       PROVE  /\ m[i].kind = nodes[i].kind /\ m[i].target = nodes[i].target
              /\ \A name \in DOMAIN nodes[i].children :
                   name \in DOMAIN m[i].children /\ m[i].children[name] = nodes[i].children[name]
              /\ \A name \in DOMAIN m[i].children \ DOMAIN nodes[i].children :
                   m[i].children[name] \notin DOMAIN nodes
  <2>1. CASE i # parent.ino
    BY <1>10, <2>1
  <2>2. CASE i = parent.ino
    BY <1>1, <1>4, <1>5, <1>9, <2>2
  <2> QED
    BY <2>1, <2>2
<1>13. DOMAIN m[n].children = {}
  <2>1. m[n].children = <<>>
    BY <1>1, <1>11
  <2> QED
    BY <2>1
<1>14. Adds(nodes, m)
  BY <1>1, <1>11, <1>12, <1>13 DEF Adds
<1>15. /\ parent.base \in DOMAIN m[parent.ino].children
       /\ m[parent.ino].children[parent.base] = n
       /\ m[parent.ino].kind = "directory" /\ m[n].kind = node.kind
  BY <1>3, <1>5, <1>9, <1>11
<1> QED
  BY <1>11, <1>14, <1>15 DEF n, m

\* A step of a lookup over what was added: it missed an entry before, or it is the
\* step it was.
BeyondOld(nodes, m, at) ==
  \/ at.err \in {"notExist", "notDirectory"}
  \/ at.err = nil /\ at.ino \in DOMAIN m \ DOMAIN nodes

Extends(nodes, m, old, new) ==
  IF old.err = "notExist" THEN BeyondOld(nodes, m, new) ELSE new = old

LEMMA StepExtends ==
  ASSUME NEW nodes, NodesOK(nodes), NEW m, NodesOK(m), Adds(nodes, m),
         NEW at, at.ino \in DOMAIN nodes, at.path \in Seq(Name),
         NEW parts \in Seq(STRING), NEW n \in 1..Len(parts)
  PROVE  Extends(nodes, m, LookupStep(nodes, at, parts, n, TRUE), LookupStep(m, at, parts, n, TRUE))
<1> DEFINE child == nodes[at.ino].children[parts[n]]
           after == m[at.ino].children[parts[n]]
           target == ResolvePath(at.path, nodes[child].target)
           path == Append(at.path, parts[n])
           rest == SubSeq(parts, n + 1, Len(parts))
           missing == parts[n] \notin DOMAIN nodes[at.ino].children
           old == LookupStep(nodes, at, parts, n, TRUE)
           new == LookupStep(m, at, parts, n, TRUE)
<1>1. old = IF nodes[at.ino].kind # "directory" THEN Missing("notDirectory")
            ELSE IF missing THEN Missing("notExist")
            ELSE IF nodes[child].kind # "symlink" THEN Found(child, path)
            ELSE ThroughLink(target, rest)
  BY DEF LookupStep
<1>2. new = IF m[at.ino].kind # "directory" THEN Missing("notDirectory")
            ELSE IF parts[n] \notin DOMAIN m[at.ino].children THEN Missing("notExist")
            ELSE IF m[after].kind # "symlink" THEN Found(after, path)
            ELSE ThroughLink(ResolvePath(at.path, m[after].target), rest)
  BY DEF LookupStep
<1>3. /\ m[at.ino].kind = nodes[at.ino].kind
      /\ ~missing => /\ parts[n] \in DOMAIN m[at.ino].children /\ after = child
      /\ missing /\ parts[n] \in DOMAIN m[at.ino].children => after \notin DOMAIN nodes
  BY DEF Adds
<1> HIDE DEF old, new, path, rest
<1>4. CASE nodes[at.ino].kind # "directory"
  <2>1. old = Missing("notDirectory") /\ new = old
    BY <1>1, <1>2, <1>3, <1>4
  <2>2. old.err # "notExist"
    BY <2>1 DEF Missing
  <2> QED
    BY <2>1, <2>2 DEF Extends, old, new
<1>5. CASE nodes[at.ino].kind = "directory" /\ ~missing
  <2>1. child \in DOMAIN nodes
    BY <1>5, ChildIsNode
  <2>2. /\ target.err \in {nil, "permission"}
        /\ m[child].kind = nodes[child].kind /\ m[child].target = nodes[child].target
    BY <2>1, TargetIsTarget, ResolvePathIsInRoot DEF Adds
  <2>3. new = old
    BY <1>1, <1>2, <1>3, <1>5, <2>2
  <2> HIDE DEF child, target
  <2>4. old.err # "notExist"
    BY <1>1, <1>5, <2>2, NilIsNoError DEF Missing, Found, ThroughLink, ToLink
  <2> QED
    BY <2>3, <2>4 DEF Extends, old, new
<1>6. CASE nodes[at.ino].kind = "directory" /\ missing
  <2>1. old = Missing("notExist")
    BY <1>1, <1>6
  <2>2. CASE parts[n] \notin DOMAIN m[at.ino].children
    <3>1. new = Missing("notExist")
      BY <1>2, <1>3, <1>6, <2>2
    <3> QED
      BY <2>1, <3>1 DEF Missing, Extends, BeyondOld, old, new
  <2>3. CASE parts[n] \in DOMAIN m[at.ino].children
    <3>1. at.ino \in DOMAIN m
      BY DEF Adds
    <3>2. after \in DOMAIN m /\ after \notin DOMAIN nodes
      BY <1>3, <1>6, <2>3, <3>1, ChildIsNode
    <3>3. m[after].kind # "symlink"
      BY <3>2 DEF Adds
    <3>4. new = Found(after, path)
      BY <1>2, <1>3, <1>6, <2>3, <3>3
    <3> HIDE DEF after
    <3>5. BeyondOld(nodes, m, new)
      BY <3>2, <3>4 DEF Found, BeyondOld
    <3>6. old.err = "notExist"
      BY <2>1 DEF Missing
    <3> QED
      BY <3>5, <3>6 DEF Extends, old, new
  <2> QED
    BY <2>2, <2>3
<1> QED
  BY <1>4, <1>5, <1>6

\* A step from what was added finds nothing more.
LEMMA StepBeyond ==
  ASSUME NEW nodes, NEW m, Adds(nodes, m), NEW at, BeyondOld(nodes, m, at), NEW parts, NEW n
  PROVE  BeyondOld(nodes, m, IF at.err # nil THEN at ELSE LookupStep(m, at, parts, n, TRUE))
<1>1. CASE at.err # nil
  BY <1>1
<1>2. CASE at.err = nil
  <2>1. at.ino \in DOMAIN m \ DOMAIN nodes
    BY <1>2, NilIsNoError DEF BeyondOld
  <2>2. DOMAIN m[at.ino].children = {}
    BY <2>1 DEF Adds
  <2> DEFINE step == LookupStep(m, at, parts, n, TRUE)
  <2>3. step = Missing("notDirectory") \/ step = Missing("notExist")
    BY <2>2 DEF LookupStep
  <2> HIDE DEF step
  <2>4. step.err \in {"notDirectory", "notExist"}
    BY <2>3 DEF Missing
  <2> QED
    BY <1>2, <2>4 DEF BeyondOld, step
<1> QED
  BY <1>1, <1>2

\* So it is with a walk ...
LEMMA WalkExtends ==
  ASSUME NEW nodes, NodesOK(nodes), NEW m, NodesOK(m), Adds(nodes, m), NEW path \in Seq(STRING)
  PROVE  Extends(nodes, m, LookupUntilLink(nodes, path, TRUE), LookupUntilLink(m, path, TRUE))
<1> DEFINE parts == PartsBelowRoot(path)
           N == Len(parts)
<1>1. parts \in Seq(STRING) /\ N \in Nat
  <2>1. parts \in Seq(STRING)
    BY RestIsPath DEF PartsBelowRoot
  <2> QED
    BY <2>1
<1>2. PICK old : Walk(nodes, parts, TRUE, old) /\ LookupUntilLink(nodes, path, TRUE) = old[N]
  BY LookupWalks
<1>3. PICK new : Walk(m, parts, TRUE, new) /\ LookupUntilLink(m, path, TRUE) = new[N]
  BY LookupWalks
<1> HIDE DEF parts
<1>4. /\ old[0] = Found(1, Root) /\ new[0] = Found(1, Root)
      /\ old \in [0..N -> Answers(nodes, TRUE)]
      /\ \A n \in 1..N : /\ old[n] = IF old[n - 1].err # nil THEN old[n - 1]
                                     ELSE LookupStep(nodes, old[n - 1], parts, n, TRUE)
                         /\ new[n] = IF new[n - 1].err # nil THEN new[n - 1]
                                     ELSE LookupStep(m, new[n - 1], parts, n, TRUE)
  BY <1>2, <1>3 DEF Walk
<1> DEFINE T == {n \in 0..N : Extends(nodes, m, old[n], new[n])}
<1>5. 0 \in T
  <2>1. old[0].err # "notExist"
    BY <1>4, NilIsNoError DEF Found
  <2> QED
    BY <1>1, <1>4, <2>1 DEF Extends
<1>6. ASSUME NEW n \in 1..N, n - 1 \in T PROVE n \in T
  <2> DEFINE a == old[n - 1]
             b == new[n - 1]
             step == LookupStep(nodes, a, parts, n, TRUE)
             next == LookupStep(m, b, parts, n, TRUE)
  <2>1. n \in 0..N /\ n - 1 \in 0..N /\ n \in 1..Len(parts)
    BY <1>1
  <2>2. old[n] = IF a.err # nil THEN a ELSE step
    BY <1>4
  <2>3. new[n] = IF b.err # nil THEN b ELSE next
    BY <1>4
  <2>4. Extends(nodes, m, a, b)
    BY <1>6
  <2>5. CASE a.err = "notExist"
    <3>1. BeyondOld(nodes, m, b)
      BY <2>4, <2>5 DEF Extends
    <3>2. BeyondOld(nodes, m, new[n])
      <4> HIDE DEF b
      <4> QED
        BY <2>3, <3>1, StepBeyond
    <3>3. old[n] = a
      BY <2>2, <2>5, NilIsNoError
    <3> QED
      BY <2>1, <2>5, <3>2, <3>3 DEF Extends
  <2>6. CASE a.err = nil
    <3>1. a.ino \in DOMAIN nodes /\ a.path \in Seq(Name) /\ b = a
      BY <1>4, <2>1, <2>4, <2>6, NilIsNoError DEF Answers, Extends
    <3>2. Extends(nodes, m, step, LookupStep(m, a, parts, n, TRUE))
      <4> HIDE DEF a
      <4> QED
        BY <1>1, <2>1, <3>1, StepExtends
    <3>3. old[n] = step /\ new[n] = LookupStep(m, a, parts, n, TRUE)
      BY <2>2, <2>3, <2>6, <3>1
    <3> HIDE DEF step
    <3> QED
      BY <2>1, <3>2, <3>3
  <2>7. CASE a.err # nil /\ a.err # "notExist"
    BY <2>1, <2>2, <2>3, <2>4, <2>7 DEF Extends
  <2> QED
    BY <2>5, <2>6, <2>7
<1>7. \A n \in 0..N : n \in T
  <2> HIDE DEF T, N
  <2> QED
    BY <1>1, <1>5, <1>6, Climb
<1>8. N \in 0..N
  BY <1>1
<1> QED
  BY <1>2, <1>3, <1>7, <1>8

\* ... and with a lookup, which comes to no more links than before.
LEMMA LookupExtends ==
  ASSUME NEW nodes, NodesOK(nodes), NEW m, NodesOK(m), Adds(nodes, m), NEW path \in Seq(STRING)
  PROVE  Extends(nodes, m, LookupPath(nodes, path, TRUE), LookupPath(m, path, TRUE))
<1> DEFINE N == maxSymlinkDepth
           Q == Seq(STRING)
           first(p) == LookupUntilLink(nodes, p, TRUE)
           then(p) == LookupUntilLink(m, p, TRUE)
<1>0. N \in Nat /\ N + 1 \in Nat
  BY DEF maxSymlinkDepth
<1>1. PICK old : /\ Links(nodes, TRUE, old)
                 /\ \A p \in Q : LookupPath(nodes, p, TRUE) = old[0][p]
  BY LookupFollows
<1>2. PICK new : Links(m, TRUE, new) /\ \A p \in Q : LookupPath(m, p, TRUE) = new[0][p]
  BY LookupFollows
<1>3. /\ old[N + 1] = [p \in Q |-> Missing("tooManySymlinks")]
      /\ \A n \in 0..N : old[n] = [p \in Q |-> FollowedBy(first(p), old[n + 1])]
  BY <1>1 DEF Links
<1>4. /\ new[N + 1] = [p \in Q |-> Missing("tooManySymlinks")]
      /\ \A n \in 0..N : new[n] = [p \in Q |-> FollowedBy(then(p), new[n + 1])]
  BY <1>2 DEF Links
<1>5. \A p \in Q : Extends(nodes, m, first(p), then(p))
  BY WalkExtends
<1>6. \A p \in Q : first(p).path \in Q
  BY LookupUntilLinkAnswers DEF Answers
<1> HIDE DEF N, Q, first, then
<1> DEFINE T == {n \in 0..(N + 1) : \A p \in Q : Extends(nodes, m, old[n][p], new[n][p])}
<1>7. N + 1 \in T
  <2>1. ASSUME NEW p \in Q PROVE Extends(nodes, m, old[N + 1][p], new[N + 1][p])
    <3>1. /\ old[N + 1][p] = Missing("tooManySymlinks")
          /\ new[N + 1][p] = Missing("tooManySymlinks")
      BY <1>3, <1>4
    <3>2. Missing("tooManySymlinks").err # "notExist"
      BY DEF Missing
    <3> QED
      BY <3>1, <3>2 DEF Extends
  <2> QED
    BY <1>0, <2>1
<1>8. ASSUME NEW n \in 0..((N + 1) - 1), n + 1 \in T PROVE n \in T
  <2>1. n \in 0..N /\ n \in 0..(N + 1)
    BY <1>0
  <2>2. ASSUME NEW p \in Q PROVE Extends(nodes, m, old[n][p], new[n][p])
    <3>1. old[n][p] = IF first(p).err = "link" THEN old[n + 1][first(p).path] ELSE first(p)
      BY <1>3, <2>1 DEF FollowedBy
    <3>2. new[n][p] = IF then(p).err = "link" THEN new[n + 1][then(p).path] ELSE then(p)
      BY <1>4, <2>1 DEF FollowedBy
    <3>3. Extends(nodes, m, first(p), then(p))
      BY <1>5
    <3>4. CASE first(p).err = "link"
      <4>1. then(p) = first(p)
        BY <3>3, <3>4 DEF Extends
      <4>2. Extends(nodes, m, old[n + 1][first(p).path], new[n + 1][first(p).path])
        BY <1>6, <1>8
      <4> QED
        BY <3>1, <3>2, <3>4, <4>1, <4>2
    <3>5. CASE first(p).err = "notExist"
      <4>1. BeyondOld(nodes, m, then(p)) /\ old[n][p] = first(p)
        BY <3>1, <3>3, <3>5 DEF Extends
      <4>2. new[n][p] = then(p)
        BY <3>2, <4>1, NilIsNoError DEF BeyondOld
      <4> QED
        BY <3>5, <4>1, <4>2 DEF Extends
    <3>6. CASE first(p).err # "link" /\ first(p).err # "notExist"
      BY <3>1, <3>2, <3>3, <3>6 DEF Extends
    <3> QED
      BY <3>4, <3>5, <3>6
  <2> QED
    BY <2>1, <2>2
<1>9. \A n \in 0..(N + 1) : n \in T
  <2> HIDE DEF T
  <2> QED
    BY <1>0, <1>7, <1>8, Descend
<1>10. 0 \in 0..(N + 1) /\ path \in Q
  BY <1>0 DEF Q
<1> QED
  BY <1>1, <1>2, <1>9, <1>10

\* The last name of a path where it names an entry.
LEMMA StepToEntry ==
  ASSUME NEW nodes, NEW dir, NEW name, nodes[dir.ino].kind = "directory",
         name \in DOMAIN nodes[dir.ino].children
  PROVE  LET child == nodes[dir.ino].children[name]
             step  == EntryStep(nodes, dir, name, TRUE)
         IN IF nodes[child].kind = "symlink"
            THEN step = ThroughLink(ResolvePath(dir.path, nodes[child].target), <<>>)
            ELSE step = Found(child, Append(dir.path, name))
<1>1. <<name>>[1] = name /\ Len(<<name>>) = 1 /\ SubSeq(<<name>>, 1 + 1, 1) = <<>>
  OBVIOUS
<1> QED
  BY <1>1 DEF EntryStep, LookupStep

\* Where a link that dangles leads is where the path leads that it is the end of,
\* also after an entry was added.
LEMMA DanglingLeads ==
  ASSUME NEW nodes, NodesOK(nodes), NEW m, NodesOK(m), Adds(nodes, m), NEW path, InRoot(path),
         CreatePathIn(nodes, path, LookupParent(nodes, path)).err = "link"
  PROVE  LET next == CreatePathIn(nodes, path, LookupParent(nodes, path)).path IN
         /\ InRoot(next)
         /\ OrTooMany(LookupPath(m, path, TRUE), LookupPath(m, next, TRUE))
<1> DEFINE parent == LookupParent(nodes, path)
           at == CreatePathIn(nodes, path, parent)
           found == LookupPath(nodes, Front(path), TRUE)
           name == Last(path)
           child == nodes[found.ino].children[name]
           step == EntryStep(m, found, name, TRUE)
           target == ResolvePath(found.path, nodes[child].target)
<1>0. at.err = "link"
  OBVIOUS
<1>1. InRoot(at.path)
  BY <1>0, InRootIsPath, CreatePathInAnswers DEF CreateAnswers
<1>2. at = IF parent.err # nil THEN Missing(parent.err)
           ELSE IF ~HasEntry(nodes, parent) \/ nodes[Entry(nodes, parent)].kind # "symlink"
           THEN Found(0, path)
           ELSE ThroughLink(ResolvePath(parent.path, nodes[Entry(nodes, parent)].target), <<>>)
  BY DEF CreatePathIn
<1>3. parent.err = nil
  <2>1. parent.err # "link"
    BY InRootIsPath, LookupParentAnswers
  <2> HIDE DEF parent, at
  <2> QED
    BY <1>0, <1>2, <2>1, ErrorIsMissing
<1>4. /\ path # Root /\ InRoot(Front(path)) /\ found.err = nil
      /\ nodes[found.ino].kind = "directory"
      /\ parent.ino = found.ino /\ parent.base = name /\ parent.path = found.path
  BY <1>3, ParentIsFound
<1>5. name \in Name /\ path = Append(Front(path), name)
  BY <1>4, FrontInRoot
<1>6. found \in Answers(nodes, TRUE)
  BY <1>4, InRootIsPath, LookupPathAnswers
<1>7. LookupPath(m, Front(path), TRUE) = found
  BY <1>4, InRootIsPath, LookupExtends, NilIsNoError DEF Extends
<1> HIDE DEF at, parent
<1>8. HasEntry(nodes, parent) /\ nodes[Entry(nodes, parent)].kind = "symlink"
  <2>1. Found(0, path).err # "link"
    BY NilIsNoError DEF Found
  <2> QED
    BY <1>0, <1>2, <1>3, <2>1
<1>9. name \in DOMAIN nodes[found.ino].children /\ Entry(nodes, parent) = child
  BY <1>4, <1>8 DEF HasEntry, Entry
<1>10. at = ThroughLink(target, <<>>) /\ nodes[child].kind = "symlink"
  BY <1>2, <1>3, <1>4, <1>8, <1>9
<1> HIDE DEF found, name
<1>11. found.ino \in DOMAIN nodes
  BY <1>4, <1>6 DEF Answers
<1>12. child \in DOMAIN nodes
  BY <1>9, <1>11, ChildIsNode
<1>13. /\ m[found.ino].kind = "directory" /\ name \in DOMAIN m[found.ino].children
       /\ m[found.ino].children[name] = child
       /\ m[child].kind = "symlink" /\ m[child].target = nodes[child].target
  BY <1>4, <1>9, <1>10, <1>11, <1>12 DEF Adds
<1>14. step = at
  <2> DEFINE entry == m[found.ino].children[name]
  <2>1. m[entry].kind = "symlink" => step = ThroughLink(ResolvePath(found.path, m[entry].target), <<>>)
    BY <1>13, StepToEntry
  <2> HIDE DEF step, child
  <2> QED
    BY <1>10, <1>13, <2>1
<1> HIDE DEF step
<1>15. OrTooMany(LookupPath(m, path, TRUE), Through(m, at))
  BY <1>4, <1>5, <1>7, <1>14, LongerPath DEF step
<1>16. Through(m, at) = LookupPath(m, at.path, TRUE)
  BY <1>0 DEF Through, at
<1> QED
  BY <1>1, <1>15, <1>16 DEF at, parent

\* The path at which a file is created leads to where the path leads that was given.
LEMMA CreatedLeads ==
  ASSUME NEW nodes, NodesOK(nodes), NEW m, NodesOK(m), Adds(nodes, m), NEW path, InRoot(path),
         ResolveCreatePath(nodes, path).err = nil
  PROVE  OrTooMany(LookupPath(m, path, TRUE),
                   LookupPath(m, ResolveCreatePath(nodes, path).path, TRUE))
<1> DEFINE N == maxSymlinkDepth
           first(p) == CreatePathIn(nodes, p, LookupParent(nodes, p))
           at(p) == LookupPath(m, p, TRUE)
           result == ResolveCreatePath(nodes, path)
           Leads(p, a) == a.err = nil => OrTooMany(at(p), at(a.path))
<1>0. N \in Nat /\ N + 1 \in Nat
  BY DEF maxSymlinkDepth
<1>1. PICK create : Creates(nodes, create) /\ result = create[0][path]
  BY InRootIsPath, CreateFollows
<1>2. result.err = nil
  OBVIOUS
<1> HIDE DEF result
<1>3. \A p : InRoot(p) /\ first(p).err = nil => first(p).path = p
  BY InRootIsPath, CreatePathInAnswers
<1>4. \A p : InRoot(p) /\ first(p).err = "link" =>
        InRoot(first(p).path) /\ OrTooMany(at(p), at(first(p).path))
  BY DanglingLeads
<1>5. /\ create[N + 1] = [p \in Seq(STRING) |-> Missing("tooManySymlinks")]
      /\ \A n \in 0..N : create[n] = [p \in Seq(STRING) |-> FollowedBy(first(p), create[n + 1])]
  BY <1>1 DEF Creates
<1> HIDE DEF N, first, at
<1> DEFINE T == {n \in 0..(N + 1) : \A p : InRoot(p) => Leads(p, create[n][p])}
<1>6. N + 1 \in T
  <2>1. \A p : InRoot(p) => create[N + 1][p].err # nil
    BY <1>5, InRootIsPath, NilIsNoError DEF Missing
  <2> QED
    BY <1>0, <2>1
<1>7. ASSUME NEW n \in 0..((N + 1) - 1), n + 1 \in T PROVE n \in T
  <2>1. n \in 0..N /\ n \in 0..(N + 1)
    BY <1>0
  <2>2. ASSUME NEW p, InRoot(p) PROVE Leads(p, create[n][p])
    <3>1. create[n][p] = IF first(p).err = "link" THEN create[n + 1][first(p).path] ELSE first(p)
      BY <1>5, <2>1, <2>2, InRootIsPath DEF FollowedBy
    <3>2. CASE first(p).err = "link"
      <4>1. InRoot(first(p).path) /\ OrTooMany(at(p), at(first(p).path))
        BY <1>4, <2>2, <3>2
      <4>2. Leads(first(p).path, create[n + 1][first(p).path])
        <5> HIDE DEF Leads
        <5> QED
          BY <1>7, <4>1
      <4> QED
        BY <3>1, <3>2, <4>1, <4>2 DEF OrTooMany
    <3>3. CASE first(p).err # "link"
      BY <1>3, <2>2, <3>1, <3>3 DEF OrTooMany
    <3> QED
      BY <3>2, <3>3
  <2> HIDE DEF Leads
  <2> QED
    BY <2>1, <2>2
<1>8. \A n \in 0..(N + 1) : n \in T
  <2> HIDE DEF T
  <2> QED
    BY <1>0, <1>6, <1>7, Descend
<1>9. 0 \in 0..(N + 1)
  BY <1>0
<1> QED
  BY <1>1, <1>2, <1>8, <1>9 DEF result, at

\* A path leads to an entry that was added in the directory before its end.
LEMMA AddedIsFound ==
  ASSUME NEW m, NodesOK(m), NEW path, InRoot(path), NEW name \in Name,
         LookupPath(m, path, TRUE).err = nil,
         m[LookupPath(m, path, TRUE).ino].kind = "directory",
         NEW n, name \in DOMAIN m[LookupPath(m, path, TRUE).ino].children,
         m[LookupPath(m, path, TRUE).ino].children[name] = n, m[n].kind # "symlink"
  PROVE  OrTooMany(LookupPath(m, Append(path, name), TRUE),
                   Found(n, Append(LookupPath(m, path, TRUE).path, name)))
<1> DEFINE found == LookupPath(m, path, TRUE)
           step == EntryStep(m, found, name, TRUE)
<1>1. step = Found(n, Append(found.path, name))
  BY StepToEntry
<1>2. OrTooMany(LookupPath(m, Append(path, name), TRUE), Through(m, step))
  BY LongerPath
<1> HIDE DEF step
<1>3. step.err = nil
  BY <1>1 DEF Found
<1>4. Through(m, step) = step
  BY <1>3, NilIsNoError DEF Through
<1> QED
  BY <1>1, <1>2, <1>4

\* A file that OpenFile creates, through links that dangle, is where the path leads:
\* to find it takes no more links than it took to miss it.
LEMMA FileIsMade ==
  ASSUME NEW nodes, NEW but, GoodNodes(nodes, but), NEW path \in Paths,
         NEW flags, flags = {"WRONLY", "CREATE"}
  PROVE  FileIsThere(OpenFile(nodes, relative(path), flags, file), relative(path))
<1> DEFINE r == Resolved(relative(path))
           at == LookupPath(nodes, r.path, TRUE)
           opened == OpenFile(nodes, relative(path), flags, file)
           there == Lookup(opened.fs, relative(path), TRUE)
<1> SUFFICES ASSUME opened.err = nil PROVE there.ino = opened.handle.ino
  BY DEF FileIsThere
<1>1. opened = IF r.err # nil THEN NotOpened(nodes, r.err)
               ELSE OpenFound(nodes, r.path, at, flags, file)
  BY DEF OpenFile
<1>2. opened.err = nil
  OBVIOUS
<1>3. there = IF r.err # nil THEN Missing(r.err) ELSE LookupPath(opened.fs, r.path, TRUE)
  BY DEF Lookup
<1>4. r.err = nil => InRoot(r.path)
  BY RelativeIsTarget
<1>5. NodesOK(nodes)
  BY DEF GoodNodes
<1> HIDE DEF r, there, opened
<1>6. r.err = nil
  <2>1. r.err # nil => opened = NotOpened(nodes, r.err)
    BY <1>1
  <2> HIDE DEF at
  <2>2. NotOpened(nodes, r.err).err = r.err
    BY DEF NotOpened
  <2> QED
    BY <1>2, <2>1, <2>2
<1>7. InRoot(r.path) /\ r.path \in Seq(STRING) /\ there = LookupPath(opened.fs, r.path, TRUE)
  BY <1>3, <1>4, <1>6, InRootIsPath
<1>8. at \in Answers(nodes, TRUE)
  BY <1>5, <1>7, LookupPathAnswers
<1>9. opened = OpenFound(nodes, r.path, at, flags, file)
  BY <1>1, <1>6
<1>10. CASE at.err # "notExist"
  <2> HIDE DEF at
  <2>1. at.err = nil
    BY <1>2, <1>9, <1>10 DEF OpenFound, NotOpened
  <2>2. "EXCL" \notin flags /\ "TRUNC" \notin flags
    OBVIOUS
  <2>3. nodes[at.ino].kind # "directory"
    BY <1>2, <1>9, <1>10, <2>1, <2>2, NilIsNoError DEF OpenFound, NotOpened
  <2>4. at.ino \in DOMAIN nodes /\ nodes[at.ino].kind = "regular"
    BY <1>5, <1>8, <2>1, <2>3, DataIsSeq DEF Answers
  <2>5. opened = OpenRegular(nodes, at.ino, flags)
    BY <1>9, <1>10, <2>1, <2>2, <2>4 DEF OpenFound
  <2>6. opened.fs = nodes /\ opened.handle.ino = at.ino
    BY <2>2, <2>5 DEF OpenRegular, Opened, Handle
  <2> QED
    BY <1>7, <2>6 DEF at
<1>11. CASE at.err = "notExist"
  <2> DEFINE create == ResolveCreatePath(nodes, r.path)
             parent == LookupParent(nodes, create.path)
             node == NewNode("regular", file)
             n == Len(nodes) + 1
             m == WithNode(nodes, parent, node)
             front == Front(create.path)
             found == LookupPath(nodes, front, TRUE)
             name == Last(create.path)
  <2>1. opened = CreateAndOpen(nodes, r.path, flags, file)
    BY <1>9, <1>11 DEF OpenFound
  <2>2. opened = IF create.err # nil THEN NotOpened(nodes, create.err)
                 ELSE IF parent.err # nil THEN NotOpened(nodes, parent.err)
                 ELSE IF HasEntry(nodes, parent) THEN NotOpened(nodes, "exist")
                 ELSE Opened(m, Handle("regular", n, flags, TRUE, 0))
    BY <2>1 DEF CreateAndOpen, CreateAt, CreateIn
  <2>3. create.err = nil => InRoot(create.path)
    BY <1>5, <1>7, ResolveCreatePathInRoot
  <2>4. InRoot(create.path) /\ parent.err = nil => ParentOK(nodes, parent)
    BY <1>5, LookupParentOK
  <2>5. node \in Nodes({<<>>}) /\ node.nlink = 1 /\ node.kind = "regular"
    BY NewNodes
  <2> HIDE DEF node
  <2>6. create.err = nil /\ InRoot(create.path) /\ parent.err = nil /\ ~HasEntry(nodes, parent)
    <3> HIDE DEF create, parent, m, n
    <3> QED
      BY <1>2, <2>2, <2>3, NilIsNoError DEF NotOpened
  <2>7. ParentOK(nodes, parent)
    BY <2>4, <2>6
  <2>8. opened.fs = m /\ opened.handle.ino = n
    <3> HIDE DEF create, parent, m, n
    <3> QED
      BY <2>2, <2>6 DEF Opened, Handle
  <2>9. OrTooMany(LookupPath(m, r.path, TRUE), LookupPath(m, create.path, TRUE)) \/ ~(NodesOK(m) /\ Adds(nodes, m))
    BY <1>5, <1>7, <2>6, CreatedLeads
  <2>10. /\ InRoot(front) /\ found.err = nil /\ nodes[found.ino].kind = "directory"
         /\ parent.ino = found.ino /\ parent.base = name
         /\ name \in Name /\ create.path = Append(front, name)
    <3> DEFINE to == create.path
    <3>0. InRoot(to) /\ LookupParent(nodes, to).err = nil
      BY <2>6
    <3> HIDE DEF to
    <3>1. /\ to # Root /\ InRoot(Front(to)) /\ LookupPath(nodes, Front(to), TRUE).err = nil
          /\ nodes[LookupPath(nodes, Front(to), TRUE).ino].kind = "directory"
          /\ LookupParent(nodes, to).ino = LookupPath(nodes, Front(to), TRUE).ino
          /\ LookupParent(nodes, to).base = Last(to)
      BY <3>0, ParentIsFound
    <3>2. Last(to) \in Name /\ to = Append(Front(to), Last(to))
      BY <3>0, <3>1, FrontInRoot
    <3> QED
      BY <3>1, <3>2 DEF to
  <2> HIDE DEF create, front, name
  <2> HIDE DEF found, parent
  <2>11. /\ NodesOK(m) /\ Adds(nodes, m)
         /\ parent.base \in DOMAIN m[parent.ino].children
         /\ m[parent.ino].children[parent.base] = n
         /\ m[n].kind = "regular" /\ m[parent.ino].kind = "directory"
    <3>1. node.kind # "symlink" /\ (node.kind # "regular" => node.data = <<>>)
      BY <2>5
    <3>2. GoodNodes(m, but)
      BY <2>5, <2>6, <2>7, <3>1, WithNodeGood
    <3>3. /\ Adds(nodes, m) /\ parent.base \in DOMAIN m[parent.ino].children
          /\ m[parent.ino].children[parent.base] = n
          /\ m[n].kind = node.kind /\ m[parent.ino].kind = "directory"
      BY <1>5, <2>5, <2>6, <2>7, <3>1, WithNodeAdds
    <3> HIDE DEF m, n, parent
    <3> QED
      BY <2>5, <3>2, <3>3 DEF GoodNodes
  <2> HIDE DEF m, n
  <2>12. LookupPath(m, front, TRUE) = found
    BY <1>5, <2>10, <2>11, InRootIsPath, LookupExtends, NilIsNoError DEF Extends, found
  <2>13. OrTooMany(LookupPath(m, create.path, TRUE), Found(n, Append(found.path, name)))
    BY <2>10, <2>11, <2>12, AddedIsFound
  <2>14. LookupPath(m, r.path, TRUE).err # "tooManySymlinks"
    BY <1>5, <1>7, <1>11, <2>11, LookupExtends, NilIsNoError DEF Extends, BeyondOld
  <2>15. LookupPath(m, r.path, TRUE) = Found(n, Append(found.path, name))
    BY <2>9, <2>11, <2>13, <2>14 DEF OrTooMany
  <2>16. there = Found(n, Append(found.path, name))
    BY <1>7, <2>8, <2>15
  <2>17. there.ino = n
    BY <2>16 DEF Found
  <2> QED
    BY <2>8, <2>17
<1> QED
  BY <1>10, <1>11

\* The names that MkdirAll has made so far lead to where it has come to.
Arrived(at, path) ==
  at.err = nil =>
    LET found == LookupPath(at.fs, path, TRUE) IN
    \/ found.err = "tooManySymlinks"
    \/ found.err = nil /\ found.ino = at.ino /\ found.path = at.path

LEMMA MkdirStepArrives ==
  ASSUME NEW nodes, NEW but, NEW at \in OnTheWay(nodes, but), at.err = nil, NEW name \in Name,
         NEW path, InRoot(path), Arrived(at, path)
  PROVE  Arrived(MkdirStep(at, name, directory), Append(path, name))
<1> DEFINE m == at.fs
           child == m[at.ino].children[name]
           link == ResolvePath(at.path, m[child].target)
           there == LookupPath(m, link.path, TRUE)
           parent == [ino |-> at.ino, base |-> name]
           node == NewNode("directory", directory)
           made == WithNode(m, parent, node)
           found == LookupPath(m, path, TRUE)
           longer == LookupPath(m, Append(path, name), TRUE)
           step == MkdirStep(at, name, directory)
<1>1. /\ NodesOK(m) /\ GoodNodes(m, but)
      /\ at.ino \in DOMAIN m /\ m[at.ino].kind = "directory" /\ at.path \in Seq(Name)
  BY DEF OnTheWay, Grown, Kept, GoodNodes
<1>2. \/ found.err = "tooManySymlinks"
      \/ found.err = nil /\ found.ino = at.ino /\ found.path = at.path
  BY DEF Arrived
<1>3. CASE name \notin DOMAIN m[at.ino].children
  <2> DEFINE more == LookupPath(made, Append(path, name), TRUE)
  <2>1. /\ step.fs = made /\ step.ino = Len(m) + 1 /\ step.path = Append(at.path, name)
    BY <1>3 DEF MkdirStep
  <2>2. ParentOK(m, parent) /\ ~HasEntry(m, parent)
    BY <1>1, <1>3 DEF ParentOK, HasEntry
  <2>3. node \in Nodes({<<>>}) /\ node.nlink = 1 /\ node.data = <<>> /\ node.kind = "directory"
    BY NewNodes
  <2> HIDE DEF node, step
  <2>4. /\ NodesOK(made) /\ Adds(m, made)
        /\ parent.base \in DOMAIN made[parent.ino].children
        /\ made[parent.ino].children[parent.base] = Len(m) + 1
        /\ made[Len(m) + 1].kind = "directory" /\ made[parent.ino].kind = "directory"
    <3> HIDE DEF parent, m
    <3>1. node.kind # "symlink" /\ (node.kind # "regular" => node.data = <<>>)
      BY <2>3
    <3>2. GoodNodes(made, but)
      BY <1>1, <2>2, <2>3, <3>1, WithNodeGood
    <3>3. /\ Adds(m, made) /\ parent.base \in DOMAIN made[parent.ino].children
          /\ made[parent.ino].children[parent.base] = Len(m) + 1
          /\ made[Len(m) + 1].kind = node.kind /\ made[parent.ino].kind = "directory"
      BY <1>1, <2>2, <2>3, <3>1, WithNodeAdds
    <3> HIDE DEF made
    <3> QED
      BY <2>3, <3>2, <3>3 DEF GoodNodes
  <2> HIDE DEF made
  <2>5. LookupPath(made, path, TRUE) = found
    <3>1. Extends(m, made, found, LookupPath(made, path, TRUE))
      BY <1>1, <2>4, InRootIsPath, LookupExtends
    <3> HIDE DEF found
    <3> QED
      BY <1>2, <3>1, NilIsNoError DEF Extends
  <2>6. CASE found.err = "tooManySymlinks"
    <3>1. more.err = "tooManySymlinks"
      BY <2>4, <2>5, <2>6, LongerPath
    <3> QED
      BY <2>1, <3>1 DEF Arrived, step
  <2>7. CASE found.err = nil /\ found.ino = at.ino /\ found.path = at.path
    <3>1. OrTooMany(more, Found(Len(m) + 1, Append(at.path, name)))
      <4> HIDE DEF found, m
      <4> QED
        BY <2>4, <2>5, <2>7, AddedIsFound
    <3> HIDE DEF more
    <3>2. \/ more.err = "tooManySymlinks"
          \/ more.err = nil /\ more.ino = Len(m) + 1 /\ more.path = Append(at.path, name)
      BY <3>1 DEF OrTooMany, Found
    <3> QED
      BY <2>1, <3>2 DEF Arrived, more, step
  <2> QED
    BY <1>2, <2>6, <2>7
<1>4. CASE name \in DOMAIN m[at.ino].children
  <2> DEFINE last == EntryStep(m, found, name, TRUE)
  <2>1. step = IF m[child].kind = "symlink" THEN MkdirThrough(at, link)
               ELSE IF m[child].kind = "directory"
               THEN [fs |-> m, err |-> nil, ino |-> child, path |-> Append(at.path, name)]
               ELSE [at EXCEPT !.err = "notDirectory"]
    BY <1>4 DEF MkdirStep
  <2>2. /\ found.err = "tooManySymlinks" => longer.err = "tooManySymlinks"
        /\ found.err = nil => OrTooMany(longer, Through(m, last))
    BY <1>1, LongerPath
  <2>3. found.err = nil => IF m[child].kind = "symlink" THEN last = ThroughLink(link, <<>>)
                           ELSE last = Found(child, Append(at.path, name))
    <3> DEFINE entry == m[found.ino].children[name]
    <3> HIDE DEF found
    <3> SUFFICES ASSUME found.err = nil
                 PROVE  IF m[child].kind = "symlink" THEN last = ThroughLink(link, <<>>)
                        ELSE last = Found(child, Append(at.path, name))
      OBVIOUS
    <3>1. found.ino = at.ino /\ found.path = at.path
      BY <1>2, NilIsNoError
    <3>2. m[found.ino].kind = "directory" /\ name \in DOMAIN m[found.ino].children
      BY <1>1, <1>4, <3>1
    <3>3. IF m[entry].kind = "symlink"
          THEN last = ThroughLink(ResolvePath(found.path, m[entry].target), <<>>)
          ELSE last = Found(entry, Append(found.path, name))
      BY <3>2, StepToEntry
    <3>4. entry = child
      BY <3>1
    <3> HIDE DEF entry, last
    <3> QED
      BY <3>1, <3>3, <3>4
  <2> HIDE DEF last, found, step
  <2>4. CASE m[child].kind = "symlink"
    <3> DEFINE dir == InDirectory(m, there)
    <3>1. /\ step.err = nil => link.err = nil
          /\ link.err = nil => /\ step.fs = m /\ step.err = dir.err
                               /\ step.ino = dir.ino /\ step.path = dir.path
      <4> HIDE DEF dir, link
      <4>1. step = IF link.err # nil THEN [at EXCEPT !.err = link.err]
                   ELSE [fs |-> m, err |-> dir.err, ino |-> dir.ino, path |-> dir.path]
        BY <2>1, <2>4 DEF MkdirThrough, dir
      <4> HIDE DEF m
      <4>2. [at EXCEPT !.err = link.err].err = link.err
        BY DEF OnTheWay
      <4> QED
        BY <4>1, <4>2
    <3>2. link.err = nil => InRoot(link.path)
      <4>1. child \in DOMAIN m
        BY <1>1, <1>4, ChildIsNode
      <4> QED
        BY <1>1, <4>1, TargetIsTarget, ResolvePathIsInRoot
    <3> HIDE DEF link
    <3>3. link.err = nil => ThroughLink(link, <<>>) = ToLink(link.path)
      BY <3>2, InRootIsPath DEF ThroughLink
    <3>4. link.err = nil /\ found.err = nil => Through(m, last) = there
      <4>1. link.err = nil /\ found.err = nil => last = ToLink(link.path)
        BY <2>3, <2>4, <3>3
      <4>2. ToLink(link.path).err = "link" /\ ToLink(link.path).path = link.path
        BY DEF ToLink
      <4> QED
        BY <4>1, <4>2 DEF Through
    <3> HIDE DEF there, m, child, link
    <3>5. dir.err = nil => dir = there
      BY NilIsNoError DEF InDirectory, Missing
    <3> HIDE DEF longer
    <3>6. step.err = nil => \/ longer.err = "tooManySymlinks"
                            \/ longer.err = nil /\ longer.ino = step.ino /\ longer.path = step.path
      BY <1>2, <2>2, <3>1, <3>4, <3>5 DEF OrTooMany
    <3> QED
      BY <3>1, <3>6 DEF Arrived, longer, step
  <2>5. CASE m[child].kind # "symlink"
    <3> HIDE DEF child
    <3>1. step.err = nil => /\ step.fs = m /\ step.ino = child
                            /\ step.path = Append(at.path, name)
      <4>1. [at EXCEPT !.err = "notDirectory"].err = "notDirectory"
        BY DEF OnTheWay
      <4> QED
        BY <2>1, <2>5, <4>1, NilIsNoError
    <3>2. found.err = nil => Through(m, last) = Found(child, Append(at.path, name))
      <4>1. found.err = nil => last = Found(child, Append(at.path, name))
        BY <2>3, <2>5
      <4>2. Found(child, Append(at.path, name)).err = nil
        BY DEF Found
      <4> HIDE DEF m
      <4> QED
        BY <4>1, <4>2, NilIsNoError DEF Through
    <3> HIDE DEF longer, m
    <3>3. \/ longer.err = "tooManySymlinks"
          \/ longer.err = nil /\ longer.ino = child /\ longer.path = Append(at.path, name)
      BY <1>2, <2>2, <3>2 DEF OrTooMany, Found
    <3> QED
      BY <3>1, <3>3 DEF Arrived, longer, step
  <2> QED
    BY <2>4, <2>5
<1> QED
  BY <1>3, <1>4

\* What MkdirAll made are directories, where the path leads.
LEMMA DirectoryIsMade ==
  ASSUME NEW nodes, NEW but, GoodNodes(nodes, but), NEW path \in Paths
  PROVE  DirectoryIsThere(MkdirAll(nodes, relative(path), directory), relative(path))
<1> DEFINE r == Resolved(relative(path))
           parts == PartsBelowRoot(r.path)
           N == Len(parts)
           L == Len(Root)
           begin(k) == SubSeq(r.path, 1, L + k)
           result == MkdirAll(nodes, relative(path), directory)
           there == Lookup(result.fs, relative(path), TRUE)
<1> SUFFICES ASSUME result.err = nil
             PROVE  InDirectory(result.fs, there).err \in {nil, "tooManySymlinks"}
  BY DEF DirectoryIsThere
<1>1. result.err = nil
  OBVIOUS
<1>2. result = IF r.err # nil THEN Fail(nodes, r.err) ELSE MkdirBelow(nodes, parts, directory)
  BY DEF MkdirAll
<1>3. there = IF r.err # nil THEN Missing(r.err) ELSE LookupPath(result.fs, r.path, TRUE)
  BY DEF Lookup
<1>4. r.err = nil => InRoot(r.path)
  BY RelativeIsTarget
<1>5. NodesOK(nodes)
  BY DEF GoodNodes
<1> HIDE DEF r, there, result
<1>6. r.err = nil
  BY <1>1, <1>2 DEF Fail
<1>7. InRoot(r.path) /\ there = LookupPath(result.fs, r.path, TRUE)
      /\ result = MkdirBelow(nodes, parts, directory)
  BY <1>2, <1>3, <1>4, <1>6
<1>8. /\ parts \in Seq(Name) /\ N \in Nat
      /\ begin(0) = Root /\ begin(N) = r.path
      /\ \A k \in 1..N : begin(k) = Append(begin(k - 1), parts[k])
  <2>1. /\ L \in Nat /\ Len(r.path) = L + N /\ parts \in Seq(Name)
        /\ SubSeq(r.path, 1, L) = Root /\ SubSeq(r.path, 1, Len(r.path)) = r.path
        /\ \A k \in 1..N : begin(k) = Append(begin(k - 1), parts[k])
    BY <1>7, BeginningsOf
  <2>2. L + 0 = L
    BY <2>1
  <2> QED
    BY <2>1, <2>2
<1> HIDE DEF parts
<1>9. PICK made : Makes(nodes, but, parts, made) /\ result = made[N]
  BY <1>7, <1>8, MkdirWalks
<1>10. /\ made \in [0..N -> OnTheWay(nodes, but)]
       /\ made[0] = [fs |-> nodes, err |-> nil, ino |-> 1, path |-> Root]
       /\ \A n \in 1..N : made[n] = IF made[n - 1].err # nil THEN made[n - 1]
                                    ELSE MkdirStep(made[n - 1], parts[n], directory)
  BY <1>9 DEF Makes
<1>11. \A n \in 1..N : parts[n] \in Name
  BY <1>8
<1> HIDE DEF N, begin
<1> DEFINE T == {n \in 0..N : InRoot(begin(n)) /\ Arrived(made[n], begin(n))}
<1>12. 0 \in T
  <2>1. LookupPath(nodes, Root, TRUE) = Found(1, Root)
    BY <1>5, LookupOfRoot
  <2>2. /\ LookupPath(nodes, Root, TRUE).err = nil /\ LookupPath(nodes, Root, TRUE).ino = 1
        /\ LookupPath(nodes, Root, TRUE).path = Root
    <3> DEFINE a == LookupPath(nodes, Root, TRUE)
    <3>1. a = Found(1, Root)
      BY <2>1
    <3> HIDE DEF a
    <3>2. a.err = nil /\ a.ino = 1 /\ a.path = Root
      BY <3>1 DEF Found
    <3> QED
      BY <3>2 DEF a
  <2>3. Arrived(made[0], Root)
    <3>1. made[0].fs = nodes /\ made[0].ino = 1 /\ made[0].path = Root
      BY <1>10
    <3> QED
      BY <2>2, <3>1 DEF Arrived
  <2>4. InRoot(Root)
    BY FileSystemAssumption DEF InRoot, IsPrefix
  <2> QED
    BY <1>8, <2>3, <2>4
<1>13. ASSUME NEW n \in 1..N, n - 1 \in T PROVE n \in T
  <2>1. n \in 0..N /\ n - 1 \in 0..N
    BY <1>8
  <2>2. /\ InRoot(begin(n - 1)) /\ Arrived(made[n - 1], begin(n - 1))
        /\ begin(n) = Append(begin(n - 1), parts[n]) /\ parts[n] \in Name
    BY <1>8, <1>11, <1>13
  <2>3. InRoot(begin(n))
    BY <2>2, InRootAppended
  <2>4. CASE made[n - 1].err # nil
    <3>1. made[n] = made[n - 1]
      BY <1>10, <2>4
    <3> QED
      BY <2>1, <2>3, <2>4, <3>1 DEF Arrived
  <2>5. CASE made[n - 1].err = nil
    <3>1. made[n - 1] \in OnTheWay(nodes, but)
      BY <1>10, <2>1
    <3>2. Arrived(MkdirStep(made[n - 1], parts[n], directory), begin(n))
      BY <2>2, <2>5, <3>1, MkdirStepArrives
    <3>3. made[n] = MkdirStep(made[n - 1], parts[n], directory)
      BY <1>10, <2>5
    <3> QED
      BY <2>1, <2>3, <3>2, <3>3
  <2> QED
    BY <2>4, <2>5
<1>14. \A n \in 0..N : n \in T
  <2> HIDE DEF T
  <2> QED
    BY <1>8, <1>12, <1>13, Climb
<1>15. Arrived(result, r.path) /\ result \in OnTheWay(nodes, but)
  <2>1. N \in 0..N
    BY <1>8
  <2> QED
    BY <1>8, <1>9, <1>10, <1>14, <2>1
<1>16. result.fs[result.ino].kind = "directory"
  BY <1>1, <1>15 DEF OnTheWay
<1>17. there.err = "tooManySymlinks" \/ (there.err = nil /\ there.ino = result.ino)
  BY <1>1, <1>7, <1>15 DEF Arrived
<1> QED
  BY <1>16, <1>17, NilIsNoError DEF InDirectory

\* What a call says it made is there under the name it was given, whatever links
\* dangle or are on the way and however many there are: a file that OpenFile created,
\* and the directories of MkdirAll, as far as a lookup may follow the links to them.
THEOREM MadeStaysThere == Spec => []MadeIsThere
<1>1. Init => Inv
  BY InvInit
<1>2. Inv /\ [Next]_vars => Inv'
  BY InvNext
<1>3. Inv => MadeIsThere
  BY FileIsMade, DirectoryIsMade DEF Inv, MadeIsThere
<1> QED
  BY <1>1, <1>2, <1>3, PTL DEF Spec

=============================================================================
