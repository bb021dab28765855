---------------------------- MODULE SessionProofs ----------------------------
(***************************************************************************)
(* Proofs about a session with the OpenAI driver: whatever requests         *)
(* continue, replay or give up, the model is shown what has happened, each  *)
(* call followed by its output.                                             *)
(***************************************************************************)
EXTENDS Session, SequenceTheorems, WellFoundedInduction, TLAPS

-----------------------------------------------------------------------------
(* Joined sequences.                                                       *)

LEMMA Least ==
  ASSUME NEW T, T \subseteq Nat, T # {}
  PROVE  \E j \in T : \A o \in T : j <= o
<1> DEFINE R == OpToRel(<, Nat)
<1>1. IsWellFoundedOn(R, Nat)
  BY NatLessThanWellFounded
<1>2. \A a, b \in Nat : a < b => <<a, b>> \in R
  BY DEF OpToRel
<1> HIDE DEF R
<1>3. PICK j \in T : \A o \in T : ~ (<<o, j>> \in R)
  BY <1>1, WFMin
<1>4. ASSUME NEW o \in T PROVE j <= o
  <2>1. o \in Nat /\ j \in Nat /\ ~(o < j)
    BY <1>2, <1>3
  <2> QED
    BY <2>1
<1> QED
  BY <1>4

\* The joins of the first sequences of ss, as FlattenSeq makes them.
Joins(ss, f) ==
  f = [i \in 1..Len(ss) |-> IF i = 1 THEN ss[i] ELSE f[i - 1] \o ss[i]]

LEMMA JoinsExist ==
  ASSUME NEW S, NEW ss \in Seq(Seq(S))
  PROVE  \E f : Joins(ss, f)
<1> DEFINE Part(n, f) == f = [i \in 1..n |-> IF i = 1 THEN ss[i] ELSE f[i - 1] \o ss[i]]
           T == {n \in Nat : ~\E f : Part(n, f)}
<1>1. T = {}
  <2> SUFFICES ASSUME T # {} PROVE FALSE
    OBVIOUS
  <2>1. PICK n \in T : \A o \in T : n <= o
    BY Least
  <2>2. CASE n = 0
    <3> DEFINE g == [i \in 1..0 |-> i]
    <3>1. \A i \in 1..0 : g[i] = IF i = 1 THEN ss[i] ELSE g[i - 1] \o ss[i]
      OBVIOUS
    <3>2. DOMAIN g = 1..0 /\ g = [i \in 1..0 |-> g[i]]
      OBVIOUS
    <3> HIDE DEF g
    <3>3. Part(0, g)
      BY <3>1, <3>2
    <3> QED
      BY <2>2, <3>3
  <2>3. CASE n # 0
    <3>1. n - 1 \in Nat /\ n - 1 \notin T
      <4>1. n \in Nat /\ T \subseteq Nat
        OBVIOUS
      <4> HIDE DEF T
      <4> QED
        BY <2>1, <2>3, <4>1
    <3>2. PICK f : Part(n - 1, f)
      BY <3>1
    <3> DEFINE g == [i \in 1..n |-> IF i < n THEN f[i]
                                    ELSE IF i = 1 THEN ss[i] ELSE f[i - 1] \o ss[i]]
    <3>3. ASSUME NEW i \in 1..n PROVE g[i] = IF i = 1 THEN ss[i] ELSE g[i - 1] \o ss[i]
      <4>1. CASE i < n
        <5>1. i \in 1..n - 1 /\ g[i] = f[i]
          BY <2>1, <4>1
        <5>2. i # 1 => i - 1 \in 1..n /\ i - 1 < n /\ g[i - 1] = f[i - 1]
          BY <2>1, <4>1
        <5>3. f[i] = IF i = 1 THEN ss[i] ELSE f[i - 1] \o ss[i]
          BY <3>2, <5>1
        <5> HIDE DEF g
        <5> QED
          BY <5>1, <5>2, <5>3
      <4>2. CASE i = n
        <5>2. i # 1 => i - 1 \in 1..n /\ i - 1 < n /\ g[i - 1] = f[i - 1]
          BY <2>1, <4>2
        <5>3. g[i] = IF i = 1 THEN ss[i] ELSE f[i - 1] \o ss[i]
          BY <2>1, <4>2
        <5> HIDE DEF g
        <5> QED
          BY <5>2, <5>3
      <4> QED
        BY <2>1, <4>1, <4>2
    <3>4. DOMAIN g = 1..n /\ g = [i \in 1..n |-> g[i]]
      OBVIOUS
    <3> HIDE DEF g
    <3>5. Part(n, g)
      BY <3>3, <3>4
    <3> QED
      BY <2>1, <3>5
  <2> QED
    BY <2>2, <2>3
<1>2. Len(ss) \in Nat
  OBVIOUS
<1>3. \E f : Part(Len(ss), f)
  BY <1>1, <1>2
<1> QED
  BY <1>3 DEF Joins

LEMMA FlattenJoins ==
  ASSUME NEW S, NEW ss \in Seq(Seq(S)), ss # <<>>
  PROVE  \E f : Joins(ss, f) /\ FlattenSeq(ss) = f[Len(ss)]
<1> DEFINE f == CHOOSE f : f = [i \in 1..Len(ss) |-> IF i = 1 THEN ss[i] ELSE f[i - 1] \o ss[i]]
<1>1. Joins(ss, f)
  BY JoinsExist DEF Joins
<1>2. FlattenSeq(ss) = f[Len(ss)]
  BY DEF FlattenSeq
<1> QED
  BY <1>1, <1>2

\* Induction over the places of a sequence, with the set of those where what
\* is to be shown holds.
LEMMA Climb ==
  ASSUME NEW n \in Nat, NEW T, \A i \in 1..n : i = 1 \/ i - 1 \in T => i \in T
  PROVE  1..n \subseteq T
<1> DEFINE U == 1..n \ T
<1> SUFFICES ASSUME U # {} PROVE FALSE
  OBVIOUS
<1>1. U \subseteq Nat
  OBVIOUS
<1>2. PICK j \in U : \A o \in U : j <= o
  BY <1>1, Least
<1>3. j \in 1..n /\ j \notin T /\ j # 1 /\ j - 1 \notin T
  OBVIOUS
<1>4. j - 1 \in 1..n
  BY <1>3
<1>5. j - 1 \in U /\ ~(j <= j - 1)
  BY <1>3, <1>4
<1> HIDE DEF U
<1> QED
  BY <1>2, <1>5

LEMMA JoinedSeq ==
  ASSUME NEW S, NEW ss \in Seq(Seq(S)), NEW f, Joins(ss, f), NEW i \in 1..Len(ss)
  PROVE  f[i] \in Seq(S)
<1> DEFINE T == {j \in 1..Len(ss) : f[j] \in Seq(S)}
<1>1. \A j \in 1..Len(ss) : f[j] = IF j = 1 THEN ss[j] ELSE f[j - 1] \o ss[j]
  BY DEF Joins
<1>2. \A j \in 1..Len(ss) : j = 1 \/ j - 1 \in T => j \in T
  <2> TAKE j \in 1..Len(ss)
  <2>1. ss[j] \in Seq(S)
    OBVIOUS
  <2>2. CASE j = 1
    BY <1>1, <2>1, <2>2
  <2>3. ASSUME j # 1, j - 1 \in T PROVE j \in T
    <3>1. f[j] = f[j - 1] \o ss[j] /\ f[j - 1] \in Seq(S)
      BY <1>1, <2>3
    <3>2. f[j] \in Seq(S)
      BY <2>1, <3>1, ConcatProperties
    <3> QED
      BY <3>2
  <2> QED
    BY <2>2, <2>3
<1>3. Len(ss) \in Nat
  OBVIOUS
<1> HIDE DEF T
<1>4. 1..Len(ss) \subseteq T
  BY <1>2, <1>3, Climb
<1> QED
  BY <1>4 DEF T

LEMMA FlattenEmpty ==
  FlattenSeq(<<>>) = <<>>
  BY DEF FlattenSeq

LEMMA FlattenTyped ==
  ASSUME NEW S, NEW ss \in Seq(Seq(S))
  PROVE  FlattenSeq(ss) \in Seq(S)
<1>1. CASE ss = <<>>
  BY <1>1, FlattenEmpty, EmptySeq
<1>2. CASE ss # <<>>
  <2>1. PICK f : Joins(ss, f) /\ FlattenSeq(ss) = f[Len(ss)]
    BY <1>2, FlattenJoins
  <2>2. Len(ss) \in 1..Len(ss)
    BY <1>2
  <2> QED
    BY <2>1, <2>2, JoinedSeq
<1> QED
  BY <1>1, <1>2

LEMMA FlattenAppend ==
  ASSUME NEW S, NEW ss \in Seq(Seq(S)), NEW e \in Seq(S)
  PROVE  FlattenSeq(Append(ss, e)) = FlattenSeq(ss) \o e
<1> DEFINE n == Len(ss)
           tt == Append(ss, e)
<1>1. /\ n \in Nat /\ tt \in Seq(Seq(S)) /\ Len(tt) = n + 1 /\ tt # <<>>
      /\ tt[n + 1] = e /\ \A i \in 1..n : tt[i] = ss[i]
  BY AppendProperties
<1>2. PICK g : Joins(tt, g) /\ FlattenSeq(tt) = g[n + 1]
  <2> HIDE DEF tt
  <2>1. PICK g : Joins(tt, g) /\ FlattenSeq(tt) = g[Len(tt)]
    BY <1>1, FlattenJoins
  <2> QED
    BY <1>1, <2>1
<1> HIDE DEF tt
<1>3. \A i \in 1..n + 1 : g[i] = IF i = 1 THEN tt[i] ELSE g[i - 1] \o tt[i]
  BY <1>1, <1>2 DEF Joins
<1>4. CASE ss = <<>>
  <2>1. n = 0 /\ g[1] = e
    BY <1>1, <1>3, <1>4
  <2>2. FlattenSeq(tt) = e /\ <<>> \o e = e
    BY <1>2, <2>1
  <2> QED
    BY <1>4, <2>2, FlattenEmpty DEF tt
<1>5. CASE ss # <<>>
  <2>1. PICK f : Joins(ss, f) /\ FlattenSeq(ss) = f[n]
    BY <1>5, FlattenJoins
  <2>2. \A i \in 1..n : f[i] = IF i = 1 THEN ss[i] ELSE f[i - 1] \o ss[i]
    BY <2>1 DEF Joins
  <2> DEFINE T == {i \in 1..n : f[i] = g[i]}
  <2>3. \A i \in 1..n : i = 1 \/ i - 1 \in T => i \in T
    <3> TAKE i \in 1..n
    <3>1. i \in 1..n + 1 /\ tt[i] = ss[i]
      BY <1>1
    <3>2. CASE i = 1
      BY <1>3, <2>2, <3>1, <3>2
    <3>3. ASSUME i # 1, i - 1 \in T PROVE i \in T
      BY <1>3, <2>2, <3>1, <3>3
    <3> QED
      BY <3>2, <3>3
  <2> HIDE DEF T
  <2>4. 1..n \subseteq T
    BY <1>1, <2>3, Climb
  <2>5. n # 0 /\ n \in 1..n /\ n + 1 \in 1..n + 1 /\ n + 1 # 1 /\ n + 1 - 1 = n
    BY <1>1, <1>5
  <2>6. g[n] = f[n]
    BY <2>4, <2>5 DEF T
  <2>7. g[n + 1] = g[n] \o tt[n + 1]
    <3>1. PICK k \in 1..n + 1 : k = n + 1 /\ k # 1 /\ k - 1 = n
      BY <2>5
    <3>2. g[k] = g[k - 1] \o tt[k]
      BY <1>3, <3>1
    <3> QED
      BY <3>1, <3>2
  <2>8. FlattenSeq(tt) = FlattenSeq(ss) \o e
    <3> HIDE DEF n
    <3> QED
      BY <1>1, <1>2, <2>1, <2>6, <2>7
  <2> QED
    BY <2>8 DEF tt
<1> QED
  BY <1>4, <1>5

LEMMA Assoc ==
  ASSUME NEW S
  PROVE  \A x, y, z \in Seq(S) : (x \o y) \o z = x \o (y \o z)
  BY ConcatAssociative

LEMMA OneOf ==
  ASSUME NEW S, NEW a \in S
  PROVE  <<a>> \in Seq(S) /\ Len(<<a>>) = 1 /\ <<a>>[1] = a /\ <<a>> # <<>>
  OBVIOUS

LEMMA TwoOf ==
  ASSUME NEW S, NEW a \in S, NEW b \in S
  PROVE  /\ <<a, b>> \in Seq(S) /\ Len(<<a, b>>) = 2
         /\ <<a, b>>[1] = a /\ <<a, b>>[2] = b
  OBVIOUS

LEMMA PairOf ==
  ASSUME NEW S, NEW a \in S, NEW b \in S
  PROVE  <<a>> \o <<b>> = <<a, b>>
<1> DEFINE x == <<a>>
           y == <<b>>
           w == <<a, b>>
<1>1. /\ x \in Seq(S) /\ Len(x) = 1 /\ x[1] = a
      /\ y \in Seq(S) /\ Len(y) = 1 /\ y[1] = b
      /\ w \in Seq(S) /\ Len(w) = 2 /\ w[1] = a /\ w[2] = b
  BY OneOf, TwoOf
<1> HIDE DEF x, y, w
<1>2. /\ x \o y \in Seq(S) /\ Len(x \o y) = 2
      /\ \A i \in 1..2 : (x \o y)[i] = IF i <= 1 THEN x[i] ELSE y[i - 1]
  BY <1>1, ConcatProperties
<1>3. \A i \in 1..2 : (x \o y)[i] = w[i]
  BY <1>1, <1>2
<1>4. x \o y = w
  BY <1>1, <1>2, <1>3, SeqEqual
<1> QED
  BY <1>4 DEF x, y, w

LEMMA AppendOne ==
  ASSUME NEW S, NEW a \in S, NEW b \in S
  PROVE  Append(<<a>>, b) = <<a, b>>
<1>1. <<a>> \in Seq(S)
  BY OneOf
<1>2. Append(<<a>>, b) = <<a>> \o <<b>>
  BY <1>1, AppendIsConcat
<1> QED
  BY <1>2, PairOf

-----------------------------------------------------------------------------
(* What items tell.                                                        *)

LEMMA SeenTyped ==
  /\ \A k \in Kinds, n \in Nat : <<k, n>> \in Entry
  /\ \A x \in Shape : Seen(x) \in Entry
  /\ {"user", "call", "output", "reply"} = Kinds
<1>1. \A x \in Shape : x.kind \in Kinds /\ x.of \in Nat
  BY DEF Shape
<1> QED
  BY <1>1 DEF Seen, Entry, Kinds

Look(v) == [i \in DOMAIN v |-> Seen(v[i])]

LEMMA LookTyped ==
  ASSUME NEW v \in Seq(Shape)
  PROVE  /\ Look(v) \in Seq(Entry) /\ Len(Look(v)) = Len(v)
         /\ \A i \in 1..Len(v) : Look(v)[i] = Seen(v[i])
<1>1. Len(v) \in Nat /\ DOMAIN v = 1..Len(v)
  OBVIOUS
<1>2. \A i \in 1..Len(v) : Seen(v[i]) \in Entry
  BY <1>1, SeenTyped
<1> DEFINE n == Len(v)
<1>3. Look(v) = [i \in 1..n |-> Seen(v[i])] /\ n \in Nat /\ \A i \in 1..n : Seen(v[i]) \in Entry
  BY <1>1, <1>2 DEF Look
<1> HIDE DEF n
<1>4. Look(v) \in [1..n -> Entry] /\ \A i \in 1..n : Look(v)[i] = Seen(v[i])
  BY <1>3
<1>5. Look(v) \in Seq(Entry) /\ Len(Look(v)) = n
  BY <1>3, <1>4
<1> QED
  BY <1>4, <1>5 DEF n

LEMMA LookConcat ==
  ASSUME NEW u \in Seq(Shape), NEW v \in Seq(Shape)
  PROVE  Look(u \o v) = Look(u) \o Look(v)
<1> DEFINE w == u \o v
           m == Len(u)
           n == Len(v)
           lu == Look(u)
           lv == Look(v)
           lw == Look(w)
<1>1. /\ m \in Nat /\ n \in Nat
      /\ w \in Seq(Shape) /\ Len(w) = m + n
      /\ \A i \in 1..m + n : w[i] = IF i <= m THEN u[i] ELSE v[i - m]
  BY ConcatProperties
<1>2. /\ lu \in Seq(Entry) /\ Len(lu) = m /\ \A i \in 1..m : lu[i] = Seen(u[i])
      /\ lv \in Seq(Entry) /\ Len(lv) = n /\ \A i \in 1..n : lv[i] = Seen(v[i])
  BY LookTyped
<1> HIDE DEF w
<1>3. lw \in Seq(Entry) /\ Len(lw) = m + n /\ \A i \in 1..m + n : lw[i] = Seen(w[i])
  BY <1>1, LookTyped
<1> HIDE DEF lu, lv, lw, m, n
<1>4. /\ lu \o lv \in Seq(Entry) /\ Len(lu \o lv) = m + n
      /\ \A i \in 1..m + n : (lu \o lv)[i] = IF i <= m THEN lu[i] ELSE lv[i - m]
  BY <1>2, ConcatProperties
<1>5. \A i \in 1..m + n : lw[i] = (lu \o lv)[i]
  <2> TAKE i \in 1..m + n
  <2>1. CASE i <= m
    <3>1. i \in 1..m
      BY <1>1, <2>1
    <3> QED
      BY <1>1, <1>2, <1>3, <1>4, <2>1, <3>1
  <2>2. CASE ~(i <= m)
    <3>1. i - m \in 1..n
      BY <1>1, <2>2
    <3> QED
      BY <1>1, <1>2, <1>3, <1>4, <2>2, <3>1
  <2> QED
    BY <2>1, <2>2
<1>6. lw = lu \o lv
  BY <1>1, <1>3, <1>4, <1>5, SeqEqual
<1> QED
  BY <1>6 DEF lu, lv, lw, w

LEMMA LookFlatten ==
  ASSUME NEW ss \in Seq(Seq(Shape)), NEW tt \in Seq(Seq(Entry)), Len(tt) = Len(ss),
         \A i \in 1..Len(ss) : tt[i] = Look(ss[i])
  PROVE  Look(FlattenSeq(ss)) = FlattenSeq(tt)
<1> DEFINE n == Len(ss)
<1>1. CASE ss = <<>>
  <2>1. tt = <<>> /\ Look(<<>>) = <<>>
    BY <1>1 DEF Look
  <2> QED
    BY <1>1, <2>1, FlattenEmpty
<1>2. CASE ss # <<>>
  <2>1. tt # <<>> /\ n \in Nat /\ n \in 1..n
    BY <1>2
  <2>2. PICK f : Joins(ss, f) /\ FlattenSeq(ss) = f[n]
    BY <1>2, FlattenJoins
  <2>3. PICK g : Joins(tt, g) /\ FlattenSeq(tt) = g[Len(tt)]
    BY <2>1, FlattenJoins
  <2>4. \A i \in 1..n : f[i] \in Seq(Shape) /\ ss[i] \in Seq(Shape)
    BY <2>2, JoinedSeq
  <2>5. \A i \in 1..n : /\ i = 1 => f[i] = ss[i] /\ g[i] = tt[i]
                        /\ i # 1 => f[i] = f[i - 1] \o ss[i] /\ g[i] = g[i - 1] \o tt[i]
    BY <2>2, <2>3 DEF Joins
  <2> DEFINE T == {i \in 1..n : Look(f[i]) = g[i]}
  <2>6. \A i \in 1..n : i = 1 \/ i - 1 \in T => i \in T
    <3> TAKE i \in 1..n
    <3>1. CASE i = 1
      BY <2>5, <3>1
    <3>2. ASSUME i # 1, i - 1 \in T PROVE i \in T
      <4>1. Look(f[i - 1] \o ss[i]) = Look(f[i - 1]) \o Look(ss[i])
        BY <2>4, <3>2, LookConcat
      <4>2. Look(f[i]) = g[i]
        BY <2>5, <3>2, <4>1
      <4> QED
        BY <4>2
    <3> QED
      BY <3>1, <3>2
  <2> HIDE DEF T
  <2>7. 1..n \subseteq T
    BY <2>1, <2>6, Climb
  <2> QED
    BY <2>1, <2>2, <2>3, <2>7 DEF T
<1> QED
  BY <1>1, <1>2

-----------------------------------------------------------------------------
(* What the session keeps.                                                 *)

LEMMA BoundsNat ==
  /\ MaxTurns \in Nat /\ MaxSteps \in Nat
  /\ MaxIndex \in Nat /\ MaxAnswers \in Nat
<1>1. MaxTurns \in Nat /\ MaxSteps \in Nat
  BY SessionAssumption
<1>2. \A m, n \in Nat : m * n \in Nat
  OBVIOUS
<1> QED
  BY <1>1, <1>2 DEF MaxIndex, MaxAnswers

LEMMA SaidTyped ==
  /\ \A s \in Steps : /\ s.index \in 1..MaxIndex /\ s.call \in 1..MaxAnswers
                      /\ s.index \in Nat /\ s.call \in Nat
                      /\ <<"call", s.call>> \in Entry /\ <<"output", s.index>> \in Entry
                      /\ StepSaid(s) \in Seq(Entry)
  /\ \A t \in Nat : <<"user", t>> \in Entry
  /\ \A kept \in KeptTurn : kept.steps \in Seq(Steps) /\ kept.reply \in Nat
  /\ \A r \in Nat : ReplySaid(r) \in Seq(Entry)
<1>1. "call" \in Kinds /\ "output" \in Kinds /\ "user" \in Kinds /\ "reply" \in Kinds
  BY SeenTyped
<1>2. ASSUME NEW s \in Steps
      PROVE  /\ s.index \in 1..MaxIndex /\ s.call \in 1..MaxAnswers
             /\ s.index \in Nat /\ s.call \in Nat
             /\ <<"call", s.call>> \in Entry /\ <<"output", s.index>> \in Entry
             /\ StepSaid(s) \in Seq(Entry)
  <2>1. s.index \in 1..MaxIndex /\ s.call \in 1..MaxAnswers
    BY DEF Steps
  <2>2. s.index \in Nat /\ s.call \in Nat
    BY <2>1, BoundsNat
  <2>3. <<"call", s.call>> \in Entry /\ <<"output", s.index>> \in Entry
    BY <1>1, <2>2, SeenTyped
  <2>4. StepSaid(s) \in Seq(Entry)
    BY <2>3, TwoOf DEF StepSaid
  <2> QED
    BY <2>1, <2>2, <2>3, <2>4
<1>3. \A t \in Nat : <<"user", t>> \in Entry
  BY <1>1, SeenTyped
<1>4. ASSUME NEW kept \in KeptTurn PROVE kept.steps \in Seq(Steps) /\ kept.reply \in Nat
  <2>1. kept.steps \in Seq(Steps) /\ kept.reply \in 0..MaxAnswers
    BY DEF KeptTurn
  <2> QED
    BY <2>1, BoundsNat
<1>5. ASSUME NEW r \in Nat PROVE ReplySaid(r) \in Seq(Entry)
  <2>1. <<"reply", r>> \in Entry
    BY <1>1, SeenTyped
  <2>2. <<<<"reply", r>>>> \in Seq(Entry)
    BY <2>1, OneOf
  <2>3. CASE r = 0
    BY <2>3, EmptySeq DEF ReplySaid
  <2>4. CASE r # 0
    BY <2>2, <2>4 DEF ReplySaid
  <2> QED
    BY <2>3, <2>4
<1> QED
  BY <1>2, <1>3, <1>4, <1>5

LEMMA StepsSaidTyped ==
  ASSUME NEW steps \in Seq(Steps)
  PROVE  StepsSaid(steps) \in Seq(Entry)
<1> DEFINE ss == [i \in DOMAIN steps |-> StepSaid(steps[i])]
<1>1. \A i \in DOMAIN steps : StepSaid(steps[i]) \in Seq(Entry)
  <2>1. \A i \in DOMAIN steps : steps[i] \in Steps
    OBVIOUS
  <2> QED
    BY <2>1, SaidTyped
<1>2. ss \in Seq(Seq(Entry))
  <2>1. Len(steps) \in Nat /\ DOMAIN steps = 1..Len(steps)
    OBVIOUS
  <2> QED
    BY <1>1, <2>1
<1> HIDE DEF ss
<1> QED
  BY <1>2, FlattenTyped DEF StepsSaid, ss

LEMMA StepsSaidAppend ==
  ASSUME NEW steps \in Seq(Steps), NEW s \in Steps
  PROVE  StepsSaid(Append(steps, s)) = StepsSaid(steps) \o StepSaid(s)
<1> DEFINE more == Append(steps, s)
           n == Len(steps)
           ss == [i \in DOMAIN steps |-> StepSaid(steps[i])]
           tt == [i \in DOMAIN more |-> StepSaid(more[i])]
<1>1. \A z \in Steps : StepSaid(z) \in Seq(Entry)
  BY SaidTyped
<1>2. /\ n \in Nat /\ DOMAIN steps = 1..n /\ \A i \in 1..n : steps[i] \in Steps
      /\ more \in Seq(Steps) /\ Len(more) = n + 1 /\ DOMAIN more = 1..n + 1
      /\ \A i \in 1..n : more[i] = steps[i]
      /\ more[n + 1] = s
  BY AppendProperties
<1> HIDE DEF more, n
<1>3. ss \in Seq(Seq(Entry)) /\ Len(ss) = n /\ \A i \in 1..n : ss[i] = StepSaid(steps[i])
  BY <1>1, <1>2
<1>4. tt \in Seq(Seq(Entry)) /\ Len(tt) = n + 1 /\ \A i \in 1..n + 1 : tt[i] = StepSaid(more[i])
  <2>1. \A i \in 1..n + 1 : more[i] \in Steps
    BY <1>2
  <2> QED
    BY <1>1, <1>2, <2>1
<1> HIDE DEF ss, tt
<1> DEFINE uu == Append(ss, StepSaid(s))
<1>5. /\ uu \in Seq(Seq(Entry)) /\ Len(uu) = n + 1
      /\ \A i \in 1..n : uu[i] = ss[i]
      /\ uu[n + 1] = StepSaid(s)
  BY <1>1, <1>3, AppendProperties
<1> HIDE DEF uu
<1>6. \A i \in 1..n + 1 : tt[i] = uu[i]
  <2>1. \A i \in 1..n + 1 : i \in 1..n \/ i = n + 1
    BY <1>2
  <2> QED
    BY <1>2, <1>3, <1>4, <1>5, <2>1
<1>7. tt = uu
  BY <1>2, <1>4, <1>5, <1>6, SeqEqual
<1>8. FlattenSeq(uu) = FlattenSeq(ss) \o StepSaid(s)
  BY <1>1, <1>3, FlattenAppend DEF uu
<1>9. StepsSaid(steps) = FlattenSeq(ss) /\ StepsSaid(more) = FlattenSeq(tt)
  BY DEF StepsSaid, ss, tt
<1>10. StepsSaid(more) = StepsSaid(steps) \o StepSaid(s)
  BY <1>7, <1>8, <1>9
<1> QED
  BY <1>10 DEF more

LEMMA TurnSaidTyped ==
  ASSUME NEW t \in Nat, NEW kept \in KeptTurn
  PROVE  TurnSaid(t, kept) \in Seq(Entry)
<1>1. StepsSaid(kept.steps) \in Seq(Entry)
  BY StepsSaidTyped, SaidTyped
<1>2. <<<<"user", t>>>> \in Seq(Entry)
  BY SaidTyped, OneOf
<1>3. ReplySaid(kept.reply) \in Seq(Entry)
  BY SaidTyped
<1> DEFINE a == <<<<"user", t>>>>
           b == StepsSaid(kept.steps)
           c == ReplySaid(kept.reply)
<1>4. a \in Seq(Entry) /\ b \in Seq(Entry) /\ c \in Seq(Entry)
  BY <1>1, <1>2, <1>3
<1> HIDE DEF a, b, c
<1>5. b \o c \in Seq(Entry) /\ a \o b \o c \in Seq(Entry)
  BY <1>4, ConcatProperties
<1>6. TurnSaid(t, kept) = a \o b \o c
  BY DEF TurnSaid, a, b, c
<1> QED
  BY <1>5, <1>6

LEMMA PastSaidTyped ==
  ASSUME NEW past \in Seq(KeptTurn)
  PROVE  PastSaid(past) \in Seq(Entry)
<1> DEFINE ss == [t \in DOMAIN past |-> TurnSaid(t, past[t])]
<1>1. ss \in Seq(Seq(Entry))
  <2>1. Len(past) \in Nat /\ DOMAIN past = 1..Len(past)
    OBVIOUS
  <2>2. \A t \in 1..Len(past) : TurnSaid(t, past[t]) \in Seq(Entry)
    BY TurnSaidTyped
  <2> QED
    BY <2>1, <2>2
<1> HIDE DEF ss
<1> QED
  BY <1>1, FlattenTyped DEF PastSaid, ss

LEMMA PastSaidAppend ==
  ASSUME NEW past \in Seq(KeptTurn), NEW kept \in KeptTurn
  PROVE  PastSaid(Append(past, kept)) = PastSaid(past) \o TurnSaid(Len(past) + 1, kept)
<1> DEFINE more == Append(past, kept)
           n == Len(past)
           ss == [t \in DOMAIN past |-> TurnSaid(t, past[t])]
           tt == [t \in DOMAIN more |-> TurnSaid(t, more[t])]
<1>2. /\ n \in Nat /\ DOMAIN past = 1..n /\ \A i \in 1..n : past[i] \in KeptTurn
      /\ more \in Seq(KeptTurn) /\ Len(more) = n + 1 /\ DOMAIN more = 1..n + 1
      /\ \A i \in 1..n : more[i] = past[i]
      /\ more[n + 1] = kept
  BY AppendProperties
<1> HIDE DEF more
<1>1. TurnSaid(n + 1, kept) \in Seq(Entry)
  BY <1>2, TurnSaidTyped
<1>3. ss \in Seq(Seq(Entry)) /\ Len(ss) = n /\ \A i \in 1..n : ss[i] = TurnSaid(i, past[i])
  <2>1. \A i \in 1..n : TurnSaid(i, past[i]) \in Seq(Entry)
    BY <1>2, TurnSaidTyped
  <2> HIDE DEF n
  <2>2. ss = [t \in 1..n |-> TurnSaid(t, past[t])]
    BY <1>2
  <2> HIDE DEF ss
  <2>3. ss \in [1..n -> Seq(Entry)] /\ \A i \in 1..n : ss[i] = TurnSaid(i, past[i])
    BY <2>1, <2>2
  <2> QED
    BY <1>2, <2>3
<1>4. tt \in Seq(Seq(Entry)) /\ Len(tt) = n + 1 /\ \A i \in 1..n + 1 : tt[i] = TurnSaid(i, more[i])
  <2>1. \A i \in 1..n + 1 : TurnSaid(i, more[i]) \in Seq(Entry)
    BY <1>2, TurnSaidTyped
  <2> HIDE DEF n
  <2> QED
    BY <1>2, <2>1
<1> HIDE DEF ss, tt, n
<1> DEFINE uu == Append(ss, TurnSaid(n + 1, kept))
<1>5. /\ uu \in Seq(Seq(Entry)) /\ Len(uu) = n + 1
      /\ \A i \in 1..n : uu[i] = ss[i]
      /\ uu[n + 1] = TurnSaid(n + 1, kept)
  BY <1>1, <1>3, AppendProperties
<1> HIDE DEF uu
<1>6. \A i \in 1..n + 1 : tt[i] = uu[i]
  <2>1. \A i \in 1..n + 1 : i \in 1..n \/ i = n + 1
    BY <1>2
  <2> QED
    BY <1>2, <1>3, <1>4, <1>5, <2>1
<1>7. tt = uu
  BY <1>2, <1>4, <1>5, <1>6, SeqEqual
<1>8. FlattenSeq(uu) = FlattenSeq(ss) \o TurnSaid(n + 1, kept)
  BY <1>1, <1>3, FlattenAppend DEF uu
<1>9. PastSaid(past) = FlattenSeq(ss) /\ PastSaid(more) = FlattenSeq(tt)
  BY DEF PastSaid, ss, tt
<1>10. PastSaid(more) = PastSaid(past) \o TurnSaid(n + 1, kept)
  BY <1>7, <1>8, <1>9
<1> QED
  BY <1>10 DEF more, n

-----------------------------------------------------------------------------
(* Turns, steps and the facts the invariant gives about them.              *)

Phases == {"idle", "ready", "asked", "running"}
ReplayData == [1..MaxIndex -> 0..MaxAnswers]

LEMMA TurnTyped ==
  ASSUME NEW t \in TurnShape
  PROVE  /\ t.phase \in Phases /\ t.steps \in Seq(Steps) /\ t.call \in 0..MaxAnswers
         /\ t.replay \in ReplayData /\ t.state \in 0..MaxAnswers
         /\ t.call \in Nat /\ t.state \in Nat
<1>1. /\ t.phase \in Phases /\ t.steps \in Seq(Steps) /\ t.call \in 0..MaxAnswers
      /\ t.replay \in ReplayData /\ t.state \in 0..MaxAnswers
  BY DEF TurnShape, Phases, ReplayData
<1> QED
  BY <1>1, BoundsNat

LEMMA NoTurnTyped ==
  /\ NoTurn \in TurnShape
  /\ NoTurn.phase = "idle" /\ NoTurn.steps = <<>> /\ NoTurn.call = 0 /\ NoTurn.state = 0
<1>1. <<>> \in Seq(Steps)
  BY EmptySeq
<1>2. [s \in 1..MaxIndex |-> 0] \in [1..MaxIndex -> 0..MaxAnswers] /\ 0 \in 0..MaxAnswers
  BY BoundsNat
<1> QED
  BY <1>1, <1>2 DEF NoTurn, TurnShape

LEMMA KeptTyped ==
  ASSUME NEW x \in Seq(Steps), NEW r \in 0..MaxAnswers
  PROVE  /\ [steps |-> x, reply |-> r] \in KeptTurn
         /\ [steps |-> x, reply |-> r].steps = x /\ [steps |-> x, reply |-> r].reply = r
  BY DEF KeptTurn

LEMMA ToSetAppend ==
  ASSUME NEW S, NEW q \in Seq(S), NEW e \in S
  PROVE  /\ ToSet(Append(q, e)) = ToSet(q) \cup {e}
         /\ ToSet(q) \subseteq S
<1> DEFINE w == Append(q, e)
           n == Len(q)
<1>1. /\ n \in Nat /\ DOMAIN q = 1..n /\ \A i \in 1..n : q[i] \in S
      /\ w \in Seq(S) /\ Len(w) = n + 1 /\ DOMAIN w = 1..n + 1
      /\ \A i \in 1..n : w[i] = q[i]
      /\ w[n + 1] = e
  BY AppendProperties
<1> HIDE DEF w, n
<1>2. ToSet(q) \subseteq S
  BY <1>1 DEF ToSet
<1>3. ASSUME NEW x PROVE x \in ToSet(w) <=> x \in ToSet(q) \cup {e}
  <2>1. ASSUME x \in ToSet(w) PROVE x \in ToSet(q) \cup {e}
    <3>1. PICK i \in 1..n + 1 : x = w[i]
      BY <1>1, <2>1 DEF ToSet
    <3>2. i \in 1..n \/ i = n + 1
      BY <1>1
    <3> QED
      BY <1>1, <3>1, <3>2 DEF ToSet
  <2>2. ASSUME x \in ToSet(q) PROVE x \in ToSet(w)
    <3>1. PICK i \in 1..n : x = q[i]
      BY <1>1, <2>2 DEF ToSet
    <3>2. i \in 1..n + 1 /\ w[i] = x
      BY <1>1, <3>1
    <3> QED
      BY <1>1, <3>2 DEF ToSet
  <2>3. e \in ToSet(w)
    <3>1. n + 1 \in 1..n + 1
      BY <1>1
    <3> QED
      BY <1>1, <3>1 DEF ToSet
  <2> QED
    BY <2>1, <2>2, <2>3
<1>4. ToSet(w) = ToSet(q) \cup {e}
  BY <1>3
<1> QED
  BY <1>2, <1>4 DEF w

LEMMA NoneIn == \A x : x \notin ToSet(<<>>)
  BY DEF ToSet

\* Types of the state, and what is in the place of a step.
LEMMA Facts ==
  ASSUME SessionInv
  PROVE  /\ turns \in Seq(KeptTurn) /\ Len(turns) \in Nat /\ DOMAIN turns = 1..Len(turns)
         /\ answers \in Seq(AnswerShape) /\ Len(answers) \in Nat /\ DOMAIN answers = 1..Len(answers)
         /\ said \in Seq(Entry) /\ Len(said) \in Nat /\ DOMAIN said = 1..Len(said)
         /\ turn \in TurnShape /\ turn.steps \in Seq(Steps) /\ turn.call \in Nat /\ turn.state \in Nat
         /\ Len(turn.steps) \in Nat /\ turn.replay \in ReplayData /\ replay \in ReplayData
         /\ state \in 0..MaxAnswers
         /\ next \in Nat /\ next # 0 /\ NextIndex \in Nat
         /\ Idle => turn.steps = <<>> /\ turn.call = 0 /\ turn = NoTurn
         /\ ~Running => turn.call = 0
         /\ Running => turn.call # 0 /\ turn.call = Len(answers) /\ answers[Len(answers)].kind = "call"
         /\ Done \subseteq Steps
<1>1. /\ turns \in Seq(KeptTurn) /\ Len(turns) \in Nat /\ DOMAIN turns = 1..Len(turns)
      /\ answers \in Seq(AnswerShape) /\ Len(answers) \in Nat /\ DOMAIN answers = 1..Len(answers)
      /\ said \in Seq(Entry) /\ Len(said) \in Nat /\ DOMAIN said = 1..Len(said)
      /\ turn \in TurnShape /\ replay \in ReplayData /\ state \in 0..MaxAnswers
      /\ next \in Nat /\ next # 0
      /\ Idle => turn = NoTurn
  <2>1. Shaped
    BY DEF SessionInv
  <2> QED
    BY <2>1 DEF Shaped, ReplayData
<1>2. /\ turn.steps \in Seq(Steps) /\ turn.call \in Nat /\ turn.state \in Nat
      /\ Len(turn.steps) \in Nat /\ turn.replay \in ReplayData
  BY <1>1, TurnTyped
<1>3. NextIndex \in Nat
  BY <1>1, <1>2 DEF NextIndex
<1>4. Idle => turn.steps = <<>> /\ turn.call = 0
  BY <1>1, NoTurnTyped
<1>5. StateIsLatest
  BY DEF SessionInv
<1>6. /\ ~Running => turn.call = 0
      /\ Running => turn.call # 0 /\ turn.call = Len(answers) /\ answers[Len(answers)].kind = "call"
  <2>1. (turn.call # 0 <=> Running) /\ (turn.call # 0 => turn.call = Len(answers) /\ answers[turn.call].kind = "call")
    BY <1>5 DEF StateIsLatest
  <2> QED
    BY <2>1 DEF Running
<1>7. Done \subseteq Steps
  <2>1. ToSet(turn.steps) \subseteq Steps
    BY <1>2 DEF ToSet
  <2>2. \A t \in DOMAIN turns : turns[t] \in KeptTurn
    BY <1>1
  <2>3. \A t \in DOMAIN turns : ToSet(turns[t].steps) \subseteq Steps
    <3> TAKE t \in DOMAIN turns
    <3>1. turns[t].steps \in Seq(Steps)
      BY <2>2, SaidTyped
    <3> QED
      BY <3>1 DEF ToSet
  <2> QED
    BY <2>1, <2>3 DEF Done
<1> QED
  BY <1>1, <1>2, <1>3, <1>4, <1>6, <1>7

LEMMA Room ==
  ASSUME NEW n \in Nat, NEW M \in Nat, NEW S \in Nat
  PROVE  /\ n * S \in Nat /\ M * S \in Nat
         /\ (n + 1) * S = n * S + S
         /\ n + 1 <= M => n * S + S <= M * S
<1>1. \A i, j \in Nat : i * j \in Nat /\ (i + 1) * j = i * j + j
  OBVIOUS
<1>2. ASSUME n + 1 <= M PROVE n * S + S <= M * S
  <2>1. PICK k \in Nat : M = n + 1 + k
    <3>1. M - (n + 1) \in Nat /\ M = n + 1 + (M - (n + 1))
      BY <1>2
    <3> QED
      BY <3>1
  <2>2. M * S = (n + 1) * S + k * S
    BY <2>1
  <2>3. k * S \in Nat /\ (n + 1) * S = n * S + S /\ n * S \in Nat
    BY <1>1
  <2> QED
    BY <2>2, <2>3
<1> QED
  BY <1>1, <1>2

\* What the bounds leave room for.
LEMMA CountedFacts ==
  ASSUME SessionInv
  PROVE  /\ Len(turns) <= MaxTurns /\ (~Idle => Len(turns) + 1 <= MaxTurns)
         /\ Len(turn.steps) <= MaxSteps
         /\ turn.phase \in {"asked", "running"} => Len(turn.steps) + 1 <= MaxSteps
         /\ next <= Len(turns) * MaxSteps + 1
         /\ Len(answers) <= Len(turns) * (MaxSteps + 1) + Len(turn.steps) + 1
         /\ ~Running => Len(answers) <= Len(turns) * (MaxSteps + 1) + Len(turn.steps)
         /\ Len(turns) * MaxSteps \in Nat /\ Len(turns) * (MaxSteps + 1) \in Nat
<1> DEFINE a == Len(turns) * MaxSteps
           b == Len(turns) * (MaxSteps + 1)
           e == IF turn.phase \in {"asked", "running"} THEN 1 ELSE 0
<1>1. Len(turns) \in Nat /\ Len(turn.steps) \in Nat /\ Len(answers) \in Nat /\ MaxTurns \in Nat /\ MaxSteps \in Nat
  BY Facts, BoundsNat
<1>2. a \in Nat /\ b \in Nat
  <2>1. MaxSteps + 1 \in Nat
    BY <1>1
  <2> QED
    BY <1>1, <2>1, Room
<1>3. /\ Len(turns) + (IF Idle THEN 0 ELSE 1) <= MaxTurns
      /\ next <= a + 1
      /\ Len(turn.steps) + e <= MaxSteps
      /\ Len(answers) <= b + Len(turn.steps) + (IF Running THEN 1 ELSE 0)
  BY DEF SessionInv, Counted
<1>4. e \in {0, 1} /\ (turn.phase \in {"asked", "running"} => e = 1)
  OBVIOUS
<1> HIDE DEF a, b, e
<1>5. Len(turns) <= MaxTurns /\ (~Idle => Len(turns) + 1 <= MaxTurns)
  BY <1>1, <1>3
<1>6. Len(turn.steps) <= MaxSteps /\ (e = 1 => Len(turn.steps) + 1 <= MaxSteps)
  BY <1>1, <1>3, <1>4
<1> DEFINE q == IF Running THEN 1 ELSE 0
<1>7. q \in {0, 1} /\ (~Running => q = 0) /\ Len(answers) <= b + Len(turn.steps) + q
  BY <1>3
<1> HIDE DEF q
<1>8. Len(answers) <= b + Len(turn.steps) + 1 /\ (~Running => Len(answers) <= b + Len(turn.steps))
  BY <1>1, <1>2, <1>7
<1> QED
  BY <1>2, <1>3, <1>4, <1>5, <1>6, <1>8 DEF a, b

-----------------------------------------------------------------------------
(* What stays shown.                                                       *)

\* Each thing has its place.
LEMMA PlaceOf ==
  ASSUME said \in Seq(Entry), SaidOnce, NEW m \in 1..Len(said), NEW x, said[m] = Seen(x)
  PROVE  When(x) = m
<1>1. \A n, o \in DOMAIN said : said[n] = said[o] => n = o
  BY DEF SaidOnce
<1>2. m \in DOMAIN said
  OBVIOUS
<1>3. \A n \in DOMAIN said : said[n] = Seen(x) => n = m
  BY <1>1, <1>2
<1> QED
  BY <1>2, <1>3 DEF When

\* A step of the session takes nothing back.
Grows ==
  /\ said' \in Seq(Entry) /\ Len(said) <= Len(said')
  /\ \A m \in 1..Len(said) : said'[m] = said[m]
  /\ \A m, o \in DOMAIN said' : said'[m] = said'[o] => m = o
  /\ Len(answers') \in Nat /\ Len(answers) <= Len(answers')
  /\ \A r \in 1..Len(answers) : answers'[r] = answers[r]
  /\ \A s \in Done : s \in Done'
  /\ \A e : Omitted(e) => Omitted(e)'

LEMMA NamedStays ==
  ASSUME SessionInv, Grows, NEW x, Named(x)
  PROVE  Named(x)'
<1>1. \A s \in Done : s \in Done' /\ (StepId(s))' = StepId(s)
  <2> TAKE s \in Done
  <2>1. s.call \in Nat /\ s.call # 0 /\ s.call <= Len(answers)
    <3>1. s \in Steps /\ s.call <= Len(answers)
      BY Facts DEF SessionInv, StepsKept
    <3>2. s.call \in 1..MaxAnswers /\ s.call \in Nat
      BY <3>1, SaidTyped
    <3> QED
      BY <3>1, <3>2
  <2>2. s.call \in 1..Len(answers)
    BY <2>1, Facts
  <2>3. answers'[s.call] = answers[s.call] /\ s \in Done'
    BY <2>2 DEF Grows
  <2> QED
    BY <2>3 DEF StepId
<1>2. x.kind = "call" => \E s \in Done' : x.of = s.call /\ x.id = (StepId(s))'
  BY <1>1 DEF Named
<1>3. x.kind = "output" => \E s \in Done' : x.of = s.index /\ x.id = (StepId(s))'
  BY <1>1 DEF Named
<1> QED
  BY <1>2, <1>3 DEF Named

LEMMA ShowsStays ==
  ASSUME SessionInv, Grows, NEW v, NEW n \in 1..Len(said) + 1, Shows(v, n)
  PROVE  Shows(v, n)'
<1>1. /\ v \in Seq(Shape)
      /\ \A i \in DOMAIN v : Named(v[i]) /\ \E m \in DOMAIN said : m < n /\ said[m] = Seen(v[i])
      /\ \A i, j \in DOMAIN v : i < j => When(v[i]) < When(v[j])
      /\ \A m \in DOMAIN said : m < n => Omitted(said[m]) \/ \E i \in DOMAIN v : Seen(v[i]) = said[m]
  BY DEF Shows
<1>2. /\ said \in Seq(Entry) /\ said' \in Seq(Entry) /\ Len(said) \in Nat /\ Len(said') \in Nat
      /\ DOMAIN said = 1..Len(said) /\ DOMAIN said' = 1..Len(said')
      /\ SaidOnce /\ Len(said) <= Len(said')
      /\ \A m \in 1..Len(said) : m \in 1..Len(said') /\ said'[m] = said[m]
  <2>1. said \in Seq(Entry) /\ Len(said) \in Nat /\ DOMAIN said = 1..Len(said) /\ SaidOnce
    BY Facts DEF SessionInv
  <2>2. said' \in Seq(Entry) /\ Len(said) <= Len(said') /\ \A m \in 1..Len(said) : said'[m] = said[m]
    BY DEF Grows
  <2>3. Len(said') \in Nat /\ DOMAIN said' = 1..Len(said')
    BY <2>2
  <2>4. \A m \in 1..Len(said) : m \in 1..Len(said')
    BY <2>1, <2>2, <2>3
  <2> QED
    BY <2>1, <2>2, <2>3, <2>4
<1>3. \A x : (Seen(x))' = Seen(x)
  BY DEF Seen
<1>4. \A i \in DOMAIN v : /\ (Named(v[i]))'
                          /\ \E m \in DOMAIN said' : m < n /\ said'[m] = (Seen(v[i]))'
                          /\ (When(v[i]))' = When(v[i])
  <2> TAKE i \in DOMAIN v
  <2>1. (Named(v[i]))'
    BY <1>1, NamedStays
  <2>2. PICK m \in 1..Len(said) : m < n /\ said[m] = Seen(v[i])
    BY <1>1, <1>2
  <2>3. m \in 1..Len(said') /\ said'[m] = Seen(v[i])
    BY <1>2, <2>2
  <2>4. When(v[i]) = m
    BY <1>2, <2>2, PlaceOf
  <2>5. (When(v[i]))' = m
    <3>1. \A o \in DOMAIN said' : said'[o] = Seen(v[i]) => o = m
      BY <1>2, <2>3 DEF Grows
    <3> QED
      BY <1>2, <1>3, <2>3, <3>1 DEF When
  <2> QED
    BY <1>2, <1>3, <2>1, <2>2, <2>3, <2>4, <2>5
<1>5. \A i, j \in DOMAIN v : i < j => (When(v[i]))' < (When(v[j]))'
  BY <1>1, <1>4
<1>6. \A m \in DOMAIN said' : m < n =>
        (Omitted(said[m]))' \/ \E i \in DOMAIN v : (Seen(v[i]))' = said'[m]
  <2> TAKE m \in DOMAIN said'
  <2> HAVE m < n
  <2>1. m \in 1..Len(said)
    BY <1>2
  <2>2. Omitted(said[m]) \/ \E i \in DOMAIN v : Seen(v[i]) = said[m]
    BY <1>1, <1>2, <2>1
  <2>3. said'[m] = said[m]
    BY <1>2, <2>1
  <2>4. ASSUME NEW e, e = said[m], Omitted(e) PROVE (Omitted(said[m]))'
    <3>1. (Omitted(e))' /\ e = said'[m]
      BY <2>3, <2>4 DEF Grows
    <3> QED
      BY <3>1 DEF Omitted
  <2> QED
    BY <1>3, <2>2, <2>3, <2>4
<1> QED
  BY <1>1, <1>4, <1>5, <1>6 DEF Shows

-----------------------------------------------------------------------------
(* How a turn ends.                                                        *)

LEMMA EndedTurns ==
  ASSUME SessionInv, NEW t \in TurnShape, NEW r \in 0..MaxAnswers, EndTurn(t, r)
  PROVE  /\ turns' \in Seq(KeptTurn) /\ Len(turns') = Len(turns) + 1
         /\ DOMAIN turns' = 1..Len(turns) + 1
         /\ \A i \in 1..Len(turns) : turns'[i] = turns[i]
         /\ turns'[Len(turns) + 1].steps = t.steps /\ turns'[Len(turns) + 1].reply = r
         /\ turns' = Append(turns, [steps |-> t.steps, reply |-> r])
         /\ [steps |-> t.steps, reply |-> r] \in KeptTurn
<1> DEFINE kept == [steps |-> t.steps, reply |-> r]
<1>1. kept \in KeptTurn /\ kept.steps = t.steps /\ kept.reply = r
  BY TurnTyped, KeptTyped
<1>2. turns' = Append(turns, kept)
  BY DEF EndTurn
<1> HIDE DEF kept
<1>3. turns \in Seq(KeptTurn) /\ Len(turns) \in Nat
  BY Facts
<1>4. /\ turns' \in Seq(KeptTurn) /\ Len(turns') = Len(turns) + 1
      /\ \A i \in 1..Len(turns) : turns'[i] = turns[i]
      /\ turns'[Len(turns) + 1] = kept
  BY <1>1, <1>2, <1>3, AppendProperties
<1>5. DOMAIN turns' = 1..Len(turns) + 1
  BY <1>3, <1>4
<1>6. turns'[Len(turns) + 1].steps = t.steps /\ turns'[Len(turns) + 1].reply = r
  BY <1>1, <1>4
<1> QED
  BY <1>1, <1>2, <1>4, <1>5, <1>6 DEF kept

LEMMA Ended ==
  ASSUME SessionInv, NEW t \in TurnShape, NEW r \in 0..MaxAnswers, EndTurn(t, r)
  PROVE  /\ turn' = NoTurn /\ Idle' /\ ~Running' /\ ~Asked'
         /\ turn'.steps = <<>> /\ turn'.call = 0
         /\ NextIndex' = next + Len(t.steps) /\ Data' = t.replay /\ Latest' = t.state
         /\ \A s : s \in Done' <=> \/ s \in ToSet(t.steps)
                                   \/ \E i \in 1..Len(turns) : s \in ToSet(turns[i].steps)
         /\ \A e : Omitted(e) => Omitted(e)'
         /\ \A n : n = Len(turns) + 1 /\ t.steps = <<>> /\ r = 0 => Omitted(<<"user", n>>)'
<1>1. turn' = NoTurn /\ next' = next + Len(t.steps) /\ replay' = t.replay /\ state' = t.state
  BY DEF EndTurn
<1>2. turn'.phase = "idle" /\ turn'.steps = <<>> /\ turn'.call = 0
  BY <1>1, NoTurnTyped
<1>3. Idle' /\ ~Running' /\ ~Asked'
  BY <1>2 DEF Idle, Running, Asked
<1>4. Data' = t.replay /\ Latest' = t.state
  BY <1>1, <1>3 DEF Data, Latest
<1>5. NextIndex' = next + Len(t.steps)
  <2>1. next' \in Nat /\ Len(turn'.steps) = 0
    <3>1. next \in Nat /\ Len(t.steps) \in Nat
      BY Facts, TurnTyped
    <3> QED
      BY <1>1, <1>2, <3>1
  <2> QED
    BY <1>1, <2>1 DEF NextIndex
<1>6. /\ DOMAIN turns' = 1..Len(turns) + 1 /\ DOMAIN turns = 1..Len(turns) /\ Len(turns) \in Nat
      /\ \A i \in 1..Len(turns) : turns'[i] = turns[i]
      /\ turns'[Len(turns) + 1].steps = t.steps /\ turns'[Len(turns) + 1].reply = r
  BY EndedTurns, Facts
<1>7. \A i \in 1..Len(turns) : i \in 1..Len(turns) + 1
  BY <1>6
<1>8. Len(turns) + 1 \in 1..Len(turns) + 1 /\ \A i \in 1..Len(turns) + 1 : i \in 1..Len(turns) \/ i = Len(turns) + 1
  BY <1>6
<1>9. \A s : s \in Done' <=> \/ s \in ToSet(t.steps)
                             \/ \E i \in 1..Len(turns) : s \in ToSet(turns[i].steps)
  <2> TAKE s
  <2>1. s \in Done' <=> \E i \in 1..Len(turns) + 1 : s \in ToSet(turns'[i].steps)
    <3>1. s \notin ToSet(turn'.steps)
      BY <1>2, NoneIn
    <3>2. ToSet(turn'.steps) = (ToSet(turn.steps))'
      BY DEF ToSet
    <3>3. Done' = ToSet(turn'.steps) \cup UNION {ToSet(turns'[i].steps) : i \in 1..Len(turns) + 1}
      BY <1>6 DEF Done, ToSet
    <3> HIDE DEF Done
    <3> QED
      BY <3>1, <3>3
  <2> QED
    BY <1>6, <1>7, <1>8, <2>1
<1>10. \A e : Omitted(e) => Omitted(e)'
  BY <1>6, <1>7 DEF Omitted, Fruitless
<1>11. \A n : n = Len(turns) + 1 /\ t.steps = <<>> /\ r = 0 => Omitted(<<"user", n>>)'
  BY <1>6, <1>8 DEF Omitted, Fruitless
<1> QED
  BY <1>1, <1>2, <1>3, <1>4, <1>5, <1>9, <1>10, <1>11

LEMMA EndedShaped ==
  ASSUME SessionInv, NEW t \in TurnShape, NEW r \in 0..MaxAnswers, EndTurn(t, r),
         answers' \in Seq(AnswerShape), said' \in Seq(Entry)
  PROVE  Shaped'
<1>1. turns' \in Seq(KeptTurn)
  BY EndedTurns
<1>2. turn' = NoTurn /\ next' = next + Len(t.steps) /\ replay' = t.replay /\ state' = t.state
  BY DEF EndTurn
<1>3. turn' \in TurnShape
  BY <1>2, NoTurnTyped
<1>4. replay' \in [1..MaxIndex -> 0..MaxAnswers] /\ state' \in 0..MaxAnswers
  BY <1>2, TurnTyped DEF ReplayData
<1>5. next' \in Nat \ {0}
  <2>1. next \in Nat /\ next # 0 /\ Len(t.steps) \in Nat
    BY Facts, TurnTyped
  <2> QED
    BY <1>2, <2>1
<1> QED
  BY <1>1, <1>2, <1>3, <1>4, <1>5 DEF Shaped

LEMMA EndedCounted ==
  ASSUME SessionInv, NEW t \in TurnShape, NEW r \in 0..MaxAnswers, EndTurn(t, r),
         ~Idle, Len(t.steps) <= MaxSteps, Len(answers') \in Nat,
         Len(answers') <= Len(turns) * (MaxSteps + 1) + Len(t.steps) + 1
  PROVE  Counted'
<1> DEFINE n == Len(turns)
           k == Len(t.steps)
<1>1. Len(turns') = n + 1 /\ Idle' /\ ~Running' /\ turn'.phase = "idle" /\ turn'.steps = <<>>
  BY EndedTurns, Ended DEF Idle
<1>2. n \in Nat /\ k \in Nat /\ next \in Nat /\ MaxSteps \in Nat /\ MaxTurns \in Nat /\ MaxSteps + 1 \in Nat
  BY Facts, TurnTyped, BoundsNat
<1>3. n + 1 <= MaxTurns /\ next <= n * MaxSteps + 1
  BY DEF SessionInv, Counted
<1>4. next' = next + k
  BY DEF EndTurn
<1>5. Len(turn'.steps) = 0
  BY <1>1
<1> HIDE DEF n, k
<1>6. n * MaxSteps \in Nat /\ (n + 1) * MaxSteps = n * MaxSteps + MaxSteps
  BY <1>2, Room
<1>7. n * (MaxSteps + 1) \in Nat /\ (n + 1) * (MaxSteps + 1) = n * (MaxSteps + 1) + (MaxSteps + 1)
  BY <1>2, Room
<1>8. next' <= Len(turns') * MaxSteps + 1
  <2>1. k <= MaxSteps
    BY DEF k
  <2> QED
    BY <1>1, <1>2, <1>3, <1>4, <1>6, <2>1
<1>9. Len(answers') <= Len(turns') * (MaxSteps + 1)
  <2>1. k <= MaxSteps /\ Len(answers') <= n * (MaxSteps + 1) + k + 1
    BY DEF k, n
  <2> QED
    BY <1>1, <1>2, <1>7, <2>1
<1>10. Len(turns') * (MaxSteps + 1) \in Nat
  BY <1>1, <1>2, <1>7
<1> QED
  BY <1>1, <1>2, <1>3, <1>5, <1>8, <1>9, <1>10 DEF Counted

LEMMA EndedSaid ==
  ASSUME SessionInv, NEW t \in TurnShape, NEW r \in 0..MaxAnswers, EndTurn(t, r),
         said' = PastSaid(turns) \o (<<<<"user", Len(turns) + 1>>>> \o StepsSaid(t.steps) \o ReplySaid(r))
  PROVE  SaidKept' /\ said' \in Seq(Entry)
<1> DEFINE kept == [steps |-> t.steps, reply |-> r]
           u == <<<<"user", Len(turns) + 1>>>>
           p == PastSaid(turns)
           q == PastSaid(turns')
<1>1. turns' = Append(turns, kept) /\ kept \in KeptTurn /\ turns \in Seq(KeptTurn) /\ turns' \in Seq(KeptTurn)
  BY EndedTurns, Facts
<1>2. q = p \o TurnSaid(Len(turns) + 1, kept)
  BY <1>1, PastSaidAppend
<1>3. TurnSaid(Len(turns) + 1, kept) = u \o StepsSaid(t.steps) \o ReplySaid(r)
  BY DEF TurnSaid
<1>4. said' = q
  BY <1>2, <1>3
<1>5. q \in Seq(Entry)
  BY <1>1, PastSaidTyped
<1>6. (PresentSaid(Len(turns) + 1, turn))' = <<>>
  BY Ended DEF PresentSaid, Idle
<1>7. q = (PastSaid(turns))'
  BY DEF PastSaid, TurnSaid, StepsSaid, StepSaid, ReplySaid
<1> HIDE DEF q
<1>8. q \o <<>> = q
  BY <1>5, ConcatEmptySeq
<1> QED
  BY <1>4, <1>5, <1>6, <1>7, <1>8 DEF SaidKept

-----------------------------------------------------------------------------
(* How the session goes on.                                                *)

LEMMA SilentGrows ==
  ASSUME SessionInv, UNCHANGED <<answers, said>>,
         \A s \in Done : s \in Done', \A e : Omitted(e) => Omitted(e)'
  PROVE  Grows
<1>1. said \in Seq(Entry) /\ Len(said) \in Nat /\ Len(answers) \in Nat /\ SaidOnce
  BY Facts DEF SessionInv
<1>2. answers' = answers /\ said' = said
  OBVIOUS
<1>3. \A m, o \in DOMAIN said : said[m] = said[o] => m = o
  BY <1>1 DEF SaidOnce
<1>4. Len(said) <= Len(said) /\ Len(answers) <= Len(answers)
  BY <1>1
<1> QED
  BY <1>1, <1>2, <1>3, <1>4 DEF Grows

\* What is said next.
LEMMA SaidNext ==
  ASSUME SessionInv, NEW e \in Entry, said' = Append(said, e)
  PROVE  /\ said' \in Seq(Entry) /\ Len(said') = Len(said) + 1 /\ DOMAIN said' = 1..Len(said) + 1
         /\ \A m \in 1..Len(said) : said'[m] = said[m] /\ m \in 1..Len(said) + 1
         /\ said'[Len(said) + 1] = e /\ Len(said) + 1 \in 1..Len(said) + 1
         /\ \A m \in 1..Len(said) + 1 : m \in 1..Len(said) \/ m = Len(said) + 1
         /\ said' # <<>> /\ Last(said') = e
<1>1. said \in Seq(Entry) /\ Len(said) \in Nat
  BY Facts
<1>2. /\ said' \in Seq(Entry) /\ Len(said') = Len(said) + 1
      /\ \A m \in 1..Len(said) : said'[m] = said[m]
      /\ said'[Len(said) + 1] = e
      /\ said' # <<>>
  BY <1>1, AppendProperties
<1>3. DOMAIN said' = 1..Len(said) + 1
  BY <1>1, <1>2
<1>4. /\ \A m \in 1..Len(said) : m \in 1..Len(said) + 1
      /\ Len(said) + 1 \in 1..Len(said) + 1
      /\ \A m \in 1..Len(said) + 1 : m \in 1..Len(said) \/ m = Len(said) + 1
  BY <1>1
<1>5. Last(said') = e
  BY <1>2 DEF Last
<1> QED
  BY <1>2, <1>3, <1>4, <1>5

LEMMA SpokenGrows ==
  ASSUME SessionInv, NEW e \in Entry, said' = Append(said, e), \A m \in 1..Len(said) : said[m] # e,
         answers' = answers \/ \E a \in AnswerShape : answers' = Append(answers, a),
         \A s \in Done : s \in Done', \A x : Omitted(x) => Omitted(x)'
  PROVE  Grows
<1>1. said \in Seq(Entry) /\ Len(said) \in Nat /\ DOMAIN said = 1..Len(said) /\ Len(answers) \in Nat /\ SaidOnce
      /\ answers \in Seq(AnswerShape)
  BY Facts DEF SessionInv
<1>2. \A m, o \in DOMAIN said : said[m] = said[o] => m = o
  BY <1>1 DEF SaidOnce
<1>3. /\ said' \in Seq(Entry) /\ Len(said') = Len(said) + 1 /\ DOMAIN said' = 1..Len(said) + 1
      /\ \A m \in 1..Len(said) : said'[m] = said[m]
      /\ said'[Len(said) + 1] = e
      /\ \A m \in 1..Len(said) + 1 : m \in 1..Len(said) \/ m = Len(said) + 1
  BY SaidNext
<1>4. \A m, o \in DOMAIN said' : said'[m] = said'[o] => m = o
  BY <1>1, <1>2, <1>3
<1>5. /\ Len(answers') \in Nat /\ Len(answers) <= Len(answers')
      /\ \A r \in 1..Len(answers) : answers'[r] = answers[r]
  <2>1. CASE answers' = answers
    BY <1>1, <2>1
  <2>2. ASSUME NEW a \in AnswerShape, answers' = Append(answers, a)
        PROVE  /\ Len(answers') \in Nat /\ Len(answers) <= Len(answers')
               /\ \A r \in 1..Len(answers) : answers'[r] = answers[r]
    <3>1. Len(answers') = Len(answers) + 1 /\ \A r \in 1..Len(answers) : answers'[r] = answers[r]
      BY <1>1, <2>2, AppendProperties
    <3> QED
      BY <1>1, <3>1
  <2> QED
    BY <2>1, <2>2
<1>6. Len(said) <= Len(said')
  BY <1>1, <1>3
<1> QED
  BY <1>3, <1>4, <1>5, <1>6 DEF Grows

\* What the provider has shown stays as it was.
LEMMA AnswersShowStays ==
  ASSUME SessionInv, Grows, NEW r \in 1..Len(answers)
  PROVE  /\ answers'[r] = answers[r]
         /\ answers[r].stored => answers[r].labelled
         /\ \E n \in DOMAIN said' : said'[n] = <<answers[r].kind, r>> /\ Shows(answers[r].shown, n)'
<1>1. /\ answers[r].stored => answers[r].labelled
      /\ \E n \in DOMAIN said : said[n] = <<answers[r].kind, r>> /\ Shows(answers[r].shown, n)
  BY Facts DEF SessionInv, AnswersShow
<1> DEFINE v == answers[r].shown
           e == <<answers[r].kind, r>>
<1>2. PICK n \in DOMAIN said : said[n] = e /\ Shows(v, n)
  BY <1>1
<1>3. answers'[r] = answers[r]
  BY DEF Grows
<1> HIDE DEF e
<1>4. PICK w : w = v
  OBVIOUS
<1>5. n \in 1..Len(said) /\ n \in 1..Len(said) + 1 /\ Shows(w, n)
  BY <1>2, <1>4, Facts
<1>6. Shows(w, n)'
  BY <1>5, ShowsStays
<1>7. n \in DOMAIN said' /\ said'[n] = e
  <2>1. said' \in Seq(Entry) /\ Len(said) <= Len(said') /\ said'[n] = said[n]
    BY <1>5 DEF Grows
  <2>2. Len(said') \in Nat /\ Len(said) \in Nat
    BY <2>1, Facts
  <2> QED
    BY <1>2, <1>5, <2>1, <2>2
<1>8. answers'[r].shown = w
  BY <1>3, <1>4
<1>9. Shows(answers[r].shown, n)'
  BY <1>6, <1>8
<1> QED
  BY <1>1, <1>3, <1>7, <1>9 DEF e

LEMMA AnswersShowKept ==
  ASSUME SessionInv, Grows, answers' = answers
  PROVE  AnswersShow'
<1>1. DOMAIN answers' = 1..Len(answers)
  BY Facts
<1>2. ASSUME NEW r \in 1..Len(answers)
      PROVE  /\ answers'[r].stored => answers'[r].labelled
             /\ \E n \in DOMAIN said' : said'[n] = <<answers'[r].kind, r>> /\ Shows(answers[r].shown, n)'
  BY <1>2, AnswersShowStays
<1> QED
  BY <1>1, <1>2 DEF AnswersShow

LEMMA AnswerTyped ==
  ASSUME SessionInv, Asked, NEW style \in Style, NEW kind \in {"call", "reply"},
         answers' = Answer(kind, style)
  PROVE  /\ answers' \in Seq(AnswerShape) /\ Len(answers') = Len(answers) + 1
         /\ \E a \in AnswerShape : answers' = Append(answers, a)
         /\ \A i \in 1..Len(answers) : answers'[i] = answers[i]
         /\ LET r == Len(answers) + 1
            IN answers'[r].kind = kind /\ answers'[r].shown = shown
               /\ (answers'[r].stored => answers'[r].labelled)
         /\ DOMAIN answers' = 1..Len(answers) + 1
         /\ Len(answers) + 1 \in 1..Len(answers) + 1
         /\ \A i \in 1..Len(answers) + 1 : i \in 1..Len(answers) \/ i = Len(answers) + 1
         /\ answers' # <<>> /\ Last(answers').kind = kind
<1> DEFINE a == [kind |-> kind, stored |-> style.stored, labelled |-> style.labelled, shown |-> shown]
<1>1. style.stored \in BOOLEAN /\ style.labelled \in BOOLEAN /\ (style.stored => style.labelled)
  BY SessionAssumption
<1>2. shown \in Seq(Shape)
  BY DEF SessionInv, Shows
<1>3. a \in AnswerShape
  BY <1>1, <1>2 DEF AnswerShape
<1>4. a.kind = kind /\ a.shown = shown /\ a.stored = style.stored /\ a.labelled = style.labelled
  OBVIOUS
<1>5. answers' = Append(answers, a)
  BY DEF Answer
<1> HIDE DEF a
<1>6. answers \in Seq(AnswerShape) /\ Len(answers) \in Nat
  BY Facts
<1>7. /\ answers' \in Seq(AnswerShape) /\ Len(answers') = Len(answers) + 1
      /\ \A i \in 1..Len(answers) : answers'[i] = answers[i]
      /\ answers'[Len(answers) + 1] = a
      /\ answers' # <<>>
  BY <1>3, <1>5, <1>6, AppendProperties
<1>8. /\ DOMAIN answers' = 1..Len(answers) + 1 /\ Len(answers) + 1 \in 1..Len(answers) + 1
      /\ \A i \in 1..Len(answers) + 1 : i \in 1..Len(answers) \/ i = Len(answers) + 1
  BY <1>6, <1>7
<1>9. answers'[Len(answers) + 1].stored => answers'[Len(answers) + 1].labelled
  BY <1>1, <1>4, <1>7
<1>10. Last(answers').kind = kind
  BY <1>4, <1>7 DEF Last
<1> QED
  BY <1>3, <1>4, <1>5, <1>7, <1>8, <1>9, <1>10

LEMMA AnswersShowMore ==
  ASSUME SessionInv, Grows, Asked, NEW style \in Style, NEW kind \in {"call", "reply"},
         answers' = Answer(kind, style), said' = Append(said, <<kind, Len(answers) + 1>>)
  PROVE  AnswersShow'
<1> DEFINE r == Len(answers) + 1
           n == Len(said) + 1
<1>1. /\ DOMAIN answers' = 1..r /\ r \in 1..r /\ \A i \in 1..r : i \in 1..Len(answers) \/ i = r
      /\ answers'[r].kind = kind /\ answers'[r].shown = shown
      /\ answers'[r].stored => answers'[r].labelled
  BY AnswerTyped
<1>2. <<kind, r>> \in Entry
  <2>1. kind \in Kinds /\ r \in Nat
    BY Facts, SeenTyped
  <2> HIDE DEF r
  <2> QED
    BY <2>1, SeenTyped
<1>3. n \in DOMAIN said' /\ said'[n] = <<kind, r>> /\ n \in 1..Len(said) + 1
  BY <1>2, SaidNext
<1>4. Shows(shown, n)
  BY DEF SessionInv
<1>5. PICK w : w = shown
  OBVIOUS
<1> HIDE DEF r
<1>6. PICK m : m = n
  OBVIOUS
<1>7. Shows(w, m) /\ m \in 1..Len(said) + 1
  BY <1>3, <1>4, <1>5, <1>6
<1>8. Shows(w, m)'
  BY <1>7, ShowsStays
<1>9. PICK q : q = r
  OBVIOUS
<1>10. answers'[q].shown = w /\ answers'[q].kind = kind
  BY <1>1, <1>5, <1>9
<1>11. Shows(answers[q].shown, m)'
  BY <1>8, <1>10
<1>12. /\ answers'[q].stored => answers'[q].labelled
       /\ \E o \in DOMAIN said' : said'[o] = <<answers'[q].kind, q>> /\ Shows(answers[q].shown, o)'
  BY <1>1, <1>3, <1>6, <1>9, <1>10, <1>11
<1>13. ASSUME NEW i \in 1..Len(answers)
       PROVE  /\ answers'[i].stored => answers'[i].labelled
              /\ \E o \in DOMAIN said' : said'[o] = <<answers'[i].kind, i>> /\ Shows(answers[i].shown, o)'
  BY <1>13, AnswersShowStays
<1>14. \A i \in 1..r : i \in 1..Len(answers) \/ i = q
  BY <1>1, <1>9
<1> QED
  BY <1>1, <1>12, <1>13, <1>14 DEF AnswersShow

\* Nothing happens twice when something new does.
LEMMA OnceGoesOn ==
  ASSUME SessionInv, Grows, NEW e \in Entry, said' = Append(said, e),
         NEW k \in Nat, k = Len(turns') + (IF Idle' THEN 0 ELSE 1),
         Len(turns) + (IF Idle THEN 0 ELSE 1) <= k,
         e[1] = "user" => e[2] <= k, e[1] \in {"call", "reply"} => e[2] \in 1..Len(answers')
  PROVE  SaidOnce'
<1> DEFINE j == Len(turns) + (IF Idle THEN 0 ELSE 1)
<1>1. \A m, o \in DOMAIN said' : said'[m] = said'[o] => m = o
  BY DEF Grows
<1>2. /\ DOMAIN said = 1..Len(said) /\ said \in Seq(Entry) /\ Len(answers) \in Nat
      /\ Len(answers') \in Nat /\ Len(answers) <= Len(answers') /\ j \in Nat
  BY Facts DEF Grows
<1>3. \A m \in 1..Len(said) :
        /\ said[m][1] = "user" => said[m][2] <= j
        /\ said[m][1] \in {"call", "reply"} => said[m][2] \in 1..Len(answers)
  BY <1>2 DEF SessionInv, SaidOnce
<1>4. \A m \in 1..Len(said) : said[m][2] \in Nat
  <2>1. \A m \in 1..Len(said) : said[m] \in Entry
    BY <1>2
  <2> QED
    BY <2>1 DEF Entry
<1>5. j <= k
  OBVIOUS
<1> HIDE DEF j
<1>6. \A m \in 1..Len(said) :
        /\ said[m][1] = "user" => said[m][2] <= k
        /\ said[m][1] \in {"call", "reply"} => said[m][2] \in 1..Len(answers')
  BY <1>2, <1>3, <1>4, <1>5
<1>7. /\ DOMAIN said' = 1..Len(said) + 1 /\ said'[Len(said) + 1] = e
      /\ \A m \in 1..Len(said) : said'[m] = said[m]
      /\ \A m \in 1..Len(said) + 1 : m \in 1..Len(said) \/ m = Len(said) + 1
  BY SaidNext
<1>8. \A m \in DOMAIN said' :
        /\ said'[m][1] = "user" => said'[m][2] <= k
        /\ said'[m][1] \in {"call", "reply"} => said'[m][2] \in 1..Len(answers')
  BY <1>6, <1>7
<1>9. \A m \in DOMAIN said' :
        /\ said'[m][1] = "user" => said'[m][2] <= Len(turns') + (IF Idle' THEN 0 ELSE 1)
        /\ said'[m][1] \in {"call", "reply"} => said'[m][2] \in 1..Len(answers')
  BY <1>8
<1> QED
  BY <1>1, <1>9 DEF SaidOnce

\* Calls stay next to their outputs.
LEMMA PairsStay ==
  ASSUME SessionInv, NEW e \in Entry, said' = Append(said, e), \A s \in Done : s \in Done',
         NEW m \in 1..Len(said)
  PROVE  /\ said'[m] = said[m]
         /\ said[m][1] = "call" =>
              \/ m = Len(said) /\ turn.call # 0 /\ said[m][2] = turn.call
              \/ m < Len(said) + 1 /\ \E s \in Done' : said'[m] = <<"call", s.call>> /\ said'[m + 1] = <<"output", s.index>>
         /\ said[m][1] = "output" =>
              m > 1 /\ \E s \in Done' : said'[m - 1] = <<"call", s.call>> /\ said'[m] = <<"output", s.index>>
<1>1. DOMAIN said = 1..Len(said) /\ Len(said) \in Nat /\ Len(answers) \in Nat
  BY Facts
<1>2. \A o \in 1..Len(said) : said'[o] = said[o]
  BY SaidNext
<1>3. /\ said[m][1] = "call" =>
           \/ m = Len(said) /\ said[m][2] = turn.call
           \/ m < Len(said) /\ \E s \in Done : said[m] = <<"call", s.call>> /\ said[m + 1] = <<"output", s.index>>
      /\ said[m][1] = "output" =>
           m > 1 /\ \E s \in Done : said[m - 1] = <<"call", s.call>> /\ said[m] = <<"output", s.index>>
      /\ said[m][1] = "call" => said[m][2] \in 1..Len(answers)
  BY <1>1 DEF SessionInv, SaidPaired, SaidOnce
<1>4. ASSUME said[m][1] = "call"
      PROVE  \/ m = Len(said) /\ turn.call # 0 /\ said[m][2] = turn.call
             \/ m < Len(said) + 1 /\ \E s \in Done' : said'[m] = <<"call", s.call>> /\ said'[m + 1] = <<"output", s.index>>
  <2>1. said[m][2] # 0
    BY <1>1, <1>3, <1>4
  <2>2. ASSUME m < Len(said), NEW s \in Done, said[m] = <<"call", s.call>>, said[m + 1] = <<"output", s.index>>
        PROVE  /\ m < Len(said) + 1 /\ s \in Done'
               /\ said'[m] = <<"call", s.call>> /\ said'[m + 1] = <<"output", s.index>>
    <3>1. m + 1 \in 1..Len(said) /\ m < Len(said) + 1
      BY <1>1, <2>2
    <3> QED
      BY <1>2, <2>2, <3>1
  <2> QED
    BY <1>3, <1>4, <2>1, <2>2
<1>5. ASSUME said[m][1] = "output"
      PROVE  m > 1 /\ \E s \in Done' : said'[m - 1] = <<"call", s.call>> /\ said'[m] = <<"output", s.index>>
  <2>1. m > 1 /\ \E s \in Done : said[m - 1] = <<"call", s.call>> /\ said[m] = <<"output", s.index>>
    BY <1>3, <1>5
  <2>2. m - 1 \in 1..Len(said)
    BY <1>1, <2>1
  <2> QED
    BY <1>2, <2>1, <2>2
<1> QED
  BY <1>2, <1>4, <1>5

\* So they do when a call, a prompt or a reply follows.
LEMMA PairedGoesOn ==
  ASSUME SessionInv, ~Running, NEW e \in Entry, said' = Append(said, e), e[1] # "output",
         e[1] = "call" => e[2] = turn'.call, \A s \in Done : s \in Done'
  PROVE  SaidPaired'
<1>1. turn.call = 0
  BY Facts
<1>2. /\ Len(said') = Len(said) + 1 /\ DOMAIN said' = 1..Len(said) + 1
      /\ said'[Len(said) + 1] = e
      /\ \A m \in 1..Len(said) + 1 : m \in 1..Len(said) \/ m = Len(said) + 1
  BY SaidNext
<1>3. ASSUME NEW m \in 1..Len(said) + 1
      PROVE  /\ said'[m][1] = "call" =>
                  \/ m = Len(said') /\ said'[m][2] = turn'.call
                  \/ m < Len(said') /\ \E s \in Done' : said'[m] = <<"call", s.call>> /\ said'[m + 1] = <<"output", s.index>>
             /\ said'[m][1] = "output" =>
                  m > 1 /\ \E s \in Done' : said'[m - 1] = <<"call", s.call>> /\ said'[m] = <<"output", s.index>>
  <2>1. CASE m = Len(said) + 1
    BY <1>2, <2>1
  <2>2. CASE m \in 1..Len(said)
    BY <1>1, <1>2, <2>2, PairsStay
  <2> QED
    BY <1>2, <2>1, <2>2
<1> QED
  BY <1>2, <1>3 DEF SaidPaired

\* A turn ends without a further step or reply.
LEMMA EndsKeeps ==
  ASSUME SessionInv, turn.phase \in {"ready", "asked"}, EndTurn(turn, 0), UNCHANGED <<answers, shown, said>>
  PROVE  SessionInv'
<1>1. ~Idle /\ ~Running /\ turn.call = 0
  BY Facts DEF Idle, Running
<1>2. /\ turn \in TurnShape /\ 0 \in 0..MaxAnswers
      /\ answers' = answers /\ said' = said
      /\ answers \in Seq(AnswerShape) /\ said \in Seq(Entry)
      /\ Len(turns) \in Nat /\ Len(answers) \in Nat /\ Len(turn.steps) \in Nat
  BY Facts, BoundsNat
<1>3. /\ turn' = NoTurn /\ Idle' /\ ~Running' /\ ~Asked'
      /\ turn'.steps = <<>> /\ turn'.call = 0
      /\ NextIndex' = next + Len(turn.steps) /\ Data' = turn.replay /\ Latest' = turn.state
      /\ \A s : s \in Done' <=> \/ s \in ToSet(turn.steps)
                                \/ \E i \in 1..Len(turns) : s \in ToSet(turns[i].steps)
      /\ \A e : Omitted(e) => Omitted(e)'
      /\ \A n : n = Len(turns) + 1 /\ turn.steps = <<>> => Omitted(<<"user", n>>)'
  BY <1>2, Ended
<1>4. /\ Len(turns') = Len(turns) + 1 /\ DOMAIN turns' = 1..Len(turns) + 1
      /\ \A i \in 1..Len(turns) : turns'[i] = turns[i]
      /\ turns'[Len(turns) + 1].reply = 0
      /\ \A i \in 1..Len(turns) + 1 : i \in 1..Len(turns) \/ i = Len(turns) + 1
  <2>1. \A i \in 1..Len(turns) + 1 : i \in 1..Len(turns) \/ i = Len(turns) + 1
    BY <1>2
  <2> QED
    BY <1>2, <2>1, EndedTurns
<1>5. Done' = Done /\ NextIndex' = NextIndex /\ Data' = Data /\ Latest' = Latest
  <2>1. Done' = Done
    BY <1>3, Facts DEF Done
  <2>2. Data' = Data /\ Latest' = Latest
    BY <1>1, <1>3 DEF Data, Latest
  <2> QED
    BY <1>3, <2>1, <2>2 DEF NextIndex
<1>6. Shaped'
  BY <1>2, EndedShaped
<1>7. Counted'
  BY <1>1, <1>2, CountedFacts, EndedCounted
<1>8. StepsKept'
  <2>1. StepsKept
    BY DEF SessionInv
  <2> QED
    BY <1>1, <1>2, <1>3, <1>5, <2>1 DEF StepsKept
<1>9. StateIsLatest'
  <2>1. Latest = Len(answers)
    BY DEF SessionInv, StateIsLatest
  <2>2. \A t \in 1..Len(turns) : turns[t].reply # 0 =>
          turns[t].reply <= Len(answers) /\ answers[turns[t].reply].kind = "reply"
    BY Facts DEF SessionInv, StateIsLatest
  <2>3. \A t \in DOMAIN turns' : turns'[t].reply # 0 =>
          turns'[t].reply <= Len(answers) /\ answers[turns'[t].reply].kind = "reply"
    BY <1>4, <2>2
  <2>4. Last(turns').reply = 0
    BY <1>4 DEF Last
  <2>5. Running' <=> turn'.call # 0
    BY <1>3
  <2> QED
    BY <1>2, <1>3, <1>5, <2>1, <2>3, <2>4, <2>5 DEF StateIsLatest
<1>10. SaidOnce'
  <2>1. /\ \A n, o \in DOMAIN said : said[n] = said[o] => n = o
        /\ \A n \in DOMAIN said :
             /\ said[n][1] = "user" => said[n][2] <= Len(turns) + 1
             /\ said[n][1] \in {"call", "reply"} => said[n][2] \in 1..Len(answers)
    BY <1>1 DEF SessionInv, SaidOnce
  <2>2. Len(turns') + (IF Idle' THEN 0 ELSE 1) = Len(turns) + 1
    BY <1>2, <1>3, <1>4
  <2> QED
    BY <1>2, <2>1, <2>2 DEF SaidOnce
<1>11. SaidPaired'
  <2>1. SaidPaired
    BY DEF SessionInv
  <2>2. turn'.call = turn.call /\ Done' = Done /\ said' = said
    BY <1>1, <1>2, <1>3, <1>5
  <2> QED
    BY <2>1, <2>2 DEF SaidPaired
<1>12. SaidLast'
  BY <1>3 DEF SaidLast
<1>13. SaidKept'
  <2> DEFINE u == <<<<"user", Len(turns) + 1>>>>
  <2>1. said = PastSaid(turns) \o PresentSaid(Len(turns) + 1, turn)
    BY DEF SessionInv, SaidKept
  <2>2. PresentSaid(Len(turns) + 1, turn) = u \o StepsSaid(turn.steps) \o <<>>
    BY DEF PresentSaid
  <2>3. ReplySaid(0) = <<>>
    BY DEF ReplySaid
  <2>4. said' = PastSaid(turns) \o (u \o StepsSaid(turn.steps) \o ReplySaid(0))
    BY <1>2, <2>1, <2>2, <2>3
  <2> QED
    BY <1>2, <2>4, EndedSaid
<1>14. Since'
  <2>1. Since
    BY DEF SessionInv
  <2> QED
    BY <1>2, <1>3, <2>1 DEF Since
<1>15. Grows
  <2>1. \A s \in Done : s \in Done'
    BY <1>5
  <2> QED
    BY <1>2, <1>3, <2>1, SilentGrows
<1>16. AnswersShow'
  BY <1>2, <1>15, AnswersShowKept
<1> QED
  BY <1>3, <1>6, <1>7, <1>8, <1>9, <1>10, <1>11, <1>12, <1>13, <1>14, <1>16 DEF SessionInv

\* A turn begins with its prompt.
LEMMA PromptKeeps ==
  ASSUME SessionInv, Prompt
  PROVE  SessionInv'
<1> DEFINE n == Len(turns) + 1
           e == <<"user", n>>
           u == <<e>>
<1>1. /\ Idle /\ ~Running /\ turn = NoTurn /\ turn.steps = <<>> /\ turn.call = 0
      /\ Len(turns) < MaxTurns
      /\ turn' = [NoTurn EXCEPT !.phase = "ready", !.replay = replay, !.state = state]
      /\ said' = Append(said, e)
      /\ turns' = turns /\ replay' = replay /\ state' = state /\ next' = next
      /\ answers' = answers /\ shown' = shown
  BY Facts DEF Prompt, Idle, Running
<1>2. /\ Len(turns) \in Nat /\ Len(answers) \in Nat /\ Len(said) \in Nat /\ DOMAIN said = 1..Len(said)
      /\ n \in Nat /\ e \in Entry /\ said \in Seq(Entry) /\ turns \in Seq(KeptTurn)
  <2>1. Len(turns) \in Nat /\ Len(answers) \in Nat /\ Len(said) \in Nat /\ DOMAIN said = 1..Len(said)
        /\ said \in Seq(Entry) /\ turns \in Seq(KeptTurn)
    BY Facts
  <2>2. n \in Nat
    BY <2>1
  <2> QED
    BY <2>1, <2>2, SaidTyped
<1>3. /\ turn'.phase = "ready" /\ turn'.steps = <<>> /\ turn'.call = 0
      /\ turn'.replay = replay /\ turn'.state = state
      /\ turn' \in TurnShape
  <2>1. replay \in [1..MaxIndex -> 0..MaxAnswers] /\ state \in 0..MaxAnswers
    BY Facts DEF ReplayData
  <2>2. NoTurn \in TurnShape
    BY NoTurnTyped
  <2> QED
    BY <1>1, <2>1, <2>2, NoTurnTyped DEF TurnShape
<1> HIDE DEF e, n
<1>4. ~Idle' /\ ~Running' /\ ~Asked'
  BY <1>3 DEF Idle, Running, Asked
<1>5. Done' = Done /\ NextIndex' = NextIndex /\ Data' = Data /\ Latest' = Latest
  <2>1. Data' = Data /\ Latest' = Latest
    BY <1>1, <1>3, <1>4 DEF Data, Latest
  <2>2. turn'.steps = turn.steps
    BY <1>1, <1>3
  <2> QED
    BY <1>1, <2>1, <2>2 DEF NextIndex, Done
<1>6. /\ said' \in Seq(Entry) /\ Len(said') = Len(said) + 1 /\ DOMAIN said' = 1..Len(said) + 1
      /\ \A m \in 1..Len(said) : said'[m] = said[m] /\ m \in 1..Len(said) + 1
      /\ said'[Len(said) + 1] = e /\ Len(said) + 1 \in 1..Len(said) + 1
      /\ \A m \in 1..Len(said) + 1 : m \in 1..Len(said) \/ m = Len(said) + 1
      /\ said' # <<>> /\ Last(said') = e
  BY <1>1, <1>2, SaidNext
<1>7. \A m \in 1..Len(said) : said[m] # e
  <2>1. \A m \in 1..Len(said) : said[m][1] = "user" => said[m][2] <= Len(turns) + (IF Idle THEN 0 ELSE 1)
    BY <1>2 DEF SessionInv, SaidOnce
  <2>2. \A m \in 1..Len(said) : said[m][1] = "user" => said[m][2] <= Len(turns)
    BY <1>1, <1>2, <2>1
  <2>3. e[1] = "user" /\ e[2] = n /\ ~(n <= Len(turns))
    BY <1>2 DEF e, n
  <2> QED
    BY <2>2, <2>3
<1>8. Grows
  <2>1. \A s \in Done : s \in Done'
    BY <1>5
  <2>2. \A x : Omitted(x) => Omitted(x)'
    BY <1>1 DEF Omitted, Fruitless
  <2> QED
    BY <1>1, <1>2, <1>7, <2>1, <2>2, SpokenGrows
<1>9. Shaped'
  <2>1. Shaped
    BY DEF SessionInv
  <2> QED
    BY <1>1, <1>3, <1>4, <1>6, <2>1 DEF Shaped
<1>10. Counted'
  <2>1. /\ Len(turns) <= MaxTurns /\ Len(turn.steps) <= MaxSteps /\ next <= Len(turns) * MaxSteps + 1
        /\ Len(answers) <= Len(turns) * (MaxSteps + 1) + Len(turn.steps)
        /\ Len(turns) * (MaxSteps + 1) \in Nat
    BY <1>1, CountedFacts
  <2>2. Len(turn.steps) = 0 /\ Len(turn'.steps) = 0
    BY <1>1, <1>3
  <2>3. Len(turns) + 1 <= MaxTurns
    BY <1>1, <1>2, BoundsNat
  <2>4. Len(turn'.steps) + (IF turn'.phase \in {"asked", "running"} THEN 1 ELSE 0) <= MaxSteps
    BY <1>3, <2>2, BoundsNat
  <2>5. Len(answers) <= Len(turns) * (MaxSteps + 1) + Len(turn'.steps) + 0
    BY <1>2, <2>1, <2>2
  <2> QED
    BY <1>1, <1>3, <1>4, <2>1, <2>3, <2>4, <2>5 DEF Counted
<1>11. StepsKept'
  <2>1. StepsKept
    BY DEF SessionInv
  <2> QED
    BY <1>1, <1>3, <1>5, <2>1 DEF StepsKept
<1>12. StateIsLatest'
  <2>1. StateIsLatest
    BY DEF SessionInv
  <2> QED
    BY <1>1, <1>3, <1>4, <1>5, <2>1 DEF StateIsLatest
<1>13. SaidOnce'
  <2> DEFINE k == Len(turns') + (IF Idle' THEN 0 ELSE 1)
  <2>1. k = Len(turns) + 1 /\ Len(turns) + (IF Idle THEN 0 ELSE 1) = Len(turns)
    BY <1>1, <1>2, <1>4
  <2>2. k \in Nat /\ e[1] = "user" /\ e[2] <= k /\ Len(turns) <= k
    BY <1>2, <2>1 DEF e, n
  <2>3. Len(turns) + (IF Idle THEN 0 ELSE 1) <= k
    BY <2>1, <2>2
  <2> QED
    BY <1>1, <1>2, <1>8, <2>2, <2>3, OnceGoesOn
<1>14. SaidPaired'
  <2>1. e[1] = "user"
    BY DEF e
  <2>2. \A s \in Done : s \in Done'
    BY <1>5
  <2> QED
    BY <1>1, <1>2, <2>1, <2>2, PairedGoesOn
<1>15. SaidLast'
  BY <1>1, <1>3, <1>4, <1>6 DEF SaidLast, e, n
<1>16. SaidKept'
  <2>1. said = PastSaid(turns) \o <<>>
    BY <1>1 DEF SessionInv, SaidKept, PresentSaid, Idle
  <2>2. PastSaid(turns) \in Seq(Entry)
    BY <1>2, PastSaidTyped
  <2>3. said = PastSaid(turns)
    BY <2>1, <2>2, ConcatEmptySeq
  <2>4. said' = said \o u
    BY <1>1, <1>2, AppendIsConcat
  <2>5. StepsSaid(turn'.steps) = <<>>
    <3>1. [i \in DOMAIN turn'.steps |-> StepSaid(turn'.steps[i])] = <<>>
      BY <1>3
    <3> QED
      BY <3>1, FlattenEmpty DEF StepsSaid
  <2>6. PresentSaid(n, turn') = u \o <<>> \o <<>>
    BY <1>3, <2>5 DEF PresentSaid, e
  <2>7. u \in Seq(Entry)
    BY <1>2, OneOf
  <2> HIDE DEF u
  <2>8. PresentSaid(n, turn') = u
    BY <2>6, <2>7, ConcatEmptySeq
  <2>9. said' = PastSaid(turns') \o PresentSaid(Len(turns') + 1, turn')
    BY <1>1, <2>3, <2>4, <2>8 DEF n
  <2> QED
    BY <2>9 DEF SaidKept, PastSaid, PresentSaid, StepsSaid, StepSaid, TurnSaid, ReplySaid
<1>17. Since'
  <2>1. Since
    BY DEF SessionInv
  <2>2. ASSUME NEW r \in DOMAIN said', NEW m \in DOMAIN said', r < m, answers' # <<>>,
               said'[r] = <<Last(answers').kind, Len(answers')>>
        PROVE  \/ Omitted(said[m])'
               \/ ~Idle' /\ turn'.steps = <<>> /\ said'[m] = <<"user", Len(turns') + 1>>
               \/ Last(answers').kind = "call" /\ m = r + 1
    <3>1. CASE m = Len(said) + 1
      BY <1>1, <1>3, <1>4, <1>6, <3>1 DEF e, n
    <3>2. CASE m \in 1..Len(said)
      <4>1. r \in 1..Len(said) /\ said'[r] = said[r] /\ said'[m] = said[m]
        BY <1>2, <1>6, <2>2, <3>2
      <4>2. Omitted(said[m]) \/ (Last(answers).kind = "call" /\ m = r + 1)
        BY <1>1, <1>2, <2>1, <2>2, <3>2, <4>1 DEF Since
      <4>3. PICK x : x = said[m]
        OBVIOUS
      <4>4. Omitted(x) => Omitted(x)'
        BY <1>8 DEF Grows
      <4>5. Omitted(said[m]) => Omitted(said[m])'
        BY <4>1, <4>3, <4>4 DEF Omitted
      <4> QED
        BY <1>1, <4>2, <4>5
    <3> QED
      BY <1>6, <3>1, <3>2
  <2> QED
    BY <2>2 DEF Since
<1>18. AnswersShow'
  BY <1>1, <1>8, AnswersShowKept
<1> QED
  BY <1>4, <1>9, <1>10, <1>11, <1>12, <1>13, <1>14, <1>15, <1>16, <1>17, <1>18 DEF SessionInv

\* The bounds leave room for an answer and for a step.
LEMMA AnswerRoom ==
  ASSUME SessionInv, Asked
  PROVE  /\ Len(answers) + 1 \in 1..MaxAnswers /\ Len(turn.steps) + 1 <= MaxSteps
         /\ ~Idle /\ ~Running /\ turn.call = 0
<1> DEFINE b == Len(turns) * (MaxSteps + 1)
           c == MaxTurns * (MaxSteps + 1)
<1>1. turn.phase = "asked" /\ ~Idle /\ ~Running
  BY DEF Asked, Idle, Running
<1>2. /\ Len(turns) \in Nat /\ Len(answers) \in Nat /\ Len(turn.steps) \in Nat
      /\ MaxTurns \in Nat /\ MaxSteps \in Nat /\ MaxSteps + 1 \in Nat /\ turn.call = 0
  BY <1>1, Facts, BoundsNat
<1>3. Len(turn.steps) + 1 <= MaxSteps /\ Len(turns) + 1 <= MaxTurns /\ Len(answers) <= b + Len(turn.steps)
  BY <1>1, CountedFacts
<1>4. b \in Nat /\ c \in Nat /\ b + (MaxSteps + 1) <= c
  BY <1>2, <1>3, Room
<1>5. c = MaxAnswers
  BY DEF MaxAnswers
<1> HIDE DEF b, c
<1>6. Len(answers) + 1 <= c
  BY <1>2, <1>3, <1>4
<1> QED
  BY <1>1, <1>2, <1>3, <1>4, <1>5, <1>6

LEMMA StepRoom ==
  ASSUME SessionInv, Running
  PROVE  NextIndex \in 1..MaxIndex /\ Len(turn.steps) + 1 <= MaxSteps /\ turn.call \in 1..MaxAnswers /\ ~Idle
<1> DEFINE a == Len(turns) * MaxSteps
           c == MaxTurns * MaxSteps
<1>1. turn.phase = "running" /\ ~Idle
  BY DEF Idle, Running
<1>2. /\ Len(turns) \in Nat /\ Len(turn.steps) \in Nat /\ next \in Nat /\ next # 0
      /\ MaxTurns \in Nat /\ MaxSteps \in Nat /\ turn.call # 0 /\ turn \in TurnShape
  BY Facts, BoundsNat
<1>3. Len(turn.steps) + 1 <= MaxSteps /\ Len(turns) + 1 <= MaxTurns /\ next <= a + 1
  BY <1>1, CountedFacts
<1>4. a \in Nat /\ c \in Nat /\ a + MaxSteps <= c
  BY <1>2, <1>3, Room
<1>5. c = MaxIndex /\ NextIndex = next + Len(turn.steps)
  BY DEF MaxIndex, NextIndex
<1>6. turn.call \in 1..MaxAnswers
  <2>1. turn.call \in 0..MaxAnswers /\ MaxAnswers \in Nat
    BY <1>2, TurnTyped, BoundsNat
  <2> QED
    BY <1>2, <2>1
<1> HIDE DEF a, c
<1>7. NextIndex <= c /\ NextIndex \in Nat /\ 1 <= NextIndex
  BY <1>2, <1>3, <1>4, <1>5
<1> QED
  BY <1>1, <1>3, <1>4, <1>5, <1>6, <1>7

\* What an answer changes, whether it is a call or a reply.
LEMMA Answered ==
  ASSUME SessionInv, Asked, NEW style \in Style, NEW kind \in {"call", "reply"},
         answers' = Answer(kind, style), said' = Append(said, <<kind, Len(answers) + 1>>),
         \A s \in Done : s \in Done', \A x : Omitted(x) => Omitted(x)'
  PROVE  /\ Grows /\ Since' /\ AnswersShow' /\ <<kind, Len(answers) + 1>> \in Entry
         /\ \A i \in 1..Len(turns) : turns[i].reply # 0 =>
              turns[i].reply <= Len(answers') /\ answers'[turns[i].reply].kind = "reply"
         /\ \A s \in Done : /\ s.index < NextIndex /\ turn.replay[s.index] = s.call
                            /\ s.call <= Len(answers') /\ answers'[s.call].kind = "call"
                            /\ s.call # Len(answers) + 1
         /\ \A s, z \in Done : s.call = z.call \/ s.index = z.index => s = z
<1> DEFINE r == Len(answers) + 1
           e == <<kind, r>>
<1>1. /\ Len(answers) \in Nat /\ r \in Nat /\ DOMAIN answers = 1..Len(answers)
      /\ DOMAIN turns = 1..Len(turns) /\ turns \in Seq(KeptTurn) /\ Done \subseteq Steps
      /\ DOMAIN said = 1..Len(said) /\ Len(said) \in Nat
  BY Facts
<1>2. e \in Entry
  <2>1. kind \in Kinds
    BY SeenTyped
  <2> HIDE DEF r
  <2> QED
    BY <1>1, <2>1, SeenTyped
<1>3. /\ Len(answers') = r /\ \A i \in 1..Len(answers) : answers'[i] = answers[i]
      /\ \E a \in AnswerShape : answers' = Append(answers, a)
      /\ Last(answers').kind = kind
  BY AnswerTyped
<1>4. \A m \in 1..Len(said) : said[m] # e
  <2>1. \A m \in 1..Len(said) : said[m][1] \in {"call", "reply"} => said[m][2] \in 1..Len(answers)
    BY <1>1 DEF SessionInv, SaidOnce
  <2>2. e[1] \in {"call", "reply"} /\ e[2] \notin 1..Len(answers)
    BY <1>1
  <2> HIDE DEF e
  <2> QED
    BY <2>1, <2>2
<1>5. Grows
  BY <1>2, <1>3, <1>4, SpokenGrows
<1>6. AnswersShow'
  BY <1>5, AnswersShowMore
<1>7. Since'
  <2>1. /\ DOMAIN said' = 1..Len(said) + 1
        /\ \A m \in 1..Len(said) : said'[m] = said[m]
        /\ \A m \in 1..Len(said) + 1 : m \in 1..Len(said) \/ m = Len(said) + 1
    BY <1>2, SaidNext
  <2>2. ASSUME NEW q \in DOMAIN said', NEW m \in DOMAIN said', q < m,
               said'[q] = <<Last(answers').kind, Len(answers')>>
        PROVE  FALSE
    <3>1. said'[q] = e
      BY <1>3, <2>2
    <3>2. q \in 1..Len(said)
      BY <1>1, <2>1, <2>2
    <3> QED
      BY <1>4, <2>1, <3>1, <3>2
  <2> QED
    BY <2>2 DEF Since
<1>8. \A i \in 1..Len(turns) : turns[i].reply # 0 =>
        turns[i].reply <= Len(answers') /\ answers'[turns[i].reply].kind = "reply"
  <2> TAKE i \in 1..Len(turns)
  <2> HAVE turns[i].reply # 0
  <2>1. turns[i].reply <= Len(answers) /\ answers[turns[i].reply].kind = "reply"
    BY <1>1 DEF SessionInv, StateIsLatest
  <2>2. turns[i] \in KeptTurn
    BY <1>1
  <2>3. turns[i].reply \in Nat
    BY <2>2, SaidTyped
  <2>4. turns[i].reply \in 1..Len(answers) /\ turns[i].reply <= r
    BY <1>1, <2>1, <2>3
  <2> QED
    BY <1>3, <2>1, <2>4
<1>9. \A s \in Done : /\ s.index < NextIndex /\ turn.replay[s.index] = s.call
                      /\ s.call <= Len(answers') /\ answers'[s.call].kind = "call"
                      /\ s.call # r
  <2> TAKE s \in Done
  <2>1. s.index < NextIndex /\ Data[s.index] = s.call /\ s.call <= Len(answers) /\ answers[s.call].kind = "call"
    BY DEF SessionInv, StepsKept
  <2>2. Data = turn.replay
    BY DEF Data, Idle, Asked
  <2>3. s.call \in 1..MaxAnswers /\ s.call \in Nat
    BY <1>1, SaidTyped
  <2>4. s.call \in 1..Len(answers) /\ s.call <= r /\ s.call # r
    BY <1>1, <2>1, <2>3
  <2> QED
    BY <1>3, <2>1, <2>2, <2>4
<1>10. \A s, z \in Done : s.call = z.call \/ s.index = z.index => s = z
  BY DEF SessionInv, StepsKept
<1> QED
  BY <1>2, <1>5, <1>6, <1>7, <1>8, <1>9, <1>10

\* The turn under way as it has been said, and what is said in addition.
LEMMA PresentAsked ==
  ASSUME SessionInv, turn.phase \in {"ready", "asked"}, NEW e \in Entry, said' = Append(said, e)
  PROVE  /\ said' = PastSaid(turns) \o (<<<<"user", Len(turns) + 1>>>> \o StepsSaid(turn.steps) \o <<e>>)
         /\ said = PastSaid(turns) \o (<<<<"user", Len(turns) + 1>>>> \o StepsSaid(turn.steps))
<1> DEFINE p == PastSaid(turns)
           u == <<<<"user", Len(turns) + 1>>>>
           q == StepsSaid(turn.steps)
           z == <<e>>
<1>1. said = p \o (u \o q \o <<>>)
  BY DEF SessionInv, SaidKept, PresentSaid
<1>2. said' = said \o z /\ z \in Seq(Entry)
  BY Facts, AppendIsConcat, OneOf
<1>3. p \in Seq(Entry) /\ q \in Seq(Entry)
  BY Facts, PastSaidTyped, StepsSaidTyped
<1>4. u \in Seq(Entry)
  <2>1. Len(turns) + 1 \in Nat
    BY Facts
  <2>2. <<"user", Len(turns) + 1>> \in Entry
    BY <2>1, SaidTyped
  <2> QED
    BY <2>2, OneOf
<1> HIDE DEF p, u, q, z
<1>5. u \o q \in Seq(Entry) /\ (u \o q) \o <<>> = u \o q
  BY <1>3, <1>4, ConcatProperties, ConcatEmptySeq
<1>6. said = p \o (u \o q)
  BY <1>1, <1>5
<1> DEFINE uq == u \o q
<1>7. said = p \o uq /\ uq \in Seq(Entry)
  BY <1>5, <1>6
<1>8. u \o q \o z = uq \o z
  OBVIOUS
<1> HIDE DEF uq
<1>9. (p \o uq) \o z = p \o (uq \o z)
  BY <1>2, <1>3, <1>7, ConcatAssociative
<1>10. said' = p \o (uq \o z)
  BY <1>2, <1>7, <1>9
<1> QED
  BY <1>6, <1>8, <1>10 DEF p, u, q, z

LEMMA AnswerCallKeeps ==
  ASSUME SessionInv, NEW style \in Style, AnswerCall(style)
  PROVE  SessionInv'
<1> DEFINE r == Len(answers) + 1
           e == <<"call", r>>
<1>1. /\ Asked /\ turn.phase = "asked"
      /\ answers' = Answer("call", style) /\ said' = Append(said, e)
      /\ turn' = [turn EXCEPT !.phase = "running", !.call = r, !.state = r]
      /\ turns' = turns /\ replay' = replay /\ state' = state /\ next' = next /\ shown' = shown
  BY DEF AnswerCall, Asked
<1>2. /\ r \in 1..MaxAnswers /\ Len(turn.steps) + 1 <= MaxSteps
      /\ ~Idle /\ ~Running /\ turn.call = 0
  BY <1>1, AnswerRoom
<1>3. /\ Len(turns) \in Nat /\ Len(answers) \in Nat /\ r \in Nat /\ r # 0 /\ turn \in TurnShape
      /\ Len(turn.steps) \in Nat
  BY Facts
<1>4. /\ turn' \in TurnShape
      /\ turn'.phase = "running" /\ turn'.call = r /\ turn'.state = r
      /\ turn'.steps = turn.steps /\ turn'.replay = turn.replay
  <2> HIDE DEF r
  <2>1. r \in 0..MaxAnswers
    BY <1>2, <1>3, BoundsNat
  <2> QED
    BY <1>1, <1>3, <2>1 DEF TurnShape
<1>5. ~Idle' /\ Running' /\ ~Asked'
  BY <1>4 DEF Idle, Running, Asked
<1>6. /\ Done' = Done /\ NextIndex' = NextIndex /\ Data' = turn.replay /\ Latest' = r
      /\ \A s \in Done : s \in Done'
  <2>1. Data' = turn.replay /\ Latest' = r
    BY <1>4, <1>5 DEF Data, Latest
  <2>2. Done' = Done /\ NextIndex' = NextIndex
    BY <1>1, <1>4 DEF NextIndex, Done
  <2> QED
    BY <2>1, <2>2
<1>7. \A x : Omitted(x) => Omitted(x)'
  BY <1>1 DEF Omitted, Fruitless
<1>8. /\ Grows /\ Since' /\ AnswersShow' /\ e \in Entry
      /\ \A i \in 1..Len(turns) : turns[i].reply # 0 =>
           turns[i].reply <= Len(answers') /\ answers'[turns[i].reply].kind = "reply"
      /\ \A s \in Done : /\ s.index < NextIndex /\ turn.replay[s.index] = s.call
                         /\ s.call <= Len(answers') /\ answers'[s.call].kind = "call"
                         /\ s.call # Len(answers) + 1
      /\ \A s, z \in Done : s.call = z.call \/ s.index = z.index => s = z
  BY <1>1, <1>6, <1>7, Answered
<1>9. answers' \in Seq(AnswerShape) /\ Len(answers') = r /\ answers'[r].kind = "call"
  BY <1>1, AnswerTyped
<1>10. said' \in Seq(Entry) /\ said' # <<>> /\ Last(said') = e
  BY <1>1, <1>8, SaidNext
<1> HIDE DEF r, e
<1>11. Shaped'
  <2>1. Shaped
    BY DEF SessionInv
  <2> QED
    BY <1>1, <1>4, <1>5, <1>9, <1>10, <2>1 DEF Shaped
<1>12. Counted'
  <2>1. /\ Len(turns) + 1 <= MaxTurns /\ next <= Len(turns) * MaxSteps + 1
        /\ Len(answers) <= Len(turns) * (MaxSteps + 1) + Len(turn.steps)
        /\ Len(turns) * (MaxSteps + 1) \in Nat
    BY <1>2, CountedFacts
  <2>2. r <= Len(turns) * (MaxSteps + 1) + Len(turn.steps) + 1
    <3> DEFINE b == Len(turns) * (MaxSteps + 1)
    <3>1. Len(answers) <= b + Len(turn.steps) /\ b \in Nat
      BY <2>1
    <3> HIDE DEF b
    <3>2. r <= b + Len(turn.steps) + 1
      BY <1>3, <3>1 DEF r
    <3> QED
      BY <3>2 DEF b
  <2> QED
    BY <1>1, <1>2, <1>4, <1>5, <1>9, <2>1, <2>2 DEF Counted
<1>13. StepsKept'
  <2>1. \A s \in Done : s.call # turn'.call
    BY <1>4, <1>8 DEF r
  <2> QED
    BY <1>6, <1>8, <2>1 DEF StepsKept
<1>14. StateIsLatest'
  <2>1. Running' <=> turn'.call # 0
    BY <1>3, <1>4, <1>5
  <2>2. DOMAIN turns' = 1..Len(turns)
    BY <1>1, Facts
  <2> QED
    BY <1>1, <1>4, <1>5, <1>6, <1>8, <1>9, <2>1, <2>2 DEF StateIsLatest
<1>15. SaidOnce'
  <2> DEFINE k == Len(turns') + (IF Idle' THEN 0 ELSE 1)
  <2>1. k = Len(turns) + (IF Idle THEN 0 ELSE 1) /\ k \in Nat /\ k <= k
    BY <1>1, <1>2, <1>3, <1>5
  <2>2. e[1] = "call" /\ e[2] \in 1..Len(answers')
    BY <1>3, <1>9 DEF e
  <2>3. Len(turns) + (IF Idle THEN 0 ELSE 1) <= k
    BY <2>1
  <2> QED
    BY <1>1, <1>8, <2>1, <2>2, <2>3, OnceGoesOn
<1>16. SaidPaired'
  <2>1. e[1] = "call" /\ e[2] = turn'.call
    BY <1>4 DEF e
  <2> QED
    BY <1>1, <1>2, <1>6, <1>8, <2>1, PairedGoesOn
<1>17. SaidLast'
  BY <1>4, <1>5, <1>10 DEF SaidLast, e
<1>18. SaidKept'
  <2>1. said' = PastSaid(turns) \o (<<<<"user", Len(turns) + 1>>>> \o StepsSaid(turn.steps) \o <<e>>)
    BY <1>1, <1>8, PresentAsked
  <2>2. PresentSaid(Len(turns) + 1, turn') = <<<<"user", Len(turns) + 1>>>> \o StepsSaid(turn.steps) \o <<e>>
    BY <1>4 DEF PresentSaid, e
  <2>3. said' = PastSaid(turns') \o PresentSaid(Len(turns') + 1, turn')
    BY <1>1, <2>1, <2>2
  <2> QED
    BY <2>3 DEF SaidKept, PastSaid, PresentSaid, StepsSaid, StepSaid, TurnSaid, ReplySaid
<1> QED
  BY <1>5, <1>8, <1>11, <1>12, <1>13, <1>14, <1>15, <1>16, <1>17, <1>18 DEF SessionInv

LEMMA AnswerReplyKeeps ==
  ASSUME SessionInv, NEW style \in Style, AnswerReply(style)
  PROVE  SessionInv'
<1> DEFINE r == Len(answers) + 1
           e == <<"reply", r>>
           t == [turn EXCEPT !.state = r]
<1>1. /\ Asked /\ turn.phase = "asked"
      /\ answers' = Answer("reply", style) /\ said' = Append(said, e)
      /\ EndTurn(t, r) /\ shown' = shown
  BY DEF AnswerReply, Asked
<1>2. /\ r \in 1..MaxAnswers /\ Len(turn.steps) + 1 <= MaxSteps
      /\ ~Idle /\ ~Running /\ turn.call = 0
  BY <1>1, AnswerRoom
<1>3. /\ Len(turns) \in Nat /\ Len(answers) \in Nat /\ r \in Nat /\ r # 0 /\ turn \in TurnShape
      /\ Len(turn.steps) \in Nat /\ Len(said) \in Nat
  BY Facts
<1>4. /\ t \in TurnShape /\ r \in 0..MaxAnswers
      /\ t.state = r /\ t.steps = turn.steps /\ t.replay = turn.replay
  <2> HIDE DEF r
  <2>1. r \in 0..MaxAnswers
    BY <1>2, <1>3, BoundsNat
  <2> QED
    BY <1>3, <2>1 DEF TurnShape
<1> HIDE DEF t
<1>5. /\ turn' = NoTurn /\ Idle' /\ ~Running' /\ ~Asked'
      /\ turn'.steps = <<>> /\ turn'.call = 0
      /\ NextIndex' = next + Len(t.steps) /\ Data' = t.replay /\ Latest' = t.state
      /\ \A s : s \in Done' <=> \/ s \in ToSet(t.steps)
                                \/ \E i \in 1..Len(turns) : s \in ToSet(turns[i].steps)
      /\ \A x : Omitted(x) => Omitted(x)'
  BY <1>1, <1>4, Ended
<1>6. Done' = Done /\ NextIndex' = NextIndex /\ Data' = turn.replay /\ Latest' = r
  <2>1. Done' = Done
    BY <1>4, <1>5, Facts DEF Done
  <2> QED
    BY <1>4, <1>5, <2>1 DEF NextIndex
<1>7. \A s \in Done : s \in Done'
  BY <1>6
<1>8. /\ Grows /\ Since' /\ AnswersShow' /\ e \in Entry
      /\ \A i \in 1..Len(turns) : turns[i].reply # 0 =>
           turns[i].reply <= Len(answers') /\ answers'[turns[i].reply].kind = "reply"
      /\ \A s \in Done : /\ s.index < NextIndex /\ turn.replay[s.index] = s.call
                         /\ s.call <= Len(answers') /\ answers'[s.call].kind = "call"
                         /\ s.call # Len(answers) + 1
      /\ \A s, z \in Done : s.call = z.call \/ s.index = z.index => s = z
  BY <1>1, <1>5, <1>7, Answered
<1>9. answers' \in Seq(AnswerShape) /\ Len(answers') = r /\ answers'[r].kind = "reply"
  BY <1>1, AnswerTyped
<1>10. said' \in Seq(Entry) /\ said' # <<>> /\ Last(said') = e
  BY <1>1, <1>8, SaidNext
<1>11. /\ Len(turns') = Len(turns) + 1 /\ DOMAIN turns' = 1..Len(turns) + 1
       /\ \A i \in 1..Len(turns) : turns'[i] = turns[i]
       /\ turns'[Len(turns) + 1].reply = r
       /\ \A i \in 1..Len(turns) + 1 : i \in 1..Len(turns) \/ i = Len(turns) + 1
  <2>1. \A i \in 1..Len(turns) + 1 : i \in 1..Len(turns) \/ i = Len(turns) + 1
    BY <1>3
  <2> QED
    BY <1>1, <1>4, <2>1, EndedTurns
<1>12. Shaped'
  BY <1>1, <1>4, <1>9, <1>10, EndedShaped
<1>13. Counted'
  <2>1. /\ Len(turn.steps) <= MaxSteps
        /\ Len(answers) <= Len(turns) * (MaxSteps + 1) + Len(turn.steps)
        /\ Len(turns) * (MaxSteps + 1) \in Nat
    BY <1>2, CountedFacts
  <2>2. Len(answers') <= Len(turns) * (MaxSteps + 1) + Len(t.steps) + 1
    <3> DEFINE b == Len(turns) * (MaxSteps + 1)
    <3>1. Len(answers) <= b + Len(turn.steps) /\ b \in Nat
      BY <2>1
    <3> HIDE DEF b
    <3>2. Len(answers') <= b + Len(t.steps) + 1
      BY <1>3, <1>4, <1>9, <3>1
    <3> QED
      BY <3>2 DEF b
  <2>3. Len(answers') \in Nat
    BY <1>3, <1>9
  <2> QED
    BY <1>1, <1>2, <1>4, <2>1, <2>2, <2>3, EndedCounted
<1> HIDE DEF r, e
<1>14. StepsKept'
  <2>1. \A s \in Done : s.call # turn'.call
    <3>1. \A s \in Done : s.call \in 1..MaxAnswers
      BY Facts, SaidTyped
    <3> QED
      BY <1>5, <3>1, BoundsNat
  <2> QED
    BY <1>6, <1>8, <2>1 DEF StepsKept
<1>15. StateIsLatest'
  <2>1. Running' <=> turn'.call # 0
    BY <1>5
  <2>2. \A i \in DOMAIN turns' : turns'[i].reply # 0 =>
           turns'[i].reply <= Len(answers') /\ answers'[turns'[i].reply].kind = "reply"
    BY <1>3, <1>8, <1>9, <1>11
  <2>3. Last(turns').reply = Len(answers')
    BY <1>9, <1>11 DEF Last
  <2> QED
    BY <1>5, <1>6, <1>9, <2>1, <2>2, <2>3 DEF StateIsLatest
<1>16. SaidOnce'
  <2> DEFINE k == Len(turns') + (IF Idle' THEN 0 ELSE 1)
  <2>1. k = Len(turns) + (IF Idle THEN 0 ELSE 1) /\ k \in Nat /\ k <= k
    BY <1>2, <1>3, <1>5, <1>11
  <2>2. e[1] = "reply" /\ e[2] \in 1..Len(answers')
    BY <1>3, <1>9 DEF e
  <2>3. Len(turns) + (IF Idle THEN 0 ELSE 1) <= k
    BY <2>1
  <2> QED
    BY <1>1, <1>8, <2>1, <2>2, <2>3, OnceGoesOn
<1>17. SaidPaired'
  <2>1. e[1] = "reply"
    BY DEF e
  <2> QED
    BY <1>1, <1>2, <1>7, <1>8, <2>1, PairedGoesOn
<1>18. SaidLast'
  BY <1>5 DEF SaidLast
<1>19. SaidKept'
  <2>1. said' = PastSaid(turns) \o (<<<<"user", Len(turns) + 1>>>> \o StepsSaid(turn.steps) \o <<e>>)
    BY <1>1, <1>8, PresentAsked
  <2>2. ReplySaid(r) = <<e>>
    BY <1>3 DEF ReplySaid, e
  <2>3. said' = PastSaid(turns) \o (<<<<"user", Len(turns) + 1>>>> \o StepsSaid(t.steps) \o ReplySaid(r))
    BY <1>4, <2>1, <2>2
  <2> QED
    BY <1>1, <1>4, <2>3, EndedSaid
<1> QED
  BY <1>5, <1>8, <1>12, <1>13, <1>14, <1>15, <1>16, <1>17, <1>18, <1>19 DEF SessionInv

\* The turn under way after the tool has run.
LEMMA AfterRun ==
  ASSUME SessionInv, Running,
         NEW z, z = [index |-> NextIndex, call |-> turn.call],
         NEW t, t = [turn EXCEPT !.phase = "ready", !.call = 0,
                       !.steps = Append(@, z), !.replay[NextIndex] = turn.call]
  PROVE  /\ z \in Steps /\ z.index = NextIndex /\ z.call = turn.call
         /\ t \in TurnShape /\ t.phase = "ready" /\ t.call = 0 /\ t.state = turn.state
         /\ t.steps # <<>> /\ Len(t.steps) = Len(turn.steps) + 1 /\ Last(t.steps) = z
         /\ t.replay = [turn.replay EXCEPT ![NextIndex] = turn.call]
         /\ \A x : x \in ToSet(t.steps) <=> x \in ToSet(turn.steps) \/ x = z
         /\ StepsSaid(t.steps) = StepsSaid(turn.steps) \o StepSaid(z)
<1> DEFINE more == Append(turn.steps, z)
           data == [turn.replay EXCEPT ![NextIndex] = turn.call]
<1>1. z \in Steps /\ z.index = NextIndex /\ z.call = turn.call
  BY StepRoom DEF Steps
<1>2. turn \in TurnShape /\ turn.steps \in Seq(Steps) /\ turn.replay \in ReplayData /\ Len(turn.steps) \in Nat
  BY Facts
<1>3. more \in Seq(Steps) /\ Len(more) = Len(turn.steps) + 1 /\ more # <<>> /\ more[Len(turn.steps) + 1] = z
  BY <1>1, <1>2, AppendProperties
<1>4. ToSet(more) = ToSet(turn.steps) \cup {z}
  BY <1>1, <1>2, ToSetAppend
<1>5. StepsSaid(more) = StepsSaid(turn.steps) \o StepSaid(z)
  BY <1>1, <1>2, StepsSaidAppend
<1>6. data \in ReplayData
  <2>1. turn.call \in 0..MaxAnswers
    BY StepRoom, BoundsNat
  <2> QED
    BY <1>2, <2>1 DEF ReplayData
<1> HIDE DEF more, data
<1>7. /\ t \in TurnShape /\ t.phase = "ready" /\ t.call = 0 /\ t.state = turn.state
      /\ t.steps = more /\ t.replay = data
  <2>1. t = [turn EXCEPT !.phase = "ready", !.call = 0, !.steps = more, !.replay = data]
    BY <1>2 DEF more, data, TurnShape
  <2>2. data \in [1..MaxIndex -> 0..MaxAnswers] /\ 0 \in 0..MaxAnswers
    BY <1>6, BoundsNat DEF ReplayData
  <2> QED
    BY <1>2, <1>3, <2>1, <2>2 DEF TurnShape
<1>8. Last(more) = z
  BY <1>3 DEF Last
<1>9. /\ t.steps # <<>> /\ Len(t.steps) = Len(turn.steps) + 1 /\ Last(t.steps) = z
      /\ StepsSaid(t.steps) = StepsSaid(turn.steps) \o StepSaid(z)
  BY <1>3, <1>5, <1>7, <1>8
<1>10. \A x : x \in ToSet(t.steps) <=> x \in ToSet(turn.steps) \/ x = z
  BY <1>4, <1>7
<1>11. t.replay = [turn.replay EXCEPT ![NextIndex] = turn.call]
  BY <1>7 DEF data
<1> QED
  BY <1>1, <1>7, <1>9, <1>10, <1>11

\* What has been said once the tool has run.
LEMMA PresentRun ==
  ASSUME SessionInv, Running, NEW z, z = [index |-> NextIndex, call |-> turn.call],
         said' = Append(said, <<"output", NextIndex>>)
  PROVE  /\ said' = PastSaid(turns) \o (<<<<"user", Len(turns) + 1>>>>
                                          \o (StepsSaid(turn.steps) \o StepSaid(z)) \o <<>>)
         /\ <<"output", NextIndex>> \in Entry
<1> DEFINE p == PastSaid(turns)
           u == <<<<"user", Len(turns) + 1>>>>
           q == StepsSaid(turn.steps)
           c == <<"call", turn.call>>
           e == <<"output", NextIndex>>
           sc == <<c>>
           se == <<e>>
           ce == <<c, e>>
<1>1. turn.phase = "running"
  BY DEF Running
<1>2. said = p \o (u \o q \o sc)
  BY <1>1 DEF SessionInv, SaidKept, PresentSaid
<1>3. c \in Entry /\ e \in Entry /\ <<"user", Len(turns) + 1>> \in Entry
  <2>1. turn.call \in Nat /\ NextIndex \in Nat /\ Len(turns) + 1 \in Nat
    BY Facts
  <2>2. "call" \in Kinds /\ "output" \in Kinds /\ "user" \in Kinds
    BY SeenTyped
  <2> QED
    BY <2>1, <2>2, SeenTyped
<1> HIDE DEF c, e
<1>4. said' = said \o se /\ se \in Seq(Entry) /\ sc \in Seq(Entry) /\ u \in Seq(Entry)
  <2>1. said' = said \o se
    BY <1>3, Facts, AppendIsConcat DEF e
  <2> QED
    BY <1>3, <2>1, OneOf
<1>5. sc \o se = ce /\ ce \in Seq(Entry)
  <2>1. sc \o se = ce
    BY <1>3, PairOf
  <2> QED
    BY <1>3, <2>1, TwoOf
<1>6. p \in Seq(Entry) /\ q \in Seq(Entry)
  BY Facts, PastSaidTyped, StepsSaidTyped
<1>7. StepSaid(z) = ce
  BY DEF StepSaid, c, e
<1> HIDE DEF p, u, q, sc, se, ce
<1> DEFINE uq == u \o q
           uqc == uq \o sc
           qce == q \o ce
           all == u \o qce
<1>8. uq \in Seq(Entry) /\ uqc \in Seq(Entry) /\ qce \in Seq(Entry) /\ all \in Seq(Entry)
  BY <1>4, <1>5, <1>6, ConcatProperties
<1>9. \A x, y, v \in Seq(Entry) : (x \o y) \o v = x \o (y \o v)
  BY Assoc
<1>10. said = p \o uqc /\ uqc = uq \o sc /\ uq = u \o q /\ all = u \o qce /\ qce = q \o ce
  BY <1>2
<1>11. (u \o q) \o ce = u \o (q \o ce)
  BY <1>4, <1>5, <1>6, <1>9
<1>12. all \o <<>> = all
  BY <1>8, ConcatEmptySeq
<1> HIDE DEF uqc, all, uq, qce
<1>13. (p \o uqc) \o se = p \o (uqc \o se)
  <2>1. p \in Seq(Entry) /\ uqc \in Seq(Entry) /\ se \in Seq(Entry)
    BY <1>4, <1>6, <1>8
  <2> QED
    BY <1>9, <2>1
<1>14. (uq \o sc) \o se = uq \o (sc \o se)
  <2>1. uq \in Seq(Entry) /\ sc \in Seq(Entry) /\ se \in Seq(Entry)
    BY <1>4, <1>8
  <2> QED
    BY <1>9, <2>1
<1>15. said' = p \o (all \o <<>>)
  BY <1>4, <1>5, <1>10, <1>11, <1>12, <1>13, <1>14
<1>16. said' = p \o (u \o (q \o StepSaid(z)) \o <<>>)
  BY <1>7, <1>10, <1>15
<1> QED
  BY <1>3, <1>16 DEF p, u, q, e

\* What the output of a step changes, whether or not the turn goes on.
LEMMA Ran ==
  ASSUME SessionInv, Running, NEW z \in Steps, z.index = NextIndex, z.call = turn.call,
         said' = Append(said, <<"output", NextIndex>>), <<"output", NextIndex>> \in Entry,
         answers' = answers,
         \A x : x \in Done' <=> x \in Done \/ x = z,
         NextIndex' = NextIndex + 1,
         Data' = [turn.replay EXCEPT ![NextIndex] = turn.call],
         turn'.call = 0, ~Running',
         Len(turns') + (IF Idle' THEN 0 ELSE 1) = Len(turns) + 1,
         \A x : Omitted(x) => Omitted(x)'
  PROVE  /\ StepsKept' /\ SaidOnce' /\ SaidPaired' /\ Since' /\ AnswersShow'
<1> DEFINE s == NextIndex
           e == <<"output", s>>
<1>1. /\ Len(answers) \in Nat /\ Len(turns) \in Nat /\ s \in Nat /\ DOMAIN said = 1..Len(said) /\ Len(said) \in Nat
      /\ said \in Seq(Entry)
      /\ turn.call # 0 /\ turn.call = Len(answers) /\ answers[Len(answers)].kind = "call"
      /\ turn.replay \in [1..MaxIndex -> 0..MaxAnswers] /\ Done \subseteq Steps
  BY Facts DEF ReplayData
<1>2. s \in 1..MaxIndex /\ ~Idle
  BY StepRoom
<1>3. /\ \A x \in Done : /\ x.index < s /\ turn.replay[x.index] = x.call
                         /\ x.call <= Len(answers) /\ answers[x.call].kind = "call"
                         /\ x.call # turn.call
      /\ \A x, y \in Done : x.call = y.call \/ x.index = y.index => x = y
  <2>1. Data = turn.replay
    BY <1>2 DEF Data
  <2> QED
    BY <2>1 DEF SessionInv, StepsKept
<1>4. \A x \in Done : x.index \in 1..MaxIndex /\ x.call \in 1..MaxAnswers /\ x.index \in Nat /\ x.call \in Nat
  BY <1>1, SaidTyped
<1>5. e[1] = "output" /\ e[2] = s
  OBVIOUS
<1> HIDE DEF s
<1>6. StepsKept'
  <2>1. \A x \in Done' : /\ x.index < s + 1 /\ Data'[x.index] = x.call
                         /\ x.call <= Len(answers) /\ answers[x.call].kind = "call"
                         /\ x.call # 0
    <3> TAKE x \in Done'
    <3>1. CASE x = z
      <4>1. x.index = s /\ x.call = turn.call /\ s < s + 1
        BY <1>1, <3>1 DEF s
      <4>2. Data'[s] = turn.call
        BY <1>1, <1>2 DEF s
      <4>3. x.call = Len(answers) /\ Len(answers) <= Len(answers)
        BY <1>1, <4>1
      <4> QED
        BY <1>1, <4>1, <4>2, <4>3
    <3>2. CASE x \in Done
      <4>1. x.index < s /\ x.index # s /\ x.index < s + 1 /\ x.call # 0
        BY <1>1, <1>3, <1>4, <3>2
      <4>2. Data'[x.index] = turn.replay[x.index]
        BY <1>1, <1>4, <3>2, <4>1 DEF s
      <4> QED
        BY <1>3, <3>2, <4>1, <4>2
    <3> QED
      BY <3>1, <3>2
  <2>2. ASSUME NEW x \in Done', NEW y \in Done', x.call = y.call \/ x.index = y.index PROVE x = y
    <3>1. \A w \in Done : w.call # z.call /\ w.index # z.index
      BY <1>1, <1>3, <1>4 DEF s
    <3> QED
      BY <1>3, <2>2, <3>1
  <2> QED
    BY <2>1, <2>2 DEF StepsKept, s
<1>7. \A m \in 1..Len(said) : said[m] # e
  <2> SUFFICES ASSUME NEW m \in 1..Len(said), said[m] = e PROVE FALSE
    OBVIOUS
  <2>1. said[m][1] = "output"
    BY <1>5
  <2>2. PICK x \in Done : said[m] = <<"output", x.index>>
    BY <1>1, <2>1 DEF SessionInv, SaidPaired
  <2>3. said[m][2] = x.index /\ said[m][2] = s
    BY <1>5, <2>2
  <2>4. x.index < s /\ x.index \in Nat
    BY <1>3, <1>4
  <2> QED
    BY <1>1, <2>3, <2>4
<1>8. \A x \in Done : x \in Done'
  OBVIOUS
<1>9. said' = Append(said, e) /\ e \in Entry
  BY DEF s
<1> HIDE DEF e
<1>10. Grows
  BY <1>7, <1>8, <1>9, SpokenGrows
<1>11. SaidOnce'
  <2> DEFINE k == Len(turns') + (IF Idle' THEN 0 ELSE 1)
  <2>1. k = Len(turns) + (IF Idle THEN 0 ELSE 1) /\ k \in Nat /\ k <= k
    BY <1>1, <1>2
  <2>2. Len(turns) + (IF Idle THEN 0 ELSE 1) <= k
    BY <2>1
  <2> QED
    BY <1>5, <1>9, <1>10, <2>1, <2>2, OnceGoesOn
<1>12. /\ Len(said') = Len(said) + 1 /\ DOMAIN said' = 1..Len(said) + 1
       /\ \A m \in 1..Len(said) : said'[m] = said[m]
       /\ said'[Len(said) + 1] = e
       /\ \A m \in 1..Len(said) + 1 : m \in 1..Len(said) \/ m = Len(said) + 1
  BY <1>9, SaidNext
<1>13. said[Len(said)] = <<"call", turn.call>> /\ Len(said) \in 1..Len(said)
  <2>1. said # <<>> /\ Last(said) = <<"call", turn.call>>
    BY DEF SessionInv, SaidLast
  <2> QED
    BY <1>1, <2>1 DEF Last
<1>14. SaidPaired'
  <2>1. z \in Done' /\ <<"output", z.index>> = e /\ <<"call", z.call>> = <<"call", turn.call>>
    BY DEF e, s
  <2>2. ASSUME NEW m \in 1..Len(said) + 1
        PROVE  /\ said'[m][1] = "call" =>
                    m < Len(said') /\ \E x \in Done' : said'[m] = <<"call", x.call>> /\ said'[m + 1] = <<"output", x.index>>
               /\ said'[m][1] = "output" =>
                    m > 1 /\ \E x \in Done' : said'[m - 1] = <<"call", x.call>> /\ said'[m] = <<"output", x.index>>
    <3>1. CASE m = Len(said) + 1
      <4>1. m - 1 = Len(said) /\ m > 1
        BY <1>1, <1>13, <3>1
      <4>2. said'[m - 1] = <<"call", z.call>> /\ said'[m] = <<"output", z.index>>
        BY <1>12, <1>13, <2>1, <3>1, <4>1
      <4> QED
        BY <1>5, <1>12, <2>1, <3>1, <4>1, <4>2
    <3>2. CASE m \in 1..Len(said)
      <4>1. m = Len(said) => m < Len(said') /\ said'[m] = <<"call", z.call>> /\ said'[m + 1] = <<"output", z.index>>
        BY <1>1, <1>12, <1>13, <2>1
      <4> QED
        BY <1>8, <1>9, <1>12, <2>1, <3>2, <4>1, PairsStay
    <3> QED
      BY <1>12, <3>1, <3>2
  <2> QED
    BY <1>12, <2>2 DEF SaidPaired
<1>15. Since'
  <2>1. ASSUME NEW q \in DOMAIN said', NEW m \in DOMAIN said', q < m, answers # <<>>,
               said'[q] = <<Last(answers).kind, Len(answers)>>
        PROVE  Last(answers).kind = "call" /\ m = q + 1
    <3>1. Last(answers).kind = "call"
      BY <1>1 DEF Last
    <3>2. q \in 1..Len(said) /\ said[q] = <<"call", turn.call>>
      BY <1>1, <1>12, <2>1, <3>1
    <3>3. q = Len(said)
      BY <1>1, <1>13, <3>2 DEF SessionInv, SaidOnce
    <3> QED
      BY <1>1, <1>12, <2>1, <3>1, <3>3
  <2> QED
    BY <2>1 DEF Since
<1>16. AnswersShow'
  BY <1>10, AnswersShowKept
<1> QED
  BY <1>6, <1>11, <1>14, <1>15, <1>16

\* Replies that are kept, also when a turn without one is added.
LEMMA RepliesStay ==
  ASSUME SessionInv
  PROVE  \A i \in 1..Len(turns) : turns[i].reply # 0 =>
           turns[i].reply <= Len(answers) /\ answers[turns[i].reply].kind = "reply"
  BY Facts DEF SessionInv, StateIsLatest

LEMMA RunStepKeeps ==
  ASSUME SessionInv, NEW ends \in BOOLEAN, RunStep(ends)
  PROVE  SessionInv'
<1> DEFINE s == NextIndex
           e == <<"output", s>>
           made == [index |-> s, call |-> turn.call]
           after == [turn EXCEPT !.phase = "ready", !.call = 0,
                       !.steps = Append(@, made), !.replay[s] = turn.call]
<1>1. /\ turn.phase = "running" /\ Running
      /\ said' = Append(said, e)
      /\ \/ ends /\ EndTurn(after, 0)
         \/ ~ends /\ turn' = after /\ turns' = turns /\ replay' = replay /\ state' = state /\ next' = next
      /\ answers' = answers /\ shown' = shown
  BY DEF RunStep, Running
<1>2. PICK z : z = made
  OBVIOUS
<1>3. PICK t : t = [turn EXCEPT !.phase = "ready", !.call = 0,
                     !.steps = Append(@, z), !.replay[NextIndex] = turn.call]
  OBVIOUS
<1>4. t = after
  BY <1>2, <1>3
<1> HIDE DEF after
<1>5. /\ z \in Steps /\ z.index = NextIndex /\ z.call = turn.call
      /\ t \in TurnShape /\ t.phase = "ready" /\ t.call = 0 /\ t.state = turn.state
      /\ t.steps # <<>> /\ Len(t.steps) = Len(turn.steps) + 1 /\ Last(t.steps) = z
      /\ t.replay = [turn.replay EXCEPT ![NextIndex] = turn.call]
      /\ \A x : x \in ToSet(t.steps) <=> x \in ToSet(turn.steps) \/ x = z
      /\ StepsSaid(t.steps) = StepsSaid(turn.steps) \o StepSaid(z)
  BY <1>1, <1>2, <1>3, AfterRun
<1>6. /\ said' = PastSaid(turns) \o (<<<<"user", Len(turns) + 1>>>> \o StepsSaid(t.steps) \o <<>>)
      /\ e \in Entry
  BY <1>1, <1>2, <1>5, PresentRun
<1> HIDE DEF made
<1>7. /\ NextIndex \in 1..MaxIndex /\ Len(turn.steps) + 1 <= MaxSteps
      /\ turn.call \in 1..MaxAnswers /\ ~Idle
  BY <1>1, StepRoom
<1>8. /\ Len(turns) \in Nat /\ Len(answers) \in Nat /\ Len(turn.steps) \in Nat /\ next \in Nat
      /\ answers \in Seq(AnswerShape) /\ turn.call = Len(answers) /\ MaxSteps \in Nat /\ MaxTurns \in Nat
      /\ DOMAIN turns = 1..Len(turns)
  BY <1>1, Facts, BoundsNat
<1>9. said' \in Seq(Entry) /\ said' # <<>> /\ Last(said') = e
  BY <1>1, <1>6, SaidNext
<1> HIDE DEF e
<1>10. turn.state = Len(answers)
  BY <1>7 DEF SessionInv, StateIsLatest, Latest
<1>11. \A x : x \in Done <=> \/ x \in ToSet(turn.steps)
                             \/ \E i \in 1..Len(turns) : x \in ToSet(turns[i].steps)
  BY <1>8 DEF Done
<1>12. NextIndex + 1 = next + Len(t.steps)
  BY <1>5, <1>8 DEF NextIndex
<1>13. CASE ~ends
  <2>1. turn' = t /\ turns' = turns /\ replay' = replay /\ state' = state /\ next' = next
    BY <1>1, <1>4, <1>13
  <2>2. ~Idle' /\ ~Running' /\ ~Asked'
    BY <1>5, <2>1 DEF Idle, Running, Asked
  <2>3. /\ Data' = [turn.replay EXCEPT ![NextIndex] = turn.call] /\ Latest' = turn.state
        /\ NextIndex' = NextIndex + 1
    BY <1>5, <1>12, <2>1, <2>2 DEF Data, Latest, NextIndex
  <2>4. \A x : x \in Done' <=> x \in Done \/ x = z
    <3>1. \A x : x \in Done' <=> x \in ToSet(t.steps) \/ \E i \in 1..Len(turns) : x \in ToSet(turns[i].steps)
      BY <1>8, <2>1 DEF Done
    <3> QED
      BY <1>5, <1>11, <3>1
  <2>5. \A x : Omitted(x) => Omitted(x)'
    BY <2>1 DEF Omitted, Fruitless
  <2>6. Len(turns') + (IF Idle' THEN 0 ELSE 1) = Len(turns) + 1
    BY <2>1, <2>2
  <2>7. turn'.call = 0
    BY <1>5, <2>1
  <2>8. StepsKept' /\ SaidOnce' /\ SaidPaired' /\ Since' /\ AnswersShow'
    BY <1>1, <1>5, <1>6, <2>2, <2>3, <2>4, <2>5, <2>6, <2>7, Ran DEF e
  <2>9. Shaped'
    <3>1. Shaped
      BY DEF SessionInv
    <3> QED
      BY <1>1, <1>5, <1>9, <2>1, <2>2, <3>1 DEF Shaped
  <2>10. Counted'
    <3>1. /\ Len(turns) + 1 <= MaxTurns /\ next <= Len(turns) * MaxSteps + 1
          /\ Len(answers) <= Len(turns) * (MaxSteps + 1) + Len(turn.steps) + 1
          /\ Len(turns) * (MaxSteps + 1) \in Nat
      BY <1>7, CountedFacts
    <3>2. Len(answers) <= Len(turns) * (MaxSteps + 1) + Len(t.steps) + 0
      <4> DEFINE b == Len(turns) * (MaxSteps + 1)
      <4>1. Len(answers) <= b + Len(turn.steps) + 1 /\ b \in Nat
        BY <3>1
      <4> HIDE DEF b
      <4>2. Len(answers) <= b + Len(t.steps) + 0
        BY <1>5, <1>8, <4>1
      <4> QED
        BY <4>2 DEF b
    <3>3. Len(t.steps) + (IF t.phase \in {"asked", "running"} THEN 1 ELSE 0) <= MaxSteps
      BY <1>5, <1>7, <1>8
    <3> QED
      BY <1>1, <1>5, <2>1, <2>2, <3>1, <3>2, <3>3 DEF Counted
  <2>11. StateIsLatest'
    <3>1. Running' <=> turn'.call # 0
      BY <2>2, <2>7
    <3>2. Last(turn'.steps).call = Len(answers')
      BY <1>1, <1>5, <1>8, <2>1
    <3>3. DOMAIN turns' = 1..Len(turns)
      BY <1>8, <2>1
    <3> QED
      BY <1>1, <1>5, <1>10, <2>1, <2>2, <2>3, <2>7, <3>1, <3>2, <3>3, RepliesStay DEF StateIsLatest
  <2>12. SaidLast'
    BY <1>5, <1>9, <2>1, <2>2 DEF SaidLast, e, s
  <2>13. SaidKept'
    <3>1. PresentSaid(Len(turns) + 1, t) = <<<<"user", Len(turns) + 1>>>> \o StepsSaid(t.steps) \o <<>>
      BY <1>5 DEF PresentSaid
    <3>2. said' = PastSaid(turns') \o PresentSaid(Len(turns') + 1, turn')
      BY <1>6, <2>1, <3>1
    <3> QED
      BY <3>2 DEF SaidKept, PastSaid, PresentSaid, StepsSaid, StepSaid, TurnSaid, ReplySaid
  <2> QED
    BY <2>2, <2>8, <2>9, <2>10, <2>11, <2>12, <2>13 DEF SessionInv
<1>14. CASE ends
  <2>1. EndTurn(t, 0) /\ 0 \in 0..MaxAnswers
    BY <1>1, <1>4, <1>14, BoundsNat
  <2>2. /\ turn' = NoTurn /\ Idle' /\ ~Running' /\ ~Asked'
        /\ turn'.steps = <<>> /\ turn'.call = 0
        /\ NextIndex' = next + Len(t.steps) /\ Data' = t.replay /\ Latest' = t.state
        /\ \A x : x \in Done' <=> \/ x \in ToSet(t.steps)
                                  \/ \E i \in 1..Len(turns) : x \in ToSet(turns[i].steps)
        /\ \A x : Omitted(x) => Omitted(x)'
    BY <1>5, <2>1, Ended
  <2>3. \A x : x \in Done' <=> x \in Done \/ x = z
    BY <1>5, <1>11, <2>2
  <2>4. /\ Len(turns') = Len(turns) + 1 /\ DOMAIN turns' = 1..Len(turns) + 1
        /\ \A i \in 1..Len(turns) : turns'[i] = turns[i]
        /\ turns'[Len(turns) + 1].reply = 0
        /\ \A i \in 1..Len(turns) + 1 : i \in 1..Len(turns) \/ i = Len(turns) + 1
    <3>1. \A i \in 1..Len(turns) + 1 : i \in 1..Len(turns) \/ i = Len(turns) + 1
      BY <1>8
    <3> QED
      BY <1>5, <2>1, <3>1, EndedTurns
  <2>5. Len(turns') + (IF Idle' THEN 0 ELSE 1) = Len(turns) + 1
    BY <1>8, <2>2, <2>4
  <2>6. NextIndex' = NextIndex + 1 /\ Data' = [turn.replay EXCEPT ![NextIndex] = turn.call]
    BY <1>5, <1>12, <2>2
  <2>7. StepsKept' /\ SaidOnce' /\ SaidPaired' /\ Since' /\ AnswersShow'
    BY <1>1, <1>5, <1>6, <2>2, <2>3, <2>5, <2>6, Ran DEF e
  <2>8. Shaped'
    BY <1>1, <1>5, <1>8, <1>9, <2>1, EndedShaped
  <2>9. Counted'
    <3>1. /\ Len(answers) <= Len(turns) * (MaxSteps + 1) + Len(turn.steps) + 1
          /\ Len(turns) * (MaxSteps + 1) \in Nat
      BY CountedFacts
    <3>2. Len(answers') <= Len(turns) * (MaxSteps + 1) + Len(t.steps) + 1
      <4> DEFINE b == Len(turns) * (MaxSteps + 1)
      <4>1. Len(answers) <= b + Len(turn.steps) + 1 /\ b \in Nat
        BY <3>1
      <4> HIDE DEF b
      <4>2. Len(answers') <= b + Len(t.steps) + 1
        BY <1>1, <1>5, <1>8, <4>1
      <4> QED
        BY <4>2 DEF b
    <3> QED
      BY <1>1, <1>5, <1>7, <1>8, <2>1, <3>2, EndedCounted
  <2>10. StateIsLatest'
    <3>1. Running' <=> turn'.call # 0
      BY <2>2
    <3>2. \A i \in DOMAIN turns' : turns'[i].reply # 0 =>
            turns'[i].reply <= Len(answers) /\ answers[turns'[i].reply].kind = "reply"
      BY <2>4, RepliesStay
    <3>3. Last(turns').reply = 0
      BY <2>4 DEF Last
    <3> QED
      BY <1>1, <1>5, <1>10, <2>2, <3>1, <3>2, <3>3 DEF StateIsLatest
  <2>11. SaidLast'
    BY <2>2 DEF SaidLast
  <2>12. SaidKept'
    <3>1. ReplySaid(0) = <<>>
      BY DEF ReplySaid
    <3>2. said' = PastSaid(turns) \o (<<<<"user", Len(turns) + 1>>>> \o StepsSaid(t.steps) \o ReplySaid(0))
      BY <1>6, <3>1
    <3> QED
      BY <1>5, <2>1, <3>2, EndedSaid
  <2> QED
    BY <2>2, <2>7, <2>8, <2>9, <2>10, <2>11, <2>12 DEF SessionInv
<1> QED
  BY <1>13, <1>14

-----------------------------------------------------------------------------
(* Requests: what the provider shows its model.                            *)

\* Items that are named as the session names them.
Good == {x \in Shape : Named(x)}

LEMMA ItemTyped ==
  /\ \A k \in Kinds, o \in Nat, i \in Int :
       /\ Item(k, o, i) \in Shape /\ Seen(Item(k, o, i)) = <<k, o>>
       /\ Item(k, o, i).kind = k /\ Item(k, o, i).of = o /\ Item(k, o, i).id = i
  /\ \A o \in Nat : /\ User(o) \in Good /\ Seen(User(o)) = <<"user", o>>
                    /\ Reply(o) \in Good /\ Seen(Reply(o)) = <<"reply", o>>
<1>1. ASSUME NEW k \in Kinds, NEW o \in Nat, NEW i \in Int
      PROVE  /\ Item(k, o, i) \in Shape /\ Seen(Item(k, o, i)) = <<k, o>>
             /\ Item(k, o, i).kind = k /\ Item(k, o, i).of = o /\ Item(k, o, i).id = i
  BY DEF Item, Shape, Seen
<1>2. ASSUME NEW o \in Nat
      PROVE  /\ User(o) \in Good /\ Seen(User(o)) = <<"user", o>>
             /\ Reply(o) \in Good /\ Seen(Reply(o)) = <<"reply", o>>
  <2>1. "user" \in Kinds /\ "reply" \in Kinds /\ 0 \in Int
    BY SeenTyped
  <2>2. /\ User(o) \in Shape /\ Seen(User(o)) = <<"user", o>> /\ User(o).kind = "user"
        /\ Reply(o) \in Shape /\ Seen(Reply(o)) = <<"reply", o>> /\ Reply(o).kind = "reply"
    BY <1>1, <2>1 DEF User, Reply
  <2> QED
    BY <2>2 DEF Good, Named
<1> QED
  BY <1>1, <1>2

LEMMA LookOne ==
  ASSUME NEW x \in Good
  PROVE  <<x>> \in Seq(Good) /\ <<x>> \in Seq(Shape) /\ Look(<<x>>) = <<Seen(x)>>
<1>1. x \in Shape
  BY DEF Good
<1> DEFINE v == <<x>>
           w == <<Seen(x)>>
<1>2. v \in Seq(Good) /\ v \in Seq(Shape) /\ Len(v) = 1 /\ v[1] = x
  BY <1>1, OneOf
<1>3. Seen(x) \in Entry
  BY <1>1, SeenTyped
<1>4. w \in Seq(Entry) /\ Len(w) = 1 /\ w[1] = Seen(x)
  BY <1>3, OneOf
<1> HIDE DEF v, w
<1>5. Look(v) \in Seq(Entry) /\ Len(Look(v)) = 1 /\ \A i \in 1..1 : Look(v)[i] = Seen(v[i])
  BY <1>2, LookTyped
<1>6. \A i \in 1..1 : Look(v)[i] = w[i]
  BY <1>2, <1>4, <1>5
<1>7. Look(v) = w
  BY <1>4, <1>5, <1>6, SeqEqual
<1> QED
  BY <1>2, <1>7 DEF v, w

LEMMA LookTwo ==
  ASSUME NEW x \in Good, NEW y \in Good
  PROVE  <<x, y>> \in Seq(Good) /\ Look(<<x, y>>) = <<Seen(x), Seen(y)>>
<1>1. x \in Shape /\ y \in Shape
  BY DEF Good
<1> DEFINE v == <<x, y>>
           w == <<Seen(x), Seen(y)>>
<1>2. v \in Seq(Good) /\ v \in Seq(Shape) /\ Len(v) = 2 /\ v[1] = x /\ v[2] = y
  BY <1>1, TwoOf
<1>3. Seen(x) \in Entry /\ Seen(y) \in Entry
  BY <1>1, SeenTyped
<1>4. w \in Seq(Entry) /\ Len(w) = 2 /\ w[1] = Seen(x) /\ w[2] = Seen(y)
  BY <1>3, TwoOf
<1> HIDE DEF v, w
<1>5. Look(v) \in Seq(Entry) /\ Len(Look(v)) = 2 /\ \A i \in 1..2 : Look(v)[i] = Seen(v[i])
  BY <1>2, LookTyped
<1>6. \A i \in 1..2 : Look(v)[i] = w[i]
  BY <1>2, <1>4, <1>5
<1>7. Look(v) = w
  BY <1>4, <1>5, <1>6, SeqEqual
<1> QED
  BY <1>2, <1>7 DEF v, w

LEMMA LookJoin ==
  ASSUME NEW u \in Seq(Good), NEW v \in Seq(Good)
  PROVE  u \o v \in Seq(Good) /\ Look(u \o v) = Look(u) \o Look(v)
<1>1. Good \subseteq Shape
  BY DEF Good
<1>2. u \in Seq(Shape) /\ v \in Seq(Shape)
  BY <1>1, SeqMonotonic
<1> QED
  BY <1>2, ConcatProperties, LookConcat

\* A step is replayed as it happened.
LEMMA StepReplayed ==
  ASSUME SessionInv, turn.phase = "ready", NEW s \in Done
  PROVE  /\ StepItems(s, turn.replay) \in Seq(Good)
         /\ Look(StepItems(s, turn.replay)) = StepSaid(s)
<1>1. s \in Steps /\ s.index \in Nat /\ s.call \in Nat /\ s.call # 0
  <2>1. s \in Steps
    BY Facts
  <2>2. s.index \in Nat /\ s.call \in Nat /\ s.call \in 1..MaxAnswers
    BY <2>1, SaidTyped
  <2> QED
    BY <2>1, <2>2, BoundsNat
<1>2. turn.replay[s.index] = s.call /\ answers[s.call].kind = "call"
  <2>1. Data = turn.replay
    BY DEF Data, Idle
  <2> QED
    BY <2>1 DEF SessionInv, StepsKept
<1> DEFINE i == StepId(s)
           x == Item("call", s.call, i)
           y == Item("output", s.index, i)
<1>3. HasLabel(s.call) <=> answers[s.call].labelled
  BY <1>1, <1>2 DEF HasLabel
<1>4. "call" \in Kinds /\ "output" \in Kinds /\ i \in Int
  BY <1>1, SeenTyped DEF StepId
<1>5. x \in Good /\ y \in Good /\ Seen(x) = <<"call", s.call>> /\ Seen(y) = <<"output", s.index>>
  <2> HIDE DEF i
  <2>1. /\ x \in Shape /\ Seen(x) = <<"call", s.call>> /\ x.kind = "call" /\ x.of = s.call /\ x.id = i
        /\ y \in Shape /\ Seen(y) = <<"output", s.index>> /\ y.kind = "output" /\ y.of = s.index /\ y.id = i
    BY <1>1, <1>4, ItemTyped
  <2> HIDE DEF x, y
  <2> QED
    BY <2>1 DEF Good, Named, i
<1>6. StepItems(s, turn.replay) = <<x, y>>
  <2>1. CASE answers[s.call].labelled
    <3>1. OutputItems(s.call) = <<x>>
      BY <1>2, <2>1 DEF OutputItems, StepId
    <3>2. StepItems(s, turn.replay) = Append(<<x>>, y)
      BY <1>2, <1>3, <2>1, <3>1 DEF StepItems, StepId
    <3> HIDE DEF x, y
    <3>3. Append(<<x>>, y) = <<x, y>>
      BY <1>5, AppendOne
    <3> QED
      BY <3>2, <3>3
  <2>2. CASE ~answers[s.call].labelled
    BY <1>2, <1>3, <2>2 DEF StepItems, StepId
  <2> QED
    BY <2>1, <2>2
<1> HIDE DEF x, y
<1>7. <<x, y>> \in Seq(Good) /\ Look(<<x, y>>) = <<Seen(x), Seen(y)>>
  BY <1>5, LookTwo
<1> QED
  BY <1>5, <1>6, <1>7 DEF StepSaid

LEMMA StepsReplayed ==
  ASSUME SessionInv, turn.phase = "ready", NEW steps \in Seq(Steps), ToSet(steps) \subseteq Done
  PROVE  /\ StepsItems(steps, turn.replay) \in Seq(Good)
         /\ Look(StepsItems(steps, turn.replay)) = StepsSaid(steps)
<1> DEFINE n == Len(steps)
           ss == [i \in DOMAIN steps |-> StepItems(steps[i], turn.replay)]
           tt == [i \in DOMAIN steps |-> StepSaid(steps[i])]
<1>1. n \in Nat /\ DOMAIN steps = 1..n
  OBVIOUS
<1>2. \A i \in 1..n : steps[i] \in Done
  BY <1>1 DEF ToSet
<1>3. \A i \in 1..n : /\ StepItems(steps[i], turn.replay) \in Seq(Good)
                      /\ Look(StepItems(steps[i], turn.replay)) = StepSaid(steps[i])
  BY <1>2, StepReplayed
<1>4. \A i \in 1..n : StepSaid(steps[i]) \in Seq(Entry)
  <2>1. \A i \in 1..n : steps[i] \in Steps
    BY <1>2, Facts
  <2> QED
    BY <2>1, SaidTyped
<1> HIDE DEF n
<1>5. ss = [i \in 1..n |-> StepItems(steps[i], turn.replay)] /\ tt = [i \in 1..n |-> StepSaid(steps[i])]
  BY <1>1
<1> HIDE DEF ss, tt
<1>6. /\ ss \in [1..n -> Seq(Good)] /\ \A i \in 1..n : ss[i] = StepItems(steps[i], turn.replay)
      /\ tt \in [1..n -> Seq(Entry)] /\ \A i \in 1..n : tt[i] = StepSaid(steps[i])
  BY <1>3, <1>4, <1>5
<1>7. ss \in Seq(Seq(Good)) /\ Len(ss) = n /\ tt \in Seq(Seq(Entry)) /\ Len(tt) = n
  BY <1>1, <1>6
<1>8. ss \in Seq(Seq(Shape))
  <2>1. Good \subseteq Shape
    BY DEF Good
  <2>2. Seq(Good) \subseteq Seq(Shape)
    BY <2>1, SeqMonotonic
  <2> QED
    BY <1>7, <2>2, SeqMonotonic
<1>9. \A i \in 1..Len(ss) : tt[i] = Look(ss[i])
  BY <1>3, <1>6, <1>7
<1>10. Look(FlattenSeq(ss)) = FlattenSeq(tt)
  BY <1>7, <1>8, <1>9, LookFlatten
<1>11. FlattenSeq(ss) \in Seq(Good)
  BY <1>7, FlattenTyped
<1>12. StepsItems(steps, turn.replay) = FlattenSeq(ss) /\ StepsSaid(steps) = FlattenSeq(tt)
  BY DEF StepsItems, StepsSaid, ss, tt
<1> QED
  BY <1>10, <1>11, <1>12

\* A turn of the past is replayed as it happened; its reply is the same
\* whether it is rendered or given as the provider made it.
LEMMA TurnReplayed ==
  ASSUME SessionInv, turn.phase = "ready", NEW t \in 1..Len(turns)
  PROVE  TurnItems(t) \in Seq(Good) /\ Look(TurnItems(t)) = TurnSaid(t, turns[t])
<1> DEFINE kept == turns[t]
           rep == IF kept.reply = 0 THEN <<>>
                  ELSE IF Request = 1 /\ t = Len(turns) /\ turn.state # 0
                         THEN OutputItems(turn.state) ELSE <<Reply(kept.reply)>>
           u == <<User(t)>>
           q == StepsItems(kept.steps, turn.replay)
<1>1. Len(turns) \in Nat /\ DOMAIN turns = 1..Len(turns) /\ kept \in KeptTurn
  BY Facts
<1>2. kept.steps \in Seq(Steps) /\ kept.reply \in Nat /\ t \in Nat
  BY <1>1, SaidTyped
<1>3. ToSet(kept.steps) \subseteq Done
  BY <1>1 DEF Done
<1>4. q \in Seq(Good) /\ Look(q) = StepsSaid(kept.steps)
  BY <1>2, <1>3, StepsReplayed
<1>5. u \in Seq(Good) /\ Look(u) = <<<<"user", t>>>>
  <2>1. User(t) \in Good /\ Seen(User(t)) = <<"user", t>>
    BY <1>2, ItemTyped
  <2> QED
    BY <2>1, LookOne
<1>6. rep \in Seq(Good) /\ Look(rep) = ReplySaid(kept.reply)
  <2>1. CASE kept.reply = 0
    <3>1. rep = <<>> /\ ReplySaid(kept.reply) = <<>> /\ Look(<<>>) = <<>>
      BY <2>1 DEF ReplySaid, Look
    <3> QED
      BY <3>1, EmptySeq
  <2>2. CASE kept.reply # 0
    <3>1. ASSUME Request = 1, t = Len(turns), turn.state # 0
          PROVE  OutputItems(turn.state) = <<Reply(kept.reply)>>
      <4>1. turn.steps = <<>>
        <5>1. Len(turn.steps) + 1 = 1 /\ turn.steps \in Seq(Steps)
          BY <3>1, Facts DEF Request
        <5> QED
          BY <5>1
      <4>2. Last(turns).reply = Len(answers) /\ Latest = Len(answers)
        <5>1. turns # <<>> /\ Last(turns) = kept /\ ~Running
          BY <1>1, <3>1 DEF Last, Running
        <5> QED
          BY <2>2, <4>1, <5>1 DEF SessionInv, StateIsLatest
      <4>3. turn.state = kept.reply
        BY <3>1, <4>2 DEF Last, Latest, Idle
      <4>4. answers[kept.reply].kind = "reply"
        BY <2>2, RepliesStay
      <4> QED
        BY <4>3, <4>4 DEF OutputItems, Reply
    <3>2. rep = <<Reply(kept.reply)>>
      BY <2>2, <3>1
    <3>3. Reply(kept.reply) \in Good /\ Seen(Reply(kept.reply)) = <<"reply", kept.reply>>
      BY <1>2, ItemTyped
    <3>4. ReplySaid(kept.reply) = <<<<"reply", kept.reply>>>>
      BY <2>2 DEF ReplySaid
    <3> QED
      BY <3>2, <3>3, <3>4, LookOne
  <2> QED
    BY <2>1, <2>2
<1>7. TurnItems(t) = u \o q \o rep
  BY DEF TurnItems
<1>8. TurnSaid(t, turns[t]) = <<<<"user", t>>>> \o StepsSaid(kept.steps) \o ReplySaid(kept.reply)
  BY DEF TurnSaid
<1> HIDE DEF u, q, rep, kept
<1> DEFINE uq == u \o q
<1>9. uq \in Seq(Good) /\ Look(uq) = Look(u) \o Look(q)
  BY <1>4, <1>5, LookJoin
<1>10. TurnItems(t) = uq \o rep
  BY <1>7
<1> HIDE DEF uq
<1>11. uq \o rep \in Seq(Good) /\ Look(uq \o rep) = Look(uq) \o Look(rep)
  BY <1>6, <1>9, LookJoin
<1>12. TurnSaid(t, turns[t]) = (Look(u) \o Look(q)) \o Look(rep)
  BY <1>4, <1>5, <1>6, <1>8
<1> QED
  BY <1>9, <1>10, <1>11, <1>12

\* What is replayed is what has been said.
LEMMA ReplayShows ==
  ASSUME SessionInv, turn.phase = "ready"
  PROVE  ReplayInput \in Seq(Good) /\ Look(ReplayInput) = said
<1> DEFINE n == Len(turns)
           ss == [t \in DOMAIN turns |-> TurnItems(t)]
           tt == [t \in DOMAIN turns |-> TurnSaid(t, turns[t])]
           a == FlattenSeq(ss)
           u == <<CurrentUser>>
           q == StepsItems(turn.steps, turn.replay)
<1>1. n \in Nat /\ DOMAIN turns = 1..n /\ turns \in Seq(KeptTurn) /\ turn.steps \in Seq(Steps) /\ n + 1 \in Nat
  BY Facts
<1>2. \A t \in 1..n : /\ TurnItems(t) \in Seq(Good) /\ Look(TurnItems(t)) = TurnSaid(t, turns[t])
                      /\ TurnSaid(t, turns[t]) \in Seq(Entry)
  <2>1. \A t \in 1..n : t \in Nat /\ turns[t] \in KeptTurn
    BY <1>1
  <2> QED
    BY <2>1, TurnReplayed, TurnSaidTyped
<1> HIDE DEF n
<1>3. ss = [t \in 1..n |-> TurnItems(t)] /\ tt = [t \in 1..n |-> TurnSaid(t, turns[t])]
  BY <1>1
<1> HIDE DEF ss, tt
<1>4. /\ ss \in [1..n -> Seq(Good)] /\ \A i \in 1..n : ss[i] = TurnItems(i)
      /\ tt \in [1..n -> Seq(Entry)] /\ \A i \in 1..n : tt[i] = TurnSaid(i, turns[i])
  BY <1>2, <1>3
<1>5. ss \in Seq(Seq(Good)) /\ Len(ss) = n /\ tt \in Seq(Seq(Entry)) /\ Len(tt) = n
  BY <1>1, <1>4
<1>6. ss \in Seq(Seq(Shape))
  <2>1. Good \subseteq Shape
    BY DEF Good
  <2>2. Seq(Good) \subseteq Seq(Shape)
    BY <2>1, SeqMonotonic
  <2> QED
    BY <1>5, <2>2, SeqMonotonic
<1>7. \A i \in 1..Len(ss) : tt[i] = Look(ss[i])
  BY <1>2, <1>4, <1>5
<1>8. a \in Seq(Good) /\ Look(a) = FlattenSeq(tt)
  <2>1. Look(FlattenSeq(ss)) = FlattenSeq(tt)
    BY <1>5, <1>6, <1>7, LookFlatten
  <2> QED
    BY <1>5, <2>1, FlattenTyped
<1>9. FlattenSeq(tt) = PastSaid(turns)
  BY DEF PastSaid, tt
<1>10. u \in Seq(Good) /\ Look(u) = <<<<"user", n + 1>>>>
  <2>1. User(n + 1) \in Good /\ Seen(User(n + 1)) = <<"user", n + 1>>
    BY <1>1, ItemTyped
  <2>2. CurrentUser = User(n + 1)
    BY DEF CurrentUser, n
  <2> QED
    BY <2>1, <2>2, LookOne
<1>11. q \in Seq(Good) /\ Look(q) = StepsSaid(turn.steps)
  <2>1. ToSet(turn.steps) \subseteq Done
    BY DEF Done
  <2> QED
    BY <1>1, <2>1, StepsReplayed
<1>12. ReplayInput = a \o u \o q
  BY DEF ReplayInput, ss
<1>13. said = PastSaid(turns) \o (<<<<"user", n + 1>>>> \o StepsSaid(turn.steps) \o <<>>)
  BY DEF SessionInv, SaidKept, PresentSaid, n
<1> HIDE DEF a, u, q
<1> DEFINE au == a \o u
           la == Look(a)
           lu == Look(u)
           lq == Look(q)
           luq == lu \o lq
<1>14. au \in Seq(Good) /\ Look(au) = la \o lu
  BY <1>8, <1>10, LookJoin
<1>15. ReplayInput = au \o q
  BY <1>12
<1>16. la \in Seq(Entry) /\ lu \in Seq(Entry) /\ lq \in Seq(Entry)
  <2>1. Good \subseteq Shape
    BY DEF Good
  <2>2. a \in Seq(Shape) /\ u \in Seq(Shape) /\ q \in Seq(Shape)
    BY <1>8, <1>10, <1>11, <2>1, SeqMonotonic
  <2> QED
    BY <2>2, LookTyped
<1> HIDE DEF au
<1>17. au \o q \in Seq(Good) /\ Look(au \o q) = Look(au) \o lq
  BY <1>11, <1>14, LookJoin
<1>18. said = la \o (luq \o <<>>)
  BY <1>8, <1>9, <1>10, <1>11, <1>13
<1> HIDE DEF la, lu, lq
<1>19. luq \in Seq(Entry)
  BY <1>16, ConcatProperties
<1>20. luq \o <<>> = luq
  BY <1>19, ConcatEmptySeq
<1>21. (la \o lu) \o lq = la \o luq
  <2>1. \A x, y, v \in Seq(Entry) : (x \o y) \o v = x \o (y \o v)
    BY Assoc
  <2> QED
    BY <1>16, <2>1
<1> QED
  BY <1>14, <1>15, <1>17, <1>18, <1>20, <1>21

\* A request that replays everything shows everything.
LEMMA AllShown ==
  ASSUME SessionInv, NEW v \in Seq(Good), Look(v) = said
  PROVE  Shows(v, Len(said) + 1)
<1>1. v \in Seq(Shape)
  <2>1. Good \subseteq Shape
    BY DEF Good
  <2> QED
    BY <2>1, SeqMonotonic
<1>2. Len(v) \in Nat /\ DOMAIN v = 1..Len(v) /\ \A i \in 1..Len(v) : v[i] \in Good
  OBVIOUS
<1>3. Len(said) = Len(v) /\ \A i \in 1..Len(v) : said[i] = Seen(v[i])
  BY <1>1, LookTyped
<1>4. said \in Seq(Entry) /\ DOMAIN said = 1..Len(said) /\ SaidOnce
  BY Facts DEF SessionInv
<1>5. \A i \in 1..Len(v) : When(v[i]) = i
  BY <1>3, <1>4, PlaceOf
<1>6. \A i \in 1..Len(v) : Named(v[i]) /\ \E m \in DOMAIN said : m < Len(said) + 1 /\ said[m] = Seen(v[i])
  <2> TAKE i \in 1..Len(v)
  <2>1. Named(v[i])
    BY <1>2 DEF Good
  <2>2. i \in DOMAIN said /\ i < Len(said) + 1
    BY <1>2, <1>3, <1>4
  <2> QED
    BY <1>3, <2>1, <2>2
<1>7. \A i, j \in 1..Len(v) : i < j => When(v[i]) < When(v[j])
  BY <1>5
<1>8. \A m \in DOMAIN said : \E i \in 1..Len(v) : Seen(v[i]) = said[m]
  BY <1>3, <1>4
<1> QED
  BY <1>1, <1>2, <1>6, <1>7, <1>8 DEF Shows

\* One item more, of what happened next but for prompts that are omitted.
LEMMA MoreShown ==
  ASSUME SessionInv, NEW v, NEW n \in 1..Len(said) + 1, Shows(v, n),
         NEW x \in Good, NEW m \in 1..Len(said), n <= m, said[m] = Seen(x),
         \A o \in 1..Len(said) : n <= o /\ o < m => Omitted(said[o])
  PROVE  Shows(Append(v, x), m + 1)
<1> DEFINE w == Append(v, x)
           k == Len(v)
<1>1. /\ v \in Seq(Shape)
      /\ \A i \in DOMAIN v : Named(v[i]) /\ \E o \in DOMAIN said : o < n /\ said[o] = Seen(v[i])
      /\ \A i, j \in DOMAIN v : i < j => When(v[i]) < When(v[j])
      /\ \A o \in DOMAIN said : o < n => Omitted(said[o]) \/ \E i \in DOMAIN v : Seen(v[i]) = said[o]
  BY DEF Shows
<1>2. /\ x \in Shape /\ Named(x)
      /\ said \in Seq(Entry) /\ DOMAIN said = 1..Len(said) /\ Len(said) \in Nat /\ SaidOnce
  BY Facts DEF SessionInv, Good
<1>3. k \in Nat /\ DOMAIN v = 1..k
  BY <1>1
<1>4. /\ w \in Seq(Shape) /\ Len(w) = k + 1 /\ DOMAIN w = 1..k + 1
      /\ \A i \in 1..k : w[i] = v[i] /\ i \in 1..k + 1
      /\ w[k + 1] = x /\ k + 1 \in 1..k + 1
  <2>1. w \in Seq(Shape) /\ Len(w) = k + 1 /\ (\A i \in 1..k : w[i] = v[i]) /\ w[k + 1] = x
    BY <1>1, <1>2, AppendProperties
  <2>2. k + 1 \in 1..k + 1 /\ \A i \in 1..k : i \in 1..k + 1
    BY <1>3
  <2>3. DOMAIN w = 1..k + 1
    BY <2>1
  <2> QED
    BY <2>1, <2>2, <2>3
<1>5. \A i \in 1..k + 1 : i \in 1..k \/ i = k + 1
  BY <1>3
<1> HIDE DEF w, k
<1>6. \A i \in 1..k + 1 : Named(w[i]) /\ \E o \in DOMAIN said : o < m + 1 /\ said[o] = Seen(w[i])
  <2>1. m \in DOMAIN said /\ m < m + 1 /\ \A o \in DOMAIN said : o < n => o < m + 1
    BY <1>2
  <2> QED
    BY <1>1, <1>2, <1>3, <1>4, <1>5, <2>1
<1>7. \A i, j \in 1..k + 1 : i < j => When(w[i]) < When(w[j])
  <2> SUFFICES ASSUME NEW i \in 1..k + 1, NEW j \in 1..k + 1, i < j PROVE When(w[i]) < When(w[j])
    OBVIOUS
  <2>1. i \in 1..k
    BY <1>3
  <2>2. CASE j \in 1..k
    BY <1>1, <1>3, <1>4, <2>1, <2>2
  <2>3. CASE j = k + 1
    <3>1. PICK o \in 1..Len(said) : o < n /\ said[o] = Seen(v[i])
      BY <1>1, <1>2, <1>3, <2>1
    <3>2. When(v[i]) = o /\ When(x) = m
      BY <1>2, <3>1, PlaceOf
    <3>3. o < m
      BY <1>2, <3>1
    <3> QED
      BY <1>4, <2>1, <2>3, <3>2, <3>3
  <2> QED
    BY <1>5, <2>2, <2>3
<1>8. \A o \in DOMAIN said : o < m + 1 => Omitted(said[o]) \/ \E i \in 1..k + 1 : Seen(w[i]) = said[o]
  <2> TAKE o \in DOMAIN said
  <2> HAVE o < m + 1
  <2>1. CASE o < n
    BY <1>1, <1>3, <1>4, <2>1
  <2>2. CASE n <= o /\ o < m
    BY <1>2, <2>2
  <2>3. CASE o = m
    BY <1>4, <2>3
  <2> QED
    BY <1>2, <2>1, <2>2, <2>3
<1>9. Shows(w, m + 1)
  BY <1>4, <1>6, <1>7, <1>8 DEF Shows
<1> QED
  BY <1>9 DEF w

\* Whether it continues or replays, a request shows what has happened.
LEMMA ViewShows ==
  ASSUME SessionInv, turn.phase = "ready"
  PROVE  Shows(View, Len(said) + 1)
<1>1. CASE ~UsePreviousResponse
  <2>1. View = ReplayInput
    BY <1>1 DEF View
  <2> QED
    BY <2>1, ReplayShows, AllShown
<1>2. CASE UsePreviousResponse
  <2> DEFINE r == turn.state
             x == Item(answers[r].kind, r, IF answers[r].kind = "call" THEN r ELSE 0)
             y == IF Request = 1 THEN CurrentUser ELSE ContinuationOutput
             v == answers[r].shown
  <2>1. /\ r # 0 /\ answers[r].stored
        /\ HasContinuation \/ (Request = 1 /\ ~AwaitingToolOutput)
        /\ View = v \o <<x>> \o <<y>>
    BY <1>2 DEF UsePreviousResponse, View, OutputItems, ContinuationInput
  <2>2. /\ Len(answers) \in Nat /\ DOMAIN answers = 1..Len(answers) /\ answers \in Seq(AnswerShape)
        /\ said \in Seq(Entry) /\ DOMAIN said = 1..Len(said) /\ Len(said) \in Nat
        /\ turn.steps \in Seq(Steps) /\ Len(turn.steps) \in Nat /\ turn.call = 0 /\ Len(turns) \in Nat
        /\ Done \subseteq Steps /\ ~Idle /\ ~Running
    BY Facts DEF Running, Idle
  <2>3. r = Len(answers)
    BY <2>2 DEF SessionInv, StateIsLatest, Latest
  <2>4. r \in 1..Len(answers) /\ r \in Nat
    BY <2>1, <2>2, <2>3
  <2>5. /\ answers[r].labelled
        /\ \E n \in DOMAIN said : said[n] = <<answers[r].kind, r>> /\ Shows(v, n)
    BY <2>1, <2>2, <2>4 DEF SessionInv, AnswersShow
  <2>6. PICK n \in 1..Len(said) : said[n] = <<answers[r].kind, r>> /\ Shows(v, n)
    BY <2>2, <2>5
  <2>7. n \in 1..Len(said) + 1 /\ n <= n /\ v \in Seq(Shape)
    BY <2>2, <2>6 DEF Shows
  <2>8. answers # <<>> /\ Last(answers) = answers[r]
    BY <2>2, <2>3, <2>4 DEF Last
  <2>9. \A m, o \in 1..Len(said) : said[m] = said[o] => m = o
    BY <2>2 DEF SessionInv, SaidOnce
  <2>10. CASE HasContinuation
    <3> DEFINE s == Last(turn.steps)
    <3>1. /\ turn.steps # <<>> /\ turn.replay[s.index] = s.call /\ s.call = r /\ s \in Done
          /\ answers[r].kind = "call"
      <4>1. turn.steps # <<>>
        BY <2>10 DEF HasContinuation
      <4>2. s \in ToSet(turn.steps)
        <5>1. Len(turn.steps) \in DOMAIN turn.steps
          BY <2>2, <4>1
        <5> QED
          BY <5>1 DEF ToSet, Last
      <4>3. s \in Done /\ s.call = Len(answers)
        BY <2>2, <4>1, <4>2 DEF SessionInv, StateIsLatest, Done
      <4>4. turn.replay[s.index] = s.call /\ answers[s.call].kind = "call"
        BY <2>2, <4>3 DEF SessionInv, StepsKept, Data
      <4> QED
        BY <2>3, <4>1, <4>3, <4>4
    <3>2. s \in Steps /\ s.index \in Nat
      BY <2>2, <3>1, SaidTyped
    <3>3. x = Item("call", r, r) /\ y = Item("output", s.index, r)
      <4>1. Request # 1
        BY <2>2, <3>1 DEF Request
      <4> QED
        BY <3>1, <4>1 DEF ContinuationOutput
    <3>4. StepId(s) = r
      BY <2>5, <3>1 DEF StepId
    <3> HIDE DEF s, x, y
    <3>5. x \in Good /\ y \in Good /\ Seen(x) = <<"call", r>> /\ Seen(y) = <<"output", s.index>>
      <4>1. "call" \in Kinds /\ "output" \in Kinds /\ r \in Int
        BY <2>4, SeenTyped
      <4>2. /\ x \in Shape /\ Seen(x) = <<"call", r>> /\ x.kind = "call" /\ x.of = r /\ x.id = r
            /\ y \in Shape /\ Seen(y) = <<"output", s.index>> /\ y.kind = "output" /\ y.of = s.index /\ y.id = r
        BY <2>4, <3>2, <3>3, <4>1, ItemTyped
      <4> QED
        BY <3>1, <3>4, <4>2 DEF Good, Named
    <3>6. n + 1 \in 1..Len(said) /\ said[n + 1] = <<"output", s.index>>
      <4>1. \/ n = Len(said) /\ said[n][2] = turn.call
            \/ n < Len(said) /\ \E z \in Done : said[n] = <<"call", z.call>> /\ said[n + 1] = <<"output", z.index>>
        <5>1. said[n][1] = "call"
          BY <2>6, <3>1
        <5> QED
          BY <2>2, <2>6, <5>1 DEF SessionInv, SaidPaired
      <4>2. said[n][2] # turn.call
        BY <2>1, <2>2, <2>6
      <4>3. PICK z \in Done : n < Len(said) /\ said[n] = <<"call", z.call>> /\ said[n + 1] = <<"output", z.index>>
        BY <4>1, <4>2
      <4>4. z.call = s.call
        BY <2>6, <3>1, <4>3
      <4>5. z = s
        BY <3>1, <4>4 DEF SessionInv, StepsKept
      <4> QED
        BY <2>2, <4>3, <4>5
    <3>7. n + 1 = Len(said)
      <4>1. said # <<>> /\ Last(said) = <<"output", s.index>>
        BY <2>2, <3>1 DEF SessionInv, SaidLast, s
      <4>2. Len(said) \in 1..Len(said) /\ said[Len(said)] = <<"output", s.index>>
        BY <2>2, <4>1 DEF Last
      <4> QED
        BY <2>9, <3>6, <4>2
    <3>8. Shows(Append(v, x), n + 1)
      <4>1. said[n] = Seen(x)
        BY <2>6, <3>1, <3>5
      <4>2. \A o \in 1..Len(said) : n <= o /\ o < n => Omitted(said[o])
        BY <2>6, <2>2
      <4> HIDE DEF v
      <4> QED
        BY <2>6, <2>7, <3>5, <4>1, <4>2, MoreShown
    <3> DEFINE vx == Append(v, x)
               m == n + 1
    <3>9. /\ m \in 1..Len(said) + 1 /\ m \in 1..Len(said) /\ m <= m /\ m + 1 = Len(said) + 1
          /\ \A o \in 1..Len(said) : m <= o /\ o < m => Omitted(said[o])
          /\ said[m] = Seen(y) /\ Shows(vx, m)
      BY <2>2, <3>5, <3>6, <3>7, <3>8
    <3> HIDE DEF vx, m
    <3>10. Shows(Append(vx, y), m + 1)
      BY <3>5, <3>9, MoreShown
    <3>11. View = Append(vx, y)
      <4> HIDE DEF v
      <4>1. x \in Shape /\ y \in Shape
        BY <3>5 DEF Good
      <4>2. vx = v \o <<x>> /\ vx \in Seq(Shape)
        BY <2>7, <4>1, AppendIsConcat, AppendProperties DEF vx
      <4>3. Append(vx, y) = vx \o <<y>>
        BY <4>1, <4>2, AppendIsConcat
      <4> QED
        BY <2>1, <4>2, <4>3
    <3> QED
      BY <3>9, <3>10, <3>11
  <2>11. CASE Request = 1 /\ ~AwaitingToolOutput
    <3>1. turn.steps = <<>>
      <4>1. Len(turn.steps) + 1 = 1
        BY <2>11 DEF Request
      <4> QED
        BY <2>2, <4>1
    <3>2. answers[r].kind = "reply"
      <4>1. answers[r].kind \in {"call", "reply"}
        <5>1. answers[r] \in AnswerShape
          BY <2>2, <2>4
        <5> QED
          BY <5>1 DEF AnswerShape
      <4>2. ~(answers[r].kind = "call")
        BY <2>1, <2>5, <2>11 DEF AwaitingToolOutput, HasLabel
      <4> QED
        BY <4>1, <4>2
    <3> DEFINE m == Len(said)
               e == <<"user", Len(turns) + 1>>
    <3>3. m \in 1..m /\ said[m] = e
      <4>1. said # <<>> /\ Last(said) = e
        BY <2>2, <3>1 DEF SessionInv, SaidLast
      <4> QED
        BY <2>2, <4>1 DEF Last
    <3>4. x = Reply(r) /\ y = User(Len(turns) + 1)
      BY <2>11, <3>2 DEF Reply, CurrentUser
    <3> HIDE DEF x, y
    <3>5. x \in Good /\ y \in Good /\ Seen(x) = <<"reply", r>> /\ Seen(y) = e
      <4>1. Len(turns) + 1 \in Nat
        BY <2>2
      <4> QED
        BY <2>4, <3>4, <4>1, ItemTyped
    <3>6. n # m
      <4>1. said[n][1] = "reply" /\ said[m][1] = "user"
        BY <2>6, <3>2, <3>3
      <4> QED
        BY <4>1
    <3>7. \A o \in 1..Len(said) : n < o /\ o < m => Omitted(said[o])
      <4> TAKE o \in 1..Len(said)
      <4> HAVE n < o /\ o < m
      <4>1. \/ Omitted(said[o])
            \/ ~Idle /\ turn.steps = <<>> /\ said[o] = e
            \/ Last(answers).kind = "call" /\ o = n + 1
        <5>1. said[n] = <<Last(answers).kind, Len(answers)>>
          BY <2>3, <2>6, <2>8
        <5> QED
          BY <2>2, <2>6, <2>8, <5>1 DEF SessionInv, Since
      <4>2. said[o] # e
        <5>1. o # m
          <6>1. m \in Nat /\ o \in Nat /\ o < m
            BY <2>2
          <6> HIDE DEF m
          <6> QED
            BY <6>1
        <5>2. m \in 1..Len(said)
          BY <3>3
        <5> HIDE DEF e, m
        <5> QED
          BY <2>9, <3>3, <5>1, <5>2
      <4>3. Last(answers).kind # "call"
        BY <2>8, <3>2
      <4> QED
        BY <4>1, <4>2, <4>3
    <3>8. Shows(Append(v, x), n + 1)
      <4>1. said[n] = Seen(x)
        BY <2>6, <3>2, <3>5
      <4>2. \A o \in 1..Len(said) : n <= o /\ o < n => Omitted(said[o])
        BY <2>6, <2>2
      <4> HIDE DEF v
      <4> QED
        BY <2>6, <2>7, <3>5, <4>1, <4>2, MoreShown
    <3> DEFINE vx == Append(v, x)
               k == n + 1
    <3>9. /\ k \in 1..Len(said) + 1 /\ m \in 1..Len(said) /\ k <= m
          /\ \A o \in 1..Len(said) : k <= o /\ o < m => Omitted(said[o])
          /\ said[m] = Seen(y) /\ Shows(vx, k)
      <4>1. k \in 1..Len(said) + 1 /\ m \in 1..Len(said) /\ k <= m
        <5> DEFINE l == Len(said)
        <5>1. l \in Nat /\ n \in 1..l /\ n # l
          BY <2>2, <2>6, <3>6
        <5> HIDE DEF l
        <5>2. n + 1 \in 1..l + 1 /\ l \in 1..l /\ n + 1 <= l
          BY <5>1
        <5> QED
          BY <5>2 DEF l
      <4>2. \A o \in 1..Len(said) : k <= o /\ o < m => Omitted(said[o])
        BY <2>2, <2>6, <3>7
      <4> HIDE DEF vx, k, m, e
      <4> QED
        BY <3>3, <3>5, <4>1, <4>2, <3>8 DEF vx, k
    <3> HIDE DEF vx, k, m
    <3>10. Shows(Append(vx, y), m + 1)
      BY <3>5, <3>9, MoreShown
    <3>11. View = Append(vx, y)
      <4> HIDE DEF v
      <4>1. x \in Shape /\ y \in Shape
        BY <3>5 DEF Good
      <4>2. vx = v \o <<x>> /\ vx \in Seq(Shape)
        BY <2>7, <4>1, AppendIsConcat, AppendProperties DEF vx
      <4>3. Append(vx, y) = vx \o <<y>>
        BY <4>1, <4>2, AppendIsConcat
      <4> QED
        BY <2>1, <4>2, <4>3
    <3> QED
      BY <3>10, <3>11 DEF m
  <2> QED
    BY <2>1, <2>10, <2>11
<1> QED
  BY <1>1, <1>2

\* A request disturbs nothing but what is shown.
LEMMA AskKeeps ==
  ASSUME SessionInv, Ask
  PROVE  SessionInv'
<1>1. /\ turn.phase = "ready" /\ Len(turn.steps) < MaxSteps /\ shown' = View
      /\ turn' = [turn EXCEPT !.phase = "asked"]
      /\ turns' = turns /\ replay' = replay /\ state' = state /\ next' = next
      /\ answers' = answers /\ said' = said
  BY DEF Ask
<1>2. /\ Len(turns) \in Nat /\ Len(answers) \in Nat /\ Len(said) \in Nat /\ DOMAIN said = 1..Len(said)
      /\ turn \in TurnShape /\ Len(turn.steps) \in Nat /\ MaxSteps \in Nat
      /\ ~Idle /\ ~Running /\ turn.call = 0
  <2>1. ~Idle /\ ~Running
    BY <1>1 DEF Idle, Running
  <2> QED
    BY <2>1, Facts, BoundsNat
<1>3. /\ turn'.phase = "asked" /\ turn'.steps = turn.steps /\ turn'.call = turn.call
      /\ turn'.replay = turn.replay /\ turn'.state = turn.state /\ turn' \in TurnShape
  BY <1>1, <1>2 DEF TurnShape
<1>4. ~Idle' /\ ~Running' /\ Asked'
  BY <1>3 DEF Idle, Running, Asked
<1>5. Done' = Done /\ NextIndex' = NextIndex /\ Data' = Data /\ Latest' = Latest
  BY <1>1, <1>2, <1>3, <1>4 DEF Data, Latest, NextIndex, Done
<1>6. Grows
  <2>1. \A s \in Done : s \in Done'
    BY <1>5
  <2>2. \A x : Omitted(x) => Omitted(x)'
    BY <1>1 DEF Omitted, Fruitless
  <2> QED
    BY <1>1, <2>1, <2>2, SilentGrows
<1>7. Shaped'
  <2>1. Shaped
    BY DEF SessionInv
  <2> QED
    BY <1>1, <1>3, <1>4, <2>1 DEF Shaped
<1>8. Counted'
  <2>1. Counted
    BY DEF SessionInv
  <2>2. Len(turn'.steps) + 1 <= MaxSteps
    BY <1>1, <1>2, <1>3
  <2>3. Len(turn'.steps) + (IF turn'.phase \in {"asked", "running"} THEN 1 ELSE 0) <= MaxSteps
    BY <1>3, <2>2
  <2> QED
    BY <1>1, <1>2, <1>3, <1>4, <2>1, <2>3 DEF Counted
<1>9. StepsKept'
  <2>1. StepsKept
    BY DEF SessionInv
  <2> QED
    BY <1>1, <1>3, <1>5, <2>1 DEF StepsKept
<1>10. StateIsLatest'
  <2>1. StateIsLatest
    BY DEF SessionInv
  <2> QED
    BY <1>1, <1>2, <1>3, <1>4, <1>5, <2>1 DEF StateIsLatest
<1>11. SaidOnce'
  <2>1. SaidOnce
    BY DEF SessionInv
  <2> QED
    BY <1>1, <1>2, <1>4, <2>1 DEF SaidOnce
<1>12. SaidPaired'
  <2>1. SaidPaired
    BY DEF SessionInv
  <2> QED
    BY <1>1, <1>3, <1>5, <2>1 DEF SaidPaired
<1>13. SaidLast'
  <2>1. SaidLast
    BY DEF SessionInv
  <2> QED
    BY <1>1, <1>2, <1>3, <1>4, <2>1 DEF SaidLast
<1>14. SaidKept'
  <2>1. SaidKept
    BY DEF SessionInv
  <2>2. PresentSaid(Len(turns) + 1, turn') = PresentSaid(Len(turns) + 1, turn)
    BY <1>1, <1>3 DEF PresentSaid
  <2>3. said' = PastSaid(turns') \o PresentSaid(Len(turns') + 1, turn')
    BY <1>1, <2>1, <2>2 DEF SaidKept
  <2> QED
    BY <2>3 DEF SaidKept, PastSaid, PresentSaid, StepsSaid, StepSaid, TurnSaid, ReplySaid
<1>15. Since'
  <2>1. Since
    BY DEF SessionInv
  <2> QED
    BY <1>1, <1>2, <1>3, <1>4, <2>1 DEF Since, Omitted, Fruitless
<1>16. AnswersShow'
  BY <1>1, <1>6, AnswersShowKept
<1>17. Shows(shown, Len(said) + 1)'
  <2>1. PICK w : w = View
    OBVIOUS
  <2>2. PICK m : m = Len(said) + 1
    OBVIOUS
  <2>3. Shows(w, m) /\ m \in 1..Len(said) + 1
    BY <1>1, <1>2, <2>1, <2>2, ViewShows
  <2>4. Shows(w, m)'
    BY <1>6, <2>3, ShowsStays
  <2>5. shown' = w /\ Len(said') + 1 = m
    BY <1>1, <2>1, <2>2
  <2> QED
    BY <2>4, <2>5 DEF Shows
<1> QED
  BY <1>7, <1>8, <1>9, <1>10, <1>11, <1>12, <1>13, <1>14, <1>15, <1>16, <1>17 DEF SessionInv

\* The session begins with nothing said.
LEMMA SessionBegins == Init => SessionInv
<1> SUFFICES ASSUME Init
             PROVE  SessionInv
  OBVIOUS
<1>1. /\ turns = <<>> /\ replay = [s \in 1..MaxIndex |-> 0] /\ state = 0 /\ next = 1 /\ turn = NoTurn
      /\ answers = <<>> /\ shown = <<>> /\ said = <<>>
  BY DEF Init
<1>2. /\ turn.phase = "idle" /\ turn.steps = <<>> /\ turn.call = 0 /\ turn \in TurnShape
      /\ Idle /\ ~Running /\ ~Asked
  <2>1. NoTurn.phase = "idle" /\ NoTurn.steps = <<>> /\ NoTurn.call = 0
    BY DEF NoTurn
  <2> QED
    BY <1>1, <2>1, NoTurnTyped DEF Idle, Running, Asked
<1>3. \A s : s \notin Done
  BY <1>1, <1>2, NoneIn DEF Done
<1>4. MaxTurns \in Nat /\ MaxSteps \in Nat /\ MaxIndex \in Nat /\ MaxAnswers \in Nat
  BY BoundsNat
<1>5. Shaped
  <2>1. replay \in [1..MaxIndex -> 0..MaxAnswers] /\ state \in 0..MaxAnswers /\ next \in Nat \ {0}
    BY <1>1, <1>4
  <2> QED
    BY <1>1, <1>2, <2>1 DEF Shaped
<1>6. Counted
  <2>1. 0 * MaxSteps = 0 /\ 0 * (MaxSteps + 1) = 0
    BY <1>4
  <2> QED
    BY <1>1, <1>2, <1>4, <2>1 DEF Counted
<1>7. StepsKept
  BY <1>3 DEF StepsKept
<1>8. StateIsLatest /\ SaidOnce /\ SaidPaired /\ SaidLast /\ Since /\ AnswersShow
  BY <1>1, <1>2 DEF StateIsLatest, SaidOnce, SaidPaired, SaidLast, Since, AnswersShow, Latest
<1>9. SaidKept
  <2>1. [t \in DOMAIN turns |-> TurnSaid(t, turns[t])] = <<>>
    BY <1>1
  <2>2. PastSaid(turns) = <<>>
    BY <2>1, FlattenEmpty DEF PastSaid
  <2>3. PresentSaid(Len(turns) + 1, turn) = <<>>
    BY <1>2 DEF PresentSaid
  <2>4. <<>> \o <<>> = <<>>
    OBVIOUS
  <2> QED
    BY <1>1, <2>2, <2>3, <2>4 DEF SaidKept
<1> QED
  BY <1>2, <1>5, <1>6, <1>7, <1>8, <1>9 DEF SessionInv

LEMMA SessionGoesOn ==
  ASSUME SessionInv, [Next]_vars
  PROVE  SessionInv'
<1>1. CASE Prompt
  BY <1>1, PromptKeeps
<1>2. CASE Interrupt \/ GiveUp \/ DriverFails
  <2>1. turn.phase \in {"ready", "asked"} /\ EndTurn(turn, 0) /\ UNCHANGED <<answers, shown, said>>
    BY <1>2 DEF Interrupt, GiveUp, DriverFails
  <2> QED
    BY <2>1, EndsKeeps
<1>3. CASE Ask
  BY <1>3, AskKeeps
<1>4. ASSUME NEW style \in Style, AnswerCall(style)
      PROVE  SessionInv'
  BY <1>4, AnswerCallKeeps
<1>5. ASSUME NEW style \in Style, AnswerReply(style)
      PROVE  SessionInv'
  BY <1>5, AnswerReplyKeeps
<1>6. ASSUME NEW ends \in BOOLEAN, RunStep(ends)
      PROVE  SessionInv'
  BY <1>6, RunStepKeeps
<1>7. CASE UNCHANGED vars
  <2>1. /\ turns' = turns /\ replay' = replay /\ state' = state /\ next' = next /\ turn' = turn
        /\ answers' = answers /\ shown' = shown /\ said' = said
    BY <1>7 DEF vars
  <2>2. Done' = Done /\ NextIndex' = NextIndex /\ Data' = Data /\ Latest' = Latest
    BY <2>1 DEF Done, NextIndex, Data, Latest, Idle
  <2>3. Grows
    <3>1. \A s \in Done : s \in Done'
      BY <2>2
    <3>2. \A x : Omitted(x) => Omitted(x)'
      BY <2>1 DEF Omitted, Fruitless
    <3> QED
      BY <2>1, <3>1, <3>2, SilentGrows
  <2>4. Shaped' /\ Counted'
    BY <2>1 DEF SessionInv, Shaped, Counted, Idle, Running
  <2>5. StepsKept'
    BY <2>1, <2>2 DEF SessionInv, StepsKept
  <2>6. StateIsLatest'
    BY <2>1, <2>2 DEF SessionInv, StateIsLatest, Running
  <2>7. SaidOnce' /\ SaidPaired'
    BY <2>1, <2>2 DEF SessionInv, SaidOnce, SaidPaired, Idle
  <2>8. SaidLast'
    BY <2>1 DEF SessionInv, SaidLast, Idle, Running
  <2>9. SaidKept'
    <3>1. said' = PastSaid(turns') \o PresentSaid(Len(turns') + 1, turn')
      BY <2>1 DEF SessionInv, SaidKept
    <3> QED
      BY <3>1 DEF SaidKept, PastSaid, PresentSaid, StepsSaid, StepSaid, TurnSaid, ReplySaid
  <2>10. Since'
    BY <2>1 DEF SessionInv, Since, Omitted, Fruitless, Idle
  <2>11. AnswersShow'
    BY <2>1, <2>3, AnswersShowKept
  <2>12. Asked' => Shows(shown, Len(said) + 1)'
    <3> SUFFICES ASSUME Asked
                 PROVE  Shows(shown, Len(said) + 1)'
      BY <2>1 DEF Asked
    <3>1. PICK w : w = shown
      OBVIOUS
    <3>2. PICK m : m = Len(said) + 1
      OBVIOUS
    <3>3. Shows(w, m) /\ m \in 1..Len(said) + 1
      <4>1. Len(said) \in Nat
        BY Facts
      <4> QED
        BY <3>1, <3>2, <4>1 DEF SessionInv
    <3>4. Shows(w, m)'
      BY <2>3, <3>3, ShowsStays
    <3>5. shown' = w /\ Len(said') + 1 = m
      BY <2>1, <3>1, <3>2
    <3> QED
      BY <3>4, <3>5 DEF Shows
  <2> QED
    BY <2>4, <2>5, <2>6, <2>7, <2>8, <2>9, <2>10, <2>11, <2>12 DEF SessionInv
<1> QED
  BY <1>1, <1>2, <1>3, <1>4, <1>5, <1>6, <1>7 DEF Next

\* Between turns the state is that of the latest response; while a turn goes on
\* it stays that of an earlier one.
Carried == state <= Len(answers)

LEMMA CarriedGoesOn ==
  ASSUME SessionInv, Carried, [Next]_vars
  PROVE  Carried'
<1>1. /\ Len(answers) \in Nat /\ state \in 0..MaxAnswers /\ state \in Nat
      /\ turn \in TurnShape /\ turn.state \in Nat
  BY Facts, BoundsNat
<1>2. ~Idle => turn.state = Len(answers)
  BY DEF SessionInv, StateIsLatest, Latest
<1>3. ASSUME NEW r \in Nat, state' = r, r <= Len(answers), Len(answers) <= Len(answers'), Len(answers') \in Nat
      PROVE  Carried'
  BY <1>1, <1>3 DEF Carried
<1>4. CASE UNCHANGED <<state, answers>>
  BY <1>4 DEF Carried
<1>5. CASE Interrupt \/ GiveUp \/ DriverFails
  <2>1. state' = turn.state /\ answers' = answers /\ ~Idle
    BY <1>5 DEF Interrupt, GiveUp, DriverFails, EndTurn, Idle
  <2>2. Len(answers) <= Len(answers)
    BY <1>1
  <2> QED
    BY <1>1, <1>2, <1>3, <2>1, <2>2
<1>6. ASSUME NEW x, answers' = Append(answers, x)
      PROVE  Len(answers') = Len(answers) + 1 /\ Len(answers') \in Nat /\ Len(answers) <= Len(answers')
  <2>1. Len(Append(answers, x)) = Len(answers) + 1
    BY Facts
  <2> QED
    BY <1>1, <1>6, <2>1
<1>7. ASSUME NEW style \in Style, AnswerCall(style) \/ AnswerReply(style)
      PROVE  Carried'
  <2>1. CASE AnswerCall(style)
    <3>1. state' = state /\ Len(answers) <= Len(answers') /\ Len(answers') \in Nat
      BY <1>6, <2>1 DEF AnswerCall, Answer
    <3> QED
      BY <1>1, <3>1 DEF Carried
  <2>2. CASE AnswerReply(style)
    <3>1. state' = Len(answers) + 1 /\ Len(answers') = Len(answers) + 1
      <4>1. [turn EXCEPT !.state = Len(answers) + 1].state = Len(answers) + 1
        BY <1>1 DEF TurnShape
      <4> QED
        BY <1>6, <2>2, <4>1 DEF AnswerReply, Answer, EndTurn
    <3> QED
      BY <1>1, <3>1 DEF Carried
  <2> QED
    BY <1>7, <2>1, <2>2
<1>8. ASSUME NEW ends \in BOOLEAN, RunStep(ends)
      PROVE  Carried'
  <2> DEFINE after == [turn EXCEPT !.phase = "ready", !.call = 0,
                         !.steps = Append(@, [index |-> NextIndex, call |-> turn.call]),
                         !.replay[NextIndex] = turn.call]
  <2>1. ~Idle /\ answers' = answers /\ (state' = after.state \/ state' = state)
    BY <1>8 DEF RunStep, EndTurn, Idle
  <2>2. after.state = turn.state
    BY <1>1 DEF TurnShape
  <2> HIDE DEF after
  <2> QED
    BY <1>1, <1>2, <2>1, <2>2 DEF Carried
<1>9. CASE Prompt \/ Ask \/ UNCHANGED vars
  BY <1>4, <1>9 DEF Prompt, Ask, vars
<1> QED
  BY <1>5, <1>7, <1>8, <1>9 DEF Next

-----------------------------------------------------------------------------
(* What follows.                                                           *)

LEMMA Fits ==
  ASSUME NEW n \in Nat, NEW M \in Nat, NEW S \in Nat, n <= M
  PROVE  n * S \in Nat /\ M * S \in Nat /\ n * S <= M * S
<1>1. n * S \in Nat /\ M * S \in Nat
  BY Room
<1>2. CASE n = M
  BY <1>1, <1>2
<1>3. CASE n + 1 <= M
  <2> DEFINE a == n * S
             b == M * S
  <2>1. a \in Nat /\ b \in Nat /\ a + S <= b
    BY <1>1, <1>3, Room
  <2> HIDE DEF a, b
  <2>2. a <= b
    BY <2>1
  <2> QED
    BY <1>1, <2>2 DEF a, b
<1> QED
  BY <1>2, <1>3

LEMMA SessionTypes ==
  ASSUME SessionInv, Carried
  PROVE  TypeOK
<1>1. /\ turns \in Seq(KeptTurn) /\ Len(turns) \in Nat /\ DOMAIN turns = 1..Len(turns)
      /\ Len(answers) \in Nat /\ turn \in TurnShape /\ turn.steps \in Seq(Steps) /\ Len(turn.steps) \in Nat
      /\ turn.replay \in ReplayData /\ replay \in ReplayData /\ state \in Nat
      /\ next \in Nat /\ next # 0 /\ Done \subseteq Steps
      /\ MaxTurns \in Nat /\ MaxSteps \in Nat /\ MaxSteps + 1 \in Nat
  BY Facts, BoundsNat
<1>2. Len(turns) <= MaxTurns /\ Len(turn.steps) <= MaxSteps
  BY CountedFacts
<1>3. ASSUME NEW t \in DOMAIN turns
      PROVE  ToSet(turns[t].steps) \subseteq Steps /\ turns[t].reply \in 0..MaxAnswers
  <2>1. ToSet(turns[t].steps) \subseteq Done
    BY DEF Done
  <2>2. turns[t] \in KeptTurn
    BY <1>1
  <2>3. turns[t].reply \in 0..MaxAnswers
    BY <2>2 DEF KeptTurn
  <2> QED
    BY <1>1, <2>1, <2>3
<1>4. ToSet(turn.steps) \subseteq Steps
  BY <1>1 DEF Done
<1>5. state \in 0..Len(answers)
  BY <1>1 DEF Carried
<1>6. turn.state \in 0..Len(answers)
  <2>1. Idle => turn.state = 0
    BY Facts, NoTurnTyped
  <2>2. ~Idle => turn.state = Len(answers)
    BY DEF SessionInv, StateIsLatest, Latest
  <2> QED
    BY <1>1, <2>1, <2>2
<1>7. next \in 1..(MaxIndex + 1)
  <2> DEFINE a == Len(turns) * MaxSteps
             c == MaxTurns * MaxSteps
  <2>1. next <= a + 1
    BY CountedFacts
  <2>2. a \in Nat /\ c \in Nat /\ a <= c
    BY <1>1, <1>2, Fits
  <2> HIDE DEF a, c
  <2>3. next \in 1..c + 1
    BY <1>1, <2>1, <2>2
  <2> QED
    BY <2>3 DEF c, MaxIndex
<1>8. Len(answers) <= MaxAnswers
  <2> DEFINE b == Len(turns) * (MaxSteps + 1)
             c == MaxTurns * (MaxSteps + 1)
  <2>1. b \in Nat /\ c \in Nat /\ b <= c
    BY <1>1, <1>2, Fits
  <2>2. CASE Idle
    <3>1. ~Running /\ Len(turn.steps) = 0
      BY <2>2, Facts DEF Idle, Running
    <3>2. Len(answers) <= b + Len(turn.steps)
      BY <3>1, CountedFacts
    <3> HIDE DEF b, c
    <3>3. Len(answers) <= c
      BY <1>1, <2>1, <3>1, <3>2
    <3> QED
      BY <3>3 DEF c, MaxAnswers
  <2>3. CASE ~Idle
    <3>1. Len(turns) + 1 <= MaxTurns /\ Len(answers) <= b + Len(turn.steps) + 1
      BY <2>3, CountedFacts
    <3>2. b + (MaxSteps + 1) <= c
      BY <1>1, <3>1, Room
    <3> HIDE DEF b, c
    <3>3. Len(answers) <= c
      BY <1>1, <1>2, <2>1, <3>1, <3>2
    <3> QED
      BY <3>3 DEF c, MaxAnswers
  <2> QED
    BY <2>2, <2>3
<1>9. turn.phase \in {"idle", "ready", "asked", "running"} /\ (turn.call # 0 <=> turn.phase = "running")
  BY <1>1, TurnTyped DEF SessionInv, StateIsLatest, Running, Phases
<1> QED
  BY <1>1, <1>2, <1>3, <1>4, <1>5, <1>6, <1>7, <1>8, <1>9 DEF TypeOK, ReplayData

\* What happened next is shown next.
LEMMA ShownNext ==
  ASSUME SessionInv, NEW v, Shows(v, Len(said) + 1), NEW i \in DOMAIN v, NEW j \in DOMAIN v,
         NEW m \in 1..Len(said), m + 1 \in 1..Len(said), Seen(v[i]) = said[m], Seen(v[j]) = said[m + 1]
  PROVE  j = i + 1
<1>1. /\ said \in Seq(Entry) /\ DOMAIN said = 1..Len(said) /\ Len(said) \in Nat /\ SaidOnce
      /\ v \in Seq(Shape) /\ DOMAIN v = 1..Len(v) /\ Len(v) \in Nat
      /\ \A k \in DOMAIN v : \E o \in DOMAIN said : said[o] = Seen(v[k])
      /\ \A k, l \in DOMAIN v : k < l => When(v[k]) < When(v[l])
  <2>1. /\ said \in Seq(Entry) /\ DOMAIN said = 1..Len(said) /\ Len(said) \in Nat
        /\ SaidOnce
    BY Facts DEF SessionInv
  <2>2. /\ v \in Seq(Shape)
        /\ \A k \in DOMAIN v : \E o \in DOMAIN said : said[o] = Seen(v[k])
        /\ \A k, l \in DOMAIN v : k < l => When(v[k]) < When(v[l])
    BY DEF Shows
  <2>3. DOMAIN v = 1..Len(v) /\ Len(v) \in Nat
    BY <2>2
  <2> QED
    BY <2>1, <2>2, <2>3
<1>2. When(v[i]) = m /\ When(v[j]) = m + 1
  BY <1>1, PlaceOf
<1>3. ~(j < i) /\ j # i
  BY <1>1, <1>2
<1>4. ~(i + 1 < j)
  <2> SUFFICES ASSUME i + 1 < j
               PROVE  FALSE
    OBVIOUS
  <2>1. i + 1 \in DOMAIN v /\ i < i + 1
    BY <1>1
  <2>2. PICK o \in DOMAIN said : said[o] = Seen(v[i + 1])
    BY <1>1, <2>1
  <2>3. When(v[i + 1]) = o
    BY <1>1, <2>2, PlaceOf
  <2>4. m < o /\ o < m + 1
    BY <1>1, <1>2, <2>1, <2>3
  <2>5. o \in Nat /\ m \in Nat
    BY <1>1
  <2> QED
    BY <2>4, <2>5
<1> QED
  BY <1>1, <1>3, <1>4

LEMMA IdsDiffer ==
  ASSUME SessionInv, NEW s \in Done, NEW z \in Done, StepId(s) = StepId(z)
  PROVE  s = z
<1>1. s \in Steps /\ z \in Steps
  BY Facts
<1>2. /\ s.index \in Nat /\ s.index # 0 /\ s.call \in Nat /\ s.call # 0
      /\ z.index \in Nat /\ z.index # 0 /\ z.call \in Nat /\ z.call # 0
  <2>1. /\ s.index \in 1..MaxIndex /\ s.call \in 1..MaxAnswers
        /\ z.index \in 1..MaxIndex /\ z.call \in 1..MaxAnswers
    BY <1>1, SaidTyped
  <2> QED
    BY <2>1, BoundsNat
<1>3. s.call = z.call \/ s.index = z.index
  <2>1. StepId(s) = s.call \/ StepId(s) = -s.index
    BY DEF StepId
  <2>2. StepId(z) = z.call \/ StepId(z) = -z.index
    BY DEF StepId
  <2> QED
    BY <1>2, <2>1, <2>2
<1> QED
  BY <1>3 DEF SessionInv, StepsKept

LEMMA SessionAnswers ==
  ASSUME SessionInv, Carried
  PROVE  CallsAnswered
<1> SUFFICES ASSUME Asked
             PROVE  \A i \in DOMAIN shown :
                      /\ shown[i].kind = "call" =>
                           /\ i < Len(shown)
                           /\ shown[i + 1].kind = "output" /\ shown[i + 1].id = shown[i].id
                           /\ \A j \in DOMAIN shown :
                                shown[j].kind = "call" /\ shown[j].id = shown[i].id => i = j
                      /\ shown[i].kind = "output" => i > 1 /\ shown[i - 1].kind = "call"
  BY SessionTypes DEF CallsAnswered
<1> DEFINE v == shown
<1>1. Shows(v, Len(said) + 1)
  BY DEF SessionInv
<1>2. /\ said \in Seq(Entry) /\ DOMAIN said = 1..Len(said) /\ Len(said) \in Nat /\ SaidOnce
      /\ v \in Seq(Shape) /\ DOMAIN v = 1..Len(v) /\ Len(v) \in Nat
      /\ turn.call = 0 /\ Done \subseteq Steps
  <2>1. ~Running
    BY DEF Asked, Running
  <2> QED
    BY <1>1, <2>1, Facts DEF SessionInv, Shows
<1>3. ASSUME NEW i \in DOMAIN v
      PROVE  Named(v[i]) /\ \E m \in 1..Len(said) : said[m] = Seen(v[i])
  BY <1>1, <1>2, <1>3 DEF Shows
<1>4. ASSUME NEW m \in 1..Len(said), said[m][1] # "user"
      PROVE  \E i \in DOMAIN v : Seen(v[i]) = said[m]
  <2>1. ~Omitted(said[m])
    BY <1>4 DEF Omitted
  <2>2. m < Len(said) + 1
    BY <1>2
  <2> QED
    BY <1>1, <1>2, <2>1, <2>2 DEF Shows
<1>5. \A i \in DOMAIN v : Seen(v[i])[1] = v[i].kind /\ Seen(v[i])[2] = v[i].of
  BY DEF Seen
<1>6. ASSUME NEW i \in DOMAIN v, v[i].kind = "call"
      PROVE  /\ i < Len(v) /\ v[i + 1].kind = "output" /\ v[i + 1].id = v[i].id
             /\ \A j \in DOMAIN v : v[j].kind = "call" /\ v[j].id = v[i].id => i = j
  <2>1. PICK m \in 1..Len(said) : said[m] = Seen(v[i])
    BY <1>3
  <2>2. PICK s \in Done : v[i].of = s.call /\ v[i].id = StepId(s)
    BY <1>3, <1>6 DEF Named
  <2>3. said[m] = <<"call", s.call>>
    BY <1>6, <2>1, <2>2 DEF Seen
  <2>4. s.call # turn.call
    BY <1>2 DEF SessionInv, StepsKept
  <2>5. PICK z \in Done : m < Len(said) /\ said[m] = <<"call", z.call>> /\ said[m + 1] = <<"output", z.index>>
    <3>1. said[m][1] = "call" /\ said[m][2] = s.call
      BY <2>3
    <3> QED
      BY <1>2, <2>4, <3>1 DEF SessionInv, SaidPaired
  <2>6. z = s
    <3>1. z.call = s.call
      BY <2>3, <2>5
    <3> QED
      BY <3>1 DEF SessionInv, StepsKept
  <2>7. m + 1 \in 1..Len(said)
    BY <1>2, <2>5
  <2>8. PICK j \in DOMAIN v : Seen(v[j]) = said[m + 1]
    <3>1. said[m + 1][1] # "user"
      BY <2>5
    <3> QED
      BY <1>4, <2>7, <3>1
  <2>9. j = i + 1
    BY <1>1, <2>1, <2>7, <2>8, ShownNext
  <2>10. i < Len(v)
    BY <1>2, <2>9
  <2>11. v[j].kind = "output" /\ v[j].of = s.index
    BY <2>5, <2>6, <2>8, <1>5
  <2>12. v[j].id = v[i].id
    <3>1. PICK y \in Done : v[j].of = y.index /\ v[j].id = StepId(y)
      BY <1>3, <2>11 DEF Named
    <3>2. y = s
      BY <2>11, <3>1 DEF SessionInv, StepsKept
    <3> QED
      BY <2>2, <3>1, <3>2
  <2>13. ASSUME NEW k \in DOMAIN v, v[k].kind = "call", v[k].id = v[i].id
         PROVE  i = k
    <3>1. PICK y \in Done : v[k].of = y.call /\ v[k].id = StepId(y)
      BY <1>3, <2>13 DEF Named
    <3>2. y = s
      BY <2>2, <2>13, <3>1, IdsDiffer
    <3>3. Seen(v[k]) = Seen(v[i])
      BY <1>6, <2>2, <2>13, <3>1, <3>2 DEF Seen
    <3>4. When(v[k]) = m /\ When(v[i]) = m
      BY <1>2, <2>1, <3>3, PlaceOf
    <3>5. ~(i < k) /\ ~(k < i)
      <4>1. \A a, b \in DOMAIN v : a < b => When(v[a]) < When(v[b])
        BY <1>1 DEF Shows
      <4>2. ~(m < m)
        BY <1>2
      <4> QED
        BY <3>4, <4>1, <4>2
    <3> QED
      BY <1>2, <3>5
  <2> QED
    BY <2>9, <2>10, <2>11, <2>12, <2>13
<1>7. ASSUME NEW i \in DOMAIN v, v[i].kind = "output"
      PROVE  i > 1 /\ v[i - 1].kind = "call"
  <2>1. PICK m \in 1..Len(said) : said[m] = Seen(v[i])
    BY <1>3
  <2>2. PICK s \in Done : m > 1 /\ said[m - 1] = <<"call", s.call>>
    <3>1. said[m][1] = "output"
      BY <1>5, <1>7, <2>1
    <3> QED
      BY <1>2, <3>1 DEF SessionInv, SaidPaired
  <2>3. m - 1 \in 1..Len(said) /\ (m - 1) + 1 = m
    BY <1>2, <2>2
  <2>4. PICK j \in DOMAIN v : Seen(v[j]) = said[m - 1]
    <3>1. said[m - 1][1] # "user"
      BY <2>2
    <3> QED
      BY <1>4, <2>3, <3>1
  <2>5. i = j + 1
    <3>1. PICK o \in 1..Len(said) : o = m - 1 /\ o + 1 = m
      BY <2>3
    <3>2. o + 1 \in 1..Len(said) /\ Seen(v[j]) = said[o] /\ Seen(v[i]) = said[o + 1]
      BY <2>1, <2>4, <3>1
    <3> QED
      BY <1>1, <3>1, <3>2, ShownNext
  <2>6. i > 1 /\ i - 1 = j
    BY <1>2, <2>5
  <2>7. v[j].kind = "call"
    BY <1>5, <2>2, <2>4
  <2> QED
    BY <2>6, <2>7
<1> QED
  BY <1>6, <1>7

LEMMA SessionShows ==
  ASSUME SessionInv
  PROVE  HistoryShown
<1> SUFFICES ASSUME Asked
             PROVE  /\ \A i \in DOMAIN shown : Seen(shown[i]) \in ToSet(said)
                    /\ \A i, j \in DOMAIN shown : i < j => When(shown[i]) < When(shown[j])
                    /\ \A e \in ToSet(said) : e \in {Seen(shown[i]) : i \in DOMAIN shown} \/ Omitted(e)
  BY DEF HistoryShown
<1>1. /\ \A i \in DOMAIN shown : \E m \in DOMAIN said : said[m] = Seen(shown[i])
      /\ \A i, j \in DOMAIN shown : i < j => When(shown[i]) < When(shown[j])
      /\ \A m \in DOMAIN said : m < Len(said) + 1 => Omitted(said[m]) \/ \E i \in DOMAIN shown : Seen(shown[i]) = said[m]
  BY DEF SessionInv, Shows
<1>2. DOMAIN said = 1..Len(said) /\ Len(said) \in Nat
  BY Facts
<1>3. \A i \in DOMAIN shown : Seen(shown[i]) \in ToSet(said)
  BY <1>1 DEF ToSet
<1>4. ASSUME NEW e \in ToSet(said)
      PROVE  e \in {Seen(shown[i]) : i \in DOMAIN shown} \/ Omitted(e)
  <2>1. PICK m \in DOMAIN said : e = said[m]
    BY DEF ToSet
  <2>2. m < Len(said) + 1
    BY <1>2
  <2> QED
    BY <1>1, <2>1, <2>2
<1> QED
  BY <1>1, <1>3, <1>4

LEMMA InvariantHolds == Spec => [](SessionInv /\ Carried)
<1>1. Init => SessionInv /\ Carried
  <2>1. Init => Carried
    BY DEF Init, Carried
  <2> QED
    BY <2>1, SessionBegins
<1>2. (SessionInv /\ Carried) /\ [Next]_vars => (SessionInv /\ Carried)'
  BY SessionGoesOn, CarriedGoesOn
<1> QED
  BY <1>1, <1>2, PTL DEF Spec

\* The conversation the model is shown is one the API accepts: each call is
\* followed by its output, each output follows its call, and no id is used for
\* two calls, whatever responses are stored or labelled and whichever turns are
\* cut off (buildResponsesInput, the replay data of runTurn).
THEOREM CallsAreAnswered == Spec => []CallsAnswered
<1>1. SessionInv /\ Carried => CallsAnswered
  BY SessionAnswers
<1> QED
  BY <1>1, InvariantHolds, PTL

\* The conversation the model is shown is the session as it happened, each item
\* once and in its place; only prompts of turns of which nothing came may be
\* missing (buildResponsesContinuationInput after a turn that has failed).
THEOREM HistoryIsShown == Spec => []HistoryShown
<1>1. SessionInv => HistoryShown
  BY SessionShows
<1> QED
  BY <1>1, InvariantHolds, PTL
=============================================================================
