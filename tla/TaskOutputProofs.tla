-------------------------- MODULE TaskOutputProofs --------------------------
(***************************************************************************)
(* Proofs about OutputChunks and TaskOutput, for every output a command    *)
(* may print, all sizes and any number of attempts and faults.  What the   *)
(* recursive definitions compute is proved by induction; as the provers do *)
(* not instantiate the induction theorems of the library, which take an    *)
(* operator, the principle is restated for sets, from WFMin.               *)
(***************************************************************************)
EXTENDS TaskOutput, WellFoundedInduction, SequenceTheorems, FiniteSetTheorems, TLAPS

-----------------------------------------------------------------------------
(* Induction *)

NatLess == {p \in Nat \X Nat : p[1] < p[2]}

\* A set of naturals that is not empty has a least element.
LEMMA LeastElement ==
  ASSUME NEW S, S \subseteq Nat, S # {}
  PROVE  \E n \in S : \A m \in S : n <= m
<1>1. IsWellFoundedOn(NatLess, Nat)
  BY NatLessThanWellFounded DEF OpToRel, NatLess
<1>2. PICK n \in S : \A m \in S : <<m, n>> \notin NatLess
  BY <1>1, WFMin
<1>3. ASSUME NEW m \in S, m < n PROVE FALSE
  <2>1. <<m, n>> \in Nat \X Nat /\ <<m, n>>[1] = m /\ <<m, n>>[2] = n
    OBVIOUS
  <2>2. <<m, n>> \in NatLess
    BY <1>3, <2>1 DEF NatLess
  <2>3. QED BY <1>2, <2>2
<1>4. QED BY <1>3

\* Induction over the naturals.
LEMMA CountUp ==
  ASSUME NEW T, 0 \in T, \A n \in Nat : n \in T => n + 1 \in T
  PROVE  Nat \subseteq T
<1>1. SUFFICES ASSUME Nat \ T # {} PROVE FALSE
  OBVIOUS
<1>2. PICK n \in Nat \ T : \A m \in Nat \ T : n <= m
  BY <1>1, LeastElement
<1>3. n # 0 /\ n - 1 \in Nat /\ n - 1 \in T
  BY <1>2
<1>4. QED BY <1>2, <1>3

\* Induction over sequences that grow at the end.
LEMMA GrowSeq ==
  ASSUME NEW S, NEW T, <<>> \in T,
         \A s \in Seq(S) : \A e \in S : s \in T => Append(s, e) \in T
  PROVE  Seq(S) \subseteq T
<1> DEFINE N == {n \in Nat : \A s \in Seq(S) : Len(s) = n => s \in T}
<1>1. 0 \in N
  BY EmptySeq
<1>2. ASSUME NEW n \in Nat, n \in N PROVE n + 1 \in N
  <2>1. SUFFICES ASSUME NEW s \in Seq(S), Len(s) = n + 1 PROVE s \in T
    OBVIOUS
  <2>2. PICK r \in Seq(S), e \in S : s = Append(r, e)
    BY <2>1, SequenceEmptyOrAppend, EmptySeq
  <2>3. Len(r) = n
    BY <2>1, <2>2, AppendProperties, LenProperties
  <2>4. QED BY <1>2, <2>2, <2>3
<1>3. Nat \subseteq N
  <2> HIDE DEF N
  <2>1. QED BY <1>1, <1>2, CountUp
<1>4. QED BY <1>3, LenProperties

-----------------------------------------------------------------------------
(* Concatenation of many sequences *)

\* f is what FlattenSeq builds from the first n elements of s.
Flattens(f, s, n) == f = [i \in 1..n |-> IF i = 1 THEN s[i] ELSE f[i - 1] \o s[i]]

\* One step of the recursion.
LEMMA FlattenUnfold ==
  ASSUME NEW f, NEW s, NEW n, Flattens(f, s, n), NEW i \in 1..n
  PROVE  f[i] = IF i = 1 THEN s[i] ELSE f[i - 1] \o s[i]
<1> DEFINE g == [k \in 1..n |-> IF k = 1 THEN s[k] ELSE f[k - 1] \o s[k]]
<1>1. f = g
  BY DEF Flattens
<1>2. g[i] = IF i = 1 THEN s[i] ELSE f[i - 1] \o s[i]
  OBVIOUS
<1> HIDE DEF g
<1>3. QED BY <1>1, <1>2

\* The recursion of FlattenSeq has a solution.
LEMMA FlattenExists ==
  ASSUME NEW s, NEW n \in Nat
  PROVE  \E f : Flattens(f, s, n)
<1> DEFINE T == {k \in Nat : \E f : Flattens(f, s, k)}
<1>1. 0 \in T
  <2> DEFINE f == [i \in 1..0 |-> 0]
  <2>1. Flattens(f, s, 0)
    BY DEF Flattens
  <2>2. QED BY <2>1
<1>2. ASSUME NEW k \in Nat, k \in T PROVE k + 1 \in T
  <2>1. PICK f : Flattens(f, s, k)
    BY <1>2
  <2> DEFINE g == [i \in 1..(k + 1) |->
                     IF i <= k THEN f[i] ELSE IF i = 1 THEN s[i] ELSE f[i - 1] \o s[i]]
  <2>2. \A i \in 1..(k + 1) : g[i] = IF i = 1 THEN s[i] ELSE g[i - 1] \o s[i]
    BY <2>1, FlattenUnfold
  <2>3. g = [i \in 1..(k + 1) |-> IF i = 1 THEN s[i] ELSE g[i - 1] \o s[i]]
    <3>1. DOMAIN g = 1..(k + 1) /\ g = [i \in 1..(k + 1) |-> g[i]]
      OBVIOUS
    <3> HIDE DEF g
    <3>2. QED BY <2>2, <3>1
  <2>4. Flattens(g, s, k + 1)
    BY <2>3 DEF Flattens
  <2>5. QED BY <2>4
<1>3. Nat \subseteq T
  <2> HIDE DEF T
  <2>1. QED BY <1>1, <1>2, CountUp
<1>4. QED BY <1>3

\* The recursion depends on the elements it has seen only.
LEMMA FlattenAgrees ==
  ASSUME NEW s, NEW t, NEW m \in Nat, NEW n \in Nat, NEW f, NEW g, m <= n,
         Flattens(f, s, m), Flattens(g, t, n), \A i \in 1..m : s[i] = t[i]
  PROVE  \A i \in 1..m : f[i] = g[i]
<1> DEFINE T == {k \in Nat : k \in 1..m => f[k] = g[k]}
<1>1. 0 \in T
  OBVIOUS
<1>2. ASSUME NEW k \in Nat, k \in T PROVE k + 1 \in T
  <2>1. SUFFICES ASSUME k + 1 \in 1..m PROVE f[k + 1] = g[k + 1]
    OBVIOUS
  <2>2. /\ f[k + 1] = IF k + 1 = 1 THEN s[k + 1] ELSE f[(k + 1) - 1] \o s[k + 1]
        /\ g[k + 1] = IF k + 1 = 1 THEN t[k + 1] ELSE g[(k + 1) - 1] \o t[k + 1]
    BY <2>1, FlattenUnfold
  <2>3. k # 0 => k \in 1..m /\ f[k] = g[k]
    BY <1>2, <2>1
  <2>4. QED BY <2>1, <2>2, <2>3
<1>3. Nat \subseteq T
  <2> HIDE DEF T
  <2>1. QED BY <1>1, <1>2, CountUp
<1>4. QED BY <1>3

\* FlattenSeq is the last value of the recursion.
LEMMA FlattenValue ==
  ASSUME NEW S, NEW s \in Seq(S), s # <<>>
  PROVE  /\ Len(s) \in Nat \ {0}
         /\ \E f : Flattens(f, s, Len(s)) /\ FlattenSeq(s) = f[Len(s)]
<1>1. Len(s) \in Nat \ {0}
  BY EmptySeq
<1>2. Flattens(CHOOSE f : Flattens(f, s, Len(s)), s, Len(s))
  BY <1>1, FlattenExists
<1>3. FlattenSeq(s) = (CHOOSE f : Flattens(f, s, Len(s)))[Len(s)]
  BY <1>1 DEF FlattenSeq, Flattens
<1>4. QED BY <1>1, <1>2, <1>3

\* What FlattenSeq makes of the empty sequence and of one that grows.
LEMMA FlattenStep ==
  ASSUME NEW S
  PROVE  /\ FlattenSeq(<<>>) = <<>>
         /\ \A s \in Seq(Seq(S)) : \A e \in Seq(S) :
              FlattenSeq(Append(s, e)) = IF s = <<>> THEN e ELSE FlattenSeq(s) \o e
<1>1. FlattenSeq(<<>>) = <<>>
  BY DEF FlattenSeq
<1>2. ASSUME NEW s, NEW e, s \in Seq(Seq(S)), e \in Seq(S)
      PROVE  FlattenSeq(Append(s, e)) = IF s = <<>> THEN e ELSE FlattenSeq(s) \o e
  <2>1. PICK n \in Nat : n = Len(s)
    BY <1>2, LenProperties
  <2>2. PICK t : t = Append(s, e)
    OBVIOUS
  <2>3. /\ t \in Seq(Seq(S)) /\ t # <<>> /\ Len(t) = n + 1
        /\ t[n + 1] = e /\ \A i \in 1..n : t[i] = s[i]
    BY <1>2, <2>1, <2>2, AppendProperties
  <2>4. PICK g : Flattens(g, t, n + 1) /\ FlattenSeq(t) = g[n + 1]
    BY <2>3, FlattenValue
  <2>5. g[n + 1] = IF n + 1 = 1 THEN t[n + 1] ELSE g[(n + 1) - 1] \o t[n + 1]
    BY <2>3, <2>4, FlattenUnfold
  <2>6. CASE s = <<>>
    BY <1>2, <2>1, <2>3, <2>4, <2>5, <2>6, EmptySeq, <2>2
  <2>7. CASE s # <<>>
    <3>1. PICK f : Flattens(f, s, n) /\ FlattenSeq(s) = f[n]
      BY <1>2, <2>1, <2>7, FlattenValue
    <3>2. n # 0
      BY <1>2, <2>1, <2>7, EmptySeq
    <3>3. f[n] = g[n]
      <4>1. \A i \in 1..n : s[i] = t[i]
        BY <2>3
      <4>2. \A i \in 1..n : f[i] = g[i]
        <5>1. n \in Nat
          BY <2>1
        <5>2. Flattens(f, s, n)
          BY <3>1
        <5>3. Flattens(g, t, n + 1)
          BY <2>4
        <5>4. QED BY <4>1, <5>1, <5>2, <5>3, FlattenAgrees
      <4>3. QED BY <3>2, <4>2
    <3>4. QED BY <2>3, <2>4, <2>5, <2>7, <3>1, <3>2, <3>3, <2>2
  <2>8. QED BY <2>6, <2>7
<1>3. QED BY <1>1, <1>2

\* FlattenSeq of sequences of elements of S is a sequence of elements of S.
LEMMA FlattenType ==
  ASSUME NEW S, NEW s \in Seq(Seq(S))
  PROVE  FlattenSeq(s) \in Seq(S)
<1> DEFINE T == {r \in Seq(Seq(S)) : FlattenSeq(r) \in Seq(S)}
<1>1. <<>> \in T
  BY FlattenStep, EmptySeq
<1>2. ASSUME NEW r \in Seq(Seq(S)), NEW e \in Seq(S), r \in T PROVE Append(r, e) \in T
  <2>1. FlattenSeq(Append(r, e)) = IF r = <<>> THEN e ELSE FlattenSeq(r) \o e
    BY FlattenStep
  <2>2. FlattenSeq(Append(r, e)) \in Seq(S)
    BY <1>2, <2>1, ConcatProperties
  <2>3. QED BY <2>2, AppendProperties
<1>3. Seq(Seq(S)) \subseteq T
  <2> HIDE DEF T
  <2>1. QED BY <1>1, <1>2, GrowSeq
<1>4. QED BY <1>3

\* A sequence appended to the sequence of sequences is appended to the result.
LEMMA FlattenAppend ==
  ASSUME NEW S, NEW s \in Seq(Seq(S)), NEW e \in Seq(S)
  PROVE  FlattenSeq(Append(s, e)) = FlattenSeq(s) \o e
<1>1. CASE s = <<>>
  BY <1>1, FlattenStep, ConcatEmptySeq
<1>2. CASE s # <<>>
  BY <1>2, FlattenStep
<1>3. QED BY <1>1, <1>2

\* Flattening distributes over concatenation.
LEMMA FlattenConcat ==
  ASSUME NEW S, NEW s \in Seq(Seq(S)), NEW t \in Seq(Seq(S))
  PROVE  FlattenSeq(s \o t) = FlattenSeq(s) \o FlattenSeq(t)
<1> DEFINE T == {r \in Seq(Seq(S)) : FlattenSeq(s \o r) = FlattenSeq(s) \o FlattenSeq(r)}
<1>1. <<>> \in T
  <2>1. s \o <<>> = s /\ FlattenSeq(s) \o <<>> = FlattenSeq(s)
    BY FlattenType, ConcatEmptySeq
  <2>2. QED BY <2>1, FlattenStep, EmptySeq
<1>2. ASSUME NEW r \in Seq(Seq(S)), NEW e \in Seq(S), r \in T PROVE Append(r, e) \in T
  <2>1. s \o Append(r, e) = Append(s \o r, e)
    <3>1. /\ Append(r, e) = r \o <<e>> /\ s \o r \in Seq(Seq(S)) /\ <<e>> \in Seq(Seq(S))
          /\ Append(s \o r, e) = (s \o r) \o <<e>>
      BY AppendIsConcat, ConcatProperties
    <3>2. s \o (r \o <<e>>) = (s \o r) \o <<e>>
      BY <3>1, ConcatAssociative
    <3>3. QED BY <3>1, <3>2
  <2>2. /\ FlattenSeq(Append(s \o r, e)) = FlattenSeq(s \o r) \o e
        /\ FlattenSeq(Append(r, e)) = FlattenSeq(r) \o e
    BY ConcatProperties, FlattenAppend
  <2>3. (FlattenSeq(s) \o FlattenSeq(r)) \o e = FlattenSeq(s) \o (FlattenSeq(r) \o e)
    BY SMTT(30), FlattenType, ConcatAssociative
  <2>4. FlattenSeq(s \o r) = FlattenSeq(s) \o FlattenSeq(r)
    BY <1>2
  <2>5. FlattenSeq(s \o Append(r, e)) = FlattenSeq(s) \o FlattenSeq(Append(r, e))
    BY <2>1, <2>2, <2>3, <2>4, Zenon
  <2>6. QED BY <2>5, AppendProperties
<1>3. Seq(Seq(S)) \subseteq T
  <2> HIDE DEF T
  <2>1. QED BY <1>1, <1>2, GrowSeq
<1>4. QED BY <1>3

\* What FlattenSeq makes of one sequence and of two.
LEMMA FlattenFew ==
  ASSUME NEW S, NEW a \in Seq(S), NEW b \in Seq(S)
  PROVE  FlattenSeq(<<a>>) = a /\ FlattenSeq(<<a, b>>) = a \o b
<1>1. <<a>> = Append(<<>>, a) /\ <<a, b>> = Append(<<a>>, b) /\ <<a>> \in Seq(Seq(S))
  OBVIOUS
<1>2. FlattenSeq(<<a>>) = a
  BY <1>1, FlattenStep, EmptySeq
<1>3. FlattenSeq(Append(<<a>>, b)) = FlattenSeq(<<a>>) \o b
  BY <1>1, FlattenAppend
<1>4. QED BY <1>1, <1>2, <1>3

\* Flattening the elements one by one gives the sequence back.
LEMMA FlattenSingles ==
  ASSUME NEW S, NEW s \in Seq(S)
  PROVE  FlattenSeq([i \in 1..Len(s) |-> <<s[i]>>]) = s
<1> DEFINE Ones(r) == [i \in 1..Len(r) |-> <<r[i]>>]
           T == {r \in Seq(S) : FlattenSeq(Ones(r)) = r}
<1>1. <<>> \in T
  <2>1. Ones(<<>>) = <<>>
    OBVIOUS
  <2>2. QED BY <2>1, FlattenStep, EmptySeq
<1>2. ASSUME NEW r \in Seq(S), NEW e \in S, r \in T PROVE Append(r, e) \in T
  <2>1. Ones(r) \in Seq(Seq(S)) /\ <<e>> \in Seq(S)
    BY ElementOfSeq, LenProperties
  <2>2. Ones(Append(r, e)) = Append(Ones(r), <<e>>)
    OBVIOUS
  <2>3. FlattenSeq(Append(Ones(r), <<e>>)) = FlattenSeq(Ones(r)) \o <<e>>
    BY <2>1, FlattenAppend
  <2>4. r \o <<e>> = Append(r, e) /\ Append(r, e) \in Seq(S)
    BY AppendIsConcat, AppendProperties
  <2>5. FlattenSeq(Ones(r)) = r
    BY <1>2
  <2> HIDE DEF Ones
  <2>6. QED BY <2>2, <2>3, <2>4, <2>5
<1>3. Seq(S) \subseteq T
  <2> HIDE DEF T
  <2>1. QED BY <1>1, <1>2, GrowSeq
<1>4. QED BY <1>3

-----------------------------------------------------------------------------
(* Filtering *)

\* f is what Without keeps of the first n elements of s.
Keeps(f, s, x, n) ==
  f = [i \in 0..n |-> IF i = 0 THEN <<>>
                      ELSE IF s[i] = x THEN f[i - 1] ELSE Append(f[i - 1], s[i])]

\* One step of the recursion.
LEMMA KeepsUnfold ==
  ASSUME NEW f, NEW s, NEW x, NEW n, Keeps(f, s, x, n), NEW i \in 0..n
  PROVE  f[i] = IF i = 0 THEN <<>>
                ELSE IF s[i] = x THEN f[i - 1] ELSE Append(f[i - 1], s[i])
<1> DEFINE g == [k \in 0..n |-> IF k = 0 THEN <<>>
                                ELSE IF s[k] = x THEN f[k - 1] ELSE Append(f[k - 1], s[k])]
<1>1. f = g
  BY DEF Keeps
<1>2. g[i] = IF i = 0 THEN <<>>
             ELSE IF s[i] = x THEN f[i - 1] ELSE Append(f[i - 1], s[i])
  OBVIOUS
<1> HIDE DEF g
<1>3. QED BY <1>1, <1>2

\* The recursion of Without has a solution.
LEMMA KeepsExists ==
  ASSUME NEW s, NEW x, NEW n \in Nat
  PROVE  \E f : Keeps(f, s, x, n)
<1> DEFINE T == {k \in Nat : \E f : Keeps(f, s, x, k)}
<1>1. 0 \in T
  <2> DEFINE f == [i \in 0..0 |-> <<>>]
  <2>1. Keeps(f, s, x, 0)
    BY DEF Keeps
  <2>2. QED BY <2>1
<1>2. ASSUME NEW k \in Nat, k \in T PROVE k + 1 \in T
  <2>1. PICK f : Keeps(f, s, x, k)
    BY <1>2
  <2> DEFINE g == [i \in 0..(k + 1) |->
                     IF i <= k THEN f[i]
                     ELSE IF s[i] = x THEN f[i - 1] ELSE Append(f[i - 1], s[i])]
  <2>2. \A i \in 0..(k + 1) :
          g[i] = IF i = 0 THEN <<>>
                 ELSE IF s[i] = x THEN g[i - 1] ELSE Append(g[i - 1], s[i])
    BY <2>1, KeepsUnfold
  <2>3. g = [i \in 0..(k + 1) |->
               IF i = 0 THEN <<>>
               ELSE IF s[i] = x THEN g[i - 1] ELSE Append(g[i - 1], s[i])]
    <3>1. DOMAIN g = 0..(k + 1) /\ g = [i \in 0..(k + 1) |-> g[i]]
      OBVIOUS
    <3> HIDE DEF g
    <3>2. QED BY <2>2, <3>1
  <2>4. Keeps(g, s, x, k + 1)
    BY <2>3 DEF Keeps
  <2>5. QED BY <2>4
<1>3. Nat \subseteq T
  <2> HIDE DEF T
  <2>1. QED BY <1>1, <1>2, CountUp
<1>4. QED BY <1>3

\* The recursion depends on the elements it has seen only.
LEMMA KeepsAgrees ==
  ASSUME NEW s, NEW t, NEW x, NEW m \in Nat, NEW n \in Nat, NEW f, NEW g, m <= n,
         Keeps(f, s, x, m), Keeps(g, t, x, n), \A i \in 1..m : s[i] = t[i]
  PROVE  f[m] = g[m]
<1> DEFINE T == {k \in Nat : k \in 0..m => f[k] = g[k]}
<1>1. 0 \in T
  BY KeepsUnfold
<1>2. ASSUME NEW k \in Nat, k \in T PROVE k + 1 \in T
  <2>1. SUFFICES ASSUME k + 1 \in 0..m PROVE f[k + 1] = g[k + 1]
    OBVIOUS
  <2>2. /\ f[k + 1] = IF k + 1 = 0 THEN <<>>
                      ELSE IF s[k + 1] = x THEN f[(k + 1) - 1]
                      ELSE Append(f[(k + 1) - 1], s[k + 1])
        /\ g[k + 1] = IF k + 1 = 0 THEN <<>>
                      ELSE IF t[k + 1] = x THEN g[(k + 1) - 1]
                      ELSE Append(g[(k + 1) - 1], t[k + 1])
    BY <2>1, KeepsUnfold
  <2>3. f[k] = g[k] /\ s[k + 1] = t[k + 1]
    BY <1>2, <2>1
  <2>4. QED BY <2>1, <2>2, <2>3
<1>3. Nat \subseteq T
  <2> HIDE DEF T
  <2>1. QED BY <1>1, <1>2, CountUp
<1>4. QED BY <1>3

\* Without is the last value of the recursion.
LEMMA WithoutValue ==
  ASSUME NEW s, NEW x, Len(s) \in Nat
  PROVE  \E f : Keeps(f, s, x, Len(s)) /\ Without(s, x) = f[Len(s)]
<1>1. Keeps(CHOOSE f : Keeps(f, s, x, Len(s)), s, x, Len(s))
  BY KeepsExists
<1>2. Without(s, x) = (CHOOSE f : Keeps(f, s, x, Len(s)))[Len(s)]
  BY DEF Without, Keeps
<1>3. QED BY <1>1, <1>2

\* What Without makes of the empty sequence.
LEMMA WithoutEmpty ==
  ASSUME NEW x
  PROVE  Without(<<>>, x) = <<>>
<1>1. Len(<<>>) = 0
  OBVIOUS
<1>2. PICK f : Keeps(f, <<>>, x, 0) /\ Without(<<>>, x) = f[0]
  BY <1>1, WithoutValue
<1>3. QED BY <1>2, KeepsUnfold

\* What Without makes of a sequence that grows.
LEMMA WithoutAppend ==
  ASSUME NEW S, NEW x, NEW s \in Seq(S), NEW e \in S
  PROVE  Without(Append(s, e), x) =
           IF e = x THEN Without(s, x) ELSE Append(Without(s, x), e)
<1>1. PICK n \in Nat : n = Len(s)
  BY LenProperties
<1>2. PICK t : t = Append(s, e)
  OBVIOUS
<1>3. /\ Len(t) = n + 1 /\ t[n + 1] = e
      /\ \A i \in 1..n : s[i] = t[i]
  BY <1>1, <1>2, AppendProperties
<1>4. PICK g : Keeps(g, t, x, n + 1) /\ Without(t, x) = g[n + 1]
  BY <1>3, WithoutValue
<1>5. PICK f : Keeps(f, s, x, n) /\ Without(s, x) = f[n]
  BY <1>1, WithoutValue
<1>6. f[n] = g[n]
  <2>1. \A i \in 1..n : s[i] = t[i]
    BY <1>3
  <2>2. Keeps(f, s, x, n)
    BY <1>5
  <2>3. Keeps(g, t, x, n + 1)
    BY <1>4
  <2>4. QED BY <2>1, <2>2, <2>3, KeepsAgrees
<1>7. g[n + 1] = IF n + 1 = 0 THEN <<>>
                 ELSE IF t[n + 1] = x THEN g[(n + 1) - 1]
                 ELSE Append(g[(n + 1) - 1], t[n + 1])
  <2>1. Keeps(g, t, x, n + 1)
    BY <1>4
  <2>2. QED BY <2>1, KeepsUnfold
<1>8. QED BY <1>2, <1>3, <1>4, <1>5, <1>6, <1>7

\* What Without keeps is not the element it drops.
LEMMA WithoutType ==
  ASSUME NEW S, NEW x, NEW s \in Seq(S)
  PROVE  Without(s, x) \in Seq(S \ {x})
<1> DEFINE T == {r \in Seq(S) : Without(r, x) \in Seq(S \ {x})}
<1>1. <<>> \in T
  <2>1. <<>> \in Seq(S) /\ <<>> \in Seq(S \ {x})
    BY EmptySeq
  <2>2. QED BY <2>1, WithoutEmpty
<1>2. ASSUME NEW r \in Seq(S), NEW e \in S, r \in T PROVE Append(r, e) \in T
  <2>1. Without(Append(r, e), x) = IF e = x THEN Without(r, x) ELSE Append(Without(r, x), e)
    BY WithoutAppend
  <2>2. Without(Append(r, e), x) \in Seq(S \ {x})
    BY <1>2, <2>1, AppendProperties
  <2>3. QED BY <2>2, AppendProperties
<1>3. Seq(S) \subseteq T
  <2> HIDE DEF T
  <2>1. QED BY <1>1, <1>2, GrowSeq
<1>4. QED BY <1>3

\* Filtering distributes over concatenation.
LEMMA WithoutConcat ==
  ASSUME NEW S, NEW x, NEW s \in Seq(S), NEW t \in Seq(S)
  PROVE  Without(s \o t, x) = Without(s, x) \o Without(t, x)
<1> DEFINE T == {r \in Seq(S) : Without(s \o r, x) = Without(s, x) \o Without(r, x)}
<1>1. <<>> \in T
  <2>1. s \o <<>> = s /\ Without(s, x) \o <<>> = Without(s, x)
    BY WithoutType, ConcatEmptySeq
  <2>2. QED BY <2>1, WithoutEmpty, EmptySeq
<1>2. ASSUME NEW r \in Seq(S), NEW e \in S, r \in T PROVE Append(r, e) \in T
  <2>1. s \o Append(r, e) = Append(s \o r, e) /\ s \o r \in Seq(S)
    <3>1. /\ Append(r, e) = r \o <<e>> /\ s \o r \in Seq(S) /\ <<e>> \in Seq(S)
          /\ Append(s \o r, e) = (s \o r) \o <<e>>
      BY AppendIsConcat, ConcatProperties
    <3>2. s \o (r \o <<e>>) = (s \o r) \o <<e>>
      BY <3>1, ConcatAssociative
    <3>3. QED BY <3>1, <3>2
  <2>2. Without(s \o r, x) = Without(s, x) \o Without(r, x)
    BY <1>2
  <2>3. CASE e = x
    <3>1. Without(Append(s \o r, e), x) = Without(s \o r, x)
      BY <2>1, <2>3, WithoutAppend
    <3>2. Without(Append(r, e), x) = Without(r, x)
      BY <2>3, WithoutAppend
    <3>3. QED BY <2>1, <2>2, <3>1, <3>2, AppendProperties
  <2>4. CASE e # x
    <3>1. Without(Append(s \o r, e), x) = Append(Without(s \o r, x), e)
      <4>1. PICK q \in Seq(S) : q = s \o r
        BY ConcatProperties
      <4>2. Without(Append(q, e), x) = Append(Without(q, x), e)
        BY <2>4, WithoutAppend
      <4>3. QED BY <4>1, <4>2
    <3>2. Without(Append(r, e), x) = Append(Without(r, x), e)
      BY <2>4, WithoutAppend
    <3>3. Append(Without(s, x) \o Without(r, x), e) = Without(s, x) \o Append(Without(r, x), e)
      <4>1. Without(s, x) \in Seq(S) /\ Without(r, x) \in Seq(S)
        <5>1. Without(s, x) \in Seq(S \ {x}) /\ Without(r, x) \in Seq(S \ {x})
          BY WithoutType
        <5>2. S \ {x} \subseteq S
          OBVIOUS
        <5>3. QED BY <5>1, <5>2, SeqMonotonic
      <4>2. PICK a \in Seq(S), b \in Seq(S) : a = Without(s, x) /\ b = Without(r, x)
        BY <4>1
      <4>3. a \o b \in Seq(S) /\ <<e>> \in Seq(S)
        BY ConcatProperties
      <4>4. Append(a \o b, e) = (a \o b) \o <<e>> /\ Append(b, e) = b \o <<e>>
        BY <4>3, AppendIsConcat
      <4>5. (a \o b) \o <<e>> = a \o (b \o <<e>>)
        BY SMTT(30), <4>3, ConcatAssociative
      <4>6. Append(a \o b, e) = a \o Append(b, e)
        BY <4>4, <4>5
      <4>7. QED BY <4>2, <4>6
    <3>4. QED BY <2>1, <2>2, <3>1, <3>2, <3>3, AppendProperties
  <2>5. QED BY <2>3, <2>4
<1>3. Seq(S) \subseteq T
  <2> HIDE DEF T
  <2>1. QED BY <1>1, <1>2, GrowSeq
<1>4. QED BY <1>3

-----------------------------------------------------------------------------
(* Lines, letters and pieces *)

\* What Join makes of no line and of one line more.
LEMMA JoinStep ==
  ASSUME NEW S, Newline \in S, NEW lines \in Seq(Seq(S)), NEW l \in Seq(S)
  PROVE  /\ Join(<<>>) = <<>> /\ Join(lines) \in Seq(S)
         /\ Join(Append(lines, l)) =
              IF lines = <<>> THEN l ELSE Join(lines) \o (<<Newline>> \o l)
<1> DEFINE Sep(ls) == [i \in 1..Len(ls) |-> IF i = 1 THEN ls[1] ELSE <<Newline>> \o ls[i]]
           next == IF lines = <<>> THEN l ELSE <<Newline>> \o l
<1>1. Sep(<<>>) = <<>>
  OBVIOUS
<1>2. \A q \in Seq(S) : <<Newline>> \o q \in Seq(S)
  BY ConcatProperties
<1>3. Sep(lines) \in Seq(Seq(S)) /\ next \in Seq(S)
  BY <1>2, ElementOfSeq, LenProperties
<1>4. Sep(Append(lines, l)) = Append(Sep(lines), next)
  OBVIOUS
<1>5. lines = <<>> <=> Sep(lines) = <<>>
  <2>1. Len(Sep(lines)) = Len(lines)
    BY LenProperties
  <2>2. QED BY <1>3, <2>1, EmptySeq
<1>6. \A ls : Join(ls) = FlattenSeq(Sep(ls))
  BY DEF Join
<1> HIDE DEF Sep
<1>7. FlattenSeq(Append(Sep(lines), next)) = IF Sep(lines) = <<>> THEN next ELSE FlattenSeq(Sep(lines)) \o next
  BY ZenonT(60), <1>3, FlattenStep
<1>8. Join(<<>>) = <<>> /\ Join(lines) \in Seq(S)
  BY <1>1, <1>3, <1>6, FlattenStep, FlattenType
<1>9. QED BY <1>4, <1>5, <1>6, <1>7, <1>8

\* Joining loses and adds no letter.
LEMMA LettersJoin ==
  ASSUME NEW S, Newline \in S, NEW lines \in Seq(Seq(S)), NEW l \in Seq(S)
  PROVE  Letters(Join(Append(lines, l))) = Letters(Join(lines)) \o Letters(l)
<1>1. Letters(l) \in Seq(S \ {Newline})
  BY WithoutType DEF Letters
<1>2. CASE lines = <<>>
  <2>1. Letters(Join(lines)) = <<>>
    BY <1>2, JoinStep, WithoutEmpty DEF Letters
  <2>2. <<>> \o Letters(l) = Letters(l)
    BY <1>1, ConcatEmptySeq
  <2>3. QED BY <1>2, <2>1, <2>2, JoinStep
<1>3. CASE lines # <<>>
  <2>1. PICK a \in Seq(S), nl \in Seq(S), b \in Seq(S) :
          a = Join(lines) /\ nl = <<Newline>> /\ b = nl \o l
    <3>1. Join(lines) \in Seq(S) /\ <<Newline>> \in Seq(S)
      BY JoinStep
    <3>2. <<Newline>> \o l \in Seq(S)
      BY <3>1, ConcatProperties
    <3>3. QED BY <3>1, <3>2
  <2>2. Join(Append(lines, l)) = a \o b
    BY <1>3, <2>1, JoinStep
  <2>3. Letters(a \o b) = Letters(a) \o Letters(b)
    BY WithoutConcat DEF Letters
  <2>4. Letters(b) = Letters(nl) \o Letters(l)
    BY ZenonT(60), <2>1, WithoutConcat DEF Letters
  <2>5. Letters(nl) = <<>>
    <3>1. nl = Append(<<>>, Newline)
      BY <2>1
    <3>2. Without(Append(<<>>, Newline), Newline) = Without(<<>>, Newline)
      BY WithoutAppend, EmptySeq
    <3>3. QED BY <3>1, <3>2, WithoutEmpty DEF Letters
  <2>6. <<>> \o Letters(l) = Letters(l)
    BY <1>1, ConcatEmptySeq
  <2>7. QED BY <2>1, <2>2, <2>3, <2>4, <2>5, <2>6
<1>4. QED BY <1>2, <1>3

\* The number of pieces: the last one is not empty, and there is no rest.
LEMMA PiecesCount ==
  ASSUME NEW k \in Nat, NEW size \in Nat \ {0}
  PROVE  LET n == (k + size - 1) \div size
         IN  n \in Nat /\ k <= n * size /\ (n - 1) * size < k
<1> DEFINE a == k + size - 1
           n == a \div size
<1>1. a \in Nat
  OBVIOUS
<1>2. n \in Nat /\ size * n <= a /\ a < size * (n + 1)
  BY <1>1
<1>3. size * n = n * size /\ size * (n + 1) = n * size + size /\ (n - 1) * size = n * size - size
  BY <1>2
<1>4. QED BY <1>1, <1>2, <1>3

\* Cutting in pieces yields no empty piece, none that is too long, and all of
\* the text.
LEMMA PiecesSound ==
  ASSUME NEW S, NEW text \in Seq(S), NEW size \in Nat \ {0}
  PROVE  /\ Pieces(text, size) \in Seq(Seq(S))
         /\ \A i \in 1..Len(Pieces(text, size)) : Len(Pieces(text, size)[i]) \in 1..size
         /\ FlattenSeq(Pieces(text, size)) = text
<1>1. PICK k \in Nat : k = Len(text)
  BY LenProperties
<1>2. PICK n \in Nat : n = (k + size - 1) \div size /\ k <= n * size /\ (n - 1) * size < k
  BY PiecesCount
<1> DEFINE End(i) == IF i * size < k THEN i * size ELSE k
           Piece(i) == SubSeq(text, (i - 1) * size + 1, End(i))
           First(m) == [i \in 1..m |-> Piece(i)]
<1>3. \A i \in 1..n : /\ (i - 1) * size \in Nat /\ i * size = (i - 1) * size + size
                      /\ (i - 1) * size < k
  <2>1. SUFFICES ASSUME NEW i \in 1..n
                 PROVE  /\ (i - 1) * size \in Nat /\ i * size = (i - 1) * size + size
                        /\ (i - 1) * size < k
    OBVIOUS
  <2>2. (i - 1) * size \in Nat /\ i * size = (i - 1) * size + size
    OBVIOUS
  <2>3. (i - 1) * size <= (n - 1) * size
    OBVIOUS
  <2>4. QED BY <1>2, <2>2, <2>3
<1>4. \A i \in 1..n : Piece(i) \in Seq(S) /\ Len(Piece(i)) \in 1..size
  <2>1. SUFFICES ASSUME NEW i \in 1..n PROVE Piece(i) \in Seq(S) /\ Len(Piece(i)) \in 1..size
    OBVIOUS
  <2>2. PICK p \in Nat : p = (i - 1) * size /\ i * size = p + size /\ p < k
    BY <1>3
  <2>3. End(i) = IF p + size < k THEN p + size ELSE k
    BY <2>2
  <2>4. PICK lo \in Nat, hi \in Nat : /\ lo = p + 1 /\ hi = End(i)
                                      /\ lo <= hi /\ hi <= k /\ hi - lo + 1 \in 1..size
    <3> HIDE DEF End
    <3>1. QED BY <2>2, <2>3
  <2>5. \A j \in lo..hi : text[j] \in S
    <3>1. \A j \in lo..hi : j \in 1..Len(text)
      BY <1>1, <2>4
    <3>2. QED BY <3>1, ElementOfSeq
  <2>6. SubSeq(text, lo, hi) \in Seq(S) /\ Len(SubSeq(text, lo, hi)) = hi - lo + 1
    BY <2>4, <2>5, SubSeqProperties
  <2>7. Piece(i) = SubSeq(text, lo, hi)
    BY <2>2, <2>4
  <2>8. QED BY <2>4, <2>6, <2>7
<1>5. Pieces(text, size) = First(n)
  BY <1>1, <1>2 DEF Pieces
<1> HIDE DEF Piece
<1>6. \A m \in 0..n : First(m) \in Seq(Seq(S)) /\ Len(First(m)) = m
  BY <1>4
<1>7. \A m \in Nat : m \in 0..n => FlattenSeq(First(m)) = SubSeq(text, 1, End(m))
  <2> DEFINE T == {m \in Nat : m \in 0..n => FlattenSeq(First(m)) = SubSeq(text, 1, End(m))}
  <2>1. 0 \in T
    <3>1. First(0) = <<>> /\ 0 * size = 0
      OBVIOUS
    <3>2. End(0) = 0
      BY <3>1
    <3>3. SubSeq(text, 1, 0) = <<>>
      BY SubSeqEmpty
    <3>4. QED BY <3>1, <3>2, <3>3, FlattenStep
  <2>2. ASSUME NEW m \in Nat, m \in T PROVE m + 1 \in T
    <3>1. SUFFICES ASSUME m + 1 \in 0..n
                   PROVE  FlattenSeq(First(m + 1)) = SubSeq(text, 1, End(m + 1))
      OBVIOUS
    <3>2. m + 1 \in 1..n /\ m \in 0..n
      BY <3>1
    <3>3. First(m + 1) = Append(First(m), Piece(m + 1))
      BY <3>2
    <3>4. FlattenSeq(Append(First(m), Piece(m + 1))) = FlattenSeq(First(m)) \o Piece(m + 1)
      BY <1>4, <1>6, <3>2, FlattenAppend
    <3>5. PICK lo \in Nat : lo = m * size /\ (m + 1) * size = lo + size /\ lo < k
      BY <1>3, <3>2
    <3>6. PICK hi \in Nat : hi = End(m + 1) /\ lo <= hi /\ hi <= k
      BY <3>5
    <3>7. End(m) = lo /\ Piece(m + 1) = SubSeq(text, lo + 1, hi)
      BY <3>5, <3>6 DEF Piece
    <3>8. SubSeq(text, 1, lo) \o SubSeq(text, lo + 1, hi) = SubSeq(text, 1, hi)
      <4>1. 1 \in 1..(Len(text) + 1) /\ lo \in (1 - 1)..Len(text) /\ hi \in lo..Len(text)
        BY <1>1, <3>5, <3>6
      <4>2. QED BY <4>1, ConcatAdjacentSubSeq
    <3>9. FlattenSeq(First(m)) = SubSeq(text, 1, lo)
      BY <2>2, <3>2, <3>7
    <3> HIDE DEF First, End
    <3>10. QED BY <3>3, <3>4, <3>6, <3>7, <3>8, <3>9
  <2>3. Nat \subseteq T
    <3> HIDE DEF T
    <3>1. QED BY <2>1, <2>2, CountUp
  <2>4. QED BY <2>3
<1>8. FlattenSeq(First(n)) = text
  <2>1. End(n) = k
    BY <1>1, <1>2
  <2>2. FlattenSeq(First(n)) = SubSeq(text, 1, k)
    BY <1>7, <2>1
  <2>3. QED BY <1>1, <2>2, SubSeqFull
<1>9. \A i \in 1..n : First(n)[i] = Piece(i)
  OBVIOUS
<1> HIDE DEF First
<1>10. QED BY <1>4, <1>5, <1>6, <1>8, <1>9

-----------------------------------------------------------------------------
(* Building chunks from lines *)

Chars == {Plain, Wide, Newline}

\* Chunks none of which is empty or above the effective size.
Sized(chunks) ==
  chunks \in Seq(Seq(Chars)) /\ \A i \in 1..Len(chunks) : Len(chunks[i]) \in 1..Effective

\* What is under construction: lines that are not empty wait to be joined.
BuildType == [chunks : Seq(Seq(Chars)), open : Seq(Seq(Chars) \ {<<>>}), size : Nat]

\* What has been built from some lines holds their letters, in chunks and in the
\* chunk under construction, whose size is known.
Built(b, lines) ==
  /\ b \in BuildType
  /\ Sized(b.chunks) /\ b.size = Len(Join(b.open)) /\ b.size <= Effective
  /\ Letters(FlattenSeq(b.chunks)) \o Letters(Join(b.open)) = Letters(Join(lines))

\* There is room for a character beside the overhead.
LEMMA EffectiveType == Effective \in Nat \ {0}
BY SizesAssumption DEF Effective

\* The letters of a text, and of two texts in a row.
LEMMA LettersStep ==
  ASSUME NEW a \in Seq(Chars), NEW b \in Seq(Chars)
  PROVE  /\ Letters(a) \in Seq(Chars) /\ Letters(<<>>) = <<>>
         /\ a \o b \in Seq(Chars) /\ Letters(a \o b) = Letters(a) \o Letters(b)
<1>1. Letters(a) \in Seq(Chars \ {Newline})
  BY WithoutType DEF Letters
<1>2. Letters(a) \in Seq(Chars)
  <2>1. Chars \ {Newline} \subseteq Chars
    OBVIOUS
  <2>2. QED BY <1>1, <2>1, SeqMonotonic
<1>3. Letters(<<>>) = <<>>
  BY WithoutEmpty DEF Letters
<1>4. a \o b \in Seq(Chars)
  BY ConcatProperties
<1>5. Letters(a \o b) = Letters(a) \o Letters(b)
  BY WithoutConcat DEF Letters
<1>6. QED BY <1>2, <1>3, <1>4, <1>5

\* Joined lines, and one line more.
LEMMA JoinLines ==
  ASSUME NEW lines \in Seq(Seq(Chars)), NEW l \in Seq(Chars), l # <<>>
  PROVE  /\ Join(<<>>) = <<>> /\ Join(lines) \in Seq(Chars)
         /\ Join(Append(lines, l)) \in Seq(Chars)
         /\ Len(Join(Append(lines, l))) =
              IF lines = <<>> THEN Len(l) ELSE Len(Join(lines)) + Len(l) + 1
         /\ Len(Join(Append(lines, l))) > 0
         /\ Letters(Join(Append(lines, l))) = Letters(Join(lines)) \o Letters(l)
<1>1. Newline \in Chars
  BY DEF Chars
<1>2. /\ Join(<<>>) = <<>> /\ Join(lines) \in Seq(Chars)
      /\ Join(Append(lines, l)) = IF lines = <<>> THEN l ELSE Join(lines) \o (<<Newline>> \o l)
  <2>1. Join(<<>>) = <<>>
    BY <1>1, JoinStep
  <2>2. Join(lines) \in Seq(Chars)
    BY <1>1, JoinStep
  <2>3. Join(Append(lines, l)) = IF lines = <<>> THEN l ELSE Join(lines) \o (<<Newline>> \o l)
    BY <1>1, JoinStep
  <2>4. QED BY <2>1, <2>2, <2>3
<1>3. Len(l) \in Nat \ {0}
  BY EmptySeq
<1>4. Letters(Join(Append(lines, l))) = Letters(Join(lines)) \o Letters(l)
  BY <1>1, LettersJoin
<1>5. PICK a \in Seq(Chars), b \in Seq(Chars) : /\ a = Join(lines) /\ b = <<Newline>> \o l
                                                /\ Len(b) = Len(l) + 1
  <2>1. <<Newline>> \in Seq(Chars) /\ Len(<<Newline>>) = 1
    BY <1>1
  <2>2. <<Newline>> \o l \in Seq(Chars) /\ Len(<<Newline>> \o l) = 1 + Len(l)
    BY <2>1, ConcatProperties
  <2>3. Join(lines) \in Seq(Chars) /\ Len(<<Newline>> \o l) = Len(l) + 1
    BY <1>2, <1>3, <2>2
  <2>4. <<Newline>> \o l \in Seq(Chars)
    BY <2>2
  <2>5. QED BY <2>3, <2>4
<1>6. a \o b \in Seq(Chars) /\ Len(a \o b) = Len(a) + Len(l) + 1 /\ Len(a) \in Nat
  BY <1>3, <1>5, ConcatProperties, LenProperties
<1>7. Join(Append(lines, l)) = IF lines = <<>> THEN l ELSE a \o b
  BY <1>2, <1>5
<1>8. /\ Join(Append(lines, l)) \in Seq(Chars)
      /\ Len(Join(Append(lines, l))) = IF lines = <<>> THEN Len(l) ELSE Len(a) + Len(l) + 1
  BY <1>6, <1>7
<1>9. Len(Join(Append(lines, l))) > 0
  BY <1>3, <1>6, <1>8
<1>10. QED BY <1>2, <1>4, <1>5, <1>8, <1>9

\* Lines that are not empty do not join to nothing.
LEMMA JoinNotEmpty ==
  ASSUME NEW lines \in Seq(Seq(Chars) \ {<<>>})
  PROVE  /\ lines \in Seq(Seq(Chars))
         /\ Join(lines) \in Seq(Chars) /\ Len(Join(lines)) \in Nat
         /\ lines = <<>> <=> Len(Join(lines)) = 0
<1>1. Seq(Chars) \ {<<>>} \subseteq Seq(Chars)
  OBVIOUS
<1>2. lines \in Seq(Seq(Chars))
  BY <1>1, SeqMonotonic
<1>3. Join(lines) \in Seq(Chars) /\ Len(Join(lines)) \in Nat
  <2>1. <<Plain>> \in Seq(Chars) /\ <<Plain>> # <<>>
    BY DEF Chars
  <2>2. Join(lines) \in Seq(Chars)
    BY <1>2, <2>1, JoinLines
  <2>3. QED BY <2>2, LenProperties
<1>4. CASE lines = <<>>
  <2>1. Join(<<>>) = <<>>
    BY <1>2, <1>3, JoinLines
  <2>2. QED BY <1>4, <2>1, EmptySeq
<1>5. CASE lines # <<>>
  <2>1. PICK r \in Seq(Seq(Chars) \ {<<>>}), e \in Seq(Chars) \ {<<>>} : lines = Append(r, e)
    BY <1>5, SequenceEmptyOrAppend
  <2>2. r \in Seq(Seq(Chars))
    BY <1>1, SeqMonotonic
  <2>3. Len(Join(Append(r, e))) > 0
    BY <2>2, JoinLines
  <2>4. QED BY <1>2, <1>3, <1>5, <2>1, <2>3
<1>6. QED BY <1>4, <1>5

\* The fields of what is under construction.
LEMMA BuildFields ==
  ASSUME NEW b \in BuildType
  PROVE  /\ b.chunks \in Seq(Seq(Chars)) /\ b.open \in Seq(Seq(Chars) \ {<<>>})
         /\ b.size \in Nat
BY DEF BuildType

\* More chunks of the right sizes.
LEMMA SizedConcat ==
  ASSUME NEW a, NEW b, Sized(a), Sized(b)
  PROVE  Sized(a \o b) /\ FlattenSeq(a \o b) = FlattenSeq(a) \o FlattenSeq(b)
<1>1. a \in Seq(Seq(Chars)) /\ b \in Seq(Seq(Chars))
  BY DEF Sized
<1>2. /\ a \o b \in Seq(Seq(Chars)) /\ Len(a \o b) = Len(a) + Len(b)
      /\ \A i \in 1..(Len(a) + Len(b)) :
           (a \o b)[i] = IF i <= Len(a) THEN a[i] ELSE b[i - Len(a)]
  BY <1>1, ConcatProperties
<1>3. Len(a) \in Nat /\ Len(b) \in Nat
  BY <1>1, LenProperties
<1>4. ASSUME NEW i \in 1..(Len(a) + Len(b)) PROVE Len((a \o b)[i]) \in 1..Effective
  <2>1. CASE i <= Len(a)
    BY <1>2, <1>3, <2>1 DEF Sized
  <2>2. CASE i > Len(a)
    <3>1. i - Len(a) \in 1..Len(b)
      BY <1>3, <2>2
    <3>2. QED BY <1>2, <1>3, <2>2, <3>1 DEF Sized
  <2>3. QED BY <1>3, <2>1, <2>2
<1>5. FlattenSeq(a \o b) = FlattenSeq(a) \o FlattenSeq(b)
  BY <1>1, FlattenConcat
<1>6. QED BY <1>2, <1>4, <1>5 DEF Sized

\* One chunk more.
LEMMA SizedAppend ==
  ASSUME NEW a, NEW c \in Seq(Chars), Sized(a), Len(c) \in 1..Effective
  PROVE  Sized(Append(a, c)) /\ FlattenSeq(Append(a, c)) = FlattenSeq(a) \o c
<1>1. a \in Seq(Seq(Chars))
  BY DEF Sized
<1>2. /\ Append(a, c) \in Seq(Seq(Chars)) /\ Len(Append(a, c)) = Len(a) + 1
      /\ \A i \in 1..Len(a) : Append(a, c)[i] = a[i]
      /\ Append(a, c)[Len(a) + 1] = c
  BY <1>1, AppendProperties
<1>3. Len(a) \in Nat
  BY <1>1, LenProperties
<1>4. ASSUME NEW i \in 1..(Len(a) + 1) PROVE Len(Append(a, c)[i]) \in 1..Effective
  <2>1. CASE i = Len(a) + 1
    BY <1>2, <2>1
  <2>2. CASE i # Len(a) + 1
    <3>1. i \in 1..Len(a)
      BY <1>3, <2>2
    <3>2. QED BY <1>2, <3>1 DEF Sized
  <2>3. QED BY <2>1, <2>2
<1>5. FlattenSeq(Append(a, c)) = FlattenSeq(a) \o c
  BY <1>1, FlattenAppend
<1>6. QED BY <1>2, <1>4, <1>5 DEF Sized

\* Closing the chunk under construction keeps what was built.
LEMMA CloseSound ==
  ASSUME NEW b, NEW lines, Built(b, lines)
  PROVE  /\ CloseChunk(b) \in BuildType /\ Sized(CloseChunk(b).chunks)
         /\ CloseChunk(b).open = <<>> /\ CloseChunk(b).size = 0
         /\ Letters(FlattenSeq(CloseChunk(b).chunks)) = Letters(Join(lines))
<1>1. b \in BuildType
  BY DEF Built
<1>2. /\ Sized(b.chunks) /\ b.size = Len(Join(b.open)) /\ b.size <= Effective
      /\ Letters(FlattenSeq(b.chunks)) \o Letters(Join(b.open)) = Letters(Join(lines))
  BY DEF Built
<1>3. /\ b.chunks \in Seq(Seq(Chars)) /\ b.open \in Seq(Seq(Chars) \ {<<>>})
      /\ b.size \in Nat
  BY <1>1, BuildFields
<1>4. /\ Join(b.open) \in Seq(Chars)
      /\ b.open = <<>> <=> Len(Join(b.open)) = 0
  BY <1>3, JoinNotEmpty
<1>5. FlattenSeq(b.chunks) \in Seq(Chars)
  BY <1>3, FlattenType
<1>6. CASE b.open = <<>>
  <2>1. CloseChunk(b) = b
    BY <1>6 DEF CloseChunk
  <2>2. Join(b.open) = <<>>
    BY <1>4, <1>6, EmptySeq
  <2>3. Letters(FlattenSeq(b.chunks)) \in Seq(Chars) /\ Letters(<<>>) = <<>>
    BY <1>5, LettersStep
  <2>4. Letters(FlattenSeq(b.chunks)) \o <<>> = Letters(FlattenSeq(b.chunks))
    BY <2>3, ConcatEmptySeq
  <2>5. Letters(FlattenSeq(b.chunks)) = Letters(Join(lines))
    BY <1>2, <2>2, <2>3, <2>4
  <2>6. b.size = 0
    BY <1>2, <1>4, <1>6
  <2>7. QED BY <1>1, <1>2, <1>6, <2>1, <2>5, <2>6
<1>7. CASE b.open # <<>>
  <2> DEFINE c == [chunks |-> Append(b.chunks, Join(b.open)), open |-> <<>>, size |-> 0]
  <2>1. CloseChunk(b) = c
    BY <1>7 DEF CloseChunk
  <2>2. Len(Join(b.open)) \in 1..Effective
    BY <1>2, <1>3, <1>4, <1>7
  <2>3. /\ Sized(c.chunks) /\ FlattenSeq(c.chunks) = FlattenSeq(b.chunks) \o Join(b.open)
    BY <1>2, <1>4, <2>2, SizedAppend
  <2>4. Letters(FlattenSeq(b.chunks) \o Join(b.open))
          = Letters(FlattenSeq(b.chunks)) \o Letters(Join(b.open))
    BY <1>4, <1>5, LettersStep
  <2>5. c.chunks \in Seq(Seq(Chars)) /\ c.open = <<>> /\ c.size = 0
    BY <2>3 DEF Sized
  <2>6. c \in BuildType
    BY <2>5 DEF BuildType
  <2> HIDE DEF c
  <2>7. QED BY <1>2, <2>1, <2>3, <2>4, <2>5, <2>6
<1>8. QED BY <1>6, <1>7

\* The next line, whichever way it is taken in, keeps sizes and letters.
LEMMA AddLineSound ==
  ASSUME NEW b, NEW lines \in Seq(Seq(Chars)), Built(b, lines),
         NEW line \in Seq(Chars) \ {<<>>}
  PROVE  Built(AddLine(b, line), Append(lines, line))
<1> DEFINE size == Len(line) + (IF b.size > 0 THEN 1 ELSE 0)
           closed == CloseChunk(b)
<1>1. PICK k \in Nat \ {0} : k = Len(line)
  BY EmptySeq
<1>2. /\ b \in BuildType /\ Sized(b.chunks) /\ b.size = Len(Join(b.open))
      /\ b.size <= Effective /\ b.size \in Nat
      /\ Letters(FlattenSeq(b.chunks)) \o Letters(Join(b.open)) = Letters(Join(lines))
  BY BuildFields DEF Built
<1>3. /\ closed \in BuildType /\ Sized(closed.chunks)
      /\ closed.open = <<>> /\ closed.size = 0
      /\ Letters(FlattenSeq(closed.chunks)) = Letters(Join(lines))
  BY CloseSound
<1>4. Letters(Join(Append(lines, line))) = Letters(Join(lines)) \o Letters(line)
  BY JoinLines
<1>5. Letters(line) \in Seq(Chars) /\ Join(<<>>) = <<>> /\ Letters(<<>>) = <<>>
  BY JoinLines, LettersStep
<1>6. size \in Nat /\ Effective \in Nat
  BY <1>1, <1>2, EffectiveType
<1>7. CASE size > Effective
  <2> DEFINE p == Pieces(line, Effective)
             r == [closed EXCEPT !.chunks = @ \o p]
  <2>1. AddLine(b, line) = r
    BY <1>7 DEF AddLine
  <2>2. Sized(p) /\ FlattenSeq(p) = line
    BY EffectiveType, PiecesSound DEF Sized
  <2> HIDE DEF p
  <2>3. Sized(closed.chunks \o p)
        /\ FlattenSeq(closed.chunks \o p) = FlattenSeq(closed.chunks) \o line
    BY <1>3, <2>2, SizedConcat
  <2>4. Letters(FlattenSeq(closed.chunks) \o line)
          = Letters(FlattenSeq(closed.chunks)) \o Letters(line)
    <3>1. FlattenSeq(closed.chunks) \in Seq(Chars)
      BY <1>3, FlattenType DEF Sized
    <3>2. QED BY <3>1, LettersStep
  <2> HIDE DEF closed
  <2>5. /\ r \in BuildType /\ r.chunks = closed.chunks \o p /\ r.open = <<>> /\ r.size = 0
    BY <1>3, <2>3 DEF BuildType, Sized
  <2> HIDE DEF r
  <2>6. Letters(FlattenSeq(r.chunks)) \o Letters(Join(r.open)) = Letters(Join(Append(lines, line)))
    <3>1. Letters(FlattenSeq(r.chunks)) = Letters(Join(Append(lines, line)))
      BY <1>3, <1>4, <2>3, <2>4, <2>5
    <3>2. Letters(Join(r.open)) = <<>>
      BY <1>5, <2>5
    <3>3. Letters(FlattenSeq(r.chunks)) \in Seq(Chars)
      <4>1. FlattenSeq(r.chunks) \in Seq(Chars)
        BY <2>3, <2>5, FlattenType DEF Sized
      <4>2. QED BY <4>1, LettersStep
    <3>4. QED BY <3>1, <3>2, <3>3, ConcatEmptySeq
  <2>7. r.size = Len(Join(r.open)) /\ r.size <= Effective
    BY <1>5, <2>5, EffectiveType, EmptySeq
  <2>8. QED BY <2>1, <2>3, <2>5, <2>6, <2>7 DEF Built
<1>8. CASE size <= Effective /\ b.size + size > Effective /\ b.open # <<>>
  <2> DEFINE r == [closed EXCEPT !.open = <<line>>, !.size = Len(line)]
  <2>1. AddLine(b, line) = r
    BY <1>1, <1>2, <1>8, EffectiveType DEF AddLine
  <2> HIDE DEF closed
  <2>2. <<line>> \in Seq(Seq(Chars) \ {<<>>}) /\ <<line>> = Append(<<>>, line)
    OBVIOUS
  <2>3. /\ r \in BuildType /\ r.chunks = closed.chunks /\ r.open = <<line>> /\ r.size = k
    BY <1>1, <1>3, <2>2 DEF BuildType
  <2> HIDE DEF r
  <2>4. Join(<<line>>) = line
    <3>1. Newline \in Chars /\ <<>> \in Seq(Seq(Chars))
      BY DEF Chars
    <3>2. Join(Append(<<>>, line)) = line
      BY <3>1, JoinStep
    <3>3. QED BY <2>2, <3>2
  <2>5. k <= Effective
    BY <1>1, <1>2, <1>8, EffectiveType
  <2>6. QED BY <1>1, <1>3, <1>4, <2>1, <2>3, <2>4, <2>5 DEF Built
<1>9. CASE size <= Effective /\ ~(b.size + size > Effective /\ b.open # <<>>)
  <2> DEFINE r == [chunks |-> b.chunks, open |-> Append(b.open, line), size |-> b.size + size]
  <2>1. AddLine(b, line) = r
    <3>1. ~(size > Effective) /\ ~(b.size + size > Effective /\ b.open # <<>>)
      <4>1. size \in Nat /\ Effective \in Nat
        BY <1>6
      <4> HIDE DEF size
      <4>2. QED BY <1>9, <4>1
    <3>2. QED BY <3>1, Zenon DEF AddLine
  <2>2. PICK n \in Nat : n = size /\ (b.size > 0 => n = k + 1) /\ (b.size = 0 => n = k)
    BY <1>1, <1>2
  <2>3. b.open \in Seq(Seq(Chars) \ {<<>>}) /\ b.chunks \in Seq(Seq(Chars))
    BY <1>2, BuildFields
  <2>4. Append(b.open, line) \in Seq(Seq(Chars) \ {<<>>})
    BY <2>3, AppendProperties
  <2>5. b.size + n \in Nat /\ b.size + n = b.size + size
    <3>1. n = size /\ b.size \in Nat
      BY <1>2, <2>2
    <3> HIDE DEF size
    <3>2. QED BY <3>1
  <2>6. /\ r \in BuildType /\ r.chunks = b.chunks
        /\ r.open = Append(b.open, line) /\ r.size = b.size + n
    BY <2>3, <2>4, <2>5 DEF BuildType
  <2> HIDE DEF r
  <2>7. /\ b.open \in Seq(Seq(Chars)) /\ Join(b.open) \in Seq(Chars)
        /\ b.open = <<>> <=> b.size = 0
    BY <1>2, <2>3, JoinNotEmpty
  <2>8. Len(Join(Append(b.open, line))) = b.size + n
    <3>1. Len(Join(Append(b.open, line))) =
            IF b.open = <<>> THEN Len(line) ELSE Len(Join(b.open)) + Len(line) + 1
      BY <2>7, JoinLines
    <3>2. CASE b.size = 0
      BY <1>1, <2>2, <2>7, <3>1, <3>2
    <3>3. CASE b.size # 0
      <4>1. n = k + 1 /\ b.size = Len(Join(b.open)) /\ b.open # <<>> /\ b.size \in Nat
        BY <1>2, <2>2, <2>7, <3>3
      <4>2. Len(Join(Append(b.open, line))) = Len(Join(b.open)) + Len(line) + 1
        BY <3>1, <4>1
      <4>3. QED BY <1>1, <4>1, <4>2
    <3>4. QED BY <3>2, <3>3
  <2>9. b.size + n <= Effective
    <3>1. n <= Effective /\ (b.size + n <= Effective \/ b.open = <<>>) /\ b.size \in Nat
      <4>1. n = size /\ b.size \in Nat /\ Effective \in Nat
        BY <1>2, <1>6, <2>2
      <4> HIDE DEF size
      <4>2. QED BY <1>9, <4>1
    <3>2. QED BY <2>7, <3>1, EffectiveType
  <2>10. Letters(FlattenSeq(b.chunks)) \o Letters(Join(Append(b.open, line)))
          = Letters(Join(Append(lines, line)))
    <3>1. Letters(Join(Append(b.open, line))) = Letters(Join(b.open)) \o Letters(line)
      BY <2>7, JoinLines
    <3>2. /\ Letters(FlattenSeq(b.chunks)) \in Seq(Chars) /\ Letters(Join(b.open)) \in Seq(Chars)
      <4>1. FlattenSeq(b.chunks) \in Seq(Chars)
        BY <2>3, FlattenType
      <4>2. QED BY <2>7, <4>1, LettersStep
    <3>3. Letters(FlattenSeq(b.chunks)) \o (Letters(Join(b.open)) \o Letters(line))
            = (Letters(FlattenSeq(b.chunks)) \o Letters(Join(b.open))) \o Letters(line)
      BY SMTT(30), <1>5, <3>2, ConcatAssociative
    <3>4. QED BY <1>2, <1>4, <3>1, <3>3
  <2>11. QED BY <1>2, <2>1, <2>6, <2>8, <2>9, <2>10 DEF Built
<1>10. QED BY <1>7, <1>8, <1>9, <1>6

\* f is what ByLines builds from the first n lines.
Builds(f, lines, n) ==
  f = [i \in 0..n |-> IF i = 0 THEN NothingBuilt ELSE AddLine(f[i - 1], lines[i])]

\* One step of the recursion.
LEMMA BuildsUnfold ==
  ASSUME NEW f, NEW lines, NEW n, Builds(f, lines, n), NEW i \in 0..n
  PROVE  f[i] = IF i = 0 THEN NothingBuilt ELSE AddLine(f[i - 1], lines[i])
<1> DEFINE g == [k \in 0..n |-> IF k = 0 THEN NothingBuilt ELSE AddLine(f[k - 1], lines[k])]
<1>1. f = g
  BY DEF Builds
<1>2. g[i] = IF i = 0 THEN NothingBuilt ELSE AddLine(f[i - 1], lines[i])
  OBVIOUS
<1> HIDE DEF g
<1>3. QED BY <1>1, <1>2

\* The recursion of ByLines has a solution.
LEMMA BuildsExists ==
  ASSUME NEW lines, NEW n \in Nat
  PROVE  \E f : Builds(f, lines, n)
<1> DEFINE T == {k \in Nat : \E f : Builds(f, lines, k)}
<1>1. 0 \in T
  <2> DEFINE f == [i \in 0..0 |-> NothingBuilt]
  <2>1. Builds(f, lines, 0)
    BY DEF Builds
  <2>2. QED BY <2>1
<1>2. ASSUME NEW k \in Nat, k \in T PROVE k + 1 \in T
  <2>1. PICK f : Builds(f, lines, k)
    BY <1>2
  <2> DEFINE g == [i \in 0..(k + 1) |-> IF i <= k THEN f[i] ELSE AddLine(f[i - 1], lines[i])]
  <2>2. \A i \in 0..(k + 1) :
          g[i] = IF i = 0 THEN NothingBuilt ELSE AddLine(g[i - 1], lines[i])
    BY <2>1, BuildsUnfold
  <2>3. g = [i \in 0..(k + 1) |-> IF i = 0 THEN NothingBuilt ELSE AddLine(g[i - 1], lines[i])]
    <3>1. DOMAIN g = 0..(k + 1) /\ g = [i \in 0..(k + 1) |-> g[i]]
      OBVIOUS
    <3> HIDE DEF g
    <3>2. QED BY <2>2, <3>1
  <2>4. Builds(g, lines, k + 1)
    BY <2>3 DEF Builds
  <2>5. QED BY <2>4
<1>3. Nat \subseteq T
  <2> HIDE DEF T
  <2>1. QED BY <1>1, <1>2, CountUp
<1>4. QED BY <1>3

\* The line loop keeps sizes and letters.
LEMMA ByLinesSound ==
  ASSUME NEW lines \in Seq(Seq(Chars) \ {<<>>})
  PROVE  Sized(ByLines(lines)) /\ Letters(FlattenSeq(ByLines(lines))) = Letters(Join(lines))
<1>1. PICK n \in Nat : n = Len(lines)
  BY LenProperties
<1>2. Builds(CHOOSE f : Builds(f, lines, n), lines, n)
  BY BuildsExists
<1>3. ByLines(lines) = CloseChunk((CHOOSE f : Builds(f, lines, n))[n]).chunks
  BY <1>1 DEF ByLines, Builds
<1>4. PICK f : Builds(f, lines, n) /\ ByLines(lines) = CloseChunk(f[n]).chunks
  BY <1>2, <1>3
<1>5. lines \in Seq(Seq(Chars))
  BY JoinNotEmpty
<1> DEFINE First(m) == SubSeq(lines, 1, m)
           T == {m \in Nat : m \in 0..n => First(m) \in Seq(Seq(Chars)) /\ Built(f[m], First(m))}
<1>6. 0 \in T
  <2>1. f[0] = NothingBuilt
    BY <1>4, BuildsUnfold
  <2>2. First(0) = <<>> /\ <<>> \in Seq(Seq(Chars))
    BY SubSeqEmpty
  <2>3. Join(<<>>) = <<>> /\ Letters(<<>>) = <<>> /\ FlattenSeq(<<>>) = <<>> /\ <<>> \in Seq(Chars)
    <3>1. Newline \in Chars
      BY DEF Chars
    <3>2. Join(<<>>) = <<>>
      BY <2>2, <3>1, JoinStep, EmptySeq
    <3>3. QED BY <3>2, WithoutEmpty, FlattenStep DEF Letters
  <2>4. <<>> \o <<>> = <<>>
    OBVIOUS
  <2>5. Built(NothingBuilt, <<>>)
    <3>1. /\ NothingBuilt.chunks = <<>> /\ NothingBuilt.open = <<>> /\ NothingBuilt.size = 0
          /\ NothingBuilt \in BuildType
      BY DEF NothingBuilt, BuildType
    <3>2. Sized(<<>>)
      BY <2>2 DEF Sized
    <3>3. Len(<<>>) = 0 /\ 0 <= Effective
      BY EffectiveType
    <3>4. QED BY <2>3, <2>4, <3>1, <3>2, <3>3 DEF Built
  <2> HIDE DEF First
  <2>6. QED BY <2>1, <2>2, <2>5
<1>7. ASSUME NEW m \in Nat, m \in T PROVE m + 1 \in T
  <2>1. SUFFICES ASSUME m + 1 \in 0..n
                 PROVE  First(m + 1) \in Seq(Seq(Chars)) /\ Built(f[m + 1], First(m + 1))
    OBVIOUS
  <2>2. f[m + 1] = AddLine(f[m], lines[m + 1])
    <3>1. f[m + 1] = IF m + 1 = 0 THEN NothingBuilt ELSE AddLine(f[(m + 1) - 1], lines[m + 1])
      BY <1>4, <2>1, BuildsUnfold
    <3>2. QED BY <3>1
  <2>3. First(m) \in Seq(Seq(Chars)) /\ Built(f[m], First(m))
    BY <1>7, <2>1
  <2>4. lines[m + 1] \in Seq(Chars) \ {<<>>}
    BY <1>1, <2>1, ElementOfSeq
  <2>5. First(m + 1) = Append(First(m), lines[m + 1])
    BY <1>1, <2>1, SubSeqRecursiveFirst
  <2> HIDE DEF First
  <2>6. First(m + 1) \in Seq(Seq(Chars))
    <3>1. First(m) \in Seq(Seq(Chars)) /\ lines[m + 1] \in Seq(Chars)
      BY <2>3, <2>4
    <3>2. Append(First(m), lines[m + 1]) \in Seq(Seq(Chars))
      BY <3>1, AppendProperties
    <3>3. QED BY <2>5, <3>2
  <2>7. QED BY <2>2, <2>3, <2>4, <2>5, <2>6, AddLineSound
<1>8. Nat \subseteq T
  <2> HIDE DEF T
  <2>1. QED BY <1>6, <1>7, CountUp
<1>9. Built(f[n], First(n))
  BY <1>8
<1>10. First(n) = lines
  BY <1>1, SubSeqFull
<1>11. QED BY <1>4, <1>9, <1>10, CloseSound

\* No chunk of the line loop is left for the pass that cuts oversized ones.
LEMMA CutNothing ==
  ASSUME NEW cs, Sized(cs)
  PROVE  CutOversized(cs) = cs
<1>1. cs \in Seq(Seq(Chars))
  BY DEF Sized
<1>2. \A i \in 1..Len(cs) : ~(Len(cs[i]) + Overhead > ChunkSize)
  BY SizesAssumption DEF Sized, Effective
<1>3. CutOversized(cs) = FlattenSeq([i \in 1..Len(cs) |-> <<cs[i]>>])
  BY <1>2 DEF CutOversized
<1>4. QED BY <1>1, <1>3, FlattenSingles

\* What send_chunked_output cuts from printed lines is sound.
LEMMA ChunksOfLines ==
  ASSUME NEW shown, shown \in Seq(Seq({Plain, Wide}))
  PROVE  /\ Sized(Chunks(Collect(shown)))
         /\ Letters(FlattenSeq(Chunks(Collect(shown)))) = Letters(Join(Collect(shown)))
         /\ Join(Collect(shown)) \in Seq(Chars)
<1>1. {Plain, Wide} \subseteq Chars
  BY DEF Chars
<1>2. Seq({Plain, Wide}) \subseteq Seq(Chars)
  BY <1>1, SeqMonotonic
<1>3. shown \in Seq(Seq(Chars))
  BY <1>2, SeqMonotonic
<1>4. Collect(shown) \in Seq(Seq(Chars) \ {<<>>})
  BY <1>3, WithoutType DEF Collect
<1>5. Join(Collect(shown)) \in Seq(Chars)
  BY <1>4, JoinNotEmpty
<1>6. /\ Sized(ByLines(Collect(shown)))
      /\ Letters(FlattenSeq(ByLines(Collect(shown)))) = Letters(Join(Collect(shown)))
  BY <1>4, ByLinesSound
<1>7. CutOversized(ByLines(Collect(shown))) = ByLines(Collect(shown))
  BY <1>6, CutNothing
<1>8. QED BY <1>5, <1>6, <1>7 DEF Chunks

\* A text that makes too big a message has more than one character.
LEMMA BigIsLong ==
  ASSUME NEW c \in Seq(Chars), TooBig(c)
  PROVE  Len(c) \in Nat /\ Len(c) >= 2
<1> DEFINE wide == {i \in 1..Len(c) : c[i] = Wide}
<1>1. Len(c) \in Nat
  BY LenProperties
<1>2. SUFFICES ASSUME Len(c) <= 1 PROVE FALSE
  BY <1>1
<1>3. Cardinality(wide) \in 0..1
  <2>1. wide \subseteq {1}
    BY <1>1, <1>2
  <2>2. IsFiniteSet({1}) /\ Cardinality({1}) = 1
    BY FS_Singleton
  <2>3. IsFiniteSet(wide) /\ Cardinality(wide) <= 1
    BY <2>1, <2>2, FS_Subset
  <2>4. Cardinality(wide) \in Nat
    BY <2>3, FS_CardinalityType
  <2>5. QED BY <2>3, <2>4
<1>4. PICK n \in 0..1 : n = Cardinality(wide)
  BY <1>3
<1>5. MessageSize(c) = Overhead + Len(c) + (WideBytes - 1) * n
  BY <1>4 DEF MessageSize
<1>6. PICK p \in Nat : p = (WideBytes - 1) * n /\ p <= WideBytes - 1
  <2>1. CASE n = 0
    BY <2>1, SizesAssumption
  <2>2. CASE n = 1
    BY <2>2, SizesAssumption
  <2>3. QED BY <2>1, <2>2
<1>7. MessageSize(c) <= MaxPayload
  BY <1>1, <1>2, <1>5, <1>6, SizesAssumption
<1>8. QED BY <1>1, <1>5, <1>6, <1>7, SizesAssumption DEF TooBig

\* Halving a chunk keeps the sizes in range, the text, and the chunks before it.
LEMMA HalveSound ==
  ASSUME NEW cs, Sized(cs), NEW i \in 1..Len(cs), Len(cs[i]) >= 2
  PROVE  /\ Sized(Halve(cs, i)) /\ Len(Halve(cs, i)) = Len(cs) + 1
         /\ \A j \in 1..(i - 1) : Halve(cs, i)[j] = cs[j]
         /\ FlattenSeq(Halve(cs, i)) = FlattenSeq(cs)
<1>1. cs \in Seq(Seq(Chars)) /\ \A j \in 1..Len(cs) : Len(cs[j]) \in 1..Effective
  BY DEF Sized
<1>2. PICK n \in Nat : n = Len(cs)
  BY <1>1, LenProperties
<1>3. PICK c \in Seq(Chars), k \in Nat : c = cs[i] /\ k = Len(c) /\ k >= 2 /\ k <= Effective
  <2>1. cs[i] \in Seq(Chars) /\ Len(cs[i]) \in 1..Effective
    BY <1>1, ElementOfSeq
  <2>2. QED BY <2>1, EffectiveType
<1>4. PICK half \in Nat : half = k \div 2 /\ half >= 1 /\ half < k
  <2>1. k \in Nat /\ k >= 2
    BY <1>3
  <2>2. (k \div 2) \in Nat /\ k \div 2 >= 1 /\ k \div 2 < k
    BY <2>1
  <2>3. QED BY <2>2
<1>5. PICK a : a = SubSeq(c, 1, half)
  OBVIOUS
<1>6. PICK b : b = SubSeq(c, half + 1, k)
  OBVIOUS
<1>7. /\ a \in Seq(Chars) /\ Len(a) = half /\ b \in Seq(Chars) /\ Len(b) = k - half
      /\ a \o b = c
  <2>1. \A j \in 1..k : c[j] \in Chars
    BY <1>3, ElementOfSeq
  <2>2. a \in Seq(Chars) /\ Len(a) = half
    BY <1>4, <1>5, <2>1, SubSeqProperties
  <2>3. b \in Seq(Chars) /\ Len(b) = k - half
    BY <1>4, <1>6, <2>1, SubSeqProperties
  <2>4. a \o b = SubSeq(c, 1, k)
    <3>1. 1 \in 1..(Len(c) + 1) /\ half \in (1 - 1)..Len(c) /\ k \in half..Len(c)
      <4>1. half < k /\ k = Len(c)
        BY <1>3, <1>4
      <4>2. QED BY <4>1
    <3>2. c \in Seq(Chars)
      BY <1>3
    <3>3. SubSeq(c, 1, half) \o SubSeq(c, half + 1, k) = SubSeq(c, 1, k)
      BY <3>1, <3>2, ConcatAdjacentSubSeq
    <3>4. QED BY <1>5, <1>6, <3>3
  <2>5. SubSeq(c, 1, k) = c
    BY <1>3, SubSeqFull
  <2>6. QED BY <2>2, <2>3, <2>4, <2>5
<1>8. PICK p, q, s : p = SubSeq(cs, 1, i - 1) /\ q = <<a, b>> /\ s = SubSeq(cs, i + 1, n)
  OBVIOUS
<1>9. Sized(p) /\ Len(p) = i - 1 /\ \A j \in 1..(i - 1) : p[j] = cs[j]
  <2>1. \A j \in 1..(i - 1) : cs[j] \in Seq(Chars)
    BY <1>1, <1>2, ElementOfSeq
  <2>2. p \in Seq(Seq(Chars)) /\ Len(p) = i - 1 /\ \A j \in 1..(i - 1) : p[j] = cs[j]
    BY <1>2, <1>8, <2>1, SubSeqProperties
  <2>3. QED BY SMTT(30), <1>1, <1>2, <2>2 DEF Sized
<1>10. Sized(s) /\ Len(s) = n - i
  <2>1. \A j \in (i + 1)..n : cs[j] \in Seq(Chars)
    BY <1>1, <1>2, ElementOfSeq
  <2>2. s \in Seq(Seq(Chars)) /\ Len(s) = n - i /\ \A j \in 1..(n - i) : s[j] = cs[i + j]
    BY <1>2, <1>8, <2>1, SubSeqProperties
  <2>3. QED BY SMTT(30), <1>1, <1>2, <2>2 DEF Sized
<1>11. Sized(q) /\ Len(q) = 2 /\ FlattenSeq(q) = c
  <2>1. q \in Seq(Seq(Chars)) /\ Len(q) = 2 /\ q[1] = a /\ q[2] = b
    BY <1>7, <1>8
  <2>2. Len(a) \in 1..Effective /\ Len(b) \in 1..Effective
    <3>1. half \in 1..Effective /\ k - half \in 1..Effective
      <4>1. half >= 1 /\ half < k /\ k <= Effective
        BY <1>3, <1>4
      <4>2. QED BY <4>1, EffectiveType
    <3>2. QED BY <1>7, <3>1
  <2>3. \A j \in 1..2 : Len(q[j]) \in 1..Effective
    <3>1. \A j \in 1..2 : j = 1 \/ j = 2
      OBVIOUS
    <3>2. QED BY <2>1, <2>2, <3>1
  <2>4. FlattenSeq(q) = c
    BY <1>7, <1>8, FlattenFew
  <2>5. QED BY <2>1, <2>3, <2>4 DEF Sized
<1>12. Halve(cs, i) = (p \o q) \o s
  BY <1>2, <1>3, <1>4, <1>5, <1>6, <1>8 DEF Halve
<1>13. Sized(p \o q) /\ FlattenSeq(p \o q) = FlattenSeq(p) \o c
  BY <1>9, <1>11, SizedConcat
<1>14. Sized((p \o q) \o s) /\ FlattenSeq((p \o q) \o s) = (FlattenSeq(p) \o c) \o FlattenSeq(s)
  BY <1>10, <1>13, SizedConcat
<1>15. /\ p \in Seq(Seq(Chars)) /\ q \in Seq(Seq(Chars)) /\ s \in Seq(Seq(Chars))
       /\ Len((p \o q) \o s) = n + 1
       /\ \A j \in 1..(i - 1) : ((p \o q) \o s)[j] = cs[j]
  <2>1. p \in Seq(Seq(Chars)) /\ q \in Seq(Seq(Chars)) /\ s \in Seq(Seq(Chars))
    BY <1>9, <1>10, <1>11 DEF Sized
  <2>2. PICK u \in Seq(Seq(Chars)) : /\ u = p \o q /\ Len(u) = (i - 1) + 2
                                     /\ \A j \in 1..(i - 1) : u[j] = p[j]
    <3>1. /\ p \o q \in Seq(Seq(Chars)) /\ Len(p \o q) = Len(p) + Len(q)
          /\ \A j \in 1..(Len(p) + Len(q)) : (p \o q)[j] = IF j <= Len(p) THEN p[j] ELSE q[j - Len(p)]
      BY <2>1, ConcatProperties
    <3>2. Len(p) = i - 1 /\ Len(q) = 2
      BY <1>9, <1>11
    <3>3. \A j \in 1..(i - 1) : j \in 1..((i - 1) + 2) /\ j <= i - 1
      BY <1>2
    <3>4. QED BY <3>1, <3>2, <3>3
  <2>3. /\ Len(u \o s) = (i - 1) + 2 + (n - i)
        /\ \A j \in 1..(i - 1) : (u \o s)[j] = u[j]
    <3>1. u \in Seq(Seq(Chars))
      BY <2>2
    <3>2. /\ Len(u \o s) = Len(u) + Len(s)
          /\ \A j \in 1..(Len(u) + Len(s)) : (u \o s)[j] = IF j <= Len(u) THEN u[j] ELSE s[j - Len(u)]
      BY <2>1, <3>1, ConcatProperties
    <3>3. Len(u) = (i - 1) + 2 /\ Len(s) = n - i
      BY <1>10, <2>2
    <3>4. \A j \in 1..(i - 1) : j \in 1..((i - 1) + 2 + (n - i)) /\ j <= (i - 1) + 2
      BY <1>2
    <3>5. QED BY <3>2, <3>3, <3>4
  <2>4. (i - 1) + 2 + (n - i) = n + 1
    BY <1>2
  <2>5. QED BY <1>9, <2>1, <2>2, <2>3, <2>4
<1>16. FlattenSeq(cs) = (FlattenSeq(p) \o c) \o FlattenSeq(s)
  <2>1. cs = Append(p, c) \o s
    <3>1. SubSeq(cs, 1, i) = p \o <<c>>
      BY SMTT(30), <1>1, <1>2, <1>3, <1>8, SubSeqRecursiveSecond
    <3>2. SubSeq(cs, 1, i) \o SubSeq(cs, i + 1, n) = SubSeq(cs, 1, n)
      <4>1. 1 \in 1..(Len(cs) + 1) /\ i \in (1 - 1)..Len(cs) /\ n \in i..Len(cs)
        BY <1>2
      <4>2. QED BY <1>1, <4>1, ConcatAdjacentSubSeq
    <3>3. SubSeq(cs, 1, n) = cs
      BY <1>1, <1>2, SubSeqFull
    <3>4. p \o <<c>> = Append(p, c)
      BY <1>15, <1>3, AppendIsConcat
    <3>5. QED BY <1>8, <3>1, <3>2, <3>3, <3>4
  <2>2. FlattenSeq(Append(p, c)) = FlattenSeq(p) \o c
    BY <1>3, <1>15, FlattenAppend
  <2>3. Append(p, c) \in Seq(Seq(Chars))
    BY <1>3, <1>15, AppendProperties
  <2>4. FlattenSeq(Append(p, c) \o s) = FlattenSeq(Append(p, c)) \o FlattenSeq(s)
    BY <1>15, <2>3, FlattenConcat
  <2>5. QED BY <2>1, <2>2, <2>4
<1>17. QED BY <1>2, <1>12, <1>14, <1>15, <1>16

-----------------------------------------------------------------------------
(* The invariant *)

\* An error report carries a text of its own.
MessageType ==
  [text : Seq(Chars \cup {"error"}), ok : BOOLEAN, final : BOOLEAN, num : Nat, total : Nat]

\* The numbers of the stored chunks that are not final, and of the chunks that
\* may be stored or can still be.
Stored == {msgs[k].num : k \in {k \in 1..Len(msgs) : ~msgs[k].final}}
Possible == Stored \cup (at..(Len(parts) - 1))

\* The worker does not touch chunk n any more, unless it repeats it.
Passed(n) == n < at \/ (n = at /\ ~TooBig(parts[n]))

\* What the stored messages are.
ErrorOK(m) == m.total = 0

SingleOK(m) == m.total = 1 /\ parts = <<>> /\ w # "chunks" /\ m.text = Text

\* The last chunk announces all chunks there are.
LastOK(m) ==
  /\ m.num = Len(parts) /\ m.total = Len(parts) /\ parts # <<>> /\ Passed(m.num)
  /\ m.text = parts[m.num]

\* A chunk that is not the last announces more chunks than can be received
\* before the last one: halving a later chunk adds a chunk that is sent and
\* makes one that is not.
ChunkOK(m) ==
  /\ m.num \in 1..(Len(parts) - 1) /\ m.total > 1 /\ Passed(m.num)
  /\ m.text = parts[m.num]
  /\ Cardinality(Possible) < m.total

MessageOK(m) ==
  /\ m.final => ErrorOK(m) \/ SingleOK(m) \/ LastOK(m)
  /\ ~m.final => ChunkOK(m)

PartsInv ==
  /\ Sized(parts)
  /\ parts # <<>> => Letters(FlattenSeq(parts)) = Letters(Text)
  /\ w = "run" => parts = <<>> /\ msgs = <<>> /\ calls = <<>> /\ track = NoTrack
  /\ w = "single" => parts = <<>>

StreamInv == \A k \in 1..Len(msgs) : MessageOK(msgs[k])

\* What the client has of a chunk is the chunk.
TrackInv ==
  /\ track = [got |-> track.got, total |-> track.total] /\ track.total \in Nat
  /\ DOMAIN track.got \subseteq Stored
  /\ \A i \in DOMAIN track.got : track.got[i] = parts[i]

Whole == IF parts = <<>> THEN Text ELSE FlattenSeq(parts)

ResultType ==
  [kind : {"output", "nothing"}, text : Seq(Chars \cup {"error"}), ok : BOOLEAN, partial : BOOLEAN]

Honest(c) == c.kind = "output" /\ ~c.partial => c.text = Whole

\* One answer, and what is called complete is whole.
CallsInv ==
  /\ calls = <<>> \/ ~handler
  /\ \/ calls = <<>>
     \/ \E c \in ResultType : calls = <<c>> /\ Honest(c)

TInv == TypeOK /\ msgs \in Seq(MessageType) /\ PartsInv /\ StreamInv /\ TrackInv /\ CallsInv

\* The text of a task, and what it is cut into.
LEMMA TextType ==
  ASSUME printed \in Seq(Seq({Plain, Wide}))
  PROVE  /\ Text \in Seq(Chars)
         /\ Sized(Chunks(Collect(printed)))
         /\ Letters(FlattenSeq(Chunks(Collect(printed)))) = Letters(Text)
BY ChunksOfLines DEF Text

\* A chunk is a text in range.
LEMMA PartType ==
  ASSUME Sized(parts)
  PROVE  /\ Len(parts) \in Nat /\ FlattenSeq(parts) \in Seq(Chars)
         /\ parts = <<>> <=> Len(parts) = 0
         /\ \A i \in 1..Len(parts) : parts[i] \in Seq(Chars) /\ parts[i] # <<>>
<1>1. parts \in Seq(Seq(Chars)) /\ \A i \in 1..Len(parts) : Len(parts[i]) \in 1..Effective
  BY DEF Sized
<1>2. Len(parts) \in Nat /\ (parts = <<>> <=> Len(parts) = 0)
  BY <1>1, EmptySeq, LenProperties
<1>3. \A i \in 1..Len(parts) : parts[i] \in Seq(Chars)
  BY <1>1, ElementOfSeq
<1>4. \A i \in 1..Len(parts) : parts[i] # <<>>
  BY <1>1, EmptySeq
<1>5. FlattenSeq(parts) \in Seq(Chars)
  BY <1>1, FlattenType
<1>6. QED BY <1>2, <1>3, <1>4, <1>5

\* Chunks that may be received before the last one are fewer than the chunks.
LEMMA PossibleBound ==
  ASSUME Len(parts) \in Nat, at \in Nat \ {0}, StreamInv
  PROVE  /\ Stored \subseteq 1..(Len(parts) - 1) /\ Possible \subseteq 1..(Len(parts) - 1)
         /\ IsFiniteSet(Possible) /\ Cardinality(Possible) \in Nat
         /\ Len(parts) > 0 => Cardinality(Possible) < Len(parts)
<1>1. Stored \subseteq 1..(Len(parts) - 1)
  BY DEF Stored, StreamInv, MessageOK, ChunkOK
<1>2. Possible \subseteq 1..(Len(parts) - 1)
  <2>1. at..(Len(parts) - 1) \subseteq 1..(Len(parts) - 1)
    OBVIOUS
  <2>2. QED BY <1>1, <2>1 DEF Possible
<1>3. /\ IsFiniteSet(1..(Len(parts) - 1))
      /\ Cardinality(1..(Len(parts) - 1)) = IF 1 > Len(parts) - 1 THEN 0 ELSE (Len(parts) - 1) - 1 + 1
  <2>1. 1 \in Int /\ Len(parts) - 1 \in Int
    OBVIOUS
  <2>2. QED BY <2>1, FS_Interval
<1>4. IsFiniteSet(Possible) /\ Cardinality(Possible) <= Cardinality(1..(Len(parts) - 1))
  BY <1>2, <1>3, FS_Subset
<1>5. Cardinality(Possible) \in Nat
  BY <1>4, FS_CardinalityType
<1>6. QED BY <1>1, <1>2, <1>3, <1>4, <1>5

\* What one message more changes.
LEMMA StoreOne ==
  ASSUME msgs \in Seq(MessageType), NEW m \in MessageType, msgs' = Append(msgs, m)
  PROVE  /\ msgs' \in Seq(MessageType) /\ Len(msgs) \in Nat /\ Len(msgs') = Len(msgs) + 1
         /\ \A k \in 1..Len(msgs) : msgs'[k] = msgs[k]
         /\ msgs'[Len(msgs) + 1] = m
         /\ Stored' = IF m.final THEN Stored ELSE Stored \cup {m.num}
<1>1. PICK n \in Nat : n = Len(msgs)
  BY LenProperties
<1>2. /\ msgs' \in Seq(MessageType) /\ Len(msgs') = n + 1
      /\ \A k \in 1..n : msgs'[k] = msgs[k]
      /\ msgs'[n + 1] = m
  BY <1>1, AppendProperties
<1>3. Stored = {msgs[k].num : k \in {k \in 1..n : ~msgs[k].final}}
  BY <1>1 DEF Stored
<1>4. Stored' = {msgs'[k].num : k \in {k \in 1..(n + 1) : ~msgs'[k].final}}
  BY <1>2 DEF Stored
<1>5. \A x : x \in Stored' <=> \E k \in 1..(n + 1) : ~msgs'[k].final /\ msgs'[k].num = x
  BY <1>4
<1>6. \A x : x \in Stored <=> \E k \in 1..n : ~msgs[k].final /\ msgs[k].num = x
  BY <1>3
<1>7. \A k : k \in 1..(n + 1) <=> k \in 1..n \/ k = n + 1
  OBVIOUS
<1>8. \A x : x \in Stored' <=> x \in Stored \/ (~m.final /\ m.num = x)
  <2>1. \A x : (\E k \in 1..n : ~msgs'[k].final /\ msgs'[k].num = x) <=> x \in Stored
    BY <1>2, <1>6
  <2>2. QED BY <1>2, <1>5, <1>7, <2>1
<1>9. Stored' = IF m.final THEN Stored ELSE Stored \cup {m.num}
  BY <1>8
<1>10. QED BY <1>1, <1>2, <1>9

\* A stored message stays as it should be while the worker goes on.
LEMMA MessageKept ==
  ASSUME NEW m, MessageOK(m), at \in Nat, at' \in {at, at + 1},
         printed' = printed, parts' = parts, w' = w \/ w' # "chunks",
         IsFiniteSet(Possible), Possible' \subseteq Possible, Cardinality(Possible) \in Nat,
         m.total \in Nat, m.num \in Nat
  PROVE  MessageOK(m)'
<1>1. /\ Cardinality(Possible') \in Nat /\ Cardinality(Possible') <= Cardinality(Possible)
  <2>1. IsFiniteSet(Possible') /\ Cardinality(Possible') <= Cardinality(Possible)
    BY FS_Subset
  <2>2. QED BY <2>1, FS_CardinalityType
<1>2. Cardinality(Possible) < m.total => Cardinality(Possible') < m.total
  BY <1>1
<1>3. \A n \in Nat : Passed(n) => Passed(n)'
  <2>1. SUFFICES ASSUME NEW n \in Nat, Passed(n) PROVE Passed(n)'
    OBVIOUS
  <2>2. TooBig(parts'[n]) <=> TooBig(parts[n])
    OBVIOUS
  <2>3. QED BY <2>1, <2>2 DEF Passed
<1>4. Text' = Text
  BY DEF Text
<1>5. ErrorOK(m) => ErrorOK(m)'
  BY DEF ErrorOK
<1>6. SingleOK(m) => SingleOK(m)'
  BY <1>4 DEF SingleOK
<1>7. LastOK(m) => LastOK(m)'
  BY <1>3 DEF LastOK
<1>8. ChunkOK(m) => ChunkOK(m)'
  BY <1>2, <1>3 DEF ChunkOK
<1>9. QED BY <1>5, <1>6, <1>7, <1>8 DEF MessageOK

\* What the chunks are depends on the worker alone.
LEMMA PartsKept ==
  ASSUME PartsInv, printed' = printed, parts' = parts,
         w' = "run" => w = "run" /\ msgs' = msgs /\ calls' = calls /\ track' = track,
         w' = "single" => w = "single"
  PROVE  PartsInv' /\ Text' = Text /\ Whole' = Whole
<1>1. Text' = Text
  BY DEF Text
<1>2. Whole' = Whole
  BY <1>1 DEF Whole
<1>3. QED BY <1>1, <1>2 DEF PartsInv

\* Neither the worker's end nor the runner changes what is stored.
LEMMA StreamKept ==
  ASSUME msgs \in Seq(MessageType), Len(parts) \in Nat, at \in Nat \ {0}, StreamInv,
         msgs' = msgs, parts' = parts, at' = at, printed' = printed, w' = w \/ w' # "chunks"
  PROVE  StreamInv' /\ Stored' = Stored /\ msgs' \in Seq(MessageType)
<1>1. Stored' = Stored
  BY DEF Stored
<1>2. Possible' = Possible
  BY <1>1 DEF Possible
<1>3. IsFiniteSet(Possible) /\ Cardinality(Possible) \in Nat
  BY PossibleBound
<1>4. ASSUME NEW k \in 1..Len(msgs) PROVE MessageOK(msgs[k])'
  <2>1. PICK m \in MessageType : m = msgs[k]
    BY ElementOfSeq
  <2>2. MessageOK(m) /\ m.total \in Nat /\ m.num \in Nat
    BY <2>1 DEF StreamInv, MessageType
  <2>3. MessageOK(m)'
    BY <1>2, <1>3, <2>2, MessageKept
  <2>4. m = msgs'[k]
    BY <2>1
  <2>5. QED BY <2>3, <2>4 DEF MessageOK, ErrorOK, SingleOK, LastOK, ChunkOK
<1>5. QED BY <1>1, <1>4 DEF StreamInv

\* What the client has stays as it should be while no chunk changes.
LEMMA TrackKept ==
  ASSUME TrackInv, track' = track, parts' = parts, Stored \subseteq Stored'
  PROVE  TrackInv'
BY DEF TrackInv

\* Without a call the answers stay as they are.
LEMMA CallsKept ==
  ASSUME CallsInv, calls' = calls, Whole' = Whole, handler' = handler \/ ~handler'
  PROVE  CallsInv'
<1>1. \A c : Honest(c)' <=> Honest(c)
  BY DEF Honest
<1>2. QED BY <1>1 DEF CallsInv

\* A call is the only one, and honest if its result is.
LEMMA CallStep ==
  ASSUME CallsInv, Whole' = Whole, handler \in BOOLEAN,
         NEW r \in ResultType, CallHandler(r), Honest(r)
  PROVE  CallsInv' /\ handler' \in BOOLEAN
<1>1. \A c : Honest(c)' <=> Honest(c)
  BY DEF Honest
<1>2. CASE handler
  <2>1. calls = <<>> /\ calls' = Append(calls, r) /\ ~handler' /\ handler' = FALSE
    BY <1>2 DEF CallsInv, CallHandler
  <2>2. calls' = <<r>>
    BY <2>1
  <2>3. QED BY <1>1, <2>1, <2>2 DEF CallsInv
<1>3. CASE ~handler
  <2>1. calls' = calls /\ handler' = handler
    BY <1>3 DEF CallHandler
  <2>2. QED BY <2>1, CallsKept
<1>4. QED BY <1>2, <1>3

\* Initially.
LEMMA OutputStarts == Init => TInv
<1> SUFFICES ASSUME Init PROVE TInv
  OBVIOUS
<1> USE DEF Init
<1>1. /\ printed \in Seq(Seq({Plain, Wide})) /\ ok \in BOOLEAN
      /\ w = "run" /\ parts = <<>> /\ at = 1 /\ fails = 0
      /\ msgs = <<>> /\ new = {} /\ again = {} /\ track = NoTrack /\ quiet = FALSE
      /\ handler = TRUE /\ running = TRUE /\ calls = <<>> /\ faults = 0
  BY TaskAssumption
<1>2. Len(<<>>) = 0 /\ <<>> \in Seq(Seq(Chars)) /\ <<>> \in Seq(MessageType)
  OBVIOUS
<1>3. TypeOK
  <2>1. Len(parts) = 0 /\ Len(msgs) = 0
    BY <1>1, <1>2
  <2>2. at \in 1..(Len(parts) + 1) /\ fails \in 0..(Attempts - 1) /\ faults \in 0..MaxFaults
    BY <1>1, <2>1, TaskAssumption
  <2>3. QED BY <1>1, <2>2 DEF TypeOK
<1>4. PartsInv
  BY <1>1, <1>2 DEF PartsInv, Sized
<1>5. StreamInv
  BY <1>1, <1>2 DEF StreamInv
<1>6. TrackInv
  <2>1. /\ DOMAIN NoTrack.got = {} /\ NoTrack = [got |-> NoTrack.got, total |-> NoTrack.total]
        /\ NoTrack.total \in Nat
    BY DEF NoTrack
  <2>2. QED BY <1>1, <2>1 DEF TrackInv
<1>7. CallsInv
  BY <1>1 DEF CallsInv
<1>8. QED BY <1>1, <1>2, <1>3, <1>4, <1>5, <1>6, <1>7 DEF TInv

\* The command ends, and its output is cut.
LEMMA EndStep == TInv /\ CommandEnds => TInv'
<1> SUFFICES ASSUME TInv, CommandEnds PROVE TInv'
  OBVIOUS
<1>1. TypeOK /\ PartsInv /\ CallsInv /\ TrackInv /\ msgs \in Seq(MessageType)
  BY DEF TInv
<1>2. /\ w = "run" /\ parts = <<>> /\ msgs = <<>> /\ calls = <<>> /\ track = NoTrack
      /\ w' \in {"single", "chunks"} /\ (w' = "single" => parts' = parts)
      /\ parts' = parts \/ parts' = Chunks(Collect(printed))
      /\ printed' = printed /\ ok' = ok /\ at' = at /\ fails' = fails
      /\ msgs' = msgs /\ new' = new /\ again' = again /\ track' = track /\ quiet' = quiet
      /\ handler' = handler /\ running' = running /\ calls' = calls /\ faults' = faults
  BY <1>1 DEF CommandEnds, PartsInv, streamVars, clientVars
<1>3. Text' = Text /\ printed \in Seq(Seq({Plain, Wide}))
  BY <1>1, <1>2 DEF Text, TypeOK
<1>4. Sized(parts') /\ (parts' # <<>> => Letters(FlattenSeq(parts')) = Letters(Text))
  BY <1>1, <1>2, <1>3, TextType DEF PartsInv
<1>5. PartsInv'
  BY <1>2, <1>3, <1>4 DEF PartsInv
<1>6. StreamInv' /\ msgs' \in Seq(MessageType)
  BY <1>1, <1>2 DEF StreamInv
<1>7. TrackInv'
  <2>1. /\ DOMAIN NoTrack.got = {} /\ NoTrack = [got |-> NoTrack.got, total |-> NoTrack.total]
        /\ NoTrack.total \in Nat
    BY DEF NoTrack
  <2>2. QED BY <1>2, <2>1 DEF TrackInv
<1>8. CallsInv'
  BY <1>2 DEF CallsInv
<1>9. TypeOK'
  <2>1. at = 1
    <3>1. Len(parts) = 0 /\ at \in 1..(Len(parts) + 1)
      BY <1>1, <1>2 DEF TypeOK
    <3>2. QED BY <3>1
  <2>2. Len(parts') \in Nat
    BY <1>4, LenProperties DEF Sized
  <2>3. at' \in 1..(Len(parts') + 1)
    BY <1>2, <2>1, <2>2
  <2>4. QED BY <1>1, <1>2, <2>3 DEF TypeOK
<1>10. QED BY <1>5, <1>6, <1>7, <1>8, <1>9 DEF TInv

\* Facts about the types that every step uses.
LEMMA Types ==
  ASSUME TInv
  PROVE  /\ Len(parts) \in Nat /\ at \in 1..(Len(parts) + 1) /\ at \in Nat \ {0}
         /\ Len(msgs) \in Nat /\ msgs \in Seq(MessageType) /\ handler \in BOOLEAN
         /\ fails \in 0..(Attempts - 1) /\ Text \in Seq(Chars)
<1>1. TypeOK /\ PartsInv /\ msgs \in Seq(MessageType)
  BY DEF TInv
<1>2. Len(parts) \in Nat
  BY <1>1, PartType DEF PartsInv
<1>3. at \in 1..(Len(parts) + 1) /\ handler \in BOOLEAN /\ fails \in 0..(Attempts - 1)
  BY <1>1 DEF TypeOK
<1>4. at \in Nat \ {0}
  BY <1>2, <1>3
<1>5. Len(msgs) \in Nat
  BY <1>1, LenProperties
<1>6. Text \in Seq(Chars)
  BY <1>1, TextType DEF TypeOK
<1>7. QED BY <1>1, <1>2, <1>3, <1>4, <1>5, <1>6

\* The worker ends, or turns to a report, at most, and nothing else changes.
LEMMA WorkerMoves ==
  ASSUME TInv, w' = w \/ w' \in {"report", "exit"}, faults' \in 0..MaxFaults,
         UNCHANGED <<printed, ok, parts, at, fails, streamVars, clientVars>>
  PROVE  TInv'
<1>1. TypeOK /\ PartsInv /\ StreamInv /\ TrackInv /\ CallsInv
  BY DEF TInv
<1>2. /\ printed' = printed /\ ok' = ok /\ parts' = parts /\ at' = at /\ fails' = fails
      /\ msgs' = msgs /\ new' = new /\ again' = again /\ track' = track /\ quiet' = quiet
      /\ handler' = handler /\ running' = running /\ calls' = calls
  BY DEF streamVars, clientVars
<1>3. TypeOK'
  BY <1>1, <1>2 DEF TypeOK
<1>4. PartsInv' /\ Whole' = Whole
  BY <1>1, <1>2, PartsKept
<1>5. StreamInv' /\ Stored' = Stored /\ msgs' \in Seq(MessageType)
  BY <1>1, <1>2, Types, StreamKept
<1>6. TrackInv'
  BY <1>1, <1>2, <1>5, TrackKept
<1>7. CallsInv'
  BY <1>1, <1>2, <1>4, CallsKept
<1>8. QED BY <1>3, <1>4, <1>5, <1>6, <1>7 DEF TInv

\* An attempt to publish a message: it is stored or not, and the count of
\* failures stays in range.
LEMMA AttemptCounts ==
  ASSUME fails \in 0..(Attempts - 1), faults \in 0..MaxFaults, new \subseteq 1..Len(msgs),
         again \subseteq 1..Len(msgs), msgs \in Seq(MessageType), NEW m \in MessageType,
         Published(m) \/ PublishRaises(m)
  PROVE  /\ fails' \in 0..(Attempts - 1) /\ faults' \in 0..MaxFaults
         /\ new' \subseteq 1..Len(msgs') /\ again' \subseteq 1..Len(msgs')
         /\ \/ msgs' = msgs /\ Len(msgs) \in Nat
            \/ msgs' = Append(msgs, m)
<1>1. fails' \in 0..(Attempts - 1) /\ faults' \in 0..MaxFaults
  <2>1. CASE Published(m)
    BY <2>1, TaskAssumption DEF Published
  <2>2. CASE PublishRaises(m)
    <3>1. faults' = faults + 1 /\ faults < MaxFaults
      BY <2>2 DEF PublishRaises, Fault
    <3>2. fails' = (fails + 1) % Attempts
      BY <2>2 DEF PublishRaises
    <3>3. \A n \in Nat : n % Attempts \in 0..(Attempts - 1)
      BY TaskAssumption
    <3>4. fails + 1 \in Nat
      OBVIOUS
    <3>5. QED BY <3>1, <3>2, <3>3, <3>4, TaskAssumption
  <2>3. QED BY <2>1, <2>2
<1>2. CASE Store(m)
  <2>1. msgs' = Append(msgs, m) /\ Len(msgs') = Len(msgs) + 1 /\ Len(msgs) \in Nat
    BY <1>2, AppendProperties, LenProperties DEF Store
  <2>2. new' = new \cup {Len(msgs) + 1} /\ again' = again
    BY <1>2 DEF Store
  <2>3. 1..Len(msgs) \subseteq 1..Len(msgs') /\ Len(msgs) + 1 \in 1..Len(msgs')
    BY <2>1
  <2>4. QED BY <1>1, <2>1, <2>2, <2>3
<1>3. CASE msgs' = msgs /\ new' = new /\ again' = again
  BY <1>1, <1>3, LenProperties
<1>4. QED BY <1>2, <1>3 DEF Published, PublishRaises, streamVars

\* A message is stored that is as it should be, and the worker moves on.
LEMMA StoreStep ==
  ASSUME TInv, NEW m \in MessageType, msgs' = Append(msgs, m),
         m.final \/ m.num \in Possible, MessageOK(m)',
         at' \in {at, at + 1}, printed' = printed, parts' = parts,
         w' = w \/ w' = "exit", w # "run"
  PROVE  StreamInv' /\ Stored \subseteq Stored' /\ msgs' \in Seq(MessageType)
<1>1. StreamInv
  BY DEF TInv
<1>2. /\ Len(parts) \in Nat /\ at \in Nat \ {0} /\ msgs \in Seq(MessageType)
  BY Types
<1>3. /\ msgs' \in Seq(MessageType) /\ Len(msgs) \in Nat /\ Len(msgs') = Len(msgs) + 1
      /\ \A k \in 1..Len(msgs) : msgs'[k] = msgs[k]
      /\ msgs'[Len(msgs) + 1] = m
      /\ Stored' = IF m.final THEN Stored ELSE Stored \cup {m.num}
  BY <1>2, StoreOne
<1>4. IsFiniteSet(Possible) /\ Cardinality(Possible) \in Nat
  BY <1>1, <1>2, PossibleBound
<1>5. Possible' \subseteq Possible
  <2>1. at'..(Len(parts') - 1) \subseteq at..(Len(parts) - 1)
    <3>1. Len(parts') = Len(parts)
      OBVIOUS
    <3>2. QED BY <1>2, <3>1
  <2>2. Stored' \subseteq Possible
    BY <1>3 DEF Possible
  <2>3. QED BY <2>1, <2>2 DEF Possible
<1>6. ASSUME NEW k \in 1..(Len(msgs) + 1) PROVE \E r : r = msgs'[k] /\ MessageOK(r)'
  <2>1. CASE k = Len(msgs) + 1
    BY <1>3, <2>1
  <2>2. CASE k # Len(msgs) + 1
    <3>1. k \in 1..Len(msgs)
      BY <1>3, <2>2
    <3>2. PICK r \in MessageType : r = msgs[k]
      BY <1>2, <3>1, ElementOfSeq
    <3>3. MessageOK(r) /\ r.total \in Nat /\ r.num \in Nat
      BY <1>1, <3>1, <3>2 DEF StreamInv, MessageType
    <3>4. MessageOK(r)'
      BY <1>2, <1>4, <1>5, <3>3, MessageKept
    <3>5. r = msgs'[k]
      BY <1>3, <3>1, <3>2
    <3>6. QED BY <3>4, <3>5
  <2>3. QED BY <2>1, <2>2
<1>7. StreamInv'
  <2>1. SUFFICES ASSUME NEW k \in 1..Len(msgs') PROVE MessageOK(msgs[k])'
    BY DEF StreamInv
  <2>2. PICK r : r = msgs'[k] /\ MessageOK(r)'
    BY <1>3, <1>6
  <2>3. QED BY <2>2 DEF MessageOK, ErrorOK, SingleOK, LastOK, ChunkOK
<1>8. Stored \subseteq Stored'
  BY <1>3
<1>9. QED BY <1>3, <1>7, <1>8

\* The single message, or the report of an error, is published, fails again or
\* is too big.
LEMMA ResultStep ==
  ASSUME TInv, NEW m \in MessageType, PublishResult(m), m.final, w # "run",
         ErrorOK(m) \/ (m.total = 1 /\ parts = <<>> /\ w # "chunks" /\ m.text = Text)
  PROVE  TInv'
<1>1. /\ TypeOK /\ PartsInv /\ StreamInv /\ TrackInv /\ CallsInv /\ msgs \in Seq(MessageType)
  BY DEF TInv
<1>2. /\ printed' = printed /\ ok' = ok /\ parts' = parts /\ at' = at /\ track' = track
      /\ quiet' = quiet /\ handler' = handler /\ running' = running /\ calls' = calls
      /\ w' = w \/ w' = "exit"
  BY DEF PublishResult, clientVars
<1>3. /\ fails \in 0..(Attempts - 1) /\ faults \in 0..MaxFaults
      /\ new \subseteq 1..Len(msgs) /\ again \subseteq 1..Len(msgs)
  BY <1>1 DEF TypeOK
<1>4. /\ fails' \in 0..(Attempts - 1) /\ faults' \in 0..MaxFaults
      /\ new' \subseteq 1..Len(msgs') /\ again' \subseteq 1..Len(msgs')
      /\ msgs' = msgs \/ msgs' = Append(msgs, m)
  <2>1. CASE Published(m) \/ PublishRaises(m)
    BY <1>1, <1>3, <2>1, AttemptCounts
  <2>2. CASE UNCHANGED <<streamVars, fails, faults>>
    BY <1>3, <2>2 DEF streamVars
  <2>3. QED BY <2>1, <2>2 DEF PublishResult
<1>5. PartsInv' /\ Whole' = Whole /\ Text' = Text
  <2>1. w' # "run" /\ (w' = "single" => w = "single")
    BY <1>2
  <2>2. QED BY <1>1, <1>2, <2>1, PartsKept
<1>6. MessageOK(m)'
  <2>1. ErrorOK(m)' \/ SingleOK(m)'
    BY <1>2, <1>5 DEF ErrorOK, SingleOK
  <2>2. QED BY <2>1 DEF MessageOK
<1>7. StreamInv' /\ Stored \subseteq Stored' /\ msgs' \in Seq(MessageType)
  <2>1. CASE msgs' = msgs
    BY <1>1, <1>2, <2>1, Types, StreamKept
  <2>2. CASE msgs' = Append(msgs, m)
    BY <1>2, <1>6, <2>2, StoreStep
  <2>3. QED BY <1>4, <2>1, <2>2
<1>8. TypeOK'
  BY <1>1, <1>2, <1>4 DEF TypeOK
<1>9. TrackInv'
  BY <1>1, <1>2, <1>7, TrackKept
<1>10. CallsInv'
  BY <1>1, <1>2, <1>5, CallsKept
<1>11. QED BY <1>5, <1>7, <1>8, <1>9, <1>10 DEF TInv

\* A chunk is sent, or not.
LEMMA ChunkStep == TInv /\ SendChunk => TInv'
<1> SUFFICES ASSUME TInv, SendChunk PROVE TInv'
  OBVIOUS
<1>1. /\ TypeOK /\ PartsInv /\ StreamInv /\ TrackInv /\ CallsInv /\ msgs \in Seq(MessageType)
  BY DEF TInv
<1>2. /\ w = "chunks" /\ at <= Len(parts) /\ ~TooBig(parts[at])
      /\ Published(ChunkMessage) \/ PublishRaises(ChunkMessage)
      /\ at' = IF fails' = 0 THEN at + 1 ELSE at
      /\ printed' = printed /\ ok' = ok /\ w' = w /\ parts' = parts /\ track' = track
      /\ quiet' = quiet /\ handler' = handler /\ running' = running /\ calls' = calls
  BY DEF SendChunk, clientVars
<1>3. /\ fails \in 0..(Attempts - 1) /\ faults \in 0..MaxFaults /\ ok \in BOOLEAN
      /\ new \subseteq 1..Len(msgs) /\ again \subseteq 1..Len(msgs)
  BY <1>1 DEF TypeOK
<1>4. Len(parts) \in Nat /\ at \in 1..Len(parts) /\ at \in Nat \ {0}
  BY <1>2, Types
<1>5. parts[at] \in Seq(Chars) /\ parts # <<>>
  BY <1>1, <1>4, PartType DEF PartsInv
<1>6. PICK m \in MessageType :
        /\ m = ChunkMessage /\ m.text = parts[at] /\ m.num = at /\ m.total = Len(parts)
        /\ m.final <=> at = Len(parts)
  <2>1. parts[at] \in Seq(Chars \cup {"error"})
    BY <1>5, SeqMonotonic
  <2>2. ChunkMessage \in MessageType
    BY <1>3, <1>4, <2>1 DEF ChunkMessage, Message, MessageType
  <2>3. /\ ChunkMessage.text = parts[at] /\ ChunkMessage.num = at
        /\ ChunkMessage.total = Len(parts)
        /\ ChunkMessage.final <=> at = Len(parts)
    BY DEF ChunkMessage, Message
  <2>4. QED BY <2>2, <2>3
<1>7. /\ fails' \in 0..(Attempts - 1) /\ faults' \in 0..MaxFaults
      /\ new' \subseteq 1..Len(msgs') /\ again' \subseteq 1..Len(msgs')
      /\ msgs' = msgs \/ msgs' = Append(msgs, m)
  <2>1. Published(m) \/ PublishRaises(m)
    BY <1>2, <1>6
  <2>2. QED BY <1>1, <1>3, <2>1, AttemptCounts
<1>8. PartsInv' /\ Whole' = Whole /\ Text' = Text
  BY <1>1, <1>2, PartsKept
<1>9. at' \in {at, at + 1}
  BY <1>2
<1>10. Passed(m.num)' /\ m.text = parts'[m.num]
  <2>1. ~TooBig(parts'[m.num]) /\ m.num = at
    BY <1>2, <1>6
  <2>2. m.num < at' \/ m.num = at'
    BY <1>4, <1>9, <2>1
  <2>3. QED BY <1>2, <1>6, <2>1, <2>2 DEF Passed
<1>11. ~m.final => m.num \in Possible /\ m.num \in 1..(Len(parts) - 1) /\ m.total > 1
  BY <1>4, <1>6 DEF Possible
<1>12. ASSUME msgs' = Append(msgs, m)
       PROVE  StreamInv' /\ Stored \subseteq Stored' /\ msgs' \in Seq(MessageType)
  <2>1. /\ Stored' = IF m.final THEN Stored ELSE Stored \cup {m.num}
    BY <1>1, <1>12, StoreOne
  <2>2. /\ IsFiniteSet(Possible) /\ Cardinality(Possible) \in Nat
        /\ Cardinality(Possible) < Len(parts)
    BY <1>1, <1>4, PossibleBound
  <2>3. Possible' \subseteq Possible
    <3>1. at'..(Len(parts') - 1) \subseteq at..(Len(parts) - 1)
      BY <1>2, <1>4, <1>9
    <3>2. Stored' \subseteq Possible
      BY <1>11, <2>1 DEF Possible
    <3>3. QED BY <3>1, <3>2 DEF Possible
  <2>4. Cardinality(Possible') < Len(parts)
    <3>1. IsFiniteSet(Possible') /\ Cardinality(Possible') <= Cardinality(Possible)
      BY <2>2, <2>3, FS_Subset
    <3>2. Cardinality(Possible') \in Nat
      BY <3>1, FS_CardinalityType
    <3>3. QED BY <1>4, <2>2, <3>1, <3>2
  <2>5. MessageOK(m)'
    <3>1. m.final => LastOK(m)'
      <4>1. parts' = parts
        BY <1>2
      <4>2. QED BY <1>5, <1>6, <1>10, <4>1 DEF LastOK
    <3>2. ~m.final => ChunkOK(m)'
      <4>1. parts' = parts
        BY <1>2
      <4>2. QED BY <1>6, <1>10, <1>11, <2>4, <4>1 DEF ChunkOK
    <3>3. QED BY <3>1, <3>2 DEF MessageOK
  <2>6. QED BY <1>2, <1>9, <1>11, <1>12, <2>5, StoreStep
<1>13. ASSUME msgs' = msgs
       PROVE  StreamInv' /\ Stored \subseteq Stored' /\ msgs' \in Seq(MessageType)
  <2>1. Stored' = Stored
    BY <1>13 DEF Stored
  <2>2. /\ IsFiniteSet(Possible) /\ Cardinality(Possible) \in Nat
    BY <1>1, <1>4, PossibleBound
  <2>3. Possible' \subseteq Possible
    <3>1. at'..(Len(parts') - 1) \subseteq at..(Len(parts) - 1)
      BY <1>2, <1>4, <1>9
    <3>2. QED BY <2>1, <3>1 DEF Possible
  <2>4. ASSUME NEW k \in 1..Len(msgs) PROVE \E r : r = msgs'[k] /\ MessageOK(r)'
    <3>1. PICK r \in MessageType : r = msgs[k]
      BY <1>1, ElementOfSeq
    <3>2. MessageOK(r) /\ r.total \in Nat /\ r.num \in Nat
      BY <1>1, <3>1 DEF StreamInv, MessageType
    <3>3. MessageOK(r)'
      BY <1>2, <1>4, <1>9, <2>2, <2>3, <3>2, MessageKept
    <3>4. QED BY <1>13, <3>1, <3>3
  <2>5. StreamInv'
    <3>1. SUFFICES ASSUME NEW k \in 1..Len(msgs') PROVE MessageOK(msgs[k])'
      BY DEF StreamInv
    <3>2. PICK r : r = msgs'[k] /\ MessageOK(r)'
      BY <1>13, <2>4
    <3>3. QED BY <3>2 DEF MessageOK, ErrorOK, SingleOK, LastOK, ChunkOK
  <2>6. QED BY <1>1, <1>13, <2>1, <2>5
<1>14. StreamInv' /\ Stored \subseteq Stored' /\ msgs' \in Seq(MessageType)
  BY <1>7, <1>12, <1>13
<1>15. TypeOK'
  <2>1. at' \in 1..(Len(parts') + 1)
    BY <1>2, <1>4, <1>9
  <2>2. QED BY <1>1, <1>2, <1>7, <2>1 DEF TypeOK
<1>16. TrackInv'
  BY <1>1, <1>2, <1>14, TrackKept
<1>17. CallsInv'
  BY <1>1, <1>2, <1>8, CallsKept
<1>18. QED BY <1>8, <1>14, <1>15, <1>16, <1>17 DEF TInv

\* Halving a chunk that is not stored makes one chunk more and one that is never
\* sent: no more can be received before the last one than before.
LEMMA HalvePossible ==
  ASSUME NEW n \in Nat, NEW i \in 1..n, NEW s, s \subseteq 1..(i - 1)
  PROVE  /\ IsFiniteSet(s \cup (i..(n - 1))) /\ IsFiniteSet(s \cup ((i + 1)..n))
         /\ Cardinality(s \cup ((i + 1)..n)) = Cardinality(s \cup (i..(n - 1)))
<1>1. IsFiniteSet(s)
  <2>1. IsFiniteSet(1..(i - 1))
    <3>1. 1 \in Int /\ i - 1 \in Int
      OBVIOUS
    <3>2. QED BY <3>1, FS_Interval
  <2>2. QED BY <2>1, FS_Subset
<1>2. /\ IsFiniteSet(i..(n - 1)) /\ Cardinality(i..(n - 1)) = n - i
  <2>1. i \in Int /\ n - 1 \in Int
    OBVIOUS
  <2>2. /\ IsFiniteSet(i..(n - 1))
        /\ Cardinality(i..(n - 1)) = IF i > n - 1 THEN 0 ELSE (n - 1) - i + 1
    BY <2>1, FS_Interval
  <2>3. QED BY <2>2
<1>3. /\ IsFiniteSet((i + 1)..n) /\ Cardinality((i + 1)..n) = n - i
  <2>1. i + 1 \in Int /\ n \in Int
    OBVIOUS
  <2>2. /\ IsFiniteSet((i + 1)..n)
        /\ Cardinality((i + 1)..n) = IF i + 1 > n THEN 0 ELSE n - (i + 1) + 1
    BY <2>1, FS_Interval
  <2>3. QED BY <2>2
<1>4. s \cap (i..(n - 1)) = {} /\ s \cap ((i + 1)..n) = {}
  OBVIOUS
<1>5. Cardinality(s) \in Nat /\ Cardinality({}) = 0
  BY <1>1, FS_CardinalityType, FS_EmptySet
<1>6. /\ IsFiniteSet(s \cup (i..(n - 1)))
      /\ Cardinality(s \cup (i..(n - 1))) = Cardinality(s) + Cardinality(i..(n - 1))
  <2>1. /\ IsFiniteSet(s \cup (i..(n - 1)))
        /\ Cardinality(s \cup (i..(n - 1))) =
             Cardinality(s) + Cardinality(i..(n - 1)) - Cardinality(s \cap (i..(n - 1)))
    BY <1>1, <1>2, FS_Union
  <2>2. Cardinality(s \cap (i..(n - 1))) = 0
    BY <1>4, <1>5
  <2>3. Cardinality(s) \in Nat /\ Cardinality(i..(n - 1)) \in Nat
    BY <1>2, <1>5
  <2>4. QED BY <2>1, <2>2, <2>3
<1>7. /\ IsFiniteSet(s \cup ((i + 1)..n))
      /\ Cardinality(s \cup ((i + 1)..n)) = Cardinality(s) + Cardinality((i + 1)..n)
  <2>1. /\ IsFiniteSet(s \cup ((i + 1)..n))
        /\ Cardinality(s \cup ((i + 1)..n)) =
             Cardinality(s) + Cardinality((i + 1)..n) - Cardinality(s \cap ((i + 1)..n))
    BY <1>1, <1>3, FS_Union
  <2>2. Cardinality(s \cap ((i + 1)..n)) = 0
    BY <1>4, <1>5
  <2>3. Cardinality(s) \in Nat /\ Cardinality((i + 1)..n) \in Nat
    BY <1>3, <1>5
  <2>4. QED BY <2>1, <2>2, <2>3
<1>8. QED BY <1>2, <1>3, <1>6, <1>7

\* A chunk is halved.
LEMMA HalveStep == TInv /\ HalveChunk => TInv'
<1> SUFFICES ASSUME TInv, HalveChunk PROVE TInv'
  OBVIOUS
<1>1. /\ TypeOK /\ PartsInv /\ StreamInv /\ TrackInv /\ CallsInv /\ msgs \in Seq(MessageType)
  BY DEF TInv
<1>2. /\ w = "chunks" /\ at <= Len(parts) /\ TooBig(parts[at])
      /\ parts' = Halve(parts, at) /\ at' = at + 1
      /\ printed' = printed /\ ok' = ok /\ w' = w /\ fails' = fails /\ msgs' = msgs
      /\ new' = new /\ again' = again /\ track' = track /\ quiet' = quiet
      /\ handler' = handler /\ running' = running /\ calls' = calls /\ faults' = faults
  BY DEF HalveChunk, streamVars, clientVars
<1>3. Len(parts) \in Nat /\ at \in 1..Len(parts) /\ at \in Nat \ {0}
  BY <1>2, Types
<1>4. /\ parts[at] \in Seq(Chars) /\ parts # <<>> /\ Sized(parts) /\ FlattenSeq(parts) \in Seq(Chars)
  BY <1>1, <1>3, PartType DEF PartsInv
<1>5. Len(parts[at]) >= 2
  BY <1>2, <1>4, BigIsLong
<1>6. /\ Sized(parts') /\ Len(parts') = Len(parts) + 1
      /\ \A j \in 1..(at - 1) : parts'[j] = parts[j]
      /\ FlattenSeq(parts') = FlattenSeq(parts)
  BY <1>2, <1>3, <1>4, <1>5, HalveSound
<1>7. Text' = Text /\ parts' # <<>>
  <2>1. Text' = Text
    BY <1>2 DEF Text
  <2>2. Len(parts') # 0
    BY <1>3, <1>6
  <2>3. QED BY <2>1, <2>2, EmptySeq
<1>8. Whole' = Whole
  BY <1>4, <1>6, <1>7 DEF Whole
<1>9. PartsInv'
  BY <1>1, <1>2, <1>4, <1>6, <1>7 DEF PartsInv
<1>10. Stored' = Stored /\ Stored \subseteq 1..(at - 1)
  <2>1. Stored' = Stored
    BY <1>2 DEF Stored
  <2>2. ASSUME NEW k \in 1..Len(msgs), ~msgs[k].final PROVE msgs[k].num \in 1..(at - 1)
    <3>1. ChunkOK(msgs[k])
      BY <1>1, <2>2 DEF StreamInv, MessageOK
    <3>2. msgs[k].num \in Nat /\ msgs[k].num >= 1 /\ msgs[k].num < at
      BY <1>2, <1>3, <3>1 DEF ChunkOK, Passed
    <3>3. QED BY <1>3, <3>2
  <2>3. QED BY <2>1, <2>2 DEF Stored
<1>11. Cardinality(Possible') = Cardinality(Possible)
  <2>1. Possible = Stored \cup (at..(Len(parts) - 1))
    BY DEF Possible
  <2>2. Possible' = Stored \cup ((at + 1)..Len(parts))
    <3>1. Possible' = Stored' \cup (at'..(Len(parts') - 1))
      BY DEF Possible
    <3>2. at' = at + 1 /\ Len(parts') - 1 = Len(parts)
      BY <1>2, <1>3, <1>6
    <3>3. QED BY <1>10, <3>1, <3>2
  <2>3. Len(parts) \in Nat /\ at \in 1..Len(parts) /\ Stored \subseteq 1..(at - 1)
    BY <1>3, <1>10
  <2>4. QED BY <2>1, <2>2, <2>3, HalvePossible
<1>12. ASSUME NEW k \in 1..Len(msgs) PROVE \E r : r = msgs'[k] /\ MessageOK(r)'
  <2>1. PICK r \in MessageType : r = msgs[k]
    BY <1>1, ElementOfSeq
  <2>2. MessageOK(r) /\ r.total \in Nat /\ r.num \in Nat
    BY <1>1, <2>1 DEF StreamInv, MessageType
  <2>3. r.final => ErrorOK(r)'
    <3>1. ~SingleOK(r)
      BY <1>4 DEF SingleOK
    <3>2. ~LastOK(r)
      <4>1. ~Passed(Len(parts))
        BY <1>2, <1>3 DEF Passed
      <4>2. QED BY <4>1 DEF LastOK
    <3>3. QED BY <2>2, <3>1, <3>2 DEF MessageOK, ErrorOK
  <2>4. ~r.final => ChunkOK(r)'
    <3>1. SUFFICES ASSUME ChunkOK(r) PROVE ChunkOK(r)'
      BY <2>2 DEF MessageOK
    <3>2. /\ r.num \in 1..(Len(parts) - 1) /\ r.total > 1 /\ Passed(r.num)
          /\ r.text = parts[r.num] /\ Cardinality(Possible) < r.total
      BY <3>1 DEF ChunkOK
    <3>3. r.num \in Nat /\ r.num >= 1 /\ r.num < at
      BY <1>2, <1>3, <3>2 DEF Passed
    <3>4. r.num \in 1..(at - 1) /\ r.num < at' /\ r.num \in 1..(Len(parts') - 1)
      BY <1>2, <1>3, <1>6, <3>3
    <3>5. Passed(r.num)' /\ r.text = parts'[r.num]
      BY <1>6, <3>2, <3>4 DEF Passed
    <3>6. QED BY <1>11, <3>2, <3>4, <3>5 DEF ChunkOK
  <2>5. MessageOK(r)'
    BY <2>3, <2>4 DEF MessageOK
  <2>6. QED BY <1>2, <2>1, <2>5
<1>13. StreamInv'
  <2>1. SUFFICES ASSUME NEW k \in 1..Len(msgs') PROVE MessageOK(msgs[k])'
    BY DEF StreamInv
  <2>2. PICK r : r = msgs'[k] /\ MessageOK(r)'
    BY <1>2, <1>12
  <2>3. QED BY <2>2 DEF MessageOK, ErrorOK, SingleOK, LastOK, ChunkOK
<1>14. TypeOK'
  <2>1. at' \in 1..(Len(parts') + 1)
    BY <1>2, <1>3, <1>6
  <2>2. QED BY <1>1, <1>2, <2>1 DEF TypeOK
<1>15. TrackInv'
  <2>1. \A i \in DOMAIN track.got : parts'[i] = parts[i]
    BY <1>1, <1>6, <1>10 DEF TrackInv
  <2>2. QED BY <1>1, <1>2, <1>10, <2>1 DEF TrackInv
<1>16. CallsInv'
  BY <1>1, <1>2, <1>8, CallsKept
<1>17. QED BY <1>1, <1>2, <1>9, <1>13, <1>14, <1>15, <1>16 DEF TInv

\* What the client puts together from chunks: a text, and all of it when no
\* chunk is missing.
LEMMA AssembleSound ==
  ASSUME Sized(parts), NEW got, DOMAIN got \subseteq 1..Len(parts),
         \A i \in DOMAIN got : got[i] = parts[i],
         NEW total \in Nat
  PROVE  /\ Assemble(got, total) \in Seq(Chars)
         /\ total = Len(parts) /\ Cardinality(DOMAIN got) >= total
              => Assemble(got, total) = FlattenSeq(parts)
<1> DEFINE s == [i \in 1..total |-> IF i \in DOMAIN got THEN got[i] ELSE <<>>]
<1>1. parts \in Seq(Seq(Chars)) /\ Len(parts) \in Nat
  BY LenProperties DEF Sized
<1>2. \A i \in DOMAIN got : got[i] \in Seq(Chars)
  BY <1>1, ElementOfSeq
<1>3. s \in Seq(Seq(Chars))
  <2>1. \A i \in 1..total : s[i] \in Seq(Chars)
    BY <1>2
  <2>2. s = [i \in 1..total |-> s[i]]
    OBVIOUS
  <2> HIDE DEF s
  <2>3. QED BY <2>1, <2>2
<1>4. Assemble(got, total) = FlattenSeq(s)
  BY DEF Assemble
<1>5. ASSUME total = Len(parts), Cardinality(DOMAIN got) >= total
      PROVE  s = parts
  <2>1. IsFiniteSet(1..total) /\ Cardinality(1..total) = total
    <3>1. 1 \in Int /\ total \in Int
      OBVIOUS
    <3>2. /\ IsFiniteSet(1..total)
          /\ Cardinality(1..total) = IF 1 > total THEN 0 ELSE total - 1 + 1
      BY <3>1, FS_Interval
    <3>3. QED BY <3>2
  <2>2. DOMAIN got = 1..total
    <3>1. DOMAIN got \subseteq 1..total
      BY <1>5
    <3>2. /\ IsFiniteSet(DOMAIN got) /\ Cardinality(DOMAIN got) <= total
          /\ Cardinality(DOMAIN got) = Cardinality(1..total) => DOMAIN got = 1..total
      BY <2>1, <3>1, FS_Subset
    <3>3. Cardinality(DOMAIN got) \in Nat
      BY <3>2, FS_CardinalityType
    <3>4. Cardinality(DOMAIN got) = total
      BY <1>5, <3>2, <3>3
    <3>5. QED BY <2>1, <3>2, <3>4
  <2>3. \A i \in 1..total : s[i] = parts[i]
    BY <2>2
  <2>4. Len(s) = total
    BY LenProperties
  <2> HIDE DEF s
  <2>5. QED BY <1>1, <1>3, <1>5, <2>3, <2>4, SeqEqual
<1>6. FlattenSeq(s) \in Seq(Chars)
  <2> HIDE DEF s
  <2>1. QED BY <1>3, FlattenType
<1>7. QED BY <1>4, <1>5, <1>6

\* A chunk is processed.
LEMMA ProcessChunkStep ==
  ASSUME TInv, NEW m \in MessageType, MessageOK(m), m.final \/ m.num \in Stored,
         m.total > 1, ProcessChunk(m), parts' = parts, Stored' = Stored, Whole' = Whole
  PROVE  /\ CallsInv' /\ handler' \in BOOLEAN /\ TrackInv' /\ quiet' \in BOOLEAN
         /\ track' = NoTrack \/ track'.total > 1
<1> DEFINE base  == IF track = NoTrack THEN [got |-> <<>>, total |-> m.total] ELSE track
           got   == [i \in DOMAIN base.got \cup {m.num} |->
                       IF i = m.num THEN m.text ELSE base.got[i]]
           count == Cardinality(DOMAIN got)
<1>1. /\ TypeOK /\ PartsInv /\ StreamInv /\ TrackInv /\ CallsInv
      /\ Sized(parts) /\ handler \in BOOLEAN
  BY DEF TInv, PartsInv, TypeOK
<1>2. /\ m.total \in Nat /\ m.num \in Nat /\ m.ok \in BOOLEAN
  BY DEF MessageType
<1>3. /\ m.final => LastOK(m)
      /\ ~m.final => ChunkOK(m)
  BY <1>2 DEF MessageOK, ErrorOK, SingleOK
<1>4. Len(parts) \in Nat /\ at \in Nat \ {0} /\ (parts = <<>> <=> Len(parts) = 0)
  BY <1>1, Types, PartType
<1>5. m.num \in 1..Len(parts) /\ m.text = parts[m.num]
  <2>1. CASE m.final
    BY <1>3, <1>4, <2>1 DEF LastOK
  <2>2. CASE ~m.final
    BY <1>3, <1>4, <2>2 DEF ChunkOK
  <2>3. QED BY <2>1, <2>2
<1>6. m.text # <<>>
  BY <1>1, <1>5, PartType
<1>7. /\ Stored \subseteq 1..(Len(parts) - 1) /\ IsFiniteSet(Possible)
      /\ Cardinality(Possible) \in Nat
  BY <1>1, <1>4, PossibleBound
<1>8. /\ DOMAIN base.got \subseteq Stored /\ \A i \in DOMAIN base.got : base.got[i] = parts[i]
      /\ base = [got |-> base.got, total |-> base.total]
      /\ base.total \in Nat /\ base.total > 1
  <2>1. CASE track = NoTrack
    <3>1. base = [got |-> <<>>, total |-> m.total]
      BY <2>1
    <3>2. DOMAIN <<>> = {}
      OBVIOUS
    <3> HIDE DEF base
    <3>3. QED BY <1>2, <3>1, <3>2
  <2>2. CASE track # NoTrack
    BY <1>1, <2>2 DEF TrackInv, TypeOK
  <2>3. QED BY <2>1, <2>2
<1>9. /\ quiet' = FALSE
      /\ IF Complete(m, count)
           THEN /\ CallHandler(Result("output", Assemble(got, m.total), m.ok, count < m.total))
                /\ track' = NoTrack
         ELSE track' = [base EXCEPT !.got = got] /\ UNCHANGED <<calls, handler>>
  BY <1>6 DEF ProcessChunk
<1> HIDE DEF base
<1>10. /\ DOMAIN got = DOMAIN base.got \cup {m.num}
       /\ \A i \in DOMAIN got : got[i] = parts[i]
  BY <1>5, <1>8
<1> HIDE DEF got
<1>11. DOMAIN got \subseteq 1..Len(parts)
  BY <1>4, <1>5, <1>7, <1>8, <1>10
<1>12. ASSUME ~m.final
       PROVE  /\ track' = [base EXCEPT !.got = got] /\ calls' = calls /\ handler' = handler
              /\ DOMAIN got \subseteq Stored
  <2>1. DOMAIN got \subseteq Stored
    BY <1>8, <1>10, <1>12
  <2>2. DOMAIN got \subseteq Possible
    BY <2>1 DEF Possible
  <2>3. IsFiniteSet(DOMAIN got) /\ count <= Cardinality(Possible)
    BY <1>7, <2>2, FS_Subset
  <2>4. count \in Nat
    BY <2>3, FS_CardinalityType
  <2>5. Cardinality(Possible) < m.total
    BY <1>3, <1>12 DEF ChunkOK
  <2>6. ~Complete(m, count)
    BY <1>2, <1>7, <1>12, <2>3, <2>4, <2>5 DEF Complete
  <2>7. QED BY <1>9, <2>1, <2>6
<1>13. CASE ~m.final
  <2>1. CallsInv' /\ handler' \in BOOLEAN
    BY <1>1, <1>12, <1>13, CallsKept
  <2>2. track'.got = got /\ track'.total = base.total /\ track' = [got |-> got, total |-> base.total]
    BY <1>8, <1>12, <1>13
  <2>3. TrackInv'
    BY <1>8, <1>10, <1>12, <1>13, <2>2 DEF TrackInv
  <2>4. QED BY <1>8, <1>9, <2>1, <2>2, <2>3
<1>14. CASE m.final
  <2>1. m.total = Len(parts) /\ parts # <<>>
    BY <1>3, <1>14 DEF LastOK
  <2>2. PICK text \in Seq(Chars) :
          /\ text = Assemble(got, m.total)
          /\ count >= m.total => text = FlattenSeq(parts)
    BY <1>1, <1>2, <1>10, <1>11, <2>1, AssembleSound
  <2>3. /\ CallHandler(Result("output", text, m.ok, count < m.total))
        /\ track' = NoTrack
    BY <1>9, <1>14, <2>2 DEF Complete
  <2>4. PICK r \in ResultType : r = Result("output", text, m.ok, count < m.total)
    <3>1. text \in Seq(Chars \cup {"error"})
      BY <2>2, SeqMonotonic
    <3>2. (count < m.total) \in BOOLEAN /\ m.ok \in BOOLEAN
      BY <1>2
    <3> HIDE DEF count
    <3>3. Result("output", text, m.ok, count < m.total) \in ResultType
      BY <3>1, <3>2 DEF Result, ResultType
    <3>4. QED BY <3>3
  <2>5. Honest(r)
    <3>1. r.kind = "output" /\ r.text = text /\ (r.partial <=> count < m.total)
      BY <2>4 DEF Result
    <3>2. count \in Nat
      <4>1. IsFiniteSet(1..Len(parts))
        <5>1. 1 \in Int /\ Len(parts) \in Int
          BY <1>4
        <5>2. QED BY <5>1, FS_Interval
      <4>2. IsFiniteSet(DOMAIN got)
        BY <1>11, <4>1, FS_Subset
      <4>3. QED BY <4>2, FS_CardinalityType
    <3>3. ~(count < m.total) => count >= m.total
      BY <1>2, <3>2
    <3>4. QED BY <2>1, <2>2, <3>1, <3>3 DEF Honest, Whole
  <2>6. CallsInv' /\ handler' \in BOOLEAN
    BY <1>1, <2>3, <2>4, <2>5, CallStep
  <2>7. TrackInv'
    <3>1. /\ DOMAIN NoTrack.got = {} /\ NoTrack = [got |-> NoTrack.got, total |-> NoTrack.total]
          /\ NoTrack.total \in Nat
      BY DEF NoTrack
    <3>2. QED BY <2>3, <3>1 DEF TrackInv
  <2>8. QED BY <1>9, <2>3, <2>6, <2>7
<1>15. QED BY <1>13, <1>14

\* A message is received, and acknowledged or not.
LEMMA ReceiveOne ==
  ASSUME TInv, NEW i \in new \cup again, Receive(i)
  PROVE  TInv'
<1>1. /\ TypeOK /\ PartsInv /\ StreamInv /\ TrackInv /\ CallsInv /\ msgs \in Seq(MessageType)
  BY DEF TInv
<1>2. i \in 1..Len(msgs) /\ Len(msgs) \in Nat /\ Len(parts) \in Nat /\ at \in Nat \ {0}
      /\ handler \in BOOLEAN /\ Text \in Seq(Chars)
  BY <1>1, Types DEF TypeOK
<1>3. /\ ProcessOutput(msgs[i]) /\ running' = running /\ msgs' = msgs
      /\ printed' = printed /\ ok' = ok /\ w' = w /\ parts' = parts /\ at' = at /\ fails' = fails
      /\ new' \subseteq new /\ again' \subseteq again \cup {i}
      /\ faults' = faults \/ (faults < MaxFaults /\ faults' = faults + 1)
  BY DEF Receive, workerVars, Fault
<1>4. w # "run"
  <2>1. Len(msgs) # 0
    BY <1>2
  <2>2. QED BY <1>1, <2>1, EmptySeq DEF PartsInv
<1>5. PartsInv' /\ Whole' = Whole
  BY <1>1, <1>3, <1>4, PartsKept
<1>6. StreamInv' /\ Stored' = Stored /\ msgs' \in Seq(MessageType)
  BY <1>1, <1>2, <1>3, StreamKept
<1>7. PICK m \in MessageType : m = msgs[i]
  BY <1>1, <1>2, ElementOfSeq
<1>8. MessageOK(m) /\ (m.final \/ m.num \in Stored) /\ m.total \in Nat /\ ProcessOutput(m)
      /\ m.ok \in BOOLEAN
  BY <1>1, <1>2, <1>3, <1>7 DEF StreamInv, Stored, MessageType
<1>9. /\ CallsInv' /\ handler' \in BOOLEAN /\ TrackInv' /\ quiet' \in BOOLEAN
      /\ track' = NoTrack \/ track'.total > 1
  <2>1. CASE m.total > 1 /\ ProcessChunk(m)
    BY <1>3, <1>5, <1>6, <1>8, <2>1, ProcessChunkStep
  <2>2. CASE m.total = 1 /\ ProcessSingle(m)
    <3>1. PICK r \in ResultType :
            r = (IF m.ok /\ m.text # <<>> THEN Result("output", m.text, m.ok, FALSE)
                                          ELSE Result("nothing", <<>>, TRUE, FALSE))
      <4>1. m.text \in Seq(Chars \cup {"error"}) /\ <<>> \in Seq(Chars \cup {"error"})
        BY DEF MessageType
      <4>2. /\ Result("output", m.text, m.ok, FALSE) \in ResultType
            /\ Result("nothing", <<>>, TRUE, FALSE) \in ResultType
        BY <1>8, <4>1 DEF Result, ResultType
      <4>3. QED BY <4>2
    <3>2. CallHandler(r) /\ track' = track /\ quiet' = quiet
      BY <2>2, <3>1 DEF ProcessSingle
    <3>3. Honest(r)
      <4>1. SingleOK(m) \/ LastOK(m)
        BY <1>8, <2>2 DEF MessageOK, ErrorOK, ChunkOK
      <4>2. m.text = Whole
        <5>1. CASE SingleOK(m)
          BY <5>1 DEF SingleOK, Whole
        <5>2. CASE LastOK(m)
          <6>1. Len(parts) = 1 /\ m.text = parts[1] /\ parts # <<>>
            BY <2>2, <5>2 DEF LastOK
          <6>2. parts \in Seq(Seq(Chars)) /\ parts[1] \in Seq(Chars)
            BY <1>1, <6>1, PartType DEF PartsInv, Sized
          <6>3. parts = <<parts[1]>>
            BY <6>1, <6>2
          <6>4. FlattenSeq(<<parts[1]>>) = parts[1]
            BY <6>2, FlattenFew
          <6>5. QED BY <6>1, <6>3, <6>4 DEF Whole
        <5>3. QED BY <4>1, <5>1, <5>2
      <4>3. r.kind = "output" => r.text = m.text
        BY <3>1 DEF Result
      <4>4. QED BY <4>2, <4>3 DEF Honest
    <3>4. CallsInv' /\ handler' \in BOOLEAN
      BY <1>1, <1>2, <1>5, <3>2, <3>3, CallStep
    <3>5. TrackInv'
      BY <1>1, <1>3, <1>6, <3>2, TrackKept
    <3>6. QED BY <1>1, <3>2, <3>4, <3>5 DEF TypeOK
  <2>3. CASE UNCHANGED <<track, quiet, handler, calls>>
    <3>1. CallsInv'
      BY <1>1, <1>5, <2>3, CallsKept
    <3>2. TrackInv'
      BY <1>1, <1>3, <1>6, <2>3, TrackKept
    <3>3. QED BY <1>1, <1>2, <2>3, <3>1, <3>2 DEF TypeOK
  <2>4. QED BY <1>8, <2>1, <2>2, <2>3 DEF ProcessOutput
<1>10. TypeOK'
  <2>1. /\ new' \subseteq 1..Len(msgs') /\ again' \subseteq 1..Len(msgs')
    BY <1>1, <1>2, <1>3 DEF TypeOK
  <2>2. faults' \in 0..MaxFaults
    BY <1>1, <1>3, TaskAssumption DEF TypeOK
  <2>3. QED BY <1>1, <1>3, <1>9, <2>1, <2>2 DEF TypeOK
<1>11. QED BY <1>5, <1>6, <1>9, <1>10 DEF TInv

\* The remaining steps of the runner: a lost delivery, silence, the look for
\* stalled tasks, the shutdown.
LEMMA RunnerMoves ==
  ASSUME TInv, DeliveryLost \/ GoesQuiet \/ CheckStalled \/ Shutdown
  PROVE  TInv'
<1>1. /\ TypeOK /\ PartsInv /\ StreamInv /\ TrackInv /\ CallsInv /\ msgs \in Seq(MessageType)
  BY DEF TInv
<1>2. /\ printed' = printed /\ ok' = ok /\ w' = w /\ parts' = parts /\ at' = at /\ fails' = fails
      /\ msgs' = msgs
  BY DEF DeliveryLost, GoesQuiet, CheckStalled, Shutdown, workerVars, streamVars
<1>3. StreamInv' /\ Stored' = Stored /\ msgs' \in Seq(MessageType)
  BY <1>1, <1>2, Types, StreamKept
<1>4. CASE DeliveryLost \/ GoesQuiet \/ Shutdown
  <2>1. /\ track' = track /\ calls' = calls
        /\ handler' = handler \/ handler' = FALSE
        /\ quiet' \in BOOLEAN /\ running' \in BOOLEAN
        /\ new' \subseteq new /\ again' \subseteq again \cup new
    BY <1>1, <1>4 DEF DeliveryLost, GoesQuiet, Shutdown, clientVars, streamVars, TypeOK
  <2>2. faults' = faults \/ (faults < MaxFaults /\ faults' = faults + 1)
    BY <1>4 DEF DeliveryLost, GoesQuiet, Shutdown, Fault
  <2>3. PartsInv' /\ Whole' = Whole
    BY <1>1, <1>2, <2>1, PartsKept
  <2>4. TrackInv'
    BY <1>1, <1>2, <1>3, <2>1, TrackKept
  <2>5. CallsInv'
    BY <1>1, <2>1, <2>3, CallsKept
  <2>6. faults' \in 0..MaxFaults /\ handler' \in BOOLEAN
    <3>1. faults \in 0..MaxFaults /\ handler \in BOOLEAN
      BY <1>1 DEF TypeOK
    <3>2. faults' \in 0..MaxFaults
      BY <2>2, <3>1, TaskAssumption
    <3>3. QED BY <2>1, <3>1, <3>2
  <2>7. TypeOK'
    BY <1>1, <1>2, <2>1, <2>6 DEF TypeOK
  <2>8. QED BY <1>3, <2>3, <2>4, <2>5, <2>7 DEF TInv
<1>5. CASE CheckStalled
  <2>1. /\ track # NoTrack /\ track' = NoTrack /\ quiet' = quiet /\ running' = running
        /\ new' = new /\ again' = again /\ faults' = faults
        /\ CallHandler(Result("output", Assemble(track.got, track.total), ok, TRUE))
    BY <1>5 DEF CheckStalled, NearlyAll, streamVars
  <2>2. w # "run"
    BY <1>1, <2>1 DEF PartsInv
  <2>3. PartsInv' /\ Whole' = Whole
    BY <1>1, <1>2, <2>2, PartsKept
  <2>4. PICK r \in ResultType : r = Result("output", Assemble(track.got, track.total), ok, TRUE)
    <3>1. DOMAIN track.got \subseteq 1..Len(parts)
      <4>1. Stored \subseteq 1..(Len(parts) - 1) /\ Len(parts) \in Nat
        BY <1>1, Types, PossibleBound
      <4>2. 1..(Len(parts) - 1) \subseteq 1..Len(parts)
        BY <4>1
      <4>3. QED BY <1>1, <4>1, <4>2 DEF TrackInv
    <3>2. Assemble(track.got, track.total) \in Seq(Chars)
      BY <1>1, <3>1, AssembleSound DEF TrackInv, PartsInv
    <3>3. Assemble(track.got, track.total) \in Seq(Chars \cup {"error"}) /\ ok \in BOOLEAN
      BY <1>1, <3>2, SeqMonotonic DEF TypeOK
    <3>4. Result("output", Assemble(track.got, track.total), ok, TRUE) \in ResultType
      BY <3>3 DEF Result, ResultType
    <3>5. QED BY <3>4
  <2>5. Honest(r)
    BY <2>4 DEF Honest, Result
  <2>6. CallsInv' /\ handler' \in BOOLEAN
    BY <1>1, <2>1, <2>3, <2>4, <2>5, Types, CallStep
  <2>7. TrackInv'
    <3>1. /\ DOMAIN NoTrack.got = {} /\ NoTrack = [got |-> NoTrack.got, total |-> NoTrack.total]
          /\ NoTrack.total \in Nat
      BY DEF NoTrack
    <3>2. QED BY <2>1, <3>1 DEF TrackInv
  <2>8. TypeOK'
    BY <1>1, <1>2, <2>1, <2>6 DEF TypeOK
  <2>9. QED BY <1>3, <2>3, <2>6, <2>7, <2>8 DEF TInv
<1>6. QED BY <1>4, <1>5

\* The messages the worker publishes when it does not cut.
LEMMA PublishStep == TInv /\ (SendSingle \/ SendError) => TInv'
<1> SUFFICES ASSUME TInv, SendSingle \/ SendError PROVE TInv'
  OBVIOUS
<1>1. PartsInv /\ Text \in Seq(Chars) /\ ok \in BOOLEAN
  BY Types DEF TInv, TypeOK
<1>2. CASE SendSingle
  <2>1. w = "single" /\ PublishResult(SingleMessage) /\ parts = <<>>
    BY <1>1, <1>2 DEF SendSingle, PartsInv
  <2>2. PICK m \in MessageType : /\ m = SingleMessage /\ m.final
                                 /\ m.total = 1 /\ m.text = Text
    <3>1. Text \in Seq(Chars \cup {"error"})
      BY <1>1, SeqMonotonic
    <3>2. SingleMessage \in MessageType
      BY <1>1, <3>1 DEF SingleMessage, Message, MessageType
    <3>3. SingleMessage.final /\ SingleMessage.total = 1 /\ SingleMessage.text = Text
      BY DEF SingleMessage, Message
    <3>4. QED BY <3>2, <3>3
  <2>3. QED BY <2>1, <2>2, ResultStep
<1>3. CASE SendError
  <2>1. w = "report" /\ PublishResult(ErrorMessage)
    BY <1>3 DEF SendError
  <2>2. PICK m \in MessageType : m = ErrorMessage /\ m.final /\ ErrorOK(m)
    <3>1. <<"error">> \in Seq(Chars \cup {"error"})
      OBVIOUS
    <3>2. ErrorMessage \in MessageType
      BY <3>1 DEF ErrorMessage, Message, MessageType
    <3>3. ErrorMessage.final /\ ErrorOK(ErrorMessage)
      BY DEF ErrorMessage, Message, ErrorOK
    <3>4. QED BY <3>2, <3>3
  <2>3. QED BY <2>1, <2>2, ResultStep
<1>4. QED BY <1>2, <1>3

\* Every step keeps the invariant.
LEMMA OutputKept == TInv /\ [Next]_vars => TInv'
<1> SUFFICES ASSUME TInv, [Next]_vars PROVE TInv'
  OBVIOUS
<1>1. ASSUME CommandEnds PROVE TInv'
  BY <1>1, EndStep
<1>2. ASSUME SendSingle \/ SendError PROVE TInv'
  BY <1>2, PublishStep
<1>3. ASSUME SendChunk PROVE TInv'
  BY <1>3, ChunkStep
<1>4. ASSUME HalveChunk PROVE TInv'
  BY <1>4, HalveStep
<1>5. ASSUME ChunksSent \/ CommandRaises \/ ConnectFails \/ Killed PROVE TInv'
  <2>1. /\ w' \in {"report", "exit"}
        /\ UNCHANGED <<printed, ok, parts, at, fails, streamVars, clientVars>>
        /\ faults' = faults \/ (faults < MaxFaults /\ faults' = faults + 1)
    BY <1>5 DEF ChunksSent, CommandRaises, ConnectFails, Killed, Fault
  <2>2. faults \in 0..MaxFaults
    BY DEF TInv, TypeOK
  <2>3. faults' \in 0..MaxFaults
    BY <2>1, <2>2, TaskAssumption
  <2>4. QED BY <2>1, <2>3, WorkerMoves
<1>6. ASSUME ReceiveStep PROVE TInv'
  BY <1>6, ReceiveOne DEF ReceiveStep
<1>7. ASSUME DeliveryLost \/ GoesQuiet \/ CheckStalled \/ Shutdown PROVE TInv'
  BY <1>7, RunnerMoves
<1>8. ASSUME UNCHANGED vars PROVE TInv'
  <2>1. /\ w' = w /\ UNCHANGED <<printed, ok, parts, at, fails, streamVars, clientVars>>
        /\ faults' = faults
    BY <1>8 DEF vars, workerVars
  <2>2. faults \in 0..MaxFaults
    BY DEF TInv, TypeOK
  <2>3. QED BY <2>1, <2>2, WorkerMoves
<1>9. QED BY <1>1, <1>2, <1>3, <1>4, <1>5, <1>6, <1>7, <1>8 DEF Next, WorkerStep

\* The invariant of the way of an output: what is stored, what the client has of
\* it and what the handler was given, all related to the worker's chunks.
THEOREM OutputInvariant == Spec => []TInv
<1>1. QED BY OutputStarts, OutputKept, PTL DEF Spec

\* Every variable stays in its range, for all outputs, sizes and faults.
THEOREM OutputTypeCorrect == Spec => []TypeOK
<1>1. TInv => TypeOK
  BY DEF TInv
<1>2. QED BY <1>1, OutputInvariant, PTL

\* Cutting and halving keep every letter of the output and never make an empty
\* chunk or one above the effective size (send_chunked_output).
THEOREM ChunksAlwaysSound == Spec => []ChunksSound
<1>1. TInv => ChunksSound
  BY DEF TInv, PartsInv, Sized, ChunksSound
<1>2. QED BY <1>1, OutputInvariant, PTL

\* The handler is called once at most, and what it gets as complete is the whole
\* output (process_output, process_chunked_output, check_stalled_chunks).
THEOREM HonestAnswer == Spec => []OneHonestAnswer
<1>1. TInv => OneHonestAnswer
  <2>1. SUFFICES ASSUME TInv PROVE OneHonestAnswer
    OBVIOUS
  <2>2. CallsInv
    BY <2>1 DEF TInv
  <2>3. CASE calls = <<>>
    BY <2>3 DEF OneHonestAnswer
  <2>4. CASE calls # <<>>
    <3>1. PICK c \in ResultType : calls = <<c>> /\ Honest(c)
      BY <2>2, <2>4 DEF CallsInv
    <3>2. Len(calls) = 1 /\ calls[1] = c
      BY <3>1
    <3>3. QED BY <3>1, <3>2 DEF OneHonestAnswer, Honest, Whole
  <2>5. QED BY <2>3, <2>4
<1>2. QED BY <1>1, OutputInvariant, PTL

=============================================================================
