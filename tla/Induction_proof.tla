-------------------------- MODULE Induction_proof ---------------------------
(***************************************************************************)
(* Induction over the natural numbers in a form the provers can use: a     *)
(* non-empty set of numbers has a least element, so a statement about      *)
(* numbers is proved by refuting its least counterexample.                 *)
(***************************************************************************)
EXTENDS Integers, SequencesExt, SequenceTheorems, WellFoundedInduction, TLAPS

(* A non-empty set of numbers has a least element.                          *)
LEMMA LeastNumber ==
  ASSUME NEW T \in SUBSET Nat, T # {}
  PROVE  \E n \in T : \A m \in T : n <= m
<1> DEFINE R == OpToRel(<, Nat)
<1>1. \A x, y \in Nat : <<x, y>> \in R <=> x < y
  BY Zenon DEF OpToRel
<1>2. IsWellFoundedOn(R, Nat)
  BY NatLessThanWellFounded, Zenon
<1> HIDE DEF R
<1>3. PICK n \in T : \A m \in T : ~(<<m, n>> \in R)
  BY <1>2, WFMin, Zenon
<1>4. \A m \in T : ~(m < n)
  BY <1>1, <1>3
<1> QED BY <1>3, <1>4

(* A non-empty set of numbers up to N has a greatest element.               *)
LEMMA GreatestNumber ==
  ASSUME NEW N \in Nat, NEW T \in SUBSET (0..N), T # {}
  PROVE  \E n \in T : \A m \in T : n >= m
<1> DEFINE Gaps == {n \in Nat : N - n \in T}
<1>1. Gaps # {}
  <2>1. PICK m \in T : TRUE
    OBVIOUS
  <2>2. N - m \in Nat /\ N - (N - m) = m
    OBVIOUS
  <2> QED BY <2>1, <2>2
<1>2. PICK n \in Gaps : \A m \in Gaps : n <= m
  <2>1. Gaps \in SUBSET Nat
    OBVIOUS
  <2> HIDE DEF Gaps
  <2> QED BY <1>1, <2>1, LeastNumber
<1>3. N - n \in T /\ \A m \in T : N - n >= m
  <2>1. ASSUME NEW m \in T PROVE N - n >= m
    <3>1. N - m \in Nat /\ N - (N - m) = m
      OBVIOUS
    <3>2. n <= N - m /\ n \in Nat
      BY <1>2, <3>1
    <3> QED BY <3>2
  <2> QED BY <1>2, <2>1
<1> QED BY <1>3

(* A set of numbers that holds 0, and n + 1 with every n below N it holds,  *)
(* holds every number up to N.                                              *)
LEMMA UpTo ==
  ASSUME NEW N \in Nat, NEW S, 0 \in S,
         \A n \in 0..(N - 1) : n \in S => n + 1 \in S
  PROVE  \A n \in 0..N : n \in S
<1> DEFINE Bad == {n \in 0..N : n \notin S}
<1> SUFFICES ASSUME Bad # {} PROVE FALSE
  OBVIOUS
<1>1. PICK n \in Bad : \A m \in Bad : n <= m
  <2>1. Bad \in SUBSET Nat
    OBVIOUS
  <2> HIDE DEF Bad
  <2> QED BY <2>1, LeastNumber
<1>2. n \in 0..N /\ n \notin S /\ n # 0
  BY <1>1
<1>3. n - 1 \in 0..(N - 1) /\ n - 1 \notin Bad
  BY <1>1, <1>2
<1>4. n - 1 \in S
  BY <1>3
<1>5. (n - 1) + 1 \in S
  BY <1>3, <1>4
<1> QED BY <1>2, <1>5

(* The sequence of values that F makes of one after the other, from base.   *)
Iterated(f, N, base, F) == f[0] = base /\ \A k \in 1..N : f[k] = F[k][f[k - 1]]

(* There is such a sequence.                                                *)
LEMMA Iterates ==
  ASSUME NEW N \in Nat, NEW S, NEW base \in S, NEW F \in [1..N -> [S -> S]]
  PROVE  \E f \in [0..N -> S] : Iterated(f, N, base, F)
<1> DEFINE Fits(f, m) == f = [k \in 0..m |-> IF k = 0 THEN base ELSE F[k][f[k - 1]]]
           Good == {m \in 0..N : \E f \in [0..m -> S] : Fits(f, m)}
<1>1. 0 \in Good
  <2> DEFINE g == [k \in 0..0 |-> base]
  <2>1. g \in [0..0 -> S] /\ Fits(g, 0)
    OBVIOUS
  <2>2. 0 \in 0..N
    OBVIOUS
  <2> HIDE DEF g, Fits
  <2> QED BY <2>1, <2>2
<1>2. ASSUME NEW m \in 0..(N - 1), m \in Good PROVE m + 1 \in Good
  <2>1. PICK f \in [0..m -> S] : Fits(f, m)
    BY <1>2
  <2> DEFINE g == [k \in 0..(m + 1) |-> IF k = m + 1 THEN F[m + 1][f[m]] ELSE f[k]]
             h == [k \in 0..(m + 1) |-> IF k = 0 THEN base ELSE F[k][g[k - 1]]]
  <2>2. F[m + 1][f[m]] \in S
    OBVIOUS
  <2>3. g \in [0..(m + 1) -> S]
    BY <2>2
  <2>4. ASSUME NEW k \in 0..(m + 1) PROVE g[k] = h[k]
    <3>1. CASE k = m + 1
      <4>1. k # 0 /\ k - 1 = m /\ m \in 0..(m + 1) /\ m # m + 1
        BY <3>1
      <4> QED BY <3>1, <4>1
    <3>2. CASE k # m + 1
      <4>1. k \in 0..m /\ k # m + 1
        BY <3>2
      <4>2. f[k] = IF k = 0 THEN base ELSE F[k][f[k - 1]]
        BY <2>1, <4>1
      <4>3. k # 0 => k - 1 \in 0..(m + 1) /\ k - 1 # m + 1
        BY <4>1
      <4> QED BY <4>1, <4>2, <4>3
    <3> QED BY <3>1, <3>2
  <2>5. g = h
    <3> HIDE DEF g
    <3> QED BY <2>3, <2>4
  <2>6. Fits(g, m + 1)
    BY <2>5
  <2> HIDE DEF g, h, Fits
  <2>7. m + 1 \in 0..N
    OBVIOUS
  <2> QED BY <2>3, <2>6, <2>7
<1>3. \A n \in 0..N : n \in Good
  <2> HIDE DEF Good
  <2> QED BY <1>1, <1>2, UpTo
<1>4. N \in Good
  BY <1>3
<1>5. PICK f \in [0..N -> S] : Fits(f, N)
  BY <1>4
<1>6. \A k \in 0..N : f[k] = IF k = 0 THEN base ELSE F[k][f[k - 1]]
  BY <1>5
<1>7. f[0] = base /\ \A k \in 1..N : f[k] = F[k][f[k - 1]]
  <2>1. 0 \in 0..N /\ \A k \in 1..N : k \in 0..N /\ k # 0
    OBVIOUS
  <2> HIDE DEF Fits
  <2> QED BY <1>6, <2>1
<1> QED BY <1>7 DEF Iterated
-----------------------------------------------------------------------------
(* Sequences.                                                               *)

(* A function on 1..n is a sequence of length n.                            *)
LEMMA FunctionIsSequence ==
  ASSUME NEW S, NEW n \in Nat, NEW f \in [1..n -> S]
  PROVE  f \in Seq(S) /\ Len(f) = n
<1>1. f \in Seq(S)
  BY SeqDef
<1>2. Len(f) \in Nat /\ DOMAIN f = 1..Len(f) /\ DOMAIN f = 1..n
  BY <1>1, LenProperties
<1>3. ASSUME NEW a \in Nat, 1..a = 1..n PROVE a = n
  <2>1. a > 0 => a \in 1..a
    BY <1>3
  <2>2. n > 0 => n \in 1..n
    OBVIOUS
  <2> QED BY <1>3, <2>1, <2>2
<1>4. Len(f) = n
  BY <1>2, <1>3
<1> QED BY <1>1, <1>4

(* What FlattenSeq does, sequence by sequence.                              *)
Joins(f, N, s) ==
  f = [i \in 1..N |-> IF i = 1 THEN s[i] ELSE f[i - 1] \o s[i]]

(* There is such a sequence of results.                                     *)
LEMMA JoinsExist ==
  ASSUME NEW N \in Nat, NEW s
  PROVE  \E f : Joins(f, N, s)
<1> DEFINE Good == {m \in Nat : \E f : Joins(f, m, s)}
<1>1. 0 \in Good
  <2> DEFINE g == [i \in 1..0 |-> <<>>]
  <2>1. g = [i \in 1..0 |-> IF i = 1 THEN s[i] ELSE g[i - 1] \o s[i]]
    OBVIOUS
  <2> QED BY <2>1 DEF Joins
<1>2. ASSUME NEW n \in 0..(N - 1), n \in Good PROVE n + 1 \in Good
  <2>1. PICK f : Joins(f, n, s)
    BY <1>2
  <2> DEFINE m == n + 1
             last == IF m = 1 THEN s[m] ELSE f[n] \o s[m]
             g == [i \in 1..m |-> IF i = m THEN last ELSE f[i]]
             h == [i \in 1..m |-> IF i = 1 THEN s[i] ELSE g[i - 1] \o s[i]]
  <2>2. ASSUME NEW i \in 1..m PROVE g[i] = IF i = 1 THEN s[i] ELSE g[i - 1] \o s[i]
    <3>1. CASE i = m
      <4>1. m # 1 => n \in 1..m /\ n # m
        OBVIOUS
      <4>2. m - 1 = n
        OBVIOUS
      <4>3. (m # 1 => g[n] = f[n]) /\ g[i] = last
        BY <3>1, <4>1
      <4> HIDE DEF g
      <4> QED BY <3>1, <4>2, <4>3
    <3>2. CASE i # m
      <4>1. i \in 1..n
        BY <3>2
      <4>2. f[i] = IF i = 1 THEN s[i] ELSE f[i - 1] \o s[i]
        BY <2>1, <4>1 DEF Joins
      <4>3. g[i] = f[i]
        BY <3>2
      <4>4. ASSUME i # 1 PROVE g[i - 1] = f[i - 1]
        <5>1. i - 1 \in 1..m /\ i - 1 # m
          BY <4>1, <4>4
        <5> QED BY <5>1
      <4> HIDE DEF g
      <4> QED BY <4>2, <4>3, <4>4
    <3> QED BY <3>1, <3>2
  <2>3. g = h
    <3>1. \A i \in 1..m : g[i] = h[i]
      BY <2>2
    <3> QED BY <3>1
  <2>4. Joins(g, m, s)
    BY <2>3 DEF Joins
  <2>5. m \in Nat
    OBVIOUS
  <2> QED BY <2>4, <2>5
<1> HIDE DEF Good
<1>3. \A n \in 0..N : n \in Good
  BY <1>1, <1>2, UpTo
<1> QED BY <1>3 DEF Good

(* FlattenSeq is the last of them.                                          *)
LEMMA JoinSteps ==
  ASSUME NEW B, NEW s \in Seq(Seq(B)), s # <<>>
  PROVE  \E f : /\ f[1] = s[1]
                /\ \A i \in 2..Len(s) : f[i] = f[i - 1] \o s[i]
                /\ FlattenSeq(s) = f[Len(s)]
<1> DEFINE N == Len(s)
           P(g) == g = [i \in 1..N |-> IF i = 1 THEN s[i] ELSE g[i - 1] \o s[i]]
           f == CHOOSE g : P(g)
<1>1. N \in Nat \ {0}
  BY EmptySeq
<1>2. FlattenSeq(s) = f[N]
  BY <1>1, Zenon DEF FlattenSeq
<1> HIDE DEF N, f
<1>3. \E g : P(g)
  <2>1. PICK g : Joins(g, N, s)
    BY <1>1, JoinsExist
  <2>2. P(g)
    BY <2>1 DEF Joins
  <2> HIDE DEF P
  <2> QED BY <2>2
<1> HIDE DEF P
<1>4. P(f)
  BY <1>3, Zenon DEF f
<1>5. f = [i \in 1..N |-> IF i = 1 THEN s[i] ELSE f[i - 1] \o s[i]]
  BY <1>4 DEF P
<1>6. \A i \in 1..N : f[i] = IF i = 1 THEN s[i] ELSE f[i - 1] \o s[i]
  BY <1>5
<1>7. f[1] = s[1]
  BY <1>1, <1>6
<1>8. \A i \in 2..N : f[i] = f[i - 1] \o s[i]
  <2>1. \A i \in 2..N : i \in 1..N /\ i # 1
    BY <1>1
  <2> QED BY <1>6, <2>1
<1> QED BY <1>2, <1>7, <1>8 DEF N

(* Joining no sequences.                                                    *)
LEMMA JoinNone == FlattenSeq(<<>>) = <<>>
<1>1. Len(<<>>) = 0
  BY EmptySeq
<1> QED BY <1>1, Zenon DEF FlattenSeq

(* Joining one sequence more.                                               *)
LEMMA JoinAppend ==
  ASSUME NEW B, NEW s \in Seq(Seq(B)), NEW x \in Seq(B)
  PROVE  /\ FlattenSeq(s) \in Seq(B)
         /\ FlattenSeq(Append(s, x)) = FlattenSeq(s) \o x
<1> DEFINE t == Append(s, x)
           n == Len(s)
<1>1. /\ t \in Seq(Seq(B)) /\ t # <<>> /\ Len(t) = n + 1
      /\ \A i \in 1..n : t[i] = s[i]
      /\ t[n + 1] = x
  BY AppendProperties
<1>2. n \in Nat /\ \A i \in 1..n : s[i] \in Seq(B)
  BY LenProperties, ElementOfSeq
<1> HIDE DEF t
<1>3. PICK g : /\ g[1] = t[1]
               /\ \A i \in 2..Len(t) : g[i] = g[i - 1] \o t[i]
               /\ FlattenSeq(t) = g[Len(t)]
  BY <1>1, JoinSteps
<1>4. CASE s = <<>>
  <2>1. n = 0
    BY <1>4, EmptySeq
  <2>2. FlattenSeq(t) = x
    BY <1>1, <1>3, <2>1
  <2>3. <<>> \o x = x /\ <<>> \in Seq(B)
    BY ConcatEmptySeq, EmptySeq
  <2> QED BY <1>4, <2>2, <2>3, JoinNone DEF t
<1>5. CASE s # <<>>
  <2>1. n \in Nat \ {0}
    BY <1>5, EmptySeq
  <2>2. PICK f : /\ f[1] = s[1]
                 /\ \A i \in 2..n : f[i] = f[i - 1] \o s[i]
                 /\ FlattenSeq(s) = f[n]
    BY <1>5, JoinSteps
  <2> DEFINE Good == {i \in Nat : i = 0 \/ (f[i] = g[i] /\ f[i] \in Seq(B))}
  <2>3. 0 \in Good
    OBVIOUS
  <2>4. ASSUME NEW i \in 0..(n - 1), i \in Good PROVE i + 1 \in Good
    <3> HIDE DEF n
    <3>1. i + 1 \in 1..n /\ i + 1 \in 1..(n + 1) /\ s[i + 1] \in Seq(B) /\ t[i + 1] = s[i + 1]
      BY <1>1, <1>2, <2>1
    <3>2. CASE i = 0
      BY <1>3, <2>2, <3>1, <3>2
    <3>3. CASE i # 0
      <4>1. i + 1 \in 2..n /\ i + 1 \in 2..Len(t) /\ (i + 1) - 1 = i
        BY <1>1, <1>2, <3>1, <3>3
      <4>2. f[i + 1] = f[i] \o s[i + 1] /\ g[i + 1] = g[i] \o t[i + 1]
        BY <1>3, <2>2, <4>1
      <4>3. f[i] = g[i] /\ f[i] \in Seq(B)
        BY <2>4, <3>3
      <4>4. f[i] \o s[i + 1] \in Seq(B)
        BY <3>1, <4>3, ConcatProperties
      <4>5. f[i + 1] = g[i + 1] /\ f[i + 1] \in Seq(B)
        BY <3>1, <4>2, <4>3, <4>4
      <4> QED BY <3>1, <4>5
    <3> QED BY <3>2, <3>3
  <2> HIDE DEF Good
  <2>5. n \in Good
    <3> HIDE DEF n
    <3>1. \A i \in 0..n : i \in Good
      BY <1>2, <2>3, <2>4, UpTo
    <3> QED BY <1>2, <3>1
  <2>6. f[n] = g[n] /\ f[n] \in Seq(B)
    BY <2>1, <2>5 DEF Good
  <2>7. g[n + 1] = g[n] \o x
    <3> HIDE DEF n
    <3>1. n + 1 \in 2..Len(t) /\ (n + 1) - 1 = n
      BY <1>1, <2>1
    <3> QED BY <1>1, <1>3, <3>1
  <2> QED BY <1>1, <1>3, <2>2, <2>6, <2>7 DEF t
<1> QED BY <1>4, <1>5 DEF t
(* Joining bytes makes bytes.                                               *)
LEMMA JoinTyped ==
  ASSUME NEW B, NEW s \in Seq(Seq(B))
  PROVE  FlattenSeq(s) \in Seq(B)
<1>1. <<>> \in Seq(B)
  BY EmptySeq
<1> QED BY <1>1, JoinAppend

(* How three sequences are put together does not matter.                    *)
LEMMA ConcatThree ==
  ASSUME NEW B, NEW a \in Seq(B), NEW b \in Seq(B), NEW c \in Seq(B)
  PROVE  (a \o b) \o c = a \o (b \o c)
BY ConcatAssociative

(* Joining the texts of two sequences, one after the other.                 *)
LEMMA JoinConcat ==
  ASSUME NEW B, NEW s \in Seq(Seq(B)), NEW t \in Seq(Seq(B))
  PROVE  /\ s \o t \in Seq(Seq(B))
         /\ FlattenSeq(s \o t) = FlattenSeq(s) \o FlattenSeq(t)
<1> DEFINE Fine(u) == FlattenSeq(s \o u) = FlattenSeq(s) \o FlattenSeq(u)
           Good == {n \in Nat : \A u \in Seq(Seq(B)) : Len(u) = n => Fine(u)}
           N == Len(t)
<1>0. s \o t \in Seq(Seq(B)) /\ N \in Nat
  BY ConcatProperties, LenProperties
<1>3. ASSUME NEW a \in Seq(B), NEW b \in Seq(B), NEW c \in Seq(B)
      PROVE  (a \o b) \o c = a \o (b \o c)
  <2> HIDE DEF Fine, Good, N
  <2> QED BY ConcatThree, Z3
<1>1. 0 \in Good
  <2>1. ASSUME NEW u \in Seq(Seq(B)), Len(u) = 0 PROVE Fine(u)
    <3>1. u = <<>>
      BY <2>1, EmptySeq
    <3>2. s \o u = s
      BY <3>1, ConcatEmptySeq
    <3>3. FlattenSeq(s) \in Seq(B) /\ FlattenSeq(u) = <<>>
      BY <3>1, JoinTyped, JoinNone
    <3>4. FlattenSeq(s) \o <<>> = FlattenSeq(s)
      BY <3>3, ConcatEmptySeq
    <3> QED BY <3>2, <3>3, <3>4
  <2> QED BY <2>1
<1>2. ASSUME NEW n \in 0..(N - 1), n \in Good PROVE n + 1 \in Good
  <2>1. ASSUME NEW u \in Seq(Seq(B)), Len(u) = n + 1 PROVE Fine(u)
    <3>1. u # <<>>
      BY <2>1, EmptySeq
    <3>2. PICK v \in Seq(Seq(B)), x \in Seq(B) : u = Append(v, x)
      BY <3>1, SequenceEmptyOrAppend
    <3>3. Len(v) \in Nat /\ Len(v) = n
      <4>1. Len(v) \in Nat /\ Len(u) = Len(v) + 1
        BY <3>2, LenProperties, AppendProperties
      <4> QED BY <2>1, <4>1
    <3>4. Fine(v)
      BY <1>2, <3>3
    <3>5. u = v \o <<x>> /\ <<x>> \in Seq(Seq(B))
      BY <3>2, AppendIsConcat
    <3>6. s \o v \in Seq(Seq(B)) /\ s \o u = (s \o v) \o <<x>>
      BY <3>5, ConcatProperties, ConcatAssociative
    <3>7. s \o u = Append(s \o v, x)
      BY <3>6, AppendIsConcat
    <3>8. /\ FlattenSeq(s \o u) = FlattenSeq(s \o v) \o x
          /\ FlattenSeq(u) = FlattenSeq(v) \o x
      BY <3>2, <3>6, <3>7, JoinAppend
    <3>9. FlattenSeq(s) \in Seq(B) /\ FlattenSeq(v) \in Seq(B)
      BY JoinTyped
    <3>10. (FlattenSeq(s) \o FlattenSeq(v)) \o x = FlattenSeq(s) \o (FlattenSeq(v) \o x)
      <4> DEFINE a == FlattenSeq(s)
                 b == FlattenSeq(v)
      <4>1. a \in Seq(B) /\ b \in Seq(B) /\ x \in Seq(B)
        BY <3>2, <3>9
      <4> HIDE DEF a, b
      <4>2. (a \o b) \o x = a \o (b \o x)
        BY <4>1, <1>3
      <4> QED BY <4>2 DEF a, b
    <3> QED BY <3>4, <3>8, <3>10
  <2> HIDE DEF Fine
  <2> QED BY <2>1
<1> HIDE DEF Good, N
<1>4. N \in Good
  <2>1. \A n \in 0..N : n \in Good
    BY <1>0, <1>1, <1>2, UpTo
  <2> QED BY <1>0, <2>1
<1> QED BY <1>0, <1>4 DEF Good, N

(* A sequence is its beginning and what comes after.                        *)
LEMMA CutAt ==
  ASSUME NEW S, NEW s \in Seq(S), NEW n \in 0..Len(s)
  PROVE  /\ SubSeq(s, 1, n) \in Seq(S) /\ SubSeq(s, n + 1, Len(s)) \in Seq(S)
         /\ Len(SubSeq(s, 1, n)) = n /\ Len(SubSeq(s, n + 1, Len(s))) = Len(s) - n
         /\ \A i \in 1..n : SubSeq(s, 1, n)[i] = s[i]
         /\ \A i \in 1..(Len(s) - n) : SubSeq(s, n + 1, Len(s))[i] = s[n + i]
         /\ SubSeq(s, 1, n) \o SubSeq(s, n + 1, Len(s)) = s
<1>1. Len(s) \in Nat /\ \A i \in 1..Len(s) : s[i] \in S
  BY LenProperties, ElementOfSeq
<1>2. \A i \in 1..n : s[i] \in S
  BY <1>1
<1>3. /\ SubSeq(s, 1, n) \in Seq(S) /\ Len(SubSeq(s, 1, n)) = n
      /\ \A i \in 1..n : SubSeq(s, 1, n)[i] = s[i]
  <2>1. /\ SubSeq(s, 1, n) \in Seq(S)
        /\ Len(SubSeq(s, 1, n)) = IF 1 <= n THEN n - 1 + 1 ELSE 0
        /\ \A i \in 1..(n - 1 + 1) : SubSeq(s, 1, n)[i] = s[1 + i - 1]
    BY <1>1, <1>2, SubSeqProperties
  <2>2. n - 1 + 1 = n /\ \A i \in 1..n : 1 + i - 1 = i
    BY <1>1
  <2> QED BY <2>1, <2>2
<1>4. /\ SubSeq(s, n + 1, Len(s)) \in Seq(S)
      /\ Len(SubSeq(s, n + 1, Len(s))) = Len(s) - n
      /\ \A i \in 1..(Len(s) - n) : SubSeq(s, n + 1, Len(s))[i] = s[n + i]
  <2> DEFINE m == n + 1
             N == Len(s)
  <2>0. m \in Int /\ N \in Int
    BY <1>1
  <2>1. \A i \in m..N : s[i] \in S
    BY <1>1
  <2>2. /\ SubSeq(s, m, N) \in Seq(S)
        /\ Len(SubSeq(s, m, N)) = IF m <= N THEN N - m + 1 ELSE 0
        /\ \A i \in 1..(N - m + 1) : SubSeq(s, m, N)[i] = s[m + i - 1]
    <3> HIDE DEF m, N
    <3> QED BY <2>0, <2>1, SubSeqProperties
  <2>3. /\ N - m + 1 = N - n /\ (~(m <= N) => N - n = 0)
        /\ \A i \in 1..(N - n) : m + i - 1 = n + i
    BY <1>1
  <2> QED BY <2>2, <2>3
<1>5. SubSeq(s, 1, n) \o SubSeq(s, n + 1, Len(s)) = SubSeq(s, 1, Len(s))
  <2>1. 1 \in 1..(Len(s) + 1) /\ n \in (1 - 1)..Len(s) /\ Len(s) \in n..Len(s)
    BY <1>1
  <2> QED BY <2>1, ConcatAdjacentSubSeq
<1> QED BY <1>3, <1>4, <1>5, SubSeqFull

(* What comes before and after in a sequence made of two.                   *)
LEMMA CutOfConcat ==
  ASSUME NEW S, NEW s \in Seq(S), NEW t \in Seq(S)
  PROVE  /\ s \o t \in Seq(S) /\ Len(s) \in 0..Len(s \o t)
         /\ SubSeq(s \o t, 1, Len(s)) = s
         /\ SubSeq(s \o t, Len(s) + 1, Len(s \o t)) = t
<1> DEFINE u == s \o t
           n == Len(s)
           a == SubSeq(u, 1, n)
           b == SubSeq(u, n + 1, Len(u))
<1>1. /\ u \in Seq(S) /\ Len(u) = n + Len(t) /\ n \in Nat /\ Len(t) \in Nat
      /\ \A i \in 1..(n + Len(t)) : u[i] = IF i <= n THEN s[i] ELSE t[i - n]
  BY ConcatProperties, LenProperties
<1>2. n \in 0..Len(u)
  BY <1>1
<1> HIDE DEF u, n
<1>3. /\ a \in Seq(S) /\ b \in Seq(S) /\ Len(a) = n /\ Len(b) = Len(u) - n
      /\ \A i \in 1..n : a[i] = u[i]
      /\ \A i \in 1..(Len(u) - n) : b[i] = u[n + i]
  BY <1>1, <1>2, CutAt
<1>4. a = s
  <2>1. \A i \in 1..n : a[i] = s[i]
    BY <1>1, <1>3
  <2> HIDE DEF a
  <2> QED BY <1>3, <2>1, SeqEqual DEF n
<1>5. b = t
  <2>1. Len(b) = Len(t)
    BY <1>1, <1>3
  <2>2. \A i \in 1..Len(t) : b[i] = t[i]
    <3>1. ASSUME NEW i \in 1..Len(t) PROVE b[i] = t[i]
      <4>1. i \in 1..(Len(u) - n) /\ n + i \in 1..(n + Len(t)) /\ ~(n + i <= n) /\ (n + i) - n = i
        BY <1>1
      <4>2. b[i] = u[n + i] /\ u[n + i] = t[(n + i) - n]
        BY <1>1, <1>3, <4>1
      <4> QED BY <4>1, <4>2
    <3> QED BY <3>1
  <2> HIDE DEF b
  <2> QED BY <1>3, <2>1, <2>2, SeqEqual
<1> QED BY <1>1, <1>2, <1>4, <1>5 DEF u, n, a, b

(* A prefix, element by element; and what it is a prefix of.                *)
LEMMA PrefixIs ==
  ASSUME NEW S, NEW p \in Seq(S), NEW s \in Seq(S)
  PROVE  /\ IsPrefix(p, s) <=> Len(p) <= Len(s) /\ \A i \in 1..Len(p) : p[i] = s[i]
         /\ IsPrefix(p, s) <=> Len(p) <= Len(s) /\ SubSeq(s, 1, Len(p)) = p
         /\ IsPrefix(p, s) => p \o SubSeq(s, Len(p) + 1, Len(s)) = s
<1> DEFINE n == Len(p)
           t == SubSeq(s, 1, n)
<1>1. n \in Nat /\ Len(s) \in Nat /\ SubSeq(p, 1, n) = p
  BY LenProperties, SubSeqFull
<1>2. IsPrefix(p, s) <=> n <= Len(s) /\ t = p
  BY <1>1, Zenon DEF IsPrefix
<1>3. CASE n <= Len(s)
  <2>1. n \in 0..Len(s)
    BY <1>1, <1>3
  <2> HIDE DEF n
  <2>2. /\ t \in Seq(S) /\ Len(t) = n /\ \A i \in 1..n : t[i] = s[i]
        /\ t \o SubSeq(s, n + 1, Len(s)) = s
    BY <2>1, CutAt
  <2> HIDE DEF t
  <2>3. t = p <=> \A i \in 1..n : p[i] = s[i]
    <3>1. ASSUME \A i \in 1..n : p[i] = s[i] PROVE t = p
      <4>1. \A i \in 1..Len(t) : t[i] = p[i]
        BY <2>2, <3>1
      <4> QED BY <2>2, <4>1, SeqEqual DEF n
    <3> QED BY <2>2, <3>1
  <2> QED BY <1>2, <2>2, <2>3 DEF n, t
<1>4. CASE ~(n <= Len(s))
  BY <1>2, <1>4
<1> QED BY <1>3, <1>4

(* Sequences after a common beginning.                                      *)
LEMMA CutBeyond ==
  ASSUME NEW S, NEW s \in Seq(S), NEW t \in Seq(S), NEW k \in 0..Len(t)
  PROVE  /\ SubSeq(s \o t, 1, Len(s) + k) = s \o SubSeq(t, 1, k)
         /\ SubSeq(s \o t, Len(s) + k + 1, Len(s \o t)) = SubSeq(t, k + 1, Len(t))
<1>1. PICK a \in Seq(S), b \in Seq(S) : a = SubSeq(t, 1, k) /\ b = SubSeq(t, k + 1, Len(t))
  BY CutAt
<1>2. (s \o a) \o b = s \o (a \o b)
  BY ConcatThree
<1>3. a \o b = t /\ Len(a) = k
  BY <1>1, CutAt
<1>4. PICK u \in Seq(S) : u = s \o a
  BY ConcatProperties
<1>5. SubSeq(u \o b, 1, Len(u)) = u
  BY CutOfConcat
<1>6. SubSeq(u \o b, Len(u) + 1, Len(u \o b)) = b
  BY CutOfConcat
<1>7. Len(u) = Len(s) + k
  BY <1>3, <1>4, ConcatProperties
<1>8. u \o b = s \o t
  BY <1>2, <1>3, <1>4
<1> QED BY <1>1, <1>4, <1>5, <1>6, <1>7, <1>8
=============================================================================
