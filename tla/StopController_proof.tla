----------------------- MODULE StopController_proof -------------------------
(***************************************************************************)
(* The stop controller shows every byte once and in order, holds back what *)
(* may belong to a stop sequence, and stops at the first one, unless the   *)
(* text is not characters and a call panics: for all tokens, texts and     *)
(* stop sequences.                                                         *)
(*                                                                         *)
(* The state of the automaton, built byte by byte, is the set of partial   *)
(* matches that end the text since the last token no match extends over.   *)
(***************************************************************************)
EXTENDS StopController, Induction_proof, SequenceTheorems

Bytes == Seq(Byte)

(* p is what text has just before position k + 1.                           *)
EndsAt(p, text, k) ==
  /\ Len(p) <= k
  /\ \A i \in 1..Len(p) : p[i] = text[k - Len(p) + i]

(* The partial matches that end the first k bytes of a text.                *)
Partial(text, k) ==
  {p \in Bytes : EndsAt(p, text, k) /\ (p = <<>> \/ \E s \in stops : IsPrefix(p, s))}

-----------------------------------------------------------------------------
(* Numbers and sequences.                                                  *)

(* The least of some numbers is one of them.                                *)
LEMMA MinIsLeast ==
  ASSUME NEW T \in SUBSET Nat, T # {}
  PROVE  Min(T) \in T /\ \A m \in T : Min(T) <= m
<1>1. \E n \in T : \A m \in T : n <= m
  BY LeastNumber
<1> QED BY <1>1, Zenon DEF Min

(* The greatest of some numbers up to N is one of them.                     *)
LEMMA MaxIsGreatest ==
  ASSUME NEW N \in Nat, NEW T \in SUBSET (0..N), T # {}
  PROVE  Max(T) \in T /\ \A m \in T : m <= Max(T)
<1>1. \E n \in T : \A m \in T : n >= m
  BY GreatestNumber
<1>2. Max(T) \in T /\ \A m \in T : Max(T) >= m
  BY <1>1, Zenon DEF Max
<1> QED BY <1>2

(* What Saturated() does.                                                   *)
LEMMA SaturatedIs ==
  ASSUME NEW n \in Int
  PROVE  Saturated(n) = IF n <= 0 THEN 0 ELSE n
<1> DEFINE m == IF n <= 0 THEN 0 ELSE n
<1>1. m \in {0, n} /\ \A x \in {0, n} : m >= x
  OBVIOUS
<1>2. \A x \in {0, n} : (\A y \in {0, n} : x >= y) => x = m
  OBVIOUS
<1> HIDE DEF m
<1>3. Max({0, n}) = m
  BY <1>1, <1>2 DEF Max
<1> QED BY <1>3 DEF Saturated, m

(* Take() and Drop() cut a sequence in two.                                 *)
LEMMA CutInTwo ==
  ASSUME NEW S, NEW s \in Seq(S), NEW n \in 0..Len(s)
  PROVE  /\ Take(s, n) \in Seq(S) /\ Len(Take(s, n)) = n
         /\ \A i \in 1..n : Take(s, n)[i] = s[i]
         /\ Drop(s, n) \in Seq(S) /\ Len(Drop(s, n)) = Len(s) - n
         /\ \A i \in 1..(Len(s) - n) : Drop(s, n)[i] = s[n + i]
         /\ Take(s, n) \o Drop(s, n) = s
<1>1. Len(s) \in Nat /\ n \in Nat /\ \A i \in 1..Len(s) : s[i] \in S
  BY LenProperties, ElementOfSeq
<1>2. /\ Take(s, n) \in Seq(S) /\ Len(Take(s, n)) = n
      /\ \A i \in 1..n : Take(s, n)[i] = s[i]
  <2>1. \A i \in 1..n : s[i] \in S
    BY <1>1
  <2> DEFINE t == SubSeq(s, 1, n)
  <2>2. /\ t \in Seq(S) /\ Len(t) = IF 1 <= n THEN n - 1 + 1 ELSE 0
        /\ \A i \in 1..(n - 1 + 1) : t[i] = s[1 + i - 1]
    BY <1>1, <2>1, SubSeqProperties
  <2> HIDE DEF t
  <2>3. /\ t \in Seq(S) /\ Len(t) = n
        /\ \A i \in 1..n : t[i] = s[i]
    BY <1>1, <2>2
  <2> QED BY <2>3 DEF t, Take
<1>3. /\ Drop(s, n) \in Seq(S) /\ Len(Drop(s, n)) = Len(s) - n
      /\ \A i \in 1..(Len(s) - n) : Drop(s, n)[i] = s[n + i]
  <2>1. \A i \in (n + 1)..Len(s) : s[i] \in S
    BY <1>1
  <2> DEFINE t == SubSeq(s, n + 1, Len(s))
  <2>2. /\ t \in Seq(S)
        /\ Len(t) = IF n + 1 <= Len(s) THEN Len(s) - (n + 1) + 1 ELSE 0
        /\ \A i \in 1..(Len(s) - (n + 1) + 1) : t[i] = s[(n + 1) + i - 1]
    BY <1>1, <2>1, SubSeqProperties
  <2> HIDE DEF t
  <2>3. /\ t \in Seq(S) /\ Len(t) = Len(s) - n
        /\ \A i \in 1..(Len(s) - n) : t[i] = s[n + i]
    BY <1>1, <2>2
  <2> QED BY <2>3 DEF t, Drop
<1>4. Take(s, n) \o Drop(s, n) = s
  <2>1. SubSeq(s, 1, n) \o SubSeq(s, n + 1, Len(s)) = SubSeq(s, 1, Len(s))
    <3>1. 1 \in 1..(Len(s) + 1) /\ n \in (1 - 1)..Len(s) /\ Len(s) \in n..Len(s)
      BY <1>1
    <3> QED BY <3>1, ConcatAdjacentSubSeq
  <2> QED BY <2>1, SubSeqFull DEF Take, Drop
<1> QED BY <1>2, <1>3, <1>4

(* Cutting the end of the second of two sequences.                          *)
LEMMA TakeOfConcat ==
  ASSUME NEW S, NEW s \in Seq(S), NEW t \in Seq(S), NEW n \in 0..Len(t)
  PROVE  Take(s \o t, Len(s) + n) = s \o Take(t, n)
<1> DEFINE l == Take(s \o t, Len(s) + n)
           r == s \o Take(t, n)
           a == Len(s)
           b == Len(t)
<1>1. a \in Nat /\ b \in Nat /\ n \in Nat /\ n <= b
  BY LenProperties
<1>2. /\ s \o t \in Seq(S) /\ Len(s \o t) = a + b
      /\ \A i \in 1..(a + b) : (s \o t)[i] = IF i <= a THEN s[i] ELSE t[i - a]
  BY ConcatProperties
<1>3. /\ Take(t, n) \in Seq(S) /\ Len(Take(t, n)) = n
      /\ \A i \in 1..n : Take(t, n)[i] = t[i]
  BY CutInTwo
<1>4. /\ r \in Seq(S) /\ Len(r) = a + n
      /\ \A i \in 1..(a + n) : r[i] = IF i <= a THEN s[i] ELSE Take(t, n)[i - a]
  <2> DEFINE u == Take(t, n)
  <2>1. u \in Seq(S) /\ Len(u) = n
    BY <1>3
  <2> HIDE DEF u
  <2>2. /\ s \o u \in Seq(S) /\ Len(s \o u) = a + n
        /\ \A i \in 1..(a + n) : (s \o u)[i] = IF i <= a THEN s[i] ELSE u[i - a]
    <3>1. /\ s \o u \in Seq(S) /\ Len(s \o u) = Len(s) + Len(u)
          /\ \A i \in 1..(Len(s) + Len(u)) :
               (s \o u)[i] = IF i <= Len(s) THEN s[i] ELSE u[i - Len(s)]
      BY <2>1, ConcatProperties
    <3> QED BY <2>1, <3>1
  <2> QED BY <2>2 DEF u
<1>5. /\ l \in Seq(S) /\ Len(l) = a + n
      /\ \A i \in 1..(a + n) : l[i] = (s \o t)[i]
  <2>1. a + n \in 0..Len(s \o t)
    BY <1>1, <1>2
  <2> QED BY <1>2, <2>1, CutInTwo
<1> HIDE DEF a, b, l, r
<1>6. ASSUME NEW i \in 1..(a + n) PROVE l[i] = r[i]
  <2>1. i \in 1..(a + b) /\ (~(i <= a) => i - a \in 1..n)
    BY <1>1
  <2> QED BY <1>2, <1>3, <1>4, <1>5, <2>1
<1>7. l = r
  BY <1>4, <1>5, <1>6, SeqEqual
<1> QED BY <1>7 DEF l, r, a
-----------------------------------------------------------------------------
(* The automaton.                                                          *)

(* What the library's IsPrefix says of bytes.                               *)
LEMMA IsPrefixIs ==
  ASSUME NEW p \in Bytes, NEW s \in Bytes
  PROVE  IsPrefix(p, s) <=> Len(p) <= Len(s) /\ \A i \in 1..Len(p) : p[i] = s[i]
<1> DEFINE n == Len(p)
           t == SubSeq(s, 1, n)
<1>1. n \in Nat /\ Len(s) \in Nat /\ SubSeq(p, 1, n) = p
  BY LenProperties, SubSeqFull DEF Bytes
<1>2. ASSUME n <= Len(s)
      PROVE  t \in Bytes /\ Len(t) = n /\ \A i \in 1..n : t[i] = s[i]
  <2>1. n \in 0..Len(s)
    BY <1>1, <1>2
  <2> QED BY <2>1, CutInTwo DEF Bytes, Take
<1>3. ASSUME n <= Len(s), p = t PROVE \A i \in 1..n : p[i] = s[i]
  BY <1>2, <1>3
<1>4. ASSUME n <= Len(s), \A i \in 1..n : p[i] = s[i] PROVE p = t
  <2>1. t \in Bytes /\ Len(t) = n /\ \A i \in 1..n : p[i] = t[i]
    BY <1>2, <1>4
  <2> HIDE DEF t
  <2> QED BY <2>1, SeqEqual DEF Bytes
<1>5. IsPrefix(p, s) <=> n <= Len(s) /\ p = t
  BY <1>1 DEF IsPrefix
<1> QED BY <1>3, <1>4, <1>5

(* What the library's Reverse does.                                         *)
LEMMA ReverseIs ==
  ASSUME NEW s \in Bytes
  PROVE  /\ Reverse(s) \in Bytes /\ Len(Reverse(s)) = Len(s)
         /\ \A i \in 1..Len(s) : Reverse(s)[i] = s[Len(s) - i + 1]
<1> DEFINE n == Len(s)
           r == [i \in 1..n |-> s[(n - i) + 1]]
<1>1. n \in Nat /\ \A i \in 1..n : s[i] \in Byte
  BY LenProperties, ElementOfSeq DEF Bytes
<1>2. r \in [1..n -> Byte]
  <2>1. \A i \in 1..n : (n - i) + 1 \in 1..n
    BY <1>1
  <2> QED BY <1>1, <2>1
<1>3. r \in Seq(Byte) /\ Len(r) = n
  <2> HIDE DEF r, n
  <2>1. r \in Seq(Byte)
    BY <1>1, <1>2, SeqDef
  <2>2. Len(r) \in Nat /\ DOMAIN r = 1..Len(r) /\ DOMAIN r = 1..n
    BY <1>2, <2>1, LenProperties
  <2>3. Len(r) = n
    <3>1. ASSUME NEW a \in Nat, 1..a = 1..n PROVE a = n
      <4>1. a > 0 => a \in 1..a
        BY <3>1
      <4>2. n > 0 => n \in 1..n
        BY <1>1
      <4> QED BY <1>1, <3>1, <4>1, <4>2
    <3> QED BY <2>2, <3>1
  <2> QED BY <2>1, <2>3
<1>4. \A i \in 1..n : r[i] = s[n - i + 1]
  OBVIOUS
<1>5. Reverse(s) = r
  BY DEF Reverse
<1> QED BY <1>3, <1>4, <1>5 DEF Bytes

(* A sequence is a suffix of the first k bytes if it ends there.            *)
LEMMA IsSuffixIs ==
  ASSUME NEW p \in Bytes, NEW text \in Bytes, NEW k \in 0..Len(text)
  PROVE  IsSuffix(p, Take(text, k)) <=> EndsAt(p, text, k)
<1> DEFINE t == Take(text, k)
           n == Len(p)
           P == Reverse(p)
           T == Reverse(t)
<1>1. k \in Nat /\ n \in Nat
  BY LenProperties DEF Bytes
<1>2. t \in Bytes /\ Len(t) = k /\ \A i \in 1..k : t[i] = text[i]
  BY CutInTwo DEF Bytes
<1>3. P \in Bytes /\ Len(P) = n /\ \A i \in 1..n : P[i] = p[n - i + 1]
  BY ReverseIs
<1>4. T \in Bytes /\ Len(T) = k /\ \A i \in 1..k : T[i] = t[k - i + 1]
  <2> HIDE DEF t
  <2> QED BY <1>2, ReverseIs
<1>5. IsSuffix(p, t) <=> IsPrefix(P, T)
  BY DEF IsSuffix
<1> HIDE DEF t, n, P, T
<1>6. IsPrefix(P, T) <=> n <= k /\ \A i \in 1..n : P[i] = T[i]
  BY <1>3, <1>4, IsPrefixIs
<1>7. ASSUME n <= k, NEW i \in 1..n
      PROVE  n - i + 1 \in 1..n /\ P[n - i + 1] = p[i] /\ T[n - i + 1] = text[k - n + i]
  <2>1. n - i + 1 \in 1..n /\ n - i + 1 \in 1..k /\ k - n + i \in 1..k
    BY <1>1, <1>7
  <2>2. n - (n - i + 1) + 1 = i /\ k - (n - i + 1) + 1 = k - n + i
    BY <1>1, <1>7
  <2> DEFINE j == n - i + 1
  <2>3. P[j] = p[n - j + 1] /\ T[j] = t[k - j + 1]
    BY <1>3, <1>4, <2>1
  <2> QED BY <1>2, <2>1, <2>2, <2>3
<1>8. ASSUME n <= k, \A i \in 1..n : P[i] = T[i]
      PROVE  \A i \in 1..n : p[i] = text[k - n + i]
  BY <1>7, <1>8
<1>9. ASSUME n <= k, \A i \in 1..n : p[i] = text[k - n + i]
      PROVE  \A i \in 1..n : P[i] = T[i]
  <2>1. ASSUME NEW i \in 1..n PROVE P[i] = T[i]
    <3> DEFINE j == n - i + 1
    <3>1. j \in 1..n /\ n - j + 1 = i
      BY <1>1
    <3>2. P[n - j + 1] = p[j] /\ T[n - j + 1] = text[k - n + j] /\ p[j] = text[k - n + j]
      <4> HIDE DEF j
      <4> QED BY <1>7, <1>9, <3>1
    <3> QED BY <3>1, <3>2
  <2> QED BY <2>1
<1>10. EndsAt(p, text, k) <=> n <= k /\ \A i \in 1..n : p[i] = text[k - n + i]
  BY DEF EndsAt, n
<1> QED BY <1>5, <1>6, <1>8, <1>9, <1>10 DEF t

(* Where a sequence ends depends on the text up to there only.              *)
LEMMA EndsAtLocal ==
  ASSUME NEW p \in Bytes, NEW text, NEW other, NEW k \in Nat,
         \A i \in 1..k : text[i] = other[i]
  PROVE  EndsAt(p, text, k) <=> EndsAt(p, other, k)
<1> DEFINE n == Len(p)
<1>1. n \in Nat
  BY LenProperties DEF Bytes
<1>2. n <= k => \A i \in 1..n : k - n + i \in 1..k
  BY <1>1
<1> HIDE DEF n
<1>3. n <= k => \A i \in 1..n : text[k - n + i] = other[k - n + i]
  BY <1>2
<1> QED BY <1>3 DEF EndsAt, n

(* So do the partial matches that end there.                                *)
LEMMA PartialLocal ==
  ASSUME NEW text, NEW other, NEW k \in Nat, \A i \in 1..k : text[i] = other[i]
  PROVE  Partial(text, k) = Partial(other, k)
<1>1. \A p \in Bytes : EndsAt(p, text, k) <=> EndsAt(p, other, k)
  BY EndsAtLocal
<1> QED BY <1>1 DEF Partial
(* One transition leads from the partial matches that end the first k bytes *)
(* to those that end the first k + 1.                                       *)
LEMMA TransitionPartial ==
  ASSUME stops \subseteq Bytes, NEW text \in Bytes, NEW k \in Nat, k < Len(text)
  PROVE  Transition(Partial(text, k), text[k + 1]) = Partial(text, k + 1)
<1> DEFINE b == text[k + 1]
           Old == Partial(text, k)
           New == Partial(text, k + 1)
<1>1. b \in Byte /\ k + 1 \in Nat /\ \A p \in Bytes : Len(p) \in Nat
  <2>1. k + 1 \in 1..Len(text) /\ \A p \in Bytes : Len(p) \in Nat
    BY LenProperties DEF Bytes
  <2> QED BY <2>1, ElementOfSeq DEF Bytes
<1>2. ASSUME NEW p \in Transition(Old, b) PROVE p \in New
  <2>1. CASE p = <<>>
    <3>1. <<>> \in Bytes /\ Len(<<>>) = 0
      BY EmptySeq DEF Bytes
    <3>2. EndsAt(<<>>, text, k + 1)
      BY <1>1, <3>1 DEF EndsAt
    <3> QED BY <2>1, <3>1, <3>2 DEF Partial
  <2>2. CASE p # <<>>
    <3>1. PICK q \in Old, s \in stops : p = Append(q, b) /\ IsPrefix(p, s)
      BY <1>2, <2>2 DEF Transition
    <3>2. q \in Bytes /\ Len(q) \in Nat /\ Len(q) <= k
          /\ \A i \in 1..Len(q) : q[i] = text[k - Len(q) + i]
      BY <1>1, <3>1 DEF Partial, EndsAt
    <3>3. /\ p \in Bytes /\ Len(p) = Len(q) + 1
          /\ \A i \in 1..Len(q) : p[i] = q[i]
          /\ p[Len(q) + 1] = b
      BY <1>1, <3>1, <3>2, AppendProperties DEF Bytes
    <3> DEFINE n == Len(q)
    <3>4. ASSUME NEW i \in 1..(n + 1) PROVE p[i] = text[k + 1 - (n + 1) + i]
      <4>1. CASE i = n + 1
        <5>1. k + 1 - (n + 1) + i = k + 1
          BY <3>2, <4>1
        <5> QED BY <3>3, <4>1, <5>1
      <4>2. CASE i # n + 1
        <5>1. i \in 1..n /\ k + 1 - (n + 1) + i = k - n + i
          BY <3>2, <4>2
        <5> QED BY <3>2, <3>3, <5>1
      <4> QED BY <4>1, <4>2
    <3>5. Len(p) <= k + 1
      BY <3>2, <3>3
    <3>6. EndsAt(p, text, k + 1)
      BY <3>3, <3>4, <3>5 DEF EndsAt
    <3> QED BY <3>1, <3>3, <3>6 DEF Partial
  <2> QED BY <2>1, <2>2
<1>3. ASSUME NEW p \in New PROVE p \in Transition(Old, b)
  <2>1. CASE p = <<>>
    BY <2>1 DEF Transition
  <2>2. CASE p # <<>>
    <3> DEFINE n == Len(p)
    <3>1. /\ p \in Bytes /\ n \in Nat \ {0} /\ n <= k + 1
          /\ \A i \in 1..n : p[i] = text[k + 1 - n + i]
      BY <1>3, <2>2, EmptySeq DEF Partial, EndsAt, Bytes
    <3>2. PICK s \in stops : IsPrefix(p, s)
      BY <1>3, <2>2 DEF Partial
    <3>3. PICK q \in Bytes, e \in Byte : p = Append(q, e)
      BY <2>2, <3>1, SequenceEmptyOrAppend DEF Bytes
    <3>4. /\ Len(q) \in Nat /\ n = Len(q) + 1
          /\ \A i \in 1..Len(q) : p[i] = q[i]
          /\ p[Len(q) + 1] = e
      BY <1>1, <3>3, AppendProperties DEF Bytes
    <3> HIDE DEF n
    <3>5. e = b
      <4>1. n \in 1..n /\ k + 1 - n + n = k + 1
        BY <3>1
      <4>2. p[n] = text[k + 1 - n + n]
        BY <3>1, <4>1
      <4> QED BY <3>4, <4>1, <4>2
    <3>6. EndsAt(q, text, k)
      <4> DEFINE m == Len(q)
      <4>1. m <= k
        BY <3>1, <3>4
      <4>2. ASSUME NEW i \in 1..m PROVE q[i] = text[k - m + i]
        <5>1. i \in 1..n /\ k + 1 - n + i = k - m + i
          BY <3>1, <3>4
        <5> QED BY <3>1, <3>4, <5>1
      <4> QED BY <4>1, <4>2 DEF EndsAt
    <3>7. IsPrefix(q, s)
      <4>1. s \in Bytes
        BY <3>2
      <4>2. n <= Len(s) /\ \A i \in 1..n : p[i] = s[i]
        BY <3>1, <3>2, <4>1, IsPrefixIs DEF n
      <4>3. Len(q) <= Len(s) /\ \A i \in 1..Len(q) : q[i] = s[i]
        <5>1. Len(s) \in Nat /\ \A i \in 1..Len(q) : i \in 1..n
          BY <1>1, <3>4, <4>1
        <5> QED BY <3>4, <4>2, <5>1
      <4> QED BY <4>1, <4>3, IsPrefixIs
    <3>8. q \in Old
      BY <3>2, <3>6, <3>7 DEF Partial
    <3> QED BY <3>2, <3>3, <3>5, <3>8 DEF Transition
  <2> QED BY <2>1, <2>2
<1> QED BY <1>2, <1>3

(* What StateAfter does, byte by byte.                                      *)
Runs(f, N, st, s) ==
  f = [i \in 0..N |-> IF i = 0 THEN st ELSE Transition(f[i - 1], s[i])]

(* There is such a sequence of states.                                      *)
LEMMA RunsExist ==
  ASSUME NEW N \in Nat, NEW st, NEW s
  PROVE  \E f : Runs(f, N, st, s)
<1> DEFINE Good == {m \in Nat : \E f : Runs(f, m, st, s)}
<1>1. 0 \in Good
  <2> DEFINE g == [i \in 0..0 |-> st]
  <2>1. g = [i \in 0..0 |-> IF i = 0 THEN st ELSE Transition(g[i - 1], s[i])]
    OBVIOUS
  <2> QED BY <2>1 DEF Runs
<1>2. ASSUME NEW n \in 0..(N - 1), n \in Good PROVE n + 1 \in Good
  <2>1. PICK f : Runs(f, n, st, s)
    BY <1>2
  <2> DEFINE m == n + 1
             g == [i \in 0..m |-> IF i = m THEN Transition(f[n], s[m]) ELSE f[i]]
             h == [i \in 0..m |-> IF i = 0 THEN st ELSE Transition(g[i - 1], s[i])]
  <2>2. ASSUME NEW i \in 0..m PROVE g[i] = IF i = 0 THEN st ELSE Transition(g[i - 1], s[i])
    <3>1. CASE i = m
      <4>1. n \in 0..m /\ n # m /\ m # 0 /\ m - 1 = n
        OBVIOUS
      <4>2. g[n] = f[n] /\ g[i] = Transition(f[n], s[m])
        BY <3>1, <4>1
      <4> HIDE DEF g
      <4> QED BY <3>1, <4>1, <4>2
    <3>2. CASE i # m
      <4>1. i \in 0..n
        BY <3>2
      <4>2. f[i] = IF i = 0 THEN st ELSE Transition(f[i - 1], s[i])
        BY <2>1, <4>1 DEF Runs
      <4>3. g[i] = f[i]
        BY <3>2
      <4>4. ASSUME i # 0 PROVE g[i - 1] = f[i - 1]
        <5>1. i - 1 \in 0..m /\ i - 1 # m
          BY <4>1, <4>4
        <5> QED BY <5>1
      <4> HIDE DEF g
      <4> QED BY <4>2, <4>3, <4>4
    <3> QED BY <3>1, <3>2
  <2>3. g = h
    <3>1. \A i \in 0..m : g[i] = h[i]
      BY <2>2
    <3> QED BY <3>1
  <2>4. Runs(g, m, st, s)
    BY <2>3 DEF Runs
  <2>5. m \in Nat
    OBVIOUS
  <2> QED BY <2>4, <2>5
<1> HIDE DEF Good
<1>3. \A n \in 0..N : n \in Good
  BY <1>1, <1>2, UpTo
<1> QED BY <1>3 DEF Good

(* StateAfter() is the last state of a run.                                 *)
LEMMA StateAfterRuns ==
  ASSUME NEW st, NEW s \in Bytes
  PROVE  \E f : /\ f[0] = st
                /\ \A i \in 1..Len(s) : f[i] = Transition(f[i - 1], s[i])
                /\ StateAfter(st, s) = f[Len(s)]
<1> DEFINE N == Len(s)
           P(g) == g = [i \in 0..N |-> IF i = 0 THEN st ELSE Transition(g[i - 1], s[i])]
           f == CHOOSE g : P(g)
<1>1. N \in Nat
  BY LenProperties DEF Bytes
<1>2. StateAfter(st, s) = f[N]
  BY Zenon DEF StateAfter
<1> HIDE DEF N, f
<1>3. \E g : P(g)
  <2>1. PICK g : Runs(g, N, st, s)
    BY <1>1, RunsExist
  <2>2. P(g)
    BY <2>1 DEF Runs
  <2> HIDE DEF P
  <2> QED BY <2>2
<1> HIDE DEF P
<1>4. P(f)
  BY <1>3, Zenon DEF f
<1>5. f = [i \in 0..N |-> IF i = 0 THEN st ELSE Transition(f[i - 1], s[i])]
  BY <1>4 DEF P
<1>6. \A i \in 0..N : f[i] = IF i = 0 THEN st ELSE Transition(f[i - 1], s[i])
  BY <1>5
<1>7. f[0] = st
  BY <1>1, <1>6
<1>8. \A i \in 1..N : f[i] = Transition(f[i - 1], s[i])
  <2>1. \A i \in 1..N : i \in 0..N /\ i # 0
    BY <1>1
  <2> QED BY <1>6, <2>1
<1> QED BY <1>2, <1>7, <1>8 DEF N

(* Run over bytes of the text, the automaton is in the state of their end.  *)
LEMMA AfterIsPartial ==
  ASSUME stops \subseteq Bytes, NEW text \in Bytes, NEW s \in Bytes, NEW n \in Nat,
         n + Len(s) <= Len(text), \A i \in 1..Len(s) : text[n + i] = s[i]
  PROVE  StateAfter(Partial(text, n), s) = Partial(text, n + Len(s))
<1>1. PICK f : /\ f[0] = Partial(text, n)
               /\ \A i \in 1..Len(s) : f[i] = Transition(f[i - 1], s[i])
               /\ StateAfter(Partial(text, n), s) = f[Len(s)]
  BY StateAfterRuns
<1> DEFINE N == Len(s)
           Good == {i \in Nat : f[i] = Partial(text, n + i)}
<1>2. N \in Nat /\ Len(text) \in Nat
  BY LenProperties DEF Bytes
<1>3. 0 \in Good
  BY <1>1
<1>4. ASSUME NEW i \in 0..(N - 1), i \in Good PROVE i + 1 \in Good
  <2>1. /\ i + 1 \in 1..N /\ (i + 1) - 1 = i /\ n + i \in Nat /\ n + i < Len(text)
        /\ n + (i + 1) = (n + i) + 1
    BY <1>2
  <2>2. f[i + 1] = Transition(Partial(text, n + i), text[(n + i) + 1])
    BY <1>1, <1>4, <2>1
  <2>3. f[i + 1] = Partial(text, n + (i + 1))
    BY <2>1, <2>2, TransitionPartial
  <2> QED BY <2>1, <2>3
<1> HIDE DEF Good
<1>5. \A i \in 0..N : i \in Good
  <2> HIDE DEF N
  <2> QED BY <1>2, <1>3, <1>4, UpTo
<1>6. N \in Good
  BY <1>2, <1>5
<1> QED BY <1>1, <1>6 DEF Good, N
-----------------------------------------------------------------------------
(* The text of the tokens.                                                 *)

(* Joining texts.                                                           *)
LEMMA FlattenEmpty == FlattenSeq(<<>>) = <<>>
BY JoinNone

(* Joining one text more.                                                   *)
LEMMA FlattenAppend ==
  ASSUME NEW s \in Seq(Bytes), NEW x \in Bytes
  PROVE  /\ FlattenSeq(s) \in Bytes
         /\ FlattenSeq(Append(s, x)) = FlattenSeq(s) \o x
BY JoinAppend DEF Bytes

(* Joining bytes makes bytes.                                               *)
LEMMA FlattenTyped ==
  ASSUME NEW s \in Seq(Bytes)
  PROVE  FlattenSeq(s) \in Bytes
BY JoinTyped DEF Bytes

(* What a token adds to the text.                                           *)
Piece(t) == IF t \in StopTokens THEN <<>> ELSE TextOf[t]

(* It is bytes.                                                             *)
LEMMA PieceTyped ==
  ASSUME NEW t \in Tokens
  PROVE  Piece(t) \in Bytes /\ TextOf[t] \in Bytes
BY StopAssumption, EmptySeq DEF Piece, Bytes

(* The text of no tokens.                                                   *)
LEMMA TextOfNone == TextShownBy(<<>>) = <<>>
<1> DEFINE f == [i \in 1..Len(<<>>) |->
                   IF <<>>[i] \in StopTokens THEN <<>> ELSE TextOf[<<>>[i]]]
<1>1. f \in [1..0 -> Bytes]
  BY EmptySeq
<1>2. f = <<>>
  <2> HIDE DEF f
  <2>1. f \in Seq(Bytes) /\ Len(f) = 0
    BY <1>1, FunctionIsSequence
  <2> QED BY <2>1, EmptySeq
<1> QED BY <1>2, FlattenEmpty DEF TextShownBy

(* One token more adds its text.                                            *)
LEMMA TextOfAppend ==
  ASSUME NEW ts \in Seq(Tokens), NEW t \in Tokens
  PROVE  /\ TextShownBy(ts) \in Bytes
         /\ TextShownBy(Append(ts, t)) = TextShownBy(ts) \o Piece(t)
<1> DEFINE us == Append(ts, t)
           n == Len(ts)
           f == [i \in 1..n |-> IF ts[i] \in StopTokens THEN <<>> ELSE TextOf[ts[i]]]
           g == [i \in 1..Len(us) |-> IF us[i] \in StopTokens THEN <<>> ELSE TextOf[us[i]]]
<1>1. n \in Nat /\ \A i \in 1..n : ts[i] \in Tokens
  BY LenProperties, ElementOfSeq
<1>2. /\ us \in Seq(Tokens) /\ Len(us) = n + 1
      /\ \A i \in 1..n : us[i] = ts[i]
      /\ us[n + 1] = t
  BY AppendProperties
<1>3. TextShownBy(ts) = FlattenSeq(f) /\ TextShownBy(us) = FlattenSeq(g)
  BY DEF TextShownBy
<1>4. f = [i \in 1..n |-> Piece(ts[i])]
  BY DEF Piece
<1> HIDE DEF us
<1>5. g = [i \in 1..(n + 1) |-> Piece(us[i])]
  BY <1>2 DEF Piece
<1> HIDE DEF n, f, g
<1>6. f \in Seq(Bytes) /\ Len(f) = n /\ \A i \in 1..n : f[i] = Piece(ts[i])
  <2>1. f \in [1..n -> Bytes]
    BY <1>1, <1>4, PieceTyped
  <2> QED BY <1>1, <1>4, <2>1, FunctionIsSequence
<1>7. g \in Seq(Bytes) /\ Len(g) = n + 1 /\ \A i \in 1..(n + 1) : g[i] = Piece(us[i])
  <2>1. \A i \in 1..(n + 1) : i \in 1..n \/ i = n + 1
    BY <1>1
  <2>2. \A i \in 1..(n + 1) : us[i] \in Tokens
    BY <1>1, <1>2, <2>1
  <2>3. g \in [1..(n + 1) -> Bytes]
    BY <1>5, <2>2, PieceTyped
  <2>4. n + 1 \in Nat
    BY <1>1
  <2> QED BY <1>5, <2>3, <2>4, FunctionIsSequence
<1>8. g = Append(f, Piece(t))
  <2> DEFINE h == Append(f, Piece(t))
  <2>1. Piece(t) \in Bytes
    BY PieceTyped
  <2>2. /\ h \in Seq(Bytes) /\ Len(h) = n + 1
        /\ \A i \in 1..n : h[i] = f[i]
        /\ h[n + 1] = Piece(t)
    BY <1>6, <2>1, AppendProperties
  <2> HIDE DEF h
  <2>3. ASSUME NEW i \in 1..(n + 1) PROVE g[i] = h[i]
    <3>1. i \in 1..n \/ i = n + 1
      BY <1>1
    <3> QED BY <1>2, <1>6, <1>7, <2>2, <3>1
  <2>4. g = h
    BY <1>7, <2>2, <2>3, SeqEqual
  <2> QED BY <2>4 DEF h
<1>9. FlattenSeq(f) \in Bytes /\ FlattenSeq(g) = FlattenSeq(f) \o Piece(t)
  BY <1>6, <1>8, PieceTyped, FlattenAppend
<1> QED BY <1>3, <1>9 DEF us

(* The text of tokens is bytes.                                             *)
LEMMA TextOfTyped ==
  ASSUME NEW ts \in Seq(Tokens)
  PROVE  TextShownBy(ts) \in Bytes
<1> DEFINE f == [i \in 1..Len(ts) |-> IF ts[i] \in StopTokens THEN <<>> ELSE TextOf[ts[i]]]
<1>1. Len(ts) \in Nat /\ \A i \in 1..Len(ts) : ts[i] \in Tokens
  BY LenProperties, ElementOfSeq
<1>2. f = [i \in 1..Len(ts) |-> Piece(ts[i])]
  BY DEF Piece
<1>3. TextShownBy(ts) = FlattenSeq(f)
  BY DEF TextShownBy
<1> HIDE DEF f
<1>4. f \in [1..Len(ts) -> Bytes]
  BY <1>1, <1>2, PieceTyped
<1>5. f \in Seq(Bytes)
  BY <1>1, <1>4, FunctionIsSequence
<1> QED BY <1>3, <1>5, FlattenTyped

(* LastReset, Before and Segment of any tokens.                             *)
ResetOf(ts) == Max({0} \cup {i \in 1..Len(ts) : ts[i] \in Resets})
BeforeOf(ts) == TextShownBy(Take(ts, ResetOf(ts)))
SegmentOf(ts) == TextShownBy(Drop(ts, ResetOf(ts)))

(* Where the last reset is.                                                 *)
LEMMA ResetIs ==
  ASSUME NEW ts \in Seq(Tokens)
  PROVE  /\ ResetOf(ts) \in 0..Len(ts)
         /\ ResetOf(ts) # 0 => ts[ResetOf(ts)] \in Resets
         /\ \A i \in 1..Len(ts) : ts[i] \in Resets => i <= ResetOf(ts)
<1> DEFINE T == {0} \cup {i \in 1..Len(ts) : ts[i] \in Resets}
<1>1. Len(ts) \in Nat /\ T \in SUBSET (0..Len(ts)) /\ T # {}
  BY LenProperties
<1>2. ResetOf(ts) = Max(T)
  BY DEF ResetOf
<1> HIDE DEF T
<1>3. Max(T) \in T /\ \A m \in T : m <= Max(T)
  BY <1>1, MaxIsGreatest
<1> QED BY <1>1, <1>2, <1>3 DEF T

(* How a token moves it.                                                    *)
LEMMA ResetOfAppend ==
  ASSUME NEW ts \in Seq(Tokens), NEW t \in Tokens
  PROVE  ResetOf(Append(ts, t)) = IF t \in Resets THEN Len(ts) + 1 ELSE ResetOf(ts)
<1> DEFINE us == Append(ts, t)
           n == Len(ts)
           r == ResetOf(ts)
           q == ResetOf(us)
<1>1. /\ us \in Seq(Tokens) /\ Len(us) = n + 1
      /\ \A i \in 1..n : us[i] = ts[i]
      /\ us[n + 1] = t /\ n \in Nat
  BY AppendProperties, LenProperties
<1> HIDE DEF us
<1>2. /\ q \in 0..(n + 1)
      /\ q # 0 => us[q] \in Resets
      /\ \A i \in 1..(n + 1) : us[i] \in Resets => i <= q
  BY <1>1, ResetIs
<1>3. /\ r \in 0..n
      /\ r # 0 => ts[r] \in Resets
      /\ \A i \in 1..n : ts[i] \in Resets => i <= r
  BY ResetIs
<1> HIDE DEF n, r, q
<1>4. CASE t \in Resets
  <2>1. n + 1 \in 1..(n + 1)
    BY <1>1
  <2>2. n + 1 <= q
    BY <1>1, <1>2, <1>4, <2>1
  <2>3. q = n + 1
    BY <1>1, <1>2, <2>2
  <2> QED BY <1>4, <2>3 DEF q, us, n
<1>5. CASE t \notin Resets
  <2>1. q # n + 1
    BY <1>1, <1>2, <1>5
  <2>2. q \in 0..n
    BY <1>1, <1>2, <2>1
  <2>3. q <= r
    <3>1. CASE q = 0
      BY <1>3, <3>1
    <3>2. CASE q # 0
      <4>1. q \in 1..n
        BY <2>2, <3>2
      <4>2. ts[q] \in Resets
        BY <1>1, <1>2, <3>2, <4>1
      <4> QED BY <1>3, <4>1, <4>2
    <3> QED BY <3>1, <3>2
  <2>4. r <= q
    <3>1. CASE r = 0
      BY <2>2, <3>1
    <3>2. CASE r # 0
      <4>1. r \in 1..n /\ r \in 1..(n + 1)
        BY <1>1, <1>3, <3>2
      <4>2. us[r] \in Resets
        BY <1>1, <1>3, <3>2, <4>1
      <4> QED BY <1>2, <4>1, <4>2
    <3> QED BY <3>1, <3>2
  <2>5. q = r
    BY <1>3, <2>2, <2>3, <2>4
  <2> QED BY <1>5, <2>5 DEF q, r, us
<1> QED BY <1>4, <1>5
(* Cutting a sequence to which an element was appended.                     *)
LEMMA CutOfAppend ==
  ASSUME NEW S, NEW s \in Seq(S), NEW e \in S, NEW n \in 0..Len(s)
  PROVE  /\ Take(Append(s, e), n) = Take(s, n)
         /\ Drop(Append(s, e), n) = Append(Drop(s, n), e)
<1> DEFINE u == Append(s, e)
           m == Len(s)
<1>1. /\ u \in Seq(S) /\ Len(u) = m + 1 /\ m \in Nat /\ n \in 0..m /\ n \in 0..(m + 1)
      /\ \A i \in 1..m : u[i] = s[i]
      /\ u[m + 1] = e
  BY AppendProperties, LenProperties
<1>2. /\ Take(s, n) \in Seq(S) /\ Len(Take(s, n)) = n
      /\ \A i \in 1..n : Take(s, n)[i] = s[i]
      /\ Drop(s, n) \in Seq(S) /\ Len(Drop(s, n)) = m - n
      /\ \A i \in 1..(m - n) : Drop(s, n)[i] = s[n + i]
  BY CutInTwo
<1> HIDE DEF u, m
<1>3. /\ Take(u, n) \in Seq(S) /\ Len(Take(u, n)) = n
      /\ \A i \in 1..n : Take(u, n)[i] = u[i]
      /\ Drop(u, n) \in Seq(S) /\ Len(Drop(u, n)) = (m + 1) - n
      /\ \A i \in 1..((m + 1) - n) : Drop(u, n)[i] = u[n + i]
  <2>1. u \in Seq(S) /\ n \in 0..Len(u)
    BY <1>1
  <2>2. /\ Take(u, n) \in Seq(S) /\ Len(Take(u, n)) = n
        /\ \A i \in 1..n : Take(u, n)[i] = u[i]
        /\ Drop(u, n) \in Seq(S) /\ Len(Drop(u, n)) = Len(u) - n
        /\ \A i \in 1..(Len(u) - n) : Drop(u, n)[i] = u[n + i]
    BY <2>1, CutInTwo
  <2>3. Len(u) = m + 1
    BY <1>1
  <2> QED BY <2>2, <2>3, Zenon
<1>4. Take(u, n) = Take(s, n)
  <2>1. \A i \in 1..n : Take(u, n)[i] = Take(s, n)[i]
    <3>1. ASSUME NEW i \in 1..n PROVE Take(u, n)[i] = Take(s, n)[i]
      <4>1. i \in 1..m
        BY <1>1
      <4>2. Take(u, n)[i] = u[i] /\ Take(s, n)[i] = s[i] /\ u[i] = s[i]
        BY <1>1, <1>2, <1>3, <4>1, Zenon
      <4> QED BY <4>2
    <3> QED BY <3>1
  <2> QED BY <1>2, <1>3, <2>1, SeqEqual
<1>5. Drop(u, n) = Append(Drop(s, n), e)
  <2> DEFINE l == Drop(u, n)
             d == Drop(s, n)
             r == Append(d, e)
  <2>1. /\ r \in Seq(S) /\ Len(r) = m - n + 1
        /\ \A i \in 1..(m - n) : r[i] = d[i]
        /\ r[m - n + 1] = e
    <3>1. d \in Seq(S) /\ Len(d) = m - n
      BY <1>2
    <3> HIDE DEF d
    <3>2. /\ r \in Seq(S) /\ Len(r) = Len(d) + 1
          /\ \A i \in 1..Len(d) : r[i] = d[i]
          /\ r[Len(d) + 1] = e
      BY <3>1, AppendProperties
    <3> QED BY <3>1, <3>2
  <2>2. /\ l \in Seq(S) /\ Len(l) = m - n + 1
        /\ \A i \in 1..(m - n + 1) : l[i] = u[n + i]
    BY <1>1, <1>3
  <2>3. \A i \in 1..(m - n) : d[i] = s[n + i]
    BY <1>2
  <2> HIDE DEF l, d, r
  <2>4. ASSUME NEW i \in 1..(m - n + 1) PROVE l[i] = r[i]
    <3>1. CASE i = m - n + 1
      <4>1. n + i = m + 1
        BY <1>1, <3>1
      <4> QED BY <1>1, <2>1, <2>2, <3>1, <4>1
    <3>2. CASE i # m - n + 1
      <4>1. i \in 1..(m - n) /\ n + i \in 1..m
        BY <1>1, <3>2
      <4> QED BY <1>1, <2>1, <2>2, <2>3, <4>1
    <3> QED BY <3>1, <3>2
  <2>5. l = r
    BY <2>1, <2>2, <2>4, SeqEqual
  <2> QED BY <2>5 DEF l, d, r
<1> QED BY <1>4, <1>5 DEF u

(* How a token changes the text before and after the last reset.            *)
LEMMA CommitText ==
  ASSUME NEW ts \in Seq(Tokens), NEW t \in Tokens
  PROVE  LET us == Append(ts, t) IN
         /\ BeforeOf(ts) \in Bytes /\ SegmentOf(ts) \in Bytes
         /\ t \in Resets => BeforeOf(us) = TextShownBy(us) /\ SegmentOf(us) = <<>>
         /\ t \notin Resets => /\ BeforeOf(us) = BeforeOf(ts)
                               /\ SegmentOf(us) = SegmentOf(ts) \o Piece(t)
<1> DEFINE us == Append(ts, t)
           n == Len(ts)
           r == ResetOf(ts)
<1>1. us \in Seq(Tokens) /\ Len(us) = n + 1 /\ n \in Nat
  BY AppendProperties, LenProperties
<1>2. r \in 0..n
  BY ResetIs
<1>3. Take(ts, r) \in Seq(Tokens) /\ Drop(ts, r) \in Seq(Tokens)
  BY <1>2, CutInTwo
<1>4. BeforeOf(ts) \in Bytes /\ SegmentOf(ts) \in Bytes
  <2> HIDE DEF r
  <2>1. TextShownBy(Take(ts, r)) \in Bytes /\ TextShownBy(Drop(ts, r)) \in Bytes
    BY <1>3, TextOfAppend
  <2> QED BY <2>1 DEF BeforeOf, SegmentOf, r
<1>5. ASSUME t \in Resets PROVE BeforeOf(us) = TextShownBy(us) /\ SegmentOf(us) = <<>>
  <2>1. ResetOf(us) = Len(us)
    BY <1>1, <1>5, ResetOfAppend
  <2> HIDE DEF us
  <2>2. Take(us, Len(us)) = us
    BY <1>1, SubSeqFull DEF Take
  <2>3. Drop(us, Len(us)) = <<>>
    <3>1. Len(us) \in 0..Len(us) /\ Len(us) - Len(us) = 0
      BY <1>1
    <3>2. Drop(us, Len(us)) \in Seq(Tokens) /\ Len(Drop(us, Len(us))) = 0
      BY <1>1, <3>1, CutInTwo
    <3> QED BY <3>2, EmptySeq
  <2> QED BY <2>1, <2>2, <2>3, TextOfNone DEF BeforeOf, SegmentOf
<1>6. ASSUME t \notin Resets
      PROVE  BeforeOf(us) = BeforeOf(ts) /\ SegmentOf(us) = SegmentOf(ts) \o Piece(t)
  <2>1. ResetOf(us) = r
    BY <1>6, ResetOfAppend
  <2>2. Take(us, r) = Take(ts, r) /\ Drop(us, r) = Append(Drop(ts, r), t)
    BY <1>2, CutOfAppend
  <2>3. TextShownBy(Append(Drop(ts, r), t)) = TextShownBy(Drop(ts, r)) \o Piece(t)
    BY <1>3, TextOfAppend
  <2> QED BY <2>1, <2>2, <2>3 DEF BeforeOf, SegmentOf
<1> QED BY <1>4, <1>5, <1>6

-----------------------------------------------------------------------------
(* What the automaton reports, and how much of the text is shown.          *)

(* A stop sequence has a match in the state exactly where it ends.          *)
LEMMA MatchInState ==
  ASSUME stops \subseteq Bytes, NEW text, NEW k \in Nat
  PROVE  /\ Partial(text, k) \cap stops = {s \in stops : EndsAt(s, text, k)}
         /\ HasLowestMatch(Partial(text, k)) <=> \E s \in stops : EndsAt(s, text, k)
<1>1. \A s \in stops : IsPrefix(s, s)
  <2>1. \A s \in stops : s \in Bytes /\ Len(s) <= Len(s)
    BY LenProperties DEF Bytes
  <2> QED BY <2>1, IsPrefixIs
<1>2. Partial(text, k) \cap stops = {s \in stops : EndsAt(s, text, k)}
  BY <1>1 DEF Partial
<1> QED BY <1>2 DEF HasLowestMatch

(* Run over the first bytes of a token, from the end of the text.           *)
LEMMA AfterToken ==
  ASSUME stops \subseteq Bytes, NEW seg \in Bytes, NEW s \in Bytes, NEW i \in 0..Len(s)
  PROVE  StateAfter(Partial(seg, Len(seg)), Take(s, i)) = Partial(seg \o s, Len(seg) + i)
<1> DEFINE text == seg \o s
           n == Len(seg)
           u == Take(s, i)
<1>1. /\ text \in Bytes /\ Len(text) = n + Len(s) /\ n \in Nat /\ Len(s) \in Nat
      /\ \A j \in 1..(n + Len(s)) : text[j] = IF j <= n THEN seg[j] ELSE s[j - n]
  BY ConcatProperties, LenProperties DEF Bytes
<1>2. u \in Bytes /\ Len(u) = i /\ \A j \in 1..i : u[j] = s[j]
  BY CutInTwo DEF Bytes
<1> HIDE DEF text, n, u
<1>3. Partial(seg, n) = Partial(text, n)
  <2>1. \A j \in 1..n : seg[j] = text[j]
    BY <1>1
  <2> QED BY <1>1, <2>1, PartialLocal
<1>4. \A j \in 1..i : text[n + j] = u[j]
  <2>1. \A j \in 1..i : n + j \in 1..(n + Len(s)) /\ ~(n + j <= n) /\ (n + j) - n = j
    BY <1>1
  <2> QED BY <1>1, <1>2, <2>1
<1>5. n + i <= Len(text)
  BY <1>1
<1>6. StateAfter(Partial(text, n), u) = Partial(text, n + Len(u))
  BY <1>1, <1>2, <1>4, <1>5, AfterIsPartial
<1> QED BY <1>2, <1>3, <1>6 DEF text, n, u

(* The matches found in a token are those that end in it.                   *)
LEMMA MatchesInToken ==
  ASSUME stops \subseteq Bytes, NEW seg \in Bytes, NEW s \in Bytes
  PROVE  Matches(Partial(seg, Len(seg)), s)
           = {i \in 1..Len(s) : \E p \in stops : EndsAt(p, seg \o s, Len(seg) + i)}
<1> DEFINE n == Len(seg)
<1>1. n \in Nat /\ Len(s) \in Nat
  BY LenProperties DEF Bytes
<1>2. ASSUME NEW i \in 1..Len(s)
      PROVE  HasLowestMatch(StateAfter(Partial(seg, n), SubSeq(s, 1, i)))
               <=> \E p \in stops : EndsAt(p, seg \o s, n + i)
  <2>1. i \in 0..Len(s) /\ n + i \in Nat
    BY <1>1
  <2>2. StateAfter(Partial(seg, n), Take(s, i)) = Partial(seg \o s, n + i)
    BY <2>1, AfterToken
  <2> QED BY <2>1, <2>2, MatchInState DEF Take
<1> QED BY <1>2 DEF Matches

(* A partial match that goes back beyond the last m bytes has a part that   *)
(* ended before them.                                                       *)
LEMMA PartialBefore ==
  ASSUME stops \subseteq Bytes, NEW text, NEW n \in Nat, NEW m \in Nat, NEW L \in Nat,
         \A q \in Partial(text, n) : Len(q) <= L,
         NEW p \in Partial(text, n + m)
  PROVE  Len(p) <= L + m
<1> DEFINE l == Len(p)
<1>1. /\ p \in Bytes /\ l \in Nat /\ l <= n + m
      /\ \A i \in 1..l : p[i] = text[n + m - l + i]
  BY LenProperties DEF Partial, EndsAt, Bytes
<1> SUFFICES ASSUME l > m PROVE l - m <= L
  BY <1>1
<1> DEFINE k == l - m
           q == Take(p, k)
<1>2. k \in 0..l /\ k \in Nat \ {0}
  BY <1>1
<1>3. q \in Bytes /\ Len(q) = k /\ \A i \in 1..k : q[i] = p[i]
  BY <1>1, <1>2, CutInTwo DEF Bytes
<1>4. PICK s \in stops : IsPrefix(p, s)
  <2>1. p # <<>>
    BY <1>1, EmptySeq
  <2> QED BY <2>1 DEF Partial
<1> HIDE DEF q
<1>5. EndsAt(q, text, n)
  <2>1. k <= n
    BY <1>1
  <2>2. ASSUME NEW i \in 1..k PROVE q[i] = text[n - k + i]
    <3>1. i \in 1..l /\ n + m - l + i = n - k + i
      BY <1>1, <1>2
    <3> QED BY <1>1, <1>3, <3>1
  <2> QED BY <1>3, <2>1, <2>2 DEF EndsAt
<1>6. IsPrefix(q, s)
  <2>1. s \in Bytes /\ Len(s) \in Nat
    BY LenProperties DEF Bytes
  <2>2. l <= Len(s) /\ \A i \in 1..l : p[i] = s[i]
    BY <1>1, <1>4, <2>1, IsPrefixIs
  <2>3. k <= Len(s) /\ \A i \in 1..k : q[i] = s[i]
    <3>1. \A i \in 1..k : i \in 1..l
      BY <1>1
    <3> QED BY <1>1, <1>3, <2>1, <2>2, <3>1
  <2> QED BY <1>3, <2>1, <2>3, IsPrefixIs
<1>7. q \in Partial(text, n)
  BY <1>3, <1>4, <1>5, <1>6 DEF Partial
<1> QED BY <1>3, <1>7

(* The bytes sure to end between two characters are some of them.           *)
LEMMA ValidUtf8LenIs ==
  ASSUME NEW data \in Bytes
  PROVE  ValidUtf8Len(data) \in 0..Len(data)
<1>1. Len(data) \in Nat
  BY LenProperties DEF Bytes
<1>2. CASE data = <<>>
  BY <1>1, <1>2 DEF ValidUtf8Len
<1>3. CASE data # <<>>
  <2> DEFINE T == {1} \cup {i \in 1..Len(data) : CharLen(data[i]) # 0}
             i == LastStart(data)
             e == ExpectedLen(data[i])
  <2>1. Len(data) \in Nat \ {0}
    BY <1>3, EmptySeq DEF Bytes
  <2>2. T \in SUBSET (0..Len(data)) /\ T # {} /\ T \subseteq 1..Len(data)
    BY <2>1
  <2>3. i = Max(T)
    BY DEF LastStart
  <2>4. i \in 1..Len(data)
    <3> HIDE DEF T, i
    <3>1. Max(T) \in T
      BY <2>1, <2>2, MaxIsGreatest
    <3> QED BY <2>2, <2>3, <3>1
  <2> HIDE DEF i, T
  <2>5. e \in Nat
    <3>1. data[i] \in Byte
      BY <2>4, ElementOfSeq DEF Bytes
    <3>2. CharLen(data[i]) \in Nat
      BY <3>1, StopAssumption
    <3> DEFINE c == CharLen(data[i])
               U == {1, c}
    <3>3. c \in Nat /\ U \in SUBSET (0..(c + 1)) /\ U # {} /\ c + 1 \in Nat
      BY <3>2
    <3>4. e = Max(U)
      BY DEF ExpectedLen
    <3> HIDE DEF U, c, e
    <3> DEFINE N == c + 1
    <3>5. N \in Nat /\ U \in SUBSET (0..N)
      BY <3>3
    <3> HIDE DEF N
    <3>6. U \subseteq Nat
      BY <3>3 DEF U
    <3>7. Max(U) \in U
      BY <3>3, <3>5, MaxIsGreatest
    <3> QED BY <3>4, <3>6, <3>7
  <2>6. ValidUtf8Len(data) = IF i - 1 + e <= Len(data) THEN i - 1 + e ELSE i - 1
    BY <1>3 DEF ValidUtf8Len, i
  <2> HIDE DEF e
  <2> QED BY <2>1, <2>4, <2>5, <2>6
<1> QED BY <1>2, <1>3
(* How far a state's partial matches go back.                               *)
LEMMA LookaheadIs ==
  ASSUME NEW st \in SUBSET Bytes, <<>> \in st, NEW N \in Nat, \A p \in st : Len(p) <= N
  PROVE  /\ PossibleLookaheadLen(st) \in 0..N
         /\ \A p \in st : Len(p) <= PossibleLookaheadLen(st)
<1> DEFINE T == {Len(p) : p \in st}
<1>1. T \in SUBSET (0..N) /\ T # {}
  <2>1. \A p \in st : Len(p) \in 0..N
    <3>1. \A p \in st : p \in Seq(Byte)
      BY DEF Bytes
    <3> QED BY <3>1, LenProperties
  <2> QED BY <2>1, Zenon
<1>2. \A p \in st : Len(p) \in T
  OBVIOUS
<1> HIDE DEF T
<1>3. Max(T) \in T /\ \A m \in T : m <= Max(T)
  BY <1>1, MaxIsGreatest
<1>4. PossibleLookaheadLen(st) = Max(T)
  BY DEF PossibleLookaheadLen, T
<1> QED BY <1>1, <1>2, <1>3, <1>4

-----------------------------------------------------------------------------
(* The inductive invariant.                                                *)

StopTypes ==
  /\ stops \in StopSets
  /\ is_stopped \in BOOLEAN
  /\ pending_bytes \in Bytes
  /\ tokens \in Seq(Tokens)
  /\ emitted \in Seq(Bytes)

(* Until it stops or panics: no match ended, the automaton knows every      *)
(* partial match at the end of the text, and their bytes are held back.     *)
Running ==
  /\ MatchEnds = {}
  /\ state = Partial(Segment, Len(Segment))
  /\ Shown \o pending_bytes = TextShownBy(tokens)
  /\ ~EndedByToken
  /\ \A p \in state : Len(p) <= Len(pending_bytes)

(* No byte is lost if no call panicked.                                     *)
NothingDropped ==
  ~poisoned /\ MatchEnds = {} =>
    /\ Shown \o pending_bytes = TextShownBy(tokens)
    /\ is_stopped = EndedByToken
    /\ is_stopped => pending_bytes = <<>>

StopInv ==
  /\ StopTypes
  /\ TextShownBy(tokens) = Before \o Segment
  /\ ~is_stopped /\ ~poisoned => Running
  /\ is_stopped => NothingDropped /\ StopsBeforeFirstMatch

(* The stop sequences are bytes, and none is empty.                         *)
LEMMA StopsTyped ==
  ASSUME StopTypes
  PROVE  stops \subseteq Bytes /\ <<>> \notin stops
BY StopAssumption DEF StopTypes, Bytes

(* The matches, by where they end.                                          *)
LEMMA MatchEndsAre ==
  ASSUME NEW st \in SUBSET Bytes, NEW text \in Bytes
  PROVE  {k \in 1..Len(text) : \E s \in st : IsSuffix(s, Take(text, k))}
           = {k \in 1..Len(text) : \E s \in st : EndsAt(s, text, k)}
<1>1. Len(text) \in Nat
  BY LenProperties DEF Bytes
<1>2. \A k \in 1..Len(text) : k \in 0..Len(text)
  BY <1>1
<1>3. \A k \in 1..Len(text) : \A s \in st : IsSuffix(s, Take(text, k)) <=> EndsAt(s, text, k)
  BY <1>2, IsSuffixIs
<1> QED BY <1>3

(* In the words of the invariant, what a committed token changes.           *)
LEMMA CommitFacts ==
  ASSUME StopTypes, TextShownBy(tokens) = Before \o Segment,
         NEW t \in Tokens, tokens' = Append(tokens, t), UNCHANGED stops
  PROVE  /\ Before \in Bytes /\ Segment \in Bytes /\ TextShownBy(tokens) \in Bytes
         /\ tokens' \in Seq(Tokens) /\ tokens' # <<>> /\ Last(tokens') = t
         /\ Front(tokens') = tokens
         /\ TextShownBy(tokens') = TextShownBy(tokens) \o Piece(t)
         /\ t \in Resets => Segment' = <<>> /\ MatchEnds' = {}
         /\ t \notin Resets =>
              /\ Before' = Before /\ Segment' = Segment \o Piece(t)
              /\ LastReset' = LastReset
              /\ MatchEnds' = {k \in 1..Len(Segment') : \E s \in stops : EndsAt(s, Segment', k)}
         /\ TextShownBy(tokens') = Before' \o Segment'
<1> DEFINE us == Append(tokens, t)
<1>1. tokens \in Seq(Tokens) /\ stops \subseteq Bytes
  BY StopsTyped DEF StopTypes
<1>2. /\ Before = BeforeOf(tokens) /\ Segment = SegmentOf(tokens)
      /\ Before' = BeforeOf(us) /\ Segment' = SegmentOf(us)
      /\ LastReset = ResetOf(tokens) /\ LastReset' = ResetOf(us)
  BY DEF Before, Segment, LastReset, BeforeOf, SegmentOf, ResetOf
<1>3. /\ us \in Seq(Tokens) /\ us # <<>> /\ Len(us) = Len(tokens) + 1
      /\ \A i \in 1..Len(tokens) : us[i] = tokens[i]
      /\ us[Len(tokens) + 1] = t /\ Len(tokens) \in Nat
  BY <1>1, AppendProperties, LenProperties
<1>4. Front(us) = tokens
  <2>1. Len(tokens) \in 0..Len(tokens) /\ Len(us) - 1 = Len(tokens)
    BY <1>3
  <2>2. Take(us, Len(tokens)) = Take(tokens, Len(tokens))
    BY <1>1, <2>1, CutOfAppend
  <2>3. Take(tokens, Len(tokens)) = tokens
    BY <1>1, SubSeqFull DEF Take
  <2> HIDE DEF us
  <2> QED BY <2>1, <2>2, <2>3 DEF Front, Take
<1>5. Last(us) = t
  <2> HIDE DEF us
  <2> QED BY <1>3 DEF Last
<1>6. /\ BeforeOf(tokens) \in Bytes /\ SegmentOf(tokens) \in Bytes
      /\ t \in Resets => BeforeOf(us) = TextShownBy(us) /\ SegmentOf(us) = <<>>
      /\ t \notin Resets => /\ BeforeOf(us) = BeforeOf(tokens)
                            /\ SegmentOf(us) = SegmentOf(tokens) \o Piece(t)
  BY <1>1, CommitText
<1>7. /\ TextShownBy(tokens) \in Bytes /\ Piece(t) \in Bytes
      /\ TextShownBy(us) = TextShownBy(tokens) \o Piece(t)
  BY <1>1, TextOfAppend, PieceTyped
<1>8. t \notin Resets => ResetOf(us) = ResetOf(tokens)
  BY <1>1, ResetOfAppend
<1>9. Segment' \in Bytes
  <2>1. <<>> \in Bytes /\ SegmentOf(tokens) \o Piece(t) \in Bytes
    BY <1>6, <1>7, EmptySeq, ConcatProperties DEF Bytes
  <2> QED BY <1>2, <1>6, <2>1
<1>10. MatchEnds' = {k \in 1..Len(Segment') : \E s \in stops : EndsAt(s, Segment', k)}
  <2> DEFINE seg == Segment'
  <2>1. seg \in Bytes
    BY <1>9
  <2>2. MatchEnds' = {k \in 1..Len(seg) : \E s \in stops : IsSuffix(s, Take(seg, k))}
    BY DEF MatchEnds
  <2> HIDE DEF seg
  <2>3. MatchEnds' = {k \in 1..Len(seg) : \E s \in stops : EndsAt(s, seg, k)}
    BY <1>1, <2>1, <2>2, MatchEndsAre
  <2> QED BY <2>3 DEF seg
<1>11. t \in Resets => MatchEnds' = {}
  <2>1. t \in Resets => Segment' = <<>>
    BY <1>2, <1>6
  <2>2. Len(<<>>) = 0
    BY EmptySeq
  <2> QED BY <1>10, <2>1, <2>2
<1>12. TextShownBy(us) = Before' \o Segment'
  <2>1. CASE t \in Resets
    <3>1. TextShownBy(us) \in Bytes
      BY <1>7, ConcatProperties DEF Bytes
    <3>2. TextShownBy(us) \o <<>> = TextShownBy(us)
      BY <3>1, ConcatEmptySeq DEF Bytes
    <3> QED BY <1>2, <1>6, <2>1, <3>2
  <2>2. CASE t \notin Resets
    <3>1. (Before \o Segment) \o Piece(t) = Before \o (Segment \o Piece(t))
      <4>1. Before \in Seq(Byte) /\ Segment \in Seq(Byte) /\ Piece(t) \in Seq(Byte)
        BY <1>2, <1>6, <1>7 DEF Bytes
      <4>2. \A a, b, c \in Seq(Byte) : (a \o b) \o c = a \o (b \o c)
        BY ConcatAssociative
      <4> QED BY <4>1, <4>2, Zenon
    <3> QED BY <1>2, <1>6, <1>7, <2>2, <3>1
  <2> QED BY <2>1, <2>2
<1> HIDE DEF us
<1>13. tokens' = us
  BY DEF us
<1> QED BY <1>2, <1>3, <1>4, <1>5, <1>6, <1>7, <1>8, <1>10, <1>11, <1>12, <1>13

(* A call shows its piece after the others.                                 *)
LEMMA ShownNext ==
  ASSUME StopTypes, NEW bytes \in Bytes, Show(bytes)
  PROVE  /\ Shown \in Bytes /\ Shown' = Shown \o bytes
         /\ emitted' \in Seq(Bytes)
<1>1. emitted \in Seq(Bytes) /\ emitted' = Append(emitted, bytes)
  BY DEF StopTypes, Show
<1>2. FlattenSeq(emitted) \in Bytes /\ FlattenSeq(Append(emitted, bytes)) = FlattenSeq(emitted) \o bytes
  BY <1>1, FlattenAppend
<1>3. emitted' \in Seq(Bytes)
  BY <1>1, AppendProperties
<1> QED BY <1>1, <1>2, <1>3 DEF Shown
(* Joining bytes.                                                           *)
LEMMA Joining ==
  /\ <<>> \in Bytes /\ Len(<<>>) = 0
  /\ \A a, b \in Bytes : a \o b \in Bytes /\ Len(a \o b) = Len(a) + Len(b)
  /\ \A a \in Bytes : a \o <<>> = a /\ <<>> \o a = a /\ Len(a) \in Nat
  /\ \A a, b, c \in Bytes : (a \o b) \o c = a \o (b \o c)
<1>1. <<>> \in Bytes /\ Len(<<>>) = 0
  BY EmptySeq DEF Bytes
<1>2. \A a, b \in Bytes : a \o b \in Bytes /\ Len(a \o b) = Len(a) + Len(b)
  BY ConcatProperties DEF Bytes
<1>3. \A a \in Bytes : a \o <<>> = a /\ <<>> \o a = a /\ Len(a) \in Nat
  BY ConcatEmptySeq, LenProperties DEF Bytes
<1>4. \A a, b, c \in Bytes : (a \o b) \o c = a \o (b \o c)
  BY ConcatAssociative DEF Bytes
<1> QED BY <1>1, <1>2, <1>3, <1>4

(* Where no match ended, one that stops did so at a stop token, with all    *)
(* that was held back.                                                      *)
LEMMA StopAtTokenStep ==
  ASSUME StopInv, ~is_stopped, ~poisoned, NEW t \in Tokens, StopAtToken(t),
         tokens' = Append(tokens, t), UNCHANGED stops
  PROVE  StopInv'
<1>1. /\ StopTypes /\ TextShownBy(tokens) = Before \o Segment /\ MatchEnds = {}
      /\ Shown \o pending_bytes = TextShownBy(tokens)
  BY DEF StopInv, Running
<1>2. /\ is_stopped' = TRUE /\ pending_bytes' = <<>> /\ t \in StopTokens
      /\ Show(pending_bytes) /\ pending_bytes \in Bytes /\ stops' \in StopSets
  BY <1>1 DEF StopAtToken, StopTypes
<1>3. Shown \in Bytes /\ Shown' = Shown \o pending_bytes /\ emitted' \in Seq(Bytes)
  BY <1>1, <1>2, ShownNext
<1>4. /\ Segment \in Bytes /\ TextShownBy(tokens) \in Bytes
      /\ tokens' \in Seq(Tokens) /\ tokens' # <<>> /\ Last(tokens') = t
      /\ TextShownBy(tokens') = TextShownBy(tokens) \o Piece(t)
      /\ t \in Resets => MatchEnds' = {}
      /\ t \notin Resets => Segment' = Segment \o Piece(t)
      /\ TextShownBy(tokens') = Before' \o Segment'
  BY <1>1, CommitFacts
<1>5. Piece(t) = <<>>
  BY <1>2 DEF Piece
<1>6. TextShownBy(tokens') = TextShownBy(tokens)
  BY <1>4, <1>5, Joining
<1>7. MatchEnds' = {}
  <2>1. ASSUME t \notin Resets PROVE MatchEnds' = {}
    <3>1. Segment' = Segment
      BY <1>4, <1>5, <2>1, Joining
    <3> QED BY <1>1, <3>1 DEF MatchEnds
  <2> QED BY <1>4, <2>1
<1>8. Shown' \o pending_bytes' = TextShownBy(tokens')
  <2>1. TextShownBy(tokens) \o <<>> = TextShownBy(tokens)
    BY <1>4, Joining
  <2> QED BY <1>1, <1>2, <1>3, <1>6, <2>1
<1>9. EndedByToken' = TRUE
  BY <1>2, <1>4 DEF EndedByToken
<1>10. NothingDropped'
  BY <1>2, <1>8, <1>9 DEF NothingDropped
<1>11. StopsBeforeFirstMatch'
  BY <1>7 DEF StopsBeforeFirstMatch
<1>12. StopTypes'
  BY <1>2, <1>3, <1>4, Joining DEF StopTypes
<1> QED BY <1>2, <1>4, <1>10, <1>11, <1>12 DEF StopInv

(* A special token shows what was held back and starts the automaton anew.  *)
LEMMA ShowSpecialStep ==
  ASSUME StopInv, ~is_stopped, ~poisoned, NEW t \in Tokens, ShowSpecial(t),
         tokens' = Append(tokens, t), UNCHANGED stops
  PROVE  StopInv'
<1>1. /\ StopTypes /\ TextShownBy(tokens) = Before \o Segment
      /\ Shown \o pending_bytes = TextShownBy(tokens)
  BY DEF StopInv, Running
<1>2. /\ is_stopped' = FALSE /\ pending_bytes' = <<>> /\ state' = {<<>>}
      /\ t \in Resets /\ t \notin StopTokens
      /\ Show(pending_bytes \o TextOf[t]) /\ pending_bytes \in Bytes /\ stops' \in StopSets
  BY <1>1 DEF ShowSpecial, StopTypes, InitialState
<1>3. TextOf[t] \in Bytes /\ Piece(t) = TextOf[t]
  BY <1>2, PieceTyped DEF Piece
<1>4. pending_bytes \o TextOf[t] \in Bytes
  BY <1>2, <1>3, Joining
<1>5. /\ Shown \in Bytes /\ Shown' = Shown \o (pending_bytes \o TextOf[t])
      /\ emitted' \in Seq(Bytes)
  BY <1>1, <1>2, <1>4, ShownNext
<1>6. /\ TextShownBy(tokens) \in Bytes
      /\ tokens' \in Seq(Tokens) /\ tokens' # <<>> /\ Last(tokens') = t
      /\ TextShownBy(tokens') = TextShownBy(tokens) \o Piece(t)
      /\ Segment' = <<>> /\ MatchEnds' = {}
      /\ TextShownBy(tokens') = Before' \o Segment'
  BY <1>1, <1>2, CommitFacts
<1>7. Shown' \o pending_bytes' = TextShownBy(tokens')
  <2>1. Shown' \o <<>> = Shown'
    BY <1>4, <1>5, Joining
  <2>2. Shown' = (Shown \o pending_bytes) \o TextOf[t]
    BY <1>2, <1>3, <1>5, Joining
  <2> QED BY <1>1, <1>2, <1>3, <1>6, <2>1, <2>2
<1>8. state' = Partial(Segment, Len(Segment))'
  <2>1. ASSUME NEW p \in Bytes, Len(p) <= 0 PROVE p = <<>>
    BY <2>1, EmptySeq DEF Bytes
  <2>2. EndsAt(<<>>, <<>>, 0)
    BY Joining DEF EndsAt
  <2> QED BY <1>2, <1>6, <2>1, <2>2, Joining DEF Partial, EndsAt
<1>9. \A p \in state' : Len(p) <= Len(pending_bytes')
  BY <1>2, Joining
<1>10. ~EndedByToken'
  BY <1>2, <1>6 DEF EndedByToken
<1>11. Running'
  BY <1>6, <1>7, <1>8, <1>9, <1>10 DEF Running
<1>12. StopTypes'
  BY <1>2, <1>5, <1>6, Joining DEF StopTypes
<1> QED BY <1>2, <1>6, <1>11, <1>12 DEF StopInv
(* What committing a token that matches extend over is about: the bytes of  *)
(* the token follow the segment, the matches found in it are the first to   *)
(* end, and the partial matches go back over bytes held back only.          *)
LEMMA OrdinaryToken ==
  ASSUME StopInv, ~is_stopped, ~poisoned, NEW t \in Tokens, t \notin StopTokens \cup Resets,
         tokens' = Append(tokens, t), UNCHANGED stops
  PROVE  LET s == TextOf[t]
             n == Len(Segment)
             m == Len(s)
             text == Segment' IN
         /\ s \in Bytes /\ m \in Nat /\ n \in Nat /\ text \in Bytes /\ Len(text) = n + m
         /\ text = Segment \o s /\ Before' = Before
         /\ \A k \in Int : k \in MatchEnds' <=> k - n \in Matches(state, s)
         /\ Matches(state, s) \subseteq 1..m
         /\ \A i \in 0..m : /\ StateAfter(state, Take(s, i)) = Partial(text, n + i)
                            /\ \A p \in Partial(text, n + i) : Len(p) <= Len(pending_bytes) + i
                            /\ Shown \o (pending_bytes \o Take(s, i)) = Before \o Take(text, n + i)
<1> DEFINE s == TextOf[t]
           n == Len(Segment)
           m == Len(s)
           text == Segment'
           L == Len(pending_bytes)
<1>1. /\ StopTypes /\ TextShownBy(tokens) = Before \o Segment /\ MatchEnds = {}
      /\ state = Partial(Segment, n)
      /\ Shown \o pending_bytes = TextShownBy(tokens)
      /\ \A p \in state : Len(p) <= L
      /\ stops \subseteq Bytes /\ pending_bytes \in Bytes /\ emitted \in Seq(Bytes)
  BY StopsTyped DEF StopInv, Running, StopTypes
<1>2. /\ Segment \in Bytes /\ Before \in Bytes
      /\ Before' = Before /\ text = Segment \o Piece(t)
      /\ MatchEnds' = {k \in 1..Len(text) : \E p \in stops : EndsAt(p, text, k)}
  BY <1>1, CommitFacts
<1>3. s \in Bytes /\ Piece(t) = s
  BY PieceTyped DEF Piece
<1>4. /\ n \in Nat /\ m \in Nat /\ L \in Nat /\ text \in Bytes /\ Len(text) = n + m
      /\ text = Segment \o s
  BY <1>1, <1>2, <1>3, Joining
<1>5. Matches(state, s) = {i \in 1..m : \E p \in stops : EndsAt(p, text, n + i)}
  <2>1. Matches(Partial(Segment, n), s)
          = {i \in 1..m : \E p \in stops : EndsAt(p, Segment \o s, n + i)}
    BY <1>1, <1>2, <1>3, MatchesInToken
  <2> QED BY <1>1, <1>4, <2>1
<1>6. MatchEnds = {k \in 1..n : \E p \in stops : EndsAt(p, Segment, k)}
  <2>1. {k \in 1..Len(Segment) : \E p \in stops : IsSuffix(p, Take(Segment, k))}
          = {k \in 1..Len(Segment) : \E p \in stops : EndsAt(p, Segment, k)}
    BY <1>1, <1>2, MatchEndsAre
  <2> QED BY <2>1 DEF MatchEnds
<1>7. \A k \in 1..n : text[k] = Segment[k]
  BY <1>2, <1>3, <1>4, ConcatProperties DEF Bytes
<1> HIDE DEF s, n, m, text, L
<1>8. ASSUME NEW k \in 1..n PROVE k \notin MatchEnds'
  <2>1. k \in Nat /\ \A i \in 1..k : text[i] = Segment[i]
    BY <1>4, <1>7
  <2>2. \A p \in stops : EndsAt(p, text, k) <=> EndsAt(p, Segment, k)
    BY <1>1, <2>1, EndsAtLocal
  <2> QED BY <1>1, <1>2, <1>6, <2>2
<1>9. ASSUME NEW k \in Int PROVE k \in MatchEnds' <=> k - n \in Matches(state, s)
  <2> DEFINE i == k - n
  <2>1. n + i = k /\ (k \in 1..(n + m) <=> k \in 1..n \/ i \in 1..m) /\ (i \in 1..m => k \notin 1..n)
    BY <1>4
  <2> HIDE DEF i
  <2>2. i \in Matches(state, s) <=> i \in 1..m /\ \E p \in stops : EndsAt(p, text, k)
    BY <1>5, <2>1
  <2>3. k \in MatchEnds' <=> i \in 1..m /\ \E p \in stops : EndsAt(p, text, k)
    BY <1>2, <1>4, <1>8, <2>1
  <2> QED BY <2>2, <2>3 DEF i
<1>10. ASSUME NEW i \in 0..m
       PROVE  /\ StateAfter(state, Take(s, i)) = Partial(text, n + i)
              /\ \A p \in Partial(text, n + i) : Len(p) <= L + i
              /\ Shown \o (pending_bytes \o Take(s, i)) = Before \o Take(text, n + i)
  <2>1. StateAfter(state, Take(s, i)) = Partial(text, n + i)
    BY <1>1, <1>2, <1>3, <1>4, AfterToken DEF n, m
  <2>2. \A p \in Partial(text, n + i) : Len(p) <= L + i
    <3>1. Partial(text, n) = state
      BY <1>1, <1>4, <1>7, PartialLocal
    <3>2. i \in Nat
      BY <1>4
    <3> QED BY <1>1, <1>4, <3>1, <3>2, PartialBefore
  <2>3. Take(text, n + i) = Segment \o Take(s, i) /\ Take(s, i) \in Bytes
    <3>1. Take(Segment \o s, Len(Segment) + i) = Segment \o Take(s, i)
      BY <1>2, <1>3, TakeOfConcat DEF Bytes, m
    <3>2. Take(s, i) \in Bytes
      BY <1>3, CutInTwo DEF Bytes, m
    <3> QED BY <1>4, <3>1, <3>2 DEF n
  <2>4. Shown \in Bytes
    BY <1>1, FlattenAppend DEF Shown
  <2> DEFINE u == Take(s, i)
  <2> HIDE DEF u
  <2>5. u \in Bytes /\ Take(text, n + i) = Segment \o u
    BY <2>3 DEF u
  <2>6. Shown \o (pending_bytes \o u) = (Shown \o pending_bytes) \o u
    BY <1>1, <2>4, <2>5, Joining
  <2>7. Before \o (Segment \o u) = (Before \o Segment) \o u
    BY <1>2, <2>5, Joining
  <2>8. Shown \o (pending_bytes \o u) = Before \o Take(text, n + i)
    BY <1>1, <2>5, <2>6, <2>7
  <2> QED BY <2>1, <2>2, <2>8 DEF u
<1>11. Matches(state, s) \subseteq 1..m
  BY <1>5
<1> QED BY <1>2, <1>3, <1>4, <1>9, <1>10, <1>11 DEF s, n, m, text, L

(* Without a match in the token, no more is shown than what no partial      *)
(* match extends over.                                                      *)
LEMMA HoldBackStep ==
  ASSUME StopInv, ~is_stopped, ~poisoned, NEW t \in Tokens, HoldBack(t),
         tokens' = Append(tokens, t), UNCHANGED stops
  PROVE  StopInv'
<1> DEFINE s == TextOf[t]
           n == Len(Segment)
           m == Len(s)
           text == Segment'
           L == Len(pending_bytes)
           buf == pending_bytes \o s
           ahead == PossibleLookaheadLen(state')
           to_return == Saturated(Len(buf) - ahead)
           valid == ValidUtf8Len(Take(buf, to_return))
<1>1. /\ t \notin StopTokens \cup Resets /\ Matches(state, s) = {}
      /\ state' = StateAfter(state, s) /\ is_stopped' = FALSE
      /\ Show(Take(buf, valid)) /\ pending_bytes' = Drop(buf, valid)
  BY DEF HoldBack, StopInv, StopTypes
<1>2. /\ s \in Bytes /\ m \in Nat /\ n \in Nat /\ text \in Bytes /\ Len(text) = n + m
      /\ text = Segment \o s /\ Before' = Before
      /\ \A k \in Int : k \in MatchEnds' <=> k - n \in Matches(state, s)
      /\ \A i \in 0..m :
           /\ StateAfter(state, Take(s, i)) = Partial(text, n + i)
           /\ \A p \in Partial(text, n + i) : Len(p) <= Len(pending_bytes) + i
           /\ Shown \o (pending_bytes \o Take(s, i)) = Before \o Take(text, n + i)
  BY <1>1, OrdinaryToken
<1>3. /\ StopTypes /\ pending_bytes \in Bytes /\ emitted \in Seq(Bytes)
      /\ stops \in StopSets
      /\ TextShownBy(tokens) = Before \o Segment /\ Shown \in Bytes
  <2>1. StopTypes /\ TextShownBy(tokens) = Before \o Segment
    BY DEF StopInv
  <2> QED BY <2>1, FlattenAppend DEF StopTypes, Shown
<1>4. /\ tokens' \in Seq(Tokens) /\ tokens' # <<>> /\ Last(tokens') = t
      /\ TextShownBy(tokens') = Before' \o Segment'
  BY <1>3, CommitFacts
<1>5. /\ L \in Nat /\ buf \in Bytes /\ Len(buf) = L + m /\ m \in 0..m
      /\ Take(s, m) = s /\ Take(text, n + m) = text
  <2>1. Take(s, Len(s)) = s /\ Take(text, Len(text)) = text
    BY <1>2, SubSeqFull DEF Take, Bytes
  <2>2. m \in 0..m
    BY <1>2
  <2>3. L \in Nat /\ buf \in Bytes /\ Len(buf) = L + m
    BY <1>2, <1>3, Joining
  <2> QED BY <1>2, <2>1, <2>2, <2>3
<1> HIDE DEF s, n, m, text, L, buf, valid, to_return, ahead
<1>6. /\ state' = Partial(text, n + m) /\ \A p \in state' : Len(p) <= L + m
      /\ Shown \o buf = Before \o text
  BY <1>1, <1>2, <1>5 DEF L, buf
<1>7. MatchEnds' = {}
  <2>1. \A k \in MatchEnds' : k \in Int
    BY DEF MatchEnds
  <2> QED BY <1>1, <1>2, <2>1
<1>8. ahead \in 0..(L + m) /\ \A p \in state' : Len(p) <= ahead
  <2>1. state' \in SUBSET Bytes
    BY <1>6 DEF Partial
  <2>2. <<>> \in state'
    <3>1. n + m \in Nat
      BY <1>2
    <3>2. EndsAt(<<>>, text, n + m)
      BY <3>1, Joining DEF EndsAt
    <3> QED BY <1>6, <3>2, Joining DEF Partial
  <2>3. L + m \in Nat
    BY <1>2, <1>5
  <2> QED BY <1>6, <2>1, <2>2, <2>3, LookaheadIs DEF ahead
<1>9. to_return = Len(buf) - ahead /\ to_return \in 0..Len(buf)
  <2> DEFINE d == Len(buf) - ahead
  <2>1. d \in Nat /\ d \in 0..Len(buf)
    BY <1>2, <1>5, <1>8
  <2>2. Saturated(d) = d
    <3> HIDE DEF d
    <3>1. Saturated(d) = IF d <= 0 THEN 0 ELSE d
      BY <2>1, SaturatedIs
    <3> QED BY <2>1, <3>1
  <2> QED BY <2>1, <2>2 DEF to_return
<1>10. valid \in 0..to_return
  <2> DEFINE data == Take(buf, to_return)
  <2>1. data \in Bytes /\ Len(data) = to_return
    BY <1>5, <1>9, CutInTwo DEF Bytes
  <2> HIDE DEF data
  <2>2. ValidUtf8Len(data) \in 0..Len(data)
    BY <2>1, ValidUtf8LenIs
  <2> QED BY <2>1, <2>2 DEF valid, data
<1>11. /\ Take(buf, valid) \in Bytes /\ pending_bytes' \in Bytes
       /\ Len(pending_bytes') = Len(buf) - valid
       /\ Take(buf, valid) \o pending_bytes' = buf
  <2>1. valid \in 0..Len(buf)
    BY <1>2, <1>5, <1>9, <1>10
  <2> QED BY <1>1, <1>5, <2>1, CutInTwo DEF Bytes
<1>12. Shown' = Shown \o Take(buf, valid) /\ emitted' \in Seq(Bytes)
  BY <1>1, <1>3, <1>11, ShownNext
<1>13. Shown' \o pending_bytes' = TextShownBy(tokens')
  <2>1. Shown' \o pending_bytes' = Shown \o (Take(buf, valid) \o pending_bytes')
    BY <1>3, <1>11, <1>12, Joining
  <2> QED BY <1>2, <1>4, <1>6, <1>11, <2>1 DEF text
<1>14. \A p \in state' : Len(p) <= Len(pending_bytes')
  <2>1. ahead <= Len(pending_bytes') /\ ahead \in Nat /\ Len(pending_bytes') \in Nat
    BY <1>2, <1>5, <1>8, <1>9, <1>10, <1>11
  <2>2. \A p \in state' : Len(p) \in Nat
    <3>1. \A p \in state' : p \in Bytes
      BY <1>6 DEF Partial
    <3> QED BY <3>1, Joining
  <2> QED BY <1>8, <2>1, <2>2
<1>15. state' = Partial(Segment, Len(Segment))'
  BY <1>2, <1>6 DEF Partial, text
<1>16. ~EndedByToken'
  BY <1>1, <1>4 DEF EndedByToken
<1>17. Running'
  BY <1>7, <1>13, <1>14, <1>15, <1>16 DEF Running
<1>18. StopTypes'
  BY <1>1, <1>3, <1>4, <1>11, <1>12 DEF StopTypes
<1> QED BY <1>1, <1>4, <1>17, <1>18 DEF StopInv
(* The end of a text is the end of what it was joined from.                 *)
LEMMA WithoutEnd ==
  ASSUME NEW a \in Bytes, NEW b \in Bytes, NEW l \in Nat, l <= Len(b)
  PROVE  Take(a \o b, Len(a \o b) - l) = a \o Take(b, Len(b) - l)
<1> DEFINE A == Len(a)
           B == Len(b)
           w == a \o b
<1>1. A \in Nat /\ B \in Nat /\ Len(w) = A + B
  BY Joining
<1>2. Take(a \o b, A + (B - l)) = a \o Take(b, B - l)
  <2>1. B - l \in 0..B
    BY <1>1
  <2> QED BY <2>1, TakeOfConcat DEF Bytes
<1> HIDE DEF A, B
<1> HIDE DEF w
<1>3. A + (B - l) = Len(w) - l
  BY <1>1
<1> QED BY <1>2, <1>3 DEF B, w

(* At the first match it stops, having shown what comes before it.          *)
LEMMA StopAtMatchStep ==
  ASSUME StopInv, ~is_stopped, ~poisoned, NEW t \in Tokens, StopAtMatch(t),
         tokens' = Append(tokens, t), UNCHANGED stops
  PROVE  StopInv'
<1> DEFINE s == TextOf[t]
           n == Len(Segment)
           m == Len(s)
           text == Segment'
           L == Len(pending_bytes)
           M == Matches(state, s)
           i == Min(M)
           u == Take(s, i)
           buf == pending_bytes \o u
           k == n + i
<1>1. /\ t \notin StopTokens \cup Resets /\ M # {}
      /\ is_stopped' = TRUE /\ pending_bytes' = <<>>
  BY DEF StopAtMatch
<1>2. PICK p \in StateAfter(state, u) \cap stops :
             Show(Take(buf, Saturated(Len(buf) - Len(p))))
  <2>1. UpToMatch(t) = u
    BY <1>1 DEF UpToMatch
  <2> QED BY <2>1, Zenon DEF StopAtMatch
<1>3. /\ s \in Bytes /\ m \in Nat /\ n \in Nat /\ text \in Bytes /\ Len(text) = n + m
      /\ text = Segment \o s /\ Before' = Before
      /\ \A j \in Int : j \in MatchEnds' <=> j - n \in M
      /\ M \subseteq 1..m
      /\ \A j \in 0..m :
           /\ StateAfter(state, Take(s, j)) = Partial(text, n + j)
           /\ \A q \in Partial(text, n + j) : Len(q) <= Len(pending_bytes) + j
           /\ Shown \o (pending_bytes \o Take(s, j)) = Before \o Take(text, n + j)
  BY <1>1, OrdinaryToken
<1>4. /\ StopTypes /\ pending_bytes \in Bytes /\ emitted \in Seq(Bytes)
      /\ stops \in StopSets /\ stops \subseteq Bytes /\ stops' = stops
      /\ TextShownBy(tokens) = Before \o Segment /\ Shown \in Bytes
  <2>1. StopTypes /\ TextShownBy(tokens) = Before \o Segment
    BY DEF StopInv
  <2> QED BY <2>1, FlattenAppend, StopsTyped DEF StopTypes, Shown
<1>5. /\ tokens' \in Seq(Tokens) /\ Front(tokens') = tokens /\ LastReset' = LastReset
      /\ TextShownBy(tokens') = Before' \o Segment' /\ Before \in Bytes
  BY <1>1, <1>4, CommitFacts
<1> HIDE DEF s, n, m, text, L, M, i, u, buf, k
<1>6. i \in M /\ i \in 1..m /\ i \in 0..m /\ \A j \in M : i <= j
  <2>1. M \in SUBSET Nat
    BY <1>3
  <2>2. i \in M /\ \A j \in M : i <= j
    BY <1>1, <2>1, MinIsLeast DEF i
  <2> QED BY <1>3, <2>2
<1>7. k \in Nat /\ n < k /\ k <= n + m /\ k \in 0..Len(text)
  BY <1>3, <1>6 DEF k
<1>8. Min(MatchEnds') = k /\ MatchEnds' # {}
  <2> DEFINE E == MatchEnds'
  <2>1. k - n = i /\ k \in Int
    BY <1>3, <1>6, <1>7 DEF k
  <2>2. k \in E
    BY <1>3, <1>6, <2>1
  <2>3. E \in SUBSET Nat
    BY DEF MatchEnds
  <2>4. ASSUME NEW j \in E PROVE k <= j
    <3>1. j \in Int /\ j - n \in M
      BY <1>3, <2>3, <2>4
    <3> DEFINE e == j - n
    <3>2. e \in M /\ j = e + n
      BY <1>3, <3>1
    <3> HIDE DEF e
    <3>3. i <= e /\ e \in Nat /\ i \in Nat
      BY <1>3, <1>6, <3>2
    <3> QED BY <1>3, <3>2, <3>3 DEF k
  <2> HIDE DEF E
  <2>5. Min(E) \in E /\ \A j \in E : Min(E) <= j
    BY <2>2, <2>3, MinIsLeast
  <2>6. Min(E) <= k /\ k <= Min(E) /\ Min(E) \in Nat
    BY <2>2, <2>3, <2>4, <2>5
  <2> QED BY <1>7, <2>2, <2>6 DEF E
<1>9. /\ StateAfter(state, u) = Partial(text, k)
      /\ \A q \in Partial(text, k) : Len(q) <= L + i
      /\ Shown \o buf = Before \o Take(text, k)
  BY <1>3, <1>6 DEF u, k, buf, L
<1>10. /\ u \in Bytes /\ Len(u) = i /\ L \in Nat /\ buf \in Bytes /\ Len(buf) = L + i
  <2>1. u \in Bytes /\ Len(u) = i
    BY <1>3, <1>6, CutInTwo DEF u, Bytes, m
  <2>2. L \in Nat /\ buf \in Bytes /\ Len(buf) = L + i
    BY <1>4, <2>1, Joining DEF buf, L
  <2> QED BY <2>1, <2>2
<1>11. /\ p \in Bytes /\ p \in stops /\ EndsAt(p, text, k)
       /\ Len(p) \in Nat /\ Len(p) <= k /\ Len(p) <= Len(buf)
  <2>1. p \in Partial(text, k) /\ p \in stops
    BY <1>2, <1>9
  <2>2. p \in Bytes /\ EndsAt(p, text, k)
    BY <2>1 DEF Partial
  <2> QED BY <1>9, <1>10, <2>1, <2>2, Joining DEF EndsAt
<1> DEFINE l == Len(p)
           out == Take(buf, Len(buf) - l)
<1>12. Saturated(Len(buf) - l) = Len(buf) - l /\ Len(buf) - l \in 0..Len(buf)
  <2> DEFINE d == Len(buf) - l
  <2>1. Len(buf) \in Nat
    BY <1>3, <1>6, <1>10
  <2>2. d \in Nat /\ d \in 0..Len(buf)
    BY <1>11, <2>1
  <2> HIDE DEF d
  <2>3. Saturated(d) = IF d <= 0 THEN 0 ELSE d
    BY <2>2, SaturatedIs
  <2>4. Saturated(d) = d
    BY <2>2, <2>3
  <2> QED BY <2>2, <2>4 DEF d
<1>13. out \in Bytes /\ Show(out)
  <2>1. out \in Bytes
    BY <1>10, <1>12, CutInTwo DEF Bytes
  <2> QED BY <1>2, <1>12, <2>1
<1>14. Shown' = Shown \o out /\ emitted' \in Seq(Bytes)
  <2> HIDE DEF out
  <2> QED BY <1>4, <1>13, ShownNext
<1>15. Shown' = Before \o Take(text, k - l)
  <2> DEFINE c == Take(text, k)
  <2>1. c \in Bytes /\ Len(c) = k /\ \A j \in 1..k : c[j] = text[j]
    BY <1>3, <1>7, CutInTwo DEF Bytes
  <2> HIDE DEF c
  <2>2. Shown \o buf = Before \o c
    BY <1>9 DEF c
  <2>3. Shown \o Take(buf, Len(buf) - l) = Before \o Take(c, Len(c) - l)
    <3>1. /\ Shown \in Bytes /\ buf \in Bytes /\ Before \in Bytes /\ c \in Bytes
          /\ l \in Nat /\ l <= Len(buf) /\ l <= Len(c)
      BY <1>4, <1>5, <1>10, <1>11, <2>1
    <3> HIDE DEF l
    <3> DEFINE w == Shown \o buf
    <3>2. w = Before \o c
      BY <2>2
    <3> HIDE DEF l, out
    <3>3. \A a, b \in Bytes : \A x \in Nat :
            x <= Len(b) => Take(a \o b, Len(a \o b) - x) = a \o Take(b, Len(b) - x)
      BY WithoutEnd
    <3>4. Take(w, Len(w) - l) = Shown \o Take(buf, Len(buf) - l)
      BY <3>1, <3>3
    <3>5. Take(Before \o c, Len(Before \o c) - l) = Before \o Take(c, Len(c) - l)
      BY <3>1, <3>3
    <3> HIDE DEF w
    <3> QED BY <3>2, <3>4, <3>5
  <2>4. Take(c, k - l) = Take(text, k - l)
    <3> DEFINE j == k - l
               x == Take(c, j)
               y == Take(text, j)
    <3>1. j \in 0..k /\ j \in 0..Len(c) /\ j \in 0..Len(text)
      <4>1. l \in Nat /\ l <= k /\ Len(c) = k /\ k \in Nat /\ k <= Len(text) /\ Len(text) \in Nat
        BY <1>3, <1>7, <1>11, <2>1
      <4> HIDE DEF l
      <4> QED BY <4>1
    <3> HIDE DEF j
    <3>2. x \in Bytes /\ Len(x) = j /\ \A a \in 1..j : x[a] = c[a]
      BY <2>1, <3>1, CutInTwo DEF Bytes
    <3>3. y \in Bytes /\ Len(y) = j /\ \A a \in 1..j : y[a] = text[a]
      BY <1>3, <3>1, CutInTwo DEF Bytes
    <3>4. \A a \in 1..j : a \in 1..k
      BY <1>7, <3>1
    <3> HIDE DEF x, y
    <3>5. \A a \in 1..j : x[a] = y[a]
      BY <2>1, <3>2, <3>3, <3>4
    <3>6. x = y
      BY <3>2, <3>3, <3>5, SeqEqual DEF Bytes
    <3> QED BY <3>6 DEF x, y, j
  <2> QED BY <1>14, <2>1, <2>3, <2>4
<1>16. IsSuffix(p, Take(text, k))
  BY <1>3, <1>7, <1>11, IsSuffixIs
<1>17. Len(TextShownBy(Drop(Front(tokens'), LastReset'))) < k
  <2>1. TextShownBy(Drop(Front(tokens'), LastReset')) = Segment
    BY <1>5 DEF Segment
  <2> QED BY <1>7, <2>1 DEF n
<1>18. StopsBeforeFirstMatch'
  <2>1. \E q \in stops' : /\ IsSuffix(q, Take(Segment', k))
                          /\ Shown' = Before' \o Take(Segment', k - Len(q))
    BY <1>3, <1>4, <1>11, <1>15, <1>16 DEF text
  <2> QED BY <1>1, <1>8, <1>17, <2>1 DEF StopsBeforeFirstMatch
<1>19. NothingDropped'
  BY <1>8 DEF NothingDropped
<1>20. StopTypes'
  BY <1>1, <1>4, <1>5, <1>14, Joining DEF StopTypes
<1> QED BY <1>1, <1>5, <1>18, <1>19, <1>20 DEF StopInv

-----------------------------------------------------------------------------
(* The steps.                                                              *)

(* Before the first token nothing is held back and nothing was shown.       *)
LEMMA StopInit == Init => StopInv
<1> SUFFICES ASSUME Init PROVE StopInv
  OBVIOUS
<1>1. /\ stops \in StopSets /\ is_stopped = FALSE /\ state = {<<>>}
      /\ pending_bytes = <<>> /\ tokens = <<>> /\ emitted = <<>>
  BY DEF Init, InitialState
<1>2. <<>> \in Seq(Tokens) /\ <<>> \in Seq(Bytes) /\ <<>> \in Bytes /\ Len(<<>>) = 0
  BY EmptySeq DEF Bytes
<1>3. StopTypes
  BY <1>1, <1>2 DEF StopTypes
<1>4. LastReset = 0
  <2>1. LastReset = ResetOf(tokens)
    BY DEF LastReset, ResetOf
  <2>2. ResetOf(tokens) \in 0..0
    BY <1>1, <1>2, ResetIs
  <2> QED BY <2>1, <2>2
<1>5. Take(tokens, 0) = <<>> /\ Drop(tokens, 0) = <<>>
  <2>1. 0 \in 0..Len(tokens) /\ tokens \in Seq(Tokens) /\ Len(tokens) - 0 = 0
    BY <1>1, <1>2
  <2>2. /\ Take(tokens, 0) \in Seq(Tokens) /\ Len(Take(tokens, 0)) = 0
        /\ Drop(tokens, 0) \in Seq(Tokens) /\ Len(Drop(tokens, 0)) = 0
    BY <2>1, CutInTwo
  <2> QED BY <2>2, EmptySeq
<1>6. TextShownBy(tokens) = <<>> /\ Before = <<>> /\ Segment = <<>>
  BY <1>1, <1>4, <1>5, TextOfNone DEF Before, Segment
<1>7. TextShownBy(tokens) = Before \o Segment
  BY <1>2, <1>6, Joining
<1>8. MatchEnds = {}
  BY <1>2, <1>6 DEF MatchEnds
<1>9. state = Partial(Segment, Len(Segment))
  <2>1. ASSUME NEW p \in Bytes, Len(p) <= 0 PROVE p = <<>>
    BY <2>1, EmptySeq DEF Bytes
  <2>2. EndsAt(<<>>, <<>>, 0)
    BY Joining DEF EndsAt
  <2> QED BY <1>1, <1>6, <2>1, <2>2, Joining DEF Partial, EndsAt
<1>10. Shown \o pending_bytes = TextShownBy(tokens)
  BY <1>1, <1>2, <1>6, FlattenEmpty, Joining DEF Shown
<1>11. ~EndedByToken
  BY <1>1 DEF EndedByToken
<1>12. Running
  BY <1>1, <1>2, <1>8, <1>9, <1>10, <1>11 DEF Running
<1> QED BY <1>1, <1>3, <1>7, <1>12 DEF StopInv

(* After a panic the invariant says what the text is made of, no more.      *)
LEMMA PoisonedStep ==
  ASSUME StopInv, NEW t \in Tokens, CommitToken(t), poisoned'
  PROVE  StopInv'
<1>1. /\ StopTypes /\ TextShownBy(tokens) = Before \o Segment
      /\ tokens' = Append(tokens, t) /\ UNCHANGED stops
  BY DEF StopInv, CommitToken
<1>2. tokens' \in Seq(Tokens) /\ TextShownBy(tokens') = Before' \o Segment'
  BY <1>1, CommitFacts
<1>3. CASE StopAtToken(t)
  <2>1. Show(pending_bytes) /\ pending_bytes \in Bytes
    BY <1>1, <1>3 DEF StopAtToken, StopTypes
  <2>2. emitted' \in Seq(Bytes)
    BY <1>1, <2>1, ShownNext
  <2> QED BY <1>1, <1>2, <1>3, <2>2, Joining
       DEF StopAtToken, StopInv, StopTypes, NothingDropped, StopsBeforeFirstMatch
<1>4. CASE ShowSpecial(t)
  <2> DEFINE x == pending_bytes \o TextOf[t]
  <2>1. Show(x) /\ pending_bytes \in Bytes /\ t \notin StopTokens
    BY <1>1, <1>4 DEF ShowSpecial, StopTypes
  <2>2. TextOf[t] \in Bytes
    BY <2>1, PieceTyped DEF Piece
  <2>3. x \in Bytes
    BY <2>1, <2>2, Joining
  <2> HIDE DEF x
  <2>4. emitted' \in Seq(Bytes)
    BY <1>1, <2>1, <2>3, ShownNext
  <2> QED BY <1>1, <1>2, <1>4, <2>4, Joining
       DEF ShowSpecial, StopInv, StopTypes, NothingDropped, StopsBeforeFirstMatch
<1>5. CASE Panic(t)
  <2>1. Show(<<>>) /\ <<>> \in Bytes
    BY <1>5, Joining DEF Panic
  <2>2. emitted' \in Seq(Bytes)
    BY <1>1, <2>1, ShownNext
  <2>3. pending_bytes' = <<>> /\ is_stopped' = is_stopped
    BY <1>5 DEF Panic
  <2> QED BY <1>1, <1>2, <2>2, <2>3, Joining
       DEF StopInv, StopTypes, NothingDropped, StopsBeforeFirstMatch
<1>6. ~StopAtMatch(t) /\ ~HoldBack(t)
  BY DEF StopAtMatch, HoldBack
<1> QED BY <1>3, <1>4, <1>5, <1>6 DEF CommitToken

(* Every step keeps the invariant.                                          *)
LEMMA StopStep == StopInv /\ [Next]_vars => StopInv'
<1> SUFFICES ASSUME StopInv, [Next]_vars PROVE StopInv'
  OBVIOUS
<1>1. CASE UNCHANGED vars
  BY <1>1 DEF vars, StopInv, StopTypes, Running, NothingDropped, StopsBeforeFirstMatch,
     MatchEnds, Before, Segment, LastReset, Shown, EndedByToken, Partial
<1>2. CASE CommitWhenStopped
  BY <1>1, <1>2 DEF CommitWhenStopped, vars, StopInv, StopTypes, Running, NothingDropped,
     StopsBeforeFirstMatch, MatchEnds, Before, Segment, LastReset, Shown, EndedByToken,
     Partial
<1>3. ASSUME NEW t \in Tokens, CommitToken(t) PROVE StopInv'
  <2>1. ~is_stopped /\ tokens' = Append(tokens, t) /\ UNCHANGED stops
    BY <1>3 DEF CommitToken
  <2>2. CASE StopAtToken(t)
    BY <1>3, <2>1, <2>2, StopAtTokenStep, PoisonedStep DEF StopAtToken
  <2>3. CASE ShowSpecial(t)
    BY <1>3, <2>1, <2>3, ShowSpecialStep, PoisonedStep DEF ShowSpecial
  <2>4. CASE StopAtMatch(t)
    <3>1. ~poisoned
      BY <2>4 DEF StopAtMatch
    <3> QED BY <2>1, <2>4, <3>1, StopAtMatchStep
  <2>5. CASE HoldBack(t)
    <3>1. ~poisoned
      BY <2>5 DEF HoldBack
    <3> QED BY <2>1, <2>5, <3>1, HoldBackStep
  <2>6. CASE Panic(t)
    BY <1>3, <2>6, PoisonedStep DEF Panic
  <2> QED BY <1>3, <2>2, <2>3, <2>4, <2>5, <2>6 DEF CommitToken
<1> QED BY <1>1, <1>2, <1>3 DEF Next

(* The invariant says what the properties say.                              *)
LEMMA StopInvGives == StopInv => NothingDropped /\ StopsBeforeFirstMatch
<1> SUFFICES ASSUME StopInv, ~is_stopped PROVE NothingDropped /\ StopsBeforeFirstMatch
  BY DEF StopInv
<1>1. (~poisoned => Running) /\ is_stopped = FALSE
  BY DEF StopInv, StopTypes
<1> QED BY <1>1 DEF Running, NothingDropped, StopsBeforeFirstMatch, EndedByToken

(* Unless a call has panicked, the first stop sequence that occurs, over    *)
(* however many tokens, stops the output in the token that completes it, and *)
(* no byte of it was or is shown.                                           *)
THEOREM FirstMatchStops == Spec => []StopsBeforeFirstMatch
BY StopInit, StopStep, StopInvGives, PTL DEF Spec
-----------------------------------------------------------------------------
(* Characters.                                                             *)

(* No character that begins in the first k bytes of a text goes beyond them.*)
Cut(text, k) == \A i \in 1..k : i + CharLen(text[i]) - 1 <= k

(* The lengths of characters are numbers.                                   *)
LEMMA CharLenTyped ==
  ASSUME NEW text \in Bytes
  PROVE  Len(text) \in Nat /\ \A i \in 1..Len(text) : CharLen(text[i]) \in Nat
<1>1. Len(text) \in Nat /\ \A i \in 1..Len(text) : text[i] \in Byte
  BY LenProperties, ElementOfSeq DEF Bytes
<1> QED BY <1>1, StopAssumption

(* A text of characters is cut before a byte that begins one.               *)
LEMMA CutBeforeStart ==
  ASSUME NEW text \in Bytes, Characters(text), NEW k \in Nat, k < Len(text),
         CharLen(text[k + 1]) # 0
  PROVE  Cut(text, k)
<1>1. Len(text) \in Nat /\ \A i \in 1..Len(text) : CharLen(text[i]) \in Nat
  BY CharLenTyped
<1> SUFFICES ASSUME NEW i \in 1..k PROVE i + CharLen(text[i]) - 1 <= k
  BY DEF Cut
<1> DEFINE c == CharLen(text[i])
<1>2. c \in Nat /\ i \in 1..Len(text) /\ i \in Nat
  BY <1>1
<1>3. CASE c = 0
  BY <1>2, <1>3
<1>4. CASE c # 0
  <2>1. \A j \in (i + 1)..(i + c - 1) : j \in 1..Len(text) => CharLen(text[j]) = 0
    BY <1>2, <1>4 DEF Characters
  <2> HIDE DEF c
  <2>2. k + 1 \in 1..Len(text)
    BY <1>1
  <2>3. k + 1 \notin (i + 1)..(i + c - 1)
    BY <2>1, <2>2
  <2>4. ~(k + 1 <= i + c - 1)
    BY <1>2, <2>3
  <2>5. i + c - 1 <= k
    BY <1>2, <2>4
  <2> QED BY <2>5 DEF c
<1> QED BY <1>3, <1>4

(* Where a text of characters is cut, the next byte begins one.             *)
LEMMA StartAfterCut ==
  ASSUME NEW text \in Bytes, Characters(text), NEW k \in Nat, k < Len(text),
         Cut(text, k)
  PROVE  CharLen(text[k + 1]) # 0
<1> SUFFICES ASSUME CharLen(text[k + 1]) = 0 PROVE FALSE
  OBVIOUS
<1>1. Len(text) \in Nat /\ \A i \in 1..Len(text) : CharLen(text[i]) \in Nat
  BY CharLenTyped
<1> DEFINE n == k + 1
<1>2. n \in 1..Len(text)
  BY <1>1
<1> HIDE DEF n
<1>3. \E j \in 1..(n - 1) : CharLen(text[j]) > n - j
  <2>1. CharLen(text[n]) = 0
    BY DEF n
  <2> QED BY <1>2, <2>1 DEF Characters
<1>4. PICK j \in 1..k : CharLen(text[j]) > k + 1 - j
  <2>1. n - 1 = k
    BY DEF n
  <2> QED BY <1>3, <2>1 DEF n
<1>5. j + CharLen(text[j]) - 1 <= k
  BY DEF Cut
<1>6. CharLen(text[j]) \in Nat
  BY <1>1
<1> QED BY <1>4, <1>5, <1>6

(* The beginning of a text of characters is one.                            *)
LEMMA CharactersOfPrefix ==
  ASSUME NEW text \in Bytes, NEW other \in Bytes, Characters(text),
         Len(other) <= Len(text), \A i \in 1..Len(other) : other[i] = text[i]
  PROVE  Characters(other)
<1>1. /\ Len(text) \in Nat /\ Len(other) \in Nat
      /\ \A i \in 1..Len(text) : CharLen(text[i]) \in Nat
  BY CharLenTyped
<1> SUFFICES ASSUME NEW i \in 1..Len(other)
             PROVE  IF CharLen(other[i]) = 0
                    THEN \E j \in 1..(i - 1) :
                           /\ CharLen(other[j]) > i - j
                           /\ \A k \in (j + 1)..i : CharLen(other[k]) = 0
                    ELSE \A k \in (i + 1)..(i + CharLen(other[i]) - 1) :
                           k \in 1..Len(other) => CharLen(other[k]) = 0
  BY Zenon DEF Characters
<1>2. i \in 1..Len(text) /\ other[i] = text[i]
  BY <1>1
<1>3. CASE CharLen(text[i]) = 0
  <2>1. PICK j \in 1..(i - 1) : /\ CharLen(text[j]) > i - j
                                /\ \A k \in (j + 1)..i : CharLen(text[k]) = 0
    BY <1>2, <1>3 DEF Characters
  <2>2. j \in 1..Len(other) /\ \A k \in (j + 1)..i : k \in 1..Len(other)
    BY <1>1
  <2>3. CharLen(other[j]) > i - j /\ \A k \in (j + 1)..i : CharLen(other[k]) = 0
    BY <2>1, <2>2
  <2> QED BY <1>2, <1>3, <2>3
<1>4. CASE CharLen(text[i]) # 0
  <2>1. \A k \in (i + 1)..(i + CharLen(text[i]) - 1) :
          k \in 1..Len(text) => CharLen(text[k]) = 0
    BY <1>2, <1>4 DEF Characters
  <2>2. \A k \in 1..Len(other) : k \in 1..Len(text) /\ other[k] = text[k]
    BY <1>1
  <2> QED BY <1>2, <1>4, <2>1, <2>2
<1> QED BY <1>3, <1>4

(* The beginning of a text of characters is whole if the text is cut there. *)
LEMMA WholeIfCut ==
  ASSUME NEW text \in Bytes, Characters(text), NEW k \in 0..Len(text), Cut(text, k)
  PROVE  Whole(Take(text, k))
<1> DEFINE t == Take(text, k)
<1>1. t \in Bytes /\ Len(t) = k /\ \A i \in 1..k : t[i] = text[i]
  BY CutInTwo DEF Bytes
<1> HIDE DEF t
<1>2. k <= Len(text)
  BY LenProperties DEF Bytes
<1>3. Characters(t)
  BY <1>1, <1>2, CharactersOfPrefix
<1>4. \A i \in 1..k : i + CharLen(t[i]) - 1 <= k
  BY <1>1 DEF Cut
<1> QED BY <1>1, <1>3, <1>4 DEF Whole, t

(* valid_utf8_len(), of data that begins where a text of characters is cut, *)
(* is a place to cut it again; what is left over is part of one character.  *)
LEMMA ValidCut ==
  ASSUME NEW text \in Bytes, Characters(text), NEW k \in Nat, Cut(text, k),
         NEW data \in Bytes, k + Len(data) <= Len(text),
         \A i \in 1..Len(data) : data[i] = text[k + i]
  PROVE  LET v == ValidUtf8Len(data) IN
         /\ Cut(text, k + v)
         /\ v < Len(data) => CharLen(data[v + 1]) > Len(data) - v
<1> DEFINE d == Len(data)
           v == ValidUtf8Len(data)
           T == {1} \cup {i \in 1..d : CharLen(data[i]) # 0}
           i == LastStart(data)
           e == CharLen(data[i])
<1>1. /\ d \in Nat /\ Len(text) \in Nat /\ k + d <= Len(text)
      /\ \A j \in 1..Len(text) : CharLen(text[j]) \in Nat
      /\ \A j \in 1..d : CharLen(data[j]) \in Nat
  BY CharLenTyped
<1>2. CASE data = <<>>
  <2>1. v = 0 /\ d = 0
    BY <1>2, EmptySeq DEF ValidUtf8Len
  <2> HIDE DEF v, d
  <2>2. k + v = k /\ ~(v < d)
    BY <2>1
  <2> QED BY <2>2 DEF v, d
<1>3. CASE data # <<>>
  <2>1. d \in Nat \ {0}
    BY <1>3, EmptySeq DEF Bytes
  <2>2. CharLen(data[1]) # 0
    <3>1. 1 \in 1..d /\ k < Len(text)
      BY <1>1, <2>1
    <3>2. CharLen(text[k + 1]) # 0
      BY <3>1, StartAfterCut
    <3> QED BY <3>1, <3>2
  <2>3. i \in 1..d /\ e # 0 /\ \A j \in 1..d : CharLen(data[j]) # 0 => j <= i
    <3>1. T \in SUBSET (0..d) /\ T # {} /\ 1 \in 1..d
      BY <2>1
    <3>2. i = Max(T)
      BY DEF LastStart
    <3>3. \A j \in T : j \in 1..d /\ CharLen(data[j]) # 0
      BY <2>2, <3>1
    <3>4. \A j \in 1..d : CharLen(data[j]) # 0 => j \in T
      OBVIOUS
    <3> HIDE DEF T, i, d
    <3>5. Max(T) \in T /\ \A j \in T : j <= Max(T)
      BY <2>1, <3>1, MaxIsGreatest
    <3> QED BY <3>2, <3>3, <3>4, <3>5
  <2>4. v = IF i - 1 + e <= d THEN i - 1 + e ELSE i - 1
    <3>1. e \in Nat \ {0}
      BY <1>1, <2>3
    <3> DEFINE c == e
    <3>2. Max({1, c}) = c
      <4> HIDE DEF c
      <4>1. c \in Nat \ {0}
        BY <3>1 DEF c
      <4>2. c \in {1, c} /\ \A y \in {1, c} : c >= y
        BY <4>1
      <4>3. \A x \in {1, c} : (\A y \in {1, c} : x >= y) => x = c
        BY <4>1
      <4> QED BY <4>2, <4>3 DEF Max
    <3>3. ExpectedLen(data[i]) = e
      BY <3>2 DEF ExpectedLen
    <3> QED BY <1>3, <3>3 DEF ValidUtf8Len
  <2> HIDE DEF T, i, d, v
  <2>5. e \in Nat \ {0} /\ i \in Nat \ {0} /\ i <= d
    BY <1>1, <2>1, <2>3
  <2>6. \A j \in 1..d : data[j] = text[k + j] /\ k + j \in 1..Len(text)
    BY <1>1 DEF d
  <2>7. ASSUME NEW j \in 1..(k + i - 1) PROVE j + CharLen(text[j]) - 1 <= k + i - 1
    <3> DEFINE n == k + i - 1
    <3>1. n \in Nat /\ n < Len(text) /\ n + 1 = k + i
      BY <1>1, <2>5, <2>6
    <3>2. CharLen(text[n + 1]) # 0
      BY <2>3, <2>6, <3>1
    <3> HIDE DEF n
    <3>3. Cut(text, n)
      BY <3>1, <3>2, CutBeforeStart
    <3> QED BY <3>3 DEF Cut, n
  <2>8. CASE i - 1 + e <= d
    <3>1. v = i - 1 + e /\ v \in Nat /\ i <= v /\ v <= d
      BY <2>4, <2>5, <2>8
    <3>2. ASSUME NEW j \in 1..(k + v) PROVE j + CharLen(text[j]) - 1 <= k + v
      <4>1. CASE j <= k + i - 1
        <5>1. j \in 1..(k + i - 1)
          BY <2>5, <4>1
        <5>2. j + CharLen(text[j]) - 1 <= k + i - 1
          BY <2>7, <5>1
        <5>3. CharLen(text[j]) \in Nat
          BY <1>1, <2>5, <2>6, <5>1
        <5> QED BY <2>5, <3>1, <5>2, <5>3
      <4>2. CASE j = k + i
        <5>1. text[j] = data[i]
          BY <2>3, <2>6, <4>2
        <5> QED BY <2>5, <3>1, <4>2, <5>1
      <4>3. CASE j > k + i
        <5> DEFINE y == j - k
        <5>1. y \in 1..d /\ k + y = j /\ y > i
          BY <1>1, <2>5, <3>1, <4>3
        <5> HIDE DEF y
        <5>2. ~(y <= i)
          BY <2>5, <5>1
        <5>3. CharLen(data[y]) = 0
          BY <2>3, <5>1, <5>2
        <5>4. CharLen(text[j]) = 0
          BY <2>6, <5>1, <5>3
        <5> QED BY <3>1, <5>4
      <4>4. j <= k + i - 1 \/ j = k + i \/ j > k + i
        BY <2>5
      <4> QED BY <4>1, <4>2, <4>3, <4>4
    <3>3. Cut(text, k + v)
      BY <3>2 DEF Cut
    <3>4. ASSUME v < d PROVE FALSE
      <4> DEFINE n == k + v
      <4>1. n \in Nat /\ n < Len(text) /\ n + 1 = k + (v + 1) /\ v + 1 \in 1..d /\ ~(v + 1 <= i)
        <5>1. /\ v \in Nat /\ i <= v /\ v < d /\ d \in Nat /\ i \in Nat
              /\ k + d <= Len(text) /\ Len(text) \in Nat
          BY <1>1, <2>5, <3>1, <3>4
        <5> QED BY <5>1
      <4>2. CharLen(data[v + 1]) = 0
        BY <2>3, <4>1
      <4>3. CharLen(text[n + 1]) = 0
        BY <2>6, <4>1, <4>2
      <4> HIDE DEF n
      <4>4. Cut(text, n)
        BY <3>3 DEF n
      <4> QED BY <4>1, <4>3, <4>4, StartAfterCut
    <3> QED BY <3>3, <3>4 DEF v, d
  <2>9. CASE ~(i - 1 + e <= d)
    <3>1. v = i - 1 /\ v + 1 = i /\ k + v = k + i - 1
      BY <2>4, <2>5, <2>9
    <3>2. Cut(text, k + v)
      BY <2>7, <3>1 DEF Cut
    <3>3. CharLen(data[v + 1]) > d - v
      <4>1. data[v + 1] = data[i]
        BY <3>1
      <4>2. e > d - v
        BY <2>1, <2>5, <2>9, <3>1
      <4> QED BY <4>1, <4>2
    <3> QED BY <3>2, <3>3 DEF v, d
  <2> QED BY <2>8, <2>9
<1> QED BY <1>2, <1>3
(* A text that is whole begins with the first byte of a character.          *)
LEMMA WholeStarts ==
  ASSUME NEW text \in Bytes, text # <<>>, Whole(text)
  PROVE  CharLen(text[1]) # 0
<1>1. 1 \in 1..Len(text)
  <2>1. Len(text) \in Nat \ {0}
    BY EmptySeq DEF Bytes
  <2> QED BY <2>1
<1>2. ~ \E j \in 1..(1 - 1) : TRUE
  OBVIOUS
<1> QED BY <1>1, <1>2 DEF Whole, Characters

(* A text of characters that goes on with whole ones is cut at their end.   *)
LEMMA CutAtEnd ==
  ASSUME NEW a \in Bytes, NEW b \in Bytes, Characters(a \o b), b # <<>>, Whole(b)
  PROVE  Cut(a \o b, Len(a \o b))
<1> DEFINE text == a \o b
           A == Len(a)
           B == Len(b)
<1>1. /\ text \in Bytes /\ Len(text) = A + B /\ A \in Nat /\ B \in Nat \ {0}
      /\ \A i \in 1..(A + B) : text[i] = IF i <= A THEN a[i] ELSE b[i - A]
  <2>1. B \in Nat \ {0}
    BY EmptySeq DEF Bytes
  <2> QED BY <2>1, ConcatProperties, LenProperties DEF Bytes
<1>2. \A i \in 1..(A + B) : CharLen(text[i]) \in Nat
  BY <1>1, CharLenTyped
<1>3. \A i \in 1..B : i + CharLen(b[i]) - 1 <= B
  BY DEF Whole
<1>4. CharLen(b[1]) # 0
  BY WholeStarts
<1>5. Characters(text)
  OBVIOUS
<1> HIDE DEF text, A, B
<1>6. Cut(text, A)
  <2>1. A + 1 \in 1..(A + B) /\ ~(A + 1 <= A) /\ (A + 1) - A = 1 /\ A < Len(text)
    BY <1>1
  <2>2. text[A + 1] = b[1]
    BY <1>1, <2>1
  <2> QED BY <1>1, <1>4, <1>5, <2>1, <2>2, CutBeforeStart
<1>7. ASSUME NEW i \in 1..(A + B) PROVE i + CharLen(text[i]) - 1 <= A + B
  <2>1. CASE i <= A
    <3>1. i \in 1..A
      BY <1>1, <2>1
    <3>2. i + CharLen(text[i]) - 1 <= A
      BY <1>6, <3>1 DEF Cut
    <3>3. CharLen(text[i]) \in Nat
      BY <1>2
    <3> QED BY <1>1, <3>2, <3>3
  <2>2. CASE ~(i <= A)
    <3> DEFINE j == i - A
    <3>1. j \in 1..B /\ i = A + j /\ text[i] = b[j]
      BY <1>1, <2>2
    <3> HIDE DEF j
    <3>2. j + CharLen(b[j]) - 1 <= B
      BY <1>3, <3>1
    <3>3. CharLen(b[j]) \in Nat
      BY <1>2, <3>1
    <3> QED BY <1>1, <3>1, <3>2, <3>3
  <2> QED BY <2>1, <2>2
<1> QED BY <1>1, <1>7 DEF Cut, text

(* The longest text at the end of another that may still become a match.    *)
Longest(st, text) ==
  Max({0} \cup {n \in 1..Len(text) :
                  \E s \in st : n <= Len(s) /\ IsSuffix(Take(s, n), text)})

(* The automaton knows how long it is.                                      *)
LEMMA LongestIsAhead ==
  ASSUME stops \subseteq Bytes, NEW text \in Bytes
  PROVE  Longest(stops, text) = PossibleLookaheadLen(Partial(text, Len(text)))
<1> DEFINE N == Len(text)
           S == {0} \cup {n \in 1..N : \E s \in stops : n <= Len(s) /\ IsSuffix(Take(s, n), text)}
           T == {Len(p) : p \in Partial(text, N)}
<1>1. N \in Nat /\ N \in 0..N /\ Take(text, N) = text
  BY LenProperties, SubSeqFull DEF Take, Bytes
<1>2. \A p \in Bytes : IsSuffix(p, text) <=> EndsAt(p, text, N)
  <2> HIDE DEF N
  <2>1. \A p \in Bytes : IsSuffix(p, Take(text, N)) <=> EndsAt(p, text, N)
    BY <1>1, IsSuffixIs DEF N
  <2> QED BY <1>1, <2>1
<1> HIDE DEF N
<1>3. ASSUME NEW n \in S PROVE n \in T
  <2>1. CASE n = 0
    <3>1. EndsAt(<<>>, text, N)
      BY <1>1, Joining DEF EndsAt
    <3>2. <<>> \in Partial(text, N)
      BY <3>1, Joining DEF Partial
    <3> QED BY <2>1, <3>2, Joining
  <2>2. CASE n # 0
    <3>1. n \in 1..N
      BY <2>2
    <3>2. PICK s \in stops : n <= Len(s) /\ IsSuffix(Take(s, n), text)
      BY <2>2
    <3>3. s \in Bytes /\ Len(s) \in Nat
      BY Joining
    <3> DEFINE p == Take(s, n)
    <3>4. p \in Bytes /\ Len(p) = n /\ \A i \in 1..n : p[i] = s[i]
      <4>1. n \in 0..Len(s)
        BY <1>1, <3>1, <3>2, <3>3
      <4> QED BY <3>3, <4>1, CutInTwo DEF Bytes
    <3> HIDE DEF p
    <3>5. IsPrefix(p, s)
      BY <3>2, <3>3, <3>4, IsPrefixIs
    <3>6. EndsAt(p, text, N)
      BY <1>2, <3>2, <3>4 DEF p
    <3>7. p \in Partial(text, N)
      BY <3>4, <3>5, <3>6 DEF Partial
    <3> QED BY <3>4, <3>7
  <2> QED BY <2>1, <2>2
<1>4. ASSUME NEW n \in T PROVE n \in S
  <2>1. PICK p \in Partial(text, N) : n = Len(p)
    OBVIOUS
  <2>2. p \in Bytes /\ n \in Nat /\ EndsAt(p, text, N) /\ n <= N
    BY <2>1, Joining DEF Partial, EndsAt
  <2>3. CASE n = 0
    BY <2>3
  <2>4. CASE n # 0
    <3>1. p # <<>> /\ n \in 1..N
      BY <1>1, <2>1, <2>2, <2>4, Joining
    <3>2. PICK s \in stops : IsPrefix(p, s)
      BY <2>1, <3>1 DEF Partial
    <3>3. s \in Bytes /\ Len(s) \in Nat
      BY Joining
    <3>4. n <= Len(s) /\ \A i \in 1..n : p[i] = s[i]
      BY <2>1, <2>2, <3>2, <3>3, IsPrefixIs
    <3>5. Take(s, n) = p
      <4> DEFINE q == Take(s, n)
      <4>1. n \in 0..Len(s)
        BY <2>2, <3>3, <3>4
      <4>2. q \in Bytes /\ Len(q) = n /\ \A i \in 1..n : q[i] = s[i]
        BY <3>3, <4>1, CutInTwo DEF Bytes
      <4> HIDE DEF q
      <4>3. q = p
        BY <2>1, <2>2, <3>4, <4>2, SeqEqual DEF Bytes
      <4> QED BY <4>3 DEF q
    <3>6. IsSuffix(Take(s, n), text)
      BY <1>2, <2>2, <3>5
    <3> QED BY <3>1, <3>4, <3>6
  <2> QED BY <2>3, <2>4
<1> HIDE DEF S, T
<1>5. S = T
  BY <1>3, <1>4
<1>6. Longest(stops, text) = Max(S) /\ PossibleLookaheadLen(Partial(text, N)) = Max(T)
  BY DEF Longest, PossibleLookaheadLen, S, T, N
<1> QED BY <1>5, <1>6 DEF N

-----------------------------------------------------------------------------
(* The automaton dies only of a text that is not characters.               *)

(* The complete characters of a text of characters end where it is cut.     *)
LEMMA CompleteIs ==
  ASSUME NEW w \in Bytes
  PROVE  Complete(w) \in 0..Len(w) /\ (Characters(w) => Cut(w, Complete(w)))
<1> DEFINE n == Len(w)
           S == {n + 1} \cup {i \in 1..n : i + CharLen(w[i]) - 1 > n}
           m == Min(S)
<1>1. n \in Nat /\ \A i \in 1..n : CharLen(w[i]) \in Nat
  BY CharLenTyped
<1>2. m \in S /\ m \in 1..(n + 1) /\ \A i \in S : m <= i
  <2>1. S \in SUBSET Nat /\ S # {} /\ S \subseteq 1..(n + 1)
    BY <1>1
  <2> HIDE DEF S
  <2> QED BY <2>1, MinIsLeast
<1>3. Complete(w) = m - 1
  BY DEF Complete
<1> HIDE DEF m, n
<1>4. ASSUME Characters(w) PROVE Cut(w, m - 1)
  <2>1. CASE m = n + 1
    <3>1. ASSUME NEW i \in 1..n PROVE i + CharLen(w[i]) - 1 <= n
      <4>1. i \notin S
        BY <1>1, <1>2, <2>1
      <4> QED BY <1>1, <4>1
    <3> QED BY <1>1, <2>1, <3>1 DEF Cut
  <2>2. CASE m # n + 1
    <3>1. m \in 1..n /\ m + CharLen(w[m]) - 1 > n
      BY <1>1, <1>2, <2>2
    <3>2. CharLen(w[m]) # 0 /\ m - 1 \in Nat /\ m - 1 < n /\ (m - 1) + 1 = m
      BY <1>1, <3>1
    <3> QED BY <1>4, <3>2, CutBeforeStart DEF n
  <2> QED BY <2>1, <2>2
<1>5. m - 1 \in 0..n
  BY <1>1, <1>2
<1> QED BY <1>3, <1>4, <1>5 DEF n

(* The bytes of one text after another.                                     *)
LEMMA JoinedBytes ==
  ASSUME NEW a \in Bytes, NEW b \in Bytes
  PROVE  /\ a \o b \in Bytes /\ Len(a \o b) = Len(a) + Len(b)
         /\ Len(a) \in Nat /\ Len(b) \in Nat
         /\ \A i \in 1..Len(a) : (a \o b)[i] = a[i]
         /\ \A i \in 1..Len(b) : (a \o b)[Len(a) + i] = b[i]
<1> DEFINE A == Len(a)
           B == Len(b)
           w == a \o b
<1>1. /\ w \in Bytes /\ Len(w) = A + B /\ A \in Nat /\ B \in Nat
      /\ \A i \in 1..(A + B) : w[i] = IF i <= A THEN a[i] ELSE b[i - A]
  BY ConcatProperties, LenProperties DEF Bytes
<1> HIDE DEF A, B, w
<1>2. \A i \in 1..A : w[i] = a[i]
  BY <1>1
<1>3. ASSUME NEW i \in 1..B PROVE w[A + i] = b[i]
  <2>1. A + i \in 1..(A + B) /\ ~(A + i <= A) /\ (A + i) - A = i
    BY <1>1
  <2> QED BY <1>1, <2>1
<1> QED BY <1>1, <1>2, <1>3 DEF A, B, w

(* The beginning of a text of characters is characters.                     *)
LEMMA CharactersBefore ==
  ASSUME NEW a \in Bytes, NEW b \in Bytes, Characters(a \o b)
  PROVE  Characters(a)
<1> DEFINE w == a \o b
<1>1. w \in Bytes /\ Len(a) <= Len(w) /\ \A i \in 1..Len(a) : a[i] = w[i]
  BY JoinedBytes
<1> HIDE DEF w
<1>2. Characters(w)
  BY DEF w
<1> QED BY <1>1, <1>2, CharactersOfPrefix

(* So are the bytes after a cut.                                            *)
LEMMA CharactersAfterCut ==
  ASSUME NEW a \in Bytes, NEW b \in Bytes, Characters(a \o b), Cut(a \o b, Len(a))
  PROVE  Characters(b)
<1> DEFINE A == Len(a)
           B == Len(b)
           w == a \o b
<1>1. /\ w \in Bytes /\ Len(w) = A + B /\ A \in Nat /\ B \in Nat
      /\ \A i \in 1..B : w[A + i] = b[i]
      /\ Characters(w) /\ \A i \in 1..A : i + CharLen(w[i]) - 1 <= A
  BY JoinedBytes DEF Cut
<1>2. /\ \A i \in 1..(A + B) : CharLen(w[i]) \in Nat
      /\ \A i \in 1..B : CharLen(b[i]) \in Nat
  BY <1>1, CharLenTyped
<1> HIDE DEF A, B, w
<1>3. \A i \in 1..B : A + i \in 1..(A + B) /\ A + i \in Nat
  BY <1>1
<1> SUFFICES ASSUME NEW i \in 1..B
             PROVE  IF CharLen(b[i]) = 0
                    THEN \E j \in 1..(i - 1) : /\ CharLen(b[j]) > i - j
                                               /\ \A k \in (j + 1)..i : CharLen(b[k]) = 0
                    ELSE \A k \in (i + 1)..(i + CharLen(b[i]) - 1) :
                           k \in 1..B => CharLen(b[k]) = 0
  BY Zenon DEF Characters, B
<1> DEFINE n == A + i
<1>4. n \in 1..(A + B) /\ w[n] = b[i]
  BY <1>1, <1>3
<1>5. CASE CharLen(b[i]) = 0
  <2>1. \E j \in 1..(n - 1) : /\ CharLen(w[j]) > n - j
                              /\ \A k \in (j + 1)..n : CharLen(w[k]) = 0
    <3> HIDE DEF n
    <3> QED BY <1>1, <1>4, <1>5 DEF Characters
  <2>2. PICK h \in 1..(n - 1) : /\ CharLen(w[h]) > n - h
                                /\ \A k \in (h + 1)..n : CharLen(w[k]) = 0
    BY <2>1
  <2>3. CharLen(w[h]) \in Nat /\ h \in 1..(A + B)
    BY <1>1, <1>2, <1>4
  <2>4. ~(h <= A)
    <3>1. h <= A => h + CharLen(w[h]) - 1 <= A
      BY <1>1
    <3> QED BY <1>1, <2>2, <2>3, <3>1
  <2> DEFINE j == h - A
  <2>5. j \in 1..(i - 1) /\ j \in 1..B /\ h = A + j
    BY <1>1, <2>3, <2>4
  <2> HIDE DEF j
  <2>6. CharLen(b[j]) > i - j
    <3>1. w[h] = b[j] /\ n - h = i - j
      BY <1>1, <2>5
    <3> QED BY <2>2, <3>1
  <2>7. ASSUME NEW k \in (j + 1)..i PROVE CharLen(b[k]) = 0
    <3>1. k \in 1..B /\ A + k \in (h + 1)..n
      BY <1>1, <2>5
    <3>2. w[A + k] = b[k]
      BY <1>1, <3>1
    <3> QED BY <2>2, <3>1, <3>2
  <2> QED BY <1>5, <2>5, <2>6, <2>7
<1>6. CASE CharLen(b[i]) # 0
  <2>1. \A k \in (n + 1)..(n + CharLen(w[n]) - 1) : k \in 1..(A + B) => CharLen(w[k]) = 0
    <3> HIDE DEF n
    <3> QED BY <1>1, <1>4, <1>6 DEF Characters
  <2>2. ASSUME NEW k \in (i + 1)..(i + CharLen(b[i]) - 1), k \in 1..B
        PROVE  CharLen(b[k]) = 0
    <3>1. CharLen(b[i]) \in Nat
      BY <1>2
    <3>2. A + k \in (n + 1)..(n + CharLen(w[n]) - 1) /\ A + k \in 1..(A + B)
      BY <1>1, <1>4, <2>2, <3>1
    <3>3. w[A + k] = b[k]
      BY <1>1, <2>2
    <3> QED BY <2>1, <3>2, <3>3
  <2> QED BY <1>6, <2>2
<1> QED BY <1>5, <1>6

(* What follows a cut of a text is cut where the text is.                   *)
LEMMA CutFurther ==
  ASSUME NEW a \in Bytes, NEW b \in Bytes, Cut(a \o b, Len(a)),
         NEW k \in 0..Len(b), Cut(b, k)
  PROVE  Cut(a \o b, Len(a) + k)
<1> DEFINE A == Len(a)
           w == a \o b
<1>1. /\ w \in Bytes /\ Len(w) = A + Len(b) /\ A \in Nat /\ Len(b) \in Nat
      /\ \A i \in 1..Len(b) : w[A + i] = b[i]
      /\ \A i \in 1..A : i + CharLen(w[i]) - 1 <= A
      /\ \A i \in 1..k : i + CharLen(b[i]) - 1 <= k
  BY JoinedBytes DEF Cut
<1>2. /\ \A i \in 1..Len(w) : CharLen(w[i]) \in Nat
      /\ \A i \in 1..Len(b) : CharLen(b[i]) \in Nat
  BY <1>1, CharLenTyped
<1> HIDE DEF A, w
<1>3. ASSUME NEW i \in 1..(A + k) PROVE i + CharLen(w[i]) - 1 <= A + k
  <2>1. CASE i <= A
    <3>1. i + CharLen(w[i]) - 1 <= A /\ CharLen(w[i]) \in Nat
      BY <1>1, <1>2, <2>1
    <3> QED BY <1>1, <3>1
  <2>2. CASE ~(i <= A)
    <3> DEFINE j == i - A
    <3>1. j \in 1..k /\ j \in 1..Len(b) /\ i = A + j
      BY <1>1, <2>2
    <3> HIDE DEF j
    <3>2. w[i] = b[j] /\ j + CharLen(b[j]) - 1 <= k /\ CharLen(b[j]) \in Nat
      BY <1>1, <1>2, <3>1
    <3> QED BY <1>1, <3>1, <3>2
  <2> QED BY <2>1, <2>2
<1> QED BY <1>3 DEF Cut, A, w

(* The text, up to its incomplete character, is cut there.                  *)
CutAtCharacter(text, c) ==
  \E x \in Bytes : text = x \o c /\ Cut(text, Len(x))

(* The automaton's part in characters: what it knows of the text, and that  *)
(* no call panicked for characters.                                         *)
CharacterInv ==
  /\ character \in Bytes
  /\ Characters(TextShownBy(tokens)) => ~poisoned
  /\ Characters(TextShownBy(tokens)) /\ ~is_stopped
       => CutAtCharacter(TextShownBy(tokens), character)

(* More characters: they do not kill the automaton, which then knows the    *)
(* character that is incomplete.                                            *)
LEMMA CharacterOfToken ==
  ASSUME NEW text \in Bytes, NEW c \in Bytes, NEW b \in Bytes,
         CutAtCharacter(text, c), Characters(text \o b)
  PROVE  Characters(c \o b) /\ CutAtCharacter(text \o b, CharacterAfter(c, b))
<1>1. PICK x \in Bytes : text = x \o c /\ Cut(text, Len(x))
  BY DEF CutAtCharacter
<1> DEFINE w == c \o b
           all == text \o b
           k == Complete(w)
           y == x \o Take(w, k)
<1>2. w \in Bytes /\ all \in Bytes /\ all = x \o w
  <2>1. (x \o c) \o b = x \o (c \o b)
    BY <1>1, Joining
  <2> QED BY <1>1, <2>1, Joining
<1>3. Cut(all, Len(x))
  <2>1. /\ Len(text) = Len(x) + Len(c) /\ Len(x) \in Nat /\ Len(c) \in Nat
        /\ \A i \in 1..Len(text) : all[i] = text[i]
    BY <1>1, JoinedBytes
  <2>2. \A i \in 1..Len(x) : i \in 1..Len(text)
    BY <2>1
  <2> QED BY <1>1, <2>1, <2>2 DEF Cut
<1>4. Characters(all)
  OBVIOUS
<1>5. Characters(w)
  <2> HIDE DEF w, all
  <2> QED BY <1>2, <1>3, <1>4, CharactersAfterCut
<1>6. k \in 0..Len(w) /\ Cut(w, k)
  <2> HIDE DEF w
  <2> QED BY <1>2, <1>5, CompleteIs
<1>7. /\ Take(w, k) \in Bytes /\ Len(Take(w, k)) = k /\ Drop(w, k) \in Bytes
      /\ Take(w, k) \o Drop(w, k) = w
  <2> HIDE DEF w, k
  <2> QED BY <1>2, <1>6, CutInTwo DEF Bytes
<1>8. CharacterAfter(c, b) = Drop(w, k)
  BY DEF CharacterAfter
<1> HIDE DEF w, k, all
<1>9. y \in Bytes /\ Len(y) = Len(x) + k /\ all = y \o Drop(w, k)
  <2> DEFINE p == Take(w, k)
             r == Drop(w, k)
  <2>1. p \in Bytes /\ Len(p) = k /\ r \in Bytes /\ p \o r = w
    BY <1>7
  <2> HIDE DEF p, r
  <2>2. x \o (p \o r) = (x \o p) \o r /\ x \o p \in Bytes /\ Len(x \o p) = Len(x) + Len(p)
    BY <2>1, Joining
  <2>3. all = (x \o p) \o r
    BY <1>2, <2>1, <2>2
  <2> QED BY <2>1, <2>2, <2>3 DEF p, r
<1>10. Cut(all, Len(y))
  <2>1. Cut(x \o w, Len(x) + k)
    BY <1>2, <1>3, <1>6, CutFurther
  <2> QED BY <1>2, <1>9, <2>1
<1> HIDE DEF y
<1> QED BY <1>5, <1>8, <1>9, <1>10 DEF CutAtCharacter, w, all

(* What is left of some bytes is bytes.                                     *)
LEMMA CharacterTyped ==
  ASSUME NEW c \in Bytes, NEW b \in Bytes
  PROVE  CharacterAfter(c, b) \in Bytes
<1> DEFINE w == c \o b
<1>1. w \in Bytes
  BY Joining
<1> HIDE DEF w
<1>2. Complete(w) \in 0..Len(w)
  BY <1>1, CompleteIs
<1>3. Drop(w, Complete(w)) \in Bytes
  BY <1>1, <1>2, CutInTwo DEF Bytes
<1> QED BY <1>3 DEF CharacterAfter, w

(* The bytes up to the first match are a beginning of the token's.          *)
LEMMA UpToMatchIs ==
  ASSUME NEW t \in Tokens, TextOf[t] \in Bytes
  PROVE  /\ UpToMatch(t) \in Bytes
         /\ \E rest \in Bytes : TextOf[t] = UpToMatch(t) \o rest
<1> DEFINE s == TextOf[t]
           M == Matches(state, s)
<1>1. CASE M = {}
  <2>1. UpToMatch(t) = s /\ s = s \o <<>> /\ <<>> \in Bytes
    BY <1>1, Joining DEF UpToMatch
  <2> QED BY <2>1
<1>2. CASE M # {}
  <2>1. M \in SUBSET Nat /\ M \subseteq 1..Len(s)
    BY DEF Matches
  <2> HIDE DEF M, s
  <2>2. Min(M) \in 0..Len(s)
    <3>1. Min(M) \in M
      BY <1>2, <2>1, MinIsLeast
    <3>2. Min(M) \in 1..Len(s)
      BY <2>1, <3>1
    <3> QED BY <3>2
  <2>3. /\ Take(s, Min(M)) \in Bytes /\ Drop(s, Min(M)) \in Bytes
        /\ s = Take(s, Min(M)) \o Drop(s, Min(M))
    BY <2>2, CutInTwo DEF Bytes, s
  <2>4. UpToMatch(t) = Take(s, Min(M))
    BY <1>2 DEF UpToMatch, M, s
  <2> QED BY <2>3, <2>4 DEF s
<1> QED BY <1>1, <1>2

(* Every step keeps what the automaton knows.                               *)
LEMMA CharacterStep ==
  ASSUME StopInv, CharacterInv, NEW t \in Tokens, CommitToken(t)
  PROVE  CharacterInv'
<1> DEFINE T == TextShownBy(tokens)
           s == TextOf[t]
<1>1. /\ StopTypes /\ tokens' = Append(tokens, t) /\ UNCHANGED stops /\ ~is_stopped
      /\ TextShownBy(tokens) = Before \o Segment
  BY DEF StopInv, CommitToken
<1>2. T \in Bytes /\ Piece(t) \in Bytes /\ TextShownBy(tokens') = T \o Piece(t)
  BY <1>1, PieceTyped, CommitFacts
<1>3. t \notin StopTokens => s \in Bytes /\ Piece(t) = s
  BY PieceTyped DEF Piece
<1>4. Characters(TextShownBy(tokens')) => Characters(T) /\ ~poisoned /\ CutAtCharacter(T, character)
  <2> HIDE DEF T
  <2>1. Characters(T \o Piece(t)) => Characters(T)
    BY <1>2, CharactersBefore
  <2> QED BY <1>1, <1>2, <2>1 DEF CharacterInv, T
<1> HIDE DEF T, s
<1>5. CASE StopAtToken(t)
  <2>1. is_stopped' = TRUE /\ character' = character /\ poisoned' = poisoned
    BY <1>5 DEF StopAtToken
  <2> QED BY <1>4, <2>1 DEF CharacterInv
<1>6. CASE ShowSpecial(t)
  <2>1. character' = <<>> /\ poisoned' = poisoned /\ t \in Resets \ StopTokens
    BY <1>6 DEF ShowSpecial
  <2>2. s # <<>> /\ Whole(s) /\ s \in Bytes /\ TextShownBy(tokens') = T \o s
    BY <1>2, <1>3, <2>1, NamesAreText DEF s
  <2>3. ASSUME Characters(TextShownBy(tokens'))
        PROVE  CutAtCharacter(TextShownBy(tokens'), <<>>)
    <3> DEFINE all == T \o s
    <3>1. all \in Bytes /\ all = all \o <<>>
      BY <1>2, <2>2, Joining
    <3>2. Cut(all, Len(all))
      BY <1>2, <2>2, <2>3, CutAtEnd
    <3> HIDE DEF all
    <3>3. CutAtCharacter(all, <<>>)
      BY <3>1, <3>2 DEF CutAtCharacter
    <3> QED BY <2>2, <3>3 DEF all
  <2> QED BY <1>4, <2>1, <2>3, Joining DEF CharacterInv
<1>7. t \notin StopTokens /\ Characters(TextShownBy(tokens'))
        => /\ Characters(character \o s)
           /\ CutAtCharacter(TextShownBy(tokens'), CharacterAfter(character, s))
  <2>1. character \in Bytes
    BY DEF CharacterInv
  <2> QED BY <1>2, <1>3, <1>4, <2>1, CharacterOfToken
<1>8. CASE Panic(t)
  <2>1. /\ t \notin StopTokens /\ poisoned' = TRUE /\ character' = character
        /\ poisoned \/ ~Characters(character \o UpToMatch(t))
    BY <1>8 DEF Panic, is_dead
  <2>2. character \in Bytes /\ s \in Bytes
    BY <1>3, <2>1 DEF CharacterInv
  <2>3. UpToMatch(t) \in Bytes
    BY <2>2, UpToMatchIs DEF s
  <2>4. PICK rest \in Bytes : s = UpToMatch(t) \o rest
    BY <2>2, UpToMatchIs DEF s
  <2> DEFINE u == character \o UpToMatch(t)
  <2>5. u \in Bytes /\ character \o s = u \o rest
    BY <2>2, <2>3, <2>4, Joining
  <2> HIDE DEF u
  <2>6. Characters(character \o s) => Characters(u)
    BY <2>5, CharactersBefore
  <2>7. ~Characters(TextShownBy(tokens'))
    BY <1>4, <1>7, <2>1, <2>6 DEF u
  <2> QED BY <2>1, <2>2, <2>7 DEF CharacterInv
<1>9. CASE StopAtMatch(t)
  <2>1. /\ t \notin StopTokens /\ is_stopped' = TRUE /\ poisoned' = poisoned
        /\ character' = CharacterAfter(character, UpToMatch(t))
    BY <1>9 DEF StopAtMatch
  <2>2. character \in Bytes /\ UpToMatch(t) \in Bytes
    BY <1>3, <2>1, UpToMatchIs DEF CharacterInv, s
  <2>3. character' \in Bytes
    BY <2>1, <2>2, CharacterTyped
  <2> QED BY <1>4, <2>1, <2>3 DEF CharacterInv
<1>10. CASE HoldBack(t)
  <2>1. /\ t \notin StopTokens /\ poisoned' = poisoned
        /\ character' = CharacterAfter(character, s)
    BY <1>10 DEF HoldBack, s
  <2>2. character' \in Bytes
    BY <1>3, <2>1, CharacterTyped DEF CharacterInv
  <2> QED BY <1>4, <1>7, <2>1, <2>2 DEF CharacterInv
<1> QED BY <1>5, <1>6, <1>8, <1>9, <1>10 DEF CommitToken

(* Before the first token there is no incomplete character.                 *)
LEMMA CharacterInit == Init => CharacterInv
<1> SUFFICES ASSUME Init PROVE CharacterInv
  OBVIOUS
<1>1. character = <<>> /\ poisoned = FALSE /\ tokens = <<>>
  BY DEF Init
<1>2. TextShownBy(tokens) = <<>> /\ <<>> \o <<>> = <<>> /\ Len(<<>>) = 0 /\ <<>> \in Bytes
  BY <1>1, TextOfNone, Joining
<1>3. Cut(<<>>, 0)
  BY DEF Cut
<1> QED BY <1>1, <1>2, <1>3 DEF CharacterInv, CutAtCharacter

(* And every step keeps it so.                                              *)
LEMMA CharacterNext == StopInv /\ CharacterInv /\ [Next]_vars => CharacterInv'
<1> SUFFICES ASSUME StopInv, CharacterInv, [Next]_vars PROVE CharacterInv'
  OBVIOUS
<1>1. CASE UNCHANGED vars
  BY <1>1 DEF vars, CharacterInv
<1>2. CASE CommitWhenStopped
  BY <1>2 DEF CommitWhenStopped, vars, CharacterInv
<1>3. ASSUME NEW t \in Tokens, CommitToken(t) PROVE CharacterInv'
  BY <1>3, CharacterStep
<1> QED BY <1>1, <1>2, <1>3 DEF Next

(* Together the invariants say that nothing is lost.                        *)
LEMMA NothingLostGiven == StopInv /\ CharacterInv => NothingLost
BY StopInvGives DEF CharacterInv, NothingLost, NothingDropped

(* A call panics only if the tokens' text is not characters.  Until one does *)
(* or a stop sequence occurs, whatever tokens split characters and matches,  *)
(* what the calls returned and what is held back is the text of the tokens,  *)
(* every byte once and in order; a stop token releases the rest.             *)
THEOREM EveryByteOnce == Spec => []NothingLost
BY StopInit, StopStep, CharacterInit, CharacterNext, NothingLostGiven, PTL DEF Spec

-----------------------------------------------------------------------------
(* What is shown is whole characters, what is held back has a cause.        *)

(* The text is cut where the part shown of it ends.                         *)
CharInv ==
  /\ Len(emitted) = Len(tokens)
  /\ WholeCharacters
  /\ HeldBackForCause
  /\ Characters(TextShownBy(tokens)) /\ ~is_stopped
       => Cut(TextShownBy(tokens), Len(Shown))

(* The pieces shown before stay as they were.                               *)
LEMMA WholeKept ==
  ASSUME StopTypes, Len(emitted) = Len(tokens), WholeCharacters,
         NEW t \in Tokens, tokens' = Append(tokens, t),
         NEW x \in Bytes, emitted' = Append(emitted, x),
         /\ Characters(TextShownBy(tokens')) /\ t \notin StopTokens \cup Resets
            => Whole(Shown')
  PROVE  /\ Len(emitted') = Len(tokens')
         /\ WholeCharacters'
         /\ Characters(TextShownBy(tokens')) => Characters(TextShownBy(tokens))
<1> DEFINE n == Len(tokens)
<1>1. /\ tokens \in Seq(Tokens) /\ emitted \in Seq(Bytes) /\ n \in Nat
      /\ Len(emitted) = n
  BY LenProperties DEF StopTypes
<1>2. /\ tokens' \in Seq(Tokens) /\ Len(tokens') = n + 1
      /\ \A i \in 1..n : tokens'[i] = tokens[i]
      /\ tokens'[n + 1] = t
  BY <1>1, AppendProperties
<1>3. emitted' \in Seq(Bytes) /\ Len(emitted') = n + 1
  BY <1>1, AppendProperties
<1>4. Characters(TextShownBy(tokens')) => Characters(TextShownBy(tokens))
  <2> DEFINE a == TextShownBy(tokens)
             b == TextShownBy(tokens')
             c == Piece(t)
  <2>1. a \in Bytes /\ b = a \o c /\ c \in Bytes
    BY <1>1, TextOfAppend, PieceTyped
  <2> HIDE DEF a, b, c
  <2>2. /\ b \in Bytes /\ Len(a) \in Nat /\ Len(c) \in Nat /\ Len(b) = Len(a) + Len(c)
        /\ \A i \in 1..(Len(a) + Len(c)) : b[i] = IF i <= Len(a) THEN a[i] ELSE c[i - Len(a)]
    BY <2>1, ConcatProperties, LenProperties DEF Bytes
  <2>3. Len(a) <= Len(b) /\ \A i \in 1..Len(a) : a[i] = b[i]
    BY <2>2
  <2>4. Characters(b) => Characters(a)
    BY <2>1, <2>2, <2>3, CharactersOfPrefix
  <2> QED BY <2>4 DEF a, b
<1> HIDE DEF n
<1>5. ASSUME Characters(TextShownBy(tokens')), NEW i \in 1..(n + 1),
             tokens'[i] \notin StopTokens \cup Resets
      PROVE  Whole(FlattenSeq(Take(emitted', i)))
  <2>1. CASE i = n + 1
    <3>1. Take(emitted', i) = emitted'
      BY <1>3, <2>1, SubSeqFull DEF Take
    <3>2. Whole(Shown')
      BY <1>2, <1>5, <2>1
    <3> QED BY <3>1, <3>2 DEF Shown
  <2>2. CASE i # n + 1
    <3>1. i \in 1..n /\ i \in 0..n
      BY <1>1, <2>2
    <3>2. Take(emitted', i) = Take(emitted, i)
      BY <1>1, <3>1, CutOfAppend
    <3>3. Whole(FlattenSeq(Take(emitted, i)))
      BY <1>2, <1>4, <1>5, <3>1 DEF WholeCharacters, n
    <3> QED BY <3>2, <3>3
  <2> QED BY <2>1, <2>2
<1>6. WholeCharacters'
  BY <1>2, <1>5 DEF WholeCharacters
<1> QED BY <1>2, <1>3, <1>4, <1>6
(* Stopping at a token shows no ordinary token's text.                      *)
LEMMA StopAtTokenChars ==
  ASSUME StopInv, CharInv, ~is_stopped, ~poisoned, NEW t \in Tokens, StopAtToken(t),
         tokens' = Append(tokens, t), UNCHANGED stops
  PROVE  CharInv'
<1>1. /\ StopTypes /\ Len(emitted) = Len(tokens) /\ WholeCharacters
  BY DEF StopInv, CharInv
<1>2. /\ is_stopped' = TRUE /\ t \in StopTokens /\ pending_bytes \in Bytes
      /\ emitted' = Append(emitted, pending_bytes)
  BY <1>1 DEF StopAtToken, Show, StopTypes
<1>3. Len(emitted') = Len(tokens') /\ WholeCharacters'
  BY <1>1, <1>2, WholeKept
<1>4. HeldBackForCause'
  BY <1>2 DEF HeldBackForCause
<1> QED BY <1>2, <1>3, <1>4 DEF CharInv

(* The name of a special token is whole, and ends what came before.         *)
LEMMA ShowSpecialChars ==
  ASSUME StopInv, CharInv, ~is_stopped, ~poisoned, NEW t \in Tokens, ShowSpecial(t),
         tokens' = Append(tokens, t), UNCHANGED stops
  PROVE  CharInv'
<1>1. /\ StopTypes /\ Len(emitted) = Len(tokens) /\ WholeCharacters
      /\ TextShownBy(tokens) = Before \o Segment /\ pending_bytes \in Bytes
      /\ Shown \o pending_bytes = TextShownBy(tokens)
  BY DEF StopInv, CharInv, Running, StopTypes
<1>2. /\ is_stopped' = FALSE /\ pending_bytes' = <<>> /\ t \in Resets \ StopTokens
      /\ emitted' = Append(emitted, pending_bytes \o TextOf[t])
      /\ Show(pending_bytes \o TextOf[t])
  BY <1>1 DEF ShowSpecial, Show, StopTypes
<1> DEFINE a == TextShownBy(tokens)
           b == TextOf[t]
<1>3. a \in Bytes /\ b \in Bytes /\ Piece(t) = b
  BY <1>1, <1>2, PieceTyped, CommitFacts DEF Piece
<1>4. TextShownBy(tokens') = a \o b /\ Segment' = <<>>
  BY <1>1, <1>2, <1>3, CommitFacts
<1>5. b # <<>> /\ Whole(b)
  BY <1>2, NamesAreText
<1>6. pending_bytes \o b \in Bytes
  BY <1>1, <1>3, Joining
<1>7. Shown' = a \o b
  <2>1. Shown' = Shown \o (pending_bytes \o b) /\ Shown \in Bytes
    BY <1>1, <1>2, <1>6, ShownNext
  <2>2. Shown \o (pending_bytes \o b) = (Shown \o pending_bytes) \o b
    BY <1>1, <1>3, <2>1, Joining
  <2> QED BY <1>1, <2>1, <2>2
<1>8. Characters(TextShownBy(tokens')) => Cut(TextShownBy(tokens'), Len(Shown'))
  <2> HIDE DEF a, b
  <2>1. Characters(a \o b) => Cut(a \o b, Len(a \o b))
    BY <1>3, <1>5, CutAtEnd
  <2> QED BY <1>4, <1>7, <2>1
<1>9. Len(emitted') = Len(tokens') /\ WholeCharacters'
  <2> DEFINE x == pending_bytes \o b
  <2>1. x \in Bytes /\ emitted' = Append(emitted, x)
    BY <1>2, <1>6
  <2>2. t \in StopTokens \cup Resets
    BY <1>2
  <2> HIDE DEF x
  <2> QED BY <1>1, <2>1, <2>2, WholeKept
<1>10. HeldBackForCause'
  <2>1. ASSUME NEW n \in Nat PROVE Take(<<>>, 0 - n) = <<>>
    <3>1. 0 - n < 1 /\ 0 - n \in Int
      OBVIOUS
    <3> QED BY <3>1, SubSeqEmpty DEF Take
  <2> DEFINE n == Longest(stops', Segment')
  <2>2. n \in Nat
    <3> DEFINE T == {0} \cup {j \in 1..Len(Segment') :
                       \E s \in stops' : j <= Len(s) /\ IsSuffix(Take(s, j), Segment')}
    <3>1. T = {0}
      <4>1. Len(Segment') = 0
        BY <1>4, Joining
      <4> QED BY <4>1
    <3>2. n = Max(T)
      BY DEF Longest
    <3> HIDE DEF T
    <3>3. 0 \in Nat /\ T \in SUBSET (0..0) /\ T # {}
      BY <3>1
    <3>4. Max(T) \in T
      BY <3>3, MaxIsGreatest
    <3> QED BY <3>1, <3>2, <3>4
  <2> HIDE DEF n
  <2>3. Take(pending_bytes', Len(pending_bytes') - n) = <<>>
    <3>1. Len(pending_bytes') = 0
      BY <1>2, Joining
    <3> QED BY <1>2, <2>1, <2>2, <3>1
  <2> QED BY <2>3 DEF HeldBackForCause, n, Longest
<1> QED BY <1>8, <1>9, <1>10 DEF CharInv

(* A match begins with a character.                                         *)
LEMMA StopAtMatchChars ==
  ASSUME StopInv, CharInv, ~is_stopped, ~poisoned, NEW t \in Tokens, StopAtMatch(t),
         tokens' = Append(tokens, t), UNCHANGED stops
  PROVE  CharInv'
<1>1. /\ StopTypes /\ Len(emitted) = Len(tokens) /\ WholeCharacters
      /\ TextShownBy(tokens) = Before \o Segment /\ stops \in StopSets
      /\ stops \subseteq Bytes /\ <<>> \notin stops /\ pending_bytes \in Bytes
  BY StopsTyped DEF StopInv, CharInv, StopTypes
<1>2. is_stopped' = TRUE /\ t \notin StopTokens \cup Resets
  BY DEF StopAtMatch
<1>3. StopInv'
  BY StopAtMatchStep
<1> DEFINE T == TextShownBy(tokens')
           S == Segment'
           k == Min(MatchEnds')
<1>4. /\ Last(tokens') = t /\ tokens' # <<>> /\ tokens' \in Seq(Tokens)
      /\ T = Before' \o S /\ Before' = Before /\ Before \in Bytes /\ S = Segment \o Piece(t)
      /\ Segment \in Bytes
      /\ MatchEnds' = {j \in 1..Len(S) : \E s \in stops : EndsAt(s, S, j)}
  BY <1>1, <1>2, CommitFacts
<1>5. S \in Bytes /\ T \in Bytes
  BY <1>4, PieceTyped, Joining
<1>6. MatchEnds' # {}
  <2>1. EndedByToken' = FALSE
    BY <1>2, <1>4 DEF EndedByToken
  <2>2. ~poisoned'
    BY DEF StopAtMatch
  <2> QED BY <1>2, <1>3, <2>1, <2>2 DEF StopInv, NothingDropped
<1> HIDE DEF T, S, k
<1>7. PICK s \in stops : IsSuffix(s, Take(S, k)) /\ Shown' = Before \o Take(S, k - Len(s))
  <2>1. ~poisoned'
    BY DEF StopAtMatch
  <2> QED BY <1>2, <1>3, <1>4, <1>6, <2>1 DEF StopInv, StopsBeforeFirstMatch, S, k
<1>8. k \in 1..Len(S) /\ k \in 0..Len(S) /\ Len(S) \in Nat
  <2> DEFINE E == MatchEnds'
  <2>1. E \in SUBSET Nat /\ E # {} /\ E \subseteq 1..Len(S) /\ Len(S) \in Nat
    BY <1>4, <1>5, <1>6, Joining
  <2>2. k = Min(E)
    BY DEF k
  <2> HIDE DEF E
  <2>3. Min(E) \in E
    BY <2>1, MinIsLeast
  <2>4. k \in 1..Len(S)
    BY <2>1, <2>2, <2>3
  <2> QED BY <2>1, <2>4
<1>9. s \in Bytes /\ Len(s) \in Nat \ {0} /\ Len(s) <= k /\ S[k - Len(s) + 1] = s[1]
  <2>1. s \in Bytes /\ s # <<>>
    BY <1>1
  <2>2. Len(s) \in Nat \ {0}
    BY <2>1, EmptySeq DEF Bytes
  <2>3. EndsAt(s, S, k)
    BY <1>5, <1>7, <1>8, <2>1, IsSuffixIs
  <2>4. 1 \in 1..Len(s)
    BY <2>2
  <2> QED BY <2>1, <2>2, <2>3, <2>4 DEF EndsAt
<1> DEFINE j == k - Len(s)
           B == Len(Before)
           u == Take(S, j)
<1>10. /\ j \in Nat /\ j \in 0..Len(S) /\ j + 1 <= Len(S) /\ CharLen(S[j + 1]) # 0
  <2>1. Whole(s) /\ s # <<>>
    BY <1>1, NamesAreText
  <2>2. CharLen(s[1]) # 0
    BY <1>9, <2>1, WholeStarts
  <2> QED BY <1>8, <1>9, <2>2
<1> HIDE DEF j
<1>11. u \in Bytes /\ Len(u) = j
  BY <1>5, <1>10, CutInTwo DEF Bytes
<1>12. /\ B \in Nat /\ Len(T) = B + Len(S)
       /\ \A i \in 1..(B + Len(S)) : T[i] = IF i <= B THEN Before[i] ELSE S[i - B]
  BY <1>4, <1>5, ConcatProperties, LenProperties DEF Bytes, T, S
<1> HIDE DEF u
<1>13. Shown' = Before \o u /\ Shown' \in Bytes /\ Len(Shown') = B + j
  <2>1. Shown' = Before \o u
    BY <1>7 DEF u, j
  <2>2. Before \in Bytes /\ u \in Bytes /\ Len(u) = j
    BY <1>4, <1>11
  <2>3. Before \o u \in Bytes /\ Len(Before \o u) = Len(Before) + Len(u)
    BY <2>2, Joining
  <2> QED BY <2>1, <2>2, <2>3
<1>14. Take(T, B + j) = Shown'
  <2>1. Take(Before \o S, B + j) = Before \o Take(S, j)
    BY <1>4, <1>5, <1>10, TakeOfConcat DEF Bytes
  <2> QED BY <1>4, <1>13, <2>1 DEF T, S, u
<1> HIDE DEF B
<1>15. Characters(T) => Whole(Shown')
  <2>1. /\ B + j \in Nat /\ B + j < Len(T) /\ B + j \in 0..Len(T)
        /\ (B + j) + 1 \in 1..(B + Len(S)) /\ ~((B + j) + 1 <= B) /\ ((B + j) + 1) - B = j + 1
    BY <1>8, <1>10, <1>12
  <2>2. T[(B + j) + 1] = S[j + 1]
    BY <1>12, <2>1
  <2> DEFINE n == B + j
  <2>3. n \in Nat /\ n < Len(T) /\ n \in 0..Len(T) /\ CharLen(T[n + 1]) # 0 /\ Take(T, n) = Shown'
    BY <1>10, <1>14, <2>1, <2>2
  <2> HIDE DEF n
  <2>4. Characters(T) => Cut(T, n)
    BY <1>5, <2>3, CutBeforeStart
  <2> QED BY <1>5, <2>3, <2>4, WholeIfCut
<1>16. PICK x \in Bytes : emitted' = Append(emitted, x)
  <2>1. emitted' \in Seq(Bytes)
    BY <1>3 DEF StopInv, StopTypes
  <2>2. \E x : emitted' = Append(emitted, x)
    BY Zenon DEF StopAtMatch, Show
  <2>3. PICK x : emitted' = Append(emitted, x)
    BY <2>2
  <2>4. x \in Bytes
    <3>1. emitted \in Seq(Bytes) /\ Len(emitted) \in Nat
      BY <1>1, LenProperties DEF StopTypes
    <3>2. Append(emitted, x) \in Seq(Bytes)
      BY <2>1, <2>3
    <3> DEFINE m == Len(emitted)
    <3>3. /\ Len(Append(emitted, x)) = m + 1 /\ Append(emitted, x)[m + 1] = x
      BY <3>1
    <3>4. m + 1 \in 1..Len(Append(emitted, x))
      BY <3>1, <3>3
    <3>5. Append(emitted, x)[m + 1] \in Bytes
      BY <3>2, <3>4, ElementOfSeq
    <3> QED BY <3>3, <3>5
  <2> QED BY <2>3, <2>4
<1>17. Len(emitted') = Len(tokens') /\ WholeCharacters'
  BY <1>1, <1>15, <1>16, WholeKept DEF T
<1>18. HeldBackForCause'
  BY <1>2 DEF HeldBackForCause
<1> QED BY <1>2, <1>17, <1>18 DEF CharInv
(* What is shown ends with a character, what is left over before the bytes  *)
(* that may become a match is part of one.                                  *)
LEMMA HoldBackChars ==
  ASSUME StopInv, CharInv, ~is_stopped, ~poisoned, NEW t \in Tokens, HoldBack(t),
         tokens' = Append(tokens, t), UNCHANGED stops
  PROVE  CharInv'
<1> DEFINE s == TextOf[t]
           buf == pending_bytes \o s
           ahead == PossibleLookaheadLen(state')
           to_return == Saturated(Len(buf) - ahead)
           data == Take(buf, to_return)
           v == ValidUtf8Len(data)
           T == TextShownBy(tokens')
           A == Len(Shown)
           left == pending_bytes'
<1>1. /\ StopTypes /\ Len(emitted) = Len(tokens) /\ WholeCharacters
      /\ TextShownBy(tokens) = Before \o Segment /\ pending_bytes \in Bytes
      /\ stops \subseteq Bytes /\ Shown \o pending_bytes = TextShownBy(tokens)
      /\ Characters(TextShownBy(tokens)) => Cut(TextShownBy(tokens), A)
  BY StopsTyped DEF StopInv, CharInv, Running, StopTypes
<1>2. /\ t \notin StopTokens \cup Resets /\ is_stopped' = FALSE
      /\ Show(Take(buf, v)) /\ left = Drop(buf, v)
      /\ emitted' = Append(emitted, Take(buf, v))
  BY DEF HoldBack, StopInv, StopTypes, Show
<1>3. s \in Bytes /\ Piece(t) = s
  BY <1>2, PieceTyped DEF Piece
<1>4. /\ T = TextShownBy(tokens) \o s /\ TextShownBy(tokens) \in Bytes
      /\ Segment' = Segment \o s /\ Segment \in Bytes
  BY <1>1, <1>2, <1>3, CommitFacts
<1>5. Shown \in Bytes /\ Len(Shown) \in Nat
  <2>1. Shown \in Bytes
    BY <1>1, FlattenAppend DEF StopTypes, Shown
  <2> QED BY <2>1, Joining
<1>6. buf \in Bytes /\ Len(buf) \in Nat /\ T \in Bytes /\ Segment' \in Bytes
  BY <1>1, <1>3, <1>4, Joining
<1>7. StopInv' /\ Running'
  <2>1. StopInv'
    BY HoldBackStep
  <2>2. ~poisoned'
    BY DEF HoldBack
  <2> QED BY <1>2, <2>1, <2>2 DEF StopInv
<1> HIDE DEF s, buf, T, A
<1>8. T = Shown \o buf
  <2>1. Shown \o (pending_bytes \o s) = (Shown \o pending_bytes) \o s
    BY <1>1, <1>3, <1>5, Joining
  <2> QED BY <1>1, <1>4, <2>1 DEF buf
<1>9. ahead = Longest(stops', Segment')
  <2> DEFINE S == Segment'
  <2>1. S \in Bytes /\ state' = Partial(S, Len(S))
    BY <1>6, <1>7 DEF Running, Partial
  <2> HIDE DEF S
  <2>2. Longest(stops, S) = PossibleLookaheadLen(Partial(S, Len(S)))
    BY <1>1, <2>1, LongestIsAhead
  <2> QED BY <2>1, <2>2 DEF S
<1>10. ahead \in 0..Len(left) /\ left \in Bytes /\ Len(left) \in Nat
  <2>1. left \in Bytes /\ Len(left) \in Nat
    BY <1>7, Joining DEF StopInv, StopTypes
  <2>2. \A p \in state' : Len(p) <= Len(left)
    BY <1>7 DEF Running
  <2>3. state' \in SUBSET Bytes
    BY <1>7 DEF Running, Partial
  <2>4. <<>> \in state'
    <3> DEFINE S == Segment'
    <3>1. S \in Bytes /\ Len(S) \in Nat
      BY <1>6, Joining
    <3> HIDE DEF S
    <3>2. EndsAt(<<>>, S, Len(S))
      BY <3>1, Joining DEF EndsAt
    <3>3. <<>> \in Partial(S, Len(S))
      BY <3>2, Joining DEF Partial
    <3>4. state' = Partial(S, Len(S))
      BY <1>7 DEF Running, Partial, S
    <3> QED BY <3>3, <3>4
  <2> DEFINE N == Len(left)
             st == state'
  <2> HIDE DEF N, st, ahead
  <2>5. st \in SUBSET Bytes /\ <<>> \in st /\ N \in Nat /\ \A p \in st : Len(p) <= N
    BY <2>1, <2>2, <2>3, <2>4 DEF N, st
  <2>6. PossibleLookaheadLen(st) \in 0..N
    BY <2>5, LookaheadIs
  <2> QED BY <2>1, <2>6 DEF N, st, ahead
<1> HIDE DEF ahead
<1>11. to_return \in 0..Len(buf) /\ (ahead <= Len(buf) => to_return = Len(buf) - ahead)
  <2> DEFINE d == Len(buf) - ahead
  <2>1. d \in Int /\ d <= Len(buf)
    BY <1>6, <1>10
  <2> HIDE DEF d
  <2>2. Saturated(d) = IF d <= 0 THEN 0 ELSE d
    BY <2>1, SaturatedIs
  <2>3. Saturated(d) \in 0..Len(buf) /\ (0 <= d => Saturated(d) = d)
    BY <1>6, <2>1, <2>2
  <2>4. ahead <= Len(buf) => 0 <= d
    BY <1>6, <1>10 DEF d
  <2> QED BY <2>3, <2>4 DEF d
<1> HIDE DEF to_return
<1>12. data \in Bytes /\ Len(data) = to_return /\ \A i \in 1..to_return : data[i] = buf[i]
  BY <1>6, <1>11, CutInTwo DEF Bytes
<1> HIDE DEF data
<1>13. v \in 0..to_return /\ v \in 0..Len(buf) /\ v \in Nat
  <2>1. v \in 0..Len(data)
    BY <1>12, ValidUtf8LenIs
  <2> QED BY <1>6, <1>11, <1>12, <2>1
<1> HIDE DEF v
<1>14. /\ Take(buf, v) \in Bytes /\ Len(Take(buf, v)) = v /\ Len(left) = Len(buf) - v
       /\ \A i \in 1..(Len(buf) - v) : left[i] = buf[v + i]
  <2>1. /\ Take(buf, v) \in Bytes /\ Len(Take(buf, v)) = v
        /\ Len(Drop(buf, v)) = Len(buf) - v
        /\ \A i \in 1..(Len(buf) - v) : Drop(buf, v)[i] = buf[v + i]
    BY <1>6, <1>13, CutInTwo DEF Bytes
  <2> QED BY <1>2, <2>1
<1> HIDE DEF left
<1>15. Shown' = Shown \o Take(buf, v) /\ Len(Shown') = A + v /\ A \in Nat
  <2>1. Shown' = Shown \o Take(buf, v)
    BY <1>1, <1>2, <1>14, ShownNext
  <2>2. Shown \in Bytes /\ Take(buf, v) \in Bytes /\ Len(Take(buf, v)) = v
    BY <1>5, <1>14
  <2>3. Len(Shown \o Take(buf, v)) = Len(Shown) + Len(Take(buf, v))
    BY <2>2, Joining
  <2> QED BY <1>5, <2>1, <2>2, <2>3 DEF A
<1>16. /\ Len(T) = A + Len(buf)
       /\ \A i \in 1..(A + Len(buf)) : T[i] = IF i <= A THEN Shown[i] ELSE buf[i - A]
  BY <1>5, <1>6, <1>8, ConcatProperties DEF Bytes, A
<1>17. Take(T, A + v) = Shown'
  <2>1. Take(Shown \o buf, Len(Shown) + v) = Shown \o Take(buf, v)
    BY <1>5, <1>6, <1>13, TakeOfConcat DEF Bytes
  <2> QED BY <1>8, <1>15, <2>1 DEF A
<1>18. ASSUME Characters(T)
       PROVE  /\ Cut(T, A + v)
              /\ v < to_return => CharLen(data[v + 1]) > to_return - v
  <2>1. Cut(T, A)
    <3> DEFINE old == TextShownBy(tokens)
    <3>1. /\ old \in Bytes /\ Len(old) \in Nat /\ A <= Len(old) /\ Len(old) <= Len(T)
          /\ \A i \in 1..Len(old) : T[i] = old[i]
      <4>1. Len(old) = A + Len(pending_bytes) /\ Len(pending_bytes) \in Nat /\ old \in Bytes
        BY <1>1, <1>4, <1>5, Joining DEF A
      <4>2. /\ Len(T) = Len(old) + Len(s) /\ Len(s) \in Nat /\ Len(old) \in Nat
            /\ \A i \in 1..(Len(old) + Len(s)) :
                 T[i] = IF i <= Len(old) THEN old[i] ELSE s[i - Len(old)]
        BY <1>3, <1>4, ConcatProperties, LenProperties DEF Bytes
      <4> HIDE DEF old
      <4> QED BY <1>15, <4>1, <4>2
    <3> HIDE DEF old
    <3>2. Characters(old)
      BY <1>6, <1>18, <3>1, CharactersOfPrefix
    <3>3. Cut(old, A)
      BY <1>1, <3>2 DEF old
    <3>4. \A i \in 1..A : T[i] = old[i]
      BY <1>15, <3>1
    <3> QED BY <3>3, <3>4 DEF Cut
  <2>2. \A i \in 1..to_return : data[i] = T[A + i]
    <3>1. ASSUME NEW i \in 1..to_return PROVE data[i] = T[A + i]
      <4>1. A + i \in 1..(A + Len(buf)) /\ ~(A + i <= A) /\ (A + i) - A = i
        BY <1>6, <1>11, <1>15
      <4> QED BY <1>12, <1>16, <4>1
    <3> QED BY <3>1
  <2>3. A + Len(data) <= Len(T)
    BY <1>6, <1>11, <1>12, <1>15, <1>16
  <2>4. /\ Cut(T, A + ValidUtf8Len(data))
        /\ ValidUtf8Len(data) < Len(data)
             => CharLen(data[ValidUtf8Len(data) + 1]) > Len(data) - ValidUtf8Len(data)
    BY <1>6, <1>12, <1>15, <1>18, <2>1, <2>2, <2>3, ValidCut
  <2> QED BY <1>12, <2>4 DEF v
<1>19. Characters(T) => Whole(Shown')
  <2> DEFINE n == A + v
  <2>1. n \in 0..Len(T)
    BY <1>6, <1>13, <1>15, <1>16
  <2> HIDE DEF n
  <2>2. Characters(T) => Whole(Take(T, n))
    <3>1. Characters(T) => Cut(T, n)
      BY <1>18 DEF n
    <3> QED BY <1>6, <2>1, <3>1, WholeIfCut
  <2> QED BY <1>17, <2>2 DEF n
<1>20. Len(emitted') = Len(tokens') /\ WholeCharacters'
  <2> DEFINE x == Take(buf, v)
  <2>1. x \in Bytes /\ emitted' = Append(emitted, x)
    BY <1>2, <1>14
  <2> HIDE DEF x
  <2> QED BY <1>1, <1>19, <2>1, WholeKept DEF T
<1>21. HeldBackForCause'
  <2> DEFINE rest == Take(left, Len(left) - ahead)
             r == to_return - v
  <2>1. Len(left) - ahead = r /\ r \in 0..Len(left) /\ ahead <= Len(buf)
    <3>1. ahead <= Len(left) /\ Len(left) <= Len(buf) /\ ahead \in Nat
      BY <1>6, <1>10, <1>13, <1>14
    <3>2. ahead <= Len(buf)
      BY <1>6, <1>10, <3>1
    <3>3. to_return = Len(buf) - ahead
      BY <1>11, <3>2
    <3> QED BY <1>6, <1>10, <1>13, <1>14, <3>2, <3>3
  <2>2. rest \in Bytes /\ Len(rest) = r /\ \A i \in 1..r : rest[i] = left[i]
    <3>1. left \in Seq(Byte) /\ r \in 0..Len(left)
      BY <1>10, <2>1 DEF Bytes
    <3>2. rest = Take(left, r)
      BY <2>1
    <3> HIDE DEF rest, r
    <3>3. /\ Take(left, r) \in Seq(Byte) /\ Len(Take(left, r)) = r
          /\ \A i \in 1..r : Take(left, r)[i] = left[i]
      BY <3>1, CutInTwo
    <3> QED BY <3>2, <3>3 DEF Bytes
  <2>3. ASSUME Characters(T) PROVE rest = <<>> \/ CharLen(Head(rest)) > Len(rest)
    <3>1. CASE r = 0
      <4> HIDE DEF rest
      <4>1. Len(rest) = 0
        BY <2>2, <3>1
      <4> QED BY <2>2, <4>1, EmptySeq DEF Bytes
    <3>2. CASE r # 0
      <4>1. /\ v < to_return /\ 1 \in 1..r /\ 1 \in 1..(Len(buf) - v)
            /\ v + 1 \in 1..to_return
        BY <1>6, <1>11, <1>13, <2>1, <3>2
      <4>2. rest[1] = data[v + 1]
        BY <1>12, <1>14, <2>2, <4>1
      <4>3. CharLen(data[v + 1]) > r
        BY <1>18, <2>3, <4>1
      <4> HIDE DEF rest, r
      <4>4. Head(rest) = rest[1]
        BY <2>2
      <4> QED BY <2>2, <4>2, <4>3, <4>4
    <3> QED BY <3>1, <3>2
  <2> HIDE DEF rest, r
  <2>4. rest = Take(pending_bytes', Len(pending_bytes') - Longest(stops', Segment'))
    BY <1>9 DEF rest, left
  <2> QED BY <2>3, <2>4 DEF HeldBackForCause, Longest, T
<1>22. Characters(T) => Cut(T, Len(Shown'))
  BY <1>15, <1>18
<1> QED BY <1>20, <1>21, <1>22 DEF CharInv, T

(* Nothing shown is whole.                                                  *)
LEMMA CharInit == Init => CharInv
<1> SUFFICES ASSUME Init PROVE CharInv
  OBVIOUS
<1>1. pending_bytes = <<>> /\ tokens = <<>> /\ emitted = <<>> /\ is_stopped = FALSE
  BY DEF Init
<1>2. Len(emitted) = Len(tokens) /\ Len(tokens) = 0
  BY <1>1, Joining
<1>3. WholeCharacters
  BY <1>2 DEF WholeCharacters
<1>4. StopInv
  BY StopInit
<1> DEFINE n == Longest(stops, Segment)
<1>5. n = PossibleLookaheadLen(state) /\ state = {<<>>}
  <2>1. Segment \in Bytes /\ stops \subseteq Bytes
    <3>1. Segment = SegmentOf(tokens) /\ tokens \in Seq(Tokens)
      BY <1>4 DEF Segment, SegmentOf, LastReset, ResetOf, StopInv, StopTypes
    <3>2. ResetOf(tokens) \in 0..Len(tokens)
      BY <3>1, ResetIs
    <3>3. Drop(tokens, ResetOf(tokens)) \in Seq(Tokens)
      BY <3>1, <3>2, CutInTwo
    <3>4. TextShownBy(Drop(tokens, ResetOf(tokens))) \in Bytes
      BY <1>1, <3>3, TextOfTyped
    <3> QED BY <1>4, <3>1, <3>4, StopsTyped DEF SegmentOf, StopInv
  <2>2. state = Partial(Segment, Len(Segment))
    BY <1>1, <1>4 DEF StopInv, Running, Init
  <2>3. state = {<<>>}
    BY DEF Init, InitialState
  <2> QED BY <2>1, <2>2, <2>3, LongestIsAhead
<1> HIDE DEF n
<1>6. n = 0
  <2> DEFINE st == {<<>>}
  <2>1. st \in SUBSET Bytes /\ <<>> \in st /\ 0 \in Nat /\ \A p \in st : Len(p) <= 0
    BY Joining
  <2> HIDE DEF st
  <2>2. PossibleLookaheadLen(st) \in 0..0
    BY <2>1, LookaheadIs
  <2> QED BY <1>5, <2>2 DEF st
<1>7. HeldBackForCause
  <2>1. Take(pending_bytes, Len(pending_bytes) - n) = <<>>
    <3>1. Len(pending_bytes) - n = 0
      BY <1>1, <1>6, Joining
    <3>2. Take(<<>>, 0) = <<>>
      BY SubSeqEmpty DEF Take
    <3> QED BY <1>1, <3>1, <3>2
  <2> QED BY <2>1 DEF HeldBackForCause, n, Longest
<1>8. Cut(TextShownBy(tokens), Len(Shown))
  BY <1>1, FlattenEmpty, Joining DEF Shown, Cut
<1> QED BY <1>2, <1>3, <1>7, <1>8 DEF CharInv

(* After a panic the text is not characters.                                *)
LEMMA PoisonedChars ==
  ASSUME StopInv, CharInv, CharacterInv, NEW t \in Tokens, CommitToken(t), poisoned'
  PROVE  CharInv'
<1>1. ~Characters(TextShownBy(tokens'))
  BY CharacterStep DEF CharacterInv
<1>2. Len(emitted') = Len(tokens')
  <2>1. /\ emitted \in Seq(Bytes) /\ tokens \in Seq(Tokens) /\ Len(emitted) = Len(tokens)
        /\ tokens' = Append(tokens, t) /\ \E x : emitted' = Append(emitted, x)
    BY Zenon DEF CommitToken, StopAtToken, ShowSpecial, StopAtMatch, HoldBack, Panic, Show,
       StopInv, StopTypes, CharInv
  <2>2. \A S, q, x : q \in Seq(S) => Len(Append(q, x)) = Len(q) + 1
    OBVIOUS
  <2> QED BY <2>1, <2>2
<1> QED BY <1>1, <1>2 DEF CharInv, WholeCharacters, HeldBackForCause

(* Every step keeps the invariants.                                         *)
LEMMA CharStep == StopInv /\ CharInv /\ CharacterInv /\ [Next]_vars => CharInv'
<1> SUFFICES ASSUME StopInv, CharInv, CharacterInv, [Next]_vars PROVE CharInv'
  OBVIOUS
<1>1. CASE UNCHANGED vars
  BY <1>1 DEF vars, CharInv, WholeCharacters, HeldBackForCause, Segment, LastReset, Shown
<1>2. CASE CommitWhenStopped
  BY <1>2 DEF CommitWhenStopped, vars, CharInv, WholeCharacters, HeldBackForCause, Segment,
     LastReset, Shown
<1>3. ASSUME NEW t \in Tokens, CommitToken(t) PROVE CharInv'
  <2>1. ~is_stopped /\ tokens' = Append(tokens, t) /\ UNCHANGED stops
    BY <1>3 DEF CommitToken
  <2>2. CASE StopAtToken(t)
    BY <1>3, <2>1, <2>2, StopAtTokenChars, PoisonedChars DEF StopAtToken
  <2>3. CASE ShowSpecial(t)
    BY <1>3, <2>1, <2>3, ShowSpecialChars, PoisonedChars DEF ShowSpecial
  <2>4. CASE StopAtMatch(t)
    <3>1. ~poisoned
      BY <2>4 DEF StopAtMatch
    <3> QED BY <2>1, <2>4, <3>1, StopAtMatchChars
  <2>5. CASE HoldBack(t)
    <3>1. ~poisoned
      BY <2>5 DEF HoldBack
    <3> QED BY <2>1, <2>5, <3>1, HoldBackChars
  <2>6. CASE Panic(t)
    BY <1>3, <2>6, PoisonedChars DEF Panic
  <2> QED BY <1>3, <2>2, <2>3, <2>4, <2>5, <2>6 DEF CommitToken
<1> QED BY <1>1, <1>2, <1>3 DEF Next

(* When the tokens spell characters, what the calls return up to any        *)
(* ordinary token is whole characters, however tokens split them: no call   *)
(* of commit_token() returns a replacement character.                       *)
THEOREM NoCharacterSplit == Spec => []WholeCharacters
<1>1. CharInv => WholeCharacters
  BY DEF CharInv
<1> QED BY <1>1, StopInit, StopStep, CharacterInit, CharacterNext, CharInit, CharStep, PTL
    DEF Spec

(* What is held back is an incomplete character, then the longest text that *)
(* may still become a match: nothing waits without need.                    *)
THEOREM NothingHeldForLong == Spec => []HeldBackForCause
<1>1. CharInv => HeldBackForCause
  BY DEF CharInv
<1> QED BY <1>1, StopInit, StopStep, CharacterInit, CharacterNext, CharInit, CharStep, PTL
    DEF Spec
=============================================================================
