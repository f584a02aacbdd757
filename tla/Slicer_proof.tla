---------------------------- MODULE Slicer_proof ----------------------------
(***************************************************************************)
(* Masks of tokens by slices, for every vocabulary, list of slices, language*)
(* and start.  First the walks, for every trie laid out in preorder: the   *)
(* recognizer's stack follows the trie, and a walk collects exactly the    *)
(* tokens that the language allows.  Then the tries the builder makes of a *)
(* vocabulary: they are in preorder and hold exactly the tokens of the mask.*)
(* Last the slicer: whatever slices are applied, its mask and the tries it *)
(* leaves to walk are together for exactly the tokens the grammar allows.  *)
(***************************************************************************)
EXTENDS Slicer, Induction_proof, SequenceTheorems, FiniteSetTheorems

-----------------------------------------------------------------------------
(* The shape of a trie.                                                     *)

(* Sizes and ends of subtrees.                                              *)
LEMMA Shape ==
  ASSUME NEW nodes, Preorder(nodes)
  PROVE  /\ Len(nodes) \in Nat \ {0} /\ DOMAIN nodes = 1..Len(nodes)
         /\ \A n \in 1..Len(nodes) :
              NextNode(nodes, n) \in (n + 1)..(Len(nodes) + 1)
         /\ NextNode(nodes, 1) = Len(nodes) + 1
         /\ \A m, n \in 1..Len(nodes) :
              m < n /\ n < NextNode(nodes, m) => NextNode(nodes, n) <= NextNode(nodes, m)
<1> DEFINE N == Len(nodes)
<1>1. N \in Nat \ {0} /\ DOMAIN nodes = 1..N
  <2>1. nodes \in Seq(Range(nodes)) /\ nodes # <<>>
    BY DEF Preorder
  <2>2. Len(nodes) \in Nat /\ DOMAIN nodes = 1..Len(nodes)
    BY <2>1, LenProperties
  <2>3. Len(nodes) # 0
    BY <2>1, EmptySeq
  <2> QED BY <2>2, <2>3
<1> HIDE DEF N
<1>2. NextNode(nodes, 1) = N + 1
  BY DEF Preorder, N
<1>3. \A m, n \in 1..N : m < n /\ n < NextNode(nodes, m) => NextNode(nodes, n) <= NextNode(nodes, m)
  <2>1. \A m \in 1..N : NextNode(nodes, m) \in Nat
    BY <1>1 DEF Preorder, NextNode
  <2>2. \A m \in 1..N : \A n \in (m + 1)..(NextNode(nodes, m) - 1) :
          NextNode(nodes, n) <= NextNode(nodes, m)
    BY <1>1 DEF Preorder
  <2>3. ASSUME NEW m \in 1..N, NEW n \in 1..N, m < n, n < NextNode(nodes, m)
        PROVE  n \in (m + 1)..(NextNode(nodes, m) - 1)
    BY <1>1, <2>1, <2>3
  <2> QED BY <2>2, <2>3
<1>4. ASSUME NEW n \in 1..N PROVE NextNode(nodes, n) \in (n + 1)..(N + 1)
  <2>1. NextNode(nodes, n) \in Nat /\ NextNode(nodes, n) > n
    BY <1>1 DEF Preorder, NextNode
  <2>2. NextNode(nodes, n) <= N + 1
    <3>1. CASE n = 1
      BY <1>1, <1>2, <3>1
    <3>2. CASE n # 1
      <4>1. 1 \in 1..N /\ 1 < n /\ n < NextNode(nodes, 1)
        BY <1>1, <1>2, <3>2
      <4> QED BY <1>2, <1>3, <4>1
    <3> QED BY <3>1, <3>2
  <2> QED BY <1>1, <2>1, <2>2
<1> QED BY <1>1, <1>2, <1>3, <1>4 DEF N

(* The parent of a node is the last node before it whose subtree it is in.  *)
LEMMA ParentFacts ==
  ASSUME NEW nodes, Preorder(nodes), NEW n \in 2..Len(nodes)
  PROVE  /\ Parent(nodes, n) \in 1..(n - 1)
         /\ NextNode(nodes, Parent(nodes, n)) > n
         /\ \A m \in 1..(n - 1) : m > Parent(nodes, n) => NextNode(nodes, m) <= n
<1> DEFINE T == {m \in 1..(n - 1) : NextNode(nodes, m) > n}
           par == Parent(nodes, n)
<1>1. /\ Len(nodes) \in Nat /\ n \in Nat /\ n <= Len(nodes) /\ n > 1
      /\ \A m \in 1..(n - 1) : NextNode(nodes, m) \in Nat
      /\ NextNode(nodes, 1) = Len(nodes) + 1
  BY Shape
<1>2. 1 \in T
  BY <1>1
<1>3. T \in SUBSET (0..n) /\ T # {}
  BY <1>1, <1>2
<1>4. par = Max(T)
  BY DEF Parent
<1> HIDE DEF T, par
<1>5. \E m \in T : \A i \in T : m >= i
  BY <1>1, <1>3, GreatestNumber
<1>6. Max(T) \in T /\ \A i \in T : Max(T) >= i
  BY <1>5, Zenon DEF Max
<1>7. par \in T /\ \A i \in T : par >= i
  BY <1>4, <1>6
<1>8. par \in 1..(n - 1) /\ NextNode(nodes, par) > n
  BY <1>7 DEF T
<1>9. ASSUME NEW m \in 1..(n - 1), m > par PROVE NextNode(nodes, m) <= n
  <2>1. m \notin T
    BY <1>1, <1>7, <1>8, <1>9
  <2>2. ~(NextNode(nodes, m) > n)
    BY <2>1 DEF T
  <2> QED BY <1>1, <2>2
<1> QED BY <1>8, <1>9 DEF par

(* The node that a walk would visit last before q, among those not in q's   *)
(* subtree's siblings, is q's parent.                                       *)
LEMMA ParentIs ==
  ASSUME NEW nodes, Preorder(nodes), NEW n \in 2..Len(nodes), NEW m \in 1..(n - 1),
         NextNode(nodes, m) > n,
         \A i \in 1..(n - 1) : i > m => NextNode(nodes, i) <= n
  PROVE  Parent(nodes, n) = m
<1>1. /\ Parent(nodes, n) \in 1..(n - 1) /\ NextNode(nodes, Parent(nodes, n)) > n
      /\ \A i \in 1..(n - 1) : i > Parent(nodes, n) => NextNode(nodes, i) <= n
  BY ParentFacts
<1>2. \A i \in 1..(n - 1) : NextNode(nodes, i) \in Nat
  BY Shape
<1> QED BY <1>1, <1>2

-----------------------------------------------------------------------------
(* Paths.                                                                   *)

(* The nodes below another one.                                             *)
Below(nodes, first) == (first + 1)..(NextNode(nodes, first) - 1)
BytesOf(nodes) == {nodes[n].byte : n \in 1..Len(nodes)}

(* The parent of a node below first is first or below it.                   *)
LEMMA ParentWithin ==
  ASSUME NEW nodes, Preorder(nodes), NEW first \in 1..Len(nodes),
         NEW n \in Below(nodes, first)
  PROVE  /\ n \in 2..Len(nodes)
         /\ Parent(nodes, n) \in first..(n - 1)
         /\ Parent(nodes, n) # first => Parent(nodes, n) \in Below(nodes, first)
<1>1. /\ Len(nodes) \in Nat /\ NextNode(nodes, first) \in (first + 1)..(Len(nodes) + 1)
      /\ n \in Int /\ first \in Nat
  BY Shape DEF Below
<1>2. n \in 2..Len(nodes) /\ first \in 1..(n - 1) /\ NextNode(nodes, first) > n
  BY <1>1 DEF Below
<1>3. /\ Parent(nodes, n) \in 1..(n - 1)
      /\ \A m \in 1..(n - 1) : m > Parent(nodes, n) => NextNode(nodes, m) <= n
  BY <1>2, ParentFacts
<1>4. Parent(nodes, n) \in first..(n - 1)
  BY <1>1, <1>2, <1>3
<1>5. Parent(nodes, n) # first => Parent(nodes, n) \in Below(nodes, first)
  BY <1>1, <1>2, <1>4 DEF Below
<1> QED BY <1>2, <1>4, <1>5

(* The paths of all nodes up to n.                                          *)
PathStep(f, nodes, first, m) ==
  IF Parent(nodes, m) = first THEN <<>>
  ELSE Append(f[Parent(nodes, m)], nodes[Parent(nodes, m)].byte)
Paths(f, nodes, first, n) ==
  f = [m \in (first + 1)..n |-> PathStep(f, nodes, first, m)]

(* There are such paths.                                                    *)
LEMMA PathsExist ==
  ASSUME NEW nodes, Preorder(nodes), NEW first \in 1..Len(nodes),
         NEW n \in Below(nodes, first)
  PROVE  \E f : Paths(f, nodes, first, n)
<1> DEFINE Good == {k \in Nat : \E f : Paths(f, nodes, first, first + k)}
           N == n - first
<1>1. /\ Len(nodes) \in Nat /\ first \in Nat /\ N \in Nat /\ n = first + N
      /\ NextNode(nodes, first) \in Nat
      /\ \A k \in 1..N : first + k \in Below(nodes, first)
  BY Shape DEF Below
<1> HIDE DEF N
<1>2. 0 \in Good
  <2> DEFINE g == [m \in (first + 1)..(first + 0) |-> <<>>]
  <2>1. (first + 1)..(first + 0) = {}
    BY <1>1
  <2>2. g = [m \in (first + 1)..(first + 0) |-> PathStep(g, nodes, first, m)]
    BY <2>1
  <2>3. Paths(g, nodes, first, first + 0)
    BY <2>2 DEF Paths
  <2> QED BY <2>3
<1>3. ASSUME NEW k \in 0..(N - 1), k \in Good PROVE k + 1 \in Good
  <2>1. PICK f : Paths(f, nodes, first, first + k)
    BY <1>3
  <2> DEFINE q == first + (k + 1)
             par == Parent(nodes, q)
             dom == (first + 1)..q
             g == [m \in dom |-> IF m = q THEN PathStep(f, nodes, first, q) ELSE f[m]]
             h == [m \in dom |-> PathStep(g, nodes, first, m)]
  <2>2. /\ q \in Below(nodes, first) /\ q \in dom /\ q \in Nat
        /\ (first + 1)..(first + k) = dom \ {q}
    BY <1>1
  <2> HIDE DEF q, dom
  <2>3. ASSUME NEW m \in dom PROVE g[m] = PathStep(g, nodes, first, m)
    <3>1. m \in Below(nodes, first) /\ m <= q /\ m \in Nat
      BY <1>1, <2>2 DEF dom, Below
    <3>2. /\ Parent(nodes, m) \in first..(m - 1)
      BY <3>1, ParentWithin
    <3>3. Parent(nodes, m) # first => /\ Parent(nodes, m) \in dom \ {q}
      BY <1>1, <2>2, <3>1, <3>2 DEF dom
    <3>4. Parent(nodes, m) # first => g[Parent(nodes, m)] = f[Parent(nodes, m)]
      BY <3>3
    <3>5. PathStep(g, nodes, first, m) = PathStep(f, nodes, first, m)
      <4> HIDE DEF g
      <4> QED BY <3>4 DEF PathStep
    <3>6. g[m] = PathStep(f, nodes, first, m)
      <4>1. CASE m = q
        BY <4>1
      <4>2. CASE m # q
        <5>1. m \in (first + 1)..(first + k)
          BY <2>2, <4>2
        <5>2. f[m] = PathStep(f, nodes, first, m)
          BY <2>1, <5>1 DEF Paths
        <5> QED BY <4>2, <5>2
      <4> QED BY <4>1, <4>2
    <3> QED BY <3>5, <3>6
  <2>4. g = h
    <3>1. \A m \in dom : g[m] = h[m]
      BY <2>3
    <3> QED BY <3>1
  <2>5. Paths(g, nodes, first, first + (k + 1))
    BY <2>4 DEF Paths, dom, q
  <2>6. k + 1 \in Nat
    OBVIOUS
  <2> QED BY <2>5, <2>6
<1> HIDE DEF Good
<1>4. \A k \in 0..N : k \in Good
  BY <1>1, <1>2, <1>3, UpTo
<1>5. N \in Good
  BY <1>1, <1>4
<1> QED BY <1>1, <1>5 DEF Good

(* The paths up to two nodes agree.                                         *)
LEMMA PathsAgree ==
  ASSUME NEW nodes, Preorder(nodes), NEW first \in 1..Len(nodes),
         NEW n \in Below(nodes, first), NEW q \in Below(nodes, first), q <= n,
         NEW f, Paths(f, nodes, first, n), NEW g, Paths(g, nodes, first, q)
  PROVE  \A m \in (first + 1)..q : f[m] = g[m]
<1> DEFINE Bad == {m \in (first + 1)..q : f[m] # g[m]}
<1> SUFFICES ASSUME Bad # {} PROVE FALSE
  OBVIOUS
<1>1. first \in Nat /\ n \in Int /\ q \in Int /\ NextNode(nodes, first) \in Nat
  BY Shape DEF Below
<1>2. Bad \in SUBSET Nat
  BY <1>1
<1>3. PICK m \in Bad : \A i \in Bad : m <= i
  <2> HIDE DEF Bad
  <2> QED BY <1>2, LeastNumber
<1>4. /\ m \in (first + 1)..q /\ m \in (first + 1)..n /\ f[m] # g[m]
      /\ m \in Below(nodes, first) /\ m \in Nat
  BY <1>1, <1>3 DEF Below
<1>5. Parent(nodes, m) \in first..(m - 1)
  BY <1>4, ParentWithin
<1>6. Parent(nodes, m) # first => Parent(nodes, m) \in (first + 1)..q
  BY <1>1, <1>4, <1>5
<1>7. Parent(nodes, m) # first => f[Parent(nodes, m)] = g[Parent(nodes, m)]
  <2> SUFFICES ASSUME Parent(nodes, m) # first,
                      f[Parent(nodes, m)] # g[Parent(nodes, m)]
               PROVE  FALSE
    OBVIOUS
  <2>1. Parent(nodes, m) \in Bad
    BY <1>6
  <2> HIDE DEF Bad
  <2> QED BY <1>3, <1>4, <1>5, <2>1
<1>8. f[m] = PathStep(f, nodes, first, m) /\ g[m] = PathStep(g, nodes, first, m)
  BY <1>4 DEF Paths
<1> QED BY <1>4, <1>7, <1>8 DEF PathStep

(* PathFrom() gives such paths.                                             *)
LEMMA PathFromPaths ==
  ASSUME NEW nodes, Preorder(nodes), NEW first \in 1..Len(nodes),
         NEW n \in Below(nodes, first)
  PROVE  \E f : Paths(f, nodes, first, n) /\ PathFrom(nodes, first, n) = f[n]
<1> DEFINE P(g) == g = [m \in (first + 1)..n |->
                          IF Parent(nodes, m) = first THEN <<>>
                          ELSE Append(g[Parent(nodes, m)], nodes[Parent(nodes, m)].byte)]
           f == CHOOSE g : P(g)
<1>1. PathFrom(nodes, first, n) = f[n]
  BY Zenon DEF PathFrom
<1> HIDE DEF f
<1>2. \E g : P(g)
  <2>1. PICK g : Paths(g, nodes, first, n)
    BY PathsExist
  <2>2. P(g)
    BY <2>1 DEF Paths, PathStep
  <2> HIDE DEF P
  <2> QED BY <2>2
<1> HIDE DEF P
<1>3. P(f)
  BY <1>2, Zenon DEF f
<1>4. Paths(f, nodes, first, n)
  BY <1>3 DEF P, Paths, PathStep
<1> QED BY <1>1, <1>4

(* The path to a node is the path to its parent with the parent's byte.     *)
LEMMA PathIs ==
  ASSUME NEW nodes, Preorder(nodes), NEW first \in 1..Len(nodes),
         NEW n \in Below(nodes, first)
  PROVE  PathFrom(nodes, first, n) =
           IF Parent(nodes, n) = first THEN <<>>
           ELSE Append(PathFrom(nodes, first, Parent(nodes, n)), nodes[Parent(nodes, n)].byte)
<1> DEFINE par == Parent(nodes, n)
<1>1. PICK f : Paths(f, nodes, first, n) /\ PathFrom(nodes, first, n) = f[n]
  BY PathFromPaths
<1>2. first \in Nat /\ n \in Int /\ n >= first + 1
  BY Shape DEF Below
<1>3. f[n] = PathStep(f, nodes, first, n)
  BY <1>1, <1>2 DEF Paths
<1>4. par \in first..(n - 1) /\ (par # first => par \in Below(nodes, first))
  BY ParentWithin
<1> HIDE DEF par
<1>5. ASSUME par # first PROVE PathFrom(nodes, first, par) = f[par]
  <2>1. PICK g : Paths(g, nodes, first, par) /\ PathFrom(nodes, first, par) = g[par]
    BY <1>4, <1>5, PathFromPaths
  <2>2. par \in Below(nodes, first) /\ par <= n
    BY <1>2, <1>4, <1>5
  <2>3. \A m \in (first + 1)..par : f[m] = g[m]
    BY <1>1, <2>1, <2>2, PathsAgree
  <2>4. par \in (first + 1)..par
    BY <1>2, <1>4, <1>5
  <2> QED BY <2>1, <2>3, <2>4
<1> QED BY <1>1, <1>3, <1>5 DEF PathStep, par

(* A path is a sequence of bytes.                                           *)
LEMMA PathType ==
  ASSUME NEW nodes, Preorder(nodes), NEW first \in 1..Len(nodes),
         NEW n \in Below(nodes, first)
  PROVE  PathFrom(nodes, first, n) \in Seq(BytesOf(nodes))
<1> DEFINE Bad == {m \in Below(nodes, first) : PathFrom(nodes, first, m) \notin Seq(BytesOf(nodes))}
<1> SUFFICES ASSUME Bad # {} PROVE FALSE
  OBVIOUS
<1>1. /\ first \in Nat /\ NextNode(nodes, first) \in (first + 1)..(Len(nodes) + 1)
      /\ Len(nodes) \in Nat
  BY Shape
<1>2. Bad \in SUBSET Nat
  BY <1>1 DEF Below
<1>3. PICK m \in Bad : \A i \in Bad : m <= i
  <2> HIDE DEF Bad
  <2> QED BY <1>2, LeastNumber
<1> DEFINE par == Parent(nodes, m)
<1>4. m \in Below(nodes, first) /\ PathFrom(nodes, first, m) \notin Seq(BytesOf(nodes))
  BY <1>3
<1>5. /\ par \in first..(m - 1) /\ (par # first => par \in Below(nodes, first))
      /\ PathFrom(nodes, first, m) =
           IF par = first THEN <<>>
           ELSE Append(PathFrom(nodes, first, par), nodes[par].byte)
  BY <1>4, ParentWithin, PathIs
<1> HIDE DEF par
<1>6. par # first => par \notin Bad
  <2> HIDE DEF Bad
  <2>1. m \in Nat
    BY <1>2, <1>3
  <2> QED BY <1>1, <1>3, <1>5, <2>1
<1>7. par # first => PathFrom(nodes, first, par) \in Seq(BytesOf(nodes))
  BY <1>5, <1>6
<1>8. par \in 1..Len(nodes)
  BY <1>1, <1>4, <1>5 DEF Below
<1>9. nodes[par].byte \in BytesOf(nodes)
  BY <1>8 DEF BytesOf
<1>10. PathFrom(nodes, first, m) \in Seq(BytesOf(nodes))
  <2>1. <<>> \in Seq(BytesOf(nodes))
    BY EmptySeq
  <2> QED BY <1>5, <1>7, <1>9, <2>1, AppendProperties
<1> QED BY <1>4, <1>10

-----------------------------------------------------------------------------
(* Popping.                                                                 *)

(* The bytes from first down to a node.                                     *)
TextFrom(nodes, first, n) == Append(PathFrom(nodes, first, n), nodes[n].byte)

(* The bytes down to a node, its length and how to pop it.                  *)
LEMMA TextFacts ==
  ASSUME NEW nodes, Preorder(nodes), NEW first \in 1..Len(nodes),
         NEW n \in Below(nodes, first)
  PROVE  /\ PathFrom(nodes, first, n) \in Seq(BytesOf(nodes))
         /\ TextFrom(nodes, first, n) \in Seq(BytesOf(nodes))
         /\ Len(PathFrom(nodes, first, n)) \in Nat
         /\ Len(TextFrom(nodes, first, n)) = Len(PathFrom(nodes, first, n)) + 1
         /\ \A k \in Nat : k <= Len(PathFrom(nodes, first, n)) =>
              Pop(TextFrom(nodes, first, n), k + 1) = Pop(PathFrom(nodes, first, n), k)
         /\ Pop(TextFrom(nodes, first, n), 0) = TextFrom(nodes, first, n)
<1> DEFINE s == PathFrom(nodes, first, n)
           b == nodes[n].byte
           S == BytesOf(nodes)
           t == Append(s, b)
<1>1. s \in Seq(S)
  BY PathType
<1>2. b \in S
  <2>1. n \in 1..Len(nodes)
    <3>1. n \in 2..Len(nodes)
      BY ParentWithin
    <3> QED BY <3>1
  <2> QED BY <2>1 DEF BytesOf
<1>3. t = TextFrom(nodes, first, n)
  BY DEF TextFrom
<1> HIDE DEF s, b, S, t
<1>4. /\ t \in Seq(S) /\ Len(s) \in Nat /\ Len(t) = Len(s) + 1
      /\ \A i \in 1..Len(s) : t[i] = s[i]
  BY <1>1, <1>2, AppendProperties, LenProperties DEF t
<1>5. ASSUME NEW k \in Nat, k <= Len(s) PROVE Pop(t, k + 1) = Pop(s, k)
  <2> DEFINE m == Len(s) - k
  <2>1. m \in 0..Len(s) /\ m <= Len(t) /\ Len(t) - (k + 1) = m
    BY <1>4, <1>5
  <2> HIDE DEF m
  <2>2. SubSeq(t, 1, m) = SubSeq(s, 1, m)
    <3>1. /\ SubSeq(t, 1, m) \in Seq(S) /\ Len(SubSeq(t, 1, m)) = m
          /\ \A i \in 1..m : SubSeq(t, 1, m)[i] = t[i]
      BY <1>4, <2>1
    <3>2. /\ SubSeq(s, 1, m) \in Seq(S) /\ Len(SubSeq(s, 1, m)) = m
          /\ \A i \in 1..m : SubSeq(s, 1, m)[i] = s[i]
      BY <1>1, <1>4, <2>1
    <3>3. \A i \in 1..m : SubSeq(t, 1, m)[i] = SubSeq(s, 1, m)[i]
      BY <1>4, <2>1, <3>1, <3>2
    <3> QED BY <3>1, <3>2, <3>3, SeqEqual
  <2> QED BY <2>1, <2>2 DEF Pop, m
<1>6. Pop(t, 0) = t
  <2>1. SubSeq(t, 1, Len(t)) = t
    BY <1>4, SubSeqFull
  <2>2. Len(t) - 0 = Len(t)
    BY <1>4
  <2> QED BY <2>1, <2>2 DEF Pop
<1> QED BY <1>1, <1>3, <1>4, <1>5, <1>6 DEF s, S

(* After a node n whose subtree was left, num_parents bytes are to pop:     *)
(* what stays is the path to the next node.                                 *)
Left(nodes, first, n) ==
  LET text == TextFrom(nodes, first, n)
      pops == nodes[n].num_parents
      q == NextNode(nodes, n)
  IN  /\ pops \in Nat \ {0}
      /\ q < NextNode(nodes, first) =>
           pops <= Len(text) /\ Pop(text, pops) = PathFrom(nodes, first, q)
      /\ q = NextNode(nodes, first) /\ first = 1 => pops = Len(text)

(* The counts of a trie in preorder do that.                                *)
LEMMA Leaving ==
  ASSUME NEW nodes, Preorder(nodes), NEW first \in 1..Len(nodes),
         NEW n \in Below(nodes, first)
  PROVE  Left(nodes, first, n)
<1> DEFINE Bad == {m \in Below(nodes, first) : ~Left(nodes, first, m)}
<1> SUFFICES ASSUME Bad # {} PROVE FALSE
  OBVIOUS
<1>1. /\ first \in Nat /\ NextNode(nodes, first) \in (first + 1)..(Len(nodes) + 1)
      /\ Len(nodes) \in Nat
  BY Shape
<1>2. Bad \in SUBSET Nat
  BY <1>1 DEF Below
<1>3. PICK m \in Bad : \A i \in Bad : m <= i
  <2> HIDE DEF Bad
  <2> QED BY <1>2, LeastNumber
<1> DEFINE par == Parent(nodes, m)
           q == NextNode(nodes, m)
           end == NextNode(nodes, first)
           text == TextFrom(nodes, first, m)
           path == PathFrom(nodes, first, m)
<1>4. m \in Below(nodes, first) /\ ~Left(nodes, first, m) /\ m \in Nat
  <2>1. m \in Below(nodes, first) /\ ~Left(nodes, first, m)
    BY <1>3
  <2> QED BY <1>1, <2>1 DEF Below
<1>5. /\ m \in 2..Len(nodes) /\ m \in (first + 1)..(end - 1)
      /\ par \in first..(m - 1) /\ (par # first => par \in Below(nodes, first))
      /\ path = IF par = first THEN <<>> ELSE TextFrom(nodes, first, par)
  BY <1>4, ParentWithin, PathIs DEF Below, TextFrom
<1>6. /\ q \in (m + 1)..(Len(nodes) + 1) /\ q <= end
      /\ NextNode(nodes, par) > m /\ NextNode(nodes, par) \in Nat
      /\ q <= NextNode(nodes, par)
      /\ \A i \in 1..(m - 1) : i > par => NextNode(nodes, i) <= m
      /\ par # first => NextNode(nodes, par) <= end
  <2>1. /\ m \in 1..Len(nodes) /\ par \in 1..Len(nodes) /\ first \in 1..Len(nodes)
        /\ m > first /\ par < m /\ m < end
    BY <1>1, <1>4, <1>5
  <2>2. /\ NextNode(nodes, par) > m
        /\ \A i \in 1..(m - 1) : i > par => NextNode(nodes, i) <= m
    BY <1>5, ParentFacts
  <2>3. q \in (m + 1)..(Len(nodes) + 1) /\ q <= end /\ NextNode(nodes, par) \in Nat
    BY <2>1, Shape
  <2>4. q <= NextNode(nodes, par)
    BY <2>1, <2>2, Shape
  <2>5. par # first => NextNode(nodes, par) <= end
    <3>1. par # first => par > first /\ par < end
      BY <1>1, <1>5, <2>1
    <3> QED BY <2>1, <3>1, Shape
  <2> QED BY <2>2, <2>3, <2>4, <2>5
<1>7. nodes[m].num_parents =
        IF par # 1 /\ NextNode(nodes, par) = q THEN nodes[par].num_parents + 1 ELSE 1
  BY <1>5 DEF Preorder
<1>8. /\ path \in Seq(BytesOf(nodes)) /\ text \in Seq(BytesOf(nodes))
      /\ Len(path) \in Nat /\ Len(text) = Len(path) + 1
      /\ \A k \in Nat : k <= Len(path) => Pop(text, k + 1) = Pop(path, k)
      /\ Pop(path, 0) = path
  <2>1. Pop(path, 0) = path
    <3>1. path \in Seq(BytesOf(nodes)) /\ Len(path) \in Nat
      BY <1>4, TextFacts
    <3>2. SubSeq(path, 1, Len(path)) = path
      BY <3>1, SubSeqFull
    <3>3. Len(path) - 0 = Len(path)
      BY <3>1
    <3> QED BY <3>2, <3>3 DEF Pop
  <2> QED BY <1>4, <2>1, TextFacts
<1>9. q < end => q \in Below(nodes, first)
  BY <1>1, <1>5, <1>6 DEF Below
<1>10. par # first => Left(nodes, first, par)
  <2>1. par # first => par \notin Bad
    <3> HIDE DEF Bad
    <3> QED BY <1>1, <1>3, <1>4, <1>5
  <2> QED BY <1>5, <2>1
<1> HIDE DEF Bad
<1>11. CASE par # 1 /\ NextNode(nodes, par) = q /\ par # first
  <2> DEFINE pops == nodes[par].num_parents
  <2>1. /\ pops \in Nat \ {0} /\ path = TextFrom(nodes, first, par)
        /\ q < end => pops <= Len(path) /\ Pop(path, pops) = PathFrom(nodes, first, q)
        /\ q = end /\ first = 1 => pops = Len(path)
    BY <1>5, <1>10, <1>11 DEF Left
  <2>2. nodes[m].num_parents = pops + 1
    BY <1>7, <1>11
  <2> HIDE DEF pops, path, text, q, end, par
  <2>3. /\ pops + 1 \in Nat \ {0}
        /\ q < end => pops + 1 <= Len(text) /\ Pop(text, pops + 1) = PathFrom(nodes, first, q)
        /\ q = end /\ first = 1 => pops + 1 = Len(text)
    BY <1>8, <2>1
  <2>4. Left(nodes, first, m)
    BY <2>2, <2>3 DEF Left, q, end, text
  <2> QED BY <1>4, <2>4
<1>12. CASE par = first
  <2>1. path = <<>> /\ Len(path) = 0 /\ Len(text) = 1
    BY <1>5, <1>8, <1>12, EmptySeq
  <2>2. nodes[m].num_parents \in Nat \ {0}
    <3>1. nodes[m].num_parents \in Nat /\ nodes[par].num_parents \in Nat
      <4>1. m \in DOMAIN nodes /\ par \in DOMAIN nodes
        BY <1>1, <1>5, Shape
      <4> QED BY <4>1 DEF Preorder
    <3> HIDE DEF par, q
    <3> QED BY <1>7, <3>1
  <2>3. ASSUME q < end PROVE nodes[m].num_parents = 1 /\ PathFrom(nodes, first, q) = <<>>
    <3>1. NextNode(nodes, par) # q
      BY <1>6, <1>12, <2>3
    <3>2. q \in Below(nodes, first) /\ q \in 2..Len(nodes)
      BY <1>9, <2>3, ParentWithin
    <3>3. Parent(nodes, q) = first
      <4>1. first \in 1..(q - 1) /\ NextNode(nodes, first) > q
        BY <1>1, <1>5, <1>6, <2>3
      <4>2. ASSUME NEW i \in 1..(q - 1), i > first PROVE NextNode(nodes, i) <= q
        <5>1. CASE i < m
          <6>1. i \in 1..(m - 1) /\ i \in 1..Len(nodes)
            BY <1>1, <1>5, <1>6, <5>1
          <6>2. NextNode(nodes, i) <= m /\ NextNode(nodes, i) \in Nat
            BY <1>6, <1>12, <4>2, <6>1, Shape
          <6> QED BY <1>4, <1>6, <6>2
        <5>2. CASE i = m
          BY <1>6, <5>2
        <5>3. CASE i > m
          <6>1. i \in 1..Len(nodes) /\ m \in 1..Len(nodes) /\ m < i /\ i < NextNode(nodes, m)
            BY <1>1, <1>4, <1>5, <1>6, <5>3
          <6> QED BY <6>1, Shape
        <5> QED BY <1>4, <5>1, <5>2, <5>3
      <4> QED BY <3>2, <4>1, <4>2, ParentIs
    <3>4. PathFrom(nodes, first, q) = <<>>
      BY <3>2, <3>3, PathIs
    <3> QED BY <1>7, <3>1, <3>4
  <2>4. ASSUME q = end, first = 1 PROVE nodes[m].num_parents = 1
    BY <1>7, <1>12, <2>4
  <2>5. Pop(text, 1) = <<>>
    <3>1. Pop(text, 0 + 1) = Pop(path, 0)
      BY <1>8, <2>1
    <3> QED BY <1>8, <2>1, <3>1
  <2> HIDE DEF par, q, end, text, path
  <2>6. Left(nodes, first, m)
    BY <2>1, <2>2, <2>3, <2>4, <2>5 DEF Left, q, end, text
  <2> QED BY <1>4, <2>6
<1>13. CASE par # first /\ NextNode(nodes, par) # q
  <2>1. nodes[m].num_parents = 1
    BY <1>7, <1>13
  <2>2. q < end /\ q < NextNode(nodes, par)
    BY <1>1, <1>6, <1>13
  <2>3. q \in Below(nodes, first) /\ q \in 2..Len(nodes)
    BY <1>9, <2>2, ParentWithin
  <2>4. Parent(nodes, q) = par
    <3>1. par \in 1..(q - 1) /\ NextNode(nodes, par) > q
      BY <1>1, <1>5, <1>6, <2>2
    <3>2. ASSUME NEW i \in 1..(q - 1), i > par PROVE NextNode(nodes, i) <= q
      <4>1. CASE i < m
        <5>1. i \in 1..(m - 1) /\ i \in 1..Len(nodes)
          BY <1>1, <1>5, <1>6, <4>1
        <5>2. NextNode(nodes, i) <= m /\ NextNode(nodes, i) \in Nat
          BY <1>6, <3>2, <5>1, Shape
        <5> QED BY <1>4, <1>6, <5>2
      <4>2. CASE i = m
        BY <1>6, <4>2
      <4>3. CASE i > m
        <5>1. i \in 1..Len(nodes) /\ m \in 1..Len(nodes) /\ m < i /\ i < NextNode(nodes, m)
          BY <1>1, <1>4, <1>5, <1>6, <4>3
        <5> QED BY <5>1, Shape
      <4> QED BY <1>4, <4>1, <4>2, <4>3
    <3> HIDE DEF par, q
    <3> QED BY <2>3, <3>1, <3>2, ParentIs
  <2>5. PathFrom(nodes, first, q) = TextFrom(nodes, first, par)
    BY <1>13, <2>3, <2>4, PathIs DEF TextFrom
  <2>6. Pop(text, 1) = PathFrom(nodes, first, q)
    <3>1. Pop(text, 0 + 1) = Pop(path, 0)
      BY <1>8
    <3> QED BY <1>5, <1>8, <1>13, <2>5, <3>1
  <2> HIDE DEF par, q, end, text, path
  <2>7. q # end /\ 1 <= Len(text)
    BY <1>1, <1>6, <1>8, <2>2
  <2>8. Left(nodes, first, m)
    BY <2>1, <2>6, <2>7 DEF Left, q, end, text
  <2> QED BY <1>4, <2>8
<1> QED BY <1>1, <1>5, <1>11, <1>12, <1>13

-----------------------------------------------------------------------------
(* Where a walk begins.                                                     *)

(* A child by its byte is a node, or none.                                  *)
LEMMA ChildAtByteIs ==
  ASSUME NEW nodes, Preorder(nodes), NEW n \in 0..Len(nodes), NEW byte
  PROVE  ChildAtByte(nodes, n, byte) \in 0..Len(nodes)
<1> DEFINE found == IF n = NoNode THEN {}
                    ELSE {c \in NodeChildren(nodes, n) : nodes[c].byte = byte}
<1>1. Len(nodes) \in Nat \ {0} /\ n \in Nat
  BY Shape
<1>2. found \in SUBSET (1..Len(nodes))
  <2>1. CASE n = NoNode
    BY <2>1
  <2>2. CASE n # NoNode
    <3>1. n \in 1..Len(nodes)
      BY <1>1, <2>2 DEF NoNode
    <3>2. NextNode(nodes, n) \in (n + 1)..(Len(nodes) + 1)
      BY <3>1, Shape
    <3>3. NodeChildren(nodes, n) \subseteq (n + 1)..(NextNode(nodes, n) - 1)
      BY DEF NodeChildren
    <3>4. NodeChildren(nodes, n) \subseteq 1..Len(nodes)
      BY <1>1, <3>1, <3>2, <3>3
    <3> QED BY <2>2, <3>4
  <2> QED BY <2>1, <2>2
<1>3. ChildAtByte(nodes, n, byte) = IF found = {} THEN NoNode ELSE Min(found)
  BY DEF ChildAtByte
<1> HIDE DEF found
<1>4. ASSUME found # {} PROVE Min(found) \in found
  <2>1. found \in SUBSET Nat
    BY <1>2
  <2>2. \E m \in found : \A i \in found : m <= i
    BY <1>4, <2>1, LeastNumber
  <2> QED BY <2>2, Zenon DEF Min
<1>5. found # {} => Min(found) \in 1..Len(nodes)
  BY <1>2, <1>4
<1>6. 0 \in 0..Len(nodes) /\ \A m \in 1..Len(nodes) : m \in 0..Len(nodes)
  BY <1>1
<1> QED BY <1>3, <1>5, <1>6 DEF NoNode

(* The nodes reached by the first i bytes.                                  *)
Descents(f, N, nodes, n, bytes) ==
  f = [i \in 0..N |-> IF i = 0 THEN n ELSE ChildAtByte(nodes, f[i - 1], bytes[i])]

(* There are such nodes.                                                    *)
LEMMA DescentsExist ==
  ASSUME NEW N \in Nat, NEW nodes, NEW n, NEW bytes
  PROVE  \E f : Descents(f, N, nodes, n, bytes)
<1> DEFINE Good == {k \in Nat : \E f : Descents(f, k, nodes, n, bytes)}
<1>1. 0 \in Good
  <2> DEFINE g == [i \in 0..0 |-> n]
  <2>1. g = [i \in 0..0 |-> IF i = 0 THEN n ELSE ChildAtByte(nodes, g[i - 1], bytes[i])]
    OBVIOUS
  <2> QED BY <2>1 DEF Descents
<1>2. ASSUME NEW k \in 0..(N - 1), k \in Good PROVE k + 1 \in Good
  <2>1. PICK f : Descents(f, k, nodes, n, bytes)
    BY <1>2
  <2> DEFINE m == k + 1
             last == ChildAtByte(nodes, f[k], bytes[m])
             g == [i \in 0..m |-> IF i = m THEN last ELSE f[i]]
             h == [i \in 0..m |-> IF i = 0 THEN n ELSE ChildAtByte(nodes, g[i - 1], bytes[i])]
  <2>2. ASSUME NEW i \in 0..m
        PROVE  g[i] = IF i = 0 THEN n ELSE ChildAtByte(nodes, g[i - 1], bytes[i])
    <3>1. CASE i = m
      <4>1. m # 0 /\ m - 1 = k /\ k \in 0..m /\ k # m
        OBVIOUS
      <4>2. g[k] = f[k] /\ g[i] = last
        BY <3>1, <4>1
      <4> HIDE DEF g
      <4> QED BY <3>1, <4>1, <4>2
    <3>2. CASE i # m
      <4>1. i \in 0..k
        BY <3>2
      <4>2. f[i] = IF i = 0 THEN n ELSE ChildAtByte(nodes, f[i - 1], bytes[i])
        BY <2>1, <4>1 DEF Descents
      <4>3. g[i] = f[i]
        BY <3>2
      <4>4. ASSUME i # 0 PROVE g[i - 1] = f[i - 1]
        <5>1. i - 1 \in 0..m /\ i - 1 # m
          BY <4>1, <4>4
        <5> QED BY <5>1
      <4> HIDE DEF g
      <4> QED BY <4>2, <4>3, <4>4
    <3> QED BY <3>1, <3>2
  <2>3. g = h
    <3>1. \A i \in 0..m : g[i] = h[i]
      BY <2>2
    <3> QED BY <3>1
  <2>4. Descents(g, m, nodes, n, bytes) /\ m \in Nat
    BY <2>3 DEF Descents
  <2> QED BY <2>4
<1> HIDE DEF Good
<1>3. \A k \in 0..N : k \in Good
  BY <1>1, <1>2, UpTo
<1> QED BY <1>3 DEF Good

(* A walk begins at a node, or nowhere; without a start, at the root.       *)
LEMMA ChildAtBytesIs ==
  ASSUME NEW nodes, Preorder(nodes), NEW S, NEW bytes \in Seq(S)
  PROVE  /\ ChildAtBytes(nodes, 1, bytes) \in 0..Len(nodes)
         /\ bytes = <<>> => ChildAtBytes(nodes, 1, bytes) = 1
<1> DEFINE N == Len(bytes)
           P(g) == g = [i \in 0..N |-> IF i = 0 THEN 1 ELSE ChildAtByte(nodes, g[i - 1], bytes[i])]
           f == CHOOSE g : P(g)
<1>1. N \in Nat /\ (bytes = <<>> => N = 0) /\ Len(nodes) \in Nat \ {0}
  BY LenProperties, EmptySeq, Shape
<1>2. ChildAtBytes(nodes, 1, bytes) = f[N]
  BY Zenon DEF ChildAtBytes
<1> HIDE DEF N, f
<1>3. \E g : P(g)
  <2>1. PICK g : Descents(g, N, nodes, 1, bytes)
    BY <1>1, DescentsExist
  <2>2. P(g)
    BY <2>1 DEF Descents
  <2> HIDE DEF P
  <2> QED BY <2>2
<1> HIDE DEF P
<1>4. P(f)
  BY <1>3, Zenon DEF f
<1>5. \A i \in 0..N : f[i] = IF i = 0 THEN 1 ELSE ChildAtByte(nodes, f[i - 1], bytes[i])
  BY <1>4 DEF P
<1> DEFINE Good == {i \in Nat : f[i] \in 0..Len(nodes)}
<1>6. 0 \in Good /\ f[0] = 1
  BY <1>1, <1>5
<1>7. ASSUME NEW i \in 0..(N - 1), i \in Good PROVE i + 1 \in Good
  <2>1. i + 1 \in 0..N /\ i + 1 # 0 /\ (i + 1) - 1 = i /\ i + 1 \in Nat
    BY <1>1
  <2>2. f[i + 1] = ChildAtByte(nodes, f[i], bytes[i + 1])
    BY <1>5, <2>1
  <2>3. f[i] \in 0..Len(nodes)
    BY <1>7
  <2>4. ChildAtByte(nodes, f[i], bytes[i + 1]) \in 0..Len(nodes)
    BY <2>3, ChildAtByteIs
  <2> QED BY <2>1, <2>2, <2>4
<1> HIDE DEF Good
<1>8. \A i \in 0..N : i \in Good
  BY <1>1, <1>6, <1>7, UpTo
<1>9. f[N] \in 0..Len(nodes)
  <2>1. N \in Good
    BY <1>1, <1>8
  <2> QED BY <2>1 DEF Good
<1> QED BY <1>1, <1>2, <1>6, <1>9

-----------------------------------------------------------------------------
(* Walks, one after the other.                                              *)

(* A caller may ask once, for any walks over tries.                         *)
Walkable(w) == Preorder(w.nodes) /\ w.start \in Seq(Range(w.start))
Ask ==
  /\ query = "none"
  /\ \E q \in {"bias", "extensions"} : \E walks, mask :
       /\ walks \in Seq(Range(walks)) /\ \A i \in DOMAIN walks : Walkable(walks[i])
       /\ FakeToken \notin mask
       /\ StartQuery(q, walks, mask)
WalkSpec == WalkInit /\ [][Ask \/ WalkNext]_walkVars

TodoOK == todo \in Seq(Range(todo)) /\ \A i \in DOMAIN todo : Walkable(todo[i])
(* What has been pushed is the path to the next node, once next_pop bytes   *)
(* were popped.                                                             *)
InStep(w, q, pops, pushed) ==
  LET end == NextNode(w.nodes, First(w))
  IN  /\ pushed \in Seq(BytesOf(w.nodes)) /\ pops \in Nat
      /\ q < end => pops <= Len(pushed) /\ Pop(pushed, pops) = PathFrom(w.nodes, First(w), q)
      /\ q = end /\ w.start = <<>> => pops = Len(pushed)
WalkOK ==
  walk # NoWalk =>
    /\ Walkable(walk) /\ First(walk) \in 1..Len(walk.nodes)
    /\ endp = NextNode(walk.nodes, First(walk)) /\ p \in (First(walk) + 1)..endp
    /\ ~ok => InStep(walk, p, next_pop, stack)
WalkInv == ok \in BOOLEAN /\ TodoOK /\ WalkOK

(* The first child's path is empty.                                         *)
LEMMA FirstChild ==
  ASSUME NEW nodes, Preorder(nodes), NEW first \in 1..Len(nodes),
         first + 1 < NextNode(nodes, first)
  PROVE  PathFrom(nodes, first, first + 1) = <<>>
<1>1. first \in Nat /\ NextNode(nodes, first) \in Nat
  BY Shape
<1>2. first + 1 \in Below(nodes, first)
  BY <1>1 DEF Below
<1>3. Parent(nodes, first + 1) \in first..((first + 1) - 1)
  BY <1>2, ParentWithin
<1>4. Parent(nodes, first + 1) = first
  BY <1>1, <1>3
<1> QED BY <1>2, <1>4, PathIs

(* A walk begins in step.                                                   *)
LEMMA StartInStep ==
  ASSUME NEW w, Walkable(w), First(w) # NoNode
  PROVE  /\ First(w) \in 1..Len(w.nodes)
         /\ First(w) + 1 \in (First(w) + 1)..NextNode(w.nodes, First(w))
         /\ InStep(w, First(w) + 1, 0, <<>>)
<1> DEFINE first == First(w)
           end == NextNode(w.nodes, first)
           S == BytesOf(w.nodes)
<1>1. Preorder(w.nodes) /\ w.start \in Seq(Range(w.start))
  BY DEF Walkable
<1>2. first \in 1..Len(w.nodes)
  <2>1. first \in 0..Len(w.nodes)
    BY <1>1, ChildAtBytesIs DEF First
  <2> QED BY <2>1 DEF NoNode
<1>3. end \in (first + 1)..(Len(w.nodes) + 1) /\ first \in Nat /\ Len(w.nodes) \in Nat
  BY <1>1, <1>2, Shape
<1>4. <<>> \in Seq(S) /\ Len(<<>>) = 0
  BY EmptySeq
<1>5. first + 1 < end => Pop(<<>>, 0) = PathFrom(w.nodes, first, first + 1)
  <2>1. SubSeq(<<>>, 1, 0) = <<>>
    <3>1. SubSeq(<<>>, 1, Len(<<>>)) = <<>>
      BY <1>4, SubSeqFull
    <3> QED BY <1>4, <3>1
  <2>2. Pop(<<>>, 0) = <<>>
    <3>1. Len(<<>>) - 0 = 0
      BY <1>4
    <3> QED BY <2>1, <3>1 DEF Pop
  <2> QED BY <1>1, <1>2, <2>2, FirstChild
<1> HIDE DEF first, end, S
<1>6. first + 1 \in (first + 1)..end
  BY <1>3
<1>7. InStep(w, first + 1, 0, <<>>)
  BY <1>3, <1>4, <1>5 DEF InStep, first, end, S
<1> QED BY <1>2, <1>6, <1>7 DEF first, end

(* What visiting a node pushes, and what it leaves to pop.                  *)
LEMMA VisitInStep ==
  ASSUME NEW w, Walkable(w), First(w) \in 1..Len(w.nodes),
         NEW n \in Below(w.nodes, First(w)), NEW pops, NEW pushed,
         InStep(w, n, pops, pushed)
  PROVE  LET path == PathFrom(w.nodes, First(w), n)
             text == TextFrom(w.nodes, First(w), n)
             end == NextNode(w.nodes, First(w))
             q == NextNode(w.nodes, n)
         IN  /\ Pop(pushed, pops) = path
             /\ Append(Pop(pushed, pops), w.nodes[n].byte) = text
             /\ n + 1 \in (First(w) + 1)..end /\ q \in (First(w) + 1)..end
             /\ w.nodes[n].subtree_size = 1 =>
                  q = n + 1 /\ InStep(w, q, w.nodes[n].num_parents, text)
             /\ w.nodes[n].subtree_size # 1 => InStep(w, n + 1, 0, text)
             /\ InStep(w, q, w.nodes[n].num_parents - 1, path)
<1> DEFINE nodes == w.nodes
           first == First(w)
           path == PathFrom(nodes, first, n)
           text == TextFrom(nodes, first, n)
           end == NextNode(nodes, first)
           q == NextNode(nodes, n)
           leave == nodes[n].num_parents
           S == BytesOf(nodes)
<1>1. Preorder(nodes) /\ first \in 1..Len(nodes) /\ n \in Below(nodes, first)
  BY DEF Walkable
<1>2. /\ end \in (first + 1)..(Len(nodes) + 1) /\ first \in Nat /\ Len(nodes) \in Nat
      /\ n \in 1..Len(nodes) /\ n >= first + 1 /\ n < end /\ n \in Nat
  <2>1. end \in (first + 1)..(Len(nodes) + 1) /\ first \in Nat /\ Len(nodes) \in Nat
    BY <1>1, Shape
  <2> QED BY <1>1, <2>1 DEF Below
<1>3. q \in (n + 1)..(Len(nodes) + 1) /\ q <= end
  BY <1>1, <1>2, Shape
<1>4. pops <= Len(pushed) /\ Pop(pushed, pops) = path
  BY <1>2 DEF InStep
<1>5. Left(nodes, first, n)
  BY <1>1, Leaving
<1>6. /\ path \in Seq(S) /\ text \in Seq(S)
      /\ Len(path) \in Nat /\ Len(text) = Len(path) + 1
      /\ \A k \in Nat : k <= Len(path) => Pop(text, k + 1) = Pop(path, k)
      /\ Pop(text, 0) = text
  BY <1>1, TextFacts
<1>7. w.start = <<>> => first = 1
  <2>1. w.start \in Seq(Range(w.start))
    BY DEF Walkable
  <2> QED BY <1>1, <2>1, ChildAtBytesIs DEF First
<1>8. Append(Pop(pushed, pops), nodes[n].byte) = text
  BY <1>4 DEF TextFrom
<1>9. InStep(w, q, leave, text)
  <2>1. /\ leave \in Nat
        /\ q < end => leave <= Len(text) /\ Pop(text, leave) = PathFrom(nodes, first, q)
        /\ q = end /\ w.start = <<>> => leave = Len(text)
    BY <1>5, <1>7 DEF Left
  <2> HIDE DEF nodes, first, path, text, end, q, leave, S
  <2> QED BY <1>6, <2>1 DEF InStep, nodes, first, end, S
<1>10. InStep(w, q, leave - 1, path)
  <2>1. /\ leave - 1 \in Nat /\ (leave - 1) + 1 = leave /\ leave \in Nat
        /\ q < end => leave <= Len(text) /\ Pop(text, leave) = PathFrom(nodes, first, q)
        /\ q = end /\ w.start = <<>> => leave = Len(text)
    BY <1>5, <1>7 DEF Left
  <2> HIDE DEF nodes, first, path, text, end, q, leave, S
  <2>2. q < end => leave - 1 <= Len(path)
    BY <1>6, <2>1
  <2>3. q < end => Pop(path, leave - 1) = PathFrom(nodes, first, q)
    BY <1>6, <2>1, <2>2
  <2>4. q = end /\ w.start = <<>> => leave - 1 = Len(path)
    BY <1>6, <2>1
  <2> QED BY <1>6, <2>1, <2>2, <2>3, <2>4 DEF InStep, nodes, first, end, S
<1>11. ASSUME nodes[n].subtree_size # 1 PROVE InStep(w, n + 1, 0, text)
  <2>1. q > n + 1
    <3>1. nodes[n].subtree_size \in Nat \ {0} /\ q = n + nodes[n].subtree_size
      BY <1>1, <1>2, Shape DEF Preorder, NextNode
    <3> QED BY <1>2, <1>11, <3>1
  <2>2. n + 1 < end /\ n + 1 \in Below(nodes, first)
    BY <1>2, <1>3, <2>1 DEF Below
  <2>3. n + 1 \in 2..Len(nodes) /\ Parent(nodes, n + 1) = n
    <3>1. n + 1 \in 2..Len(nodes)
      BY <1>1, <2>2, ParentWithin
    <3>2. n \in 1..((n + 1) - 1) /\ NextNode(nodes, n) > n + 1
      BY <1>2, <2>1
    <3>3. \A i \in 1..((n + 1) - 1) : i > n => NextNode(nodes, i) <= n + 1
      BY <1>2
    <3> QED BY <1>1, <3>1, <3>2, <3>3, ParentIs
  <2>4. n # first
    BY <1>2
  <2>5. PathFrom(nodes, first, n + 1) = text
    BY <1>1, <2>2, <2>3, <2>4, PathIs DEF TextFrom
  <2> HIDE DEF nodes, first, path, text, end, q, leave, S
  <2>6. 0 <= Len(text) /\ n + 1 # end
    BY <1>2, <1>6, <2>2
  <2> QED BY <1>6, <2>5, <2>6 DEF InStep, nodes, first, end, S
<1>12. nodes[n].subtree_size = 1 => q = n + 1
  BY DEF NextNode
<1>13. n + 1 \in (first + 1)..end /\ q \in (first + 1)..end
  BY <1>2, <1>3
<1> QED BY <1>4, <1>8, <1>9, <1>10, <1>11, <1>12, <1>13

(* What is left of a sequence of walks.                                     *)
LEMMA TailOfWalks ==
  ASSUME NEW s, s \in Seq(Range(s)), s # <<>>, \A i \in DOMAIN s : Walkable(s[i])
  PROVE  /\ Tail(s) \in Seq(Range(Tail(s)))
         /\ \A i \in DOMAIN Tail(s) : Walkable(Tail(s)[i])
         /\ Walkable(Head(s))
<1> DEFINE t == Tail(s)
<1>1. Len(s) \in Nat \ {0} /\ DOMAIN s = 1..Len(s)
  BY LenProperties, EmptySeq
<1>2. /\ Head(s) = s[1] /\ t \in Seq(Range(s)) /\ Len(t) = Len(s) - 1
      /\ \A i \in 1..Len(t) : t[i] = s[i + 1]
  BY HeadTailProperties
<1> HIDE DEF t
<1>3. Len(t) \in Nat /\ DOMAIN t = 1..Len(t)
  BY <1>2, LenProperties
<1>4. \A i \in 1..Len(t) : Walkable(t[i])
  <2>1. \A i \in 1..Len(t) : i + 1 \in DOMAIN s
    BY <1>1, <1>2, <1>3
  <2> QED BY <1>2, <2>1
<1>5. t \in Seq(Range(t))
  <2>1. \A i \in 1..Len(t) : t[i] \in Range(t)
    BY <1>3 DEF Range
  <2>2. t = [i \in 1..Len(t) |-> t[i]]
    BY <1>2, <1>3
  <2>3. t \in [1..Len(t) -> Range(t)]
    BY <2>1, <2>2
  <2> QED BY <1>3, <2>3, SeqDef
<1>6. Walkable(Head(s))
  BY <1>1, <1>2
<1> QED BY <1>3, <1>4, <1>5, <1>6 DEF t

(* No walk over a trie is NoWalk.                                           *)
LEMMA WalkableIsWalk ==
  ASSUME NEW w, Walkable(w)
  PROVE  w # NoWalk
BY DEF Walkable, Preorder, NoWalk

(* Nothing has been pushed in the beginning.                                *)
LEMMA WalkInvInit == WalkInit => WalkInv
<1> SUFFICES ASSUME WalkInit PROVE WalkInv
  OBVIOUS
<1>1. todo = <<>> /\ walk = NoWalk /\ ok = FALSE
  BY DEF WalkInit
<1>2. <<>> \in Seq(Range(<<>>)) /\ DOMAIN <<>> = {}
  BY EmptySeq
<1>3. TodoOK
  BY <1>1, <1>2 DEF TodoOK
<1> QED BY <1>1, <1>3 DEF WalkInv, WalkOK

(* The stack follows the walk.                                              *)
LEMMA WalkInvNext == WalkInv /\ [Ask \/ WalkNext]_walkVars => WalkInv'
<1> SUFFICES ASSUME WalkInv, [Ask \/ WalkNext]_walkVars PROVE WalkInv'
  OBVIOUS
<1>1. ok \in BOOLEAN /\ TodoOK /\ WalkOK
  BY DEF WalkInv
<1>2. ASSUME walk # NoWalk
      PROVE  /\ Walkable(walk) /\ First(walk) \in 1..Len(walk.nodes)
             /\ endp = NextNode(walk.nodes, First(walk)) /\ p \in (First(walk) + 1)..endp
             /\ endp \in Nat /\ First(walk) \in Nat
             /\ ~ok => InStep(walk, p, next_pop, stack)
             /\ p < endp => p \in Below(walk.nodes, First(walk))
  <2>1. /\ Walkable(walk) /\ First(walk) \in 1..Len(walk.nodes)
        /\ endp = NextNode(walk.nodes, First(walk)) /\ p \in (First(walk) + 1)..endp
        /\ ~ok => InStep(walk, p, next_pop, stack)
    BY <1>1, <1>2 DEF WalkOK
  <2>2. endp \in Nat /\ First(walk) \in Nat
    BY <2>1, Shape DEF Walkable
  <2> QED BY <2>1, <2>2 DEF Below
<1>3. CASE Ask
  <2>1. UNCHANGED <<walk, p, endp, next_pop, stack, ok>>
    BY <1>3 DEF Ask, StartQuery
  <2>2. TodoOK'
    <3>1. PICK walks : /\ walks \in Seq(Range(walks))
                       /\ \A i \in DOMAIN walks : Walkable(walks[i])
                       /\ todo' = walks
      BY <1>3 DEF Ask, StartQuery
    <3> QED BY <3>1 DEF TodoOK
  <2> QED BY <1>1, <2>1, <2>2 DEF WalkInv, WalkOK
<1>4. CASE TrieStarted
  <2>1. walk = NoWalk /\ todo # <<>> /\ todo' = Tail(todo) /\ UNCHANGED ok
    BY <1>4 DEF TrieStarted
  <2>2. TodoOK' /\ Walkable(Head(todo))
    BY <1>1, <2>1, TailOfWalks DEF TodoOK
  <2>3. WalkOK'
    <3> DEFINE w == Head(todo)
    <3>1. CASE First(w) = NoNode
      <4>1. walk' = walk
        BY <1>4, <3>1 DEF TrieStarted, First
      <4> QED BY <2>1, <4>1 DEF WalkOK
    <3>2. CASE First(w) # NoNode
      <4>1. /\ walk' = w /\ p' = First(w) + 1 /\ endp' = NextNode(walk'.nodes, First(w))
            /\ next_pop' = 0 /\ stack' = <<>>
        BY <1>4, <3>2 DEF TrieStarted, First
      <4> HIDE DEF w
      <4>2. /\ First(w) \in 1..Len(w.nodes)
            /\ First(w) + 1 \in (First(w) + 1)..NextNode(w.nodes, First(w))
            /\ InStep(w, First(w) + 1, 0, <<>>)
        BY <2>2, <3>2, StartInStep DEF w
      <4> QED BY <2>2, <4>1, <4>2 DEF WalkOK, w
    <3> QED BY <3>1, <3>2
  <2> QED BY <1>1, <2>1, <2>2, <2>3 DEF WalkInv
<1> DEFINE text == TextFrom(walk.nodes, First(walk), p)
           path == PathFrom(walk.nodes, First(walk), p)
           q == NextNode(walk.nodes, p)
<1>5. ASSUME Visiting
      PROVE  /\ Pop(stack, next_pop) = path /\ Pushed = text
             /\ p + 1 \in (First(walk) + 1)..endp /\ q \in (First(walk) + 1)..endp
             /\ walk.nodes[p].subtree_size = 1 =>
                  q = p + 1 /\ InStep(walk, q, walk.nodes[p].num_parents, text)
             /\ walk.nodes[p].subtree_size # 1 => InStep(walk, p + 1, 0, text)
             /\ InStep(walk, q, walk.nodes[p].num_parents - 1, path)
  <2>1. walk # NoWalk /\ p < endp /\ ~ok
    BY <1>5 DEF Visiting
  <2> QED BY <1>2, <2>1, VisitInStep DEF Pushed
<1> HIDE DEF text, path, q
<1>6. CASE VisitAllowed
  <2>1. /\ Visiting /\ stack' = Pushed /\ p' = p + 1
        /\ next_pop' = IF walk.nodes[p].subtree_size = 1 THEN walk.nodes[p].num_parents ELSE 0
        /\ UNCHANGED <<query, todo, walk, endp>>
    BY <1>6 DEF VisitAllowed, PopAfterLeaf
  <2>2. ok' \in BOOLEAN
    <3>1. \/ ok' = ok
          \/ ok' = IsToken(walk.nodes[p])
      BY <1>6 DEF VisitAllowed
    <3> QED BY <1>1, <3>1 DEF IsToken
  <2>3. InStep(walk, p', next_pop', stack')
    BY <1>5, <2>1
  <2>4. WalkOK'
    BY <1>2, <1>5, <2>1, <2>3 DEF WalkOK
  <2>5. TodoOK'
    BY <1>1, <2>1 DEF TodoOK
  <2> QED BY <2>2, <2>4, <2>5 DEF WalkInv
<1>7. CASE VisitRefused
  <2>1. /\ Visiting /\ stack' = Pop(stack, next_pop) /\ p' = q
        /\ next_pop' = walk.nodes[p].num_parents - 1
        /\ UNCHANGED <<query, todo, walk, endp, ok>>
    BY <1>7 DEF VisitRefused, PopAfterSkip, q
  <2>2. InStep(walk, p', next_pop', stack')
    BY <1>5, <2>1
  <2>3. WalkOK'
    BY <1>2, <1>5, <2>1, <2>2 DEF WalkOK
  <2>4. TodoOK'
    BY <1>1, <2>1 DEF TodoOK
  <2> QED BY <1>1, <2>1, <2>3, <2>4 DEF WalkInv
<1>8. CASE TrieFinished
  <2>1. walk' = NoWalk /\ UNCHANGED <<todo, ok>>
    BY <1>8 DEF TrieFinished
  <2> QED BY <1>1, <2>1 DEF WalkInv, WalkOK, TodoOK
<1>9. CASE UNCHANGED walkVars
  <2>1. UNCHANGED <<walk, p, endp, next_pop, stack, ok, todo>>
    BY <1>9 DEF walkVars
  <2> QED BY <1>1, <2>1 DEF WalkInv, WalkOK, TodoOK
<1> QED BY <1>3, <1>4, <1>6, <1>7, <1>8, <1>9 DEF WalkNext

(* Pops in step with the trie leave the path on the stack.                  *)
LEMMA StepsFollow ==
  ASSUME WalkInv
  PROVE  StackIsPath
<1> SUFFICES ASSUME walk # NoWalk, ~ok
             PROVE  /\ p < endp => next_pop <= Len(stack) /\ Pop(stack, next_pop) = PathTo(p)
                    /\ p >= endp => p = endp /\ (walk.start = <<>> => next_pop = Len(stack))
  BY DEF StackIsPath
<1>1. /\ Walkable(walk) /\ First(walk) \in 1..Len(walk.nodes)
      /\ endp = NextNode(walk.nodes, First(walk)) /\ p \in (First(walk) + 1)..endp
      /\ InStep(walk, p, next_pop, stack)
  BY DEF WalkInv, WalkOK
<1>2. endp \in Nat /\ First(walk) \in Nat
  BY <1>1, Shape DEF Walkable
<1>3. p >= endp => p = endp
  BY <1>1, <1>2
<1> QED BY <1>1, <1>3 DEF InStep, PathTo

(* For every trie in preorder, whatever the language refuses, and from      *)
(* every start: a walk pops exactly what leads it back to the path of the   *)
(* next node it tries (add_bias_inner(), has_valid_extensions()), and one   *)
(* from the root ends with nothing left on the stack.                       *)
THEOREM PopsFollowTrie == WalkSpec => []StackIsPath
BY StepsFollow, WalkInvInit, WalkInvNext, PTL DEF WalkSpec

-----------------------------------------------------------------------------
(* What a walk collects.                                                    *)

(* A grammar allows what begins an allowed text.                            *)
PrefixClosed(lang) ==
  \A s \in lang : \A k \in 0..Len(s) : SubSeq(s, 1, k) \in lang
Sound(w) == Walkable(w) /\ PrefixClosed(w.language)

(* The tokens that the language allows, at node n or after it.              *)
AllowedNodes(w, n) ==
  {m \in Below(w.nodes, First(w)) :
     m >= n /\ IsToken(w.nodes[m]) /\ TextFrom(w.nodes, First(w), m) \in w.language}
AllowedFrom(w, n) ==
  IF First(w) = NoNode THEN {} ELSE {w.nodes[m].token : m \in AllowedNodes(w, n)}
Allowed(w) == AllowedFrom(w, 0)
AllowedByAll(walks) == UNION {Allowed(walks[i]) : i \in DOMAIN walks}

(* A node's text begins with the text of a node it is under.                *)
LEMMA SubtreeTexts ==
  ASSUME NEW nodes, Preorder(nodes), NEW first \in 1..Len(nodes),
         NEW n \in Below(nodes, first), NEW m \in n..(NextNode(nodes, n) - 1)
  PROVE  LET s == TextFrom(nodes, first, n)
             t == TextFrom(nodes, first, m)
         IN  m \in Below(nodes, first) /\ Len(s) \in 0..Len(t) /\ SubSeq(t, 1, Len(s)) = s
<1> DEFINE s == TextFrom(nodes, first, n)
           t(i) == TextFrom(nodes, first, i)
           Begins(i) == Len(s) \in 0..Len(t(i)) /\ SubSeq(t(i), 1, Len(s)) = s
           Bad == {i \in n..(NextNode(nodes, n) - 1) : ~Begins(i)}
<1>1. /\ first \in Nat /\ Len(nodes) \in Nat
      /\ NextNode(nodes, first) \in (first + 1)..(Len(nodes) + 1)
      /\ n \in 1..Len(nodes) /\ n >= first + 1 /\ n < NextNode(nodes, first) /\ n \in Nat
  <2>1. /\ first \in Nat /\ Len(nodes) \in Nat
        /\ NextNode(nodes, first) \in (first + 1)..(Len(nodes) + 1)
    BY Shape
  <2> QED BY <2>1 DEF Below
<1>2. NextNode(nodes, n) \in (n + 1)..NextNode(nodes, first)
  <2>1. NextNode(nodes, n) \in (n + 1)..(Len(nodes) + 1)
    BY <1>1, Shape
  <2>2. NextNode(nodes, n) <= NextNode(nodes, first)
    BY <1>1, Shape
  <2> QED BY <1>1, <2>1, <2>2
<1>3. \A i \in n..(NextNode(nodes, n) - 1) : i \in Below(nodes, first) /\ i \in Nat
  BY <1>1, <1>2 DEF Below
<1>4. s \in Seq(BytesOf(nodes)) /\ Len(s) \in Nat
  <2>1. s \in Seq(BytesOf(nodes))
    BY TextFacts
  <2> QED BY <2>1, LenProperties
<1>5. ASSUME Bad # {} PROVE FALSE
  <2>1. Bad \in SUBSET Nat
    BY <1>3
  <2>2. PICK i \in Bad : \A j \in Bad : i <= j
    <3> HIDE DEF Bad
    <3> QED BY <1>5, <2>1, LeastNumber
  <2>3. i \in n..(NextNode(nodes, n) - 1) /\ ~Begins(i) /\ i \in Nat /\ i \in Below(nodes, first)
    BY <1>3, <2>2
  <2> DEFINE par == Parent(nodes, i)
             path == PathFrom(nodes, first, i)
  <2>4. i # n
    <3>1. SubSeq(s, 1, Len(s)) = s
      BY <1>4, SubSeqFull
    <3> QED BY <1>4, <2>3, <3>1
  <2>5. par \in n..(i - 1) /\ par # first
    <3>1. par \in first..(i - 1) /\ i \in 2..Len(nodes)
      BY <2>3, ParentWithin
    <3>2. n \in 1..(i - 1) /\ NextNode(nodes, n) > i
      BY <1>1, <1>2, <2>3, <2>4
    <3>3. ~(n > par)
      <4>1. n > par => NextNode(nodes, n) <= i
        BY <3>1, <3>2, ParentFacts
      <4> QED BY <1>2, <2>3, <3>2, <4>1
    <3> QED BY <1>1, <2>3, <3>1, <3>3
  <2>6. par \notin Bad /\ par \in n..(NextNode(nodes, n) - 1)
    <3>1. par \in n..(NextNode(nodes, n) - 1) /\ par < i /\ par \in Nat
      BY <1>1, <1>2, <2>3, <2>5
    <3>2. par \notin Bad
      <4> HIDE DEF Bad, par
      <4> QED BY <2>2, <2>3, <3>1
    <3> QED BY <3>1, <3>2
  <2>7. Begins(par)
    BY <2>6
  <2>8. path = t(par)
    BY <2>3, <2>5, PathIs DEF TextFrom
  <2>9. /\ path \in Seq(BytesOf(nodes)) /\ Len(path) \in Nat
        /\ t(i) \in Seq(BytesOf(nodes)) /\ Len(t(i)) = Len(path) + 1
        /\ \A k \in Nat : k <= Len(path) => Pop(t(i), k + 1) = Pop(path, k)
    BY <2>3, TextFacts
  <2> DEFINE k == Len(path) - Len(s)
  <2>10. k \in Nat /\ k <= Len(path) /\ Len(path) - k = Len(s) /\ Len(t(i)) - (k + 1) = Len(s)
    BY <1>4, <2>7, <2>8, <2>9
  <2>11. SubSeq(t(i), 1, Len(s)) = SubSeq(path, 1, Len(s))
    <3>1. Pop(t(i), k + 1) = Pop(path, k)
      BY <2>9, <2>10
    <3> HIDE DEF k, path, t, s
    <3> QED BY <2>10, <3>1 DEF Pop
  <2>12. Begins(i)
    BY <1>4, <2>7, <2>8, <2>9, <2>11
  <2> QED BY <2>3, <2>12
<1>6. Begins(m)
  BY <1>5
<1> QED BY <1>3, <1>6

(* After an allowed node, its token is off the tokens ahead.                *)
LEMMA AllowedStep ==
  ASSUME NEW w, Walkable(w), First(w) \in 1..Len(w.nodes),
         NEW n \in Below(w.nodes, First(w)),
         TextFrom(w.nodes, First(w), n) \in w.language
  PROVE  AllowedFrom(w, n) =
           AllowedFrom(w, n + 1) \cup (IF IsToken(w.nodes[n]) THEN {w.nodes[n].token} ELSE {})
<1>1. \A m \in Below(w.nodes, First(w)) : m \in Int
  BY DEF Below
<1>2. AllowedNodes(w, n) =
        AllowedNodes(w, n + 1) \cup (IF IsToken(w.nodes[n]) THEN {n} ELSE {})
  BY <1>1 DEF AllowedNodes
<1>3. First(w) # NoNode
  BY DEF NoNode
<1> QED BY <1>2, <1>3 DEF AllowedFrom

(* Under a refused node no token is allowed.                                *)
LEMMA RefusedStep ==
  ASSUME NEW w, Sound(w), First(w) \in 1..Len(w.nodes),
         NEW n \in Below(w.nodes, First(w)),
         TextFrom(w.nodes, First(w), n) \notin w.language
  PROVE  AllowedFrom(w, n) = AllowedFrom(w, NextNode(w.nodes, n))
<1>1. Preorder(w.nodes) /\ PrefixClosed(w.language)
  BY DEF Sound, Walkable
<1>2. (\A m \in Below(w.nodes, First(w)) : m \in Int) /\ n \in Int
  BY DEF Below
<1>3. NextNode(w.nodes, n) \in Int /\ NextNode(w.nodes, n) > n
  <2>1. n \in 1..Len(w.nodes)
    <3>1. n \in 2..Len(w.nodes)
      BY <1>1, ParentWithin
    <3> QED BY <3>1
  <2> QED BY <1>1, <2>1, Shape
<1>4. ASSUME NEW m \in AllowedNodes(w, n), ~(m >= NextNode(w.nodes, n)) PROVE FALSE
  <2>1. m \in Below(w.nodes, First(w)) /\ m >= n /\ TextFrom(w.nodes, First(w), m) \in w.language
    BY DEF AllowedNodes
  <2>2. m \in n..(NextNode(w.nodes, n) - 1)
    <3> DEFINE q == NextNode(w.nodes, n)
    <3>1. m \in Int /\ n \in Int /\ q \in Int /\ ~(m >= q) /\ m >= n
      BY <1>2, <1>3, <1>4, <2>1
    <3> HIDE DEF q
    <3>2. m \in n..(q - 1)
      BY <3>1
    <3> QED BY <3>2 DEF q
  <2> DEFINE s == TextFrom(w.nodes, First(w), n)
             t == TextFrom(w.nodes, First(w), m)
  <2>3. Len(s) \in 0..Len(t) /\ SubSeq(t, 1, Len(s)) = s
    BY <1>1, <2>2, SubtreeTexts
  <2>4. s \in w.language
    BY <1>1, <2>1, <2>3 DEF PrefixClosed
  <2> QED BY <2>4
<1>5. AllowedNodes(w, n) = AllowedNodes(w, NextNode(w.nodes, n))
  <2>1. ASSUME NEW m \in Below(w.nodes, First(w)), m >= NextNode(w.nodes, n) PROVE m >= n
    <3> DEFINE q == NextNode(w.nodes, n)
    <3>1. m \in Int /\ n \in Int /\ q \in Int /\ m >= q /\ q > n
      BY <1>2, <1>3, <2>1
    <3> HIDE DEF q
    <3> QED BY <3>1
  <2> QED BY <1>4, <2>1 DEF AllowedNodes
<1> QED BY <1>5 DEF AllowedFrom

(* At its end a walk has nothing ahead, and all at its beginning.           *)
LEMMA AllowedEnds ==
  ASSUME NEW w, Walkable(w), First(w) \in 1..Len(w.nodes)
  PROVE  /\ AllowedFrom(w, NextNode(w.nodes, First(w))) = {}
         /\ AllowedFrom(w, First(w) + 1) = Allowed(w)
<1>1. First(w) \in Nat /\ NextNode(w.nodes, First(w)) \in Nat
  BY Shape DEF Walkable
<1>2. AllowedNodes(w, NextNode(w.nodes, First(w))) = {}
  BY <1>1 DEF AllowedNodes, Below
<1>3. AllowedNodes(w, First(w) + 1) = AllowedNodes(w, 0)
  BY <1>1 DEF AllowedNodes, Below
<1> QED BY <1>2, <1>3 DEF AllowedFrom, Allowed

(* The tokens ahead of all walks.                                           *)
Ahead == (IF walk = NoWalk THEN {} ELSE AllowedFrom(walk, p)) \cup AllowedByAll(todo)
AllSound ==
  /\ \A i \in DOMAIN todo : Sound(todo[i])
  /\ walk # NoWalk => Sound(walk)

(* Taking a walk off the list.                                              *)
LEMMA NextWalk ==
  ASSUME NEW s, s \in Seq(Range(s)), s # <<>>
  PROVE  /\ AllowedByAll(s) = Allowed(Head(s)) \cup AllowedByAll(Tail(s))
         /\ \A i \in DOMAIN Tail(s) : \E j \in DOMAIN s : Tail(s)[i] = s[j]
         /\ \E j \in DOMAIN s : Head(s) = s[j]
<1> DEFINE t == Tail(s)
<1>1. Len(s) \in Nat \ {0} /\ DOMAIN s = 1..Len(s)
  BY LenProperties, EmptySeq
<1>2. /\ Head(s) = s[1] /\ t \in Seq(Range(s)) /\ Len(t) = Len(s) - 1
      /\ \A i \in 1..Len(t) : t[i] = s[i + 1]
  BY HeadTailProperties
<1> HIDE DEF t
<1>3. Len(t) \in Nat /\ DOMAIN t = 1..Len(t)
  BY <1>2, LenProperties
<1>4. \A i \in DOMAIN t : i + 1 \in DOMAIN s /\ t[i] = s[i + 1]
  BY <1>1, <1>2, <1>3
<1>5. \A j \in DOMAIN s : j = 1 \/ (j - 1 \in DOMAIN t /\ t[j - 1] = s[j])
  <2>1. ASSUME NEW j \in DOMAIN s, j # 1 PROVE j - 1 \in DOMAIN t /\ t[j - 1] = s[j]
    <3>1. j - 1 \in 1..Len(t) /\ (j - 1) + 1 = j
      BY <1>1, <1>2, <1>3, <2>1
    <3>2. t[j - 1] = s[(j - 1) + 1]
      BY <1>2, <3>1
    <3> QED BY <1>3, <3>1, <3>2
  <2> QED BY <2>1
<1>6. 1 \in DOMAIN s
  BY <1>1
<1>7. ASSUME NEW x PROVE x \in AllowedByAll(s) <=> x \in Allowed(Head(s)) \cup AllowedByAll(t)
  <2>1. ASSUME x \in AllowedByAll(s) PROVE x \in Allowed(Head(s)) \cup AllowedByAll(t)
    <3>1. PICK j \in DOMAIN s : x \in Allowed(s[j])
      BY <2>1 DEF AllowedByAll
    <3>2. CASE j = 1
      BY <1>2, <3>1, <3>2
    <3>3. CASE j - 1 \in DOMAIN t /\ t[j - 1] = s[j]
      BY <3>1, <3>3 DEF AllowedByAll
    <3> QED BY <1>5, <3>2, <3>3
  <2>2. ASSUME x \in Allowed(Head(s)) PROVE x \in AllowedByAll(s)
    BY <1>2, <1>6, <2>2 DEF AllowedByAll
  <2>3. ASSUME x \in AllowedByAll(t) PROVE x \in AllowedByAll(s)
    <3>1. PICK i \in DOMAIN t : x \in Allowed(t[i])
      BY <2>3 DEF AllowedByAll
    <3> QED BY <1>4, <3>1 DEF AllowedByAll
  <2> QED BY <2>1, <2>2, <2>3
<1> QED BY <1>2, <1>4, <1>6, <1>7 DEF t

(* A caller that asks once, for the walks and with the mask given.          *)
AskFor(q, walks, mask) == query = "none" /\ StartQuery(q, walks, mask)
QuerySpec(q, walks, mask) ==
  WalkInit /\ [][AskFor(q, walks, mask) \/ WalkNext]_walkVars

(* The walks together collect the mask and what the language allows.        *)
QueryInv(q, walks, mask) ==
  /\ WalkInv /\ AllSound
  /\ query \in {"none", q}
  /\ query = "none" => walk = NoWalk /\ todo = <<>> /\ ~ok
  /\ query = "bias" =>
       /\ ~ok
       /\ (toks \ {FakeToken}) \cup Ahead = mask \cup AllowedByAll(walks)
       /\ walk = NoWalk => FakeToken \notin toks
  /\ query = "extensions" =>
       IF ok THEN AllowedByAll(walks) # {} ELSE Ahead = AllowedByAll(walks)

(* Such a caller is one of those considered above.                          *)
LEMMA AskForAsks ==
  ASSUME NEW q \in {"bias", "extensions"}, NEW walks, walks \in Seq(Range(walks)),
         \A i \in DOMAIN walks : Sound(walks[i]), NEW mask, FakeToken \notin mask
  PROVE  AskFor(q, walks, mask) => Ask
BY DEF AskFor, Ask, Sound

(* What a step does to what is collected and ahead.                         *)
LEMMA QueryInvNext ==
  ASSUME NEW q \in {"bias", "extensions"}, NEW walks, walks \in Seq(Range(walks)),
         \A i \in DOMAIN walks : Sound(walks[i]), NEW mask, FakeToken \notin mask,
         QueryInv(q, walks, mask), [AskFor(q, walks, mask) \/ WalkNext]_walkVars
  PROVE  QueryInv(q, walks, mask)'
<1> DEFINE total == AllowedByAll(walks)
<1>1. /\ WalkInv /\ AllSound
      /\ query \in {"none", q}
      /\ query = "none" => walk = NoWalk /\ todo = <<>> /\ ~ok
      /\ query = "bias" =>
           /\ ~ok
           /\ (toks \ {FakeToken}) \cup Ahead = mask \cup total
           /\ walk = NoWalk => FakeToken \notin toks
      /\ query = "extensions" => IF ok THEN total # {} ELSE Ahead = total
  BY DEF QueryInv
<1>2. ok \in BOOLEAN /\ TodoOK /\ WalkOK
  BY <1>1 DEF WalkInv
<1>3. WalkInv'
  <2>1. [Ask \/ WalkNext]_walkVars
    BY AskForAsks
  <2> QED BY <1>1, <2>1, WalkInvNext
<1> HIDE DEF total
<1>4. SUFFICES
        /\ AllSound'
        /\ query' \in {"none", q}
        /\ query' = "none" => walk' = NoWalk /\ todo' = <<>> /\ ~ok'
        /\ query' = "bias" =>
             /\ ~ok'
             /\ (toks' \ {FakeToken}) \cup Ahead' = mask \cup total
             /\ walk' = NoWalk => FakeToken \notin toks'
        /\ query' = "extensions" => IF ok' THEN total # {} ELSE Ahead' = total
  BY <1>3 DEF QueryInv, total
<1>5. CASE AskFor(q, walks, mask)
  <2>1. /\ query = "none" /\ query' = q /\ todo' = walks /\ toks' = mask
        /\ walk' = walk /\ ok' = ok
    BY <1>5 DEF AskFor, StartQuery
  <2>2. walk' = NoWalk /\ ~ok'
    BY <1>1, <2>1
  <2>3. Ahead' = total
    BY <2>1, <2>2 DEF Ahead, total
  <2>4. AllSound'
    BY <2>1, <2>2 DEF AllSound
  <2> QED BY <2>1, <2>2, <2>3, <2>4
<1>6. CASE TrieStarted
  <2>1. /\ walk = NoWalk /\ todo # <<>> /\ todo' = Tail(todo)
        /\ UNCHANGED <<query, toks, ok>>
    BY <1>6 DEF TrieStarted
  <2> DEFINE w == Head(todo)
  <2>2. /\ AllowedByAll(todo) = Allowed(w) \cup AllowedByAll(todo')
        /\ \A i \in DOMAIN todo' : \E j \in DOMAIN todo : todo'[i] = todo[j]
        /\ \E j \in DOMAIN todo : w = todo[j]
    BY <1>2, <2>1, NextWalk DEF TodoOK
  <2>3. Sound(w) /\ (\A i \in DOMAIN todo' : Sound(todo'[i]))
    BY <1>1, <2>2 DEF AllSound
  <2>4. CASE First(w) = NoNode
    <3>1. walk' = NoWalk
      BY <1>6, <2>1, <2>4 DEF TrieStarted, First
    <3>2. Allowed(w) = {}
      BY <2>4 DEF Allowed, AllowedFrom
    <3> HIDE DEF w
    <3>3. Ahead' = Ahead
      BY <2>1, <2>2, <3>1, <3>2 DEF Ahead
    <3>4. AllSound'
      BY <2>3, <3>1 DEF AllSound
    <3> QED BY <1>1, <2>1, <3>1, <3>3, <3>4
  <2>5. CASE First(w) # NoNode
    <3>1. walk' = w /\ p' = First(w) + 1
      BY <1>6, <2>5 DEF TrieStarted, First
    <3> HIDE DEF w
    <3>2. w # NoWalk /\ Walkable(w)
      BY <2>3, WalkableIsWalk DEF Sound
    <3>3. First(w) \in 1..Len(w.nodes)
      BY <2>5, <3>2, StartInStep
    <3>4. AllowedFrom(w, First(w) + 1) = Allowed(w)
      BY <3>2, <3>3, AllowedEnds
    <3>5. Ahead' = Ahead
      BY <2>1, <2>2, <3>1, <3>2, <3>4 DEF Ahead
    <3>6. AllSound'
      BY <2>3, <3>1 DEF AllSound
    <3> QED BY <1>1, <2>1, <3>1, <3>2, <3>5, <3>6
  <2> QED BY <2>4, <2>5
<1> DEFINE first == First(walk)
           text == TextFrom(walk.nodes, first, p)
           token == walk.nodes[p].token
           found == IF IsToken(walk.nodes[p]) THEN {token} ELSE {}
<1>7. ASSUME Visiting
      PROVE  /\ walk # NoWalk /\ ~ok /\ Sound(walk) /\ Walkable(walk)
             /\ first \in 1..Len(walk.nodes) /\ p \in Below(walk.nodes, first)
             /\ Pushed = text /\ token # FakeToken
             /\ query \in {"bias", "extensions"}
  <2>1. walk # NoWalk /\ ~ok /\ p < endp
    BY <1>7 DEF Visiting
  <2>2. /\ Walkable(walk) /\ first \in 1..Len(walk.nodes)
        /\ endp = NextNode(walk.nodes, first) /\ p \in (first + 1)..endp
        /\ InStep(walk, p, next_pop, stack)
    BY <1>2, <2>1 DEF WalkOK
  <2>3. p \in Below(walk.nodes, first)
    <3>1. endp \in Nat /\ first \in Nat
      BY <2>2, Shape DEF Walkable
    <3> QED BY <2>1, <2>2, <3>1 DEF Below
  <2>4. Pushed = text
    BY <2>2, <2>3, VisitInStep DEF Pushed
  <2>5. token # FakeToken
    <3>1. p \in 2..Len(walk.nodes) /\ DOMAIN walk.nodes = 1..Len(walk.nodes)
      BY <2>2, <2>3, ParentWithin, Shape DEF Walkable
    <3>2. p \in DOMAIN walk.nodes
      BY <3>1
    <3> QED BY <2>2, <3>2 DEF Walkable, Preorder
  <2> QED BY <1>1, <2>1, <2>2, <2>3, <2>4, <2>5 DEF AllSound
<1>8. CASE VisitAllowed
  <2>1. /\ Visiting /\ Pushed \in walk.language /\ p' = p + 1
        /\ UNCHANGED <<query, todo, walk>>
        /\ query = "bias" => ok' = ok /\
             toks' = toks \cup {IF IsToken(walk.nodes[p]) THEN token ELSE FakeToken}
        /\ query # "bias" => ok' = IsToken(walk.nodes[p]) /\ toks' = toks
    BY <1>8 DEF VisitAllowed
  <2>2. AllowedFrom(walk, p) = AllowedFrom(walk, p') \cup found
    BY <1>7, <2>1, AllowedStep
  <2>3. Ahead = Ahead' \cup found
    BY <1>7, <2>1, <2>2 DEF Ahead
  <2>4. AllSound'
    BY <1>1, <2>1 DEF AllSound
  <2>5. walk' # NoWalk /\ query' # "none" /\ query' = query
    BY <1>7, <2>1
  <2>6. CASE query = "bias"
    <3>1. (toks' \ {FakeToken}) \cup Ahead' = (toks \ {FakeToken}) \cup Ahead
      <4> HIDE DEF token
      <4> QED BY <1>7, <2>1, <2>3, <2>6
    <3> QED BY <1>1, <1>7, <2>1, <2>4, <2>5, <2>6, <3>1
  <2>7. CASE query = "extensions"
    <3>1. Ahead = total
      BY <1>1, <1>7, <2>1, <2>7
    <3>2. ok' = IsToken(walk.nodes[p])
      BY <2>1, <2>7
    <3>3. IF ok' THEN total # {} ELSE Ahead' = total
      BY <2>3, <3>1, <3>2
    <3> QED BY <1>1, <2>4, <2>5, <2>7, <3>3
  <2> QED BY <1>7, <2>1, <2>6, <2>7
<1>9. CASE VisitRefused
  <2>1. /\ Visiting /\ Pushed \notin walk.language /\ p' = NextNode(walk.nodes, p)
        /\ UNCHANGED <<query, todo, walk, toks, ok>>
    BY <1>9 DEF VisitRefused
  <2>2. AllowedFrom(walk, p) = AllowedFrom(walk, p')
    BY <1>7, <2>1, RefusedStep
  <2>3. Ahead' = Ahead
    BY <1>7, <2>1, <2>2 DEF Ahead
  <2>4. AllSound'
    BY <1>1, <2>1 DEF AllSound
  <2> QED BY <1>1, <2>1, <2>3, <2>4
<1>10. CASE TrieFinished
  <2>1. /\ walk # NoWalk /\ (p >= endp \/ ok) /\ walk' = NoWalk
        /\ toks' = toks \ {FakeToken} /\ UNCHANGED <<query, todo, ok>>
    BY <1>10 DEF TrieFinished
  <2>2. AllSound'
    BY <1>1, <2>1 DEF AllSound
  <2>3. ~ok => AllowedFrom(walk, p) = {}
    <3>1. /\ Walkable(walk) /\ first \in 1..Len(walk.nodes)
          /\ endp = NextNode(walk.nodes, first) /\ p \in (first + 1)..endp
      BY <1>2, <2>1 DEF WalkOK
    <3>2. endp \in Nat /\ first \in Nat
      BY <3>1, Shape DEF Walkable
    <3>3. ~ok => p = endp
      BY <2>1, <3>1, <3>2
    <3> QED BY <3>1, <3>3, AllowedEnds
  <2>4. ~ok => Ahead' = Ahead
    BY <2>1, <2>3 DEF Ahead
  <2>5. FakeToken \notin toks' /\ toks' \ {FakeToken} = toks \ {FakeToken}
    BY <2>1
  <2> QED BY <1>1, <2>1, <2>2, <2>4, <2>5
<1>11. CASE UNCHANGED walkVars
  <2>1. UNCHANGED <<walk, p, ok, todo, toks, query>>
    BY <1>11 DEF walkVars
  <2>2. Ahead' = Ahead /\ AllSound'
    BY <1>1, <2>1 DEF Ahead, AllSound
  <2> QED BY <1>1, <2>1, <2>2
<1> QED BY <1>5, <1>6, <1>8, <1>9, <1>10, <1>11 DEF WalkNext

(* Before the query nothing is collected.                                   *)
LEMMA QueryInvInit ==
  ASSUME NEW q, NEW walks, NEW mask, WalkInit
  PROVE  QueryInv(q, walks, mask)
<1>1. WalkInv /\ query = "none" /\ walk = NoWalk /\ todo = <<>> /\ ~ok
  BY WalkInvInit DEF WalkInit
<1>2. AllSound
  <2>1. DOMAIN <<>> = {}
    OBVIOUS
  <2> QED BY <1>1, <2>1 DEF AllSound
<1> QED BY <1>1, <1>2 DEF QueryInv

(* What a finished query holds.                                             *)
LEMMA BiasDone ==
  ASSUME NEW walks, NEW mask, QueryInv("bias", walks, mask), Finished, query = "bias"
  PROVE  toks = mask \cup AllowedByAll(walks)
<1>1. walk = NoWalk /\ todo = <<>>
  BY DEF Finished
<1>2. Ahead = {}
  <2>1. DOMAIN <<>> = {}
    OBVIOUS
  <2> QED BY <1>1, <2>1 DEF Ahead, AllowedByAll
<1>3. /\ (toks \ {FakeToken}) \cup Ahead = mask \cup AllowedByAll(walks)
      /\ FakeToken \notin toks
  BY <1>1 DEF QueryInv
<1> QED BY <1>2, <1>3

(* And what a search has found.                                             *)
LEMMA ExtensionsDone ==
  ASSUME NEW walks, NEW mask, QueryInv("extensions", walks, mask),
         Finished, query = "extensions"
  PROVE  ok = (AllowedByAll(walks) # {})
<1>1. walk = NoWalk /\ todo = <<>>
  BY DEF Finished
<1>2. Ahead = {}
  <2>1. DOMAIN <<>> = {}
    OBVIOUS
  <2> QED BY <1>1, <2>1 DEF Ahead, AllowedByAll
<1>3. /\ IF ok THEN AllowedByAll(walks) # {} ELSE Ahead = AllowedByAll(walks)
      /\ ok \in BOOLEAN
  BY DEF QueryInv, WalkInv
<1> QED BY <1>2, <1>3

(* For all walks over tries in preorder and all prefix-closed languages:    *)
(* when add_bias() is done, the mask holds what it held before and exactly  *)
(* the tokens of the tries that the languages allow, whatever the lazy pops *)
(* and skipped subtrees; the fake token of nodes without one is gone.       *)
THEOREM BiasIsExact ==
  ASSUME NEW CONSTANT walks, walks \in Seq(Range(walks)),
         \A i \in DOMAIN walks : Sound(walks[i]),
         NEW CONSTANT mask, FakeToken \notin mask
  PROVE  QuerySpec("bias", walks, mask) =>
           [](Finished /\ query = "bias" => toks = mask \cup AllowedByAll(walks))
<1>1. WalkInit => QueryInv("bias", walks, mask)
  BY QueryInvInit
<1>2. ASSUME QueryInv("bias", walks, mask), [AskFor("bias", walks, mask) \/ WalkNext]_walkVars
      PROVE  QueryInv("bias", walks, mask)'
  BY <1>2, QueryInvNext
<1>3. ASSUME QueryInv("bias", walks, mask), Finished, query = "bias"
      PROVE  toks = mask \cup AllowedByAll(walks)
  BY <1>3, BiasDone
<1> QED BY <1>1, <1>2, <1>3, PTL DEF QuerySpec

(* For all walks over tries in preorder and all prefix-closed languages: a  *)
(* search for a valid extension, which stops at the first token it finds,   *)
(* finds one exactly if the languages allow one.                            *)
THEOREM ExtensionsExact ==
  ASSUME NEW CONSTANT walks, walks \in Seq(Range(walks)),
         \A i \in DOMAIN walks : Sound(walks[i])
  PROVE  QuerySpec("extensions", walks, {}) =>
           [](Finished /\ query = "extensions" => ok = (AllowedByAll(walks) # {}))
<1>1. WalkInit => QueryInv("extensions", walks, {})
  BY QueryInvInit
<1>2. ASSUME QueryInv("extensions", walks, {}),
             [AskFor("extensions", walks, {}) \/ WalkNext]_walkVars
      PROVE  QueryInv("extensions", walks, {})'
  BY <1>2, QueryInvNext
<1>3. ASSUME QueryInv("extensions", walks, {}), Finished, query = "extensions"
      PROVE  ok = (AllowedByAll(walks) # {})
  BY <1>3, ExtensionsDone
<1> QED BY <1>1, <1>2, <1>3, PTL DEF QuerySpec

-----------------------------------------------------------------------------
(* Putting things in order.                                                 *)

StrictOrder(S, before) ==
  /\ \A x \in S : <<x, x>> \notin before
  /\ \A x, y, z \in S : <<x, y>> \in before /\ <<y, z>> \in before => <<x, z>> \in before
  /\ \A x, y \in S : x = y \/ <<x, y>> \in before \/ <<y, x>> \in before

(* Ordered() lists all elements of a finite set.                            *)
LEMMA OrderedFacts ==
  ASSUME NEW S, IsFiniteSet(S), NEW before, StrictOrder(S, before)
  PROVE  /\ Ordered(S, before) \in Seq(S)
         /\ Range(Ordered(S, before)) = S
<1> DEFINE n == Cardinality(S)
           Below2(x) == {y \in S : <<y, x>> \in before}
           rank == [x \in S |-> Cardinality(Below2(x))]
<1>1. n \in Nat
  BY FS_CardinalityType
<1>2. ASSUME NEW x \in S
      PROVE  /\ IsFiniteSet(Below2(x)) /\ Cardinality(Below2(x)) \in Nat
             /\ IsFiniteSet(Below2(x) \cup {x})
             /\ Cardinality(Below2(x) \cup {x}) = Cardinality(Below2(x)) + 1
  <2>1. Below2(x) \in SUBSET S /\ x \notin Below2(x)
    BY DEF StrictOrder
  <2> HIDE DEF Below2
  <2>2. IsFiniteSet(Below2(x))
    BY <2>1, FS_Subset
  <2> QED BY <2>1, <2>2, FS_CardinalityType, FS_AddElement
<1>3. ASSUME NEW x \in S, NEW T \in SUBSET S, Below2(x) \cup {x} \subseteq T
      PROVE  Cardinality(Below2(x)) + 1 <= Cardinality(T)
  <2> HIDE DEF Below2
  <2>1. IsFiniteSet(T)
    BY FS_Subset
  <2>2. Cardinality(Below2(x) \cup {x}) <= Cardinality(T)
    BY <1>3, <2>1, FS_Subset
  <2> QED BY <1>2, <2>2
<1>4. rank \in [S -> 0..(n - 1)]
  <2>1. ASSUME NEW x \in S PROVE Cardinality(Below2(x)) \in 0..(n - 1)
    <3>1. Cardinality(Below2(x)) + 1 <= n
      <4>1. Below2(x) \cup {x} \subseteq S
        OBVIOUS
      <4> HIDE DEF Below2
      <4> QED BY <1>3, <4>1
    <3>2. Cardinality(Below2(x)) \in Nat
      BY <1>2
    <3> HIDE DEF Below2, n
    <3> QED BY <1>1, <3>1, <3>2
  <2> QED BY <2>1
<1>5. ASSUME NEW x \in S, NEW y \in S, <<x, y>> \in before
      PROVE  rank[x] # rank[y]
  <2>1. Below2(x) \cup {x} \subseteq Below2(y) /\ Below2(y) \in SUBSET S
    BY <1>5 DEF StrictOrder
  <2> HIDE DEF Below2
  <2>2. Cardinality(Below2(x)) + 1 <= Cardinality(Below2(y))
    BY <1>3, <2>1
  <2>3. Cardinality(Below2(x)) \in Nat /\ Cardinality(Below2(y)) \in Nat
    BY <1>2
  <2>4. Cardinality(Below2(x)) # Cardinality(Below2(y))
    BY <2>2, <2>3
  <2> QED BY <2>4
<1>6. \A x, y \in S : rank[x] = rank[y] => x = y
  <2> HIDE DEF rank
  <2> QED BY <1>5 DEF StrictOrder
<1> DEFINE T == 0..(n - 1)
<1> HIDE DEF rank
<1>7. IsFiniteSet(T) /\ Cardinality(T) = n
  <2> HIDE DEF n
  <2>1. n - 1 \in Int /\ 0 \in Int
    BY <1>1
  <2>2. /\ IsFiniteSet(T)
        /\ Cardinality(T) = IF 0 > n - 1 THEN 0 ELSE (n - 1) - 0 + 1
    BY <2>1, FS_Interval
  <2> QED BY <1>1, <2>2
<1>8. rank \in Injection(S, T)
  BY <1>4, <1>6 DEF Injection, IsInjective
<1>9. rank \in Surjection(S, T)
  <2> HIDE DEF T
  <2> QED BY <1>7, <1>8, FS_Injection
<1>10. \A i \in 1..n : \E x \in S : rank[x] = i - 1
  <2> SUFFICES ASSUME NEW i \in 1..n PROVE \E x \in S : rank[x] = i - 1
    OBVIOUS
  <2>1. i - 1 \in T
    BY <1>1
  <2> QED BY <1>9, <2>1 DEF Surjection
<1> DEFINE ord == [i \in 1..n |-> CHOOSE x \in S : rank[x] = i - 1]
<1>11. Ordered(S, before) = ord
  <2>1. \A x \in S : rank[x] = Cardinality({y \in S : <<y, x>> \in before})
    BY DEF rank
  <2>2. ASSUME NEW i \in 1..n
        PROVE  (CHOOSE x \in S : rank[x] = i - 1)
                 = CHOOSE x \in S : Cardinality({y \in S : <<y, x>> \in before}) = i - 1
    <3>1. \A x \in S : rank[x] = i - 1 <=> Cardinality({y \in S : <<y, x>> \in before}) = i - 1
      BY <2>1
    <3> QED BY <3>1, Zenon
  <2> QED BY <2>2 DEF Ordered
<1>12. ASSUME NEW i \in 1..n PROVE ord[i] \in S /\ rank[ord[i]] = i - 1
  <2>1. ord[i] = CHOOSE x \in S : rank[x] = i - 1
    OBVIOUS
  <2> HIDE DEF ord
  <2> QED BY <1>10, <2>1, Zenon
<1>13. ord \in [1..n -> S]
  <2>1. ord = [i \in 1..n |-> ord[i]]
    OBVIOUS
  <2> HIDE DEF ord
  <2> QED BY <1>12, <2>1
<1>14. ord \in Seq(S)
  <2> HIDE DEF ord, n
  <2> QED BY <1>1, <1>13, FunctionIsSequence
<1>15. ASSUME NEW x \in S PROVE \E i \in 1..n : ord[i] = x
  <2>1. rank[x] \in 0..(n - 1)
    BY <1>4
  <2>2. rank[x] + 1 \in 1..n /\ (rank[x] + 1) - 1 = rank[x]
    BY <1>1, <2>1
  <2> HIDE DEF ord
  <2>3. ord[rank[x] + 1] \in S /\ rank[ord[rank[x] + 1]] = rank[x]
    BY <1>12, <2>2
  <2> QED BY <1>6, <2>2, <2>3
<1>16. Range(ord) = S
  <2>1. DOMAIN ord = 1..n
    OBVIOUS
  <2> HIDE DEF ord
  <2> QED BY <1>12, <1>15, <2>1 DEF Range
<1> QED BY <1>11, <1>14, <1>16

(* Two words begin alike if their bytes do.                                 *)
LEMMA SamePrefix ==
  ASSUME NEW B, NEW v \in Seq(B), NEW w \in Seq(B), NEW k \in Nat, k <= Len(v), k <= Len(w)
  PROVE  SubSeq(v, 1, k) = SubSeq(w, 1, k) <=> \A j \in 1..k : v[j] = w[j]
<1>1. /\ Len(v) \in Nat /\ Len(w) \in Nat
      /\ \A j \in 1..k : v[j] \in B /\ w[j] \in B
  BY ElementOfSeq, LenProperties
<1>2. /\ SubSeq(v, 1, k) \in Seq(B) /\ Len(SubSeq(v, 1, k)) = k
      /\ \A j \in 1..k : SubSeq(v, 1, k)[j] = v[j]
  BY <1>1, SubSeqProperties
<1>3. /\ SubSeq(w, 1, k) \in Seq(B) /\ Len(SubSeq(w, 1, k)) = k
      /\ \A j \in 1..k : SubSeq(w, 1, k)[j] = w[j]
  BY <1>1, SubSeqProperties
<1> QED BY <1>2, <1>3, SeqEqual

(* A word comes before another if it ends, or has a smaller byte, where     *)
(* they first differ.                                                       *)
Precedes(v, w, i) ==
  /\ i \in 1..Len(w) /\ i <= Len(v) + 1
  /\ \A j \in 1..(i - 1) : v[j] = w[j]
  /\ i <= Len(v) => v[i] < w[i]

(* The order of texts, told by the first place where they differ.           *)
LEMMA LessIs ==
  ASSUME NEW v \in Seq(Nat), NEW w \in Seq(Nat)
  PROVE  Less(v, w) <=> \E i \in Nat : Precedes(v, w, i)
<1>1. Len(v) \in Nat /\ Len(w) \in Nat
  BY LenProperties
<1> DEFINE m == Min({Len(v), Len(w)})
<1>2. m \in {Len(v), Len(w)} /\ m <= Len(v) /\ m <= Len(w)
  <2>1. \E x \in {Len(v), Len(w)} : \A y \in {Len(v), Len(w)} : x <= y
    BY <1>1
  <2>2. m \in {Len(v), Len(w)} /\ \A y \in {Len(v), Len(w)} : m <= y
    BY <2>1, Zenon DEF Min
  <2> QED BY <2>2
<1> HIDE DEF m
<1>3. ASSUME NEW i \in 1..m,
             SubSeq(v, 1, i - 1) = SubSeq(w, 1, i - 1), v[i] < w[i]
      PROVE  \E j \in Nat : Precedes(v, w, j)
  <2>1. i - 1 \in Nat /\ i - 1 <= Len(v) /\ i - 1 <= Len(w) /\ i \in Nat
        /\ i \in 1..Len(w) /\ i <= Len(v) + 1
    BY <1>1, <1>2
  <2>2. \A j \in 1..(i - 1) : v[j] = w[j]
    BY <1>3, <2>1, SamePrefix
  <2> QED BY <1>3, <2>1, <2>2 DEF Precedes
<1>4. ASSUME IsStrictPrefix(v, w) PROVE \E j \in Nat : Precedes(v, w, j)
  <2>1. Len(v) <= Len(w) /\ v # w /\ SubSeq(v, 1, Len(v)) = SubSeq(w, 1, Len(v))
    BY <1>4 DEF IsStrictPrefix, IsPrefix
  <2>2. \A j \in 1..Len(v) : v[j] = w[j]
    BY <1>1, <2>1, SamePrefix
  <2>3. Len(v) # Len(w)
    BY <2>1, <2>2, SeqEqual
  <2>4. Len(v) + 1 \in 1..Len(w) /\ (Len(v) + 1) - 1 = Len(v) /\ Len(v) + 1 \in Nat
        /\ ~(Len(v) + 1 <= Len(v)) /\ Len(v) + 1 <= Len(v) + 1
    BY <1>1, <2>1, <2>3
  <2>5. Precedes(v, w, Len(v) + 1)
    BY <2>2, <2>4 DEF Precedes
  <2> QED BY <2>4, <2>5
<1>5. ASSUME NEW i \in Nat, Precedes(v, w, i) PROVE Less(v, w)
  <2>1. /\ i \in 1..Len(w) /\ i <= Len(v) + 1
        /\ \A j \in 1..(i - 1) : v[j] = w[j]
        /\ i <= Len(v) => v[i] < w[i]
    BY <1>5 DEF Precedes
  <2>2. i - 1 \in Nat /\ i - 1 <= Len(v) /\ i - 1 <= Len(w)
    BY <1>1, <2>1
  <2>3. SubSeq(v, 1, i - 1) = SubSeq(w, 1, i - 1)
    BY <2>1, <2>2, SamePrefix
  <2>4. CASE i <= Len(v)
    <3>1. i \in 1..m
      BY <1>2, <2>1, <2>4
    <3> QED BY <2>1, <2>3, <2>4, <3>1 DEF Less, m
  <2>5. CASE ~(i <= Len(v))
    <3>1. i - 1 = Len(v) /\ Len(v) <= Len(w) /\ Len(v) # Len(w)
      BY <1>1, <2>1, <2>5
    <3>2. v # w
      BY <3>1
    <3> QED BY <2>3, <3>1, <3>2 DEF Less, IsStrictPrefix, IsPrefix
  <2> QED BY <2>4, <2>5
<1>6. Less(v, w) => \E j \in Nat : Precedes(v, w, j)
  BY <1>3, <1>4 DEF Less, m
<1> QED BY <1>5, <1>6

(* The order of the words is one.                                           *)
LEMMA LessOrders ==
  /\ \A v \in Seq(Nat) : ~Less(v, v)
  /\ \A v, w, x \in Seq(Nat) : Less(v, w) /\ Less(w, x) => Less(v, x)
  /\ \A v, w \in Seq(Nat) : v = w \/ Less(v, w) \/ Less(w, v)
<1>1. ASSUME NEW v \in Seq(Nat) PROVE ~Less(v, v)
  <2> SUFFICES ASSUME NEW i \in Nat, Precedes(v, v, i) PROVE FALSE
    BY LessIs
  <2>1. Len(v) \in Nat /\ i \in 1..Len(v) /\ v[i] < v[i]
    BY LenProperties DEF Precedes
  <2>2. v[i] \in Nat
    BY <2>1, ElementOfSeq
  <2> QED BY <2>1, <2>2
<1>2. ASSUME NEW v \in Seq(Nat), NEW w \in Seq(Nat), NEW x \in Seq(Nat),
             Less(v, w), Less(w, x)
      PROVE  Less(v, x)
  <2>1. PICK i \in Nat : Precedes(v, w, i)
    BY <1>2, LessIs
  <2>2. PICK j \in Nat : Precedes(w, x, j)
    BY <1>2, LessIs
  <2>3. /\ i \in 1..Len(w) /\ i <= Len(v) + 1
        /\ \A k \in 1..(i - 1) : v[k] = w[k]
        /\ i <= Len(v) => v[i] < w[i]
        /\ j \in 1..Len(x) /\ j <= Len(w) + 1
        /\ \A k \in 1..(j - 1) : w[k] = x[k]
        /\ j <= Len(w) => w[j] < x[j]
        /\ Len(v) \in Nat /\ Len(w) \in Nat /\ Len(x) \in Nat
    BY <2>1, <2>2, LenProperties DEF Precedes
  <2> DEFINE k == IF i <= j THEN i ELSE j
  <2>4. k \in Nat /\ k \in 1..Len(x) /\ k <= Len(v) + 1
    BY <2>3
  <2>5. \A l \in 1..(k - 1) : v[l] = x[l]
    <3> SUFFICES ASSUME NEW l \in 1..(k - 1) PROVE v[l] = x[l]
      OBVIOUS
    <3>1. l \in 1..(i - 1) /\ l \in 1..(j - 1)
      OBVIOUS
    <3> QED BY <2>3, <3>1
  <2>6. k <= Len(v) => v[k] < x[k]
    <3> SUFFICES ASSUME k <= Len(v) PROVE v[k] < x[k]
      OBVIOUS
    <3>1. k \in 1..Len(v) /\ k \in 1..Len(w) /\ k \in 1..Len(x)
      BY <2>3, <2>4
    <3>2. v[k] \in Nat /\ w[k] \in Nat /\ x[k] \in Nat
      <4> HIDE DEF k
      <4> QED BY <3>1, ElementOfSeq
    <3>3. CASE i < j
      <4>1. k = i /\ i \in 1..(j - 1)
        BY <2>3, <3>3
      <4> QED BY <2>3, <4>1
    <3>4. CASE j < i
      <4>1. k = j /\ j \in 1..(i - 1)
        BY <2>3, <3>4
      <4> QED BY <2>3, <3>1, <4>1
    <3>5. CASE i = j
      BY <2>3, <3>1, <3>2, <3>5
    <3> QED BY <3>3, <3>4, <3>5
  <2> HIDE DEF k
  <2>7. Precedes(v, x, k)
    BY <2>4, <2>5, <2>6 DEF Precedes
  <2> QED BY <2>4, <2>7, LessIs
<1>3. ASSUME NEW v \in Seq(Nat), NEW w \in Seq(Nat), v # w
      PROVE  Less(v, w) \/ Less(w, v)
  <2>1. Len(v) \in Nat /\ Len(w) \in Nat
    BY LenProperties
  <2> DEFINE Differ == {i \in Nat \ {0} : \/ i = Len(v) + 1 /\ i # Len(w) + 1
                                          \/ i # Len(v) + 1 /\ i = Len(w) + 1
                                          \/ i <= Len(v) /\ i <= Len(w) /\ v[i] # w[i]}
  <2>2. Differ # {}
    <3> SUFFICES ASSUME Differ = {} PROVE FALSE
      OBVIOUS
    <3>1. Len(v) + 1 \notin Differ
      OBVIOUS
    <3>2. Len(v) = Len(w)
      BY <2>1, <3>1
    <3>3. ASSUME NEW i \in 1..Len(v) PROVE v[i] = w[i]
      <4>1. i \notin Differ
        OBVIOUS
      <4> QED BY <2>1, <3>2, <4>1
    <3> QED BY <1>3, <3>2, <3>3, SeqEqual
  <2>3. PICK i \in Differ : \A j \in Differ : i <= j
    <3>1. Differ \in SUBSET Nat
      OBVIOUS
    <3> HIDE DEF Differ
    <3> QED BY <2>2, <3>1, LeastNumber
  <2>4. i \in Nat \ {0} /\ \A j \in Nat \ {0} : j < i => j \notin Differ
    <3>1. i \in Nat \ {0}
      BY <2>3
    <3> HIDE DEF Differ
    <3> QED BY <2>3, <3>1
  <2>5. \A j \in Nat \ {0} : j < i => j # Len(v) + 1 /\ j # Len(w) + 1
    <3> SUFFICES ASSUME NEW j \in Nat \ {0}, j < i, j = Len(v) + 1 \/ j = Len(w) + 1
                 PROVE  FALSE
      OBVIOUS
    <3>1. j \notin Differ
      BY <2>4
    <3>2. j = Len(v) + 1 /\ j = Len(w) + 1
      BY <2>1, <3>1
    <3>3. i > Len(v) + 1 /\ i > Len(w) + 1
      BY <3>2
    <3> QED BY <2>1, <2>3, <2>4, <3>3
  <2>6. i <= Len(v) + 1 /\ i <= Len(w) + 1
    <3>1. Len(v) + 1 \in Nat \ {0} /\ Len(w) + 1 \in Nat \ {0}
      BY <2>1
    <3> QED BY <2>1, <2>4, <2>5, <3>1
  <2>7. \A j \in 1..(i - 1) : v[j] = w[j]
    <3> SUFFICES ASSUME NEW j \in 1..(i - 1) PROVE v[j] = w[j]
      OBVIOUS
    <3>1. j \notin Differ /\ j \in Nat \ {0} /\ j <= Len(v) /\ j <= Len(w)
      BY <2>1, <2>4, <2>6
    <3> QED BY <3>1
  <2>8. \/ i = Len(v) + 1 /\ i # Len(w) + 1
        \/ i # Len(v) + 1 /\ i = Len(w) + 1
        \/ i <= Len(v) /\ i <= Len(w) /\ v[i] # w[i]
    BY <2>3
  <2> HIDE DEF Differ
  <2>9. i \in Nat /\ \A j \in 1..(i - 1) : w[j] = v[j]
    BY <2>4, <2>7
  <2>10. CASE i = Len(v) + 1 /\ i # Len(w) + 1
    <3>1. i \in 1..Len(w) /\ ~(i <= Len(v))
      BY <2>1, <2>4, <2>6, <2>10
    <3>2. Precedes(v, w, i)
      BY <2>6, <2>7, <3>1 DEF Precedes
    <3> QED BY <2>9, <3>2, LessIs
  <2>11. CASE i # Len(v) + 1 /\ i = Len(w) + 1
    <3>1. i \in 1..Len(v) /\ ~(i <= Len(w))
      BY <2>1, <2>4, <2>6, <2>11
    <3>2. Precedes(w, v, i)
      BY <2>6, <2>9, <3>1 DEF Precedes
    <3> QED BY <2>9, <3>2, LessIs
  <2>12. CASE i <= Len(v) /\ i <= Len(w) /\ v[i] # w[i]
    <3>1. i \in 1..Len(v) /\ i \in 1..Len(w)
      BY <2>1, <2>4, <2>12
    <3>2. v[i] \in Nat /\ w[i] \in Nat
      BY <3>1, ElementOfSeq
    <3>3. v[i] < w[i] \/ w[i] < v[i]
      BY <2>12, <3>2
    <3>4. Precedes(v, w, i) \/ Precedes(w, v, i)
      BY <2>6, <2>7, <2>9, <3>1, <3>3 DEF Precedes
    <3> QED BY <2>9, <3>4, LessIs
  <2> QED BY <2>8, <2>10, <2>11, <2>12
<1> QED BY <1>1, <1>2, <1>3

(* The vocabulary is sorted without loss.                                   *)
LEMMA SortedVocabFacts ==
  ASSUME NEW ws \in Seq(Seq(Nat))
  PROVE  /\ SortedVocab(ws) \in Seq(1..Len(ws))
         /\ Range(SortedVocab(ws)) = 1..Len(ws)
<1> DEFINE S == 1..Len(ws)
           before == {e \in S \X S : \/ Less(ws[e[1]], ws[e[2]])
                                     \/ ws[e[1]] = ws[e[2]] /\ e[1] < e[2]}
<1>1. Len(ws) \in Nat /\ \A t \in S : ws[t] \in Seq(Nat) /\ t \in Nat
  BY LenProperties, ElementOfSeq
<1>2. IsFiniteSet(S)
  BY <1>1, FS_Interval
<1>3. \A x, y \in S : <<x, y>> \in before <=> Less(ws[x], ws[y]) \/ (ws[x] = ws[y] /\ x < y)
  OBVIOUS
<1>4. SortedVocab(ws) = Ordered(S, before)
  BY DEF SortedVocab
<1> HIDE DEF S, before
<1>5. \A x, y \in S : x \in Nat /\ y \in Nat
  BY <1>1
<1>6. ASSUME NEW x \in S PROVE <<x, x>> \notin before
  BY <1>1, <1>3, LessOrders
<1>7. ASSUME NEW x \in S, NEW y \in S, NEW z \in S, <<x, y>> \in before, <<y, z>> \in before
      PROVE  <<x, z>> \in before
  <2>1. Less(ws[x], ws[y]) \/ (ws[x] = ws[y] /\ x < y)
    BY <1>3, <1>7
  <2>2. Less(ws[y], ws[z]) \/ (ws[y] = ws[z] /\ y < z)
    BY <1>3, <1>7
  <2>3. x < y /\ y < z => x < z
    BY <1>5
  <2>4. Less(ws[x], ws[y]) /\ Less(ws[y], ws[z]) => Less(ws[x], ws[z])
    BY <1>1, LessOrders
  <2>5. Less(ws[x], ws[z]) \/ (ws[x] = ws[z] /\ x < z)
    BY <2>1, <2>2, <2>3, <2>4
  <2> QED BY <1>3, <2>5
<1>8. ASSUME NEW x \in S, NEW y \in S, x # y PROVE <<x, y>> \in before \/ <<y, x>> \in before
  <2>1. x < y \/ y < x
    BY <1>5, <1>8
  <2>2. ws[x] = ws[y] \/ Less(ws[x], ws[y]) \/ Less(ws[y], ws[x])
    BY <1>1, LessOrders
  <2> QED BY <1>3, <2>1, <2>2
<1>9. StrictOrder(S, before)
  BY <1>6, <1>7, <1>8, Zenon DEF StrictOrder
<1>10. Ordered(S, before) \in Seq(S) /\ Range(Ordered(S, before)) = S
  BY <1>2, <1>9, OrderedFacts
<1> QED BY <1>4, <1>10 DEF S

-----------------------------------------------------------------------------
(* The arena in which a trie is built.                                      *)

ArenaNode == [byte : Nat, token : Nat, children : Seq(Nat)]

(* The i-th child of node x is y.                                           *)
ChildOf(a, x, i, y) ==
  x \in 1..Len(a) /\ i \in 1..Len(a[x].children) /\ a[x].children[i] = y

(* No child before node y of its parent has its byte.                       *)
Foremost(a, y) ==
  \A x, i : ChildOf(a, x, i, y) =>
    \A j \in 1..(i - 1) : a[a[x].children[j]].byte # a[y].byte

(* Children come after their parents, in order; every node but the root has *)
(* one parent; and only the first child with a byte has children.           *)
ArenaOK(a) ==
  /\ a \in Seq(ArenaNode) /\ Len(a) \in Nat \ {0}
  /\ \A x, i, y : ChildOf(a, x, i, y) =>
       /\ y \in (x + 1)..Len(a)
       /\ \A j \in 1..(i - 1) : a[x].children[j] < y
       /\ a[y].children # <<>> =>
            \A j \in 1..(i - 1) : a[a[x].children[j]].byte # a[y].byte
  /\ \A x, i, z, j, y : ChildOf(a, x, i, y) /\ ChildOf(a, z, j, y) => x = z /\ i = j
  /\ \A y \in 2..Len(a) : \E x, i : ChildOf(a, x, i, y)

(* text has the text of each node.                                          *)
Spells(a, text) ==
  /\ text \in [1..Len(a) -> Seq(Nat)] /\ text[1] = <<>>
  /\ \A x, i, y : ChildOf(a, x, i, y) => text[y] = Append(text[x], a[y].byte)

(* The nodes have the tokens of W, pairs of a token and its text.           *)
HoldsTokens(a, text, W) ==
  /\ \A y \in 1..Len(a) : a[y].token # 0 => y # 1 /\ <<a[y].token, text[y]>> \in W
  /\ \A e \in W : \E y \in 2..Len(a) : a[y].token # 0 /\ e = <<a[y].token, text[y]>>

ArenaOf(a, W) == ArenaOK(a) /\ \E text : Spells(a, text) /\ HoldsTokens(a, text, W)

(* Nodes and their children.                                                *)
LEMMA ArenaFacts ==
  ASSUME NEW a, ArenaOK(a)
  PROVE  /\ a \in Seq(ArenaNode) /\ Len(a) \in Nat \ {0} /\ DOMAIN a = 1..Len(a)
         /\ \A x \in 1..Len(a) : /\ a[x] \in ArenaNode
                                 /\ a[x].byte \in Nat /\ a[x].token \in Nat
                                 /\ a[x].children \in Seq(Nat) /\ Len(a[x].children) \in Nat
         /\ \A x, i, y : ChildOf(a, x, i, y) =>
              x \in 1..Len(a) /\ y \in 2..Len(a) /\ x < y /\ i \in Nat \ {0}
<1>1. a \in Seq(ArenaNode) /\ Len(a) \in Nat \ {0}
  BY DEF ArenaOK
<1>2. \A x \in 1..Len(a) : a[x] \in ArenaNode
  BY <1>1, ElementOfSeq
<1>3. \A x \in 1..Len(a) : /\ a[x].byte \in Nat /\ a[x].token \in Nat
                           /\ a[x].children \in Seq(Nat)
  BY <1>2 DEF ArenaNode
<1>4. \A x \in 1..Len(a) : Len(a[x].children) \in Nat
  BY <1>3, LenProperties
<1>5. ASSUME NEW x, NEW i, NEW y, ChildOf(a, x, i, y)
      PROVE  x \in 1..Len(a) /\ y \in 2..Len(a) /\ x < y /\ i \in Nat \ {0}
  <2>1. x \in 1..Len(a) /\ i \in 1..Len(a[x].children)
    BY <1>5 DEF ChildOf
  <2>2. y \in (x + 1)..Len(a)
    BY <1>5 DEF ArenaOK
  <2>3. Len(a[x].children) \in Nat
    BY <1>4, <2>1
  <2> QED BY <1>1, <2>1, <2>2, <2>3
<1> QED BY <1>1, <1>2, <1>3, <1>4, <1>5, LenProperties

(* An arena with another child of a node.                                   *)
Grown(a, at, byte) ==
  Append([a EXCEPT ![at].children = Append(@, Len(a) + 1)], BuilderNode(byte))

(* What a node added to the arena leaves and adds.                          *)
LEMMA GrownFacts ==
  ASSUME NEW a, ArenaOK(a), NEW at \in 1..Len(a), NEW byte \in Nat
  PROVE  LET g == Grown(a, at, byte)
             n == Len(a)
             new == Len(a) + 1
         IN  /\ g \in Seq(ArenaNode) /\ Len(g) = n + 1
             /\ g[new].byte = byte /\ g[new].token = 0 /\ g[new].children = <<>>
             /\ \A x \in 1..n : g[x].byte = a[x].byte /\ g[x].token = a[x].token
             /\ \A x \in 1..n : x # at => g[x].children = a[x].children
             /\ \A x, i, y : ChildOf(g, x, i, y) <=>
                  \/ ChildOf(a, x, i, y)
                  \/ x = at /\ i = Len(a[at].children) + 1 /\ y = new
             /\ \A x, i : x \in 1..n /\ i \in 1..Len(a[x].children)
                            => g[x].children[i] = a[x].children[i]
<1> DEFINE n == Len(a)
           new == n + 1
           kids == Append(a[at].children, new)
           e == [a EXCEPT ![at].children = Append(@, new)]
           g == Append(e, BuilderNode(byte))
<1>1. /\ a \in Seq(ArenaNode) /\ n \in Nat \ {0} /\ DOMAIN a = 1..n
      /\ \A x \in 1..n : /\ a[x] \in ArenaNode
                         /\ a[x].children \in Seq(Nat) /\ Len(a[x].children) \in Nat
  BY ArenaFacts
<1>2. /\ kids \in Seq(Nat) /\ Len(kids) = Len(a[at].children) + 1
      /\ \A i \in 1..Len(a[at].children) : kids[i] = a[at].children[i]
      /\ kids[Len(a[at].children) + 1] = new
  <2>1. a[at].children \in Seq(Nat) /\ new \in Nat
    BY <1>1
  <2> HIDE DEF new
  <2> QED BY <2>1, AppendProperties
<1> HIDE DEF kids
<1>3. e = [a EXCEPT ![at] = [@ EXCEPT !.children = kids]]
  BY DEF kids
<1>4. [a[at] EXCEPT !.children = kids] \in ArenaNode
  BY <1>1, <1>2 DEF ArenaNode
<1>5. /\ e \in Seq(ArenaNode) /\ Len(e) = n
      /\ \A x \in 1..n : e[x] = IF x = at THEN [a[at] EXCEPT !.children = kids] ELSE a[x]
  <2> DEFINE v == [a[at] EXCEPT !.children = kids]
  <2>1. e = [a EXCEPT ![at] = v]
    BY <1>3
  <2>2. v \in ArenaNode
    BY <1>4
  <2> HIDE DEF v, e
  <2>3. /\ e \in Seq(ArenaNode) /\ Len(e) = n
        /\ \A x \in 1..n : e[x] = IF x = at THEN v ELSE a[x]
    BY <1>1, <2>1, <2>2, ExceptSeq
  <2> QED BY <2>3 DEF v
<1> HIDE DEF e
<1>6. BuilderNode(byte) = [byte |-> byte, token |-> 0, children |-> <<>>]
  BY DEF BuilderNode, NO_TOKEN
<1>7. BuilderNode(byte) \in ArenaNode
  <2>1. <<>> \in Seq(Nat)
    BY EmptySeq
  <2> QED BY <1>6, <2>1 DEF ArenaNode
<1>8. /\ g \in Seq(ArenaNode) /\ Len(g) = n + 1
      /\ \A x \in 1..n : g[x] = e[x]
      /\ g[new] = BuilderNode(byte)
  BY <1>1, <1>5, <1>7, AppendProperties
<1> HIDE DEF g
<1>9. g[new].byte = byte /\ g[new].token = 0 /\ g[new].children = <<>>
  BY <1>6, <1>8
<1>10. ASSUME NEW x \in 1..n
       PROVE  /\ g[x].byte = a[x].byte /\ g[x].token = a[x].token
              /\ g[x].children = IF x = at THEN kids ELSE a[x].children
  <2>1. g[x] = IF x = at THEN [a[at] EXCEPT !.children = kids] ELSE a[x]
    BY <1>5, <1>8
  <2>2. a[at] \in ArenaNode
    BY <1>1
  <2> QED BY <2>1, <2>2 DEF ArenaNode
<1>11. Len(<<>>) = 0
  BY EmptySeq
<1>12. ASSUME NEW x, NEW i, NEW y
       PROVE  ChildOf(g, x, i, y) <=> \/ ChildOf(a, x, i, y)
                                      \/ x = at /\ i = Len(a[at].children) + 1 /\ y = new
  <2>1. x \in 1..(n + 1) <=> x \in 1..n \/ x = new
    BY <1>1
  <2>2. CASE x = new
    <3>1. x \notin 1..n /\ x # at
      BY <1>1, <2>2
    <3> QED BY <1>9, <1>11, <2>2, <3>1 DEF ChildOf
  <2>3. CASE x \in 1..n /\ x # at
    <3>1. g[x].children = a[x].children
      BY <1>10, <2>3
    <3> QED BY <1>8, <2>1, <2>3, <3>1 DEF ChildOf
  <2>4. CASE x = at
    <3>1. g[x].children = kids
      BY <1>10, <2>4
    <3>2. i \in 1..Len(kids) <=> i \in 1..Len(a[at].children) \/ i = Len(a[at].children) + 1
      BY <1>1, <1>2
    <3>3. ~(Len(a[at].children) + 1 \in 1..Len(a[at].children))
      BY <1>1
    <3> QED BY <1>2, <1>8, <2>1, <2>4, <3>1, <3>2, <3>3 DEF ChildOf
  <2>5. CASE x \notin 1..n /\ x # new
    BY <1>8, <2>1, <2>5 DEF ChildOf
  <2> QED BY <2>2, <2>3, <2>4, <2>5
<1>13. ASSUME NEW x, NEW i, x \in 1..n, i \in 1..Len(a[x].children)
       PROVE  g[x].children[i] = a[x].children[i]
  BY <1>2, <1>10, <1>13
<1>14. Grown(a, at, byte) = g
  BY DEF Grown, g, e
<1>15. \A x \in 1..n : x # at => g[x].children = a[x].children
  BY <1>10
<1> HIDE DEF new
<1> QED BY <1>8, <1>9, <1>10, <1>12, <1>13, <1>14, <1>15 DEF new

(* One more node under a node which is foremost.                            *)
LEMMA GrownOK ==
  ASSUME NEW a, ArenaOK(a), NEW at \in 1..Len(a), Foremost(a, at), NEW byte \in Nat
  PROVE  ArenaOK(Grown(a, at, byte))
<1> DEFINE g == Grown(a, at, byte)
           n == Len(a)
           new == Len(a) + 1
           last == Len(a[at].children) + 1
<1>1. /\ g \in Seq(ArenaNode) /\ Len(g) = n + 1
      /\ g[new].byte = byte /\ g[new].children = <<>>
      /\ \A x \in 1..n : g[x].byte = a[x].byte
      /\ \A x \in 1..n : x # at => g[x].children = a[x].children
      /\ \A x, i, y : ChildOf(g, x, i, y) <=>
           \/ ChildOf(a, x, i, y)
           \/ x = at /\ i = last /\ y = new
      /\ \A x, i : x \in 1..n /\ i \in 1..Len(a[x].children)
                     => g[x].children[i] = a[x].children[i]
  BY GrownFacts
<1>2. /\ n \in Nat \ {0}
      /\ \A x \in 1..n : Len(a[x].children) \in Nat
      /\ \A x, i, y : ChildOf(a, x, i, y) => x \in 1..n /\ y \in 2..n /\ x < y /\ i \in Nat \ {0}
  BY ArenaFacts
<1> HIDE DEF g
<1>3. ASSUME NEW x, NEW i, NEW y, ChildOf(a, x, i, y)
      PROVE  /\ x \in 1..n /\ i \in 1..Len(a[x].children) /\ a[x].children[i] = y
             /\ y \in (x + 1)..n
             /\ \A j \in 1..(i - 1) : a[x].children[j] < y
             /\ a[y].children # <<>> =>
                  \A j \in 1..(i - 1) : a[a[x].children[j]].byte # a[y].byte
             /\ \A j \in 1..(i - 1) : /\ ChildOf(a, x, j, a[x].children[j])
                                      /\ g[x].children[j] = a[x].children[j]
  <2>1. x \in 1..n /\ i \in 1..Len(a[x].children) /\ a[x].children[i] = y
    BY <1>3 DEF ChildOf
  <2>2. \A j \in 1..(i - 1) : j \in 1..Len(a[x].children)
    BY <1>2, <2>1
  <2>3. /\ y \in (x + 1)..n
        /\ \A j \in 1..(i - 1) : a[x].children[j] < y
        /\ a[y].children # <<>> =>
             \A j \in 1..(i - 1) : a[a[x].children[j]].byte # a[y].byte
    BY <1>3 DEF ArenaOK
  <2>4. \A j \in 1..(i - 1) : ChildOf(a, x, j, a[x].children[j])
    BY <2>1, <2>2 DEF ChildOf
  <2> QED BY <1>1, <2>1, <2>2, <2>3, <2>4
<1>4. ASSUME NEW x, NEW i, NEW y, ChildOf(a, x, i, y)
      PROVE  /\ y \in (x + 1)..(n + 1)
             /\ \A j \in 1..(i - 1) : g[x].children[j] < y
             /\ g[y].children # <<>> =>
                  \A j \in 1..(i - 1) : g[g[x].children[j]].byte # g[y].byte
  <2>1. y \in (x + 1)..(n + 1) /\ y \in 1..n
    BY <1>2, <1>4
  <2>2. \A j \in 1..(i - 1) : /\ g[x].children[j] = a[x].children[j]
                              /\ a[x].children[j] < y
                              /\ a[x].children[j] \in 1..n
    <3>1. \A j \in 1..(i - 1) : ChildOf(a, x, j, a[x].children[j])
      BY <1>3, <1>4
    <3>2. \A j \in 1..(i - 1) : a[x].children[j] \in 2..n
      BY <1>2, <3>1
    <3>3. \A k \in 2..n : k \in 1..n
      BY <1>2
    <3> QED BY <1>3, <1>4, <3>2, <3>3
  <2>3. ASSUME g[y].children # <<>>
        PROVE  \A j \in 1..(i - 1) : a[a[x].children[j]].byte # a[y].byte
    <3>1. CASE y = at
      BY <1>4, <3>1 DEF Foremost
    <3>2. CASE y # at
      BY <1>1, <1>3, <1>4, <2>1, <2>3, <3>2
    <3> QED BY <3>1, <3>2
  <2> QED BY <1>1, <2>1, <2>2, <2>3
<1>5. ASSUME NEW x, NEW i, NEW y, x = at, i = last, y = new
      PROVE  /\ y \in (x + 1)..(n + 1)
             /\ \A j \in 1..(i - 1) : g[x].children[j] < y
             /\ g[y].children = <<>>
  <2>1. y \in (x + 1)..(n + 1) /\ i - 1 = Len(a[at].children)
    BY <1>2, <1>5
  <2>2. ASSUME NEW j \in 1..Len(a[at].children) PROVE g[at].children[j] < new
    <3>1. ChildOf(a, at, j, a[at].children[j]) /\ g[at].children[j] = a[at].children[j]
      BY <1>1 DEF ChildOf
    <3>2. a[at].children[j] \in 2..n
      BY <1>2, <3>1
    <3> QED BY <1>2, <3>1, <3>2
  <2> QED BY <1>1, <1>5, <2>1, <2>2
<1>6. \A x, i, y : ChildOf(g, x, i, y) =>
        /\ y \in (x + 1)..Len(g)
        /\ \A j \in 1..(i - 1) : g[x].children[j] < y
        /\ g[y].children # <<>> =>
             \A j \in 1..(i - 1) : g[g[x].children[j]].byte # g[y].byte
  <2> HIDE DEF last, new
  <2> QED BY <1>1, <1>4, <1>5
<1>7. ASSUME NEW x, NEW i, NEW z, NEW j, NEW y, ChildOf(g, x, i, y), ChildOf(g, z, j, y)
      PROVE  x = z /\ i = j
  <2>1. \A u, k : ~ChildOf(a, u, k, new)
    BY <1>2
  <2>2. ChildOf(a, x, i, y) /\ ChildOf(a, z, j, y) => x = z /\ i = j
    BY DEF ArenaOK
  <2> HIDE DEF last, new
  <2> QED BY <1>1, <1>7, <2>1, <2>2
<1>8. ASSUME NEW y \in 2..Len(g) PROVE \E x, i : ChildOf(g, x, i, y)
  <2>1. y \in 2..n \/ y = new
    BY <1>1, <1>2
  <2>2. y \in 2..n => \E x, i : ChildOf(a, x, i, y)
    BY DEF ArenaOK
  <2> HIDE DEF last, new
  <2> QED BY <1>1, <2>1, <2>2
<1>9. g \in Seq(ArenaNode) /\ Len(g) \in Nat \ {0}
  BY <1>1, <1>2
<1> QED BY <1>6, <1>7, <1>8, <1>9 DEF ArenaOK, g

(* The texts of the nodes then, and their tokens.                           *)
LEMMA GrownTexts ==
  ASSUME NEW a, ArenaOK(a), NEW at \in 1..Len(a), NEW byte \in Nat,
         NEW text, Spells(a, text), NEW W, HoldsTokens(a, text, W),
         NEW g, g = Grown(a, at, byte),
         NEW text2, text2 = [y \in 1..Len(g) |-> IF y \in 1..Len(a) THEN text[y]
                                                 ELSE Append(text[at], byte)]
  PROVE  Spells(g, text2) /\ HoldsTokens(g, text2, W)
<1> DEFINE n == Len(a)
           new == Len(a) + 1
           last == Len(a[at].children) + 1
<1>1. /\ Len(g) = n + 1 /\ g[new].byte = byte /\ g[new].token = 0
      /\ \A x \in 1..n : g[x].byte = a[x].byte /\ g[x].token = a[x].token
      /\ \A x, i, y : ChildOf(g, x, i, y) <=>
           \/ ChildOf(a, x, i, y)
           \/ x = at /\ i = last /\ y = new
  BY GrownFacts
<1>2. /\ n \in Nat \ {0}
      /\ \A x, i, y : ChildOf(a, x, i, y) => x \in 1..n /\ y \in 2..n
  BY ArenaFacts
<1>3. text \in [1..n -> Seq(Nat)] /\ text[1] = <<>>
  BY DEF Spells
<1>4. Append(text[at], byte) \in Seq(Nat)
  BY <1>3, AppendProperties
<1>5. /\ \A y \in 1..n : text2[y] = text[y]
      /\ text2[new] = Append(text[at], byte)
      /\ text2 \in [1..Len(g) -> Seq(Nat)]
  <2>1. \A y \in 1..n : y \in 1..(n + 1)
    BY <1>2
  <2>2. new \in 1..(n + 1) /\ new \notin 1..n
    BY <1>2
  <2>3. \A y \in 1..n : text[y] \in Seq(Nat)
    BY <1>3
  <2> QED BY <1>1, <1>4, <2>1, <2>2, <2>3
<1>6. 1 \in 1..n /\ \A y \in 2..n : y \in 1..n
  BY <1>2
<1>7. ASSUME NEW x, NEW i, NEW y, ChildOf(g, x, i, y)
      PROVE  text2[y] = Append(text2[x], g[y].byte)
  <2>1. CASE ChildOf(a, x, i, y)
    <3>1. x \in 1..n /\ y \in 1..n /\ text[y] = Append(text[x], a[y].byte)
      BY <1>2, <1>6, <2>1 DEF Spells
    <3> QED BY <1>1, <1>5, <3>1
  <2>2. CASE x = at /\ y = new
    BY <1>1, <1>5, <2>2
  <2> HIDE DEF last, new
  <2> QED BY <1>1, <1>7, <2>1, <2>2
<1>8. Spells(g, text2)
  BY <1>3, <1>5, <1>6, <1>7 DEF Spells
<1>9. ASSUME NEW y \in 1..Len(g), g[y].token # 0
      PROVE  y # 1 /\ <<g[y].token, text2[y]>> \in W
  <2>1. y \in 1..n
    <3>1. y \in 1..n \/ y = new
      BY <1>1, <1>2
    <3> QED BY <1>1, <1>9, <3>1
  <2> QED BY <1>1, <1>5, <1>9, <2>1 DEF HoldsTokens
<1>10. ASSUME NEW e \in W
       PROVE  \E y \in 2..Len(g) : g[y].token # 0 /\ e = <<g[y].token, text2[y]>>
  <2>1. PICK y \in 2..n : a[y].token # 0 /\ e = <<a[y].token, text[y]>>
    BY DEF HoldsTokens
  <2>2. y \in 1..n /\ y \in 2..(n + 1)
    BY <1>2
  <2> QED BY <1>1, <1>5, <2>1, <2>2
<1> QED BY <1>8, <1>9, <1>10 DEF HoldsTokens

(* A byte of a word leads to a node whose text it ends, found or added.     *)
Descended(r, is_last, spelled, W) ==
  /\ r \in [arena : Seq(ArenaNode), at : Nat]
  /\ ArenaOK(r.arena) /\ r.at \in 2..Len(r.arena)
  /\ IF is_last THEN r.arena[r.at].token = 0 ELSE Foremost(r.arena, r.at)
  /\ \E text : Spells(r.arena, text) /\ HoldsTokens(r.arena, text, W) /\ text[r.at] = spelled

(* One byte of a word goes to a child, old or new, with that byte.          *)
LEMMA DescendFacts ==
  ASSUME NEW a, ArenaOK(a), NEW at \in 1..Len(a), Foremost(a, at),
         NEW text, Spells(a, text), NEW W, HoldsTokens(a, text, W),
         NEW byte \in Nat, NEW is_last \in BOOLEAN
  PROVE  Descended(Descend([arena |-> a, at |-> at], byte, is_last), is_last,
                   Append(text[at], byte), W)
<1> DEFINE b == [arena |-> a, at |-> at]
           r == Descend(b, byte, is_last)
           found == FindChild(a, at, byte, is_last)
           n == Len(a)
           kids == a[at].children
<1>1. /\ a \in Seq(ArenaNode) /\ n \in Nat \ {0} /\ kids \in Seq(Nat) /\ Len(kids) \in Nat
      /\ \A x \in 1..n : a[x].token \in Nat
      /\ \A x, i, y : ChildOf(a, x, i, y) => y \in 2..n
  BY ArenaFacts
<1>2. \A k : k \in Range(kids) <=> \E i : ChildOf(a, at, i, k)
  <2>1. DOMAIN kids = 1..Len(kids)
    BY <1>1, LenProperties
  <2> QED BY <2>1 DEF Range, ChildOf
<1>3. \A k : k \in found <=>
        /\ \E i : ChildOf(a, at, i, k)
        /\ a[k].byte = byte /\ ~(is_last /\ a[k].token # 0)
  <2>1. found = {k \in Range(kids) : a[k].byte = byte /\ ~(is_last /\ a[k].token # 0)}
    BY Zenon DEF FindChild, NO_TOKEN
  <2> HIDE DEF found, kids
  <2> QED BY <1>2, <2>1
<1>4. r = IF found # {} THEN [b EXCEPT !.at = Min(found)]
          ELSE [arena |-> Grown(a, at, byte), at |-> n + 1]
  BY DEF Descend, Grown
<1> HIDE DEF found, kids
<1>5. CASE found # {}
  <2> DEFINE k == Min(found)
  <2>1. found \in SUBSET Nat
    BY <1>1, <1>3
  <2>2. k \in found /\ \A y \in found : k <= y
    <3>1. \E x \in found : \A y \in found : x <= y
      BY <1>5, <2>1, LeastNumber
    <3> QED BY <3>1, Zenon DEF Min
  <2> HIDE DEF k
  <2>3. PICK i : ChildOf(a, at, i, k)
    BY <1>3, <2>2
  <2>4. k \in 2..n /\ k \in Nat /\ k \in 1..n
    BY <1>1, <2>3
  <2>5. r = [arena |-> a, at |-> k]
    BY <1>4, <1>5 DEF k
  <2>6. a[k].byte = byte /\ ~(is_last /\ a[k].token # 0)
    BY <1>3, <2>2
  <2>7. text[k] = Append(text[at], byte)
    BY <2>3, <2>6 DEF Spells
  <2>8. ASSUME ~is_last PROVE Foremost(a, k)
    <3> SUFFICES ASSUME NEW x, NEW j, ChildOf(a, x, j, k), NEW l \in 1..(j - 1),
                        a[a[x].children[l]].byte = a[k].byte
                 PROVE  FALSE
      BY DEF Foremost
    <3>1. x = at /\ j \in 1..Len(a[x].children)
      BY <2>3 DEF ArenaOK, ChildOf
    <3>2. l \in 1..Len(a[x].children) /\ x \in 1..n
      BY <1>1, <3>1 DEF kids
    <3>3. ChildOf(a, at, l, a[x].children[l])
      BY <3>1, <3>2 DEF ChildOf
    <3>4. a[x].children[l] \in found
      BY <1>3, <2>6, <2>8, <3>3
    <3>5. a[x].children[l] < k
      BY DEF ArenaOK
    <3> DEFINE z == a[x].children[l]
    <3>6. z \in Nat /\ k <= z /\ z < k
      <4> HIDE DEF found
      <4> QED BY <2>1, <2>2, <3>4, <3>5
    <3> HIDE DEF z, k
    <3> QED BY <2>4, <3>6
  <2>9. r \in [arena : Seq(ArenaNode), at : Nat] /\ r.arena = a /\ r.at = k
    BY <1>1, <2>4, <2>5
  <2>10. IF is_last THEN a[k].token = 0 ELSE Foremost(a, k)
    BY <2>6, <2>8
  <2> HIDE DEF r, n
  <2>11. k \in 2..Len(a)
    BY <2>4 DEF n
  <2> QED BY <2>7, <2>9, <2>10, <2>11 DEF Descended, r, b
<1>6. CASE found = {}
  <2> DEFINE g == Grown(a, at, byte)
             new == n + 1
             text2 == [y \in 1..Len(g) |-> IF y \in 1..Len(a) THEN text[y]
                                           ELSE Append(text[at], byte)]
  <2>1. r = [arena |-> g, at |-> new]
    BY <1>4, <1>6
  <2>2. /\ g \in Seq(ArenaNode) /\ Len(g) = n + 1
        /\ g[new].byte = byte /\ g[new].token = 0
        /\ \A x \in 1..n : g[x].byte = a[x].byte
        /\ \A x, i, y : ChildOf(g, x, i, y) <=>
             \/ ChildOf(a, x, i, y)
             \/ x = at /\ i = Len(a[at].children) + 1 /\ y = new
        /\ \A x, i : x \in 1..n /\ i \in 1..Len(a[x].children)
                       => g[x].children[i] = a[x].children[i]
    BY GrownFacts
  <2>3. ArenaOK(g)
    BY GrownOK
  <2> HIDE DEF g
  <2>4. Spells(g, text2) /\ HoldsTokens(g, text2, W)
    <3> DEFINE t2 == text2
    <3>1. t2 = [y \in 1..Len(g) |-> IF y \in 1..Len(a) THEN text[y] ELSE Append(text[at], byte)]
      OBVIOUS
    <3> HIDE DEF t2
    <3>2. Spells(g, t2) /\ HoldsTokens(g, t2, W)
      BY <3>1, GrownTexts DEF g
    <3> QED BY <3>2 DEF t2
  <2>5. new \in 1..Len(g) /\ new \notin 1..n /\ new \in 2..Len(g) /\ new \in Nat
    BY <1>1, <2>2
  <2>6. text2[new] = Append(text[at], byte)
    BY <2>5
  <2>7. ASSUME ~is_last PROVE Foremost(g, new)
    <3> SUFFICES ASSUME NEW x, NEW j, ChildOf(g, x, j, new), NEW l \in 1..(j - 1),
                        g[g[x].children[l]].byte = g[new].byte
                 PROVE  FALSE
      BY DEF Foremost
    <3>1. ~ChildOf(a, x, j, new)
      BY <1>1, <2>5
    <3>2. x = at /\ j = Len(kids) + 1
      BY <2>2, <3>1 DEF kids
    <3>3. l \in 1..Len(kids)
      BY <1>1, <3>2
    <3>4. ChildOf(a, at, l, kids[l]) /\ g[at].children[l] = kids[l]
      BY <2>2, <3>3 DEF ChildOf, kids
    <3>5. kids[l] \in 1..n
      BY <1>1, <3>4
    <3>6. a[kids[l]].byte = byte
      BY <2>2, <3>2, <3>4, <3>5
    <3> QED BY <1>3, <1>6, <2>7, <3>4, <3>6
  <2>8. r \in [arena : Seq(ArenaNode), at : Nat] /\ r.arena = g /\ r.at = new
    BY <2>1, <2>2, <2>5
  <2> HIDE DEF r, new, text2
  <2> QED BY <2>2, <2>3, <2>4, <2>5, <2>6, <2>7, <2>8 DEF Descended, r, b
<1> QED BY <1>5, <1>6

(* Inserting a word byte by byte, as far as it leads to arenas.             *)
InsertStep(f, a, word) ==
  /\ f[0] = [arena |-> a, at |-> 1]
  /\ \A k \in 1..Len(word) :
       LET d == Descend(f[k - 1], word[k], k = Len(word))
       IN  d \in [arena : Seq(ArenaNode), at : Nat] => f[k] = d
InsertGoesOn(f, word) ==
  \A k \in 1..Len(word) :
    LET d == Descend(f[k - 1], word[k], k = Len(word))
    IN  d \in [arena : Seq(ArenaNode), at : Nat] /\ f[k] = d
InsertInv(b, a, word, k, W) ==
  IF k = 0 THEN b = [arena |-> a, at |-> 1]
  ELSE Descended(b, k = Len(word), SubSeq(word, 1, k), W)

(* The bytes of a word, one after the other.                                *)
LEMMA InsertSteps ==
  ASSUME NEW a, ArenaOK(a), NEW text, Spells(a, text), NEW W, HoldsTokens(a, text, W),
         NEW word \in Seq(Nat), NEW f, InsertStep(f, a, word)
  PROVE  /\ \A k \in 0..Len(word) : InsertInv(f[k], a, word, k, W)
         /\ InsertGoesOn(f, word)
<1> DEFINE N == Len(word)
           D(k) == Descend(f[k - 1], word[k], k = N)
           S == {k \in Nat : InsertInv(f[k], a, word, k, W)}
<1>1. N \in Nat /\ \A k \in 1..N : word[k] \in Nat
  BY LenProperties, ElementOfSeq
<1>2. ASSUME NEW k \in 0..(N - 1), k \in S
      PROVE  Descended(D(k + 1), k + 1 = N, SubSeq(word, 1, k + 1), W)
  <2>1. /\ k \in Nat /\ k + 1 \in 1..N /\ (k + 1) - 1 = k /\ k + 1 # 0 /\ k # N
        /\ word[k + 1] \in Nat
    BY <1>1
  <2>2. PICK at, g, t : /\ f[k] = [arena |-> g, at |-> at] /\ ArenaOK(g)
                        /\ at \in 1..Len(g) /\ Foremost(g, at)
                        /\ Spells(g, t) /\ HoldsTokens(g, t, W)
                        /\ t[at] = SubSeq(word, 1, k)
    <3>1. CASE k = 0
      <4>1. f[0] = [arena |-> a, at |-> 1]
        BY DEF InsertStep
      <4>2. 1 \in 1..Len(a) /\ Len(a) \in Nat /\ \A x, i : ~ChildOf(a, x, i, 1)
        BY ArenaFacts
      <4>3. Foremost(a, 1)
        BY <4>2 DEF Foremost
      <4>4. text[1] = SubSeq(word, 1, 0)
        <5>1. SubSeq(word, 1, 0) = <<>>
          BY SubSeqEmpty
        <5> QED BY <5>1 DEF Spells
      <4> QED BY <3>1, <4>1, <4>2, <4>3, <4>4
    <3>2. CASE k # 0
      <4>1. Descended(f[k], FALSE, SubSeq(word, 1, k), W)
        <5>1. (k = N) = FALSE
          BY <2>1
        <5>2. InsertInv(f[k], a, word, k, W)
          BY <1>2
        <5> QED BY <3>2, <5>1, <5>2 DEF InsertInv
      <4>2. /\ f[k] = [arena |-> f[k].arena, at |-> f[k].at] /\ ArenaOK(f[k].arena)
            /\ f[k].at \in 2..Len(f[k].arena) /\ Foremost(f[k].arena, f[k].at)
        BY <4>1 DEF Descended
      <4>3. PICK t : /\ Spells(f[k].arena, t) /\ HoldsTokens(f[k].arena, t, W)
                     /\ t[f[k].at] = SubSeq(word, 1, k)
        BY <4>1 DEF Descended
      <4>4. f[k].at \in 1..Len(f[k].arena)
        BY <4>2
      <4> QED BY <4>2, <4>3, <4>4
    <3> QED BY <3>1, <3>2
  <2>3. Descended(Descend([arena |-> g, at |-> at], word[k + 1], k + 1 = N), k + 1 = N,
                  Append(t[at], word[k + 1]), W)
    BY <2>1, <2>2, DescendFacts
  <2>4. Append(SubSeq(word, 1, k), word[k + 1]) = SubSeq(word, 1, k + 1)
    <3> DEFINE u == SubSeq(word, 1, k)
               v == SubSeq(word, 1, k + 1)
               w == Append(u, word[k + 1])
    <3>1. u \in Seq(Nat) /\ Len(u) = k /\ \A i \in 1..k : u[i] = word[i]
      BY <1>1, <2>1, SubSeqProperties
    <3>2. v \in Seq(Nat) /\ Len(v) = k + 1 /\ \A i \in 1..(k + 1) : v[i] = word[i]
      BY <1>1, <2>1, SubSeqProperties
    <3> HIDE DEF u, v
    <3>3. /\ w \in Seq(Nat) /\ Len(w) = k + 1
          /\ \A i \in 1..k : w[i] = u[i]
          /\ w[k + 1] = word[k + 1]
      BY <2>1, <3>1, AppendProperties
    <3> HIDE DEF w
    <3>4. \A i \in 1..(k + 1) : w[i] = v[i]
      <4> SUFFICES ASSUME NEW i \in 1..(k + 1) PROVE w[i] = v[i]
        OBVIOUS
      <4>1. i \in 1..k \/ i = k + 1
        BY <2>1
      <4> QED BY <3>1, <3>2, <3>3, <4>1
    <3>5. w = v
      BY <3>2, <3>3, <3>4, SeqEqual
    <3> QED BY <3>5 DEF w, u, v
  <2> QED BY <2>1, <2>2, <2>3, <2>4
<1>3. ASSUME NEW k \in 0..(N - 1), k \in S PROVE k + 1 \in S
  <2>1. Descended(D(k + 1), k + 1 = N, SubSeq(word, 1, k + 1), W)
    BY <1>2, <1>3
  <2>2. k + 1 \in 1..N /\ k + 1 # 0 /\ k + 1 \in Nat
    BY <1>1
  <2>3. D(k + 1) \in [arena : Seq(ArenaNode), at : Nat]
    BY <2>1 DEF Descended
  <2>4. f[k + 1] = D(k + 1)
    BY <2>2, <2>3 DEF InsertStep
  <2> HIDE DEF D
  <2>5. InsertInv(f[k + 1], a, word, k + 1, W)
    BY <2>1, <2>2, <2>4 DEF InsertInv
  <2> QED BY <2>2, <2>5
<1>4. 0 \in S
  BY DEF InsertInv, InsertStep
<1> HIDE DEF S
<1>5. \A k \in 0..N : k \in S
  BY <1>1, <1>3, <1>4, UpTo
<1>6. ASSUME NEW k \in 1..N
      PROVE  D(k) \in [arena : Seq(ArenaNode), at : Nat] /\ f[k] = D(k)
  <2>1. k - 1 \in 0..(N - 1) /\ k - 1 \in S /\ (k - 1) + 1 = k
    BY <1>1, <1>5
  <2>2. Descended(D((k - 1) + 1), (k - 1) + 1 = N, SubSeq(word, 1, (k - 1) + 1), W)
    BY <1>2, <2>1
  <2>3. D(k) \in [arena : Seq(ArenaNode), at : Nat]
    BY <2>1, <2>2 DEF Descended
  <2> QED BY <2>3 DEF InsertStep
<1> QED BY <1>5, <1>6 DEF S, InsertGoesOn

(* A word is inserted beside the tokens that are there.                     *)
LEMMA InsertFacts ==
  ASSUME NEW a, NEW W, ArenaOf(a, W), NEW word \in Seq(Nat), word # <<>>,
         NEW token \in Nat \ {0}
  PROVE  ArenaOf(Insert(a, word, token), W \cup {<<token, word>>})
<1> DEFINE N == Len(word)
           X == [arena : Seq(ArenaNode), at : Nat]
           base == [arena |-> a, at |-> 1]
           D(b, k) == Descend(b, word[k], k = N)
           P(g) == g = [i \in 0..N |-> IF i = 0 THEN base ELSE D(g[i - 1], i)]
           F == [k \in 1..N |-> [b \in X |-> IF D(b, k) \in X THEN D(b, k) ELSE base]]
           f == CHOOSE g : P(g)
<1>1. N \in Nat \ {0}
  BY EmptySeq
<1>2. PICK text : Spells(a, text) /\ HoldsTokens(a, text, W)
  BY DEF ArenaOf
<1>3. ArenaOK(a)
  BY DEF ArenaOf
<1>4. base \in X
  BY <1>3, ArenaFacts
<1>5. \E g : P(g)
  <2>1. F \in [1..N -> [X -> X]]
    BY <1>4
  <2>2. PICK g \in [0..N -> X] : Iterated(g, N, base, F)
    <3> HIDE DEF X, F, base, N
    <3> QED BY <1>1, <1>4, <2>1, Iterates
  <2>3. ASSUME NEW k \in 1..N PROVE D(g[k - 1], k) \in X => g[k] = D(g[k - 1], k)
    <3>1. g[k] = F[k][g[k - 1]] /\ g[k - 1] \in X
      <4>1. k - 1 \in 0..N
        BY <1>1
      <4> HIDE DEF X, F
      <4> QED BY <2>2, <4>1 DEF Iterated
    <3>2. F[k][g[k - 1]] = IF D(g[k - 1], k) \in X THEN D(g[k - 1], k) ELSE base
      <4> HIDE DEF D, X, base
      <4> QED BY <3>1
    <3> HIDE DEF F, D
    <3> QED BY <3>1, <3>2
  <2>4. g[0] = base
    BY <2>2 DEF Iterated
  <2>5. InsertStep(g, a, word)
    BY <2>3, <2>4 DEF InsertStep
  <2>6. \A k \in 1..N : g[k] = D(g[k - 1], k)
    <3>1. InsertGoesOn(g, word)
      BY <1>2, <1>3, <2>5, InsertSteps
    <3> QED BY <3>1 DEF InsertGoesOn
  <2> DEFINE h == [i \in 0..N |-> IF i = 0 THEN base ELSE D(g[i - 1], i)]
  <2>7. g = h
    <3>1. ASSUME NEW i \in 0..N PROVE g[i] = h[i]
      <4>1. i = 0 \/ i \in 1..N
        BY <1>1
      <4>2. h[i] = IF i = 0 THEN base ELSE D(g[i - 1], i)
        OBVIOUS
      <4> HIDE DEF h, D, base
      <4> QED BY <2>4, <2>6, <4>1, <4>2
    <3>2. g \in [0..N -> X]
      BY <2>2
    <3>3. g = [i \in 0..N |-> g[i]]
      <4> HIDE DEF X
      <4> QED BY <3>2
    <3>4. h = [i \in 0..N |-> h[i]]
      OBVIOUS
    <3> HIDE DEF h
    <3> QED BY <3>1, <3>3, <3>4
  <2>8. P(g)
    BY <2>7
  <2> HIDE DEF P
  <2> QED BY <2>8
<1> HIDE DEF P
<1>6. P(f)
  BY <1>5, Zenon
<1>7. Insert(a, word, token) = [f[N].arena EXCEPT ![f[N].at].token = token]
  BY Zenon DEF Insert, P
<1> HIDE DEF f
<1>8. InsertStep(f, a, word)
  <2>1. \A i \in 0..N : f[i] = IF i = 0 THEN base ELSE D(f[i - 1], i)
    <3> HIDE DEF D, base
    <3> QED BY <1>6 DEF P
  <2>2. 0 \in 0..N /\ \A k \in 1..N : k \in 0..N /\ k # 0
    BY <1>1
  <2> HIDE DEF D
  <2>3. f[0] = base /\ \A k \in 1..N : f[k] = D(f[k - 1], k)
    BY <2>1, <2>2
  <2> QED BY <2>3 DEF InsertStep, D
<1>9. InsertInv(f[N], a, word, N, W)
  <2>1. N \in 0..N
    BY <1>1
  <2> QED BY <1>2, <1>3, <1>8, <2>1, InsertSteps
<1> DEFINE b == f[N]
           c == b.arena
           at == b.at
           e == Insert(a, word, token)
           v == [c[at] EXCEPT !.token = token]
<1>10. Descended(b, TRUE, word, W)
  <2>1. SubSeq(word, 1, N) = word
    BY SubSeqFull
  <2>2. N # 0 /\ (N = N) = TRUE
    BY <1>1
  <2> QED BY <1>9, <2>1, <2>2 DEF InsertInv
<1> HIDE DEF b
<1>11. ArenaOK(c) /\ at \in 2..Len(c) /\ c[at].token = 0
  BY <1>10 DEF Descended
<1>12. PICK t : Spells(c, t) /\ HoldsTokens(c, t, W) /\ t[at] = word
  BY <1>10 DEF Descended
<1> HIDE DEF c, at
<1>13. /\ c \in Seq(ArenaNode) /\ Len(c) \in Nat \ {0} /\ at \in 1..Len(c)
       /\ \A x \in 1..Len(c) : c[x] \in ArenaNode
  BY <1>11, ArenaFacts
<1>14. e = [c EXCEPT ![at] = v]
  BY <1>7 DEF b, c, at
<1>15. v \in ArenaNode /\ v.byte = c[at].byte /\ v.token = token /\ v.children = c[at].children
  <2>1. c[at] \in ArenaNode
    BY <1>13
  <2> QED BY <2>1 DEF ArenaNode
<1> HIDE DEF e, v
<1>16. /\ e \in Seq(ArenaNode) /\ Len(e) = Len(c)
       /\ \A x \in 1..Len(c) : e[x] = IF x = at THEN v ELSE c[x]
  BY <1>13, <1>14, <1>15, ExceptSeq
<1>17. /\ \A x \in 1..Len(c) : e[x].byte = c[x].byte /\ e[x].children = c[x].children
       /\ \A x \in 1..Len(c) : x # at => e[x].token = c[x].token
       /\ e[at].token = token
  BY <1>13, <1>15, <1>16
<1>18. \A x, i, y : ChildOf(e, x, i, y) <=> ChildOf(c, x, i, y)
  BY <1>16, <1>17 DEF ChildOf
<1>19. \A x, i, y : ChildOf(c, x, i, y) =>
         /\ x \in 1..Len(c) /\ y \in 1..Len(c)
         /\ \A j \in 1..(i - 1) : c[x].children[j] \in 1..Len(c)
  <2> SUFFICES ASSUME NEW x, NEW i, NEW y, ChildOf(c, x, i, y)
               PROVE  /\ x \in 1..Len(c) /\ y \in 1..Len(c)
                      /\ \A j \in 1..(i - 1) : c[x].children[j] \in 1..Len(c)
    OBVIOUS
  <2>1. /\ \A u, k, w : ChildOf(c, u, k, w) => w \in 2..Len(c)
        /\ x \in 1..Len(c) /\ i \in 1..Len(c[x].children) /\ Len(c[x].children) \in Nat
    <3>1. /\ \A u, k, w : ChildOf(c, u, k, w) => w \in 2..Len(c)
          /\ \A u \in 1..Len(c) : Len(c[u].children) \in Nat
      BY <1>11, ArenaFacts
    <3>2. x \in 1..Len(c) /\ i \in 1..Len(c[x].children)
      BY DEF ChildOf
    <3> QED BY <3>1, <3>2
  <2>2. \A j \in 1..(i - 1) : j \in 1..Len(c[x].children)
    BY <2>1
  <2>3. \A j \in 1..(i - 1) : ChildOf(c, x, j, c[x].children[j])
    BY <2>1, <2>2 DEF ChildOf
  <2>4. \A w \in 2..Len(c) : w \in 1..Len(c)
    OBVIOUS
  <2> QED BY <2>1, <2>3, <2>4
<1>20. ArenaOK(e)
  <2>1. ASSUME NEW x, NEW i, NEW y, ChildOf(e, x, i, y)
        PROVE  /\ y \in (x + 1)..Len(e)
               /\ \A j \in 1..(i - 1) : e[x].children[j] < y
               /\ e[y].children # <<>> =>
                    \A j \in 1..(i - 1) : e[e[x].children[j]].byte # e[y].byte
    <3>1. ChildOf(c, x, i, y)
      BY <1>18, <2>1
    <3>2. /\ y \in (x + 1)..Len(c)
          /\ \A j \in 1..(i - 1) : c[x].children[j] < y
          /\ c[y].children # <<>> =>
               \A j \in 1..(i - 1) : c[c[x].children[j]].byte # c[y].byte
      BY <1>11, <3>1 DEF ArenaOK
    <3>3. /\ x \in 1..Len(c) /\ y \in 1..Len(c)
          /\ \A j \in 1..(i - 1) : c[x].children[j] \in 1..Len(c)
      BY <1>19, <3>1
    <3> QED BY <1>16, <1>17, <3>2, <3>3
  <2>2. \A x, i, z, j, y : ChildOf(e, x, i, y) /\ ChildOf(e, z, j, y) => x = z /\ i = j
    BY <1>11, <1>18 DEF ArenaOK
  <2>3. \A y \in 2..Len(e) : \E x, i : ChildOf(e, x, i, y)
    BY <1>11, <1>16, <1>18 DEF ArenaOK
  <2> QED BY <1>13, <1>16, <2>1, <2>2, <2>3 DEF ArenaOK
<1>21. Spells(e, t)
  <2>1. ASSUME NEW x, NEW i, NEW y, ChildOf(e, x, i, y) PROVE t[y] = Append(t[x], e[y].byte)
    <3>1. ChildOf(c, x, i, y)
      BY <1>18, <2>1
    <3>2. t[y] = Append(t[x], c[y].byte)
      BY <1>12, <3>1 DEF Spells
    <3> QED BY <1>17, <1>19, <3>1, <3>2
  <2> QED BY <1>12, <1>16, <2>1 DEF Spells
<1> DEFINE W2 == W \cup {<<token, word>>}
<1>22. ASSUME NEW y \in 1..Len(e), e[y].token # 0
       PROVE  y # 1 /\ <<e[y].token, t[y]>> \in W2
  <2>1. CASE y = at
    BY <1>11, <1>12, <1>17, <2>1
  <2>2. CASE y # at
    BY <1>12, <1>16, <1>17, <1>22, <2>2 DEF HoldsTokens
  <2> QED BY <2>1, <2>2
<1>23. ASSUME NEW p2 \in W2
       PROVE  \E y \in 2..Len(e) : e[y].token # 0 /\ p2 = <<e[y].token, t[y]>>
  <2>1. CASE p2 = <<token, word>>
    BY <1>11, <1>12, <1>16, <1>17, <2>1
  <2>2. CASE p2 \in W
    <3>1. PICK y \in 2..Len(c) : c[y].token # 0 /\ p2 = <<c[y].token, t[y]>>
      BY <1>12, <2>2 DEF HoldsTokens
    <3>2. y # at /\ y \in 1..Len(c)
      BY <1>11, <3>1
    <3> QED BY <1>16, <1>17, <3>1, <3>2
  <2> QED BY <2>1, <2>2
<1> QED BY <1>20, <1>21, <1>22, <1>23 DEF ArenaOf, HoldsTokens, e

(* A trie begins with its root.                                             *)
LEMMA EmptyArena == ArenaOf(<<BuilderNode(NO_TOKEN)>>, {})
<1> DEFINE a == <<BuilderNode(NO_TOKEN)>>
           text == [y \in 1..1 |-> <<>>]
<1>1. BuilderNode(NO_TOKEN) = [byte |-> 0, token |-> 0, children |-> <<>>]
  BY DEF BuilderNode, NO_TOKEN
<1>2. <<>> \in Seq(Nat) /\ Len(<<>>) = 0
  BY EmptySeq
<1>3. BuilderNode(NO_TOKEN) \in ArenaNode
  BY <1>1, <1>2 DEF ArenaNode
<1>4. a \in Seq(ArenaNode) /\ Len(a) = 1 /\ a[1] = BuilderNode(NO_TOKEN)
  BY <1>3
<1> HIDE DEF a
<1>5. \A x \in 1..Len(a) : x = 1
  BY <1>4
<1>6. a[1].children = <<>> /\ a[1].token = 0
  BY <1>1, <1>4
<1>7. \A x, i, y : ~ChildOf(a, x, i, y)
  <2> SUFFICES ASSUME NEW x, NEW i, NEW y, ChildOf(a, x, i, y) PROVE FALSE
    OBVIOUS
  <2>1. x = 1 /\ i \in 1..Len(a[x].children)
    BY <1>5 DEF ChildOf
  <2>2. i \in 1..0
    BY <1>2, <1>6, <2>1
  <2> QED BY <2>2
<1>8. ArenaOK(a)
  <2>1. 2..Len(a) = {} /\ Len(a) \in Nat \ {0}
    BY <1>4
  <2> QED BY <1>4, <1>7, <2>1 DEF ArenaOK
<1>9. text \in [1..Len(a) -> Seq(Nat)] /\ text[1] = <<>>
  BY <1>2, <1>4
<1> HIDE DEF text
<1>10. Spells(a, text)
  BY <1>7, <1>9 DEF Spells
<1>11. HoldsTokens(a, text, {})
  BY <1>5, <1>6 DEF HoldsTokens
<1> QED BY <1>8, <1>10, <1>11 DEF ArenaOf, a

(* The tokens of a mask that have a text, with it.                          *)
TextTokens(ws, mask) == {t \in 1..Len(ws) : t \in mask /\ ws[t] # <<>>}
TokensIn(ws, mask) == {<<t, ws[t]>> : t \in TextTokens(ws, mask)}

(* Inserting the tokens of a mask, as far as it leads to arenas.            *)
AddToken(ws, mask, t, a) ==
  IF t \in mask /\ ws[t] # <<>> THEN Insert(a, ws[t], t) ELSE a
AddStep(f, ws, mask, sorted) ==
  /\ f[0] = <<BuilderNode(NO_TOKEN)>>
  /\ \A k \in 1..Len(sorted) :
       LET d == AddToken(ws, mask, sorted[k], f[k - 1])
       IN  d \in Seq(ArenaNode) => f[k] = d
AddGoesOn(f, ws, mask, sorted) ==
  \A k \in 1..Len(sorted) :
    LET d == AddToken(ws, mask, sorted[k], f[k - 1])
    IN  d \in Seq(ArenaNode) /\ f[k] = d
Added(ws, mask, sorted, k) ==
  {<<sorted[i], ws[sorted[i]]>> : i \in {j \in 1..k : sorted[j] \in mask /\ ws[sorted[j]] # <<>>}}

(* The tokens, one after the other.                                         *)
LEMMA AddSteps ==
  ASSUME NEW ws \in Seq(Seq(Nat)), NEW mask, NEW sorted \in Seq(1..Len(ws)),
         NEW f, AddStep(f, ws, mask, sorted)
  PROVE  /\ ArenaOf(f[Len(sorted)], Added(ws, mask, sorted, Len(sorted)))
         /\ AddGoesOn(f, ws, mask, sorted)
<1> DEFINE N == Len(sorted)
           D(k) == AddToken(ws, mask, sorted[k], f[k - 1])
           W(k) == Added(ws, mask, sorted, k)
           S == {k \in Nat : ArenaOf(f[k], W(k))}
<1>1. /\ N \in Nat /\ Len(ws) \in Nat
      /\ \A k \in 1..N : sorted[k] \in 1..Len(ws) /\ ws[sorted[k]] \in Seq(Nat)
  BY LenProperties, ElementOfSeq
<1>2. ASSUME NEW k \in 0..(N - 1), k \in S PROVE ArenaOf(D(k + 1), W(k + 1))
  <2> DEFINE t == sorted[k + 1]
  <2>1. k + 1 \in 1..N /\ (k + 1) - 1 = k /\ ArenaOf(f[k], W(k))
    BY <1>1, <1>2
  <2>2. t \in 1..Len(ws) /\ ws[t] \in Seq(Nat) /\ t \in Nat \ {0}
    BY <1>1, <2>1
  <2>3. D(k + 1) = AddToken(ws, mask, t, f[k])
    BY <2>1
  <2>4. \A i : i \in 1..(k + 1) <=> i \in 1..k \/ i = k + 1
    <3>1. k \in Nat
      BY <1>1
    <3> HIDE DEF S, D, W, N, t
    <3> QED BY <3>1
  <2> HIDE DEF D
  <2>5. CASE t \in mask /\ ws[t] # <<>>
    <3>1. ArenaOf(Insert(f[k], ws[t], t), W(k) \cup {<<t, ws[t]>>})
      BY <2>1, <2>2, <2>5, InsertFacts
    <3>2. W(k + 1) = W(k) \cup {<<t, ws[t]>>}
      BY <2>4, <2>5 DEF Added
    <3>3. D(k + 1) = Insert(f[k], ws[t], t)
      BY <2>3, <2>5 DEF AddToken
    <3> QED BY <3>1, <3>2, <3>3
  <2>6. CASE ~(t \in mask /\ ws[t] # <<>>)
    <3>1. W(k + 1) = W(k)
      BY <2>4, <2>6 DEF Added
    <3>2. D(k + 1) = f[k]
      BY <2>3, <2>6 DEF AddToken
    <3> QED BY <2>1, <3>1, <3>2
  <2> QED BY <2>5, <2>6
<1>3. \A a, V : ArenaOf(a, V) => a \in Seq(ArenaNode)
  BY DEF ArenaOf, ArenaOK
<1>4. ASSUME NEW k \in 0..(N - 1), k \in S
      PROVE  /\ D(k + 1) \in Seq(ArenaNode) /\ f[k + 1] = D(k + 1)
             /\ k + 1 \in S
  <2>1. ArenaOf(D(k + 1), W(k + 1)) /\ k + 1 \in 1..N /\ k + 1 \in Nat
    BY <1>1, <1>2, <1>4
  <2>2. D(k + 1) \in Seq(ArenaNode)
    BY <1>3, <2>1
  <2>3. f[k + 1] = D(k + 1)
    BY <2>1, <2>2 DEF AddStep
  <2> HIDE DEF D, W
  <2> QED BY <2>1, <2>2, <2>3
<1>5. 0 \in S
  <2>1. W(0) = {}
    BY DEF Added
  <2>2. f[0] = <<BuilderNode(NO_TOKEN)>>
    BY DEF AddStep
  <2> HIDE DEF W
  <2> QED BY <2>1, <2>2, EmptyArena
<1> HIDE DEF S
<1>6. \A k \in 0..N : k \in S
  BY <1>1, <1>4, <1>5, UpTo
<1>7. ASSUME NEW k \in 1..N PROVE D(k) \in Seq(ArenaNode) /\ f[k] = D(k)
  <2>1. k - 1 \in 0..(N - 1) /\ k - 1 \in S /\ (k - 1) + 1 = k
    BY <1>1, <1>6
  <2>2. D((k - 1) + 1) \in Seq(ArenaNode) /\ f[(k - 1) + 1] = D((k - 1) + 1)
    BY <1>4, <2>1
  <2> HIDE DEF D
  <2> QED BY <2>1, <2>2
<1>8. AddGoesOn(f, ws, mask, sorted)
  BY <1>7 DEF AddGoesOn
<1>9. ArenaOf(f[N], W(N))
  <2>1. N \in S
    BY <1>1, <1>6
  <2> QED BY <2>1 DEF S
<1> QED BY <1>8, <1>9

(* What Filter() lays out.                                                  *)
LEMMA FilterArena ==
  ASSUME NEW ws \in Seq(Seq(Nat)), NEW mask
  PROVE  \E a : ArenaOf(a, TokensIn(ws, mask)) /\ Filter(ws, mask) = SerializeNode(a, 1, 0)
<1> DEFINE sorted == SortedVocab(ws)
           N == Len(sorted)
           base == <<BuilderNode(NO_TOKEN)>>
           X == Seq(ArenaNode)
           D(a, k) == AddToken(ws, mask, sorted[k], a)
           P(g) == g = [i \in 0..N |-> IF i = 0 THEN base ELSE D(g[i - 1], i)]
           F == [k \in 1..N |-> [a \in X |-> IF D(a, k) \in X THEN D(a, k) ELSE base]]
           f == CHOOSE g : P(g)
<1>1. sorted \in Seq(1..Len(ws)) /\ Range(sorted) = 1..Len(ws)
  BY SortedVocabFacts
<1>2. Filter(ws, mask) = SerializeNode(f[N], 1, 0)
  BY Zenon DEF Filter, AddToken
<1> HIDE DEF sorted
<1>3. N \in Nat /\ DOMAIN sorted = 1..N
  BY <1>1, LenProperties
<1>4. base \in X
  BY EmptyArena DEF ArenaOf, ArenaOK
<1>5. \E g : P(g)
  <2>1. F \in [1..N -> [X -> X]]
    <3> HIDE DEF X, D, base
    <3> QED BY <1>4
  <2>2. PICK g \in [0..N -> X] : Iterated(g, N, base, F)
    <3> HIDE DEF X, F, base, N
    <3> QED BY <1>3, <1>4, <2>1, Iterates
  <2>3. ASSUME NEW k \in 1..N PROVE D(g[k - 1], k) \in X => g[k] = D(g[k - 1], k)
    <3>1. g[k] = F[k][g[k - 1]] /\ g[k - 1] \in X
      <4>1. k - 1 \in 0..N
        BY <1>3
      <4> HIDE DEF X, F
      <4> QED BY <2>2, <4>1 DEF Iterated
    <3>2. F[k][g[k - 1]] = IF D(g[k - 1], k) \in X THEN D(g[k - 1], k) ELSE base
      <4> HIDE DEF D, X, base
      <4> QED BY <3>1
    <3> HIDE DEF F, D
    <3> QED BY <3>1, <3>2
  <2>4. g[0] = base
    BY <2>2 DEF Iterated
  <2>5. AddStep(g, ws, mask, sorted)
    BY <2>3, <2>4 DEF AddStep
  <2>6. \A k \in 1..N : g[k] = D(g[k - 1], k)
    <3>1. AddGoesOn(g, ws, mask, sorted)
      BY <1>1, <2>5, AddSteps
    <3> QED BY <3>1 DEF AddGoesOn
  <2> DEFINE h == [i \in 0..N |-> IF i = 0 THEN base ELSE D(g[i - 1], i)]
  <2>7. g = h
    <3>1. ASSUME NEW i \in 0..N PROVE g[i] = h[i]
      <4>1. i = 0 \/ i \in 1..N
        BY <1>3
      <4>2. h[i] = IF i = 0 THEN base ELSE D(g[i - 1], i)
        OBVIOUS
      <4> HIDE DEF h, D, base
      <4> QED BY <2>4, <2>6, <4>1, <4>2
    <3>2. g = [i \in 0..N |-> g[i]]
      <4> HIDE DEF X
      <4> QED BY <2>2
    <3>3. h = [i \in 0..N |-> h[i]]
      OBVIOUS
    <3> HIDE DEF h
    <3> QED BY <3>1, <3>2, <3>3
  <2>8. P(g)
    BY <2>7
  <2> HIDE DEF P
  <2> QED BY <2>8
<1> HIDE DEF P
<1>6. P(f)
  BY <1>5, Zenon
<1> HIDE DEF f
<1>7. AddStep(f, ws, mask, sorted)
  <2>1. \A i \in 0..N : f[i] = IF i = 0 THEN base ELSE D(f[i - 1], i)
    <3> HIDE DEF D, base
    <3> QED BY <1>6 DEF P
  <2>2. 0 \in 0..N /\ \A k \in 1..N : k \in 0..N /\ k # 0
    BY <1>3
  <2> HIDE DEF D
  <2>3. f[0] = base /\ \A k \in 1..N : f[k] = D(f[k - 1], k)
    BY <2>1, <2>2
  <2> QED BY <2>3 DEF AddStep, D
<1>8. ArenaOf(f[N], Added(ws, mask, sorted, N))
  BY <1>1, <1>7, AddSteps
<1>9. Added(ws, mask, sorted, N) = TokensIn(ws, mask)
  <2> DEFINE C == {j \in 1..N : sorted[j] \in mask /\ ws[sorted[j]] # <<>>}
             T == TextTokens(ws, mask)
  <2>1. \A j \in 1..N : sorted[j] \in 1..Len(ws)
    BY <1>1, <1>3 DEF Range
  <2>2. \A j \in C : sorted[j] \in T
    BY <2>1 DEF TextTokens
  <2>3. \A t \in T : \E j \in C : sorted[j] = t
    BY <1>1, <1>3 DEF Range, TextTokens
  <2> HIDE DEF C, T
  <2>4. {<<sorted[j], ws[sorted[j]]>> : j \in C} = {<<t, ws[t]>> : t \in T}
    BY <2>2, <2>3
  <2> QED BY <2>4 DEF Added, TokensIn, C, T
<1> QED BY <1>2, <1>8, <1>9

-----------------------------------------------------------------------------
(* Sequences put one after the other.                                       *)

(* Where each of the sequences begins in all of them together.              *)
Offsets(o, s) ==
  /\ o \in [0..Len(s) -> Nat] /\ o[0] = 0
  /\ \A i \in 1..Len(s) : o[i] = o[i - 1] + Len(s[i])

(* Later parts begin later.                                                 *)
LEMMA OffsetsGrow ==
  ASSUME NEW B, NEW s \in Seq(Seq(B)), NEW o, Offsets(o, s),
         NEW i \in 0..Len(s), NEW j \in i..Len(s)
  PROVE  o[i] <= o[j] /\ o[i] \in Nat /\ o[j] \in Nat
<1>1. Len(s) \in Nat /\ \A k \in 1..Len(s) : Len(s[k]) \in Nat
  BY LenProperties, ElementOfSeq
<1>2. \A k \in 0..Len(s) : o[k] \in Nat
  BY DEF Offsets
<1> DEFINE S == {k \in Nat : o[i] <= o[i + k]}
           N == Len(s) - i
<1>3. N \in Nat /\ i \in Nat
  BY <1>1
<1>4. 0 \in S
  <2>1. i + 0 = i /\ o[i] \in Nat
    BY <1>2, <1>3
  <2> QED BY <2>1
<1>5. ASSUME NEW k \in 0..(N - 1), k \in S PROVE k + 1 \in S
  <2>1. /\ i + k \in 0..Len(s) /\ i + (k + 1) \in 1..Len(s) /\ i + (k + 1) \in 0..Len(s)
        /\ (i + (k + 1)) - 1 = i + k /\ k + 1 \in Nat
    BY <1>1, <1>3
  <2>2. o[i + (k + 1)] = o[i + k] + Len(s[i + (k + 1)])
    BY <2>1 DEF Offsets
  <2>3. o[i] <= o[i + k]
    BY <1>5
  <2>4. o[i] \in Nat /\ o[i + k] \in Nat /\ Len(s[i + (k + 1)]) \in Nat
    BY <1>1, <1>2, <2>1
  <2>5. o[i] <= o[i + (k + 1)]
    BY <2>2, <2>3, <2>4
  <2> QED BY <2>1, <2>5
<1> HIDE DEF S, N
<1>6. \A k \in 0..N : k \in S
  BY <1>3, <1>4, <1>5, UpTo
<1>7. j - i \in 0..N /\ i + (j - i) = j /\ j \in 0..Len(s)
  BY <1>1, <1>3 DEF N
<1>8. o[i] <= o[i + (j - i)]
  BY <1>6, <1>7 DEF S
<1> QED BY <1>2, <1>7, <1>8

(* Their elements, at these offsets.                                        *)
Segmented(t, o, s) ==
  /\ Len(t) = o[Len(s)]
  /\ \A i \in 1..Len(s) : \A j \in 1..Len(s[i]) :
       o[i - 1] + j \in 1..Len(t) /\ t[o[i - 1] + j] = s[i][j]
  /\ \A q \in 1..Len(t) : \E i \in 1..Len(s) : \E j \in 1..Len(s[i]) : q = o[i - 1] + j

(* Parts joined lie one after the other.                                    *)
LEMMA Segments ==
  ASSUME NEW B, NEW s \in Seq(Seq(B))
  PROVE  /\ FlattenSeq(s) \in Seq(B)
         /\ \E o : Offsets(o, s) /\ Segmented(FlattenSeq(s), o, s)
<1>1. /\ FlattenSeq(s) \in Seq(B)
      /\ Len(s) \in Nat /\ \A i \in 1..Len(s) : s[i] \in Seq(B) /\ Len(s[i]) \in Nat
  BY JoinTyped, LenProperties, ElementOfSeq
<1>2. CASE s = <<>>
  <2> DEFINE o == [i \in 0..0 |-> 0]
  <2>1. Len(s) = 0 /\ FlattenSeq(s) = <<>> /\ Len(FlattenSeq(s)) = 0
    BY <1>2, JoinNone, EmptySeq
  <2>2. Offsets(o, s)
    BY <2>1 DEF Offsets
  <2>3. o[0] = 0
    OBVIOUS
  <2> HIDE DEF o
  <2>4. Segmented(FlattenSeq(s), o, s)
    BY <2>1, <2>3 DEF Segmented
  <2> QED BY <1>1, <2>2, <2>4
<1>3. CASE s # <<>>
  <2>1. PICK f : /\ f[1] = s[1]
                 /\ \A i \in 2..Len(s) : f[i] = f[i - 1] \o s[i]
                 /\ FlattenSeq(s) = f[Len(s)]
    BY <1>3, JoinSteps
  <2> DEFINE N == Len(s)
             o == [i \in 0..N |-> IF i = 0 THEN 0 ELSE Len(f[i])]
             Part(t, k) ==
               /\ \A i \in 1..k : \A j \in 1..Len(s[i]) :
                    o[i - 1] + j \in 1..Len(t) /\ t[o[i - 1] + j] = s[i][j]
               /\ \A q \in 1..Len(t) :
                    \E i \in 1..k : \E j \in 1..Len(s[i]) : q = o[i - 1] + j
             S == {k \in Nat : k > 0 => /\ f[k] \in Seq(B) /\ o[k] = Len(f[k])
                                        /\ o[k] \in Nat /\ o[k] = o[k - 1] + Len(s[k])
                                        /\ Part(f[k], k)}
  <2>2. N \in Nat \ {0}
    BY <1>1, <1>3, EmptySeq
  <2>3. ASSUME NEW k \in 0..(N - 1), k \in S PROVE k + 1 \in S
    <3>1. CASE k = 0
      <4>1. k + 1 = 1 /\ 1 \in 1..N /\ (k + 1) - 1 = 0
        BY <2>2, <3>1
      <4>2. s[1] \in Seq(B) /\ Len(s[1]) \in Nat /\ o[0] = 0 /\ o[1] = Len(s[1])
        BY <1>1, <2>1, <2>2, <4>1
      <4> HIDE DEF o
      <4>3. \A j \in 1..Len(s[1]) : 0 + j = j
        BY <4>2
      <4>4. Part(f[1], 1)
        <5>1. \A i \in 1..1 : i = 1 /\ i - 1 = 0
          OBVIOUS
        <5> QED BY <2>1, <4>2, <4>3, <5>1
      <4>5. o[1] = o[0] + Len(s[1])
        BY <4>2
      <4> HIDE DEF Part
      <4> QED BY <2>1, <4>1, <4>2, <4>4, <4>5
    <3>2. CASE k # 0
      <4>1. /\ k \in Nat /\ k > 0 /\ k + 1 \in 2..N /\ (k + 1) - 1 = k /\ k + 1 \in Nat
            /\ k + 1 \in 1..N /\ k \in 0..N /\ k + 1 \in 0..N /\ k + 1 # 0
        BY <2>2, <3>2
      <4>2. f[k + 1] = f[k] \o s[k + 1]
        BY <2>1, <4>1
      <4>3. f[k] \in Seq(B) /\ o[k] = Len(f[k]) /\ o[k] \in Nat /\ Part(f[k], k)
        <5> HIDE DEF Part, o
        <5> QED BY <2>3, <4>1
      <4>4. s[k + 1] \in Seq(B) /\ Len(s[k + 1]) \in Nat
        BY <1>1, <4>1
      <4>5. o[k + 1] = Len(f[k + 1])
        BY <4>1
      <4> HIDE DEF o, N
      <4>6. /\ f[k + 1] \in Seq(B) /\ Len(f[k + 1]) = o[k] + Len(s[k + 1])
            /\ \A q \in 1..(o[k] + Len(s[k + 1])) :
                 f[k + 1][q] = IF q <= o[k] THEN f[k][q] ELSE s[k + 1][q - o[k]]
        <5> DEFINE x == f[k]
                   y == s[k + 1]
        <5>1. x \in Seq(B) /\ y \in Seq(B)
          BY <4>3, <4>4
        <5> HIDE DEF x, y
        <5>2. /\ x \o y \in Seq(B) /\ Len(x \o y) = Len(x) + Len(y)
              /\ \A q \in 1..(Len(x) + Len(y)) :
                   (x \o y)[q] = IF q <= Len(x) THEN x[q] ELSE y[q - Len(x)]
          BY <5>1, ConcatProperties
        <5>3. f[k + 1] = x \o y /\ o[k] = Len(x)
          <6> HIDE DEF S, Part
          <6> QED BY <4>2, <4>3 DEF x, y
        <5> HIDE DEF S, Part
        <5> QED BY <5>2, <5>3 DEF x, y
      <4> DEFINE u == o[k]
                 v == Len(s[k + 1])
      <4>11. u \in Nat /\ v \in Nat /\ k \in Nat /\ Len(f[k]) = u /\ Len(f[k + 1]) = u + v
        <5> HIDE DEF S, Part
        <5> QED BY <4>1, <4>3, <4>4, <4>6
      <4>7. ASSUME NEW i \in 1..(k + 1), NEW j \in 1..Len(s[i])
            PROVE  o[i - 1] + j \in 1..Len(f[k + 1]) /\ f[k + 1][o[i - 1] + j] = s[i][j]
        <5>1. CASE i \in 1..k
          <6> DEFINE q == o[i - 1] + j
          <6>1. q \in 1..u /\ f[k][q] = s[i][j]
            BY <4>3, <5>1
          <6> HIDE DEF q, u, v, S, Part
          <6>2. q \in 1..(u + v) /\ q <= u
            BY <4>11, <6>1
          <6> QED BY <4>6, <6>1, <6>2 DEF q, u, v
        <5>2. CASE i = k + 1
          <6>1. /\ o[i - 1] = u /\ j \in 1..v /\ s[i] = s[k + 1]
            BY <4>1, <5>2
          <6> HIDE DEF u, v, S, Part
          <6>2. /\ u + j \in 1..(u + v) /\ ~(u + j <= u)
                /\ (u + j) - u = j
            BY <4>11, <6>1
          <6>3. /\ Len(f[k + 1]) = u + v
                /\ \A q \in 1..(u + v) :
                     f[k + 1][q] = IF q <= u THEN f[k][q] ELSE s[k + 1][q - u]
            BY <4>6 DEF u, v
          <6> QED BY <6>1, <6>2, <6>3
        <5>3. i \in 1..k \/ i = k + 1
          BY <4>1
        <5> QED BY <5>1, <5>2, <5>3
      <4>8. ASSUME NEW q \in 1..Len(f[k + 1])
            PROVE  \E i \in 1..(k + 1) : \E j \in 1..Len(s[i]) : q = o[i - 1] + j
        <5>1. CASE q <= o[k]
          <6> HIDE DEF S, Part
          <6>1. q \in 1..Len(f[k])
            <7>1. q <= u
              BY <5>1
            <7> HIDE DEF u, v
            <7> QED BY <4>11, <7>1
          <6>2. PICK i \in 1..k : \E j \in 1..Len(s[i]) : q = o[i - 1] + j
            BY <4>3, <6>1 DEF Part
          <6>3. i \in 1..(k + 1)
            BY <4>1
          <6> QED BY <6>2, <6>3
        <5>2. CASE ~(q <= o[k])
          <6> HIDE DEF S, Part
          <6>1. q - u \in 1..v /\ q = u + (q - u)
            <7>1. ~(q <= u)
              BY <5>2
            <7> HIDE DEF u, v
            <7> QED BY <4>11, <7>1
          <6>2. k + 1 \in 1..(k + 1) /\ o[(k + 1) - 1] = u
            BY <4>1
          <6> QED BY <6>1, <6>2
        <5> QED BY <5>1, <5>2
      <4>9. Part(f[k + 1], k + 1)
        BY <4>7, <4>8
      <4>10. o[k + 1] \in Nat /\ o[k + 1] = o[(k + 1) - 1] + Len(s[k + 1])
        <5>1. o[k + 1] = u + v /\ o[(k + 1) - 1] = u
          BY <4>1, <4>5, <4>11
        <5>2. v = Len(s[k + 1])
          OBVIOUS
        <5> HIDE DEF u, v, S, Part
        <5>3. u + v \in Nat
          BY <4>11
        <5> QED BY <5>1, <5>2, <5>3
      <4> HIDE DEF Part
      <4> QED BY <4>1, <4>5, <4>6, <4>9, <4>10
    <3> QED BY <3>1, <3>2
  <2>4. 0 \in S
    OBVIOUS
  <2> HIDE DEF S, o, Part
  <2>5. \A k \in 0..N : k \in S
    <3> HIDE DEF N
    <3> QED BY <2>2, <2>3, <2>4, UpTo
  <2>6. \A k \in 1..N : /\ k \in 0..N /\ k > 0
    BY <2>2
  <2>7. \A k \in 1..N : o[k] \in Nat /\ o[k] = o[k - 1] + Len(s[k])
    BY <2>5, <2>6 DEF S
  <2>8. Offsets(o, s)
    <3>1. o[0] = 0 /\ o = [i \in 0..N |-> o[i]]
      BY <2>2 DEF o
    <3>2. \A k \in 0..N : k = 0 \/ k \in 1..N
      BY <2>2
    <3>3. \A k \in 0..N : o[k] \in Nat
      <4>1. 0 \in Nat
        OBVIOUS
      <4> HIDE DEF N
      <4> QED BY <2>7, <3>1, <3>2, <4>1
    <3> QED BY <2>7, <3>1, <3>3 DEF Offsets
  <2>9. Segmented(FlattenSeq(s), o, s)
    <3>1. N \in 1..N /\ N > 0
      BY <2>2
    <3>2. N \in S
      BY <2>5, <2>6, <3>1
    <3>3. Part(f[N], N) /\ o[N] = Len(f[N])
      BY <3>1, <3>2 DEF S
    <3> QED BY <2>1, <3>3 DEF Segmented, Part
  <2> QED BY <1>1, <2>8, <2>9
<1> QED BY <1>2, <1>3

-----------------------------------------------------------------------------
(* The layout of a trie: a node, followed by the layouts of its children.   *)

TrieNode == [byte : Nat, token : Nat, num_parents : Nat, subtree_size : Nat]

(* Subtrees nest, and the first node's is everything.                       *)
Nested(s) ==
  /\ s \in Seq(TrieNode) /\ Len(s) \in Nat \ {0}
  /\ NextNode(s, 1) = Len(s) + 1
  /\ \A n \in 1..Len(s) : NextNode(s, n) \in (n + 1)..(Len(s) + 1)
  /\ \A m, n \in 1..Len(s) : m < n /\ n < NextNode(s, m) => NextNode(s, n) <= NextNode(s, m)

(* Node m is the innermost whose subtree node n is in.                      *)
IsParent(s, m, n) ==
  /\ m \in 1..(n - 1) /\ NextNode(s, m) > n
  /\ \A q \in (m + 1)..(n - 1) : NextNode(s, q) <= n

(* s is a node followed by the sequences of parts, at the offsets o.        *)
Pos(o, i, j) == 1 + o[i - 1] + j
Placed(s, parts, o) ==
  /\ Len(s) = 1 + o[Len(parts)]
  /\ \A i \in 1..Len(parts) : \A j \in 1..Len(parts[i]) :
       Pos(o, i, j) \in 2..Len(s) /\ s[Pos(o, i, j)] = parts[i][j]
  /\ \A q \in 2..Len(s) :
       \E i \in 1..Len(parts) : \E j \in 1..Len(parts[i]) : q = Pos(o, i, j)
Composed(s, parts, o) ==
  /\ s \in Seq(TrieNode) /\ parts \in Seq(Seq(TrieNode))
  /\ Offsets(o, parts) /\ Placed(s, parts, o)
  /\ \A i \in 1..Len(parts) : Nested(parts[i])
  /\ NextNode(s, 1) = Len(s) + 1

(* The parts are one after the other.                                       *)
LEMMA PosFacts ==
  ASSUME NEW s, NEW parts, NEW o, Composed(s, parts, o),
         NEW i \in 1..Len(parts), NEW j \in 1..Len(parts[i])
  PROVE  /\ Len(parts) \in Nat /\ Len(parts[i]) \in Nat \ {0}
         /\ o[i - 1] \in Nat /\ o[i] \in Nat /\ o[Len(parts)] \in Nat
         /\ o[i] = o[i - 1] + Len(parts[i]) /\ o[i] <= o[Len(parts)]
         /\ Pos(o, i, j) \in 2..Len(s) /\ Pos(o, i, j) = 1 + o[i - 1] + j
         /\ NextNode(s, Pos(o, i, j)) = 1 + o[i - 1] + NextNode(parts[i], j)
         /\ NextNode(parts[i], j) \in (j + 1)..(Len(parts[i]) + 1)
         /\ \A k \in 1..Len(parts) : i < k => o[i] <= o[k - 1] /\ o[k - 1] \in Nat
<1>1. /\ parts \in Seq(Seq(TrieNode)) /\ Offsets(o, parts) /\ Placed(s, parts, o)
      /\ Nested(parts[i])
  BY DEF Composed
<1>2. Len(parts) \in Nat /\ Len(parts[i]) \in Nat \ {0}
  BY <1>1, LenProperties DEF Nested
<1>3. /\ i \in 0..Len(parts) /\ i - 1 \in 0..Len(parts) /\ Len(parts) \in i..Len(parts)
      /\ Len(parts) \in 0..Len(parts)
  BY <1>2
<1>4. /\ o[i - 1] \in Nat /\ o[i] \in Nat /\ o[Len(parts)] \in Nat
      /\ o[i] = o[i - 1] + Len(parts[i])
  <2>1. /\ o \in [0..Len(parts) -> Nat]
        /\ \A k \in 1..Len(parts) : o[k] = o[k - 1] + Len(parts[k])
    BY <1>1 DEF Offsets
  <2> QED BY <1>3, <2>1
<1>5. o[i] <= o[Len(parts)]
  BY <1>1, <1>3, OffsetsGrow
<1>6. Pos(o, i, j) \in 2..Len(s) /\ s[Pos(o, i, j)] = parts[i][j]
  BY <1>1 DEF Placed
<1>7. NextNode(parts[i], j) \in (j + 1)..(Len(parts[i]) + 1)
  BY <1>1 DEF Nested
<1>8. NextNode(s, Pos(o, i, j)) = 1 + o[i - 1] + NextNode(parts[i], j)
  <2>1. /\ parts[i][j] \in TrieNode
    BY <1>1, ElementOfSeq DEF Nested
  <2>2. parts[i][j].subtree_size \in Nat /\ j \in Nat
    BY <1>2, <2>1 DEF TrieNode
  <2> DEFINE u == o[i - 1]
             z == parts[i][j].subtree_size
  <2>3. NextNode(s, Pos(o, i, j)) = (1 + u + j) + z /\ NextNode(parts[i], j) = j + z
    BY <1>6 DEF NextNode, Pos
  <2>4. u \in Nat /\ z \in Nat
    BY <1>4, <2>2
  <2> HIDE DEF u, z
  <2>5. (1 + u + j) + z = 1 + u + (j + z)
    BY <2>2, <2>4
  <2>6. NextNode(s, Pos(o, i, j)) = 1 + u + NextNode(parts[i], j)
    BY <2>3, <2>5
  <2> QED BY <2>6 DEF u
<1>9. ASSUME NEW k \in 1..Len(parts), i < k PROVE o[i] <= o[k - 1] /\ o[k - 1] \in Nat
  <2>1. k - 1 \in i..Len(parts)
    BY <1>2, <1>9
  <2> QED BY <1>1, <1>3, <2>1, OffsetsGrow
<1> QED BY <1>2, <1>4, <1>5, <1>6, <1>7, <1>8, <1>9 DEF Pos

(* What lies within a part's subtree is in the part.                        *)
LEMMA PosWithin ==
  ASSUME NEW s, NEW parts, NEW o, Composed(s, parts, o),
         NEW i \in 1..Len(parts), NEW j \in 1..Len(parts[i]),
         NEW q \in 2..Len(s)
  PROVE  /\ Pos(o, i, j) <= q /\ q < 1 + o[i] + 1 =>
              \E k \in 1..Len(parts[i]) : k >= j /\ q = Pos(o, i, k)
         /\ \A k \in 1..Len(parts[i]) : (Pos(o, i, k) < Pos(o, i, j) <=> k < j)
         /\ q < Pos(o, i, 1) => NextNode(s, q) <= Pos(o, i, 1)
<1>1. PICK k \in 1..Len(parts) : \E l \in 1..Len(parts[k]) : q = Pos(o, k, l)
  BY DEF Composed, Placed
<1>2. PICK l \in 1..Len(parts[k]) : q = Pos(o, k, l)
  BY <1>1
<1> DEFINE ui == o[i - 1]
           vi == Len(parts[i])
           uk == o[k - 1]
           vk == Len(parts[k])
           x == NextNode(parts[k], l)
<1>3. /\ ui \in Nat /\ vi \in Nat \ {0} /\ o[i] = ui + vi /\ Len(parts) \in Nat
      /\ k > i => o[i] <= uk
  BY PosFacts
<1>4. /\ uk \in Nat /\ vk \in Nat \ {0} /\ o[k] = uk + vk
      /\ k < i => o[k] <= ui
  BY PosFacts
<1>5. /\ Pos(o, k, l) = 1 + uk + l
      /\ NextNode(s, Pos(o, k, l)) = 1 + uk + x
      /\ x \in (l + 1)..(vk + 1)
  BY PosFacts
<1>6. \A m \in 1..vi : Pos(o, i, m) = 1 + ui + m
  BY DEF Pos
<1>7. j \in 1..vi /\ l \in 1..vk /\ k \in Nat /\ i \in Nat
  BY <1>3
<1>8. q = 1 + uk + l /\ NextNode(s, q) = 1 + uk + x
  BY <1>2, <1>5
<1>9. /\ k > i => ui + vi <= uk
      /\ k < i => uk + vk <= ui
      /\ k = i => uk = ui /\ vk = vi
  BY <1>3, <1>4
<1> HIDE DEF ui, vi, uk, vk, x
<1>10. ASSUME Pos(o, i, j) <= q, q < 1 + o[i] + 1
       PROVE  \E m \in 1..vi : m >= j /\ q = Pos(o, i, m)
  <2>1. 1 + ui + j <= 1 + uk + l /\ 1 + uk + l < 1 + (ui + vi) + 1
    BY <1>3, <1>6, <1>7, <1>8, <1>10
  <2>2. ~(k < i)
    BY <1>3, <1>4, <1>7, <1>9, <2>1
  <2>3. ~(k > i)
    BY <1>3, <1>4, <1>7, <1>9, <2>1
  <2>4. k = i
    BY <1>7, <2>2, <2>3
  <2>5. l >= j /\ l \in 1..vi /\ q = 1 + ui + l
    BY <1>3, <1>4, <1>7, <1>8, <1>9, <2>1, <2>4
  <2> QED BY <1>6, <2>5
<1>11. ASSUME NEW m \in 1..vi PROVE Pos(o, i, m) < Pos(o, i, j) <=> m < j
  BY <1>3, <1>6, <1>7
<1>12. ASSUME q < Pos(o, i, 1) PROVE NextNode(s, q) <= Pos(o, i, 1)
  <2>1. Pos(o, i, 1) = 1 + ui + 1
    BY <1>3, <1>6
  <2>2. 1 + uk + l < 1 + ui + 1
    BY <1>8, <1>12, <2>1
  <2>3. k < i
    BY <1>3, <1>4, <1>7, <1>9, <2>2
  <2>4. 1 + uk + x <= 1 + ui + 1
    BY <1>3, <1>4, <1>5, <1>7, <1>9, <2>3
  <2> QED BY <1>8, <2>1, <2>4
<1> QED BY <1>10, <1>11, <1>12 DEF vi

(* The whole nests as its parts do.                                         *)
LEMMA ComposedNested ==
  ASSUME NEW s, NEW parts, NEW o, Composed(s, parts, o)
  PROVE  Nested(s)
<1>1. s \in Seq(TrieNode) /\ NextNode(s, 1) = Len(s) + 1 /\ Len(s) = 1 + o[Len(parts)]
  BY DEF Composed, Placed
<1>2. Len(s) \in Nat \ {0}
  <2>1. Len(parts) \in Nat /\ o[Len(parts)] \in Nat
    <3>1. Len(parts) \in Nat
      BY LenProperties DEF Composed
    <3> QED BY <3>1 DEF Composed, Offsets
  <2> QED BY <1>1, <2>1
<1>3. ASSUME NEW n \in 2..Len(s)
      PROVE  NextNode(s, n) \in (n + 1)..(Len(s) + 1)
  <2>1. PICK i \in 1..Len(parts) : \E j \in 1..Len(parts[i]) : n = Pos(o, i, j)
    BY DEF Composed, Placed
  <2>2. PICK j \in 1..Len(parts[i]) : n = Pos(o, i, j)
    BY <2>1
  <2> DEFINE u == o[i - 1]
             v == Len(parts[i])
             w == o[Len(parts)]
             x == NextNode(parts[i], j)
  <2>3. /\ u \in Nat /\ v \in Nat \ {0} /\ w \in Nat /\ o[i] = u + v /\ o[i] <= w
    BY PosFacts
  <2>4. Pos(o, i, j) = 1 + u + j /\ x \in (j + 1)..(v + 1) /\ NextNode(s, Pos(o, i, j)) = 1 + u + x
    BY PosFacts
  <2>5. Len(s) = 1 + w /\ j \in 1..v
    BY <1>1
  <2>6. n = 1 + u + j /\ NextNode(s, n) = 1 + u + x
    BY <2>2, <2>4
  <2> HIDE DEF u, v, w, x
  <2>7. 1 + u + x \in ((1 + u + j) + 1)..((1 + w) + 1)
    BY <2>3, <2>4, <2>5
  <2> QED BY <2>5, <2>6, <2>7
<1>4. ASSUME NEW n \in 1..Len(s)
      PROVE  NextNode(s, n) \in (n + 1)..(Len(s) + 1)
  <2>1. CASE n = 1
    BY <1>1, <1>2, <2>1
  <2>2. CASE n # 1
    BY <1>3, <2>2
  <2> QED BY <2>1, <2>2
<1>5. ASSUME NEW m \in 1..Len(s), NEW n \in 1..Len(s), m < n, n < NextNode(s, m)
      PROVE  NextNode(s, n) <= NextNode(s, m)
  <2>1. CASE m = 1
    BY <1>1, <1>2, <1>4, <2>1
  <2>2. CASE m # 1
    <3>1. m \in 2..Len(s) /\ n \in 2..Len(s)
      BY <1>5, <2>2
    <3>2. PICK i \in 1..Len(parts) : \E j \in 1..Len(parts[i]) : m = Pos(o, i, j)
      BY <3>1 DEF Composed, Placed
    <3>3. PICK j \in 1..Len(parts[i]) : m = Pos(o, i, j)
      BY <3>2
    <3> DEFINE u == o[i - 1]
               v == Len(parts[i])
               x == NextNode(parts[i], j)
    <3>4. /\ u \in Nat /\ v \in Nat \ {0} /\ o[i] = u + v
          /\ Pos(o, i, j) = 1 + u + j
      BY PosFacts
    <3>5. x \in (j + 1)..(v + 1) /\ NextNode(s, Pos(o, i, j)) = 1 + u + x
      BY PosFacts
    <3>6. m = 1 + u + j /\ NextNode(s, m) = 1 + u + x /\ j \in 1..v
      BY <3>3, <3>4, <3>5
    <3> HIDE DEF u, v, x
    <3>7. m <= n /\ n < 1 + (u + v) + 1
      BY <1>5, <3>4, <3>5, <3>6
    <3>8. PICK k \in 1..v : k >= j /\ n = Pos(o, i, k)
      BY <3>1, <3>3, <3>4, <3>7, PosWithin DEF v
    <3> DEFINE y == NextNode(parts[i], k)
    <3>9. Pos(o, i, k) = 1 + u + k /\ NextNode(s, Pos(o, i, k)) = 1 + u + y
          /\ y \in (k + 1)..(v + 1)
      BY PosFacts DEF u, v
    <3>10. n = 1 + u + k /\ NextNode(s, n) = 1 + u + y
      BY <3>8, <3>9
    <3> HIDE DEF y
    <3>11. j < k /\ k < x
      BY <1>5, <3>4, <3>5, <3>6, <3>8, <3>10
    <3>12. y <= x
      BY <3>6, <3>11 DEF Composed, Nested, x, y, v
    <3>13. 1 + u + y <= 1 + u + x
      BY <3>4, <3>5, <3>6, <3>9, <3>12
    <3> QED BY <3>6, <3>10, <3>13
  <2> QED BY <2>1, <2>2
<1> QED BY <1>1, <1>2, <1>4, <1>5 DEF Nested

(* The node is the parent of the first node of each part; all others have   *)
(* their parents in their parts.                                            *)
LEMMA ComposedParents ==
  ASSUME NEW s, NEW parts, NEW o, Composed(s, parts, o), NEW i \in 1..Len(parts)
  PROVE  /\ IsParent(s, 1, Pos(o, i, 1))
         /\ \A m, n \in 1..Len(parts[i]) :
              IsParent(parts[i], m, n) <=> IsParent(s, Pos(o, i, m), Pos(o, i, n))
         /\ \A n \in 1..Len(parts[i]) : IsParent(s, 1, Pos(o, i, n)) => n = 1
         /\ \A m \in 1..Len(parts[i]) : \A q \in 2..Len(s) :
              IsParent(s, Pos(o, i, m), q) => \E n \in 1..Len(parts[i]) : q = Pos(o, i, n)
<1> DEFINE d == 1 + o[i - 1]
           N == Len(parts[i])
<1>1. /\ N \in Nat \ {0} /\ d \in Nat
      /\ o[i] = o[i - 1] + N
      /\ \A j \in 1..N : /\ Pos(o, i, j) = d + j /\ d + j \in 2..Len(s)
                         /\ NextNode(s, d + j) = d + NextNode(parts[i], j)
                         /\ NextNode(parts[i], j) \in (j + 1)..(N + 1)
  <2>1. N \in Nat \ {0}
    BY DEF Composed, Nested
  <2>2. 1 \in 1..N
    BY <2>1
  <2> QED BY <2>1, <2>2, PosFacts DEF Pos
<1>2. /\ Len(s) \in Nat \ {0} /\ NextNode(s, 1) = Len(s) + 1
      /\ NextNode(parts[i], 1) = N + 1
  <2>1. Nested(s)
    BY ComposedNested
  <2> QED BY <2>1 DEF Nested, Composed
<1>3. ASSUME NEW q \in 2..Len(s), NEW j \in 1..N, d + j <= q, q <= d + N
      PROVE  \E k \in 1..N : k >= j /\ q = d + k
  <2>1. q < 1 + o[i] + 1 /\ Pos(o, i, j) <= q
    <3> DEFINE u == o[i - 1]
    <3>1. u \in Nat /\ d = 1 + u /\ o[i] = u + N
      BY <1>1, PosFacts
    <3>2. Pos(o, i, j) = d + j
      BY <1>1
    <3> HIDE DEF d, N, u
    <3>3. q < 1 + (u + N) + 1
      BY <1>1, <1>3, <3>1
    <3> QED BY <1>3, <3>1, <3>2, <3>3
  <2>2. PICK k \in 1..N : k >= j /\ q = Pos(o, i, k)
    BY <2>1, PosWithin
  <2> QED BY <1>1, <2>2
<1>4. \A q \in 2..Len(s) : q < d + 1 => NextNode(s, q) <= d + 1
  <2>1. 1 \in 1..N
    BY <1>1
  <2> QED BY <1>1, <2>1, PosWithin
<1> HIDE DEF d, N
<1>5. IsParent(s, 1, Pos(o, i, 1))
  <2>1. 1 \in 1..N /\ Pos(o, i, 1) = d + 1 /\ d + 1 \in 2..Len(s)
    BY <1>1
  <2>2. 1 \in 1..((d + 1) - 1) /\ NextNode(s, 1) > d + 1
    BY <1>1, <1>2, <2>1
  <2>3. \A q \in (1 + 1)..((d + 1) - 1) : q \in 2..Len(s) /\ q < d + 1
    BY <1>1, <1>2, <2>1
  <2> QED BY <1>4, <2>1, <2>2, <2>3 DEF IsParent
<1>6. ASSUME NEW m \in 1..N, NEW n \in 1..N
      PROVE  IsParent(parts[i], m, n) <=> IsParent(s, d + m, d + n)
  <2>1. /\ m \in 1..(n - 1) <=> d + m \in 1..((d + n) - 1)
        /\ NextNode(s, d + m) = d + NextNode(parts[i], m)
        /\ NextNode(parts[i], m) \in Nat
        /\ m \in Nat /\ n \in Nat /\ d \in Nat
    BY <1>1
  <2>2. NextNode(parts[i], m) > n <=> NextNode(s, d + m) > d + n
    BY <2>1
  <2>3. ASSUME \A q \in (m + 1)..(n - 1) : NextNode(parts[i], q) <= n,
               NEW q \in (d + m + 1)..((d + n) - 1)
        PROVE  NextNode(s, q) <= d + n
    <3> DEFINE k == q - d
    <3>1. k \in (m + 1)..(n - 1) /\ k \in 1..N /\ q = d + k
      BY <1>1, <2>1
    <3> HIDE DEF k
    <3> DEFINE x == NextNode(parts[i], k)
    <3>2. x \in (k + 1)..(N + 1) /\ NextNode(s, d + k) = d + x
      BY <1>1, <3>1
    <3>3. x <= n
      BY <2>3, <3>1
    <3> HIDE DEF x
    <3>4. d + x <= d + n
      BY <1>1, <2>1, <3>1, <3>2, <3>3
    <3> QED BY <3>1, <3>2, <3>4
  <2>4. ASSUME \A q \in (d + m + 1)..((d + n) - 1) : NextNode(s, q) <= d + n,
               NEW k \in (m + 1)..(n - 1)
        PROVE  NextNode(parts[i], k) <= n
    <3>1. d + k \in (d + m + 1)..((d + n) - 1) /\ k \in 1..N
      BY <1>1, <2>1
    <3> DEFINE x == NextNode(parts[i], k)
    <3>2. x \in (k + 1)..(N + 1) /\ NextNode(s, d + k) = d + x
      BY <1>1, <3>1
    <3>3. NextNode(s, d + k) <= d + n
      BY <2>4, <3>1
    <3> HIDE DEF x
    <3>4. x <= n
      BY <1>1, <2>1, <3>1, <3>2, <3>3
    <3> QED BY <3>4 DEF x
  <2>5. (\A q \in (m + 1)..(n - 1) : NextNode(parts[i], q) <= n) <=>
          \A q \in (d + m + 1)..((d + n) - 1) : NextNode(s, q) <= d + n
    BY <2>3, <2>4
  <2> QED BY <2>1, <2>2, <2>5 DEF IsParent
<1>7. ASSUME NEW n \in 1..N, IsParent(s, 1, d + n) PROVE n = 1
  <2> SUFFICES ASSUME n # 1 PROVE FALSE
    OBVIOUS
  <2>1. /\ 1 \in 1..N /\ d + 1 \in (1 + 1)..((d + n) - 1)
    BY <1>1
  <2>2. NextNode(s, d + 1) <= d + n
    BY <1>7, <2>1 DEF IsParent
  <2>3. NextNode(s, d + 1) = d + (N + 1)
    BY <1>1, <1>2, <2>1
  <2> QED BY <1>1, <2>2, <2>3
<1>8. ASSUME NEW m \in 1..N, NEW q \in 2..Len(s), IsParent(s, d + m, q)
      PROVE  \E n \in 1..N : q = d + n
  <2>1. d + m \in 1..(q - 1) /\ NextNode(s, d + m) > q
    BY <1>8 DEF IsParent
  <2>2. NextNode(s, d + m) = d + NextNode(parts[i], m) /\ NextNode(parts[i], m) \in (m + 1)..(N + 1)
    BY <1>1
  <2>3. d + m <= q /\ q <= d + N
    BY <1>1, <2>1, <2>2
  <2> QED BY <1>3, <2>3
<1>9. 1 \in 1..N /\ \A j \in 1..N : Pos(o, i, j) = d + j
  BY <1>1
<1> QED BY <1>5, <1>6, <1>7, <1>8, <1>9 DEF N

(* Laid out with the argument k, each node counts itself and the ancestors  *)
(* that end where it does, k of them above the first node.                  *)
Counts(s, k, m, n) ==
  s[n].num_parents =
    IF NextNode(s, m) = NextNode(s, n)
    THEN (IF m = 1 THEN k ELSE s[m].num_parents) + 1 ELSE 1
Shaped(s, k) ==
  /\ Nested(s)
  /\ s[1].num_parents = IF k = 0 THEN 1 ELSE k
  /\ \A n \in 2..Len(s) : \E m : IsParent(s, m, n) /\ Counts(s, k, m, n)

(* The argument for the i-th of n children.                                 *)
PopsOf(k, i, n) == IF i = n THEN k + 1 ELSE 1

(* Adding the same tells no numbers apart.                                  *)
LEMMA SameAdded == \A a, b, c \in Nat : 1 + a + b = 1 + a + c <=> b = c
OBVIOUS

(* A layout put together of a root and the layouts of its children counts   *)
(* what a walk leaves, if those do.                                         *)
LEMMA ComposedShaped ==
  ASSUME NEW s, NEW parts, NEW o, Composed(s, parts, o), NEW k \in Nat,
         s[1].num_parents = (IF k = 0 THEN 1 ELSE k),
         \A i \in 1..Len(parts) : Shaped(parts[i], PopsOf(k, i, Len(parts)))
  PROVE  Shaped(s, k)
<1>1. Nested(s) /\ Len(s) \in Nat \ {0} /\ NextNode(s, 1) = Len(s) + 1
  BY ComposedNested DEF Nested
<1>2. ASSUME NEW q \in 2..Len(s) PROVE \E m : IsParent(s, m, q) /\ Counts(s, k, m, q)
  <2>1. PICK i \in 1..Len(parts) : \E j \in 1..Len(parts[i]) : q = Pos(o, i, j)
    BY DEF Composed, Placed
  <2>2. PICK j \in 1..Len(parts[i]) : q = Pos(o, i, j)
    BY <2>1
  <2> DEFINE part == parts[i]
             kp == PopsOf(k, i, Len(parts))
             N == Len(part)
             c == Len(parts)
             u == o[i - 1]
  <2>3. /\ c \in Nat /\ N \in Nat \ {0} /\ i \in 1..c
        /\ u \in Nat /\ o[i] \in Nat /\ o[c] \in Nat /\ o[i] = u + N
        /\ o[i] <= o[c]
    BY PosFacts
  <2>4. Len(s) = 1 + o[c] /\ \A l \in 1..N : s[Pos(o, i, l)] = part[l]
    BY DEF Composed, Placed
  <2>5. \A l \in 1..N : NextNode(s, Pos(o, i, l)) = 1 + u + NextNode(part, l)
                        /\ NextNode(part, l) \in Nat
    <3>1. ASSUME NEW l \in 1..N
          PROVE  NextNode(s, Pos(o, i, l)) = 1 + u + NextNode(part, l)
                 /\ NextNode(part, l) \in (l + 1)..(N + 1)
      BY PosFacts
    <3>2. \A l \in 1..N : \A x \in (l + 1)..(N + 1) : x \in Nat
      <4> HIDE DEF N
      <4> QED BY <2>3
    <3> QED BY <3>1, <3>2
  <2>6. Shaped(part, kp) /\ kp \in Nat \ {0} /\ kp = PopsOf(k, i, c)
    BY DEF PopsOf
  <2> HIDE DEF part, kp, N, c, u
  <2>7. CASE j = 1
    <3>1. IsParent(s, 1, q)
      BY <2>2, <2>7, ComposedParents
    <3>2. s[q].num_parents = kp
      <4>1. s[q] = part[1] /\ part[1].num_parents = IF kp = 0 THEN 1 ELSE kp
        <5>1. 1 \in 1..N
          BY <2>3
        <5> QED BY <2>2, <2>4, <2>6, <2>7, <5>1 DEF Shaped
      <4> QED BY <2>6, <4>1
    <3>3. NextNode(s, q) = 1 + u + (N + 1)
      <4>1. NextNode(part, 1) = N + 1
        BY <2>6 DEF Shaped, Nested, N
      <4>2. 1 \in 1..N
        BY <2>3
      <4> QED BY <2>2, <2>5, <2>7, <4>1, <4>2
    <3>4. NextNode(s, 1) = NextNode(s, q) <=> o[i] = o[c]
      <4> DEFINE x == o[i]
                 w == o[c]
      <4>1. x \in Nat /\ w \in Nat /\ x = u + N /\ NextNode(s, 1) = (1 + w) + 1
        BY <1>1, <2>3, <2>4
      <4> HIDE DEF x, w
      <4>2. (1 + w) + 1 = 1 + u + (N + 1) <=> x = w
        BY <2>3, <4>1
      <4> QED BY <3>3, <4>1, <4>2 DEF x, w
    <3>5. o[i] = o[c] <=> i = c
      <4>1. ASSUME i # c PROVE o[i] # o[c]
        <5>1. /\ i + 1 \in 1..c /\ (i + 1) - 1 = i /\ i + 1 \in 0..c /\ c \in (i + 1)..c
          BY <2>3, <4>1
        <5>2. o[i + 1] = o[i] + Len(parts[i + 1])
          BY <5>1 DEF Composed, Offsets, c
        <5>3. o[i + 1] <= o[c] /\ o[i + 1] \in Nat
          BY <5>1, OffsetsGrow DEF Composed, c
        <5>4. Len(parts[i + 1]) \in Nat \ {0}
          BY <5>1 DEF Composed, Nested, c
        <5> DEFINE x == o[i]
                   y == Len(parts[i + 1])
                   w == o[c]
        <5>5. x \in Nat /\ y \in Nat \ {0} /\ w \in Nat /\ x + y <= w
          BY <2>3, <5>2, <5>3, <5>4
        <5> HIDE DEF x, y, w
        <5>6. x # w
          BY <5>5
        <5> QED BY <5>6 DEF x, w
      <4> QED BY <4>1
    <3>6. kp = IF i = c THEN k + 1 ELSE 1
      BY <2>6 DEF PopsOf
    <3>7. Counts(s, k, 1, q)
      BY <3>2, <3>4, <3>5, <3>6 DEF Counts
    <3> QED BY <3>1, <3>7
  <2>8. CASE j # 1
    <3>1. j \in 2..N /\ j \in 1..N
      BY <2>3, <2>8 DEF N, part
    <3>2. PICK m : IsParent(part, m, j) /\ Counts(part, kp, m, j)
      BY <2>6, <3>1 DEF Shaped, N
    <3>3. m \in 1..N
      <4>1. m \in 1..(j - 1)
        BY <3>2 DEF IsParent
      <4> QED BY <2>3, <3>1, <4>1
    <3>4. IsParent(s, Pos(o, i, m), q)
      BY <2>2, <3>1, <3>2, <3>3, ComposedParents DEF part, N
    <3>5. Pos(o, i, m) # 1
      BY <2>3, <3>3 DEF Pos, u
    <3>6. s[q].num_parents = part[j].num_parents
          /\ s[Pos(o, i, m)].num_parents = part[m].num_parents
      BY <2>2, <2>4, <3>1, <3>3
    <3>7. NextNode(s, Pos(o, i, m)) = NextNode(s, q) <=> NextNode(part, m) = NextNode(part, j)
      <4> DEFINE x == NextNode(part, m)
                 y == NextNode(part, j)
      <4>1. /\ NextNode(s, Pos(o, i, m)) = 1 + u + x /\ NextNode(s, q) = 1 + u + y
            /\ x \in Nat /\ y \in Nat
        BY <2>2, <2>5, <3>1, <3>3
      <4> HIDE DEF x, y
      <4>2. 1 + u + x = 1 + u + y <=> x = y
        BY <2>3, <4>1, SameAdded
      <4> QED BY <4>1, <4>2 DEF x, y
    <3>8. m = 1 => part[m].num_parents = kp
      BY <2>6 DEF Shaped
    <3>9. Counts(s, k, Pos(o, i, m), q)
      BY <3>2, <3>5, <3>6, <3>7, <3>8 DEF Counts
    <3> QED BY <3>4, <3>9
  <2> QED BY <2>7, <2>8
<1> QED BY <1>1, <1>2 DEF Shaped

(* at tells which node of the arena a node of s is a copy of: with their    *)
(* children, in order.                                                      *)
Copies(s, a, at) ==
  /\ at \in [1..Len(s) -> 1..Len(a)]
  /\ \A n \in 1..Len(s) : /\ s[n].byte = a[at[n]].byte /\ s[n].token = a[at[n]].token
                          /\ a[at[n]].children = <<>> => NextNode(s, n) = n + 1
  /\ \A n \in 2..Len(s) : \A m : IsParent(s, m, n) => \E i : ChildOf(a, at[m], i, at[n])
  /\ \A m : \A n, l \in 2..Len(s) :
       IsParent(s, m, n) /\ IsParent(s, m, l) /\ n < l => at[n] < at[l]
  /\ \A m \in 1..Len(s) : \A i, y :
       ChildOf(a, at[m], i, y) => \E n \in 2..Len(s) : IsParent(s, m, n) /\ at[n] = y
CopyOf(s, a, node) == \E at : Copies(s, a, at) /\ at[1] = node

(* It copies its node, if those copy its children.                          *)
LEMMA ComposedCopies ==
  ASSUME NEW s, NEW parts, NEW o, Composed(s, parts, o),
         NEW a, ArenaOK(a), NEW node \in 1..Len(a),
         s[1].byte = a[node].byte, s[1].token = a[node].token,
         Len(parts) = Len(a[node].children),
         \A i \in 1..Len(parts) : CopyOf(parts[i], a, a[node].children[i])
  PROVE  CopyOf(s, a, node)
<1>15. \A i \in 1..Len(parts) : \A j \in 1..Len(parts[i]) :
         /\ o[i - 1] \in Nat /\ o[i] = o[i - 1] + Len(parts[i])
         /\ Pos(o, i, j) = 1 + o[i - 1] + j
         /\ \A k \in 1..Len(parts) : i < k => o[i] <= o[k - 1]
  BY PosFacts
<1> DEFINE c == Len(parts)
           ats == [i \in 1..c |-> CHOOSE at : Copies(parts[i], a, at) /\ at[1] = a[node].children[i]]
           At(q, y) == \E i \in 1..c : \E j \in 1..Len(parts[i]) :
                         q = Pos(o, i, j) /\ y = ats[i][j]
           at == [q \in 1..Len(s) |-> IF q = 1 THEN node ELSE CHOOSE y : At(q, y)]
<1>1. /\ c \in Nat /\ c = Len(a[node].children)
      /\ Len(s) \in Nat \ {0} /\ NextNode(s, 1) = Len(s) + 1
      /\ \A i \in 1..c : Len(parts[i]) \in Nat \ {0}
  BY ComposedNested, LenProperties DEF Composed, Nested
<1>2. ASSUME NEW i \in 1..c
      PROVE  Copies(parts[i], a, ats[i]) /\ ats[i][1] = a[node].children[i]
  <2>1. \E x : Copies(parts[i], a, x) /\ x[1] = a[node].children[i]
    BY DEF CopyOf
  <2>2. ats[i] = CHOOSE x : Copies(parts[i], a, x) /\ x[1] = a[node].children[i]
    OBVIOUS
  <2> HIDE DEF ats
  <2> QED BY <2>1, <2>2, Zenon
<1> HIDE DEF ats
<1>3. ASSUME NEW i \in 1..c, NEW j \in 1..Len(parts[i]), NEW k \in 1..c, NEW l \in 1..Len(parts[k]),
             Pos(o, i, j) = Pos(o, k, l)
      PROVE  i = k /\ j = l
  <2> DEFINE q == Pos(o, i, j)
  <2>1. q \in 2..Len(s)
    BY PosFacts
  <2>2. /\ o[i - 1] \in Nat /\ o[k - 1] \in Nat
        /\ o[i] = o[i - 1] + Len(parts[i]) /\ o[k] = o[k - 1] + Len(parts[k])
        /\ q = 1 + o[i - 1] + j /\ q = 1 + o[k - 1] + l
    <3>1. o[i - 1] \in Nat /\ o[i] = o[i - 1] + Len(parts[i]) /\ q = 1 + o[i - 1] + j
      BY <1>15
    <3>2. /\ o[k - 1] \in Nat /\ o[k] = o[k - 1] + Len(parts[k])
          /\ Pos(o, k, l) = 1 + o[k - 1] + l
      BY <1>15
    <3> QED BY <1>3, <3>1, <3>2
  <2>3. (i < k => o[i] <= o[k - 1]) /\ (k < i => o[k] <= o[i - 1])
    BY PosFacts
  <2> DEFINE ui == o[i - 1]
             vi == Len(parts[i])
             uk == o[k - 1]
             vk == Len(parts[k])
  <2>4. /\ ui \in Nat /\ uk \in Nat /\ vi \in Nat /\ vk \in Nat
        /\ 1 + ui + j = 1 + uk + l
        /\ i < k => ui + vi <= uk
        /\ k < i => uk + vk <= ui
        /\ j \in 1..vi /\ l \in 1..vk /\ i \in 1..c /\ k \in 1..c
    BY <1>1, <2>2, <2>3
  <2>5. i = k => ui = uk
    OBVIOUS
  <2> HIDE DEF ui, uk, vi, vk, c
  <2>6. ~(i < k) /\ ~(k < i)
    BY <2>4
  <2>7. i = k
    BY <1>1, <2>4, <2>6
  <2> QED BY <2>4, <2>5, <2>7
<1>4. ASSUME NEW i \in 1..c, NEW j \in 1..Len(parts[i])
      PROVE  /\ Pos(o, i, j) \in 2..Len(s) /\ Pos(o, i, j) \in 1..Len(s) /\ Pos(o, i, j) # 1
             /\ s[Pos(o, i, j)] = parts[i][j]
             /\ at[Pos(o, i, j)] = ats[i][j]
  <2> DEFINE q == Pos(o, i, j)
  <2>1. q \in 2..Len(s) /\ s[q] = parts[i][j]
    BY DEF Composed, Placed
  <2> HIDE DEF q
  <2>2. q \in 1..Len(s) /\ q # 1
    BY <1>1, <2>1
  <2>3. at[q] = CHOOSE y : At(q, y)
    BY <2>2
  <2>4. At(q, ats[i][j])
    BY DEF q
  <2>5. ASSUME NEW y, At(q, y) PROVE y = ats[i][j]
    <3>1. PICK k \in 1..c : \E l \in 1..Len(parts[k]) : q = Pos(o, k, l) /\ y = ats[k][l]
      BY <2>5
    <3>2. PICK l \in 1..Len(parts[k]) : q = Pos(o, k, l) /\ y = ats[k][l]
      BY <3>1
    <3>3. Pos(o, i, j) = Pos(o, k, l)
      BY <3>2 DEF q
    <3> QED BY <1>3, <3>2, <3>3
  <2> HIDE DEF At, at
  <2>6. at[q] = ats[i][j]
    <3>1. \E y : At(q, y)
      BY <2>4
    <3>2. At(q, CHOOSE y : At(q, y))
      BY <3>1, Zenon
    <3> QED BY <2>3, <2>5, <3>2
  <2> QED BY <2>1, <2>2, <2>6 DEF q
<1>5. /\ at[1] = node /\ at = [q \in 1..Len(s) |-> at[q]]
  BY <1>1
<1>6. \A q \in 2..Len(s) : \E i \in 1..c : \E j \in 1..Len(parts[i]) : q = Pos(o, i, j)
  BY DEF Composed, Placed
<1> HIDE DEF at, At
<1>7. at \in [1..Len(s) -> 1..Len(a)]
  <2>1. ASSUME NEW q \in 1..Len(s) PROVE at[q] \in 1..Len(a)
    <3>1. CASE q = 1
      BY <1>5, <3>1
    <3>2. CASE q # 1
      <4>1. q \in 2..Len(s)
        BY <1>1, <3>2
      <4>2. PICK i \in 1..c : \E j \in 1..Len(parts[i]) : q = Pos(o, i, j)
        BY <1>6, <4>1
      <4>3. PICK j \in 1..Len(parts[i]) : q = Pos(o, i, j)
        BY <4>2
      <4>4. ats[i] \in [1..Len(parts[i]) -> 1..Len(a)]
        BY <1>2 DEF Copies
      <4>5. at[q] = ats[i][j]
        BY <1>4, <4>3
      <4> QED BY <4>4, <4>5
    <3> QED BY <3>1, <3>2
  <2> QED BY <1>5, <2>1
<1>8. ASSUME NEW n \in 1..Len(s)
      PROVE  /\ s[n].byte = a[at[n]].byte /\ s[n].token = a[at[n]].token
             /\ a[at[n]].children = <<>> => NextNode(s, n) = n + 1
  <2>1. CASE n = 1
    <3>1. ASSUME a[node].children = <<>> PROVE NextNode(s, 1) = 1 + 1
      <4>1. Len(parts) = 0
        BY <3>1, EmptySeq
      <4>2. Len(s) = 1 + o[0] /\ o[0] = 0
        BY <4>1 DEF Composed, Placed, Offsets
      <4> QED BY <1>1, <4>2
    <3> QED BY <1>5, <2>1, <3>1
  <2>2. CASE n # 1
    <3>1. n \in 2..Len(s)
      BY <1>1, <2>2
    <3>2. PICK i \in 1..c : \E j \in 1..Len(parts[i]) : n = Pos(o, i, j)
      BY <1>6, <3>1
    <3>3. PICK j \in 1..Len(parts[i]) : n = Pos(o, i, j)
      BY <3>2
    <3>4. at[n] = ats[i][j] /\ s[n] = parts[i][j]
      BY <1>4, <3>3
    <3>5. /\ parts[i][j].byte = a[ats[i][j]].byte /\ parts[i][j].token = a[ats[i][j]].token
          /\ a[ats[i][j]].children = <<>> => NextNode(parts[i], j) = j + 1
      BY <1>2 DEF Copies
    <3>6. NextNode(parts[i], j) = j + 1 => NextNode(s, n) = n + 1
      <4>1. /\ o[i - 1] \in Nat
            /\ NextNode(s, n) = 1 + o[i - 1] + NextNode(parts[i], j)
            /\ n = 1 + o[i - 1] + j
        BY <3>3, PosFacts
      <4>2. j \in Nat
        BY <1>1
      <4> DEFINE u == o[i - 1]
      <4>3. u \in Nat /\ n = 1 + u + j /\ (NextNode(parts[i], j) = j + 1 => NextNode(s, n) = 1 + u + (j + 1))
        BY <4>1
      <4> HIDE DEF u
      <4>4. 1 + u + (j + 1) = (1 + u + j) + 1
        BY <4>2, <4>3
      <4> QED BY <4>3, <4>4
    <3> QED BY <3>4, <3>5, <3>6
  <2> QED BY <2>1, <2>2
<1>9. ASSUME NEW m, NEW n \in 2..Len(s), IsParent(s, m, n)
      PROVE  \/ m = 1 /\ \E i \in 1..c : n = Pos(o, i, 1)
             \/ \E i \in 1..c : \E j, l \in 1..Len(parts[i]) :
                  m = Pos(o, i, j) /\ n = Pos(o, i, l) /\ IsParent(parts[i], j, l)
  <2>1. CASE m = 1
    <3>1. PICK i \in 1..c : \E j \in 1..Len(parts[i]) : n = Pos(o, i, j)
      BY <1>6
    <3>2. PICK j \in 1..Len(parts[i]) : n = Pos(o, i, j)
      BY <3>1
    <3>3. j = 1
      BY <1>9, <2>1, <3>2, ComposedParents
    <3> QED BY <2>1, <3>2, <3>3
  <2>2. CASE m # 1
    <3>1. m \in 1..(n - 1)
      BY <1>9 DEF IsParent
    <3>2. m \in 2..Len(s)
      BY <1>1, <2>2, <3>1
    <3>3. PICK i \in 1..c : \E j \in 1..Len(parts[i]) : m = Pos(o, i, j)
      BY <1>6, <3>2
    <3>4. PICK j \in 1..Len(parts[i]) : m = Pos(o, i, j)
      BY <3>3
    <3>5. PICK l \in 1..Len(parts[i]) : n = Pos(o, i, l)
      BY <1>9, <3>4, ComposedParents
    <3>6. IsParent(parts[i], j, l)
      BY <1>9, <3>4, <3>5, ComposedParents
    <3> QED BY <3>4, <3>5, <3>6
  <2> QED BY <2>1, <2>2
<1>10. ASSUME NEW i \in 1..c
       PROVE  1 \in 1..Len(parts[i]) /\ ChildOf(a, node, i, at[Pos(o, i, 1)])
  <2>1. 1 \in 1..Len(parts[i])
    BY <1>1
  <2>2. at[Pos(o, i, 1)] = a[node].children[i]
    BY <1>2, <1>4, <2>1
  <2> QED BY <1>1, <2>1, <2>2 DEF ChildOf
<1>11. ASSUME NEW m, NEW n \in 2..Len(s), IsParent(s, m, n)
       PROVE  \E i : ChildOf(a, at[m], i, at[n])
  <2>1. CASE m = 1 /\ \E i \in 1..c : n = Pos(o, i, 1)
    BY <1>5, <1>10, <2>1
  <2>2. CASE \E i \in 1..c : \E j, l \in 1..Len(parts[i]) :
                  m = Pos(o, i, j) /\ n = Pos(o, i, l) /\ IsParent(parts[i], j, l)
    <3>1. PICK i \in 1..c : \E j, l \in 1..Len(parts[i]) :
                  m = Pos(o, i, j) /\ n = Pos(o, i, l) /\ IsParent(parts[i], j, l)
      BY <2>2
    <3>2. PICK j \in 1..Len(parts[i]), l \in 1..Len(parts[i]) :
                  m = Pos(o, i, j) /\ n = Pos(o, i, l) /\ IsParent(parts[i], j, l)
      BY <3>1
    <3>3. l \in 2..Len(parts[i])
      <4>1. j \in 1..(l - 1)
        BY <3>2 DEF IsParent
      <4> QED BY <1>1, <4>1
    <3>4. \E k : ChildOf(a, ats[i][j], k, ats[i][l])
      BY <1>2, <3>2, <3>3 DEF Copies
    <3> QED BY <1>4, <3>2, <3>4
  <2> QED BY <1>9, <1>11, <2>1, <2>2
<1>12. ASSUME NEW m, NEW n \in 2..Len(s), NEW k \in 2..Len(s),
              IsParent(s, m, n), IsParent(s, m, k), n < k
       PROVE  at[n] < at[k]
  <2>1. CASE m = 1
    <3>1. ~\E i \in 1..c : \E j, l \in 1..Len(parts[i]) : m = Pos(o, i, j)
      BY <1>4, <2>1
    <3>2. PICK i \in 1..c : n = Pos(o, i, 1)
      BY <1>9, <1>12, <3>1
    <3>3. PICK j \in 1..c : k = Pos(o, j, 1)
      BY <1>9, <1>12, <3>1
    <3>4. i < j
      <4>1. i # j
        BY <1>1, <1>12, <3>2, <3>3
      <4>2. CASE j < i
        <5> DEFINE ui == o[i - 1]
                   uj == o[j - 1]
                   vj == Len(parts[j])
        <5>1. 1 \in 1..Len(parts[i]) /\ 1 \in 1..Len(parts[j])
          BY <1>10
        <5>2. /\ ui \in Nat /\ uj \in Nat /\ vj \in Nat \ {0}
              /\ uj + vj <= ui
              /\ Pos(o, i, 1) = 1 + ui + 1 /\ Pos(o, j, 1) = 1 + uj + 1
          <6>1. ui \in Nat /\ Pos(o, i, 1) = 1 + ui + 1
            BY <1>15, <5>1
          <6>2. uj \in Nat /\ o[j] = uj + vj /\ Pos(o, j, 1) = 1 + uj + 1
            BY <1>15, <5>1
          <6>3. o[j] <= ui
            BY <4>2, <5>1, PosFacts
          <6>4. vj \in Nat \ {0}
            BY <1>1
          <6> QED BY <6>1, <6>2, <6>3, <6>4
        <5> HIDE DEF ui, uj, vj
        <5>3. 1 + uj + 1 < 1 + ui + 1
          BY <5>2
        <5>4. 1 + ui + 1 < 1 + uj + 1
          BY <1>12, <3>2, <3>3, <5>2
        <5> QED BY <5>2, <5>3, <5>4
      <4> QED BY <1>1, <4>1, <4>2
    <3>5. ChildOf(a, node, i, at[n]) /\ ChildOf(a, node, j, at[k])
      BY <1>10, <3>2, <3>3
    <3>6. i \in 1..(j - 1) /\ a[node].children[i] = at[n]
      BY <1>1, <3>4, <3>5 DEF ChildOf
    <3> QED BY <3>5, <3>6 DEF ArenaOK
  <2>2. CASE m # 1
    <3>1. PICK i \in 1..c : \E j, l \in 1..Len(parts[i]) :
                  m = Pos(o, i, j) /\ n = Pos(o, i, l) /\ IsParent(parts[i], j, l)
      BY <1>9, <1>12, <2>2
    <3>2. PICK j \in 1..Len(parts[i]), l \in 1..Len(parts[i]) :
                  m = Pos(o, i, j) /\ n = Pos(o, i, l) /\ IsParent(parts[i], j, l)
      BY <3>1
    <3>3. PICK h \in 1..Len(parts[i]) : k = Pos(o, i, h)
      BY <1>12, <3>2, ComposedParents
    <3>4. IsParent(parts[i], j, h)
      BY <1>12, <3>2, <3>3, ComposedParents
    <3>5. l < h
      BY <1>12, <3>2, <3>3, PosWithin
    <3>6. l \in 2..Len(parts[i]) /\ h \in 2..Len(parts[i])
      <4>1. j \in 1..(l - 1) /\ j \in 1..(h - 1)
        BY <3>2, <3>4 DEF IsParent
      <4> QED BY <1>1, <4>1
    <3>7. ats[i][l] < ats[i][h]
      BY <1>2, <3>2, <3>4, <3>5, <3>6 DEF Copies
    <3> QED BY <1>4, <3>2, <3>3, <3>7
  <2> QED BY <2>1, <2>2
<1>13. ASSUME NEW m \in 1..Len(s), NEW k, NEW y, ChildOf(a, at[m], k, y)
       PROVE  \E n \in 2..Len(s) : IsParent(s, m, n) /\ at[n] = y
  <2>1. CASE m = 1
    <3>1. k \in 1..c /\ a[node].children[k] = y
      BY <1>1, <1>5, <1>13, <2>1 DEF ChildOf
    <3>2. 1 \in 1..Len(parts[k]) /\ Pos(o, k, 1) \in 2..Len(s) /\ at[Pos(o, k, 1)] = y
      BY <1>2, <1>4, <1>10, <3>1
    <3>3. IsParent(s, 1, Pos(o, k, 1))
      BY <3>1, ComposedParents
    <3> QED BY <2>1, <3>2, <3>3
  <2>2. CASE m # 1
    <3>1. m \in 2..Len(s)
      BY <1>1, <2>2
    <3>2. PICK i \in 1..c : \E j \in 1..Len(parts[i]) : m = Pos(o, i, j)
      BY <1>6, <3>1
    <3>3. PICK j \in 1..Len(parts[i]) : m = Pos(o, i, j)
      BY <3>2
    <3>4. ChildOf(a, ats[i][j], k, y)
      BY <1>4, <1>13, <3>3
    <3>5. PICK n \in 2..Len(parts[i]) : IsParent(parts[i], j, n) /\ ats[i][n] = y
      <4>1. \A l \in 1..Len(parts[i]) : \A h, x :
              ChildOf(a, ats[i][l], h, x)
                => \E n \in 2..Len(parts[i]) : IsParent(parts[i], l, n) /\ ats[i][n] = x
        <5>1. Copies(parts[i], a, ats[i])
          BY <1>2
        <5> QED BY <5>1 DEF Copies
      <4> QED BY <3>4, <4>1
    <3>6. n \in 1..Len(parts[i])
      BY <1>1
    <3>7. IsParent(s, m, Pos(o, i, n))
      BY <3>3, <3>5, <3>6, ComposedParents
    <3> QED BY <1>4, <3>5, <3>6, <3>7
  <2> QED BY <2>1, <2>2
<1>14. Copies(s, a, at)
  BY <1>7, <1>8, <1>11, <1>12, <1>13 DEF Copies
<1> QED BY <1>5, <1>14 DEF CopyOf

(* The layout of a node, where f has those of its children.                 *)
KidsOf(a, f, node, n) ==
  [i \in 1..Len(a[node].children) |->
     f[a[node].children[i]][IF i = Len(a[node].children) THEN n + 1 ELSE 1]]
NodeOf(a, node, n, below) ==
  [byte |-> a[node].byte, token |-> a[node].token,
   num_parents |-> Max({1, n}), subtree_size |-> 1 + Len(below)]
LayoutFrom(a, node, n, parts) ==
  <<NodeOf(a, node, n, FlattenSeq(parts))>> \o FlattenSeq(parts)
LayoutOf(a, f, node, n) == LayoutFrom(a, node, n, KidsOf(a, f, node, n))
Layouts(f, a) == f = [node \in DOMAIN a |-> [n \in Nat |-> LayoutOf(a, f, node, n)]]

(* A walk leaves at least the node itself.                                  *)
LEMMA MaxWithOne ==
  ASSUME NEW n \in Nat
  PROVE  Max({1, n}) = IF n = 0 THEN 1 ELSE n
<1>1. \E x \in {1, n} : \A y \in {1, n} : x >= y
  OBVIOUS
<1>2. Max({1, n}) \in {1, n} /\ \A y \in {1, n} : Max({1, n}) >= y
  BY <1>1, Zenon DEF Max
<1> QED BY <1>2

(* It is a node followed by the parts.                                      *)
LEMMA LayoutFromFacts ==
  ASSUME NEW a, ArenaOK(a), NEW node \in 1..Len(a), NEW n \in Nat,
         NEW parts \in Seq(Seq(TrieNode)),
         NEW s, s = LayoutFrom(a, node, n, parts)
  PROVE  /\ s \in Seq(TrieNode)
         /\ s[1].byte = a[node].byte /\ s[1].token = a[node].token
         /\ s[1].num_parents = IF n = 0 THEN 1 ELSE n
         /\ (\A i \in 1..Len(parts) : Nested(parts[i])) => \E o : Composed(s, parts, o)
<1> DEFINE below == FlattenSeq(parts)
           first == NodeOf(a, node, n, below)
<1>1. PICK o : Offsets(o, parts) /\ Segmented(below, o, parts)
  BY Segments
<1>2. below \in Seq(TrieNode) /\ Len(below) \in Nat
  BY Segments, LenProperties
<1>3. Max({1, n}) \in Nat /\ Max({1, n}) = IF n = 0 THEN 1 ELSE n
  BY MaxWithOne
<1>4. a[node].byte \in Nat /\ a[node].token \in Nat
  BY ArenaFacts
<1> HIDE DEF below
<1>5. /\ first \in TrieNode /\ first.byte = a[node].byte /\ first.token = a[node].token
      /\ first.num_parents = Max({1, n}) /\ first.subtree_size = 1 + Len(below)
  BY <1>2, <1>3, <1>4 DEF NodeOf, TrieNode
<1> HIDE DEF first
<1>6. s = <<first>> \o below
  BY DEF LayoutFrom, first, below
<1>7. <<first>> \in Seq(TrieNode) /\ Len(<<first>>) = 1 /\ <<first>>[1] = first
  BY <1>5
<1>8. /\ s \in Seq(TrieNode) /\ Len(s) = 1 + Len(below) /\ s[1] = first
      /\ \A q \in 1..Len(below) : s[1 + q] = below[q]
  <2> DEFINE one == <<first>>
  <2>1. one \in Seq(TrieNode) /\ Len(one) = 1 /\ one[1] = first
    BY <1>7
  <2> HIDE DEF one
  <2>2. /\ one \o below \in Seq(TrieNode) /\ Len(one \o below) = Len(one) + Len(below)
        /\ \A q \in 1..(Len(one) + Len(below)) :
             (one \o below)[q] = IF q <= Len(one) THEN one[q] ELSE below[q - Len(one)]
    BY <1>2, <2>1, ConcatProperties
  <2>3. s = one \o below
    BY <1>6 DEF one
  <2>4. 1 \in 1..(1 + Len(below)) /\ 1 <= 1
    BY <1>2
  <2>5. ASSUME NEW q \in 1..Len(below)
        PROVE  1 + q \in 1..(1 + Len(below)) /\ ~(1 + q <= 1) /\ (1 + q) - 1 = q
    BY <1>2
  <2>6. ASSUME NEW q \in 1..Len(below) PROVE s[1 + q] = below[q]
    BY <2>1, <2>2, <2>3, <2>5
  <2> QED BY <2>1, <2>2, <2>3, <2>4, <2>6
<1>9. NextNode(s, 1) = Len(s) + 1
  <2>1. s[1].subtree_size = Len(s)
    BY <1>5, <1>8
  <2> QED BY <1>2, <1>8, <2>1 DEF NextNode
<1>10. Placed(s, parts, o)
  <2>1. Len(s) = 1 + o[Len(parts)]
    BY <1>1, <1>8 DEF Segmented
  <2>2. ASSUME NEW i \in 1..Len(parts), NEW j \in 1..Len(parts[i])
        PROVE  Pos(o, i, j) \in 2..Len(s) /\ s[Pos(o, i, j)] = parts[i][j]
    <3> DEFINE q == o[i - 1] + j
    <3>1. q \in 1..Len(below) /\ below[q] = parts[i][j]
      BY <1>1 DEF Segmented
    <3>2. Pos(o, i, j) = 1 + q
      <4>1. o[i - 1] \in Nat
        <5>1. Len(parts) \in Nat
          BY LenProperties
        <5>2. i - 1 \in 0..Len(parts)
          BY <5>1
        <5> QED BY <1>1, <5>2 DEF Offsets
      <4>2. Len(parts[i]) \in Nat
        BY ElementOfSeq, LenProperties
      <4>3. j \in Nat
        BY <4>2
      <4> DEFINE u == o[i - 1]
      <4>4. u \in Nat
        BY <4>1
      <4> HIDE DEF u
      <4>5. 1 + u + j = 1 + (u + j)
        BY <4>3, <4>4
      <4> QED BY <4>5 DEF Pos, u
    <3> HIDE DEF q
    <3> QED BY <1>2, <1>8, <3>1, <3>2
  <2>3. ASSUME NEW q \in 2..Len(s)
        PROVE  \E i \in 1..Len(parts) : \E j \in 1..Len(parts[i]) : q = Pos(o, i, j)
    <3> DEFINE r == q - 1
    <3>1. r \in 1..Len(below) /\ q = 1 + r
      BY <1>2, <1>8
    <3>2. PICK i \in 1..Len(parts) : \E j \in 1..Len(parts[i]) : r = o[i - 1] + j
      BY <1>1, <3>1 DEF Segmented
    <3>3. PICK j \in 1..Len(parts[i]) : r = o[i - 1] + j
      BY <3>2
    <3>4. q = Pos(o, i, j)
      <4>1. o[i - 1] \in Nat
        <5>1. Len(parts) \in Nat
          BY LenProperties
        <5>2. i - 1 \in 0..Len(parts)
          BY <5>1
        <5> QED BY <1>1, <5>2 DEF Offsets
      <4>2. Len(parts[i]) \in Nat
        BY ElementOfSeq, LenProperties
      <4>3. j \in Nat
        BY <4>2
      <4> DEFINE u == o[i - 1]
      <4>4. u \in Nat /\ r = u + j
        BY <3>3, <4>1
      <4> HIDE DEF u, r
      <4>5. q = 1 + u + j
        BY <3>1, <4>3, <4>4
      <4> QED BY <4>5 DEF Pos, u
    <3> QED BY <3>4
  <2> QED BY <2>1, <2>2, <2>3 DEF Placed
<1>11. (\A i \in 1..Len(parts) : Nested(parts[i])) => Composed(s, parts, o)
  BY <1>1, <1>8, <1>9, <1>10 DEF Composed
<1> QED BY <1>3, <1>5, <1>8, <1>11

(* Laid out, a node and those below it have their shape and their bytes.    *)
Laid(s, a, node, k) == Shaped(s, k) /\ CopyOf(s, a, node)

(* A node's layout is right, if those of its children are.                  *)
LEMMA LayoutLaid ==
  ASSUME NEW a, ArenaOK(a), NEW node \in 1..Len(a), NEW n \in Nat,
         NEW parts \in Seq(Seq(TrieNode)), Len(parts) = Len(a[node].children),
         \A i \in 1..Len(parts) :
           Laid(parts[i], a, a[node].children[i], PopsOf(n, i, Len(parts)))
  PROVE  Laid(LayoutFrom(a, node, n, parts), a, node, n)
<1> DEFINE s == LayoutFrom(a, node, n, parts)
<1>1. \A i \in 1..Len(parts) : Nested(parts[i])
  BY DEF Laid, Shaped
<1>2. /\ s[1].byte = a[node].byte /\ s[1].token = a[node].token
      /\ s[1].num_parents = (IF n = 0 THEN 1 ELSE n)
      /\ \E o : Composed(s, parts, o)
  <2>1. s = LayoutFrom(a, node, n, parts)
    OBVIOUS
  <2> HIDE DEF s
  <2>2. /\ s[1].byte = a[node].byte /\ s[1].token = a[node].token
        /\ s[1].num_parents = (IF n = 0 THEN 1 ELSE n)
        /\ (\A i \in 1..Len(parts) : Nested(parts[i])) => \E o : Composed(s, parts, o)
    <3>1. s[1].byte = a[node].byte
      BY <2>1, LayoutFromFacts
    <3>2. s[1].token = a[node].token
      BY <2>1, LayoutFromFacts
    <3>3. s[1].num_parents = (IF n = 0 THEN 1 ELSE n)
      BY <2>1, LayoutFromFacts
    <3>4. (\A i \in 1..Len(parts) : Nested(parts[i])) => \E o : Composed(s, parts, o)
      BY <2>1, LayoutFromFacts
    <3> QED BY <3>1, <3>2, <3>3, <3>4
  <2> QED BY <1>1, <2>2
<1>3. PICK o : Composed(s, parts, o)
  BY <1>2
<1> HIDE DEF s
<1>4. \A i \in 1..Len(parts) : Shaped(parts[i], PopsOf(n, i, Len(parts)))
  BY DEF Laid
<1>5. \A i \in 1..Len(parts) : CopyOf(parts[i], a, a[node].children[i])
  BY DEF Laid
<1>6. Shaped(s, n)
  BY <1>2, <1>3, <1>4, ComposedShaped
<1>7. CopyOf(s, a, node)
  BY <1>2, <1>3, <1>5, ComposedCopies
<1> QED BY <1>6, <1>7 DEF Laid, s

(* The children's layouts.                                                  *)
LEMMA KidsFacts ==
  ASSUME NEW a, ArenaOK(a), NEW node \in 1..Len(a), NEW n \in Nat,
         NEW f, \A y \in (node + 1)..Len(a) : \A k \in Nat : f[y][k] \in Seq(TrieNode)
  PROVE  /\ KidsOf(a, f, node, n) \in Seq(Seq(TrieNode))
         /\ Len(KidsOf(a, f, node, n)) = Len(a[node].children)
         /\ \A i \in 1..Len(a[node].children) :
              /\ a[node].children[i] \in (node + 1)..Len(a)
              /\ PopsOf(n, i, Len(a[node].children)) \in Nat
              /\ KidsOf(a, f, node, n)[i]
                   = f[a[node].children[i]][PopsOf(n, i, Len(a[node].children))]
<1> DEFINE c == Len(a[node].children)
           kids == [i \in 1..c |-> f[a[node].children[i]][PopsOf(n, i, c)]]
<1>1. c \in Nat
  BY ArenaFacts
<1>2. KidsOf(a, f, node, n) = kids
  BY DEF KidsOf, PopsOf
<1>3. ASSUME NEW i \in 1..c PROVE a[node].children[i] \in (node + 1)..Len(a)
  <2>1. ChildOf(a, node, i, a[node].children[i])
    BY DEF ChildOf
  <2> QED BY <2>1 DEF ArenaOK
<1>4. \A i \in 1..c : PopsOf(n, i, c) \in Nat
  BY DEF PopsOf
<1> HIDE DEF c
<1>5. \A i \in 1..c : f[a[node].children[i]][PopsOf(n, i, c)] \in Seq(TrieNode)
  BY <1>3, <1>4
<1>6. kids \in [1..c -> Seq(TrieNode)]
  BY <1>5
<1>7. \A i \in 1..c : kids[i] = f[a[node].children[i]][PopsOf(n, i, c)]
  OBVIOUS
<1> HIDE DEF kids
<1>8. kids \in Seq(Seq(TrieNode)) /\ Len(kids) = c
  BY <1>1, <1>6, FunctionIsSequence
<1> QED BY <1>2, <1>3, <1>4, <1>7, <1>8 DEF c

(* There is a layout of all nodes: children come after their parents.       *)
LEMMA LayoutsExist ==
  ASSUME NEW a, ArenaOK(a)
  PROVE  \E f \in [1..Len(a) -> [Nat -> Seq(TrieNode)]] : Layouts(f, a)
<1> DEFINE N == Len(a)
           X == [1..N -> [Nat -> Seq(TrieNode)]]
           D(f) == [node \in 1..N |-> [n \in Nat |-> LayoutOf(a, f, node, n)]]
           base == [node \in 1..N |-> [n \in Nat |-> <<>>]]
<1>1. N \in Nat \ {0} /\ DOMAIN a = 1..N
  BY ArenaFacts
<1>2. ASSUME NEW f \in X, NEW node \in 1..N, NEW n \in Nat
      PROVE  LayoutOf(a, f, node, n) \in Seq(TrieNode)
  <2>1. \A y \in (node + 1)..Len(a) : \A k \in Nat : f[y][k] \in Seq(TrieNode)
    <3>1. \A y \in (node + 1)..Len(a) : y \in 1..N
      OBVIOUS
    <3> QED BY <3>1
  <2> HIDE DEF N
  <2>2. KidsOf(a, f, node, n) \in Seq(Seq(TrieNode))
    BY <2>1, KidsFacts DEF N
  <2>3. LayoutFrom(a, node, n, KidsOf(a, f, node, n)) \in Seq(TrieNode)
    BY <2>2, LayoutFromFacts DEF N
  <2> QED BY <2>3 DEF LayoutOf
<1>3. \A f \in X : D(f) \in X
  <2> HIDE DEF N
  <2> QED BY <1>2
<1>4. base \in X
  <2>1. <<>> \in Seq(TrieNode)
    BY EmptySeq
  <2> QED BY <2>1
<1> DEFINE F == [k \in 1..(N + 1) |-> [f \in X |-> D(f)]]
<1>5. F \in [1..(N + 1) -> [X -> X]]
  <2> HIDE DEF D, X, N
  <2> QED BY <1>3
<1>6. \A k \in 1..(N + 1) : \A f \in X : F[k][f] = D(f)
  <2> HIDE DEF D, X, N
  <2> QED OBVIOUS
<1>7. \A f \in X : \A node \in 1..N : D(f)[node] = [n \in Nat |-> LayoutOf(a, f, node, n)]
  OBVIOUS
<1> HIDE DEF F, base, X, D
<1>8. PICK g \in [0..(N + 1) -> X] : Iterated(g, N + 1, base, F)
  <2>1. N + 1 \in Nat
    BY <1>1
  <2> QED BY <1>4, <1>5, <2>1, Iterates
<1>9. \A k \in 0..N : g[k] \in X /\ g[k + 1] \in X /\ g[k + 1] = D(g[k])
  <2> SUFFICES ASSUME NEW k \in 0..N PROVE g[k] \in X /\ g[k + 1] \in X /\ g[k + 1] = D(g[k])
    OBVIOUS
  <2>1. k \in 0..(N + 1) /\ k + 1 \in 0..(N + 1) /\ k + 1 \in 1..(N + 1) /\ (k + 1) - 1 = k
    BY <1>1
  <2>2. g[k + 1] = F[k + 1][g[k]]
    BY <1>8, <2>1 DEF Iterated
  <2> QED BY <1>6, <1>8, <2>1, <2>2
<1> DEFINE S == {k \in Nat : \A node \in 1..N : node > N - k => g[k][node] = g[k + 1][node]}
<1>10. 0 \in S
  BY <1>1
<1>11. ASSUME NEW k \in 0..(N - 1), k \in S PROVE k + 1 \in S
  <2>1. k \in 0..N /\ k + 1 \in 0..N /\ k + 1 \in Nat
    BY <1>1
  <2>2. ASSUME NEW node \in 1..N, node > N - (k + 1)
        PROVE  g[k + 1][node] = g[(k + 1) + 1][node]
    <3>1. /\ g[k] \in X /\ g[k + 1] \in X
          /\ g[k + 1] = D(g[k]) /\ g[(k + 1) + 1] = D(g[k + 1])
      BY <1>9, <2>1
    <3>2. ASSUME NEW i \in 1..Len(a[node].children)
          PROVE  g[k][a[node].children[i]] = g[k + 1][a[node].children[i]]
      <4>1. a[node].children[i] \in (node + 1)..Len(a)
        <5>1. ChildOf(a, node, i, a[node].children[i])
          BY DEF ChildOf
        <5> QED BY <5>1 DEF ArenaOK
      <4>2. a[node].children[i] \in 1..N /\ a[node].children[i] > N - k
        BY <1>1, <2>1, <2>2, <4>1
      <4> QED BY <1>11, <4>2
    <3>3. \A n \in Nat : KidsOf(a, g[k], node, n) = KidsOf(a, g[k + 1], node, n)
      <4> HIDE DEF S, N
      <4> QED BY <3>2 DEF KidsOf
    <3>4. \A n \in Nat : LayoutOf(a, g[k], node, n) = LayoutOf(a, g[k + 1], node, n)
      BY <3>3 DEF LayoutOf
    <3> HIDE DEF S, N
    <3>5. D(g[k])[node] = D(g[k + 1])[node]
      <4>1. [n \in Nat |-> LayoutOf(a, g[k], node, n)] = [n \in Nat |-> LayoutOf(a, g[k + 1], node, n)]
        BY <3>4
      <4>2. D(g[k])[node] = [n \in Nat |-> LayoutOf(a, g[k], node, n)]
        BY <1>7, <3>1
      <4>3. D(g[k + 1])[node] = [n \in Nat |-> LayoutOf(a, g[k + 1], node, n)]
        BY <1>7, <3>1
      <4> QED BY <4>1, <4>2, <4>3
    <3> QED BY <3>1, <3>5
  <2> QED BY <2>1, <2>2
<1>12. \A node \in 1..N : g[N][node] = g[N + 1][node]
  <2> HIDE DEF S
  <2>1. N \in 0..N /\ \A node \in 1..N : node > N - N
    BY <1>1
  <2>2. N \in S
    <3> HIDE DEF N
    <3> QED BY <1>1, <1>10, <1>11, <2>1, UpTo
  <2> QED BY <2>1, <2>2 DEF S
<1> DEFINE f == g[N]
<1>13. f \in X /\ f = D(f)
  <2>1. N \in 0..N
    BY <1>1
  <2>2. g[N] \in X /\ g[N + 1] \in X /\ g[N + 1] = D(g[N])
    BY <1>9, <2>1
  <2> HIDE DEF N
  <2>3. g[N] = g[N + 1]
    <3> DEFINE u == g[N]
               v == g[N + 1]
    <3>1. u \in [1..N -> [Nat -> Seq(TrieNode)]] /\ v \in [1..N -> [Nat -> Seq(TrieNode)]]
      BY <2>2 DEF X
    <3>2. \A x \in 1..N : u[x] = v[x]
      BY <1>12
    <3> HIDE DEF u, v
    <3>3. u = [x \in 1..N |-> u[x]] /\ v = [x \in 1..N |-> v[x]]
      BY <3>1
    <3>4. [x \in 1..N |-> u[x]] = [x \in 1..N |-> v[x]]
      BY <3>2
    <3>5. u = v
      BY <3>3, <3>4, Zenon
    <3> QED BY <3>5 DEF u, v
  <2> QED BY <2>2, <2>3
<1> HIDE DEF f
<1>14. Layouts(f, a)
  <2>1. f = [node \in 1..N |-> [n \in Nat |-> LayoutOf(a, f, node, n)]]
    BY <1>13 DEF D
  <2> HIDE DEF N
  <2> QED BY <1>1, <2>1 DEF Layouts
<1> QED BY <1>13, <1>14 DEF X

(* In a layout of all nodes, each is laid out.                              *)
LEMMA LayoutsLaid ==
  ASSUME NEW a, ArenaOK(a), NEW f, Layouts(f, a), NEW node \in 1..Len(a), NEW n \in Nat
  PROVE  Laid(f[node][n], a, node, n)
<1> DEFINE N == Len(a)
           S == {k \in Nat : \A x \in 1..N : x > N - k => \A m \in Nat : Laid(f[x][m], a, x, m)}
<1>1. N \in Nat \ {0} /\ DOMAIN a = 1..N
  BY ArenaFacts
<1>2. 0 \in S
  BY <1>1
<1>3. \A x \in 1..N : \A m \in Nat : f[x][m] = LayoutOf(a, f, x, m)
  <2> DEFINE r == [x \in 1..N |-> [m \in Nat |-> LayoutOf(a, f, x, m)]]
  <2>1. f = r
    BY <1>1 DEF Layouts
  <2>2. \A x \in 1..N : r[x] = [m \in Nat |-> LayoutOf(a, f, x, m)]
    OBVIOUS
  <2> HIDE DEF N, r
  <2>3. \A x \in 1..N : f[x] = [m \in Nat |-> LayoutOf(a, f, x, m)]
    BY <2>1, <2>2
  <2> QED BY <2>3
<1>4. ASSUME NEW k \in 0..(N - 1), k \in S PROVE k + 1 \in S
  <2>1. k + 1 \in Nat
    OBVIOUS
  <2>2. ASSUME NEW x \in 1..N, x > N - (k + 1), NEW m \in Nat PROVE Laid(f[x][m], a, x, m)
    <3>1. \A y \in (x + 1)..N : y \in 1..N /\ y > N - k
      BY <1>1, <2>2
    <3>2. \A y \in (x + 1)..N : \A h \in Nat : Laid(f[y][h], a, y, h)
      BY <1>4, <3>1
    <3> DEFINE parts == KidsOf(a, f, x, m)
               c == Len(a[x].children)
    <3> HIDE DEF S
    <3>3. \A y \in (x + 1)..N : \A h \in Nat : f[y][h] \in Seq(TrieNode)
      BY <3>2 DEF Laid, Shaped, Nested
    <3>4. /\ parts \in Seq(Seq(TrieNode)) /\ Len(parts) = c
          /\ \A i \in 1..c : /\ a[x].children[i] \in (x + 1)..N
                             /\ PopsOf(m, i, c) \in Nat
                             /\ parts[i] = f[a[x].children[i]][PopsOf(m, i, c)]
      BY <3>3, KidsFacts
    <3> HIDE DEF parts, c
    <3>5. \A i \in 1..c : Laid(parts[i], a, a[x].children[i], PopsOf(m, i, c))
      BY <3>2, <3>4
    <3>6. Laid(LayoutFrom(a, x, m, parts), a, x, m)
      BY <3>4, <3>5, LayoutLaid DEF c
    <3> QED BY <1>3, <3>6 DEF LayoutOf, parts
  <2> QED BY <2>1, <2>2
<1> HIDE DEF S
<1>5. N \in S
  <2>1. N \in 0..N
    BY <1>1
  <2> HIDE DEF N
  <2> QED BY <1>1, <1>2, <1>4, <2>1, UpTo
<1>6. node > N - N
  BY <1>1
<1> QED BY <1>5, <1>6 DEF S

(* The trie of an arena is laid out.                                        *)
LEMMA SerializeLaid ==
  ASSUME NEW a, ArenaOK(a)
  PROVE  Laid(SerializeNode(a, 1, 0), a, 1, 0)
<1> DEFINE P(g) == g = [node \in DOMAIN a |-> [n \in Nat |->
                          LET children == a[node].children
                              below == FlattenSeq([i \in 1..Len(children) |->
                                         g[children[i]][IF i = Len(children) THEN n + 1 ELSE 1]])
                          IN <<[byte |-> a[node].byte, token |-> a[node].token,
                                num_parents |-> Max({1, n}),
                                subtree_size |-> 1 + Len(below)]>> \o below]]
           f == CHOOSE g : P(g)
<1>1. SerializeNode(a, 1, 0) = f[1][0]
  BY Zenon DEF SerializeNode
<1>2. \A g : P(g) <=> Layouts(g, a)
  BY DEF Layouts, LayoutOf, LayoutFrom, KidsOf, NodeOf
<1> HIDE DEF P
<1>3. \E g : P(g)
  BY <1>2, LayoutsExist
<1>4. P(f)
  BY <1>3, Zenon
<1> HIDE DEF f
<1>5. 1 \in 1..Len(a) /\ 0 \in Nat
  BY ArenaFacts
<1> QED BY <1>1, <1>2, <1>4, <1>5, LayoutsLaid

-----------------------------------------------------------------------------
(* The trie of a mask.                                                      *)

(* The text of a node, of the root too.                                     *)
TextOf(nodes, n) == IF n = 1 THEN <<>> ELSE TextFrom(nodes, 1, n)

(* Its nodes have the tokens of W, with their texts, and of the children    *)
(* with the same byte only the first has a subtree.                         *)
TrieOf(nodes, W) ==
  /\ Preorder(nodes) /\ nodes \in Seq(TrieNode)
  /\ \A n \in 2..Len(nodes) : IsToken(nodes[n]) => <<nodes[n].token, TextOf(nodes, n)>> \in W
  /\ \A e \in W : \E n \in 2..Len(nodes) :
       IsToken(nodes[n]) /\ e = <<nodes[n].token, TextOf(nodes, n)>>
  /\ \A c, d \in 2..Len(nodes) :
       c < d /\ Parent(nodes, c) = Parent(nodes, d) /\ nodes[c].byte = nodes[d].byte
         => nodes[d].subtree_size = 1

(* What is laid out is a trie.                                              *)
LEMMA ParentByLast ==
  ASSUME NEW s, Nested(s), NEW n \in 2..Len(s), NEW m, IsParent(s, m, n)
  PROVE  Parent(s, n) = m /\ m \in 1..(n - 1)
<1> DEFINE T == {q \in 1..(n - 1) : NextNode(s, q) > n}
<1>1. \A q \in 1..(n - 1) : NextNode(s, q) \in Nat
  <2>1. Len(s) \in Nat /\ \A q \in 1..Len(s) : NextNode(s, q) \in (q + 1)..(Len(s) + 1)
    BY DEF Nested
  <2> QED BY <2>1
<1>2. /\ m \in 1..(n - 1) /\ NextNode(s, m) > n
      /\ \A q \in (m + 1)..(n - 1) : NextNode(s, q) <= n
  BY DEF IsParent
<1>3. m \in T
  BY <1>2
<1>4. \A q \in T : m >= q
  BY <1>1, <1>2
<1>5. \A q \in T : q \in Nat
  OBVIOUS
<1>6. Parent(s, n) = Max(T)
  BY DEF Parent
<1> HIDE DEF T
<1>7. Max(T) \in T /\ \A q \in T : Max(T) >= q
  BY <1>3, <1>4, Zenon DEF Max
<1> DEFINE x == Parent(s, n)
<1>8. x \in Nat /\ m \in Nat /\ m >= x /\ x >= m
  BY <1>3, <1>4, <1>5, <1>6, <1>7
<1> HIDE DEF x
<1>9. x = m
  BY <1>8
<1> QED BY <1>2, <1>9 DEF x

(* A layout with its counts is a preorder trie.                             *)
LEMMA ShapedPreorder ==
  ASSUME NEW s, Shaped(s, 0), FakeToken \in Nat,
         \A n \in 1..Len(s) : s[n].token # FakeToken
  PROVE  Preorder(s)
<1>1. /\ s \in Seq(TrieNode) /\ Len(s) \in Nat \ {0}
      /\ NextNode(s, 1) = Len(s) + 1
      /\ \A n \in 1..Len(s) : NextNode(s, n) \in (n + 1)..(Len(s) + 1)
      /\ \A m, n \in 1..Len(s) : m < n /\ n < NextNode(s, m) => NextNode(s, n) <= NextNode(s, m)
  BY DEF Shaped, Nested
<1>2. DOMAIN s = 1..Len(s) /\ \A n \in 1..Len(s) : s[n] \in TrieNode
  BY <1>1, LenProperties, ElementOfSeq
<1>3. s # <<>>
  BY <1>1, EmptySeq
<1>4. s \in Seq(Range(s))
  <2>1. s = [n \in 1..Len(s) |-> s[n]] /\ \A n \in 1..Len(s) : s[n] \in Range(s)
    <3>1. s \in [1..Len(s) -> TrieNode]
      BY <1>1, LenProperties
    <3>2. \A n \in 1..Len(s) : s[n] \in Range(s)
      BY <1>2 DEF Range
    <3> QED BY <3>1, <3>2
  <2>2. s \in [1..Len(s) -> Range(s)]
    BY <2>1
  <2> QED BY <1>1, <2>2, FunctionIsSequence
<1>5. ASSUME NEW n \in DOMAIN s
      PROVE  /\ s[n].token \in Nat \ {FakeToken}
             /\ s[n].num_parents \in Nat /\ s[n].subtree_size \in Nat \ {0}
  <2>1. n \in 1..Len(s) /\ s[n].token \in Nat /\ s[n].num_parents \in Nat
        /\ s[n].subtree_size \in Nat
    BY <1>2 DEF TrieNode
  <2>2. NextNode(s, n) > n /\ NextNode(s, n) = n + s[n].subtree_size
    BY <1>1, <2>1 DEF NextNode
  <2>3. s[n].subtree_size # 0
    BY <1>1, <2>1, <2>2
  <2> QED BY <2>1, <2>3
<1>6. ASSUME NEW m \in DOMAIN s, NEW n \in (m + 1)..(NextNode(s, m) - 1)
      PROVE  NextNode(s, n) <= NextNode(s, m)
  <2>1. m \in 1..Len(s) /\ NextNode(s, m) \in (m + 1)..(Len(s) + 1)
    BY <1>1, <1>2
  <2>2. n \in 1..Len(s) /\ m < n /\ n < NextNode(s, m)
    BY <1>1, <2>1
  <2> QED BY <1>1, <2>1, <2>2
<1>7. ASSUME NEW n \in 2..Len(s)
      PROVE  s[n].num_parents =
               IF Parent(s, n) # 1 /\ NextNode(s, Parent(s, n)) = NextNode(s, n)
               THEN s[Parent(s, n)].num_parents + 1 ELSE 1
  <2>1. PICK m : IsParent(s, m, n) /\ Counts(s, 0, m, n)
    BY DEF Shaped
  <2>2. Parent(s, n) = m
    BY <2>1, ParentByLast DEF Shaped
  <2> QED BY <2>1, <2>2 DEF Counts
<1> QED BY <1>1, <1>3, <1>4, <1>5, <1>6, <1>7 DEF Preorder

(* The texts of its nodes are those of the arena's.                         *)
LEMMA CopiesTexts ==
  ASSUME NEW s, Shaped(s, 0), Preorder(s), NEW a, ArenaOK(a),
         NEW at, Copies(s, a, at), at[1] = 1, NEW text, Spells(a, text)
  PROVE  \A n \in 1..Len(s) : TextOf(s, n) = text[at[n]]
<1> DEFINE N == Len(s)
           S == {k \in Nat : \A n \in 1..N : n <= k + 1 => TextOf(s, n) = text[at[n]]}
<1>1. N \in Nat \ {0} /\ NextNode(s, 1) = N + 1
  BY Shape
<1>2. 0 \in S
  <2>1. TextOf(s, 1) = text[at[1]]
    BY DEF TextOf, Spells
  <2>2. \A n \in 1..N : n <= 0 + 1 => n = 1
    BY <1>1
  <2> QED BY <2>1, <2>2
<1>3. ASSUME NEW k \in 0..(N - 1), k \in S PROVE k + 1 \in S
  <2> SUFFICES ASSUME NEW n \in 1..N, n = (k + 1) + 1 PROVE TextOf(s, n) = text[at[n]]
    <3>1. \A n \in 1..N : n <= (k + 1) + 1 => n <= k + 1 \/ n = (k + 1) + 1
      BY <1>1
    <3> QED BY <1>3, <3>1
  <2>1. n \in 2..N /\ n # 1 /\ n \in Below(s, 1) /\ 1 \in 1..N
    BY <1>1 DEF Below
  <2>2. PICK m : IsParent(s, m, n)
    BY <2>1 DEF Shaped
  <2>3. Parent(s, n) = m /\ m \in 1..(n - 1)
    BY <2>1, <2>2, ParentByLast DEF Shaped
  <2>4. TextOf(s, m) = text[at[m]]
    <3>1. m \in 1..N /\ m <= k + 1
      BY <1>1, <2>1, <2>3
    <3> QED BY <1>3, <3>1
  <2>5. PathFrom(s, 1, n) = TextOf(s, m)
    <3>1. PathFrom(s, 1, n) = IF m = 1 THEN <<>> ELSE Append(PathFrom(s, 1, m), s[m].byte)
      BY <2>1, <2>3, PathIs
    <3> QED BY <3>1 DEF TextOf, TextFrom
  <2>6. TextOf(s, n) = Append(TextOf(s, m), s[n].byte)
    BY <2>1, <2>5 DEF TextOf, TextFrom
  <2>7. PICK i : ChildOf(a, at[m], i, at[n])
    BY <2>1, <2>2 DEF Copies
  <2>8. text[at[n]] = Append(text[at[m]], a[at[n]].byte)
    BY <2>7 DEF Spells
  <2>9. s[n].byte = a[at[n]].byte
    BY DEF Copies
  <2> QED BY <2>4, <2>6, <2>8, <2>9
<1> HIDE DEF S
<1>4. ASSUME NEW n \in 1..N PROVE TextOf(s, n) = text[at[n]]
  <2>1. N \in 0..N /\ n <= N + 1
    BY <1>1
  <2>2. N \in S
    <3> HIDE DEF N
    <3> QED BY <1>1, <1>2, <1>3, <2>1, UpTo
  <2> QED BY <2>1, <2>2 DEF S
<1> QED BY <1>4

(* It has all nodes of the arena.                                           *)
LEMMA CopiesAll ==
  ASSUME NEW s, Nested(s), NEW a, ArenaOK(a), NEW at, Copies(s, a, at), at[1] = 1,
         NEW y \in 1..Len(a)
  PROVE  \E n \in 1..Len(s) : at[n] = y
<1> DEFINE N == Len(a)
           S == {k \in Nat : \A x \in 1..N : x <= k + 1 => \E n \in 1..Len(s) : at[n] = x}
<1>1. N \in Nat \ {0} /\ Len(s) \in Nat \ {0}
  BY ArenaFacts DEF Nested
<1>2. 0 \in S
  <2>1. 1 \in 1..Len(s) /\ \A x \in 1..N : x <= 0 + 1 => x = 1
    BY <1>1
  <2> QED BY <2>1
<1>3. ASSUME NEW k \in 0..(N - 1), k \in S PROVE k + 1 \in S
  <2> SUFFICES ASSUME NEW x \in 1..N, x = (k + 1) + 1 PROVE \E n \in 1..Len(s) : at[n] = x
    <3>1. \A x \in 1..N : x <= (k + 1) + 1 => x <= k + 1 \/ x = (k + 1) + 1
      BY <1>1
    <3> QED BY <1>3, <3>1
  <2>1. x \in 2..N
    BY <1>1
  <2>2. PICK z, i : ChildOf(a, z, i, x)
    BY <2>1 DEF ArenaOK
  <2>3. z \in 1..N /\ z < x
    BY <2>2, ArenaFacts
  <2>4. PICK m \in 1..Len(s) : at[m] = z
    <3>1. z <= k + 1
      BY <1>1, <2>3
    <3> QED BY <1>3, <2>3, <3>1
  <2>5. PICK n \in 2..Len(s) : at[n] = x
    <3>1. \A m2 \in 1..Len(s) : \A i2, y2 :
            ChildOf(a, at[m2], i2, y2) => \E n \in 2..Len(s) : IsParent(s, m2, n) /\ at[n] = y2
      BY DEF Copies
    <3> QED BY <2>2, <2>4, <3>1
  <2>6. n \in 1..Len(s)
    BY <1>1
  <2> QED BY <2>5, <2>6
<1> HIDE DEF S
<1>4. N \in 0..N /\ y <= N + 1
  BY <1>1
<1>5. N \in S
  <2> HIDE DEF N
  <2> QED BY <1>1, <1>2, <1>3, <1>4, UpTo
<1> QED BY <1>4, <1>5 DEF S

(* The trie of the tokens in a mask holds exactly those, with their texts.  *)
LEMMA FilterTrie ==
  ASSUME NEW ws \in Seq(Seq(Nat)), NEW mask, FakeToken \in Nat, FakeToken > Len(ws)
  PROVE  TrieOf(Filter(ws, mask), TokensIn(ws, mask))
<1> DEFINE W == TokensIn(ws, mask)
           s == Filter(ws, mask)
<1>1. PICK a : ArenaOf(a, W) /\ s = SerializeNode(a, 1, 0)
  BY FilterArena
<1>2. ArenaOK(a)
  BY <1>1 DEF ArenaOf
<1>3. Shaped(s, 0) /\ CopyOf(s, a, 1)
  <2>1. Laid(SerializeNode(a, 1, 0), a, 1, 0)
    BY <1>2, SerializeLaid
  <2> QED BY <1>1, <2>1 DEF Laid
<1>4. PICK at : Copies(s, a, at) /\ at[1] = 1
  BY <1>3 DEF CopyOf
<1>5. PICK text : Spells(a, text) /\ HoldsTokens(a, text, W)
  BY <1>1 DEF ArenaOf
<1> HIDE DEF s
<1>6. Nested(s) /\ s \in Seq(TrieNode) /\ Len(s) \in Nat \ {0}
  BY <1>3 DEF Shaped, Nested
<1>7. at \in [1..Len(s) -> 1..Len(a)] /\ \A n \in 1..Len(s) : s[n].token = a[at[n]].token
  BY <1>4 DEF Copies
<1>8. \A e \in W : e[1] \in 1..Len(ws)
  BY DEF TokensIn, TextTokens
<1>9. Preorder(s)
  <2>1. ASSUME NEW n \in 1..Len(s) PROVE s[n].token # FakeToken
    <3>1. at[n] \in 1..Len(a) /\ s[n].token = a[at[n]].token
      BY <1>7
    <3>2. a[at[n]].token # 0 => <<a[at[n]].token, text[at[n]]>> \in W
      BY <1>5, <3>1 DEF HoldsTokens
    <3>3. Len(ws) \in Nat
      BY LenProperties
    <3>4. a[at[n]].token # 0 => a[at[n]].token \in 1..Len(ws)
      BY <1>8, <3>2
    <3> HIDE DEF W
    <3> QED BY <3>1, <3>3, <3>4
  <2> QED BY <1>3, <2>1, ShapedPreorder
<1>10. \A n \in 1..Len(s) : TextOf(s, n) = text[at[n]]
  BY <1>2, <1>3, <1>4, <1>5, <1>9, CopiesTexts
<1> HIDE DEF W
<1>11. ASSUME NEW n \in 2..Len(s), IsToken(s[n]) PROVE <<s[n].token, TextOf(s, n)>> \in W
  <2>1. n \in 1..Len(s)
    BY <1>6
  <2>2. at[n] \in 1..Len(a) /\ s[n].token = a[at[n]].token /\ TextOf(s, n) = text[at[n]]
    BY <1>7, <1>10, <2>1
  <2>3. a[at[n]].token # 0 => <<a[at[n]].token, text[at[n]]>> \in W
    BY <1>5, <2>2 DEF HoldsTokens
  <2> QED BY <1>11, <2>2, <2>3 DEF IsToken
<1>12. ASSUME NEW e \in W
       PROVE  \E n \in 2..Len(s) : IsToken(s[n]) /\ e = <<s[n].token, TextOf(s, n)>>
  <2>1. PICK y \in 2..Len(a) : a[y].token # 0 /\ e = <<a[y].token, text[y]>>
    BY <1>5 DEF HoldsTokens
  <2>2. y \in 1..Len(a) /\ y # 1
    <3>1. Len(a) \in Nat
      BY <1>2, ArenaFacts
    <3> QED BY <3>1
  <2>3. PICK n \in 1..Len(s) : at[n] = y
    BY <1>2, <1>4, <1>6, <2>2, CopiesAll
  <2>4. n \in 2..Len(s)
    BY <1>4, <1>6, <2>2, <2>3
  <2>5. s[n].token = a[y].token /\ TextOf(s, n) = text[y]
    BY <1>7, <1>10, <2>3
  <2> QED BY <2>1, <2>4, <2>5 DEF IsToken
<1>13. ASSUME NEW c \in 2..Len(s), NEW d \in 2..Len(s), c < d,
              Parent(s, c) = Parent(s, d), s[c].byte = s[d].byte
       PROVE  s[d].subtree_size = 1
  <2>1. PICK m : IsParent(s, m, c)
    BY <1>3 DEF Shaped
  <2>2. PICK m2 : IsParent(s, m2, d)
    BY <1>3 DEF Shaped
  <2>3. m2 = m
    BY <1>6, <1>13, <2>1, <2>2, ParentByLast
  <2>4. at[c] < at[d]
    BY <1>4, <1>13, <2>1, <2>2, <2>3 DEF Copies
  <2>5. PICK i : ChildOf(a, at[m], i, at[c])
    BY <1>4, <2>1 DEF Copies
  <2>6. PICK j : ChildOf(a, at[m], j, at[d])
    BY <1>4, <2>2, <2>3 DEF Copies
  <2>7. /\ i \in Nat \ {0} /\ j \in Nat \ {0}
        /\ at[c] \in Nat /\ at[d] \in Nat
    <3>1. at[c] \in 2..Len(a) /\ at[d] \in 2..Len(a) /\ i \in Nat \ {0} /\ j \in Nat \ {0}
          /\ Len(a) \in Nat
      BY <1>2, <2>5, <2>6, ArenaFacts
    <3> QED BY <3>1
  <2>8. a[at[m]].children[i] = at[c] /\ a[at[m]].children[j] = at[d]
    BY <2>5, <2>6 DEF ChildOf
  <2>9. i < j
    <3>1. i # j
      BY <2>4, <2>7, <2>8
    <3>2. ASSUME j < i PROVE FALSE
      <4>1. j \in 1..(i - 1)
        BY <2>7, <3>2
      <4>2. a[at[m]].children[j] < at[c]
        BY <1>2, <2>5, <4>1 DEF ArenaOK
      <4> QED BY <2>4, <2>7, <2>8, <4>2
    <3> QED BY <2>7, <3>1, <3>2
  <2>10. i \in 1..(j - 1)
    BY <2>7, <2>9
  <2>11. c \in 1..Len(s) /\ d \in 1..Len(s)
    BY <1>6
  <2>12. /\ s[c].byte = a[at[c]].byte /\ s[d].byte = a[at[d]].byte
         /\ a[at[d]].children = <<>> => NextNode(s, d) = d + 1
    BY <1>4, <2>11 DEF Copies
  <2>13. a[at[d]].children # <<>> =>
           \A h \in 1..(j - 1) : a[a[at[m]].children[h]].byte # a[at[d]].byte
    BY <1>2, <2>6 DEF ArenaOK
  <2>14. a[at[d]].children = <<>>
    BY <1>13, <2>8, <2>10, <2>12, <2>13
  <2>15. s[d].subtree_size \in Nat
    <3>1. s[d] \in TrieNode
      BY <1>6, <2>11, ElementOfSeq
    <3> QED BY <3>1 DEF TrieNode
  <2>16. d + s[d].subtree_size = d + 1
    BY <2>12, <2>14 DEF NextNode
  <2> QED BY <1>6, <2>15, <2>16
<1>14. TrieOf(s, W)
  BY <1>6, <1>9, <1>11, <1>12, <1>13 DEF TrieOf
<1> QED BY <1>14 DEF s, W

-----------------------------------------------------------------------------
(* A walk begins where the forced bytes end.                                *)

(* A sequence over a set is one over a larger set.                          *)
LEMMA WiderSeq ==
  ASSUME NEW A, NEW B, A \subseteq B, NEW s \in Seq(A)
  PROVE  s \in Seq(B)
<1>1. Len(s) \in Nat /\ s \in [1..Len(s) -> A]
  BY LenProperties
<1>2. s \in [1..Len(s) -> B]
  BY <1>1
<1> QED BY <1>1, <1>2, FunctionIsSequence

(* The lemmas on sequences, for sequences of numbers.                        *)
LEMMA NumbersAppended ==
  ASSUME NEW u \in Seq(Nat), NEW b \in Nat
  PROVE  /\ Append(u, b) \in Seq(Nat) /\ Len(Append(u, b)) = Len(u) + 1
         /\ \A k \in 1..Len(u) : Append(u, b)[k] = u[k]
         /\ Append(u, b)[Len(u) + 1] = b
BY AppendProperties

(* A byte after two texts.                                                  *)
LEMMA NumbersBeyond ==
  ASSUME NEW t \in Seq(Nat), NEW r \in Seq(Nat), NEW b \in Nat
  PROVE  Append(t \o r, b) = t \o Append(r, b)
<1> DEFINE z == <<b>>
<1>1. z \in Seq(Nat) /\ t \o r \in Seq(Nat)
  BY ConcatProperties
<1>2. Append(t \o r, b) = (t \o r) \o z /\ Append(r, b) = r \o z
  BY <1>1, AppendIsConcat
<1> HIDE DEF z
<1>3. (t \o r) \o z = t \o (r \o z)
  BY <1>1, ConcatThree
<1> QED BY <1>2, <1>3

(* The beginning of a text made of two.                                     *)
LEMMA NumbersFirst ==
  ASSUME NEW t, NEW x \in Seq(Nat), NEW y \in Seq(Nat), t = x \o y
  PROVE  SubSeq(t, 1, Len(x)) = x
BY CutOfConcat

(* A node's text goes on from that of a node it is below.                   *)
LEMMA TextsBelow ==
  ASSUME NEW nodes, Preorder(nodes), nodes \in Seq(TrieNode), NEW c \in 1..Len(nodes)
  PROVE  /\ TextOf(nodes, c) \in Seq(Nat)
         /\ \A n \in Below(nodes, c) :
              /\ n \in 2..Len(nodes) /\ TextFrom(nodes, c, n) \in Seq(Nat)
              /\ Len(TextFrom(nodes, c, n)) \in Nat \ {0}
              /\ TextOf(nodes, n) = TextOf(nodes, c) \o TextFrom(nodes, c, n)
<1> DEFINE N == Len(nodes)
<1>1. /\ N \in Nat \ {0} /\ NextNode(nodes, 1) = N + 1
      /\ \A n \in 1..N : NextNode(nodes, n) \in (n + 1)..(N + 1)
  BY Shape
<1>2. BytesOf(nodes) \subseteq Nat
  <2>1. \A n \in 1..N : nodes[n] \in TrieNode
    BY ElementOfSeq
  <2> QED BY <2>1 DEF BytesOf, TrieNode
<1>3. ASSUME NEW f \in 1..N, NEW n \in Below(nodes, f)
      PROVE  /\ n \in 2..N /\ Parent(nodes, n) \in f..(n - 1)
             /\ Parent(nodes, n) # f => Parent(nodes, n) \in Below(nodes, f)
             /\ TextFrom(nodes, f, n) \in Seq(Nat) /\ PathFrom(nodes, f, n) \in Seq(Nat)
             /\ Len(TextFrom(nodes, f, n)) \in Nat \ {0}
  <2>1. TextFrom(nodes, f, n) \in Seq(Nat) /\ PathFrom(nodes, f, n) \in Seq(Nat)
    BY <1>2, TextFacts, WiderSeq
  <2>2. Len(TextFrom(nodes, f, n)) \in Nat \ {0}
    BY TextFacts
  <2> QED BY <2>1, <2>2, ParentWithin
<1>4. \A n \in 2..N : n \in Below(nodes, 1)
  BY <1>1 DEF Below
<1>5. ASSUME NEW n \in 1..N PROVE TextOf(nodes, n) \in Seq(Nat)
  <2>1. CASE n = 1
    BY <2>1, EmptySeq DEF TextOf
  <2>2. CASE n # 1
    <3>1. n \in 2..N /\ 1 \in 1..N
      BY <1>1, <2>2
    <3> QED BY <1>3, <1>4, <2>2, <3>1 DEF TextOf
  <2> QED BY <2>1, <2>2
<1> DEFINE S == {k \in Nat : \A n \in Below(nodes, c) : n <= c + k =>
                   TextOf(nodes, n) = TextOf(nodes, c) \o TextFrom(nodes, c, n)}
<1>6. 0 \in S
  BY <1>1 DEF Below
<1>7. ASSUME NEW k \in 0..(N - 1), k \in S PROVE k + 1 \in S
  <2> SUFFICES ASSUME NEW n \in Below(nodes, c), n = c + (k + 1)
               PROVE  TextOf(nodes, n) = TextOf(nodes, c) \o TextFrom(nodes, c, n)
    <3>1. \A n \in Below(nodes, c) : n <= c + (k + 1) => n <= c + k \/ n = c + (k + 1)
      BY <1>1 DEF Below
    <3> QED BY <1>7, <3>1
  <2> DEFINE m == Parent(nodes, n)
  <2>1. /\ n \in 2..N /\ n # 1 /\ m \in c..(n - 1) /\ (m # c => m \in Below(nodes, c))
    BY <1>3
  <2>2. TextOf(nodes, n) = Append(TextOf(nodes, m), nodes[n].byte)
    <3>1. 1 \in 1..N
      BY <1>1
    <3>2. PathFrom(nodes, 1, n) = IF m = 1 THEN <<>>
                                  ELSE Append(PathFrom(nodes, 1, m), nodes[m].byte)
      BY <1>4, <2>1, <3>1, PathIs
    <3> QED BY <2>1, <3>2 DEF TextOf, TextFrom
  <2>3. TextFrom(nodes, c, n) = Append(IF m = c THEN <<>> ELSE TextFrom(nodes, c, m), nodes[n].byte)
    <3>1. PathFrom(nodes, c, n) = IF m = c THEN <<>>
                                  ELSE Append(PathFrom(nodes, c, m), nodes[m].byte)
      BY PathIs
    <3> QED BY <3>1 DEF TextFrom
  <2>4. TextOf(nodes, c) \in Seq(Nat) /\ nodes[n].byte \in Nat
    <3>1. nodes[n] \in TrieNode
      <4>1. n \in 1..N
        BY <1>1, <2>1
      <4> QED BY <4>1, ElementOfSeq
    <3> QED BY <1>5, <3>1 DEF TrieNode
  <2>5. CASE m = c
    <3> DEFINE t == TextOf(nodes, c)
               b == nodes[n].byte
    <3>1. t \in Seq(Nat) /\ b \in Nat
      BY <2>4
    <3> HIDE DEF t, b
    <3>2. Append(t, b) = t \o Append(<<>>, b)
      BY <3>1
    <3> QED BY <2>2, <2>3, <2>5, <3>2 DEF t, b
  <2>6. CASE m # c
    <3> DEFINE t == TextOf(nodes, c)
               b == nodes[n].byte
               r == TextFrom(nodes, c, m)
    <3>1. t \in Seq(Nat) /\ b \in Nat /\ r \in Seq(Nat)
      BY <1>3, <2>1, <2>4, <2>6
    <3>2. TextOf(nodes, m) = t \o r
      <4>1. m <= c + k
        BY <1>1, <2>1
      <4> QED BY <1>7, <2>1, <2>6, <4>1
    <3> HIDE DEF t, b, r
    <3>3. Append(t \o r, b) = t \o Append(r, b)
      BY <3>1, NumbersBeyond
    <3>4. TextOf(nodes, n) = Append(t \o r, b)
      BY <2>2, <3>2 DEF b
    <3>5. TextFrom(nodes, c, n) = Append(r, b)
      BY <2>3, <2>6 DEF b, r
    <3> QED BY <3>3, <3>4, <3>5 DEF t
  <2> QED BY <2>5, <2>6
<1> HIDE DEF S
<1>8. \A k \in 0..N : k \in S
  <2> HIDE DEF N
  <2> QED BY <1>1, <1>6, <1>7, UpTo
<1>9. ASSUME NEW n \in Below(nodes, c)
      PROVE  TextOf(nodes, n) = TextOf(nodes, c) \o TextFrom(nodes, c, n)
  <2>1. N \in 0..N /\ n <= c + N
    <3>1. n \in 2..N
      BY <1>3
    <3> HIDE DEF N
    <3>2. c \in Nat
      OBVIOUS
    <3> QED BY <1>1, <3>1, <3>2
  <2>2. N \in S
    BY <1>8, <2>1
  <2> QED BY <2>1, <2>2 DEF S
<1> QED BY <1>3, <1>5, <1>9

(* The child of a node that a node below it is under.                       *)
LEMMA ChildToward ==
  ASSUME NEW nodes, Preorder(nodes), NEW c \in 1..Len(nodes), NEW n \in Below(nodes, c)
  PROVE  \E d \in Below(nodes, c) : /\ Parent(nodes, d) = c /\ d <= n
                                    /\ n < NextNode(nodes, d)
<1> DEFINE N == Len(nodes)
           Good(x) == \E d \in Below(nodes, c) : /\ Parent(nodes, d) = c /\ d <= x
                                                 /\ x < NextNode(nodes, d)
           S == {k \in Nat : \A x \in Below(nodes, c) : x <= c + k => Good(x)}
<1>1. /\ N \in Nat \ {0}
      /\ \A x \in 1..N : NextNode(nodes, x) \in (x + 1)..(N + 1)
  BY Shape
<1>2. 0 \in S
  BY <1>1 DEF Below
<1>3. ASSUME NEW k \in 0..(N - 1), k \in S PROVE k + 1 \in S
  <2> SUFFICES ASSUME NEW x \in Below(nodes, c), x = c + (k + 1) PROVE Good(x)
    <3>1. \A x \in Below(nodes, c) : x <= c + (k + 1) => x <= c + k \/ x = c + (k + 1)
      BY <1>1 DEF Below
    <3> HIDE DEF Good
    <3> QED BY <1>3, <3>1
  <2> DEFINE m == Parent(nodes, x)
  <2>1. /\ x \in 2..N /\ m \in c..(x - 1) /\ (m # c => m \in Below(nodes, c))
        /\ NextNode(nodes, m) > x
    BY ParentWithin, ParentFacts
  <2>2. CASE m = c
    <3>1. x <= x /\ x < NextNode(nodes, x)
      BY <1>1, <2>1
    <3> QED BY <2>2, <3>1
  <2>3. CASE m # c
    <3>1. m <= c + k
      BY <1>1, <2>1
    <3>2. Good(m)
      <4> HIDE DEF Good
      <4> QED BY <1>3, <2>1, <2>3, <3>1
    <3>3. PICK d \in Below(nodes, c) : /\ Parent(nodes, d) = c /\ d <= m
                                       /\ m < NextNode(nodes, d)
      BY <3>2
    <3>4. d \in 1..N /\ m \in 1..N
      <4>1. d \in 2..N
        BY ParentWithin
      <4>2. m \in 2..N
        BY <2>1, <2>3, ParentWithin
      <4> HIDE DEF N, m
      <4> QED BY <1>1, <4>1, <4>2
    <3>5. /\ NextNode(nodes, d) \in Nat /\ NextNode(nodes, m) \in Nat
          /\ (d < m => NextNode(nodes, m) <= NextNode(nodes, d))
      BY <1>1, <3>3, <3>4, Shape
    <3>6. x < NextNode(nodes, d) /\ d <= x
      BY <2>1, <3>3, <3>4, <3>5
    <3> QED BY <3>3, <3>6
  <2> QED BY <2>2, <2>3
<1> HIDE DEF S, Good
<1>4. \A k \in 0..N : k \in S
  <2> HIDE DEF N
  <2> QED BY <1>1, <1>2, <1>3, UpTo
<1>5. N \in 0..N /\ n <= c + N
  BY <1>1, ParentWithin
<1>6. N \in S
  BY <1>4, <1>5
<1>7. Good(n)
  BY <1>5, <1>6 DEF S
<1> QED BY <1>7 DEF Good

(* A node's children are the nodes whose parent it is.                      *)
LEMMA ChildrenAre ==
  ASSUME NEW nodes, Preorder(nodes), NEW c \in 1..Len(nodes)
  PROVE  NodeChildren(nodes, c) = {d \in Below(nodes, c) : Parent(nodes, d) = c}
<1>1. /\ Len(nodes) \in Nat \ {0}
      /\ \A x \in 1..Len(nodes) : NextNode(nodes, x) \in (x + 1)..(Len(nodes) + 1)
  BY Shape
<1>2. NodeChildren(nodes, c) =
        {d \in Below(nodes, c) : \A m \in (c + 1)..(d - 1) : NextNode(nodes, m) <= d}
  BY DEF NodeChildren, Below
<1>3. ASSUME NEW d \in Below(nodes, c)
      PROVE  (\A m \in (c + 1)..(d - 1) : NextNode(nodes, m) <= d) <=> Parent(nodes, d) = c
  <2>1. /\ d \in 2..Len(nodes) /\ Parent(nodes, d) \in c..(d - 1)
        /\ NextNode(nodes, Parent(nodes, d)) > d
        /\ \A m \in 1..(d - 1) : m > Parent(nodes, d) => NextNode(nodes, m) <= d
    BY ParentWithin, ParentFacts
  <2>2. c \in 1..(d - 1) /\ NextNode(nodes, c) > d
    BY <1>1 DEF Below
  <2>3. ASSUME \A m \in (c + 1)..(d - 1) : NextNode(nodes, m) <= d
        PROVE  Parent(nodes, d) = c
    <3>1. \A m \in 1..(d - 1) : m > c => NextNode(nodes, m) <= d
      BY <1>1, <2>1, <2>3
    <3> QED BY <2>1, <2>2, <3>1, ParentIs
  <2>4. ASSUME Parent(nodes, d) = c, NEW m \in (c + 1)..(d - 1)
        PROVE  NextNode(nodes, m) <= d
    <3>1. m \in 1..(d - 1) /\ m > c
      BY <1>1, <2>1
    <3> QED BY <2>1, <2>4, <3>1
  <2> QED BY <2>3, <2>4
<1> QED BY <1>2, <1>3

(* The text goes on beyond the first i bytes of s.                          *)
Extends(t, s, i) == i < Len(t) /\ SubSeq(t, 1, i) = SubSeq(s, 1, i)

(* The node reached by the first i bytes is that of all texts that go on    *)
(* beyond them.                                                             *)
Reached(nodes, s, i, c) ==
  /\ c # NoNode => /\ c \in 1..Len(nodes) /\ TextOf(nodes, c) = SubSeq(s, 1, i)
                   /\ \A n \in 2..Len(nodes) :
                        Extends(TextOf(nodes, n), s, i) <=> n \in Below(nodes, c)
  /\ c = NoNode => \A n \in 2..Len(nodes) : ~Extends(TextOf(nodes, n), s, i)

(* One byte further down.                                                   *)
LEMMA ReachedNext ==
  ASSUME NEW nodes, NEW W, TrieOf(nodes, W), NEW s \in Seq(Nat), NEW i \in 1..Len(s),
         NEW c, Reached(nodes, s, i - 1, c)
  PROVE  Reached(nodes, s, i, ChildAtByte(nodes, c, s[i]))
<1> DEFINE N == Len(nodes)
           byte == s[i]
           found == IF c = NoNode THEN {}
                    ELSE {d \in NodeChildren(nodes, c) : nodes[d].byte = byte}
           next == ChildAtByte(nodes, c, byte)
<1>1. /\ Preorder(nodes) /\ nodes \in Seq(TrieNode)
      /\ \A d, e \in 2..N :
           d < e /\ Parent(nodes, d) = Parent(nodes, e) /\ nodes[d].byte = nodes[e].byte
             => nodes[e].subtree_size = 1
  BY DEF TrieOf
<1>2. /\ N \in Nat \ {0}
      /\ \A x \in 1..N : NextNode(nodes, x) \in (x + 1)..(N + 1)
  BY <1>1, Shape
<1>3. next = IF found = {} THEN NoNode ELSE Min(found)
  BY DEF ChildAtByte
<1>4. Len(s) \in Nat /\ i \in Nat /\ i - 1 \in Nat /\ (i - 1) + 1 = i /\ i <= Len(s)
  BY LenProperties
<1>5. byte \in Nat
  BY ElementOfSeq
<1>6. \A x \in 1..N : TextOf(nodes, x) \in Seq(Nat) /\ Len(TextOf(nodes, x)) \in Nat
  BY <1>1, TextsBelow, LenProperties
<1>7. SubSeq(s, 1, i) = Append(SubSeq(s, 1, i - 1), byte)
      /\ SubSeq(s, 1, i - 1) \in Seq(Nat) /\ Len(SubSeq(s, 1, i - 1)) = i - 1
      /\ SubSeq(s, 1, i) \in Seq(Nat) /\ Len(SubSeq(s, 1, i)) = i
  <2>1. i - 1 \in 0..Len(s) /\ i \in 0..Len(s)
    BY <1>4
  <2>2. /\ SubSeq(s, 1, i - 1) \in Seq(Nat) /\ Len(SubSeq(s, 1, i - 1)) = i - 1
        /\ \A k \in 1..(i - 1) : SubSeq(s, 1, i - 1)[k] = s[k]
        /\ SubSeq(s, 1, i) \in Seq(Nat) /\ Len(SubSeq(s, 1, i)) = i
        /\ \A k \in 1..i : SubSeq(s, 1, i)[k] = s[k]
    BY <2>1, CutAt
  <2> DEFINE u == SubSeq(s, 1, i - 1)
             v == SubSeq(s, 1, i)
             j == i - 1
  <2>3. /\ u \in Seq(Nat) /\ Len(u) = j /\ v \in Seq(Nat) /\ Len(v) = j + 1
        /\ \A k \in 1..j : u[k] = s[k]
        /\ \A k \in 1..(j + 1) : v[k] = s[k]
        /\ byte = s[j + 1] /\ j \in Nat
    BY <1>4, <2>2
  <2> HIDE DEF u, v, j, byte
  <2>4. /\ Append(u, byte) \in Seq(Nat) /\ Len(Append(u, byte)) = j + 1
        /\ \A k \in 1..j : Append(u, byte)[k] = u[k]
        /\ Append(u, byte)[j + 1] = byte
    <3>1. /\ Append(u, byte) \in Seq(Nat) /\ Len(Append(u, byte)) = Len(u) + 1
          /\ \A k \in 1..Len(u) : Append(u, byte)[k] = u[k]
          /\ Append(u, byte)[Len(u) + 1] = byte
      BY <1>5, <2>3, NumbersAppended
    <3> QED BY <2>3, <3>1
  <2>5. ASSUME NEW k \in 1..(j + 1) PROVE v[k] = Append(u, byte)[k]
    <3>1. k \in 1..j \/ k = j + 1
      BY <2>3
    <3> QED BY <2>3, <2>4, <3>1
  <2>6. v = Append(u, byte)
    BY <2>3, <2>4, <2>5, SeqEqual
  <2> QED BY <2>2, <2>6 DEF u, v
<1> HIDE DEF found, next, byte
<1>8. ASSUME NEW n \in 2..N, Extends(TextOf(nodes, n), s, i)
      PROVE  Extends(TextOf(nodes, n), s, i - 1)
  <2> DEFINE t == TextOf(nodes, n)
  <2>1. t \in Seq(Nat) /\ Len(t) \in Nat
    <3>1. n \in 1..N
      BY <1>2
    <3> QED BY <1>6, <3>1
  <2>2. i < Len(t) /\ SubSeq(t, 1, i) = SubSeq(s, 1, i)
    BY <1>8 DEF Extends
  <2> HIDE DEF t
  <2>3. \A k \in 1..i : t[k] = s[k]
    BY <1>4, <2>1, <2>2, SamePrefix
  <2>4. \A k \in 1..(i - 1) : t[k] = s[k]
    BY <1>4, <2>3
  <2>5. i - 1 < Len(t) /\ i - 1 <= Len(t) /\ i - 1 <= Len(s)
    BY <1>4, <2>1, <2>2
  <2>6. SubSeq(t, 1, i - 1) = SubSeq(s, 1, i - 1)
    BY <1>4, <2>1, <2>4, <2>5, SamePrefix
  <2> QED BY <2>5, <2>6 DEF Extends, t
<1>9. CASE c = NoNode
  <2>1. next = NoNode
    BY <1>3, <1>9 DEF found
  <2> QED BY <1>8, <1>9, <2>1 DEF Reached, next, byte, N
<1>10. CASE c # NoNode
  <2>1. /\ c \in 1..N /\ TextOf(nodes, c) = SubSeq(s, 1, i - 1)
        /\ \A n \in 2..N : Extends(TextOf(nodes, n), s, i - 1) <=> n \in Below(nodes, c)
    BY <1>10 DEF Reached
  <2>2. found = {d \in Below(nodes, c) : Parent(nodes, d) = c /\ nodes[d].byte = byte}
    BY <1>1, <1>10, <2>1, ChildrenAre DEF found
  <2>3. ASSUME NEW d \in Below(nodes, c), Parent(nodes, d) = c
        PROVE  /\ d \in 2..N /\ d \in 1..N
               /\ TextOf(nodes, d) = Append(SubSeq(s, 1, i - 1), nodes[d].byte)
               /\ nodes[d].byte \in Nat
    <3>1. d \in 2..N
      BY <1>1, <2>1, ParentWithin
    <3>2. d \in 1..N
      BY <1>2, <3>1
    <3>3. nodes[d].byte \in Nat
      <4>1. nodes[d] \in TrieNode
        BY <1>1, <3>2, ElementOfSeq
      <4> QED BY <4>1 DEF TrieNode
    <3>4. TextOf(nodes, d) = TextOf(nodes, c) \o TextFrom(nodes, c, d)
      BY <1>1, <2>1, TextsBelow
    <3>5. TextFrom(nodes, c, d) = Append(<<>>, nodes[d].byte)
      BY <1>1, <2>1, <2>3, PathIs DEF TextFrom
    <3> DEFINE u == SubSeq(s, 1, i - 1)
               b == nodes[d].byte
    <3>6. u \in Seq(Nat) /\ b \in Nat
      BY <1>7, <3>3
    <3>7. TextOf(nodes, d) = u \o Append(<<>>, b)
      BY <2>1, <3>4, <3>5
    <3> HIDE DEF u, b
    <3>8. u \o Append(<<>>, b) = Append(u, b)
      <4>1. Append(<<>>, b) = <<b>>
        OBVIOUS
      <4> QED BY <3>6, <4>1, AppendIsConcat
    <3> QED BY <3>1, <3>2, <3>3, <3>7, <3>8 DEF u, b
  <2>4. ASSUME NEW n \in 2..N, Extends(TextOf(nodes, n), s, i)
        PROVE  next # NoNode /\ n \in Below(nodes, next)
    <3>1. n \in Below(nodes, c)
      BY <1>8, <2>1, <2>4
    <3>2. PICK d \in Below(nodes, c) : /\ Parent(nodes, d) = c /\ d <= n
                                        /\ n < NextNode(nodes, d)
      BY <1>1, <2>1, <3>1, ChildToward
    <3>3. /\ d \in 2..N /\ d \in 1..N /\ n \in 1..N
          /\ TextOf(nodes, d) = Append(SubSeq(s, 1, i - 1), nodes[d].byte)
          /\ nodes[d].byte \in Nat
      <4>1. n \in 1..N
        BY <1>2
      <4> QED BY <2>3, <3>2, <4>1
    <3> DEFINE t == TextOf(nodes, n)
               u == SubSeq(s, 1, i - 1)
               b == nodes[d].byte
    <3>4. /\ t \in Seq(Nat) /\ Len(t) \in Nat
          /\ i < Len(t) /\ SubSeq(t, 1, i) = Append(u, byte)
      BY <1>6, <1>7, <2>4, <3>3 DEF Extends
    <3>5. u \in Seq(Nat) /\ Len(u) = i - 1 /\ b \in Nat /\ TextOf(nodes, d) = Append(u, b)
      BY <1>7, <3>3
    <3>6. Len(TextOf(nodes, d)) = i
      <4> HIDE DEF u, b
      <4>1. Len(Append(u, b)) = (i - 1) + 1
        BY <3>5, AppendProperties
      <4> QED BY <1>4, <3>5, <4>1
    <3>7. n # d
      <4>1. Len(TextOf(nodes, n)) # Len(TextOf(nodes, d))
        BY <1>4, <3>4, <3>6
      <4> QED BY <4>1
    <3>8. n \in Below(nodes, d)
      <4>1. NextNode(nodes, d) \in Nat
        BY <1>2, <3>3
      <4> QED BY <1>2, <3>2, <3>3, <3>7, <4>1 DEF Below
    <3>9. b = byte
      <4>1. t = TextOf(nodes, d) \o TextFrom(nodes, d, n) /\ TextFrom(nodes, d, n) \in Seq(Nat)
        BY <1>1, <3>3, <3>8, TextsBelow
      <4> DEFINE x == TextOf(nodes, d)
                 y == TextFrom(nodes, d, n)
      <4>2. x \in Seq(Nat) /\ y \in Seq(Nat) /\ t = x \o y /\ Len(x) = i /\ x = Append(u, b)
        BY <1>6, <3>3, <3>5, <3>6, <4>1
      <4> HIDE DEF t, u, b, x, y, byte
      <4>3. SubSeq(t, 1, i) = x
        <5>1. SubSeq(t, 1, Len(x)) = x
          BY <4>2, NumbersFirst
        <5> QED BY <4>2, <5>1
      <4>4. Append(u, byte) = Append(u, b)
        BY <3>4, <4>2, <4>3
      <4>5. Append(u, byte)[(i - 1) + 1] = byte /\ Append(u, b)[(i - 1) + 1] = b
        BY <1>5, <3>5, AppendProperties
      <4> QED BY <4>4, <4>5
    <3>10. d \in found
      BY <2>2, <3>2, <3>9
    <3>11. Min(found) = d
      <4>1. ASSUME NEW e \in found, e < d PROVE FALSE
        <5>1. /\ e \in Below(nodes, c) /\ Parent(nodes, e) = c /\ nodes[e].byte = byte
          BY <2>2, <4>1
        <5>2. e \in 2..N
          BY <2>3, <5>1
        <5>3. nodes[d].subtree_size = 1
          BY <1>1, <3>2, <3>3, <3>9, <4>1, <5>1, <5>2
        <5>4. NextNode(nodes, d) = d + 1
          BY <5>3 DEF NextNode
        <5> QED BY <1>2, <3>2, <3>3, <3>7, <5>4
      <4>2. \A e \in found : e \in Nat
        BY <1>2, <2>2, <2>3
      <4>3. \A e \in found : d <= e
        BY <1>2, <3>3, <4>1, <4>2
      <4>4. Min(found) \in found /\ \A e \in found : Min(found) <= e
        BY <3>10, <4>3, Zenon DEF Min
      <4>5. Min(found) \in Nat /\ d \in Nat /\ Min(found) <= d /\ d <= Min(found)
        BY <3>10, <4>2, <4>3, <4>4
      <4> QED BY <4>5
    <3>12. next = d
      BY <1>3, <3>10, <3>11
    <3> QED BY <1>2, <3>3, <3>8, <3>12 DEF NoNode
  <2>5. ASSUME found # {}
        PROVE  /\ next \in found /\ next \in 1..N /\ next # NoNode
               /\ TextOf(nodes, next) = SubSeq(s, 1, i)
    <3>1. found \in SUBSET Nat
      BY <1>2, <2>2, <2>3
    <3>2. \E m \in found : \A e \in found : m <= e
      BY <2>5, <3>1, LeastNumber
    <3>3. Min(found) \in found
      BY <3>2, Zenon DEF Min
    <3>4. next \in found
      BY <1>3, <2>5, <3>3
    <3>5. /\ next \in Below(nodes, c) /\ Parent(nodes, next) = c /\ nodes[next].byte = byte
      BY <2>2, <3>4
    <3>6. next \in 1..N /\ TextOf(nodes, next) = Append(SubSeq(s, 1, i - 1), nodes[next].byte)
      BY <2>3, <3>5
    <3> QED BY <1>2, <1>7, <3>4, <3>5, <3>6 DEF NoNode
  <2>6. ASSUME next # NoNode, NEW n \in 2..N, n \in Below(nodes, next)
        PROVE  Extends(TextOf(nodes, n), s, i)
    <3>1. next \in 1..N /\ TextOf(nodes, next) = SubSeq(s, 1, i)
      BY <1>3, <2>5, <2>6
    <3> DEFINE t == TextOf(nodes, n)
               x == TextOf(nodes, next)
               y == TextFrom(nodes, next, n)
    <3>2. /\ x \in Seq(Nat) /\ y \in Seq(Nat) /\ Len(y) \in Nat \ {0} /\ t = x \o y
      BY <1>1, <2>6, <3>1, TextsBelow
    <3>3. x = SubSeq(s, 1, i) /\ Len(x) = i
      BY <1>7, <3>1
    <3> HIDE DEF t, x, y
    <3>4. Len(t) = Len(x) + Len(y) /\ SubSeq(t, 1, Len(x)) = x
      BY <3>2, ConcatProperties, CutOfConcat
    <3>5. i < Len(t) /\ SubSeq(t, 1, i) = SubSeq(s, 1, i)
      BY <1>4, <3>2, <3>3, <3>4
    <3> QED BY <3>5 DEF Extends, t
  <2>7. next = NoNode => found = {}
    BY <2>5
  <2>8. next # NoNode => found # {}
    BY <1>3
  <2>9. next # NoNode => next \in 1..N /\ TextOf(nodes, next) = SubSeq(s, 1, i)
    BY <2>5, <2>8
  <2> QED BY <2>4, <2>6, <2>9 DEF Reached, next, byte, N
<1> QED BY <1>9, <1>10

(* The start s leads to the node that holds the texts going on beyond it.   *)
LEMMA StartReaches ==
  ASSUME NEW nodes, NEW W, TrieOf(nodes, W), NEW s \in Seq(Nat)
  PROVE  Reached(nodes, s, Len(s), ChildAtBytes(nodes, 1, s))
<1> DEFINE N == Len(s)
           P(g) == g = [i \in 0..N |-> IF i = 0 THEN 1 ELSE ChildAtByte(nodes, g[i - 1], s[i])]
           f == CHOOSE g : P(g)
<1>1. N \in Nat /\ Preorder(nodes) /\ nodes \in Seq(TrieNode)
  BY LenProperties DEF TrieOf
<1>2. ChildAtBytes(nodes, 1, s) = f[N]
  BY Zenon DEF ChildAtBytes
<1> HIDE DEF f
<1>3. \E g : P(g)
  <2>1. PICK g : Descents(g, N, nodes, 1, s)
    BY <1>1, DescentsExist
  <2>2. P(g)
    BY <2>1 DEF Descents
  <2> HIDE DEF P
  <2> QED BY <2>2
<1> HIDE DEF P
<1>4. P(f)
  BY <1>3, Zenon DEF f
<1>5. \A i \in 0..N : f[i] = IF i = 0 THEN 1 ELSE ChildAtByte(nodes, f[i - 1], s[i])
  BY <1>4 DEF P
<1> DEFINE S == {i \in Nat : Reached(nodes, s, i, f[i])}
<1>6. 0 \in S
  <2>1. f[0] = 1
    BY <1>1, <1>5
  <2>2. /\ Len(nodes) \in Nat \ {0} /\ NextNode(nodes, 1) = Len(nodes) + 1
        /\ 1 \in 1..Len(nodes)
    BY <1>1, Shape
  <2>3. SubSeq(s, 1, 0) = <<>> /\ TextOf(nodes, 1) = <<>>
    <3>1. 0 \in 0..Len(s)
      BY <1>1
    <3>2. SubSeq(s, 1, 0) \in Seq(Nat) /\ Len(SubSeq(s, 1, 0)) = 0
      BY <3>1, CutAt
    <3> QED BY <3>2, EmptySeq DEF TextOf
  <2>4. ASSUME NEW n \in 2..Len(nodes)
        PROVE  n \in Below(nodes, 1) /\ Extends(TextOf(nodes, n), s, 0)
    <3>1. n \in Below(nodes, 1)
      BY <2>2 DEF Below
    <3> DEFINE t == TextOf(nodes, n)
    <3>2. t \in Seq(Nat) /\ Len(t) \in Nat \ {0}
      <4>1. n # 1 /\ TextFrom(nodes, 1, n) \in Seq(Nat)
            /\ Len(TextFrom(nodes, 1, n)) \in Nat \ {0}
        BY <1>1, <2>2, <3>1, TextsBelow
      <4> QED BY <4>1 DEF TextOf
    <3> HIDE DEF t
    <3>3. SubSeq(t, 1, 0) = <<>>
      <4>1. 0 \in 0..Len(t)
        BY <3>2
      <4>2. SubSeq(t, 1, 0) \in Seq(Nat) /\ Len(SubSeq(t, 1, 0)) = 0
        BY <3>2, <4>1, CutAt
      <4> QED BY <4>2, EmptySeq
    <3>4. Extends(t, s, 0)
      BY <2>3, <3>2, <3>3 DEF Extends
    <3> QED BY <3>1, <3>4 DEF t
  <2>5. Reached(nodes, s, 0, 1)
    <3>1. TextOf(nodes, 1) = SubSeq(s, 1, 0)
      BY <2>3, Zenon
    <3>2. \A n \in 2..Len(nodes) : Extends(TextOf(nodes, n), s, 0) <=> n \in Below(nodes, 1)
      BY <2>4
    <3>3. 1 # NoNode
      BY DEF NoNode
    <3> QED BY <2>2, <3>1, <3>2, <3>3, Zenon DEF Reached
  <2> QED BY <2>1, <2>5
<1>7. ASSUME NEW i \in 0..(N - 1), i \in S PROVE i + 1 \in S
  <2>1. i + 1 \in 0..N /\ i + 1 \in 1..Len(s) /\ i + 1 # 0 /\ (i + 1) - 1 = i /\ i + 1 \in Nat
    BY <1>1
  <2>2. f[i + 1] = ChildAtByte(nodes, f[i], s[i + 1])
    BY <1>5, <2>1
  <2>3. Reached(nodes, s, (i + 1) - 1, f[i])
    BY <1>7, <2>1
  <2>4. Reached(nodes, s, i + 1, ChildAtByte(nodes, f[i], s[i + 1]))
    <3> DEFINE k == i + 1
    <3>1. k \in 1..Len(s) /\ Reached(nodes, s, k - 1, f[i])
      BY <2>1, <2>3
    <3> HIDE DEF k
    <3>2. Reached(nodes, s, k, ChildAtByte(nodes, f[i], s[k]))
      BY <3>1, ReachedNext
    <3> QED BY <3>2 DEF k
  <2> QED BY <2>1, <2>2, <2>4
<1> HIDE DEF S
<1>8. \A i \in 0..N : i \in S
  <2> HIDE DEF N
  <2> QED BY <1>1, <1>6, <1>7, UpTo
<1>9. N \in S
  BY <1>1, <1>8
<1> QED BY <1>2, <1>9 DEF S

(* A text that goes on beyond the forced bytes s within the language L.     *)
Wanted(s, L, text) ==
  IsStrictPrefix(s, text) /\ SubSeq(text, Len(s) + 1, Len(text)) \in L

(* Going on beyond all of s is having it as a strict prefix.                *)
LEMMA ExtendsIs ==
  ASSUME NEW s \in Seq(Nat), NEW t \in Seq(Nat)
  PROVE  IsStrictPrefix(s, t) <=> Extends(t, s, Len(s))
<1>1. Len(s) \in Nat /\ Len(t) \in Nat
  BY LenProperties
<1>2. IsPrefix(s, t) <=> Len(s) <= Len(t) /\ SubSeq(t, 1, Len(s)) = s
  BY PrefixIs
<1>3. SubSeq(s, 1, Len(s)) = s /\ SubSeq(t, 1, Len(t)) = t
  BY SubSeqFull
<1> QED BY <1>1, <1>2, <1>3 DEF IsStrictPrefix, Extends

(* A walk is for the tokens of the trie that go on within the language.     *)
LEMMA WalkAllows ==
  ASSUME NEW nodes, NEW W, TrieOf(nodes, W), NEW s \in Seq(Nat), NEW L
  PROVE  Allowed([nodes |-> nodes, language |-> L, start |-> s])
           = {e[1] : e \in {x \in W : Wanted(s, L, x[2])}}
<1> DEFINE w == [nodes |-> nodes, language |-> L, start |-> s]
           c == ChildAtBytes(nodes, 1, s)
           N == Len(nodes)
<1>1. /\ Preorder(nodes) /\ nodes \in Seq(TrieNode)
      /\ \A n \in 2..N : IsToken(nodes[n]) => <<nodes[n].token, TextOf(nodes, n)>> \in W
      /\ \A e \in W : \E n \in 2..N : IsToken(nodes[n]) /\ e = <<nodes[n].token, TextOf(nodes, n)>>
  BY DEF TrieOf
<1>2. w.nodes = nodes /\ w.language = L /\ w.start = s /\ First(w) = c
  BY DEF First
<1>3. Reached(nodes, s, Len(s), c)
  BY StartReaches
<1>4. Allowed(w) = IF c = NoNode THEN {}
                   ELSE {nodes[n].token : n \in {m \in Below(nodes, c) :
                          m >= 0 /\ IsToken(nodes[m]) /\ TextFrom(nodes, c, m) \in L}}
  BY <1>2 DEF Allowed, AllowedFrom, AllowedNodes
<1>5. Len(s) \in Nat /\ SubSeq(s, 1, Len(s)) = s
  BY LenProperties, SubSeqFull
<1>6. N \in Nat \ {0} /\ \A n \in 2..N : n \in 1..N /\ TextOf(nodes, n) \in Seq(Nat)
  <2>1. N \in Nat \ {0}
    BY <1>1, Shape
  <2>2. \A n \in 2..N : n \in 1..N
    BY <2>1
  <2> QED BY <1>1, <2>1, <2>2, TextsBelow
<1> HIDE DEF w, c, N
<1>7. \A n \in 2..N : IsStrictPrefix(s, TextOf(nodes, n)) <=> Extends(TextOf(nodes, n), s, Len(s))
  BY <1>6, ExtendsIs
<1>8. ASSUME c # NoNode, NEW n \in Below(nodes, c)
      PROVE  /\ n \in 2..N /\ n >= 0
             /\ TextFrom(nodes, c, n)
                  = SubSeq(TextOf(nodes, n), Len(s) + 1, Len(TextOf(nodes, n)))
  <2>1. c \in 1..N /\ TextOf(nodes, c) = s
    BY <1>3, <1>5, <1>8 DEF Reached, N
  <2>2. /\ n \in 2..N /\ TextFrom(nodes, c, n) \in Seq(Nat)
        /\ TextOf(nodes, n) = s \o TextFrom(nodes, c, n)
    BY <1>1, <1>8, <2>1, TextsBelow DEF N
  <2> DEFINE y == TextFrom(nodes, c, n)
             t == TextOf(nodes, n)
  <2>3. y \in Seq(Nat) /\ t = s \o y
    BY <2>2
  <2> HIDE DEF y, t
  <2>4. SubSeq(t, Len(s) + 1, Len(t)) = y
    <3>1. SubSeq(s \o y, Len(s) + 1, Len(s \o y)) = y
      BY <2>3, CutOfConcat
    <3> QED BY <2>3, <3>1
  <2>5. n >= 0
    BY <1>6, <2>2
  <2> QED BY <2>2, <2>4, <2>5 DEF y, t
<1>9. ASSUME NEW n \in 2..N, IsToken(nodes[n])
      PROVE  Wanted(s, L, TextOf(nodes, n)) <=>
               c # NoNode /\ n \in Below(nodes, c) /\ TextFrom(nodes, c, n) \in L
  <2>1. IsStrictPrefix(s, TextOf(nodes, n)) <=> c # NoNode /\ n \in Below(nodes, c)
    BY <1>3, <1>7 DEF Reached, N
  <2> QED BY <1>8, <2>1 DEF Wanted
<1>10. ASSUME NEW t \in Allowed(w)
       PROVE  t \in {e[1] : e \in {x \in W : Wanted(s, L, x[2])}}
  <2>1. c # NoNode
    BY <1>4
  <2>2. PICK n \in Below(nodes, c) :
          IsToken(nodes[n]) /\ TextFrom(nodes, c, n) \in L /\ t = nodes[n].token
    BY <1>4, <2>1
  <2>3. n \in 2..N
    BY <1>8, <2>1
  <2> DEFINE e == <<nodes[n].token, TextOf(nodes, n)>>
  <2>4. e \in W /\ e[1] = t /\ e[2] = TextOf(nodes, n)
    BY <1>1, <2>2, <2>3 DEF N
  <2>5. Wanted(s, L, e[2])
    BY <1>9, <2>1, <2>2, <2>3, <2>4
  <2> HIDE DEF e
  <2> QED BY <2>4, <2>5
<1>11. ASSUME NEW t \in {e[1] : e \in {x \in W : Wanted(s, L, x[2])}}
       PROVE  t \in Allowed(w)
  <2>1. PICK e \in W : Wanted(s, L, e[2]) /\ t = e[1]
    OBVIOUS
  <2>2. PICK n \in 2..N : IsToken(nodes[n]) /\ e = <<nodes[n].token, TextOf(nodes, n)>>
    BY <1>1 DEF N
  <2>3. e[1] = nodes[n].token /\ e[2] = TextOf(nodes, n)
    BY <2>2
  <2>4. c # NoNode /\ n \in Below(nodes, c) /\ TextFrom(nodes, c, n) \in L
    BY <1>9, <2>1, <2>2, <2>3
  <2>5. n >= 0
    BY <1>8, <2>4
  <2> QED BY <1>4, <2>1, <2>2, <2>3, <2>4, <2>5
<1>12. Allowed(w) = {e[1] : e \in {x \in W : Wanted(s, L, x[2])}}
  BY <1>10, <1>11
<1> QED BY <1>12 DEF w

-----------------------------------------------------------------------------
(* What a vocabulary's walks are for.                                       *)

(* The tokens of the mask that go on beyond s within the language L.        *)
WantedTokens(ws, mask, s, L) == {t \in TextTokens(ws, mask) : Wanted(s, L, ws[t])}
WalkOf(ws, mask, s, L) == [nodes |-> Filter(ws, mask), language |-> L, start |-> s]

(* A walk over the trie of a mask allows exactly those tokens.              *)
LEMMA WalkOfAllows ==
  ASSUME NEW ws \in Seq(Seq(Nat)), FakeToken \in Nat, FakeToken > Len(ws), NEW mask,
         NEW s \in Seq(Nat), NEW L
  PROVE  Allowed(WalkOf(ws, mask, s, L)) = WantedTokens(ws, mask, s, L)
<1> DEFINE W == TokensIn(ws, mask)
<1>1. TrieOf(Filter(ws, mask), W)
  BY FilterTrie
<1>2. W = {<<t, ws[t]>> : t \in TextTokens(ws, mask)}
  BY DEF TokensIn
<1> HIDE DEF W
<1>3. Allowed(WalkOf(ws, mask, s, L)) = {e[1] : e \in {x \in W : Wanted(s, L, x[2])}}
  BY <1>1, WalkAllows DEF WalkOf
<1>4. ASSUME NEW t
      PROVE  t \in {e[1] : e \in {x \in W : Wanted(s, L, x[2])}} <=>
               t \in TextTokens(ws, mask) /\ Wanted(s, L, ws[t])
  <2>1. ASSUME NEW e \in W, Wanted(s, L, e[2])
        PROVE  e[1] \in TextTokens(ws, mask) /\ Wanted(s, L, ws[e[1]])
    <3>1. PICK x \in TextTokens(ws, mask) : e = <<x, ws[x]>>
      BY <1>2
    <3>2. e[1] = x /\ e[2] = ws[x]
      BY <3>1
    <3> QED BY <2>1, <3>2
  <2>2. ASSUME t \in TextTokens(ws, mask), Wanted(s, L, ws[t])
        PROVE  \E e \in W : Wanted(s, L, e[2]) /\ t = e[1]
    <3> DEFINE e == <<t, ws[t]>>
    <3>1. e \in W /\ e[1] = t /\ e[2] = ws[t]
      BY <1>2, <2>2
    <3> HIDE DEF e
    <3> QED BY <2>2, <3>1
  <2> QED BY <2>1, <2>2
<1> QED BY <1>3, <1>4 DEF WantedTokens

(* A sequence of numbers is one of what it holds.                           *)
LEMMA OwnRange ==
  ASSUME NEW A, NEW s \in Seq(A)
  PROVE  s \in Seq(Range(s)) /\ Range(s) \subseteq A /\ Range(s) = {s[i] : i \in 1..Len(s)}
BY SeqOfRange, RangeOfSeq, RangeEquality

(* Such a walk is over a trie in preorder, in a prefix-closed language.     *)
LEMMA WalkOfSound ==
  ASSUME NEW ws \in Seq(Seq(Nat)), FakeToken \in Nat, FakeToken > Len(ws), NEW mask,
         NEW s \in Seq(Nat), NEW L, PrefixClosed(L)
  PROVE  Sound(WalkOf(ws, mask, s, L))
<1>1. Preorder(Filter(ws, mask))
  BY FilterTrie DEF TrieOf
<1>2. s \in Seq(Range(s))
  BY OwnRange
<1> QED BY <1>1, <1>2 DEF Sound, Walkable, WalkOf

(* The forced bytes' prefixes are a prefix-closed language.                 *)
LEMMA PrefixesClosed ==
  ASSUME NEW s \in Seq(Nat)
  PROVE  /\ PrefixClosed(Prefixes(s))
         /\ \A t \in Seq(Nat) : t \in Prefixes(s) <=> IsPrefix(t, s)
<1>1. Prefixes(s) = {SubSeq(s, 1, l) : l \in 0..Len(s)} /\ Len(s) \in Nat
  BY LenProperties DEF Prefixes
<1>2. ASSUME NEW l \in 0..Len(s)
      PROVE  SubSeq(s, 1, l) \in Seq(Nat) /\ Len(SubSeq(s, 1, l)) = l
             /\ \A i \in 1..l : SubSeq(s, 1, l)[i] = s[i]
  BY CutAt
<1>3. ASSUME NEW l \in 0..Len(s), NEW k \in 0..l
      PROVE  SubSeq(SubSeq(s, 1, l), 1, k) = SubSeq(s, 1, k)
  <2>1. PICK u \in Seq(Nat) : u = SubSeq(s, 1, l) /\ Len(u) = l /\ \A i \in 1..l : u[i] = s[i]
    BY <1>2
  <2>2. /\ k \in Nat /\ k <= Len(u) /\ k <= Len(s) /\ \A i \in 1..k : u[i] = s[i]
    BY <1>1, <2>1
  <2>3. SubSeq(u, 1, k) = SubSeq(s, 1, k)
    BY <2>2, SamePrefix
  <2> QED BY <2>1, <2>3
<1>4. PrefixClosed(Prefixes(s))
  <2> SUFFICES ASSUME NEW u \in Prefixes(s), NEW k \in 0..Len(u)
               PROVE  SubSeq(u, 1, k) \in Prefixes(s)
    BY DEF PrefixClosed
  <2>1. PICK l \in 0..Len(s) : u = SubSeq(s, 1, l)
    BY <1>1
  <2>2. Len(u) = l
    BY <1>2, <2>1
  <2>3. k \in 0..l /\ k \in 0..Len(s)
    BY <1>1, <2>2
  <2>4. SubSeq(u, 1, k) = SubSeq(s, 1, k)
    BY <1>3, <2>1, <2>3
  <2> QED BY <1>1, <2>3, <2>4
<1>5. ASSUME NEW t \in Seq(Nat) PROVE t \in Prefixes(s) <=> IsPrefix(t, s)
  <2>1. IsPrefix(t, s) <=> Len(t) <= Len(s) /\ SubSeq(s, 1, Len(t)) = t
    BY PrefixIs
  <2>2. Len(t) \in Nat
    BY LenProperties
  <2>3. IsPrefix(t, s) => t \in Prefixes(s)
    <3>1. Len(t) <= Len(s) => Len(t) \in 0..Len(s)
      BY <1>1, <2>2
    <3> QED BY <1>1, <2>1, <3>1
  <2>4. ASSUME t \in Prefixes(s) PROVE IsPrefix(t, s)
    <3>1. PICK l \in 0..Len(s) : t = SubSeq(s, 1, l)
      BY <1>1, <2>4
    <3>2. Len(t) = l /\ l <= Len(s)
      BY <1>1, <1>2, <3>1
    <3> QED BY <2>1, <3>1, <3>2
  <2> QED BY <2>3, <2>4
<1> QED BY <1>4, <1>5

(* A walk from the root is for the texts in its language.                   *)
LEMMA FromRoot ==
  ASSUME NEW L, NEW t \in Seq(Nat)
  PROVE  Wanted(<<>>, L, t) <=> t # <<>> /\ t \in L
<1>1. <<>> \in Seq(Nat) /\ Len(<<>>) = 0 /\ Len(t) \in Nat
  BY EmptySeq, LenProperties
<1>2. PICK e \in Seq(Nat) : e = <<>>
  BY <1>1
<1>3. IsPrefix(e, t)
  <2>1. Len(e) = 0
    BY <1>1, <1>2
  <2>2. Len(e) <= Len(t) /\ \A i \in 1..Len(e) : e[i] = t[i]
    BY <1>1, <2>1
  <2> QED BY <2>2, PrefixIs
<1>4. SubSeq(t, 1, Len(t)) = t
  BY SubSeqFull
<1>5. Len(e) + 1 = 1
  BY <1>1, <1>2
<1>6. IsStrictPrefix(e, t) <=> t # e
  BY <1>3 DEF IsStrictPrefix
<1>7. Wanted(e, L, t) <=> t # e /\ t \in L
  BY <1>4, <1>5, <1>6 DEF Wanted
<1> QED BY <1>2, <1>7

(* Walks of the code: one for the tokens begun by the forced bytes, if any, *)
(* and one for those that go on beyond them.                                *)
BiasTokens(ws, mask, s, L) ==
  {t \in TextTokens(ws, mask) : IsPrefix(ws[t], s) \/ Wanted(s, L, ws[t])}

(* The walks of add_bias() are sound, and for the tokens they should find.  *)
LEMMA BiasWalks ==
  ASSUME NEW ws \in Seq(Seq(Nat)), FakeToken \in Nat, FakeToken > Len(ws), NEW mask,
         NEW s \in Seq(Nat), NEW L, PrefixClosed(L)
  PROVE  LET walks == AddBias(Filter(ws, mask), L, s)
         IN  /\ walks \in Seq(Range(walks))
             /\ \A i \in DOMAIN walks : Sound(walks[i])
             /\ AllowedByAll(walks) = BiasTokens(ws, mask, s, L)
<1> DEFINE walks == AddBias(Filter(ws, mask), L, s)
           a == WalkOf(ws, mask, <<>>, Prefixes(s))
           b == WalkOf(ws, mask, s, L)
<1>1. <<>> \in Seq(Nat) /\ Len(<<>>) = 0
  BY EmptySeq
<1>2. /\ Sound(a) /\ Allowed(a) = WantedTokens(ws, mask, <<>>, Prefixes(s))
  BY <1>1, WalkOfSound, WalkOfAllows, PrefixesClosed
<1>3. Sound(b) /\ Allowed(b) = WantedTokens(ws, mask, s, L)
  BY WalkOfSound, WalkOfAllows
<1>4. walks = IF s = <<>> THEN <<b>> ELSE <<a, b>>
  <2>1. walks = (IF s = <<>> THEN <<>> ELSE <<a>>) \o <<b>>
    BY Zenon DEF AddBias, WalkOf
  <2> HIDE DEF walks, a, b
  <2>2. <<>> \o <<b>> = <<b>> /\ <<a>> \o <<b>> = <<a, b>>
    <3> DEFINE B == {a, b}
    <3>1. <<a>> \in Seq(B) /\ <<b>> \in Seq(B) /\ b \in B
      OBVIOUS
    <3> HIDE DEF B
    <3>2. <<>> \o <<b>> = <<b>>
      BY <3>1, ConcatEmptySeq
    <3>3. Append(<<a>>, b) = <<a>> \o <<b>>
      BY <3>1, AppendIsConcat
    <3>4. Append(<<a>>, b) = <<a, b>>
      <4>1. PICK u \in Seq(B) : u = <<a>> /\ Len(u) = 1 /\ u[1] = a
        BY <3>1
      <4>2. /\ Append(u, b) \in Seq(B) /\ Len(Append(u, b)) = Len(u) + 1
            /\ \A i \in 1..Len(u) : Append(u, b)[i] = u[i]
            /\ Append(u, b)[Len(u) + 1] = b
        BY <3>1, AppendProperties
      <4>3. PICK v : v = Append(u, b)
        OBVIOUS
      <4>4. PICK z \in Seq(B) : z = <<a, b>> /\ Len(z) = 2 /\ z[1] = a /\ z[2] = b
        <5> DEFINE y == <<a, b>>
        <5>1. y \in Seq(B)
          BY DEF B
        <5>2. Len(y) = 2 /\ y[1] = a /\ y[2] = b
          OBVIOUS
        <5> HIDE DEF y
        <5>3. PICK z \in Seq(B) : z = y
          BY <5>1
        <5> QED BY <5>2, <5>3 DEF y
      <4>5. v \in Seq(B) /\ Len(v) = 2 /\ v[1] = a /\ v[2] = b
        BY <4>1, <4>2, <4>3
      <4>6. \A i \in 1..Len(v) : v[i] = z[i]
        BY <4>4, <4>5
      <4>7. v = z
        BY <4>4, <4>5, <4>6, SeqEqual
      <4> QED BY <4>1, <4>3, <4>4, <4>7
    <3> QED BY <3>2, <3>3, <3>4
  <2> QED BY <2>1, <2>2
<1>5. \A t \in TextTokens(ws, mask) : ws[t] \in Seq(Nat) /\ ws[t] # <<>>
  BY ElementOfSeq DEF TextTokens
<1>6. \A t \in TextTokens(ws, mask) : Wanted(<<>>, Prefixes(s), ws[t]) <=> IsPrefix(ws[t], s)
  BY <1>5, FromRoot, PrefixesClosed
<1>7. Allowed(a) = {t \in TextTokens(ws, mask) : IsPrefix(ws[t], s)}
  BY <1>2, <1>6 DEF WantedTokens
<1>8. ASSUME s = <<>>, NEW t \in TextTokens(ws, mask) PROVE ~IsPrefix(ws[t], s)
  <2>1. IsPrefix(ws[t], s) => Len(ws[t]) <= Len(s)
    BY <1>5, PrefixIs
  <2>2. Len(ws[t]) \in Nat /\ Len(ws[t]) # 0
    BY <1>5, LenProperties, EmptySeq
  <2>3. Len(s) = 0
    BY <1>1, <1>8
  <2> QED BY <2>1, <2>2, <2>3
<1> HIDE DEF a, b, walks
<1>9. CASE s = <<>>
  <2>1. walks = <<b>>
    BY <1>4, <1>9
  <2>2. walks \in Seq({b}) /\ DOMAIN walks = {1} /\ walks[1] = b
    BY <2>1
  <2>3. walks \in Seq(Range(walks))
    BY <2>2, OwnRange
  <2>4. AllowedByAll(walks) = Allowed(b)
    BY <2>2 DEF AllowedByAll
  <2>5. BiasTokens(ws, mask, s, L) = WantedTokens(ws, mask, s, L)
    BY <1>8, <1>9 DEF BiasTokens, WantedTokens
  <2>6. \A i \in DOMAIN walks : Sound(walks[i])
    BY <1>3, <2>2
  <2> QED BY <1>3, <2>3, <2>4, <2>5, <2>6 DEF walks
<1>10. CASE s # <<>>
  <2>1. walks = <<a, b>>
    BY <1>4, <1>10
  <2>2. walks \in Seq({a, b}) /\ DOMAIN walks = {1, 2} /\ walks[1] = a /\ walks[2] = b
    BY <2>1
  <2>3. walks \in Seq(Range(walks))
    BY <2>2, OwnRange
  <2>4. AllowedByAll(walks) = Allowed(a) \cup Allowed(b)
    BY <2>2 DEF AllowedByAll
  <2>5. BiasTokens(ws, mask, s, L) = Allowed(a) \cup Allowed(b)
    BY <1>3, <1>7 DEF BiasTokens, WantedTokens
  <2>6. \A i \in DOMAIN walks : Sound(walks[i])
    BY <1>2, <1>3, <2>2
  <2> QED BY <2>3, <2>4, <2>5, <2>6 DEF walks
<1> QED BY <1>9, <1>10

(* The walks of several calls, one after the other.                         *)
LEMMA JoinedWalks ==
  ASSUME NEW B, NEW s \in Seq(Seq(B)), \A i \in 1..Len(s) : \A j \in DOMAIN s[i] : Sound(s[i][j])
  PROVE  LET walks == FlattenSeq(s)
         IN  /\ walks \in Seq(Range(walks))
             /\ \A i \in DOMAIN walks : Sound(walks[i])
             /\ AllowedByAll(walks) = UNION {AllowedByAll(s[i]) : i \in 1..Len(s)}
<1> DEFINE walks == FlattenSeq(s)
<1>1. PICK o : walks \in Seq(B) /\ Offsets(o, s) /\ Segmented(walks, o, s)
  BY Segments
<1> HIDE DEF walks
<1>2. /\ \A i \in 1..Len(s) : \A j \in 1..Len(s[i]) :
            o[i - 1] + j \in 1..Len(walks) /\ walks[o[i - 1] + j] = s[i][j]
      /\ \A q \in 1..Len(walks) : \E i \in 1..Len(s) : \E j \in 1..Len(s[i]) : q = o[i - 1] + j
  BY <1>1 DEF Segmented
<1>3. \A i \in 1..Len(s) : DOMAIN s[i] = 1..Len(s[i])
  <2>1. \A i \in 1..Len(s) : s[i] \in Seq(B)
    BY ElementOfSeq
  <2> QED BY <2>1, LenProperties
<1>4. DOMAIN walks = 1..Len(walks) /\ walks \in Seq(Range(walks))
  BY <1>1, LenProperties, OwnRange
<1>5. \A q \in DOMAIN walks : \E i \in 1..Len(s) : \E j \in DOMAIN s[i] : walks[q] = s[i][j]
  <2> TAKE q \in DOMAIN walks
  <2>1. PICK i \in 1..Len(s) : \E j \in 1..Len(s[i]) : q = o[i - 1] + j
    BY <1>2, <1>4
  <2>2. PICK j \in 1..Len(s[i]) : q = o[i - 1] + j
    BY <2>1
  <2>3. walks[q] = s[i][j] /\ j \in DOMAIN s[i]
    BY <1>2, <1>3, <2>2
  <2> QED BY <2>3
<1>6. \A i \in 1..Len(s) : \A j \in DOMAIN s[i] : \E q \in DOMAIN walks : walks[q] = s[i][j]
  BY <1>2, <1>3, <1>4
<1>7. \A q \in DOMAIN walks : Sound(walks[q])
  BY <1>5
<1>8. AllowedByAll(walks) = UNION {AllowedByAll(s[i]) : i \in 1..Len(s)}
  <2>1. ASSUME NEW t \in AllowedByAll(walks)
        PROVE  t \in UNION {AllowedByAll(s[i]) : i \in 1..Len(s)}
    <3>1. PICK q \in DOMAIN walks : t \in Allowed(walks[q])
      BY DEF AllowedByAll
    <3>2. PICK i \in 1..Len(s) : \E j \in DOMAIN s[i] : walks[q] = s[i][j]
      BY <1>5
    <3> QED BY <3>1, <3>2 DEF AllowedByAll
  <2>2. ASSUME NEW i \in 1..Len(s), NEW t \in AllowedByAll(s[i]) PROVE t \in AllowedByAll(walks)
    <3>1. PICK j \in DOMAIN s[i] : t \in Allowed(s[i][j])
      BY <2>2 DEF AllowedByAll
    <3>2. PICK q \in DOMAIN walks : walks[q] = s[i][j]
      BY <1>6
    <3> QED BY <3>1, <3>2 DEF AllowedByAll
  <2> QED BY <2>1, <2>2
<1> QED BY <1>4, <1>7, <1>8 DEF walks

-----------------------------------------------------------------------------
(* The tree of the slices.                                                  *)

(* The numbers of any nodes are in order.                                   *)
LEMMA NodesOrdered ==
  ASSUME NEW A, NEW sl \in Seq(A), NEW S \in SUBSET Nodes(sl)
  PROVE  Ordered(S, Ascending(sl)) \in Seq(Nodes(sl)) /\ Range(Ordered(S, Ascending(sl))) = S
<1> DEFINE N == Top(sl)
           before == Ascending(sl)
<1>1. N \in Nat /\ Nodes(sl) = 1..N
  BY LenProperties DEF Top, Nodes
<1>2. \A x, y : <<x, y>> \in before <=> x \in 1..N /\ y \in 1..N /\ x < y
  BY <1>1 DEF Ascending
<1> HIDE DEF N, before
<1>3. \A x \in S : x \in 1..N /\ x \in Nat
  BY <1>1
<1>4. StrictOrder(S, before)
  BY <1>2, <1>3 DEF StrictOrder
<1>5. IsFiniteSet(S)
  <2>1. IsFiniteSet(1..N)
    BY <1>1, FS_Interval
  <2>2. S \subseteq 1..N
    BY <1>3
  <2> QED BY <2>1, <2>2, FS_Subset
<1>6. Ordered(S, before) \in Seq(S) /\ Range(Ordered(S, before)) = S
  BY <1>4, <1>5, OrderedFacts
<1>7. Ordered(S, before) \in Seq(Nodes(sl))
  BY <1>6, WiderSeq
<1> QED BY <1>6, <1>7 DEF before

Trees(sl) == [ahead : Seq(Nodes(sl)), visited : SUBSET Nodes(sl),
              children : [Nodes(sl) -> Seq(Nodes(sl))]]

(* A step of building the tree.                                             *)
LEMMA BuildTyped ==
  ASSUME NEW A, NEW sl \in Seq(A), NEW tree \in Trees(sl)
  PROVE  BuildTree(sl, tree) \in Trees(sl)
<1> DEFINE S == Nodes(sl)
           node == Head(tree.ahead)
           visited == tree.visited \cup {node}
           children == Ordered(DirectChildren(sl, node, visited), Ascending(sl))
<1>1. /\ tree.ahead \in Seq(S) /\ tree.visited \in SUBSET S
      /\ tree.children \in [S -> Seq(S)]
  BY DEF Trees
<1>2. CASE tree.ahead = <<>>
  BY <1>2 DEF BuildTree
<1>3. CASE tree.ahead # <<>>
  <2>1. node \in S /\ Tail(tree.ahead) \in Seq(S)
    BY <1>1, <1>3, HeadTailProperties
  <2>2. children \in Seq(S)
    <3>1. DirectChildren(sl, node, visited) \in SUBSET Nodes(sl)
      BY DEF DirectChildren
    <3> QED BY <3>1, NodesOrdered
  <2>3. BuildTree(sl, tree) =
          [ahead |-> children \o Tail(tree.ahead), visited |-> visited,
           children |-> [tree.children EXCEPT ![node] = children]]
    BY <1>3, Zenon DEF BuildTree
  <2>4. visited \in SUBSET S
    BY <1>1, <2>1
  <2> HIDE DEF children, visited, node, S
  <2>5. children \o Tail(tree.ahead) \in Seq(S)
    BY <2>1, <2>2, ConcatProperties
  <2>6. [tree.children EXCEPT ![node] = children] \in [S -> Seq(S)]
    BY <1>1, <2>1, <2>2
  <2> QED BY <2>3, <2>4, <2>5, <2>6 DEF Trees, S
<1> QED BY <1>2, <1>3

(* A node's children are nodes.                                             *)
LEMMA ChildrenTyped ==
  ASSUME NEW A, NEW sl \in Seq(A)
  PROVE  TopologicalSort(sl) \in [Nodes(sl) -> Seq(Nodes(sl))]
<1> DEFINE N == Top(sl)
           T == Trees(sl)
           base == [ahead |-> <<N>>, visited |-> {}, children |-> [n \in Nodes(sl) |-> <<>>]]
           P(g) == g = [i \in 0..N |-> IF i = 0 THEN base ELSE BuildTree(sl, g[i - 1])]
           f == CHOOSE g : P(g)
           F == [k \in 1..N |-> [x \in T |-> BuildTree(sl, x)]]
<1>1. N \in Nat \ {0} /\ N \in Nodes(sl)
  BY LenProperties DEF Top, Nodes
<1>2. TopologicalSort(sl) = f[N].children
  BY Zenon DEF TopologicalSort
<1> HIDE DEF f
<1>3. base \in T
  <2>1. <<N>> \in Seq(Nodes(sl)) /\ [n \in Nodes(sl) |-> <<>>] \in [Nodes(sl) -> Seq(Nodes(sl))]
    <3> HIDE DEF N
    <3>1. <<>> \in Seq(Nodes(sl))
      BY EmptySeq
    <3> QED BY <1>1, <3>1
  <2> QED BY <2>1 DEF Trees
<1>4. F \in [1..N -> [T -> T]]
  BY BuildTyped
<1> HIDE DEF N, T, base
<1>5. PICK g \in [0..N -> T] : Iterated(g, N, base, F)
  <2> HIDE DEF F
  <2> QED BY <1>1, <1>3, <1>4, Iterates
<1>6. g[0] = base /\ \A k \in 1..N : g[k] = F[k][g[k - 1]]
  BY <1>5 DEF Iterated
<1>7. \A k \in 1..N : g[k] = BuildTree(sl, g[k - 1])
  <2> TAKE k \in 1..N
  <2>1. k - 1 \in 0..N
    BY <1>1
  <2>2. g[k - 1] \in T
    BY <1>5, <2>1
  <2> QED BY <1>6, <2>2
<1>8. P(g)
  <2>1. \A i \in 0..N : g[i] = IF i = 0 THEN base ELSE BuildTree(sl, g[i - 1])
    <3>1. \A i \in 0..N : i = 0 \/ i \in 1..N
      BY <1>1
    <3> QED BY <1>6, <1>7, <3>1
  <2>2. g = [i \in 0..N |-> g[i]]
    BY <1>5
  <2> QED BY <2>1, <2>2
<1> HIDE DEF P
<1>9. P(f)
  BY <1>8, Zenon DEF f
<1>10. \A i \in 0..N : f[i] = IF i = 0 THEN base ELSE BuildTree(sl, f[i - 1])
  BY <1>9 DEF P
<1> DEFINE S == {i \in Nat : f[i] \in T}
<1>11. 0 \in S
  BY <1>1, <1>3, <1>10
<1>12. ASSUME NEW i \in 0..(N - 1), i \in S PROVE i + 1 \in S
  <2>1. i + 1 \in 0..N /\ i + 1 # 0 /\ (i + 1) - 1 = i /\ i + 1 \in Nat
    BY <1>1
  <2>2. f[i + 1] = BuildTree(sl, f[i])
    BY <1>10, <2>1
  <2>3. f[i] \in T
    BY <1>12
  <2>4. BuildTree(sl, f[i]) \in T
    BY <2>3, BuildTyped DEF T
  <2> QED BY <2>1, <2>2, <2>4
<1> HIDE DEF S
<1>13. \A i \in 0..N : i \in S
  BY <1>1, <1>11, <1>12, UpTo
<1>14. f[N] \in T
  <2>1. N \in S
    BY <1>1, <1>13
  <2> QED BY <2>1 DEF S
<1> QED BY <1>2, <1>14 DEF T, Trees

(* What sequences joined hold.                                              *)
LEMMA JoinHolds ==
  ASSUME NEW B, NEW s \in Seq(Seq(B)), NEW i \in 1..Len(s)
  PROVE  Range(s[i]) \subseteq Range(FlattenSeq(s))
<1> DEFINE u == FlattenSeq(s)
<1>1. PICK o : u \in Seq(B) /\ Offsets(o, s) /\ Segmented(u, o, s)
  BY Segments
<1> HIDE DEF u
<1>2. s[i] \in Seq(B)
  BY ElementOfSeq
<1>3. /\ Range(s[i]) = {s[i][j] : j \in 1..Len(s[i])} /\ Range(u) = {u[j] : j \in 1..Len(u)}
  BY <1>1, <1>2, OwnRange
<1>4. ASSUME NEW j \in 1..Len(s[i]) PROVE s[i][j] \in Range(u)
  <2>1. o[i - 1] + j \in 1..Len(u) /\ u[o[i - 1] + j] = s[i][j]
    BY <1>1 DEF Segmented
  <2> QED BY <1>3, <2>1
<1> QED BY <1>3, <1>4 DEF u

SliceTokens(w, sl, n) == {t \in 1..Len(w) : n = Top(sl) \/ (w[t] # <<>> /\ w[t] \in sl[n])}

(* A slice of a tokenizer.                                                  *)
SliceIs(w, sl, n, slice) ==
  /\ slice.children \in Seq(Nodes(sl))
  /\ slice.mask_with_children = SliceTokens(w, sl, n)
  /\ slice.trie_with_children = Filter(w, SliceTokens(w, sl, n))
  /\ \A c \in Range(slice.children) :
       slice.trie_without_child[c] = Filter(w, SliceTokens(w, sl, n) \ SliceTokens(w, sl, c))
  /\ slice.trie_without_children =
       Filter(w, SliceTokens(w, sl, n) \ UNION {SliceTokens(w, sl, c) : c \in Range(slice.children)})

(* The slicer's slices are such.                                            *)
LEMMA SlicesAre ==
  ASSUME NEW A, NEW sl \in Seq(A), NEW w \in Seq(Seq(Nat)), NEW n \in Nodes(sl)
  PROVE  SliceIs(w, sl, n, TokenizerSlices(w, sl)[n])
<1> DEFINE children == TopologicalSort(sl)
           tokens == [k \in Nodes(sl) |-> SliceTokens(w, sl, k)]
           Without(k, cs) == Filter(w, tokens[k] \ UNION {tokens[c] : c \in cs})
           slice == TokenizerSlices(w, sl)[n]
<1>1. children[n] \in Seq(Nodes(sl))
  BY ChildrenTyped
<1>2. TokenizerSlices(w, sl) =
        [k \in Nodes(sl) |->
          [children |-> children[k],
           mask_with_children |-> tokens[k],
           trie_with_children |-> Filter(w, tokens[k]),
           trie_without_child |-> [c \in Range(children[k]) |-> Without(k, {c})],
           trie_without_children |-> Without(k, Range(children[k]))]]
  BY Zenon DEF TokenizerSlices, SliceTokens
<1> HIDE DEF children
<1>3. /\ slice.children = children[n]
      /\ slice.mask_with_children = tokens[n]
      /\ slice.trie_with_children = Filter(w, tokens[n])
      /\ slice.trie_without_child = [c \in Range(children[n]) |-> Without(n, {c})]
      /\ slice.trie_without_children = Without(n, Range(children[n]))
  <2> HIDE DEF tokens, Without
  <2>1. slice = [children |-> children[n],
                 mask_with_children |-> tokens[n],
                 trie_with_children |-> Filter(w, tokens[n]),
                 trie_without_child |-> [c \in Range(children[n]) |-> Without(n, {c})],
                 trie_without_children |-> Without(n, Range(children[n]))]
    BY <1>2, Zenon
  <2> DEFINE x == [c \in Range(children[n]) |-> Without(n, {c})]
  <2> HIDE DEF slice, x
  <2>2. /\ slice.children = children[n]
        /\ slice.mask_with_children = tokens[n]
        /\ slice.trie_with_children = Filter(w, tokens[n])
        /\ slice.trie_without_child = x
        /\ slice.trie_without_children = Without(n, Range(children[n]))
    BY <2>1 DEF x
  <2> QED BY <2>2 DEF x
<1> HIDE DEF slice
<1>4. Range(children[n]) \subseteq Nodes(sl)
  BY <1>1, OwnRange
<1>5. \A k \in Nodes(sl) : tokens[k] = SliceTokens(w, sl, k)
  OBVIOUS
<1>6. ASSUME NEW cs \in SUBSET Nodes(sl)
      PROVE  Without(n, cs) = Filter(w, SliceTokens(w, sl, n) \ UNION {SliceTokens(w, sl, c) : c \in cs})
  <2>1. {tokens[c] : c \in cs} = {SliceTokens(w, sl, c) : c \in cs}
    BY <1>5
  <2> QED BY <1>5, <2>1
<1>7. ASSUME NEW c \in Range(children[n])
      PROVE  Without(n, {c}) = Filter(w, SliceTokens(w, sl, n) \ SliceTokens(w, sl, c))
  <2>1. {c} \in SUBSET Nodes(sl)
    BY <1>4
  <2>2. UNION {SliceTokens(w, sl, k) : k \in {c}} = SliceTokens(w, sl, c)
    OBVIOUS
  <2> HIDE DEF Without
  <2> QED BY <1>6, <2>1, <2>2
<1> HIDE DEF tokens, Without
<1>8. \A c \in Range(slice.children) :
        slice.trie_without_child[c] = Filter(w, SliceTokens(w, sl, n) \ SliceTokens(w, sl, c))
  BY <1>3, <1>7
<1>9. slice.trie_without_children =
        Filter(w, SliceTokens(w, sl, n) \ UNION {SliceTokens(w, sl, c) : c \in Range(slice.children)})
  BY <1>3, <1>4, <1>6
<1> QED BY <1>1, <1>3, <1>5, <1>8, <1>9 DEF SliceIs, slice

-----------------------------------------------------------------------------
(* Applying slices.                                                         *)

(* The slicer is that of its vocabulary and slices.                         *)
Built ==
  /\ words \in Seq(Seq(Nat)) /\ slices \in Seq(SUBSET Seq(Nat))
  /\ slicer = TokenizerSlices(words, slices)

Tries == {Filter(words, m) : m \in SUBSET (1..Len(words))}
Results == [applied : BOOLEAN, mask : SUBSET (1..Len(words)), tries : Seq(Tries)]

(* A token is allowed outright or in a trie left to walk.                   *)
CoveredBy(r, t) ==
  t \in r.mask \/ \E m \in SUBSET (1..Len(words)) : t \in m /\ Filter(words, m) \in Range(r.tries)

(* Once applied, a slice allows outright only what is in the language L,    *)
(* and covers all its tokens.                                               *)
Covers(L, n, r) ==
  /\ r \in Results /\ (~r.applied => r.mask = {})
  /\ \A t \in r.mask : words[t] # <<>> /\ words[t] \in L
  /\ r.applied => \A t \in SliceTokens(words, slices, n) : words[t] # <<>> => CoveredBy(r, t)

Shown(L) == {i \in 1..Len(slices) : slices[i] \subseteq L}

(* A slice not applied allows nothing by itself.                            *)
LEMMA NotAppliedCovers ==
  ASSUME NEW L, NEW n
  PROVE  Covers(L, n, NotApplied)
<1>1. <<>> \in Seq(Tries)
  BY EmptySeq
<1> QED BY <1>1 DEF Covers, NotApplied, Results

(* What is left when some, but not all, children were applied.              *)
LEMMA TriesLeftCover ==
  ASSUME Built, NEW n \in Nodes(slices), NEW applied \in SUBSET Range(slicer[n].children)
  PROVE  /\ TriesLeft(n, applied) \in Seq(Tries)
         /\ \A t \in SliceTokens(words, slices, n) :
              \/ \E c \in applied : t \in SliceTokens(words, slices, c)
              \/ \E m \in SUBSET (1..Len(words)) :
                   t \in m /\ Filter(words, m) \in Range(TriesLeft(n, applied))
<1> DEFINE slice == slicer[n]
           Own(k) == SliceTokens(words, slices, k)
           below == UNION {Own(c) : c \in Range(slice.children)}
           left == Ordered(Range(slice.children) \ applied, Ascending(slices))
           tries == [i \in 1..Len(left) |-> slicer[left[i]].trie_with_children]
           T == Range(TriesLeft(n, applied))
<1>1. words \in Seq(Seq(Nat)) /\ slices \in Seq(SUBSET Seq(Nat))
  BY DEF Built
<1>2. \A k \in Nodes(slices) : SliceIs(words, slices, k, slicer[k])
  BY SlicesAre DEF Built
<1>3. /\ slice.children \in Seq(Nodes(slices)) /\ Range(slice.children) \subseteq Nodes(slices)
      /\ slice.trie_without_children = Filter(words, Own(n) \ below)
      /\ \A c \in Range(slice.children) :
           slice.trie_without_child[c] = Filter(words, Own(n) \ Own(c))
  BY <1>2, OwnRange DEF SliceIs
<1>4. \A k \in Nodes(slices) : slicer[k].trie_with_children = Filter(words, Own(k))
  BY <1>2 DEF SliceIs
<1>5. \A k : Own(k) \in SUBSET (1..Len(words))
  BY DEF SliceTokens
<1>6. left \in Seq(Nodes(slices)) /\ Range(left) = Range(slice.children) \ applied
  <2>1. Range(slice.children) \ applied \in SUBSET Nodes(slices)
    BY <1>3
  <2> QED BY <1>1, <2>1, NodesOrdered
<1> HIDE DEF slice, Own, left, tries, below, T
<1>7. CASE \E c \in applied : applied = {c}
  <2>1. PICK c \in applied : applied = {c}
    BY <1>7
  <2>2. (CHOOSE x \in applied : TRUE) = c
    BY <2>1
  <2>3. TriesLeft(n, applied) = <<slice.trie_without_child[c]>>
    BY <1>7, <2>2 DEF TriesLeft, slice
  <2>4. slice.trie_without_child[c] = Filter(words, Own(n) \ Own(c))
    BY <1>3, <2>1 DEF slice
  <2> DEFINE x == Filter(words, Own(n) \ Own(c))
  <2>5. x \in Tries
    <3>1. Own(n) \ Own(c) \in SUBSET (1..Len(words))
      BY <1>5
    <3> QED BY <3>1 DEF Tries
  <2> HIDE DEF x
  <2>6. <<x>> \in Seq(Tries) /\ Range(<<x>>) = {x}
    <3>1. <<x>> \in Seq(Tries) /\ Len(<<x>>) = 1 /\ <<x>>[1] = x
      BY <2>5
    <3>2. Range(<<x>>) = {<<x>>[i] : i \in 1..Len(<<x>>)}
      BY <3>1, OwnRange
    <3> QED BY <3>1, <3>2
  <2>7. TriesLeft(n, applied) \in Seq(Tries) /\ T = {x}
    BY <2>3, <2>4, <2>6 DEF x, T
  <2>8. ASSUME NEW t \in Own(n), t \notin Own(c)
        PROVE  \E m \in SUBSET (1..Len(words)) : t \in m /\ Filter(words, m) \in T
    <3>1. t \in Own(n) \ Own(c) /\ Own(n) \ Own(c) \in SUBSET (1..Len(words))
      BY <1>5, <2>8
    <3> QED BY <2>7, <3>1 DEF x
  <2> QED BY <2>1, <2>7, <2>8 DEF Own, T
<1>8. CASE ~(\E c \in applied : applied = {c})
  <2>1. TriesLeft(n, applied) = Append(tries, slice.trie_without_children)
    BY <1>8 DEF TriesLeft, left, tries, slice
  <2>2. Len(left) \in Nat /\ \A i \in 1..Len(left) : left[i] \in Nodes(slices)
    BY <1>6, LenProperties, ElementOfSeq
  <2>3. \A i \in 1..Len(left) : tries[i] = Filter(words, Own(left[i])) /\ tries[i] \in Tries
    BY <1>4, <1>5, <2>2 DEF tries, Tries
  <2>4. tries \in [1..Len(left) -> Tries]
    BY <2>3 DEF tries
  <2>5. tries \in Seq(Tries) /\ Len(tries) = Len(left)
    BY <2>2, <2>4, FunctionIsSequence
  <2> DEFINE x == Filter(words, Own(n) \ below)
  <2>6. x \in Tries /\ slice.trie_without_children = x
    <3>1. Own(n) \ below \in SUBSET (1..Len(words))
      BY <1>5
    <3> QED BY <1>3, <3>1 DEF Tries, slice
  <2> HIDE DEF x
  <2>7. /\ Append(tries, x) \in Seq(Tries)
        /\ Len(Append(tries, x)) = Len(tries) + 1
        /\ \A i \in 1..Len(tries) : Append(tries, x)[i] = tries[i]
        /\ Append(tries, x)[Len(tries) + 1] = x
    BY <2>5, <2>6, AppendProperties
  <2> DEFINE u == TriesLeft(n, applied)
  <2>8. /\ u \in Seq(Tries) /\ Len(u) = Len(left) + 1
        /\ \A i \in 1..Len(left) : u[i] = Filter(words, Own(left[i]))
        /\ u[Len(left) + 1] = x
    BY <2>1, <2>3, <2>5, <2>6, <2>7
  <2> HIDE DEF u
  <2>9. T = {u[i] : i \in 1..Len(u)}
    BY <2>8, OwnRange DEF T, u
  <2>10. x \in T /\ \A i \in 1..Len(left) : Filter(words, Own(left[i])) \in T
    <3>1. Len(left) + 1 \in 1..Len(u) /\ \A i \in 1..Len(left) : i \in 1..Len(u)
      BY <2>2, <2>8
    <3> QED BY <2>8, <2>9, <3>1
  <2>11. Range(left) = {left[i] : i \in 1..Len(left)}
    BY <1>6, OwnRange
  <2>12. ASSUME NEW t \in Own(n), ~(\E c \in applied : t \in Own(c))
         PROVE  \E m \in SUBSET (1..Len(words)) : t \in m /\ Filter(words, m) \in T
    <3>1. CASE t \in below
      <4>1. PICK c \in Range(slice.children) : t \in Own(c)
        BY <3>1 DEF below
      <4>2. c \in Range(left)
        BY <1>6, <2>12, <4>1 DEF slice
      <4>3. PICK i \in 1..Len(left) : c = left[i]
        BY <2>11, <4>2
      <4> QED BY <1>5, <2>10, <4>1, <4>3
    <3>2. CASE t \notin below
      <4>1. t \in Own(n) \ below /\ Own(n) \ below \in SUBSET (1..Len(words))
        BY <1>5, <2>12, <3>2
      <4> QED BY <2>10, <4>1 DEF x
    <3> QED BY <3>1, <3>2
  <2> QED BY <2>8, <2>12 DEF Own, T, u
<1> QED BY <1>7, <1>8

(* A node's result covers, if those of its children do.                     *)
LEMMA ApplyNodeCovers ==
  ASSUME Built, NEW L, subsumes' \in SUBSET Shown(L), NEW n \in Nodes(slices), NEW results,
         \A i \in 1..Len(slicer[n].children) : Covers(L, slicer[n].children[i], results[i])
  PROVE  Covers(L, n, ApplyNode(n, results))
<1> DEFINE children == slicer[n].children
           applied == {i \in 1..Len(children) : results[i].applied}
           own == SliceTokens(words, slices, n)
           r == ApplyNode(n, results)
<1>1. words \in Seq(Seq(Nat)) /\ slices \in Seq(SUBSET Seq(Nat))
  BY DEF Built
<1>2. SliceIs(words, slices, n, slicer[n])
  BY SlicesAre DEF Built
<1>3. /\ children \in Seq(Nodes(slices)) /\ Len(children) \in Nat
      /\ slicer[n].mask_with_children = own /\ own \in SUBSET (1..Len(words))
  BY <1>2, LenProperties DEF SliceIs, SliceTokens
<1>4. \A i \in 1..Len(children) :
        /\ results[i] \in Results /\ children[i] \in Range(children)
        /\ \A t \in results[i].mask : words[t] # <<>> /\ words[t] \in L
        /\ results[i].applied => \A t \in SliceTokens(words, slices, children[i]) :
             words[t] # <<>> => CoveredBy(results[i], t)
  <2>1. Range(children) = {children[i] : i \in 1..Len(children)}
    BY <1>3, OwnRange
  <2> QED BY <2>1 DEF Covers
<1> HIDE DEF children, own, r
<1>5. CASE Matched(n)
  <2>1. r = [applied |-> TRUE, mask |-> own, tries |-> <<>>]
    BY <1>3, <1>5 DEF ApplyNode, r, own
  <2>2. r.applied = TRUE /\ r.mask = own /\ r.tries = <<>>
    BY <2>1
  <2>3. <<>> \in Seq(Tries)
    BY EmptySeq
  <2>4. r \in Results
    BY <1>3, <2>1, <2>3 DEF Results
  <2>5. n # Top(slices) /\ slices[n] \subseteq L
    BY <1>5 DEF Matched, Shown
  <2>6. \A t \in own : words[t] # <<>> /\ words[t] \in L
    BY <2>5 DEF own, SliceTokens
  <2>7. \A t \in own : CoveredBy(r, t)
    BY <2>2 DEF CoveredBy
  <2> QED BY <2>2, <2>4, <2>6, <2>7 DEF Covers, r, own
<1>6. CASE ~Matched(n) /\ applied = {}
  <2>1. r = NotApplied
    BY <1>6, Zenon DEF ApplyNode, r, children
  <2> QED BY <2>1, NotAppliedCovers DEF r
<1>7. CASE ~Matched(n) /\ applied # {}
  <2> DEFINE given == {children[i] : i \in applied}
             mask == UNION {results[i].mask : i \in applied}
             each == [i \in 1..Len(children) |-> results[i].tries]
             joined == FlattenSeq(each)
             left == TriesLeft(n, given)
  <2>1. r = [applied |-> TRUE, mask |-> mask, tries |-> joined \o left]
    BY <1>7, Zenon DEF ApplyNode, r, children
  <2>2. given \in SUBSET Range(slicer[n].children)
    BY <1>4 DEF children
  <2>3. /\ left \in Seq(Tries)
        /\ \A t \in own : \/ \E c \in given : t \in SliceTokens(words, slices, c)
                          \/ \E m \in SUBSET (1..Len(words)) :
                               t \in m /\ Filter(words, m) \in Range(left)
    <3> HIDE DEF given
    <3> QED BY <2>2, TriesLeftCover DEF own
  <2>4. each \in [1..Len(children) -> Seq(Tries)]
    BY <1>4 DEF Results
  <2>5. each \in Seq(Seq(Tries)) /\ Len(each) = Len(children)
    <3> HIDE DEF each
    <3> QED BY <1>3, <2>4, FunctionIsSequence
  <2>6. \A i \in 1..Len(children) : each[i] = results[i].tries
    OBVIOUS
  <2> HIDE DEF each
  <2>7. joined \in Seq(Tries)
    BY <2>5, Segments
  <2>8. \A i \in 1..Len(children) : Range(results[i].tries) \subseteq Range(joined)
    BY <2>5, <2>6, JoinHolds
  <2> HIDE DEF joined, left
  <2>9. joined \o left \in Seq(Tries) /\ Range(joined \o left) = Range(joined) \cup Range(left)
    <3>1. Range(joined \o left) = Range(joined) \cup Range(left)
      BY <2>3, <2>7, RangeConcatenation
    <3>2. joined \o left \in Seq(Tries)
      BY <2>3, <2>7, ConcatProperties
    <3> QED BY <3>1, <3>2
  <2> DEFINE tries == joined \o left
  <2>10. tries \in Seq(Tries) /\ Range(tries) = Range(joined) \cup Range(left)
    BY <2>9
  <2>11. r = [applied |-> TRUE, mask |-> mask, tries |-> tries]
    BY <2>1
  <2> HIDE DEF tries, given
  <2>12. mask \in SUBSET (1..Len(words))
    BY <1>4 DEF Results
  <2>13. \A t \in mask : words[t] # <<>> /\ words[t] \in L
    BY <1>4
  <2>14. \A i \in applied : results[i].mask \subseteq mask
    OBVIOUS
  <2> HIDE DEF mask
  <2>15. r \in Results /\ r.applied = TRUE /\ r.mask = mask /\ r.tries = tries
    BY <2>10, <2>11, <2>12 DEF Results
  <2>16. ASSUME NEW t \in own, words[t] # <<>> PROVE CoveredBy(r, t)
    <3>1. CASE \E m \in SUBSET (1..Len(words)) : t \in m /\ Filter(words, m) \in Range(left)
      BY <2>10, <2>15, <3>1 DEF CoveredBy
    <3>2. CASE \E c \in given : t \in SliceTokens(words, slices, c)
      <4>1. PICK i \in applied : t \in SliceTokens(words, slices, children[i])
        BY <3>2 DEF given
      <4>2. i \in 1..Len(children) /\ CoveredBy(results[i], t)
        BY <1>4, <2>16, <4>1
      <4>3. CASE t \in results[i].mask
        BY <2>14, <2>15, <4>1, <4>3 DEF CoveredBy
      <4>4. CASE t \notin results[i].mask
        <5>1. PICK m \in SUBSET (1..Len(words)) :
                t \in m /\ Filter(words, m) \in Range(results[i].tries)
          BY <4>2, <4>4 DEF CoveredBy
        <5>2. Filter(words, m) \in Range(tries)
          BY <2>8, <2>10, <4>2, <5>1
        <5> QED BY <2>15, <5>1, <5>2 DEF CoveredBy
      <4> QED BY <4>3, <4>4
    <3> QED BY <2>3, <3>1, <3>2
  <2> QED BY <2>13, <2>15, <2>16 DEF Covers, r, own
<1> QED BY <1>5, <1>6, <1>7 DEF r

(* Applying from the top covers.                                            *)
LEMMA ApplySliceCovers ==
  ASSUME Built, NEW L, subsumes' \in SUBSET Shown(L), NEW top \in Nodes(slices)
  PROVE  Covers(L, top, ApplySlice(top))
<1> DEFINE N == Top(slices)
           S == {g \in [Nodes(slices) -> Results] : \A n \in Nodes(slices) : Covers(L, n, g[n])}
           Of(g, n) == ApplyNode(n, [i \in 1..Len(slicer[n].children) |-> g[slicer[n].children[i]]])
           Next1(g) == [n \in Nodes(slices) |-> Of(g, n)]
           base == [n \in Nodes(slices) |-> NotApplied]
           P(a) == a = [level \in 0..N |->
                     [n \in Nodes(slices) |->
                        IF level = 0 THEN NotApplied ELSE Of(a[level - 1], n)]]
           f == CHOOSE a : P(a)
           F == [k \in 1..N |-> [g \in S |-> Next1(g)]]
<1>1. slices \in Seq(SUBSET Seq(Nat)) /\ words \in Seq(Seq(Nat))
  BY DEF Built
<1>2. N \in Nat \ {0}
  BY <1>1, LenProperties DEF Top
<1>3. ApplySlice(top) = f[N][top]
  BY Zenon DEF ApplySlice
<1> HIDE DEF f
<1>4. base \in S
  <2>1. \A n \in Nodes(slices) : Covers(L, n, NotApplied) /\ NotApplied \in Results
    BY NotAppliedCovers DEF Covers
  <2> QED BY <2>1
<1>5. ASSUME NEW g \in S PROVE Next1(g) \in S
  <2>1. \A n \in Nodes(slices) : Covers(L, n, g[n])
    OBVIOUS
  <2>2. ASSUME NEW n \in Nodes(slices) PROVE Covers(L, n, Of(g, n))
    <3> DEFINE children == slicer[n].children
               results == [i \in 1..Len(children) |-> g[children[i]]]
    <3>1. children \in Seq(Nodes(slices))
      BY <1>1, SlicesAre DEF Built, SliceIs
    <3>2. \A i \in 1..Len(children) : children[i] \in Nodes(slices)
      BY <3>1, ElementOfSeq
    <3>3. \A i \in 1..Len(children) : Covers(L, children[i], results[i])
      BY <2>1, <3>2
    <3>4. Of(g, n) = ApplyNode(n, results)
      OBVIOUS
    <3> HIDE DEF results, S, Of
    <3>5. Covers(L, n, ApplyNode(n, results))
      BY <3>3, ApplyNodeCovers
    <3> QED BY <3>4, <3>5
  <2>3. \A n \in Nodes(slices) : Of(g, n) \in Results
    <3> HIDE DEF Of
    <3> QED BY <2>2 DEF Covers
  <2> HIDE DEF Of
  <2> QED BY <2>2, <2>3
<1>6. F \in [1..N -> [S -> S]]
  <2> HIDE DEF S, Next1
  <2> QED BY <1>5
<1> HIDE DEF N, S, base, Of
<1>7. PICK g \in [0..N -> S] : Iterated(g, N, base, F)
  <2> HIDE DEF F
  <2> QED BY <1>2, <1>4, <1>6, Iterates
<1>8. g[0] = base /\ \A k \in 1..N : g[k] = F[k][g[k - 1]]
  BY <1>7 DEF Iterated
<1>9. \A k \in 1..N : g[k] = Next1(g[k - 1])
  <2> TAKE k \in 1..N
  <2>1. k - 1 \in 0..N
    BY <1>2
  <2>2. g[k - 1] \in S
    BY <1>7, <2>1
  <2> HIDE DEF Next1
  <2> QED BY <1>8, <2>2
<1> DEFINE At(a, level) == [n \in Nodes(slices) |->
                              IF level = 0 THEN NotApplied ELSE Of(a[level - 1], n)]
<1>10. \A i \in 0..N : g[i] = At(g, i)
  <2> TAKE i \in 0..N
  <2>1. CASE i = 0
    BY <1>8, <2>1 DEF base
  <2>2. CASE i # 0
    <3>1. i \in 1..N
      BY <1>2, <2>2
    <3> QED BY <1>9, <2>2, <3>1
  <2> QED BY <2>1, <2>2
<1>11. P(g)
  <2> HIDE DEF At
  <2>1. g = [i \in 0..N |-> At(g, i)]
    BY <1>7, <1>10
  <2> QED BY <2>1 DEF At
<1>12. P(f)
  <2> HIDE DEF P
  <2> QED BY <1>11, Zenon DEF f
<1>13. \A i \in 0..N : f[i] = At(f, i)
  <2>1. f = [i \in 0..N |-> At(f, i)]
    BY <1>12
  <2> HIDE DEF At, P
  <2> QED BY <2>1
<1> HIDE DEF P
<1> DEFINE Good == {i \in Nat : f[i] \in S}
<1>14. 0 \in Good
  <2>1. f[0] = At(f, 0) /\ 0 \in 0..N
    BY <1>2, <1>13
  <2>2. f[0] = base
    BY <2>1 DEF base
  <2> QED BY <1>4, <2>2
<1>15. ASSUME NEW i \in 0..(N - 1), i \in Good PROVE i + 1 \in Good
  <2> DEFINE k == i + 1
  <2>1. k \in 0..N /\ k # 0 /\ k - 1 = i /\ k \in Nat
    BY <1>2
  <2> HIDE DEF k
  <2>2. f[k] = Next1(f[i])
    <3>1. f[k] = At(f, k)
      BY <1>13, <2>1
    <3> QED BY <2>1, <3>1
  <2>3. f[i] \in S
    BY <1>15
  <2>4. Next1(f[i]) \in S
    <3> HIDE DEF Next1
    <3> QED BY <1>5, <2>3
  <2> HIDE DEF Next1
  <2> QED BY <2>1, <2>2, <2>4 DEF k
<1> HIDE DEF Good
<1>16. \A i \in 0..N : i \in Good
  BY <1>2, <1>14, <1>15, UpTo
<1>17. f[N] \in S
  <2>1. N \in Good
    BY <1>2, <1>16
  <2> QED BY <2>1 DEF Good
<1>18. Covers(L, top, f[N][top])
  BY <1>17 DEF S
<1> QED BY <1>3, <1>18

-----------------------------------------------------------------------------
(* The slicer's masks.                                                      *)

AllTokens == 1..Len(words)

(* The tokens of a vocabulary that begin the forced bytes s, and those that *)
(* go on beyond them, are those the walks are for.                          *)
BeginTokens(ws, s) == {t \in 1..Len(ws) : ws[t] # <<>> /\ IsPrefix(ws[t], s)}
BeyondTokens(ws, s, l) == {t \in 1..Len(ws) : Wanted(s, l, ws[t])}

(* Together they are what the walks of the whole vocabulary find.           *)
LEMMA ExactTokens ==
  ASSUME NEW ws \in Seq(Seq(Nat)), NEW s \in Seq(Nat), NEW l
  PROVE  /\ BeyondTokens(ws, s, l) = WantedTokens(ws, 1..Len(ws), s, l)
         /\ BeginTokens(ws, s) \cup BeyondTokens(ws, s, l) = BiasTokens(ws, 1..Len(ws), s, l)
<1> DEFINE All == 1..Len(ws)
<1>1. \A t \in All : ws[t] \in Seq(Nat) /\ Len(ws[t]) \in Nat
  BY ElementOfSeq, LenProperties
<1>2. ASSUME NEW t \in All, IsStrictPrefix(s, ws[t]) PROVE ws[t] # <<>>
  <2> SUFFICES ASSUME ws[t] = <<>> PROVE FALSE
    OBVIOUS
  <2>1. Len(s) <= Len(ws[t]) /\ s # ws[t]
    BY <1>2 DEF IsStrictPrefix, IsPrefix
  <2>2. Len(ws[t]) = 0 /\ Len(s) \in Nat
    BY EmptySeq, LenProperties
  <2>3. s = <<>>
    BY <2>1, <2>2, EmptySeq
  <2> QED BY <2>1, <2>3
<1>3. TextTokens(ws, All) = {t \in All : ws[t] # <<>>}
  BY DEF TextTokens
<1>4. \A t \in All : Wanted(s, l, ws[t]) => ws[t] # <<>>
  BY <1>2 DEF Wanted
<1>5. /\ BeyondTokens(ws, s, l) = {t \in All : Wanted(s, l, ws[t])}
      /\ BeginTokens(ws, s) = {t \in All : ws[t] # <<>> /\ IsPrefix(ws[t], s)}
  BY DEF BeyondTokens, BeginTokens
<1> HIDE DEF All
<1>6. BeyondTokens(ws, s, l) = WantedTokens(ws, All, s, l)
  BY <1>3, <1>4, <1>5 DEF WantedTokens
<1>7. BiasTokens(ws, All, s, l)
        = {t \in All : ws[t] # <<>> /\ (IsPrefix(ws[t], s) \/ Wanted(s, l, ws[t]))}
  BY <1>3 DEF BiasTokens
<1>8. BeginTokens(ws, s) \cup BeyondTokens(ws, s, l) = BiasTokens(ws, All, s, l)
  BY <1>4, <1>5, <1>7
<1> QED BY <1>6, <1>8 DEF All

(* The walks ComputeBias() plans.                                           *)
PlannedWalks(plan, l, s) ==
  IF plan.applied
  THEN FlattenSeq([i \in 1..Len(plan.tries) |-> AddBias(plan.tries[i], l, <<>>)])
  ELSE AddBias(TopSlice.trie_with_children, l, s)

(* The plan's mask and walks find, together, exactly the tokens to find.    *)
LEMMA PlanCovers ==
  ASSUME Built, FakeToken \in Nat, FakeToken > Len(words), NEW l, PrefixClosed(l),
         NEW s \in Seq(Nat), NEW plan, Covers(l, Top(slices), plan),
         plan.applied => s = <<>>
  PROVE  LET walks == PlannedWalks(plan, l, s)
         IN  /\ walks \in Seq(Range(walks))
             /\ \A i \in DOMAIN walks : Sound(walks[i])
             /\ FakeToken \notin plan.mask
             /\ plan.mask \cup AllowedByAll(walks) = BiasTokens(words, AllTokens, s, l)
<1> DEFINE walks == PlannedWalks(plan, l, s)
<1>1. words \in Seq(Seq(Nat)) /\ slices \in Seq(SUBSET Seq(Nat))
  BY DEF Built
<1>2. Top(slices) \in Nodes(slices) /\ Len(words) \in Nat
  BY <1>1, LenProperties DEF Top, Nodes
<1>3. SliceTokens(words, slices, Top(slices)) = AllTokens
  BY DEF SliceTokens, AllTokens
<1>4. TopSlice.trie_with_children = Filter(words, AllTokens)
  <2>1. SliceIs(words, slices, Top(slices), TokenizerSlices(words, slices)[Top(slices)])
    BY <1>1, <1>2, SlicesAre
  <2>2. SliceIs(words, slices, Top(slices), TopSlice)
    BY <2>1 DEF Built, TopSlice
  <2> QED BY <1>3, <2>2 DEF SliceIs
<1>5. /\ plan \in Results /\ (~plan.applied => plan.mask = {})
      /\ \A t \in plan.mask : words[t] # <<>> /\ words[t] \in l
      /\ plan.applied => \A t \in AllTokens : words[t] # <<>> => CoveredBy(plan, t)
  BY <1>3 DEF Covers
<1>6. /\ plan.mask \in SUBSET (1..Len(words)) /\ plan.tries \in Seq(Tries)
      /\ FakeToken \notin plan.mask
  <2>1. plan.mask \in SUBSET (1..Len(words)) /\ plan.tries \in Seq(Tries)
    BY <1>5 DEF Results
  <2> QED BY <1>2, <2>1
<1>7. CASE ~plan.applied
  <2>1. walks = AddBias(Filter(words, AllTokens), l, s)
    BY <1>4, <1>7 DEF PlannedWalks
  <2>2. plan.mask = {}
    BY <1>5, <1>7
  <2> HIDE DEF walks
  <2>3. /\ walks \in Seq(Range(walks))
        /\ \A i \in DOMAIN walks : Sound(walks[i])
        /\ AllowedByAll(walks) = BiasTokens(words, AllTokens, s, l)
    BY <1>1, <2>1, BiasWalks
  <2> QED BY <1>6, <2>2, <2>3 DEF walks
<1>8. CASE plan.applied
  <2> DEFINE tries == plan.tries
             Of(x) == AddBias(x, l, <<>>)
             B == UNION {Range(Of(x)) : x \in Tries}
             each == [i \in 1..Len(tries) |-> Of(tries[i])]
  <2>1. s = <<>> /\ walks = FlattenSeq(each)
    BY <1>8 DEF PlannedWalks
  <2>2. ASSUME NEW m \in SUBSET (1..Len(words)), NEW x, x = Filter(words, m)
        PROVE  /\ Of(x) \in Seq(Range(Of(x)))
               /\ \A j \in DOMAIN Of(x) : Sound(Of(x)[j])
               /\ AllowedByAll(Of(x)) = BiasTokens(words, m, s, l)
    BY <1>1, <2>1, <2>2, BiasWalks
  <2>3. /\ Len(tries) \in Nat /\ \A i \in 1..Len(tries) : tries[i] \in Tries
        /\ Range(tries) = {tries[i] : i \in 1..Len(tries)}
    BY <1>6, LenProperties, ElementOfSeq, OwnRange
  <2>4. \A x \in Tries : \E m \in SUBSET (1..Len(words)) : x = Filter(words, m)
    BY DEF Tries
  <2> HIDE DEF Of, walks, tries
  <2>5. ASSUME NEW x \in Tries PROVE Of(x) \in Seq(B) /\ \A j \in DOMAIN Of(x) : Sound(Of(x)[j])
    <3>1. Of(x) \in Seq(Range(Of(x))) /\ \A j \in DOMAIN Of(x) : Sound(Of(x)[j])
      BY <2>2, <2>4
    <3>2. Range(Of(x)) \subseteq B
      OBVIOUS
    <3> HIDE DEF B
    <3> QED BY <3>1, <3>2, WiderSeq
  <2> HIDE DEF B
  <2>6. each \in [1..Len(tries) -> Seq(B)] /\ \A i \in 1..Len(tries) : each[i] = Of(tries[i])
    BY <2>3, <2>5
  <2>7. each \in Seq(Seq(B)) /\ Len(each) = Len(tries)
    <3> HIDE DEF each
    <3> QED BY <2>3, <2>6, FunctionIsSequence
  <2>8. \A i \in 1..Len(each) : \A j \in DOMAIN each[i] : Sound(each[i][j])
    <3> HIDE DEF each
    <3> QED BY <2>3, <2>5, <2>6, <2>7
  <2> HIDE DEF each
  <2>9. /\ walks \in Seq(Range(walks))
        /\ \A i \in DOMAIN walks : Sound(walks[i])
        /\ AllowedByAll(walks) = UNION {AllowedByAll(each[i]) : i \in 1..Len(each)}
    BY <2>1, <2>7, <2>8, JoinedWalks
  <2>10. \A t \in AllTokens : words[t] \in Seq(Nat)
    BY <1>1, ElementOfSeq DEF AllTokens
  <2>11. ASSUME NEW t \in plan.mask PROVE t \in BiasTokens(words, AllTokens, s, l)
    <3>1. t \in AllTokens /\ words[t] # <<>> /\ words[t] \in l
      BY <1>5, <1>6 DEF AllTokens
    <3>2. Wanted(<<>>, l, words[t])
      BY <2>10, <3>1, FromRoot
    <3> QED BY <2>1, <3>1, <3>2 DEF BiasTokens, TextTokens, AllTokens
  <2>12. ASSUME NEW i \in 1..Len(each), NEW t \in AllowedByAll(each[i])
         PROVE  t \in BiasTokens(words, AllTokens, s, l)
    <3>1. tries[i] \in Tries /\ each[i] = Of(tries[i])
      BY <2>3, <2>6, <2>7
    <3>2. PICK m \in SUBSET (1..Len(words)) : tries[i] = Filter(words, m)
      BY <2>4, <3>1
    <3>3. t \in BiasTokens(words, m, s, l)
      BY <2>2, <2>12, <3>1, <3>2
    <3> QED BY <3>3 DEF BiasTokens, TextTokens, AllTokens
  <2>13. ASSUME NEW t \in BiasTokens(words, AllTokens, s, l), t \notin plan.mask
         PROVE  t \in AllowedByAll(walks)
    <3>1. /\ t \in AllTokens /\ words[t] # <<>>
          /\ IsPrefix(words[t], s) \/ Wanted(s, l, words[t])
      BY DEF BiasTokens, TextTokens, AllTokens
    <3>2. PICK m \in SUBSET (1..Len(words)) : t \in m /\ Filter(words, m) \in Range(tries)
      BY <1>5, <1>8, <2>13, <3>1 DEF CoveredBy, tries
    <3>3. PICK i \in 1..Len(tries) : Filter(words, m) = tries[i]
      BY <2>3, <3>2
    <3>4. t \in BiasTokens(words, m, s, l)
      BY <3>1, <3>2 DEF BiasTokens, TextTokens, AllTokens
    <3>5. AllowedByAll(each[i]) = BiasTokens(words, m, s, l) /\ i \in 1..Len(each)
      BY <2>2, <2>6, <2>7, <3>3
    <3> QED BY <2>9, <3>4, <3>5
  <2>14. plan.mask \cup AllowedByAll(walks) = BiasTokens(words, AllTokens, s, l)
    BY <2>9, <2>11, <2>12, <2>13
  <2> QED BY <1>6, <2>9, <2>14 DEF walks
<1> QED BY <1>7, <1>8

(* A query in progress is one for what the mask should hold.                *)
Planned(walks, mask) ==
  /\ walks \in Seq(Range(walks)) /\ \A i \in DOMAIN walks : Sound(walks[i])
  /\ FakeToken \notin mask
  /\ query = "bias" => mask \cup AllowedByAll(walks) = PrefixTokens \cup ExtensionTokens
  /\ query = "extensions" => AllowedByAll(walks) = ExtensionTokens
SlicerInv ==
  /\ Built /\ words \in Vocabularies
  /\ query \in {"none", "bias", "extensions"}
  /\ query = "none" => WalkInit
  /\ query # "none" => \E walks, mask : Planned(walks, mask) /\ QueryInv(query, walks, mask)

(* The slicer begins without a query.                                       *)
LEMMA SlicerInvInit == Init => SlicerInv
<1> SUFFICES ASSUME Init PROVE SlicerInv
  OBVIOUS
<1>1. words \in Seq(Seq(Nat)) /\ slices \in Seq(SUBSET Seq(Nat))
  BY SlicerAssumption DEF Init
<1> QED BY <1>1 DEF Init, SlicerInv, Built, WalkInit

(* A call begins its query.                                                 *)
LEMMA CallBegins ==
  ASSUME NEW q \in {"bias", "extensions"}, WalkInit, NEW walks, NEW mask,
         walks \in Seq(Range(walks)), \A i \in DOMAIN walks : Sound(walks[i]),
         FakeToken \notin mask, StartQuery(q, walks, mask)
  PROVE  QueryInv(q, walks, mask)' /\ query' = q
<1>1. QueryInv(q, walks, mask)
  BY QueryInvInit
<1>2. [AskFor(q, walks, mask) \/ WalkNext]_walkVars
  BY DEF AskFor, WalkInit
<1>3. QueryInv(q, walks, mask)'
  BY <1>1, <1>2, QueryInvNext
<1> QED BY <1>3 DEF StartQuery

(* Languages are prefix-closed.                                             *)
LEMMA ClosedLanguages == \A l \in Languages : PrefixClosed(l)
<1> SUFFICES ASSUME NEW l \in Languages, NEW u \in l, NEW k \in 0..Len(u)
             PROVE  SubSeq(u, 1, k) \in l
  BY DEF PrefixClosed
<1>1. Prefixes(u) \subseteq l
  BY SlicerAssumption
<1>2. SubSeq(u, 1, k) \in Prefixes(u)
  BY Zenon DEF Prefixes
<1> QED BY <1>1, <1>2

(* ComputeBias() plans a query for what the mask should hold.               *)
LEMMA ComputeBiasKeeps ==
  ASSUME SlicerInv, NEW l \in Languages, NEW s \in Starts, ComputeBias(l, s)
  PROVE  SlicerInv'
<1>1. /\ query = "none" /\ WalkInit /\ Built /\ words \in Vocabularies
      /\ words' = words /\ slices' = slices /\ slicer' = slicer
      /\ language' = l /\ start' = s
      /\ subsumes' \in SUBSET Shown(l)
  BY DEF SlicerInv, ComputeBias, Idle, Call, Shown
<1>2. /\ s \in Seq(Nat) /\ FakeToken \in Nat /\ FakeToken > Len(words) /\ PrefixClosed(l)
  BY <1>1, SlicerAssumption, ClosedLanguages
<1>3. PICK subsume_possible \in BOOLEAN :
        LET plan == IF TopSlice.children # <<>> /\ s = <<>> /\ subsume_possible
                    THEN ApplySlice(Top(slices)) ELSE NotApplied
            walks == IF plan.applied
                     THEN FlattenSeq([i \in 1..Len(plan.tries) |->
                                        AddBias(plan.tries[i], l, <<>>)])
                     ELSE AddBias(TopSlice.trie_with_children, l, s)
        IN StartQuery("bias", walks, plan.mask)
  BY DEF ComputeBias
<1> DEFINE plan == IF TopSlice.children # <<>> /\ s = <<>> /\ subsume_possible
                   THEN ApplySlice(Top(slices)) ELSE NotApplied
           walks == PlannedWalks(plan, l, s)
           mask == plan.mask
<1>4. StartQuery("bias", walks, mask)
  BY <1>3, Zenon DEF PlannedWalks
<1>5. Top(slices) \in Nodes(slices)
  BY <1>1, LenProperties DEF Built, Top, Nodes
<1>6. Covers(l, Top(slices), ApplySlice(Top(slices)))
  BY <1>1, <1>5, ApplySliceCovers
<1>7. Covers(l, Top(slices), plan) /\ (plan.applied => s = <<>>)
  BY <1>6, NotAppliedCovers DEF NotApplied
<1> HIDE DEF plan
<1>8. /\ walks \in Seq(Range(walks)) /\ \A i \in DOMAIN walks : Sound(walks[i])
      /\ FakeToken \notin mask
      /\ mask \cup AllowedByAll(walks) = BiasTokens(words, AllTokens, s, l)
  BY <1>1, <1>2, <1>7, PlanCovers
<1> HIDE DEF walks, mask
<1>9. PICK ws, m : ws = walks /\ m = mask
  OBVIOUS
<1>10. QueryInv("bias", ws, m)' /\ query' = "bias"
  BY <1>1, <1>4, <1>8, <1>9, CallBegins
<1>11. BeginTokens(words, s) \cup BeyondTokens(words, s, l) = BiasTokens(words, AllTokens, s, l)
  BY <1>1, <1>2, ExactTokens DEF Built, AllTokens
<1>12. PrefixTokens' = BeginTokens(words, s) /\ ExtensionTokens' = BeyondTokens(words, s, l)
  BY <1>1 DEF PrefixTokens, ExtensionTokens, BeginTokens, BeyondTokens, Wanted
<1>13. (PrefixTokens \cup ExtensionTokens)' = BiasTokens(words, AllTokens, s, l)
  BY <1>11, <1>12
<1>14. Planned(ws, m)'
  BY <1>8, <1>9, <1>10, <1>13 DEF Planned
<1>15. Built' /\ words' \in Vocabularies
  BY <1>1 DEF Built
<1>16. QueryInv(query, ws, m)'
  BY <1>10
<1> QED BY <1>10, <1>14, <1>15, <1>16 DEF SlicerInv

(* HasValidExtensions() plans one for the extensions.                       *)
LEMMA HasValidExtensionsKeeps ==
  ASSUME SlicerInv, NEW l \in Languages, NEW s \in Starts, HasValidExtensions(l, s)
  PROVE  SlicerInv'
<1>1. /\ query = "none" /\ WalkInit /\ Built /\ words \in Vocabularies
      /\ words' = words /\ slices' = slices /\ slicer' = slicer
      /\ language' = l /\ start' = s
  BY DEF SlicerInv, HasValidExtensions, Idle, Call
<1>2. /\ s \in Seq(Nat) /\ FakeToken \in Nat /\ FakeToken > Len(words) /\ PrefixClosed(l)
  BY <1>1, SlicerAssumption, ClosedLanguages
<1> DEFINE w == WalkOf(words, AllTokens, s, l)
           walks == <<w>>
<1>3. TopSlice.trie_with_children = Filter(words, AllTokens)
  <2>1. Top(slices) \in Nodes(slices)
    BY <1>1, LenProperties DEF Built, Top, Nodes
  <2>2. SliceIs(words, slices, Top(slices), TokenizerSlices(words, slices)[Top(slices)])
    BY <1>1, <2>1, SlicesAre DEF Built
  <2>3. SliceIs(words, slices, Top(slices), TopSlice)
    BY <1>1, <2>2 DEF Built, TopSlice
  <2>4. SliceTokens(words, slices, Top(slices)) = AllTokens
    BY DEF SliceTokens, AllTokens
  <2> QED BY <2>3, <2>4 DEF SliceIs
<1>4. StartQuery("extensions", walks, {})
  <2>1. w = [nodes |-> TopSlice.trie_with_children, language |-> l, start |-> s]
    BY <1>3 DEF WalkOf
  <2> QED BY <2>1, Zenon DEF HasValidExtensions
<1>5. Sound(w) /\ Allowed(w) = WantedTokens(words, AllTokens, s, l)
  BY <1>1, <1>2, WalkOfSound, WalkOfAllows DEF Built
<1> HIDE DEF w
<1>6. walks \in Seq({w}) /\ DOMAIN walks = {1} /\ walks[1] = w
  OBVIOUS
<1> HIDE DEF walks
<1>7. walks \in Seq(Range(walks)) /\ \A i \in DOMAIN walks : Sound(walks[i])
  <2>1. walks \in Seq(Range(walks))
    BY <1>6, OwnRange
  <2> QED BY <1>5, <1>6, <2>1
<1>8. AllowedByAll(walks) = Allowed(w)
  BY <1>6 DEF AllowedByAll
<1>9. PICK ws, m : ws = walks /\ m = {}
  OBVIOUS
<1>10. QueryInv("extensions", ws, m)' /\ query' = "extensions"
  BY <1>1, <1>4, <1>7, <1>9, CallBegins
<1>11. BeyondTokens(words, s, l) = WantedTokens(words, AllTokens, s, l)
  BY <1>1, <1>2, ExactTokens DEF Built, AllTokens
<1>12. ExtensionTokens' = BeyondTokens(words, s, l)
  BY <1>1 DEF ExtensionTokens, BeyondTokens, Wanted
<1>13. AllowedByAll(ws) = ExtensionTokens'
  BY <1>5, <1>8, <1>9, <1>11, <1>12
<1>14. Planned(ws, m)'
  BY <1>7, <1>9, <1>10, <1>13 DEF Planned
<1>15. Built' /\ words' \in Vocabularies
  BY <1>1 DEF Built
<1>16. QueryInv(query, ws, m)'
  BY <1>10
<1> QED BY <1>10, <1>14, <1>15, <1>16 DEF SlicerInv

(* A step of a walk, or none.                                               *)
LEMMA WalkKeeps ==
  ASSUME SlicerInv, WalkNext \/ UNCHANGED walkVars,
         UNCHANGED <<words, slices, slicer, language, start, subsumes>>
  PROVE  SlicerInv'
<1>1. query' = query
  BY DEF WalkNext, TrieStarted, VisitAllowed, VisitRefused, TrieFinished, walkVars
<1>2. Built' /\ words' \in Vocabularies /\ query' \in {"none", "bias", "extensions"}
  BY <1>1 DEF SlicerInv, Built
<1>3. ASSUME query = "none" PROVE WalkInit'
  <2>1. WalkInit
    BY <1>3 DEF SlicerInv
  <2>2. ~WalkNext
    BY <2>1 DEF WalkInit, WalkNext, TrieStarted, VisitAllowed, VisitRefused, TrieFinished, Visiting
  <2>3. UNCHANGED walkVars
    BY <2>2
  <2> QED BY <2>1, <2>3 DEF WalkInit, walkVars
<1>4. ASSUME query # "none"
      PROVE  \E walks, mask : (Planned(walks, mask) /\ QueryInv(query, walks, mask))'
  <2>1. PICK walks, mask : Planned(walks, mask) /\ QueryInv(query, walks, mask)
    BY <1>4 DEF SlicerInv
  <2>2. PICK q \in {"bias", "extensions"} : q = query
    BY <1>4 DEF SlicerInv
  <2>3. [AskFor(q, walks, mask) \/ WalkNext]_walkVars
    OBVIOUS
  <2>4. QueryInv(q, walks, mask)
    BY <2>1, <2>2
  <2>5. /\ walks \in Seq(Range(walks)) /\ \A i \in DOMAIN walks : Sound(walks[i])
        /\ FakeToken \notin mask
    BY <2>1 DEF Planned
  <2>6. QueryInv(q, walks, mask)'
    BY <2>3, <2>4, <2>5, QueryInvNext
  <2>7. PrefixTokens' = PrefixTokens /\ ExtensionTokens' = ExtensionTokens
    BY DEF PrefixTokens, ExtensionTokens
  <2>8. Planned(walks, mask)'
    BY <1>1, <2>1, <2>7 DEF Planned
  <2>9. QueryInv(query, walks, mask)'
    BY <1>1, <2>2, <2>6
  <2> QED BY <2>8, <2>9
<1> QED BY <1>1, <1>2, <1>3, <1>4 DEF SlicerInv

(* Every step keeps the invariant.                                          *)
LEMMA SlicerInvNext == SlicerInv /\ [Next]_vars => SlicerInv'
<1> SUFFICES ASSUME SlicerInv, [Next]_vars PROVE SlicerInv'
  OBVIOUS
<1>1. CASE \E l \in Languages, s \in Starts : ComputeBias(l, s)
  BY <1>1, ComputeBiasKeeps
<1>2. CASE \E l \in Languages, s \in Starts : HasValidExtensions(l, s)
  BY <1>2, HasValidExtensionsKeeps
<1>3. CASE WalkNext /\ UNCHANGED <<words, slices, slicer, language, start, subsumes>>
  BY <1>3, WalkKeeps
<1>4. CASE UNCHANGED vars
  BY <1>4, WalkKeeps DEF vars
<1> QED BY <1>1, <1>2, <1>3, <1>4 DEF Next

(* The invariant holds always.                                              *)
LEMMA SlicerAlways == Spec => []SlicerInv
BY SlicerInvInit, SlicerInvNext, PTL DEF Spec

(* For every vocabulary, list of slices that has one top, prefix-closed     *)
(* language, start and set of slices the lexer shows to be subsumed: when   *)
(* compute_bias() is done, the mask is exactly the tokens the grammar       *)
(* allows, those allowed by whole slices and those found in the tries left  *)
(* to walk together.                                                        *)
THEOREM SlicedMaskIsExact == Spec => []MaskIsExact
<1>1. ASSUME SlicerInv PROVE MaskIsExact
  <2> SUFFICES ASSUME Finished, query = "bias"
               PROVE  toks = PrefixTokens \cup ExtensionTokens
    BY DEF MaskIsExact
  <2>1. PICK walks, mask : Planned(walks, mask) /\ QueryInv("bias", walks, mask)
    BY <1>1 DEF SlicerInv
  <2>2. toks = mask \cup AllowedByAll(walks)
    BY <2>1, BiasDone
  <2> QED BY <2>1, <2>2 DEF Planned
<1> QED BY <1>1, SlicerAlways, PTL

(* For all of these, has_valid_extensions() finds an extension exactly if   *)
(* the mask would hold one.                                                 *)
THEOREM SlicerFindsExtension == Spec => []ExtensionFound
<1>1. ASSUME SlicerInv PROVE ExtensionFound
  <2> SUFFICES ASSUME Finished, query = "extensions"
               PROVE  ok = (ExtensionTokens # {})
    BY DEF ExtensionFound
  <2>1. PICK walks, mask : Planned(walks, mask) /\ QueryInv("extensions", walks, mask)
    BY <1>1 DEF SlicerInv
  <2>2. ok = (AllowedByAll(walks) # {})
    BY <2>1, ExtensionsDone
  <2> QED BY <2>1, <2>2 DEF Planned
<1> QED BY <1>1, SlicerAlways, PTL

(* For all of these, the recognizer's stack is the path to the node that is *)
(* tried, in every trie the slicer builds: no hypothesis on the tries is    *)
(* left.                                                                    *)
THEOREM SlicerStackIsPath == Spec => []StackIsPath
<1>1. ASSUME SlicerInv PROVE StackIsPath
  <2>1. WalkInv
    BY <1>1, WalkInvInit DEF SlicerInv, QueryInv
  <2> QED BY <2>1, StepsFollow
<1> QED BY <1>1, SlicerAlways, PTL
=============================================================================
