---------------------------- MODULE TrieBuilder -----------------------------
(***************************************************************************)
(* The trie of a vocabulary: built word by word in sorted order in an      *)
(* arena of nodes, then laid out in preorder, each node with the size of   *)
(* its subtree and with the number of nodes a walk leaves after it.  A     *)
(* word that occurs twice gets a second, childless node beside the first.  *)
(***************************************************************************)
EXTENDS Integers, SequencesExt, FiniteSetsExt

(* The elements of S in the order of the relation before, the least first. *)
Ordered(S, before) ==
  [i \in 1..Cardinality(S) |->
     CHOOSE x \in S : Cardinality({y \in S : <<y, x>> \in before}) = i - 1]

NO_TOKEN == 0

BuilderNode(byte) == [byte |-> byte, token |-> NO_TOKEN, children |-> <<>>]

(* The child to go on with; a node that already ends a word is passed over *)
(* by the last byte of another.                                            *)
FindChild(arena, node, byte, is_last) ==
  {k \in Range(arena[node].children) :
     arena[k].byte = byte /\ ~(is_last /\ arena[k].token # NO_TOKEN)}

(* One byte of a word: b.at is the node reached so far.                    *)
Descend(b, byte, is_last) ==
  LET found == FindChild(b.arena, b.at, byte, is_last)
      new == Len(b.arena) + 1
  IN IF found # {}
     THEN [b EXCEPT !.at = Min(found)]
     ELSE [arena |-> Append([b.arena EXCEPT ![b.at].children = Append(@, new)],
                            BuilderNode(byte)),
           at |-> new]

Insert(arena, word, token) ==
  LET b[i \in 0..Len(word)] ==
        IF i = 0 THEN [arena |-> arena, at |-> 1]
        ELSE Descend(b[i - 1], word[i], i = Len(word))
      end == b[Len(word)]
  IN [end.arena EXCEPT ![end.at].token = token]

(* The nodes from the given one down; num_parents is the number of its      *)
(* ancestors, and itself, that end where it does.                          *)
SerializeNode(arena, root, num_parents) ==
  LET layout[node \in DOMAIN arena] ==
        [n \in Nat |->
           LET children == arena[node].children
               below == FlattenSeq([i \in 1..Len(children) |->
                          layout[children[i]][IF i = Len(children) THEN n + 1 ELSE 1]])
           IN <<[byte |-> arena[node].byte, token |-> arena[node].token,
                 num_parents |-> Max({1, n}),
                 subtree_size |-> 1 + Len(below)]>> \o below]
  IN layout[root][num_parents]

-----------------------------------------------------------------------------
(* words[t] is the text of token t.                                        *)

Less(v, w) ==
  \/ IsStrictPrefix(v, w)
  \/ \E i \in 1..Min({Len(v), Len(w)}) :
       SubSeq(v, 1, i - 1) = SubSeq(w, 1, i - 1) /\ v[i] < w[i]

SortedVocab(words) ==
  Ordered(1..Len(words),
    {e \in (1..Len(words)) \X (1..Len(words)) :
       \/ Less(words[e[1]], words[e[2]])
       \/ words[e[1]] = words[e[2]] /\ e[1] < e[2]})

(* The trie of the tokens in a mask.                                       *)
Filter(words, mask) ==
  LET sorted == SortedVocab(words)
      arena[i \in 0..Len(sorted)] ==
        IF i = 0 THEN <<BuilderNode(NO_TOKEN)>>
        ELSE IF sorted[i] \in mask /\ words[sorted[i]] # <<>>
             THEN Insert(arena[i - 1], words[sorted[i]], sorted[i])
             ELSE arena[i - 1]
  IN SerializeNode(arena[Len(sorted)], 1, 0)
=============================================================================
