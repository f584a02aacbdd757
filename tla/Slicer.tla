------------------------------- MODULE Slicer -------------------------------
(***************************************************************************)
(* Masks of tokens by slices.  The vocabulary is sliced by regular         *)
(* expressions ordered by inclusion into a tree.  Where the lexer shows    *)
(* that it subsumes a slice, all tokens of the slice are allowed at once,  *)
(* and only tries of the other tokens are walked (TokTrie).                *)
(*                                                                         *)
(* A regular expression is the set of texts it matches; the top slice,     *)
(* written as the empty expression, is given every token.                  *)
(***************************************************************************)
EXTENDS TokTrie, TrieBuilder

CONSTANTS
  Vocabularies, \* sequences of words, <<>> for a token without text
  SliceLists,   \* sequences of regular expressions
  Languages,    \* prefix-closed sets of texts, what the grammar allows next
  Starts        \* bytes forced already, the first of the next token

ASSUME SlicerAssumption ==
  /\ Vocabularies \subseteq Seq(Seq(Nat)) /\ SliceLists \subseteq Seq(SUBSET Seq(Nat))
  /\ \A l \in Languages : \A w \in l : Prefixes(w) \subseteq l
  /\ Starts \subseteq Seq(Nat)
  /\ FakeToken \in Nat /\ \A vocabulary \in Vocabularies : FakeToken > Len(vocabulary)

VARIABLES
  words, slices,  \* what the slicer was built from
  slicer,         \* its slices, each with its tokens and tries
  language, start, subsumes  \* the call: what is allowed and forced, and the
                  \* slices the lexer shows, within its budget, to be subsumed

vars == <<walkVars, words, slices, slicer, language, start, subsumes>>

-----------------------------------------------------------------------------
(* The tree of the slices sl, whose node Top is the empty expression.      *)

Top(sl) == Len(sl) + 1
Nodes(sl) == 1..Top(sl)
Ascending(sl) == {e \in Nodes(sl) \X Nodes(sl) : e[1] < e[2]}

(* The top slice contains every slice; as an expression it is also one     *)
(* that matches the empty text, and contained in those that do.            *)
Edges(sl) ==
  LET Matches(n) == IF n = Top(sl) THEN {<<>>} ELSE sl[n]
  IN {e \in Nodes(sl) \X Nodes(sl) :
        e[1] # e[2] /\ (e[2] = Top(sl) \/ Matches(e[1]) \subseteq Matches(e[2]))}

Roots(sl) == {n \in Nodes(sl) : \A d \in Nodes(sl) : <<n, d>> \notin Edges(sl)}

(* A node is below the last of its ancestors to be visited.                *)
DirectChildren(sl, node, visited) ==
  {c \in Nodes(sl) \ visited :
     /\ <<c, node>> \in Edges(sl)
     /\ \A d \in Nodes(sl) \ visited : <<c, d>> \notin Edges(sl)}

(* Building the tree visits the nodes in preorder: the nodes to visit, the *)
(* next one first, those visited, and the children found of each.          *)
BuildTree(sl, tree) ==
  IF tree.ahead = <<>> THEN tree
  ELSE LET node == Head(tree.ahead)
           visited == tree.visited \cup {node}
           children == Ordered(DirectChildren(sl, node, visited), Ascending(sl))
       IN [ahead |-> children \o Tail(tree.ahead),
           visited |-> visited,
           children |-> [tree.children EXCEPT ![node] = children]]

TopologicalSort(sl) ==
  LET tree[i \in 0..Top(sl)] ==
        IF i = 0
        THEN [ahead |-> <<Top(sl)>>, visited |-> {},
              children |-> [n \in Nodes(sl) |-> <<>>]]
        ELSE BuildTree(sl, tree[i - 1])
  IN tree[Top(sl)].children

(* A slice: its tokens, with the tries of those no child, or not a given   *)
(* child, has.                                                             *)
TokenizerSlices(w, sl) ==
  LET children == TopologicalSort(sl)
      tokens == [n \in Nodes(sl) |->
                   {t \in 1..Len(w) : n = Top(sl) \/ (w[t] # <<>> /\ w[t] \in sl[n])}]
      Without(n, cs) == Filter(w, tokens[n] \ UNION {tokens[c] : c \in cs})
  IN [n \in Nodes(sl) |->
       [children |-> children[n],
        mask_with_children |-> tokens[n],
        trie_with_children |-> Filter(w, tokens[n]),
        trie_without_child |-> [c \in Range(children[n]) |-> Without(n, {c})],
        trie_without_children |-> Without(n, Range(children[n]))]]

TopSlice == slicer[Top(slices)]

-----------------------------------------------------------------------------
(* Applying a slice: [applied, mask, tries] where mask is the tokens       *)
(* allowed outright and tries those left to walk.                          *)

NotApplied == [applied |-> FALSE, mask |-> {}, tries |-> <<>>]

Matched(n) == n # Top(slices) /\ n \in subsumes'

(* What is left to walk once some of the children were applied.            *)
TriesLeftOfOwn(n, applied) == <<slicer[n].trie_without_children>>
TriesLeft(n, applied) ==
  LET left == Ordered(Range(slicer[n].children) \ applied, Ascending(slices))
  IN IF \E c \in applied : applied = {c}
     THEN <<slicer[n].trie_without_child[CHOOSE c \in applied : TRUE]>>
     ELSE Append([i \in 1..Len(left) |-> slicer[left[i]].trie_with_children],
                 slicer[n].trie_without_children)

(* The slice of node n, given what applying its children gives.             *)
ApplyNode(n, results) ==
  LET children == slicer[n].children
      applied == {i \in 1..Len(children) : results[i].applied}
  IN IF Matched(n)
     THEN [applied |-> TRUE, mask |-> slicer[n].mask_with_children, tries |-> <<>>]
     ELSE IF applied = {} THEN NotApplied
     ELSE [applied |-> TRUE,
           mask |-> UNION {results[i].mask : i \in applied},
           tries |-> FlattenSeq([i \in 1..Len(children) |-> results[i].tries])
                     \o TriesLeft(n, {children[i] : i \in applied})]

(* A tree of k nodes has no more than k levels.                             *)
ApplySlice(node) ==
  LET apply[level \in 0..Top(slices)] ==
        [n \in Nodes(slices) |->
           IF level = 0 THEN NotApplied
           ELSE LET children == slicer[n].children
                IN ApplyNode(n, [i \in 1..Len(children) |-> apply[level - 1][children[i]]])]
  IN apply[Top(slices)][node]

Idle == query = "none"

Call(l, s) ==
  /\ language' = l /\ start' = s
  /\ UNCHANGED <<words, slices, slicer>>

(* Slices serve only a call without forced bytes, in a lexer state where   *)
(* subsumption can be asked for; what the lexer then shows is true.        *)
ComputeBias(l, s) ==
  /\ Idle
  /\ Call(l, s)
  /\ subsumes' \in SUBSET {i \in 1..Len(slices) : slices[i] \subseteq l}
  /\ \E subsume_possible \in BOOLEAN :
       LET plan == IF TopSlice.children # <<>> /\ s = <<>> /\ subsume_possible
                   THEN ApplySlice(Top(slices)) ELSE NotApplied
           walks == IF plan.applied
                    THEN FlattenSeq([i \in 1..Len(plan.tries) |->
                                       AddBias(plan.tries[i], l, <<>>)])
                    ELSE AddBias(TopSlice.trie_with_children, l, s)
       IN StartQuery("bias", walks, plan.mask)

HasValidExtensions(l, s) ==
  /\ Idle
  /\ Call(l, s)
  /\ StartQuery("extensions",
       <<[nodes |-> TopSlice.trie_with_children, language |-> l, start |-> s]>>, {})
  /\ UNCHANGED subsumes

Init ==
  /\ words \in Vocabularies /\ slices \in SliceLists
  /\ Roots(slices) = {Top(slices)}      \* "expected only one top-slice"
  /\ slicer = TokenizerSlices(words, slices)
  /\ language = {} /\ start = <<>> /\ subsumes = {}
  /\ WalkInit

Next ==
  \/ \E l \in Languages, s \in Starts : ComputeBias(l, s) \/ HasValidExtensions(l, s)
  \/ WalkNext /\ UNCHANGED <<words, slices, slicer, language, start, subsumes>>

Spec == Init /\ [][Next]_vars

-----------------------------------------------------------------------------
(* Properties.                                                             *)

PrefixTokens ==
  {t \in 1..Len(words) : words[t] # <<>> /\ IsPrefix(words[t], start)}
ExtensionTokens ==
  {t \in 1..Len(words) :
     /\ IsStrictPrefix(start, words[t])
     /\ SubSeq(words[t], Len(start) + 1, Len(words[t])) \in language}

(* However slices overlap, and whichever of them the lexer manages to show *)
(* subsumed, the mask is the tokens the grammar allows: those that begin   *)
(* the forced bytes and those that extend them within the language, two    *)
(* tokens of the same text included; the walk's fake token is not left in. *)
MaskIsExact ==
  Finished /\ query = "bias" => toks = PrefixTokens \cup ExtensionTokens

(* A search for an extension, which stops at the first one, finds one      *)
(* exactly if the mask would hold one.                                     *)
ExtensionFound ==
  Finished /\ query = "extensions" => ok = (ExtensionTokens # {})
=============================================================================
