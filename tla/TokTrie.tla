------------------------------ MODULE TokTrie -------------------------------
(***************************************************************************)
(* Walks over tries of tokens.  A walk visits a trie in preorder, keeping  *)
(* a recognizer's stack in step with the path to the node it is at: it     *)
(* pushes a byte on the way down, skips a subtree whose byte is refused,   *)
(* and pops lazily, before its next push.  add_bias() collects the tokens  *)
(* the recognizer accepts, has_valid_extensions() looks for one.           *)
(***************************************************************************)
EXTENDS Integers, SequencesExt, FiniteSetsExt

CONSTANT FakeToken  \* set for nodes that are no token (the vocabulary's size)

VARIABLES
  query,    \* "none" before the call, "bias" or "extensions"
  todo,     \* walks not begun: [nodes, language, start]
  walk,     \* the walk in progress, the same record, or NoWalk
  p, endp,  \* the next node to visit, and the end of the subtree walked
  next_pop, \* bytes to pop before the next push
  stack,    \* bytes pushed on the recognizer
  toks,     \* the tokens allowed
  ok        \* has a valid extension been found?

walkVars == <<query, todo, walk, p, endp, next_pop, stack, toks, ok>>

NoWalk == [nodes |-> <<>>, language |-> {}, start |-> <<>>]

-----------------------------------------------------------------------------
(* The trie: a preorder sequence of nodes, the root first.                 *)

NextNode(nodes, n) == n + nodes[n].subtree_size

NodeChildren(nodes, n) ==
  {c \in (n + 1)..(NextNode(nodes, n) - 1) :
     \A m \in (n + 1)..(c - 1) : NextNode(nodes, m) <= c}

IsAnyNode(node) == TRUE
IsToken(node) == node.token # 0

NoNode == 0
ChildAtByte(nodes, n, byte) ==
  LET found == IF n = NoNode THEN {}
               ELSE {c \in NodeChildren(nodes, n) : nodes[c].byte = byte}
  IN IF found = {} THEN NoNode ELSE Min(found)

ChildAtBytes(nodes, n, bytes) ==
  LET at[i \in 0..Len(bytes)] ==
        IF i = 0 THEN n ELSE ChildAtByte(nodes, at[i - 1], bytes[i])
  IN  at[Len(bytes)]

-----------------------------------------------------------------------------
(* The walks of add_bias(): those for the prefixes of start come first.    *)

AddBias(nodes, language, start) ==
  (IF start = <<>> THEN <<>>
   ELSE <<[nodes |-> nodes, language |-> Prefixes(start),
           start |-> <<>>]>>)
  \o <<[nodes |-> nodes, language |-> language, start |-> start]>>

TrieStarted ==
  /\ walk = NoWalk /\ todo # <<>>
  /\ todo' = Tail(todo)
  /\ LET n == ChildAtBytes(Head(todo).nodes, 1, Head(todo).start)
     IN IF n = NoNode
        THEN UNCHANGED <<walk, p, endp>>
        ELSE /\ walk' = Head(todo)
             /\ p' = n + 1
             /\ endp' = NextNode(walk'.nodes, n)
  /\ next_pop' = 0
  /\ stack' = <<>>
  /\ UNCHANGED <<query, toks, ok>>

Pop(bytes, n) == SubSeq(bytes, 1, Len(bytes) - n)
Pushed == Append(Pop(stack, next_pop), walk.nodes[p].byte)
PopAfterLeaf(n) == walk.nodes[n].num_parents
PopAfterSkippedLeaf(n) == walk.nodes[n].num_parents
PopAfterSkip(n) == walk.nodes[n].num_parents - 1

Visiting == walk # NoWalk /\ p < endp /\ ~ok

VisitAllowed ==
  LET node == walk.nodes[p]
  IN /\ Visiting
     /\ Pushed \in walk.language
     /\ stack' = Pushed
     /\ IF query = "bias"
        THEN /\ toks' = toks \cup {IF IsToken(node) THEN node.token ELSE FakeToken}
             /\ UNCHANGED ok
        ELSE /\ ok' = IsToken(node)
             /\ UNCHANGED toks
     /\ next_pop' = IF node.subtree_size = 1 THEN PopAfterLeaf(p) ELSE 0
     /\ p' = p + 1
     /\ UNCHANGED <<query, todo, walk, endp>>

VisitRefused ==
  /\ Visiting
  /\ Pushed \notin walk.language
  /\ stack' = Pop(stack, next_pop)
  /\ next_pop' = PopAfterSkip(p)
  /\ p' = NextNode(walk.nodes, p)
  /\ UNCHANGED <<query, todo, walk, endp, toks, ok>>

(* The bytes left on the stack, if any, are the recognizer's to clear.     *)
TrieFinished ==
  /\ walk # NoWalk /\ (p >= endp \/ ok)
  /\ walk' = NoWalk
  /\ toks' = toks \ {FakeToken}
  /\ p' = 0 /\ endp' = 0 /\ next_pop' = 0 /\ stack' = <<>>
  /\ UNCHANGED <<query, todo, ok>>

WalkInit ==
  /\ query = "none"
  /\ todo = <<>> /\ walk = NoWalk
  /\ p = 0 /\ endp = 0 /\ next_pop = 0 /\ stack = <<>>
  /\ toks = {} /\ ok = FALSE

StartQuery(q, walks, mask) ==
  /\ query' = q
  /\ todo' = walks
  /\ toks' = mask
  /\ UNCHANGED <<walk, p, endp, next_pop, stack, ok>>

WalkNext == TrieStarted \/ VisitAllowed \/ VisitRefused \/ TrieFinished

Finished == walk = NoWalk /\ todo = <<>>

-----------------------------------------------------------------------------
(* Properties of a walk.                                                   *)

(* The innermost node whose subtree node n is in, n excepted.               *)
Parent(nodes, n) == Max({m \in 1..(n - 1) : NextNode(nodes, m) > n})

(* What a trie is: the root holds all nodes, subtrees nest, and each node   *)
(* but the root counts itself and the ancestors that end where it does.     *)
(* FakeToken is no node's token.                                            *)
Preorder(nodes) ==
  /\ nodes # <<>> /\ nodes \in Seq(Range(nodes))
  /\ \A n \in DOMAIN nodes :
       /\ nodes[n].token \in Nat \ {FakeToken}
       /\ nodes[n].num_parents \in Nat /\ nodes[n].subtree_size \in Nat \ {0}
  /\ NextNode(nodes, 1) = Len(nodes) + 1
  /\ \A m \in DOMAIN nodes : \A n \in (m + 1)..(NextNode(nodes, m) - 1) :
       NextNode(nodes, n) <= NextNode(nodes, m)
  /\ \A n \in 2..Len(nodes) :
       LET m == Parent(nodes, n)
       IN  nodes[n].num_parents =
             IF m # 1 /\ NextNode(nodes, m) = NextNode(nodes, n)
             THEN nodes[m].num_parents + 1 ELSE 1

(* The bytes from the node first down to node n's parent.                   *)
PathFrom(nodes, first, n) ==
  LET path[m \in (first + 1)..n] ==
        LET parent == Parent(nodes, m)
        IN  IF parent = first THEN <<>> ELSE Append(path[parent], nodes[parent].byte)
  IN  path[n]
First(w) == ChildAtBytes(w.nodes, 1, w.start)
PathTo(n) == PathFrom(walk.nodes, First(walk), n)

(* Lazy popping keeps the recognizer's stack in step with the trie: when   *)
(* node p is tried, the stack holds the path to p's parent, whatever was   *)
(* pushed, skipped or left before; and a walk from the root ends with an   *)
(* empty stack ("Stack has exactly one element then", counting the state   *)
(* the recognizer began with).  No more is popped than was pushed.         *)
StackIsPath ==
  walk # NoWalk /\ ~ok =>
    /\ p < endp => next_pop <= Len(stack) /\ Pop(stack, next_pop) = PathTo(p)
    /\ p >= endp => p = endp /\ (walk.start = <<>> => next_pop = Len(stack))
=============================================================================
