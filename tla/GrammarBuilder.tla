--------------------------- MODULE GrammarBuilder ---------------------------
(***************************************************************************)
(* The nodes a front end builds a grammar from                             *)
(* (parser/src/grammar_builder.rs).  A node is known by what it is made    *)
(* of: the builder's caches of equal nodes need no state here.  A lexeme   *)
(* is the set of the tokens, or texts, it matches; a placeholder is a name,*)
(* defined later.  A node with a parameter is referred to together with an *)
(* expression for it.                                                      *)
(***************************************************************************)
EXTENDS Params, SequencesExt, FiniteSetsExt, TLC

K == 4

(* References to nodes.                                                     *)
is_parametric(ref) == ref.op = "apply"
node_needs_param(ref) == IF is_parametric(ref) THEN needs_param(ref.param) ELSE FALSE
SomeNeedParam(refs) == \E i \in DOMAIN refs : node_needs_param(refs[i])
new_param_node(node, parametric) ==
  IF parametric THEN [op |-> "apply", node |-> node, param |-> SelfRef] ELSE node

(* Nodes.  A sequence of one node is that node, unless it is to hide that   *)
(* the node is given a constant.                                            *)
empty == [op |-> "join", kids |-> <<>>]
lexeme(texts) == [op |-> "lexeme", texts |-> texts]
string(token) == lexeme({token})
new_node(name) == [op |-> "placeholder", name |-> name]
join(nodes) ==
  LET kids == SelectSeq(nodes, LAMBDA n : n # empty)
      alone == IF Len(kids) = 1 THEN ~is_parametric(kids[1]) \/ SomeNeedParam(kids) ELSE FALSE
  IN  IF alone THEN kids[1]
      ELSE new_param_node([op |-> "join", kids |-> kids], SomeNeedParam(kids))
(* A node may be special: it captures what it matches, its tokens are       *)
(* counted, or it is where a grammar starts.                                *)
NoProps == [capture |-> {}, special |-> FALSE]
join_props(nodes, props) ==
  LET kids == SelectSeq(nodes, LAMBDA n : n # empty)
  IN  IF props = NoProps \/ kids = <<>> THEN join(nodes)
      ELSE new_param_node([op |-> "join", kids |-> kids, props |-> props], SomeNeedParam(kids))
lexeme_ext(texts, props) ==
  IF props = NoProps THEN lexeme(texts) ELSE [op |-> "lexeme", texts |-> texts, props |-> props]
start_node(name) == [op |-> "placeholder", name |-> name, props |-> [NoProps EXCEPT !.special = TRUE]]
gen_grammar_node(name, options, props) ==
  [op |-> "placeholder", name |-> name, gen_grammar |-> options, props |-> props]
select(options) ==
  IF Len(options) = 1 THEN options[1]
  ELSE new_param_node([op |-> "select", kids |-> options], SomeNeedParam(options))
select_with_cond(options, conds) ==
  IF conds = <<>> THEN select(options)
  ELSE new_param_node([op |-> "cond", kids |-> options, conds |-> conds], TRUE)
new_wrapper_node(node, wrapped) == new_param_node(node, node_needs_param(wrapped))
optional(node) == new_wrapper_node([op |-> "select", kids |-> <<empty, node>>], node)
zero_or_more(node) == new_wrapper_node([op |-> "star", kid |-> node], node)
one_or_more(node) == new_wrapper_node([op |-> "plus", kid |-> node], node)

(* The same node, passed another parameter: there must be one exactly if    *)
(* the node is parametric.                                                  *)
CanApply(ref, param) == is_parametric(ref) = (param # NoParam)
apply_param(ref, param) == IF param = NoParam THEN ref ELSE [ref EXCEPT !.param = param]

(* Repetitions, factored into pieces of K so that the grammar grows with    *)
(* the logarithm of the count.                                              *)
simple_repeat(elt, n) == join([i \in 1 .. n |-> elt])
RECURSIVE repeat_exact(_, _), at_most(_, _)
repeat_exact(elt, n) ==
  IF n > 2 * K
  THEN join([i \in 1 .. n % K |-> elt] \o <<repeat_exact(simple_repeat(elt, K), n \div K)>>)
  ELSE simple_repeat(elt, n)
at_most(elt, n) ==
  LET elt_k == simple_repeat(elt, K)
      fewer == join(<<at_most(elt_k, (n \div K) - 1), at_most(elt, K - 1)>>)
      full == join(<<repeat_exact(elt_k, n \div K), at_most(elt, n % K)>>)
  IN  IF n = 0 THEN empty
      ELSE IF n = 1 THEN optional(elt)
      ELSE IF n < 3 * K THEN select([k \in 1 .. n + 1 |-> simple_repeat(elt, k - 1)])
      ELSE select(<<full, fewer>>)
at_least(elt, n) ==
  IF n = 0 THEN zero_or_more(elt) ELSE join(<<repeat_exact(elt, n), zero_or_more(elt)>>)
(* As it would be if the items already required were counted again.         *)
repeat_counted_twice(elt, min, max, unbounded) ==
  IF unbounded THEN at_least(elt, min)
  ELSE join(<<repeat_exact(elt, min), at_most(elt, max)>>)
repeat(elt, min, max, unbounded) ==
  IF unbounded THEN at_least(elt, min)
  ELSE IF min = max THEN repeat_exact(elt, min)
  ELSE IF min = 0 THEN at_most(elt, max)
  ELSE join(<<repeat_exact(elt, min), at_most(elt, max - min)>>)

(* Ranges of token numbers, and their complement in the vocabulary.         *)
ValidRanges(ranges, vocab_size) ==
  \A i \in DOMAIN ranges : ranges[i][1] <= ranges[i][2] /\ ranges[i][2] < vocab_size
negated_token_ranges(ranges, vocab_size) ==
  LET sorted == SortSeq(ranges, LAMBDA r, s : r[1] < s[1])
      Step(acc, r) ==
        IF r[2] < acc.current THEN acc
        ELSE [current |-> Max({acc.current, r[2] + 1}),
              negated |-> IF r[1] > acc.current
                          THEN Append(acc.negated, <<acc.current, r[1] - 1>>) ELSE acc.negated]
      Rest(acc) == IF acc.current < vocab_size
                   THEN Append(acc.negated, <<acc.current, vocab_size - 1>>) ELSE acc.negated
  IN  Rest(FoldLeft(Step, [current |-> 0, negated |-> <<>>], sorted))
Covered(ranges) == UNION {r[1] .. r[2] : r \in Range(ranges)}

-----------------------------------------------------------------------------
(* The texts of at most n tokens a node stands for, env giving those of     *)
(* the placeholders.                                                        *)
Cat(U, V, n) ==
  UNION {{u \o v : u \in {u \in U : Len(u) = i}, v \in {v \in V : Len(v) <= n - i}} : i \in 0 .. n}
RECURSIVE Closure(_, _, _)
Closure(texts, U, n) ==
  IF texts = {} THEN {} ELSE texts \cup Closure(Cat(texts, U \ {<<>>}, n), U, n)
Repeated(op, U, n) == Closure(IF op = "star" THEN {<<>>} ELSE U, U, n)
RECURSIVE TextsOf(_, _, _)
TextsOf(node, env, n) ==
  CASE node.op = "lexeme" -> {<<t>> : t \in node.texts}
    [] node.op = "placeholder" -> env[node.name]
    [] node.op = "join" ->
         FoldLeft(LAMBDA acc, kid : Cat(acc, TextsOf(kid, env, n), n), {<<>>}, node.kids)
    [] node.op = "select" -> UNION {TextsOf(node.kids[i], env, n) : i \in DOMAIN node.kids}
    [] node.op \in {"star", "plus"} ->
         Repeated(node.op, TextsOf(node.kid, env, n), n)
(* The least texts the definitions of the placeholders allow.               *)
RECURSIVE Solved(_, _, _)
Further(defs, env, next, n) == IF next = env THEN env ELSE Solved(defs, next, n)
Solved(defs, env, n) ==
  Further(defs, env, FoldSet(LAMBDA name, acc : (name :> TextsOf(defs[name], env, n)) @@ acc,
                             <<>>, DOMAIN defs), n)
Texts(node, defs, n) ==
  TextsOf(node, Solved(defs, [name \in DOMAIN defs |-> {}], n), n)
=============================================================================
