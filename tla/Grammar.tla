------------------------------ MODULE Grammar -------------------------------
(***************************************************************************)
(* The grammar made of nodes, and its optimization (parser/src/earley/     *)
(* grammar.rs).  A grammar is a sequence of symbols, the first one its     *)
(* start, in the order in which they are met from there; the right-hand    *)
(* sides of rules are sequences of pairs of a symbol and what is passed to *)
(* it.  Nodes made of the same things are one symbol.                      *)
(***************************************************************************)
EXTENDS GrammarBuilder

(* The rules of a node.  A lexeme that may be empty becomes a choice of the *)
(* lexeme and nothing.                                                      *)
Element(ref) == IF is_parametric(ref) THEN <<ref.node, ref.param>> ELSE <<ref, NoParam>>
NodeRule(cond, kids) == [cond |-> cond, rhs |-> [i \in DOMAIN kids |-> Element(kids[i])]]
OfKid(kid) == IF kid = empty THEN <<>> ELSE <<kid>>
make_terminal(node) ==
  IF <<>> \in node.texts
  THEN <<NodeRule(Always, <<lexeme(node.texts \ {<<>>})>>), NodeRule(Always, <<>>)>> ELSE <<>>
RulesOf(node, defs) ==
  CASE node.op = "lexeme" -> make_terminal(node)
    [] node.op = "join" -> <<NodeRule(Always, node.kids)>>
    [] node.op = "select" -> [i \in DOMAIN node.kids |-> NodeRule(Always, OfKid(node.kids[i]))]
    [] node.op = "cond" -> [i \in DOMAIN node.kids |-> NodeRule(node.conds[i], OfKid(node.kids[i]))]
    [] node.op \in {"star", "plus"} ->
         <<NodeRule(Always, IF node.op = "star" THEN <<>> ELSE <<node.kid>>),
           NodeRule(Always, <<new_wrapper_node(node, node.kid), node.kid>>)>>
    [] node.op = "placeholder" ->
         IF node.name \in DOMAIN defs THEN <<NodeRule(Always, <<defs[node.name]>>)>> ELSE <<>>

(* Numbering the nodes met from a start.                                    *)
KidsOf(rules) == FlattenSeq([i \in DOMAIN rules |-> [j \in DOMAIN rules[i].rhs |-> rules[i].rhs[j][1]]])
RECURSIVE Met(_, _, _)
Met(todo, nodes, defs) ==
  IF todo = <<>> THEN nodes
  ELSE IF todo[1] \in Range(nodes) THEN Met(Tail(todo), nodes, defs)
  ELSE Met(KidsOf(RulesOf(todo[1], defs)) \o Tail(todo), Append(nodes, todo[1]), defs)
IndexOf(nodes, node) == CHOOSE i \in DOMAIN nodes : nodes[i] = node
Numbered(rules, nodes) ==
  [i \in DOMAIN rules |->
     [cond |-> rules[i].cond,
      rhs |-> [j \in DOMAIN rules[i].rhs |-> <<IndexOf(nodes, rules[i].rhs[j][1]), rules[i].rhs[j][2]>>]]]
Passed(symbols, s) ==
  UNION {{r.rhs[j][2] : j \in {j \in DOMAIN r.rhs : r.rhs[j][1] = s}} :
         r \in UNION {Range(symbols[i].rules) : i \in DOMAIN symbols}}
Symbol(node, rules) ==
  LET props == IF "props" \in DOMAIN node THEN node.props ELSE NoProps
  IN  [terminal |-> node.op = "lexeme" /\ rules = <<>>,
       texts |-> IF node.op = "lexeme" THEN node.texts ELSE {},
       capture |-> props.capture, gen_grammar |-> "gen_grammar" \in DOMAIN node,
       special |-> props.special \/ props.capture # {}, parametric |-> FALSE, rules |-> rules]
WithParams(symbols) ==
  [i \in DOMAIN symbols |-> [symbols[i] EXCEPT !.parametric = Passed(symbols, i) \ {NoParam} # {}]]
SymbolsOf(nodes, defs) ==
  WithParams(FoldLeft(LAMBDA acc, node :
    Append(acc, Symbol(node, Numbered(RulesOf(node, defs), nodes))), <<>>, nodes))
Lowered(start, defs) == SymbolsOf(Met(<<start>>, <<>>, defs), defs)

(* What add_rule_ext demands of every rule.                                 *)
RuleOk(g, sym, rule) ==
  /\ ~sym.terminal
  /\ rule.cond = Always \/ sym.parametric
  /\ \A i \in DOMAIN rule.rhs :
       LET e == rule.rhs[i]
       IN  g[e[1]].parametric = (e[2] # NoParam) /\ (needs_param(e[2]) => sym.parametric)
WellFormed(g) == \A s \in DOMAIN g : \A i \in DOMAIN g[s].rules : RuleOk(g, g[s], g[s].rules[i])

-----------------------------------------------------------------------------
(* Optimization.                                                            *)
is_special_symbol(g, s) == s = 1 \/ g[s].gen_grammar \/ g[s].special
neutral_param(sym) == IF sym.parametric THEN SelfRef ELSE NoParam
OneRule(g, s) == Len(g[s].rules) = 1 /\ g[s].rules[1].cond = Always
(* A symbol whose one rule is another symbol is replaced by it; 0 is none.  *)
RECURSIVE uf_find(_, _)
uf_find(map, s) == IF map[s] = 0 THEN s ELSE uf_find(map, map[s])
uf_union(map, s, t) == IF uf_find(map, s) = uf_find(map, t) THEN map ELSE [map EXCEPT ![uf_find(map, s)] = uf_find(map, t)]
Definitions(g) ==
  LET Renames(s) ==
        /\ ~is_special_symbol(g, s) /\ OneRule(g, s)
        /\ Len(g[s].rules[1].rhs) = 1 /\ g[s].rules[1].rhs[1][2] = neutral_param(g[s])
      Joined(map, s) == IF Renames(s) THEN uf_union(map, s, g[s].rules[1].rhs[1][1]) ELSE map
      map == FoldLeft(Joined, [s \in DOMAIN g |-> 0], [s \in DOMAIN g |-> s])
  IN  [s \in DOMAIN g |-> IF map[s] = 0 THEN 0 ELSE uf_find(map, s)]
Defn(defs, s) == IF defs[s] = 0 THEN s ELSE defs[s]
Rewritten(defs, rhs) == [i \in DOMAIN rhs |-> <<Defn(defs, rhs[i][1]), rhs[i][2]>>]
(* The one rule a symbol occurs in, once and with its parameter unchanged.  *)
UsesOf(g, defs) ==
  FlattenSeq([s \in DOMAIN g |->
    IF defs[s] # 0 THEN <<>>
    ELSE FlattenSeq([i \in DOMAIN g[s].rules |->
           [j \in DOMAIN g[s].rules[i].rhs |->
              [of |-> Defn(defs, g[s].rules[i].rhs[j][1]), by |-> s,
               neutral |-> g[s].rules[i].rhs[j][2] = neutral_param(g[s])]]])])
UserOf(uses, s) ==
  LET of == SelectSeq(uses, LAMBDA u : u.of = s)
  IN  IF Len(of) # 1 THEN 0 ELSE IF ~of[1].neutral \/ of[1].by = s THEN 0 ELSE of[1].by
(* As it would be if a symbol used twice could be eliminated where it has a *)
(* special meaning.                                                         *)
ReplacedSpecial(g, users) ==
  {s \in DOMAIN g : s # 1 /\ users[s] # 0 /\ OneRule(g, s)}
Eliminated(g, users) ==
  {s \in DOMAIN g : ~is_special_symbol(g, s) /\ users[s] # 0 /\ OneRule(g, s)}
RECURSIVE Inlined(_, _, _)
Inlined(repl, e, names) ==
  IF e[1] \in names
  THEN FoldLeft(LAMBDA acc, kid : acc \o Inlined(repl, kid, names \ {e[1]}), <<>>, repl[e[1]])
  ELSE <<e>>
Replacements(g, defs, users, names) ==
  LET repl == [s \in names |-> Rewritten(defs, g[s].rules[1].rhs)]
      roots == {s \in names : users[s] \notin names}
      renamed == {s \in DOMAIN g : defs[s] # 0 /\ defs[s] \notin names /\ defs[defs[s]] = 0}
  IN  [s \in roots \cup renamed |->
         IF s \in renamed THEN <<<<defs[s], neutral_param(g[defs[s]])>>>>
         ELSE Inlined(repl, <<s, NoParam>>, names)]
(* The rules that are kept, the replaced symbols put in place.  A symbol    *)
(* replaced where its parameter is changed is more than the code can do.    *)
Neutral(e) == e[2] \in {NoParam, SelfRef}
CanReplace(g, repl) ==
  \A s \in DOMAIN g \ DOMAIN repl : \A i \in DOMAIN g[s].rules :
    \A j \in DOMAIN g[s].rules[i].rhs :
      g[s].rules[i].rhs[j][1] \in DOMAIN repl => Neutral(g[s].rules[i].rhs[j])
PutInPlace(repl, rhs) ==
  FoldLeft(LAMBDA acc, e : acc \o (IF e[1] \in DOMAIN repl THEN repl[e[1]] ELSE <<e>>), <<>>, rhs)
Kept(g, repl) ==
  [s \in DOMAIN g |->
     [g[s] EXCEPT !.rules = [i \in DOMAIN @ |-> [@[i] EXCEPT !.rhs = PutInPlace(repl, @)]]]]
CopyOrder(g, repl, kept) ==
  FoldLeft(LAMBDA acc, s :
             IF s \in DOMAIN repl THEN acc
             ELSE FoldLeft(LAMBDA a, t : IF t \in Range(a) THEN a ELSE Append(a, t), acc,
                    <<s>> \o FlattenSeq([i \in DOMAIN kept[s].rules |->
                               [j \in DOMAIN kept[s].rules[i].rhs |-> kept[s].rules[i].rhs[j][1]]])),
           <<>>, [s \in DOMAIN g |-> s])
Renumbered(kept, order, shift) ==
  [k \in DOMAIN order |->
     [kept[order[k]] EXCEPT !.rules = [i \in DOMAIN @ |->
        [@[i] EXCEPT !.rhs = [j \in DOMAIN @ |-> <<IndexOf(order, @[j][1]) + shift, @[j][2]>>]]]]]
StartReplaced(sym) ==
  sym.terminal \/ sym.gen_grammar \/ \E i \in DOMAIN sym.rules : sym.rules[i].rhs = <<>>
NewStart ==
  [terminal |-> FALSE, texts |-> {}, capture |-> {}, gen_grammar |-> FALSE, special |-> TRUE,
   parametric |-> FALSE, rules |-> <<[cond |-> Always, rhs |-> <<<<2, NoParam>>>>]>>]
Panicked == <<>>
Copied(g, repl, kept) ==
  IF ~CanReplace(g, repl) THEN Panicked
  ELSE IF StartReplaced(g[1]) THEN <<NewStart>> \o Renumbered(kept, CopyOrder(g, repl, kept), 1)
  ELSE Renumbered(kept, CopyOrder(g, repl, kept), 0)
Shortened(g, repl) == Copied(g, repl, Kept(g, repl))
WithUsers(g, defs, users) == Shortened(g, Replacements(g, defs, users, Eliminated(g, users)))
WithDefinitions(g, defs, uses) == WithUsers(g, defs, [s \in DOMAIN g |-> UserOf(uses, s)])
AfterDefinitions(g, defs) == WithDefinitions(g, defs, UsesOf(g, defs))
expand_shortcuts(g) == IF g = Panicked THEN g ELSE AfterDefinitions(g, Definitions(g))
optimize(g) == expand_shortcuts(expand_shortcuts(g))

-----------------------------------------------------------------------------
(* Compilation: the symbols that may be empty, and those that may be for    *)
(* some values of their parameter, with the condition as a normal form.     *)
RECURSIVE set_nullable(_, _)
set_nullable(g, nullable) ==
  LET Empties(s) == \E i \in DOMAIN g[s].rules :
        g[s].rules[i].cond = Always /\ \A j \in DOMAIN g[s].rules[i].rhs : g[s].rules[i].rhs[j][1] \in nullable
      more == {s \in DOMAIN g \ nullable : Empties(s)}
  IN  IF more = {} THEN nullable ELSE set_nullable(g, nullable \cup more)
(* As it would be if the condition of the rule itself were forgotten.       *)
RuleNullUnconditional(s, rule, nullable, null_cond) ==
  FoldLeft(LAMBDA acc, e : IF e[1] \in nullable THEN acc ELSE dnf_and(acc, null_cond[e[1]]), {{}}, rule.rhs)
RuleNull(s, rule, nullable, null_cond) ==
  FoldLeft(LAMBDA acc, e : IF e[1] \in nullable THEN acc ELSE dnf_and(acc, null_cond[e[1]]),
           dnf(rule.cond, FALSE), rule.rhs)
MayBeNull(s, rule, nullable, null_cond) ==
  \A j \in DOMAIN rule.rhs :
    rule.rhs[j][1] # s /\ (rule.rhs[j][1] \in nullable \/ null_cond[rule.rhs[j][1]] # {})
NullRound(g, nullable, null_cond) ==
  FoldLeft(LAMBDA acc, s :
    [acc EXCEPT ![s] = FoldLeft(LAMBDA c, rule :
       IF s \notin nullable /\ MayBeNull(s, rule, nullable, acc)
       THEN dnf_or(c, RuleNull(s, rule, nullable, acc)) ELSE c, @, g[s].rules)],
    null_cond, [s \in DOMAIN g |-> s])
RECURSIVE set_cond_nullable(_, _, _)
NullFurther(g, nullable, null_cond, next) ==
  IF next = null_cond THEN null_cond ELSE set_cond_nullable(g, nullable, next)
set_cond_nullable(g, nullable, null_cond) ==
  NullFurther(g, nullable, null_cond, NullRound(g, nullable, null_cond))
from_grammar(g) ==
  LET nullable == set_nullable(g, {})
  IN  [nullable |-> nullable,
       null_cond |-> set_cond_nullable(g, nullable, [s \in DOMAIN g |-> {}])]

-----------------------------------------------------------------------------
(* The texts of at most n characters a symbol stands for, for each value of *)
(* its parameter; what is captured is put between marks.                    *)
Captured(names, U, n) ==
  IF names = {} THEN U
  ELSE {t \in UNION {{<<"<">> \o name \o <<":">> \o u \o <<">">> : u \in U} : name \in names} : Len(t) <= n}
ParamValues(sym) == IF sym.parametric THEN 2^NumBits ELSE 1
SymbolTexts(g, s, m, env, n) ==
  LET OfRule(rule) ==
        IF EvalCond(rule.cond, m)
        THEN FoldLeft(LAMBDA acc, e : Cat(acc, env[e[1]][EvalExpr(e[2], m) + 1], n), {<<>>}, rule.rhs)
        ELSE {}
  IN  Captured(g[s].capture,
               IF g[s].terminal THEN g[s].texts
               ELSE UNION {OfRule(g[s].rules[i]) : i \in DOMAIN g[s].rules}, n)
TextsRound(g, env, n) ==
  FoldLeft(LAMBDA acc, s :
    [acc EXCEPT ![s] = FoldLeft(LAMBDA v, k : Append(v, SymbolTexts(g, s, k - 1, acc, n)), <<>>,
                                [k \in 1 .. ParamValues(g[s]) |-> k])],
    env, Reverse([s \in DOMAIN g |-> s]))
RECURSIVE TextsFurther(_, _, _)
TextsNext(g, env, next, n) == IF next = env THEN env ELSE TextsFurther(g, next, n)
TextsFurther(g, env, n) == TextsNext(g, env, TextsRound(g, env, n), n)
AllGenerated(g, n) ==
  TextsFurther(g, [s \in DOMAIN g |-> [k \in 1 .. ParamValues(g[s]) |-> {}]], n)
Generated(g, n) == AllGenerated(g, n)[1][1]
=============================================================================
