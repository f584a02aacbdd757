---------------------------- MODULE LarkCompile -----------------------------
(***************************************************************************)
(* From the items of Lark grammars to grammar nodes (parser/src/lark/      *)
(* compiler.rs).  A terminal is the set of its texts of at most MaxChars   *)
(* characters.  A step leads to a value and the state of the compiler, or  *)
(* to an error; the state is a record of                                   *)
(*   rules, tokens    the definitions not compiled yet,                    *)
(*   node_ids, regex_ids  what the others were compiled to,                *)
(*   busy             the names in progress, with TRUE for parametric ones,*)
(*   pending          the nested grammars to compile and their nodes,      *)
(*   idx              the number of the grammar,                           *)
(*   defs             what placeholders stand for,                         *)
(*   refs             the references to grammars: name, node, temperature, *)
(*   classes, class   the classes of lexemes, by what is skipped between   *)
(*                    them, and the current one, class_of that of every    *)
(*                    grammar,                                             *)
(*   apart            a grammar must not share another's class.            *)
(***************************************************************************)
EXTENDS LarkSyntax, Substring, Grammar

CONSTANTS
  Chars, MaxChars,  \* bound: characters, and how many a terminal's text has
  CharCode,         \* characters in order
  Fold,             \* characters without regard to case
  RegexOf,          \* the texts of regular expressions
  CommonRegex,      \* COMMON_REGEX: what may be imported
  TokenText,        \* the text of token number i - 1
  SpecialTokens     \* the numbers of special tokens

NumberOfTokens == Len(TokenText)
AllTexts == UNION {[1 .. k -> Chars] : k \in 0 .. MaxChars}

(* A step for each element of xs, one after the other.                      *)
Through(F(_, _), xs, c) ==
  FoldLeft(LAMBDA r, x : Bind(r, LAMBDA vs, d : Replaced(F(x, d), LAMBDA v : Append(vs, v))),
           Parsed(<<>>, c), xs)

-----------------------------------------------------------------------------
(* Terminals: the operations of RegexBuilder on sets of texts.              *)
RxConcat(us) == FoldLeft(LAMBDA acc, u : Cat(acc, u, MaxChars), {<<>>}, us)
RxSelect(us) == UNION Range(us)
RxAnd(us) == {t \in us[1] : \A i \in DOMAIN us : t \in us[i]}
RxNot(u) == AllTexts \ u
RxPower(u, k) == RxConcat([i \in 1 .. Min({k, MaxChars + 1}) |-> u])
RxRepeat(u, min, max) ==
  LET shortest == RxPower(u, min)
      more == Min({max - min, MaxChars})
  IN  UNION {Cat(shortest, RxPower(u, k), MaxChars) : k \in 0 .. more}
Short(texts) == {t \in texts : Len(t) <= MaxChars}
Folded(texts) ==
  LET fold(t) == [i \in DOMAIN t |-> Fold[t[i]]]
      folded == {fold(t) : t \in texts}
  IN  {t \in AllTexts : fold(t) \in folded}
RangeTexts(from, to) == {<<ch>> : ch \in {ch \in Chars : CharCode[ch] \in CharCode[from] .. CharCode[to]}}
compile_lark_regex(fields) ==
  LET field == CHOOSE f \in DOMAIN fields : TRUE
      chunks == CASE field = "substring_words" -> chunk_into_words(fields[field])
                  [] field = "substring_chars" -> chunk_into_chars(fields[field])
                  [] field = "substring_chunks" -> fields[field]
  IN  Short(substring(chunks))

RECURSIVE do_token(_, _), do_token_atom(_, _), do_token_expansions(_, _)
do_token_value(v, c) ==
  CASE v.v = "range" ->
         IF Len(v.from) = 1 /\ Len(v.to) = 1 /\ CharCode[v.from[1]] <= CharCode[v.to[1]]
         THEN Parsed(RangeTexts(v.from[1], v.to[1]), c) ELSE Rejected
    [] v.v = "name" -> do_token(v.n, c)
    [] v.v = "string" -> Parsed(IF v.i THEN Folded({v.s}) ELSE Short({v.s}), c)
    [] v.v = "regex" ->
         IF "l" \in v.flags \/ v.rx \notin DOMAIN RegexOf THEN Rejected
         ELSE Parsed(IF "i" \in v.flags THEN Folded(RegexOf[v.rx]) ELSE RegexOf[v.rx], c)
    [] v.v = "substring" ->
         IF Cardinality(DOMAIN v.fields) = 1 THEN Parsed(compile_lark_regex(v.fields), c) ELSE Rejected
    [] OTHER -> Rejected
do_token_atom(atom, c) ==
  CASE atom.a = "group" -> do_token_expansions(atom.x, c)
    [] atom.a = "maybe" -> Replaced(do_token_expansions(atom.x, c), LAMBDA u : RxRepeat(u, 0, 1))
    [] atom.a = "not" -> Replaced(do_token_atom(atom.atom, c), RxNot)
    [] atom.a = "value" -> do_token_value(atom.v, c)
(* What a repeated expression may be.                                       *)
RangeOk(expr) == expr.op = None /\ 0 <= expr.range[1] /\ expr.range[1] <= expr.range[2]
Bounds(expr) ==
  IF expr.range # None THEN expr.range
  ELSE CASE expr.op = "*" -> <<0, I32_MAX>> [] expr.op = "+" -> <<1, I32_MAX>> [] expr.op = "?" -> <<0, 1>>
do_token_expr(expr, c) ==
  Bind(do_token_atom(expr.atom, c), LAMBDA u, d :
    IF expr.range = None /\ expr.op = None THEN Parsed(u, d)
    ELSE IF expr.range # None /\ ~RangeOk(expr) THEN Rejected
    ELSE Parsed(RxRepeat(u, Bounds(expr)[1], Bounds(expr)[2]), d))
do_token_conjuncts(alias, c) ==
  IF alias.param_cond # Always THEN Rejected
  ELSE Replaced(Through(LAMBDA x, d : Replaced(Through(do_token_expr, x, d), RxConcat), alias.conjuncts, c),
                RxAnd)
do_token_expansions(x, c) == Replaced(Through(do_token_conjuncts, x, c), RxSelect)
do_token(name, c) ==
  IF name \in DOMAIN c.regex_ids THEN Parsed(c.regex_ids[name], c)
  ELSE IF name \in DOMAIN c.busy \/ name \notin DOMAIN c.tokens THEN Rejected
  ELSE Bind(do_token_expansions(c.tokens[name].expansions, [c EXCEPT !.busy = (name :> FALSE) @@ @]),
         LAMBDA u, d : Parsed(u, [d EXCEPT !.regex_ids = (name :> u) @@ @,
                                    !.busy = Restrict(@, DOMAIN @ \ {name})]))

-----------------------------------------------------------------------------
(* Special tokens: one with a name, any token, or ranges of numbers.        *)
TokenTexts(ranges) == {<<TokenText[k + 1]>> : k \in Covered(ranges)}
token_ranges(ranges, c) ==
  IF ValidRanges(ranges, NumberOfTokens) THEN Parsed(lexeme(TokenTexts(ranges)), c) ELSE Rejected
special_token(token, c) ==
  CASE token.kind = "any" ->
         IF token.negate THEN Rejected ELSE token_ranges(<<<<0, NumberOfTokens - 1>>>>, c)
    [] token.kind = "ranges" ->
         IF token.ranges = <<>> \/ ~ValidRanges(token.ranges, NumberOfTokens) THEN Rejected
         ELSE token_ranges(IF token.negate THEN negated_token_ranges(token.ranges, NumberOfTokens)
                           ELSE token.ranges, c)
    [] token.kind = "named" ->
         IF token.name \in DOMAIN SpecialTokens
         THEN token_ranges(<<<<SpecialTokens[token.name], SpecialTokens[token.name]>>>>, c) ELSE Rejected

(* A reference to a grammar, given by name or nested.                       *)
gen_grammar(inner, name, temperature, props, c) ==
  LET ref == <<c.idx, "grammar", Len(c.refs) + 1>>
      node == gen_grammar_node(ref, temperature, props)
  IN  Parsed(node, [c EXCEPT
        !.refs = Append(@, [name |-> name, node |-> ref, temperature |-> temperature]),
        !.pending = IF inner = None THEN @ ELSE Append(@, [node |-> ref, inner |-> inner]),
        !.apart = @ \/ props.special \/ temperature # None])
grammar_ref(g, temperature, props, c) ==
  IF g.numeric THEN Rejected ELSE gen_grammar(None, g.name, temperature, props, c)
do_nested(v, temperature, props, c) == gen_grammar(v, None, temperature, props, c)

RECURSIVE do_atom(_, _), do_expansions(_, _), do_rule(_, _, _)
is_rule(name, c) == name \in DOMAIN c.node_ids \cup DOMAIN c.busy \cup DOMAIN c.rules
AsTerminal(atom, c) == Replaced(do_token_atom(atom, c), lexeme)
do_value(v, c) ==
  CASE v.v = "name" -> IF is_rule(v.n, c) THEN do_rule(v.n, NoParam, c) ELSE AsTerminal(Value(v), c)
    [] v.v = "param" -> do_rule(v.n, v.e, c)
    [] v.v = "special" -> special_token(v.token, c)
    [] v.v = "grammar" -> grammar_ref(v.g, None, NoProps, c)
    [] v.v \in {"lark", "json"} -> do_nested(v, None, NoProps, c)
    [] v.v = "template" -> Rejected
    [] OTHER -> IF IsEmptyString(v) THEN Parsed(empty, c) ELSE AsTerminal(Value(v), c)
do_atom(atom, c) ==
  CASE atom.a = "group" -> do_expansions(atom.x, c)
    [] atom.a = "maybe" -> Replaced(do_expansions(atom.x, c), optional)
    [] atom.a = "not" -> AsTerminal(atom, c)
    [] atom.a = "value" -> do_value(atom.v, c)
Operated(expr, node) ==
  CASE expr.op = "*" -> zero_or_more(node)
    [] expr.op = "+" -> one_or_more(node)
    [] expr.op = "?" -> optional(node)
    [] OTHER -> node
do_expr(expr, c) ==
  Bind(do_atom(expr.atom, c), LAMBDA node, d :
    IF expr.range = None THEN Parsed(Operated(expr, node), d)
    ELSE IF ~RangeOk(expr) THEN Rejected
    ELSE Parsed(repeat(node, expr.range[1], expr.range[2], expr.range[2] = I32_MAX), d))
do_alias(alias, c) ==
  IF Len(alias.conjuncts) # 1 THEN Rejected ELSE Replaced(Through(do_expr, alias.conjuncts[1], c), join)
do_expansions(x, c) ==
  LET conds == [i \in DOMAIN x |-> x[i].param_cond]
      needs_cond == \E i \in DOMAIN x : conds[i] # Always
  IN  Replaced(Through(do_alias, x, c),
               LAMBDA nodes : select_with_cond(nodes, IF needs_cond THEN conds ELSE <<>>))

(* Rules.  A terminal that ends at a stop is the shortest text, but not the *)
(* empty one if there is another, that ends with it.                        *)
Lazy(texts) == {t \in texts : \A k \in 1 .. Len(t) - 1 : SubSeq(t, 1, k) \notin texts}
gen(body, stop, props) == lexeme_ext(IF stop = None THEN body ELSE Lazy(Cat(body, stop, MaxChars)), props)
RuleProps(rule) ==
  [capture |-> IF rule.capture_name = None THEN {} ELSE {rule.capture_name},
   special |-> rule.max_tokens # None \/ rule.stop_capture_name # None]
Counted(rule, c) == [c EXCEPT !.apart = @ \/ rule.max_tokens # None]
StoppedRule(rule, c) ==
  Bind(do_token_expansions(rule.expansions, c), LAMBDA body, d :
    Bind(do_token_atom(Value(stop_like(rule)), d), LAMBDA stop, e :
      Parsed(gen(body, IF is_lazy(rule) THEN stop ELSE None, RuleProps(rule)), Counted(rule, e))))
LimitedRule(rule, c) ==
  LET atom == single_atom(rule.expansions)
      v == IF atom = None THEN LiteralString(<<>>, FALSE)
           ELSE IF atom.a = "value" THEN atom.v ELSE LiteralString(<<>>, FALSE)
  IN  CASE v.v = "grammar" -> grammar_ref(v.g, rule.temperature, RuleProps(rule), c)
        [] v.v \in {"json", "lark"} -> do_nested(v, rule.temperature, RuleProps(rule), c)
        [] OTHER -> Bind(do_token_expansions(rule.expansions, c), LAMBDA u, d :
                      Parsed(lexeme_ext(u, RuleProps(rule)), Counted(rule, d)))
PlainRule(rule, c) ==
  Bind(do_expansions(rule.expansions, c), LAMBDA inner, d :
    IF rule.is_parametric # node_needs_param(inner) THEN Rejected
    ELSE IF rule.capture_name # None \/ (is_parametric(inner) /\ ~rule.is_parametric)
    THEN Parsed(join_props(<<inner>>, RuleProps(rule)), d) ELSE Parsed(inner, d))
CompiledRule(rule, c) ==
  IF \/ rule.stop # None /\ rule.suffix # None
     \/ rule.is_parametric /\ (stop_like(rule) # None \/ rule.temperature # None \/ rule.max_tokens # None)
  THEN Rejected
  ELSE IF rule.max_tokens = 0 THEN Parsed(empty, c)
  ELSE IF stop_like(rule) # None THEN StoppedRule(rule, c)
  ELSE IF rule.stop_capture_name # None THEN Rejected
  ELSE IF rule.temperature # None \/ rule.max_tokens # None THEN LimitedRule(rule, c)
  ELSE PlainRule(rule, c)
do_rule_core(name, c) ==
  IF name \notin DOMAIN c.rules THEN Rejected
  ELSE CompiledRule(c.rules[name],
         [c EXCEPT !.rules = Restrict(@, DOMAIN @ \ {name}),
                   !.busy = (name :> c.rules[name].is_parametric) @@ @])
apply_node(ref, param, c) == IF CanApply(ref, param) THEN Parsed(apply_param(ref, param), c) ELSE Rejected
(* A rule that is met while it is compiled gets a placeholder, that stands  *)
(* for the rule's node once there is one.                                   *)
Placeholder(name, c) == new_param_node(new_node(<<c.idx, "rule", name>>), c.busy[name])
RuleDone(name, node, c) ==
  [c EXCEPT !.defs = IF name \in DOMAIN c.node_ids THEN (<<c.idx, "rule", name>> :> node) @@ @ ELSE @,
            !.node_ids = (name :> node) @@ @, !.busy = Restrict(@, DOMAIN @ \ {name})]
do_rule(name, param, c) ==
  IF name \in DOMAIN c.node_ids THEN apply_node(c.node_ids[name], param, c)
  ELSE IF name \in DOMAIN c.busy
  THEN apply_node(Placeholder(name, c), param, [c EXCEPT !.node_ids = (name :> Placeholder(name, c)) @@ @])
  ELSE Bind(do_rule_core(name, c), LAMBDA node, d : apply_node(node, param, RuleDone(name, node, d)))

-----------------------------------------------------------------------------
(* The items of a grammar: definitions, and statements.                     *)
NoItems == [rules |-> <<>>, tokens |-> <<>>, ignore |-> <<>>, options |-> <<>>]
Unextended(def) == def.params = None /\ def.priority = None
add_token_def(name, path, g) ==
  IF path \notin DOMAIN CommonRegex \/ name \in DOMAIN g.tokens THEN Rejected
  ELSE Parsed(None, [g EXCEPT !.tokens = (name :> TokenDef(name, None, None,
         <<Alias(<<<<Expr(Value(LiteralRegex(CommonRegex[path], {})), None, None)>>>>, None, Always)>>)) @@ @])
do_statement(item, g) ==
  CASE item.i = "ignore" -> Parsed(None, [g EXCEPT !.ignore = Append(@, item.expansions)])
    [] item.i = "import" ->
         add_token_def(IF item.local = None THEN Last(item.path) ELSE item.local, item.path, g)
    [] item.i = "imports" ->
         Through(LAMBDA name, h : add_token_def(name, Append(item.path, name), h), item.names, g)
    [] item.i = "options" ->
         IF "invalid" \in Range(item.options) THEN Rejected
         ELSE Parsed(None, [g EXCEPT !.options = item.options @@ @])
    [] item.i \in {"override", "declare"} -> Rejected
process_item(item, g) ==
  CASE item.i = "rule" ->
         IF Unextended(item.rule) /\ item.rule.name \notin DOMAIN g.rules
         THEN Parsed(None, [g EXCEPT !.rules = (item.rule.name :> item.rule) @@ @]) ELSE Rejected
    [] item.i = "token" ->
         IF Unextended(item) /\ item.name \notin DOMAIN g.tokens
         THEN Parsed(None, [g EXCEPT !.tokens = (item.name :> item) @@ @]) ELSE Rejected
    [] OTHER -> do_statement(item, g)

(* The class of the lexemes of a grammar: that of an earlier grammar with   *)
(* the same text between them, unless tokens are counted or temperatures    *)
(* set.                                                                     *)
setup_lexeme_class_with_skip(skip, c) ==
  LET same == {i \in DOMAIN c.classes : c.classes[i] = skip}
  IN  IF same # {} /\ ~c.apart THEN [c EXCEPT !.class = Max(same)]
      ELSE [c EXCEPT !.classes = Append(@, skip), !.class = Len(c.classes) + 1]
add_grammar_with_skip(skip, c) ==
  LET d == setup_lexeme_class_with_skip(skip, c)
  IN  [d EXCEPT !.class_of = Append(@, d.class)]
StartOf(c) == start_node(<<c.idx, "start", "start">>)
NewCompiler ==
  [rules |-> <<>>, tokens |-> <<>>, node_ids |-> <<>>, regex_ids |-> <<>>, busy |-> <<>>,
   pending |-> <<>>, idx |-> 0, defs |-> <<>>, refs |-> <<>>, classes |-> <<>>, class |-> 0,
   class_of |-> <<>>, apart |-> FALSE]
ForItems(g, c) ==
  [c EXCEPT !.rules = g.rules, !.tokens = g.tokens, !.node_ids = <<>>, !.regex_ids = <<>>,
            !.busy = <<>>, !.pending = <<>>, !.idx = @ + 1]
IgnoreOnce(g) == IF "ignore_once" \in DOMAIN g.options THEN g.options.ignore_once = "true" ELSE FALSE
(* Compiler::execute, up to the nested grammars: leads to the start node.   *)
Executed(g, c) ==
  IF "start" \notin DOMAIN g.rules THEN Rejected
  ELSE Bind(Through(do_token_expansions, g.ignore, ForItems(g, c)), LAMBDA us, d :
         Bind(do_rule("start", NoParam,
                      add_grammar_with_skip([texts |-> RxSelect(us), once |-> IgnoreOnce(g)], d)),
              LAMBDA node, e : Parsed(StartOf(e), [e EXCEPT !.defs = (StartOf(e).name :> node) @@ @])))
compile_lark(items, c) ==
  Bind(Through(process_item, items, NoItems), LAMBDA none, g : Executed(g, c))
(* A nested JSON schema is a text of its own, with the class of its white   *)
(* space.                                                                   *)
JsonSkip == [texts |-> {<<"json">>}, once |-> FALSE]
compile_json(json, c) ==
  LET d == add_grammar_with_skip(JsonSkip, [c EXCEPT !.idx = @ + 1, !.pending = <<>>])
  IN  Parsed(StartOf(d), [d EXCEPT !.defs = (StartOf(d).name :> lexeme({<<json>>})) @@ @])
compile_nested(v, c) == IF v.v = "lark" THEN compile_lark(v.items, c) ELSE compile_json(v.json, c)
link_gen_grammar(node, start, c) == [c EXCEPT !.defs = (node :> start) @@ @]

(* References by name, once all grammars are compiled: named grammars are   *)
(* started from roots.  Two references to a class must agree on the         *)
(* temperature.                                                             *)
RefRoot(ref, roots, c) == IF ref.name = None THEN c.defs[ref.node] ELSE roots[ref.name]
ClassOfRoot(root, c) == c.class_of[root.name[1]]
Unknown(c, roots) == \E i \in DOMAIN c.refs : c.refs[i].name \notin DOMAIN roots \cup {None}
Degrees(t) == IF t = None THEN 0 ELSE t
TemperatureMismatch(c, roots) ==
  \E i, j \in DOMAIN c.refs :
    /\ ClassOfRoot(RefRoot(c.refs[i], roots, c), c) = ClassOfRoot(RefRoot(c.refs[j], roots, c), c)
    /\ Degrees(c.refs[i].temperature) # Degrees(c.refs[j].temperature)
resolve_grammar_refs(c, roots) ==
  IF Unknown(c, roots) THEN Rejected
  ELSE IF TemperatureMismatch(c, roots) THEN Rejected
  ELSE Parsed(None, [c EXCEPT !.defs = FoldLeft(LAMBDA acc, ref : (ref.node :> RefRoot(ref, roots, c)) @@ acc,
                                                @, c.refs)])
=============================================================================
