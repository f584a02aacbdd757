----------------------------- MODULE LarkSyntax -----------------------------
(***************************************************************************)
(* From the tokens of a Lark grammar to its items (parser/src/lark/ast.rs, *)
(* parser.rs).  A token is a record of its kind t and value val; that of   *)
(* a String is the sequence of its characters, with its flag i, that of a  *)
(* Number an integer, dot telling that it is written with a point after it.*)
(* ts is the sequence of all tokens, n the nesting level and at the place  *)
(* to read from; locations and the wording of errors are left out.         *)
(***************************************************************************)
EXTENDS Params, SequencesExt, TLC

CONSTANT MAX_NESTING  \* 30 in the code

I32_MAX == 2147483647

(* The tree.  Expansions are a sequence of aliases, of which the conjuncts  *)
(* are sequences of expressions.                                            *)
Alias(conjuncts, name, cond) == [conjuncts |-> conjuncts, alias |-> name, param_cond |-> cond]
Expr(atom, op, range) == [atom |-> atom, op |-> op, range |-> range]
Group(x) == [a |-> "group", x |-> x]
Maybe(x) == [a |-> "maybe", x |-> x]
Not(atom) == [a |-> "not", atom |-> atom]
Value(v) == [a |-> "value", v |-> v]
Name(n) == [v |-> "name", n |-> n]
NameParam(n, e) == [v |-> "param", n |-> n, e |-> e]
LiteralString(s, i) == [v |-> "string", s |-> s, i |-> i]
LiteralRange(from, to) == [v |-> "range", from |-> from, to |-> to]
LiteralRegex(rx, flags) == [v |-> "regex", rx |-> rx, flags |-> flags]
NewRule(name, is_parametric, params, priority) ==
  [name |-> name, is_parametric |-> is_parametric, params |-> params, priority |-> priority,
   expansions |-> <<>>, stop |-> None, suffix |-> None, max_tokens |-> None,
   temperature |-> None, capture_name |-> None, stop_capture_name |-> None]
Rule(rule) == [i |-> "rule", rule |-> rule]
TokenDef(name, params, priority, x) ==
  [i |-> "token", name |-> name, params |-> params, priority |-> priority, expansions |-> x]
single_atom(x) ==
  IF Len(x) = 1 /\ Len(x[1].conjuncts) = 1 /\ Len(x[1].conjuncts[1]) = 1 /\ x[1].param_cond = Always
  THEN x[1].conjuncts[1][1].atom ELSE None
stop_like(rule) == IF rule.stop # None THEN rule.stop ELSE rule.suffix
IsEmptyString(v) == IF v.v = "string" THEN v.s = <<>> ELSE FALSE
is_lazy(rule) == IF stop_like(rule) = None THEN FALSE ELSE ~IsEmptyString(stop_like(rule))

(* What reading leads to: a value, and where to go on; or an error.         *)
Parsed(v, at) == [ok |-> TRUE, v |-> v, at |-> at]
Rejected == [ok |-> FALSE]
Bind(r, F(_, _)) == IF r.ok THEN F(r.v, r.at) ELSE Rejected
Replaced(r, F(_)) == Bind(r, LAMBDA v, at : Parsed(F(v), at))

has_token(ts, at, t) == at <= Len(ts) /\ ts[at].t = t
has_any_token(ts, at, kinds) == at <= Len(ts) /\ ts[at].t \in kinds
has_tokens(ts, at, kinds) ==
  at + Len(kinds) - 1 <= Len(ts) /\ \A i \in DOMAIN kinds : ts[at + i - 1].t = kinds[i]
expect_any(ts, at, kinds) ==
  IF has_any_token(ts, at, kinds) THEN Parsed(ts[at].val, at + 1) ELSE Rejected
expect_token(ts, at, t) == expect_any(ts, at, {t})
Closed(r, ts, t) == Bind(r, LAMBDA v, p : Replaced(expect_token(ts, p, t), LAMBDA none : v))
RECURSIVE consume_newlines(_, _)
consume_newlines(ts, at) ==
  IF has_token(ts, at, "Newline") THEN consume_newlines(ts, at + 1) ELSE at

(* "~0..2" is lexed as "~", "0." and ".", and put right afterwards.         *)
split_compact_repeat_ranges(ts) ==
  LET Compact(i) == has_tokens(ts, i - 1, <<"Tilde", "Number", "Dot">>) /\ ts[i].dot
  IN  [i \in DOMAIN ts |->
         IF i > 1 /\ i < Len(ts) /\ Compact(i) THEN [ts[i] EXCEPT !.dot = FALSE]
         ELSE IF i > 2 /\ Compact(i - 1) THEN [ts[i] EXCEPT !.t = "DotDot"] ELSE ts[i]]

-----------------------------------------------------------------------------
(* Names and numbers.                                                       *)
parse_name(ts, at) == expect_any(ts, at, {"Rule", "Token"})
RECURSIVE NameList(_, _, _)
NameList(ts, at, kinds) ==
  Bind(expect_any(ts, at, kinds), LAMBDA name, p :
    IF has_token(ts, p, "Comma")
    THEN Replaced(NameList(ts, p + 1, kinds), LAMBDA names : <<name>> \o names)
    ELSE Parsed(<<name>>, p))
parse_name_list(ts, at) == Closed(NameList(ts, at, {"Rule", "Token"}), ts, "RParen")
parse_params(ts, at, kind) ==
  IF has_token(ts, at, "LBrace") THEN Closed(NameList(ts, at + 1, {kind}), ts, "RBrace")
  ELSE Parsed(None, at)
RECURSIVE ImportNames(_, _)
ImportNames(ts, at) ==
  Bind(parse_name(ts, at), LAMBDA name, p :
    IF has_token(ts, p, "Dot")
    THEN Replaced(ImportNames(ts, p + 1), LAMBDA names : <<name>> \o names)
    ELSE Parsed(<<name>>, p))
parse_import_path(ts, at) ==
  IF has_token(ts, at, "Dot")
  THEN Replaced(ImportNames(ts, at + 1), LAMBDA names : <<".">> \o names)
  ELSE ImportNames(ts, at)
parse_i32(ts, at) ==
  IF has_token(ts, at, "Number") /\ ~ts[at].dot THEN Parsed(ts[at].val, at + 1) ELSE Rejected
parse_usize_max(ts, at, max) ==
  Bind(parse_i32(ts, at), LAMBDA k, p : IF k \in 0 .. max THEN Parsed(k, p) ELSE Rejected)
parse_usize(ts, at) == parse_usize_max(ts, at, I32_MAX)
parse_bit_idx(ts, at) == parse_usize_max(ts, at, NumBits - 1)
parse_priority(ts, at) ==
  IF has_token(ts, at, "Dot") THEN parse_i32(ts, at + 1) ELSE Parsed(None, at)

(* Parameters.                                                              *)
In(ts, at, Parse(_)) ==
  Bind(expect_token(ts, at, "LParen"), LAMBDA none, p : Closed(Parse(p), ts, "RParen"))
parse_param_ref(ts, at) ==
  IF has_token(ts, at, "LBracket")
  THEN Bind(parse_bit_idx(ts, at + 1), LAMBDA start, p :
         Bind(expect_token(ts, p, "Colon"), LAMBDA none, q :
           Bind(Closed(parse_usize_max(ts, q, NumBits), ts, "RBracket"), LAMBDA end, r :
             IF end > start THEN Parsed([start |-> start, end |-> end], r) ELSE Rejected)))
  ELSE Replaced(expect_token(ts, at, "Underscore"), LAMBDA none : FullRef)
parse_param_value(ts, at) ==
  IF has_token(ts, at, "HexNumber")
  THEN IF ts[at].val < 2^NumBits THEN Parsed(ts[at].val, at + 1) ELSE Rejected
  ELSE parse_usize_max(ts, at, 2^NumBits - 1)
AllBits == 2^NumBits - 1
parse_param_expr(ts, at) ==
  LET Call(n, p) ==
        CASE n \in {"incr", "decr"} ->
               Replaced(In(ts, p, LAMBDA q : parse_param_ref(ts, q)), LAMBDA r : [e |-> n, r |-> r])
          [] n \in {"bit_and", "bit_or"} ->
               Replaced(In(ts, p, LAMBDA q : parse_param_value(ts, q)), LAMBDA v : [e |-> n, v |-> v])
          [] n \in {"set_bit", "clear_bit"} ->
               Replaced(In(ts, p, LAMBDA q : parse_bit_idx(ts, q)),
                        LAMBDA k : IF n = "set_bit" THEN [e |-> "bit_or", v |-> 2^k]
                                   ELSE [e |-> "bit_and", v |-> AllBits - 2^k])
          [] OTHER -> Rejected
  IN  IF has_any_token(ts, at, {"Number", "HexNumber"})
      THEN Replaced(parse_param_value(ts, at), LAMBDA v : [e |-> "const", v |-> v])
      ELSE IF has_token(ts, at, "Underscore") THEN Parsed(SelfRef, at + 1)
      ELSE Bind(expect_token(ts, at, "Rule"), Call)

(* Conditions; those on single bits and on all zeros or ones are equations. *)
Comparisons == {"ne", "eq", "lt", "le", "gt", "ge"}
BitCounts == [bit_count_ne |-> "ne", bit_count_eq |-> "eq", bit_count_lt |-> "lt",
              bit_count_le |-> "le", bit_count_gt |-> "gt", bit_count_ge |-> "ge"]
Cond(kind, op, r, v) == [c |-> kind, op |-> op, r |-> r, v |-> v]
RefAnd(ts, at, Parse(_)) ==
  Bind(parse_param_ref(ts, at), LAMBDA r, p :
    Bind(expect_token(ts, p, "Comma"), LAMBDA none, q :
      Replaced(Parse(q), LAMBDA v : <<r, v>>)))
RECURSIVE parse_param_cond(_, _)
CondPair(ts, at) ==
  Bind(parse_param_cond(ts, at), LAMBDA left, p :
    Bind(expect_token(ts, p, "Comma"), LAMBDA none, q :
      Replaced(parse_param_cond(ts, q), LAMBDA right : <<left, right>>)))
CondCall(ts, n, at) ==
  CASE n = "true" -> Parsed(Always, at)
    [] n \in Comparisons ->
         Replaced(In(ts, at, LAMBDA p : RefAnd(ts, p, LAMBDA q : parse_param_value(ts, q))),
                  LAMBDA x : Cond("value", n, x[1], x[2]))
    [] n \in DOMAIN BitCounts ->
         Replaced(In(ts, at, LAMBDA p : RefAnd(ts, p, LAMBDA q : parse_bit_idx(ts, q))),
                  LAMBDA x : Cond("count", BitCounts[n], x[1], x[2]))
    [] n \in {"and", "or"} ->
         Replaced(In(ts, at, LAMBDA p : CondPair(ts, p)), LAMBDA x : [c |-> n, a |-> x[1], b |-> x[2]])
    [] n = "not" -> Replaced(In(ts, at, LAMBDA p : parse_param_cond(ts, p)), Negated)
    [] n \in {"bit_clear", "bit_set"} ->
         Replaced(In(ts, at, LAMBDA p : parse_bit_idx(ts, p)),
                  LAMBDA k : Cond("value", "eq", SingleBit(k), IF n = "bit_set" THEN 1 ELSE 0))
    [] n \in {"is_zeros", "is_ones"} ->
         Replaced(In(ts, at, LAMBDA p : parse_param_ref(ts, p)),
                  LAMBDA r : Cond("value", "eq", r, IF n = "is_ones" THEN 2^Width(r) - 1 ELSE 0))
    [] OTHER -> Rejected
parse_param_cond(ts, at) ==
  Bind(expect_token(ts, at, "Rule"), LAMBDA n, p : CondCall(ts, n, p))

-----------------------------------------------------------------------------
RECURSIVE parse_expansions(_, _, _), parse_aliases(_, _, _), parse_conjuncts(_, _, _),
          parse_expansion(_, _, _), parse_value(_, _, _), Values(_, _, _), parse_items(_, _, _)

(* Values.  A name before "{," or "{12" is repeated, before another "{" it  *)
(* is a template.  The tokens of a nested grammar are read by a parser of   *)
(* its own, one level deeper.                                               *)
Values(ts, n, at) ==
  Bind(parse_value(ts, n, at), LAMBDA v, p :
    IF has_token(ts, p, "Comma") THEN Replaced(Values(ts, n, p + 1), LAMBDA vs : <<v>> \o vs)
    ELSE Parsed(<<v>>, p))
(* As it would be if a "{" after a name always began a template.            *)
NamedValueUnchecked(ts, n, name, at) ==
  IF has_token(ts, at, "LBrace")
  THEN Replaced(Closed(Values(ts, n, at + 1), ts, "RBrace"),
                LAMBDA values : [v |-> "template", n |-> name, values |-> values])
  ELSE IF has_token(ts, at, "DoubleColon")
  THEN Replaced(parse_param_expr(ts, at + 1), LAMBDA e : NameParam(name, e))
  ELSE Parsed(Name(name), at)
NamedValue(ts, n, name, at) ==
  IF has_token(ts, at, "LBrace") /\ ~has_tokens(ts, at, <<"LBrace", "Comma">>)
     /\ ~has_tokens(ts, at, <<"LBrace", "Number">>)
  THEN Replaced(Closed(Values(ts, n, at + 1), ts, "RBrace"),
                LAMBDA values : [v |-> "template", n |-> name, values |-> values])
  ELSE IF has_token(ts, at, "DoubleColon")
  THEN Replaced(parse_param_expr(ts, at + 1), LAMBDA e : NameParam(name, e))
  ELSE Parsed(Name(name), at)
ClosingBrace(ts, at) ==
  LET Braces(kind, e) == Cardinality({i \in at .. e : ts[i].t = kind})
      ends == {e \in at .. Len(ts) : Braces("RBrace", e) > Braces("LBrace", e)}
  IN  IF ends = {} THEN None ELSE CHOOSE e \in ends : \A f \in ends : e <= f
NestedLark(ts, n, at) ==
  IF ~has_token(ts, at, "LBrace") \/ ClosingBrace(ts, at + 1) = None \/ n + 1 >= MAX_NESTING
  THEN Rejected
  ELSE Bind(parse_items(SubSeq(ts, at + 1, ClosingBrace(ts, at + 1) - 1), n + 1, 1),
            LAMBDA items, end :
              Parsed([v |-> "lark", items |-> items], ClosingBrace(ts, at + 1) + 1))
StringValue(ts, at) ==
  LET simple == [i \in {at, at + 2} |-> IF has_token(ts, i, "String") THEN ~ts[i].i ELSE FALSE]
  IN  IF ~has_token(ts, at + 1, "DotDot") THEN Parsed(LiteralString(ts[at].val, ts[at].i), at + 1)
      ELSE IF simple[at] /\ simple[at + 2]
      THEN Parsed(LiteralRange(ts[at].val, ts[at + 2].val), at + 3) ELSE Rejected
parse_value(ts, n, at) ==
  IF ~(at <= Len(ts)) THEN Rejected
  ELSE CASE ts[at].t = "String" -> StringValue(ts, at)
         [] ts[at].t = "Regexp" -> Parsed(LiteralRegex(ts[at].val, ts[at].flags), at + 1)
         [] ts[at].t = "GrammarRef" -> Parsed([v |-> "grammar", g |-> ts[at].val], at + 1)
         [] ts[at].t = "SpecialToken" -> Parsed([v |-> "special", token |-> ts[at].val], at + 1)
         [] ts[at].t = "KwJson" -> Parsed([v |-> "json", json |-> ts[at].val], at + 1)
         [] ts[at].t = "KwRegex" -> Parsed([v |-> "substring", fields |-> ts[at].val], at + 1)
         [] ts[at].t = "KwLark" -> NestedLark(ts, n, at + 1)
         [] ts[at].t \in {"Rule", "Token"} -> NamedValue(ts, n, ts[at].val, at + 1)
         [] OTHER -> Rejected

(* Expressions.                                                             *)
AtomAt(ts, n, at) ==
  IF has_token(ts, at, "LParen")
  THEN Replaced(Closed(parse_expansions(ts, n, at + 1), ts, "RParen"), Group)
  ELSE IF has_token(ts, at, "LBracket")
  THEN Replaced(Closed(parse_expansions(ts, n, at + 1), ts, "RBracket"), Maybe)
  ELSE Replaced(parse_value(ts, n, at), Value)
parse_atom(ts, n, at) ==
  IF has_token(ts, at, "Tilde") THEN Replaced(AtomAt(ts, n, at + 1), Not) ELSE AtomAt(ts, n, at)
TildeRange(ts, at) ==
  Bind(parse_i32(ts, at), LAMBDA start, p :
    IF has_token(ts, p, "DotDot")
    THEN Replaced(parse_i32(ts, p + 1), LAMBDA end : <<start, end>>)
    ELSE Parsed(<<start, start>>, p))
BraceRange(ts, at) ==
  Bind(IF has_token(ts, at, "Comma") THEN Parsed(0, at) ELSE parse_i32(ts, at), LAMBDA start, p :
    Bind(Closed(IF ~has_token(ts, p, "Comma") THEN Parsed(start, p)
                ELSE IF has_token(ts, p + 1, "RBrace") THEN Parsed(I32_MAX, p + 1)
                ELSE parse_i32(ts, p + 1), ts, "RBrace"), LAMBDA end, q :
      IF end = 0 THEN Rejected ELSE Parsed(<<start, end>>, q)))
Postfix(ts, atom, at) ==
  IF has_token(ts, at, "Op") THEN Parsed(Expr(atom, ts[at].val, None), at + 1)
  ELSE IF has_tokens(ts, at, <<"Tilde", "Number">>)
  THEN Replaced(TildeRange(ts, at + 1), LAMBDA range : Expr(atom, None, range))
  ELSE IF has_token(ts, at, "LBrace")
  THEN Replaced(BraceRange(ts, at + 1), LAMBDA range : Expr(atom, None, range))
  ELSE Parsed(Expr(atom, None, None), at)
parse_expr(ts, n, at) ==
  Bind(parse_atom(ts, n, at), LAMBDA atom, p : Postfix(ts, atom, p))
parse_expansion(ts, n, at) ==
  IF has_any_token(ts, at, {"Newline", "VBar", "Arrow", "RBrace", "RParen", "RBracket", "And", "KwIf"})
  THEN Parsed(<<>>, at)
  ELSE Bind(parse_expr(ts, n, at), LAMBDA expr, p :
         Replaced(parse_expansion(ts, n, p), LAMBDA exprs : <<expr>> \o exprs))
parse_conjuncts(ts, n, at) ==
  Bind(parse_expansion(ts, n, at), LAMBDA x, p :
    IF has_token(ts, p, "And")
    THEN Replaced(parse_conjuncts(ts, n, p + 1), LAMBDA xs : <<x>> \o xs)
    ELSE Parsed(<<x>>, p))
parse_alias(ts, n, at) ==
  Bind(parse_conjuncts(ts, n, at), LAMBDA xs, p :
    Bind(IF has_token(ts, p, "Arrow") THEN expect_token(ts, p + 1, "Rule") ELSE Parsed(None, p),
      LAMBDA name, q :
        Replaced(IF has_token(ts, q, "KwIf") THEN parse_param_cond(ts, q + 1) ELSE Parsed(Always, q),
                 LAMBDA cond : Alias(xs, name, cond))))
(* An alternative may start on a line of its own.                           *)
match_vbar(ts, at) ==
  IF has_token(ts, at, "VBar") THEN Parsed(None, at + 1)
  ELSE IF has_tokens(ts, at, <<"Newline", "VBar">>) THEN Parsed(None, at + 2)
  ELSE Rejected
parse_aliases(ts, n, at) ==
  Bind(parse_alias(ts, n, at), LAMBDA alias, p :
    IF match_vbar(ts, p).ok
    THEN Replaced(parse_aliases(ts, n, match_vbar(ts, p).at), LAMBDA aliases : <<alias>> \o aliases)
    ELSE Parsed(<<alias>>, p))
parse_expansions(ts, n, at) ==
  IF n + 1 < MAX_NESTING THEN parse_aliases(ts, n + 1, at) ELSE Rejected

-----------------------------------------------------------------------------
(* The attributes of a rule.                                                *)
simple_string(ts, at) ==
  Bind(expect_token(ts, at, "String"), LAMBDA s, p : IF ts[at].i THEN Rejected ELSE Parsed(s, p))
StopValue(ts, n, at, rule) ==
  Bind(parse_value(ts, n, at), LAMBDA v, p : IF stop_like(rule) = None THEN Parsed(v, p) ELSE Rejected)
Setting(ts, n, key, at, rule) ==
  CASE key = "stop" -> Replaced(StopValue(ts, n, at, rule), LAMBDA v : [rule EXCEPT !.stop = v])
    [] key = "suffix" -> Replaced(StopValue(ts, n, at, rule), LAMBDA v : [rule EXCEPT !.suffix = v])
    [] key = "stop_capture" /\ rule.stop_capture_name = None ->
         Replaced(simple_string(ts, at), LAMBDA s : [rule EXCEPT !.stop_capture_name = s])
    [] key = "max_tokens" -> Replaced(parse_usize(ts, at), LAMBDA k : [rule EXCEPT !.max_tokens = k])
    [] key = "temperature" ->
         Replaced(expect_token(ts, at, "Number"), LAMBDA x : [rule EXCEPT !.temperature = x])
    [] OTHER -> Rejected
Attribute(ts, n, key, at, rule) ==
  IF key = "capture"
  THEN IF has_token(ts, at, "Equals")
       THEN Replaced(simple_string(ts, at + 1), LAMBDA s : [rule EXCEPT !.capture_name = s])
       ELSE Parsed(IF rule.capture_name = None THEN [rule EXCEPT !.capture_name = <<rule.name>>] ELSE rule, at)
  ELSE IF key = "lazy"
  THEN Parsed(IF is_lazy(rule) THEN rule ELSE [rule EXCEPT !.suffix = LiteralRegex("", {})], at)
  ELSE Bind(expect_token(ts, at, "Equals"), LAMBDA none, p : Setting(ts, n, key, p, rule))
RECURSIVE parse_attributes(_, _, _, _)
parse_attributes(ts, n, at, rule) ==
  IF has_token(ts, at, "RBracket") THEN Parsed(rule, at + 1)
  ELSE Bind(Bind(expect_token(ts, at, "Rule"), LAMBDA key, p : Attribute(ts, n, key, p, rule)),
         LAMBDA changed, q :
           IF has_token(ts, q, "Comma") THEN parse_attributes(ts, n, q + 1, changed)
           ELSE Replaced(expect_token(ts, q, "RBracket"), LAMBDA none : changed))

(* Items.                                                                   *)
Body(ts, n, at) ==
  Bind(expect_token(ts, at, "Colon"), LAMBDA none, p : parse_expansions(ts, n, p))
RuleHead(ts, at) ==
  Bind(expect_token(ts, at, "Rule"), LAMBDA name, p :
    Bind(IF has_token(ts, p, "DoubleColon") THEN expect_token(ts, p + 1, "Underscore") ELSE Parsed(None, p),
      LAMBDA none, q :
        Bind(parse_params(ts, q, "Rule"), LAMBDA params, r :
          Replaced(parse_priority(ts, r), LAMBDA priority :
            NewRule(name, has_token(ts, p, "DoubleColon"), params, priority)))))
parse_rule(ts, n, at) ==
  Bind(Bind(RuleHead(ts, at), LAMBDA rule, p :
         IF has_token(ts, p, "LBracket") THEN parse_attributes(ts, n, p + 1, rule) ELSE Parsed(rule, p)),
    LAMBDA rule, q : Replaced(Body(ts, n, q), LAMBDA x : [rule EXCEPT !.expansions = x]))
parse_token_def(ts, n, at) ==
  Bind(expect_token(ts, at, "Token"), LAMBDA name, p :
    Bind(parse_params(ts, p, "Token"), LAMBDA params, q :
      Bind(parse_priority(ts, q), LAMBDA priority, r :
        Replaced(Body(ts, n, r), LAMBDA x : TokenDef(name, params, priority, x)))))
ImportItem(ts, at) ==
  Bind(parse_import_path(ts, at), LAMBDA path, p :
    IF has_token(ts, p, "Arrow")
    THEN Replaced(parse_name(ts, p + 1), LAMBDA name : [i |-> "import", path |-> path, local |-> name])
    ELSE IF has_token(ts, p, "LParen")
    THEN Replaced(parse_name_list(ts, p + 1), LAMBDA names : [i |-> "imports", path |-> path, names |-> names])
    ELSE Parsed([i |-> "import", path |-> path, local |-> None], p))
RECURSIVE Declared(_, _)
Declared(ts, at) ==
  IF parse_name(ts, at).ok
  THEN Replaced(Declared(ts, at + 1), LAMBDA names : <<ts[at].val>> \o names)
  ELSE Parsed(<<>>, at)
parse_item(ts, n, at) ==
  CASE ts[at].t = "Rule" -> Replaced(parse_rule(ts, n, at), Rule)
    [] ts[at].t = "Token" -> parse_token_def(ts, n, at)
    [] ts[at].t = "KwIgnore" ->
         Replaced(parse_expansions(ts, n, at + 1), LAMBDA x : [i |-> "ignore", expansions |-> x])
    [] ts[at].t = "KwImport" -> ImportItem(ts, at + 1)
    [] ts[at].t = "KwOverride" ->
         Replaced(parse_rule(ts, n, at + 1), LAMBDA rule : [i |-> "override", rule |-> rule])
    [] ts[at].t = "KwDeclare" ->
         Bind(Declared(ts, at + 1), LAMBDA names, p :
           IF names = <<>> THEN Rejected ELSE Parsed([i |-> "declare", names |-> names], p))
    [] ts[at].t = "KwLLGuidance" -> Parsed([i |-> "options", options |-> ts[at].val], at + 1)
    [] OTHER -> Rejected
parse_items(ts, n, at) ==
  IF consume_newlines(ts, at) > Len(ts) THEN Parsed(<<>>, consume_newlines(ts, at))
  ELSE Bind(parse_item(ts, n, consume_newlines(ts, at)), LAMBDA item, p :
         Replaced(parse_items(ts, n, p), LAMBDA items : <<item>> \o items))
parse_lark(tokens) == parse_items(split_compact_repeat_ranges(tokens), 0, 1)
=============================================================================
