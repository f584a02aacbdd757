------------------------------- MODULE MCLark -------------------------------
(* Lark grammars to compile, and how they are written.                      *)
EXTENDS LarkMeaning

a == <<"a">>
b == <<"b">>
dot == <<".">>

(* Shorthands for items.                                                    *)
E(v) == Expr(Value(v), None, None)
With(op, v) == Expr(Value(v), op, None)
Rep(v, m, n) == Expr(Value(v), None, <<m, n>>)
RECURSIVE Wrapped(_)
Wrapped(n) == IF n = 0 THEN <<Alias(<<<<E(LiteralString(a, FALSE))>>>>, None, Always)>>
              ELSE <<Alias(<<<<Expr(Group(Wrapped(n - 1)), None, None), E(LiteralString(b, FALSE))>>>>, None, Always)>>
If(cond, exprs) == Alias(<<exprs>>, None, cond)
Alt(exprs) == If(Always, exprs)
One(exprs) == <<Alt(exprs)>>
Lit(s) == LiteralString(s, FALSE)
Rx(rx) == LiteralRegex(rx, {})
Special(token) == [v |-> "special", token |-> token]
SomeToken(negate) == [kind |-> "any", negate |-> negate]
Tokens(ranges, negate) == [kind |-> "ranges", ranges |-> ranges, negate |-> negate]
NamedToken(name) == [kind |-> "named", name |-> name]
Sub(field, text) == [v |-> "substring", fields |-> (field :> text)]
Lark(items) == [v |-> "lark", items |-> items]
Json(json) == [v |-> "json", json |-> json]
Ref(name) == [v |-> "grammar", g |-> [numeric |-> FALSE, name |-> name]]
Plain(name) == NewRule(name, FALSE, None, None)
Def(name, x) == Rule([Plain(name) EXCEPT !.expansions = x])
Param(name, x) == Rule([NewRule(name, TRUE, None, None) EXCEPT !.expansions = x])
Tok(name, x) == TokenDef(name, None, None, x)
Capturing(name, as, x) == Rule([Plain(name) EXCEPT !.expansions = x, !.capture_name = as])
Stop(name, v, x) == Rule([Plain(name) EXCEPT !.expansions = x, !.stop = v])
Suffix(name, v, x) == Rule([Plain(name) EXCEPT !.expansions = x, !.suffix = v])
MaxTokens(name, k, x) == Rule([Plain(name) EXCEPT !.expansions = x, !.max_tokens = k])
Warm(name, k, x) == Rule([Plain(name) EXCEPT !.expansions = x, !.temperature = k])
Const(k) == [e |-> "const", v |-> k]
Incr(r) == [e |-> "incr", r |-> r]
Decr(r) == [e |-> "decr", r |-> r]
Or(k) == [e |-> "bit_or", v |-> k]
And(k) == [e |-> "bit_and", v |-> k]
Is(op, r, k) == Cond("value", op, r, k)
Ones(op, r, k) == Cond("count", op, r, k)
Both(c, d) == [c |-> "and", a |-> c, b |-> d]
Either(c, d) == [c |-> "or", a |-> c, b |-> d]
Low == [start |-> 0, end |-> 2]

-----------------------------------------------------------------------------
(* Writing items in one of three styles: counts between braces, or after a  *)
(* tilde with ".." or with its points next to the number.                   *)
Sign(t) == <<[t |-> t, val |-> t]>>
WordOf(t, v) == <<[t |-> t, val |-> v]>>
Digits(k) == <<[t |-> "Number", val |-> k, dot |-> FALSE]>>
Pointed(k) == <<[t |-> "Number", val |-> k, dot |-> TRUE]>>
Quoted(s, i) == <<[t |-> "String", val |-> s, i |-> i]>>
IsToken(name) == name \in {"A", "B", "C", "AB", "AS"}
NameTok(name) == WordOf(IF IsToken(name) THEN "Token" ELSE "Rule", name)
RECURSIVE Listed(_, _)
Listed(parts, between) ==
  IF Len(parts) < 2 THEN FlattenSeq(parts) ELSE parts[1] \o between \o Listed(Tail(parts), between)
InParens(ts) == Sign("LParen") \o ts \o Sign("RParen")
Call(name, ts) == WordOf("Rule", name) \o InParens(ts)
WRef(r) ==
  IF r = FullRef THEN Sign("Underscore")
  ELSE Sign("LBracket") \o Digits(r.start) \o Sign("Colon") \o Digits(r.end) \o Sign("RBracket")
Bit(k) == {i \in 0 .. NumBits - 1 : 2^i = k}
WExpr(e, style) ==
  CASE e.e = "const" -> IF style = "tilde" THEN WordOf("HexNumber", e.v) ELSE Digits(e.v)
    [] e.e = "self" -> Sign("Underscore")
    [] e.e \in {"incr", "decr"} -> Call(e.e, WRef(e.r))
    [] e.e = "bit_or" -> IF style = "tilde" /\ Bit(e.v) # {} THEN Call("set_bit", Digits(Max(Bit(e.v))))
                         ELSE Call("bit_or", Digits(e.v))
    [] e.e = "bit_and" -> IF style = "tilde" /\ Bit(AllBits - e.v) # {}
                          THEN Call("clear_bit", Digits(Max(Bit(AllBits - e.v))))
                          ELSE Call("bit_and", Digits(e.v))
RECURSIVE WCond(_, _)
WCond(c, style) ==
  CASE c.c = "true" -> WordOf("Rule", "true")
    [] c.c = "value" ->
         IF style = "tilde" /\ c.op = "eq" /\ Width(c.r) = 1
         THEN Call(IF c.v = 1 THEN "bit_set" ELSE "bit_clear", Digits(c.r.start))
         ELSE IF style = "tilde" /\ c.op = "eq" /\ c.v \in {0, 2^Width(c.r) - 1}
         THEN Call(IF c.v = 0 THEN "is_zeros" ELSE "is_ones", WRef(c.r))
         ELSE Call(c.op, WRef(c.r) \o Sign("Comma") \o Digits(c.v))
    [] c.c = "count" ->
         Call(CHOOSE n \in DOMAIN BitCounts : BitCounts[n] = c.op, WRef(c.r) \o Sign("Comma") \o Digits(c.v))
    [] c.c = "not" -> Call("not", WCond(c.a, style))
    [] OTHER -> Call(c.c, WCond(c.a, style) \o Sign("Comma") \o WCond(c.b, style))
WRange(range, style) ==
  CASE style = "brace" ->
         Sign("LBrace")
         \o (IF range[1] = range[2] THEN Digits(range[1])
             ELSE (IF range[1] = 0 THEN <<>> ELSE Digits(range[1])) \o Sign("Comma")
                  \o (IF range[2] = I32_MAX THEN <<>> ELSE Digits(range[2])))
         \o Sign("RBrace")
    [] style = "tilde" ->
         Sign("Tilde") \o Digits(range[1])
         \o (IF range[1] = range[2] THEN <<>> ELSE Sign("DotDot") \o Digits(range[2]))
    [] style = "compact" -> Sign("Tilde") \o Pointed(range[1]) \o Sign("Dot") \o Digits(range[2])
RECURSIVE WExpansions(_, _), WItems(_, _), WAtom(_, _)
WValue(v, style) ==
  CASE v.v = "name" -> NameTok(v.n)
    [] v.v = "param" -> NameTok(v.n) \o Sign("DoubleColon") \o WExpr(v.e, style)
    [] v.v = "string" -> Quoted(v.s, v.i)
    [] v.v = "range" -> Quoted(v.from, FALSE) \o Sign("DotDot") \o Quoted(v.to, FALSE)
    [] v.v = "regex" -> <<[t |-> "Regexp", val |-> v.rx, flags |-> v.flags]>>
    [] v.v = "grammar" -> WordOf("GrammarRef", v.g)
    [] v.v = "special" -> WordOf("SpecialToken", v.token)
    [] v.v = "json" -> WordOf("KwJson", v.json)
    [] v.v = "substring" -> WordOf("KwRegex", v.fields)
    [] v.v = "lark" -> Sign("KwLark") \o Sign("LBrace") \o WItems(v.items, style) \o Sign("RBrace")
    [] v.v = "template" ->
         NameTok(v.n) \o Sign("LBrace") \o Listed([i \in DOMAIN v.values |-> Quoted(v.values[i].s, FALSE)], Sign("Comma"))
         \o Sign("RBrace")
WAtom(atom, style) ==
  CASE atom.a = "group" -> InParens(WExpansions(atom.x, style))
    [] atom.a = "maybe" -> Sign("LBracket") \o WExpansions(atom.x, style) \o Sign("RBracket")
    [] atom.a = "not" -> Sign("Tilde") \o WAtom(atom.atom, style)
    [] atom.a = "value" -> WValue(atom.v, style)
WExprs(exprs, style) ==
  FlattenSeq([i \in DOMAIN exprs |->
    WAtom(exprs[i].atom, style)
    \o (IF exprs[i].op # None THEN WordOf("Op", exprs[i].op)
        ELSE IF exprs[i].range # None THEN WRange(exprs[i].range, style) ELSE <<>>)])
WAlias(alias, style) ==
  Listed([i \in DOMAIN alias.conjuncts |-> WExprs(alias.conjuncts[i], style)], Sign("And"))
  \o (IF alias.alias = None THEN <<>> ELSE Sign("Arrow") \o WordOf("Rule", alias.alias))
  \o (IF alias.param_cond = Always THEN <<>> ELSE Sign("KwIf") \o WCond(alias.param_cond, style))
WExpansions(x, style) ==
  Listed([i \in DOMAIN x |-> WAlias(x[i], style)],
         (IF style = "tilde" THEN Sign("Newline") ELSE <<>>) \o Sign("VBar"))
Equal(key, ts) == WordOf("Rule", key) \o Sign("Equals") \o ts
When(value, ts) == IF value = None THEN <<>> ELSE <<ts>>
WAttributes(rule, style) ==
  LET capture == IF rule.capture_name = <<rule.name>> THEN WordOf("Rule", "capture")
                 ELSE Equal("capture", Quoted(rule.capture_name, FALSE))
      parts ==
        When(rule.capture_name, capture)
        \o (IF rule.suffix = Rx("") THEN <<WordOf("Rule", "lazy")>>
            ELSE When(rule.suffix, Equal("suffix", WValue(rule.suffix, style))))
        \o When(rule.stop, Equal("stop", WValue(rule.stop, style)))
        \o When(rule.max_tokens, Equal("max_tokens", Digits(rule.max_tokens)))
        \o When(rule.temperature, Equal("temperature", Digits(rule.temperature)))
        \o When(rule.stop_capture_name, Equal("stop_capture", Quoted(rule.stop_capture_name, FALSE)))
  IN  IF parts = <<>> THEN <<>> ELSE Sign("LBracket") \o Listed(parts, Sign("Comma")) \o Sign("RBracket")
WRule(rule, style) ==
  WordOf("Rule", rule.name)
  \o (IF rule.is_parametric THEN Sign("DoubleColon") \o Sign("Underscore") ELSE <<>>)
  \o (IF rule.params = None THEN <<>>
      ELSE Sign("LBrace") \o Listed([i \in DOMAIN rule.params |-> NameTok(rule.params[i])], Sign("Comma")) \o Sign("RBrace"))
  \o (IF rule.priority = None THEN <<>> ELSE Sign("Dot") \o Digits(rule.priority))
  \o WAttributes(rule, style) \o Sign("Colon") \o WExpansions(rule.expansions, style)
WPath(path) ==
  (IF path[1] = "." THEN Sign("Dot") ELSE <<>>)
  \o Listed([i \in DOMAIN SelectSeq(path, LAMBDA n : n # ".") |-> NameTok(SelectSeq(path, LAMBDA n : n # ".")[i])], Sign("Dot"))
WItem(item, style) ==
  CASE item.i = "rule" -> WRule(item.rule, style)
    [] item.i = "token" ->
         WordOf("Token", item.name) \o (IF item.priority = None THEN <<>> ELSE Sign("Dot") \o Digits(item.priority))
         \o Sign("Colon") \o WExpansions(item.expansions, style)
    [] item.i = "ignore" -> Sign("KwIgnore") \o WExpansions(item.expansions, style)
    [] item.i = "import" ->
         Sign("KwImport") \o WPath(item.path)
         \o (IF item.local = None THEN <<>> ELSE Sign("Arrow") \o NameTok(item.local))
    [] item.i = "imports" ->
         Sign("KwImport") \o WPath(item.path)
         \o InParens(Listed([i \in DOMAIN item.names |-> NameTok(item.names[i])], Sign("Comma")))
    [] item.i = "override" -> Sign("KwOverride") \o WRule(item.rule, style)
    [] item.i = "declare" -> Sign("KwDeclare") \o FlattenSeq([i \in DOMAIN item.names |-> NameTok(item.names[i])])
    [] item.i = "options" -> WordOf("KwLLGuidance", item.options)
WItems(items, style) ==
  FlattenSeq([i \in DOMAIN items |-> WItem(items[i], style) \o Sign("Newline")])

-----------------------------------------------------------------------------
Grammars == [
  literals |-> <<Def("start", <<Alt(<<E(Lit(a)), E(LiteralString(b, TRUE)), E(LiteralRange(a, b))>>), Alt(<<E(Rx("ab"))>>),
                              Alt(<<E(LiteralString(a, TRUE)), E(LiteralRegex("ab", {"i"}))>>)>>)>>,
  backwards |-> <<Def("start", One(<<E(LiteralRange(b, a))>>))>>,
  unicode |-> <<Def("start", One(<<E(LiteralRegex("ab", {"l"}))>>))>>,
  terminals |-> <<Def("start", One(<<E(Name("A")), E(Name("B"))>>)), Tok("A", <<Alt(<<E(Lit(a)), With("?", Lit(b))>>), Alt(<<E(Lit(dot))>>)>>),
                  Tok("B", <<Alias(<<<<With("+", Rx("ab"))>>, <<Expr(Not(Value(Name("C"))), None, None)>>>>, None, Always)>>),
                  Tok("C", <<Alt(<<E(Lit(a))>>), Alt(<<Rep(Lit(b), 2, 3)>>), Alt(<<Expr(Maybe(One(<<E(Lit(b))>>)), None, None), E(Lit(a))>>)>>)>>,
  circular |-> <<Def("start", One(<<E(Name("A"))>>)), Tok("A", One(<<E(Lit(a)), E(Name("B"))>>)), Tok("B", One(<<E(Name("A"))>>))>>,
  dangling |-> <<Def("start", One(<<E(Name("A")), E(Name("other"))>>)), Tok("A", One(<<E(Lit(a))>>))>>,
  groups |-> <<Def("start", One(<<Expr(Group(<<Alt(<<E(Lit(a))>>), Alt(<<E(Lit(b)), Expr(Maybe(One(<<E(Lit(dot))>>)), None, None)>>)>>), None, <<1, 2>>),
                                  E(Lit(dot)), Expr(Not(Value(Rx("any"))), None, None)>>))>>,
  operators |-> <<Def("start", One(<<With("*", Lit(a)), With("+", Name("x")), With("?", Lit(dot))>>)), Def("x", <<Alt(<<E(Lit(b))>>), Alt(<<E(Lit(dot))>>)>>)>>,
  repeats |-> <<Def("start", <<Alt(<<Rep(Lit(a), 2, I32_MAX)>>), Alt(<<Rep(Lit(b), 0, 5)>>), Alt(<<Rep(Name("x"), 3, 3)>>),
                              Alt(<<E(Lit(dot)), Rep(Lit(b), 1, 4)>>)>>), Def("x", <<Alt(<<E(Lit(a))>>), Alt(<<E(Lit(dot))>>)>>)>>,
  upside |-> <<Def("start", One(<<Rep(Lit(a), 3, 2)>>))>>,
  negative |-> <<Def("start", One(<<E(Name("A"))>>)), Tok("A", One(<<Rep(Lit(a), -1, 2)>>))>>,
  nested |-> <<Def("start", <<Alt(<<E(Lit(a)), E(Name("start")), E(Lit(b))>>), Alt(<<E(Lit(<<>>))>>)>>)>>,
  mutual |-> <<Def("start", <<Alt(<<E(Name("x"))>>), Alt(<<E(Name("y")), E(Lit(dot)), E(Name("x"))>>)>>),
               Def("x", <<Alt(<<E(Lit(a)), E(Name("y"))>>), Alt(<<E(Lit(dot))>>)>>),
               Def("y", <<Alt(<<E(Lit(b)), E(Name("x"))>>), Alt(<<E(Name("y")), E(Lit(a))>>), Alt(<<>>)>>)>>,
  nothing |-> <<Def("start", One(<<E(Lit(<<>>))>>))>>,
  nowhere |-> <<Def("x", One(<<E(Lit(a))>>))>>,
  chain |-> <<Def("start", One(<<E(Name("x")), E(Name("z")), E(Name("x"))>>)), Def("x", One(<<E(Name("y"))>>)), Def("y", <<Alt(<<E(Lit(a))>>), Alt(<<E(Name("x")), E(Lit(b))>>)>>),
              Def("z", One(<<E(Name("u")), E(Lit(dot))>>)), Def("u", One(<<E(Lit(b)), E(Lit(a))>>))>>,
  loop |-> <<Def("start", <<Alt(<<E(Name("x"))>>), Alt(<<E(Lit(a))>>)>>), Def("x", One(<<E(Name("x"))>>))>>,
  captures |-> <<Def("start", <<Alt(<<E(Name("x")), E(Lit(dot))>>), Alt(<<E(Name("y")), E(Name("y"))>>), Alt(<<E(Name("z"))>>)>>),
                 Capturing("x", <<"x">>, One(<<E(Lit(a)), With("*", Lit(b))>>)), Capturing("y", <<>>, One(<<E(Lit(b))>>)),
                 Capturing("z", <<"z">>, <<Alt(<<E(Lit(a))>>), Alt(<<E(Name("u"))>>)>>), Def("u", One(<<E(Lit(dot)), E(Lit(a))>>))>>,
  lazy |-> <<Def("start", <<Alt(<<E(Name("x")), E(Lit(b))>>), Alt(<<E(Name("y"))>>), Alt(<<E(Name("z"))>>)>>), Suffix("x", Rx(""), One(<<With("+", Lit(a)), With("?", Lit(b))>>)),
             Stop("y", Lit(b), One(<<With("*", LiteralRange(a, b))>>)),
             Rule([Plain("z") EXCEPT !.expansions = One(<<E(Rx("any"))>>), !.suffix = Lit(dot), !.capture_name = <<"c">>, !.stop_capture_name = <<"s">>])>>,
  unstopped |-> <<Def("start", One(<<E(Name("x"))>>)), Stop("x", Lit(<<>>), One(<<E(Rx("ab"))>>))>>,
  stopCapture |-> <<Def("start", One(<<E(Name("x"))>>)), Rule([Plain("x") EXCEPT !.expansions = One(<<E(Rx("ab"))>>), !.stop_capture_name = <<"s">>])>>,
  stopOfRule |-> <<Def("start", One(<<E(Name("x"))>>)), Stop("x", Lit(dot), One(<<E(Name("y"))>>)), Def("y", One(<<E(Lit(a))>>))>>,
  counted |-> <<Def("start", One(<<E(Name("x")), E(Name("y")), E(Name("z")), E(Name("u"))>>)), MaxTokens("x", 0, One(<<E(Lit(a))>>)), MaxTokens("y", 5, One(<<E(Rx("as"))>>)),
                Warm("z", 2, One(<<With("+", Lit(b))>>)), MaxTokens("u", 3, <<Alt(<<E(Lit(a))>>), Alt(<<E(Lit(dot))>>)>>)>>,
  skips |-> <<[i |-> "ignore", expansions |-> <<Alt(<<E(Lit(<<" ">>))>>), Alt(<<E(Rx("ab"))>>)>>], [i |-> "ignore", expansions |-> One(<<With("+", Lit(dot))>>)],
              [i |-> "options", options |-> [ignore_once |-> "true", no_initial_skip |-> "false"]], Def("start", One(<<E(Lit(a))>>))>>,
  skipsNames |-> <<[i |-> "ignore", expansions |-> One(<<E(Name("A"))>>)], Tok("A", One(<<E(Lit(<<" ">>))>>)), Def("start", One(<<E(Name("A")), E(Lit(a))>>))>>,
  option |-> <<[i |-> "options", options |-> [no_forcing |-> "invalid"]], Def("start", One(<<E(Lit(a))>>))>>,
  imports |-> <<[i |-> "import", path |-> <<"common", "AB">>, local |-> None], [i |-> "import", path |-> <<"common", "AS">>, local |-> "B"],
                Def("start", One(<<E(Name("AB")), E(Name("B"))>>))>>,
  importsMany |-> <<[i |-> "imports", path |-> <<"common">>, names |-> <<"AB", "AS">>], Def("start", <<Alt(<<E(Name("AB"))>>), Alt(<<E(Name("AS")), E(Lit(dot))>>)>>)>>,
  importsTwice |-> <<[i |-> "imports", path |-> <<"common">>, names |-> <<"AB", "AB">>], Def("start", One(<<E(Name("AB"))>>))>>,
  importsNone |-> <<[i |-> "import", path |-> <<".", "other", "C">>, local |-> None], Def("start", One(<<E(Name("C"))>>))>>,
  special |-> <<Def("start", One(<<With("?", Special(SomeToken(FALSE))), E(Special(Tokens(<<<<2, 3>>, <<0, 0>>>>, FALSE))), With("*", Special(Tokens(<<<<1, 2>>, <<2, 3>>>>, TRUE))),
                                   E(Special(NamedToken("eos")))>>))>>,
  noToken |-> <<Def("start", One(<<E(Special(SomeToken(TRUE)))>>))>>,
  manyTokens |-> <<Def("start", One(<<E(Special(Tokens(<<<<2, 4>>>>, FALSE)))>>))>>,
  strange |-> <<Def("start", One(<<E(Special(NamedToken("bos")))>>))>>,
  inTerminal |-> <<Def("start", One(<<E(Name("A"))>>)), Tok("A", One(<<E(Special(NamedToken("eos")))>>))>>,
  words |-> <<Def("start", <<Alt(<<E(Sub("substring_words", <<"a", "b", " ", "a", ".">>)), E(Lit(a))>>), Alt(<<E(Name("A")), E(Lit(dot))>>)>>), Tok("A", One(<<E(Sub("substring_chunks", <<a \o b, b, a \o b, a>>))>>))>>,
  letters |-> <<Def("start", One(<<E(Sub("substring_chars", <<"a", "b", "b", "a", "a">>)), E(Lit(dot))>>))>>,
  sub |-> <<Def("start", One(<<E(Lark(<<Def("start", One(<<E(Lit(a)), E(Name("x"))>>)), Def("x", One(<<With("*", Lit(b))>>))>>)), E(Lit(dot)), E(Json("doc"))>>)), Def("x", One(<<E(Lit(dot))>>))>>,
  subs |-> <<[i |-> "ignore", expansions |-> One(<<E(Lit(<<" ">>))>>)],
             Def("start", One(<<E(Name("x")), E(Lark(<<[i |-> "ignore", expansions |-> One(<<E(Lit(<<" ">>))>>)], Def("start", One(<<E(Lit(b)), E(Lark(<<Def("start", One(<<E(Lit(a))>>))>>))>>))>>))>>)),
             MaxTokens("x", 4, One(<<E(Json("list"))>>))>>,
  warmSub |-> <<Def("start", One(<<E(Name("x")), E(Lark(<<Def("start", One(<<E(Lit(a))>>))>>))>>)),
                Rule([Plain("x") EXCEPT !.expansions = One(<<E(Lark(<<Def("start", One(<<E(Lit(b))>>))>>))>>), !.capture_name = <<"x">>, !.temperature = 1])>>,
  badSub |-> <<Def("start", One(<<E(Lark(<<Def("x", One(<<E(Lit(a))>>))>>))>>))>>,
  manySubs |-> <<Def("start", One(<<E(Name("x"))>>)), MaxTokens("x", 4, One(<<With("+", Json("list"))>>))>>,
  numbered |-> <<Def("start", One(<<E([v |-> "grammar", g |-> [numeric |-> TRUE, name |-> "2"]])>>))>>,
  unknown |-> <<Def("start", One(<<E(Ref("nobody"))>>))>>,
  template |-> <<Def("start", One(<<E([v |-> "template", n |-> "x", values |-> <<Lit(a), Lit(b)>>])>>)), Def("x", One(<<E(Lit(a))>>))>>,
  names |-> <<Rule([Plain("start") EXCEPT !.params = <<"x", "y">>, !.expansions = One(<<E(Lit(a))>>)])>>,
  priority |-> <<Rule([Plain("start") EXCEPT !.priority = 2, !.expansions = One(<<E(Lit(a))>>)])>>,
  priorityOfToken |-> <<TokenDef("A", None, 1, One(<<E(Lit(a))>>)), Def("start", One(<<E(Name("A"))>>))>>,
  twice |-> <<Def("start", One(<<E(Lit(a))>>)), Def("start", One(<<E(Lit(b))>>))>>,
  twiceToken |-> <<Tok("A", One(<<E(Lit(a))>>)), Tok("A", One(<<E(Lit(b))>>)), Def("start", One(<<E(Name("A"))>>))>>,
  declare |-> <<[i |-> "declare", names |-> <<"A", "x">>], Def("start", One(<<E(Lit(a))>>))>>,
  override |-> <<[i |-> "override", rule |-> [Plain("start") EXCEPT !.expansions = One(<<E(Lit(a))>>)]]>>,
  alias |-> <<Def("start", <<Alias(<<<<E(Lit(a))>>>>, "one", Always), Alias(<<<<E(Lit(b))>>>>, None, Always)>>)>>,
  both |-> <<Def("start", One(<<E(Name("x"))>>)), Def("x", <<Alias(<<<<E(Rx("as"))>>, <<E(Lit(a))>>>>, None, Always)>>)>>,
  deep |-> <<Def("start", Wrapped(4))>>
  ]
(* Rules with a parameter.                                                  *)
Start(k) == Def("start", One(<<E(NameParam("x", Const(k)))>>))
Parametric == [
  count |-> <<Start(0), Param("x", <<If(Is("lt", FullRef, 3), <<E(Lit(a)), E(NameParam("x", Incr(FullRef)))>>), If(Is("ge", FullRef, 2), <<E(Lit(dot))>>)>>)>>,
  permutation |-> <<Start(0), Param("x", <<If(Is("eq", SingleBit(0), 0), <<E(Lit(a)), E(NameParam("x", Or(1)))>>),
                                            If(Is("eq", SingleBit(1), 0), <<E(Lit(b)), E(NameParam("x", Or(2)))>>),
                                            If(Is("eq", Low, 3), <<E(Lit(<<>>))>>)>>)>>,
  down |-> <<Start(6), Param("x", <<If(Both(Is("ne", FullRef, 0), Ones("le", FullRef, 2)), <<E(Lit(a)), E(NameParam("x", Decr(FullRef)))>>),
                                     If(Either(Is("eq", Low, 0), Negated(Ones("lt", FullRef, 2))), <<E(Lit(b)), E(NameParam("y", And(6)))>>)>>),
             Param("y", <<If(Is("gt", [start |-> 1, end |-> 3], 1), <<E(Lit(dot))>>), If(Is("eq", Low, 0), <<E(Lit(a)), E(NameParam("z", SelfRef))>>)>>),
             Param("z", <<If(Ones("ge", FullRef, 1), <<E(Lit(b))>>), If(Ones("eq", FullRef, 0), <<E(Lit(a))>>)>>)>>,
  saturated |-> <<Start(3), Param("x", <<If(Always, <<E(Lit(a)), E(NameParam("y", Incr(Low)))>>), If(Always, <<E(Lit(b)), E(NameParam("y", Decr(SingleBit(2))))>>)>>),
                  Param("y", <<If(Is("eq", Low, 3), <<E(Lit(a))>>), If(Is("ge", FullRef, 4), <<E(Lit(b))>>), If(Is("lt", FullRef, 3), <<E(Lit(dot))>>)>>)>>,
  empties |-> <<Def("start", One(<<E(NameParam("x", Const(1))), E(NameParam("x", Const(2))), E(Name("u"))>>)), Param("x", <<If(Is("eq", SingleBit(0), 1), <<>>), If(Is("gt", Low, 1), <<E(NameParam("y", SelfRef)), E(Lit(a))>>)>>),
                Param("y", <<If(Ones("eq", FullRef, 1), <<>>), If(Always, <<E(NameParam("x", SelfRef)), E(NameParam("y", SelfRef)), E(Lit(b))>>)>>),
                Def("u", <<Alt(<<E(NameParam("y", Const(6)))>>), Alt(<<E(Lit(dot))>>)>>)>>,
  passed |-> <<Start(2), Param("x", One(<<E(NameParam("y", SelfRef)), E(NameParam("y", SelfRef)), With("?", NameParam("z", SelfRef))>>)), Param("y", <<If(Is("ge", FullRef, 2), <<E(Lit(a))>>), If(Is("eq", Low, 1), <<E(Lit(b))>>)>>),
               Param("z", One(<<E(Lit(dot)), E(NameParam("y", Decr(FullRef)))>>))>>,
  inside |-> <<Start(1), Param("x", One(<<Expr(Group(<<If(Is("eq", SingleBit(0), 1), <<E(Lit(a))>>), If(Is("eq", SingleBit(0), 0), <<E(Lit(b))>>)>>), "*", None), E(NameParam("y", Incr(FullRef)))>>)),
               Param("y", One(<<E(Lit(dot)), Expr(Maybe(<<If(Ones("ge", FullRef, 1), <<E(NameParam("z", SelfRef))>>)>>), None, None)>>)), Param("z", <<If(Is("eq", FullRef, 2), <<E(Lit(b))>>)>>)>>,
  capturing |-> <<Start(1), Rule([NewRule("x", TRUE, None, None) EXCEPT !.capture_name = <<"x">>, !.expansions = <<If(Is("le", FullRef, 1), <<E(Lit(a)), With("?", NameParam("y", SelfRef))>>)>>]),
                  Param("y", <<If(Ones("ne", FullRef, 0), <<E(Lit(b))>>)>>)>>,
  renaming |-> <<Start(1), Param("x", <<If(Always, <<E(Lit(a)), E(NameParam("y", SelfRef))>>), If(Always, <<E(NameParam("y", SelfRef))>>)>>),
                 Param("y", One(<<E(NameParam("z", SelfRef))>>)), Param("z", <<If(Is("eq", SingleBit(0), 1), <<E(Lit(b))>>), If(Is("eq", SingleBit(0), 0), <<E(Lit(dot))>>)>>)>>,
  panicking |-> <<Start(0), Param("x", <<If(Is("lt", FullRef, 3), <<E(NameParam("x", Incr(FullRef)))>>), If(Always, <<E(Lit(a))>>)>>)>>,
  missing |-> <<Def("start", One(<<E(Name("x"))>>)), Param("x", <<If(Is("eq", FullRef, 0), <<E(Lit(a))>>)>>)>>,
  unneeded |-> <<Start(0), Param("x", One(<<E(Lit(a))>>))>>,
  given |-> <<Def("start", One(<<E(NameParam("x", Const(1)))>>)), Def("x", One(<<E(Lit(a))>>))>>,
  noParam |-> <<Def("start", <<If(Is("eq", FullRef, 0), <<E(Lit(a))>>)>>)>>,
  stopped |-> <<Start(0), Rule([NewRule("x", TRUE, None, None) EXCEPT !.stop = Lit(b), !.expansions = <<If(Is("eq", FullRef, 0), <<E(Lit(a))>>)>>])>>,
  inToken |-> <<Def("start", One(<<E(Name("A"))>>)), Tok("A", <<If(Is("eq", FullRef, 0), <<E(Lit(a))>>)>>)>>
  ]
Between(name, items) == [name |-> name, items |-> items]
Together == [
  two |-> <<Between("main", <<Def("start", One(<<E(Ref("other")), E(Lit(a)), E(Ref("other"))>>))>>),
            Between("other", <<Def("start", <<Alt(<<E(Lit(b))>>), Alt(<<E(Lit(dot)), E(Ref("other"))>>)>>)>>)>>,
  back |-> <<Between("main", <<Def("start", <<Alt(<<E(Lit(a)), E(Ref("other"))>>), Alt(<<E(Lit(dot))>>)>>)>>),
             Between("other", <<Def("start", One(<<E(Name("x")), With("?", Name("x"))>>)), Capturing("x", <<"x">>, <<Alt(<<E(Lit(b))>>), Alt(<<E(Ref("main"))>>)>>)>>)>>,
  counted |-> <<Between("main", <<Def("start", One(<<E(Name("x"))>>)), MaxTokens("x", 3, One(<<E(Ref("other"))>>))>>),
                Between("other", <<Def("start", One(<<E(Lit(b))>>))>>)>>,
  sameName |-> <<Between("main", <<Def("start", One(<<E(Lit(a))>>))>>), Between("main", <<Def("start", One(<<E(Lit(b))>>))>>)>>,
  temperatures |-> <<Between("main", <<Def("start", One(<<E(Name("x")), E(Ref("other"))>>)), Warm("x", 2, One(<<E(Ref("other"))>>))>>),
                     Between("other", <<Def("start", One(<<E(Lit(b))>>))>>)>>
  ]

(* What is written, and what is left when a bracket or colon is missing.    *)
Written(grammars, style) ==
  [kind |-> "lark",
   grammars |-> [i \in DOMAIN grammars |->
     [name |-> grammars[i].name, tokens |-> WItems(grammars[i].items, style), items |-> grammars[i].items]]]
Alone(items) == <<Between(None, items)>>
Good ==
  {Written(Alone(Grammars[g]), "brace") : g \in DOMAIN Grammars \ {"negative"}}
  \cup {Written(Alone(Grammars[g]), "tilde") : g \in {"negative", "repeats", "groups", "terminals", "mutual", "lazy", "sub"}}
  \cup {Written(Alone(Grammars[g]), "compact") : g \in {"groups", "repeats", "upside", "terminals"}}
  \cup {Written(Alone(Parametric[g]), style) : g \in DOMAIN Parametric, style \in {"brace", "tilde"}}
  \cup {Written(Together[g], "brace") : g \in DOMAIN Together}
Brackets == {"LParen", "RParen", "LBracket", "RBracket", "LBrace", "RBrace", "Colon"}
Refused(tokens) == [kind |-> "lark", grammars |-> <<[name |-> None, tokens |-> tokens, items |-> None]>>]
Torn(items, style) ==
  LET tokens == WItems(items, style)
  IN  {Refused(SubSeq(tokens, 1, i - 1) \o SubSeq(tokens, i + 1, Len(tokens))) :
         i \in {i \in DOMAIN tokens : tokens[i].t \in Brackets}}
Malformed ==
  UNION {Torn(Grammars[g], "brace") : g \in {"groups", "repeats", "lazy", "sub", "names", "importsMany", "template"}}
  \cup Torn(Parametric.count, "brace") \cup Torn(Parametric.permutation, "tilde")
  \cup {Refused(WItems(<<Def("start", Wrapped(5))>>, "brace")),
        Refused(WItems(<<Def("start", One(<<Rep(Lit(a), 0, 0)>>))>>, "brace")),
        Refused(WItems(<<Def("start", One(<<E(LiteralRange(a, b))>>))>>, "brace") \o Sign("KwDeclare")),
        Refused(WItems(<<Rule([Plain("start") EXCEPT !.stop = Lit(a), !.suffix = Lit(b)])>>, "brace")),
        Refused(WItems(<<Start(2^NumBits)>>, "brace")),
        Refused(Sign("KwImport")), Refused(Sign("Colon")), Refused(Sign("KwOverride"))}
LarkJobs == Good \cup Malformed
(* All of a rule is another rule, passed the next value.                    *)
NextRule ==
  <<Start(0), Param("x", One(<<E(NameParam("y", Incr(FullRef)))>>)),
    Param("y", <<If(Is("eq", FullRef, 0), <<E(Lit(a))>>), If(Is("eq", FullRef, 1), <<E(Lit(b))>>)>>)>>
ParametricJobs == {Written(Alone(Parametric[g]), "brace") : g \in {"count", "down"}} \cup {Written(Alone(NextRule), "brace")}
=============================================================================
