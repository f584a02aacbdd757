---------------------------- MODULE LarkMeaning -----------------------------
(***************************************************************************)
(* What Lark grammars mean, read off their items: which texts a terminal   *)
(* matches, and the least sets of texts the rules allow; a parametric rule *)
(* is as many rules as there are values of its parameter.                  *)
(***************************************************************************)
EXTENDS LarkCompile

CONSTANT MaxLength  \* bound: the length of the texts of rules

Before(t, k) == SubSeq(t, 1, k)
Beyond(t, k) == SubSeq(t, k + 1, Len(t))
(* How often an expression is to be matched.                                *)
Times(expr) ==
  IF expr.range = None /\ expr.op = None THEN <<1, 1>> ELSE Bounds(expr)

(* Terminals: does t match?  defs gives the definitions of their names.     *)
AtBoundary(text, i) == i \in {0, Len(text)} \/ (classify(text[i]) # classify(text[i + 1]))
IsSubstring(t, fields) ==
  LET Aligned(text, f) ==
        \E i \in 0 .. Len(text), j \in 0 .. Len(text) :
          /\ t = SubSeq(text, i + 1, j)
          /\ f = "substring_words" => AtBoundary(text, i) /\ AtBoundary(text, j)
      OfChunks(chunks) ==
        \E i \in 0 .. Len(chunks), j \in 0 .. Len(chunks) : t = FlattenSeq(SubSeq(chunks, i + 1, j))
  IN  \E f \in DOMAIN fields :
        t = <<>> \/ IF f = "substring_chunks" THEN OfChunks(fields[f]) ELSE Aligned(fields[f], f)
SameLetters(t, s) == Len(t) = Len(s) /\ \A i \in DOMAIN t : Fold[t[i]] = Fold[s[i]]
RECURSIVE Matches(_, _, _), MatchesExprs(_, _, _), MatchesTimes(_, _, _, _), MatchesAtom(_, _, _)
MatchesValue(v, t, defs) ==
  CASE v.v = "name" -> Matches(defs.tokens[v.n], t, defs)
    [] v.v = "string" -> IF v.i THEN SameLetters(t, v.s) ELSE t = v.s
    [] v.v = "range" -> Len(t) = 1 /\ CharCode[t[1]] \in CharCode[v.from[1]] .. CharCode[v.to[1]]
    [] v.v = "regex" -> IF "i" \in v.flags THEN \E u \in RegexOf[v.rx] : SameLetters(t, u) ELSE t \in RegexOf[v.rx]
    [] v.v = "substring" -> IsSubstring(t, v.fields)
MatchesAtom(atom, t, defs) ==
  CASE atom.a = "group" -> Matches(atom.x, t, defs)
    [] atom.a = "maybe" -> t = <<>> \/ Matches(atom.x, t, defs)
    [] atom.a = "not" -> ~MatchesAtom(atom.atom, t, defs)
    [] atom.a = "value" -> MatchesValue(atom.v, t, defs)
MatchesTimes(atom, times, t, defs) ==
  \/ times[1] = 0 /\ t = <<>>
  \/ /\ times[2] > 0
     /\ \E k \in (IF times[1] > 0 THEN 0 ELSE 1) .. Len(t) :
          /\ MatchesAtom(atom, Before(t, k), defs)
          /\ MatchesTimes(atom, <<Max({times[1] - 1, 0}), times[2] - 1>>, Beyond(t, k), defs)
MatchesExprs(exprs, t, defs) ==
  IF exprs = <<>> THEN t = <<>>
  ELSE \E k \in 0 .. Len(t) : /\ MatchesTimes(exprs[1].atom, Times(exprs[1]), Before(t, k), defs)
                              /\ MatchesExprs(Tail(exprs), Beyond(t, k), defs)
Matches(x, t, defs) ==
  \E i \in DOMAIN x : \A j \in DOMAIN x[i].conjuncts : MatchesExprs(x[i].conjuncts[j], t, defs)
TerminalTexts(x, defs) == {t \in AllTexts : Matches(x, t, defs)}
(* The texts that end with a stop and do not reach one before.              *)
StoppedTexts(rule, defs) ==
  LET Stops(t) == \E k \in 0 .. Len(t) : /\ Matches(rule.expansions, Before(t, k), defs)
                                         /\ MatchesValue(stop_like(rule), Beyond(t, k), defs)
      stopping == {t \in AllTexts : Stops(t)}
  IN  {t \in stopping : \A k \in 1 .. Len(t) - 1 : Before(t, k) \notin stopping}

-----------------------------------------------------------------------------
(* The definitions among the items.                                         *)
RegexBody(rx) == <<Alias(<<<<Expr(Value(LiteralRegex(rx, {})), None, None)>>>>, None, Always)>>
TokensOf(item) ==
  CASE item.i = "token" -> (item.name :> item.expansions)
    [] item.i = "import" -> ((IF item.local = None THEN Last(item.path) ELSE item.local)
                               :> RegexBody(CommonRegex[item.path]))
    [] item.i = "imports" -> [name \in Range(item.names) |-> RegexBody(CommonRegex[Append(item.path, name)])]
    [] OTHER -> <<>>
RulesOfItem(item) == IF item.i = "rule" THEN (item.rule.name :> item.rule) ELSE <<>>
DefinitionsIn(items) ==
  [tokens |-> FoldLeft(LAMBDA acc, item : TokensOf(item) @@ acc, <<>>, items),
   rules |-> FoldLeft(LAMBDA acc, item : RulesOfItem(item) @@ acc, <<>>, items)]
SkippedTexts(items) ==
  {t \in AllTexts : \E i \in DOMAIN items :
     items[i].i = "ignore" /\ Matches(items[i].expansions, t, DefinitionsIn(items))}

(* Rules, env giving the texts of the others and roots those of grammars    *)
(* with names.                                                              *)
TextsTimes(U, times) ==
  LET least == FoldLeft(LAMBDA acc, i : Cat(acc, U, MaxLength), {<<>>}, [i \in 1 .. times[1] |-> i])
  IN  IF times[2] = I32_MAX THEN Cat(least, Repeated("star", U, MaxLength), MaxLength)
      ELSE FoldLeft(LAMBDA acc, i : acc \cup Cat(acc, U, MaxLength), least,
                    [i \in 1 .. times[2] - times[1] |-> i])
TextsOfToken(token) ==
  {<<TokenText[k + 1]>> : k \in {k \in 0 .. NumberOfTokens - 1 :
     CASE token.kind = "any" -> TRUE
       [] token.kind = "named" -> k = SpecialTokens[token.name]
       [] token.kind = "ranges" -> (\E i \in DOMAIN token.ranges : k \in token.ranges[i][1] .. token.ranges[i][2])
                                     # token.negate}}
(* What is passed on: bits go up or down by one, or stay as they are if they*)
(* would overflow (docs/parametric.md).                                     *)
Stepped(r, m, by) ==
  LET bits == RefValue(r, m)
  IN  m + 2^r.start * (Max({0, Min({2^Width(r) - 1, bits + by})}) - bits)
ValueOfExpr(e, m) ==
  CASE e.e = "incr" -> Stepped(e.r, m, 1)
    [] e.e = "decr" -> Stepped(e.r, m, -1)
    [] OTHER -> EvalExpr(e, m)
RECURSIVE TextsOfX(_, _, _, _, _), LeastTexts(_, _, _)
TextsOfValue(v, m, defs, env, roots) ==
  CASE v.v = "name" -> IF v.n \in DOMAIN defs.rules THEN env[v.n][1] ELSE TerminalTexts(defs.tokens[v.n], defs)
    [] v.v = "param" -> env[v.n][ValueOfExpr(v.e, m) + 1]
    [] v.v = "special" -> TextsOfToken(v.token)
    [] v.v = "grammar" -> roots[v.g.name]
    [] v.v = "json" -> {<<v.json>>}
    [] v.v = "lark" -> LeastTexts(DefinitionsIn(v.items), [name \in {} |-> <<>>], roots)["start"][1]
    [] OTHER -> {t \in AllTexts : MatchesValue(v, t, defs)}
TextsOfAtom(atom, m, defs, env, roots) ==
  CASE atom.a = "group" -> TextsOfX(atom.x, m, defs, env, roots)
    [] atom.a = "maybe" -> {<<>>} \cup TextsOfX(atom.x, m, defs, env, roots)
    [] atom.a = "not" -> {t \in AllTexts : MatchesAtom(atom, t, defs)}
    [] atom.a = "value" -> TextsOfValue(atom.v, m, defs, env, roots)
TextsOfX(x, m, defs, env, roots) ==
  UNION {FoldLeft(LAMBDA acc, e :
             Cat(acc, TextsTimes(TextsOfAtom(e.atom, m, defs, env, roots), Times(e)), MaxLength),
           {<<>>}, x[i].conjuncts[1]) : i \in {i \in DOMAIN x : EvalCond(x[i].param_cond, m)}}
LimitedTerminal(rule) ==
  /\ rule.max_tokens # None \/ rule.temperature # None
  /\ \A atom \in {single_atom(rule.expansions)} \ {None} :
       IF atom.a = "value" THEN atom.v.v \notin {"grammar", "json", "lark"} ELSE TRUE
TextsOfRule(rule, m, defs, env, roots) ==
  IF rule.max_tokens = 0 THEN {<<>>}
  ELSE Captured(IF rule.capture_name = None THEN {} ELSE {rule.capture_name},
         IF is_lazy(rule) THEN StoppedTexts(rule, defs)
         ELSE IF stop_like(rule) # None \/ LimitedTerminal(rule) THEN TerminalTexts(rule.expansions, defs)
         ELSE TextsOfX(rule.expansions, m, defs, env, roots), MaxLength)
(* The least texts, by rule and value: from none, as long as there are more.*)
LeastFrom(defs, env, next, roots) == IF next = env THEN env ELSE LeastTexts(defs, next, roots)
NextTexts(defs, env, roots) ==
  FoldSet(LAMBDA name, acc :
            (name :> FoldLeft(LAMBDA v, k : Append(v, TextsOfRule(defs.rules[name], k - 1, defs, env, roots)), <<>>,
                              [k \in 1 .. (IF defs.rules[name].is_parametric THEN 2^NumBits ELSE 1) |-> k])) @@ acc,
          <<>>, DOMAIN defs.rules)
NoTexts(defs) ==
  [name \in DOMAIN defs.rules |-> [k \in 1 .. (IF defs.rules[name].is_parametric THEN 2^NumBits ELSE 1) |-> {}]]
LeastTexts(defs, env, roots) ==
  IF DOMAIN env # DOMAIN defs.rules THEN LeastTexts(defs, NoTexts(defs), roots)
  ELSE LeastFrom(defs, env, NextTexts(defs, env, roots), roots)
TextsOfItems(items, roots) ==
  LeastTexts(DefinitionsIn(items), [name \in {} |-> <<>>], roots)["start"][1]
(* Of grammars that refer to each other.                                    *)
RECURSIVE MeaningOf(_, _)
MeaningFrom(grammars, roots, next) == IF next = roots THEN roots ELSE MeaningOf(grammars, next)
MeaningOf(grammars, roots) ==
  MeaningFrom(grammars, roots,
    FoldLeft(LAMBDA acc, g : (g.name :> TextsOfItems(g.items, roots)) @@ acc, <<>>, grammars))
Meaning(grammars) ==
  MeaningOf(grammars, FoldLeft(LAMBDA acc, g : (g.name :> {}) @@ acc, <<>>, grammars))[grammars[1].name]

-----------------------------------------------------------------------------
(* What the compiler is known to lose: the argument where all of a          *)
(* parametric rule is another one, and the operator after a grammar whose   *)
(* tokens are counted or that is given a temperature.                       *)
RECURSIVE PassesOn(_)
PassesOn(x) ==
  /\ Len(x) = 1 /\ x[1].param_cond = Always /\ Len(x[1].conjuncts[1]) = 1
  /\ LET e == x[1].conjuncts[1][1]
     IN  /\ e.op = None /\ e.range = None
         /\ CASE e.atom.a = "group" -> PassesOn(e.atom.x)
              [] e.atom.a = "value" -> IF e.atom.v.v = "param" THEN needs_param(e.atom.v.e) /\ e.atom.v.e # SelfRef ELSE FALSE
              [] OTHER -> FALSE
LosesArgument(rule) == rule.is_parametric /\ PassesOn(rule.expansions)
LosesOperator(rule) ==
  /\ rule.max_tokens # None \/ rule.temperature # None
  /\ ~LimitedTerminal(rule) /\ single_atom(rule.expansions) # None
  /\ LET e == rule.expansions[1].conjuncts[1][1] IN e.op # None \/ e.range # None
Loses(items) ==
  \E i \in DOMAIN items :
    IF items[i].i = "rule" THEN LosesArgument(items[i].rule) \/ LosesOperator(items[i].rule) ELSE FALSE
=============================================================================
