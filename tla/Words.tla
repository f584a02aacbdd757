------------------------------- MODULE Words --------------------------------
(***************************************************************************)
(* The reference language of a grammar: the words derived from its rules.  *)
(* It knows neither lexer states nor Earley items.                         *)
(***************************************************************************)
EXTENDS Chart

CONSTANTS
  MaxLexeme,   \* bound: length of a lexeme in a reference word
  MaxReference \* bound: length of the reference words and prefixes

ASSUME WordsAssumption == MaxLexeme \in Nat /\ MaxReference \in Nat

(* The words of a residual regular expression.                              *)
Residual(r, w) ==
  FoldLeft(LAMBDA q, b : IF q = NoMatch THEN NoMatch ELSE Derivative[q, b], r, w)
MatchesLexeme(l, w) == RxList[l] # NoMatch /\ Residual(RxList[l], w) \in Nullable
LexemePrefixes(l) ==
  LET grow[n \in Nat] ==
        IF n = 0 THEN {<<>>}
        ELSE {w \in {Append(v, b) : v \in grow[n - 1], b \in Byte} :
                Residual(RxList[l], w) # NoMatch}
  IN  IF RxList[l] = NoMatch THEN {} ELSE UNION {grow[n] : n \in 0..MaxLexeme}

(* A lazy lexeme stops at its first match; other lexemes at any match.  A   *)
(* lexeme is never empty.                                                   *)
Begun(l) ==
  {w \in LexemePrefixes(l) :
     l \in Lazy => \A k \in 1..Len(w) - 1 : ~MatchesLexeme(l, SubSeq(w, 1, k))}
LexemeWords(l) == {w \in Begun(l) : w # <<>> /\ MatchesLexeme(l, w)}

(* A terminal is its lexeme, with skipped text after it.                    *)
Concat(U, V) ==
  UNION {{u \o v : v \in {w \in V : Len(u) + Len(w) <= MaxReference}} : u \in U}
TerminalWords(t) ==
  Concat(LexemeWords(LexemeOf[t]), LexemeWords(SkipLexeme) \cup {<<>>})
TerminalPrefixes(t) ==
  Begun(LexemeOf[t]) \cup Concat(LexemeWords(LexemeOf[t]), Begun(SkipLexeme))

(* The words derived from every symbol, by trees of growing height until    *)
(* nothing is added; and what they begin with: some symbols of a rule, and  *)
(* a beginning of the next.  (In the grammars checked every symbol has a    *)
(* word, and every lexeme begun can be ended.)                              *)
RulesFor(s) == {r \in Rule : r.lhs = s}
WordsOfAll(lang, rhs) == FoldLeft(LAMBDA U, s : Concat(U, lang[s]), {<<>>}, rhs)
Closed(step(_)) ==
  LET close[lang \in [Symbol -> SUBSET Seq(Byte)]] ==
        LET more == step(lang) IN IF more = lang THEN lang ELSE close[more]
  IN  close[[s \in Symbol |-> {}]]
Derived ==
  LET terminals == [t \in Terminal |-> TerminalWords(t)]
      step(lang) == [s \in Symbol |->
                       IF s \in Terminal THEN terminals[s]
                       ELSE UNION {WordsOfAll(lang, r.rhs) : r \in RulesFor(s)}]
  IN  Closed(step)
DerivedPrefixes ==
  LET lang == Derived
      terminals == [t \in Terminal |-> TerminalPrefixes(t)]
      upto(pre, rhs, k) ==
        Concat(WordsOfAll(lang, SubSeq(rhs, 1, k - 1)), pre[rhs[k]])
      step(pre) == [s \in Symbol |->
                      IF s \in Terminal THEN terminals[s]
                      ELSE {<<>>} \cup UNION {UNION {upto(pre, r.rhs, k) : k \in 1..Len(r.rhs)} :
                                              r \in RulesFor(s)}]
  IN  Closed(step)
Words == Derived[StartSymbol]
ViablePrefixes == DerivedPrefixes[StartSymbol]
=============================================================================
