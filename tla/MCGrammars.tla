----------------------------- MODULE MCGrammars -----------------------------
(***************************************************************************)
(* Small grammars on which the parser is model-checked.  Bytes are         *)
(* one-letter strings; the automata of the lexemes are listed arc by arc.  *)
(***************************************************************************)
EXTENDS Chart

T(lhs, rhs) == [lhs |-> lhs, rhs |-> rhs]
ArcsToDerivative(arcs) ==
  [p \in Rx \X Byte |->
     IF \E a \in arcs : a[1] = p[1] /\ a[2] = p[2]
     THEN (CHOOSE a \in arcs : a[1] = p[1] /\ a[2] = p[2])[3]
     ELSE NoMatch]

(* Residuals: of a one-byte literal, x+ (x0, x1), the keyword yz (y0, y1),  *)
(* a lazy /<[x>]*>/ (q0, q1, q2), spaces (s0, s1), one space (o0), the lazy *)
(* /[(]x*/ (p0, p1), the keyword ab (k0, k1); "e" accepts the empty string  *)
(* only.                                                                    *)
MCRx == {"(0", ")0", "a0", "b0", "10", "20", "x0", "x1", "y0", "y1",
         "q0", "q1", "q2", "s0", "s1", "o0", "p0", "p1", ";0", "k0", "k1", "e"}
MCNullable == {"e", "x1", "q2", "s1", "p1"}
MCDerivative == ArcsToDerivative(
  {<<"(0", "(", "e">>, <<")0", ")", "e">>, <<"a0", "a", "e">>, <<"b0", "b", "e">>,
   <<"10", "1", "e">>, <<"20", "2", "e">>,
   <<"x0", "x", "x1">>, <<"x1", "x", "x1">>,
   <<"y0", "y", "y1">>, <<"y1", "z", "e">>,
   <<"q0", "<", "q1">>, <<"q1", "x", "q1">>, <<"q1", ">", "q2">>,
   <<"q2", "x", "q1">>, <<"q2", ">", "q2">>,
   <<"s0", " ", "s1">>, <<"s1", " ", "s1">>, <<"o0", " ", "e">>,
   <<"p0", "(", "p1">>, <<"p1", "x", "p1">>, <<";0", ";", "e">>,
   <<"k0", "a", "k1">>, <<"k1", "b", "e">>})

(* Terminals are named as their lexemes.                                    *)
MCLexeme == {"SKIP", "(", ")", "W", "yz", "Q", "A", "B", "1", "2", "P", ";",
             "ab"}
Identity(S) == [s \in S |-> s]
RxOf == [l \in MCLexeme |->
  CASE l = "(" -> "(0" [] l = ")" -> ")0" [] l = "W" -> "x0" [] l = "yz" -> "y0"
    [] l = "Q" -> "q0" [] l = "A" -> "a0" [] l = "B" -> "b0" [] l = "1" -> "10"
    [] l = "2" -> "20" [] l = "P" -> "p0" [] l = ";" -> ";0"
    [] l = "ab" -> "k0" [] OTHER -> NoMatch]
MCRxList == [l \in Lexeme |-> RxOf[l]]
MCRxListSkip == [MCRxList EXCEPT !["SKIP"] = "s0"]
MCRxListSkipOne == [MCRxList EXCEPT !["SKIP"] = "o0"]

(* start: e    e: "(" t ")" | W | "yz"    t: e |                            *)
ParenBytes == {"(", ")", "x", "y", "z"}
ParenLexemes == {"SKIP", "(", ")", "W", "yz"}
ParenTerminals == Identity({"(", ")", "W", "yz"})
ParenSymbols == {"start", "e", "t"} \cup DOMAIN ParenTerminals
ParenRules == {T("start", <<"e">>), T("e", <<"(", "t", ")">>), T("e", <<"W">>),
               T("e", <<"yz">>), T("t", <<"e">>), T("t", <<>>)}

(* start: W "1" s    s: s i | i    i: W | Q    with spaces skipped and Q    *)
(* lazy; the lexeme W in two contexts.                                      *)
ListBytes == {"x", "1", "<", ">", " "}
ListLexemes == {"SKIP", "W", "1", "Q"}
ListTerminals == Identity({"W", "1", "Q"})
ListSymbols == {"start", "s", "i"} \cup DOMAIN ListTerminals
ListRules == {T("start", <<"W", "1", "s">>), T("s", <<"s", "i">>), T("s", <<"i">>),
              T("i", <<"W">>), T("i", <<"Q">>)}
ListLazy == {"Q"}

(* start: m    m: A W "1" | B W "2"                                         *)
StaleBytes == {"a", "b", "x", "1", "2"}
StaleLexemes == {"SKIP", "A", "B", "W", "1", "2"}
StaleTerminals == Identity({"A", "B", "W", "1", "2"})
StaleSymbols == {"start", "m"} \cup DOMAIN StaleTerminals
StaleRules == {T("start", <<"m">>), T("m", <<"A", "W", "1">>), T("m", <<"B", "W", "2">>)}

(* No lexeme is lazy.                                                       *)
NoLazy == {}

(* start: s    s: s i | i    i: "(" t ")" | W | Q | h    t: i |            *)
(* h: u h B | u    u: A |     with one space skipped after a lexeme and Q   *)
(* lazy: nested brackets, left recursion, and an ambiguous symbol whose     *)
(* left recursion hides behind a nullable one.                              *)
ZooBytes == {"(", ")", "x", "<", ">", " ", "a", "b"}
ZooLexemes == {"SKIP", "(", ")", "W", "Q", "A", "B"}
ZooTerminals == Identity({"(", ")", "W", "Q", "A", "B"})
ZooSymbols == {"start", "s", "i", "t", "h", "u"} \cup DOMAIN ZooTerminals
ZooRules == {T("start", <<"s">>), T("s", <<"s", "i">>), T("s", <<"i">>),
             T("i", <<"(", "t", ")">>), T("i", <<"W">>), T("i", <<"Q">>), T("i", <<"h">>),
             T("t", <<"i">>), T("t", <<>>),
             T("h", <<"u", "h", "B">>), T("h", <<"u">>), T("u", <<"A">>), T("u", <<>>)}
ZooLazy == {"Q"}

(* start: s    s: A W ";" | B W ";" "ab" | B W "ab"  where A W and B W      *)
(* leave the lexer in one state over as many, but different, rows.          *)
KeyBytes == {"a", "b", "x", ";"}
KeyLexemes == {"SKIP", "ab", "W", ";", "A", "B"}
KeyTerminals == Identity({"ab", "W", ";", "A", "B"})
KeySymbols == {"start", "s"} \cup DOMAIN KeyTerminals
KeyRules == {T("start", <<"s">>), T("s", <<"A", "W", ";">>),
             T("s", <<"B", "W", ";", "ab">>), T("s", <<"B", "W", "ab">>)}

=============================================================================
