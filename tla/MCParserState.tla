--------------------------- MODULE MCParserState ----------------------------
(***************************************************************************)
(* Token vocabularies for the grammars of MCGrammars.                      *)
(***************************************************************************)
EXTENDS ParserState, MCGrammars

ParenTokens == {<<"(">>, <<")">>, <<"x">>, <<"y">>, <<"x", ")">>}
ListTokens == {<<"x">>, <<"1">>, <<"<">>, <<"x", "1">>, <<">", "x">>, <<"x", " ">>}
StaleTokens == {<<"a">>, <<"b">>, <<"x">>, <<"1">>, <<"x", "2">>}

(* A hypothesis of the proofs.                                             *)
ASSUME NoHastyLexeme
=============================================================================
