----------------------------- MODULE MCLanguage -----------------------------
(* Language on the grammars of MCGrammars.                                  *)
EXTENDS Language, MCGrammars
=============================================================================
