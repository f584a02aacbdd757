------------------------------- MODULE Lexer --------------------------------
(***************************************************************************)
(* The lexer (parser/src/earley/lexer.rs): it drives the combined DFA one  *)
(* byte at a time and says when a lexeme has been recognised.  Special     *)
(* tokens and lexemes with a hidden suffix are not modelled.               *)
(***************************************************************************)
EXTENDS RegexVec

CONSTANT NoByte  \* None of Option<u8>
ASSUME NoByteAssumption == NoByte \notin Byte

(* MatchingLexemesIdx: a set of matching lexemes is named by the state that *)
(* matched and by which of the two sets of that state it is.                *)
MatchingLexemesIdx == [match : {"greedy", "lazy"}, state : StateID]
LexemesFromIdx(idx) ==
  IF idx.match = "greedy" THEN GreedyAccepting(idx.state)
                          ELSE LazyAccepting(idx.state)

PreLexeme(match, s, b, nextRow) ==
  [idx |-> [match |-> match, state |-> s], byte |-> b, byte_next_row |-> nextRow]

(* LexerResult: the lexer moved on, recognised a lexeme, or failed.         *)
Moved(s, b)     == [res |-> "state", state |-> s, byte |-> b]
Recognised(pre) == [res |-> "lexeme", pre |-> pre]
LexError        == [res |-> "error"]

AllowedFirstByte == {b \in Byte : Transition(InitialState(Lexeme), b) # DEAD}

AdvanceGreedily(prev, b) ==  \* variant: a lexeme that cannot go on goes unnoticed
  LET s == Transition(prev, b) IN
  IF s # DEAD THEN Moved(s, b)
  ELSE IF b \in AllowedFirstByte /\ GreedyAccepting(prev) # {}
  THEN Recognised(PreLexeme("greedy", prev, b, TRUE))
  ELSE LexError

Advance(prev, b) ==
  LET s == Transition(prev, b) IN
  IF s = DEAD
  THEN IF b \in AllowedFirstByte /\ GreedyAccepting(prev) # {}
       THEN Recognised(PreLexeme("greedy", prev, b, TRUE))
       ELSE LexError
  ELSE IF HasLowestMatch(s)
  THEN Recognised(PreLexeme("lazy", s, b, FALSE))
  ELSE Moved(s, b)

TryLexemeEnd(prev) ==
  IF GreedyAccepting(prev) # {}
  THEN Recognised(PreLexeme("greedy", prev, NoByte, FALSE))
  ELSE LexError

TransitionStartState(s, b) == IF b = NoByte THEN s ELSE Transition(s, b)

(* check_for_single_byte_lexeme: is s, reached by the transition byte,      *)
(* already the end of the lexeme?                                           *)
SingleByteLexeme(s) == ForcedEOI(s)
SingleBytePreLexeme(s, b) == PreLexeme("greedy", s, b, FALSE)

(* Lexer::next_byte asserts that no lexeme was left unrecognised.           *)
NextBytePanics(s) == HasLowestMatch(s)
(* It holds if no lexeme is always empty, and no lazy lexeme is matched by  *)
(* the byte it begins with.                                                 *)
NoHastyLexeme ==
  /\ \A l \in Lexeme : RxList[l] # NoMatch => RxNextByte(RxList[l]) # {EOI}
  /\ \A l \in Lazy : RxList[l] # NoMatch =>
       Nullable \cap ({RxList[l]} \cup {Derivative[RxList[l], b] : b \in Byte}) = {}

NextByteForced(s) ==
  IF GreedyAccepting(s) = {} /\ \E b \in Byte : NextByteOptions(s) = {b}
  THEN NextByteOptions(s) ELSE {}
=============================================================================
