------------------------------ MODULE RegexVec ------------------------------
(***************************************************************************)
(* The combined DFA of all the lexemes of a grammar                        *)
(* (parser/src/earley/regexvec.rs).  A residual regular expression is a    *)
(* state of the automaton of its own lexeme: deriving it, testing whether  *)
(* it accepts the empty string and asking what may follow belong to the    *)
(* external regex library (derivre) and are constants here.                *)
(***************************************************************************)
EXTENDS Naturals, FiniteSets

CONSTANTS
  Byte,       \* the bytes (256 of them in the code)
  Lexeme,     \* the lexemes of the grammar, the skip lexeme among them
  Rx,         \* the residual regular expressions
  NoMatch,    \* the regular expression that matches nothing
  RxList,     \* the regular expression each lexeme starts from
  Derivative, \* the residual of r after byte b: Derivative[r, b]
  Nullable,   \* the residuals that accept the empty string
  Lazy        \* the lexemes that match as soon as they can

ASSUME RegexAssumption ==
  /\ NoMatch \notin Rx
  /\ RxList \in [Lexeme -> Rx \cup {NoMatch}]
  /\ Derivative \in [Rx \X Byte -> Rx \cup {NoMatch}]
  /\ Nullable \subseteq Rx
  /\ Lazy \subseteq Lexeme

(* A state is the set of the lexemes still possible, each with its          *)
(* residual; the empty state is StateID::DEAD.                              *)
StateID == SUBSET (Lexeme \X Rx)
DEAD == {}

Possible(s) == {e[1] : e \in s}

InitialState(selected) ==
  {<<l, RxList[l]>> : l \in {m \in selected : RxList[m] # NoMatch}}

Transition(s, b) ==
  {<<e[1], Derivative[e[2], b]>> :
      e \in {d \in s : Derivative[d[2], b] # NoMatch}}

GreedyAccepting(s) == {e[1] : e \in {d \in s : d[2] \in Nullable}}

(* derivre's NextByte: what may come next after residual r.  EOI stands for *)
(* the end of the input.                                                    *)
EOI == "eoi"
ASSUME ByteAssumption == IsFiniteSet(Byte) /\ EOI \notin Byte

RxNextByte(r) ==
  {b \in Byte : Derivative[r, b] # NoMatch}
     \cup (IF r \in Nullable THEN {EOI} ELSE {})

NextByteOptions(s) == UNION {RxNextByte(e[2]) : e \in s}
ForcedEOI(s) == NextByteOptions(s) = {EOI}

(* lowest_match_inner: the lazy lexemes that match here; without one, the   *)
(* greedy lexemes, provided that all of them match and none can continue.   *)
LazyAccepting(s) ==
  LET lazies == {l \in GreedyAccepting(s) : l \in Lazy}
      allEoi == \A e \in s : RxNextByte(e[2]) = {EOI}
  IN  IF lazies # {} THEN lazies
      ELSE IF allEoi THEN Possible(s) ELSE {}

HasLowestMatch(s) == LazyAccepting(s) # {}
=============================================================================
