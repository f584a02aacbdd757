--------------------------- MODULE StopController ---------------------------
(***************************************************************************)
(* The stop controller: turns committed tokens into text for the user, and *)
(* stops at a stop token or at the first match of the stop expression,     *)
(* which it never shows.  Bytes that may still become part of a match, or  *)
(* of an incomplete character, are held back.                              *)
(*                                                                         *)
(* The stop expression is a finite set of byte sequences; the automaton    *)
(* (derivre, external) of any characters at all, then the expression as    *)
(* lookahead, is in the state given by the partial matches and by the      *)
(* incomplete character that end the text since its start.  On bytes that  *)
(* spell no characters it is dead, and commit_token() panics while it      *)
(* holds the automaton's mutex.  What a Rust caller finds who catches the  *)
(* panic is modelled (through the C API it ends the process).  Clones      *)
(* share the mutex; the model has one controller.                          *)
(***************************************************************************)
EXTENDS Integers, SequencesExt, FiniteSetsExt

CONSTANTS
  Byte,         \* the bytes that occur in characters
  Tokens,
  StopTokens,   \* tokens that stop the output and are not shown
  Resets,       \* special and empty tokens: no match extends over them
  TextOf,       \* [Tokens -> bytes], what a token shows
  StopSets,     \* the sets of stop sequences a client may configure
  CharLen(_),   \* the characters' length by first byte, 0 for a later byte
  MaxTokens     \* bound of the model on the tokens committed

ASSUME StopAssumption ==
  /\ StopTokens \subseteq Tokens /\ Resets \subseteq Tokens
  /\ TextOf \in [Tokens -> Seq(Byte)]
  /\ \A set \in StopSets : set \subseteq Seq(Byte) /\ <<>> \notin set
  /\ \A b \in Byte : CharLen(b) \in Nat
  /\ MaxTokens \in Nat

VARIABLES
  stops,         \* the stop sequences; {} is no stop expression
  is_stopped,
  state,         \* state of the stop automaton: its partial matches
  character,     \* and the bytes of the character that is incomplete
  poisoned,      \* has a call panicked with the automaton's mutex locked?
  pending_bytes, \* bytes held back
  tokens,        \* the tokens committed up to the stop (history)
  emitted        \* the pieces of text returned for them (history)

vars == <<stops, is_stopped, state, character, poisoned, pending_bytes, tokens, emitted>>

-----------------------------------------------------------------------------
(* The automaton.                                                          *)

Take(bytes, n) == SubSeq(bytes, 1, n)
Drop(bytes, n) == SubSeq(bytes, n + 1, Len(bytes))

InitialState == {<<>>}

Transition(st, b) ==
  {<<>>} \cup
  {p \in {Append(q, b) : q \in st} : \E s \in stops : IsPrefix(p, s)}

HasLowestMatch(st) == st \cap stops # {}
PossibleLookaheadLenOfShortest(st) == Min({Len(p) : p \in st})
PossibleLookaheadLen(st) == Max({Len(p) : p \in st})

StateAfter(st, bytes) ==
  LET after[i \in 0..Len(bytes)] ==
        IF i = 0 THEN st ELSE Transition(after[i - 1], bytes[i])
  IN  after[Len(bytes)]

(* The number of bytes of the token at which the first match ends.         *)
Matches(st, bytes) ==
  {i \in 1..Len(bytes) : HasLowestMatch(StateAfter(st, SubSeq(bytes, 1, i)))}

(* Is text made of characters, the last one perhaps incomplete?            *)
Characters(text) ==
  \A i \in 1..Len(text) :
    IF CharLen(text[i]) = 0
    THEN \E j \in 1..(i - 1) : /\ CharLen(text[j]) > i - j
                              /\ \A k \in (j + 1)..i : CharLen(text[k]) = 0
    ELSE \A k \in (i + 1)..(i + CharLen(text[i]) - 1) :
           k \in 1..Len(text) => CharLen(text[k]) = 0
Whole(text) ==
  /\ Characters(text)
  /\ \A i \in 1..Len(text) : i + CharLen(text[i]) - 1 <= Len(text)

(* A text without its incomplete character, and that character.            *)
Complete(text) ==
  Min({Len(text) + 1} \cup
      {i \in 1..Len(text) : i + CharLen(text[i]) - 1 > Len(text)}) - 1
CharacterAfter(c, bytes) == Drop(c \o bytes, Complete(c \o bytes))

(* Is there an automaton, and does it die of these bytes?                  *)
is_dead(c, bytes) == stops # {} /\ ~Characters(c \o bytes)

-----------------------------------------------------------------------------
(* How much of some bytes is sure to end between two characters: the last  *)
(* byte that begins one tells how long it is.                              *)

LastStart(data) ==
  Max({1} \cup {i \in 1..Len(data) : CharLen(data[i]) # 0})

ExpectedLen(b) == Max({1, CharLen(b)})

ValidUtf8LenUnchecked(data) == Len(data)
ValidUtf8LenOfOthers(data) == IF data = <<>> THEN 0 ELSE LastStart(data) - 1

ValidUtf8Len(data) ==
  IF data = <<>> THEN 0
  ELSE LET i == LastStart(data)
           end == i - 1 + ExpectedLen(data[i])
       IN IF end <= Len(data) THEN end ELSE i - 1

-----------------------------------------------------------------------------
Saturated(n) == Max({0, n})

Show(bytes) == emitted' = Append(emitted, bytes)

StopAtToken(t) ==
  /\ t \in StopTokens
  /\ is_stopped' = TRUE
  /\ pending_bytes' = <<>>
  /\ Show(pending_bytes)
  /\ UNCHANGED <<state, character, poisoned>>

ShowSpecialFirst(t) ==
  /\ t \in Resets \ StopTokens
  /\ state' = InitialState
  /\ character' = <<>>
  /\ Show(TextOf[t])
  /\ UNCHANGED <<is_stopped, poisoned, pending_bytes>>

ShowSpecial(t) ==
  /\ t \in Resets \ StopTokens
  /\ state' = InitialState
  /\ character' = <<>>
  /\ pending_bytes' = <<>>
  /\ Show(pending_bytes \o TextOf[t])
  /\ UNCHANGED <<is_stopped, poisoned>>

(* The bytes of the token up to the first match, if there is one.          *)
UpToMatch(t) ==
  IF Matches(state, TextOf[t]) = {} THEN TextOf[t]
  ELSE Take(TextOf[t], Min(Matches(state, TextOf[t])))

(* The bytes held back were taken out before the mutex is locked and the   *)
(* assertion fails; the state is put back only after the last byte.        *)
Panic(t) ==
  /\ t \notin StopTokens \cup Resets
  /\ poisoned \/ is_dead(character, UpToMatch(t))
  /\ poisoned' = TRUE
  /\ pending_bytes' = <<>>
  /\ Show(<<>>)
  /\ UNCHANGED <<is_stopped, state, character>>

(* Which match's length the automaton reports, if several end here, is     *)
(* derivre's choice.                                                       *)
StopAtMatch(t) ==
  /\ t \notin StopTokens \cup Resets
  /\ Matches(state, TextOf[t]) # {}
  /\ ~poisoned /\ ~is_dead(character, UpToMatch(t))
  /\ state' = StateAfter(state, UpToMatch(t))
  /\ LET buf == pending_bytes \o UpToMatch(t)
     IN \E s \in state' \cap stops : Show(Take(buf, Saturated(Len(buf) - Len(s))))
  /\ character' = CharacterAfter(character, UpToMatch(t))
  /\ is_stopped' = TRUE
  /\ pending_bytes' = <<>>
  /\ UNCHANGED poisoned

HoldBack(t) ==
  /\ t \notin StopTokens \cup Resets
  /\ Matches(state, TextOf[t]) = {}
  /\ ~poisoned /\ ~is_dead(character, TextOf[t])
  /\ character' = CharacterAfter(character, TextOf[t])
  /\ state' = StateAfter(state, TextOf[t])
  /\ LET buf == pending_bytes \o TextOf[t]
         to_return == Saturated(Len(buf) - PossibleLookaheadLen(state'))
         valid == ValidUtf8Len(Take(buf, to_return))
     IN /\ Show(Take(buf, valid))
        /\ pending_bytes' = Drop(buf, valid)
  /\ UNCHANGED <<is_stopped, poisoned>>

CommitToken(t) ==
  /\ ~is_stopped                     \* otherwise returns "" and does nothing
  /\ Len(tokens) < MaxTokens
  /\ \/ StopAtToken(t) \/ ShowSpecial(t)
     \/ Panic(t) \/ StopAtMatch(t) \/ HoldBack(t)
  /\ tokens' = Append(tokens, t)
  /\ UNCHANGED stops

CommitWhenStopped ==
  /\ is_stopped
  /\ UNCHANGED vars

Init ==
  /\ stops \in StopSets
  /\ is_stopped = FALSE
  /\ state = InitialState
  /\ character = <<>>
  /\ poisoned = FALSE
  /\ pending_bytes = <<>>
  /\ tokens = <<>>
  /\ emitted = <<>>

Next == CommitWhenStopped \/ \E t \in Tokens : CommitToken(t)

Spec == Init /\ [][Next]_vars

-----------------------------------------------------------------------------
(* Properties.                                                             *)

Shown == FlattenSeq(emitted)
TextShownBy(ts) ==
  FlattenSeq([i \in 1..Len(ts) |->
                IF ts[i] \in StopTokens THEN <<>> ELSE TextOf[ts[i]]])

(* The text before and after the last token no match extends over.         *)
LastReset == Max({0} \cup {i \in 1..Len(tokens) : tokens[i] \in Resets})
Before == TextShownBy(Take(tokens, LastReset))
Segment == TextShownBy(Drop(tokens, LastReset))

MatchEnds ==
  {k \in 1..Len(Segment) : \E s \in stops : IsSuffix(s, Take(Segment, k))}

EndedByToken == tokens # <<>> /\ Last(tokens) \in StopTokens

(* A call panics only for a text that is not characters.  Until one does   *)
(* or it stops, the text returned and the bytes held back are the text of  *)
(* the tokens, in order and once: holding back neither drops, repeats nor  *)
(* reorders a byte, whatever tokens split characters and matches.  A stop  *)
(* token releases all that was held back.                                  *)
NothingLost ==
  /\ Characters(TextShownBy(tokens)) => ~poisoned
  /\ ~poisoned /\ MatchEnds = {} =>
       /\ Shown \o pending_bytes = TextShownBy(tokens)
       /\ is_stopped = EndedByToken
       /\ is_stopped => pending_bytes = <<>>

(* If no call has panicked (which no text made of characters makes it do), *)
(* it stops with the token in which a stop sequence first occurs, and what *)
(* it has shown by then, over all calls, is the text before an occurrence  *)
(* that ends there: no part of a stop sequence split over tokens was shown.*)
StopsBeforeFirstMatch ==
  ~poisoned /\ MatchEnds # {} =>
    LET k == Min(MatchEnds)
    IN /\ is_stopped
       /\ \E s \in stops :
            /\ IsSuffix(s, Take(Segment, k))
            /\ Shown = Before \o Take(Segment, k - Len(s))
       /\ Len(TextShownBy(Drop(Front(tokens), LastReset))) < k

(* The client's stop sequences are text, and so are the names of special    *)
(* tokens; a token without a text is shown as its number.                   *)
ASSUME NamesAreText ==
  /\ \A t \in Resets \ StopTokens : TextOf[t] # <<>> /\ Whole(TextOf[t])
  /\ \A set \in StopSets : \A s \in set : Whole(s)

(* When the tokens spell characters, what the calls return up to any       *)
(* ordinary token is whole characters, though tokens and matches in        *)
(* progress split them: each piece is converted to a string by itself, and *)
(* a partial character would be replaced for good.                         *)
WholeCharacters ==
  Characters(TextShownBy(tokens)) =>
    \A i \in 1..Len(tokens) :
      tokens[i] \notin StopTokens \cup Resets
        => Whole(FlattenSeq(Take(emitted, i)))

(* Nothing is held back without need: the bytes held back are an           *)
(* incomplete character, then the longest text that may still become a     *)
(* match.                                                                  *)
HeldBackForCause ==
  Characters(TextShownBy(tokens)) /\ ~is_stopped =>
    LET longest == Max({0} \cup {n \in 1..Len(Segment) :
                          \E s \in stops :
                            n <= Len(s) /\ IsSuffix(Take(s, n), Segment)})
        rest == Take(pending_bytes, Len(pending_bytes) - longest)
    IN rest = <<>> \/ CharLen(Head(rest)) > Len(rest)
=============================================================================
