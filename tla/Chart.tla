------------------------------- MODULE Chart --------------------------------
(***************************************************************************)
(* The interlocked stacks of ParserState (parser/src/earley/parser.rs) and *)
(* the operations on them, as operators: what one byte, the end of a       *)
(* lexeme, or a token does to a chart.  The same code runs definitively    *)
(* (def = TRUE) and speculatively, while the token trie is walked.         *)
(* Grammars with stop=, suffix=, max_tokens= or token ranges are left out. *)
(***************************************************************************)
EXTENDS Lexer, Earley, SequencesExt

CONSTANTS
  SkipLexeme,      \* LexerSpec::skip_id; it has NoMatch for a grammar without
  AllowInitialSkip, \* LexerSpec::allow_initial_skip
  SkipOnce,        \* is its skip_repetition Once, or Unbounded?
  Unlimited        \* usize::MAX in max_all_items: no item limit

ASSUME ChartAssumption ==
  /\ Unlimited \notin Nat
  /\ SkipLexeme \in Lexeme
  /\ \A t \in Terminal : LexemeOf[t] \in Lexeme

(* A chart has                                                              *)
(*   lexer_stack     one entry per byte (the row, the lexer state and the   *)
(*                   byte), an entry before the first byte, and one more    *)
(*                   when flush_lexer() ended a lexeme                      *)
(*   rows            the physical Earley table                              *)
(*   rows_valid_end  how many of those rows may be re-used in a walk        *)
(*   row_infos       start_byte_idx of every row added definitively         *)
(*   budget          how many rows may still be added before the item limit *)
(*                   (max_all_items) stops the parser; Unlimited without a  *)
(*                   limit                                                  *)
LexerState == [row_idx : Nat \ {0}, lexer_state : StateID, byte : Byte \cup {NoByte}]
Row == [items : SUBSET Item, lexer_start_state : StateID,
        lexeme_idx : MatchingLexemesIdx]
ParserChart == [lexer_stack : Seq(LexerState), rows : Seq(Row),
                rows_valid_end : Nat, row_infos : Seq(Int),
                budget : Nat \cup {Unlimited}]

Entry(row, s, b) == [row_idx |-> row, lexer_state |-> s, byte |-> b]
Top(c) == Last(c.lexer_stack)
NumRows(c) == Top(c).row_idx
CurrRow(c) == c.rows[NumRows(c)]
PopLexerStates(c, n) ==
  [c EXCEPT !.lexer_stack = SubSeq(@, 1, Len(@) - n)]
PushLexerState(c, e) == [c EXCEPT !.lexer_stack = Append(@, e)]

WithSkipLexeme(allowed) == IF allowed = {} THEN {} ELSE allowed \cup {SkipLexeme}
RowStartState(items) == InitialState(WithSkipLexeme(AllowedLexemes(items)))

EarleyRow(items, start, idx) ==
  [items |-> items, lexer_start_state |-> start, lexeme_idx |-> idx]

InitialRow ==
  EarleyRow(InitialItems,
            IF AllowInitialSkip THEN RowStartState(InitialItems)
                                ELSE InitialState(AllowedLexemes(InitialItems)),
            [match |-> "greedy", state |-> DEAD])

NewChart ==
  [lexer_stack |-> <<Entry(1, InitialRow.lexer_start_state, NoByte)>>,
   rows |-> <<InitialRow>>, rows_valid_end |-> 1, row_infos |-> <<0>>,
   budget |-> Unlimited]

(* just_push_row: the new row overwrites the physical row above the current *)
(* one, and no row above it is valid any longer.                            *)
JustPushRowKeepsValid(c, row, def, nbytes) ==  \* variant: the rows above stay valid
  LET idx == NumRows(c) + 1 IN
  [c EXCEPT
     !.rows = IF idx > Len(@) THEN Append(@, row) ELSE [@ EXCEPT ![idx] = row],
     !.rows_valid_end = IF idx > @ THEN idx ELSE @,
     !.row_infos = IF ~def THEN @ ELSE Append(SubSeq(@, 1, idx - 1), nbytes)]
JustPushRowAlwaysRecords(c, row, def, nbytes) ==  \* variant: a walk records row_infos
  LET idx == NumRows(c) + 1 IN
  [c EXCEPT
     !.rows = IF idx > Len(@) THEN Append(@, row) ELSE [@ EXCEPT ![idx] = row],
     !.rows_valid_end = idx,
     !.row_infos = Append(SubSeq(@, 1, idx - 1), nbytes)]

JustPushRow(c, row, def, nbytes) ==
  LET idx == NumRows(c) + 1 IN
  [c EXCEPT
     !.rows = IF idx > Len(@) THEN Append(@, row) ELSE [@ EXCEPT ![idx] = row],
     !.rows_valid_end = idx,
     !.row_infos = IF ~def THEN @
                   ELSE Append(SubSeq(@, 1, idx - 1), IF nbytes > 0 THEN nbytes + 1 ELSE 0),
     !.budget = IF @ = Unlimited THEN @ ELSE @ - 1]

(* scan() and scan_skip_lexeme(): the row that follows the current one when *)
(* the lexemes of idx are recognised; a skip lexeme copies the row, and     *)
(* must not follow another if it is allowed once only.                      *)
AfterSkip(start) ==
  IF SkipOnce THEN InitialState(Possible(start) \ {SkipLexeme}) ELSE start
SkippedRow(row, idx) == EarleyRow(row.items, AfterSkip(row.lexer_start_state), idx)
ParsedRow(items, idx) == EarleyRow(items, RowStartState(items), idx)
ScannedRow(c, idx) ==
  IF SkipLexeme \in LexemesFromIdx(idx)
  THEN SkippedRow(CurrRow(c), idx)
  ELSE ParsedRow(ScanItems([k \in 1..NumRows(c) |-> c.rows[k].items],
                           LexemesFromIdx(idx)), idx)

(* A result is a chart and whether the parser could advance.                *)
Ok(c)   == [ok |-> TRUE, chart |-> c]
Fail(c) == [ok |-> FALSE, chart |-> c]

(* A walk re-uses a row that an earlier branch of the same walk pushed for  *)
(* the same lexeme.                                                         *)
CanReuseAnyRow(c, idx, def) ==  \* variant: whatever its lexeme
  ~def /\ NumRows(c) < c.rows_valid_end

CanReuseRow(c, idx, def) ==
  /\ ~def
  /\ NumRows(c) < c.rows_valid_end
  /\ c.rows[NumRows(c) + 1].lexeme_idx = idx

PushRow(c, row, def, nbytes) ==
  IF row.items = {} THEN Fail(c) ELSE Ok(JustPushRow(c, row, def, nbytes))
AddRow(c, idx, def, nbytes) ==
  IF c.budget = 0 THEN Fail(c)
  ELSE IF CanReuseRow(c, idx, def) THEN Ok(c)
  ELSE PushRow(c, ScannedRow(c, idx), def, nbytes)

(* lexer_state_for_added_row: the entry for the added row; a transition     *)
(* byte belongs to the new row, whose start is then corrected.              *)
AddedEntry(c, b) ==
  LET row == NumRows(c) + 1
  IN  Entry(row, TransitionStartState(c.rows[row].lexer_start_state, b), b)
CorrectRowStart(c, b, def) ==
  LET row == NumRows(c) + 1
      prev == c.row_infos[row - 1]
  IN  IF ~def \/ b = NoByte THEN c
      ELSE [c EXCEPT !.row_infos[row] = @ - (IF prev > 0 THEN prev - 1 ELSE 0)]

(* The end of advance_parser() when the recognised lexeme takes its last    *)
(* byte with it (or there is no byte): the new row starts afresh.           *)
StartAfresh(added) ==
  IF ~added.ok THEN added
  ELSE Ok(PushLexerState(added.chart, AddedEntry(added.chart, NoByte)))
AdvanceWithin(c, pre, def, nbytes) == StartAfresh(AddRow(c, pre.idx, def, nbytes))

(* advance_parser() when the byte that ended the lexeme begins the next     *)
(* one: the byte may lead nowhere, or be a whole lexeme itself; in that     *)
(* case the entry of the intermediate row is replaced.                      *)
AdvanceAcrossKeepsEntry(c, pre, def, nbytes) ==  \* variant: two entries for one byte
  LET added == AddRow(c, pre.idx, def, nbytes)
      entry == AddedEntry(added.chart, pre.byte)
  IN  IF ~added.ok \/ entry.lexer_state = DEAD THEN Fail(c)
      ELSE IF ~SingleByteLexeme(entry.lexer_state)
      THEN Ok(PushLexerState(added.chart, entry))
      ELSE AdvanceWithin(
             PushLexerState(added.chart, [entry EXCEPT !.byte = NoByte]),
             SingleBytePreLexeme(entry.lexer_state, pre.byte), def, nbytes)
AdvanceAcrossKeepsRowInfo(c, pre, def, nbytes) ==  \* variant: of the row given up
  LET added == AddRow(c, pre.idx, def, nbytes)
      entry == AddedEntry(added.chart, pre.byte)
      fixed == CorrectRowStart(added.chart, pre.byte, def)
  IN  IF ~added.ok THEN added
      ELSE IF entry.lexer_state = DEAD THEN Fail(fixed)
      ELSE Ok(PushLexerState(fixed, entry))

(* The row the byte leads nowhere from is given up; of the two entries of  *)
(* a byte that is a lexeme only the upper one stays.                        *)
GiveUpRow(c, row, def) ==
  Fail(IF def THEN [c EXCEPT !.row_infos = SubSeq(@, 1, row - 1)] ELSE c)
EndSingleByte(c, inner) ==
  IF inner.ok
  THEN Ok([inner.chart EXCEPT !.lexer_stack = Append(c.lexer_stack, Last(@))])
  ELSE Fail([inner.chart EXCEPT !.lexer_stack = c.lexer_stack])
BeginNext(c, fixed, entry, pre, def, nbytes) ==
  IF entry.lexer_state = DEAD THEN GiveUpRow(fixed, entry.row_idx, def)
  ELSE IF ~SingleByteLexeme(entry.lexer_state) THEN Ok(PushLexerState(fixed, entry))
  ELSE EndSingleByte(c,
         AdvanceWithin(PushLexerState(fixed, [entry EXCEPT !.byte = NoByte]),
                       SingleBytePreLexeme(entry.lexer_state, pre.byte), def, nbytes))
AdvanceAdded(c, added, pre, def, nbytes) ==
  IF ~added.ok THEN added
  ELSE BeginNext(c, CorrectRowStart(added.chart, pre.byte, def),
                 AddedEntry(added.chart, pre.byte), pre, def, nbytes)
AdvanceAcross(c, pre, def, nbytes) ==
  AdvanceAdded(c, AddRow(c, pre.idx, def, nbytes), pre, def, nbytes)

(* advance_lexer_or_parser, on the result of the lexer.                     *)
AdvanceLexerOrParser(c, res, def, nbytes) ==
  CASE res.res = "error" -> Fail(c)
    [] res.res = "state" -> Ok(PushLexerState(c, Entry(NumRows(c), res.state, res.byte)))
    [] res.res = "lexeme" /\ res.pre.byte_next_row ->
         AdvanceAcross(c, res.pre, def, nbytes)
    [] OTHER -> AdvanceWithin(c, res.pre, def, nbytes)

(* try_push_byte() and try_push_byte_definitive(): nbytes is the number of  *)
(* bytes pushed definitively so far.                                        *)
TryPushByte(c, b, def, nbytes) ==
  AdvanceLexerOrParser(c, Advance(Top(c).lexer_state, b), def, nbytes)

HasPendingLexemeBytes(c) ==
  \E i \in 1..Len(c.lexer_stack) :
    /\ c.lexer_stack[i].byte # NoByte
    /\ \A k \in i..Len(c.lexer_stack) : c.lexer_stack[k].row_idx = NumRows(c)

(* flush_lexer(): advance as if the current lexeme finished right here.     *)
FlushLexer(c, def, nbytes) ==
  IF ~HasPendingLexemeBytes(c) THEN Ok(c)
  ELSE AdvanceLexerOrParser(c, TryLexemeEnd(Top(c).lexer_state), def, nbytes)

(* run_speculative(): when a walk starts and when it ends the cached rows   *)
(* are given up.  The physical rows above remain in the code, are never     *)
(* read again before they are overwritten, and are dropped here.            *)
Speculative(c) ==
  [c EXCEPT !.rows_valid_end = NumRows(c), !.rows = SubSeq(@, 1, NumRows(c))]

IsAcceptingWithoutFlush(c) == AcceptingItems(CurrRow(c).items)  \* variant

IsAcceptingAt(flushed) ==
  flushed.ok /\ AcceptingItems(CurrRow(flushed.chart).items)
IsAccepting(c) == IsAcceptingAt(FlushLexer(Speculative(c), FALSE, 0))

(* rollback(): keeps the first newLen bytes and drops the rest, forced bytes *)
(* included.                                                                *)
RolledBack(c, newLen) ==
  LET d == [c EXCEPT !.lexer_stack = SubSeq(@, 1, newLen + 1)]
  IN  Speculative([d EXCEPT !.row_infos = SubSeq(@, 1, NumRows(d))])

CanAdvance(c) ==
  \/ HasPendingLexemeBytes(c)
  \/ \E i \in CurrRow(c).items : ~Complete(i) /\ AfterDot(i) \in Terminal

(* A sequence of bytes pushed one by one, as far as they are accepted:      *)
(* PushedUpTo(...)[k] is what comes of the first k of them.                 *)
PushedUpTo(c, bytes, def, nbytes) ==
  LET after[k \in 0..Len(bytes)] ==
        IF k = 0 THEN Ok(c)
        ELSE LET before == after[k - 1]
             IN  IF before.ok THEN TryPushByte(before.chart, bytes[k], def, nbytes + k - 1)
                 ELSE before
  IN  after
PushAll(c, bytes, def, nbytes) == PushedUpTo(c, bytes, def, nbytes)[Len(bytes)]
Fresh(bytes) == PushAll(NewChart, bytes, TRUE, 0)  \* in a new parser

Allows(c, bytes) == PushAll(Speculative(c), bytes, FALSE, 0).ok

(* The bytes forced_byte() may return: none in an accepting state, the      *)
(* lexer's hint when there is one, the only byte a walk accepts otherwise.  *)
AllowedBytes(c) == {b \in Byte : Allows(c, <<b>>)}
ForcedByteAtEnd(c) ==  \* variant: forces on where the text may end
  IF Cardinality(AllowedBytes(c)) = 1 THEN AllowedBytes(c) ELSE {}

OnlyOne(options) == IF Cardinality(options) = 1 THEN options ELSE {}
ForcedByte(c) ==
  LET hint == NextByteForced(Top(c).lexer_state) IN
  IF IsAccepting(c) THEN {}
  ELSE IF hint # {} THEN hint
  ELSE OnlyOne(AllowedBytes(c))
=============================================================================
