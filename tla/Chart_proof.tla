---------------------------- MODULE Chart_proof -----------------------------
(***************************************************************************)
(* What the operators of Chart keep and return, for every grammar: charts  *)
(* stay well-formed; what a chart accepts depends only on its lexer state  *)
(* and on the rows in use; rows that a walk may share hold what a scan     *)
(* would compute; more bytes only add rows above; and a forced byte is the *)
(* only one the grammar allows.  ParserState and Matcher rest on this.     *)
(***************************************************************************)
EXTENDS Chart, Induction_proof, SequenceTheorems, FiniteSetTheorems

PreLexemes ==
  {p \in [idx : MatchingLexemesIdx, byte : Byte \cup {NoByte}, byte_next_row : BOOLEAN] :
     p.byte_next_row => p.byte \in Byte}

LexerResults == {Moved(s, b) : s \in StateID, b \in Byte}
                  \cup {Recognised(p) : p \in PreLexemes} \cup {LexError}

-----------------------------------------------------------------------------
(* The lexer stays among its states.                                       *)
LEMMA TransitionType ==
  ASSUME NEW s \in StateID, NEW b \in Byte
  PROVE  Transition(s, b) \in StateID
<1> SUFFICES ASSUME NEW e \in {d \in s : Derivative[d[2], b] # NoMatch}
             PROVE  <<e[1], Derivative[e[2], b]>> \in Lexeme \X Rx
  BY DEF Transition, StateID
<1>1. e \in Lexeme \X Rx
  BY DEF StateID
<1>2. Derivative[e[2], b] \in Rx \cup {NoMatch}
  BY <1>1, RegexAssumption
<1> QED BY <1>1, <1>2

(* Start states are states.                                                 *)
LEMMA InitialStateType ==
  ASSUME NEW selected \in SUBSET Lexeme
  PROVE  InitialState(selected) \in StateID
BY RegexAssumption DEF InitialState, StateID

(* A transition is a lexer result.                                          *)
LEMMA MovedType ==
  ASSUME NEW s \in StateID, NEW b \in Byte
  PROVE  Moved(s, b) \in LexerResults
BY DEF LexerResults

(* A lexeme recognised is a lexer result.                                   *)
LEMMA RecognisedType ==
  ASSUME NEW s \in StateID, NEW b \in Byte \cup {NoByte},
         NEW match \in {"greedy", "lazy"}, NEW nextRow \in BOOLEAN, nextRow => b \in Byte
  PROVE  Recognised(PreLexeme(match, s, b, nextRow)) \in LexerResults
<1>1. PreLexeme(match, s, b, nextRow) \in PreLexemes
  BY DEF PreLexeme, PreLexemes, MatchingLexemesIdx
<1> QED BY <1>1 DEF LexerResults

(* Advance answers with a lexer result.                                     *)
LEMMA AdvanceType ==
  ASSUME NEW s \in StateID, NEW b \in Byte
  PROVE  Advance(s, b) \in LexerResults
<1>1. Transition(s, b) \in StateID
  BY TransitionType
<1>2. Moved(Transition(s, b), b) \in LexerResults
  BY <1>1, MovedType
<1>3. Recognised(PreLexeme("greedy", s, b, TRUE)) \in LexerResults
  BY RecognisedType
<1>4. Recognised(PreLexeme("lazy", Transition(s, b), b, FALSE)) \in LexerResults
  BY <1>1, RecognisedType
<1>5. LexError \in LexerResults
  BY DEF LexerResults
<1> QED BY <1>2, <1>3, <1>4, <1>5, Zenon DEF Advance

(* TryLexemeEnd answers with a lexer result.                                *)
LEMMA TryLexemeEndType ==
  ASSUME NEW s \in StateID
  PROVE  TryLexemeEnd(s) \in LexerResults
<1>1. Recognised(PreLexeme("greedy", s, NoByte, FALSE)) \in LexerResults
  BY RecognisedType
<1>2. LexError \in LexerResults
  BY DEF LexerResults
<1> QED BY <1>1, <1>2, Zenon DEF TryLexemeEnd

-----------------------------------------------------------------------------
(* Charts.  The rows never decrease along the lexer stack, every entry has  *)
(* its row in the table, and the rows in use are valid.                     *)
Good(c) ==
  /\ c \in ParserChart
  /\ c.lexer_stack # <<>>
  /\ \A i, j \in 1..Len(c.lexer_stack) :
       i <= j => c.lexer_stack[i].row_idx <= c.lexer_stack[j].row_idx
  /\ c.lexer_stack[Len(c.lexer_stack)].row_idx <= c.rows_valid_end
  /\ c.rows_valid_end <= Len(c.rows)

(* The rows in use were added definitively.                                 *)
Defined(c, def) == def => c.lexer_stack[Len(c.lexer_stack)].row_idx <= Len(c.row_infos)

(* Nothing below the top of c is disturbed in d.                            *)
Keeps(c, d, def) ==
  /\ \A k \in 1..c.lexer_stack[Len(c.lexer_stack)].row_idx : d.rows[k] = c.rows[k]
  /\ ~def => d.row_infos = c.row_infos

(* The top of the lexer stack and the row it is in.                         *)
LEMMA TopFacts ==
  ASSUME NEW c, Good(c)
  PROVE  /\ Len(c.lexer_stack) \in Nat \ {0}
         /\ Top(c) = c.lexer_stack[Len(c.lexer_stack)]
         /\ Top(c) \in LexerState
         /\ NumRows(c) = c.lexer_stack[Len(c.lexer_stack)].row_idx
         /\ NumRows(c) \in Nat \ {0}
         /\ NumRows(c) <= Len(c.rows)
         /\ CurrRow(c) \in Row
         /\ Top(c).lexer_state \in StateID
<1>1. c.lexer_stack \in Seq(LexerState) /\ c.lexer_stack # <<>>
  BY DEF Good, ParserChart
<1>2. Len(c.lexer_stack) \in Nat \ {0}
  BY <1>1, EmptySeq
<1>3. c.lexer_stack[Len(c.lexer_stack)] \in LexerState
  BY <1>1, <1>2, ElementOfSeq
<1>4. c.rows \in Seq(Row) /\ c.rows_valid_end \in Nat
  BY DEF Good, ParserChart
<1>5. c.lexer_stack[Len(c.lexer_stack)].row_idx \in 1..Len(c.rows)
  BY <1>3, <1>4, <1>2 DEF Good, LexerState
<1>6. c.rows[c.lexer_stack[Len(c.lexer_stack)].row_idx] \in Row
  BY <1>4, <1>5, ElementOfSeq
<1> QED
  BY <1>2, <1>3, <1>5, <1>6 DEF Top, Last, NumRows, CurrRow, LexerState

(* A scanned row is a row.                                                  *)
LEMMA ScannedRowType ==
  ASSUME NEW c, Good(c), NEW idx \in MatchingLexemesIdx
  PROVE  ScannedRow(c, idx) \in Row
<1> DEFINE items == ScanItems([k \in 1..NumRows(c) |-> c.rows[k].items], LexemesFromIdx(idx))
           allowed == AllowedLexemes(items)
<1>1. CurrRow(c) \in Row
  BY TopFacts
<1>2. items \in SUBSET Item
  BY DEF ScanItems, ProcessAgenda
<1>3. allowed \in SUBSET Lexeme
  BY ChartAssumption DEF AllowedLexemes
<1>4. (IF allowed = {} THEN {} ELSE allowed \cup {SkipLexeme}) \in SUBSET Lexeme
  BY <1>3, ChartAssumption
<1>5. RowStartState(items) \in StateID
  BY <1>4, InitialStateType DEF RowStartState, WithSkipLexeme
<1>6. EarleyRow(CurrRow(c).items, AfterSkip(CurrRow(c).lexer_start_state), idx) \in Row
  <2>1. CurrRow(c).items \in SUBSET Item /\ CurrRow(c).lexer_start_state \in StateID
    BY <1>1 DEF Row
  <2>2. Possible(CurrRow(c).lexer_start_state) \ {SkipLexeme} \in SUBSET Lexeme
    BY <2>1 DEF Possible, StateID
  <2>3. AfterSkip(CurrRow(c).lexer_start_state) \in StateID
    BY <2>1, <2>2, InitialStateType DEF AfterSkip
  <2> QED BY <2>1, <2>3 DEF EarleyRow, Row
<1> HIDE DEF items, allowed
<1>7. EarleyRow(items, RowStartState(items), idx) \in Row
  BY <1>2, <1>5 DEF EarleyRow, Row
<1> QED BY <1>6, <1>7 DEF ScannedRow, SkippedRow, ParsedRow, items

(* A row pushed keeps the rows in use.                                      *)
LEMMA JustPushRowFacts ==
  ASSUME NEW c, Good(c), NEW def \in BOOLEAN, Defined(c, def), NEW row \in Row,
         NEW nbytes \in Nat, c.budget # 0
  PROVE  LET d == JustPushRow(c, row, def, nbytes) IN
         /\ d \in ParserChart
         /\ d.lexer_stack = c.lexer_stack
         /\ d.rows_valid_end = NumRows(c) + 1
         /\ NumRows(c) + 1 <= Len(d.rows)
         /\ Keeps(c, d, def)
         /\ def => Len(d.row_infos) = NumRows(c) + 1
<1> DEFINE n == NumRows(c)
           start == IF nbytes > 0 THEN nbytes + 1 ELSE 0
           rows == IF n + 1 > Len(c.rows) THEN Append(c.rows, row)
                                          ELSE [c.rows EXCEPT ![n + 1] = row]
           infos == IF ~def THEN c.row_infos
                    ELSE Append(SubSeq(c.row_infos, 1, (n + 1) - 1), start)
           left == IF c.budget = Unlimited THEN c.budget ELSE c.budget - 1
<1>1. /\ n \in Nat \ {0} /\ n <= Len(c.rows)
      /\ n = c.lexer_stack[Len(c.lexer_stack)].row_idx
  BY TopFacts
<1>2. /\ c.rows \in Seq(Row) /\ c.row_infos \in Seq(Int)
      /\ c.budget \in Nat \cup {Unlimited}
      /\ c \in ParserChart
  BY DEF Good, ParserChart
<1>3. /\ rows \in Seq(Row) /\ n + 1 <= Len(rows)
      /\ \A k \in 1..n : rows[k] = c.rows[k]
  <2>1. CASE n + 1 > Len(c.rows)
    <3>1. /\ Append(c.rows, row) \in Seq(Row)
          /\ Len(Append(c.rows, row)) = Len(c.rows) + 1
          /\ \A k \in 1..Len(c.rows) : Append(c.rows, row)[k] = c.rows[k]
      BY <1>2, AppendProperties
    <3> QED BY <2>1, <3>1, <1>1, <1>2
  <2>2. CASE n + 1 <= Len(c.rows)
    <3>1. /\ [c.rows EXCEPT ![n + 1] = row] \in Seq(Row)
          /\ Len([c.rows EXCEPT ![n + 1] = row]) = Len(c.rows)
          /\ \A k \in 1..n : [c.rows EXCEPT ![n + 1] = row][k] = c.rows[k]
      BY <1>1, <1>2, <2>2, ExceptSeq
    <3> QED BY <2>2, <3>1, <1>1, <1>2
  <2> QED BY <2>1, <2>2, <1>1, <1>2
<1>4. infos \in Seq(Int) /\ (def => Len(infos) = n + 1) /\ (~def => infos = c.row_infos)
  <2>1. ASSUME def
        PROVE  /\ SubSeq(c.row_infos, 1, n) \in Seq(Int)
               /\ Len(SubSeq(c.row_infos, 1, n)) = n
    <3>1. n <= Len(c.row_infos)
      BY <1>1, <2>1 DEF Defined
    <3> QED BY <1>1, <1>2, <3>1, SubSeqProperties
  <2>2. start \in Int
    OBVIOUS
  <2>3. n = (n + 1) - 1
    BY <1>1
  <2>4. CASE ~def
    BY <2>4, <1>2
  <2>5. CASE def
    <3>1. /\ Append(SubSeq(c.row_infos, 1, n), start) \in Seq(Int)
          /\ Len(Append(SubSeq(c.row_infos, 1, n), start)) = n + 1
      BY <2>1, <2>2, <2>5, <1>1, AppendProperties
    <3> QED BY <3>1, <2>3, <2>5
  <2> QED BY <2>4, <2>5
<1>5. left \in Nat \cup {Unlimited}
  BY <1>2
<1>6. JustPushRow(c, row, def, nbytes) =
        [c EXCEPT !.rows = rows, !.rows_valid_end = n + 1, !.row_infos = infos, !.budget = left]
  BY DEF JustPushRow
<1> DEFINE d == JustPushRow(c, row, def, nbytes)
<1> HIDE DEF rows, infos, left, n
<1>7. d \in ParserChart
  <2>1. n + 1 \in Nat
    BY <1>1
  <2>2. rows \in Seq(Row) /\ infos \in Seq(Int)
    BY <1>3, <1>4
  <2> QED BY <1>2, <1>5, <1>6, <2>1, <2>2 DEF ParserChart
<1>8. /\ d.lexer_stack = c.lexer_stack /\ d.rows = rows
      /\ d.rows_valid_end = n + 1 /\ d.row_infos = infos
  BY <1>2, <1>6 DEF ParserChart
<1> HIDE DEF d
<1>9. Keeps(c, d, def)
  BY <1>1, <1>3, <1>4, <1>8 DEF Keeps
<1> QED BY <1>3, <1>4, <1>7, <1>8, <1>9 DEF n, d

(* add_row: either nothing happens, or the row above the current one is     *)
(* there; the lexer stack is left alone.                                    *)
RowAdded(c, r, def) ==
  /\ r.ok \in BOOLEAN
  /\ r.chart \in ParserChart
  /\ r.chart.lexer_stack = c.lexer_stack
  /\ Keeps(c, r.chart, def)
  /\ ~r.ok => r.chart = c
  /\ r.ok => /\ NumRows(c) + 1 <= r.chart.rows_valid_end
             /\ r.chart.rows_valid_end <= Len(r.chart.rows)
             /\ def => Len(r.chart.row_infos) = NumRows(c) + 1

(* A row is added, re-used, or refused with nothing changed.                *)
LEMMA AddRowFacts ==
  ASSUME NEW c, Good(c), NEW def \in BOOLEAN, Defined(c, def),
         NEW idx \in MatchingLexemesIdx, NEW nbytes \in Nat
  PROVE  RowAdded(c, AddRow(c, idx, def, nbytes), def)
<1> DEFINE row == ScannedRow(c, idx)
           d == JustPushRow(c, row, def, nbytes)
<1>1. c \in ParserChart /\ Keeps(c, c, def)
  BY DEF Good, Keeps
<1>2. RowAdded(c, Fail(c), def)
  BY <1>1 DEF RowAdded, Fail
<1>3. ASSUME CanReuseRow(c, idx, def)
      PROVE  RowAdded(c, Ok(c), def)
  <2>1. /\ NumRows(c) < c.rows_valid_end /\ NumRows(c) \in Nat
        /\ c.rows_valid_end \in Nat /\ c.rows_valid_end <= Len(c.rows)
        /\ ~def
    BY <1>3, TopFacts DEF CanReuseRow, Good, ParserChart
  <2> QED BY <1>1, <2>1 DEF RowAdded, Ok
<1>4. ASSUME c.budget # 0
      PROVE  RowAdded(c, Ok(d), def)
  <2>1. row \in Row
    BY ScannedRowType
  <2> HIDE DEF row
  <2>2. /\ d \in ParserChart
        /\ d.lexer_stack = c.lexer_stack
        /\ d.rows_valid_end = NumRows(c) + 1
        /\ NumRows(c) + 1 <= Len(d.rows)
        /\ Keeps(c, d, def)
        /\ def => Len(d.row_infos) = NumRows(c) + 1
    BY <1>4, <2>1, JustPushRowFacts
  <2>3. NumRows(c) \in Nat
    BY TopFacts
  <2> HIDE DEF d
  <2> QED BY <2>2, <2>3 DEF RowAdded, Ok
<1> HIDE DEF d
<1> QED BY <1>2, <1>3, <1>4, Zenon DEF AddRow, PushRow, d

(* The entry for an added row.                                              *)
LEMMA AddedEntryFacts ==
  ASSUME NEW c, Good(c), NEW def, NEW r, RowAdded(c, r, def), r.ok,
         NEW b \in Byte \cup {NoByte}
  PROVE  /\ AddedEntry(r.chart, b) \in LexerState
         /\ AddedEntry(r.chart, b).row_idx = NumRows(c) + 1
         /\ AddedEntry(r.chart, b).byte = b
<1> DEFINE n == NumRows(c) + 1
           start == r.chart.rows[n].lexer_start_state
<1>1. NumRows(r.chart) = NumRows(c) /\ n \in Nat \ {0}
  BY TopFacts DEF RowAdded, NumRows, Top
<1>2. n \in 1..Len(r.chart.rows) /\ r.chart.rows \in Seq(Row)
  BY <1>1 DEF RowAdded, ParserChart
<1>3. r.chart.rows[n] \in Row
  BY <1>2, ElementOfSeq
<1>4. start \in StateID
  BY <1>3 DEF Row
<1> HIDE DEF start, n
<1>5. TransitionStartState(start, b) \in StateID
  BY <1>4, TransitionType, NoByteAssumption DEF TransitionStartState
<1>6. AddedEntry(r.chart, b) = Entry(n, TransitionStartState(start, b), b)
  BY <1>1 DEF AddedEntry, n, start
<1> QED BY <1>1, <1>5, <1>6 DEF Entry, LexerState, n

(* The outcome of an operation that advances the parser from c: one entry   *)
(* is pushed or, on failure, none.                                          *)
Outcome(c, r, def) ==
  /\ r.ok \in BOOLEAN
  /\ Good(r.chart) /\ Defined(r.chart, def) /\ Keeps(c, r.chart, def)
  /\ ~r.ok => r.chart.lexer_stack = c.lexer_stack
  /\ r.ok => \E e \in LexerState : r.chart.lexer_stack = Append(c.lexer_stack, e)

(* An entry pushed onto the lexer stack.                                    *)
LEMMA PushFacts ==
  ASSUME NEW c, Good(c), NEW d \in ParserChart, d.lexer_stack = c.lexer_stack,
         NEW e \in LexerState, NumRows(c) <= e.row_idx,
         e.row_idx <= d.rows_valid_end, d.rows_valid_end <= Len(d.rows)
  PROVE  LET p == PushLexerState(d, e) IN
         /\ Good(p)
         /\ p.lexer_stack = Append(c.lexer_stack, e)
         /\ p.lexer_stack[Len(p.lexer_stack)] = e
         /\ p.rows = d.rows /\ p.row_infos = d.row_infos
<1> DEFINE p == PushLexerState(d, e)
           s == c.lexer_stack
           t == Append(s, e)
<1>1. /\ s \in Seq(LexerState) /\ Len(s) \in Nat \ {0}
      /\ NumRows(c) = s[Len(s)].row_idx
      /\ NumRows(c) \in Nat
  BY TopFacts DEF Good, ParserChart
<1>2. /\ t \in Seq(LexerState) /\ t # <<>> /\ Len(t) = Len(s) + 1
      /\ \A i \in 1..Len(s) : t[i] = s[i]
      /\ t[Len(s) + 1] = e
  BY <1>1, AppendProperties
<1>3. p = [d EXCEPT !.lexer_stack = t]
  BY DEF PushLexerState
<1> HIDE DEF p, t
<1>4. /\ p \in ParserChart /\ p.lexer_stack = t /\ p.rows = d.rows
      /\ p.row_infos = d.row_infos /\ p.rows_valid_end = d.rows_valid_end
  BY <1>2, <1>3 DEF ParserChart
<1>5. e.row_idx \in Nat /\ \A i \in 1..Len(s) : s[i].row_idx \in Nat
  <2>1. \A i \in 1..Len(s) : s[i] \in LexerState
    BY <1>1, ElementOfSeq
  <2> QED BY <2>1 DEF LexerState
<1>6. ASSUME NEW i \in 1..Len(t), NEW j \in 1..Len(t), i <= j
      PROVE  t[i].row_idx <= t[j].row_idx
  <2>1. \A k \in 1..Len(s) : s[k].row_idx <= NumRows(c)
    BY <1>1 DEF Good
  <2>2. CASE j = Len(s) + 1
    <3>1. CASE i = Len(s) + 1
      BY <3>1, <2>2, <1>2, <1>5
    <3>2. CASE i # Len(s) + 1
      <4>1. i \in 1..Len(s)
        BY <3>2, <1>1, <1>2
      <4>2. s[i].row_idx <= NumRows(c) /\ t[i] = s[i]
        BY <4>1, <2>1, <1>2
      <4> QED BY <4>1, <4>2, <2>2, <1>1, <1>2, <1>5
    <3> QED BY <3>1, <3>2
  <2>3. CASE j # Len(s) + 1
    <3>1. i \in 1..Len(s) /\ j \in 1..Len(s)
      BY <1>1, <1>2, <1>6, <2>3
    <3> QED BY <3>1, <1>2, <1>6 DEF Good
  <2> QED BY <2>2, <2>3
<1>7. Good(p)
  BY <1>1, <1>2, <1>4, <1>6 DEF Good
<1> QED BY <1>1, <1>2, <1>4, <1>7 DEF t, p

(* A lexeme that takes its last byte with it.                               *)
LEMMA AdvanceWithinFacts ==
  ASSUME NEW c, Good(c), NEW def \in BOOLEAN, Defined(c, def),
         NEW pre \in PreLexemes, NEW nbytes \in Nat
  PROVE  LET r == AdvanceWithin(c, pre, def, nbytes) IN
         /\ Outcome(c, r, def)
         /\ r.ok => LET top == r.chart.lexer_stack[Len(r.chart.lexer_stack)] IN
                    top.row_idx = NumRows(c) + 1 /\ top.byte = NoByte
<1> DEFINE added == AddRow(c, pre.idx, def, nbytes)
           r == AdvanceWithin(c, pre, def, nbytes)
           e == AddedEntry(added.chart, NoByte)
           p == PushLexerState(added.chart, e)
<1>1. RowAdded(c, added, def)
  BY AddRowFacts DEF PreLexemes
<1>2. NumRows(c) \in Nat
  BY TopFacts
<1>3. CASE ~added.ok
  <2>1. r = added
    BY <1>3 DEF AdvanceWithin, StartAfresh
  <2> QED BY <2>1, <1>1, <1>3 DEF Outcome, RowAdded
<1>4. CASE added.ok
  <2>1. r = Ok(p)
    BY <1>4 DEF AdvanceWithin, StartAfresh
  <2>2. e \in LexerState /\ e.row_idx = NumRows(c) + 1 /\ e.byte = NoByte
    BY <1>1, <1>4, AddedEntryFacts
  <2> HIDE DEF added, e
  <2>3. /\ Good(p)
        /\ p.lexer_stack = Append(c.lexer_stack, e)
        /\ p.lexer_stack[Len(p.lexer_stack)] = e
        /\ p.rows = added.chart.rows /\ p.row_infos = added.chart.row_infos
    <3>1. added.chart \in ParserChart /\ added.chart.lexer_stack = c.lexer_stack
      BY <1>1 DEF RowAdded
    <3>2. NumRows(c) <= e.row_idx /\ e.row_idx <= added.chart.rows_valid_end
          /\ added.chart.rows_valid_end <= Len(added.chart.rows)
      BY <1>1, <1>2, <1>4, <2>2 DEF RowAdded
    <3> QED BY <2>2, <3>1, <3>2, PushFacts
  <2> HIDE DEF p
  <2>4. r.ok = TRUE /\ r.chart = p
    BY <2>1 DEF Ok
  <2> HIDE DEF r
  <2>5. Defined(p, def)
    BY <1>1, <1>2, <1>4, <2>2, <2>3 DEF RowAdded, Defined
  <2>6. Keeps(c, p, def)
    BY <1>1, <2>3 DEF RowAdded, Keeps
  <2>7. Outcome(c, r, def)
    BY <2>2, <2>3, <2>4, <2>5, <2>6 DEF Outcome
  <2> QED BY <2>2, <2>3, <2>4, <2>7 DEF r
<1> QED BY <1>3, <1>4

(* Correcting the start of a new row.                                       *)
LEMMA CorrectRowStartFacts ==
  ASSUME NEW c, Good(c), NEW def \in BOOLEAN, NEW r, RowAdded(c, r, def), r.ok,
         NEW b \in Byte
  PROVE  LET f == CorrectRowStart(r.chart, b, def) IN
         /\ f \in ParserChart
         /\ f.lexer_stack = c.lexer_stack
         /\ f.rows = r.chart.rows /\ f.rows_valid_end = r.chart.rows_valid_end
         /\ def => Len(f.row_infos) = NumRows(c) + 1
         /\ ~def => f.row_infos = r.chart.row_infos
<1> DEFINE f == CorrectRowStart(r.chart, b, def)
           n == NumRows(c)
           infos == r.chart.row_infos
           prev == infos[(n + 1) - 1]
           start == infos[n + 1] - (IF prev > 0 THEN prev - 1 ELSE 0)
<1>1. NumRows(r.chart) = n /\ n \in Nat \ {0}
  BY TopFacts DEF RowAdded, NumRows, Top
<1>2. r.chart \in ParserChart /\ r.chart.lexer_stack = c.lexer_stack
  BY DEF RowAdded
<1>3. CASE ~def
  <2>1. f = r.chart
    BY <1>3 DEF CorrectRowStart
  <2> QED BY <2>1, <1>2, <1>3
<1>4. CASE def
  <2>1. infos \in Seq(Int) /\ Len(infos) = n + 1
    BY <1>2, <1>4 DEF ParserChart, RowAdded
  <2>2. infos[n + 1] \in Int /\ prev \in Int
    BY <1>1, <2>1, ElementOfSeq
  <2>3. start \in Int
    BY <2>2
  <2>4. f = [r.chart EXCEPT !.row_infos = [infos EXCEPT ![n + 1] = start]]
    BY <1>1, <1>2, <1>4, NoByteAssumption DEF CorrectRowStart
  <2> HIDE DEF start, infos, n
  <2>5. [infos EXCEPT ![n + 1] = start] \in Seq(Int) /\ Len([infos EXCEPT ![n + 1] = start]) = n + 1
    BY <1>1, <2>1, <2>3, ExceptSeq
  <2> QED BY <1>2, <1>4, <2>4, <2>5 DEF ParserChart, n
<1> QED BY <1>3, <1>4

(* The lexer stack put back.                                                *)
LEMMA RestoreStackFacts ==
  ASSUME NEW c, Good(c), NEW d \in ParserChart,
         NumRows(c) <= d.rows_valid_end, d.rows_valid_end <= Len(d.rows)
  PROVE  LET e == [d EXCEPT !.lexer_stack = c.lexer_stack] IN
         /\ e \in ParserChart /\ Good(e) /\ e.lexer_stack = c.lexer_stack
         /\ e.rows = d.rows /\ e.row_infos = d.row_infos
         /\ e.rows_valid_end = d.rows_valid_end
<1> DEFINE e == [d EXCEPT !.lexer_stack = c.lexer_stack]
<1>1. c.lexer_stack \in Seq(LexerState)
  BY DEF Good, ParserChart
<1>2. e \in ParserChart /\ e.lexer_stack = c.lexer_stack
      /\ e.rows = d.rows /\ e.row_infos = d.row_infos
      /\ e.rows_valid_end = d.rows_valid_end
  BY <1>1 DEF ParserChart
<1>3. NumRows(c) = c.lexer_stack[Len(c.lexer_stack)].row_idx
  BY TopFacts
<1> HIDE DEF e
<1>4. Good(e)
  BY <1>2, <1>3 DEF Good
<1> QED BY <1>2, <1>4 DEF e

(* The byte that ended a lexeme begins the next one.                        *)
LEMMA AdvanceAcrossFacts ==
  ASSUME NEW c, Good(c), NEW def \in BOOLEAN, Defined(c, def),
         NEW pre \in PreLexemes, pre.byte \in Byte, NEW nbytes \in Nat
  PROVE  Outcome(c, AdvanceAcross(c, pre, def, nbytes), def)
<1> DEFINE r == AdvanceAcross(c, pre, def, nbytes)
           added == AddRow(c, pre.idx, def, nbytes)
           entry == AddedEntry(added.chart, pre.byte)
           entry0 == [entry EXCEPT !.byte = NoByte]
           fixed == CorrectRowStart(added.chart, pre.byte, def)
           first == PushLexerState(fixed, entry0)
           single == SingleBytePreLexeme(entry.lexer_state, pre.byte)
           inner == AdvanceWithin(first, single, def, nbytes)
           dead == IF def THEN [fixed EXCEPT !.row_infos = SubSeq(@, 1, entry.row_idx - 1)]
                          ELSE fixed
<1>1. RowAdded(c, added, def)
  BY AddRowFacts DEF PreLexemes
<1>2. NumRows(c) \in Nat /\ NumRows(c) = c.lexer_stack[Len(c.lexer_stack)].row_idx
  BY TopFacts
<1>3. CASE ~added.ok
  <2>1. r = added
    BY <1>3 DEF AdvanceAcross, AdvanceAdded
  <2> QED BY <2>1, <1>1, <1>3 DEF Outcome, RowAdded
<1>4. CASE added.ok
  <2>1. entry \in LexerState /\ entry.row_idx = NumRows(c) + 1
    BY <1>1, <1>4, AddedEntryFacts
  <2>2. /\ fixed \in ParserChart
        /\ fixed.lexer_stack = c.lexer_stack
        /\ fixed.rows = added.chart.rows /\ fixed.rows_valid_end = added.chart.rows_valid_end
        /\ def => Len(fixed.row_infos) = NumRows(c) + 1
        /\ ~def => fixed.row_infos = added.chart.row_infos
    BY <1>1, <1>4, CorrectRowStartFacts
  <2>3. /\ NumRows(c) + 1 <= fixed.rows_valid_end /\ fixed.rows_valid_end <= Len(fixed.rows)
        /\ NumRows(c) <= fixed.rows_valid_end /\ Keeps(c, fixed, def)
    BY <1>1, <1>2, <1>4, <2>2 DEF RowAdded, Keeps, ParserChart
  <2>4. r = IF entry.lexer_state = DEAD THEN Fail(dead)
            ELSE IF ~SingleByteLexeme(entry.lexer_state) THEN Ok(PushLexerState(fixed, entry))
            ELSE IF inner.ok
            THEN Ok([inner.chart EXCEPT !.lexer_stack = Append(c.lexer_stack, Last(@))])
            ELSE Fail([inner.chart EXCEPT !.lexer_stack = c.lexer_stack])
    BY <1>4, Zenon DEF AdvanceAcross, AdvanceAdded, BeginNext, GiveUpRow, EndSingleByte
  <2> HIDE DEF added, entry, fixed, r, inner
  <2>5. Outcome(c, Fail(dead), def)
    <3>1. CASE ~def
      <4>1. Good(fixed)
        BY <1>2, <2>2, <2>3 DEF Good
      <4> QED BY <3>1, <4>1, <2>2, <2>3 DEF Outcome, Fail, Defined
    <3>2. CASE def
      <4> DEFINE infos == SubSeq(fixed.row_infos, 1, NumRows(c))
      <4>1. fixed.row_infos \in Seq(Int) /\ Len(fixed.row_infos) = NumRows(c) + 1
        BY <2>2, <3>2 DEF ParserChart
      <4>2. infos \in Seq(Int) /\ Len(infos) = NumRows(c)
        BY <4>1, <1>2, SubSeqProperties
      <4>3. dead = [fixed EXCEPT !.row_infos = infos]
        <5>1. entry.row_idx - 1 = NumRows(c)
          BY <1>2, <2>1
        <5>2. dead = [fixed EXCEPT !.row_infos = SubSeq(@, 1, entry.row_idx - 1)]
          BY <3>2
        <5> HIDE DEF dead
        <5> QED BY <2>2, <5>1, <5>2 DEF ParserChart
      <4> HIDE DEF infos, dead
      <4>4. dead \in ParserChart /\ dead.lexer_stack = c.lexer_stack /\ dead.row_infos = infos
            /\ dead.rows = fixed.rows /\ dead.rows_valid_end = fixed.rows_valid_end
        BY <2>2, <4>2, <4>3 DEF ParserChart
      <4>5. Good(dead)
        BY <1>2, <2>2, <2>3, <4>4 DEF Good
      <4>6. Defined(dead, def) /\ Keeps(c, dead, def)
        BY <1>2, <2>3, <3>2, <4>2, <4>4 DEF Defined, Keeps
      <4> QED BY <4>4, <4>5, <4>6 DEF Outcome, Fail
    <3> QED BY <3>1, <3>2
  <2>6. Outcome(c, Ok(PushLexerState(fixed, entry)), def)
    <3> DEFINE p == PushLexerState(fixed, entry)
    <3>1. /\ Good(p) /\ p.lexer_stack = Append(c.lexer_stack, entry)
          /\ p.lexer_stack[Len(p.lexer_stack)] = entry
          /\ p.rows = fixed.rows /\ p.row_infos = fixed.row_infos
      BY <1>2, <2>1, <2>2, <2>3, PushFacts
    <3> HIDE DEF p
    <3>2. Defined(p, def) /\ Keeps(c, p, def)
      BY <1>2, <2>1, <2>2, <2>3, <3>1 DEF Defined, Keeps
    <3> QED BY <2>1, <3>1, <3>2 DEF Outcome, Ok, p
  <2>7. /\ Outcome(first, inner, def)
        /\ Good(first) /\ Keeps(c, first, def)
        /\ NumRows(first) = NumRows(c) + 1
        /\ first.lexer_stack = Append(c.lexer_stack, entry0)
    <3>1. entry0 \in LexerState /\ entry0.row_idx = NumRows(c) + 1
      BY <2>1 DEF LexerState
    <3> HIDE DEF entry0
    <3>2. /\ Good(first) /\ first.lexer_stack = Append(c.lexer_stack, entry0)
          /\ first.lexer_stack[Len(first.lexer_stack)] = entry0
          /\ first.rows = fixed.rows /\ first.row_infos = fixed.row_infos
      BY <1>2, <2>2, <2>3, <3>1, PushFacts
    <3>3. single \in PreLexemes
      BY <2>1 DEF SingleBytePreLexeme, PreLexeme, PreLexemes, MatchingLexemesIdx, LexerState
    <3> HIDE DEF first, single
    <3>4. NumRows(first) = NumRows(c) + 1
      BY <3>1, <3>2, TopFacts
    <3>5. Defined(first, def) /\ Keeps(c, first, def)
      BY <1>2, <2>2, <2>3, <3>1, <3>2 DEF Defined, Keeps
    <3>6. Outcome(first, inner, def)
      BY <3>2, <3>3, <3>5, AdvanceWithinFacts DEF inner
    <3> QED BY <3>2, <3>4, <3>5, <3>6
  <2>8. /\ inner.chart \in ParserChart
        /\ Defined(inner.chart, def) /\ Keeps(c, inner.chart, def)
        /\ NumRows(c) <= inner.chart.lexer_stack[Len(inner.chart.lexer_stack)].row_idx
        /\ inner.chart.lexer_stack[Len(inner.chart.lexer_stack)].row_idx
             <= inner.chart.rows_valid_end
        /\ NumRows(c) <= inner.chart.rows_valid_end
        /\ inner.chart.rows_valid_end <= Len(inner.chart.rows)
    <3> DEFINE s == inner.chart.lexer_stack
    <3> HIDE DEF first
    <3>1. Good(inner.chart) /\ Defined(inner.chart, def) /\ Keeps(first, inner.chart, def)
      BY <2>7 DEF Outcome
    <3>2. NumRows(first) <= s[Len(s)].row_idx
      <4>1. CASE ~inner.ok
        BY <4>1, <2>7, <1>2, TopFacts DEF Outcome
      <4>2. CASE inner.ok
        <5> DEFINE l == Len(first.lexer_stack)
        <5>1. /\ first.lexer_stack \in Seq(LexerState)
              /\ l \in Nat \ {0} /\ NumRows(first) = first.lexer_stack[l].row_idx
          BY <2>7, TopFacts DEF Good, ParserChart
        <5>2. PICK e \in LexerState : s = Append(first.lexer_stack, e)
          BY <4>2, <2>7 DEF Outcome
        <5>3. Len(s) = l + 1 /\ s[l] = first.lexer_stack[l]
          BY <5>1, <5>2, AppendProperties
        <5>4. s[l].row_idx <= s[l + 1].row_idx
          BY <3>1, <5>1, <5>3 DEF Good
        <5> QED BY <5>1, <5>3, <5>4
      <4> QED BY <4>1, <4>2 DEF Outcome
    <3>3. s[Len(s)].row_idx \in Nat /\ s[Len(s)].row_idx <= inner.chart.rows_valid_end
          /\ inner.chart.rows_valid_end \in Nat
      BY <3>1, TopFacts DEF Good, ParserChart
    <3>4. Keeps(c, inner.chart, def)
      <4>1. NumRows(first) = first.lexer_stack[Len(first.lexer_stack)].row_idx
        BY <2>7, TopFacts
      <4> QED BY <1>2, <2>7, <3>1, <4>1 DEF Keeps
    <3>5. inner.chart \in ParserChart /\ inner.chart.rows_valid_end <= Len(inner.chart.rows)
      BY <3>1 DEF Good
    <3>6. NumRows(c) <= s[Len(s)].row_idx /\ NumRows(c) <= inner.chart.rows_valid_end
      BY <1>2, <2>7, <3>2, <3>3
    <3> QED BY <3>1, <3>3, <3>4, <3>5, <3>6
  <2>9. ASSUME inner.ok
        PROVE  Outcome(c, Ok([inner.chart EXCEPT !.lexer_stack = Append(c.lexer_stack, Last(@))]), def)
    <3> DEFINE d == [inner.chart EXCEPT !.lexer_stack = c.lexer_stack]
               e == Last(inner.chart.lexer_stack)
               p == PushLexerState(d, e)
    <3>1. /\ d \in ParserChart /\ d.lexer_stack = c.lexer_stack
          /\ d.rows = inner.chart.rows /\ d.row_infos = inner.chart.row_infos
          /\ d.rows_valid_end = inner.chart.rows_valid_end
      BY <2>8, RestoreStackFacts
    <3>2. Good(inner.chart) /\ Top(inner.chart) = e
      BY <2>7 DEF Outcome, Top
    <3>3. e \in LexerState /\ e = inner.chart.lexer_stack[Len(inner.chart.lexer_stack)]
      BY <3>2, TopFacts
    <3>4. [inner.chart EXCEPT !.lexer_stack = Append(c.lexer_stack, Last(@))] = p
      BY <2>8 DEF PushLexerState, ParserChart
    <3>5. /\ NumRows(c) <= e.row_idx /\ e.row_idx <= d.rows_valid_end
          /\ d.rows_valid_end <= Len(d.rows)
      BY <2>8, <3>1, <3>3
    <3> HIDE DEF d, e
    <3>6. /\ Good(p) /\ p.lexer_stack = Append(c.lexer_stack, e)
          /\ p.lexer_stack[Len(p.lexer_stack)] = e
          /\ p.rows = d.rows /\ p.row_infos = d.row_infos
      BY <2>8, <3>1, <3>3, <3>5, PushFacts
    <3> HIDE DEF p
    <3>7. Defined(p, def) /\ Keeps(c, p, def)
      BY <2>8, <3>1, <3>3, <3>6 DEF Defined, Keeps
    <3> QED BY <3>3, <3>4, <3>6, <3>7 DEF Outcome, Ok
  <2>10. ASSUME ~inner.ok
         PROVE  Outcome(c, Fail([inner.chart EXCEPT !.lexer_stack = c.lexer_stack]), def)
    <3> DEFINE d == [inner.chart EXCEPT !.lexer_stack = c.lexer_stack]
    <3>1. /\ Good(d) /\ d.lexer_stack = c.lexer_stack
          /\ d.rows = inner.chart.rows /\ d.row_infos = inner.chart.row_infos
      BY <2>8, RestoreStackFacts
    <3> HIDE DEF d
    <3>2. Defined(d, def) /\ Keeps(c, d, def)
      <4>1. c.lexer_stack[Len(c.lexer_stack)].row_idx
              <= inner.chart.lexer_stack[Len(inner.chart.lexer_stack)].row_idx
        BY <1>2, <2>8
      <4>2. inner.chart.lexer_stack[Len(inner.chart.lexer_stack)].row_idx \in Nat
        BY <2>7, TopFacts DEF Outcome
      <4> QED BY <1>2, <2>8, <3>1, <4>1, <4>2 DEF Defined, Keeps, ParserChart
    <3>3. Outcome(c, Fail(d), def)
      BY <3>1, <3>2 DEF Outcome, Fail
    <3> QED BY <3>3 DEF d
  <2> QED BY <2>4, <2>5, <2>6, <2>9, <2>10, Zenon DEF r
<1> QED BY <1>3, <1>4

(* Whatever the lexer answers.                                              *)
LEMMA AdvanceFacts ==
  ASSUME NEW c, Good(c), NEW def \in BOOLEAN, Defined(c, def),
         NEW res \in LexerResults, NEW nbytes \in Nat
  PROVE  Outcome(c, AdvanceLexerOrParser(c, res, def, nbytes), def)
<1> DEFINE r == AdvanceLexerOrParser(c, res, def, nbytes)
<1>1. ASSUME NEW s \in StateID, NEW b \in Byte, res = Moved(s, b)
      PROVE  Outcome(c, r, def)
  <2> DEFINE e == Entry(NumRows(c), s, b)
  <2>1. r = Ok(PushLexerState(c, e))
    <3>1. res.res = "state" /\ res.state = s /\ res.byte = b
      BY <1>1 DEF Moved
    <3> QED BY <3>1 DEF AdvanceLexerOrParser
  <2>2. NumRows(c) \in Nat \ {0}
    BY TopFacts
  <2>3. e \in LexerState /\ e.row_idx = NumRows(c)
    BY <2>2 DEF Entry, LexerState
  <2>4. /\ c \in ParserChart /\ NumRows(c) <= c.rows_valid_end
        /\ c.rows_valid_end <= Len(c.rows)
        /\ NumRows(c) = c.lexer_stack[Len(c.lexer_stack)].row_idx
    BY TopFacts DEF Good
  <2> HIDE DEF e, r
  <2> DEFINE p == PushLexerState(c, e)
  <2>5. /\ Good(p) /\ p.lexer_stack = Append(c.lexer_stack, e)
        /\ p.lexer_stack[Len(p.lexer_stack)] = e
        /\ p.rows = c.rows /\ p.row_infos = c.row_infos
    BY <2>2, <2>3, <2>4, PushFacts
  <2> HIDE DEF p
  <2>6. Defined(p, def) /\ Keeps(c, p, def)
    BY <2>3, <2>4, <2>5 DEF Defined, Keeps
  <2> QED BY <2>1, <2>3, <2>5, <2>6 DEF Outcome, Ok, p
<1>2. ASSUME NEW pre \in PreLexemes, res = Recognised(pre)
      PROVE  Outcome(c, r, def)
  <2>1. res.res = "lexeme" /\ res.pre = pre
    BY <1>2 DEF Recognised
  <2>2. r = IF pre.byte_next_row THEN AdvanceAcross(c, pre, def, nbytes)
                                 ELSE AdvanceWithin(c, pre, def, nbytes)
    BY <2>1 DEF AdvanceLexerOrParser
  <2>3. pre.byte_next_row => pre.byte \in Byte
    BY DEF PreLexemes
  <2> HIDE DEF r
  <2> QED BY <2>2, <2>3, AdvanceWithinFacts, AdvanceAcrossFacts
<1>3. ASSUME res = LexError
      PROVE  Outcome(c, r, def)
  <2>1. r = Fail(c)
    BY <1>3 DEF LexError, AdvanceLexerOrParser
  <2>2. Outcome(c, Fail(c), def)
    BY DEF Fail, Outcome, Keeps
  <2> HIDE DEF r
  <2> QED BY <2>1, <2>2
<1>4. \/ \E s \in StateID, b \in Byte : res = Moved(s, b)
      \/ \E pre \in PreLexemes : res = Recognised(pre)
      \/ res = LexError
  BY DEF LexerResults
<1> HIDE DEF r
<1>5. Outcome(c, r, def)
  BY <1>1, <1>2, <1>3, <1>4
<1> QED BY <1>5 DEF r

(* A byte pushed, or refused with the stack unchanged.                      *)
LEMMA TryPushByteFacts ==
  ASSUME NEW c, Good(c), NEW def \in BOOLEAN, Defined(c, def),
         NEW b \in Byte, NEW nbytes \in Nat
  PROVE  Outcome(c, TryPushByte(c, b, def, nbytes), def)
<1>1. Top(c).lexer_state \in StateID
  BY TopFacts
<1>2. Advance(Top(c).lexer_state, b) \in LexerResults
  BY <1>1, AdvanceType
<1> QED BY <1>2, AdvanceFacts DEF TryPushByte

(* flush_lexer: nothing is pushed, or the entry of a new row without a byte.*)
LEMMA FlushLexerFacts ==
  ASSUME NEW c, Good(c), NEW def \in BOOLEAN, Defined(c, def), NEW nbytes \in Nat
  PROVE  LET r == FlushLexer(c, def, nbytes) IN
         /\ r.ok \in BOOLEAN
         /\ Good(r.chart) /\ Defined(r.chart, def) /\ Keeps(c, r.chart, def)
         /\ \/ r.chart.lexer_stack = c.lexer_stack
            \/ /\ r.ok
               /\ HasPendingLexemeBytes(c)
               /\ \E e \in LexerState :
                    /\ r.chart.lexer_stack = Append(c.lexer_stack, e)
                    /\ e.row_idx = NumRows(c) + 1 /\ e.byte = NoByte
<1> DEFINE r == FlushLexer(c, def, nbytes)
           res == TryLexemeEnd(Top(c).lexer_state)
<1>1. CASE ~HasPendingLexemeBytes(c)
  <2>1. r = Ok(c)
    BY <1>1 DEF FlushLexer
  <2> QED BY <2>1 DEF Ok, Keeps
<1>2. CASE HasPendingLexemeBytes(c) /\ GreedyAccepting(Top(c).lexer_state) = {}
  <2>1. res = LexError
    BY <1>2 DEF TryLexemeEnd
  <2>2. r = Fail(c)
    BY <1>2, <2>1 DEF LexError, AdvanceLexerOrParser, FlushLexer
  <2> QED BY <2>2 DEF Fail, Keeps
<1>3. CASE HasPendingLexemeBytes(c) /\ GreedyAccepting(Top(c).lexer_state) # {}
  <2> DEFINE pre == PreLexeme("greedy", Top(c).lexer_state, NoByte, FALSE)
  <2>1. res = Recognised(pre)
    BY <1>3 DEF TryLexemeEnd
  <2>2. Top(c).lexer_state \in StateID
    BY TopFacts
  <2>3. pre \in PreLexemes /\ ~pre.byte_next_row
    BY <2>2 DEF PreLexeme, PreLexemes, MatchingLexemesIdx
  <2>4. r = AdvanceLexerOrParser(c, res, def, nbytes)
    BY <1>3 DEF FlushLexer
  <2> HIDE DEF pre, res
  <2>5. res.res = "lexeme" /\ res.pre = pre
    BY <2>1 DEF Recognised
  <2>6. r = AdvanceWithin(c, pre, def, nbytes)
    BY <2>3, <2>4, <2>5 DEF AdvanceLexerOrParser
  <2> HIDE DEF r
  <2>7. /\ Outcome(c, r, def)
        /\ r.ok => /\ r.chart.lexer_stack[Len(r.chart.lexer_stack)].row_idx = NumRows(c) + 1
                   /\ r.chart.lexer_stack[Len(r.chart.lexer_stack)].byte = NoByte
    BY <2>3, <2>6, AdvanceWithinFacts
  <2>8. CASE ~r.ok
    BY <2>7, <2>8 DEF Outcome, r
  <2>9. CASE r.ok
    <3>1. PICK e \in LexerState : r.chart.lexer_stack = Append(c.lexer_stack, e)
      BY <2>7, <2>9 DEF Outcome
    <3>2. c.lexer_stack \in Seq(LexerState)
      BY DEF Good, ParserChart
    <3>3. r.chart.lexer_stack[Len(r.chart.lexer_stack)] = e
      BY <3>1, <3>2, AppendProperties
    <3> QED BY <1>3, <2>7, <2>9, <3>1, <3>3 DEF Outcome, r
  <2> QED BY <2>7, <2>8, <2>9 DEF Outcome
<1> QED BY <1>1, <1>2, <1>3

-----------------------------------------------------------------------------
(* Operations that take entries, rows or the budget away.                   *)
LEMMA TruncateFacts ==
  ASSUME NEW c, Good(c), NEW m \in 1..Len(c.lexer_stack)
  PROVE  LET d == [c EXCEPT !.lexer_stack = SubSeq(@, 1, m)] IN
         /\ Good(d)
         /\ Len(d.lexer_stack) = m
         /\ \A i \in 1..m : d.lexer_stack[i] = c.lexer_stack[i]
         /\ NumRows(d) = c.lexer_stack[m].row_idx
         /\ NumRows(d) <= NumRows(c)
         /\ d.rows = c.rows /\ d.row_infos = c.row_infos
<1> DEFINE s == c.lexer_stack
           t == SubSeq(s, 1, m)
           d == [c EXCEPT !.lexer_stack = t]
<1>1. /\ s \in Seq(LexerState) /\ Len(s) \in Nat \ {0}
      /\ NumRows(c) = s[Len(s)].row_idx /\ NumRows(c) \in Nat
      /\ c \in ParserChart
  BY TopFacts DEF Good, ParserChart
<1>2. \A i \in 1..m : s[i] \in LexerState
  BY <1>1, ElementOfSeq
<1>3. /\ t \in Seq(LexerState) /\ Len(t) = m /\ \A i \in 1..m : t[i] = s[i]
  BY <1>1, <1>2, SubSeqProperties
<1> HIDE DEF t
<1>4. /\ d \in ParserChart /\ d.lexer_stack = t /\ d.rows = c.rows
      /\ d.row_infos = c.row_infos /\ d.rows_valid_end = c.rows_valid_end
  BY <1>1, <1>3 DEF ParserChart
<1> HIDE DEF d
<1>5. s[m].row_idx <= NumRows(c) /\ s[m].row_idx \in Nat
  BY <1>1, <1>2 DEF Good, LexerState
<1>6. t # <<>>
  BY <1>1, <1>3, EmptySeq
<1>7. \A i, j \in 1..m : i <= j => t[i].row_idx <= t[j].row_idx
  BY <1>1, <1>3 DEF Good
<1>8. t[m].row_idx <= c.rows_valid_end
  BY <1>1, <1>3, <1>5 DEF Good, ParserChart
<1>9. Good(d)
  BY <1>1, <1>3, <1>4, <1>6, <1>7, <1>8 DEF Good
<1>10. NumRows(d) = t[m].row_idx
  BY <1>3, <1>4, <1>9, TopFacts
<1> QED BY <1>1, <1>3, <1>4, <1>5, <1>9, <1>10 DEF d, t

(* Giving up the rows that are not in use.                                  *)
LEMMA SpeculativeFacts ==
  ASSUME NEW c, Good(c)
  PROVE  LET d == Speculative(c) IN
         /\ Good(d)
         /\ d.lexer_stack = c.lexer_stack /\ d.row_infos = c.row_infos
         /\ \A k \in 1..NumRows(c) : d.rows[k] = c.rows[k]
<1> DEFINE n == NumRows(c)
           rows == SubSeq(c.rows, 1, n)
           d == Speculative(c)
<1>1. /\ n \in Nat \ {0} /\ n <= Len(c.rows) /\ c.rows \in Seq(Row)
      /\ n = c.lexer_stack[Len(c.lexer_stack)].row_idx
      /\ c \in ParserChart
  BY TopFacts DEF Good, ParserChart
<1>2. \A i \in 1..n : c.rows[i] \in Row
  BY <1>1, ElementOfSeq
<1>3. rows \in Seq(Row) /\ Len(rows) = n /\ \A k \in 1..n : rows[k] = c.rows[k]
  BY <1>1, <1>2, SubSeqProperties
<1>4. d = [c EXCEPT !.rows_valid_end = n, !.rows = rows]
  BY DEF Speculative
<1> HIDE DEF rows, n, d
<1>5. /\ d \in ParserChart /\ d.lexer_stack = c.lexer_stack
      /\ d.row_infos = c.row_infos /\ d.rows = rows /\ d.rows_valid_end = n
  BY <1>1, <1>3, <1>4 DEF ParserChart
<1> QED BY <1>1, <1>3, <1>5 DEF Good, d, n

(* Setting a limit changes nothing else.                                    *)
LEMMA BudgetFacts ==
  ASSUME NEW c, Good(c), NEW b \in Nat \cup {Unlimited}
  PROVE  LET d == [c EXCEPT !.budget = b] IN
         /\ Good(d)
         /\ d.lexer_stack = c.lexer_stack /\ d.rows = c.rows
         /\ d.row_infos = c.row_infos /\ d.rows_valid_end = c.rows_valid_end
BY DEF Good, ParserChart

(* The chart of new().                                                      *)
LEMMA InitialChartFacts ==
  /\ Good(NewChart)
  /\ Len(NewChart.lexer_stack) = 1
  /\ NewChart.lexer_stack[1].row_idx = 1
  /\ Len(NewChart.row_infos) = 1
<1>1. InitialItems \in SUBSET Item
  BY DEF InitialItems, ProcessAgenda
<1>2. AllowedLexemes(InitialItems) \in SUBSET Lexeme
  BY ChartAssumption DEF AllowedLexemes
<1>3. InitialState(AllowedLexemes(InitialItems)) \in StateID
  BY <1>2, InitialStateType
<1>4. RowStartState(InitialItems) \in StateID
  BY <1>2, InitialStateType, ChartAssumption DEF RowStartState, WithSkipLexeme
<1>5. [match |-> "greedy", state |-> DEAD] \in MatchingLexemesIdx
  BY DEF MatchingLexemesIdx, StateID, DEAD
<1>6. InitialRow \in Row
  BY <1>1, <1>3, <1>4, <1>5 DEF InitialRow, EarleyRow, Row
<1>7. Entry(1, InitialRow.lexer_start_state, NoByte) \in LexerState
  BY <1>6 DEF Entry, LexerState, Row
<1> DEFINE e == Entry(1, InitialRow.lexer_start_state, NoByte)
<1>8. e.row_idx = 1
  BY DEF Entry
<1> HIDE DEF e
<1>9. NewChart = [lexer_stack |-> <<e>>, rows |-> <<InitialRow>>, rows_valid_end |-> 1,
                  row_infos |-> <<0>>, budget |-> Unlimited]
  BY DEF NewChart, e
<1>10. NewChart \in ParserChart
  BY <1>6, <1>7, <1>9 DEF ParserChart, e
<1> QED BY <1>8, <1>9, <1>10 DEF Good

(* Stacks that agree up to m have the same first m entries.                 *)
LEMMA SamePrefix ==
  ASSUME NEW s \in Seq(LexerState), NEW t \in Seq(LexerState),
         NEW m \in Nat, m <= Len(s), m <= Len(t), \A i \in 1..m : t[i] = s[i]
  PROVE  SubSeq(t, 1, m) = SubSeq(s, 1, m)
<1> DEFINE u == SubSeq(s, 1, m)
           v == SubSeq(t, 1, m)
<1>1. (\A i \in 1..m : s[i] \in LexerState) /\ (\A i \in 1..m : t[i] \in LexerState)
  BY ElementOfSeq
<1>2. u \in Seq(LexerState) /\ Len(u) = m /\ \A i \in 1..m : u[i] = s[i]
  BY <1>1, SubSeqProperties
<1>3. v \in Seq(LexerState) /\ Len(v) = m /\ \A i \in 1..m : v[i] = t[i]
  BY <1>1, SubSeqProperties
<1> HIDE DEF u, v
<1>4. v = u
  BY <1>2, <1>3, SeqEqual
<1> QED BY <1>4 DEF u, v

(* The part of a chart that decides what it accepts.                        *)
SameRows(c, d, n) == \A k \in 1..n : c.rows[k] = d.rows[k]

Alike(c, d) ==
  /\ NumRows(c) = NumRows(d)
  /\ Top(c).lexer_state = Top(d).lexer_state
  /\ SameRows(c, d, NumRows(c))

(* The rows that may be re-used hold what a scan computes, and are not empty. *)
Below(c, k) == [c EXCEPT !.lexer_stack = <<Entry(k, DEAD, NoByte)>>]

Coherent(c) ==
  \A k \in 2..c.rows_valid_end :
    /\ c.rows[k].items # {}
    /\ ScannedRow(Below(c, k - 1), c.rows[k].lexeme_idx) = c.rows[k]

(* The chart cut below row k + 1 has the same physical rows.                *)
LEMMA BelowFacts ==
  ASSUME NEW c \in ParserChart, NEW k
  PROVE  NumRows(Below(c, k)) = k /\ Below(c, k).rows = c.rows
<1> DEFINE s == <<Entry(k, DEAD, NoByte)>>
<1>1. Below(c, k).lexer_stack = s /\ Below(c, k).rows = c.rows
  BY DEF Below, ParserChart
<1>2. Last(s).row_idx = k
  BY DEF Last, Entry
<1> QED BY <1>1, <1>2 DEF NumRows, Top

(* A scan looks at the rows in use only.                                    *)
LEMMA ScannedRowLocal ==
  ASSUME NEW c, NEW d, NEW idx, NumRows(c) = NumRows(d), NumRows(c) \in Nat \ {0},
         SameRows(c, d, NumRows(c))
  PROVE  ScannedRow(c, idx) = ScannedRow(d, idx)
<1> DEFINE n == NumRows(c)
           f == [k \in 1..n |-> c.rows[k].items]
           g == [k \in 1..n |-> d.rows[k].items]
<1>1. f = g
  BY DEF SameRows
<1>2. CurrRow(c) = CurrRow(d)
  BY DEF CurrRow, SameRows
<1>3. [k \in 1..NumRows(d) |-> d.rows[k].items] = g
  OBVIOUS
<1> HIDE DEF f, g
<1>4. ScanItems([k \in 1..NumRows(d) |-> d.rows[k].items], LexemesFromIdx(idx))
        = ScanItems(f, LexemesFromIdx(idx))
  BY <1>1, <1>3
<1> QED BY <1>2, <1>4, Zenon DEF ScannedRow, f

(* Rows that stay as they were, and no more of them valid, stay coherent.   *)
LEMMA CoherentKept ==
  ASSUME NEW c \in ParserChart, NEW d \in ParserChart, Coherent(c),
         d.rows_valid_end <= c.rows_valid_end, SameRows(c, d, d.rows_valid_end)
  PROVE  Coherent(d)
<1> SUFFICES ASSUME NEW k \in 2..d.rows_valid_end
             PROVE  /\ d.rows[k].items # {}
                    /\ ScannedRow(Below(d, k - 1), d.rows[k].lexeme_idx) = d.rows[k]
  BY DEF Coherent
<1>1. c.rows_valid_end \in Nat /\ d.rows_valid_end \in Nat
  BY DEF ParserChart
<1>2. k \in 2..c.rows_valid_end /\ d.rows[k] = c.rows[k]
  BY <1>1 DEF SameRows
<1>3. \A i \in 1..(k - 1) : c.rows[i] = d.rows[i]
  BY <1>1 DEF SameRows
<1>4. ScannedRow(Below(d, k - 1), d.rows[k].lexeme_idx)
        = ScannedRow(Below(c, k - 1), d.rows[k].lexeme_idx)
  <2>1. /\ NumRows(Below(d, k - 1)) = k - 1 /\ Below(d, k - 1).rows = d.rows
        /\ NumRows(Below(c, k - 1)) = k - 1 /\ Below(c, k - 1).rows = c.rows
    BY BelowFacts
  <2>2. SameRows(Below(d, k - 1), Below(c, k - 1), k - 1)
    BY <1>3, <2>1 DEF SameRows
  <2>3. k - 1 \in Nat \ {0}
    OBVIOUS
  <2> QED BY <2>1, <2>2, <2>3, ScannedRowLocal
<1> QED BY <1>2, <1>4 DEF Coherent

(* A new row is coherent with those below it.                               *)
LEMMA JustPushRowCoherent ==
  ASSUME NEW c, Good(c), Coherent(c), NEW def \in BOOLEAN, Defined(c, def),
         NEW idx \in MatchingLexemesIdx, NEW nbytes \in Nat, c.budget # 0,
         ScannedRow(c, idx).items # {}
  PROVE  LET d == JustPushRow(c, ScannedRow(c, idx), def, nbytes) IN
         /\ d.rows[NumRows(c) + 1] = ScannedRow(c, idx)
         /\ Coherent(d)
         /\ c.budget = Unlimited => d.budget = Unlimited
<1> DEFINE row == ScannedRow(c, idx)
           d == JustPushRow(c, row, def, nbytes)
           n == NumRows(c)
<1>1. row \in Row
  BY ScannedRowType
<1>2. row.lexeme_idx = idx
  BY DEF ScannedRow, SkippedRow, ParsedRow, EarleyRow
<1> HIDE DEF row
<1>3. /\ d \in ParserChart /\ d.lexer_stack = c.lexer_stack
      /\ d.rows_valid_end = n + 1 /\ Keeps(c, d, def)
  BY <1>1, JustPushRowFacts
<1>4. /\ n \in Nat \ {0} /\ n <= Len(c.rows) /\ c.rows \in Seq(Row) /\ c \in ParserChart
      /\ n = c.lexer_stack[Len(c.lexer_stack)].row_idx
      /\ n <= c.rows_valid_end /\ c.rows_valid_end \in Nat
  BY TopFacts DEF Good, ParserChart
<1>5. /\ d.rows = IF n + 1 > Len(c.rows) THEN Append(c.rows, row) ELSE [c.rows EXCEPT ![n + 1] = row]
      /\ c.budget = Unlimited => d.budget = Unlimited
  BY <1>4 DEF JustPushRow, ParserChart
<1> HIDE DEF d
<1>6. d.rows[n + 1] = row
  <2>1. CASE n + 1 > Len(c.rows)
    BY <1>1, <1>4, <1>5, <2>1, AppendProperties
  <2>2. CASE n + 1 <= Len(c.rows)
    BY <1>1, <1>4, <1>5, <2>2, ExceptSeq
  <2> QED BY <1>4, <2>1, <2>2
<1>7. SameRows(c, d, n)
  BY <1>3, <1>4 DEF Keeps, SameRows
<1>8. ASSUME NEW k \in 2..(n + 1)
      PROVE  /\ d.rows[k].items # {}
             /\ ScannedRow(Below(d, k - 1), d.rows[k].lexeme_idx) = d.rows[k]
  <2>1. /\ NumRows(Below(d, k - 1)) = k - 1 /\ Below(d, k - 1).rows = d.rows
        /\ NumRows(Below(c, k - 1)) = k - 1 /\ Below(c, k - 1).rows = c.rows
    BY <1>3, <1>4, BelowFacts
  <2>2. k - 1 \in Nat \ {0} /\ k - 1 <= n
    BY <1>4
  <2>3. CASE k = n + 1
    <3>1. NumRows(Below(d, k - 1)) = NumRows(c) /\ SameRows(c, Below(d, k - 1), n)
      BY <1>4, <1>7, <2>1, <2>3 DEF SameRows
    <3>2. ScannedRow(Below(d, k - 1), idx) = row
      BY <1>4, <3>1, ScannedRowLocal DEF row
    <3> QED BY <1>2, <1>6, <2>3, <3>2 DEF row
  <2>4. CASE k # n + 1
    <3>1. k \in 2..c.rows_valid_end /\ d.rows[k] = c.rows[k]
      BY <1>4, <1>7, <2>4 DEF SameRows
    <3>2. SameRows(Below(d, k - 1), Below(c, k - 1), k - 1)
      BY <1>4, <1>7, <2>1, <2>2 DEF SameRows
    <3>3. ScannedRow(Below(d, k - 1), d.rows[k].lexeme_idx)
            = ScannedRow(Below(c, k - 1), d.rows[k].lexeme_idx)
      BY <2>1, <2>2, <3>2, ScannedRowLocal
    <3> QED BY <3>1, <3>3 DEF Coherent
  <2> QED BY <2>3, <2>4
<1>9. Coherent(d)
  BY <1>3, <1>8 DEF Coherent
<1> QED BY <1>5, <1>6, <1>9 DEF d, row

-----------------------------------------------------------------------------
(* What an operation on a chart keeps: the coherence of the rows, and the   *)
(* absence of an item limit.                                                *)
Sound(c, r) ==
  /\ Coherent(r.chart)
  /\ c.budget = Unlimited => r.chart.budget = Unlimited

(* Two charts that are alike fare alike, unless one runs out of items: the  *)
(* same entry is pushed, and the rows under it are the same.                *)
FareAlike(c, r, d, q) ==
  /\ r.ok /\ ~q.ok => q.chart.budget = 0
  /\ r.ok /\ q.ok =>
       \E e \in LexerState :
         /\ r.chart.lexer_stack = Append(c.lexer_stack, e)
         /\ q.chart.lexer_stack = Append(d.lexer_stack, e)
         /\ SameRows(r.chart, q.chart, e.row_idx)

(* add_row succeeds when there are items left and the scan finds some, and  *)
(* leaves the scanned row above the current one, re-used or not.            *)
LEMMA AddRowScans ==
  ASSUME NEW c, Good(c), Coherent(c), NEW def \in BOOLEAN, Defined(c, def),
         NEW idx \in MatchingLexemesIdx, NEW nbytes \in Nat
  PROVE  LET r == AddRow(c, idx, def, nbytes) IN
         /\ r.ok <=> c.budget # 0 /\ ScannedRow(c, idx).items # {}
         /\ r.ok => r.chart.rows[NumRows(c) + 1] = ScannedRow(c, idx)
         /\ ~r.ok => r.chart = c
         /\ Sound(c, r)
<1> DEFINE row == ScannedRow(c, idx)
           n == NumRows(c)
           r == AddRow(c, idx, def, nbytes)
<1>1. /\ n \in Nat \ {0} /\ c \in ParserChart /\ c.rows_valid_end \in Nat
  BY TopFacts DEF Good, ParserChart
<1>2. CASE c.budget = 0
  <2>1. r = Fail(c)
    BY <1>2 DEF AddRow
  <2> QED BY <1>2, <2>1 DEF Fail, Sound
<1>3. CASE c.budget # 0 /\ CanReuseRow(c, idx, def)
  <2>1. r = Ok(c)
    BY <1>3 DEF AddRow
  <2>2. /\ n + 1 \in 2..c.rows_valid_end /\ c.rows[n + 1].lexeme_idx = idx
    BY <1>1, <1>3 DEF CanReuseRow
  <2>3. /\ c.rows[n + 1].items # {}
        /\ ScannedRow(Below(c, (n + 1) - 1), idx) = c.rows[n + 1]
    BY <2>2 DEF Coherent
  <2>4. NumRows(Below(c, n)) = n /\ Below(c, n).rows = c.rows
    BY <1>1, BelowFacts
  <2>5. ScannedRow(Below(c, n), idx) = row
    BY <1>1, <2>4, ScannedRowLocal DEF SameRows
  <2>6. (n + 1) - 1 = n
    BY <1>1
  <2> HIDE DEF n, row
  <2>7. c.rows[n + 1] = row /\ row.items # {}
    BY <2>3, <2>5, <2>6
  <2> HIDE DEF r
  <2> QED BY <1>3, <2>1, <2>7 DEF Ok, Sound, r, n, row
<1>4. CASE c.budget # 0 /\ ~CanReuseRow(c, idx, def) /\ row.items = {}
  <2>1. r = Fail(c)
    BY <1>4 DEF AddRow, PushRow
  <2> QED BY <1>4, <2>1 DEF Fail, Sound
<1>5. CASE c.budget # 0 /\ ~CanReuseRow(c, idx, def) /\ row.items # {}
  <2> DEFINE d == JustPushRow(c, row, def, nbytes)
  <2>1. r = Ok(d)
    BY <1>5 DEF AddRow, PushRow
  <2>2. /\ d.rows[n + 1] = row /\ Coherent(d)
        /\ c.budget = Unlimited => d.budget = Unlimited
    BY <1>5, JustPushRowCoherent
  <2> HIDE DEF d, r
  <2>3. r.ok /\ r.chart = d
    BY <2>1 DEF Ok
  <2> QED BY <1>5, <2>2, <2>3 DEF Sound, r
<1> QED BY <1>2, <1>3, <1>4, <1>5

(* No limit is not a limit of no rows.                                      *)
LEMMA UnlimitedIsNotZero == Unlimited # 0
BY ChartAssumption

(* The rows up to a new one are those in use before and the new one.        *)
LEMMA AddRowAlike ==
  ASSUME NEW c, Good(c), Coherent(c), NEW def \in BOOLEAN, Defined(c, def), NEW n \in Nat,
         NEW d, Good(d), Coherent(d), NEW def2 \in BOOLEAN, Defined(d, def2), NEW n2 \in Nat,
         Alike(c, d), NEW idx \in MatchingLexemesIdx
  PROVE  LET r == AddRow(c, idx, def, n)
             q == AddRow(d, idx, def2, n2)
         IN  /\ r.ok /\ ~q.ok => q.chart.budget = 0 /\ d.budget = 0
             /\ r.ok /\ q.ok => SameRows(r.chart, q.chart, NumRows(c) + 1)
<1> DEFINE r == AddRow(c, idx, def, n)
           q == AddRow(d, idx, def2, n2)
           m == NumRows(c)
<1>1. /\ m \in Nat \ {0} /\ m = NumRows(d) /\ SameRows(c, d, m)
      /\ m = c.lexer_stack[Len(c.lexer_stack)].row_idx
      /\ m = d.lexer_stack[Len(d.lexer_stack)].row_idx
  BY TopFacts DEF Alike
<1>2. ScannedRow(c, idx) = ScannedRow(d, idx)
  BY <1>1, ScannedRowLocal
<1>3. /\ r.ok <=> c.budget # 0 /\ ScannedRow(c, idx).items # {}
      /\ r.ok => r.chart.rows[m + 1] = ScannedRow(c, idx)
  BY AddRowScans
<1>4. /\ q.ok <=> d.budget # 0 /\ ScannedRow(d, idx).items # {}
      /\ q.ok => q.chart.rows[NumRows(d) + 1] = ScannedRow(d, idx)
      /\ ~q.ok => q.chart = d
  BY AddRowScans
<1>5. RowAdded(c, r, def) /\ RowAdded(d, q, def2)
  BY AddRowFacts
<1> HIDE DEF r, q
<1>6. (\A k \in 1..m : r.chart.rows[k] = c.rows[k]) /\ (\A k \in 1..m : q.chart.rows[k] = d.rows[k])
  BY <1>1, <1>5 DEF RowAdded, Keeps
<1> HIDE DEF m
<1>7. ASSUME r.ok, q.ok, NEW k \in 1..(m + 1)
      PROVE  r.chart.rows[k] = q.chart.rows[k]
  <2>1. CASE k = m + 1
    BY <1>1, <1>2, <1>3, <1>4, <1>7, <2>1
  <2>2. CASE k # m + 1
    <3>1. k \in 1..m
      BY <1>1, <2>2
    <3> QED BY <1>1, <1>6, <3>1 DEF SameRows
  <2> QED BY <2>1, <2>2
<1> QED BY <1>2, <1>3, <1>4, <1>7 DEF SameRows, r, q, m

(* AddedEntry: what the new entry is decided by.                            *)
LEMMA AddedEntryAlike ==
  ASSUME NEW c, NEW d, NumRows(c) = NumRows(d), NumRows(c) \in Nat,
         SameRows(c, d, NumRows(c) + 1), NEW b
  PROVE  AddedEntry(c, b) = AddedEntry(d, b)
<1>1. c.rows[NumRows(c) + 1] = d.rows[NumRows(d) + 1]
  BY DEF SameRows
<1> QED BY <1>1 DEF AddedEntry

-----------------------------------------------------------------------------
(* advance_parser().                                                        *)
LEMMA PushLexerStateFacts ==
  ASSUME NEW c \in ParserChart, NEW e
  PROVE  LET p == PushLexerState(c, e) IN
         /\ p.lexer_stack = Append(c.lexer_stack, e)
         /\ p.rows = c.rows /\ p.budget = c.budget /\ p.row_infos = c.row_infos
         /\ p.rows_valid_end = c.rows_valid_end
BY DEF PushLexerState, ParserChart

(* AdvanceWithin leaves the valid rows coherent.                            *)
LEMMA AdvanceWithinSound ==
  ASSUME NEW c, Good(c), Coherent(c), NEW def \in BOOLEAN, Defined(c, def), NEW n \in Nat,
         NEW pre \in PreLexemes
  PROVE  Sound(c, AdvanceWithin(c, pre, def, n))
<1> DEFINE added == AddRow(c, pre.idx, def, n)
           r == AdvanceWithin(c, pre, def, n)
           e == AddedEntry(added.chart, NoByte)
           p == PushLexerState(added.chart, e)
<1>1. pre.idx \in MatchingLexemesIdx
  BY DEF PreLexemes
<1>2. Sound(c, added) /\ RowAdded(c, added, def)
  BY <1>1, AddRowScans, AddRowFacts
<1>3. CASE ~added.ok
  BY <1>2, <1>3 DEF AdvanceWithin, StartAfresh
<1>4. CASE added.ok
  <2>1. r = Ok(p)
    BY <1>4 DEF AdvanceWithin, StartAfresh
  <2>2. added.chart \in ParserChart
    BY <1>2 DEF RowAdded
  <2>3. e \in LexerState /\ NumRows(c) <= e.row_idx
        /\ e.row_idx <= added.chart.rows_valid_end
        /\ added.chart.rows_valid_end <= Len(added.chart.rows)
    <3>1. e \in LexerState /\ e.row_idx = NumRows(c) + 1
      BY <1>2, <1>4, AddedEntryFacts
    <3> HIDE DEF e
    <3> QED BY <1>2, <1>4, <3>1, TopFacts DEF RowAdded
  <2>4. added.chart.lexer_stack = c.lexer_stack
    BY <1>2 DEF RowAdded
  <2> HIDE DEF added, e
  <2>5. Good(p)
    BY <2>2, <2>3, <2>4, PushFacts
  <2>6. p.rows = added.chart.rows /\ p.rows_valid_end = added.chart.rows_valid_end
        /\ p.budget = added.chart.budget
    BY <2>2, PushLexerStateFacts
  <2> HIDE DEF p
  <2>7. p \in ParserChart /\ added.chart.rows_valid_end \in Nat
    BY <2>2, <2>5 DEF Good, ParserChart
  <2>8. Coherent(p)
    BY <1>2, <2>2, <2>6, <2>7, CoherentKept DEF Sound, SameRows
  <2> QED BY <1>2, <2>1, <2>6, <2>8 DEF Sound, Ok
<1> QED BY <1>3, <1>4

(* AdvanceWithin fares alike on charts that look alike.                     *)
LEMMA AdvanceWithinAlike ==
  ASSUME NEW c, Good(c), Coherent(c), NEW def \in BOOLEAN, Defined(c, def), NEW n \in Nat,
         NEW d, Good(d), Coherent(d), NEW def2 \in BOOLEAN, Defined(d, def2), NEW n2 \in Nat,
         Alike(c, d), NEW pre \in PreLexemes
  PROVE  FareAlike(c, AdvanceWithin(c, pre, def, n), d, AdvanceWithin(d, pre, def2, n2))
<1> DEFINE a == AddRow(c, pre.idx, def, n)
           b == AddRow(d, pre.idx, def2, n2)
           r == AdvanceWithin(c, pre, def, n)
           q == AdvanceWithin(d, pre, def2, n2)
           e == AddedEntry(a.chart, NoByte)
           f == AddedEntry(b.chart, NoByte)
<1>1. pre.idx \in MatchingLexemesIdx
  BY DEF PreLexemes
<1>2. /\ a.ok /\ ~b.ok => b.chart.budget = 0
      /\ a.ok /\ b.ok => SameRows(a.chart, b.chart, NumRows(c) + 1)
  BY <1>1, AddRowAlike
<1>3. RowAdded(c, a, def) /\ RowAdded(d, b, def2)
  BY <1>1, AddRowFacts
<1>4. NumRows(c) \in Nat /\ NumRows(d) = NumRows(c)
  BY TopFacts DEF Alike
<1>5. CASE ~a.ok
  <2>1. ~r.ok
    BY <1>5 DEF AdvanceWithin, StartAfresh
  <2> QED BY <2>1 DEF FareAlike
<1>6. CASE a.ok /\ ~b.ok
  <2>1. r.ok /\ q = b
    BY <1>6 DEF AdvanceWithin, StartAfresh, Ok
  <2> QED BY <1>2, <1>6, <2>1 DEF FareAlike
<1>7. CASE a.ok /\ b.ok
  <2>1. r = Ok(PushLexerState(a.chart, e)) /\ q = Ok(PushLexerState(b.chart, f))
    BY <1>7 DEF AdvanceWithin, StartAfresh
  <2>2. e \in LexerState /\ e.row_idx = NumRows(c) + 1
    BY <1>3, <1>7, AddedEntryFacts
  <2>3. /\ a.chart \in ParserChart /\ a.chart.lexer_stack = c.lexer_stack
        /\ b.chart \in ParserChart /\ b.chart.lexer_stack = d.lexer_stack
    BY <1>3 DEF RowAdded
  <2>4. NumRows(a.chart) = NumRows(c) /\ NumRows(b.chart) = NumRows(c)
    BY <1>4, <2>3 DEF NumRows, Top
  <2>5. e = f
    BY <1>2, <1>4, <1>7, <2>4, AddedEntryAlike
  <2> HIDE DEF a, b, e, f
  <2>6. /\ r.chart.lexer_stack = Append(c.lexer_stack, e) /\ r.chart.rows = a.chart.rows
        /\ q.chart.lexer_stack = Append(d.lexer_stack, e) /\ q.chart.rows = b.chart.rows
        /\ r.ok /\ q.ok
    <3>1. r.chart = PushLexerState(a.chart, e) /\ q.chart = PushLexerState(b.chart, e)
          /\ r.ok /\ q.ok
      BY <2>1, <2>5 DEF Ok
    <3> HIDE DEF r, q
    <3>2. r.chart.lexer_stack = Append(c.lexer_stack, e) /\ r.chart.rows = a.chart.rows
      BY <2>3, <3>1, PushLexerStateFacts
    <3>3. q.chart.lexer_stack = Append(d.lexer_stack, e) /\ q.chart.rows = b.chart.rows
      BY <2>3, <3>1, PushLexerStateFacts
    <3> QED BY <3>1, <3>2, <3>3
  <2> HIDE DEF r, q
  <2>7. SameRows(r.chart, q.chart, e.row_idx)
    BY <1>2, <1>7, <2>2, <2>6 DEF SameRows
  <2> QED BY <2>2, <2>6, <2>7 DEF FareAlike, r, q
<1> QED BY <1>5, <1>6, <1>7, <1>3 DEF RowAdded

(* The transition byte does not change the rows or the budget.              *)
LEMMA CorrectRowStartKeeps ==
  ASSUME NEW c \in ParserChart, NEW b, NEW def
  PROVE  LET f == CorrectRowStart(c, b, def) IN
         f.rows = c.rows /\ f.rows_valid_end = c.rows_valid_end /\ f.budget = c.budget
BY DEF CorrectRowStart, ParserChart

(* The chart on which the lexeme of a single byte is recognised: c with the *)
(* intermediate row and its entry.                                          *)
FixedChart(c, pre, def, n) == CorrectRowStart(AddRow(c, pre.idx, def, n).chart, pre.byte, def)

NextEntry(c, pre, def, n) == AddedEntry(AddRow(c, pre.idx, def, n).chart, pre.byte)

FirstChart(c, pre, def, n) ==
  PushLexerState(FixedChart(c, pre, def, n), [NextEntry(c, pre, def, n) EXCEPT !.byte = NoByte])

SecondLexeme(c, pre, def, n) == SingleBytePreLexeme(NextEntry(c, pre, def, n).lexer_state, pre.byte)

InnerResult(c, pre, def, n) ==
  AdvanceWithin(FirstChart(c, pre, def, n), SecondLexeme(c, pre, def, n), def, n)

(* How AdvanceAcross ends: no row, a row given up, one row, or two.         *)
LEMMA AcrossCases ==
  ASSUME NEW c, NEW pre, NEW def, NEW n
  PROVE  LET r == AdvanceAcross(c, pre, def, n)
             added == AddRow(c, pre.idx, def, n)
             entry == NextEntry(c, pre, def, n)
             inner == InnerResult(c, pre, def, n)
         IN  /\ ~added.ok => r = added
             /\ added.ok /\ entry.lexer_state = DEAD
                  => r = GiveUpRow(FixedChart(c, pre, def, n), entry.row_idx, def)
             /\ added.ok /\ entry.lexer_state # DEAD /\ ~SingleByteLexeme(entry.lexer_state)
                  => r = Ok(PushLexerState(FixedChart(c, pre, def, n), entry))
             /\ added.ok /\ entry.lexer_state # DEAD /\ SingleByteLexeme(entry.lexer_state)
                  => r = EndSingleByte(c, inner)
BY Zenon DEF AdvanceAcross, AdvanceAdded, BeginNext, NextEntry, InnerResult, FixedChart,
             FirstChart, SecondLexeme

(* The chart, the entry and the row AdvanceAcross works with.               *)
LEMMA AcrossParts ==
  ASSUME NEW c, Good(c), Coherent(c), NEW def \in BOOLEAN, Defined(c, def),
         NEW pre \in PreLexemes, pre.byte \in Byte, NEW n \in Nat,
         AddRow(c, pre.idx, def, n).ok
  PROVE  LET added == AddRow(c, pre.idx, def, n)
             entry == NextEntry(c, pre, def, n)
             fixed == FixedChart(c, pre, def, n)
             first == FirstChart(c, pre, def, n)
         IN  /\ entry \in LexerState /\ entry.row_idx = NumRows(c) + 1
             /\ fixed \in ParserChart /\ fixed.lexer_stack = c.lexer_stack
             /\ fixed.rows = added.chart.rows /\ Coherent(fixed)
             /\ NumRows(c) + 1 <= fixed.rows_valid_end /\ fixed.rows_valid_end <= Len(fixed.rows)
             /\ def => Len(fixed.row_infos) = NumRows(c) + 1
             /\ c.budget = Unlimited => fixed.budget = Unlimited
             /\ Good(first) /\ Coherent(first) /\ Defined(first, def)
             /\ first.lexer_stack = Append(c.lexer_stack, [entry EXCEPT !.byte = NoByte])
             /\ Top(first).lexer_state = entry.lexer_state
             /\ NumRows(first) = NumRows(c) + 1
             /\ first.rows = fixed.rows /\ first.row_infos = fixed.row_infos
             /\ c.budget = Unlimited => first.budget = Unlimited
             /\ SecondLexeme(c, pre, def, n) \in PreLexemes
<1> DEFINE added == AddRow(c, pre.idx, def, n)
           entry == NextEntry(c, pre, def, n)
           entry0 == [entry EXCEPT !.byte = NoByte]
           fixed == FixedChart(c, pre, def, n)
           first == FirstChart(c, pre, def, n)
           second == SecondLexeme(c, pre, def, n)
           m == NumRows(c)
<1>1. pre.idx \in MatchingLexemesIdx /\ m \in Nat \ {0}
  BY TopFacts DEF PreLexemes
<1>2. RowAdded(c, added, def) /\ Sound(c, added)
  BY <1>1, AddRowFacts, AddRowScans
<1>3. added.chart \in ParserChart
  BY <1>2 DEF RowAdded
<1>4. entry \in LexerState /\ entry.row_idx = m + 1
  <2>1. pre.byte \in Byte \cup {NoByte}
    OBVIOUS
  <2> QED BY <1>2, <2>1, AddedEntryFacts DEF NextEntry
<1>5. /\ fixed \in ParserChart /\ fixed.lexer_stack = c.lexer_stack
      /\ fixed.rows = added.chart.rows /\ fixed.rows_valid_end = added.chart.rows_valid_end
      /\ def => Len(fixed.row_infos) = m + 1
  BY <1>2, CorrectRowStartFacts DEF FixedChart
<1>6. fixed.budget = added.chart.budget
  BY <1>3, CorrectRowStartKeeps DEF FixedChart
<1>7. /\ m + 1 <= fixed.rows_valid_end /\ fixed.rows_valid_end <= Len(fixed.rows)
      /\ fixed.rows_valid_end \in Nat
  BY <1>2, <1>5 DEF RowAdded, ParserChart
<1>8. first = PushLexerState(fixed, entry0)
  BY DEF FirstChart
<1>9. second \in PreLexemes
  <2>1. second = SingleBytePreLexeme(entry.lexer_state, pre.byte) /\ entry.lexer_state \in StateID
    BY <1>4 DEF SecondLexeme, LexerState
  <2> HIDE DEF second, entry
  <2> QED BY <2>1 DEF SingleBytePreLexeme, PreLexeme, PreLexemes, MatchingLexemesIdx
<1> HIDE DEF added, entry, fixed, first, second, m
<1>10. Coherent(fixed)
  BY <1>2, <1>3, <1>5, <1>7, CoherentKept DEF Sound, SameRows
<1>11. /\ entry0 \in LexerState /\ entry0.row_idx = m + 1
       /\ entry0.lexer_state = entry.lexer_state
  BY <1>4 DEF LexerState
<1> HIDE DEF entry0
<1>12. /\ Good(first) /\ first.lexer_stack = Append(c.lexer_stack, entry0)
       /\ first.lexer_stack[Len(first.lexer_stack)] = entry0
       /\ first.rows = fixed.rows /\ first.row_infos = fixed.row_infos
  <2>1. NumRows(c) <= entry0.row_idx /\ entry0.row_idx <= fixed.rows_valid_end
    BY <1>1, <1>7, <1>11 DEF m
  <2> QED BY <1>5, <1>7, <1>8, <1>11, <2>1, PushFacts
<1>13. first.budget = fixed.budget /\ first.rows_valid_end = fixed.rows_valid_end
  BY <1>5, <1>8, PushLexerStateFacts
<1>14. Top(first) = entry0 /\ NumRows(first) = m + 1
  BY <1>11, <1>12, TopFacts
<1>15. Coherent(first)
  BY <1>5, <1>7, <1>10, <1>12, <1>13, CoherentKept DEF Good, SameRows
<1>16. Defined(first, def)
  BY <1>1, <1>5, <1>11, <1>12 DEF Defined
<1>17. c.budget = Unlimited => fixed.budget = Unlimited /\ first.budget = Unlimited
  BY <1>2, <1>6, <1>13 DEF Sound
<1>18. first.lexer_stack = Append(c.lexer_stack, [entry EXCEPT !.byte = NoByte])
  BY <1>12 DEF entry0
<1> QED BY <1>4, <1>5, <1>7, <1>9, <1>10, <1>11, <1>12, <1>14, <1>15, <1>16, <1>17, <1>18
        DEF added, entry, fixed, first, second, m

(* Only the rows count: a chart with the rows of a sound one is sound.      *)
LEMMA CoherentSame ==
  ASSUME NEW c \in ParserChart, NEW d \in ParserChart, Coherent(c),
         d.rows = c.rows, d.rows_valid_end = c.rows_valid_end
  PROVE  Coherent(d)
<1>1. c.rows_valid_end <= c.rows_valid_end
  BY DEF ParserChart
<1> QED BY <1>1, CoherentKept DEF SameRows

(* Giving up a row touches row_infos only.                                  *)
LEMMA GiveUpRowKeeps ==
  ASSUME NEW c \in ParserChart, NEW row, NEW def, NEW r, r = GiveUpRow(c, row, def)
  PROVE  /\ ~r.ok /\ r.chart.rows = c.rows /\ r.chart.lexer_stack = c.lexer_stack
         /\ r.chart.rows_valid_end = c.rows_valid_end /\ r.chart.budget = c.budget
BY DEF GiveUpRow, Fail, ParserChart

(* Replacing the two entries of a byte by one touches nothing else.         *)
LEMMA EndSingleByteKeeps ==
  ASSUME NEW c, NEW inner, inner.chart \in ParserChart, NEW r, r = EndSingleByte(c, inner)
  PROVE  /\ inner.ok => r.ok /\ r.chart.lexer_stack = Append(c.lexer_stack, Last(inner.chart.lexer_stack))
         /\ ~inner.ok => ~r.ok /\ r.chart.lexer_stack = c.lexer_stack
         /\ r.chart.rows = inner.chart.rows /\ r.chart.row_infos = inner.chart.row_infos
         /\ r.chart.rows_valid_end = inner.chart.rows_valid_end
         /\ r.chart.budget = inner.chart.budget
BY DEF EndSingleByte, Ok, Fail, ParserChart

(* AdvanceAcross leaves the valid rows coherent.                            *)
LEMMA AdvanceAcrossSound ==
  ASSUME NEW c, Good(c), Coherent(c), NEW def \in BOOLEAN, Defined(c, def), NEW n \in Nat,
         NEW pre \in PreLexemes, pre.byte \in Byte
  PROVE  Sound(c, AdvanceAcross(c, pre, def, n))
<1> DEFINE added == AddRow(c, pre.idx, def, n)
           r == AdvanceAcross(c, pre, def, n)
           fixed == FixedChart(c, pre, def, n)
           entry == NextEntry(c, pre, def, n)
           first == FirstChart(c, pre, def, n)
           inner == InnerResult(c, pre, def, n)
<1>1. r.chart \in ParserChart
  BY AdvanceAcrossFacts DEF Outcome, Good
<1>2. CASE ~added.ok
  <2>1. pre.idx \in MatchingLexemesIdx
    BY DEF PreLexemes
  <2> QED BY <1>2, <2>1, AddRowScans, AcrossCases
<1>3. CASE added.ok
  <2>1. /\ fixed \in ParserChart /\ Coherent(fixed)
        /\ c.budget = Unlimited => fixed.budget = Unlimited /\ first.budget = Unlimited
        /\ Good(first) /\ Coherent(first) /\ Defined(first, def)
        /\ SecondLexeme(c, pre, def, n) \in PreLexemes
    BY <1>3, AcrossParts
  <2>2. Sound(first, inner) /\ inner.chart \in ParserChart
    <3>1. Outcome(first, inner, def)
      BY <2>1, AdvanceWithinFacts DEF InnerResult
    <3> QED BY <2>1, <3>1, AdvanceWithinSound DEF InnerResult, Outcome, Good
  <2>3. \/ r = GiveUpRow(fixed, entry.row_idx, def)
        \/ r = Ok(PushLexerState(fixed, entry))
        \/ r = EndSingleByte(c, inner)
    BY <1>3, AcrossCases, ZenonT(60)
  <2> HIDE DEF r, fixed, first, inner, entry
  <2>4. CASE r = GiveUpRow(fixed, entry.row_idx, def)
    <3>1. /\ r.chart.rows = fixed.rows /\ r.chart.rows_valid_end = fixed.rows_valid_end
          /\ r.chart.budget = fixed.budget
      BY <2>1, <2>4, GiveUpRowKeeps
    <3> QED BY <1>1, <2>1, <3>1, CoherentSame DEF Sound, r
  <2>5. CASE r = Ok(PushLexerState(fixed, entry))
    <3>0. r.chart = PushLexerState(fixed, entry)
      BY <2>5 DEF Ok
    <3>1. /\ r.chart.rows = fixed.rows /\ r.chart.rows_valid_end = fixed.rows_valid_end
          /\ r.chart.budget = fixed.budget
      BY <2>1, <3>0, PushLexerStateFacts
    <3> QED BY <1>1, <2>1, <3>1, CoherentSame DEF Sound, r
  <2>6. CASE r = EndSingleByte(c, inner)
    <3>1. /\ r.chart.rows = inner.chart.rows /\ r.chart.rows_valid_end = inner.chart.rows_valid_end
          /\ r.chart.budget = inner.chart.budget
      BY <2>2, <2>6, EndSingleByteKeeps
    <3> QED BY <1>1, <2>1, <2>2, <3>1, CoherentSame DEF Sound, r
  <2> QED BY <2>3, <2>4, <2>5, <2>6
<1> QED BY <1>2, <1>3

(* AdvanceAcross fares alike on charts that look alike.                     *)
LEMMA AdvanceAcrossAlike ==
  ASSUME NEW c, Good(c), Coherent(c), NEW def \in BOOLEAN, Defined(c, def), NEW n \in Nat,
         NEW d, Good(d), Coherent(d), NEW def2 \in BOOLEAN, Defined(d, def2), NEW n2 \in Nat,
         Alike(c, d), NEW pre \in PreLexemes, pre.byte \in Byte
  PROVE  FareAlike(c, AdvanceAcross(c, pre, def, n), d, AdvanceAcross(d, pre, def2, n2))
<1> DEFINE a == AddRow(c, pre.idx, def, n)
           b == AddRow(d, pre.idx, def2, n2)
           r == AdvanceAcross(c, pre, def, n)
           q == AdvanceAcross(d, pre, def2, n2)
           e == NextEntry(c, pre, def, n)
           f == NextEntry(d, pre, def2, n2)
           fixedC == FixedChart(c, pre, def, n)
           fixedD == FixedChart(d, pre, def2, n2)
           firstC == FirstChart(c, pre, def, n)
           firstD == FirstChart(d, pre, def2, n2)
           innerC == InnerResult(c, pre, def, n)
           innerD == InnerResult(d, pre, def2, n2)
<1>1. pre.idx \in MatchingLexemesIdx
  BY DEF PreLexemes
<1>2. /\ a.ok /\ ~b.ok => b.chart.budget = 0
      /\ a.ok /\ b.ok => SameRows(a.chart, b.chart, NumRows(c) + 1)
  BY <1>1, AddRowAlike
<1>3. RowAdded(c, a, def) /\ RowAdded(d, b, def2)
  BY <1>1, AddRowFacts
<1>4. NumRows(c) \in Nat /\ NumRows(d) = NumRows(c)
  BY TopFacts DEF Alike
<1>5. CASE ~a.ok
  <2>1. r = a
    BY <1>5, AcrossCases
  <2> HIDE DEF r, q, a
  <2>2. ~r.ok
    BY <1>5, <2>1
  <2> QED BY <2>2 DEF FareAlike, r, q
<1>6. CASE a.ok /\ ~b.ok
  <2>1. q = b
    BY <1>6, AcrossCases
  <2> HIDE DEF r, q, b
  <2>2. ~q.ok /\ q.chart.budget = 0
    BY <1>2, <1>6, <2>1
  <2> QED BY <2>2 DEF FareAlike, r, q
<1>7. CASE a.ok /\ b.ok
  <2>1. e = f
    <3>1. NumRows(a.chart) = NumRows(c) /\ NumRows(b.chart) = NumRows(c)
      BY <1>3, <1>4 DEF RowAdded, NumRows, Top
    <3> QED BY <1>2, <1>4, <1>7, <3>1, AddedEntryAlike DEF NextEntry
  <2>2. /\ e \in LexerState /\ e.row_idx = NumRows(c) + 1
        /\ fixedC \in ParserChart /\ fixedC.lexer_stack = c.lexer_stack /\ fixedC.rows = a.chart.rows
        /\ Good(firstC) /\ Coherent(firstC) /\ Defined(firstC, def)
        /\ Top(firstC).lexer_state = e.lexer_state /\ NumRows(firstC) = NumRows(c) + 1
        /\ firstC.rows = fixedC.rows
        /\ SecondLexeme(c, pre, def, n) \in PreLexemes
        /\ firstC.lexer_stack = Append(c.lexer_stack, [e EXCEPT !.byte = NoByte])
    BY <1>7, AcrossParts
  <2>3. /\ fixedD \in ParserChart /\ fixedD.lexer_stack = d.lexer_stack /\ fixedD.rows = b.chart.rows
        /\ Good(firstD) /\ Coherent(firstD) /\ Defined(firstD, def2)
        /\ Top(firstD).lexer_state = f.lexer_state /\ NumRows(firstD) = NumRows(d) + 1
        /\ firstD.rows = fixedD.rows
        /\ firstD.lexer_stack = Append(d.lexer_stack, [f EXCEPT !.byte = NoByte])
    BY <1>7, AcrossParts
  <2>4. SecondLexeme(c, pre, def, n) = SecondLexeme(d, pre, def2, n2)
    BY <2>1 DEF SecondLexeme
  <2>5. SameRows(fixedC, fixedD, NumRows(c) + 1)
    BY <1>2, <1>7, <2>2, <2>3 DEF SameRows
  <2>6. Alike(firstC, firstD)
    BY <1>4, <2>1, <2>2, <2>3, <2>5 DEF Alike, SameRows
  <2>7. FareAlike(firstC, innerC, firstD, innerD)
    BY <2>2, <2>3, <2>4, <2>6, AdvanceWithinAlike DEF InnerResult
  <2>8. Outcome(firstC, innerC, def) /\ Outcome(firstD, innerD, def2)
    BY <2>2, <2>3, <2>4, AdvanceWithinFacts DEF InnerResult
  <2>9. CASE e.lexer_state = DEAD
    <3>1. r = GiveUpRow(fixedC, e.row_idx, def)
      BY <1>7, <2>9, AcrossCases
    <3>2. ~r.ok
      BY <2>2, <3>1, GiveUpRowKeeps
    <3> HIDE DEF r, q
    <3> QED BY <3>2 DEF FareAlike, r, q
  <2>10. CASE e.lexer_state # DEAD /\ ~SingleByteLexeme(e.lexer_state)
    <3>1. r = Ok(PushLexerState(fixedC, e)) /\ q = Ok(PushLexerState(fixedD, e))
      <4>1. r = Ok(PushLexerState(fixedC, e))
        BY <1>7, <2>10, AcrossCases
      <4>2. q = Ok(PushLexerState(fixedD, f))
        BY <1>7, <2>1, <2>10, AcrossCases
      <4> QED BY <2>1, <4>1, <4>2
    <3> HIDE DEF r, q, fixedC, fixedD, e, a, b
    <3>2. r.ok /\ q.ok /\ r.chart = PushLexerState(fixedC, e) /\ q.chart = PushLexerState(fixedD, e)
      BY <3>1 DEF Ok
    <3>3. r.chart.lexer_stack = Append(c.lexer_stack, e) /\ r.chart.rows = fixedC.rows
      BY <2>2, <3>2, PushLexerStateFacts
    <3>4. q.chart.lexer_stack = Append(d.lexer_stack, e) /\ q.chart.rows = fixedD.rows
      BY <2>3, <3>2, PushLexerStateFacts
    <3>5. SameRows(r.chart, q.chart, e.row_idx)
      BY <2>2, <2>5, <3>3, <3>4 DEF SameRows
    <3> QED BY <2>2, <3>2, <3>3, <3>4, <3>5 DEF FareAlike, r, q
  <2>11. CASE e.lexer_state # DEAD /\ SingleByteLexeme(e.lexer_state)
    <3>1. r = EndSingleByte(c, innerC)
      BY <1>7, <2>11, AcrossCases
    <3>2. q = EndSingleByte(d, innerD)
      BY <1>7, <2>1, <2>11, AcrossCases
    <3> HIDE DEF r, q, innerC, innerD, firstC, firstD, e, f
    <3>3. innerC.chart \in ParserChart /\ innerD.chart \in ParserChart
      BY <2>8 DEF Outcome, Good
    <3>4. /\ innerC.ok => r.ok /\ r.chart.lexer_stack = Append(c.lexer_stack, Last(innerC.chart.lexer_stack))
          /\ ~innerC.ok => ~r.ok
          /\ r.chart.rows = innerC.chart.rows
      BY <3>1, <3>3, EndSingleByteKeeps
    <3>5. /\ innerD.ok => q.ok /\ q.chart.lexer_stack = Append(d.lexer_stack, Last(innerD.chart.lexer_stack))
          /\ ~innerD.ok => ~q.ok
          /\ q.chart.rows = innerD.chart.rows
          /\ q.chart.budget = innerD.chart.budget
      BY <3>2, <3>3, EndSingleByteKeeps
    <3>6. CASE ~innerC.ok
      BY <3>4, <3>6 DEF FareAlike, r, q
    <3>7. CASE innerC.ok /\ ~innerD.ok
      BY <2>7, <3>5, <3>7 DEF FareAlike, r, q
    <3>8. CASE innerC.ok /\ innerD.ok
      <4>1. PICK g \in LexerState :
              /\ innerC.chart.lexer_stack = Append(firstC.lexer_stack, g)
              /\ innerD.chart.lexer_stack = Append(firstD.lexer_stack, g)
              /\ SameRows(innerC.chart, innerD.chart, g.row_idx)
        BY <2>7, <3>8 DEF FareAlike
      <4>2. firstC.lexer_stack \in Seq(LexerState) /\ firstD.lexer_stack \in Seq(LexerState)
        BY <2>2, <2>3 DEF Good, ParserChart
      <4>3. Last(innerC.chart.lexer_stack) = g
        <5> DEFINE s == innerC.chart.lexer_stack
        <5>1. Len(s) = Len(firstC.lexer_stack) + 1 /\ s[Len(firstC.lexer_stack) + 1] = g
          BY <4>1, <4>2, AppendProperties
        <5> QED BY <5>1 DEF Last
      <4>4. Last(innerD.chart.lexer_stack) = g
        <5> DEFINE s == innerD.chart.lexer_stack
        <5>1. Len(s) = Len(firstD.lexer_stack) + 1 /\ s[Len(firstD.lexer_stack) + 1] = g
          BY <4>1, <4>2, AppendProperties
        <5> QED BY <5>1 DEF Last
      <4>5. SameRows(r.chart, q.chart, g.row_idx)
        BY <3>4, <3>5, <4>1 DEF SameRows
      <4> QED BY <3>4, <3>5, <3>8, <4>3, <4>4, <4>5 DEF FareAlike, r, q
    <3> QED BY <3>6, <3>7, <3>8
  <2> QED BY <2>9, <2>10, <2>11
<1> QED BY <1>5, <1>6, <1>7

-----------------------------------------------------------------------------
(* One byte, the end of a lexeme.                                           *)
LEMMA AdvanceSound ==
  ASSUME NEW c, Good(c), Coherent(c), NEW def \in BOOLEAN, Defined(c, def), NEW n \in Nat,
         NEW res \in LexerResults
  PROVE  Sound(c, AdvanceLexerOrParser(c, res, def, n))
<1> DEFINE r == AdvanceLexerOrParser(c, res, def, n)
<1>1. ASSUME NEW s \in StateID, NEW b \in Byte, res = Moved(s, b)
      PROVE  Sound(c, r)
  <2> DEFINE e == Entry(NumRows(c), s, b)
  <2>1. r = Ok(PushLexerState(c, e))
    <3>1. res.res = "state" /\ res.state = s /\ res.byte = b
      BY <1>1 DEF Moved
    <3> QED BY <3>1 DEF AdvanceLexerOrParser
  <2>2. Outcome(c, r, def)
    BY AdvanceFacts
  <2> HIDE DEF e, r
  <2>3. r.chart = PushLexerState(c, e)
    BY <2>1 DEF Ok
  <2>4. c \in ParserChart /\ r.chart \in ParserChart
    BY <2>2 DEF Outcome, Good
  <2>5. /\ r.chart.rows = c.rows /\ r.chart.rows_valid_end = c.rows_valid_end
        /\ r.chart.budget = c.budget
    BY <2>3, <2>4, PushLexerStateFacts
  <2> QED BY <2>4, <2>5, CoherentSame DEF Sound
<1>2. ASSUME NEW pre \in PreLexemes, res = Recognised(pre)
      PROVE  Sound(c, r)
  <2>1. res.res = "lexeme" /\ res.pre = pre
    BY <1>2 DEF Recognised
  <2>2. r = IF pre.byte_next_row THEN AdvanceAcross(c, pre, def, n)
                                 ELSE AdvanceWithin(c, pre, def, n)
    BY <2>1 DEF AdvanceLexerOrParser
  <2>3. pre.byte_next_row => pre.byte \in Byte
    BY DEF PreLexemes
  <2> HIDE DEF r
  <2> QED BY <2>2, <2>3, AdvanceWithinSound, AdvanceAcrossSound
<1>3. ASSUME res = LexError
      PROVE  Sound(c, r)
  <2>1. r = Fail(c)
    BY <1>3 DEF LexError, AdvanceLexerOrParser
  <2> QED BY <2>1 DEF Fail, Sound
<1>4. \/ \E s \in StateID, b \in Byte : res = Moved(s, b)
      \/ \E pre \in PreLexemes : res = Recognised(pre)
      \/ res = LexError
  BY DEF LexerResults
<1> HIDE DEF r
<1>5. Sound(c, r)
  BY <1>1, <1>2, <1>3, <1>4
<1> QED BY <1>5 DEF r

(* So does what advance_lexer_or_parser makes of any lexer result.          *)
LEMMA AdvanceAlike ==
  ASSUME NEW c, Good(c), Coherent(c), NEW def \in BOOLEAN, Defined(c, def), NEW n \in Nat,
         NEW d, Good(d), Coherent(d), NEW def2 \in BOOLEAN, Defined(d, def2), NEW n2 \in Nat,
         Alike(c, d), NEW res \in LexerResults
  PROVE  FareAlike(c, AdvanceLexerOrParser(c, res, def, n),
                   d, AdvanceLexerOrParser(d, res, def2, n2))
<1> DEFINE r == AdvanceLexerOrParser(c, res, def, n)
           q == AdvanceLexerOrParser(d, res, def2, n2)
<1>1. ASSUME NEW s \in StateID, NEW b \in Byte, res = Moved(s, b)
      PROVE  FareAlike(c, r, d, q)
  <2> DEFINE e == Entry(NumRows(c), s, b)
  <2>1. r = Ok(PushLexerState(c, e)) /\ q = Ok(PushLexerState(d, e))
    <3>1. res.res = "state" /\ res.state = s /\ res.byte = b
      BY <1>1 DEF Moved
    <3> QED BY <3>1 DEF AdvanceLexerOrParser, Alike
  <2>2. e \in LexerState /\ e.row_idx = NumRows(c)
    BY TopFacts DEF Entry, LexerState
  <2>3. c \in ParserChart /\ d \in ParserChart
    BY DEF Good
  <2> HIDE DEF e, r, q
  <2>4. r.ok /\ q.ok /\ r.chart = PushLexerState(c, e) /\ q.chart = PushLexerState(d, e)
    BY <2>1 DEF Ok
  <2>5. r.chart.lexer_stack = Append(c.lexer_stack, e) /\ r.chart.rows = c.rows
    BY <2>3, <2>4, PushLexerStateFacts
  <2>6. q.chart.lexer_stack = Append(d.lexer_stack, e) /\ q.chart.rows = d.rows
    BY <2>3, <2>4, PushLexerStateFacts
  <2>7. SameRows(r.chart, q.chart, e.row_idx)
    BY <2>2, <2>5, <2>6 DEF Alike, SameRows
  <2> QED BY <2>2, <2>4, <2>5, <2>6, <2>7 DEF FareAlike
<1>2. ASSUME NEW pre \in PreLexemes, res = Recognised(pre)
      PROVE  FareAlike(c, r, d, q)
  <2>1. res.res = "lexeme" /\ res.pre = pre
    BY <1>2 DEF Recognised
  <2>2. /\ r = IF pre.byte_next_row THEN AdvanceAcross(c, pre, def, n)
                                    ELSE AdvanceWithin(c, pre, def, n)
        /\ q = IF pre.byte_next_row THEN AdvanceAcross(d, pre, def2, n2)
                                    ELSE AdvanceWithin(d, pre, def2, n2)
    BY <2>1 DEF AdvanceLexerOrParser
  <2>3. pre.byte_next_row => pre.byte \in Byte
    BY DEF PreLexemes
  <2> HIDE DEF r, q
  <2>4. CASE pre.byte_next_row
    <3>1. FareAlike(c, AdvanceAcross(c, pre, def, n), d, AdvanceAcross(d, pre, def2, n2))
      BY <2>3, <2>4, AdvanceAcrossAlike
    <3> QED BY <2>2, <2>4, <3>1
  <2>5. CASE ~pre.byte_next_row
    <3>1. FareAlike(c, AdvanceWithin(c, pre, def, n), d, AdvanceWithin(d, pre, def2, n2))
      BY AdvanceWithinAlike
    <3> QED BY <2>2, <2>5, <3>1
  <2> QED BY <2>4, <2>5
<1>3. ASSUME res = LexError
      PROVE  FareAlike(c, r, d, q)
  <2>1. ~r.ok
    BY <1>3 DEF LexError, AdvanceLexerOrParser, Fail
  <2> HIDE DEF r, q
  <2> QED BY <2>1 DEF FareAlike
<1>4. \/ \E s \in StateID, b \in Byte : res = Moved(s, b)
      \/ \E pre \in PreLexemes : res = Recognised(pre)
      \/ res = LexError
  BY DEF LexerResults
<1> HIDE DEF r, q
<1>5. FareAlike(c, r, d, q)
  BY <1>1, <1>2, <1>3, <1>4
<1> QED BY <1>5 DEF r, q

(* A push leaves the valid rows coherent.                                   *)
LEMMA TryPushByteSound ==
  ASSUME NEW c, Good(c), Coherent(c), NEW def \in BOOLEAN, Defined(c, def), NEW n \in Nat,
         NEW b \in Byte
  PROVE  Sound(c, TryPushByte(c, b, def, n))
<1>1. Advance(Top(c).lexer_state, b) \in LexerResults
  BY TopFacts, AdvanceType
<1> QED BY <1>1, AdvanceSound DEF TryPushByte

(* A byte fares alike on charts that look alike.                            *)
LEMMA TryPushByteAlike ==
  ASSUME NEW c, Good(c), Coherent(c), NEW def \in BOOLEAN, Defined(c, def), NEW n \in Nat,
         NEW d, Good(d), Coherent(d), NEW def2 \in BOOLEAN, Defined(d, def2), NEW n2 \in Nat,
         Alike(c, d), NEW b \in Byte
  PROVE  FareAlike(c, TryPushByte(c, b, def, n), d, TryPushByte(d, b, def2, n2))
<1>1. Advance(Top(c).lexer_state, b) \in LexerResults
  BY TopFacts, AdvanceType
<1>2. Top(c).lexer_state = Top(d).lexer_state
  BY DEF Alike
<1> QED BY <1>1, <1>2, AdvanceAlike DEF TryPushByte

(* Flushing leaves the valid rows coherent.                                 *)
LEMMA FlushSound ==
  ASSUME NEW c, Good(c), Coherent(c), NEW def \in BOOLEAN, Defined(c, def), NEW n \in Nat
  PROVE  Sound(c, FlushLexer(c, def, n))
<1>1. TryLexemeEnd(Top(c).lexer_state) \in LexerResults
  BY TopFacts, TryLexemeEndType
<1>2. CASE HasPendingLexemeBytes(c)
  BY <1>1, <1>2, AdvanceSound DEF FlushLexer
<1>3. CASE ~HasPendingLexemeBytes(c)
  <2>1. FlushLexer(c, def, n) = Ok(c)
    BY <1>3 DEF FlushLexer
  <2> QED BY <2>1 DEF Ok, Sound
<1> QED BY <1>2, <1>3

(* Charts with the same lexer stack, and the same rows in use.              *)
LEMMA SameStackAlike ==
  ASSUME NEW c, NEW d, c.lexer_stack = d.lexer_stack, SameRows(c, d, NumRows(c))
  PROVE  /\ Alike(c, d) /\ NumRows(c) = NumRows(d) /\ Top(c) = Top(d)
         /\ HasPendingLexemeBytes(c) = HasPendingLexemeBytes(d)
<1>1. Top(c) = Top(d)
  BY DEF Top
<1>2. NumRows(c) = NumRows(d)
  BY <1>1 DEF NumRows
<1>3. HasPendingLexemeBytes(c) = HasPendingLexemeBytes(d)
  BY <1>2, Zenon DEF HasPendingLexemeBytes
<1> QED BY <1>1, <1>2, <1>3 DEF Alike

(* The end of a lexeme, with no limit on items: both charts advance, or none. *)
LEMMA FlushSame ==
  ASSUME NEW c, Good(c), Coherent(c), NEW def \in BOOLEAN, Defined(c, def), NEW n \in Nat,
         NEW d, Good(d), Coherent(d), NEW def2 \in BOOLEAN, Defined(d, def2), NEW n2 \in Nat,
         c.lexer_stack = d.lexer_stack, SameRows(c, d, NumRows(c)),
         c.budget = Unlimited, d.budget = Unlimited
  PROVE  LET r == FlushLexer(c, def, n)
             q == FlushLexer(d, def2, n2)
         IN  /\ r.ok = q.ok
             /\ r.chart.lexer_stack = q.chart.lexer_stack
             /\ SameRows(r.chart, q.chart, NumRows(r.chart))
<1> DEFINE r == FlushLexer(c, def, n)
           q == FlushLexer(d, def2, n2)
<1>1. /\ Alike(c, d) /\ NumRows(c) = NumRows(d) /\ Top(c) = Top(d) /\ Alike(d, c)
      /\ HasPendingLexemeBytes(c) = HasPendingLexemeBytes(d)
  BY SameStackAlike DEF SameRows, Alike
<1>2. CASE ~HasPendingLexemeBytes(c)
  <2>1. r = Ok(c) /\ q = Ok(d)
    BY <1>1, <1>2 DEF FlushLexer
  <2> QED BY <1>1, <2>1 DEF Ok
<1>3. CASE HasPendingLexemeBytes(c)
  <2> DEFINE res == TryLexemeEnd(Top(c).lexer_state)
  <2>1. res \in LexerResults
    BY TopFacts, TryLexemeEndType
  <2>2. /\ r = AdvanceLexerOrParser(c, res, def, n)
        /\ q = AdvanceLexerOrParser(d, res, def2, n2)
    BY <1>1, <1>3 DEF FlushLexer
  <2> HIDE DEF res, r, q
  <2>3. FareAlike(c, r, d, q) /\ FareAlike(d, q, c, r)
    BY <1>1, <2>1, <2>2, AdvanceAlike
  <2>4. /\ Outcome(c, r, def) /\ Outcome(d, q, def2) /\ Sound(c, r) /\ Sound(d, q)
    BY <2>1, <2>2, AdvanceFacts, AdvanceSound
  <2>5. r.ok = q.ok
    BY <2>3, <2>4, UnlimitedIsNotZero DEF FareAlike, Sound, Outcome
  <2>6. CASE ~r.ok
    <3>1. r.chart.lexer_stack = c.lexer_stack /\ q.chart.lexer_stack = c.lexer_stack
      BY <2>4, <2>5, <2>6 DEF Outcome
    <3>2. NumRows(r.chart) = NumRows(c)
      BY <3>1 DEF NumRows, Top
    <3>3. \A k \in 1..NumRows(c) : r.chart.rows[k] = c.rows[k] /\ q.chart.rows[k] = d.rows[k]
      BY <1>1, <2>4, TopFacts DEF Outcome, Keeps
    <3> QED BY <2>5, <3>1, <3>2, <3>3 DEF SameRows, r, q
  <2>7. CASE r.ok
    <3>1. PICK e \in LexerState : /\ r.chart.lexer_stack = Append(c.lexer_stack, e)
                                  /\ q.chart.lexer_stack = Append(d.lexer_stack, e)
                                  /\ SameRows(r.chart, q.chart, e.row_idx)
      BY <2>3, <2>5, <2>7 DEF FareAlike
    <3>2. NumRows(r.chart) = e.row_idx
      <4>1. c.lexer_stack \in Seq(LexerState) /\ Good(r.chart)
        BY <2>4 DEF Good, ParserChart, Outcome
      <4>2. r.chart.lexer_stack[Len(r.chart.lexer_stack)] = e
        BY <3>1, <4>1, AppendProperties
      <4> QED BY <4>1, <4>2, TopFacts
    <3> QED BY <2>5, <3>1, <3>2 DEF r, q
  <2> QED BY <2>6, <2>7
<1> QED BY <1>2, <1>3

-----------------------------------------------------------------------------
(* A sequence of bytes, one by one.                                         *)
PushOne(before, b, def, n) ==
  IF before.ok THEN TryPushByte(before.chart, b, def, n) ELSE before

Pushes(f, N, c, s, def, n) ==
  f = [k \in 0..N |-> IF k = 0 THEN Ok(c) ELSE PushOne(f[k - 1], s[k], def, n + k - 1)]

(* There is such a sequence of results: the least N without one would have  *)
(* one, one longer than that of N - 1.                                      *)
LEMMA PushesExist ==
  ASSUME NEW N \in Nat, NEW c, NEW s, NEW def, NEW n
  PROVE  \E f : Pushes(f, N, c, s, def, n)
<1> DEFINE Bad == {m \in Nat : ~ \E f : Pushes(f, m, c, s, def, n)}
<1> SUFFICES ASSUME Bad # {} PROVE FALSE
  OBVIOUS
<1>1. PICK m \in Bad : \A i \in Bad : m <= i
  <2>1. Bad \in SUBSET Nat
    OBVIOUS
  <2> HIDE DEF Bad
  <2> QED BY <2>1, LeastNumber
<1>2. m # 0
  <2> DEFINE g == [k \in 0..0 |-> Ok(c)]
  <2>1. g = [k \in 0..0 |-> IF k = 0 THEN Ok(c) ELSE PushOne(g[k - 1], s[k], def, n + k - 1)]
    OBVIOUS
  <2> QED BY <1>1, <2>1 DEF Pushes
<1>3. m \in Nat \ {0} /\ m - 1 \in Nat /\ m - 1 \notin Bad
  BY <1>1, <1>2
<1>4. PICK f : Pushes(f, m - 1, c, s, def, n)
  BY <1>3
<1> DEFINE g == [k \in 0..m |-> IF k = m THEN PushOne(f[m - 1], s[m], def, n + m - 1) ELSE f[k]]
           h == [k \in 0..m |-> IF k = 0 THEN Ok(c) ELSE PushOne(g[k - 1], s[k], def, n + k - 1)]
<1>5. ASSUME NEW k \in 0..m
      PROVE  g[k] = IF k = 0 THEN Ok(c) ELSE PushOne(g[k - 1], s[k], def, n + k - 1)
  <2>1. CASE k = m
    <3>1. m - 1 \in 0..m /\ m - 1 # m
      BY <1>3
    <3>2. g[m - 1] = f[m - 1]
      BY <3>1
    <3> QED BY <1>3, <2>1, <3>2
  <2>2. CASE k # m
    <3>1. k \in 0..(m - 1)
      BY <1>3, <2>2
    <3>2. f[k] = IF k = 0 THEN Ok(c) ELSE PushOne(f[k - 1], s[k], def, n + k - 1)
      BY <1>4, <3>1 DEF Pushes
    <3>3. g[k] = f[k]
      BY <2>2
    <3>4. ASSUME k # 0 PROVE g[k - 1] = f[k - 1]
      <4>1. k - 1 \in 0..m /\ k - 1 # m
        BY <1>3, <3>1, <3>4
      <4> QED BY <4>1
    <3> HIDE DEF g
    <3> QED BY <3>2, <3>3, <3>4
  <2> QED BY <2>1, <2>2
<1>6. g = h
  <2>1. \A k \in 0..m : g[k] = h[k]
    BY <1>5
  <2> QED BY <2>1
<1>7. Pushes(g, m, c, s, def, n)
  BY <1>6 DEF Pushes
<1> QED BY <1>1, <1>7

(* PushedUpTo[k] is one push after PushedUpTo[k - 1].                       *)
LEMMA PushedUpToUnfolds ==
  ASSUME NEW c, NEW s \in Seq(Byte), NEW def, NEW n
  PROVE  LET f == PushedUpTo(c, s, def, n) IN
         /\ f[0] = Ok(c)
         /\ \A k \in 1..Len(s) : f[k] = PushOne(f[k - 1], s[k], def, n + k - 1)
<1> DEFINE f == PushedUpTo(c, s, def, n)
           N == Len(s)
           P(g) == g = [k \in 0..N |-> IF k = 0 THEN Ok(c)
                                       ELSE PushOne(g[k - 1], s[k], def, n + k - 1)]
<1>1. N \in Nat
  OBVIOUS
<1>2. f = CHOOSE g : P(g)
  BY Zenon DEF PushedUpTo, PushOne
<1> HIDE DEF N, f
<1>3. \E g : P(g)
  <2>1. PICK g : Pushes(g, N, c, s, def, n)
    BY <1>1, PushesExist
  <2>2. P(g)
    BY <2>1 DEF Pushes
  <2> HIDE DEF P
  <2> QED BY <2>2
<1> HIDE DEF P
<1>4. P(f)
  BY <1>2, <1>3, Zenon
<1>5. f = [k \in 0..N |-> IF k = 0 THEN Ok(c) ELSE PushOne(f[k - 1], s[k], def, n + k - 1)]
  BY <1>4 DEF P
<1>6. \A k \in 0..N : f[k] = IF k = 0 THEN Ok(c) ELSE PushOne(f[k - 1], s[k], def, n + k - 1)
  BY <1>5
<1>7. f[0] = Ok(c)
  BY <1>1, <1>6
<1>8. \A k \in 1..N : f[k] = PushOne(f[k - 1], s[k], def, n + k - 1)
  <2>1. \A k \in 1..N : k \in 0..N /\ k # 0
    BY <1>1
  <2> QED BY <1>6, <2>1
<1> QED BY <1>7, <1>8 DEF f, N

(* PushedUpTo before the first byte.                                        *)
LEMMA PushedFirst ==
  ASSUME NEW c, NEW s \in Seq(Byte), NEW def, NEW n
  PROVE  PushedUpTo(c, s, def, n)[0] = Ok(c)
<1> DEFINE f == PushedUpTo(c, s, def, n)
<1>1. /\ f[0] = Ok(c)
      /\ \A k \in 1..Len(s) : f[k] = PushOne(f[k - 1], s[k], def, n + k - 1)
  BY PushedUpToUnfolds
<1> QED BY <1>1

(* PushedUpTo after one byte more.                                          *)
LEMMA PushedNext ==
  ASSUME NEW c, NEW s \in Seq(Byte), NEW def, NEW n, NEW k \in 1..Len(s)
  PROVE  PushedUpTo(c, s, def, n)[k]
           = PushOne(PushedUpTo(c, s, def, n)[k - 1], s[k], def, n + k - 1)
<1> DEFINE f == PushedUpTo(c, s, def, n)
<1>1. /\ f[0] = Ok(c)
      /\ \A i \in 1..Len(s) : f[i] = PushOne(f[i - 1], s[i], def, n + i - 1)
  BY PushedUpToUnfolds
<1> HIDE DEF f
<1>2. f[k] = PushOne(f[k - 1], s[k], def, n + k - 1)
  BY <1>1
<1> QED BY <1>2 DEF f

(* What comes of the first i bytes does not depend on the others.           *)
LEMMA PushedPrefix ==
  ASSUME NEW c, NEW s \in Seq(Byte), NEW t \in Seq(Byte), NEW def, NEW n,
         NEW i \in 0..Len(s), i <= Len(t), \A k \in 1..i : s[k] = t[k]
  PROVE  PushedUpTo(c, s, def, n)[i] = PushedUpTo(c, t, def, n)[i]
<1> DEFINE f == PushedUpTo(c, s, def, n)
           g == PushedUpTo(c, t, def, n)
           S == {k \in Nat : f[k] = g[k]}
<1>1. /\ f[0] = Ok(c) /\ g[0] = Ok(c)
      /\ \A k \in 1..Len(s) : f[k] = PushOne(f[k - 1], s[k], def, n + k - 1)
      /\ \A k \in 1..Len(t) : g[k] = PushOne(g[k - 1], t[k], def, n + k - 1)
  BY PushedUpToUnfolds
<1> HIDE DEF f, g
<1>2. i \in Nat /\ Len(s) \in Nat /\ Len(t) \in Nat
  OBVIOUS
<1>3. 0 \in S
  BY <1>1
<1>4. ASSUME NEW k \in 0..(i - 1), k \in S PROVE k + 1 \in S
  <2>1. k + 1 \in 1..Len(s) /\ k + 1 \in 1..Len(t) /\ (k + 1) - 1 = k /\ k + 1 \in 1..i
    BY <1>2
  <2>2. f[k + 1] = PushOne(f[k], s[k + 1], def, n + (k + 1) - 1)
    BY <1>1, <2>1
  <2>3. g[k + 1] = PushOne(g[k], t[k + 1], def, n + (k + 1) - 1)
    BY <1>1, <2>1
  <2> QED BY <1>4, <2>1, <2>2, <2>3
<1> HIDE DEF S
<1>5. \A k \in 0..i : k \in S
  BY <1>2, <1>3, <1>4, UpTo
<1>6. i \in S
  BY <1>2, <1>5
<1> QED BY <1>6 DEF S, f, g

-----------------------------------------------------------------------------
(* A chart that extends another: its lexer stack begins with that of the    *)
(* other, and the rows in use there are the same here.                      *)
Extends(c, d) ==
  /\ Len(d.lexer_stack) <= Len(c.lexer_stack)
  /\ \A i \in 1..Len(d.lexer_stack) : c.lexer_stack[i] = d.lexer_stack[i]
  /\ SameRows(c, d, NumRows(d))

SameHeight(c, d) == Len(c.lexer_stack) = Len(d.lexer_stack)

Fit(c, def) == Good(c) /\ Coherent(c) /\ Defined(c, def)

(* A chart extends itself.                                                  *)
LEMMA ExtendsRefl ==
  ASSUME NEW c, NEW d, Good(c), c.lexer_stack = d.lexer_stack, SameRows(c, d, NumRows(c))
  PROVE  Extends(c, d) /\ Extends(d, c) /\ SameHeight(c, d) /\ NumRows(c) = NumRows(d)
<1>1. NumRows(c) = NumRows(d) /\ Len(c.lexer_stack) \in Nat
  BY TopFacts DEF NumRows, Top
<1> QED BY <1>1 DEF Extends, SameRows, SameHeight

(* The rows in use of the chart that is extended are in use.                *)
LEMMA ExtendsRows ==
  ASSUME NEW c, NEW d, Good(c), Good(d), Extends(c, d)
  PROVE  NumRows(d) <= NumRows(c)
<1> DEFINE m == Len(d.lexer_stack)
           n == Len(c.lexer_stack)
<1>1. /\ m \in Nat \ {0} /\ n \in Nat \ {0} /\ m <= n
      /\ NumRows(d) = d.lexer_stack[m].row_idx /\ NumRows(c) = c.lexer_stack[n].row_idx
  BY TopFacts DEF Extends
<1>2. c.lexer_stack[m].row_idx <= c.lexer_stack[n].row_idx
  BY <1>1 DEF Good
<1>3. c.lexer_stack[m] = d.lexer_stack[m]
  BY <1>1 DEF Extends
<1> QED BY <1>1, <1>2, <1>3

(* Extension is transitive.                                                 *)
LEMMA ExtendsTrans ==
  ASSUME NEW c, NEW d, NEW e, Good(c), Good(d), Good(e), Extends(c, d), Extends(d, e)
  PROVE  Extends(c, e)
<1>1. NumRows(e) <= NumRows(d) /\ NumRows(e) \in Nat /\ NumRows(d) \in Nat
  BY ExtendsRows, TopFacts
<1>2. Len(c.lexer_stack) \in Nat /\ Len(d.lexer_stack) \in Nat /\ Len(e.lexer_stack) \in Nat
  BY TopFacts
<1> QED BY <1>1, <1>2 DEF Extends, SameRows

(* Of two charts that one chart extends the higher extends the lower.       *)
LEMMA ExtendsDown ==
  ASSUME NEW c, NEW d, NEW e, Good(c), Good(d), Good(e), Extends(c, d), Extends(c, e),
         Len(e.lexer_stack) <= Len(d.lexer_stack)
  PROVE  Extends(d, e)
<1> DEFINE m == Len(e.lexer_stack)
           n == Len(d.lexer_stack)
<1>1. m \in Nat \ {0} /\ n \in Nat \ {0} /\ m <= n
  BY TopFacts
<1>2. \A i \in 1..m : d.lexer_stack[i] = e.lexer_stack[i]
  BY <1>1 DEF Extends
<1>3. /\ NumRows(e) = e.lexer_stack[m].row_idx /\ NumRows(d) = d.lexer_stack[n].row_idx
      /\ NumRows(e) \in Nat /\ NumRows(d) \in Nat
  BY TopFacts
<1>4. d.lexer_stack[m].row_idx <= d.lexer_stack[n].row_idx
  BY <1>1 DEF Good
<1>5. NumRows(e) <= NumRows(d)
  BY <1>1, <1>2, <1>3, <1>4
<1> QED BY <1>1, <1>2, <1>3, <1>5 DEF Extends, SameRows

(* Of the same height: the same stack.                                      *)
LEMMA ExtendsTwin ==
  ASSUME NEW c, NEW d, Good(c), Good(d), Extends(c, d), SameHeight(c, d)
  PROVE  /\ c.lexer_stack = d.lexer_stack
         /\ SameRows(c, d, NumRows(c)) /\ NumRows(c) = NumRows(d)
         /\ Alike(c, d)
<1>1. c.lexer_stack \in Seq(LexerState) /\ d.lexer_stack \in Seq(LexerState)
  BY DEF Good, ParserChart
<1>2. c.lexer_stack = d.lexer_stack
  BY <1>1, SeqEqual DEF Extends, SameHeight
<1>3. NumRows(c) = NumRows(d)
  BY <1>2 DEF NumRows, Top
<1> QED BY <1>2, <1>3, SameStackAlike DEF Extends, SameRows

(* What comes of a push extends the chart it was made on.                   *)
LEMMA OutcomeExtends ==
  ASSUME NEW c, Good(c), NEW r, NEW def, Outcome(c, r, def)
  PROVE  /\ Extends(r.chart, c)
         /\ Len(r.chart.lexer_stack) = Len(c.lexer_stack) + (IF r.ok THEN 1 ELSE 0)
<1>1. /\ Len(c.lexer_stack) \in Nat \ {0} /\ c.lexer_stack \in Seq(LexerState)
      /\ NumRows(c) = c.lexer_stack[Len(c.lexer_stack)].row_idx
  BY TopFacts DEF Good, ParserChart
<1>2. SameRows(r.chart, c, NumRows(c))
  BY <1>1 DEF Outcome, Keeps, SameRows
<1>3. CASE ~r.ok
  BY <1>1, <1>2, <1>3 DEF Outcome, Extends
<1>4. CASE r.ok
  <2>1. PICK e \in LexerState : r.chart.lexer_stack = Append(c.lexer_stack, e)
    BY <1>4 DEF Outcome
  <2>2. /\ Len(r.chart.lexer_stack) = Len(c.lexer_stack) + 1
        /\ \A i \in 1..Len(c.lexer_stack) : r.chart.lexer_stack[i] = c.lexer_stack[i]
    BY <1>1, <2>1, AppendProperties
  <2> QED BY <1>1, <1>2, <1>4, <2>2 DEF Extends
<1> QED BY <1>3, <1>4

(* A chart extends what truncating its lexer stack leaves.                  *)
LEMMA TruncateExtends ==
  ASSUME NEW c, Good(c), Coherent(c), NEW m \in 1..Len(c.lexer_stack), NEW d,
         d = [c EXCEPT !.lexer_stack = SubSeq(@, 1, m)]
  PROVE  Extends(c, d) /\ Fit(d, FALSE) /\ d.budget = c.budget
<1>1. /\ Good(d) /\ Len(d.lexer_stack) = m
      /\ \A i \in 1..m : d.lexer_stack[i] = c.lexer_stack[i]
      /\ d.rows = c.rows
  BY TruncateFacts
<1>2. d.rows_valid_end = c.rows_valid_end /\ d.budget = c.budget
  BY DEF Good, ParserChart
<1>3. Coherent(d)
  BY <1>1, <1>2, CoherentSame DEF Good
<1>4. Len(c.lexer_stack) \in Nat
  BY TopFacts
<1> QED BY <1>1, <1>2, <1>3, <1>4 DEF Extends, SameRows, Fit, Defined

(* Beginning or ending a walk keeps stack, rows in use and coherence.       *)
LEMMA SpeculativeExtends ==
  ASSUME NEW c, Good(c), Coherent(c), NEW d, d = Speculative(c)
  PROVE  /\ Extends(c, d) /\ Extends(d, c) /\ SameHeight(c, d)
         /\ Fit(d, FALSE) /\ d.budget = c.budget
<1>1. /\ Good(d) /\ d.lexer_stack = c.lexer_stack
      /\ \A k \in 1..NumRows(c) : d.rows[k] = c.rows[k]
  BY SpeculativeFacts
<1>2. /\ c \in ParserChart /\ NumRows(c) <= c.rows_valid_end /\ NumRows(c) \in Nat
      /\ d \in ParserChart
  BY <1>1, TopFacts DEF Good
<1>3. d.rows_valid_end = NumRows(c) /\ d.budget = c.budget
  BY <1>2 DEF Speculative, ParserChart
<1>4. SameRows(c, d, NumRows(c))
  BY <1>1 DEF SameRows
<1>5. Coherent(d)
  BY <1>2, <1>3, <1>4, CoherentKept
<1> QED BY <1>1, <1>3, <1>4, <1>5, ExtendsRefl DEF Fit, Defined

(* Setting a limit changes nothing that Extends looks at.                   *)
LEMMA BudgetExtends ==
  ASSUME NEW c, Good(c), Coherent(c), NEW b \in Nat \cup {Unlimited},
         NEW d, d = [c EXCEPT !.budget = b]
  PROVE  /\ Extends(c, d) /\ Extends(d, c) /\ SameHeight(c, d)
         /\ Good(d) /\ Coherent(d) /\ d.budget = b
         /\ \A def : Defined(c, def) => Defined(d, def)
<1>1. /\ Good(d) /\ d.lexer_stack = c.lexer_stack /\ d.rows = c.rows
      /\ d.row_infos = c.row_infos /\ d.rows_valid_end = c.rows_valid_end
  BY BudgetFacts
<1>2. d.budget = b
  BY DEF Good, ParserChart
<1>3. Coherent(d)
  BY <1>1, CoherentSame DEF Good
<1>4. SameRows(c, d, NumRows(c))
  BY <1>1 DEF SameRows
<1>5. \A def : Defined(c, def) => Defined(d, def)
  BY <1>1 DEF Defined
<1> QED BY <1>1, <1>2, <1>3, <1>4, <1>5, ExtendsRefl

(* One byte more on both: a chart that extends another of its height still  *)
(* does, if the other has no item limit.                                    *)
LEMMA PushExtends ==
  ASSUME NEW c, NEW def \in BOOLEAN, Fit(c, def), NEW n \in Nat,
         NEW d, NEW def2 \in BOOLEAN, Fit(d, def2), NEW n2 \in Nat,
         Extends(c, d), SameHeight(c, d), d.budget = Unlimited, NEW b \in Byte,
         TryPushByte(c, b, def, n).ok
  PROVE  LET r == TryPushByte(c, b, def, n)
             q == TryPushByte(d, b, def2, n2)
         IN  q.ok /\ Extends(r.chart, q.chart) /\ SameHeight(r.chart, q.chart)
<1> DEFINE r == TryPushByte(c, b, def, n)
           q == TryPushByte(d, b, def2, n2)
<1>1. /\ Good(c) /\ Coherent(c) /\ Defined(c, def)
      /\ Good(d) /\ Coherent(d) /\ Defined(d, def2)
  BY DEF Fit
<1>2. c.lexer_stack = d.lexer_stack /\ Alike(c, d)
  BY <1>1, ExtendsTwin
<1>3. FareAlike(c, r, d, q)
  BY <1>1, <1>2, TryPushByteAlike
<1>4. Outcome(c, r, def) /\ Outcome(d, q, def2) /\ Sound(d, q)
  BY <1>1, TryPushByteFacts, TryPushByteSound
<1> HIDE DEF r, q
<1>5. q.ok /\ r.ok
  <2>1. r.ok
    BY DEF r
  <2>2. q.chart.budget = Unlimited
    BY <1>4 DEF Sound
  <2> QED BY <1>3, <2>1, <2>2, UnlimitedIsNotZero DEF FareAlike
<1>6. PICK e \in LexerState : /\ r.chart.lexer_stack = Append(c.lexer_stack, e)
                              /\ q.chart.lexer_stack = Append(d.lexer_stack, e)
                              /\ SameRows(r.chart, q.chart, e.row_idx)
  BY <1>3, <1>5 DEF FareAlike
<1>7. r.chart.lexer_stack = q.chart.lexer_stack
  BY <1>2, <1>6
<1>8. Good(r.chart) /\ NumRows(r.chart) = e.row_idx
  <2>1. c.lexer_stack \in Seq(LexerState) /\ Good(r.chart)
    BY <1>1, <1>4 DEF Good, ParserChart, Outcome
  <2>2. r.chart.lexer_stack[Len(r.chart.lexer_stack)] = e
    BY <1>6, <2>1, AppendProperties
  <2> QED BY <2>1, <2>2, TopFacts
<1> QED BY <1>5, <1>6, <1>7, <1>8, ExtendsRefl DEF r, q

(* A further push onto a sound result gives a sound result.                 *)
LEMMA PushOneFacts ==
  ASSUME NEW before, NEW def \in BOOLEAN, Fit(before.chart, def), before.ok \in BOOLEAN,
         NEW b \in Byte, NEW n \in Nat, NEW r, r = PushOne(before, b, def, n)
  PROVE  /\ Fit(r.chart, def) /\ r.ok \in BOOLEAN
         /\ before.chart.budget = Unlimited => r.chart.budget = Unlimited
         /\ r.ok => before.ok
         /\ r.ok => Len(r.chart.lexer_stack) = Len(before.chart.lexer_stack) + 1
         /\ Extends(r.chart, before.chart)
         /\ ~def => r.chart.row_infos = before.chart.row_infos
<1> DEFINE c == before.chart
           p == TryPushByte(c, b, def, n)
<1>1. Good(c) /\ Coherent(c) /\ Defined(c, def)
  BY DEF Fit
<1>2. CASE ~before.ok
  <2>1. r = before
    BY <1>2 DEF PushOne
  <2> QED BY <1>1, <1>2, <2>1, ExtendsRefl DEF SameRows
<1>3. CASE before.ok
  <2>1. r = p
    BY <1>3 DEF PushOne
  <2>2. Outcome(c, p, def) /\ Sound(c, p)
    BY <1>1, TryPushByteFacts, TryPushByteSound
  <2> HIDE DEF p, c
  <2>3. /\ Extends(p.chart, c)
        /\ Len(p.chart.lexer_stack) = Len(c.lexer_stack) + (IF p.ok THEN 1 ELSE 0)
    BY <1>1, <2>2, OutcomeExtends
  <2> QED BY <1>3, <2>1, <2>2, <2>3 DEF Outcome, Sound, Fit, Keeps, c
<1> QED BY <1>2, <1>3

(* What holds after k of the bytes.                                         *)
Reached(c, def, k, r) ==
  /\ Fit(r.chart, def) /\ r.ok \in BOOLEAN
  /\ c.budget = Unlimited => r.chart.budget = Unlimited
  /\ r.ok => Len(r.chart.lexer_stack) = Len(c.lexer_stack) + k
  /\ Extends(r.chart, c)
  /\ ~def => r.chart.row_infos = c.row_infos

(* The pushes onto a chart before the first byte.                           *)
LEMMA ReachedFirst ==
  ASSUME NEW c, NEW def \in BOOLEAN, Fit(c, def)
  PROVE  Reached(c, def, 0, Ok(c))
<1>1. Good(c) /\ Len(c.lexer_stack) \in Nat
  BY TopFacts DEF Fit
<1>2. Extends(c, c)
  BY <1>1, ExtendsRefl DEF SameRows
<1>3. Ok(c).ok \in BOOLEAN /\ Ok(c).chart = c
  BY DEF Ok
<1> QED BY <1>1, <1>2, <1>3 DEF Reached

(* The pushes onto a chart after one byte more.                             *)
LEMMA ReachedNext ==
  ASSUME NEW c, NEW def \in BOOLEAN, Fit(c, def), NEW k \in Nat, NEW p, Reached(c, def, k, p),
         NEW b \in Byte, NEW n \in Nat, NEW q, q = PushOne(p, b, def, n)
  PROVE  Reached(c, def, k + 1, q)
<1>1. Fit(p.chart, def) /\ p.ok \in BOOLEAN /\ Extends(p.chart, c)
  BY DEF Reached
<1>2. /\ Fit(q.chart, def) /\ q.ok \in BOOLEAN
      /\ p.chart.budget = Unlimited => q.chart.budget = Unlimited
      /\ q.ok => p.ok
      /\ q.ok => Len(q.chart.lexer_stack) = Len(p.chart.lexer_stack) + 1
      /\ Extends(q.chart, p.chart)
      /\ ~def => q.chart.row_infos = p.chart.row_infos
  BY <1>1, PushOneFacts
<1>3. Extends(q.chart, c)
  BY <1>1, <1>2, ExtendsTrans DEF Fit
<1>4. Len(c.lexer_stack) \in Nat
  BY TopFacts DEF Fit
<1>5. c.budget = Unlimited => q.chart.budget = Unlimited
  BY <1>2 DEF Reached
<1>6. ASSUME q.ok PROVE Len(q.chart.lexer_stack) = Len(c.lexer_stack) + (k + 1)
  <2>1. Len(p.chart.lexer_stack) = Len(c.lexer_stack) + k
    BY <1>2, <1>6 DEF Reached
  <2>2. Len(q.chart.lexer_stack) = Len(p.chart.lexer_stack) + 1
    BY <1>2, <1>6
  <2> DEFINE x == Len(c.lexer_stack)
             y == Len(p.chart.lexer_stack)
             z == Len(q.chart.lexer_stack)
  <2>3. x \in Nat /\ y = x + k /\ z = y + 1
    BY <1>4, <2>1, <2>2
  <2> HIDE DEF x, y, z
  <2>4. z = x + (k + 1)
    BY <2>3
  <2> QED BY <2>4 DEF x, z
<1>7. ~def => q.chart.row_infos = c.row_infos
  BY <1>2 DEF Reached
<1> QED BY <1>2, <1>3, <1>5, <1>6, <1>7 DEF Reached

(* What the first i of some bytes lead to, for every i.                     *)
LEMMA PushedFacts ==
  ASSUME NEW c, NEW def \in BOOLEAN, Fit(c, def), NEW s \in Seq(Byte), NEW n \in Nat,
         NEW i \in 0..Len(s)
  PROVE  Reached(c, def, i, PushedUpTo(c, s, def, n)[i])
<1> DEFINE f == PushedUpTo(c, s, def, n)
           S == {k \in Nat : Reached(c, def, k, f[k])}
<1>1. /\ f[0] = Ok(c)
      /\ \A k \in 1..Len(s) : f[k] = PushOne(f[k - 1], s[k], def, n + k - 1)
  BY PushedUpToUnfolds
<1>2. Len(s) \in Nat
  OBVIOUS
<1> HIDE DEF f
<1>3. 0 \in S
  BY <1>1, ReachedFirst
<1>4. ASSUME NEW k \in 0..(Len(s) - 1), k \in S PROVE k + 1 \in S
  <2>1. /\ k + 1 \in 1..Len(s) /\ (k + 1) - 1 = k /\ n + (k + 1) - 1 \in Nat /\ k + 1 \in Nat
    BY <1>2
  <2>2. f[k + 1] = PushOne(f[k], s[k + 1], def, n + (k + 1) - 1)
    BY <1>1, <2>1
  <2>3. s[k + 1] \in Byte
    BY <2>1, ElementOfSeq
  <2>4. Reached(c, def, k, f[k])
    BY <1>4
  <2>5. Reached(c, def, k + 1, f[k + 1])
    BY <2>1, <2>2, <2>3, <2>4, ReachedNext
  <2> QED BY <2>1, <2>5
<1> HIDE DEF S
<1>5. \A k \in 0..Len(s) : k \in S
  BY <1>2, <1>3, <1>4, UpTo
<1> QED BY <1>5 DEF S, f

(* Bytes pushed one by one give a sound chart that extends the first.       *)
LEMMA PushAllFacts ==
  ASSUME NEW c, NEW def \in BOOLEAN, Fit(c, def), NEW s \in Seq(Byte), NEW n \in Nat
  PROVE  Reached(c, def, Len(s), PushAll(c, s, def, n))
<1>1. Len(s) \in 0..Len(s)
  OBVIOUS
<1> QED BY <1>1, PushedFacts DEF PushAll

(* What the first bytes give is extended by what all of them give.          *)
LEMMA PushAllExtends ==
  ASSUME NEW c, NEW def \in BOOLEAN, Fit(c, def), NEW s \in Seq(Byte), NEW n \in Nat,
         NEW i \in 0..Len(s), NEW t \in Seq(Byte), Len(t) = i, \A k \in 1..i : t[k] = s[k],
         PushAll(c, s, def, n).ok
  PROVE  /\ PushAll(c, t, def, n).ok
         /\ Extends(PushAll(c, s, def, n).chart, PushAll(c, t, def, n).chart)
<1> DEFINE f == PushedUpTo(c, s, def, n)
           Holds(k) == k < i \/ ((f[k].ok => f[i].ok) /\ Extends(f[k].chart, f[i].chart))
           S == {k \in Nat : Holds(k)}
<1>1. PushAll(c, t, def, n) = f[i]
  <2>1. i \in 0..Len(t) /\ i <= Len(s)
    OBVIOUS
  <2>2. PushedUpTo(c, t, def, n)[i] = PushedUpTo(c, s, def, n)[i]
    BY <2>1, PushedPrefix
  <2> QED BY <2>2 DEF PushAll
<1>2. PushAll(c, s, def, n) = f[Len(s)]
  BY DEF PushAll
<1>3. \A k \in 0..Len(s) : Fit(f[k].chart, def) /\ f[k].ok \in BOOLEAN
  BY PushedFacts DEF Reached
<1>4. /\ f[0] = Ok(c)
      /\ \A k \in 1..Len(s) : f[k] = PushOne(f[k - 1], s[k], def, n + k - 1)
  BY PushedUpToUnfolds
<1> HIDE DEF f
<1>5. Len(s) \in Nat
  OBVIOUS
<1>6. Holds(i)
  <2>1. Good(f[i].chart)
    BY <1>3 DEF Fit
  <2> QED BY <2>1, ExtendsRefl DEF SameRows
<1>7. 0 \in S
  <2>1. CASE i = 0
    BY <1>6, <2>1
  <2>2. CASE i # 0
    BY <2>2
  <2> QED BY <2>1, <2>2
<1>8. ASSUME NEW k \in 0..(Len(s) - 1), k \in S PROVE k + 1 \in S
  <2>1. CASE k + 1 < i
    BY <2>1
  <2>2. CASE k + 1 = i
    BY <1>6, <2>2
  <2>3. CASE i < k + 1
    <3>1. k + 1 \in 1..Len(s) /\ (k + 1) - 1 = k /\ n + (k + 1) - 1 \in Nat /\ ~(k < i)
          /\ k \in 0..Len(s) /\ k + 1 \in 0..Len(s)
      BY <1>5, <2>3
    <3>2. f[k + 1] = PushOne(f[k], s[k + 1], def, n + (k + 1) - 1)
      BY <1>4, <3>1
    <3>3. s[k + 1] \in Byte
      BY <3>1, ElementOfSeq
    <3>4. Fit(f[k].chart, def) /\ f[k].ok \in BOOLEAN
      BY <1>3, <3>1
    <3>5. /\ f[k + 1].ok => f[k].ok
          /\ Extends(f[k + 1].chart, f[k].chart)
          /\ Fit(f[k + 1].chart, def)
      BY <3>1, <3>2, <3>3, <3>4, PushOneFacts
    <3>6. (f[k].ok => f[i].ok) /\ Extends(f[k].chart, f[i].chart)
      BY <1>8, <3>1
    <3>7. Fit(f[i].chart, def)
      BY <1>3
    <3>8. Extends(f[k + 1].chart, f[i].chart)
      BY <3>4, <3>5, <3>6, <3>7, ExtendsTrans DEF Fit
    <3> QED BY <3>5, <3>6, <3>8
  <2> QED BY <2>1, <2>2, <2>3
<1> HIDE DEF S
<1>9. \A k \in 0..Len(s) : k \in S
  BY <1>5, <1>7, <1>8, UpTo
<1>10. Holds(Len(s))
  BY <1>5, <1>9 DEF S
<1> QED BY <1>1, <1>2, <1>5, <1>10

(* A chart that keeps another and pushes at most one entry extends it.      *)
LEMMA KeptExtends ==
  ASSUME NEW c, Good(c), NEW d, NEW def, Keeps(c, d, def),
         \/ d.lexer_stack = c.lexer_stack
         \/ \E e \in LexerState : d.lexer_stack = Append(c.lexer_stack, e)
  PROVE  Extends(d, c)
<1>1. /\ Len(c.lexer_stack) \in Nat \ {0} /\ c.lexer_stack \in Seq(LexerState)
      /\ NumRows(c) = c.lexer_stack[Len(c.lexer_stack)].row_idx
  BY TopFacts DEF Good, ParserChart
<1>2. SameRows(d, c, NumRows(c))
  BY <1>1 DEF Keeps, SameRows
<1>3. CASE d.lexer_stack = c.lexer_stack
  BY <1>1, <1>2, <1>3 DEF Extends
<1>4. ASSUME NEW e \in LexerState, d.lexer_stack = Append(c.lexer_stack, e)
      PROVE  Extends(d, c)
  <2>1. /\ Len(d.lexer_stack) = Len(c.lexer_stack) + 1
        /\ \A i \in 1..Len(c.lexer_stack) : d.lexer_stack[i] = c.lexer_stack[i]
    BY <1>1, <1>4, AppendProperties
  <2> QED BY <1>1, <1>2, <2>1 DEF Extends
<1> QED BY <1>3, <1>4

(* PushAll of no bytes.                                                     *)
LEMMA PushAllNone ==
  ASSUME NEW c, NEW s \in Seq(Byte), s = <<>>, NEW def \in BOOLEAN, NEW n \in Nat
  PROVE  PushAll(c, s, def, n) = Ok(c)
<1>1. PushedUpTo(c, s, def, n)[0] = Ok(c)
  BY PushedFirst
<1>2. Len(s) = 0
  OBVIOUS
<1> QED BY <1>1, <1>2 DEF PushAll

(* PushAll is the last of PushedUpTo.                                       *)
LEMMA PushAllLast ==
  ASSUME NEW c, NEW def \in BOOLEAN, NEW n \in Nat, NEW t \in Seq(Byte),
         NEW m \in 0..Len(t), Len(t) = m + 1,
         NEW s \in Seq(Byte), Len(s) = m, \A k \in 1..m : s[k] = t[k]
  PROVE  PushAll(c, t, def, n) = PushOne(PushAll(c, s, def, n), t[m + 1], def, n + m)
<1>1. PushAll(c, s, def, n) = PushedUpTo(c, t, def, n)[m]
  <2>1. m \in 0..Len(s) /\ m <= Len(t)
    OBVIOUS
  <2>2. PushedUpTo(c, s, def, n)[m] = PushedUpTo(c, t, def, n)[m]
    BY <2>1, PushedPrefix
  <2> QED BY <2>2 DEF PushAll
<1>2. m + 1 \in 1..Len(t) /\ (m + 1) - 1 = m /\ n + (m + 1) - 1 = n + m
  OBVIOUS
<1>3. PushedUpTo(c, t, def, n)[m + 1]
        = PushOne(PushedUpTo(c, t, def, n)[(m + 1) - 1], t[m + 1], def, n + (m + 1) - 1)
  <2> DEFINE i == m + 1
  <2> HIDE DEF i
  <2>1. i \in 1..Len(t)
    BY <1>2 DEF i
  <2>2. PushedUpTo(c, t, def, n)[i] = PushOne(PushedUpTo(c, t, def, n)[i - 1], t[i], def, n + i - 1)
    BY <2>1, PushedNext
  <2> QED BY <2>2 DEF i
<1>4. PushAll(c, t, def, n) = PushedUpTo(c, t, def, n)[m + 1]
  BY DEF PushAll
<1> QED BY <1>1, <1>2, <1>3, <1>4

(* PushAll over one byte more is one push more.                             *)
LEMMA PushAllNext ==
  ASSUME NEW c, NEW s \in Seq(Byte), NEW b \in Byte, NEW def \in BOOLEAN, NEW n \in Nat
  PROVE  PushAll(c, Append(s, b), def, n) = PushOne(PushAll(c, s, def, n), b, def, n + Len(s))
<1> DEFINE m == Len(s)
           t == Append(s, b)
<1>1. /\ t \in Seq(Byte) /\ Len(t) = m + 1 /\ m \in 0..Len(t)
      /\ t[m + 1] = b /\ \A k \in 1..m : s[k] = t[k]
  BY AppendProperties
<1>2. Len(s) = m
  OBVIOUS
<1> HIDE DEF m, t
<1>3. PushAll(c, t, def, n) = PushOne(PushAll(c, s, def, n), t[m + 1], def, n + m)
  BY <1>1, <1>2, PushAllLast
<1> QED BY <1>1, <1>2, <1>3 DEF t

-----------------------------------------------------------------------------
(* The parser and its replay, beyond the new parser given the bytes.        *)
(* Definite: after the end of sequence, if there was one; Walked: the bytes *)
(* of the path after that; Flushed: after flush_lexer() in the walk.        *)

Definite(bs, eos) ==
  IF eos THEN FlushLexer(Fresh(bs).chart, TRUE, Len(bs)).chart ELSE Fresh(bs).chart

Walked(bs, eos, p) == PushAll(Speculative(Definite(bs, eos)), p, FALSE, 0)

Flushed(bs, eos, p) == FlushLexer(Walked(bs, eos, p).chart, FALSE, 0).chart

(* What Fresh(bs) is: sound, unlimited, one entry per byte above the first. *)
LEMMA FreshFacts ==
  ASSUME NEW bs \in Seq(Byte)
  PROVE  /\ Fit(Fresh(bs).chart, TRUE) /\ Fresh(bs).ok \in BOOLEAN
         /\ Fresh(bs).chart.budget = Unlimited
         /\ Fresh(bs).ok => Len(Fresh(bs).chart.lexer_stack) = Len(bs) + 1
<1>1. Good(NewChart) /\ Len(NewChart.lexer_stack) = 1
  BY InitialChartFacts
<1>2. Coherent(NewChart)
  BY DEF NewChart, Coherent
<1>3. Defined(NewChart, TRUE)
  BY InitialChartFacts DEF Defined
<1>4. NewChart.budget = Unlimited
  BY DEF NewChart
<1>5. Reached(NewChart, TRUE, Len(bs), Fresh(bs))
  BY <1>1, <1>2, <1>3, PushAllFacts DEF Fit, Fresh
<1> DEFINE r == Fresh(bs)
<1> HIDE DEF r
<1>6. Reached(NewChart, TRUE, Len(bs), r)
  BY <1>5 DEF r
<1>8. r.ok => Len(r.chart.lexer_stack) = Len(bs) + 1
  <2> DEFINE m == Len(bs)
             h == Len(r.chart.lexer_stack)
  <2>1. m \in Nat
    OBVIOUS
  <2>2. r.ok => h = 1 + m
    BY <1>1, <1>6 DEF Reached
  <2> HIDE DEF m, h
  <2>3. r.ok => h = m + 1
    BY <2>1, <2>2
  <2> QED BY <2>3 DEF m, h
<1>9. Fit(r.chart, TRUE) /\ r.ok \in BOOLEAN /\ r.chart.budget = Unlimited
  BY <1>4, <1>6 DEF Reached
<1> QED BY <1>8, <1>9 DEF r

(* What Definite(bs, eos) is: sound, unlimited, above Fresh(bs).            *)
LEMMA DefiniteFacts ==
  ASSUME NEW bs \in Seq(Byte), NEW eos \in BOOLEAN
  PROVE  /\ Fit(Definite(bs, eos), TRUE)
         /\ Definite(bs, eos).budget = Unlimited
         /\ Extends(Definite(bs, eos), Fresh(bs).chart)
<1> DEFINE c == Fresh(bs).chart
           r == FlushLexer(c, TRUE, Len(bs))
<1>1. Fit(c, TRUE) /\ c.budget = Unlimited
  BY FreshFacts
<1> HIDE DEF c
<1>0. Len(bs) \in Nat
  OBVIOUS
<1>2. Good(c) /\ Coherent(c) /\ Defined(c, TRUE)
  BY <1>1 DEF Fit
<1>3. CASE ~eos
  <2>1. Definite(bs, eos) = c
    BY <1>3 DEF Definite, c
  <2> QED BY <1>1, <1>2, <2>1, ExtendsRefl DEF SameRows, c
<1>4. CASE eos
  <2>1. Definite(bs, eos) = r.chart
    BY <1>4 DEF Definite, c
  <2>2. /\ Good(r.chart) /\ Defined(r.chart, TRUE) /\ Keeps(c, r.chart, TRUE)
        /\ \/ r.chart.lexer_stack = c.lexer_stack
           \/ \E e \in LexerState : r.chart.lexer_stack = Append(c.lexer_stack, e)
    BY <1>0, <1>2, FlushLexerFacts
  <2>3. Sound(c, r)
    BY <1>0, <1>2, FlushSound
  <2> HIDE DEF r
  <2>4. Extends(r.chart, c)
    BY <1>2, <2>2, KeptExtends
  <2> QED BY <1>1, <2>1, <2>2, <2>3, <2>4 DEF Fit, Sound, c
<1> QED BY <1>3, <1>4

(* What Walked(bs, eos, p) is: sound, unlimited, above Definite(bs, eos).   *)
LEMMA WalkedFacts ==
  ASSUME NEW bs \in Seq(Byte), NEW eos \in BOOLEAN, NEW p \in Seq(Byte)
  PROVE  /\ Fit(Walked(bs, eos, p).chart, FALSE) /\ Walked(bs, eos, p).ok \in BOOLEAN
         /\ Walked(bs, eos, p).chart.budget = Unlimited
         /\ Extends(Walked(bs, eos, p).chart, Definite(bs, eos))
         /\ Walked(bs, eos, p).ok =>
              Len(Walked(bs, eos, p).chart.lexer_stack)
                = Len(Definite(bs, eos).lexer_stack) + Len(p)
<1> DEFINE c == Definite(bs, eos)
           d == Speculative(c)
           w == Walked(bs, eos, p)
<1>1. Good(c) /\ Coherent(c) /\ c.budget = Unlimited
  BY DefiniteFacts DEF Fit
<1> HIDE DEF c
<1>2. Extends(d, c) /\ SameHeight(c, d) /\ Fit(d, FALSE) /\ d.budget = Unlimited
  BY <1>1, SpeculativeExtends
<1>3. w = PushAll(d, p, FALSE, 0)
  BY DEF Walked, c
<1> HIDE DEF d, w
<1>4. Reached(d, FALSE, Len(p), w)
  BY <1>2, <1>3, PushAllFacts
<1>5. Extends(w.chart, c)
  BY <1>1, <1>2, <1>4, ExtendsTrans DEF Reached, Fit
<1> QED BY <1>2, <1>4, <1>5 DEF Reached, SameHeight, w, c

(* What Flushed(bs, eos, p) is: sound, unlimited, above the path.           *)
LEMMA FlushedFacts ==
  ASSUME NEW bs \in Seq(Byte), NEW eos \in BOOLEAN, NEW p \in Seq(Byte)
  PROVE  Good(Flushed(bs, eos, p)) /\ Extends(Flushed(bs, eos, p), Walked(bs, eos, p).chart)
<1> DEFINE c == Walked(bs, eos, p).chart
           r == FlushLexer(c, FALSE, 0)
<1>1. Good(c) /\ Coherent(c) /\ Defined(c, FALSE)
  BY WalkedFacts DEF Fit
<1>2. Flushed(bs, eos, p) = r.chart
  BY DEF Flushed
<1> HIDE DEF c
<1>3. /\ Good(r.chart) /\ Keeps(c, r.chart, FALSE)
      /\ \/ r.chart.lexer_stack = c.lexer_stack
         \/ \E e \in LexerState : r.chart.lexer_stack = Append(c.lexer_stack, e)
  BY <1>1, FlushLexerFacts
<1> HIDE DEF r
<1>4. Extends(r.chart, c)
  BY <1>1, <1>3, KeptExtends
<1> QED BY <1>2, <1>3, <1>4 DEF c

(* Charts with the same lexer stack and the same rows in use.               *)
Twin(c, d) == Extends(c, d) /\ SameHeight(c, d)

(* Twins of twins, and what a twin extends.                                 *)
LEMMA TwinTrans ==
  ASSUME NEW c, NEW d, NEW e, Good(c), Good(d), Good(e), Twin(c, d), Twin(d, e)
  PROVE  Twin(c, e)
BY ExtendsTrans DEF Twin, SameHeight

(* A chart is its own twin.                                                 *)
LEMMA TwinRefl ==
  ASSUME NEW c, NEW d, Good(c), c.lexer_stack = d.lexer_stack, SameRows(c, d, NumRows(c))
  PROVE  Twin(c, d) /\ Twin(d, c)
BY ExtendsRefl DEF Twin, SameHeight

(* Twins are twins of each other.                                           *)
LEMMA TwinSym ==
  ASSUME NEW c, NEW d, Good(c), Good(d), Twin(c, d)
  PROVE  Twin(d, c)
<1>1. /\ c.lexer_stack = d.lexer_stack
      /\ SameRows(c, d, NumRows(c)) /\ NumRows(c) = NumRows(d)
  BY ExtendsTwin DEF Twin
<1>2. SameRows(d, c, NumRows(d))
  BY <1>1 DEF SameRows
<1> QED BY <1>1, <1>2, TwinRefl

(* A byte pushed: so it is on the fresh parser.                             *)
LEMMA RestPush ==
  ASSUME NEW bs \in Seq(Byte), Fresh(bs).ok, NEW c, Fit(c, TRUE), Twin(c, Fresh(bs).chart),
         NEW b \in Byte, NEW n \in Nat, TryPushByte(c, b, TRUE, n).ok
  PROVE  /\ Fresh(Append(bs, b)).ok
         /\ Twin(TryPushByte(c, b, TRUE, n).chart, Fresh(Append(bs, b)).chart)
<1> DEFINE d == Fresh(bs).chart
           q == Fresh(Append(bs, b))
           m == Len(bs)
<1>1. m \in Nat /\ 0 \in Nat /\ 0 + m = m
  OBVIOUS
<1>2. Fit(d, TRUE) /\ d.budget = Unlimited
  BY FreshFacts
<1>3. q = PushOne(Fresh(bs), b, TRUE, 0 + m)
  BY PushAllNext DEF Fresh
<1>4. q = TryPushByte(d, b, TRUE, m)
  BY <1>1, <1>3 DEF PushOne
<1> HIDE DEF d, q, m
<1>5. Extends(c, d) /\ SameHeight(c, d)
  BY DEF Twin, d
<1>6. LET r == TryPushByte(c, b, TRUE, n)
          p == TryPushByte(d, b, TRUE, m)
      IN  p.ok /\ Extends(r.chart, p.chart) /\ SameHeight(r.chart, p.chart)
  BY <1>1, <1>2, <1>5, PushExtends
<1> QED BY <1>4, <1>6 DEF Twin, q

(* The end of a lexeme.                                                     *)
LEMMA TwinFlush ==
  ASSUME NEW c, NEW def \in BOOLEAN, Fit(c, def), c.budget = Unlimited, NEW n \in Nat,
         NEW d, NEW def2 \in BOOLEAN, Fit(d, def2), d.budget = Unlimited, NEW n2 \in Nat,
         Twin(c, d)
  PROVE  LET r == FlushLexer(c, def, n)
             q == FlushLexer(d, def2, n2)
         IN  r.ok = q.ok /\ Twin(r.chart, q.chart)
<1> DEFINE r == FlushLexer(c, def, n)
           q == FlushLexer(d, def2, n2)
<1>1. /\ Good(c) /\ Coherent(c) /\ Defined(c, def)
      /\ Good(d) /\ Coherent(d) /\ Defined(d, def2)
  BY DEF Fit
<1>2. c.lexer_stack = d.lexer_stack /\ SameRows(c, d, NumRows(c))
  BY <1>1, ExtendsTwin DEF Twin
<1>3. /\ r.ok = q.ok
      /\ r.chart.lexer_stack = q.chart.lexer_stack
      /\ SameRows(r.chart, q.chart, NumRows(r.chart))
  BY <1>1, <1>2, FlushSame
<1>4. Good(r.chart)
  BY <1>1, FlushLexerFacts
<1> QED BY <1>3, <1>4, TwinRefl

(* What is flushed extends what it was, and is its twin if nothing was      *)
(* pushed.                                                                  *)
LEMMA FlushFacts ==
  ASSUME NEW c, NEW def \in BOOLEAN, Fit(c, def), NEW n \in Nat,
         NEW r, r = FlushLexer(c, def, n)
  PROVE  /\ Fit(r.chart, def)
         /\ c.budget = Unlimited => r.chart.budget = Unlimited
         /\ Extends(r.chart, c)
         /\ Len(r.chart.lexer_stack) = Len(c.lexer_stack) => Twin(r.chart, c)
         /\ ~r.ok => Twin(r.chart, c)
<1>1. Good(c) /\ Coherent(c) /\ Defined(c, def)
  BY DEF Fit
<1>2. /\ Good(r.chart) /\ Defined(r.chart, def) /\ Keeps(c, r.chart, def)
      /\ \/ r.chart.lexer_stack = c.lexer_stack
         \/ r.ok /\ \E e \in LexerState : r.chart.lexer_stack = Append(c.lexer_stack, e)
  BY <1>1, FlushLexerFacts
<1>3. Sound(c, r)
  BY <1>1, FlushSound
<1>4. Extends(r.chart, c)
  BY <1>1, <1>2, KeptExtends
<1>5. ~r.ok => r.chart.lexer_stack = c.lexer_stack
  BY <1>2
<1> QED BY <1>2, <1>3, <1>4, <1>5 DEF Fit, Sound, Twin, SameHeight

(* A rollback, on any parser that extends the fresh one.                    *)
LEMMA RestTruncate ==
  ASSUME NEW bs \in Seq(Byte), Fresh(bs).ok, NEW c, Good(c), Coherent(c),
         Extends(c, Fresh(bs).chart), NEW i \in 0..Len(bs), i + 1 \in 1..Len(c.lexer_stack),
         NEW t \in Seq(Byte), Len(t) = i, \A k \in 1..i : t[k] = bs[k],
         NEW d, d = [c EXCEPT !.lexer_stack = SubSeq(@, 1, i + 1)]
  PROVE  Fresh(t).ok /\ Twin(d, Fresh(t).chart)
<1> DEFINE f == Fresh(bs).chart
           g == Fresh(t).chart
<1>1. Good(NewChart) /\ Fit(NewChart, TRUE)
  BY InitialChartFacts DEF Fit, Coherent, NewChart, Defined
<1>2. Fresh(t).ok /\ Extends(f, g)
  BY <1>1, PushAllExtends DEF Fresh
<1>3. Good(f) /\ Good(g) /\ Len(g.lexer_stack) = i + 1
  BY <1>2, FreshFacts DEF Fit
<1>4. Extends(c, d) /\ Fit(d, FALSE) /\ Len(d.lexer_stack) = i + 1 /\ Good(d)
  BY TruncateExtends, TruncateFacts DEF Fit
<1> HIDE DEF f, g
<1>5. Extends(c, g)
  BY <1>2, <1>3, ExtendsTrans DEF f
<1>6. Extends(d, g)
  <2>1. i + 1 \in Nat /\ i + 1 <= i + 1
    OBVIOUS
  <2>2. Len(g.lexer_stack) <= Len(d.lexer_stack)
    BY <1>3, <1>4, <2>1
  <2> QED BY <1>3, <1>4, <1>5, <2>2, ExtendsDown
<1> QED BY <1>2, <1>3, <1>4, <1>6 DEF Twin, SameHeight, g

(* The same in a walk: pop_bytes().                                         *)
LEMMA PathTruncate ==
  ASSUME NEW bs \in Seq(Byte), NEW eos \in BOOLEAN, NEW p \in Seq(Byte),
         Walked(bs, eos, p).ok, NEW c, Good(c), Coherent(c),
         Extends(c, Walked(bs, eos, p).chart),
         NEW h \in Nat \ {0}, h = Len(Definite(bs, eos).lexer_stack),
         NEW i \in 0..Len(p), h + i <= Len(c.lexer_stack),
         NEW t \in Seq(Byte), Len(t) = i, \A k \in 1..i : t[k] = p[k],
         NEW d, d = [c EXCEPT !.lexer_stack = SubSeq(@, 1, h + i)]
  PROVE  /\ Walked(bs, eos, t).ok
         /\ Twin(d, Walked(bs, eos, t).chart)
<1> DEFINE s == Speculative(Definite(bs, eos))
           f == Walked(bs, eos, p).chart
           g == Walked(bs, eos, t).chart
<1>1. Fit(s, FALSE)
  BY DefiniteFacts, SpeculativeExtends DEF Fit
<1>2. Walked(bs, eos, t).ok /\ Extends(f, g)
  BY <1>1, PushAllExtends DEF Walked
<1>3. Good(f) /\ Good(g) /\ Len(g.lexer_stack) = h + i
  BY <1>2, WalkedFacts DEF Fit
<1>4. h + i \in 1..Len(c.lexer_stack)
  BY TopFacts
<1>5. Extends(c, d) /\ Len(d.lexer_stack) = h + i /\ Good(d)
  BY <1>4, TruncateExtends, TruncateFacts DEF Fit
<1> HIDE DEF f, g
<1>6. Extends(c, g)
  BY <1>2, <1>3, ExtendsTrans DEF f
<1>7. Extends(d, g)
  <2>1. h + i \in Nat /\ h + i <= h + i
    OBVIOUS
  <2>2. Len(g.lexer_stack) <= Len(d.lexer_stack)
    BY <1>3, <1>5, <2>1
  <2> QED BY <1>3, <1>5, <1>6, <2>2, ExtendsDown
<1> QED BY <1>2, <1>3, <1>5, <1>7 DEF Twin, SameHeight, g

(* A byte the walk takes.                                                   *)
LEMMA PathPush ==
  ASSUME NEW bs \in Seq(Byte), NEW eos \in BOOLEAN, NEW p \in Seq(Byte),
         Walked(bs, eos, p).ok, NEW c, Fit(c, FALSE), Twin(c, Walked(bs, eos, p).chart),
         NEW b \in Byte, NEW n \in Nat, TryPushByte(c, b, FALSE, n).ok
  PROVE  /\ Walked(bs, eos, Append(p, b)).ok
         /\ Twin(TryPushByte(c, b, FALSE, n).chart, Walked(bs, eos, Append(p, b)).chart)
<1> DEFINE d == Walked(bs, eos, p).chart
           q == Walked(bs, eos, Append(p, b))
           m == Len(p)
<1>1. m \in Nat /\ 0 \in Nat /\ 0 + m = m
  OBVIOUS
<1>2. Fit(d, FALSE) /\ d.budget = Unlimited
  BY WalkedFacts
<1>3. q = PushOne(Walked(bs, eos, p), b, FALSE, 0 + m)
  BY PushAllNext DEF Walked
<1>4. q = TryPushByte(d, b, FALSE, m)
  BY <1>1, <1>3 DEF PushOne
<1> HIDE DEF d, q, m
<1>5. Extends(c, d) /\ SameHeight(c, d)
  BY DEF Twin, d
<1>6. LET r == TryPushByte(c, b, FALSE, n)
          a == TryPushByte(d, b, FALSE, m)
      IN  a.ok /\ Extends(r.chart, a.chart) /\ SameHeight(r.chart, a.chart)
  BY <1>1, <1>2, <1>5, PushExtends
<1> QED BY <1>4, <1>6 DEF Twin, q

(* A byte refused: nothing in use has changed.                              *)
LEMMA TwinRefused ==
  ASSUME NEW c, NEW def \in BOOLEAN, Fit(c, def), NEW b \in Byte, NEW n \in Nat,
         NEW r, r = TryPushByte(c, b, def, n)
  PROVE  /\ Fit(r.chart, def) /\ Coherent(r.chart)
         /\ c.budget = Unlimited => r.chart.budget = Unlimited
         /\ ~r.ok => Twin(r.chart, c)
<1>1. Good(c) /\ Coherent(c) /\ Defined(c, def) /\ Len(c.lexer_stack) \in Nat
  BY TopFacts DEF Fit
<1>2. Outcome(c, r, def)
  BY <1>1, TryPushByteFacts
<1>3. Sound(c, r)
  BY <1>1, TryPushByteSound
<1>4. /\ Extends(r.chart, c)
      /\ ~r.ok => Len(r.chart.lexer_stack) = Len(c.lexer_stack) + 0
  BY <1>1, <1>2, OutcomeExtends
<1> QED BY <1>1, <1>2, <1>3, <1>4 DEF Fit, Sound, Twin, SameHeight, Outcome

(* Another budget makes a twin.                                             *)
LEMMA BudgetTwin ==
  ASSUME NEW c, Good(c), Coherent(c), NEW b \in Nat \cup {Unlimited},
         NEW d, d = [c EXCEPT !.budget = b]
  PROVE  /\ Twin(d, c) /\ Good(d) /\ Coherent(d) /\ d.budget = b
         /\ \A def : Defined(c, def) => Defined(d, def)
BY BudgetExtends DEF Twin, SameHeight

(* A chart ready to be walked, with no limit on items.                      *)
Walkable(c) == Fit(c, FALSE) /\ c.budget = Unlimited

(* Two results that are alike: both charts advanced to charts that are      *)
(* alike, or neither did.                                                   *)
SameResult(r, q) ==
  /\ Walkable(r.chart) /\ Walkable(q.chart)
  /\ r.ok \in BOOLEAN /\ q.ok = r.ok
  /\ r.ok => Alike(r.chart, q.chart)

(* Looking alike is symmetric.                                              *)
LEMMA AlikeSym ==
  ASSUME NEW c, NEW d, Alike(c, d)
  PROVE  Alike(d, c)
BY DEF Alike, SameRows

(* A byte tried on charts that are alike.                                   *)
LEMMA TryPushByteSame ==
  ASSUME NEW c, NEW d, Walkable(c), Walkable(d), Alike(c, d), NEW b \in Byte,
         NEW n \in Nat, NEW n2 \in Nat
  PROVE  SameResult(TryPushByte(c, b, FALSE, n), TryPushByte(d, b, FALSE, n2))
<1> DEFINE r == TryPushByte(c, b, FALSE, n)
           q == TryPushByte(d, b, FALSE, n2)
<1>1. /\ Good(c) /\ Coherent(c) /\ Defined(c, FALSE) /\ c.budget = Unlimited
      /\ Good(d) /\ Coherent(d) /\ Defined(d, FALSE) /\ d.budget = Unlimited
  BY DEF Walkable, Fit
<1>2. Outcome(c, r, FALSE) /\ Outcome(d, q, FALSE)
  BY <1>1, TryPushByteFacts
<1>3. Sound(c, r) /\ Sound(d, q)
  BY <1>1, TryPushByteSound
<1>4. FareAlike(c, r, d, q) /\ FareAlike(d, q, c, r)
  BY <1>1, AlikeSym, TryPushByteAlike
<1> HIDE DEF r, q
<1>5. Walkable(r.chart) /\ Walkable(q.chart)
  BY <1>1, <1>2, <1>3 DEF Walkable, Fit, Outcome, Sound
<1>6. r.ok \in BOOLEAN /\ q.ok \in BOOLEAN
  BY <1>2 DEF Outcome
<1>7. r.ok <=> q.ok
  <2>1. r.chart.budget # 0 /\ q.chart.budget # 0
    BY <1>5, UnlimitedIsNotZero DEF Walkable
  <2> QED BY <1>4, <1>6, <2>1 DEF FareAlike
<1>8. ASSUME r.ok PROVE Alike(r.chart, q.chart)
  <2>1. PICK e \in LexerState : /\ r.chart.lexer_stack = Append(c.lexer_stack, e)
                                /\ q.chart.lexer_stack = Append(d.lexer_stack, e)
                                /\ SameRows(r.chart, q.chart, e.row_idx)
    BY <1>4, <1>7, <1>8 DEF FareAlike
  <2>2. Top(r.chart) = e /\ Top(q.chart) = e
    <3>1. c.lexer_stack \in Seq(LexerState) /\ d.lexer_stack \in Seq(LexerState)
      BY <1>1 DEF Good, ParserChart
    <3>2. \A s \in Seq(LexerState) : \A t : t = Append(s, e) => Last(t) = e
      BY AppendProperties DEF Last
    <3> QED BY <2>1, <3>1, <3>2 DEF Top
  <2> QED BY <2>1, <2>2 DEF Alike, NumRows
<1> QED BY <1>5, <1>6, <1>7, <1>8, Zenon DEF SameResult, r, q

(* One push more on results that look alike.                                *)
LEMMA PushOneSame ==
  ASSUME NEW r, NEW q, SameResult(r, q), NEW b \in Byte, NEW n \in Nat, NEW n2 \in Nat,
         NEW def, def = FALSE
  PROVE  SameResult(PushOne(r, b, def, n), PushOne(q, b, def, n2))
<1>1. CASE r.ok
  <2>1. SameResult(TryPushByte(r.chart, b, FALSE, n), TryPushByte(q.chart, b, FALSE, n2))
    BY <1>1, TryPushByteSame DEF SameResult
  <2>2. q.ok
    BY <1>1 DEF SameResult
  <2> QED BY <1>1, <2>1, <2>2 DEF PushOne
<1>2. CASE ~r.ok
  BY <1>2 DEF SameResult, PushOne
<1> QED BY <1>1, <1>2

(* Bytes tried one by one on charts that are alike.                         *)
LEMMA PushAllSame ==
  ASSUME NEW c, NEW d, Walkable(c), Walkable(d), Alike(c, d), NEW s \in Seq(Byte), NEW n \in Nat,
         NEW def, def = FALSE
  PROVE  SameResult(PushAll(c, s, def, n), PushAll(d, s, def, n))
<1> DEFINE f == PushedUpTo(c, s, def, n)
           g == PushedUpTo(d, s, def, n)
           S == {k \in Nat : SameResult(f[k], g[k])}
           m == Len(s)
<1>1. m \in Nat
  OBVIOUS
<1>2. /\ f[0] = Ok(c)
      /\ \A k \in 1..Len(s) : f[k] = PushOne(f[k - 1], s[k], def, n + k - 1)
  BY PushedUpToUnfolds
<1>3. /\ g[0] = Ok(d)
      /\ \A k \in 1..Len(s) : g[k] = PushOne(g[k - 1], s[k], def, n + k - 1)
  BY PushedUpToUnfolds
<1> HIDE DEF f, g
<1>4. 0 \in S
  <2>1. SameResult(Ok(c), Ok(d))
    BY DEF SameResult, Ok
  <2> QED BY <1>2, <1>3, <2>1
<1>5. ASSUME NEW k \in 0..(m - 1), k \in S PROVE k + 1 \in S
  <2> DEFINE i == k + 1
  <2>1. i \in 1..m /\ i - 1 = k /\ n + i - 1 \in Nat /\ i \in Nat
    BY <1>1
  <2> HIDE DEF i
  <2>2. f[i] = PushOne(f[i - 1], s[i], def, n + i - 1)
    BY <1>2, <2>1
  <2>3. g[i] = PushOne(g[i - 1], s[i], def, n + i - 1)
    BY <1>3, <2>1
  <2>4. s[i] \in Byte
    BY <2>1, ElementOfSeq
  <2>5. SameResult(f[i], g[i])
    BY <1>5, <2>1, <2>2, <2>3, <2>4, PushOneSame
  <2> QED BY <2>1, <2>5 DEF i
<1> HIDE DEF S
<1>6. \A k \in 0..m : k \in S
  BY <1>1, <1>4, <1>5, UpTo
<1>7. m \in S
  BY <1>1, <1>6
<1> QED BY <1>7 DEF S, PushAll, f, g

(* What a walk from here would find depends on the lexer state and the rows *)
(* in use only.                                                             *)
LEMMA AllowsSame ==
  ASSUME NEW c, NEW d, Good(c), Coherent(c), Good(d), Coherent(d), Alike(c, d),
         c.budget = Unlimited, d.budget = Unlimited, NEW s \in Seq(Byte)
  PROVE  Allows(c, s) = Allows(d, s)
<1> DEFINE a == Speculative(c)
           b == Speculative(d)
<1>1. Twin(a, c) /\ Twin(d, b) /\ Twin(b, d) /\ Walkable(a) /\ Walkable(b)
  BY SpeculativeExtends DEF Twin, SameHeight, Walkable
<1> HIDE DEF a, b
<1>2. Good(a) /\ Good(b)
  BY <1>1 DEF Walkable, Fit
<1>3. Alike(a, c) /\ Alike(d, b)
  BY <1>1, <1>2, ExtendsTwin DEF Twin
<1>4. Alike(a, b)
  BY <1>3 DEF Alike, SameRows
<1>5. SameResult(PushAll(a, s, FALSE, 0), PushAll(b, s, FALSE, 0))
  BY <1>1, <1>4, PushAllSame
<1> QED BY <1>5 DEF SameResult, Allows, a, b

(* The chart with the rows of c up to the k-th in use, in lexer state s.    *)
At(c, k, s) == [c EXCEPT !.lexer_stack = <<Entry(k, s, NoByte)>>]

(* The chart cut at a row in use, in any lexer state, is in order.          *)
LEMMA AtFacts ==
  ASSUME NEW c, Good(c), Coherent(c), NEW k \in 1..NumRows(c), NEW s \in StateID
  PROVE  /\ Good(At(c, k, s)) /\ Coherent(At(c, k, s))
         /\ NumRows(At(c, k, s)) = k /\ Top(At(c, k, s)).lexer_state = s
         /\ At(c, k, s).rows = c.rows
<1> DEFINE d == At(c, k, s)
           e == Entry(k, s, NoByte)
           stack == <<e>>
<1>1. /\ c \in ParserChart /\ NumRows(c) \in Nat /\ c.rows_valid_end \in Nat
      /\ NumRows(c) <= c.rows_valid_end /\ c.rows_valid_end <= Len(c.rows)
  BY TopFacts DEF Good, ParserChart
<1>2. e \in LexerState /\ e.row_idx = k /\ e.lexer_state = s
  BY <1>1 DEF Entry, LexerState
<1> HIDE DEF e
<1>3. stack \in Seq(LexerState) /\ Len(stack) = 1 /\ stack[1] = e
  BY <1>2
<1>4. d = [c EXCEPT !.lexer_stack = stack]
  BY DEF At, e
<1> HIDE DEF stack, d
<1>5. /\ d \in ParserChart /\ d.lexer_stack = stack /\ d.rows = c.rows
      /\ d.rows_valid_end = c.rows_valid_end
  BY <1>1, <1>3, <1>4 DEF ParserChart
<1>6. Good(d)
  <2>1. k \in Nat /\ k <= c.rows_valid_end
    BY <1>1
  <2>2. stack # <<>>
    BY <1>3
  <2>3. \A i \in 1..Len(stack) : i = 1 /\ stack[i] = e
    BY <1>3
  <2>4. \A i, j \in 1..Len(stack) : i <= j => stack[i].row_idx <= stack[j].row_idx
    BY <1>2, <2>1, <2>3
  <2>5. stack[Len(stack)].row_idx <= d.rows_valid_end /\ d.rows_valid_end <= Len(d.rows)
    BY <1>1, <1>2, <1>3, <1>5, <2>1
  <2> QED BY <1>5, <2>2, <2>4, <2>5 DEF Good
<1>7. Coherent(d)
  BY <1>1, <1>5, CoherentSame
<1>8. Top(d) = e
  BY <1>3, <1>5, <1>6, TopFacts
<1> QED BY <1>2, <1>5, <1>6, <1>7, <1>8 DEF d, NumRows

-----------------------------------------------------------------------------
(* The lexer follows the parser.  A lexeme that the lexer may still find is *)
(* one that the row expects, or the skip lexeme: so a lexeme that is found  *)
(* always leads to a row with items in it.                                  *)
Expected(items) == WithSkipLexeme(AllowedLexemes(items))

RowTracked(row) == Possible(row.lexer_start_state) \subseteq Expected(row.items)

Tracked(c) ==
  /\ RowTracked(CurrRow(c))
  /\ Possible(Top(c).lexer_state) \subseteq Expected(CurrRow(c).items)

(* What matches is possible, and no byte makes another lexeme possible.     *)
LEMMA PossibleFacts ==
  ASSUME NEW s \in StateID, NEW b
  PROVE  /\ Possible(Transition(s, b)) \subseteq Possible(s)
         /\ GreedyAccepting(s) \subseteq Possible(s)
         /\ LazyAccepting(s) \subseteq Possible(s)
<1>1. ASSUME NEW l \in Possible(Transition(s, b))
      PROVE  l \in Possible(s)
  <2>1. PICK e \in Transition(s, b) : l = e[1]
    BY DEF Possible
  <2>2. PICK d \in s : e = <<d[1], Derivative[d[2], b]>>
    BY <2>1 DEF Transition
  <2>3. l = d[1]
    BY <2>1, <2>2
  <2> QED BY <2>2, <2>3 DEF Possible
<1>2. GreedyAccepting(s) \subseteq Possible(s)
  BY DEF GreedyAccepting, Possible
<1>3. LazyAccepting(s) \subseteq Possible(s)
  <2>1. \A l \in GreedyAccepting(s) : l \in Possible(s)
    BY <1>2
  <2> HIDE DEF GreedyAccepting
  <2> QED BY <2>1 DEF LazyAccepting
<1> QED BY <1>1, <1>2, <1>3

(* A lexer starts with the lexemes it is given.                             *)
LEMMA PossibleAtStart ==
  ASSUME NEW selected
  PROVE  Possible(InitialState(selected)) \subseteq selected
<1> SUFFICES ASSUME NEW l \in Possible(InitialState(selected))
             PROVE  l \in selected
  OBVIOUS
<1>1. PICK e \in InitialState(selected) : l = e[1]
  BY DEF Possible
<1>2. PICK m \in selected : e = <<m, RxList[m]>>
  BY <1>1 DEF InitialState
<1> QED BY <1>1, <1>2

(* A row that a scan computes is tracked, also the copy of a skipped row.   *)
LEMMA ScannedTracked ==
  ASSUME NEW c, Good(c), RowTracked(CurrRow(c)), NEW idx
  PROVE  RowTracked(ScannedRow(c, idx))
<1>1. ASSUME NEW items PROVE RowTracked(ParsedRow(items, idx))
  <2>1. Possible(RowStartState(items)) \subseteq Expected(items)
    BY PossibleAtStart DEF RowStartState, Expected
  <2> QED BY <2>1 DEF ParsedRow, EarleyRow, RowTracked
<1>2. RowTracked(SkippedRow(CurrRow(c), idx))
  <2> DEFINE start == CurrRow(c).lexer_start_state
  <2>1. Possible(AfterSkip(start)) \subseteq Possible(start)
    <3>1. Possible(InitialState(Possible(start) \ {SkipLexeme})) \subseteq Possible(start)
      BY PossibleAtStart
    <3> QED BY <3>1 DEF AfterSkip
  <2>2. Possible(start) \subseteq Expected(CurrRow(c).items)
    BY DEF RowTracked
  <2> HIDE DEF start
  <2>3. Possible(AfterSkip(start)) \subseteq Expected(CurrRow(c).items)
    BY <2>1, <2>2
  <2> QED BY <2>3 DEF SkippedRow, EarleyRow, RowTracked, start
<1> QED BY <1>1, <1>2 DEF ScannedRow

(* Scanning a lexeme that is expected leads to some item.                   *)
LEMMA ScanProgress ==
  ASSUME NEW c, Good(c), NEW idx,
         NEW l \in LexemesFromIdx(idx), l \in Expected(CurrRow(c).items)
  PROVE  ScannedRow(c, idx).items # {}
<1> DEFINE items == CurrRow(c).items
           n == NumRows(c)
           sets == [k \in 1..n |-> c.rows[k].items]
<1>1. items \in SUBSET Item /\ n \in Nat \ {0}
  BY TopFacts DEF Row
<1>2. AllowedLexemes(items) # {}
  BY DEF Expected, WithSkipLexeme
<1>3. CASE SkipLexeme \in LexemesFromIdx(idx)
  <2>1. items # {}
    BY <1>2 DEF AllowedLexemes
  <2>2. ScannedRow(c, idx).items = items
    BY <1>3 DEF ScannedRow, SkippedRow, EarleyRow
  <2> QED BY <2>1, <2>2
<1>4. CASE SkipLexeme \notin LexemesFromIdx(idx)
  <2>1. l \in AllowedLexemes(items)
    BY <1>2, <1>4 DEF Expected, WithSkipLexeme
  <2>2. PICK t \in Terminal : LexemeOf[t] = l /\ \E i \in items : HasAfterDot(i, t)
    BY <2>1 DEF AllowedLexemes
  <2>3. PICK i \in items : HasAfterDot(i, t)
    BY <2>2
  <2>4. sets[Len(sets)] = items
    <3>1. Len(sets) = n
      BY <1>1
    <3>2. n \in 1..n
      BY <1>1
    <3>3. sets[n] = c.rows[n].items
      BY <3>2
    <3> QED BY <3>1, <3>3 DEF CurrRow
  <2> DEFINE scanned == {j \in sets[Len(sets)] :
                           \E u \in Terminal : HasAfterDot(j, u)
                                               /\ LexemeOf[u] \in LexemesFromIdx(idx)}
             base == {AdvanceDot(j) : j \in scanned}
  <2>5. i \in scanned
    BY <2>2, <2>3, <2>4
  <2>6. AdvanceDot(i) \in base
    BY <2>5
  <2>7. AdvanceDot(i) \in Item
    BY <1>1 DEF AdvanceDot, Item
  <2>8. ScanItems(sets, LexemesFromIdx(idx)) = ProcessAgenda(base, sets, Len(sets) + 1)
    BY DEF ScanItems
  <2> HIDE DEF base, scanned, sets
  <2>9. AdvanceDot(i) \in ScanItems(sets, LexemesFromIdx(idx))
    BY <2>6, <2>7, <2>8 DEF ProcessAgenda
  <2>10. ScannedRow(c, idx).items = ScanItems(sets, LexemesFromIdx(idx))
    BY <1>4 DEF ScannedRow, ParsedRow, EarleyRow, sets
  <2> QED BY <2>9, <2>10
<1> QED BY <1>3, <1>4

-----------------------------------------------------------------------------
(* advance_parser() on a tracked chart.                                     *)
Exact(c) == NumRows(c) = Len(c.row_infos)

(* What is at the top after a push.                                         *)
LEMMA PushedTop ==
  ASSUME NEW c, NEW s \in Seq(LexerState), NEW e \in LexerState,
         c.lexer_stack = Append(s, e)
  PROVE  Top(c) = e /\ NumRows(c) = e.row_idx /\ CurrRow(c) = c.rows[e.row_idx]
<1>1. Len(c.lexer_stack) = Len(s) + 1 /\ c.lexer_stack[Len(s) + 1] = e
  BY AppendProperties
<1>2. Top(c) = e
  BY <1>1 DEF Top, Last
<1> QED BY <1>2 DEF NumRows, CurrRow

(* When AdvanceWithin advances, and what it does to labels and row_infos.   *)
LEMMA AdvanceWithinMore ==
  ASSUME NEW c, NEW def \in BOOLEAN, Fit(c, def), NEW n \in Nat, NEW pre \in PreLexemes
  PROVE  LET r == AdvanceWithin(c, pre, def, n) IN
         /\ r.ok <=> c.budget # 0 /\ ScannedRow(c, pre.idx).items # {}
         /\ ~r.ok => r.chart = c
         /\ r.ok /\ RowTracked(CurrRow(c)) => Tracked(r.chart)
         /\ r.ok /\ def => Exact(r.chart)
<1> DEFINE added == AddRow(c, pre.idx, def, n)
           e == AddedEntry(added.chart, NoByte)
           r == AdvanceWithin(c, pre, def, n)
           m == NumRows(c) + 1
           row == ScannedRow(c, pre.idx)
<1>1. pre.idx \in MatchingLexemesIdx
  BY DEF PreLexemes
<1>2. /\ RowAdded(c, added, def)
      /\ added.ok <=> c.budget # 0 /\ row.items # {}
      /\ added.ok => added.chart.rows[m] = row
      /\ ~added.ok => added.chart = c
  BY <1>1, AddRowScans, AddRowFacts DEF Fit
<1>3. CASE ~added.ok
  <2>1. r = added
    BY <1>3 DEF AdvanceWithin, StartAfresh
  <2> QED BY <1>2, <1>3, <2>1
<1>4. CASE added.ok
  <2>1. r = Ok(PushLexerState(added.chart, e))
    BY <1>4 DEF AdvanceWithin, StartAfresh
  <2>2. e \in LexerState /\ e.row_idx = m
    BY <1>2, <1>4, AddedEntryFacts DEF Fit
  <2>3. added.chart \in ParserChart /\ added.chart.lexer_stack = c.lexer_stack
    BY <1>2 DEF RowAdded
  <2>4. e.lexer_state = row.lexer_start_state
    <3>1. NumRows(added.chart) = NumRows(c)
      BY <2>3 DEF NumRows, Top
    <3> QED BY <1>2, <1>4, <3>1 DEF AddedEntry, Entry, TransitionStartState
  <2>5. c.lexer_stack \in Seq(LexerState)
    BY <2>3 DEF ParserChart
  <2>6. def => Len(added.chart.row_infos) = m
    BY <1>2, <1>4 DEF RowAdded
  <2>7. RowTracked(CurrRow(c)) => RowTracked(row)
    BY ScannedTracked DEF Fit
  <2> HIDE DEF e, m, row, added
  <2>8. r.ok /\ r.chart = PushLexerState(added.chart, e)
    BY <2>1 DEF Ok
  <2> HIDE DEF r
  <2>9. /\ r.chart.lexer_stack = Append(c.lexer_stack, e)
        /\ r.chart.rows = added.chart.rows /\ r.chart.row_infos = added.chart.row_infos
    BY <2>3, <2>8, PushLexerStateFacts
  <2>10. Top(r.chart) = e /\ NumRows(r.chart) = m /\ CurrRow(r.chart) = row
    BY <1>2, <1>4, <2>2, <2>5, <2>9, PushedTop
  <2>11. RowTracked(CurrRow(c)) => Tracked(r.chart)
    BY <2>4, <2>7, <2>10 DEF Tracked, RowTracked
  <2>12. def => Exact(r.chart)
    BY <2>6, <2>9, <2>10 DEF Exact
  <2> QED BY <1>2, <1>4, <2>8, <2>11, <2>12 DEF r, row
<1> QED BY <1>3, <1>4

(* A byte that is a whole lexeme is one that matches.                       *)
LEMMA ForcedEnd ==
  ASSUME NEW s \in StateID, ForcedEOI(s)
  PROVE  GreedyAccepting(s) # {}
<1>1. EOI \in NextByteOptions(s)
  BY DEF ForcedEOI
<1>2. PICK e \in s : EOI \in RxNextByte(e[2])
  BY <1>1 DEF NextByteOptions
<1>3. e[2] \in Nullable
  BY <1>2, ByteAssumption DEF RxNextByte
<1>4. e[1] \in GreedyAccepting(s)
  BY <1>3 DEF GreedyAccepting
<1> QED BY <1>4

(* A lexeme that matches can be scanned.                                    *)
LEMMA MatchProgress ==
  ASSUME NEW c, Good(c), NEW s \in StateID, Possible(s) \subseteq Expected(CurrRow(c).items),
         NEW idx, idx.state = s, NEW how \in {"greedy", "lazy"}, idx.match = how,
         IF how = "greedy" THEN GreedyAccepting(s) # {} ELSE HasLowestMatch(s)
  PROVE  ScannedRow(c, idx).items # {}
<1>1. LexemesFromIdx(idx) \subseteq Possible(s)
  BY PossibleFacts DEF LexemesFromIdx
<1>2. LexemesFromIdx(idx) # {}
  BY DEF LexemesFromIdx, HasLowestMatch
<1>3. PICK l \in LexemesFromIdx(idx) : TRUE
  BY <1>2
<1>4. l \in Expected(CurrRow(c).items)
  BY <1>1, <1>3
<1> QED BY <1>4, ScanProgress

(* When AdvanceAcross advances, and what it does to labels and row_infos.   *)
LEMMA AdvanceAcrossMore ==
  ASSUME NEW c, NEW def \in BOOLEAN, Fit(c, def), NEW n \in Nat,
         NEW pre \in PreLexemes, pre.byte \in Byte
  PROVE  LET r == AdvanceAcross(c, pre, def, n) IN
         /\ c.budget = 0 => ~r.ok /\ r.chart = c
         /\ RowTracked(CurrRow(c)) /\ r.ok => Tracked(r.chart)
         /\ RowTracked(CurrRow(c)) /\ def /\ Exact(c) => Exact(r.chart) \/ r.chart.budget = 0
<1> DEFINE added == AddRow(c, pre.idx, def, n)
           r == AdvanceAcross(c, pre, def, n)
           fixed == FixedChart(c, pre, def, n)
           entry == NextEntry(c, pre, def, n)
           first == FirstChart(c, pre, def, n)
           inner == InnerResult(c, pre, def, n)
           m == NumRows(c) + 1
           row == ScannedRow(c, pre.idx)
           t == entry.lexer_state
<1>1. pre.idx \in MatchingLexemesIdx
  BY DEF PreLexemes
<1>2. /\ RowAdded(c, added, def)
      /\ added.ok <=> c.budget # 0 /\ row.items # {}
      /\ added.ok => added.chart.rows[m] = row
      /\ ~added.ok => added.chart = c
  BY <1>1, AddRowScans, AddRowFacts DEF Fit
<1>0. Good(c) /\ Coherent(c) /\ Defined(c, def)
  BY DEF Fit
<1>3. c \in ParserChart /\ c.lexer_stack \in Seq(LexerState) /\ NumRows(c) \in Nat
  BY <1>0, TopFacts DEF Good, ParserChart
<1>4. CASE ~added.ok
  <2>1. r = added
    BY <1>4, AcrossCases, ZenonT(60)
  <2> QED BY <1>2, <1>4, <2>1
<1>5. CASE added.ok
  <2>1. /\ entry \in LexerState /\ entry.row_idx = m
        /\ fixed \in ParserChart /\ fixed.lexer_stack = c.lexer_stack
        /\ fixed.rows = added.chart.rows
        /\ def => Len(fixed.row_infos) = m
        /\ Good(first) /\ Coherent(first) /\ Defined(first, def)
        /\ Top(first).lexer_state = t
        /\ NumRows(first) = m
        /\ first.rows = fixed.rows
        /\ SecondLexeme(c, pre, def, n) \in PreLexemes
    BY <1>0, <1>5, AcrossParts
  <2>2. t = Transition(row.lexer_start_state, pre.byte)
    <3>1. NumRows(added.chart) = NumRows(c)
      BY <1>2 DEF RowAdded, NumRows, Top
    <3>2. pre.byte # NoByte
      BY NoByteAssumption
    <3> QED BY <1>2, <1>5, <3>1, <3>2 DEF NextEntry, AddedEntry, Entry, TransitionStartState
  <2>3. RowTracked(CurrRow(c)) => RowTracked(row) /\ Possible(t) \subseteq Expected(row.items)
    <3>1. row.lexer_start_state \in StateID
      BY <1>0, <1>1, ScannedRowType DEF Row
    <3>2. Possible(t) \subseteq Possible(row.lexer_start_state)
      BY <2>2, <3>1, PossibleFacts
    <3>3. RowTracked(CurrRow(c)) => RowTracked(row)
      BY <1>0, ScannedTracked
    <3> QED BY <3>2, <3>3 DEF RowTracked
  <2>4. /\ t = DEAD => r = GiveUpRow(fixed, m, def)
        /\ t # DEAD /\ ~SingleByteLexeme(t) => r = Ok(PushLexerState(fixed, entry))
        /\ t # DEAD /\ SingleByteLexeme(t) => r = EndSingleByte(c, inner)
    <3>1. /\ entry.lexer_state = DEAD => r = GiveUpRow(fixed, entry.row_idx, def)
          /\ entry.lexer_state # DEAD /\ ~SingleByteLexeme(entry.lexer_state)
               => r = Ok(PushLexerState(fixed, entry))
          /\ entry.lexer_state # DEAD /\ SingleByteLexeme(entry.lexer_state)
               => r = EndSingleByte(c, inner)
      BY <1>5, AcrossCases, ZenonT(60)
    <3> HIDE DEF r, fixed, entry, inner, m
    <3> QED BY <2>1, <3>1
  <2>5. t \in StateID
    BY <2>1 DEF LexerState
  <2>6. c.budget # 0 /\ added.chart.rows[m] = row
    BY <1>2, <1>5
  <2>7. inner = AdvanceWithin(first, SecondLexeme(c, pre, def, n), def, n)
    BY DEF InnerResult
  <2>8. SecondLexeme(c, pre, def, n).idx = [match |-> "greedy", state |-> t]
    BY DEF SecondLexeme, SingleBytePreLexeme, PreLexeme
  <2> DEFINE second == SecondLexeme(c, pre, def, n)
  <2> HIDE DEF r, fixed, entry, first, inner, m, row, t, added, second
  <2>9. CASE t = DEAD
    <3>1. r = GiveUpRow(fixed, m, def)
      BY <2>4, <2>9
    <3>2. ~r.ok /\ r.chart.lexer_stack = c.lexer_stack
      BY <2>1, <3>1, GiveUpRowKeeps
    <3>3. NumRows(r.chart) = NumRows(c)
      BY <3>2 DEF NumRows, Top
    <3>4. def => Len(r.chart.row_infos) = NumRows(c)
      <4>1. SUFFICES ASSUME def PROVE Len(r.chart.row_infos) = NumRows(c)
        OBVIOUS
      <4>2. fixed.row_infos \in Seq(Int) /\ Len(fixed.row_infos) = m
        BY <2>1, <4>1 DEF ParserChart
      <4>3. r.chart.row_infos = SubSeq(fixed.row_infos, 1, m - 1)
        BY <2>1, <3>1, <4>1 DEF GiveUpRow, Fail, ParserChart
      <4>4. m - 1 \in 0..Len(fixed.row_infos) /\ m - 1 = NumRows(c)
        BY <1>3, <4>2 DEF m
      <4> QED BY <4>2, <4>3, <4>4
    <3> QED BY <2>6, <3>2, <3>3, <3>4 DEF Exact, r
  <2>10. CASE t # DEAD /\ ~SingleByteLexeme(t)
    <3>1. r.ok /\ r.chart = PushLexerState(fixed, entry)
      BY <2>4, <2>10 DEF Ok
    <3>2. /\ r.chart.lexer_stack = Append(c.lexer_stack, entry)
          /\ r.chart.rows = added.chart.rows /\ r.chart.row_infos = fixed.row_infos
      BY <2>1, <3>1, PushLexerStateFacts
    <3>3. Top(r.chart) = entry /\ NumRows(r.chart) = m /\ CurrRow(r.chart) = row
      <4>1. Top(r.chart) = entry /\ NumRows(r.chart) = entry.row_idx
            /\ CurrRow(r.chart) = r.chart.rows[entry.row_idx]
        BY <1>3, <2>1, <3>2, PushedTop
      <4> QED BY <2>1, <2>6, <3>2, <4>1
    <3>4. RowTracked(CurrRow(c)) => Tracked(r.chart)
      BY <2>3, <3>3 DEF Tracked, t
    <3>5. def => Exact(r.chart)
      BY <2>1, <3>2, <3>3 DEF Exact
    <3> QED BY <2>6, <3>4, <3>5 DEF r
  <2>11. CASE t # DEAD /\ SingleByteLexeme(t)
    <3>1. r = EndSingleByte(c, inner)
      BY <2>4, <2>11
    <3>2. CurrRow(first) = row /\ Fit(first, def) /\ second \in PreLexemes
      BY <2>1, <2>6 DEF CurrRow, Fit, second
    <3>3. /\ inner.ok <=> first.budget # 0 /\ ScannedRow(first, second.idx).items # {}
          /\ ~inner.ok => inner.chart = first
          /\ inner.ok /\ RowTracked(row) => Tracked(inner.chart)
          /\ inner.ok /\ def => Exact(inner.chart)
      BY <2>7, <3>2, AdvanceWithinMore DEF second
    <3>4. Outcome(first, inner, def)
      BY <2>7, <3>2, AdvanceWithinFacts DEF second, Fit
    <3>5. inner.chart \in ParserChart /\ inner.chart.lexer_stack \in Seq(LexerState)
          /\ inner.chart.lexer_stack # <<>>
      BY <3>4 DEF Outcome, Good, ParserChart
    <3>6. /\ inner.ok => r.ok /\ r.chart.lexer_stack = Append(c.lexer_stack, Last(inner.chart.lexer_stack))
          /\ ~inner.ok => ~r.ok
          /\ r.chart.rows = inner.chart.rows /\ r.chart.row_infos = inner.chart.row_infos
          /\ r.chart.budget = inner.chart.budget
      BY <3>1, <3>5, EndSingleByteKeeps
    <3>7. CASE inner.ok
      <4> DEFINE e == Last(inner.chart.lexer_stack)
      <4>1. e = Top(inner.chart) /\ e \in LexerState
        BY <3>4, TopFacts DEF Top, Outcome
      <4>2. /\ NumRows(inner.chart) = e.row_idx
            /\ CurrRow(inner.chart) = inner.chart.rows[e.row_idx]
        BY <4>1 DEF NumRows, CurrRow
      <4> HIDE DEF e
      <4>3. r.chart.lexer_stack = Append(c.lexer_stack, e)
        BY <3>6, <3>7 DEF e
      <4>4. Top(r.chart) = e /\ NumRows(r.chart) = e.row_idx
            /\ CurrRow(r.chart) = inner.chart.rows[e.row_idx]
        BY <1>3, <3>6, <4>1, <4>3, PushedTop
      <4>5. RowTracked(row) => Tracked(r.chart)
        BY <3>3, <3>7, <4>1, <4>2, <4>4 DEF Tracked
      <4>6. def => Exact(r.chart)
        BY <3>3, <3>6, <3>7, <4>2, <4>4 DEF Exact
      <4> QED BY <2>3, <2>6, <4>5, <4>6 DEF r
    <3>8. CASE ~inner.ok
      <4>1. ~r.ok /\ r.chart.budget = first.budget
        BY <3>3, <3>6, <3>8
      <4>2. RowTracked(CurrRow(c)) => ScannedRow(first, second.idx).items # {}
        <5>1. GreedyAccepting(t) # {}
          BY <2>5, <2>11, ForcedEnd DEF SingleByteLexeme
        <5>2. second.idx.state = t /\ second.idx.match = "greedy"
          BY <2>8 DEF second
        <5>3. RowTracked(CurrRow(c)) => Possible(t) \subseteq Expected(CurrRow(first).items)
          BY <2>3, <3>2
        <5> QED BY <2>1, <2>5, <5>1, <5>2, <5>3, MatchProgress
      <4> QED BY <2>6, <3>3, <3>8, <4>1, <4>2 DEF r
    <3> QED BY <3>7, <3>8
  <2> QED BY <2>9, <2>10, <2>11
<1> QED BY <1>4, <1>5

(* A byte pushed on a tracked chart: the chart stays tracked, an exhausted  *)
(* budget stays exhausted, as many row_infos as rows remain unless the      *)
(* budget is exhausted, and inside a lexeme nothing else can refuse a byte  *)
(* that the lexer takes.                                                    *)
LEMMA TryPushByteMore ==
  ASSUME NEW c, NEW def \in BOOLEAN, Fit(c, def), NEW n \in Nat, NEW b \in Byte
  PROVE  LET r == TryPushByte(c, b, def, n)
             s == Top(c).lexer_state
         IN
         /\ c.budget = 0 => r.chart.budget = 0
         /\ Tracked(c) /\ r.ok => Tracked(r.chart)
         /\ Tracked(c) /\ def /\ Exact(c) => Exact(r.chart) \/ r.chart.budget = 0
         /\ Tracked(c) /\ GreedyAccepting(s) = {} /\ Transition(s, b) # DEAD /\ ~r.ok
              => r.chart.budget = 0
         /\ GreedyAccepting(s) = {} /\ Transition(s, b) = DEAD => ~r.ok
<1> DEFINE s == Top(c).lexer_state
           t == Transition(s, b)
           r == TryPushByte(c, b, def, n)
<1>1. Good(c) /\ c \in ParserChart /\ c.lexer_stack \in Seq(LexerState)
  BY DEF Fit, Good, ParserChart
<1>2. s \in StateID /\ t \in StateID /\ NumRows(c) \in Nat \ {0}
  BY <1>1, TopFacts, TransitionType
<1>3. Tracked(c) => RowTracked(CurrRow(c)) /\ Possible(s) \subseteq Expected(CurrRow(c).items)
  BY DEF Tracked
<1>4. Tracked(c) => Possible(t) \subseteq Expected(CurrRow(c).items)
  BY <1>2, <1>3, PossibleFacts
<1>5. r = AdvanceLexerOrParser(c, Advance(s, b), def, n)
  BY DEF TryPushByte
<1> HIDE DEF s, t, r
<1>6. CASE Advance(s, b) = LexError /\ t = DEAD
  <2>1. r = Fail(c)
    BY <1>5, <1>6 DEF LexError, AdvanceLexerOrParser
  <2>2. ~r.ok /\ r.chart = c
    BY <2>1 DEF Fail
  <2> QED BY <1>6, <2>2 DEF r, s, t
<1>7. CASE Advance(s, b) = Moved(t, b) /\ t # DEAD
  <2> DEFINE e == Entry(NumRows(c), t, b)
  <2>1. e \in LexerState /\ e.row_idx = NumRows(c) /\ e.lexer_state = t
    BY <1>2 DEF Entry, LexerState
  <2>2. r = Ok(PushLexerState(c, e))
    <3>1. Moved(t, b).res = "state" /\ Moved(t, b).state = t /\ Moved(t, b).byte = b
      BY DEF Moved
    <3> QED BY <1>5, <1>7, <3>1 DEF AdvanceLexerOrParser
  <2> HIDE DEF e
  <2>3. r.ok /\ r.chart = PushLexerState(c, e)
    BY <2>2 DEF Ok
  <2>4. /\ r.chart.lexer_stack = Append(c.lexer_stack, e)
        /\ r.chart.rows = c.rows /\ r.chart.row_infos = c.row_infos
        /\ r.chart.budget = c.budget
    BY <1>1, <2>3, PushLexerStateFacts
  <2>5. Top(r.chart) = e /\ NumRows(r.chart) = NumRows(c) /\ CurrRow(r.chart) = CurrRow(c)
    <3>1. /\ Top(r.chart) = e /\ NumRows(r.chart) = e.row_idx
          /\ CurrRow(r.chart) = r.chart.rows[e.row_idx]
      BY <1>1, <2>1, <2>4, PushedTop
    <3> QED BY <2>1, <2>4, <3>1 DEF CurrRow
  <2>6. Tracked(c) => Tracked(r.chart)
    BY <1>3, <1>4, <2>1, <2>5 DEF Tracked
  <2>7. Exact(c) => Exact(r.chart)
    BY <2>4, <2>5 DEF Exact
  <2> QED BY <1>7, <2>3, <2>4, <2>6, <2>7 DEF r, s, t
<1>8. CASE Advance(s, b) = Recognised(PreLexeme("lazy", t, b, FALSE)) /\ t # DEAD
                                                                      /\ HasLowestMatch(t)
  <2> DEFINE pre == PreLexeme("lazy", t, b, FALSE)
  <2>1. pre \in PreLexemes /\ pre.idx = [match |-> "lazy", state |-> t]
    BY <1>2 DEF PreLexeme, PreLexemes, MatchingLexemesIdx
  <2>2. r = AdvanceWithin(c, pre, def, n)
    <3>1. Recognised(pre).res = "lexeme" /\ Recognised(pre).pre = pre
          /\ pre.byte_next_row = FALSE
      BY DEF Recognised, PreLexeme
    <3> QED BY <1>5, <1>8, <3>1 DEF AdvanceLexerOrParser
  <2> HIDE DEF pre
  <2>3. /\ r.ok <=> c.budget # 0 /\ ScannedRow(c, pre.idx).items # {}
        /\ ~r.ok => r.chart = c
        /\ r.ok /\ RowTracked(CurrRow(c)) => Tracked(r.chart)
        /\ r.ok /\ def => Exact(r.chart)
    BY <2>1, <2>2, AdvanceWithinMore
  <2>4. Tracked(c) => ScannedRow(c, pre.idx).items # {}
    <3>1. pre.idx.state = t /\ pre.idx.match = "lazy"
      BY <2>1
    <3> QED BY <1>1, <1>2, <1>4, <1>8, <3>1, MatchProgress
  <2> QED BY <1>3, <1>8, <2>3, <2>4 DEF r, s, t
<1>9. CASE Advance(s, b) = Recognised(PreLexeme("greedy", s, b, TRUE)) /\ GreedyAccepting(s) # {}
  <2> DEFINE pre == PreLexeme("greedy", s, b, TRUE)
  <2>1. pre \in PreLexemes /\ pre.byte = b
    BY <1>2 DEF PreLexeme, PreLexemes, MatchingLexemesIdx
  <2>2. r = AdvanceAcross(c, pre, def, n)
    <3>1. Recognised(pre).res = "lexeme" /\ Recognised(pre).pre = pre
          /\ pre.byte_next_row = TRUE
      BY DEF Recognised, PreLexeme
    <3> QED BY <1>5, <1>9, <3>1 DEF AdvanceLexerOrParser
  <2> HIDE DEF pre
  <2>3. /\ c.budget = 0 => ~r.ok /\ r.chart = c
        /\ RowTracked(CurrRow(c)) /\ r.ok => Tracked(r.chart)
        /\ RowTracked(CurrRow(c)) /\ def /\ Exact(c) => Exact(r.chart) \/ r.chart.budget = 0
    BY <2>1, <2>2, AdvanceAcrossMore
  <2> QED BY <1>3, <1>9, <2>3 DEF r, s
<1>10. \/ Advance(s, b) = LexError /\ t = DEAD
       \/ Advance(s, b) = Moved(t, b) /\ t # DEAD
       \/ Advance(s, b) = Recognised(PreLexeme("lazy", t, b, FALSE)) /\ t # DEAD
                                                                    /\ HasLowestMatch(t)
       \/ Advance(s, b) = Recognised(PreLexeme("greedy", s, b, TRUE)) /\ GreedyAccepting(s) # {}
  BY Zenon DEF Advance, t
<1> QED BY <1>6, <1>7, <1>8, <1>9, <1>10

-----------------------------------------------------------------------------
(* A fresh parser is tracked, whatever bytes it was given.                  *)
LEMMA NewChartMore == Fit(NewChart, TRUE) /\ Tracked(NewChart)
<1>1. Fit(NewChart, TRUE)
  BY InitialChartFacts DEF Fit, Defined, NewChart, Coherent
<1>2. RowTracked(InitialRow)
  <2>1. InitialRow.items = InitialItems
    BY DEF InitialRow, EarleyRow
  <2>2. \/ InitialRow.lexer_start_state = InitialState(Expected(InitialItems))
        \/ InitialRow.lexer_start_state = InitialState(AllowedLexemes(InitialItems))
    BY DEF InitialRow, EarleyRow, RowStartState, Expected
  <2>3. AllowedLexemes(InitialItems) \subseteq Expected(InitialItems)
    BY DEF Expected, WithSkipLexeme
  <2> QED BY <2>1, <2>2, <2>3, PossibleAtStart DEF RowTracked
<1>3. CurrRow(NewChart) = InitialRow
      /\ Top(NewChart).lexer_state = InitialRow.lexer_start_state
  <2> DEFINE s == InitialRow.lexer_start_state
  <2> HIDE DEF s
  <2>1. NewChart.lexer_stack = <<Entry(1, s, NoByte)>> /\ NewChart.rows = <<InitialRow>>
    BY DEF NewChart, s
  <2>2. Top(NewChart) = Entry(1, s, NoByte)
    BY <2>1 DEF Top, Last
  <2> QED BY <2>1, <2>2 DEF CurrRow, NumRows, Entry, s
<1> QED BY <1>1, <1>2, <1>3 DEF Tracked, RowTracked

(* The chart of a fresh parser is tracked after any bytes it accepts.       *)
LEMMA FreshTracked ==
  ASSUME NEW bs \in Seq(Byte), Fresh(bs).ok
  PROVE  Tracked(Fresh(bs).chart)
<1> DEFINE m == Len(bs)
<1>1. PICK def \in BOOLEAN : def = TRUE
  OBVIOUS
<1> DEFINE f == PushedUpTo(NewChart, bs, def, 0)
           S == {k \in Nat : Fit(f[k].chart, def) /\ (f[k].ok => Tracked(f[k].chart))}
<1>2. /\ f[0] = Ok(NewChart)
      /\ \A k \in 1..m : f[k] = PushOne(f[k - 1], bs[k], def, 0 + k - 1)
  BY PushedUpToUnfolds
<1>3. m \in Nat
  OBVIOUS
<1> HIDE DEF f
<1>4. 0 \in S
  <2>1. f[0].chart = NewChart
    BY <1>2 DEF Ok
  <2>2. Fit(f[0].chart, def) /\ Tracked(f[0].chart)
    BY <1>1, <2>1, NewChartMore
  <2> QED BY <2>2
<1>5. ASSUME NEW k \in 0..(m - 1), k \in S PROVE k + 1 \in S
  <2> DEFINE i == k + 1
  <2>1. i \in 1..m /\ i - 1 = k /\ 0 + i - 1 = k /\ k \in Nat /\ i \in Nat
    BY <1>3
  <2> HIDE DEF i
  <2>2. f[i] = PushOne(f[k], bs[i], def, k)
    BY <1>2, <2>1
  <2>3. bs[i] \in Byte
    BY <2>1, ElementOfSeq
  <2>4. Fit(f[k].chart, def) /\ (f[k].ok => Tracked(f[k].chart))
    BY <1>5
  <2>5. CASE ~f[k].ok
    <3>1. f[i] = f[k]
      BY <2>2, <2>5 DEF PushOne
    <3> QED BY <2>1, <2>4, <2>5, <3>1 DEF i
  <2>6. CASE f[k].ok
    <3>1. f[i] = TryPushByte(f[k].chart, bs[i], def, k)
      BY <2>2, <2>6 DEF PushOne
    <3>2. Fit(f[i].chart, def)
      BY <2>1, <2>3, <2>4, <3>1, TwinRefused
    <3>3. f[i].ok => Tracked(f[i].chart)
      BY <2>1, <2>3, <2>4, <2>6, <3>1, TryPushByteMore
    <3> QED BY <2>1, <3>2, <3>3 DEF i
  <2> QED BY <2>5, <2>6
<1> HIDE DEF S
<1>6. \A k \in 0..m : k \in S
  BY <1>3, <1>4, <1>5, UpTo
<1>7. m \in S
  BY <1>3, <1>6
<1> QED BY <1>1, <1>7 DEF S, f, Fresh, PushAll

-----------------------------------------------------------------------------
(* forced_byte().  Parsers that are twins force the same bytes, and a byte  *)
(* that is forced is the only one allowed, also when the lexer's hint saved *)
(* the walk.                                                                *)
Unbounded(c) == Good(c) /\ Coherent(c) /\ c.budget = Unlimited

(* Beginning a walk changes nothing a push looks at.                        *)
LEMMA SpeculativeMore ==
  ASSUME NEW c, Unbounded(c), NEW d, d = Speculative(c)
  PROVE  /\ Fit(d, FALSE) /\ d.budget = Unlimited /\ Twin(d, c) /\ Twin(c, d)
         /\ d.lexer_stack = c.lexer_stack /\ Top(d) = Top(c) /\ CurrRow(d) = CurrRow(c)
<1>1. /\ Extends(c, d) /\ Extends(d, c) /\ SameHeight(c, d)
      /\ Fit(d, FALSE) /\ d.budget = c.budget
  BY SpeculativeExtends DEF Unbounded
<1>2. d.lexer_stack = c.lexer_stack /\ \A k \in 1..NumRows(c) : d.rows[k] = c.rows[k]
  BY SpeculativeFacts DEF Unbounded
<1>3. Top(d) = Top(c) /\ NumRows(d) = NumRows(c)
  BY <1>2 DEF Top, NumRows
<1>4. NumRows(c) \in 1..NumRows(c)
  BY TopFacts DEF Unbounded
<1>5. CurrRow(d) = CurrRow(c)
  BY <1>2, <1>3, <1>4 DEF CurrRow
<1>6. Twin(c, d) /\ Twin(d, c)
  BY <1>1 DEF Twin, SameHeight
<1> QED BY <1>1, <1>2, <1>3, <1>5, <1>6 DEF Unbounded

(* What is forced depends on what the chart looks like only.                *)
LEMMA ForcedByteSame ==
  ASSUME NEW c, Unbounded(c), NEW d, Unbounded(d), Twin(c, d)
  PROVE  /\ IsAccepting(c) = IsAccepting(d)
         /\ AllowedBytes(c) = AllowedBytes(d)
         /\ ForcedByte(c) = ForcedByte(d)
<1> DEFINE a == Speculative(c)
           b == Speculative(d)
           r == FlushLexer(a, FALSE, 0)
           q == FlushLexer(b, FALSE, 0)
<1>1. /\ Fit(a, FALSE) /\ a.budget = Unlimited /\ Twin(a, c)
      /\ Fit(b, FALSE) /\ b.budget = Unlimited /\ Twin(d, b)
  BY SpeculativeMore
<1> HIDE DEF a, b
<1>2. Good(a) /\ Good(b) /\ Good(c) /\ Good(d)
  BY <1>1 DEF Fit, Unbounded
<1>3. Twin(a, b)
  BY <1>1, <1>2, TwinTrans
<1>4. r.ok = q.ok /\ Twin(r.chart, q.chart)
  BY <1>1, <1>3, TwinFlush
<1>5. Good(r.chart) /\ Good(q.chart)
  BY <1>1, FlushFacts DEF Fit
<1> HIDE DEF r, q
<1>6. CurrRow(r.chart) = CurrRow(q.chart)
  <2>1. NumRows(r.chart) = NumRows(q.chart) /\ SameRows(r.chart, q.chart, NumRows(r.chart))
    BY <1>4, <1>5, ExtendsTwin DEF Twin
  <2>2. NumRows(r.chart) \in 1..NumRows(r.chart)
    BY <1>5, TopFacts
  <2> QED BY <2>1, <2>2 DEF CurrRow, SameRows
<1>7. IsAccepting(c) = IsAccepting(d)
  BY <1>4, <1>6 DEF IsAccepting, IsAcceptingAt, r, q, a, b
<1>8. Alike(c, d) /\ Top(c).lexer_state = Top(d).lexer_state
  BY <1>2, ExtendsTwin DEF Twin, Alike
<1>9. AllowedBytes(c) = AllowedBytes(d)
  <2>1. ASSUME NEW x \in Byte PROVE Allows(c, <<x>>) = Allows(d, <<x>>)
    <3>1. <<x>> \in Seq(Byte)
      OBVIOUS
    <3> QED BY <1>8, <3>1, AllowsSame DEF Unbounded
  <2> QED BY <2>1 DEF AllowedBytes
<1> QED BY <1>7, <1>8, <1>9 DEF ForcedByte

(* A text of one byte is allowed if the byte can be pushed.                 *)
LEMMA AllowsByte ==
  ASSUME NEW c, NEW b \in Byte
  PROVE  Allows(c, <<b>>) = TryPushByte(Speculative(c), b, FALSE, 0).ok
<1> DEFINE d == Speculative(c)
<1>1. PICK def \in BOOLEAN : def = FALSE
  OBVIOUS
<1>2. PICK none \in Seq(Byte) : none = <<>>
  <2>1. <<>> \in Seq(Byte)
    BY EmptySeq
  <2> QED BY <2>1, Zenon
<1>3. <<b>> = Append(none, b) /\ Len(none) = 0
  BY <1>2
<1>4. PushAll(d, none, def, 0) = Ok(d)
  BY <1>2, PushAllNone
<1>5. PushAll(d, Append(none, b), def, 0) = PushOne(PushAll(d, none, def, 0), b, def, 0 + Len(none))
  BY PushAllNext
<1>6. PushAll(d, <<b>>, def, 0) = PushOne(Ok(d), b, def, 0)
  BY <1>3, <1>4, <1>5
<1>7. PushOne(Ok(d), b, def, 0) = TryPushByte(d, b, def, 0)
  BY DEF PushOne, Ok
<1> QED BY <1>1, <1>6, <1>7 DEF Allows

(* What the lexer may take next, and what it takes.                         *)
LEMMA OptionsTaken ==
  ASSUME NEW s \in StateID, NEW b \in Byte
  PROVE  b \in NextByteOptions(s) <=> Transition(s, b) # DEAD
<1>1. ASSUME b \in NextByteOptions(s) PROVE Transition(s, b) # DEAD
  <2>1. PICK e \in s : b \in RxNextByte(e[2])
    BY <1>1 DEF NextByteOptions
  <2>2. Derivative[e[2], b] # NoMatch
    BY <2>1, ByteAssumption DEF RxNextByte
  <2>3. <<e[1], Derivative[e[2], b]>> \in Transition(s, b)
    BY <2>2 DEF Transition
  <2> QED BY <2>3 DEF DEAD
<1>2. ASSUME Transition(s, b) # DEAD PROVE b \in NextByteOptions(s)
  <2>1. PICK e \in s : Derivative[e[2], b] # NoMatch
    BY <1>2 DEF Transition, DEAD
  <2>2. b \in RxNextByte(e[2])
    BY <2>1 DEF RxNextByte
  <2> QED BY <2>2 DEF NextByteOptions
<1> QED BY <1>1, <1>2

(* A byte forced is the only one allowed, where the text may not end.       *)
LEMMA ForcedIsOnly ==
  ASSUME NEW c, Unbounded(c), Tracked(c), NEW b \in ForcedByte(c)
  PROVE  b \in Byte /\ ~IsAccepting(c) /\ AllowedBytes(c) = {b}
<1> DEFINE s == Top(c).lexer_state
           d == Speculative(c)
<1>1. ~IsAccepting(c)
  BY DEF ForcedByte
<1>2. CASE NextByteForced(s) = {}
  <2>1. b \in OnlyOne(AllowedBytes(c))
    BY <1>1, <1>2 DEF ForcedByte
  <2>2. b \in AllowedBytes(c) /\ Cardinality(AllowedBytes(c)) = 1
    BY <2>1 DEF OnlyOne
  <2>3. AllowedBytes(c) = {b}
    <3>1. IsFiniteSet(AllowedBytes(c))
      BY ByteAssumption, FS_Subset DEF AllowedBytes
    <3> HIDE DEF AllowedBytes
    <3> QED BY <2>2, <3>1, FS_Singleton
  <2> QED BY <1>1, <2>3 DEF AllowedBytes
<1>3. CASE NextByteForced(s) # {}
  <2>1. b \in NextByteOptions(s) /\ GreedyAccepting(s) = {}
    BY <1>1, <1>3 DEF ForcedByte, NextByteForced
  <2>2. b \in Byte /\ NextByteOptions(s) = {b}
    BY <1>3, <2>1 DEF NextByteForced
  <2>3. /\ Fit(d, FALSE) /\ d.budget = Unlimited
        /\ Top(d).lexer_state = s /\ CurrRow(d) = CurrRow(c) /\ s \in StateID
    BY SpeculativeMore, TopFacts DEF Unbounded
  <2>4. Tracked(d)
    BY <2>3 DEF Tracked
  <2> HIDE DEF d, s
  <2>5. TryPushByte(d, b, FALSE, 0).ok
    <3>1. Transition(s, b) # DEAD
      BY <2>1, <2>2, <2>3, OptionsTaken
    <3>2. ~TryPushByte(d, b, FALSE, 0).ok => TryPushByte(d, b, FALSE, 0).chart.budget = 0
      BY <2>1, <2>2, <2>3, <2>4, <3>1, TryPushByteMore
    <3>3. TryPushByte(d, b, FALSE, 0).chart.budget = Unlimited
      BY <2>2, <2>3, TwinRefused
    <3> QED BY <3>2, <3>3, UnlimitedIsNotZero
  <2>6. ASSUME NEW x \in Byte, x # b PROVE ~TryPushByte(d, x, FALSE, 0).ok
    <3>1. Transition(s, x) = DEAD
      BY <2>2, <2>3, <2>6, OptionsTaken
    <3> QED BY <2>1, <2>3, <3>1, TryPushByteMore
  <2>7. \A x \in Byte : Allows(c, <<x>>) = TryPushByte(d, x, FALSE, 0).ok
    BY AllowsByte DEF d
  <2> QED BY <1>1, <2>2, <2>5, <2>6, <2>7 DEF AllowedBytes
<1> QED BY <1>2, <1>3

(* A byte that is allowed is refused only when the items have run out.      *)
LEMMA AllowedPush ==
  ASSUME NEW c, Unbounded(c), NEW b \in AllowedBytes(c),
         NEW def \in BOOLEAN, NEW d, Fit(d, def), Twin(d, c), NEW n \in Nat,
         NEW r, r = TryPushByte(d, b, def, n)
  PROVE  r.ok \/ r.chart.budget = 0
<1> DEFINE a == Speculative(c)
           p == TryPushByte(a, b, FALSE, 0)
<1>1. b \in Byte /\ p.ok
  BY AllowsByte DEF AllowedBytes
<1>2. Fit(a, FALSE) /\ Twin(c, a)
  BY SpeculativeMore
<1> HIDE DEF a
<1>3. /\ Good(a) /\ Coherent(a) /\ Defined(a, FALSE)
      /\ Good(d) /\ Coherent(d) /\ Defined(d, def) /\ Good(c)
  BY <1>2 DEF Fit, Unbounded
<1>4. Twin(a, d)
  BY <1>2, <1>3, TwinTrans, TwinSym
<1>5. Alike(a, d)
  BY <1>3, <1>4, ExtendsTwin DEF Twin
<1>6. FareAlike(a, p, d, r)
  BY <1>1, <1>3, <1>5, TryPushByteAlike
<1> QED BY <1>1, <1>6 DEF FareAlike

ForcedAt(bs, i) ==
  LET before == Fresh(SubSeq(bs, 1, i - 1)).chart
  IN  AllowedBytes(before) = {bs[i]} /\ ~IsAccepting(before)

(* A byte pushed later says nothing new about those before it.              *)
LEMMA ForcedKept ==
  ASSUME NEW bs \in Seq(Byte), NEW b \in Byte
  PROVE  /\ \A i \in 1..Len(bs) : ForcedAt(bs, i) => ForcedAt(Append(bs, b), i)
         /\ AllowedBytes(Fresh(bs).chart) = {b} /\ ~IsAccepting(Fresh(bs).chart)
              => ForcedAt(Append(bs, b), Len(bs) + 1)
<1> DEFINE t == Append(bs, b)
           m == Len(bs)
<1>1. t \in Seq(Byte) /\ Len(t) = m + 1 /\ t[m + 1] = b /\ m \in Nat
      /\ \A i \in 1..m : t[i] = bs[i]
  BY AppendProperties
<1> HIDE DEF t
<1>2. ASSUME NEW i \in 1..(m + 1)
      PROVE  SubSeq(t, 1, i - 1) = SubSeq(bs, 1, i - 1)
  <2>1. i - 1 \in 0..m /\ i - 1 \in 0..Len(t)
    BY <1>1
  <2> DEFINE k == i - 1
  <2> HIDE DEF k
  <2>2. k \in Nat /\ k <= m /\ k <= Len(t)
    BY <1>1, <2>1 DEF k
  <2>3. \A j \in 1..k : t[j] = bs[j]
    BY <1>1, <2>2
  <2>4. SubSeq(t, 1, k) = SubSeq(bs, 1, k)
    BY <1>1, <2>2, <2>3
  <2> QED BY <2>4 DEF k
<1>3. ASSUME NEW i \in 1..m, ForcedAt(bs, i) PROVE ForcedAt(t, i)
  <2>1. i \in 1..(m + 1)
    BY <1>1
  <2>2. SubSeq(t, 1, i - 1) = SubSeq(bs, 1, i - 1)
    BY <1>2, <2>1
  <2>3. t[i] = bs[i]
    BY <1>1
  <2> QED BY <1>3, <2>2, <2>3, Zenon DEF ForcedAt
<1>4. SubSeq(t, 1, (m + 1) - 1) = bs
  <2>1. SubSeq(bs, 1, m) = bs /\ (m + 1) - 1 = m /\ m + 1 \in 1..(m + 1)
    BY <1>1
  <2> QED BY <1>2, <2>1
<1>5. AllowedBytes(Fresh(bs).chart) = {b} /\ ~IsAccepting(Fresh(bs).chart)
        => ForcedAt(t, m + 1)
  BY <1>1, <1>4 DEF ForcedAt
<1> QED BY <1>3, <1>5 DEF t

-----------------------------------------------------------------------------
(* Ending the current lexeme for good adds one row with its row_info, or    *)
(* changes nothing.                                                         *)
LEMMA FlushExact ==
  ASSUME NEW c, NEW def \in BOOLEAN, def, Fit(c, def), NEW n \in Nat, Exact(c)
  PROVE  Exact(FlushLexer(c, def, n).chart)
<1> DEFINE r == FlushLexer(c, def, n)
           s == Top(c).lexer_state
           pre == PreLexeme("greedy", s, NoByte, FALSE)
<1>1. CASE ~HasPendingLexemeBytes(c) \/ GreedyAccepting(s) = {}
  <2>1. r.chart = c
    BY <1>1 DEF FlushLexer, TryLexemeEnd, LexError, AdvanceLexerOrParser, Ok, Fail
  <2> QED BY <2>1
<1>2. CASE HasPendingLexemeBytes(c) /\ GreedyAccepting(s) # {}
  <2>1. s \in StateID
    BY TopFacts DEF Fit
  <2>2. pre \in PreLexemes /\ ~pre.byte_next_row
    BY <2>1 DEF PreLexeme, PreLexemes, MatchingLexemesIdx
  <2>3. r = AdvanceLexerOrParser(c, Recognised(pre), def, n)
    BY <1>2 DEF FlushLexer, TryLexemeEnd
  <2> HIDE DEF pre
  <2>4. r = AdvanceWithin(c, pre, def, n)
    BY <2>2, <2>3 DEF AdvanceLexerOrParser, Recognised
  <2> DEFINE q == AdvanceWithin(c, pre, def, n)
  <2>5. /\ ~q.ok => q.chart = c
        /\ q.ok /\ def => Exact(q.chart)
    BY <2>2, AdvanceWithinMore
  <2> HIDE DEF q, r
  <2>6. r = q
    BY <2>4 DEF q
  <2>7. Exact(r.chart)
    BY <2>5, <2>6
  <2> QED BY <2>7 DEF r
<1> QED BY <1>1, <1>2

-----------------------------------------------------------------------------
(* No lexeme is left behind.  A row starts with lexemes at their beginning, *)
(* of which none matches; what the lexer reaches from there it has been     *)
(* asked about, or it is one byte further.                                  *)
AtBeginning(s) == \A e \in s : e[1] \in Lexeme /\ e[2] = RxList[e[1]] /\ e[2] # NoMatch
Begins(row) == AtBeginning(row.lexer_start_state)
NoneLeft(c) == Begins(CurrRow(c)) /\ ~HasLowestMatch(Top(c).lexer_state)

(* A lexer starts with its lexemes at their beginning.                      *)
LEMMA InitialBegins ==
  ASSUME NEW selected \in SUBSET Lexeme
  PROVE  AtBeginning(InitialState(selected))
<1> SUFFICES ASSUME NEW e \in InitialState(selected)
             PROVE  e[1] \in Lexeme /\ e[2] = RxList[e[1]] /\ e[2] # NoMatch
  BY DEF AtBeginning
<1>1. PICK l \in selected : e = <<l, RxList[l]>> /\ RxList[l] # NoMatch
  BY DEF InitialState
<1> QED BY <1>1

(* When something matches: a lazy lexeme does, or nothing can go on.        *)
LEMMA MatchesWhen ==
  ASSUME NEW s, HasLowestMatch(s)
  PROVE  \/ \E e \in s : e[1] \in Lazy /\ e[2] \in Nullable
         \/ s # {} /\ \A e \in s : RxNextByte(e[2]) = {EOI}
<1> DEFINE lazies == {l \in GreedyAccepting(s) : l \in Lazy}
<1>1. CASE lazies # {}
  <2>1. PICK l \in GreedyAccepting(s) : l \in Lazy
    BY <1>1
  <2>2. PICK e \in s : e[2] \in Nullable /\ l = e[1]
    BY <2>1 DEF GreedyAccepting
  <2> QED BY <2>1, <2>2
<1>2. CASE lazies = {}
  <2>1. LazyAccepting(s) = IF \A e \in s : RxNextByte(e[2]) = {EOI} THEN Possible(s) ELSE {}
    BY <1>2, Zenon DEF LazyAccepting
  <2>2. (\A e \in s : RxNextByte(e[2]) = {EOI}) /\ Possible(s) # {}
    BY <2>1 DEF HasLowestMatch
  <2> QED BY <2>2 DEF Possible
<1> QED BY <1>1, <1>2

(* At the beginning nothing matches.                                        *)
LEMMA BeginningOpen ==
  ASSUME NoHastyLexeme, NEW s, AtBeginning(s)
  PROVE  ~HasLowestMatch(s)
<1> SUFFICES ASSUME HasLowestMatch(s) PROVE FALSE
  OBVIOUS
<1>1. CASE \E e \in s : e[1] \in Lazy /\ e[2] \in Nullable
  <2>1. PICK e \in s : e[1] \in Lazy /\ e[2] \in Nullable
    BY <1>1
  <2>2. RxList[e[1]] # NoMatch /\ RxList[e[1]] \in Nullable
    BY <2>1 DEF AtBeginning
  <2> QED BY <2>1, <2>2, RegexAssumption DEF NoHastyLexeme
<1>2. CASE s # {} /\ \A e \in s : RxNextByte(e[2]) = {EOI}
  <2>1. PICK e \in s : RxNextByte(e[2]) = {EOI}
    BY <1>2
  <2> QED BY <2>1 DEF AtBeginning, NoHastyLexeme
<1> QED BY <1>1, <1>2, MatchesWhen

(* One byte on, something matches only if all that is left is to end.       *)
LEMMA FirstByteOpen ==
  ASSUME NoHastyLexeme, NEW s, AtBeginning(s), NEW b \in Byte,
         ~ForcedEOI(Transition(s, b))
  PROVE  ~HasLowestMatch(Transition(s, b))
<1> DEFINE t == Transition(s, b)
<1> SUFFICES ASSUME HasLowestMatch(t) PROVE FALSE
  OBVIOUS
<1>1. CASE \E e \in t : e[1] \in Lazy /\ e[2] \in Nullable
  <2>1. PICK e \in t : e[1] \in Lazy /\ e[2] \in Nullable
    BY <1>1
  <2>2. PICK d \in s : e = <<d[1], Derivative[d[2], b]>> /\ Derivative[d[2], b] # NoMatch
    BY DEF Transition
  <2>3. d[1] \in Lazy /\ d[2] = RxList[d[1]] /\ RxList[d[1]] # NoMatch
        /\ Derivative[RxList[d[1]], b] \in Nullable
    BY <2>1, <2>2 DEF AtBeginning
  <2>4. PICK l \in Lazy : l = d[1]
    BY <2>3
  <2>5. RxList[l] # NoMatch /\ Derivative[RxList[l], b] \in Nullable
    BY <2>3, <2>4
  <2>6. Nullable \cap ({RxList[l]} \cup {Derivative[RxList[l], x] : x \in Byte}) = {}
    BY <2>5 DEF NoHastyLexeme
  <2> QED BY <2>5, <2>6
<1>2. CASE t # {} /\ \A e \in t : RxNextByte(e[2]) = {EOI}
  <2>1. NextByteOptions(t) = {EOI}
    BY <1>2 DEF NextByteOptions
  <2> QED BY <2>1 DEF ForcedEOI
<1> HIDE DEF t
<1> QED BY <1>1, <1>2, MatchesWhen

(* Every row begins so, also the copy of a skipped row.                     *)
LEMMA ScannedBegins ==
  ASSUME NEW c, Good(c), Begins(CurrRow(c)), NEW idx
  PROVE  Begins(ScannedRow(c, idx))
<1>1. ASSUME NEW items PROVE Begins(ParsedRow(items, idx))
  <2>1. WithSkipLexeme(AllowedLexemes(items)) \in SUBSET Lexeme
    BY ChartAssumption DEF WithSkipLexeme, AllowedLexemes
  <2> QED BY <2>1, InitialBegins DEF ParsedRow, EarleyRow, Begins, RowStartState
<1>2. Begins(SkippedRow(CurrRow(c), idx))
  <2> DEFINE start == CurrRow(c).lexer_start_state
  <2>1. AtBeginning(start)
    BY DEF Begins
  <2>2. Possible(start) \ {SkipLexeme} \in SUBSET Lexeme
    BY <2>1 DEF AtBeginning, Possible
  <2> HIDE DEF start
  <2>3. AtBeginning(AfterSkip(start))
    BY <2>1, <2>2, InitialBegins DEF AfterSkip
  <2> QED BY <2>3 DEF SkippedRow, EarleyRow, Begins, start
<1> QED BY <1>1, <1>2 DEF ScannedRow

(* What the pushes put on top: after a lexeme, the beginning of a row.      *)
LEMMA AdvanceWithinTop ==
  ASSUME NEW c, NEW def \in BOOLEAN, Fit(c, def), NEW n \in Nat, NEW pre \in PreLexemes,
         NoHastyLexeme, Begins(CurrRow(c)),
         NEW r, r = AdvanceWithin(c, pre, def, n), r.ok
  PROVE  NoneLeft(r.chart)
<1> DEFINE added == AddRow(c, pre.idx, def, n)
           e == AddedEntry(added.chart, NoByte)
           m == NumRows(c) + 1
           row == ScannedRow(c, pre.idx)
<1>1. pre.idx \in MatchingLexemesIdx
  BY DEF PreLexemes
<1>2. /\ RowAdded(c, added, def)
      /\ added.ok => added.chart.rows[m] = row
  BY <1>1, AddRowScans, AddRowFacts DEF Fit
<1>3. added.ok
  BY DEF AdvanceWithin, StartAfresh
<1>4. r = Ok(PushLexerState(added.chart, e))
  BY <1>3 DEF AdvanceWithin, StartAfresh
<1>5. e \in LexerState /\ e.row_idx = m
  BY <1>2, <1>3, AddedEntryFacts DEF Fit
<1>6. added.chart \in ParserChart /\ added.chart.lexer_stack = c.lexer_stack
  BY <1>2 DEF RowAdded
<1>7. e.lexer_state = row.lexer_start_state
  <2>1. NumRows(added.chart) = NumRows(c)
    BY <1>6 DEF NumRows, Top
  <2> QED BY <1>2, <1>3, <2>1 DEF AddedEntry, Entry, TransitionStartState
<1>8. c.lexer_stack \in Seq(LexerState)
  BY <1>6 DEF ParserChart
<1>9. Begins(row)
  BY ScannedBegins DEF Fit
<1> HIDE DEF e, m, row, added
<1>10. r.chart = PushLexerState(added.chart, e)
  BY <1>4 DEF Ok
<1>11. r.chart.lexer_stack = Append(c.lexer_stack, e) /\ r.chart.rows = added.chart.rows
  BY <1>6, <1>10, PushLexerStateFacts
<1>12. Top(r.chart) = e /\ CurrRow(r.chart) = row
  BY <1>2, <1>3, <1>5, <1>8, <1>11, PushedTop DEF added, m, row
<1> QED BY <1>7, <1>9, <1>12, BeginningOpen DEF NoneLeft, Begins

(* A byte that begins the next row's lexeme, or is it.                      *)
LEMMA AdvanceAcrossTop ==
  ASSUME NEW c, NEW def \in BOOLEAN, Fit(c, def), NEW n \in Nat,
         NEW pre \in PreLexemes, pre.byte \in Byte,
         NoHastyLexeme, Begins(CurrRow(c)),
         NEW r, r = AdvanceAcross(c, pre, def, n), r.ok
  PROVE  NoneLeft(r.chart)
<1> DEFINE added == AddRow(c, pre.idx, def, n)
           fixed == FixedChart(c, pre, def, n)
           entry == NextEntry(c, pre, def, n)
           first == FirstChart(c, pre, def, n)
           inner == InnerResult(c, pre, def, n)
           second == SecondLexeme(c, pre, def, n)
           m == NumRows(c) + 1
           row == ScannedRow(c, pre.idx)
           t == entry.lexer_state
<1>1. pre.idx \in MatchingLexemesIdx
  BY DEF PreLexemes
<1>2. /\ RowAdded(c, added, def)
      /\ added.ok => added.chart.rows[m] = row
  BY <1>1, AddRowScans, AddRowFacts DEF Fit
<1>3. /\ Good(c) /\ Coherent(c) /\ Defined(c, def)
      /\ c \in ParserChart /\ c.lexer_stack \in Seq(LexerState) /\ NumRows(c) \in Nat
  BY TopFacts DEF Fit, Good, ParserChart
<1>4. added.ok
  <2>1. ~added.ok => AdvanceAcross(c, pre, def, n) = added
    BY AcrossCases, ZenonT(60)
  <2> QED BY <2>1
<1>5. /\ entry \in LexerState /\ entry.row_idx = m
      /\ fixed \in ParserChart /\ fixed.lexer_stack = c.lexer_stack
      /\ fixed.rows = added.chart.rows
      /\ Good(first) /\ Coherent(first) /\ Defined(first, def)
      /\ NumRows(first) = m /\ first.rows = fixed.rows
      /\ second \in PreLexemes
  BY <1>3, <1>4, AcrossParts
<1>6. t = Transition(row.lexer_start_state, pre.byte)
  <2>1. NumRows(added.chart) = NumRows(c)
    BY <1>2 DEF RowAdded, NumRows, Top
  <2>2. pre.byte # NoByte
    BY NoByteAssumption
  <2> QED BY <1>2, <1>4, <2>1, <2>2 DEF NextEntry, AddedEntry, Entry, TransitionStartState
<1>7. Begins(row)
  BY <1>3, ScannedBegins
<1>8. \/ t = DEAD /\ r = GiveUpRow(fixed, entry.row_idx, def)
      \/ ~SingleByteLexeme(t) /\ r = Ok(PushLexerState(fixed, entry))
      \/ r = EndSingleByte(c, inner)
  <2>1. t = DEAD => AdvanceAcross(c, pre, def, n) = GiveUpRow(fixed, entry.row_idx, def)
    BY <1>4, AcrossCases, ZenonT(60)
  <2>2. t # DEAD /\ ~SingleByteLexeme(t) =>
          AdvanceAcross(c, pre, def, n) = Ok(PushLexerState(fixed, entry))
    BY <1>4, AcrossCases, ZenonT(60)
  <2>3. t # DEAD /\ SingleByteLexeme(t) => AdvanceAcross(c, pre, def, n) = EndSingleByte(c, inner)
    BY <1>4, AcrossCases, ZenonT(60)
  <2> HIDE DEF fixed, entry, first, inner, m, row, t, added, second
  <2> QED BY <2>1, <2>2, <2>3
<1>9. inner = AdvanceWithin(first, second, def, n)
  BY DEF InnerResult
<1>10. added.chart.rows[m] = row
  BY <1>2, <1>4
<1> HIDE DEF fixed, entry, first, inner, m, row, t, added, second
<1>11. CASE t = DEAD /\ r = GiveUpRow(fixed, entry.row_idx, def)
  BY <1>11 DEF GiveUpRow, Fail
<1>12. CASE ~SingleByteLexeme(t) /\ r = Ok(PushLexerState(fixed, entry))
  <2>1. r.chart = PushLexerState(fixed, entry)
    BY <1>12 DEF Ok
  <2>2. r.chart.lexer_stack = Append(c.lexer_stack, entry) /\ r.chart.rows = fixed.rows
    BY <1>5, <2>1, PushLexerStateFacts
  <2>3. Top(r.chart) = entry /\ CurrRow(r.chart) = r.chart.rows[entry.row_idx]
    BY <1>3, <1>5, <2>2, PushedTop
  <2>4. CurrRow(r.chart) = row
    BY <1>5, <1>10, <2>2, <2>3
  <2>5. ~HasLowestMatch(t)
    BY <1>6, <1>7, <1>12, FirstByteOpen DEF SingleByteLexeme, Begins
  <2> QED BY <1>7, <2>3, <2>4, <2>5 DEF NoneLeft, t
<1>13. CASE r = EndSingleByte(c, inner)
  <2>1. CurrRow(first) = row /\ Fit(first, def)
    BY <1>5, <1>10 DEF CurrRow, Fit
  <2>2. Outcome(first, inner, def)
    BY <1>5, <1>9, AdvanceWithinFacts
  <2>3. inner.chart \in ParserChart /\ inner.chart.lexer_stack \in Seq(LexerState)
        /\ inner.chart.lexer_stack # <<>>
    BY <2>2 DEF Outcome, Good, ParserChart
  <2>4. /\ inner.ok => r.ok /\ r.chart.lexer_stack = Append(c.lexer_stack, Last(inner.chart.lexer_stack))
        /\ ~inner.ok => ~r.ok
        /\ r.chart.rows = inner.chart.rows
    BY <1>13, <2>3, EndSingleByteKeeps
  <2>5. inner.ok
    BY <2>4
  <2>6. NoneLeft(inner.chart)
    BY <1>5, <1>7, <1>9, <2>1, <2>5, AdvanceWithinTop
  <2> DEFINE e == Last(inner.chart.lexer_stack)
  <2>7. e = Top(inner.chart) /\ e \in LexerState
    BY <2>2, TopFacts DEF Top, Outcome
  <2>8. CurrRow(inner.chart) = inner.chart.rows[e.row_idx]
    BY <2>7 DEF NumRows, CurrRow
  <2> HIDE DEF e
  <2>9. r.chart.lexer_stack = Append(c.lexer_stack, e)
    BY <2>4, <2>5 DEF e
  <2>10. Top(r.chart) = e /\ CurrRow(r.chart) = r.chart.rows[e.row_idx]
    BY <1>3, <2>7, <2>9, PushedTop
  <2> QED BY <2>4, <2>6, <2>7, <2>8, <2>10 DEF NoneLeft
<1> QED BY <1>8, <1>11, <1>12, <1>13

(* A byte pushed, from one chart without a lexeme left to the next.         *)
LEMMA TryPushByteTop ==
  ASSUME NEW c, NEW def \in BOOLEAN, Fit(c, def), NEW n \in Nat, NEW b \in Byte,
         NoHastyLexeme, NoneLeft(c),
         NEW r, r = TryPushByte(c, b, def, n), r.ok
  PROVE  NoneLeft(r.chart)
<1> DEFINE s == Top(c).lexer_state
           t == Transition(s, b)
<1>1. Good(c) /\ c \in ParserChart /\ c.lexer_stack \in Seq(LexerState)
  BY DEF Fit, Good, ParserChart
<1>2. s \in StateID /\ t \in StateID /\ NumRows(c) \in Nat \ {0}
  BY <1>1, TopFacts, TransitionType
<1>3. r = AdvanceLexerOrParser(c, Advance(s, b), def, n)
  BY DEF TryPushByte
<1>4. Begins(CurrRow(c))
  BY DEF NoneLeft
<1> HIDE DEF s, t
<1>5. CASE Advance(s, b) = LexError
  BY <1>3, <1>5 DEF LexError, AdvanceLexerOrParser, Fail
<1>6. CASE Advance(s, b) = Moved(t, b) /\ ~HasLowestMatch(t)
  <2> DEFINE e == Entry(NumRows(c), t, b)
  <2>1. e \in LexerState /\ e.row_idx = NumRows(c) /\ e.lexer_state = t
    BY <1>2 DEF Entry, LexerState
  <2>2. r = Ok(PushLexerState(c, e))
    <3>1. Moved(t, b).res = "state" /\ Moved(t, b).state = t /\ Moved(t, b).byte = b
      BY DEF Moved
    <3> QED BY <1>3, <1>6, <3>1 DEF AdvanceLexerOrParser
  <2> HIDE DEF e
  <2>3. r.chart = PushLexerState(c, e)
    BY <2>2 DEF Ok
  <2>4. r.chart.lexer_stack = Append(c.lexer_stack, e) /\ r.chart.rows = c.rows
    BY <1>1, <2>3, PushLexerStateFacts
  <2>5. Top(r.chart) = e /\ CurrRow(r.chart) = r.chart.rows[e.row_idx]
    BY <1>1, <2>1, <2>4, PushedTop
  <2> QED BY <1>4, <1>6, <2>1, <2>4, <2>5 DEF NoneLeft, CurrRow
<1>7. CASE Advance(s, b) = Recognised(PreLexeme("lazy", t, b, FALSE))
  <2> DEFINE pre == PreLexeme("lazy", t, b, FALSE)
  <2>1. pre \in PreLexemes
    BY <1>2 DEF PreLexeme, PreLexemes, MatchingLexemesIdx
  <2>2. r = AdvanceWithin(c, pre, def, n)
    <3>1. Recognised(pre).res = "lexeme" /\ Recognised(pre).pre = pre
          /\ pre.byte_next_row = FALSE
      BY DEF Recognised, PreLexeme
    <3> QED BY <1>3, <1>7, <3>1 DEF AdvanceLexerOrParser
  <2> HIDE DEF pre
  <2> QED BY <1>4, <2>1, <2>2, AdvanceWithinTop
<1>8. CASE Advance(s, b) = Recognised(PreLexeme("greedy", s, b, TRUE))
  <2> DEFINE pre == PreLexeme("greedy", s, b, TRUE)
  <2>1. pre \in PreLexemes /\ pre.byte = b
    BY <1>2 DEF PreLexeme, PreLexemes, MatchingLexemesIdx
  <2>2. r = AdvanceAcross(c, pre, def, n)
    <3>1. Recognised(pre).res = "lexeme" /\ Recognised(pre).pre = pre
          /\ pre.byte_next_row = TRUE
      BY DEF Recognised, PreLexeme
    <3> QED BY <1>3, <1>8, <3>1 DEF AdvanceLexerOrParser
  <2> HIDE DEF pre
  <2> QED BY <1>4, <2>1, <2>2, AdvanceAcrossTop
<1>9. \/ Advance(s, b) = LexError
      \/ Advance(s, b) = Moved(t, b) /\ ~HasLowestMatch(t)
      \/ Advance(s, b) = Recognised(PreLexeme("lazy", t, b, FALSE))
      \/ Advance(s, b) = Recognised(PreLexeme("greedy", s, b, TRUE))
  BY Zenon DEF Advance, t
<1> QED BY <1>5, <1>6, <1>7, <1>8, <1>9

(* The end of a lexeme.                                                     *)
LEMMA FlushLexerTop ==
  ASSUME NEW c, NEW def \in BOOLEAN, Fit(c, def), NEW n \in Nat,
         NoHastyLexeme, NoneLeft(c)
  PROVE  NoneLeft(FlushLexer(c, def, n).chart)
<1> DEFINE r == FlushLexer(c, def, n)
           s == Top(c).lexer_state
           pre == PreLexeme("greedy", s, NoByte, FALSE)
<1>1. CASE ~HasPendingLexemeBytes(c) \/ GreedyAccepting(s) = {}
  <2>1. r.chart = c
    BY <1>1 DEF FlushLexer, TryLexemeEnd, LexError, AdvanceLexerOrParser, Ok, Fail
  <2> QED BY <2>1
<1>2. CASE HasPendingLexemeBytes(c) /\ GreedyAccepting(s) # {}
  <2>1. s \in StateID
    BY TopFacts DEF Fit
  <2>2. pre \in PreLexemes /\ ~pre.byte_next_row
    BY <2>1 DEF PreLexeme, PreLexemes, MatchingLexemesIdx
  <2>3. r = AdvanceLexerOrParser(c, Recognised(pre), def, n)
    BY <1>2 DEF FlushLexer, TryLexemeEnd
  <2> HIDE DEF pre
  <2>4. r = AdvanceWithin(c, pre, def, n)
    BY <2>2, <2>3 DEF AdvanceLexerOrParser, Recognised
  <2>5. Begins(CurrRow(c))
    BY DEF NoneLeft
  <2> HIDE DEF r
  <2>6. CASE r.ok
    <3>1. NoneLeft(r.chart)
      BY <2>2, <2>4, <2>5, <2>6, AdvanceWithinTop
    <3> QED BY <3>1 DEF r
  <2>7. CASE ~r.ok
    <3> DEFINE q == AdvanceWithin(c, pre, def, n)
    <3>1. ~q.ok => q.chart = c
      BY <2>2, AdvanceWithinMore
    <3> HIDE DEF q
    <3>2. r = q
      BY <2>4 DEF q
    <3>3. NoneLeft(r.chart)
      BY <2>7, <3>1, <3>2
    <3> QED BY <3>3 DEF r
  <2> QED BY <2>6, <2>7
<1> QED BY <1>1, <1>2

(* It begins so.                                                            *)
LEMMA NewChartTop ==
  ASSUME NoHastyLexeme PROVE NoneLeft(NewChart)
<1>1. Begins(InitialRow)
  <2>1. \A items : WithSkipLexeme(AllowedLexemes(items)) \in SUBSET Lexeme
                   /\ AllowedLexemes(items) \in SUBSET Lexeme
    BY ChartAssumption DEF WithSkipLexeme, AllowedLexemes
  <2>2. \/ InitialRow.lexer_start_state = InitialState(WithSkipLexeme(AllowedLexemes(InitialItems)))
        \/ InitialRow.lexer_start_state = InitialState(AllowedLexemes(InitialItems))
    BY DEF InitialRow, EarleyRow, RowStartState
  <2> QED BY <2>1, <2>2, InitialBegins DEF Begins
<1>2. CurrRow(NewChart) = InitialRow
      /\ Top(NewChart).lexer_state = InitialRow.lexer_start_state
  <2> DEFINE s == InitialRow.lexer_start_state
  <2> HIDE DEF s
  <2>1. NewChart.lexer_stack = <<Entry(1, s, NoByte)>> /\ NewChart.rows = <<InitialRow>>
    BY DEF NewChart, s
  <2>2. Top(NewChart) = Entry(1, s, NoByte)
    BY <2>1 DEF Top, Last
  <2> QED BY <2>1, <2>2 DEF CurrRow, NumRows, Entry, s
<1> QED BY <1>1, <1>2, BeginningOpen DEF NoneLeft, Begins

(* A parser fresh from new() leaves none behind, whatever bytes it accepts. *)
LEMMA FreshTop ==
  ASSUME NoHastyLexeme, NEW bs \in Seq(Byte), Fresh(bs).ok
  PROVE  NoneLeft(Fresh(bs).chart)
<1> DEFINE m == Len(bs)
<1>1. PICK def \in BOOLEAN : def = TRUE
  OBVIOUS
<1> DEFINE f == PushedUpTo(NewChart, bs, def, 0)
           S == {k \in Nat : Fit(f[k].chart, def) /\ (f[k].ok => NoneLeft(f[k].chart))}
<1>2. /\ f[0] = Ok(NewChart)
      /\ \A k \in 1..m : f[k] = PushOne(f[k - 1], bs[k], def, 0 + k - 1)
  BY PushedUpToUnfolds
<1>3. m \in Nat
  OBVIOUS
<1> HIDE DEF f
<1>4. 0 \in S
  <2>1. f[0].chart = NewChart
    BY <1>2 DEF Ok
  <2>2. Fit(f[0].chart, def) /\ NoneLeft(f[0].chart)
    BY <1>1, <2>1, NewChartMore, NewChartTop
  <2> QED BY <2>2
<1>5. ASSUME NEW k \in 0..(m - 1), k \in S PROVE k + 1 \in S
  <2> DEFINE i == k + 1
  <2>1. i \in 1..m /\ i - 1 = k /\ 0 + i - 1 = k /\ k \in Nat /\ i \in Nat
    BY <1>3
  <2> HIDE DEF i
  <2>2. f[i] = PushOne(f[k], bs[i], def, k)
    BY <1>2, <2>1
  <2>3. bs[i] \in Byte
    BY <2>1, ElementOfSeq
  <2>4. Fit(f[k].chart, def) /\ (f[k].ok => NoneLeft(f[k].chart))
    BY <1>5
  <2>5. CASE ~f[k].ok
    <3>1. f[i] = f[k]
      BY <2>2, <2>5 DEF PushOne
    <3> QED BY <2>1, <2>4, <2>5, <3>1 DEF i
  <2>6. CASE f[k].ok
    <3>1. f[i] = TryPushByte(f[k].chart, bs[i], def, k)
      BY <2>2, <2>6 DEF PushOne
    <3>2. Fit(f[i].chart, def)
      BY <2>1, <2>3, <2>4, <3>1, TwinRefused
    <3>3. f[i].ok => NoneLeft(f[i].chart)
      BY <2>1, <2>3, <2>4, <2>6, <3>1, TryPushByteTop
    <3> QED BY <2>1, <3>2, <3>3 DEF i
  <2> QED BY <2>5, <2>6
<1> HIDE DEF S
<1>6. \A k \in 0..m : k \in S
  BY <1>3, <1>4, <1>5, UpTo
<1>7. m \in S
  BY <1>3, <1>6
<1> QED BY <1>1, <1>7 DEF S, f, Fresh, PushAll
=============================================================================
