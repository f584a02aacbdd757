------------------------- MODULE ParserState_proof --------------------------
(***************************************************************************)
(* Proofs about ParserState, for every grammar, vocabulary and bound: its  *)
(* stacks stay well-formed, are always those of a fresh parser given the   *)
(* same bytes, and what is remembered between operations (the mask in      *)
(* bias_cache, the length at which force_bytes() last stopped, the forced  *)
(* bytes themselves, row_infos) stays true.                                *)
(***************************************************************************)
EXTENDS ParserState, Chart_proof

-----------------------------------------------------------------------------
(* The inductive invariant.  The definitive part of the lexer stack is all  *)
(* of it outside walks, and what was there when the walk started during one.*)
(* An entry of scan_eos() is alone in its row and without a byte, so that a *)
(* second end of sequence pushes nothing.                                   *)
Definitive == IF Walking THEN trie_lexer_stack ELSE Len(chart.lexer_stack)

DefinitiveOK ==
  /\ Definitive \in 1..Len(chart.lexer_stack)
  /\ Definitive = Len(bytes) + (IF lexer_stack_top_eos THEN 2 ELSE 1)
  /\ chart.lexer_stack[Definitive].row_idx <= Len(chart.row_infos)

EosEntryOK ==
  lexer_stack_top_eos =>
    /\ mode \notin {"apply", "force"}
    /\ chart.lexer_stack[Definitive].byte = NoByte
    /\ chart.lexer_stack[Definitive - 1].row_idx < chart.lexer_stack[Definitive].row_idx

PathOK == Walking => trie_lexer_stack + Len(path) <= Len(chart.lexer_stack)

IInv == TypeOK /\ Good(chart) /\ DefinitiveOK /\ EosEntryOK /\ PathOK

(* The invariant holds of a parser fresh from new().                        *)
LEMMA InitInv == Init => IInv
<1> SUFFICES ASSUME Init PROVE IInv
  OBVIOUS
<1>1. Good(chart) /\ Len(chart.lexer_stack) = 1 /\ chart.lexer_stack[1].row_idx = 1
      /\ Len(chart.row_infos) = 1
  BY InitialChartFacts DEF Init
<1>2. TypeOK
  <2>1. chart \in ParserChart
    BY <1>1 DEF Good
  <2>2. /\ bytes = <<>> /\ token = <<>> /\ path = <<>> /\ Len(bytes) = 0
        /\ <<>> \in Seq(Byte) /\ applied = 0
    BY EmptySeq DEF Init
  <2>3. /\ trie_lexer_stack = 0 /\ last_force_bytes_len = Never /\ mode \in Mode
        /\ lexer_stack_top_eos = FALSE /\ parser_error = FALSE /\ failed = FALSE
    BY DEF Init, Mode
  <2>4. {lexer_stack_top_eos, parser_error, failed} \subseteq BOOLEAN
    BY <2>3, Zenon
  <2> QED BY <2>1, <2>2, <2>3, <2>4 DEF TypeOK
<1>3. ~Walking /\ ~lexer_stack_top_eos /\ bytes = <<>>
  BY DEF Init, Walking
<1> QED BY <1>1, <1>2, <1>3 DEF IInv, DefinitiveOK, EosEntryOK, PathOK, Definitive

-----------------------------------------------------------------------------
(* The steps, one lemma for each kind.                                      *)

(* Steps outside walks that leave the chart alone, but for its budget.      *)
LEMMA QuietStep ==
  ASSUME IInv, TypeOK', ~Walking, ~Walking',
         chart'.lexer_stack = chart.lexer_stack, chart'.row_infos = chart.row_infos,
         Good(chart'), bytes' = bytes, lexer_stack_top_eos' = lexer_stack_top_eos,
         lexer_stack_top_eos => mode' \notin {"apply", "force"}
  PROVE  IInv'
BY DEF IInv, DefinitiveOK, EosEntryOK, PathOK, Definitive

(* A byte pushed definitively, or refused.                                  *)
LEMMA PushStep ==
  ASSUME IInv, TypeOK', ~Walking, ~Walking', ~lexer_stack_top_eos,
         UNCHANGED lexer_stack_top_eos,
         NEW c, Good(c), c.lexer_stack = chart.lexer_stack, c.row_infos = chart.row_infos,
         NEW b \in Byte, NEW r, r = TryPushByte(c, b, TRUE, Len(bytes)),
         chart'.lexer_stack = r.chart.lexer_stack, chart'.row_infos = r.chart.row_infos,
         Good(chart'),
         bytes' = IF r.ok THEN Append(bytes, b) ELSE bytes
  PROVE  IInv'
<1>1. bytes \in Seq(Byte) /\ Len(bytes) \in Nat
  BY DEF IInv, TypeOK
<1>2. chart.lexer_stack \in Seq(LexerState) /\ Len(chart.lexer_stack) = Len(bytes) + 1
  BY DEF IInv, Good, ParserChart, DefinitiveOK, Definitive
<1>3. Defined(c, TRUE)
  BY DEF IInv, DefinitiveOK, Definitive, Defined
<1>4. Outcome(c, r, TRUE)
  BY <1>1, <1>3, TryPushByteFacts
<1>5. Len(chart'.lexer_stack) = Len(bytes') + 1
  <2>1. CASE r.ok
    <3>1. PICK e \in LexerState : chart'.lexer_stack = Append(chart.lexer_stack, e)
      BY <1>4, <2>1 DEF Outcome
    <3>2. Len(chart'.lexer_stack) = Len(chart.lexer_stack) + 1
      <4> DEFINE s == chart.lexer_stack
                 t == chart'.lexer_stack
      <4>1. s \in Seq(LexerState) /\ t = Append(s, e)
        BY <1>2, <3>1
      <4> HIDE DEF s, t
      <4>2. Len(t) = Len(s) + 1
        BY <4>1, AppendProperties
      <4> QED BY <4>2 DEF s, t
    <3>3. Len(bytes') = Len(bytes) + 1
      BY <1>1, <2>1, AppendProperties
    <3> QED BY <1>1, <1>2, <3>2, <3>3
  <2>2. CASE ~r.ok
    BY <1>2, <1>4, <2>2 DEF Outcome
  <2> QED BY <2>1, <2>2
<1>6. chart'.lexer_stack[Len(chart'.lexer_stack)].row_idx <= Len(chart'.row_infos)
  BY <1>4 DEF Outcome, Defined
<1>7. Len(chart'.lexer_stack) \in Nat \ {0}
  BY TopFacts
<1>8. DefinitiveOK'
  <2>1. ~Walking' /\ ~lexer_stack_top_eos'
    OBVIOUS
  <2>2. Definitive' = Len(chart'.lexer_stack)
    BY <2>1 DEF Definitive
  <2>3. Definitive' \in 1..Len(chart'.lexer_stack)
    <3> DEFINE n == Len(chart'.lexer_stack)
    <3>1. n \in Nat \ {0} /\ Definitive' = n
      BY <1>7, <2>2
    <3> HIDE DEF n
    <3>2. Definitive' \in 1..n
      BY <3>1
    <3> QED BY <3>2 DEF n
  <2> QED BY <1>5, <1>6, <2>1, <2>2, <2>3 DEF DefinitiveOK
<1> QED BY <1>8 DEF IInv, EosEntryOK, PathOK

(* Steps that leave stacks and rows alone.                                  *)
LEMMA TokenSteps ==
  ASSUME IInv
  PROVE  /\ \A t \in Tokens : ApplyToken(t) => IInv'
         /\ ApplyForcedByte => IInv'
         /\ ApplyEnd => IInv'
         /\ ForceBytes => IInv'
         /\ ForceDone => IInv'
<1> USE DEF IInv
<1>1. ASSUME NEW t \in Tokens, ApplyToken(t) PROVE IInv'
  <2>1. t \in Seq(Byte)
    BY ParserAssumption
  <2>2. TypeOK'
    BY <1>1, <2>1 DEF TypeOK, ApplyToken, Mode, walkVars
  <2>3. ~Walking /\ ~Walking' /\ ~lexer_stack_top_eos
    BY <1>1 DEF ApplyToken, Usable, Walking
  <2> QED BY <1>1, <2>2, <2>3, QuietStep DEF ApplyToken
<1>2. ASSUME ApplyForcedByte PROVE IInv'
  <2>1. token \in Seq(Byte) /\ token # <<>>
    BY <1>2 DEF TypeOK, ApplyForcedByte
  <2>2. Tail(token) \in Seq(Byte)
    BY <2>1, HeadTailProperties
  <2>3. TypeOK'
    <3>1. applied' \in 0..Len(bytes')
      BY <1>2 DEF TypeOK, ApplyForcedByte, Reject
    <3>2. token' \in Seq(Byte) /\ mode' \in Mode
      BY <1>2, <2>2, EmptySeq DEF TypeOK, ApplyForcedByte, Reject, Mode
    <3>3. {lexer_stack_top_eos', parser_error', failed'} \subseteq BOOLEAN
      BY <1>2, Zenon DEF TypeOK, ApplyForcedByte, Reject
    <3> QED BY <1>2, <3>1, <3>2, <3>3 DEF TypeOK, ApplyForcedByte, walkVars
  <2>4. ~Walking /\ ~Walking' /\ ~lexer_stack_top_eos
    BY <1>2 DEF ApplyForcedByte, Walking, Reject, EosEntryOK
  <2> QED BY <1>2, <2>3, <2>4, QuietStep DEF ApplyForcedByte
<1>3. ASSUME ApplyEnd PROVE IInv'
  <2>1. TypeOK'
    <3>1. {lexer_stack_top_eos', parser_error', failed'} \subseteq BOOLEAN
      <4>1. failed' \in BOOLEAN
        BY <1>3 DEF ApplyEnd
      <4> QED BY <1>3, <4>1, Zenon DEF TypeOK, ApplyEnd
    <3> QED BY <1>3, <3>1 DEF TypeOK, ApplyEnd, walkVars, Mode
  <2>2. ~Walking /\ ~Walking' /\ ~lexer_stack_top_eos
    BY <1>3 DEF ApplyEnd, Walking, EosEntryOK
  <2> QED BY <1>3, <2>1, <2>2, QuietStep DEF ApplyEnd
<1>4. ASSUME ForceBytes PROVE IInv'
  <2>1. PICK b \in Budgets : chart' = [chart EXCEPT !.budget = b]
    BY <1>4 DEF ForceBytes
  <2>2. b \in Nat \cup {Unlimited}
    BY ParserAssumption DEF Budgets
  <2>3. /\ Good(chart') /\ chart'.lexer_stack = chart.lexer_stack
        /\ chart'.row_infos = chart.row_infos
    BY <2>1, <2>2, BudgetFacts
  <2>4. TypeOK'
    BY <1>4, <2>3 DEF TypeOK, ForceBytes, tokenVars, walkVars, Mode, Good
  <2>5. ~Walking /\ ~Walking' /\ ~lexer_stack_top_eos
    BY <1>4 DEF ForceBytes, Usable, Walking
  <2> QED BY <1>4, <2>3, <2>4, <2>5, QuietStep DEF ForceBytes, tokenVars
<1>5. ASSUME ForceDone PROVE IInv'
  <2>1. PICK left \in LeftAfterWalk : ForceEnd(WithBudget(left))
    BY <1>5 DEF ForceDone
  <2>2. left \in Nat \cup {Unlimited}
    BY DEF LeftAfterWalk, Good, ParserChart
  <2> DEFINE c == WithBudget(left)
  <2>3. /\ Good(c) /\ c.lexer_stack = chart.lexer_stack
        /\ c.row_infos = chart.row_infos
    BY <2>2, BudgetFacts DEF WithBudget
  <2> HIDE DEF c
  <2>4. chart' = [c EXCEPT !.budget = Unlimited]
    BY <2>1 DEF ForceEnd, c
  <2>5. /\ Good(chart') /\ chart'.lexer_stack = chart.lexer_stack
        /\ chart'.row_infos = chart.row_infos
    BY <2>3, <2>4, BudgetFacts
  <2>6. TypeOK'
    <3>1. {lexer_stack_top_eos', parser_error', failed'} \subseteq BOOLEAN
      BY <1>5, <2>1, Zenon DEF TypeOK, ForceDone, ForceEnd
    <3> QED BY <1>5, <2>1, <2>5, <3>1 DEF TypeOK, ForceDone, ForceEnd, walkVars, Mode, Good
  <2>7. ~Walking /\ ~Walking' /\ ~lexer_stack_top_eos
    BY <1>5, <2>1 DEF ForceDone, ForceEnd, Walking, EosEntryOK
  <2> QED BY <1>5, <2>5, <2>6, <2>7, QuietStep DEF ForceDone
<1> QED BY <1>1, <1>2, <1>3, <1>4, <1>5

(* What may be forced are bytes.                                            *)
LEMMA ForcedCandidatesType ==
  ASSUME NEW left PROVE ForcedCandidates(left) \subseteq Byte
<1>1. \A c : AllowedBytes(c) \subseteq Byte
  BY DEF AllowedBytes
<1>2. \A s : NextByteForced(s) \subseteq Byte
  BY DEF NextByteForced
<1>3. \A c : ForcedByte(c) \subseteq Byte
  BY <1>1, <1>2, Zenon DEF ForcedByte, OnlyOne
<1> QED BY <1>1, <1>3, Zenon DEF ForcedCandidates

(* Bytes applied or forced.                                                 *)
LEMMA ByteSteps ==
  ASSUME IInv
  PROVE  /\ ApplyNewByte => IInv'
         /\ ForceByte => IInv'
<1> USE DEF IInv
<1>1. ASSUME ApplyNewByte PROVE IInv'
  <2> DEFINE b == Head(token)
             r == TryPushByte(chart, b, TRUE, Len(bytes))
  <2>1. /\ b \in Byte /\ Tail(token) \in Seq(Byte)
        /\ bytes \in Seq(Byte) /\ Len(bytes) \in Nat
    BY <1>1, HeadTailProperties DEF TypeOK, ApplyNewByte
  <2>2. ~Walking /\ ~Walking' /\ ~lexer_stack_top_eos
    BY <1>1 DEF ApplyNewByte, Walking, Reject, EosEntryOK
  <2>3. Defined(chart, TRUE)
    BY <2>2 DEF DefinitiveOK, Definitive, Defined
  <2> HIDE DEF b
  <2>4. Outcome(chart, r, TRUE)
    BY <2>1, <2>3, TryPushByteFacts
  <2>5. /\ chart' = r.chart
        /\ bytes' = IF r.ok THEN Append(bytes, b) ELSE bytes
        /\ IF r.ok THEN applied' = applied + 1 /\ token' = Tail(token) /\ UNCHANGED <<mode, failed>>
                   ELSE Reject /\ UNCHANGED applied
        /\ applied = Len(bytes)
    BY <1>1 DEF ApplyNewByte, b
  <2> HIDE DEF r
  <2>6. /\ Append(bytes, b) \in Seq(Byte) /\ Len(Append(bytes, b)) = Len(bytes) + 1
    BY <2>1, AppendProperties
  <2>7. TypeOK'
    <3>1. chart' \in ParserChart
      BY <2>4, <2>5 DEF Outcome, Good
    <3>2. bytes' \in Seq(Byte) /\ applied' \in 0..Len(bytes')
      BY <2>1, <2>5, <2>6
    <3>3. token' \in Seq(Byte) /\ mode' \in Mode
      BY <2>1, <2>5, EmptySeq DEF TypeOK, Reject, Mode
    <3>4. {lexer_stack_top_eos', parser_error', failed'} \subseteq BOOLEAN
      BY <1>1, <2>5, Zenon DEF TypeOK, ApplyNewByte, Reject
    <3> QED BY <1>1, <3>1, <3>2, <3>3, <3>4 DEF TypeOK, ApplyNewByte, walkVars
  <2>8. Good(chart')
    BY <2>4, <2>5 DEF Outcome
  <2>9. UNCHANGED lexer_stack_top_eos
    BY <1>1 DEF ApplyNewByte
  <2> QED BY <2>1, <2>2, <2>5, <2>7, <2>8, <2>9, PushStep DEF r
<1>2. ASSUME ForceByte PROVE IInv'
  <2>1. PICK left \in LeftAfterWalk : \E b \in ForcedCandidates(left) :
          LET r == TryPushByte(WithBudget(left), b, TRUE, Len(bytes)) IN
          IF r.ok
          THEN /\ chart' = r.chart /\ bytes' = Append(bytes, b)
               /\ UNCHANGED <<mode, parser_error, last_force_bytes_len>>
          ELSE ForceEnd(r.chart) /\ UNCHANGED bytes
    BY <1>2 DEF ForceByte
  <2> DEFINE c == WithBudget(left)
  <2>2. PICK b \in ForcedCandidates(left) :
          LET r == TryPushByte(c, b, TRUE, Len(bytes)) IN
          IF r.ok
          THEN /\ chart' = r.chart /\ bytes' = Append(bytes, b)
               /\ UNCHANGED <<mode, parser_error, last_force_bytes_len>>
          ELSE ForceEnd(r.chart) /\ UNCHANGED bytes
    BY <2>1
  <2>3. b \in Byte
    BY <2>2, ForcedCandidatesType
  <2>4. left \in Nat \cup {Unlimited}
    BY DEF LeftAfterWalk, Good, ParserChart
  <2>5. /\ Good(c) /\ c.lexer_stack = chart.lexer_stack
        /\ c.row_infos = chart.row_infos
    BY <2>4, BudgetFacts DEF WithBudget
  <2>6. ~Walking /\ ~Walking' /\ ~lexer_stack_top_eos
    BY <1>2, <2>2 DEF ForceByte, ForceEnd, Walking, EosEntryOK
  <2> DEFINE r == TryPushByte(c, b, TRUE, Len(bytes))
  <2> HIDE DEF c
  <2>7. Defined(c, TRUE) /\ bytes \in Seq(Byte) /\ Len(bytes) \in Nat
    BY <2>5, <2>6 DEF DefinitiveOK, Definitive, Defined, TypeOK
  <2>8. Outcome(c, r, TRUE)
    BY <2>3, <2>5, <2>7, TryPushByteFacts
  <2> HIDE DEF r
  <2>9. /\ Good(chart')
        /\ chart'.lexer_stack = r.chart.lexer_stack /\ chart'.row_infos = r.chart.row_infos
    <3>1. CASE r.ok
      BY <2>2, <2>8, <3>1 DEF Outcome, r
    <3>2. CASE ~r.ok
      <4>1. chart' = [r.chart EXCEPT !.budget = Unlimited]
        BY <2>2, <3>2 DEF ForceEnd, r
      <4> QED BY <2>8, <4>1, BudgetFacts DEF Outcome
    <3> QED BY <3>1, <3>2
  <2>10. bytes' = IF r.ok THEN Append(bytes, b) ELSE bytes
    BY <2>2 DEF r
  <2>11. TypeOK'
    <3>1. bytes' \in Seq(Byte) /\ applied' \in 0..Len(bytes')
      <4>1. Append(bytes, b) \in Seq(Byte) /\ Len(Append(bytes, b)) = Len(bytes) + 1
        BY <2>3, <2>7, AppendProperties
      <4> QED BY <1>2, <2>7, <2>10, <4>1 DEF TypeOK, ForceByte
    <3>2. mode' \in Mode /\ last_force_bytes_len' \in Nat \cup {Never}
      BY <2>2, <2>7 DEF TypeOK, ForceEnd, Mode
    <3>3. {lexer_stack_top_eos', parser_error', failed'} \subseteq BOOLEAN
      BY <1>2, <2>2, Zenon DEF TypeOK, ForceByte, ForceEnd
    <3> QED BY <1>2, <2>9, <3>1, <3>2, <3>3 DEF TypeOK, ForceByte, walkVars, Good
  <2>12. UNCHANGED lexer_stack_top_eos
    BY <1>2 DEF ForceByte
  <2> QED BY <2>3, <2>5, <2>6, <2>9, <2>10, <2>11, <2>12, PushStep DEF r
<1> QED BY <1>1, <1>2

(* Outside walks the whole lexer stack is definitive.                       *)
LEMMA AtRest ==
  ASSUME IInv, ~Walking
  PROVE  /\ bytes \in Seq(Byte) /\ Len(bytes) \in Nat /\ applied \in 0..Len(bytes)
         /\ chart.lexer_stack \in Seq(LexerState)
         /\ Len(chart.lexer_stack) \in Nat \ {0}
         /\ Len(chart.lexer_stack) = Len(bytes) + (IF lexer_stack_top_eos THEN 2 ELSE 1)
         /\ NumRows(chart) = chart.lexer_stack[Len(chart.lexer_stack)].row_idx
         /\ NumRows(chart) \in Nat
         /\ NumRows(chart) <= Len(chart.row_infos)
         /\ chart.row_infos \in Seq(Int)
         /\ Defined(chart, TRUE)
<1>1. Good(chart) /\ TypeOK /\ DefinitiveOK
  BY DEF IInv
<1>2. /\ Len(chart.lexer_stack) \in Nat \ {0}
      /\ NumRows(chart) = chart.lexer_stack[Len(chart.lexer_stack)].row_idx
      /\ NumRows(chart) \in Nat
  BY <1>1, TopFacts
<1>3. chart.lexer_stack \in Seq(LexerState) /\ chart.row_infos \in Seq(Int)
  BY <1>1 DEF Good, ParserChart
<1>4. bytes \in Seq(Byte) /\ Len(bytes) \in Nat /\ applied \in 0..Len(bytes)
  BY <1>1 DEF TypeOK
<1>5. /\ Len(chart.lexer_stack) = Len(bytes) + (IF lexer_stack_top_eos THEN 2 ELSE 1)
      /\ chart.lexer_stack[Len(chart.lexer_stack)].row_idx <= Len(chart.row_infos)
  BY <1>1 DEF DefinitiveOK, Definitive
<1> QED BY <1>2, <1>3, <1>4, <1>5 DEF Defined

(* An end of sequence.                                                      *)
LEMMA ScanEosStep ==
  ASSUME IInv, ScanEos
  PROVE  IInv'
<1> USE DEF IInv
<1> DEFINE r == FlushLexer(chart, TRUE, Len(bytes))
           s == chart.lexer_stack
           t == r.chart.lexer_stack
           grew == Len(t) # Len(s)
<1>1. /\ chart' = r.chart
      /\ lexer_stack_top_eos' = (lexer_stack_top_eos \/ (r.ok /\ grew))
      /\ failed' = ~(applied = Len(bytes) /\ IsAccepting(r.chart))
      /\ UNCHANGED <<bytes, applied, last_force_bytes_len, parser_error, mode, token,
                     trie_lexer_stack, path>>
      /\ mode = "idle"
  BY DEF ScanEos, walkVars, Usable
<1>2. ~Walking /\ ~Walking'
  BY <1>1 DEF Walking
<1>3. /\ bytes \in Seq(Byte) /\ Len(bytes) \in Nat
      /\ s \in Seq(LexerState) /\ Len(s) \in Nat \ {0}
      /\ Len(s) = Len(bytes) + (IF lexer_stack_top_eos THEN 2 ELSE 1)
      /\ NumRows(chart) = s[Len(s)].row_idx /\ NumRows(chart) \in Nat
  BY <1>2, AtRest
<1>4. Defined(chart, TRUE)
  BY <1>2, AtRest
<1>5. /\ r.ok \in BOOLEAN /\ Good(r.chart) /\ Defined(r.chart, TRUE)
      /\ \/ t = s
         \/ /\ r.ok /\ HasPendingLexemeBytes(chart)
            /\ \E e \in LexerState : /\ t = Append(s, e)
                                     /\ e.row_idx = NumRows(chart) + 1 /\ e.byte = NoByte
  BY <1>3, <1>4, FlushLexerFacts
<1> HIDE DEF r
<1>6. TypeOK'
  <2>1. failed' \in BOOLEAN
    BY <1>1, Zenon
  <2>2. {lexer_stack_top_eos', parser_error', failed'} \subseteq BOOLEAN
    BY <1>1, <1>5, <2>1, Zenon DEF TypeOK
  <2> QED BY <1>1, <1>5, <2>2 DEF TypeOK, Good
<1>7. CASE t = s
  <2>1. lexer_stack_top_eos' = lexer_stack_top_eos
    BY <1>1, <1>7, Zenon DEF TypeOK
  <2>2. Definitive' = Definitive /\ chart'.lexer_stack = s
    BY <1>1, <1>2, <1>7 DEF Definitive
  <2>3. DefinitiveOK'
    BY <1>1, <1>2, <1>5, <1>7, <2>1, <2>2 DEF DefinitiveOK, Definitive, Defined
  <2> QED BY <1>1, <1>2, <1>5, <1>6, <1>7, <2>1, <2>2, <2>3 DEF EosEntryOK, PathOK
<1>8. CASE t # s
  <2>1. PICK e \in LexerState : t = Append(s, e) /\ e.row_idx = NumRows(chart) + 1 /\ e.byte = NoByte
    BY <1>5, <1>8
  <2> HIDE DEF s, t
  <2>2. Len(t) = Len(s) + 1 /\ t[Len(s)] = s[Len(s)] /\ t[Len(s) + 1] = e
    BY <1>3, <2>1, AppendProperties
  <2>3. ~lexer_stack_top_eos
    <3>1. SUFFICES ASSUME lexer_stack_top_eos PROVE FALSE
      OBVIOUS
    <3>2. s[Len(s)].byte = NoByte /\ s[Len(s) - 1].row_idx < s[Len(s)].row_idx
      BY <1>2, <3>1 DEF EosEntryOK, Definitive, s
    <3>3. Len(s) - 1 \in 1..Len(s)
      BY <1>3, <3>1
    <3>4. PICK i \in 1..Len(s) : s[i].byte # NoByte
                                 /\ \A k \in i..Len(s) : s[k].row_idx = NumRows(chart)
      BY <1>5, <1>8 DEF HasPendingLexemeBytes, s, t
    <3>5. i <= Len(s) - 1
      BY <1>3, <3>2, <3>4
    <3>6. s[Len(s) - 1].row_idx = NumRows(chart)
      BY <1>3, <3>3, <3>4, <3>5
    <3> QED BY <1>3, <3>2, <3>6
  <2>4. lexer_stack_top_eos' = TRUE
    BY <1>1, <1>3, <1>5, <1>8, <2>2 DEF s, t
  <2>5. chart'.lexer_stack = t /\ Definitive' = Len(t)
    BY <1>1, <1>2 DEF Definitive, t
  <2>6. Len(t) \in 1..Len(t) /\ Len(t) = Len(bytes) + 2 /\ Len(t) - 1 = Len(s)
    BY <1>3, <2>2, <2>3
  <2>7. DefinitiveOK'
    BY <1>1, <1>5, <2>4, <2>5, <2>6 DEF DefinitiveOK, Defined, t
  <2>8. EosEntryOK'
    BY <1>1, <1>3, <2>1, <2>2, <2>5, <2>6 DEF EosEntryOK
  <2> QED BY <1>1, <1>2, <1>5, <1>6, <2>7, <2>8 DEF PathOK
<1> QED BY <1>7, <1>8

(* A rollback.                                                              *)
LEMMA RollbackStep ==
  ASSUME IInv, NEW n \in 0..MaxBytes, Rollback(n)
  PROVE  IInv'
<1> USE DEF IInv
<1> DEFINE m == applied' + 1
           d == [chart EXCEPT !.lexer_stack = SubSeq(@, 1, m)]
           infos == SubSeq(d.row_infos, 1, NumRows(d))
           e == [d EXCEPT !.row_infos = infos]
<1>1. /\ n <= applied /\ applied' = applied - n /\ bytes' = SubSeq(bytes, 1, applied')
      /\ chart' = RolledBack(chart, applied')
      /\ last_force_bytes_len' = Never /\ lexer_stack_top_eos' = FALSE
      /\ UNCHANGED <<parser_error, failed, mode, token, trie_lexer_stack, path>>
      /\ mode = "idle"
  BY DEF Rollback, walkVars, Usable
<1>2. ~Walking /\ ~Walking'
  BY <1>1 DEF Walking
<1>3. /\ bytes \in Seq(Byte) /\ Len(bytes) \in Nat /\ applied \in 0..Len(bytes)
      /\ Len(chart.lexer_stack) \in Nat
      /\ Len(chart.lexer_stack) >= Len(bytes) + 1
      /\ NumRows(chart) \in Nat /\ NumRows(chart) <= Len(chart.row_infos)
      /\ chart.row_infos \in Seq(Int)
  <2>1. Len(chart.lexer_stack) >= Len(bytes) + 1
    BY <1>2, AtRest
  <2> QED BY <1>2, <2>1, AtRest
<1>4. applied' \in 0..Len(bytes) /\ m \in 1..Len(chart.lexer_stack)
  BY <1>1, <1>3, ParserAssumption
<1>5. bytes' \in Seq(Byte) /\ Len(bytes') = applied'
  <2>1. \A i \in 1..applied' : bytes[i] \in Byte
    BY <1>3, <1>4, ElementOfSeq
  <2> QED BY <1>1, <1>4, <2>1, SubSeqProperties
<1>6. /\ Good(d) /\ Len(d.lexer_stack) = m
      /\ NumRows(d) <= NumRows(chart) /\ d.row_infos = chart.row_infos
  BY <1>4, TruncateFacts
<1>7. chart' = Speculative(e)
  BY <1>1 DEF RolledBack
<1> HIDE DEF d, m
<1>8. infos \in Seq(Int) /\ Len(infos) = NumRows(d)
  <2>1. NumRows(d) \in Nat
    BY <1>6, TopFacts
  <2>2. \A i \in 1..NumRows(d) : d.row_infos[i] \in Int
    BY <1>3, <1>6, <2>1, ElementOfSeq
  <2> QED BY <2>1, <2>2, SubSeqProperties
<1> HIDE DEF infos
<1>9. Good(e) /\ e.lexer_stack = d.lexer_stack /\ e.row_infos = infos
  BY <1>6, <1>8 DEF Good, ParserChart
<1> HIDE DEF e
<1>10. Good(chart') /\ chart'.lexer_stack = d.lexer_stack /\ chart'.row_infos = infos
  BY <1>7, <1>9, SpeculativeFacts
<1>11. Definitive' = m /\ Definitive' \in 1..Len(chart'.lexer_stack)
  BY <1>2, <1>4, <1>6, <1>10 DEF Definitive
<1>12. NumRows(d) = d.lexer_stack[m].row_idx
  BY <1>6, TopFacts
<1>13. DefinitiveOK'
  BY <1>1, <1>5, <1>8, <1>10, <1>11, <1>12 DEF DefinitiveOK, m
<1>14. TypeOK'
  <2>1. {lexer_stack_top_eos', parser_error', failed'} \subseteq BOOLEAN
    BY <1>1, Zenon DEF TypeOK
  <2>2. applied' \in 0..Len(bytes')
    BY <1>4, <1>5
  <2> QED BY <1>1, <1>5, <1>10, <2>1, <2>2 DEF TypeOK, Good
<1> QED BY <1>1, <1>2, <1>10, <1>13, <1>14 DEF EosEntryOK, PathOK

-----------------------------------------------------------------------------
(* Walks.  LowKept: what a step of a walk leaves alone.                     *)
LowKept ==
  /\ trie_lexer_stack \in 1..Len(chart'.lexer_stack)
  /\ \A i \in 1..trie_lexer_stack : chart'.lexer_stack[i] = chart.lexer_stack[i]
  /\ \A k \in 1..chart.lexer_stack[trie_lexer_stack].row_idx : chart'.rows[k] = chart.rows[k]
  /\ chart'.row_infos = chart.row_infos

(* During a walk the stack is the definitive part and the path above it.    *)
LEMMA InWalk ==
  ASSUME IInv, Walking
  PROVE  /\ Good(chart) /\ chart.lexer_stack \in Seq(LexerState)
         /\ Len(chart.lexer_stack) \in Nat
         /\ trie_lexer_stack \in 1..Len(chart.lexer_stack)
         /\ path \in Seq(Byte) /\ Len(path) \in Nat
         /\ trie_lexer_stack + Len(path) <= Len(chart.lexer_stack)
         /\ chart.lexer_stack[trie_lexer_stack].row_idx \in Nat
         /\ chart.lexer_stack[trie_lexer_stack].row_idx <= NumRows(chart)
         /\ NumRows(chart) = chart.lexer_stack[Len(chart.lexer_stack)].row_idx
         /\ NumRows(chart) \in Nat
<1>1. Good(chart) /\ TypeOK /\ DefinitiveOK /\ PathOK
  BY DEF IInv
<1>2. /\ trie_lexer_stack \in 1..Len(chart.lexer_stack)
      /\ trie_lexer_stack + Len(path) <= Len(chart.lexer_stack)
      /\ path \in Seq(Byte) /\ Len(path) \in Nat
  BY <1>1 DEF DefinitiveOK, Definitive, PathOK, TypeOK
<1>3. /\ Len(chart.lexer_stack) \in Nat \ {0}
      /\ NumRows(chart) = chart.lexer_stack[Len(chart.lexer_stack)].row_idx
      /\ NumRows(chart) \in Nat
  BY <1>1, TopFacts
<1>4. chart.lexer_stack \in Seq(LexerState)
  BY <1>1 DEF Good, ParserChart
<1>5. chart.lexer_stack[trie_lexer_stack] \in LexerState
  BY <1>2, <1>4, ElementOfSeq
<1>6. chart.lexer_stack[trie_lexer_stack].row_idx <= NumRows(chart)
  BY <1>1, <1>2, <1>3 DEF Good
<1> QED BY <1>1, <1>2, <1>3, <1>4, <1>5, <1>6 DEF LexerState

(* A step of a walk that leaves the definitive part alone.                  *)
LEMMA WalkStep ==
  ASSUME IInv, Walking, Walking', TypeOK', Good(chart'), LowKept, PathOK',
         UNCHANGED <<trie_lexer_stack, bytes, lexer_stack_top_eos>>
  PROVE  IInv'
<1>1. Definitive = trie_lexer_stack /\ Definitive' = trie_lexer_stack
  BY DEF Definitive
<1>2. trie_lexer_stack \in Nat
  BY DEF IInv, TypeOK
<1>3. DefinitiveOK'
  BY <1>1, <1>2 DEF IInv, DefinitiveOK, LowKept
<1>4. EosEntryOK'
  <2>1. mode' \notin {"apply", "force"}
    BY DEF Walking
  <2>2. ASSUME lexer_stack_top_eos
        PROVE  trie_lexer_stack - 1 \in 1..trie_lexer_stack
    <3>1. trie_lexer_stack = Len(bytes) + 2 /\ Len(bytes) \in Nat
      BY <1>1, <2>2 DEF IInv, DefinitiveOK, TypeOK
    <3> QED BY <3>1
  <2>3. trie_lexer_stack \in 1..trie_lexer_stack
    BY <1>2 DEF LowKept
  <2> QED BY <1>1, <2>1, <2>2, <2>3 DEF IInv, EosEntryOK, LowKept
<1> QED BY <1>3, <1>4 DEF IInv

(* Pushing in a walk disturbs nothing below.                                *)
LEMMA WalkPush ==
  ASSUME IInv, Walking, Keeps(chart, chart', FALSE),
         \/ chart'.lexer_stack = chart.lexer_stack
         \/ \E e \in LexerState : chart'.lexer_stack = Append(chart.lexer_stack, e)
  PROVE  LowKept
<1> DEFINE s == chart.lexer_stack
           t == chart'.lexer_stack
<1>1. /\ s \in Seq(LexerState) /\ Len(s) \in Nat
      /\ trie_lexer_stack \in 1..Len(s)
      /\ s[trie_lexer_stack].row_idx \in Nat
      /\ s[trie_lexer_stack].row_idx <= NumRows(chart)
      /\ NumRows(chart) = s[Len(s)].row_idx /\ NumRows(chart) \in Nat
  BY InWalk
<1>2. t = s \/ \E e \in LexerState : t = Append(s, e)
  OBVIOUS
<1> HIDE DEF s, t
<1>3. trie_lexer_stack \in 1..Len(t) /\ \A i \in 1..trie_lexer_stack : t[i] = s[i]
  <2>1. CASE t = s
    BY <1>1, <2>1
  <2>2. ASSUME NEW e \in LexerState, t = Append(s, e)
        PROVE  Len(t) = Len(s) + 1 /\ \A i \in 1..Len(s) : t[i] = s[i]
    BY <1>1, <2>2, AppendProperties
  <2> QED BY <1>1, <1>2, <2>1, <2>2
<1>4. \A k \in 1..s[trie_lexer_stack].row_idx : chart'.rows[k] = chart.rows[k]
  BY <1>1 DEF Keeps, s
<1> QED BY <1>3, <1>4 DEF LowKept, Keeps, s, t

(* Popping in a walk stops at the height the walk started from.             *)
LEMMA WalkTruncate ==
  ASSUME IInv, Walking, NEW m \in trie_lexer_stack..Len(chart.lexer_stack),
         chart' = [chart EXCEPT !.lexer_stack = SubSeq(@, 1, m)]
  PROVE  Good(chart') /\ Len(chart'.lexer_stack) = m /\ LowKept
<1>1. Good(chart) /\ trie_lexer_stack \in 1..Len(chart.lexer_stack)
      /\ Len(chart.lexer_stack) \in Nat
  BY InWalk
<1>2. m \in 1..Len(chart.lexer_stack)
  BY <1>1
<1>3. /\ Good(chart') /\ Len(chart'.lexer_stack) = m
      /\ \A i \in 1..m : chart'.lexer_stack[i] = chart.lexer_stack[i]
      /\ chart'.rows = chart.rows /\ chart'.row_infos = chart.row_infos
  BY <1>1, <1>2, TruncateFacts
<1>4. trie_lexer_stack \in 1..m /\ \A i \in 1..trie_lexer_stack : i \in 1..m
  BY <1>1
<1> QED BY <1>3, <1>4 DEF LowKept

(* A walk begins.                                                           *)
LEMMA BeginWalkSteps ==
  ASSUME IInv, BeginMask \/ BeginQuery
  PROVE  IInv' /\ ~Walking
<1>1. PICK m \in {"mask", "query"} : \E b \in Nat \cup {Unlimited} : BeginWalk(m, b)
  <2>1. Budgets \subseteq Nat \cup {Unlimited}
    BY ParserAssumption DEF Budgets
  <2>2. CASE BeginMask
    BY <2>1, <2>2, Zenon DEF BeginMask
  <2>3. CASE BeginQuery
    BY <2>3, Zenon DEF BeginQuery
  <2> QED BY <2>2, <2>3
<1>2. PICK b \in Nat \cup {Unlimited} : BeginWalk(m, b)
  BY <1>1
<1>3. mode = "idle" /\ ~Walking
  BY DEF BeginMask, BeginQuery, Usable, Walking
<1> DEFINE c == Speculative(chart)
<1>4. Good(chart) /\ TypeOK
  BY DEF IInv
<1>5. Good(c) /\ c.lexer_stack = chart.lexer_stack /\ c.row_infos = chart.row_infos
  BY <1>4, SpeculativeFacts
<1>6. chart' = [c EXCEPT !.budget = b]
  BY <1>2 DEF BeginWalk
<1> HIDE DEF c
<1>7. Good(chart') /\ chart'.lexer_stack = chart.lexer_stack
      /\ chart'.row_infos = chart.row_infos
  BY <1>5, <1>6, BudgetFacts
<1>8. /\ mode' = m /\ trie_lexer_stack' = Len(chart.lexer_stack) /\ path' = <<>>
      /\ UNCHANGED <<bytes, applied, lexer_stack_top_eos, last_force_bytes_len, failed,
                     token, parser_error>>
  BY <1>2 DEF BeginWalk, tokenVars
<1>9. Walking' /\ Definitive' = Definitive
  BY <1>3, <1>8 DEF Walking, Definitive
<1>10. Len(chart.lexer_stack) \in Nat /\ Len(path') = 0 /\ path' \in Seq(Byte)
  BY <1>3, <1>8, AtRest, EmptySeq
<1>11. TypeOK'
  BY <1>4, <1>7, <1>8, <1>10 DEF TypeOK, Good, Mode
<1>12. DefinitiveOK'
  BY <1>7, <1>8, <1>9 DEF IInv, DefinitiveOK
<1>13. EosEntryOK'
  BY <1>7, <1>8, <1>9 DEF IInv, EosEntryOK
<1>14. PathOK'
  BY <1>7, <1>8, <1>10 DEF PathOK
<1> QED BY <1>3, <1>7, <1>11, <1>12, <1>13, <1>14 DEF IInv

(* A byte pushed in a walk, or refused.                                     *)
LEMMA WalkByteStep ==
  ASSUME IInv, NEW b \in Byte, WalkByte(b)
  PROVE  IInv' /\ Walking' /\ LowKept /\ UNCHANGED trie_lexer_stack
<1> DEFINE r == TryPushByte(chart, b, FALSE, 0)
<1>1. Walking /\ Walking'
  BY DEF WalkByte, Walking
<1>2. Good(chart) /\ Defined(chart, FALSE) /\ TypeOK
  BY DEF IInv, Defined
<1>3. Outcome(chart, r, FALSE)
  BY <1>2, TryPushByteFacts
<1>4. /\ chart' = r.chart /\ path' = (IF r.ok THEN Append(path, b) ELSE path)
      /\ UNCHANGED <<bytes, applied, lexer_stack_top_eos, last_force_bytes_len, failed,
                     token, trie_lexer_stack, parser_error, mode>>
  BY DEF WalkByte, tokenVars
<1> HIDE DEF r
<1>5. Good(chart') /\ Keeps(chart, chart', FALSE)
  BY <1>3, <1>4 DEF Outcome
<1>6. \/ ~r.ok /\ chart'.lexer_stack = chart.lexer_stack
      \/ r.ok /\ \E e \in LexerState : chart'.lexer_stack = Append(chart.lexer_stack, e)
  BY <1>3, <1>4 DEF Outcome
<1>7. LowKept
  BY <1>1, <1>5, <1>6, WalkPush
<1>8. /\ path \in Seq(Byte) /\ Len(path) \in Nat
      /\ chart.lexer_stack \in Seq(LexerState) /\ Len(chart.lexer_stack) \in Nat
      /\ trie_lexer_stack + Len(path) <= Len(chart.lexer_stack)
      /\ trie_lexer_stack \in Nat
  BY <1>1, <1>2, InWalk DEF TypeOK
<1>9. path' \in Seq(Byte) /\ trie_lexer_stack + Len(path') <= Len(chart'.lexer_stack)
  <2> DEFINE s == chart.lexer_stack
             t == chart'.lexer_stack
  <2>1. CASE ~r.ok
    BY <1>4, <1>6, <1>8, <2>1
  <2>2. CASE r.ok
    <3>1. PICK e \in LexerState : t = Append(s, e)
      BY <1>6, <2>2
    <3> HIDE DEF s, t
    <3>2. Len(t) = Len(s) + 1
      BY <1>8, <3>1, AppendProperties DEF s
    <3>3. path' = Append(path, b)
      BY <1>4, <2>2
    <3> DEFINE q == path'
    <3>4. q = Append(path, b)
      BY <3>3
    <3> HIDE DEF q
    <3>5. q \in Seq(Byte) /\ Len(q) = Len(path) + 1
      BY <1>8, <3>4, AppendProperties
    <3> QED BY <1>8, <3>2, <3>5 DEF s, t, q
  <2> QED BY <2>1, <2>2
<1>10. TypeOK'
  BY <1>2, <1>4, <1>5, <1>9 DEF TypeOK, Good
<1>11. PathOK'
  BY <1>4, <1>9 DEF PathOK
<1>12. IInv'
  BY <1>1, <1>4, <1>5, <1>7, <1>10, <1>11, WalkStep
<1> QED BY <1>1, <1>4, <1>7, <1>12

(* Bytes popped in a walk.                                                  *)
LEMMA WalkPopStep ==
  ASSUME IInv, NEW n \in 1..MaxWalk, WalkPop(n)
  PROVE  IInv' /\ Walking' /\ LowKept /\ UNCHANGED trie_lexer_stack
<1> DEFINE m == Len(chart.lexer_stack) - n
           l == Len(path) - n
<1>1. Walking /\ Walking'
  BY DEF WalkPop, Walking
<1>2. /\ chart' = [chart EXCEPT !.lexer_stack = SubSeq(@, 1, m)]
      /\ path' = SubSeq(path, 1, l) /\ n <= Len(path)
      /\ UNCHANGED <<bytes, applied, lexer_stack_top_eos, last_force_bytes_len, failed,
                     token, trie_lexer_stack, parser_error, mode>>
  <2>1. chart.lexer_stack \in Seq(LexerState) /\ chart \in ParserChart
    BY <1>1, InWalk DEF Good
  <2>2. chart' = PopLexerStates(chart, n)
    BY DEF WalkPop
  <2> QED BY <2>1, <2>2 DEF WalkPop, tokenVars, PopLexerStates, ParserChart
<1>3. /\ path \in Seq(Byte) /\ Len(path) \in Nat
      /\ Len(chart.lexer_stack) \in Nat
      /\ trie_lexer_stack + Len(path) <= Len(chart.lexer_stack)
      /\ trie_lexer_stack \in Nat
  BY <1>1, InWalk DEF IInv, TypeOK
<1>4. m \in trie_lexer_stack..Len(chart.lexer_stack) /\ l \in 0..Len(path)
      /\ trie_lexer_stack + l <= m /\ n \in Nat
  BY <1>2, <1>3, ParserAssumption
<1> HIDE DEF m, l
<1>5. Good(chart') /\ Len(chart'.lexer_stack) = m /\ LowKept
  BY <1>1, <1>2, <1>4, WalkTruncate
<1>6. path' \in Seq(Byte) /\ Len(path') = l
  <2>1. \A i \in 1..l : path[i] \in Byte
    BY <1>3, <1>4, ElementOfSeq
  <2> DEFINE q == SubSeq(path, 1, l)
  <2>2. l \in Nat
    BY <1>3, <1>4
  <2>3. q \in Seq(Byte) /\ Len(q) = l
    BY <2>1, <2>2, SubSeqProperties
  <2>4. path' = q
    BY <1>2
  <2> HIDE DEF q
  <2> QED BY <2>3, <2>4
<1>7. TypeOK'
  BY <1>2, <1>5, <1>6 DEF IInv, TypeOK, Good
<1>8. PathOK'
  BY <1>2, <1>4, <1>5, <1>6 DEF PathOK
<1>9. IInv'
  BY <1>1, <1>2, <1>5, <1>7, <1>8, WalkStep
<1> QED BY <1>1, <1>2, <1>5, <1>9

(* The flush of a query.                                                    *)
LEMMA WalkFlushStep ==
  ASSUME IInv, WalkFlush
  PROVE  IInv' /\ Walking' /\ LowKept /\ UNCHANGED trie_lexer_stack
<1> DEFINE r == FlushLexer(chart, FALSE, 0)
<1>1. Walking /\ Walking'
  BY DEF WalkFlush, Walking
<1>2. Good(chart) /\ Defined(chart, FALSE) /\ TypeOK
  BY DEF IInv, Defined
<1>3. /\ Good(r.chart) /\ Keeps(chart, r.chart, FALSE)
      /\ \/ r.chart.lexer_stack = chart.lexer_stack
         \/ \E e \in LexerState : r.chart.lexer_stack = Append(chart.lexer_stack, e)
  BY <1>2, FlushLexerFacts
<1>4. /\ chart' = r.chart /\ mode' = "flushed"
      /\ UNCHANGED <<bytes, applied, lexer_stack_top_eos, last_force_bytes_len, failed,
                     token, trie_lexer_stack, path, parser_error>>
  BY DEF WalkFlush, tokenVars, walkVars
<1> HIDE DEF r
<1>5. Good(chart') /\ Keeps(chart, chart', FALSE) /\ LowKept
  BY <1>1, <1>3, <1>4, WalkPush
<1>6. TypeOK'
  BY <1>2, <1>4, <1>5 DEF TypeOK, Good, Mode
<1>7. PathOK'
  <2> DEFINE s == chart.lexer_stack
             t == chart'.lexer_stack
  <2>1. /\ s \in Seq(LexerState) /\ Len(s) \in Nat
        /\ trie_lexer_stack + Len(path) <= Len(s)
        /\ Len(path) \in Nat /\ trie_lexer_stack \in Nat
    BY <1>1, <1>2, InWalk DEF TypeOK
  <2>2. t = s \/ \E e \in LexerState : t = Append(s, e)
    BY <1>3, <1>4
  <2> HIDE DEF s, t
  <2>3. Len(t) = Len(s) \/ Len(t) = Len(s) + 1
    BY <2>1, <2>2, AppendProperties
  <2> QED BY <1>4, <2>1, <2>3 DEF PathOK, t
<1>8. IInv'
  BY <1>1, <1>4, <1>5, <1>6, <1>7, WalkStep
<1> QED BY <1>1, <1>4, <1>5, <1>8

(* The flush taken back.                                                    *)
LEMMA WalkRestoreStep ==
  ASSUME IInv, WalkRestore
  PROVE  IInv' /\ Walking' /\ LowKept /\ UNCHANGED trie_lexer_stack
<1> DEFINE m == trie_lexer_stack + Len(path)
<1>1. Walking /\ Walking'
  BY DEF WalkRestore, Walking
<1>2. /\ chart' = [chart EXCEPT !.lexer_stack = SubSeq(@, 1, m)] /\ mode' = "query"
      /\ UNCHANGED <<bytes, applied, lexer_stack_top_eos, last_force_bytes_len, failed,
                     token, trie_lexer_stack, path, parser_error>>
  BY DEF WalkRestore, tokenVars, walkVars
<1>3. /\ Len(path) \in Nat /\ trie_lexer_stack \in Nat
      /\ Len(chart.lexer_stack) \in Nat
      /\ trie_lexer_stack + Len(path) <= Len(chart.lexer_stack)
  BY <1>1, InWalk DEF IInv, TypeOK
<1>4. m \in trie_lexer_stack..Len(chart.lexer_stack)
  BY <1>3
<1>5. Good(chart') /\ Len(chart'.lexer_stack) = m /\ LowKept
  BY <1>1, <1>2, <1>4, WalkTruncate
<1>6. TypeOK'
  BY <1>2, <1>5 DEF IInv, TypeOK, Good, Mode
<1>7. PathOK'
  BY <1>2, <1>3, <1>5 DEF PathOK
<1>8. IInv'
  BY <1>1, <1>2, <1>5, <1>6, <1>7, WalkStep
<1> QED BY <1>1, <1>2, <1>5, <1>8

(* The end of a walk.                                                       *)
LEMMA WalkEndStep ==
  ASSUME IInv, WalkEnd
  PROVE  IInv' /\ ~Walking' /\ LowKept /\ Len(chart'.lexer_stack) = trie_lexer_stack
<1> DEFINE m == trie_lexer_stack
           d == [chart EXCEPT !.lexer_stack = SubSeq(@, 1, m)]
           e == [d EXCEPT !.budget = Unlimited]
<1>1. Walking /\ ~Walking'
  BY DEF WalkEnd, Walking
<1>2. /\ chart' = Speculative([chart EXCEPT !.budget = Unlimited,
                                 !.lexer_stack = SubSeq(@, 1, m)])
      /\ parser_error' = (parser_error \/ chart.budget = 0)
      /\ mode' = "idle" /\ path' = <<>> /\ trie_lexer_stack' = 0
      /\ UNCHANGED <<bytes, applied, lexer_stack_top_eos, last_force_bytes_len, failed, token>>
  BY DEF WalkEnd, tokenVars
<1>3. /\ Good(chart) /\ m \in 1..Len(chart.lexer_stack) /\ m \in Nat
      /\ TypeOK /\ chart \in ParserChart
  BY <1>1, InWalk DEF IInv, TypeOK, Good
<1>4. /\ Good(d) /\ Len(d.lexer_stack) = m
      /\ \A i \in 1..m : d.lexer_stack[i] = chart.lexer_stack[i]
      /\ NumRows(d) = chart.lexer_stack[m].row_idx
      /\ d.rows = chart.rows /\ d.row_infos = chart.row_infos
  BY <1>3, TruncateFacts
<1>5. [chart EXCEPT !.budget = Unlimited, !.lexer_stack = SubSeq(@, 1, m)] = e
  BY <1>3 DEF ParserChart
<1> HIDE DEF d
<1>6. Good(e) /\ e.lexer_stack = d.lexer_stack /\ e.rows = d.rows /\ e.row_infos = d.row_infos
  BY <1>4, BudgetFacts
<1>7. NumRows(e) = NumRows(d)
  BY <1>6 DEF NumRows, Top
<1>8. chart' = Speculative(e)
  BY <1>2, <1>5
<1> HIDE DEF e
<1>9. /\ Good(chart') /\ chart'.lexer_stack = d.lexer_stack /\ chart'.row_infos = d.row_infos
      /\ \A k \in 1..NumRows(d) : chart'.rows[k] = d.rows[k]
  BY <1>6, <1>7, <1>8, SpeculativeFacts
<1>10. LowKept
  BY <1>3, <1>4, <1>9 DEF LowKept
<1>11. Definitive = m /\ Definitive' = m
  BY <1>1, <1>4, <1>9 DEF Definitive
<1>12. TypeOK'
  <2>1. {lexer_stack_top_eos', parser_error', failed'} \subseteq BOOLEAN
    <3>1. parser_error' \in BOOLEAN
      BY <1>2, Zenon
    <3> QED BY <1>2, <1>3, <3>1, Zenon DEF TypeOK
  <2> QED BY <1>2, <1>3, <1>9, <2>1, EmptySeq DEF TypeOK, Good, Mode
<1>13. DefinitiveOK'
  BY <1>2, <1>4, <1>9, <1>10, <1>11 DEF IInv, DefinitiveOK, LowKept
<1>14. EosEntryOK'
  <2>1. ASSUME lexer_stack_top_eos
        PROVE  m - 1 \in 1..m
    <3>1. m = Len(bytes) + 2 /\ Len(bytes) \in Nat
      BY <1>11, <2>1 DEF IInv, DefinitiveOK, TypeOK
    <3> QED BY <3>1
  <2> QED BY <1>2, <1>3, <1>4, <1>9, <1>11, <2>1 DEF IInv, EosEntryOK
<1>15. PathOK'
  BY <1>1 DEF PathOK
<1> QED BY <1>1, <1>4, <1>9, <1>10, <1>12, <1>13, <1>14, <1>15 DEF IInv

-----------------------------------------------------------------------------
(* Every step keeps the invariant.                                          *)
LEMMA NextInv == IInv /\ [Next]_vars => IInv'
<1> SUFFICES ASSUME IInv, [Next]_vars PROVE IInv'
  OBVIOUS
<1>1. ASSUME NEW t \in Tokens, ApplyToken(t) PROVE IInv'
  BY <1>1, TokenSteps
<1>2. CASE ApplyForcedByte \/ ApplyEnd \/ ForceBytes \/ ForceDone
  BY <1>2, TokenSteps
<1>3. CASE ApplyNewByte \/ ForceByte
  BY <1>3, ByteSteps
<1>4. CASE ScanEos
  BY <1>4, ScanEosStep
<1>5. ASSUME NEW n \in 0..MaxBytes, Rollback(n) PROVE IInv'
  BY <1>5, RollbackStep
<1>6. CASE BeginMask \/ BeginQuery
  BY <1>6, BeginWalkSteps
<1>7. ASSUME NEW b \in Byte, WalkByte(b) PROVE IInv'
  BY <1>7, WalkByteStep
<1>8. ASSUME NEW n \in 1..MaxWalk, WalkPop(n) PROVE IInv'
  BY <1>8, WalkPopStep
<1>9. CASE WalkFlush
  BY <1>9, WalkFlushStep
<1>10. CASE WalkRestore
  BY <1>10, WalkRestoreStep
<1>11. CASE WalkEnd
  BY <1>11, WalkEndStep
<1>12. CASE UNCHANGED vars
  BY <1>12 DEF vars, IInv, TypeOK, DefinitiveOK, EosEntryOK, PathOK, Definitive, Walking
<1> QED BY <1>1, <1>2, <1>3, <1>4, <1>5, <1>6, <1>7, <1>8, <1>9, <1>10, <1>11, <1>12 DEF Next

(* The step of a walk, with what it must not change.                        *)
NoTrace ==
  LET low == IF Walking' THEN trie_lexer_stack ELSE Len(chart'.lexer_stack) IN
  /\ low = trie_lexer_stack
  /\ SubSeq(chart'.lexer_stack, 1, low) = SubSeq(chart.lexer_stack, 1, low)
  /\ \A k \in 1..chart.lexer_stack[low].row_idx : chart'.rows[k] = chart.rows[k]
  /\ chart'.row_infos = chart.row_infos

(* No step of a walk leaves a trace.                                        *)
LEMMA WalkNoTrace == IInv /\ IInv' /\ [Next]_vars => [Walking => NoTrace]_vars
<1> SUFFICES ASSUME IInv, IInv', Next, Walking PROVE NoTrace
  BY Zenon
<1>1. mode \in {"mask", "query", "flushed"}
  BY DEF Walking
<1>2. /\ LowKept
      /\ ~Walking' => Len(chart'.lexer_stack) = trie_lexer_stack
  <2>1. ASSUME NEW b \in Byte, WalkByte(b) PROVE LowKept /\ Walking'
    BY <2>1, WalkByteStep
  <2>2. ASSUME NEW n \in 1..MaxWalk, WalkPop(n) PROVE LowKept /\ Walking'
    BY <2>2, WalkPopStep
  <2>3. CASE WalkFlush
    BY <2>3, WalkFlushStep
  <2>4. CASE WalkRestore
    BY <2>4, WalkRestoreStep
  <2>5. CASE WalkEnd
    BY <2>5, WalkEndStep
  <2>6. \/ \E b \in Byte : WalkByte(b)
        \/ \E n \in 1..MaxWalk : WalkPop(n)
        \/ WalkFlush \/ WalkRestore \/ WalkEnd
    BY <1>1 DEF Next, ApplyToken, ApplyForcedByte, ApplyNewByte, ApplyEnd, ForceBytes,
                ForceByte, ForceDone, ScanEos, Rollback, BeginMask, BeginQuery, Usable
  <2> QED BY <2>1, <2>2, <2>3, <2>4, <2>5, <2>6
<1>3. /\ chart.lexer_stack \in Seq(LexerState) /\ chart'.lexer_stack \in Seq(LexerState)
  BY DEF IInv, Good, ParserChart
<1>4. /\ trie_lexer_stack \in Nat /\ trie_lexer_stack <= Len(chart.lexer_stack)
      /\ trie_lexer_stack <= Len(chart'.lexer_stack)
      /\ \A i \in 1..trie_lexer_stack : chart'.lexer_stack[i] = chart.lexer_stack[i]
  BY <1>2, InWalk DEF LowKept, IInv, TypeOK
<1> DEFINE s == chart.lexer_stack
           t == chart'.lexer_stack
           m == trie_lexer_stack
<1>5. SubSeq(t, 1, m) = SubSeq(s, 1, m)
  <2>1. s \in Seq(LexerState) /\ t \in Seq(LexerState) /\ m \in Nat
        /\ m <= Len(s) /\ m <= Len(t) /\ \A i \in 1..m : t[i] = s[i]
    BY <1>3, <1>4
  <2> HIDE DEF s, t, m
  <2> QED BY <2>1, SamePrefix
<1> QED BY <1>2, <1>5 DEF NoTrace, LowKept

(* The invariant holds throughout.                                          *)
LEMMA Invariant == Spec => []IInv
BY InitInv, NextInv, PTL DEF Spec

-----------------------------------------------------------------------------
(* Every variable keeps its type: whatever the grammar, the interleaving of *)
(* tokens, forced bytes, walks, ends of sequence and rollbacks, and the     *)
(* item limit, the stacks of ParserState stay well-formed.                  *)
THEOREM TypeCorrect == Spec => []TypeOK
<1>1. IInv => TypeOK
  BY DEF IInv
<1> QED BY <1>1, Invariant, PTL

(* check_lexer_bytes_invariant() never fails: outside walks the lexer stack *)
(* has exactly one entry per byte, one below, and the one of scan_eos().    *)
THEOREM LexerBytesCorrect == Spec => []LexerBytesInvariant
<1>1. IInv => LexerBytesInvariant
  BY DEF IInv, DefinitiveOK, Definitive, LexerBytesInvariant
<1> QED BY <1>1, Invariant, PTL

(* A walk of the token trie, whatever bytes it tries, pops and flushes, and *)
(* wherever the item limit cuts it off, restores what it found.             *)
THEOREM WalksLeaveNoTrace == Spec => WalkLeavesNoTrace
<1>1. IInv /\ IInv' /\ [Next]_vars => [Walking => NoTrace]_vars
  BY WalkNoTrace
<1>2. Spec => [][Walking => NoTrace]_vars
  BY <1>1, Invariant, PTL DEF Spec
<1> QED BY <1>2, PTL DEF WalkLeavesNoTrace, NoTrace

-----------------------------------------------------------------------------
(* The inductive invariant.  On top of IInv, outside walks the chart is the *)
(* twin of a fresh parser given the same bytes, flushed after an end of     *)
(* sequence; in a walk it is the twin of that parser after the bytes of the *)
(* path.  The item limit is in force only where the code sets it.           *)
Rest == Definite(bytes, lexer_stack_top_eos)

Walk == Walked(bytes, lexer_stack_top_eos, path)

RInv ==
  /\ IInv
  /\ Coherent(chart)
  /\ mode \notin {"force", "mask"} => chart.budget = Unlimited
  /\ Fresh(bytes).ok
  /\ ~Walking => Twin(chart, Rest)
  /\ Walking => /\ trie_lexer_stack = Len(Rest.lexer_stack)
                /\ Walk.ok
                /\ mode # "flushed" => Twin(chart, Walk.chart)
                /\ mode = "flushed" => Twin(chart, Flushed(bytes, lexer_stack_top_eos, path))

(* What the facts about the fresh parser say of this state.                 *)
LEMMA RestFacts ==
  ASSUME IInv
  PROVE  /\ bytes \in Seq(Byte) /\ path \in Seq(Byte) /\ lexer_stack_top_eos \in BOOLEAN
         /\ Len(bytes) \in Nat
         /\ Fit(Rest, TRUE) /\ Rest.budget = Unlimited
         /\ Extends(Rest, Fresh(bytes).chart)
         /\ Fit(Fresh(bytes).chart, TRUE) /\ Fresh(bytes).chart.budget = Unlimited
         /\ Fit(Walk.chart, FALSE) /\ Walk.chart.budget = Unlimited
         /\ Extends(Walk.chart, Rest)
         /\ ~lexer_stack_top_eos => Rest = Fresh(bytes).chart
         /\ Good(chart) /\ Defined(chart, FALSE)
<1>1. bytes \in Seq(Byte) /\ path \in Seq(Byte) /\ lexer_stack_top_eos \in BOOLEAN
  BY DEF IInv, TypeOK
<1>2. Fit(Rest, TRUE) /\ Rest.budget = Unlimited /\ Extends(Rest, Fresh(bytes).chart)
  BY <1>1, DefiniteFacts DEF Rest
<1>3. Fit(Fresh(bytes).chart, TRUE) /\ Fresh(bytes).chart.budget = Unlimited
  BY <1>1, FreshFacts
<1>4. /\ Fit(Walk.chart, FALSE) /\ Walk.chart.budget = Unlimited
      /\ Extends(Walk.chart, Rest)
  BY <1>1, WalkedFacts DEF Walk, Rest
<1>5. ~lexer_stack_top_eos => Rest = Fresh(bytes).chart
  BY DEF Rest, Definite
<1>6. Good(chart) /\ Defined(chart, FALSE)
  BY DEF IInv, Defined
<1>7. Len(bytes) \in Nat
  BY <1>1
<1> QED BY <1>1, <1>2, <1>3, <1>4, <1>5, <1>6, <1>7

(* A parser fresh from new().                                               *)
LEMMA InitReplay == Init => RInv
<1> SUFFICES ASSUME Init PROVE RInv
  OBVIOUS
<1>1. IInv /\ ~Walking /\ mode = "idle" /\ chart = NewChart /\ bytes = <<>>
      /\ lexer_stack_top_eos = FALSE
  BY InitInv DEF Init, Walking
<1>2. Coherent(NewChart) /\ NewChart.budget = Unlimited /\ Good(NewChart)
  BY InitialChartFacts DEF Coherent, NewChart
<1>3. Fresh(bytes) = Ok(NewChart)
  <2>1. <<>> \in Seq(Byte)
    OBVIOUS
  <2> QED BY <1>1, <2>1, PushAllNone DEF Fresh
<1>4. Rest = NewChart /\ Fresh(bytes).ok
  BY <1>1, <1>3 DEF Rest, Definite, Ok
<1>5. Twin(chart, Rest)
  BY <1>1, <1>2, <1>4, TwinRefl DEF SameRows
<1> QED BY <1>1, <1>2, <1>4, <1>5 DEF RInv

(* A step outside walks that leaves what is in use alone.                   *)
LEMMA QuietReplay ==
  ASSUME RInv, IInv', ~Walking, ~Walking', Coherent(chart'), Twin(chart', chart),
         mode' # "force" => chart'.budget = Unlimited,
         bytes' = bytes, lexer_stack_top_eos' = lexer_stack_top_eos
  PROVE  RInv'
<1>1. IInv /\ Fresh(bytes).ok /\ Twin(chart, Rest)
  BY DEF RInv
<1>2. Good(chart) /\ Good(Rest) /\ Good(chart')
  BY <1>1, RestFacts DEF IInv, Fit
<1>3. Twin(chart', Rest)
  BY <1>1, <1>2, TwinTrans
<1>4. Rest' = Rest
  BY DEF Rest
<1>5. Fresh(bytes').ok
  BY <1>1
<1> QED BY <1>3, <1>4, <1>5 DEF RInv

(* A byte pushed definitively, or refused.                                  *)
LEMMA PushReplay ==
  ASSUME RInv, IInv', ~Walking, ~Walking', ~lexer_stack_top_eos,
         UNCHANGED lexer_stack_top_eos,
         NEW c, Fit(c, TRUE), Twin(c, chart), NEW b \in Byte,
         NEW r, r = TryPushByte(c, b, TRUE, Len(bytes)),
         Twin(chart', r.chart), Coherent(chart'),
         mode' # "force" => chart'.budget = Unlimited,
         bytes' = IF r.ok THEN Append(bytes, b) ELSE bytes
  PROVE  RInv'
<1>1. IInv /\ Fresh(bytes).ok /\ Twin(chart, Rest)
  BY DEF RInv
<1>2. /\ bytes \in Seq(Byte) /\ Len(bytes) \in Nat
      /\ Good(chart) /\ Rest = Fresh(bytes).chart /\ Good(Rest)
  BY <1>1, RestFacts DEF Fit
<1>3. Good(c) /\ Good(chart')
  BY DEF IInv, Fit
<1>4. Twin(c, Rest)
  BY <1>1, <1>2, <1>3, TwinTrans
<1>5. Fit(r.chart, TRUE) /\ (~r.ok => Twin(r.chart, c))
  BY <1>2, TwinRefused
<1>6. Good(r.chart)
  BY <1>5 DEF Fit
<1>7. CASE r.ok
  <2> DEFINE f == Fresh(Append(bytes, b))
  <2>1. f.ok /\ Twin(r.chart, f.chart)
    BY <1>1, <1>2, <1>4, <1>7, RestPush
  <2>2. Good(f.chart)
    <3>1. Append(bytes, b) \in Seq(Byte)
      BY <1>2, AppendProperties
    <3> QED BY <3>1, FreshFacts DEF Fit
  <2> HIDE DEF f
  <2>3. Twin(chart', f.chart)
    BY <1>3, <1>6, <2>1, <2>2, TwinTrans
  <2>4. Rest' = f.chart /\ Fresh(bytes').ok
    <3>1. bytes' = Append(bytes, b) /\ lexer_stack_top_eos' = FALSE
      BY <1>1, <1>7 DEF IInv, TypeOK
    <3> QED BY <2>1, <3>1 DEF Rest, Definite, f
  <2> QED BY <2>3, <2>4 DEF RInv
<1>8. CASE ~r.ok
  <2>1. Twin(chart', c)
    BY <1>3, <1>5, <1>6, <1>8, TwinTrans
  <2>2. Twin(chart', chart)
    BY <1>2, <1>3, <2>1, TwinTrans
  <2> QED BY <1>8, <2>2, QuietReplay
<1> QED BY <1>7, <1>8

(* Steps that leave stacks and rows alone.                                  *)
LEMMA TokenReplay ==
  ASSUME RInv
  PROVE  /\ \A t \in Tokens : ApplyToken(t) => RInv'
         /\ ApplyForcedByte => RInv'
         /\ ApplyEnd => RInv'
         /\ ForceBytes => RInv'
         /\ ForceDone => RInv'
<1>1. IInv /\ Good(chart) /\ Coherent(chart)
  BY RestFacts DEF RInv
<1>2. Twin(chart, chart)
  BY <1>1, TwinRefl DEF SameRows
<1>3. ASSUME mode \in {"idle", "apply"}, mode' # "force", ~Walking, ~Walking', IInv',
             UNCHANGED <<chart, bytes, lexer_stack_top_eos>>
      PROVE  RInv'
  <2>1. chart.budget = Unlimited
    BY <1>3 DEF RInv
  <2> QED BY <1>1, <1>2, <1>3, <2>1, QuietReplay
<1>4. ASSUME NEW t \in Tokens, ApplyToken(t) PROVE RInv'
  <2>1. IInv'
    BY <1>1, <1>4, TokenSteps
  <2>2. mode = "idle" /\ mode' = "apply" /\ UNCHANGED <<chart, bytes, lexer_stack_top_eos>>
    BY <1>4 DEF ApplyToken, Usable
  <2>3. ~Walking /\ ~Walking'
    BY <2>2 DEF Walking
  <2> QED BY <1>3, <2>1, <2>2, <2>3
<1>5. ASSUME ApplyForcedByte PROVE RInv'
  <2>1. IInv'
    BY <1>1, <1>5, TokenSteps
  <2>2. mode = "apply" /\ mode' \in {"apply", "idle"}
        /\ UNCHANGED <<chart, bytes, lexer_stack_top_eos>>
    BY <1>5 DEF ApplyForcedByte, Reject
  <2>3. ~Walking /\ ~Walking'
    BY <2>2 DEF Walking
  <2> QED BY <1>3, <2>1, <2>2, <2>3
<1>6. ASSUME ApplyEnd PROVE RInv'
  <2>1. IInv'
    BY <1>1, <1>6, TokenSteps
  <2>2. mode = "apply" /\ mode' = "idle" /\ UNCHANGED <<chart, bytes, lexer_stack_top_eos>>
    BY <1>6 DEF ApplyEnd
  <2>3. ~Walking /\ ~Walking'
    BY <2>2 DEF Walking
  <2> QED BY <1>3, <2>1, <2>2, <2>3
<1>7. ASSUME ForceBytes PROVE RInv'
  <2>1. IInv'
    BY <1>1, <1>7, TokenSteps
  <2>2. PICK b \in Nat \cup {Unlimited} : chart' = [chart EXCEPT !.budget = b]
    <3>1. PICK b \in Budgets : chart' = [chart EXCEPT !.budget = b]
      BY <1>7 DEF ForceBytes
    <3>2. b \in Nat \cup {Unlimited}
      BY ParserAssumption DEF Budgets
    <3> QED BY <3>1, <3>2
  <2>3. mode = "idle" /\ mode' = "force" /\ UNCHANGED <<bytes, lexer_stack_top_eos>>
    BY <1>7 DEF ForceBytes, Usable, tokenVars
  <2>4. ~Walking /\ ~Walking'
    BY <2>3 DEF Walking
  <2>5. Twin(chart', chart) /\ Coherent(chart')
    BY <1>1, <2>2, BudgetTwin
  <2> QED BY <2>1, <2>3, <2>4, <2>5, QuietReplay
<1>8. ASSUME ForceDone PROVE RInv'
  <2>1. IInv'
    BY <1>1, <1>8, TokenSteps
  <2>2. mode = "force" /\ mode' = "idle" /\ UNCHANGED <<bytes, lexer_stack_top_eos>>
    BY <1>8 DEF ForceDone, ForceEnd
  <2>3. chart' = [chart EXCEPT !.budget = Unlimited]
    BY <1>1, <1>8 DEF ForceDone, ForceEnd, WithBudget, Good, ParserChart
  <2>4. ~Walking /\ ~Walking'
    BY <2>2 DEF Walking
  <2>5. Twin(chart', chart) /\ Coherent(chart') /\ chart'.budget = Unlimited
    BY <1>1, <2>3, BudgetTwin
  <2> QED BY <2>1, <2>2, <2>4, <2>5, QuietReplay
<1> QED BY <1>4, <1>5, <1>6, <1>7, <1>8

(* Bytes applied or forced.                                                 *)
LEMMA ByteReplay ==
  ASSUME RInv
  PROVE  /\ ApplyNewByte => RInv'
         /\ ForceByte => RInv'
<1>1. /\ IInv /\ Good(chart) /\ Coherent(chart) /\ bytes \in Seq(Byte) /\ Len(bytes) \in Nat
  BY RestFacts DEF RInv
<1>2. ASSUME ApplyNewByte PROVE RInv'
  <2> DEFINE b == Head(token)
             r == TryPushByte(chart, b, TRUE, Len(bytes))
  <2>1. IInv' /\ b \in Byte
    BY <1>1, <1>2, ByteSteps, HeadTailProperties DEF ApplyNewByte, IInv, TypeOK
  <2>2. /\ mode = "apply" /\ mode' \in {"apply", "idle"} /\ chart' = r.chart
        /\ bytes' = IF r.ok THEN Append(bytes, b) ELSE bytes
        /\ UNCHANGED lexer_stack_top_eos
    BY <1>2 DEF ApplyNewByte, Reject
  <2>3. ~Walking /\ ~Walking' /\ ~lexer_stack_top_eos /\ chart.budget = Unlimited
    BY <1>1, <2>2 DEF Walking, RInv, IInv, EosEntryOK
  <2>4. Fit(chart, TRUE) /\ Twin(chart, chart)
    BY <1>1, <2>3, AtRest, TwinRefl DEF Fit, SameRows
  <2> HIDE DEF b
  <2>5. Fit(r.chart, TRUE) /\ r.chart.budget = Unlimited
    BY <1>1, <2>1, <2>3, <2>4, TwinRefused
  <2> HIDE DEF r
  <2>6. Twin(r.chart, r.chart) /\ Coherent(r.chart)
    BY <2>5, TwinRefl DEF Fit, SameRows
  <2> QED BY <2>1, <2>2, <2>3, <2>4, <2>5, <2>6, PushReplay DEF r
<1>3. ASSUME ForceByte PROVE RInv'
  <2>1. PICK left \in LeftAfterWalk : \E b \in ForcedCandidates(left) :
          LET r == TryPushByte(WithBudget(left), b, TRUE, Len(bytes)) IN
          IF r.ok
          THEN /\ chart' = r.chart /\ bytes' = Append(bytes, b)
               /\ UNCHANGED <<mode, parser_error, last_force_bytes_len>>
          ELSE ForceEnd(r.chart) /\ UNCHANGED bytes
    BY <1>3 DEF ForceByte
  <2> DEFINE c == WithBudget(left)
  <2>2. PICK b \in ForcedCandidates(left) :
          LET r == TryPushByte(c, b, TRUE, Len(bytes)) IN
          IF r.ok
          THEN /\ chart' = r.chart /\ bytes' = Append(bytes, b)
               /\ UNCHANGED <<mode, parser_error, last_force_bytes_len>>
          ELSE ForceEnd(r.chart) /\ UNCHANGED bytes
    BY <2>1
  <2>3. IInv' /\ b \in Byte
    BY <1>1, <1>3, <2>2, ByteSteps, ForcedCandidatesType
  <2>4. left \in Nat \cup {Unlimited}
    BY <1>1 DEF LeftAfterWalk, Good, ParserChart
  <2>5. ~Walking /\ ~Walking' /\ ~lexer_stack_top_eos /\ UNCHANGED lexer_stack_top_eos
    BY <1>1, <1>3, <2>2 DEF ForceByte, ForceEnd, Walking, EosEntryOK, IInv
  <2>6. Twin(c, chart) /\ Fit(c, TRUE)
    BY <1>1, <2>4, <2>5, AtRest, BudgetTwin DEF WithBudget, Fit
  <2> DEFINE r == TryPushByte(c, b, TRUE, Len(bytes))
  <2> HIDE DEF c
  <2>7. Fit(r.chart, TRUE)
    BY <1>1, <2>3, <2>6, TwinRefused
  <2> HIDE DEF r
  <2>8. bytes' = IF r.ok THEN Append(bytes, b) ELSE bytes
    BY <2>2 DEF r
  <2>9. Twin(chart', r.chart) /\ Coherent(chart') /\ (mode' # "force" => chart'.budget = Unlimited)
    <3>1. Good(r.chart) /\ Coherent(r.chart) /\ mode = "force"
      BY <1>3, <2>7 DEF Fit, ForceByte
    <3>2. CASE r.ok
      <4>1. chart' = r.chart /\ mode' = mode
        BY <2>2, <3>2 DEF r
      <4> QED BY <3>1, <4>1, TwinRefl DEF SameRows
    <3>3. CASE ~r.ok
      <4>1. chart' = [r.chart EXCEPT !.budget = Unlimited]
        BY <2>2, <3>3 DEF ForceEnd, r
      <4> QED BY <3>1, <4>1, BudgetTwin
    <3> QED BY <3>2, <3>3
  <2> QED BY <2>3, <2>5, <2>6, <2>8, <2>9, PushReplay DEF r
<1> QED BY <1>2, <1>3

(* The end of a sequence.  A second one finds nothing pending, so that the  *)
(* chart stays the flushed one.                                             *)
LEMMA ScanEosReplay ==
  ASSUME RInv, ScanEos
  PROVE  RInv'
<1> DEFINE r == FlushLexer(chart, TRUE, Len(bytes))
           s == chart.lexer_stack
           t == r.chart.lexer_stack
           q == FlushLexer(Fresh(bytes).chart, TRUE, Len(bytes))
<1>1. /\ chart' = r.chart
      /\ lexer_stack_top_eos' = (lexer_stack_top_eos \/ (r.ok /\ Len(t) # Len(s)))
      /\ UNCHANGED <<bytes, mode>> /\ mode = "idle"
  BY DEF ScanEos, Usable
<1>2. ~Walking /\ ~Walking'
  BY <1>1 DEF Walking
<1>3. /\ IInv /\ Good(chart) /\ Coherent(chart) /\ chart.budget = Unlimited
      /\ Twin(chart, Rest) /\ Fresh(bytes).ok
  BY <1>1, <1>2 DEF RInv, IInv
<1>4. IInv'
  BY <1>3, ScanEosStep
<1>5. Fit(chart, TRUE) /\ bytes \in Seq(Byte) /\ Len(bytes) \in Nat /\ Good(Rest)
  BY <1>2, <1>3, AtRest, RestFacts DEF Fit
<1> HIDE DEF r
<1>6. /\ Fit(r.chart, TRUE) /\ r.chart.budget = Unlimited
      /\ Len(t) = Len(s) => Twin(r.chart, chart)
  BY <1>3, <1>5, FlushFacts DEF r
<1>7. Good(chart') /\ Coherent(chart') /\ chart'.budget = Unlimited
  BY <1>1, <1>6 DEF Fit
<1>8. Len(t) # Len(s) => r.ok
  <2>1. r.ok \/ t = s
    BY <1>3, <1>5, FlushLexerFacts DEF Fit, r
  <2> QED BY <2>1
<1>9. lexer_stack_top_eos => Len(t) = Len(s)
  <2>1. /\ chart'.lexer_stack = t /\ Len(t) = Len(bytes') + (IF lexer_stack_top_eos' THEN 2 ELSE 1)
    BY <1>1, <1>2, <1>4 DEF IInv, DefinitiveOK, Definitive
  <2> QED
    BY <1>1, <1>2, <1>3, <2>1, AtRest
<1>10. CASE Len(t) = Len(s)
  <2>1. lexer_stack_top_eos' = lexer_stack_top_eos
    BY <1>1, <1>3, <1>10, Zenon DEF IInv, TypeOK
  <2> QED BY <1>1, <1>2, <1>4, <1>6, <1>7, <1>10, <2>1, QuietReplay
<1>11. CASE Len(t) # Len(s)
  <2>1. r.ok /\ ~lexer_stack_top_eos /\ lexer_stack_top_eos' = TRUE
    BY <1>1, <1>8, <1>9, <1>11
  <2>2. Rest = Fresh(bytes).chart
    BY <1>3, <2>1, RestFacts
  <2>3. Fit(Fresh(bytes).chart, TRUE) /\ Fresh(bytes).chart.budget = Unlimited
    BY <1>3, RestFacts
  <2>4. Twin(r.chart, q.chart)
    BY <1>3, <1>5, <2>2, <2>3, TwinFlush DEF r
  <2>5. Rest' = q.chart
    BY <1>1, <2>1 DEF Rest, Definite
  <2> QED BY <1>1, <1>2, <1>3, <1>4, <1>7, <2>4, <2>5 DEF RInv
<1> QED BY <1>10, <1>11

(* A rollback leaves the twin of a parser given the bytes that are left.    *)
LEMMA RollbackReplay ==
  ASSUME RInv, NEW n \in 0..MaxBytes, Rollback(n)
  PROVE  RInv'
<1> DEFINE k == applied'
           d == [chart EXCEPT !.lexer_stack = SubSeq(@, 1, k + 1)]
           e == [d EXCEPT !.row_infos = SubSeq(@, 1, NumRows(d))]
           f == Fresh(bytes)
           g == Fresh(bytes')
<1>1. /\ n <= applied /\ applied' = applied - n /\ bytes' = SubSeq(bytes, 1, k)
      /\ chart' = RolledBack(chart, k)
      /\ lexer_stack_top_eos' = FALSE /\ mode = "idle" /\ mode' = mode
  BY DEF Rollback, Usable
<1>2. ~Walking /\ ~Walking'
  BY <1>1 DEF Walking
<1>3. /\ IInv /\ Good(chart) /\ Coherent(chart) /\ chart.budget = Unlimited
      /\ Twin(chart, Rest) /\ f.ok
  BY <1>1, <1>2 DEF RInv, IInv
<1>4. IInv'
  BY <1>3, RollbackStep
<1>5. /\ bytes \in Seq(Byte) /\ Len(bytes) \in Nat /\ applied \in 0..Len(bytes)
      /\ Len(chart.lexer_stack) \in Nat /\ Len(chart.lexer_stack) >= Len(bytes) + 1
      /\ chart.row_infos \in Seq(Int)
  <2>1. Len(chart.lexer_stack) >= Len(bytes) + 1
    BY <1>2, <1>3, AtRest
  <2> QED BY <1>2, <1>3, <2>1, AtRest
<1>6. k \in 0..Len(bytes) /\ k + 1 \in 1..Len(chart.lexer_stack)
  BY <1>1, <1>5, ParserAssumption
<1>7. bytes' \in Seq(Byte) /\ Len(bytes') = k /\ \A i \in 1..k : bytes'[i] = bytes[i]
  <2>1. \A i \in 1..k : bytes[i] \in Byte
    BY <1>5, <1>6, ElementOfSeq
  <2> QED BY <1>1, <1>6, <2>1, SubSeqProperties
<1>8. Extends(chart, f.chart)
  <2>1. Good(Rest) /\ Good(f.chart) /\ Extends(Rest, f.chart)
    BY <1>3, RestFacts DEF Fit
  <2> HIDE DEF f
  <2> QED BY <1>3, <2>1, ExtendsTrans DEF Twin
<1>9. g.ok /\ Twin(d, g.chart)
  BY <1>3, <1>5, <1>6, <1>7, <1>8, RestTruncate
<1>10. Good(d) /\ Coherent(d) /\ d.budget = Unlimited /\ NumRows(d) \in Nat /\ Good(g.chart)
       /\ NumRows(d) <= NumRows(chart) /\ d.row_infos = chart.row_infos
  <2>1. Good(g.chart)
    BY <1>7, FreshFacts DEF Fit
  <2>2. Good(d) /\ NumRows(d) <= NumRows(chart) /\ d.row_infos = chart.row_infos
    BY <1>3, <1>6, TruncateFacts
  <2>3. Fit(d, FALSE) /\ d.budget = chart.budget
    BY <1>3, <1>6, TruncateExtends
  <2> HIDE DEF d
  <2>4. NumRows(d) \in Nat
    BY <2>2, TopFacts
  <2> QED BY <1>3, <2>1, <2>2, <2>3, <2>4 DEF Fit
<1>11. chart' = Speculative(e)
  BY <1>1 DEF RolledBack
<1> HIDE DEF d, f, g
<1>12. /\ Good(e) /\ e.lexer_stack = d.lexer_stack /\ e.rows = d.rows
       /\ e.rows_valid_end = d.rows_valid_end /\ e.budget = Unlimited
  <2>1. NumRows(chart) \in Nat /\ NumRows(chart) <= Len(chart.row_infos)
    BY <1>2, <1>3, AtRest
  <2>2. \A i \in 1..NumRows(d) : d.row_infos[i] \in Int
    BY <1>5, <1>10, <2>1, ElementOfSeq
  <2>3. SubSeq(d.row_infos, 1, NumRows(d)) \in Seq(Int)
    BY <1>10, <2>2, SubSeqProperties
  <2> QED BY <1>10, <2>3 DEF Good, ParserChart
<1> HIDE DEF e
<1>13. Twin(e, d)
  BY <1>12, TwinRefl DEF SameRows
<1>14. Coherent(e)
  BY <1>10, <1>12, CoherentSame DEF Good
<1>15. Twin(chart', e) /\ Coherent(chart') /\ Good(chart') /\ chart'.budget = Unlimited
  BY <1>11, <1>12, <1>14, SpeculativeExtends DEF Twin, SameHeight, Fit
<1>16. Twin(chart', g.chart)
  BY <1>9, <1>10, <1>12, <1>13, <1>15, TwinTrans
<1>17. Rest' = g.chart
  BY <1>1 DEF Rest, Definite, g
<1> QED BY <1>2, <1>4, <1>9, <1>15, <1>16, <1>17 DEF RInv, g

-----------------------------------------------------------------------------
(* Walks.                                                                   *)
LEMMA BeginWalkReplay ==
  ASSUME RInv, BeginMask \/ BeginQuery
  PROVE  RInv'
<1>1. PICK m \in {"mask", "query"}, b \in Nat \cup {Unlimited} :
        BeginWalk(m, b) /\ (m = "query" => b = Unlimited)
  <2>1. Budgets \subseteq Nat \cup {Unlimited}
    BY ParserAssumption DEF Budgets
  <2>2. CASE BeginMask
    BY <2>1, <2>2, Zenon DEF BeginMask
  <2>3. CASE BeginQuery
    BY <2>3, Zenon DEF BeginQuery
  <2> QED BY <2>2, <2>3
<1> DEFINE c == Speculative(chart)
           d == Speculative(Rest)
<1>2. /\ chart' = [c EXCEPT !.budget = b]
      /\ mode' = m /\ trie_lexer_stack' = Len(chart.lexer_stack) /\ path' = <<>>
      /\ UNCHANGED <<bytes, lexer_stack_top_eos>>
  BY <1>1 DEF BeginWalk, tokenVars
<1>3. IInv /\ IInv' /\ ~Walking
  BY BeginWalkSteps DEF RInv
<1>4. Good(chart) /\ Coherent(chart) /\ Twin(chart, Rest) /\ Fresh(bytes).ok
  BY <1>3 DEF RInv, IInv
<1>5. Good(Rest) /\ Coherent(Rest)
  BY <1>3, RestFacts DEF Fit
<1>6. Twin(c, chart) /\ Good(c) /\ Coherent(c)
  BY <1>4, SpeculativeExtends DEF Twin, SameHeight, Fit
<1>7. Twin(Rest, d) /\ Good(d)
  BY <1>5, SpeculativeExtends DEF Twin, SameHeight, Fit
<1>8. Walk' = Ok(d)
  <2>1. <<>> \in Seq(Byte) /\ 0 \in Nat
    OBVIOUS
  <2>2. Walk' = PushAll(d, <<>>, FALSE, 0)
    BY <1>2 DEF Walk, Walked, Rest
  <2> HIDE DEF d
  <2> QED BY <2>1, <2>2, PushAllNone
<1>9. Rest' = Rest /\ Fresh(bytes').ok
  BY <1>2, <1>4 DEF Rest
<1>10. Len(chart.lexer_stack) = Len(Rest.lexer_stack)
  BY <1>4 DEF Twin, SameHeight
<1> HIDE DEF c, d
<1>11. Twin(chart', c) /\ Good(chart') /\ Coherent(chart') /\ chart'.budget = b
  BY <1>2, <1>6, BudgetTwin
<1>12. Twin(chart', d)
  <2>1. Twin(chart', chart)
    BY <1>4, <1>6, <1>11, TwinTrans
  <2>2. Twin(chart', Rest)
    BY <1>4, <1>5, <1>11, <2>1, TwinTrans
  <2> QED BY <1>5, <1>7, <1>11, <2>2, TwinTrans
<1>13. Walk'.ok /\ Walk'.chart = d
  BY <1>8 DEF Ok
<1>14. Walking' /\ mode' # "flushed" /\ (mode' \notin {"force", "mask"} => chart'.budget = Unlimited)
  BY <1>1, <1>2, <1>11 DEF Walking
<1>15. trie_lexer_stack' = Len(Rest'.lexer_stack)
  BY <1>2, <1>9, <1>10
<1>16. Twin(chart', Walk'.chart)
  BY <1>12, <1>13
<1> QED BY <1>3, <1>9, <1>11, <1>13, <1>14, <1>15, <1>16 DEF RInv

(* In a walk the chart extends the fresh one at the path.                   *)
LEMMA WalkFacts ==
  ASSUME RInv, Walking
  PROVE  /\ IInv /\ Fit(chart, FALSE) /\ Good(chart) /\ Coherent(chart)
         /\ Walk.ok /\ Extends(chart, Walk.chart)
         /\ Fit(Walk.chart, FALSE) /\ Good(Walk.chart) /\ Walk.chart.budget = Unlimited
         /\ trie_lexer_stack = Len(Rest.lexer_stack)
         /\ trie_lexer_stack \in Nat \ {0} /\ Len(path) \in Nat
         /\ mode # "flushed" => Len(chart.lexer_stack) = trie_lexer_stack + Len(path)
<1>1. IInv /\ Coherent(chart) /\ Walk.ok /\ trie_lexer_stack = Len(Rest.lexer_stack)
  BY DEF RInv
<1>2. /\ Good(chart) /\ Defined(chart, FALSE)
      /\ Fit(Walk.chart, FALSE) /\ Walk.chart.budget = Unlimited
      /\ bytes \in Seq(Byte) /\ path \in Seq(Byte) /\ lexer_stack_top_eos \in BOOLEAN
      /\ Fit(Rest, TRUE)
  BY <1>1, RestFacts
<1>3. Fit(chart, FALSE) /\ Good(Walk.chart) /\ Good(Rest)
  BY <1>1, <1>2 DEF Fit
<1>4. trie_lexer_stack \in Nat \ {0} /\ Len(path) \in Nat
  BY <1>1, <1>2, <1>3, TopFacts
<1>5. Extends(chart, Walk.chart)
  <2>1. CASE mode # "flushed"
    BY <2>1 DEF RInv, Twin
  <2>2. CASE mode = "flushed"
    <3> DEFINE f == Flushed(bytes, lexer_stack_top_eos, path)
    <3>1. Good(f) /\ Extends(f, Walk.chart)
      BY <1>2, FlushedFacts DEF Walk
    <3>2. Extends(chart, f)
      BY <2>2 DEF RInv, Twin
    <3> HIDE DEF f
    <3> QED BY <1>2, <1>3, <3>1, <3>2, ExtendsTrans
  <2> QED BY <2>1, <2>2
<1>6. mode # "flushed" => Len(chart.lexer_stack) = trie_lexer_stack + Len(path)
  <2>1. Len(Walk.chart.lexer_stack) = trie_lexer_stack + Len(path)
    BY <1>1, <1>2, WalkedFacts DEF Walk, Rest
  <2> QED BY <2>1 DEF RInv, Twin, SameHeight
<1> QED BY <1>1, <1>2, <1>3, <1>4, <1>5, <1>6

(* A byte pushed in a walk, or refused.                                     *)
LEMMA WalkByteReplay ==
  ASSUME RInv, NEW b \in Byte, WalkByte(b)
  PROVE  RInv'
<1> DEFINE r == TryPushByte(chart, b, FALSE, 0)
           eos == lexer_stack_top_eos
<1>1. /\ chart' = r.chart /\ path' = (IF r.ok THEN Append(path, b) ELSE path)
      /\ mode \in {"mask", "query"} /\ UNCHANGED <<bytes, eos, mode, trie_lexer_stack>>
  BY DEF WalkByte, tokenVars
<1>2. Walking /\ Walking' /\ mode # "flushed" /\ mode' # "flushed"
  BY <1>1 DEF Walking
<1>3. /\ IInv /\ Fit(chart, FALSE) /\ Good(chart) /\ Walk.ok
      /\ trie_lexer_stack = Len(Rest.lexer_stack) /\ Good(Walk.chart)
  BY <1>2, WalkFacts
<1>4. IInv' /\ bytes \in Seq(Byte) /\ path \in Seq(Byte) /\ eos \in BOOLEAN
  BY <1>3, WalkByteStep, RestFacts
<1>5. Twin(chart, Walk.chart) /\ Fresh(bytes).ok
  BY <1>2 DEF RInv
<1>6. /\ Fit(r.chart, FALSE) /\ Coherent(r.chart)
      /\ chart.budget = Unlimited => r.chart.budget = Unlimited
      /\ ~r.ok => Twin(r.chart, chart)
  BY <1>3, TwinRefused
<1>7. mode' \notin {"force", "mask"} => chart'.budget = Unlimited
  BY <1>1, <1>6 DEF RInv
<1>8. Rest' = Rest /\ Fresh(bytes').ok
  BY <1>1, <1>5 DEF Rest
<1>9. Walk'.ok /\ Twin(chart', Walk'.chart)
  <2>1. CASE r.ok
    <3>1. /\ Walked(bytes, eos, Append(path, b)).ok
          /\ Twin(r.chart, Walked(bytes, eos, Append(path, b)).chart)
      BY <1>3, <1>4, <1>5, <2>1, PathPush DEF Walk
    <3>2. Walk' = Walked(bytes, eos, Append(path, b))
      BY <1>1, <2>1 DEF Walk
    <3> QED BY <1>1, <3>1, <3>2
  <2>2. CASE ~r.ok
    <3>1. Walk' = Walk
      BY <1>1, <2>2 DEF Walk
    <3>2. Good(r.chart) /\ Twin(r.chart, chart)
      BY <1>6, <2>2 DEF Fit
    <3> HIDE DEF r
    <3>3. Twin(r.chart, Walk.chart)
      BY <1>3, <1>5, <3>2, TwinTrans
    <3> QED BY <1>1, <1>3, <3>1, <3>3
  <2> QED BY <2>1, <2>2
<1> HIDE DEF r
<1>10. trie_lexer_stack' = Len(Rest'.lexer_stack) /\ Coherent(chart')
  BY <1>1, <1>3, <1>6, <1>8
<1> QED BY <1>2, <1>4, <1>7, <1>8, <1>9, <1>10 DEF RInv

(* Bytes popped in a walk.                                                  *)
LEMMA WalkPopReplay ==
  ASSUME RInv, NEW n \in 1..MaxWalk, WalkPop(n)
  PROVE  RInv'
<1> DEFINE l == Len(path) - n
           h == trie_lexer_stack
           eos == lexer_stack_top_eos
<1>1. mode \in {"mask", "query"} /\ mode' = mode
  BY DEF WalkPop
<1>2. Walking /\ Walking' /\ mode # "flushed" /\ mode' # "flushed"
  BY <1>1 DEF Walking
<1>3. /\ IInv /\ Good(chart) /\ Coherent(chart) /\ Walk.ok /\ Extends(chart, Walk.chart)
      /\ h = Len(Rest.lexer_stack) /\ h \in Nat \ {0} /\ Len(path) \in Nat
      /\ Len(chart.lexer_stack) = h + Len(path)
  BY <1>2, WalkFacts
<1>4. /\ IInv' /\ bytes \in Seq(Byte) /\ path \in Seq(Byte) /\ eos \in BOOLEAN
  BY <1>3, WalkPopStep, RestFacts
<1>5. /\ n \in Nat /\ n <= Len(path) /\ path' = SubSeq(path, 1, l)
      /\ UNCHANGED <<bytes, eos, trie_lexer_stack>>
  BY ParserAssumption DEF WalkPop, tokenVars
<1>6. l \in 0..Len(path) /\ l \in Nat /\ h + l = Len(chart.lexer_stack) - n
      /\ h + l <= Len(chart.lexer_stack) /\ h + l \in 1..Len(chart.lexer_stack)
  BY <1>3, <1>5
<1> HIDE DEF l
<1>7. chart' = [chart EXCEPT !.lexer_stack = SubSeq(@, 1, h + l)]
  <2>1. chart \in ParserChart /\ chart' = PopLexerStates(chart, n)
    BY <1>3 DEF WalkPop, Good
  <2> QED BY <1>6, <2>1 DEF PopLexerStates, ParserChart
<1> DEFINE q == path'
<1>8. q \in Seq(Byte) /\ Len(q) = l /\ \A k \in 1..l : q[k] = path[k]
  <2>1. \A i \in 1..l : path[i] \in Byte
    BY <1>4, <1>6, ElementOfSeq
  <2> DEFINE p == SubSeq(path, 1, l)
  <2>2. p \in Seq(Byte) /\ Len(p) = l /\ \A k \in 1..l : p[k] = path[k]
    BY <1>6, <2>1, SubSeqProperties
  <2>3. q = p
    BY <1>5
  <2> HIDE DEF p, q
  <2> QED BY <2>2, <2>3
<1> HIDE DEF q
<1>9. /\ Walked(bytes, eos, q).ok
      /\ Twin(chart', Walked(bytes, eos, q).chart)
  <2>1. h = Len(Definite(bytes, eos).lexer_stack)
    BY <1>3 DEF Rest
  <2> QED BY <1>3, <1>4, <1>6, <1>7, <1>8, <2>1, PathTruncate DEF Walk
<1>10. /\ Coherent(chart') /\ chart'.budget = chart.budget
  <2> DEFINE m == h + l
  <2>1. m \in 1..Len(chart.lexer_stack) /\ chart' = [chart EXCEPT !.lexer_stack = SubSeq(@, 1, m)]
    BY <1>6, <1>7
  <2> HIDE DEF m
  <2> QED BY <1>3, <2>1, TruncateExtends DEF Fit
<1>11. Walk' = Walked(bytes, eos, q) /\ Rest' = Rest /\ Fresh(bytes').ok
  BY <1>5 DEF Walk, Rest, RInv, q
<1>12. trie_lexer_stack' = Len(Rest'.lexer_stack) /\ Walk'.ok /\ Twin(chart', Walk'.chart)
  BY <1>3, <1>5, <1>9, <1>11
<1>13. mode' \notin {"force", "mask"} => chart'.budget = Unlimited
  BY <1>1, <1>10 DEF RInv
<1> QED BY <1>2, <1>4, <1>10, <1>11, <1>12, <1>13 DEF RInv

(* The flush of a query.                                                    *)
LEMMA WalkFlushReplay ==
  ASSUME RInv, WalkFlush
  PROVE  RInv'
<1> DEFINE r == FlushLexer(chart, FALSE, 0)
           q == FlushLexer(Walk.chart, FALSE, 0)
<1>1. /\ mode = "query" /\ mode' = "flushed" /\ chart' = r.chart
      /\ UNCHANGED <<bytes, lexer_stack_top_eos, path, trie_lexer_stack>>
  BY DEF WalkFlush, tokenVars, walkVars
<1>2. Walking /\ Walking'
  BY <1>1 DEF Walking
<1>3. /\ IInv /\ Fit(chart, FALSE) /\ Walk.ok /\ Fit(Walk.chart, FALSE)
      /\ Walk.chart.budget = Unlimited /\ trie_lexer_stack = Len(Rest.lexer_stack)
  BY <1>2, WalkFacts
<1>4. IInv'
  BY <1>3, WalkFlushStep
<1>5. Twin(chart, Walk.chart) /\ chart.budget = Unlimited /\ Fresh(bytes).ok
  BY <1>1, <1>2 DEF RInv
<1>6. Fit(r.chart, FALSE) /\ r.chart.budget = Unlimited
  BY <1>3, <1>5, FlushFacts
<1>7. Twin(r.chart, q.chart)
  BY <1>3, <1>5, TwinFlush
<1>8. Rest' = Rest /\ Walk' = Walk
  BY <1>1 DEF Rest, Walk
<1>9. Flushed(bytes, lexer_stack_top_eos, path)' = q.chart
  BY <1>1 DEF Flushed, Walk
<1> HIDE DEF r, q
<1>10. Coherent(chart') /\ chart'.budget = Unlimited
  BY <1>1, <1>6 DEF Fit
<1>11. trie_lexer_stack' = Len(Rest'.lexer_stack) /\ Walk'.ok /\ Fresh(bytes').ok
  BY <1>1, <1>3, <1>5, <1>8
<1>12. Twin(chart', Flushed(bytes, lexer_stack_top_eos, path)')
  BY <1>1, <1>7, <1>9
<1> QED BY <1>1, <1>2, <1>4, <1>10, <1>11, <1>12 DEF RInv

(* The flush taken back.                                                    *)
LEMMA WalkRestoreReplay ==
  ASSUME RInv, WalkRestore
  PROVE  RInv'
<1> DEFINE h == trie_lexer_stack
           eos == lexer_stack_top_eos
           l == Len(path)
<1>1. /\ mode = "flushed" /\ mode' = "query"
      /\ chart' = [chart EXCEPT !.lexer_stack = SubSeq(@, 1, h + l)]
      /\ UNCHANGED <<bytes, eos, path, trie_lexer_stack>>
  BY DEF WalkRestore, tokenVars, walkVars
<1>2. Walking /\ Walking'
  BY <1>1 DEF Walking
<1>3. /\ IInv /\ Good(chart) /\ Coherent(chart) /\ Walk.ok /\ Extends(chart, Walk.chart)
      /\ h = Len(Rest.lexer_stack) /\ h \in Nat \ {0} /\ l \in Nat
  BY <1>2, WalkFacts
<1>4. IInv' /\ bytes \in Seq(Byte) /\ path \in Seq(Byte) /\ eos \in BOOLEAN
  BY <1>3, WalkRestoreStep, RestFacts
<1>5. h + l <= Len(chart.lexer_stack) /\ Len(chart.lexer_stack) \in Nat
  BY <1>2, <1>3, InWalk
<1>6. l \in 0..Len(path) /\ h + l \in 1..Len(chart.lexer_stack) /\ Len(path) = l
  BY <1>3, <1>5
<1> HIDE DEF l
<1>7. Twin(chart', Walk.chart)
  <2>1. h = Len(Definite(bytes, eos).lexer_stack)
    BY <1>3 DEF Rest
  <2>2. \A k \in 1..l : path[k] = path[k]
    OBVIOUS
  <2>3. Walked(bytes, eos, path).ok /\ Extends(chart, Walked(bytes, eos, path).chart)
    BY <1>3 DEF Walk
  <2>4. Twin(chart', Walked(bytes, eos, path).chart)
    BY <1>1, <1>3, <1>4, <1>5, <1>6, <2>1, <2>2, <2>3, PathTruncate
  <2> QED BY <2>4 DEF Walk
<1>8. Coherent(chart') /\ chart'.budget = chart.budget
  <2> DEFINE m == h + l
  <2>1. m \in 1..Len(chart.lexer_stack) /\ chart' = [chart EXCEPT !.lexer_stack = SubSeq(@, 1, m)]
    BY <1>1, <1>6
  <2> HIDE DEF m
  <2> QED BY <1>3, <2>1, TruncateExtends DEF Fit
<1>9. Walk' = Walk /\ Rest' = Rest /\ Fresh(bytes').ok /\ chart.budget = Unlimited
  BY <1>1 DEF Walk, Rest, RInv
<1>10. /\ trie_lexer_stack' = Len(Rest'.lexer_stack) /\ Walk'.ok /\ Twin(chart', Walk'.chart)
       /\ chart'.budget = Unlimited
  BY <1>1, <1>3, <1>7, <1>8, <1>9
<1> QED BY <1>1, <1>2, <1>4, <1>8, <1>9, <1>10 DEF RInv

(* The end of a walk.                                                       *)
LEMMA WalkEndReplay ==
  ASSUME RInv, WalkEnd
  PROVE  RInv'
<1> DEFINE h == trie_lexer_stack
           d == [chart EXCEPT !.lexer_stack = SubSeq(@, 1, h)]
           e == [d EXCEPT !.budget = Unlimited]
<1>1. /\ chart' = Speculative([chart EXCEPT !.budget = Unlimited,
                                 !.lexer_stack = SubSeq(@, 1, h)])
      /\ mode' = "idle" /\ Walking /\ UNCHANGED <<bytes, lexer_stack_top_eos>>
  BY DEF WalkEnd, tokenVars
<1>2. ~Walking'
  BY <1>1 DEF Walking
<1>3. /\ IInv /\ Good(chart) /\ Coherent(chart) /\ Walk.ok /\ Extends(chart, Walk.chart)
      /\ h = Len(Rest.lexer_stack) /\ h \in Nat \ {0} /\ Good(Walk.chart)
  BY <1>1, WalkFacts
<1>4. IInv' /\ Good(Rest) /\ Extends(Walk.chart, Rest)
  BY <1>3, WalkEndStep, RestFacts DEF Fit
<1>5. Extends(chart, Rest)
  BY <1>3, <1>4, ExtendsTrans
<1>6. h \in 1..Len(chart.lexer_stack)
  BY <1>1, <1>3, InWalk
<1>7. Extends(chart, d) /\ Good(d) /\ Coherent(d) /\ Len(d.lexer_stack) = h
  BY <1>3, <1>6, TruncateExtends, TruncateFacts DEF Fit
<1>8. chart' = Speculative(e)
  BY <1>1, <1>3 DEF Good, ParserChart
<1> HIDE DEF d
<1>9. Extends(d, Rest) /\ SameHeight(d, Rest)
  <2>1. Len(Rest.lexer_stack) <= Len(d.lexer_stack)
    BY <1>3, <1>7
  <2> QED BY <1>3, <1>4, <1>5, <1>7, <2>1, ExtendsDown DEF SameHeight
<1>10. Twin(e, d) /\ Good(e) /\ Coherent(e) /\ e.budget = Unlimited
  BY <1>7, BudgetTwin
<1> HIDE DEF e
<1>11. Twin(chart', e) /\ Good(chart') /\ Coherent(chart') /\ chart'.budget = Unlimited
  BY <1>8, <1>10, SpeculativeExtends DEF Twin, SameHeight, Fit
<1>12. Twin(chart', Rest)
  <2>1. Twin(chart', d)
    BY <1>7, <1>10, <1>11, TwinTrans
  <2> QED BY <1>4, <1>7, <1>9, <1>11, <2>1, TwinTrans DEF Twin
<1>13. Rest' = Rest /\ Fresh(bytes').ok
  BY <1>1 DEF Rest, RInv
<1> QED BY <1>2, <1>4, <1>11, <1>12, <1>13 DEF RInv

-----------------------------------------------------------------------------
(* Every step keeps the invariant.                                          *)
LEMMA NextReplay == RInv /\ [Next]_vars => RInv'
<1> SUFFICES ASSUME RInv, [Next]_vars PROVE RInv'
  OBVIOUS
<1>1. ASSUME NEW t \in Tokens, ApplyToken(t) PROVE RInv'
  BY <1>1, TokenReplay
<1>2. CASE ApplyForcedByte \/ ApplyEnd \/ ForceBytes \/ ForceDone
  BY <1>2, TokenReplay
<1>3. CASE ApplyNewByte \/ ForceByte
  BY <1>3, ByteReplay
<1>4. CASE ScanEos
  BY <1>4, ScanEosReplay
<1>5. ASSUME NEW n \in 0..MaxBytes, Rollback(n) PROVE RInv'
  BY <1>5, RollbackReplay
<1>6. CASE BeginMask \/ BeginQuery
  BY <1>6, BeginWalkReplay
<1>7. ASSUME NEW b \in Byte, WalkByte(b) PROVE RInv'
  BY <1>7, WalkByteReplay
<1>8. ASSUME NEW n \in 1..MaxWalk, WalkPop(n) PROVE RInv'
  BY <1>8, WalkPopReplay
<1>9. CASE WalkFlush
  BY <1>9, WalkFlushReplay
<1>10. CASE WalkRestore
  BY <1>10, WalkRestoreReplay
<1>11. CASE WalkEnd
  BY <1>11, WalkEndReplay
<1>12. CASE UNCHANGED vars
  <2>1. IInv'
    BY <1>12, NextInv DEF RInv
  <2>2. /\ chart' = chart /\ bytes' = bytes /\ mode' = mode /\ path' = path
        /\ lexer_stack_top_eos' = lexer_stack_top_eos /\ trie_lexer_stack' = trie_lexer_stack
    BY <1>12 DEF vars
  <2>3. Rest' = Rest /\ Walk' = Walk /\ (Walking' <=> Walking)
    BY <2>2 DEF Rest, Walk, Walking
  <2>4. Flushed(bytes, lexer_stack_top_eos, path)' = Flushed(bytes, lexer_stack_top_eos, path)
    BY <2>2
  <2> QED BY <2>1, <2>2, <2>3, <2>4 DEF RInv
<1> QED BY <1>1, <1>2, <1>3, <1>4, <1>5, <1>6, <1>7, <1>8, <1>9, <1>10, <1>11, <1>12 DEF Next

(* The invariant holds throughout.                                          *)
LEMMA ReplayInvariant == Spec => []RInv
BY InitReplay, NextReplay, PTL DEF Spec

(* A row that a walk may re-use holds what a scan would compute: whatever   *)
(* branches shared it, and whatever rows an earlier branch left behind.     *)
THEOREM SharedRowsCoherent == Spec => []ValidRowsAreCoherent
<1>1. RInv => ValidRowsAreCoherent
  BY DEF RInv, Coherent, Below, ValidRowsAreCoherent
<1> QED BY <1>1, ReplayInvariant, PTL

(* Tokens, forced bytes, walks, ends of sequence and rollbacks, in any      *)
(* order: the stacks and rows are those of a fresh parser that was given    *)
(* the same bytes one by one.                                               *)
THEOREM ChartReplays == Spec => []ChartIsReplay
<1>1. ASSUME RInv PROVE ChartIsReplay
  <2>1. IInv /\ Good(chart)
    BY <1>1, RestFacts DEF RInv
  <2>2. /\ Good(Rest) /\ Good(Walk.chart)
        /\ bytes \in Seq(Byte) /\ path \in Seq(Byte) /\ lexer_stack_top_eos \in BOOLEAN
    BY <2>1, RestFacts DEF Fit
  <2>3. Good(Flushed(bytes, lexer_stack_top_eos, path))
    BY <2>2, FlushedFacts
  <2>4. Replay = Fresh(bytes).chart
    BY DEF Replay, Fresh
  <2>5. Straight = IF mode = "flushed" THEN Flushed(bytes, lexer_stack_top_eos, path)
                   ELSE IF Walking THEN Walk.chart ELSE Rest
    BY <2>4, Zenon DEF Straight, Flushed, Walk, Walked, Rest, Definite, Walking
  <2>6. Good(Straight) /\ Twin(chart, Straight)
    BY <1>1, <2>2, <2>3, <2>5 DEF RInv, Walking
  <2> QED BY <2>1, <2>6, ExtendsTwin DEF Twin, SameParse, SameRows, ChartIsReplay
<1> QED BY <1>1, ReplayInvariant, PTL

(* A mask, computed without a limit, is the same on charts that are alike.  *)
LEMMA MaskSame ==
  ASSUME NEW c, NEW d, Good(c), Coherent(c), Good(d), Coherent(d), Alike(c, d)
  PROVE  Mask(c) = Mask(d)
<1> DEFINE a == [c EXCEPT !.budget = Unlimited]
           b == [d EXCEPT !.budget = Unlimited]
<1>1. /\ Twin(a, c) /\ Good(a) /\ Coherent(a) /\ a.budget = Unlimited
      /\ Twin(b, d) /\ Good(b) /\ Coherent(b) /\ b.budget = Unlimited
  BY BudgetTwin
<1> HIDE DEF a, b
<1>2. Alike(a, c) /\ Alike(b, d)
  BY <1>1, ExtendsTwin DEF Twin
<1>3. Alike(a, b)
  BY <1>2 DEF Alike, SameRows
<1>4. \A t \in Tokens : t \in Seq(Byte)
  BY ParserAssumption
<1>5. \A t \in Tokens : Allows(a, t) = Allows(b, t)
  BY <1>1, <1>3, <1>4, AllowsSame
<1>6. Mask(c) = {t \in Tokens : Allows(a, t)} /\ Mask(d) = {t \in Tokens : Allows(b, t)}
  BY DEF Mask, a, b
<1> QED BY <1>5, <1>6

(* Without rollbacks the parser at rest only grows.                         *)
LEMMA RestGrows ==
  ASSUME RInv, RInv', [Next]_vars, ~RollbackUsed
  PROVE  Extends(Rest', Rest)
<1>1. IInv /\ IInv' /\ Fresh(bytes').ok
  BY DEF RInv
<1>2. /\ bytes \in Seq(Byte) /\ Fit(Rest, TRUE) /\ lexer_stack_top_eos \in BOOLEAN
      /\ ~lexer_stack_top_eos => Rest = Fresh(bytes).chart
      /\ bytes' \in Seq(Byte)
  BY <1>1, RestFacts DEF IInv, TypeOK
<1>3. CASE UNCHANGED <<bytes, lexer_stack_top_eos>>
  <2>1. Rest' = Rest
    BY <1>3 DEF Rest
  <2> QED BY <1>2, <2>1, ExtendsRefl DEF Fit, SameRows
<1>4. ASSUME NEW b \in Byte, bytes' = Append(bytes, b), ~lexer_stack_top_eos,
             UNCHANGED lexer_stack_top_eos
      PROVE  Extends(Rest', Rest)
  <2> DEFINE t == Append(bytes, b)
             i == Len(bytes)
  <2>1. /\ t \in Seq(Byte) /\ i \in 0..Len(t) /\ Len(bytes) = i
        /\ \A k \in 1..i : bytes[k] = t[k]
    BY <1>2, AppendProperties
  <2>2. Rest' = Fresh(t).chart /\ Rest = Fresh(bytes).chart /\ Fresh(t).ok
    BY <1>1, <1>2, <1>4 DEF Rest, Definite
  <2> HIDE DEF t, i
  <2>3. Fit(NewChart, TRUE)
    BY InitialChartFacts DEF Fit, Coherent, NewChart, Defined
  <2>4. Extends(Fresh(t).chart, Fresh(bytes).chart)
    BY <1>2, <2>1, <2>2, <2>3, PushAllExtends DEF Fresh
  <2> QED BY <2>2, <2>4
<1>5. CASE bytes' = bytes /\ ~lexer_stack_top_eos /\ lexer_stack_top_eos'
  <2>1. Rest' = Definite(bytes, TRUE) /\ Rest = Fresh(bytes).chart
    BY <1>2, <1>5 DEF Rest, Definite
  <2> QED BY <1>2, <2>1, DefiniteFacts
<1>6. ASSUME NEW t \in Tokens, ApplyToken(t) PROVE UNCHANGED <<bytes, lexer_stack_top_eos>>
  BY <1>6 DEF ApplyToken
<1>7. CASE ApplyForcedByte \/ ApplyEnd \/ ForceBytes \/ ForceDone
  BY <1>3, <1>7 DEF ApplyForcedByte, ApplyEnd, ForceBytes, ForceDone, tokenVars
<1>8. CASE ApplyNewByte
  <2>1. ~lexer_stack_top_eos /\ Head(token) \in Byte
    BY <1>1, <1>8, HeadTailProperties DEF ApplyNewByte, IInv, TypeOK, EosEntryOK
  <2>2. UNCHANGED lexer_stack_top_eos
    BY <1>8 DEF ApplyNewByte
  <2>3. bytes' = bytes \/ bytes' = Append(bytes, Head(token))
    BY <1>8 DEF ApplyNewByte
  <2> QED BY <1>3, <1>4, <2>1, <2>2, <2>3
<1>9. CASE ForceByte
  <2>1. ~lexer_stack_top_eos /\ UNCHANGED lexer_stack_top_eos
    BY <1>1, <1>9 DEF ForceByte, IInv, EosEntryOK
  <2>2. PICK left \in LeftAfterWalk : \E b \in ForcedCandidates(left) :
          bytes' = bytes \/ bytes' = Append(bytes, b)
    BY <1>9 DEF ForceByte
  <2>3. PICK b \in ForcedCandidates(left) : bytes' = bytes \/ bytes' = Append(bytes, b)
    BY <2>2
  <2>4. b \in Byte
    BY <2>3, ForcedCandidatesType
  <2> QED BY <1>3, <1>4, <2>1, <2>3, <2>4
<1>10. CASE ScanEos
  <2>1. bytes' = bytes /\ (lexer_stack_top_eos => lexer_stack_top_eos')
    BY <1>10 DEF ScanEos
  <2>2. lexer_stack_top_eos' \in BOOLEAN
    BY <1>1 DEF IInv, TypeOK
  <2> QED BY <1>2, <1>3, <1>5, <2>1, <2>2
<1>11. ASSUME NEW n \in 0..MaxBytes, Rollback(n) PROVE FALSE
  BY <1>11 DEF Rollback
<1>12. CASE BeginMask \/ BeginQuery \/ WalkFlush \/ WalkRestore \/ WalkEnd
  BY <1>3, <1>12 DEF BeginMask, BeginQuery, BeginWalk, WalkFlush, WalkRestore, WalkEnd, tokenVars
<1>13. ASSUME NEW b \in Byte, WalkByte(b) PROVE UNCHANGED <<bytes, lexer_stack_top_eos>>
  BY <1>13 DEF WalkByte, tokenVars
<1>14. ASSUME NEW n \in 1..MaxWalk, WalkPop(n) PROVE UNCHANGED <<bytes, lexer_stack_top_eos>>
  BY <1>14 DEF WalkPop, tokenVars
<1>15. CASE UNCHANGED vars
  BY <1>3, <1>15 DEF vars
<1> QED BY <1>3, <1>6, <1>7, <1>8, <1>9, <1>10, <1>11, <1>12, <1>13, <1>14, <1>15 DEF Next

(* An error of the item limit is final, and a mask is cached only when its  *)
(* walk ends.                                                               *)
LEMMA ErrorStays ==
  ASSUME [Next]_vars
  PROVE  /\ parser_error => parser_error'
         /\ bias_cache' = bias_cache \/ WalkEnd
<1> DEFINE Kept == (parser_error => parser_error') /\ bias_cache' = bias_cache
<1>1. ASSUME NEW t \in Tokens, ApplyToken(t) PROVE Kept
  BY <1>1 DEF ApplyToken
<1>2. /\ ApplyForcedByte => Kept
      /\ ApplyNewByte => Kept
      /\ ApplyEnd => Kept
  <2>1. ApplyForcedByte => Kept
    BY DEF ApplyForcedByte
  <2>2. ApplyNewByte => Kept
    BY DEF ApplyNewByte
  <2>3. ApplyEnd => Kept
    BY DEF ApplyEnd
  <2> QED BY <2>1, <2>2, <2>3
<1>3. /\ ForceBytes => Kept
      /\ ScanEos => Kept
  <2>1. ForceBytes => Kept
    BY DEF ForceBytes
  <2>2. ScanEos => Kept
    BY DEF ScanEos
  <2> QED BY <2>1, <2>2
<1>4. ASSUME ForceByte \/ ForceDone PROVE Kept
  BY <1>4 DEF ForceByte, ForceDone, ForceEnd
<1>5. ASSUME NEW n \in 0..MaxBytes, Rollback(n) PROVE Kept
  BY <1>5 DEF Rollback
<1>6. ASSUME BeginMask \/ BeginQuery PROVE Kept
  BY <1>6 DEF BeginMask, BeginQuery, BeginWalk
<1>7. ASSUME NEW b \in Byte, WalkByte(b) PROVE Kept
  BY <1>7 DEF WalkByte
<1>8. ASSUME NEW n \in 1..MaxWalk, WalkPop(n) PROVE Kept
  BY <1>8 DEF WalkPop
<1>9. /\ WalkFlush => Kept
      /\ WalkRestore => Kept
  <2>1. WalkFlush => Kept
    BY DEF WalkFlush
  <2>2. WalkRestore => Kept
    BY DEF WalkRestore
  <2> QED BY <2>1, <2>2
<1>10. ASSUME WalkEnd PROVE parser_error => parser_error'
  BY <1>10 DEF WalkEnd
<1>11. ASSUME UNCHANGED vars PROVE Kept
  BY <1>11 DEF vars
<1>12. Kept => (parser_error => parser_error') /\ bias_cache' = bias_cache
  OBVIOUS
<1> HIDE DEF Kept
<1> QED
  BY <1>1, <1>2, <1>3, <1>4, <1>5, <1>6, <1>7, <1>8, <1>9, <1>10, <1>11, <1>12 DEF Next

-----------------------------------------------------------------------------
(* The cached mask.  Without rollbacks the rows its key was taken in are    *)
(* still in use, and it is the mask of the chart there.                     *)
KeyedChart == At(Rest, bias_cache.key.row_idx, bias_cache.key.lexer_state)

CacheOK ==
  bias_cache # NoCache =>
    /\ bias_cache.key.row_idx \in 1..NumRows(Rest)
    /\ bias_cache.key.lexer_state \in StateID
    /\ parser_error \/ bias_cache.mask = Mask(KeyedChart)

(* On a chart that grew the mask is the same.                               *)
LEMMA MaskGrows ==
  ASSUME NEW c, Good(c), Coherent(c), NEW d, Good(d), Coherent(d), Extends(d, c),
         NEW k \in 1..NumRows(c), NEW s \in StateID
  PROVE  k \in 1..NumRows(d) /\ Mask(At(d, k, s)) = Mask(At(c, k, s))
<1>1. NumRows(c) \in Nat /\ NumRows(d) \in Nat /\ NumRows(c) <= NumRows(d)
  BY ExtendsRows, TopFacts
<1>2. k \in 1..NumRows(d)
  BY <1>1
<1> DEFINE a == At(c, k, s)
           b == At(d, k, s)
<1>3. /\ Good(a) /\ Coherent(a) /\ NumRows(a) = k /\ Top(a).lexer_state = s /\ a.rows = c.rows
      /\ Good(b) /\ Coherent(b) /\ NumRows(b) = k /\ Top(b).lexer_state = s /\ b.rows = d.rows
  BY <1>2, AtFacts
<1> HIDE DEF a, b
<1>4. \A i \in 1..k : d.rows[i] = c.rows[i]
  BY <1>1 DEF Extends, SameRows
<1>5. Alike(b, a)
  BY <1>3, <1>4 DEF Alike, SameRows
<1>6. Mask(b) = Mask(a)
  BY <1>3, <1>5, MaskSame
<1> QED BY <1>2, <1>6 DEF a, b

(* A cached mask stays right while the rows of its key stay.                *)
LEMMA CacheKept ==
  ASSUME RInv, RInv', CacheOK, Extends(Rest', Rest),
         parser_error => parser_error', bias_cache' = bias_cache
  PROVE  CacheOK'
<1> SUFFICES ASSUME bias_cache # NoCache
             PROVE  /\ bias_cache.key.row_idx \in 1..NumRows(Rest')
                    /\ bias_cache.key.lexer_state \in StateID
                    /\ parser_error' \/ bias_cache.mask = Mask(KeyedChart')
  BY DEF CacheOK
<1> DEFINE k == bias_cache.key.row_idx
           s == bias_cache.key.lexer_state
<1>1. Good(Rest) /\ Coherent(Rest)
  BY RestFacts DEF RInv, Fit
<1>2. Good(Rest') /\ Coherent(Rest')
  <2>1. bytes' \in Seq(Byte) /\ lexer_stack_top_eos' \in BOOLEAN
    BY DEF RInv, IInv, TypeOK
  <2> QED BY <2>1, DefiniteFacts DEF Rest, Fit
<1>3. k \in 1..NumRows(Rest) /\ s \in StateID /\ (parser_error \/ bias_cache.mask = Mask(At(Rest, k, s)))
  BY DEF CacheOK, KeyedChart
<1>4. KeyedChart' = At(Rest', k, s)
  BY DEF KeyedChart
<1> HIDE DEF k, s
<1>5. k \in 1..NumRows(Rest') /\ Mask(At(Rest', k, s)) = Mask(At(Rest, k, s))
  BY <1>1, <1>2, <1>3, MaskGrows
<1> QED BY <1>3, <1>4, <1>5 DEF k, s

(* The end of a walk for a mask caches the mask of its key.                 *)
LEMMA CacheFilled ==
  ASSUME RInv, RInv', CacheOK, WalkEnd
  PROVE  CacheOK'
<1>1. /\ chart' = Speculative([chart EXCEPT !.budget = Unlimited,
                                 !.lexer_stack = SubSeq(@, 1, trie_lexer_stack)])
      /\ bias_cache' = IF mode = "mask"
                       THEN [key |-> BiasKey(chart'),
                             mask |-> IF chart.budget = 0 THEN {} ELSE Mask(chart')]
                       ELSE bias_cache
      /\ parser_error' = (parser_error \/ chart.budget = 0)
      /\ mode' = "idle" /\ UNCHANGED <<bytes, lexer_stack_top_eos>>
  BY DEF WalkEnd, tokenVars
<1>2. Rest' = Rest
  BY <1>1 DEF Rest
<1>3. /\ Good(Rest) /\ Coherent(Rest)
  BY RestFacts DEF RInv, Fit
<1>4. Good(chart') /\ Coherent(chart') /\ Twin(chart', Rest)
  BY <1>1, <1>2 DEF RInv, IInv, Walking
<1>5. CASE mode # "mask"
  <2>1. Extends(Rest', Rest)
    BY <1>2, <1>3, ExtendsRefl DEF SameRows
  <2> QED BY <1>1, <1>5, <2>1, CacheKept
<1>6. CASE mode = "mask"
  <2> DEFINE k == NumRows(chart')
             s == Top(chart').lexer_state
             m == IF chart.budget = 0 THEN {} ELSE Mask(chart')
             a == At(Rest, k, s)
  <2>1. /\ bias_cache'.key.row_idx = k /\ bias_cache'.key.lexer_state = s
        /\ bias_cache'.mask = m
    BY <1>1, <1>6 DEF BiasKey
  <2>2. Alike(chart', Rest) /\ k = NumRows(Rest) /\ k \in Nat \ {0} /\ s \in StateID
    BY <1>3, <1>4, ExtendsTwin, TopFacts DEF Twin
  <2>3. k \in 1..NumRows(Rest)
    BY <2>2
  <2>4. KeyedChart' = a
    BY <1>2, <2>1 DEF KeyedChart
  <2> HIDE DEF k, s
  <2>5. Good(a) /\ Coherent(a) /\ NumRows(a) = k /\ Top(a).lexer_state = s /\ a.rows = Rest.rows
    BY <1>3, <2>2, <2>3, AtFacts
  <2> HIDE DEF a
  <2>6. Alike(chart', a)
    BY <2>2, <2>5 DEF Alike, SameRows, k, s
  <2>7. Mask(chart') = Mask(a)
    BY <1>4, <2>5, <2>6, MaskSame
  <2>8. parser_error' \/ m = Mask(a)
    BY <1>1, <2>7
  <2> HIDE DEF m
  <2> QED BY <1>2, <2>1, <2>2, <2>3, <2>4, <2>8 DEF CacheOK
<1> QED BY <1>5, <1>6

(* A mask served from bias_cache is the one a walk would compute now, under *)
(* any item limit, as long as the parser is not rolled back.                *)
THEOREM CachedMasksFresh == ~RollbackUsed => (Spec => []BiasCacheFresh)
<1> SUFFICES ASSUME ~RollbackUsed PROVE Spec => []BiasCacheFresh
  OBVIOUS
<1>1. Init => CacheOK
  BY DEF Init, CacheOK
<1>2. RInv /\ RInv' /\ CacheOK /\ [Next]_vars => CacheOK'
  BY RestGrows, ErrorStays, CacheKept, CacheFilled
<1>3. ASSUME RInv, CacheOK PROVE BiasCacheFresh
  <2> SUFFICES ASSUME Usable, bias_cache # NoCache, bias_cache.key = BiasKey(chart)
               PROVE  bias_cache.mask = Mask(chart)
    BY DEF BiasCacheFresh, CacheHit
  <2> DEFINE k == bias_cache.key.row_idx
             s == bias_cache.key.lexer_state
             a == At(Rest, k, s)
  <2>1. k = NumRows(chart) /\ s = Top(chart).lexer_state
    BY DEF BiasKey
  <2>2. k \in 1..NumRows(Rest) /\ s \in StateID /\ bias_cache.mask = Mask(a)
    BY <1>3 DEF CacheOK, KeyedChart, Usable
  <2> HIDE DEF k, s
  <2>3. Good(Rest) /\ Coherent(Rest) /\ Good(chart) /\ Coherent(chart) /\ Twin(chart, Rest)
    BY <1>3, RestFacts DEF RInv, Fit, Usable, Walking
  <2>4. Good(a) /\ Coherent(a) /\ NumRows(a) = k /\ Top(a).lexer_state = s /\ a.rows = Rest.rows
    BY <2>2, <2>3, AtFacts
  <2> HIDE DEF a
  <2>5. Alike(chart, Rest)
    BY <2>3, ExtendsTwin DEF Twin
  <2>6. Alike(chart, a)
    BY <2>1, <2>4, <2>5 DEF Alike, SameRows
  <2> QED BY <2>2, <2>3, <2>4, <2>6, MaskSame
<1> QED BY <1>1, <1>2, <1>3, ReplayInvariant, PTL DEF Spec

-----------------------------------------------------------------------------
(* At rest, before any end of sequence, the parser is tracked too.          *)
LEMMA RestTracked ==
  ASSUME RInv, ~Walking, ~lexer_stack_top_eos
  PROVE  /\ Fit(chart, TRUE) /\ Good(chart) /\ Coherent(chart) /\ Tracked(chart)
         /\ Fresh(bytes).ok /\ Unbounded(Fresh(bytes).chart) /\ Rest = Fresh(bytes).chart
         /\ Twin(chart, Fresh(bytes).chart)
         /\ bytes \in Seq(Byte) /\ Len(bytes) \in Nat
<1> DEFINE f == Fresh(bytes).chart
<1>1. /\ IInv /\ Good(chart) /\ Coherent(chart) /\ Fresh(bytes).ok /\ Twin(chart, Rest)
  BY DEF RInv, IInv
<1>2. /\ bytes \in Seq(Byte) /\ Len(bytes) \in Nat
      /\ Rest = f /\ Fit(f, TRUE) /\ f.budget = Unlimited
  BY <1>1, RestFacts
<1>3. Fit(chart, TRUE)
  BY <1>1, AtRest DEF Fit
<1>4. Tracked(f)
  BY <1>1, <1>2, FreshTracked
<1> HIDE DEF f
<1>5. Good(f) /\ Coherent(f)
  BY <1>2 DEF Fit
<1>6. NumRows(chart) = NumRows(f) /\ SameRows(chart, f, NumRows(chart)) /\ Alike(chart, f)
  BY <1>1, <1>2, <1>5, ExtendsTwin DEF Twin
<1>7. CurrRow(chart) = CurrRow(f)
  <2>1. NumRows(chart) \in 1..NumRows(chart)
    BY <1>1, TopFacts
  <2> QED BY <1>6, <2>1 DEF CurrRow, SameRows
<1>8. Tracked(chart)
  BY <1>4, <1>6, <1>7 DEF Tracked, Alike
<1> QED BY <1>1, <1>2, <1>3, <1>5, <1>8 DEF Unbounded, f

(* A byte that force_bytes() pushes is the only one allowed, and is refused *)
(* only when the items have run out.                                        *)
LEMMA ForceByteMore ==
  ASSUME RInv, ForceByte
  PROVE  \/ /\ mode' = "idle" /\ parser_error' /\ bytes' = bytes
            /\ last_force_bytes_len' = Len(bytes)
         \/ /\ mode' = "force" /\ UNCHANGED <<parser_error, last_force_bytes_len>>
            /\ chart.budget = 0 => chart'.budget = 0
            /\ Exact(chart) => Exact(chart') \/ chart'.budget = 0
            /\ \E b \in Byte :
                 /\ bytes' = Append(bytes, b)
                 /\ \/ chart'.budget = 0
                    \/ /\ AllowedBytes(Fresh(bytes).chart) = {b}
                       /\ ~IsAccepting(Fresh(bytes).chart)
<1>1. mode = "force" /\ ~Walking /\ ~lexer_stack_top_eos
  BY DEF ForceByte, Walking, RInv, IInv, EosEntryOK
<1>2. /\ Fit(chart, TRUE) /\ Good(chart) /\ Coherent(chart) /\ Tracked(chart)
      /\ Unbounded(Fresh(bytes).chart) /\ Twin(chart, Fresh(bytes).chart)
      /\ Len(bytes) \in Nat
  BY <1>1, RestTracked
<1>3. PICK left \in LeftAfterWalk : \E b \in ForcedCandidates(left) :
        LET r == TryPushByte(WithBudget(left), b, TRUE, Len(bytes)) IN
        IF r.ok
        THEN /\ chart' = r.chart /\ bytes' = Append(bytes, b)
             /\ UNCHANGED <<mode, parser_error, last_force_bytes_len>>
        ELSE ForceEnd(r.chart) /\ UNCHANGED bytes
  BY DEF ForceByte
<1> DEFINE w == WithBudget(left)
           u == WithBudget(Unlimited)
           f == Fresh(bytes).chart
<1>4. PICK b \in ForcedCandidates(left) :
        LET r == TryPushByte(w, b, TRUE, Len(bytes)) IN
        IF r.ok
        THEN /\ chart' = r.chart /\ bytes' = Append(bytes, b)
             /\ UNCHANGED <<mode, parser_error, last_force_bytes_len>>
        ELSE ForceEnd(r.chart) /\ UNCHANGED bytes
  BY <1>3
<1> DEFINE r == TryPushByte(w, b, TRUE, Len(bytes))
<1>5. left \in Nat \cup {Unlimited} /\ (chart.budget = 0 => left = 0)
  BY <1>2, UnlimitedIsNotZero DEF LeftAfterWalk, Good, ParserChart
<1>6. b \in Byte
  BY <1>4, ForcedCandidatesType
<1>7. /\ Twin(w, chart) /\ Fit(w, TRUE) /\ w.budget = left
      /\ Twin(u, chart) /\ Unbounded(u)
  <2>1. w = [chart EXCEPT !.budget = left] /\ u = [chart EXCEPT !.budget = Unlimited]
    BY DEF WithBudget
  <2> HIDE DEF w, u
  <2>2. Twin(w, chart) /\ Good(w) /\ Coherent(w) /\ w.budget = left /\ Defined(w, TRUE)
    BY <1>2, <1>5, <2>1, BudgetTwin DEF Fit
  <2>3. Twin(u, chart) /\ Good(u) /\ Coherent(u) /\ u.budget = Unlimited
    BY <1>2, <2>1, BudgetTwin
  <2> QED BY <2>2, <2>3 DEF Fit, Unbounded
<1>8. /\ w.lexer_stack = chart.lexer_stack /\ w.rows = chart.rows
      /\ w.row_infos = chart.row_infos
      /\ u.lexer_stack = chart.lexer_stack /\ u.rows = chart.rows
  BY <1>2, <1>5, BudgetFacts DEF WithBudget
<1> HIDE DEF w, u, f
<1>9. Tracked(w) /\ Tracked(u) /\ (Exact(chart) => Exact(w))
  BY <1>2, <1>8 DEF Tracked, Exact, CurrRow, NumRows, Top
<1>10. /\ w.budget = 0 => r.chart.budget = 0
       /\ Exact(w) => Exact(r.chart) \/ r.chart.budget = 0
  BY <1>2, <1>6, <1>7, <1>9, TryPushByteMore
<1>11. IF r.ok
       THEN /\ chart' = r.chart /\ bytes' = Append(bytes, b)
            /\ UNCHANGED <<mode, parser_error, last_force_bytes_len>>
       ELSE ForceEnd(r.chart) /\ UNCHANGED bytes
  BY <1>4
<1> HIDE DEF r
<1>12. CASE left = 0
  <2>1. r.chart.budget = 0
    BY <1>7, <1>10, <1>12
  <2>2. CASE r.ok
    BY <1>1, <1>6, <1>11, <2>1, <2>2
  <2>3. CASE ~r.ok
    BY <1>11, <2>1, <2>3 DEF ForceEnd
  <2> QED BY <2>2, <2>3
<1>13. CASE left # 0
  <2>1. b \in ForcedByte(u)
    BY <1>4, <1>13 DEF ForcedCandidates, u
  <2>2. ~IsAccepting(u) /\ AllowedBytes(u) = {b}
    BY <1>7, <1>9, <2>1, ForcedIsOnly
  <2>3. Good(w) /\ Good(u) /\ Good(chart) /\ Good(f) /\ Unbounded(f)
    BY <1>2, <1>7 DEF Fit, Unbounded, f
  <2>4. Twin(u, f) /\ Twin(w, u)
    <3>1. Twin(u, f)
      BY <1>2, <1>7, <2>3, TwinTrans DEF f
    <3>2. Twin(chart, u)
      BY <1>7, <2>3, TwinSym
    <3> QED BY <1>7, <2>3, <3>1, <3>2, TwinTrans
  <2>5. ~IsAccepting(f) /\ AllowedBytes(f) = {b}
    BY <1>7, <2>2, <2>3, <2>4, ForcedByteSame
  <2>6. r.ok \/ r.chart.budget = 0
    <3>1. b \in AllowedBytes(u)
      BY <2>2
    <3> QED BY <1>2, <1>7, <2>4, <3>1, AllowedPush DEF r
  <2>7. CASE r.ok
    BY <1>1, <1>5, <1>6, <1>9, <1>10, <1>11, <1>13, <2>5, <2>7 DEF f
  <2>8. CASE ~r.ok
    BY <1>11, <2>6, <2>8 DEF ForceEnd
  <2> QED BY <2>7, <2>8
<1> QED BY <1>12, <1>13

-----------------------------------------------------------------------------
(* What holds of forced bytes, of last_force_bytes_len and of row_infos,    *)
(* between operations and during them, until the item limit is exceeded.    *)
CutOff == parser_error \/ (mode = "force" /\ chart.budget = 0)

ForcedOK == CutOff \/ \A i \in (applied + 1)..Len(bytes) : ForcedAt(bytes, i)

ForceOK ==
  /\ last_force_bytes_len # Never => last_force_bytes_len \in 0..Len(bytes)
  /\ last_force_bytes_len = Len(bytes) /\ ~lexer_stack_top_eos
       => parser_error \/ MaxBytes <= Len(bytes) \/ ForcedByte(Rest) = {}

InfoOK == CutOff \/ chart.lexer_stack[Definitive].row_idx = Len(chart.row_infos)

(* That the items ran out is not forgotten.                                 *)
LEMMA CutOffStays ==
  ASSUME RInv, [Next]_vars, CutOff
  PROVE  CutOff'
<1>1. CASE parser_error
  BY <1>1, ErrorStays DEF CutOff
<1>2. CASE mode = "force" /\ chart.budget = 0
  <2>1. ForceByte \/ ForceDone \/ UNCHANGED vars
    BY <1>2 DEF Next, ApplyToken, ApplyForcedByte, ApplyNewByte, ApplyEnd, ForceBytes,
                ScanEos, Rollback, BeginMask, BeginQuery, Usable, WalkByte, WalkPop,
                WalkFlush, WalkRestore, WalkEnd, Walking
  <2>2. ASSUME ForceByte PROVE CutOff'
    BY <1>2, <2>2, ForceByteMore DEF CutOff
  <2>3. ASSUME ForceDone PROVE CutOff'
    <3>1. PICK left \in LeftAfterWalk : ForceEnd(WithBudget(left))
      BY <2>3 DEF ForceDone
    <3>2. left = 0
      BY <1>2, <3>1, UnlimitedIsNotZero DEF LeftAfterWalk
    <3>3. WithBudget(left).budget = left
      BY DEF WithBudget, RInv, IInv, TypeOK, ParserChart
    <3> QED BY <3>1, <3>2, <3>3 DEF ForceEnd, CutOff
  <2>4. ASSUME UNCHANGED vars PROVE CutOff'
    BY <1>2, <2>4 DEF vars, CutOff
  <2> QED BY <2>1, <2>2, <2>3, <2>4
<1> QED BY <1>1, <1>2 DEF CutOff

(* Forced bytes: bytes beyond those of the tokens come from ForceByte only. *)
LEMMA ForcedNext ==
  ASSUME RInv, [Next]_vars, ForcedOK
  PROVE  ForcedOK'
<1> DEFINE Held == \A i \in (applied' + 1)..Len(bytes') : ForcedAt(bytes', i)
<1> SUFFICES ASSUME ~CutOff' PROVE Held
  BY DEF ForcedOK
<1>1. \A i \in (applied + 1)..Len(bytes) : ForcedAt(bytes, i)
  BY CutOffStays DEF ForcedOK
<1>2. bytes \in Seq(Byte) /\ Len(bytes) \in Nat /\ applied \in 0..Len(bytes) /\ token \in Seq(Byte)
  BY DEF RInv, IInv, TypeOK
<1>3. ASSUME UNCHANGED <<bytes, applied>> PROVE Held
  BY <1>1, <1>3
<1>4. ASSUME applied' = Len(bytes') PROVE Held
  <2>1. Len(bytes') \in Nat
    <3>1. applied' \in Nat \/ Len(bytes') \in Nat
      BY <1>2, <1>4, NextReplay DEF RInv, IInv, TypeOK
    <3> QED BY <1>4, <3>1
  <2> QED BY <1>4, <2>1
<1> HIDE DEF Held
<1>5. ASSUME NEW t \in Tokens, ApplyToken(t) PROVE Held
  BY <1>3, <1>5 DEF ApplyToken
<1>6. ASSUME ApplyForcedByte PROVE Held
  <2>1. bytes' = bytes /\ applied' \in {applied, applied + 1}
    BY <1>6 DEF ApplyForcedByte, Reject
  <2> DEFINE m == Len(bytes)
  <2>2. m \in Nat /\ applied \in 0..m /\ \A i \in (applied + 1)..m : ForcedAt(bytes, i)
    BY <1>1, <1>2
  <2>3. Held <=> \A i \in (applied' + 1)..m : ForcedAt(bytes, i)
    BY <2>1 DEF Held
  <2> HIDE DEF m
  <2>4. ASSUME NEW i \in (applied' + 1)..m PROVE ForcedAt(bytes, i)
    <3> DEFINE a == applied
               a2 == applied'
    <3>1. a2 \in {a, a + 1} /\ a \in 0..m /\ i \in (a2 + 1)..m
      BY <2>1, <2>2, <2>4
    <3>2. \A j \in (a + 1)..m : ForcedAt(bytes, j)
      BY <2>2
    <3> HIDE DEF a, a2
    <3>3. i \in (a + 1)..m
      BY <2>2, <3>1
    <3> QED BY <3>2, <3>3
  <2> QED BY <2>3, <2>4
<1>7. ASSUME ApplyNewByte PROVE Held
  <2>1. \/ UNCHANGED <<bytes, applied>>
        \/ /\ bytes' = Append(bytes, Head(token)) /\ applied' = applied + 1
           /\ applied = Len(bytes) /\ token # <<>>
    BY <1>7 DEF ApplyNewByte
  <2>2. ASSUME bytes' = Append(bytes, Head(token)), applied' = applied + 1,
               applied = Len(bytes), token # <<>>
        PROVE  Held
    <3>1. Len(bytes') = Len(bytes) + 1
      BY <1>2, <2>2, HeadTailProperties, AppendProperties
    <3> QED BY <1>4, <2>2, <3>1
  <2> QED BY <1>3, <2>1, <2>2
<1>8. ASSUME ApplyEnd PROVE Held
  BY <1>3, <1>8 DEF ApplyEnd
<1>9. ASSUME ForceBytes PROVE Held
  BY <1>3, <1>9 DEF ForceBytes, tokenVars
<1>10. ASSUME ForceByte PROVE Held
  <2>1. applied' = applied
    BY <1>10 DEF ForceByte
  <2>2. \/ bytes' = bytes
        \/ \E b \in Byte :
             /\ bytes' = Append(bytes, b)
             /\ \/ chart'.budget = 0 /\ mode' = "force"
                \/ /\ AllowedBytes(Fresh(bytes).chart) = {b}
                   /\ ~IsAccepting(Fresh(bytes).chart)
    BY <1>10, ForceByteMore
  <2>3. ASSUME NEW b \in Byte, bytes' = Append(bytes, b),
               AllowedBytes(Fresh(bytes).chart) = {b}, ~IsAccepting(Fresh(bytes).chart)
        PROVE  Held
    <3>1. Len(bytes') = Len(bytes) + 1
      BY <1>2, <2>3, AppendProperties
    <3>2. /\ \A i \in 1..Len(bytes) : ForcedAt(bytes, i) => ForcedAt(bytes', i)
          /\ ForcedAt(bytes', Len(bytes) + 1)
      BY <1>2, <2>3, ForcedKept
    <3> DEFINE m == Len(bytes)
               k == Len(bytes')
    <3>3. /\ m \in Nat /\ applied \in 0..m /\ k = m + 1
          /\ \A i \in (applied + 1)..m : ForcedAt(bytes, i)
          /\ \A i \in 1..m : ForcedAt(bytes, i) => ForcedAt(bytes', i)
          /\ ForcedAt(bytes', m + 1)
      BY <1>1, <1>2, <3>1, <3>2
    <3>4. Held <=> \A i \in (applied' + 1)..k : ForcedAt(bytes', i)
      BY DEF Held
    <3> HIDE DEF m, k
    <3>5. ASSUME NEW i \in (applied + 1)..k PROVE ForcedAt(bytes', i)
      <4>1. (i \in 1..m /\ i \in (applied + 1)..m) \/ i = m + 1
        BY <3>3
      <4> QED BY <3>3, <4>1
    <3> QED BY <2>1, <3>4, <3>5
  <2> QED BY <1>3, <2>1, <2>2, <2>3 DEF CutOff
<1>11. ASSUME ForceDone PROVE Held
  BY <1>3, <1>11 DEF ForceDone
<1>12. ASSUME ScanEos PROVE Held
  BY <1>3, <1>12 DEF ScanEos
<1>13. ASSUME NEW n \in 0..MaxBytes, Rollback(n) PROVE Held
  <2>1. bytes' = SubSeq(bytes, 1, applied') /\ applied' = applied - n /\ n <= applied
    BY <1>13 DEF Rollback
  <2>2. applied' \in 0..Len(bytes)
    BY <1>2, <2>1, ParserAssumption
  <2>3. Len(bytes') = applied'
    BY <1>2, <2>1, <2>2
  <2> QED BY <1>4, <2>3
<1>14. ASSUME BeginMask \/ BeginQuery PROVE Held
  BY <1>3, <1>14 DEF BeginMask, BeginQuery, BeginWalk, tokenVars
<1>15. ASSUME NEW b \in Byte, WalkByte(b) PROVE Held
  BY <1>3, <1>15 DEF WalkByte, tokenVars
<1>16. ASSUME NEW n \in 1..MaxWalk, WalkPop(n) PROVE Held
  BY <1>3, <1>16 DEF WalkPop, tokenVars
<1>17. ASSUME WalkFlush PROVE Held
  BY <1>3, <1>17 DEF WalkFlush, tokenVars
<1>18. ASSUME WalkRestore PROVE Held
  BY <1>3, <1>18 DEF WalkRestore, tokenVars
<1>19. ASSUME WalkEnd PROVE Held
  BY <1>3, <1>19 DEF WalkEnd, tokenVars
<1>20. ASSUME UNCHANGED vars PROVE Held
  BY <1>3, <1>20 DEF vars
<1> QED
  BY <1>5, <1>6, <1>7, <1>8, <1>9, <1>10, <1>11, <1>12, <1>13, <1>14, <1>15, <1>16,
     <1>17, <1>18, <1>19, <1>20 DEF Next

(* A byte forced and not yet covered by a token was the only one allowed,   *)
(* where the text may not end: forced by the lexer's hint or after a walk,  *)
(* under any item limit that was not exceeded.                              *)
THEOREM ForcedBytesForced == Spec => []ForcedBytesAreForced
<1>1. Init => ForcedOK
  <2> SUFFICES ASSUME Init PROVE ForcedOK
    OBVIOUS
  <2>1. bytes = <<>> /\ applied = 0
    BY DEF Init
  <2>2. Len(bytes) = 0
    BY <2>1
  <2> QED BY <2>1, <2>2 DEF ForcedOK
<1>2. RInv /\ ForcedOK /\ [Next]_vars => ForcedOK'
  BY ForcedNext
<1>3. ForcedOK => ForcedBytesAreForced
  BY DEF ForcedOK, CutOff, Usable, ForcedAt, Fresh, ForcedBytesAreForced
<1> QED BY <1>1, <1>2, <1>3, ReplayInvariant, PTL DEF Spec

-----------------------------------------------------------------------------
(* last_force_bytes_len: where it equals bytes.len() no byte can be forced. *)
LEMMA ForceKept ==
  ASSUME RInv, [Next]_vars, ForceOK,
         UNCHANGED <<bytes, last_force_bytes_len>>, lexer_stack_top_eos => lexer_stack_top_eos'
  PROVE  ForceOK'
<1>1. parser_error => parser_error'
  BY ErrorStays
<1>2. lexer_stack_top_eos \in BOOLEAN /\ lexer_stack_top_eos' \in BOOLEAN
  BY NextReplay DEF RInv, IInv, TypeOK
<1>3. ~lexer_stack_top_eos' => Rest' = Rest
  BY <1>2 DEF Rest, Definite
<1>4. ~lexer_stack_top_eos' => ForcedByte(Rest') = ForcedByte(Rest)
  BY <1>3
<1>5. ForcedByte(Rest)' = ForcedByte(Rest')
  OBVIOUS
<1> QED BY <1>1, <1>2, <1>4, <1>5 DEF ForceOK

(* last_force_bytes_len: every step keeps what it promises.                 *)
LEMMA ForceNext ==
  ASSUME RInv, [Next]_vars, ForceOK
  PROVE  ForceOK'
<1>1. bytes \in Seq(Byte) /\ Len(bytes) \in Nat /\ token \in Seq(Byte)
  BY DEF RInv, IInv, TypeOK
<1>2. ASSUME NEW b \in Byte, bytes' = Append(bytes, b), UNCHANGED last_force_bytes_len
      PROVE  ForceOK'
  <2>1. Len(bytes') = Len(bytes) + 1
    BY <1>1, <1>2, AppendProperties
  <2> DEFINE m == Len(bytes)
             k == Len(bytes')
             l == last_force_bytes_len
  <2>2. m \in Nat /\ k = m + 1 /\ (l # Never => l \in 0..m) /\ l' = l
    BY <1>1, <1>2, <2>1 DEF ForceOK
  <2>3. Never \notin Nat
    BY ParserAssumption
  <2> HIDE DEF m, k, l
  <2>4. (l # Never => l \in 0..k) /\ l # k
    BY <2>2, <2>3
  <2> QED BY <2>2, <2>4 DEF ForceOK, k, l
<1>3. ASSUME NEW t \in Tokens, ApplyToken(t) PROVE ForceOK'
  BY <1>3, ForceKept DEF ApplyToken
<1>4. ASSUME ApplyForcedByte PROVE ForceOK'
  BY <1>4, ForceKept DEF ApplyForcedByte
<1>5. ASSUME ApplyNewByte PROVE ForceOK'
  <2>1. /\ UNCHANGED <<last_force_bytes_len, lexer_stack_top_eos>>
        /\ bytes' = bytes \/ (bytes' = Append(bytes, Head(token)) /\ token # <<>>)
    BY <1>5 DEF ApplyNewByte
  <2>2. token # <<>> => Head(token) \in Byte
    BY <1>1, HeadTailProperties
  <2> QED BY <1>2, <2>1, <2>2, ForceKept
<1>6. ASSUME ApplyEnd PROVE ForceOK'
  BY <1>6, ForceKept DEF ApplyEnd
<1>7. ASSUME ForceBytes PROVE ForceOK'
  BY <1>7, ForceKept DEF ForceBytes, tokenVars
<1>8. ASSUME ForceByte PROVE ForceOK'
  <2>1. UNCHANGED lexer_stack_top_eos
    BY <1>8 DEF ForceByte
  <2>2. \/ parser_error' /\ bytes' = bytes /\ last_force_bytes_len' = Len(bytes)
        \/ /\ UNCHANGED last_force_bytes_len
           /\ \E b \in Byte : bytes' = Append(bytes, b)
    BY <1>8, ForceByteMore
  <2>3. ASSUME parser_error', bytes' = bytes, last_force_bytes_len' = Len(bytes)
        PROVE  ForceOK'
    BY <1>1, <2>3 DEF ForceOK
  <2> QED BY <1>2, <2>2, <2>3
<1>9. ASSUME ForceDone PROVE ForceOK'
  <2>1. /\ mode = "force" /\ UNCHANGED <<bytes, lexer_stack_top_eos>>
        /\ last_force_bytes_len' = Len(bytes)
    BY <1>9 DEF ForceDone, ForceEnd
  <2>2. PICK left \in LeftAfterWalk :
          /\ left = 0 \/ ForcedByte(WithBudget(Unlimited)) = {} \/ Len(bytes) = MaxBytes
          /\ ForceEnd(WithBudget(left))
    BY <1>9 DEF ForceDone
  <2>3. chart \in ParserChart /\ left \in Nat \cup {Unlimited}
    BY DEF LeftAfterWalk, RInv, IInv, TypeOK, ParserChart
  <2>4. left = 0 => parser_error'
    BY <2>2, <2>3 DEF ForceEnd, WithBudget, ParserChart
  <2>5. ~Walking /\ ~lexer_stack_top_eos
    BY <2>1 DEF Walking, RInv, IInv, EosEntryOK
  <2>6. ForcedByte(WithBudget(Unlimited)) = {} => ForcedByte(Rest) = {}
    <3> DEFINE u == WithBudget(Unlimited)
    <3>1. /\ Good(chart) /\ Coherent(chart) /\ Unbounded(Rest) /\ Twin(chart, Rest)
      BY <2>5, RestTracked
    <3>2. u = [chart EXCEPT !.budget = Unlimited]
      BY DEF WithBudget
    <3> HIDE DEF u
    <3>3. Twin(u, chart) /\ Unbounded(u)
      BY <3>1, <3>2, BudgetTwin DEF Unbounded
    <3>4. Twin(u, Rest)
      BY <3>1, <3>3, TwinTrans DEF Unbounded
    <3>5. ForcedByte(u) = ForcedByte(Rest)
      BY <3>1, <3>3, <3>4, ForcedByteSame
    <3> QED BY <3>5 DEF u
  <2>7. Rest' = Rest
    BY <2>1 DEF Rest
  <2>8. parser_error' \/ MaxBytes <= Len(bytes) \/ ForcedByte(Rest') = {}
    BY <1>1, <2>2, <2>4, <2>6, <2>7
  <2> QED BY <1>1, <2>1, <2>8 DEF ForceOK
<1>10. ASSUME ScanEos PROVE ForceOK'
  <2>1. UNCHANGED <<bytes, last_force_bytes_len>> /\ (lexer_stack_top_eos => lexer_stack_top_eos')
    BY <1>10 DEF ScanEos
  <2> QED BY <2>1, ForceKept
<1>11. ASSUME NEW n \in 0..MaxBytes, Rollback(n) PROVE ForceOK'
  <2>1. last_force_bytes_len' = Never
    BY <1>11 DEF Rollback
  <2>2. Len(bytes') \in Nat
    BY NextReplay DEF RInv, IInv, TypeOK
  <2> QED BY <2>1, <2>2, ParserAssumption DEF ForceOK
<1>12. ASSUME BeginMask \/ BeginQuery PROVE ForceOK'
  BY <1>12, ForceKept DEF BeginMask, BeginQuery, BeginWalk, tokenVars
<1>13. ASSUME NEW b \in Byte, WalkByte(b) PROVE ForceOK'
  BY <1>13, ForceKept DEF WalkByte, tokenVars
<1>14. ASSUME NEW n \in 1..MaxWalk, WalkPop(n) PROVE ForceOK'
  BY <1>14, ForceKept DEF WalkPop, tokenVars
<1>15. ASSUME WalkFlush PROVE ForceOK'
  BY <1>15, ForceKept DEF WalkFlush, tokenVars
<1>16. ASSUME WalkRestore PROVE ForceOK'
  BY <1>16, ForceKept DEF WalkRestore, tokenVars
<1>17. ASSUME WalkEnd PROVE ForceOK'
  BY <1>17, ForceKept DEF WalkEnd, tokenVars
<1>18. ASSUME UNCHANGED vars PROVE ForceOK'
  BY <1>18, ForceKept DEF vars
<1> QED
  BY <1>3, <1>4, <1>5, <1>6, <1>7, <1>8, <1>9, <1>10, <1>11, <1>12, <1>13, <1>14, <1>15,
     <1>16, <1>17, <1>18 DEF Next

(* When force_bytes() would return at once because nothing was pushed since *)
(* it last ran, there is nothing to force.                                  *)
THEOREM ForceCacheCorrect == Spec => []ForceCacheFresh
<1>1. Init => ForceOK
  <2> SUFFICES ASSUME Init PROVE ForceOK
    OBVIOUS
  <2>1. last_force_bytes_len = Never /\ bytes = <<>>
    BY DEF Init
  <2>2. Len(bytes) = 0
    BY <2>1
  <2> QED BY <2>1, <2>2, ParserAssumption DEF ForceOK
<1>2. RInv /\ ForceOK /\ [Next]_vars => ForceOK'
  BY ForceNext
<1>3. ASSUME RInv, ForceOK PROVE ForceCacheFresh
  <2> SUFFICES ASSUME Usable, ~lexer_stack_top_eos, last_force_bytes_len = Len(bytes),
                      Len(bytes) < MaxBytes
               PROVE  ForcedByte(chart) = {}
    BY DEF ForceCacheFresh
  <2>1. ~Walking /\ ~parser_error /\ mode = "idle"
    BY DEF Usable, Walking
  <2>2. /\ Good(chart) /\ Coherent(chart) /\ Unbounded(Rest) /\ Twin(chart, Rest)
        /\ Len(bytes) \in Nat
    BY <1>3, <2>1, RestTracked
  <2>3. chart.budget = Unlimited
    BY <1>3, <2>1 DEF RInv
  <2>4. ForcedByte(Rest) = {}
    BY <1>3, <2>1, <2>2, ParserAssumption DEF ForceOK
  <2> QED BY <2>2, <2>3, <2>4, ForcedByteSame DEF Unbounded
<1> QED BY <1>1, <1>2, <1>3, ReplayInvariant, PTL DEF Spec

(* Where the definitive part of the lexer stack ends, between operations    *)
(* and during a walk.                                                       *)
LEMMA DefinitiveEnd ==
  ASSUME IInv
  PROVE  /\ ~Walking => Definitive = Len(chart.lexer_stack)
                        /\ NumRows(chart) = chart.lexer_stack[Definitive].row_idx
         /\ Walking => Definitive = trie_lexer_stack
<1>1. ~Walking => NumRows(chart) = chart.lexer_stack[Len(chart.lexer_stack)].row_idx
  BY AtRest
<1> QED BY <1>1 DEF Definitive

(* row_infos: every operation adds or drops them together with the rows.    *)
LEMMA InfoNext ==
  ASSUME RInv, [Next]_vars, InfoOK
  PROVE  InfoOK'
<1> SUFFICES ASSUME ~CutOff'
             PROVE  chart'.lexer_stack[Definitive'].row_idx = Len(chart'.row_infos)
  BY DEF InfoOK
<1> DEFINE Goal == chart'.lexer_stack[Definitive'].row_idx = Len(chart'.row_infos)
<1>1. /\ ~CutOff
      /\ chart.lexer_stack[Definitive].row_idx = Len(chart.row_infos)
  BY CutOffStays DEF InfoOK
<1>2. IInv /\ IInv'
  BY NextReplay DEF RInv
<1>3. /\ ~Walking => Definitive = Len(chart.lexer_stack) /\ Exact(chart)
      /\ Walking => Definitive = trie_lexer_stack
  BY <1>1, <1>2, DefinitiveEnd DEF Exact
<1>4. ASSUME ~Walking', Exact(chart') PROVE Goal
  <2>1. Definitive' = Len(chart'.lexer_stack) /\ Good(chart')
    BY <1>2, <1>4 DEF Definitive, IInv
  <2>2. NumRows(chart') = chart'.lexer_stack[Definitive'].row_idx
    BY <2>1, TopFacts
  <2> QED BY <1>4, <2>2 DEF Exact
<1>5. ASSUME ~Walking, ~Walking', chart'.lexer_stack = chart.lexer_stack,
             chart'.row_infos = chart.row_infos
      PROVE  Goal
  BY <1>3, <1>4, <1>5 DEF Exact, NumRows, Top
<1>6. ASSUME Walking, Walking', LowKept, UNCHANGED trie_lexer_stack PROVE Goal
  <2>1. Definitive' = trie_lexer_stack
    BY <1>6 DEF Definitive
  <2>2. trie_lexer_stack \in Nat
    BY <1>2 DEF IInv, TypeOK
  <2> QED BY <1>1, <1>3, <1>6, <2>1, <2>2, InWalk DEF LowKept
<1>7. chart \in ParserChart
  BY <1>2 DEF IInv, TypeOK
<1> HIDE DEF Goal
<1>8. ASSUME NEW t \in Tokens, ApplyToken(t) PROVE Goal
  BY <1>5, <1>8 DEF ApplyToken, Usable, Walking
<1>9. ASSUME ApplyForcedByte PROVE Goal
  BY <1>5, <1>9 DEF ApplyForcedByte, Reject, Walking
<1>10. ASSUME ApplyNewByte PROVE Goal
  <2> DEFINE r == TryPushByte(chart, Head(token), TRUE, Len(bytes))
  <2>1. mode = "apply" /\ token # <<>> /\ chart' = r.chart /\ mode' \in {"apply", "idle"}
    BY <1>10 DEF ApplyNewByte, Reject
  <2>2. ~Walking /\ ~Walking' /\ ~lexer_stack_top_eos
    BY <1>2, <2>1 DEF Walking, IInv, EosEntryOK
  <2>3. Head(token) \in Byte /\ Len(bytes) \in Nat
    BY <1>2, <2>1, HeadTailProperties DEF IInv, TypeOK
  <2>4. Fit(chart, TRUE) /\ Tracked(chart) /\ chart.budget = Unlimited
    BY <2>1, <2>2, RestTracked DEF RInv
  <2>5. Exact(r.chart) \/ r.chart.budget = 0
    BY <1>3, <2>2, <2>3, <2>4, TryPushByteMore
  <2>6. r.chart.budget = Unlimited
    BY <2>3, <2>4, TwinRefused
  <2> QED BY <1>4, <2>1, <2>2, <2>5, <2>6, UnlimitedIsNotZero
<1>11. ASSUME ApplyEnd PROVE Goal
  BY <1>5, <1>11 DEF ApplyEnd, Walking
<1>12. ASSUME ForceBytes PROVE Goal
  <2>1. PICK b \in Budgets : chart' = [chart EXCEPT !.budget = b]
    BY <1>12 DEF ForceBytes
  <2>2. chart'.lexer_stack = chart.lexer_stack /\ chart'.row_infos = chart.row_infos
    BY <1>7, <2>1 DEF ParserChart
  <2> QED BY <1>5, <1>12, <2>2 DEF ForceBytes, Usable, Walking
<1>13. ASSUME ForceByte PROVE Goal
  <2>1. mode = "force" /\ ~Walking
    BY <1>13 DEF ForceByte, Walking
  <2>2. mode' = "force" /\ (Exact(chart') \/ chart'.budget = 0)
    BY <1>3, <1>13, <2>1, ForceByteMore DEF CutOff
  <2>3. ~Walking' /\ chart'.budget # 0
    BY <2>2 DEF Walking, CutOff
  <2> QED BY <1>4, <2>2, <2>3
<1>14. ASSUME ForceDone PROVE Goal
  <2>1. PICK left \in LeftAfterWalk : ForceEnd(WithBudget(left))
    BY <1>14 DEF ForceDone
  <2>2. chart'.lexer_stack = chart.lexer_stack /\ chart'.row_infos = chart.row_infos
    BY <1>7, <2>1 DEF ParserChart, ForceEnd, WithBudget
  <2>3. mode = "force" /\ mode' = "idle"
    BY <1>14, <2>1 DEF ForceDone, ForceEnd
  <2> QED BY <1>5, <2>2, <2>3 DEF Walking
<1>15. ASSUME ScanEos PROVE Goal
  <2>1. ~Walking /\ ~Walking' /\ chart' = FlushLexer(chart, TRUE, Len(bytes)).chart
    BY <1>15 DEF ScanEos, Usable, Walking
  <2>2. Fit(chart, TRUE) /\ Len(bytes) \in Nat
    BY <1>2, <2>1, AtRest DEF Fit, RInv, IInv
  <2>3. Exact(chart')
    BY <1>3, <2>1, <2>2, FlushExact
  <2> QED BY <1>4, <2>1, <2>3
<1>16. ASSUME NEW n \in 0..MaxBytes, Rollback(n) PROVE Goal
  <2> DEFINE m == applied' + 1
             d == [chart EXCEPT !.lexer_stack = SubSeq(@, 1, m)]
             infos == SubSeq(d.row_infos, 1, NumRows(d))
             e == [d EXCEPT !.row_infos = infos]
  <2>1. /\ mode = "idle" /\ mode' = mode /\ applied' = applied - n /\ n <= applied
        /\ chart' = Speculative(e)
    BY <1>16 DEF Rollback, Usable, RolledBack
  <2>2. ~Walking /\ ~Walking'
    BY <2>1 DEF Walking
  <2>3. m \in 1..Len(chart.lexer_stack)
    <3>1. /\ applied \in 0..Len(bytes) /\ Len(bytes) \in Nat
          /\ Len(chart.lexer_stack) \in Nat
          /\ Len(chart.lexer_stack) >= Len(bytes) + 1
      <4>1. Len(chart.lexer_stack) >= Len(bytes) + 1
        BY <1>2, <2>2, AtRest
      <4> QED BY <1>2, <2>2, <4>1, AtRest
    <3> QED BY <2>1, <3>1, ParserAssumption
  <2>4. Good(d) /\ NumRows(d) <= NumRows(chart) /\ d.row_infos = chart.row_infos
    BY <1>2, <2>3, TruncateFacts DEF IInv
  <2>5. /\ chart.row_infos \in Seq(Int) /\ NumRows(chart) \in Nat
        /\ NumRows(chart) <= Len(chart.row_infos)
    BY <1>2, <2>2, AtRest
  <2> HIDE DEF d
  <2>6. infos \in Seq(Int) /\ Len(infos) = NumRows(d)
    <3>1. NumRows(d) \in Nat
      BY <2>4, TopFacts
    <3>2. \A i \in 1..NumRows(d) : d.row_infos[i] \in Int
      BY <2>4, <2>5, <3>1, ElementOfSeq
    <3> QED BY <3>1, <3>2, SubSeqProperties
  <2> HIDE DEF infos
  <2>7. Good(e) /\ e.lexer_stack = d.lexer_stack /\ e.row_infos = infos
    BY <2>4, <2>6 DEF Good, ParserChart
  <2> HIDE DEF e
  <2>8. chart'.lexer_stack = d.lexer_stack /\ chart'.row_infos = infos
    BY <2>1, <2>7, SpeculativeFacts
  <2>9. Exact(chart')
    BY <2>6, <2>8 DEF Exact, NumRows, Top
  <2> QED BY <1>4, <2>2, <2>9
<1>17. ASSUME NEW m \in {"mask", "query"}, NEW b \in Nat \cup {Unlimited}, ~Walking,
              BeginWalk(m, b)
       PROVE  Goal
  <2> DEFINE d == Speculative(chart)
  <2>1. /\ mode' = m /\ chart' = [d EXCEPT !.budget = b]
        /\ trie_lexer_stack' = Len(chart.lexer_stack)
    BY <1>17 DEF BeginWalk
  <2>2. Good(d) /\ d.lexer_stack = chart.lexer_stack /\ d.row_infos = chart.row_infos
    BY <1>2, SpeculativeFacts DEF IInv
  <2> HIDE DEF d
  <2>3. chart'.lexer_stack = chart.lexer_stack /\ chart'.row_infos = chart.row_infos
    BY <2>1, <2>2, BudgetFacts
  <2>4. Definitive' = Len(chart.lexer_stack)
    BY <2>1 DEF Definitive, Walking
  <2> QED BY <1>1, <1>3, <1>17, <2>3, <2>4 DEF Goal
<1>18. ASSUME BeginMask PROVE Goal
  <2>1. PICK b \in Budgets : BeginWalk("mask", b)
    BY <1>18 DEF BeginMask
  <2>2. b \in Nat \cup {Unlimited}
    BY ParserAssumption DEF Budgets
  <2> QED BY <1>17, <1>18, <2>1, <2>2 DEF BeginMask, Usable, Walking
<1>19. ASSUME BeginQuery PROVE Goal
  BY <1>17, <1>19 DEF BeginQuery, Walking
<1>20. ASSUME NEW b \in Byte, WalkByte(b) PROVE Goal
  <2>1. Walking
    BY <1>20 DEF WalkByte, Walking
  <2> QED BY <1>2, <1>6, <1>20, <2>1, WalkByteStep
<1>21. ASSUME NEW n \in 1..MaxWalk, WalkPop(n) PROVE Goal
  <2>1. Walking
    BY <1>21 DEF WalkPop, Walking
  <2> QED BY <1>2, <1>6, <1>21, <2>1, WalkPopStep
<1>22. ASSUME WalkFlush PROVE Goal
  <2>1. Walking
    BY <1>22 DEF WalkFlush, Walking
  <2> QED BY <1>2, <1>6, <1>22, <2>1, WalkFlushStep
<1>23. ASSUME WalkRestore PROVE Goal
  <2>1. Walking
    BY <1>23 DEF WalkRestore, Walking
  <2> QED BY <1>2, <1>6, <1>23, <2>1, WalkRestoreStep
<1>24. ASSUME WalkEnd PROVE Goal
  <2>1. ~Walking' /\ LowKept /\ Len(chart'.lexer_stack) = trie_lexer_stack
    BY <1>2, <1>24, WalkEndStep
  <2>2. Walking
    BY <1>24 DEF WalkEnd
  <2>3. Definitive' = trie_lexer_stack /\ trie_lexer_stack \in 1..trie_lexer_stack
    BY <1>2, <2>1, <2>2, InWalk DEF Definitive
  <2> QED BY <1>1, <1>3, <2>1, <2>2, <2>3 DEF Goal, LowKept
<1>25. ASSUME UNCHANGED vars PROVE Goal
  BY <1>1, <1>25 DEF vars, Definitive, Walking, Goal
<1>26. Goal
  BY <1>8, <1>9, <1>10, <1>11, <1>12, <1>13, <1>14, <1>15, <1>16, <1>18, <1>19, <1>20,
     <1>21, <1>22, <1>23, <1>24, <1>25 DEF Next
<1> QED BY <1>26 DEF Goal

(* As long as the item limit has not been exceeded, every operation leaves  *)
(* as many row_infos as there are rows: nothing is left over of a row that  *)
(* advance_parser() began and gave up, of a walk or of a rollback.          *)
THEOREM RowInfosInStep == Spec => [](parser_error \/ RowInfosMatchRows)
<1>1. Init => InfoOK
  <2> SUFFICES ASSUME Init PROVE InfoOK
    OBVIOUS
  <2>1. chart = NewChart /\ Definitive = Len(chart.lexer_stack)
    BY DEF Init, Definitive, Walking
  <2> QED BY <2>1, InitialChartFacts DEF InfoOK
<1>2. RInv /\ InfoOK /\ [Next]_vars => InfoOK'
  BY InfoNext
<1>3. RInv /\ InfoOK => parser_error \/ RowInfosMatchRows
  <2> SUFFICES ASSUME RInv, InfoOK, ~parser_error, mode = "idle"
               PROVE  NumRows(chart) = Len(chart.row_infos)
    BY DEF RowInfosMatchRows
  <2>1. ~Walking /\ ~CutOff
    BY DEF Walking, CutOff
  <2> QED BY <2>1, DefinitiveEnd DEF InfoOK, RInv
<1> QED BY <1>1, <1>2, <1>3, ReplayInvariant, PTL DEF Spec

-----------------------------------------------------------------------------
(* Where no step can exceed the item limit, parser_error is never set.      *)
NoLimit == chart.budget = Unlimited /\ ~parser_error

(* The limit comes from Budgets only, and adding rows does not set one.     *)
LEMMA NoLimitNext ==
  ASSUME StepMaxRows = 0, RInv, [Next]_vars, NoLimit
  PROVE  NoLimit'
<1>1. /\ chart \in ParserChart /\ Len(bytes) \in Nat /\ IInv /\ Budgets = {Unlimited}
      /\ chart.budget = Unlimited /\ ~parser_error /\ LeftAfterWalk = {Unlimited}
  BY DEF RInv, IInv, TypeOK, Budgets, NoLimit, LeftAfterWalk
<1>2. mode' \notin {"force", "mask"} => chart'.budget = Unlimited
  BY NextReplay DEF RInv
<1>3. ASSUME mode' \notin {"force", "mask"}, UNCHANGED parser_error PROVE NoLimit'
  BY <1>1, <1>2, <1>3 DEF NoLimit
<1>4. ASSUME UNCHANGED <<chart, parser_error>> PROVE NoLimit'
  BY <1>1, <1>4 DEF NoLimit
<1>5. CASE (\E t \in Tokens : ApplyToken(t)) \/ UNCHANGED vars
  BY <1>4, <1>5 DEF ApplyToken, vars
<1>6. CASE ApplyForcedByte
  BY <1>4, <1>6 DEF ApplyForcedByte
<1>7. CASE ApplyNewByte
  BY <1>3, <1>7 DEF ApplyNewByte, Reject
<1>8. CASE ApplyEnd
  BY <1>4, <1>8 DEF ApplyEnd
<1>9. CASE ForceBytes
  BY <1>1, <1>9 DEF ForceBytes, NoLimit, ParserChart
<1>10. CASE ForceByte
  <2>1. PICK b \in ForcedCandidates(Unlimited) :
          LET r == TryPushByte(WithBudget(Unlimited), b, TRUE, Len(bytes)) IN
          IF r.ok THEN chart' = r.chart /\ UNCHANGED parser_error
          ELSE ForceEnd(r.chart)
    BY <1>1, <1>10 DEF ForceByte
  <2> DEFINE u == WithBudget(Unlimited)
             r == TryPushByte(u, b, TRUE, Len(bytes))
  <2>2. b \in Byte /\ u = [chart EXCEPT !.budget = Unlimited]
    BY ForcedCandidatesType DEF WithBudget
  <2>3. ~Walking /\ ~lexer_stack_top_eos
    BY <1>1, <1>10 DEF ForceByte, Walking, IInv, EosEntryOK
  <2>4. Fit(chart, TRUE)
    BY <2>3, RestTracked
  <2> HIDE DEF u
  <2>5. Fit(u, TRUE) /\ u.budget = Unlimited
    BY <2>2, <2>4, BudgetTwin DEF Fit
  <2>6. r.chart.budget = Unlimited
    <3>1. b \in Byte /\ Len(bytes) \in Nat
      BY <1>1, <2>2
    <3> QED BY <2>5, <3>1, TwinRefused
  <2>7. r.ok => NoLimit'
    BY <1>1, <2>1, <2>6 DEF NoLimit, u
  <2>8. ~r.ok => ForceEnd(r.chart)
    BY <2>1 DEF u
  <2>9. r.chart \in ParserChart
    BY <1>1, <2>2, <2>5, TwinRefused DEF Fit, Good
  <2> HIDE DEF r
  <2>10. ForceEnd(r.chart) => NoLimit'
    BY <1>1, <2>6, <2>9, UnlimitedIsNotZero DEF ForceEnd, NoLimit, ParserChart
  <2> QED BY <2>7, <2>8, <2>10
<1>11. CASE ForceDone
  <2>1. ForceEnd(WithBudget(Unlimited))
    BY <1>1, <1>11 DEF ForceDone
  <2> QED BY <1>1, <2>1, UnlimitedIsNotZero DEF ForceEnd, WithBudget, NoLimit, ParserChart
<1>12. CASE ScanEos
  BY <1>3, <1>12 DEF ScanEos, Usable
<1>13. CASE \E n \in 0..MaxBytes : Rollback(n)
  BY <1>3, <1>13 DEF Rollback, Usable
<1>14. ASSUME NEW m, NEW b \in {Unlimited}, BeginWalk(m, b) PROVE NoLimit'
  <2>1. Speculative(chart) \in ParserChart
    BY <1>1, SpeculativeFacts DEF IInv, Good
  <2> QED BY <1>1, <1>14, <2>1 DEF BeginWalk, NoLimit, ParserChart
<1>15. CASE BeginMask
  BY <1>1, <1>14, <1>15 DEF BeginMask
<1>16. CASE BeginQuery
  BY <1>14, <1>16 DEF BeginQuery
<1>17. ASSUME NEW b \in Byte, WalkByte(b) PROVE NoLimit'
  <2> DEFINE r == TryPushByte(chart, b, FALSE, 0)
  <2>1. Walking /\ chart' = r.chart /\ UNCHANGED parser_error
    BY <1>17 DEF WalkByte, Walking
  <2>2. Fit(chart, FALSE) /\ chart.budget = Unlimited
    BY <1>1, <2>1, WalkFacts
  <2>3. r.chart.budget = Unlimited
    BY <2>2, TwinRefused
  <2> QED BY <1>1, <2>1, <2>3 DEF NoLimit
<1>18. CASE \E n \in 1..MaxWalk : WalkPop(n)
  BY <1>1, <1>18 DEF WalkPop, PopLexerStates, NoLimit, ParserChart
<1>19. CASE WalkFlush
  BY <1>3, <1>19 DEF WalkFlush
<1>20. CASE WalkRestore
  BY <1>3, <1>20 DEF WalkRestore
<1>21. CASE WalkEnd
  BY <1>1, <1>2, <1>21, UnlimitedIsNotZero DEF WalkEnd, NoLimit
<1> QED BY <1>5, <1>6, <1>7, <1>8, <1>9, <1>10, <1>11, <1>12, <1>13, <1>15, <1>16, <1>17,
           <1>18, <1>19, <1>20, <1>21 DEF Next

(* Without an item limit in reach there are always as many row_infos as     *)
(* rows when an operation begins or ends.                                   *)
THEOREM RowInfosAlwaysInStep == StepMaxRows = 0 => (Spec => []RowInfosMatchRows)
<1> SUFFICES ASSUME StepMaxRows = 0 PROVE Spec => []RowInfosMatchRows
  OBVIOUS
<1>1. Init => NoLimit
  BY DEF Init, NoLimit, NewChart
<1>2. RInv /\ NoLimit /\ [Next]_vars => NoLimit'
  BY NoLimitNext
<1>3. NoLimit /\ (parser_error \/ RowInfosMatchRows) => RowInfosMatchRows
  BY DEF NoLimit
<1> QED BY <1>1, <1>2, <1>3, ReplayInvariant, RowInfosInStep, PTL DEF Spec

-----------------------------------------------------------------------------
(* No lexeme that ends is left behind in the lexer, with or without an end  *)
(* of sequence: forced_byte() can always ask what comes next.               *)
THEOREM LexemesNoticed ==
  ASSUME NoHastyLexeme
  PROVE  Spec => []NoLexemeLeftBehind
<1>1. ASSUME RInv, ~Walking PROVE ~HasLowestMatch(Top(chart).lexer_state)
  <2> DEFINE f == Fresh(bytes).chart
  <2>1. IInv /\ Fresh(bytes).ok /\ Twin(chart, Rest)
    BY <1>1 DEF RInv
  <2>2. /\ bytes \in Seq(Byte) /\ Len(bytes) \in Nat
        /\ Fit(Rest, TRUE) /\ Fit(f, TRUE) /\ Good(chart)
    BY <2>1, RestFacts
  <2>3. NoneLeft(f)
    BY <2>1, <2>2, FreshTop
  <2>4. NoneLeft(Rest)
    <3>1. CASE lexer_stack_top_eos
      <4>1. Rest = FlushLexer(f, TRUE, Len(bytes)).chart
        BY <3>1 DEF Rest, Definite
      <4> QED BY <2>2, <2>3, <4>1, FlushLexerTop
    <3>2. CASE ~lexer_stack_top_eos
      BY <2>3, <3>2 DEF Rest, Definite
    <3> QED BY <3>1, <3>2
  <2> HIDE DEF f
  <2>5. Good(Rest)
    BY <2>2 DEF Fit
  <2>6. Alike(chart, Rest)
    BY <2>1, <2>2, <2>5, ExtendsTwin DEF Twin
  <2> QED BY <2>4, <2>6 DEF Alike, NoneLeft
<1>2. RInv => NoLexemeLeftBehind
  BY <1>1 DEF NoLexemeLeftBehind, NextBytePanics, Usable, Walking
<1> QED BY <1>2, ReplayInvariant, PTL
=============================================================================
