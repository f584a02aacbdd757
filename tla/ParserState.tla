---------------------------- MODULE ParserState -----------------------------
(***************************************************************************)
(* ParserState (parser/src/earley/parser.rs) as a state machine: tokens    *)
(* are applied byte by byte, bytes are forced, the token trie is walked    *)
(* speculatively to compute a mask or answer a query, an end-of-sequence   *)
(* token ends the current lexeme, and bytes are rolled back.               *)
(* The grammars are those for which LexerSpec::can_rollback() holds.       *)
(***************************************************************************)
EXTENDS Chart

CONSTANTS
  Tokens,        \* the token vocabulary: non-empty sequences of bytes
  MaxItemsInRow, \* ParserLimits::max_items_in_row
  StepMaxRows,   \* rows that fit in step_max_items; 0 for "no limit in reach"
  RollbackUsed,  \* does the client roll back?
  EosUsed,       \* does the client consume end-of-sequence tokens?
  Never,         \* usize::MAX in last_force_bytes_len
  NoCache,       \* None in bias_cache
  MaxBytes,      \* bound: bytes pushed definitively
  MaxWalk        \* bound: depth of a walk of the token trie

ASSUME ParserAssumption ==
  /\ Tokens \subseteq Seq(Byte) \ {<<>>}
  /\ Never \notin Nat
  /\ {MaxItemsInRow, StepMaxRows, MaxBytes, MaxWalk} \subseteq Nat
  /\ {AllowInitialSkip, RollbackUsed, EosUsed} \subseteq BOOLEAN

VARIABLES
  chart,                \* lexer_stack, rows, rows_valid_end, row_infos, budget
  bytes,                \* the bytes pushed definitively
  applied,              \* byte_to_token_idx.len(): bytes covered by tokens
  lexer_stack_top_eos,  \* is the top of the lexer stack the entry of scan_eos()?
  trie_lexer_stack,     \* height of the lexer stack when the walk started
  last_force_bytes_len, \* bytes.len() when force_bytes() last returned
  parser_error,         \* was the item limit exceeded?
  failed,               \* did apply_token() return an error?
  bias_cache,           \* the last mask and what it was computed for
  mode,                 \* what runs: see Mode
  token,                \* the bytes of the token still to be applied
  path                  \* the bytes of the current node of the trie walk

vars == <<chart, bytes, applied, lexer_stack_top_eos, trie_lexer_stack,
          last_force_bytes_len, parser_error, failed, bias_cache, mode, token, path>>
tokenVars == <<bytes, applied, lexer_stack_top_eos, last_force_bytes_len, failed, token>>
walkVars  == <<trie_lexer_stack, path>>

(* "mask" and "query" are walks, "flushed" a query after flush_lexer().     *)
Mode == {"idle", "apply", "force", "mask", "query", "flushed"}
Walking == mode \in {"mask", "query", "flushed"}
Usable == mode = "idle" /\ ~failed /\ ~parser_error
Budgets == IF StepMaxRows = 0 THEN {Unlimited} ELSE 1..StepMaxRows

BiasKeyOfLexer(c) == Top(c).lexer_state  \* variant: the row is not compared

BiasKey(c) == [lexer_state |-> Top(c).lexer_state, row_idx |-> NumRows(c),
               has_pending_lexeme_bytes |-> HasPendingLexemeBytes(c)]
CacheHit ==
  IF bias_cache = NoCache THEN FALSE ELSE bias_cache.key = BiasKey(chart)
Mask(c) == {t \in Tokens : Allows([c EXCEPT !.budget = Unlimited], t)}

Init ==
  /\ chart = NewChart
  /\ bytes = <<>> /\ applied = 0 /\ token = <<>> /\ path = <<>>
  /\ lexer_stack_top_eos = FALSE
  /\ trie_lexer_stack = 0
  /\ last_force_bytes_len = Never
  /\ parser_error = FALSE /\ failed = FALSE
  /\ bias_cache = NoCache
  /\ mode = "idle"

-----------------------------------------------------------------------------
(* apply_token(): begins, takes the bytes one by one, ends.  A byte that was *)
(* forced already is only compared.                                         *)

ApplyToken(t) ==
  /\ Usable /\ ~lexer_stack_top_eos
  /\ applied + Len(t) <= MaxBytes
  /\ token' = t /\ mode' = "apply"
  /\ UNCHANGED <<chart, bytes, applied, lexer_stack_top_eos, last_force_bytes_len,
                 parser_error, failed, bias_cache, walkVars>>

Reject == failed' = TRUE /\ mode' = "idle" /\ token' = <<>>

ApplyForcedByte ==
  /\ mode = "apply" /\ token # <<>> /\ applied < Len(bytes)
  /\ IF bytes[applied + 1] = Head(token)
     THEN applied' = applied + 1 /\ token' = Tail(token) /\ UNCHANGED <<mode, failed>>
     ELSE Reject /\ UNCHANGED applied
  /\ UNCHANGED <<chart, bytes, lexer_stack_top_eos, last_force_bytes_len,
                 parser_error, bias_cache, walkVars>>

ApplyNewByte ==
  /\ mode = "apply" /\ token # <<>> /\ applied = Len(bytes)
  /\ LET r == TryPushByte(chart, Head(token), TRUE, Len(bytes)) IN
     /\ chart' = r.chart
     /\ IF r.ok
        THEN /\ bytes' = Append(bytes, Head(token))
             /\ applied' = applied + 1 /\ token' = Tail(token)
             /\ UNCHANGED <<mode, failed>>
        ELSE Reject /\ UNCHANGED <<bytes, applied>>
  /\ UNCHANGED <<lexer_stack_top_eos, last_force_bytes_len, parser_error,
                 bias_cache, walkVars>>

ApplyEnd ==
  /\ mode = "apply" /\ token = <<>>
  /\ mode' = "idle"
  /\ failed' = (Cardinality(CurrRow(chart).items) > MaxItemsInRow)
  /\ UNCHANGED <<chart, bytes, applied, lexer_stack_top_eos, last_force_bytes_len,
                 parser_error, bias_cache, token, walkVars>>

-----------------------------------------------------------------------------
(* force_bytes(), under the item limit.  While forced_byte() walks it uses  *)
(* up part of the budget; when nothing is left, some of its attempts failed *)
(* for that reason, and any byte it had found may look like the only one.   *)

ForceBytes ==
  /\ Usable /\ ~lexer_stack_top_eos
  /\ last_force_bytes_len # Len(bytes)
  /\ \E b \in Budgets : chart' = [chart EXCEPT !.budget = b]
  /\ mode' = "force"
  /\ UNCHANGED <<tokenVars, parser_error, bias_cache, walkVars>>

WithBudget(left) == [chart EXCEPT !.budget = left]
LeftAfterWalk == IF chart.budget = Unlimited THEN {Unlimited} ELSE 0..chart.budget
ForcedCandidates(left) ==
  IF left = 0 THEN AllowedBytes(WithBudget(Unlimited))
              ELSE ForcedByte(WithBudget(Unlimited))

ForceEnd(c) ==
  /\ mode' = "idle"
  /\ chart' = [c EXCEPT !.budget = Unlimited]
  /\ parser_error' = (parser_error \/ c.budget = 0)
  /\ last_force_bytes_len' = Len(bytes)

ForceByte ==
  /\ mode = "force" /\ Len(bytes) < MaxBytes
  /\ \E left \in LeftAfterWalk : \E b \in ForcedCandidates(left) :
       LET r == TryPushByte(WithBudget(left), b, TRUE, Len(bytes)) IN
       IF r.ok
       THEN /\ chart' = r.chart /\ bytes' = Append(bytes, b)
            /\ UNCHANGED <<mode, parser_error, last_force_bytes_len>>
       ELSE ForceEnd(r.chart) /\ UNCHANGED bytes
  /\ UNCHANGED <<applied, lexer_stack_top_eos, failed, token, bias_cache, walkVars>>

ForceDone ==
  /\ mode = "force"
  /\ \E left \in LeftAfterWalk :
       /\ left = 0 \/ ForcedByte(WithBudget(Unlimited)) = {} \/ Len(bytes) = MaxBytes
       /\ ForceEnd(WithBudget(left))
  /\ UNCHANGED <<bytes, applied, lexer_stack_top_eos, failed, token, bias_cache, walkVars>>
-----------------------------------------------------------------------------
(* scan_eos(), as TokenParser::consume_token() calls it for an end-of-      *)
(* sequence token: the current lexeme ends here.  If the grammar does not   *)
(* accept then, the token is applied as bytes no lexeme has, and fails.     *)
ScanEos ==
  /\ EosUsed /\ Usable
  /\ LET flushed == FlushLexer(chart, TRUE, Len(bytes))
         grew == Len(flushed.chart.lexer_stack) # Len(chart.lexer_stack)
     IN /\ chart' = flushed.chart
        /\ lexer_stack_top_eos' = (lexer_stack_top_eos \/ (flushed.ok /\ grew))
        /\ failed' = ~(applied = Len(bytes) /\ IsAccepting(flushed.chart))
  /\ UNCHANGED <<bytes, applied, last_force_bytes_len, parser_error, bias_cache,
                 mode, token, walkVars>>

(* rollback(): drops the last n applied bytes, and all forced bytes.        *)
RollbackKeepsForced(n) ==  \* variant: force_bytes() is not told
  /\ RollbackUsed /\ Usable /\ n <= applied
  /\ applied' = applied - n
  /\ bytes' = SubSeq(bytes, 1, applied')
  /\ chart' = RolledBack(chart, applied')
  /\ lexer_stack_top_eos' = FALSE
  /\ UNCHANGED <<last_force_bytes_len, parser_error, failed, bias_cache, mode, token, walkVars>>
RollbackKeepsApplied(n) ==  \* variant: byte_to_token_idx is not truncated
  /\ RollbackUsed /\ Usable /\ n <= applied
  /\ bytes' = SubSeq(bytes, 1, applied - n)
  /\ chart' = RolledBack(chart, applied - n)
  /\ last_force_bytes_len' = Never
  /\ lexer_stack_top_eos' = FALSE
  /\ UNCHANGED <<applied, parser_error, failed, bias_cache, mode, token, walkVars>>

Rollback(n) ==
  /\ RollbackUsed /\ Usable /\ n <= applied
  /\ applied' = applied - n
  /\ bytes' = SubSeq(bytes, 1, applied')
  /\ chart' = RolledBack(chart, applied')
  /\ last_force_bytes_len' = Never
  /\ lexer_stack_top_eos' = FALSE
  /\ UNCHANGED <<parser_error, failed, bias_cache, mode, token, walkVars>>

-----------------------------------------------------------------------------
(* Walks.  A mask is computed under the item limit, with an empty start     *)
(* prefix (no forced bytes are pending); the queries is_accepting() and     *)
(* validate_tokens() have no limit, and run after an error too.  On a hit   *)
(* in bias_cache no walk takes place: see BiasCacheFresh.                   *)

BeginWalk(m, budget) ==
  /\ mode' = m
  /\ chart' = [Speculative(chart) EXCEPT !.budget = budget]
  /\ trie_lexer_stack' = Len(chart.lexer_stack)
  /\ path' = <<>>
  /\ UNCHANGED <<tokenVars, parser_error, bias_cache>>

BeginMask ==
  /\ Usable /\ applied = Len(bytes)
  /\ ~CacheHit
  /\ \E b \in Budgets : BeginWalk("mask", b)

BeginQuery ==
  /\ mode = "idle"
  /\ BeginWalk("query", Unlimited)

WalkByte(b) ==
  /\ mode \in {"mask", "query"} /\ Len(path) < MaxWalk
  /\ LET r == TryPushByte(chart, b, FALSE, 0) IN
     /\ chart' = r.chart
     /\ path' = IF r.ok THEN Append(path, b) ELSE path
  /\ UNCHANGED <<tokenVars, trie_lexer_stack, parser_error, bias_cache, mode>>

(* pop_bytes(): the walker pops no more than it pushed.                     *)
WalkPop(n) ==
  /\ mode \in {"mask", "query"} /\ n <= Len(path)
  /\ chart' = PopLexerStates(chart, n)
  /\ path' = SubSeq(path, 1, Len(path) - n)
  /\ UNCHANGED <<tokenVars, trie_lexer_stack, parser_error, bias_cache, mode>>

WalkFlush ==
  /\ mode = "query"
  /\ LET flushed == FlushLexer(chart, FALSE, 0) IN
     /\ flushed.ok
     /\ chart' = flushed.chart
  /\ mode' = "flushed"
  /\ UNCHANGED <<tokenVars, walkVars, parser_error, bias_cache>>

(* restore_state() in validate_tokens(), after no numeric token was found.  *)
WalkRestore ==
  /\ mode = "flushed"
  /\ chart' = [chart EXCEPT
                 !.lexer_stack = SubSeq(@, 1, trie_lexer_stack + Len(path))]
  /\ mode' = "query"
  /\ UNCHANGED <<tokenVars, walkVars, parser_error, bias_cache>>

(* trie_finished_inner(); a mask is then cached together with its key.      *)
WalkEnd ==
  /\ Walking
  /\ LET c == Speculative([chart EXCEPT !.budget = Unlimited,
                             !.lexer_stack = SubSeq(@, 1, trie_lexer_stack)])
         cut == chart.budget = 0
     IN /\ chart' = c
        /\ parser_error' = (parser_error \/ cut)
        /\ bias_cache' = IF mode = "mask"
                         THEN [key |-> BiasKey(c), mask |-> IF cut THEN {} ELSE Mask(c)]
                         ELSE bias_cache
  /\ mode' = "idle" /\ path' = <<>> /\ trie_lexer_stack' = 0
  /\ UNCHANGED tokenVars

Next ==
  \/ \E t \in Tokens : ApplyToken(t)
  \/ ApplyForcedByte \/ ApplyNewByte \/ ApplyEnd
  \/ ForceBytes \/ ForceByte \/ ForceDone
  \/ ScanEos
  \/ \E n \in 0..MaxBytes : Rollback(n)
  \/ BeginMask \/ BeginQuery
  \/ \E b \in Byte : WalkByte(b)
  \/ \E n \in 1..MaxWalk : WalkPop(n)
  \/ WalkFlush \/ WalkRestore \/ WalkEnd

Spec == Init /\ [][Next]_vars
-----------------------------------------------------------------------------
TypeOK ==
  /\ chart \in ParserChart
  /\ bytes \in Seq(Byte) /\ token \in Seq(Byte) /\ path \in Seq(Byte)
  /\ applied \in 0..Len(bytes)
  /\ {lexer_stack_top_eos, parser_error, failed} \subseteq BOOLEAN
  /\ trie_lexer_stack \in Nat
  /\ last_force_bytes_len \in Nat \cup {Never}
  /\ mode \in Mode

(* The state a parser fresh from new() is in after the same bytes, pushed   *)
(* one by one.                                                              *)
Replay == PushAll(NewChart, bytes, TRUE, 0).chart
Straight ==
  LET now == IF lexer_stack_top_eos
             THEN FlushLexer(Replay, TRUE, Len(bytes)).chart ELSE Replay
      there == IF Walking THEN PushAll(Speculative(now), path, FALSE, 0).chart ELSE now
  IN  IF mode = "flushed" THEN FlushLexer(there, FALSE, 0).chart ELSE there

SameParse(c, d) ==
  /\ c.lexer_stack = d.lexer_stack
  /\ \A k \in 1..NumRows(d) :
       /\ c.rows[k].items = d.rows[k].items
       /\ c.rows[k].lexer_start_state = d.rows[k].lexer_start_state

(* After any mix of tokens, forced bytes, walks, an end of sequence and     *)
(* rollbacks, the stacks and the Earley rows are those of a fresh parser    *)
(* that was given the same bytes; during a walk, the bytes of the path      *)
(* after them.  Walks share physical rows between branches and leave rows   *)
(* behind, and rollback only truncates: none of it may show.                *)
ChartIsReplay == SameParse(chart, Straight)

(* check_lexer_bytes_invariant(): outside walks the lexer stack has an entry *)
(* for every byte pushed, one below them, and one on top if scan_eos() left *)
(* it there; also when a token has just been rejected half-way.             *)
LexerBytesInvariant ==
  ~Walking =>
    Len(chart.lexer_stack) = Len(bytes) + (IF lexer_stack_top_eos THEN 2 ELSE 1)

(* assert_definitive_inner(): every operation begins and ends with as many  *)
(* row_infos as rows, whatever was cut short by an error or the item limit. *)
RowInfosMatchRows == mode = "idle" => NumRows(chart) = Len(chart.row_infos)

(* A walk leaves no trace: from its start to its end the definitive part of *)
(* the lexer stack, its rows and row_infos stay as they were, and at its    *)
(* end the stack is back at its old height.                                 *)
WalkLeavesNoTrace ==
  [][Walking =>
       LET low == IF Walking' THEN trie_lexer_stack ELSE Len(chart'.lexer_stack) IN
       /\ low = trie_lexer_stack
       /\ SubSeq(chart'.lexer_stack, 1, low) = SubSeq(chart.lexer_stack, 1, low)
       /\ \A k \in 1..chart.lexer_stack[low].row_idx : chart'.rows[k] = chart.rows[k]
       /\ chart'.row_infos = chart.row_infos]_vars

(* A row that may be re-used holds what a scan would compute from the rows  *)
(* under it, for the lexeme it is labelled with.                            *)
ValidRowsAreCoherent ==
  \A k \in 2..chart.rows_valid_end :
    LET below == [chart EXCEPT
          !.lexer_stack = <<Entry(k - 1, DEAD, NoByte)>>]
        row == chart.rows[k]
    IN  ScannedRow(below, row.lexeme_idx) = row

(* A mask served from bias_cache is the mask of the current state.          *)
BiasCacheFresh ==
  /\ Usable /\ applied = Len(bytes)
  /\ CacheHit
  => bias_cache.mask = Mask(chart)

(* When force_bytes() would return at once, there is nothing to force.      *)
ForceCacheFresh ==
  Usable /\ ~lexer_stack_top_eos /\ last_force_bytes_len = Len(bytes) /\ Len(bytes) < MaxBytes
  => ForcedByte(chart) = {}

(* Unless the item limit was exceeded, a byte forced and not yet covered by *)
(* a token was the only byte the grammar allowed there, and stopping there  *)
(* was not allowed.                                                         *)
ForcedBytesAreForced ==
  Usable =>
    \A i \in (applied + 1)..Len(bytes) :
      LET before == PushAll(NewChart, SubSeq(bytes, 1, i - 1), TRUE, 0).chart
      IN  AllowedBytes(before) = {bytes[i]} /\ ~IsAccepting(before)

(* Lexer::next_byte() asserts "there should be no transition from a state   *)
(* with a lazy match - it should have generated a lexeme"; forced_byte()    *)
(* asks it wherever the parser does not accept.                             *)
NoLexemeLeftBehind ==
  Usable /\ ~IsAccepting(chart) => ~NextBytePanics(Top(chart).lexer_state)
=============================================================================
