------------------------------ MODULE Matcher -------------------------------
(***************************************************************************)
(* Matcher (parser/src/matcher.rs) over TokenParser (tokenparser.rs) over  *)
(* the parser of Chart: one session as a server drives it, one action per  *)
(* call.  Every call of the client runs to its end with exclusive access.  *)
(* The item limit, which ParserState has, is left out; so are prompts      *)
(* (start_without_prompt() is used) and backtracking.                      *)
(***************************************************************************)
EXTENDS Words

CONSTANTS
  Tokens,         \* the tokens, as sequences of bytes
  EOS,            \* the end-of-sequence token
  MaxTokensTotal, \* TopLevelGrammar::max_tokens
  MaxTokenLookback, \* max_token_lookback of chop_tokens(): 4
  Batches,        \* the token sequences a client passes in one call
  MaxBytes,       \* bound: no byte is forced beyond a text of this length
  Never,          \* usize::MAX in last_force_bytes_len
  None,           \* None of an Option
  MatcherError    \* MatcherState::Error: the session is gone

FfTokens == [tokens : Seq(Tokens), prefix : Seq(Byte)]

(* The last mask, and where the parser was.  The code has no text: it is    *)
(* kept here to state when a mask is not served where it was computed.      *)
BiasCache ==
  [key : [lexer_state : StateID, row_idx : Nat, has_pending_lexeme_bytes : BOOLEAN],
   mask : SUBSET Tokens, text : Seq(Byte)]

ASSUME MatcherAssumption ==
  /\ Tokens \subseteq Seq(Byte) \ {<<>>} /\ Tokens # {} /\ IsFiniteSet(Tokens)
  /\ EOS \notin Tokens
  /\ Batches \subseteq Seq(Tokens \cup {EOS})
  /\ {MaxTokensTotal, MaxTokenLookback, MaxBytes} \subseteq Nat
  /\ Never \notin Nat /\ None \notin BOOLEAN \cup FfTokens \cup BiasCache

VARIABLES
  session,    \* the TokenParser with its parser, or MatcherError
  bias_cache, \* the parser's bias_cache: the last mask, or None
  reply       \* the last call with its arguments, and its result

vars == <<session, bias_cache, reply>>

StopReason == {"NotStopped", "NoExtension", "EndOfSentence"}
(* What session is one of, or MatcherError.                                 *)
TokenParser ==
  [chart : ParserChart, bytes : Seq(Byte), applied : Nat,
   lexer_stack_top_eos : BOOLEAN, last_force_bytes_len : Nat \cup {Never},
   llm_tokens : Seq(Tokens \cup {EOS}), max_tokens_total : 0..MaxTokensTotal,
   stop_reason : StopReason, is_accepting_cache : BOOLEAN \cup {None},
   ff_tokens_cache : FfTokens \cup {None},
   tokenize_is_canonical : BOOLEAN]
ASSUME SessionAssumption == MatcherError \notin TokenParser

NewTokenParser(canonical) ==
  [chart |-> NewChart, bytes |-> <<>>, applied |-> 0,
   lexer_stack_top_eos |-> FALSE, last_force_bytes_len |-> Never,
   llm_tokens |-> <<>>, max_tokens_total |-> MaxTokensTotal,
   stop_reason |-> "NotStopped", is_accepting_cache |-> None,
   ff_tokens_cache |-> None, tokenize_is_canonical |-> canonical]

(* A call that returns an error leaves MatcherError in place of the token   *)
(* parser.                                                                  *)
Stopped(p) == p.stop_reason # "NotStopped"
ClearCaches(p) == [p EXCEPT !.is_accepting_cache = None, !.ff_tokens_cache = None]
-----------------------------------------------------------------------------
(* The parser's own calls, on bytes.                                        *)

ForcedBytes(p) == SubSeq(p.bytes, p.applied + 1, Len(p.bytes))
PushForced(q, r, b) ==
  IF r.ok THEN [q EXCEPT !.chart = r.chart, !.bytes = Append(@, b)] ELSE q
ForceOne(q, forced) ==
  IF forced = {} THEN q
  ELSE LET b == CHOOSE x \in forced : TRUE
       IN  PushForced(q, TryPushByte(q.chart, b, TRUE, Len(q.bytes)), b)
Room(p) == IF Len(p.bytes) < MaxBytes THEN MaxBytes - Len(p.bytes) ELSE 0
ForcedUpTo(p) ==
  LET after[k \in 0..Room(p)] ==
        IF k = 0 THEN p
        ELSE LET q == after[k - 1] IN ForceOne(q, ForcedByte(q.chart))
  IN  after
ForcedAll(q) == [q EXCEPT !.last_force_bytes_len = Len(q.bytes)]
ForceBytes(p) ==
  IF p.last_force_bytes_len = Len(p.bytes) THEN p
  ELSE ForcedAll(ForcedUpTo(p)[Room(p)])

ApplyNewByte(p, r, b) ==
  IF r.ok THEN [p EXCEPT !.chart = r.chart, !.bytes = Append(@, b), !.applied = @ + 1]
          ELSE MatcherError
ApplyByte(p, b) ==
  IF p.applied < Len(p.bytes)
  THEN IF p.bytes[p.applied + 1] = b THEN [p EXCEPT !.applied = @ + 1] ELSE MatcherError
  ELSE ApplyNewByte(p, TryPushByte(p.chart, b, TRUE, Len(p.bytes)), b)
AppliedUpTo(p, bs) ==
  LET after[k \in 0..Len(bs)] ==
        IF k = 0 THEN p
        ELSE LET q == after[k - 1]
             IN  IF q = MatcherError THEN q ELSE ApplyByte(q, bs[k])
  IN  after

(* scan_eos() ends the lexeme.  Its closing assertion (the invariant on the *)
(* lexer stack) panics when an earlier end of sequence still has an entry.  *)
EndLexeme(p, flushed) ==
  LET grew == flushed.ok /\ Len(flushed.chart.lexer_stack) # Len(p.chart.lexer_stack)
  IN  IF grew /\ p.lexer_stack_top_eos THEN MatcherError
      ELSE [p EXCEPT !.chart = flushed.chart, !.lexer_stack_top_eos = @ \/ grew]
ScanEos(p) == EndLexeme(p, FlushLexer(p.chart, TRUE, Len(p.bytes)))

(* validate_tokens() of one token.                                          *)
Validates(p, t) ==
  LET forced == ForcedBytes(p) IN
  IF t = EOS THEN forced = <<>> /\ IsAccepting(p.chart)
  ELSE IF Len(t) <= Len(forced) THEN IsPrefix(t, forced)
  ELSE IsPrefix(forced, t) /\ Allows(p.chart, SubSeq(t, Len(forced) + 1, Len(t)))
-----------------------------------------------------------------------------
(* is_accepting(), cached.                                                  *)
Accepting(p) ==
  IF p.is_accepting_cache # None THEN p.is_accepting_cache
  ELSE ForcedBytes(p) = <<>> /\ IsAccepting(p.chart)
WithAccepting(p) == [p EXCEPT !.is_accepting_cache = Accepting(p)]

(* greedy_tokenize(): the longest token at each place; a byte no token      *)
(* begins with is passed over.                                              *)
TokensAt(bs, i) == {t \in Tokens : IsPrefix(t, SubSeq(bs, i, Len(bs)))}
Longest(ts) == CHOOSE t \in ts : \A u \in ts : Len(u) <= Len(t)
TokenizeOne(r, bs) ==
  LET here == TokensAt(bs, r.at) IN
  IF r.at > Len(bs) THEN r
  ELSE IF here = {} THEN [r EXCEPT !.at = @ + 1]
  ELSE [tokens |-> Append(r.tokens, Longest(here)), at |-> r.at + Len(Longest(here))]
TokenizedUpTo(bs) ==
  LET after[k \in 0..Len(bs)] ==
        IF k = 0 THEN [tokens |-> <<>>, at |-> 1] ELSE TokenizeOne(after[k - 1], bs)
  IN  after
GreedyTokenize(bs) == TokenizedUpTo(bs)[Len(bs)].tokens

(* chop_tokens(): how many of the last tokens to take back, for a longer    *)
(* token that begins inside them and that the grammar allows.  Only some of *)
(* the last bytes are looked at.                                            *)
HasValidExtensions(c, start) ==
  \E t \in Tokens :
    IsStrictPrefix(start, t) /\ Allows(c, SubSeq(t, Len(start) + 1, Len(t)))
MaxTokenLen == Max({Len(t) : t \in Tokens})
LastN(s, n) == IF Len(s) <= n THEN s ELSE SubSeq(s, Len(s) - n + 1, Len(s))
ChopNoTokens(c, ts) == 0  \* variant: every forced token is final

TokensCovering(ts, chop) ==
  LET size(k) == Len(FlattenSeq(LastN(ts, k)))
  IN  CHOOSE k \in 1..Len(ts) : size(k) >= chop /\ \A j \in 1..k - 1 : size(j) < chop
ChopTokens(c, ts) ==
  LET suffix == LastN(FlattenSeq(LastN(ts, MaxTokenLookback)), MaxTokenLen)
      chop(open) == IF open = {} THEN 0 ELSE TokensCovering(ts, Max(open))
  IN  chop({n \in 1..Len(suffix) : HasValidExtensions(c, LastN(suffix, n))})

(* ff_tokens(): the forced bytes as tokens, and the bytes that the next     *)
(* token has to begin with.                                                 *)
FfTokensWithoutPrefix(p) ==  \* variant: the bytes not in a token are dropped
  [tokens |-> <<>>, prefix |-> <<>>]

NoFfTokens == [tokens |-> <<>>, prefix |-> <<>>]
Chopped(fresh, n) == [tokens |-> SubSeq(fresh, 1, Len(fresh) - n),
                      prefix |-> FlattenSeq(LastN(fresh, n))]
FreshTokens(last, joined, forced) ==
  IF IsPrefix(last, joined) THEN SubSeq(joined, Len(last) + 1, Len(joined))
                            ELSE GreedyTokenize(forced)
FfTokensOf(p) ==
  LET forced == ForcedBytes(p)
      last == IF p.llm_tokens = <<>> THEN <<>>
              ELSE IF Last(p.llm_tokens) = EOS THEN <<>> ELSE <<Last(p.llm_tokens)>>
      chop(fresh) == Chopped(fresh, ChopTokens(p.chart, fresh))
  IN  IF forced = <<>> THEN NoFfTokens
      ELSE IF ~p.tokenize_is_canonical THEN [tokens |-> <<>>, prefix |-> forced]
      ELSE chop(FreshTokens(last, GreedyTokenize(FlattenSeq(last) \o forced), forced))

(* ff_tokens() forces bytes first, with a canonical tokenizer only.         *)
Forced(p) == IF p.tokenize_is_canonical THEN ForceBytes(p) ELSE p
FfTokensNow(p) ==
  IF p.ff_tokens_cache # None THEN p.ff_tokens_cache ELSE FfTokensOf(Forced(p))

(* compute_bias(): the tokens within or beyond the bytes of start.  With no *)
(* such bytes the mask is taken from the bias cache if its key fits.        *)
WalkTokens(c, start) ==
  {t \in Tokens : IsPrefix(t, start) \/
     (IsPrefix(start, t) /\ Allows(c, SubSeq(t, Len(start) + 1, Len(t))))}

BiasKey(c) == [lexer_state |-> Top(c).lexer_state, row_idx |-> NumRows(c),
               has_pending_lexeme_bytes |-> HasPendingLexemeBytes(c)]
CacheHit(c, start) ==
  IF start # <<>> \/ bias_cache = None THEN FALSE ELSE bias_cache.key = BiasKey(c)
ComputeBias(c, start) ==
  IF CacheHit(c, start) THEN bias_cache.mask ELSE WalkTokens(c, start)

MaskFrom(bias, q, ff) ==
  IF ff.tokens # <<>> THEN {Head(ff.tokens)}
  ELSE bias \cup (IF Accepting(q) THEN {EOS} ELSE {})
MaskWith(q, ff) == MaskFrom(ComputeBias(q.chart, ff.prefix), q, ff)

(* What compute_bias() leaves in the cache: rollback() never clears it.     *)
KeepBias(q, ff) ==
  bias_cache' = IF ff.tokens # <<>> \/ ff.prefix # <<>> \/ CacheHit(q.chart, ff.prefix)
                THEN bias_cache
                ELSE [key |-> BiasKey(q.chart), mask |-> WalkTokens(q.chart, <<>>),
                      text |-> q.bytes]
-----------------------------------------------------------------------------
(* TokenParser's calls.                                                     *)

ApplyTokenKeepsCaches(p, t) ==  \* variant: the caches survive
  AppliedUpTo([p EXCEPT !.llm_tokens = Append(@, t)], t)[Len(t)]

ApplyToken(p, t) ==
  AppliedUpTo([ClearCaches(p) EXCEPT !.llm_tokens = Append(@, t)], t)[Len(t)]

(* An end-of-sequence token in a state that does not accept is applied as   *)
(* bytes that no lexeme has.                                                *)
EosAccepted(p) ==
  IF p.is_accepting_cache THEN [p EXCEPT !.llm_tokens = Append(@, EOS)] ELSE MatcherError
EosScanned(p) == IF p = MatcherError THEN p ELSE EosAccepted(WithAccepting(p))
ConsumeEos(p) == EosScanned(ScanEos(p))

ConsumeToken(p, t) ==
  LET q == [p EXCEPT !.max_tokens_total = @ - 1] IN
  IF Stopped(p) \/ p.max_tokens_total = 0 THEN MatcherError
  ELSE IF t = EOS THEN ConsumeEos(q) ELSE ApplyToken(q, t)

StopIfDone(p) ==
  LET pendingEos == p.llm_tokens # <<>> /\ Last(p.llm_tokens) = EOS
  IN  IF p.is_accepting_cache /\ (pendingEos \/ ~CanAdvance(p.chart))
      THEN [p EXCEPT !.stop_reason = IF pendingEos THEN "EndOfSentence" ELSE "NoExtension"]
      ELSE p
CheckStop(p) == IF p = MatcherError THEN p ELSE StopIfDone(WithAccepting(p))

LexerBytesOk(p) ==
  Len(p.chart.lexer_stack) = Len(p.bytes) + (IF p.lexer_stack_top_eos THEN 2 ELSE 1)

RollbackBytes(p, n) ==
  LET newLen == p.applied - n IN
  IF ~LexerBytesOk(p) \/ n > p.applied THEN MatcherError
  ELSE [p EXCEPT !.applied = newLen,
                 !.bytes = SubSeq(@, 1, newLen),
                 !.chart = RolledBack(@, newLen),
                 !.last_force_bytes_len = Never,
                 !.lexer_stack_top_eos = FALSE]

(* A stop is taken back; end-of-sequence tokens have no bytes.              *)
BytesOf(ts) == FlattenSeq([i \in 1..Len(ts) |-> IF ts[i] = EOS THEN <<>> ELSE ts[i]])
RollbackKeepsStop(p, n) ==  \* variant: a stop is final
  LET keep == Len(p.llm_tokens) - n
      dropped == BytesOf(SubSeq(p.llm_tokens, keep + 1, Len(p.llm_tokens)))
      q == RollbackBytes(p, Len(dropped))
  IN  IF n = 0 THEN p
      ELSE IF keep < 0 \/ q = MatcherError THEN MatcherError
      ELSE ClearCaches([q EXCEPT !.max_tokens_total = @ + n,
                                 !.llm_tokens = SubSeq(@, 1, keep)])
RollbackRefundsTwice(p, n) ==  \* variant: the budget grows back too far
  LET keep == Len(p.llm_tokens) - n
      dropped == BytesOf(SubSeq(p.llm_tokens, keep + 1, Len(p.llm_tokens)))
      q == RollbackBytes([p EXCEPT !.stop_reason = "NotStopped"], Len(dropped))
  IN  IF n = 0 THEN p
      ELSE IF keep < 0 \/ q = MatcherError THEN MatcherError
      ELSE ClearCaches([q EXCEPT !.max_tokens_total = @ + 2 * n,
                                 !.llm_tokens = SubSeq(@, 1, keep)])

RollbackTokens(p, n) ==
  LET keep == Len(p.llm_tokens) - n
      dropped == BytesOf(SubSeq(p.llm_tokens, keep + 1, Len(p.llm_tokens)))
      q == RollbackBytes([p EXCEPT !.stop_reason = "NotStopped"], Len(dropped))
  IN  IF n = 0 THEN p
      ELSE IF keep < 0 \/ q = MatcherError THEN MatcherError
      ELSE ClearCaches([q EXCEPT !.max_tokens_total = @ + n,
                                 !.llm_tokens = SubSeq(@, 1, keep)])
-----------------------------------------------------------------------------
(* The calls of the Matcher.  Any error ends the session for good.          *)

Reply(call, tokens, n, result) ==
  [call |-> call, tokens |-> tokens, n |-> n, result |-> result]
Failure == -1
Answer(call, tokens, n, p, result) ==
  /\ session' = p
  /\ reply' = Reply(call, tokens, n, IF p = MatcherError THEN Failure ELSE result)

(* The tokenizer of the session is canonical or not, for good.              *)
Init ==
  /\ \E canonical \in BOOLEAN : session = NewTokenParser(canonical)
  /\ bias_cache = None
  /\ reply = Reply("new", <<>>, 0, 0)
Failed == session = MatcherError

ConsumedUpTo(p, ts) ==
  LET after[k \in 0..Len(ts)] ==
        IF k = 0 THEN p
        ELSE LET q == after[k - 1]
             IN  IF q = MatcherError THEN q ELSE ConsumeToken(q, ts[k])
  IN  after
Consumed(p, ts) == CheckStop(ConsumedUpTo(p, ts)[Len(ts)])

ConsumeTokens(ts) ==
  /\ Answer("consume", ts, 0, IF Failed THEN session ELSE Consumed(session, ts), 0)
  /\ UNCHANGED bias_cache

(* A token is only consumed after it has been validated, and the stop is    *)
(* checked after each.                                                      *)
TryNext(r, t) ==
  IF r.end \/ r.p = MatcherError THEN r
  ELSE IF Stopped(r.p) \/ ~Validates(r.p, t) THEN [r EXCEPT !.end = TRUE]
  ELSE [p |-> Consumed(r.p, <<t>>), n |-> r.n + 1, end |-> FALSE]
TriedUpTo(p, ts) ==
  LET after[k \in 0..Len(ts)] ==
        IF k = 0 THEN [p |-> p, n |-> 0, end |-> FALSE]
        ELSE LET r == after[k - 1] IN TryNext(r, ts[k])
  IN  after
TryConsumed(p, ts) == TriedUpTo(p, ts)[Len(ts)]

TryConsumeTokens(ts) ==
  LET answer(r) == Answer("try", ts, 0, r.p, r.n)
  IN  answer(TryConsumed(session, ts)) /\ UNCHANGED bias_cache

Rollback(n) ==
  /\ Answer("rollback", <<>>, n, IF Failed THEN session ELSE RollbackTokens(session, n), 0)
  /\ UNCHANGED bias_cache

(* compute_mask() takes the cached forced tokens, leaves the bytes forced   *)
(* and is_accepting() known, unless it answers with a forced token.         *)
AfterMask(q, ff) ==
  IF MaskWith(q, ff) = {} THEN MatcherError
  ELSE IF ff.tokens # <<>> THEN q ELSE WithAccepting(q)
Masked(call, q, ff) ==
  /\ Answer(call, <<>>, 0, AfterMask([q EXCEPT !.ff_tokens_cache = None], ff), 0)
  /\ KeepBias(q, ff)

NoMask == Failed \/ Stopped(session)
ComputeMask ==
  IF NoMask THEN Answer("mask", <<>>, 0, MatcherError, 0) /\ UNCHANGED bias_cache
  ELSE Masked("mask", Forced(session), FfTokensNow(session))
ComputeMaskOrEos ==
  IF NoMask THEN Answer("mask_or_eos", <<>>, 0, session, 0) /\ UNCHANGED bias_cache
  ELSE Masked("mask_or_eos", Forced(session), FfTokensNow(session))
InvalidateBiasCache ==
  /\ UNCHANGED session
  /\ bias_cache' = None
  /\ reply' = Reply("invalidate", <<>>, 0, 0)

IsAcceptingCall ==
  LET q == IF Failed THEN session ELSE WithAccepting(session) IN
  /\ Answer("accepting", <<>>, 0, q,
            IF Failed THEN Failure ELSE IF q.is_accepting_cache THEN 1 ELSE 0)
  /\ UNCHANGED bias_cache

WithFfTokens(p) ==
  LET cached(q) == [q EXCEPT !.ff_tokens_cache = FfTokensOf(q)]
  IN  IF p.tokenize_is_canonical THEN cached(ForceBytes(p)) ELSE p
ComputeFfTokens ==
  /\ session' = IF Failed THEN session ELSE WithFfTokens(session)
  /\ reply' = Reply("force", <<>>, 0, 0) /\ UNCHANGED bias_cache
ComputeFfBytes ==
  /\ session' = IF Failed THEN session ELSE ForceBytes(session)
  /\ reply' = Reply("force", <<>>, 0, 0) /\ UNCHANGED bias_cache
ConsumeFfTokens ==
  /\ ~Failed
  /\ \E q \in {WithFfTokens(session)} :
       /\ q.ff_tokens_cache # None /\ q.ff_tokens_cache.tokens # <<>>
       /\ Answer("consume", q.ff_tokens_cache.tokens, 0,
                 Consumed(q, q.ff_tokens_cache.tokens), 0)
  /\ UNCHANGED bias_cache

Next ==
  \/ \E ts \in Batches : ConsumeTokens(ts) \/ TryConsumeTokens(ts)
  \/ \E n \in 0..MaxTokensTotal + 1 : Rollback(n)
  \/ ComputeMask \/ ComputeMaskOrEos \/ IsAcceptingCall
  \/ ComputeFfTokens \/ ComputeFfBytes \/ ConsumeFfTokens \/ InvalidateBiasCache

Spec == Init /\ [][Next]_vars
-----------------------------------------------------------------------------
Promise == INSTANCE Session WITH
  text <- IF Failed THEN <<>> ELSE session.llm_tokens,
  status <- IF Failed THEN "failed" ELSE IF Stopped(session) THEN "done" ELSE "running"

(* Whatever is cached, forced ahead, rolled back or taken from a stop, the  *)
(* calls answer as Session says: tokens are accepted, counted, refused and  *)
(* taken back by the words of the grammar alone.                            *)
KeepsPromise == Promise!Spec

(* What that rests on.  The parser decides the language, as far as the      *)
(* texts of a session and one more token go (module Language checks this);  *)
(* it can advance from a word if and only if the word can be extended; the  *)
(* grammar and the tokens leave no text without a next token; every byte is *)
(* a token; chop_tokens() looks back far enough, that is no token begins    *)
(* with more than MaxTokenLookback others (canonically divided); and a key  *)
(* of the bias cache does not take a text that is no word for one after     *)
(* which no token can come: an empty mask would end the session.            *)
Readable == UNION {[1..n -> Tokens] : n \in 0..MaxTokensTotal + 1}
ParserDecides ==
  /\ \A w \in Words : w \in Seq(Byte) /\ Fresh(w).ok /\ IsAccepting(Fresh(w).chart)
  /\ \A ts \in Readable :
       LET bs == BytesOf(ts) IN
       /\ Fresh(bs).ok <=> bs \in ViablePrefixes
       /\ (Fresh(bs).ok /\ IsAccepting(Fresh(bs).chart)) <=> bs \in Words
       /\ bs \in Words => (CanAdvance(Fresh(bs).chart) <=> Promise!Extensible(bs))
NeverStuck ==
  \A ts \in Readable :
    BytesOf(ts) \in ViablePrefixes =>
      BytesOf(ts) \in Words \/ \E t \in Tokens : BytesOf(ts) \o t \in ViablePrefixes
BytesAreTokens == \A b \in Byte : <<b>> \in Tokens
LooksBackEnough ==
  \A t \in Tokens : \A n \in 1..Len(t) - 1 :
    Len(GreedyTokenize(SubSeq(t, 1, n))) <= MaxTokenLookback
EmptyMaskIsRight ==
  LET readable == {ts \in Readable : Fresh(BytesOf(ts)).ok}
      chart(ts) == Fresh(BytesOf(ts)).chart
      spent == {BiasKey(chart(ts)) : ts \in {ts \in readable : WalkTokens(chart(ts), <<>>) = {}}}
  IN  \A ts \in readable : BiasKey(chart(ts)) \in spent => BytesOf(ts) \in Words

(* The mask would come from the bias cache, which was filled after a text   *)
(* that a rollback has taken back since (see the finding of ParserStale).   *)
ServesAbandoned(q, ff) ==
  /\ ff.tokens = <<>> /\ CacheHit(q.chart, ff.prefix)
  /\ ~IsPrefix(bias_cache.text, q.bytes)

(* Unless a mask of an abandoned text is served:                            *)
(* the mask of a running session allows no token the grammar forbids, and,  *)
(* unless it forces a token, forbids none the grammar allows; it is never   *)
(* empty.  (The budget of tokens is checked by consume_token() only.)       *)
ExactWith(q, ff) ==
  LET may == {t \in Tokens \cup {EOS} : Promise!May(session.llm_tokens, t)}
      exact(mask) == /\ mask # {} /\ mask \subseteq may
                     /\ ff.tokens = <<>> => mask = may
  IN  ~ServesAbandoned(q, ff) => exact(MaskWith(q, ff))
MaskIsExact ==
  ~Failed /\ ~Stopped(session) => ExactWith(Forced(session), FfTokensNow(session))

(* Forced tokens are tokens of every word that continues the session, and   *)
(* none of the tokens a tokenizer would make of such a word is masked out:  *)
(* chop_tokens() says "here we remove a suffix from tokens that could be    *)
(* possibly tokenized differently".                                         *)
WordsAhead ==
  {w \in Words : IsPrefix(Promise!BytesOf(session.llm_tokens), w)}
CanonicalIn(q, ff) ==
  ~ServesAbandoned(q, ff) =>
    \A w \in WordsAhead :
      LET ts == Append(GreedyTokenize(w), EOS)
      IN  IsPrefix(session.llm_tokens, ts)
            => ts[Len(session.llm_tokens) + 1] \in MaskWith(q, ff)
CanonicalTokenAllowed ==
  ~Failed /\ ~Stopped(session) /\ session.tokenize_is_canonical =>
    CanonicalIn(Forced(session), FfTokensNow(session))

(* What is cached is what would be computed.                                *)
CachesFresh ==
  ~Failed =>
    /\ session.is_accepting_cache # None =>
         session.is_accepting_cache = Accepting([session EXCEPT !.is_accepting_cache = None])
    /\ session.ff_tokens_cache # None => session.ff_tokens_cache = FfTokensOf(Forced(session))

(* Rolling back undoes: the mask is then the one of a session that was only *)
(* given the tokens that are left ("Rollback the last num_tokens            *)
(* consumed"), if an end of sequence only ends a batch (rollback() of       *)
(* tokenparser.rs: "doesn't count; we hope it's last though").  Only the    *)
(* mask of an abandoned text in the bias cache may differ.                  *)
WalkedWith(q, ff) == MaskFrom(WalkTokens(q.chart, ff.prefix), q, ff)
WalkedMask(p) == WalkedWith(Forced(p), FfTokensNow(p))
Replayed ==
  LET ts == session.llm_tokens
  IN  ConsumedUpTo(NewTokenParser(session.tokenize_is_canonical), ts)[Len(ts)]
MaskedAs(p, q, ff) ==
  /\ p # MatcherError
  /\ ~ServesAbandoned(q, ff) => MaskWith(q, ff) = WalkedMask(p)
RollbackIsUndo ==
  ~Failed /\ ~Stopped(session) /\ reply.call = "rollback" =>
    MaskedAs(Replayed, Forced(session), FfTokensNow(session))
=============================================================================
