---------------------------- MODULE Matcher_proof ----------------------------
(***************************************************************************)
(* A session of the matcher: whatever is cached, forced ahead or rolled    *)
(* back, what is cached is what would be computed; a session that was      *)
(* rolled back is as good as one that was only given the tokens left; and, *)
(* for a parser that decides its language, every call answers by the words *)
(* of the grammar (Session), every mask is exact, and none masks out the   *)
(* tokens that a tokenizer would make of a word.                           *)
(***************************************************************************)
EXTENDS Matcher, Chart_proof

Bytes == Seq(Byte)
Texts == Seq(Tokens \cup {EOS})

-----------------------------------------------------------------------------
(* Tokens and their bytes.                                                  *)
Piece(t) == IF t = EOS THEN <<>> ELSE t

(* The pieces of a text are bytes.                                          *)
LEMMA PieceTyped ==
  ASSUME NEW t \in Tokens \cup {EOS}
  PROVE  Piece(t) \in Bytes
<1>1. <<>> \in Bytes
  BY EmptySeq DEF Bytes
<1> QED BY <1>1, MatcherAssumption DEF Piece, Bytes

(* The bytes of a text, piece by piece.                                     *)
LEMMA PiecesOf ==
  ASSUME NEW ts \in Texts
  PROVE  LET ps == [i \in 1..Len(ts) |-> Piece(ts[i])] IN
         /\ ps \in Seq(Bytes) /\ Len(ps) = Len(ts)
         /\ BytesOf(ts) = FlattenSeq(ps)
<1> DEFINE ps == [i \in 1..Len(ts) |-> Piece(ts[i])]
<1>1. Len(ts) \in Nat /\ \A i \in 1..Len(ts) : ts[i] \in Tokens \cup {EOS}
  BY LenProperties, ElementOfSeq DEF Texts
<1>2. ps \in [1..Len(ts) -> Bytes]
  BY <1>1, PieceTyped
<1>3. ps \in Seq(Bytes) /\ Len(ps) = Len(ts)
  <2> HIDE DEF ps
  <2> QED BY <1>1, <1>2, FunctionIsSequence
<1>4. BytesOf(ts) = FlattenSeq(ps)
  BY DEF BytesOf, Piece
<1> QED BY <1>3, <1>4

(* No tokens, no bytes.                                                     *)
LEMMA BytesOfNone == BytesOf(<<>>) = <<>>
<1> DEFINE ps == [i \in 1..Len(<<>>) |-> Piece(<<>>[i])]
<1>1. <<>> \in Texts
  BY EmptySeq DEF Texts
<1>2. ps \in Seq(Bytes) /\ Len(ps) = Len(<<>>) /\ BytesOf(<<>>) = FlattenSeq(ps)
  BY <1>1, PiecesOf
<1>3. ps = <<>>
  BY <1>2, EmptySeq
<1> QED BY <1>2, <1>3, JoinNone

(* The bytes of two texts, one after the other.                             *)
LEMMA BytesOfConcat ==
  ASSUME NEW ts \in Texts, NEW us \in Texts
  PROVE  /\ BytesOf(ts) \in Bytes
         /\ BytesOf(ts \o us) = BytesOf(ts) \o BytesOf(us)
<1> DEFINE ps == [i \in 1..Len(ts) |-> Piece(ts[i])]
           qs == [i \in 1..Len(us) |-> Piece(us[i])]
           vs == ts \o us
           rs == [i \in 1..Len(vs) |-> Piece(vs[i])]
<1>1. /\ vs \in Texts /\ Len(vs) = Len(ts) + Len(us)
      /\ Len(ts) \in Nat /\ Len(us) \in Nat
      /\ \A i \in 1..(Len(ts) + Len(us)) :
           vs[i] = IF i <= Len(ts) THEN ts[i] ELSE us[i - Len(ts)]
  BY ConcatProperties, LenProperties DEF Texts
<1> HIDE DEF vs
<1>2. /\ ps \in Seq(Bytes) /\ Len(ps) = Len(ts) /\ BytesOf(ts) = FlattenSeq(ps)
      /\ qs \in Seq(Bytes) /\ Len(qs) = Len(us) /\ BytesOf(us) = FlattenSeq(qs)
      /\ rs \in Seq(Bytes) /\ Len(rs) = Len(vs) /\ BytesOf(vs) = FlattenSeq(rs)
  BY <1>1, PiecesOf
<1>3. /\ \A i \in 1..Len(ts) : ps[i] = Piece(ts[i])
      /\ \A i \in 1..Len(us) : qs[i] = Piece(us[i])
      /\ \A i \in 1..Len(vs) : rs[i] = Piece(vs[i])
  OBVIOUS
<1> HIDE DEF ps, qs, rs
<1>4. rs = ps \o qs
  <2>1. /\ ps \o qs \in Seq(Bytes) /\ Len(ps \o qs) = Len(ts) + Len(us)
        /\ \A i \in 1..(Len(ts) + Len(us)) :
             (ps \o qs)[i] = IF i <= Len(ts) THEN ps[i] ELSE qs[i - Len(ts)]
    <3>0. ps \in Seq(Bytes) /\ qs \in Seq(Bytes)
      BY <1>2
    <3>1. /\ ps \o qs \in Seq(Bytes) /\ Len(ps \o qs) = Len(ps) + Len(qs)
          /\ \A i \in 1..(Len(ps) + Len(qs)) :
               (ps \o qs)[i] = IF i <= Len(ps) THEN ps[i] ELSE qs[i - Len(ps)]
      BY <3>0, ConcatProperties
    <3> QED BY <1>2, <3>1
  <2>2. ASSUME NEW i \in 1..Len(rs) PROVE rs[i] = (ps \o qs)[i]
    <3>1. i \in 1..(Len(ts) + Len(us)) /\ (i <= Len(ts) => i \in 1..Len(ts))
          /\ (~(i <= Len(ts)) => i - Len(ts) \in 1..Len(us))
      BY <1>1, <1>2
    <3> QED BY <1>1, <1>3, <2>1, <3>1
  <2> QED BY <1>1, <1>2, <2>1, <2>2, SeqEqual
<1>5. FlattenSeq(ps \o qs) = FlattenSeq(ps) \o FlattenSeq(qs) /\ FlattenSeq(ps) \in Bytes
  BY <1>2, JoinConcat, JoinTyped DEF Bytes
<1> QED BY <1>2, <1>4, <1>5 DEF vs

(* The bytes of one token more.                                             *)
LEMMA BytesOfAppend ==
  ASSUME NEW ts \in Texts, NEW t \in Tokens \cup {EOS}
  PROVE  /\ Append(ts, t) \in Texts /\ Len(Append(ts, t)) = Len(ts) + 1
         /\ BytesOf(Append(ts, t)) = BytesOf(ts) \o Piece(t)
<1>1. /\ <<t>> \in Texts /\ Append(ts, t) = ts \o <<t>>
      /\ Append(ts, t) \in Texts /\ Len(Append(ts, t)) = Len(ts) + 1
  BY AppendIsConcat, AppendProperties DEF Texts
<1>2. BytesOf(<<t>>) = Piece(t)
  <2> DEFINE us == <<t>>
             ps == [i \in 1..Len(us) |-> Piece(us[i])]
  <2>1. ps \in Seq(Bytes) /\ Len(ps) = Len(us) /\ BytesOf(us) = FlattenSeq(ps)
    BY <1>1, PiecesOf
  <2>2. Len(us) = 1 /\ us[1] = t
    OBVIOUS
  <2>3. ps[1] = Piece(t)
    BY <2>2
  <2> HIDE DEF ps, us
  <2>4. <<>> \in Seq(Bytes) /\ Piece(t) \in Bytes
    BY EmptySeq, PieceTyped
  <2>5. ps = Append(<<>>, Piece(t))
    <3>1. /\ Append(<<>>, Piece(t)) \in Seq(Bytes) /\ Len(Append(<<>>, Piece(t))) = 1
          /\ Append(<<>>, Piece(t))[1] = Piece(t)
      BY <2>4
    <3>2. \A i \in 1..Len(ps) : ps[i] = Append(<<>>, Piece(t))[i]
      BY <2>1, <2>2, <2>3, <3>1
    <3> QED BY <2>1, <2>2, <3>1, <3>2, SeqEqual
  <2>6. FlattenSeq(Append(<<>>, Piece(t))) = <<>> \o Piece(t)
    BY <2>4, JoinAppend, JoinNone DEF Bytes
  <2>7. <<>> \o Piece(t) = Piece(t)
    BY <2>4, ConcatEmptySeq DEF Bytes
  <2> QED BY <2>1, <2>5, <2>6, <2>7 DEF us
<1> QED BY <1>1, <1>2, BytesOfConcat

-----------------------------------------------------------------------------
(* Charts and the new parser that was given the same bytes.                 *)

(* Two results that are alike: twins, or both failed.                       *)
Alikes(r, def, q, def2) ==
  /\ r.ok \in BOOLEAN /\ q.ok = r.ok
  /\ Fit(r.chart, def) /\ r.chart.budget = Unlimited
  /\ Fit(q.chart, def2) /\ q.chart.budget = Unlimited
  /\ r.ok => Twin(r.chart, q.chart)

(* A byte fares alike on twins without a limit.                             *)
LEMMA TwinPush ==
  ASSUME NEW c, NEW def \in BOOLEAN, Fit(c, def), c.budget = Unlimited, NEW n \in Nat,
         NEW d, NEW def2 \in BOOLEAN, Fit(d, def2), d.budget = Unlimited, NEW n2 \in Nat,
         Twin(c, d), NEW b \in Byte
  PROVE  Alikes(TryPushByte(c, b, def, n), def, TryPushByte(d, b, def2, n2), def2)
<1> DEFINE r == TryPushByte(c, b, def, n)
           q == TryPushByte(d, b, def2, n2)
<1>1. /\ Fit(r.chart, def) /\ r.chart.budget = Unlimited
      /\ Fit(q.chart, def2) /\ q.chart.budget = Unlimited
  <2>1. Fit(r.chart, def) /\ r.chart.budget = Unlimited
    BY TwinRefused
  <2>2. Fit(q.chart, def2) /\ q.chart.budget = Unlimited
    BY TwinRefused
  <2> QED BY <2>1, <2>2
<1>2. r.ok \in BOOLEAN /\ q.ok \in BOOLEAN
  <2>1. Good(c) /\ Defined(c, def) /\ Good(d) /\ Defined(d, def2)
    BY DEF Fit
  <2>2. Outcome(c, r, def)
    BY <2>1, TryPushByteFacts
  <2>3. Outcome(d, q, def2)
    BY <2>1, TryPushByteFacts
  <2> QED BY <2>2, <2>3 DEF Outcome
<1>3. Twin(d, c)
  BY TwinSym DEF Fit
<1>4. r.ok => q.ok /\ Extends(r.chart, q.chart) /\ SameHeight(r.chart, q.chart)
  <2>1. Extends(c, d) /\ SameHeight(c, d)
    BY DEF Twin
  <2> QED BY <2>1, PushExtends
<1>5. q.ok => r.ok
  <2>1. Extends(d, c) /\ SameHeight(d, c)
    BY <1>3 DEF Twin
  <2> QED BY <2>1, PushExtends
<1>6. q.ok = r.ok
  BY <1>2, <1>4, <1>5
<1>7. r.ok => Twin(r.chart, q.chart)
  BY <1>4 DEF Twin
<1> QED BY <1>1, <1>2, <1>6, <1>7 DEF Alikes

(* The new parser given one byte more.                                      *)
LEMMA FreshNext ==
  ASSUME NEW bs \in Bytes, NEW b \in Byte
  PROVE  /\ Append(bs, b) \in Bytes
         /\ Fresh(Append(bs, b)) = PushOne(Fresh(bs), b, TRUE, Len(bs))
<1>1. Append(bs, b) \in Bytes /\ Len(bs) \in Nat
  BY AppendProperties, LenProperties DEF Bytes
<1>2. PushAll(NewChart, Append(bs, b), TRUE, 0)
        = PushOne(PushAll(NewChart, bs, TRUE, 0), b, TRUE, 0 + Len(bs))
  BY PushAllNext DEF Bytes
<1>3. 0 + Len(bs) = Len(bs)
  BY <1>1
<1> QED BY <1>1, <1>2, <1>3 DEF Fresh

(* What a new parser accepts it accepts the beginnings of.                  *)
LEMMA FreshPrefix ==
  ASSUME NEW bs \in Bytes, Fresh(bs).ok, NEW t \in Bytes, IsPrefix(t, bs)
  PROVE  Fresh(t).ok /\ Extends(Fresh(bs).chart, Fresh(t).chart)
<1>1. Len(t) <= Len(bs) /\ \A i \in 1..Len(t) : t[i] = bs[i]
  BY PrefixIs DEF Bytes
<1>2. Len(t) \in 0..Len(bs)
  BY <1>1, LenProperties DEF Bytes
<1>3. Fit(NewChart, TRUE)
  BY NewChartMore
<1>4. PushAll(NewChart, bs, TRUE, 0).ok
  BY DEF Fresh
<1>5. /\ PushAll(NewChart, t, TRUE, 0).ok
      /\ Extends(PushAll(NewChart, bs, TRUE, 0).chart, PushAll(NewChart, t, TRUE, 0).chart)
  BY <1>1, <1>2, <1>3, <1>4, PushAllExtends DEF Bytes
<1> QED BY <1>5 DEF Fresh

(* A parser in the state of a new one given some bytes takes the bytes that *)
(* the new one would take next.                                             *)
LEMMA PushIff ==
  ASSUME NEW bs \in Bytes, Fresh(bs).ok, NEW c, Fit(c, TRUE), c.budget = Unlimited,
         Twin(c, Fresh(bs).chart), NEW b \in Byte, NEW n \in Nat
  PROVE  LET r == TryPushByte(c, b, TRUE, n) IN
         /\ r.ok = Fresh(Append(bs, b)).ok
         /\ r.ok \in BOOLEAN /\ Fit(r.chart, TRUE) /\ r.chart.budget = Unlimited
         /\ r.ok => Twin(r.chart, Fresh(Append(bs, b)).chart)
<1> DEFINE d == Fresh(bs).chart
           r == TryPushByte(c, b, TRUE, n)
           q == TryPushByte(d, b, TRUE, Len(bs))
<1>1. Fit(d, TRUE) /\ d.budget = Unlimited /\ Len(bs) \in Nat
  BY FreshFacts, LenProperties DEF Bytes
<1>2. Twin(c, d)
  OBVIOUS
<1> HIDE DEF d
<1>3. /\ r.ok \in BOOLEAN /\ q.ok = r.ok
      /\ Fit(r.chart, TRUE) /\ r.chart.budget = Unlimited
      /\ r.ok => Twin(r.chart, q.chart)
  <2>1. Alikes(r, TRUE, q, TRUE)
    BY <1>1, <1>2, TwinPush
  <2> QED BY <2>1 DEF Alikes
<1>4. Fresh(Append(bs, b)) = q
  BY FreshNext DEF PushOne, d
<1> HIDE DEF r, q
<1> QED BY <1>3, <1>4 DEF r

(* A walk from there allows the texts that the new parser would accept.     *)
LEMMA AllowsText ==
  ASSUME NEW bs \in Bytes, Fresh(bs).ok, NEW c, Unbounded(c),
         Twin(c, Fresh(bs).chart), NEW t \in Bytes
  PROVE  Allows(c, t) = Fresh(bs \o t).ok
<1> DEFINE d == Speculative(c)
           Same(u) == LET r == PushAll(d, u, FALSE, 0)
                          q == Fresh(bs \o u)
                      IN  /\ Fit(r.chart, FALSE) /\ r.chart.budget = Unlimited
                          /\ r.ok \in BOOLEAN /\ q.ok = r.ok
                          /\ r.ok => Twin(r.chart, q.chart)
           Shown == {n \in Nat : \A u \in Bytes : Len(u) = n => Same(u)}
           N == Len(t)
<1>1. Fit(d, FALSE) /\ d.budget = Unlimited /\ Twin(d, Fresh(bs).chart)
  <2>1. Fit(d, FALSE) /\ d.budget = Unlimited /\ Twin(d, c)
    BY SpeculativeMore
  <2>2. Good(d) /\ Good(c) /\ Good(Fresh(bs).chart)
    BY <2>1, FreshFacts DEF Fit, Unbounded, Bytes
  <2> QED BY <2>1, <2>2, TwinTrans
<1> HIDE DEF d
<1>2. 0 \in Shown
  <2>1. ASSUME NEW u \in Bytes, Len(u) = 0 PROVE Same(u)
    <3>1. u = <<>> /\ bs \o u = bs
      BY <2>1, EmptySeq, ConcatEmptySeq DEF Bytes
    <3>2. PushAll(d, u, FALSE, 0) = Ok(d)
      BY <3>1, PushAllNone DEF Bytes
    <3>3. Ok(d).chart = d /\ Ok(d).ok = TRUE
      BY DEF Ok
    <3>4. Fresh(bs).ok = TRUE
      <4>1. Fresh(bs).ok \in BOOLEAN
        BY FreshFacts DEF Bytes
      <4> QED BY <4>1
    <3> QED BY <1>1, <3>1, <3>2, <3>3, <3>4
  <2> HIDE DEF Same
  <2> QED BY <2>1
<1>3. ASSUME NEW n \in 0..(N - 1), n \in Shown PROVE n + 1 \in Shown
  <2>1. ASSUME NEW u \in Bytes, Len(u) = n + 1 PROVE Same(u)
    <3>1. PICK v \in Bytes, b \in Byte : u = Append(v, b)
      <4>1. u # <<>>
        BY <2>1, EmptySeq
      <4> QED BY <4>1, SequenceEmptyOrAppend DEF Bytes
    <3>2. Len(v) \in Nat /\ Len(v) = n
      <4>1. Len(v) \in Nat /\ Len(u) = Len(v) + 1
        BY <3>1, LenProperties, AppendProperties DEF Bytes
      <4> QED BY <2>1, <4>1
    <3>3. Same(v)
      <4> HIDE DEF Same
      <4> QED BY <1>3, <3>2
    <3>4. bs \o v \in Bytes /\ bs \o u = Append(bs \o v, b)
      <4>1. bs \o v \in Bytes /\ <<b>> \in Bytes /\ u = v \o <<b>>
        BY <3>1, AppendIsConcat, ConcatProperties DEF Bytes
      <4>2. bs \o (v \o <<b>>) = (bs \o v) \o <<b>>
        BY <4>1, ConcatThree, Z3 DEF Bytes
      <4>3. Append(bs \o v, b) = (bs \o v) \o <<b>>
        BY <4>1, AppendIsConcat DEF Bytes
      <4> QED BY <4>1, <4>2, <4>3
    <3> DEFINE r0 == PushAll(d, v, FALSE, 0)
               q0 == Fresh(bs \o v)
               r == PushAll(d, u, FALSE, 0)
               q == Fresh(bs \o u)
    <3>5. /\ Fit(r0.chart, FALSE) /\ r0.chart.budget = Unlimited
          /\ r0.ok \in BOOLEAN /\ q0.ok = r0.ok
          /\ r0.ok => Twin(r0.chart, q0.chart)
      BY <3>3
    <3>6. r = PushOne(r0, b, FALSE, 0 + Len(v)) /\ q = PushOne(q0, b, TRUE, Len(bs \o v))
      <4>1. r = PushOne(r0, b, FALSE, 0 + Len(v))
        BY <3>1, PushAllNext DEF Bytes
      <4>2. q = PushOne(q0, b, TRUE, Len(bs \o v))
        BY <3>4, FreshNext
      <4> QED BY <4>1, <4>2
    <3>7. /\ Fit(q0.chart, TRUE) /\ q0.chart.budget = Unlimited /\ Len(bs \o v) \in Nat
          /\ 0 + Len(v) \in Nat
      <4>1. Fit(q0.chart, TRUE) /\ q0.chart.budget = Unlimited
        <5> DEFINE w == bs \o v
        <5>1. w \in Seq(Byte)
          BY <3>4 DEF Bytes
        <5> HIDE DEF w
        <5>2. Fit(Fresh(w).chart, TRUE) /\ Fresh(w).chart.budget = Unlimited
          BY <5>1, FreshFacts
        <5> QED BY <5>2 DEF w
      <4>2. Len(bs \o v) \in Nat /\ 0 + Len(v) \in Nat
        BY <3>2, <3>4, LenProperties DEF Bytes
      <4> QED BY <4>1, <4>2
    <3> HIDE DEF r0, q0, r, q
    <3>8. /\ Fit(r.chart, FALSE) /\ r.chart.budget = Unlimited
          /\ r.ok \in BOOLEAN /\ q.ok = r.ok
          /\ r.ok => Twin(r.chart, q.chart)
      <4>1. CASE r0.ok
        <5>1. /\ r = TryPushByte(r0.chart, b, FALSE, 0 + Len(v))
              /\ q = TryPushByte(q0.chart, b, TRUE, Len(bs \o v))
          BY <3>5, <3>6, <4>1 DEF PushOne
        <5>2. Twin(r0.chart, q0.chart)
          BY <3>5, <4>1
        <5>3. Alikes(r, FALSE, q, TRUE)
          BY <3>5, <3>7, <5>1, <5>2, TwinPush
        <5> QED BY <5>3 DEF Alikes
      <4>2. CASE ~r0.ok
        <5>1. r = r0 /\ q = q0
          BY <3>5, <3>6, <4>2 DEF PushOne
        <5> QED BY <3>5, <4>2, <5>1
      <4> QED BY <4>1, <4>2
    <3> QED BY <3>8 DEF r, q
  <2> HIDE DEF Same
  <2> QED BY <2>1
<1> HIDE DEF Shown
<1>4. N \in Shown
  <2>1. N \in Nat
    BY LenProperties DEF Bytes
  <2> HIDE DEF N
  <2>2. \A n \in 0..N : n \in Shown
    BY <1>2, <1>3, <2>1, UpTo
  <2> QED BY <2>1, <2>2
<1>5. Same(t)
  <2> HIDE DEF Same
  <2> QED BY <1>4 DEF Shown
<1>6. Allows(c, t) = PushAll(d, t, FALSE, 0).ok
  BY DEF Allows, d
<1> QED BY <1>5, <1>6

(* Twins are in the same row.                                               *)
LEMMA TwinRow ==
  ASSUME NEW c, NEW d, Good(c), Good(d), Twin(c, d)
  PROVE  CurrRow(c) = CurrRow(d)
<1>1. SameRows(c, d, NumRows(c)) /\ NumRows(c) = NumRows(d)
  BY ExtendsTwin DEF Twin
<1>2. NumRows(c) \in Nat \ {0}
  BY TopFacts
<1> QED BY <1>1, <1>2 DEF SameRows, CurrRow

(* Nothing is pending when the top entry is that of a new row without byte. *)
LEMMA NothingPending ==
  ASSUME NEW c, Good(c), NEW s, NEW e \in LexerState, s.lexer_stack = Append(c.lexer_stack, e),
         e.row_idx = NumRows(c) + 1, e.byte = NoByte
  PROVE  NumRows(s) = NumRows(c) + 1 /\ ~HasPendingLexemeBytes(s)
<1> DEFINE N == Len(c.lexer_stack)
           h == NumRows(c)
           st == s.lexer_stack
<1>1. /\ N \in Nat \ {0} /\ c.lexer_stack \in Seq(LexerState) /\ h \in Nat
      /\ h = c.lexer_stack[N].row_idx
  BY TopFacts DEF Good, ParserChart
<1>2. \A i \in 1..N : c.lexer_stack[i].row_idx <= h
  <2>1. \A i, j \in 1..N : i <= j => c.lexer_stack[i].row_idx <= c.lexer_stack[j].row_idx
    BY DEF Good
  <2>2. N \in 1..N /\ \A i \in 1..N : i <= N
    BY <1>1
  <2> HIDE DEF N, h
  <2> QED BY <1>1, <2>1, <2>2
<1>3. /\ Len(st) = N + 1 /\ st[N + 1] = e
      /\ \A i \in 1..N : st[i] = c.lexer_stack[i]
  <2> DEFINE t == c.lexer_stack
  <2>1. t \in Seq(LexerState) /\ s.lexer_stack = Append(t, e) /\ N = Len(t)
    BY <1>1
  <2> HIDE DEF t, N, h
  <2>2. /\ Len(st) = N + 1 /\ st[N + 1] = e
        /\ \A i \in 1..N : st[i] = t[i]
    BY <2>1, AppendProperties
  <2> QED BY <2>2 DEF t
<1> HIDE DEF N, h, st
<1>4. NumRows(s) = h + 1
  <2>1. Last(st) = e
    BY <1>1, <1>3 DEF Last
  <2> QED BY <2>1 DEF NumRows, Top, st, h
<1>5. ~HasPendingLexemeBytes(s)
  <2> SUFFICES ASSUME HasPendingLexemeBytes(s) PROVE FALSE
    OBVIOUS
  <2>1. PICK i \in 1..Len(st) :
          /\ st[i].byte # NoByte
          /\ \A k \in i..Len(st) : st[k].row_idx = NumRows(s)
    BY DEF HasPendingLexemeBytes, st
  <2>2. CASE i = N + 1
    BY <1>3, <2>1, <2>2
  <2>3. CASE i # N + 1
    <3>1. i \in 1..N /\ i \in i..Len(st)
      BY <1>1, <1>3, <2>1, <2>3
    <3>2. st[i].row_idx = h + 1 /\ st[i].row_idx <= h
      BY <1>2, <1>3, <1>4, <2>1, <3>1
    <3> QED BY <1>1, <3>2
  <2> QED BY <2>2, <2>3
<1> QED BY <1>4, <1>5 DEF h

(* Ending the current lexeme for good does not change whether the text may  *)
(* end here.                                                                *)
LEMMA AcceptingFlush ==
  ASSUME NEW c, Fit(c, TRUE), c.budget = Unlimited, NEW n \in Nat,
         NEW d, d = FlushLexer(c, TRUE, n).chart
  PROVE  /\ Fit(d, TRUE) /\ d.budget = Unlimited /\ Extends(d, c)
         /\ IsAccepting(d) = IsAccepting(c)
<1> DEFINE r == FlushLexer(c, TRUE, n)
           b == Speculative(c)
           q == FlushLexer(b, FALSE, 0)
<1>1. /\ Fit(r.chart, TRUE) /\ r.chart.budget = Unlimited /\ Extends(r.chart, c)
      /\ Len(r.chart.lexer_stack) = Len(c.lexer_stack) => Twin(r.chart, c)
  BY FlushFacts
<1>2. Unbounded(c) /\ Unbounded(d) /\ d = r.chart
  BY <1>1 DEF Fit, Unbounded
<1>3. /\ r.ok \in BOOLEAN
      /\ \/ r.chart.lexer_stack = c.lexer_stack
         \/ /\ r.ok
            /\ HasPendingLexemeBytes(c)
            /\ \E e \in LexerState :
                 /\ r.chart.lexer_stack = Append(c.lexer_stack, e)
                 /\ e.row_idx = NumRows(c) + 1 /\ e.byte = NoByte
  BY FlushLexerFacts DEF Fit
<1>4. CASE r.chart.lexer_stack = c.lexer_stack
  <2>1. Twin(d, c)
    BY <1>1, <1>2, <1>4
  <2>2. IsAccepting(d) = IsAccepting(c)
    BY <1>2, <2>1, ForcedByteSame
  <2> QED BY <1>1, <1>2, <2>2
<1>5. CASE /\ r.ok
           /\ \E e \in LexerState :
                /\ r.chart.lexer_stack = Append(c.lexer_stack, e)
                /\ e.row_idx = NumRows(c) + 1 /\ e.byte = NoByte
  <2>1. PICK e \in LexerState : /\ d.lexer_stack = Append(c.lexer_stack, e)
                                /\ e.row_idx = NumRows(c) + 1 /\ e.byte = NoByte
    BY <1>2, <1>5
  <2>2. Fit(b, FALSE) /\ b.budget = Unlimited /\ Twin(c, b)
    BY <1>2, SpeculativeMore
  <2>3. r.ok = q.ok /\ Twin(r.chart, q.chart)
    BY <2>2, TwinFlush
  <2>4. Good(q.chart)
    BY <2>2, FlushFacts DEF Fit
  <2>5. CurrRow(d) = CurrRow(q.chart)
    BY <1>2, <2>3, <2>4, TwinRow DEF Unbounded
  <2> DEFINE s == Speculative(d)
  <2>6. s.lexer_stack = d.lexer_stack /\ Top(s) = Top(d) /\ CurrRow(s) = CurrRow(d)
    BY <1>2, SpeculativeMore
  <2>10. ~HasPendingLexemeBytes(s)
    <3>1. Good(c) /\ s.lexer_stack = Append(c.lexer_stack, e)
      BY <1>2, <2>1, <2>6 DEF Unbounded
    <3> HIDE DEF s, r, b, q
    <3> QED BY <2>1, <3>1, NothingPending
  <2> HIDE DEF s
  <2>11. FlushLexer(s, FALSE, 0) = Ok(s)
    BY <2>10 DEF FlushLexer
  <2>12. IsAccepting(d) = AcceptingItems(CurrRow(d).items)
    <3>1. Ok(s).ok = TRUE /\ Ok(s).chart = s
      BY DEF Ok
    <3>2. IsAccepting(d) = IsAcceptingAt(Ok(s))
      BY <2>11 DEF IsAccepting, s
    <3> QED BY <2>6, <3>1, <3>2 DEF IsAcceptingAt, AcceptingItems
  <2>13. IsAccepting(c) = AcceptingItems(CurrRow(q.chart).items)
    BY <1>5, <2>3 DEF IsAccepting, IsAcceptingAt, AcceptingItems
  <2> QED BY <1>1, <1>2, <2>5, <2>12, <2>13
<1> QED BY <1>3, <1>4, <1>5

(* A rollback leaves a chart in order that the old one extends, with the    *)
(* entries of the bytes that are left.                                      *)
LEMMA RolledBackFacts ==
  ASSUME NEW c, Fit(c, TRUE), c.budget = Unlimited, NEW k \in Nat,
         k + 1 \in 1..Len(c.lexer_stack),
         NEW d, d = [c EXCEPT !.lexer_stack = SubSeq(@, 1, k + 1)],
         NEW g, g = RolledBack(c, k)
  PROVE  Fit(g, TRUE) /\ g.budget = Unlimited /\ Twin(g, d) /\ Good(d)
<1> DEFINE infos == SubSeq(d.row_infos, 1, NumRows(d))
           e == [d EXCEPT !.row_infos = infos]
<1>1. Good(c) /\ Coherent(c) /\ Defined(c, TRUE) /\ c.row_infos \in Seq(Int)
  BY DEF Fit, Good, ParserChart
<1>2. /\ Good(d) /\ NumRows(d) <= NumRows(c) /\ d.row_infos = c.row_infos
      /\ Coherent(d) /\ d.budget = Unlimited /\ NumRows(d) \in Nat
  <2>1. Good(d) /\ NumRows(d) <= NumRows(c) /\ d.row_infos = c.row_infos
    BY <1>1, TruncateFacts
  <2>2. Fit(d, FALSE) /\ d.budget = c.budget
    BY <1>1, TruncateExtends
  <2>3. NumRows(d) \in Nat
    BY <2>1, TopFacts
  <2> QED BY <2>1, <2>2, <2>3 DEF Fit
<1>3. infos \in Seq(Int) /\ Len(infos) = NumRows(d)
  <2>1. NumRows(c) \in Nat /\ NumRows(c) <= Len(c.row_infos) /\ Len(c.row_infos) \in Nat
    BY <1>1, TopFacts, LenProperties DEF Defined
  <2> DEFINE ri == d.row_infos
             m == NumRows(d)
  <2>2. ri \in Seq(Int) /\ m \in 0..Len(ri)
    BY <1>1, <1>2, <2>1
  <2> HIDE DEF ri, m
  <2>3. SubSeq(ri, 1, m) \in Seq(Int) /\ Len(SubSeq(ri, 1, m)) = m
    BY <2>2, CutAt
  <2> QED BY <2>3 DEF ri, m
<1>4. g = Speculative(e)
  BY DEF RolledBack
<1> HIDE DEF infos
<1>5. /\ Good(e) /\ e.lexer_stack = d.lexer_stack /\ e.rows = d.rows /\ e.row_infos = infos
      /\ e.rows_valid_end = d.rows_valid_end /\ e.budget = Unlimited
  BY <1>2, <1>3 DEF Good, ParserChart
<1> HIDE DEF e
<1>6. Twin(e, d)
  BY <1>5, TwinRefl DEF SameRows
<1>7. Coherent(e)
  BY <1>2, <1>5, CoherentSame DEF Good
<1>8. Twin(g, e) /\ Fit(g, FALSE) /\ g.budget = Unlimited
  BY <1>4, <1>5, <1>7, SpeculativeExtends DEF Twin, SameHeight
<1>9. Twin(g, d)
  BY <1>2, <1>5, <1>6, <1>8, TwinTrans DEF Fit
<1>10. Defined(g, TRUE)
  <2>1. g.row_infos = infos /\ g.lexer_stack = d.lexer_stack
    BY <1>4, <1>5, SpeculativeFacts
  <2>2. NumRows(d) = d.lexer_stack[Len(d.lexer_stack)].row_idx
    BY <1>2, TopFacts
  <2> QED BY <1>2, <1>3, <2>1, <2>2 DEF Defined
<1> QED BY <1>2, <1>8, <1>9, <1>10 DEF Fit

(* What may be forced are bytes, and nothing is where the text may end.     *)
LEMMA ForcedTyped ==
  ASSUME NEW c
  PROVE  /\ ForcedByte(c) \subseteq Byte
         /\ IsAccepting(c) => ForcedByte(c) = {}
<1>1. \A e : AllowedBytes(e) \subseteq Byte
  BY DEF AllowedBytes
<1>2. \A s : NextByteForced(s) \subseteq Byte
  BY DEF NextByteForced
<1>3. ForcedByte(c) \subseteq Byte
  BY <1>1, <1>2, Zenon DEF ForcedByte, OnlyOne
<1> QED BY <1>3 DEF ForcedByte

-----------------------------------------------------------------------------
(* Forced bytes as tokens.                                                  *)
Found == [tokens : Seq(Tokens), at : Nat \ {0}]

(* One of the tokens that fit is the longest.                               *)
LEMMA LongestTyped ==
  ASSUME NEW bs \in Bytes, NEW i \in Nat \ {0}, TokensAt(bs, i) # {}
  PROVE  /\ Longest(TokensAt(bs, i)) \in TokensAt(bs, i)
         /\ \A u \in TokensAt(bs, i) : Len(u) <= Len(Longest(TokensAt(bs, i)))
<1> DEFINE here == TokensAt(bs, i)
           rest == SubSeq(bs, i, Len(bs))
           T == {Len(t) : t \in here}
<1>1. Len(rest) \in Nat
  <2>1. Len(bs) \in Nat /\ \A j \in i..Len(bs) : bs[j] \in Byte
    BY LenProperties, ElementOfSeq DEF Bytes
  <2>2. rest \in Seq(Byte)
    BY <2>1, SubSeqProperties
  <2> QED BY <2>2, LenProperties
<1>2. \A t \in here : t \in Tokens /\ Len(t) <= Len(rest)
  BY DEF TokensAt, IsPrefix
<1>3. \A t \in Tokens : Len(t) \in Nat
  BY MatcherAssumption, LenProperties
<1>10. here # {}
  OBVIOUS
<1> HIDE DEF here, rest
<1>4. T \in SUBSET (0..Len(rest)) /\ T # {}
  <2>1. \A t \in here : Len(t) \in 0..Len(rest)
    BY <1>1, <1>2, <1>3
  <2>2. PICK t \in here : TRUE
    BY <1>10
  <2>3. Len(t) \in T
    BY <2>2
  <2> QED BY <2>1, <2>3
<1>5. PICK n \in T : \A m \in T : n >= m
  <2> HIDE DEF T
  <2> QED BY <1>1, <1>4, GreatestNumber
<1>6. PICK t \in here : Len(t) = n
  BY <1>5
<1>7. \A u \in here : Len(u) <= Len(t)
  BY <1>2, <1>3, <1>5, <1>6
<1>8. \E s \in here : \A u \in here : Len(u) <= Len(s)
  BY <1>7
<1>9. Longest(here) \in here /\ \A u \in here : Len(u) <= Len(Longest(here))
  BY <1>8, Zenon DEF Longest
<1> QED BY <1>9 DEF here

(* A step of greedy_tokenize() finds a token or goes on.                    *)
LEMMA TokenizeOneTyped ==
  ASSUME NEW bs \in Bytes, NEW r \in Found
  PROVE  TokenizeOne(r, bs) \in Found
<1> DEFINE here == TokensAt(bs, r.at)
<1>1. r.tokens \in Seq(Tokens) /\ r.at \in Nat \ {0}
  BY DEF Found
<1>2. CASE r.at > Len(bs)
  BY <1>2 DEF TokenizeOne
<1>3. CASE ~(r.at > Len(bs)) /\ here = {}
  <2>1. TokenizeOne(r, bs) = [r EXCEPT !.at = @ + 1]
    BY <1>3 DEF TokenizeOne
  <2> QED BY <1>1, <2>1 DEF Found
<1>4. CASE ~(r.at > Len(bs)) /\ here # {}
  <2> DEFINE t == Longest(here)
  <2>1. TokenizeOne(r, bs) = [tokens |-> Append(r.tokens, t), at |-> r.at + Len(t)]
    BY <1>4 DEF TokenizeOne
  <2>2. t \in Tokens
    BY <1>1, <1>4, LongestTyped DEF TokensAt
  <2> HIDE DEF t
  <2>3. Len(t) \in Nat
    BY <2>2, MatcherAssumption, LenProperties
  <2>4. Append(r.tokens, t) \in Seq(Tokens)
    BY <1>1, <2>2, AppendProperties
  <2> QED BY <1>1, <2>1, <2>3, <2>4 DEF Found
<1> QED BY <1>2, <1>3, <1>4

(* TokenizedUpTo takes the steps one after the other.                       *)
LEMMA TokenizedSteps ==
  ASSUME NEW bs \in Bytes
  PROVE  LET f == TokenizedUpTo(bs) IN
         /\ f[0] = [tokens |-> <<>>, at |-> 1]
         /\ \A k \in 1..Len(bs) : f[k] = TokenizeOne(f[k - 1], bs)
         /\ \A k \in 0..Len(bs) : f[k] \in Found
<1> DEFINE N == Len(bs)
           base == [tokens |-> <<>>, at |-> 1]
           F == [k \in 1..N |-> [r \in Found |-> TokenizeOne(r, bs)]]
           P(g) == g = [k \in 0..N |-> IF k = 0 THEN base ELSE TokenizeOne(g[k - 1], bs)]
           f == CHOOSE g : P(g)
<1>1. N \in Nat
  BY LenProperties DEF Bytes
<1>2. TokenizedUpTo(bs) = f
  BY Zenon DEF TokenizedUpTo
<1>3. base \in Found
  BY EmptySeq DEF Found
<1>4. F \in [1..N -> [Found -> Found]]
  BY TokenizeOneTyped
<1> HIDE DEF N, base, f
<1>5. PICK g \in [0..N -> Found] : Iterated(g, N, base, F)
  <2> HIDE DEF F, P
  <2> QED BY <1>1, <1>3, <1>4, Iterates
<1>6. \A k \in 0..N : g[k] = IF k = 0 THEN base ELSE TokenizeOne(g[k - 1], bs)
  <2>1. ASSUME NEW k \in 0..N PROVE g[k] = IF k = 0 THEN base ELSE TokenizeOne(g[k - 1], bs)
    <3>2. k # 0 => k - 1 \in 0..N /\ k \in 1..N
      BY <1>1
    <3>1. g[k] = IF k = 0 THEN base ELSE F[k][g[k - 1]]
      <4> HIDE DEF F, P
      <4> QED BY <1>5, <3>2 DEF Iterated
    <3>3. k # 0 => g[k - 1] \in Found
      BY <3>2
    <3> QED BY <3>1, <3>2, <3>3
  <2> QED BY <2>1
<1>7. P(g)
  BY <1>5, <1>6
<1>8. P(f)
  <2> HIDE DEF P
  <2> QED BY <1>7, Zenon DEF f
<1>9. f[0] = base /\ \A k \in 1..N : f[k] = TokenizeOne(f[k - 1], bs)
  <2>1. \A k \in 0..N : f[k] = IF k = 0 THEN base ELSE TokenizeOne(f[k - 1], bs)
    BY <1>8
  <2>2. 0 \in 0..N /\ \A k \in 1..N : k \in 0..N /\ k # 0
    BY <1>1
  <2> HIDE DEF P
  <2> QED BY <2>1, <2>2
<1>10. \A k \in 0..N : f[k] \in Found
  <2> DEFINE Fine == {k \in Nat : f[k] \in Found}
  <2>1. 0 \in Fine
    BY <1>3, <1>9
  <2>2. ASSUME NEW k \in 0..(N - 1), k \in Fine PROVE k + 1 \in Fine
    <3>1. k + 1 \in 1..N /\ (k + 1) - 1 = k
      BY <1>1
    <3>2. f[k + 1] = TokenizeOne(f[k], bs)
      BY <1>9, <3>1
    <3> QED BY <2>2, <3>1, <3>2, TokenizeOneTyped
  <2> HIDE DEF Fine
  <2>3. \A k \in 0..N : k \in Fine
    BY <1>1, <2>1, <2>2, UpTo
  <2> QED BY <2>3 DEF Fine
<1> QED BY <1>2, <1>9, <1>10 DEF base, N

(* greedy_tokenize() makes tokens.                                          *)
LEMMA GreedyTyped ==
  ASSUME NEW bs \in Bytes
  PROVE  GreedyTokenize(bs) \in Seq(Tokens)
<1>1. Len(bs) \in Nat /\ Len(bs) \in 0..Len(bs)
  BY LenProperties DEF Bytes
<1>2. TokenizedUpTo(bs)[Len(bs)] \in Found
  BY <1>1, TokenizedSteps
<1> QED BY <1>2 DEF GreedyTokenize, Found

-----------------------------------------------------------------------------
(* The tokens taken back, and the forced tokens that are left.              *)

(* Tokens are bytes.                                                        *)
LEMMA TokensAreBytes ==
  ASSUME NEW ts \in Seq(Tokens)
  PROVE  ts \in Seq(Bytes) /\ ts \in Texts /\ FlattenSeq(ts) \in Bytes
<1>1. Len(ts) \in Nat /\ \A i \in 1..Len(ts) : ts[i] \in Tokens
  BY LenProperties, ElementOfSeq
<1>2. Tokens \subseteq Bytes
  BY MatcherAssumption DEF Bytes
<1>3. ts \in Seq(Bytes) /\ ts \in Texts
  BY <1>1, <1>2, Z3 DEF Texts
<1>4. FlattenSeq(ts) \in Bytes
  BY <1>3, JoinTyped DEF Bytes
<1> QED BY <1>3, <1>4

(* The last elements of a sequence.                                         *)
LEMMA LastNFacts ==
  ASSUME NEW S, NEW s \in Seq(S), NEW n \in Nat
  PROVE  /\ LastN(s, n) \in Seq(S)
         /\ Len(LastN(s, n)) = IF Len(s) <= n THEN Len(s) ELSE n
<1>1. Len(s) \in Nat
  BY LenProperties
<1>2. CASE Len(s) <= n
  BY <1>2 DEF LastN
<1>3. CASE ~(Len(s) <= n)
  <2> DEFINE m == Len(s) - n
  <2>1. m \in 0..Len(s) /\ Len(s) - n + 1 = m + 1 /\ Len(s) - m = n
    BY <1>1, <1>3
  <2> HIDE DEF m
  <2>2. LastN(s, n) = SubSeq(s, m + 1, Len(s))
    BY <1>3, <2>1 DEF LastN
  <2>3. SubSeq(s, m + 1, Len(s)) \in Seq(S) /\ Len(SubSeq(s, m + 1, Len(s))) = Len(s) - m
    BY <2>1, CutAt
  <2> QED BY <1>3, <2>1, <2>2, <2>3
<1> QED BY <1>2, <1>3

(* There is a longest token.                                                *)
LEMMA MaxTokenLenIs == MaxTokenLen \in Nat /\ \A t \in Tokens : Len(t) <= MaxTokenLen
<1> DEFINE T == {Len(t) : t \in Tokens}
<1>1. PICK seq \in Seq(Tokens) : \A t \in Tokens : \E n \in 1..Len(seq) : t = seq[n]
  BY MatcherAssumption DEF IsFiniteSet
<1>2. Len(seq) \in Nat /\ \A n \in 1..Len(seq) : seq[n] \in Tokens
  BY LenProperties, ElementOfSeq
<1>3. \A t \in Tokens : Len(t) \in Nat
  BY MatcherAssumption, LenProperties
<1>4. PICK m \in Nat : \A n \in 1..Len(seq) : Len(seq[n]) <= m
  <2> DEFINE Bounded == {k \in Nat : \E m \in Nat : \A n \in 1..k : n <= Len(seq) => Len(seq[n]) <= m}
  <2>1. 0 \in Bounded
    OBVIOUS
  <2>2. ASSUME NEW k \in 0..(Len(seq) - 1), k \in Bounded PROVE k + 1 \in Bounded
    <3>1. PICK m \in Nat : \A n \in 1..k : n <= Len(seq) => Len(seq[n]) <= m
      BY <2>2
    <3>2. k + 1 \in 1..Len(seq) /\ Len(seq[k + 1]) \in Nat
      BY <1>2, <1>3
    <3>3. m + Len(seq[k + 1]) \in Nat
          /\ \A n \in 1..(k + 1) : n <= Len(seq) => Len(seq[n]) <= m + Len(seq[k + 1])
      <4>1. ASSUME NEW n \in 1..(k + 1), n <= Len(seq) PROVE Len(seq[n]) <= m + Len(seq[k + 1])
        <5>1. Len(seq[n]) \in Nat
          BY <1>2, <1>3, <4>1
        <5>2. n = k + 1 \/ n \in 1..k
          OBVIOUS
        <5> QED BY <3>1, <3>2, <4>1, <5>1, <5>2
      <4> QED BY <3>2, <4>1
    <3>4. \E q \in Nat : \A n \in 1..(k + 1) : n <= Len(seq) => Len(seq[n]) <= q
      BY <3>3
    <3>5. k + 1 \in Nat
      BY <1>2
    <3> QED BY <3>4, <3>5
  <2> HIDE DEF Bounded
  <2>3. Len(seq) \in Bounded
    <3>1. \A n \in 0..Len(seq) : n \in Bounded
      BY <1>2, <2>1, <2>2, UpTo
    <3> QED BY <1>2, <3>1
  <2> QED BY <1>2, <2>3 DEF Bounded
<1>5. T \in SUBSET (0..m) /\ T # {}
  <2>1. ASSUME NEW t \in Tokens PROVE Len(t) \in 0..m
    <3>1. PICK n \in 1..Len(seq) : t = seq[n]
      BY <1>1
    <3> QED BY <1>3, <1>4, <3>1
  <2>2. Tokens # {}
    BY MatcherAssumption
  <2> QED BY <2>1, <2>2
<1>6. \E n \in T : \A k \in T : n >= k
  <2> HIDE DEF T
  <2> QED BY <1>5, GreatestNumber
<1>7. Max(T) \in T /\ \A k \in T : Max(T) >= k
  <2> HIDE DEF T
  <2> QED BY <1>6, Zenon DEF Max
<1>8. MaxTokenLen = Max(T)
  BY DEF MaxTokenLen
<1>9. Max(T) \in Nat
  <2>1. \A x \in T : x \in Nat
    BY <1>3
  <2> HIDE DEF T
  <2> QED BY <1>7, <2>1, Zenon
<1>10. ASSUME NEW t \in Tokens PROVE Len(t) <= Max(T)
  <2>1. Len(t) \in T /\ Len(t) \in Nat
    BY <1>3
  <2> DEFINE n == Len(t)
             l == Max(T)
  <2> HIDE DEF n, l, T
  <2>2. l >= n
    BY <1>7, <2>1 DEF n, l
  <2> QED BY <1>9, <2>1, <2>2 DEF n, l
<1> QED BY <1>8, <1>9, <1>10

(* chop_tokens() takes back no more tokens than there are.                  *)
LEMMA ChopTyped ==
  ASSUME NEW c, NEW ts \in Seq(Tokens)
  PROVE  ChopTokens(c, ts) \in 0..Len(ts)
<1> DEFINE size(k) == Len(FlattenSeq(LastN(ts, k)))
           suffix == LastN(FlattenSeq(LastN(ts, MaxTokenLookback)), MaxTokenLen)
           open == {n \in 1..Len(suffix) : HasValidExtensions(c, LastN(suffix, n))}
           N == Len(ts)
<1>1. N \in Nat
  BY LenProperties
<1>2. ASSUME NEW k \in Nat
      PROVE  FlattenSeq(LastN(ts, k)) \in Seq(Byte) /\ size(k) \in Nat
  <2>1. LastN(ts, k) \in Seq(Tokens)
    BY LastNFacts
  <2>2. FlattenSeq(LastN(ts, k)) \in Bytes
    BY <2>1, TokensAreBytes
  <2> QED BY <2>2, LenProperties DEF Bytes
<1>3. MaxTokenLookback \in Nat /\ MaxTokenLen \in Nat
  BY MatcherAssumption, MaxTokenLenIs
<1>4. Len(suffix) \in 0..size(MaxTokenLookback)
  <2> DEFINE x == FlattenSeq(LastN(ts, MaxTokenLookback))
  <2>1. x \in Seq(Byte) /\ Len(x) \in Nat
    BY <1>2, <1>3
  <2> HIDE DEF x
  <2>2. LastN(x, MaxTokenLen) \in Seq(Byte)
        /\ Len(LastN(x, MaxTokenLen)) = IF Len(x) <= MaxTokenLen THEN Len(x) ELSE MaxTokenLen
    BY <1>3, <2>1, LastNFacts
  <2> QED BY <1>3, <2>1, <2>2 DEF x
<1>5. ChopTokens(c, ts) = IF open = {} THEN 0 ELSE TokensCovering(ts, Max(open))
  BY DEF ChopTokens
<1>6. CASE open = {}
  BY <1>1, <1>5, <1>6
<1>7. CASE open # {}
  <2> DEFINE chop == Max(open)
             K == {k \in 1..N : size(k) >= chop}
  <2>1. chop \in 1..Len(suffix)
    <3>1. open \in SUBSET (0..Len(suffix)) /\ Len(suffix) \in Nat
          /\ \A n \in open : n \in 1..Len(suffix)
      <4>1. size(MaxTokenLookback) \in Nat
        BY <1>2, <1>3
      <4>2. Len(suffix) \in Nat
        <5> HIDE DEF size, suffix
        <5> QED BY <1>4, <4>1
      <4> HIDE DEF suffix
      <4> QED BY <4>2
    <3> HIDE DEF open, suffix
    <3>2. \E n \in open : \A k \in open : n >= k
      BY <1>7, <3>1, GreatestNumber
    <3>3. Max(open) \in open
      BY <3>2, Zenon DEF Max
    <3> QED BY <3>1, <3>3
  <2> DEFINE k0 == IF N <= MaxTokenLookback THEN N ELSE MaxTokenLookback
  <2>2. k0 \in 0..N /\ LastN(ts, k0) = LastN(ts, MaxTokenLookback)
    <3>1. k0 \in 0..N
      BY <1>1, <1>3
    <3>2. CASE N <= MaxTokenLookback
      <4>1. k0 = N /\ N <= N
        BY <1>1, <3>2
      <4> QED BY <3>2, <4>1 DEF LastN
    <3>3. CASE ~(N <= MaxTokenLookback)
      <4>1. k0 = MaxTokenLookback
        BY <3>3
      <4> QED BY <3>1, <4>1
    <3> QED BY <3>1, <3>2, <3>3
  <2>3. size(k0) >= chop
    BY <1>2, <1>3, <1>4, <2>1, <2>2
  <2>4. k0 # 0
    <3> SUFFICES ASSUME k0 = 0 PROVE FALSE
      OBVIOUS
    <3> DEFINE x == LastN(ts, 0)
    <3>1. x \in Seq(Tokens) /\ Len(x) = 0
      BY <1>1, LastNFacts
    <3> HIDE DEF x
    <3>2. x = <<>>
      BY <3>1, EmptySeq
    <3>3. size(0) = 0
      <4>1. Len(<<>>) = 0
        OBVIOUS
      <4> QED BY <3>2, <4>1, JoinNone DEF x
    <3> QED BY <1>4, <2>1, <2>3, <3>3
  <2> HIDE DEF size, chop, suffix, open
  <2>5. k0 \in K
    BY <1>1, <2>2, <2>3, <2>4
  <2>6. PICK k \in K : \A j \in K : k <= j
    <3>1. K \in SUBSET Nat
      BY <1>1
    <3> HIDE DEF K
    <3> QED BY <2>5, <3>1, LeastNumber
  <2>7. k \in 1..N /\ size(k) >= chop /\ \A j \in 1..k - 1 : size(j) < chop
    <3>1. ASSUME NEW j \in 1..k - 1 PROVE size(j) < chop
      <4>1. j \in 1..N /\ j \in Nat /\ ~(k <= j)
        BY <1>1, <2>6
      <4>2. j \notin K
        BY <2>6, <4>1
      <4>3. ~(size(j) >= chop)
        BY <4>1, <4>2
      <4>4. size(j) \in Nat /\ chop \in Int
        BY <1>2, <2>1, <4>1
      <4> QED BY <4>3, <4>4
    <3> QED BY <2>6, <3>1
  <2>8. TokensCovering(ts, chop)
          = CHOOSE i \in 1..N : size(i) >= chop /\ \A j \in 1..i - 1 : size(j) < chop
    BY Zenon DEF TokensCovering, size, N
  <2>9. TokensCovering(ts, chop) \in 1..N
    <3>1. \E i \in 1..N : size(i) >= chop /\ \A j \in 1..i - 1 : size(j) < chop
      BY <2>7
    <3> HIDE DEF N
    <3> QED BY <2>8, <3>1, Zenon
  <2>10. ChopTokens(c, ts) = TokensCovering(ts, chop)
    BY <1>5, <1>7 DEF chop
  <2> QED BY <1>1, <2>9, <2>10
<1> QED BY <1>6, <1>7

(* What the tokens are made of: forced bytes after the last token.          *)
LEMMA FreshTokensTyped ==
  ASSUME NEW last \in Seq(Tokens), NEW joined \in Seq(Tokens), NEW forced \in Bytes
  PROVE  FreshTokens(last, joined, forced) \in Seq(Tokens)
<1>1. CASE IsPrefix(last, joined)
  <2>1. Len(last) \in 0..Len(joined)
    BY <1>1, PrefixIs, LenProperties
  <2>2. SubSeq(joined, Len(last) + 1, Len(joined)) \in Seq(Tokens)
    BY <2>1, CutAt
  <2> QED BY <1>1, <2>2 DEF FreshTokens
<1>2. CASE ~IsPrefix(last, joined)
  BY <1>2, GreedyTyped DEF FreshTokens
<1> QED BY <1>1, <1>2

(* ff_tokens() answers with tokens and with bytes.                          *)
LEMMA ChoppedTyped ==
  ASSUME NEW c, NEW fresh \in Seq(Tokens)
  PROVE  Chopped(fresh, ChopTokens(c, fresh)) \in FfTokens
<1> DEFINE n == ChopTokens(c, fresh)
           m == Len(fresh) - n
<1>1. n \in 0..Len(fresh) /\ Len(fresh) \in Nat
  BY ChopTyped, LenProperties
<1>2. m \in 0..Len(fresh) /\ n \in Nat
  BY <1>1
<1> HIDE DEF n, m
<1>3. SubSeq(fresh, 1, m) \in Seq(Tokens)
  BY <1>2, CutAt
<1>4. FlattenSeq(LastN(fresh, n)) \in Seq(Byte)
  BY <1>2, LastNFacts, TokensAreBytes DEF Bytes
<1>5. Chopped(fresh, n) = [tokens |-> SubSeq(fresh, 1, m), prefix |-> FlattenSeq(LastN(fresh, n))]
  BY DEF Chopped, m
<1> QED BY <1>3, <1>4, <1>5 DEF FfTokens, n

LastToken(p) == IF p.llm_tokens = <<>> THEN <<>>
                ELSE IF Last(p.llm_tokens) = EOS THEN <<>> ELSE <<Last(p.llm_tokens)>>

(* The last token, if it has bytes.                                         *)
LEMMA LastTokenTyped ==
  ASSUME NEW p, p.llm_tokens \in Texts
  PROVE  LastToken(p) \in Seq(Tokens)
<1> DEFINE ts == p.llm_tokens
<1>1. CASE ts = <<>> \/ Last(ts) = EOS
  <2>1. <<>> \in Seq(Tokens)
    BY EmptySeq
  <2> QED BY <1>1, <2>1 DEF LastToken
<1>2. CASE ~(ts = <<>>) /\ ~(Last(ts) = EOS)
  <2>1. Len(ts) \in 1..Len(ts)
    BY <1>2, LenProperties, EmptySeq DEF Texts
  <2>2. Last(ts) \in Tokens \cup {EOS}
    BY <2>1, ElementOfSeq DEF Texts, Last
  <2>3. Last(ts) \in Tokens
    BY <1>2, <2>2
  <2> QED BY <1>2, <2>3 DEF LastToken
<1> QED BY <1>1, <1>2

(* The tokens of the forced bytes before some are taken back.               *)
FreshOf(p) ==
  FreshTokens(LastToken(p), GreedyTokenize(FlattenSeq(LastToken(p)) \o ForcedBytes(p)),
              ForcedBytes(p))

(* ff_tokens() in terms of them.                                            *)
LEMMA FfTokensAre ==
  ASSUME NEW p, ForcedBytes(p) \in Bytes, p.llm_tokens \in Texts
  PROVE  /\ FreshOf(p) \in Seq(Tokens)
         /\ FfTokensOf(p) =
              IF ForcedBytes(p) = <<>> THEN NoFfTokens
              ELSE IF ~p.tokenize_is_canonical THEN [tokens |-> <<>>, prefix |-> ForcedBytes(p)]
              ELSE Chopped(FreshOf(p), ChopTokens(p.chart, FreshOf(p)))
<1> DEFINE forced == ForcedBytes(p)
           joined == GreedyTokenize(FlattenSeq(LastToken(p)) \o forced)
<1>1. FreshOf(p) \in Seq(Tokens)
  <2>1. LastToken(p) \in Seq(Tokens)
    BY LastTokenTyped
  <2>2. FlattenSeq(LastToken(p)) \in Bytes
    BY <2>1, TokensAreBytes
  <2> DEFINE x == FlattenSeq(LastToken(p))
  <2>3. x \in Bytes /\ forced \in Bytes
    BY <2>2
  <2> HIDE DEF x, forced
  <2>4. x \o forced \in Bytes
    BY <2>3, ConcatProperties DEF Bytes
  <2>5. GreedyTokenize(x \o forced) \in Seq(Tokens)
    BY <2>4, GreedyTyped
  <2>6. joined \in Seq(Tokens)
    BY <2>5 DEF x
  <2>7. FreshOf(p) = FreshTokens(LastToken(p), joined, forced)
    BY DEF FreshOf, forced
  <2> HIDE DEF joined
  <2> QED BY <2>1, <2>3, <2>6, <2>7, FreshTokensTyped
<1> QED BY <1>1 DEF FfTokensOf, LastToken, FreshOf

(* What it answers are tokens and bytes, none when no bytes are forced.     *)
LEMMA FfTokensTyped ==
  ASSUME NEW p, ForcedBytes(p) \in Bytes, p.llm_tokens \in Texts
  PROVE  /\ FfTokensOf(p) \in FfTokens
         /\ ForcedBytes(p) = <<>> => FfTokensOf(p) = NoFfTokens
<1> DEFINE forced == ForcedBytes(p)
           fresh == FreshOf(p)
<1>1. <<>> \in Seq(Tokens) /\ <<>> \in Seq(Byte) /\ forced \in Seq(Byte)
  BY EmptySeq DEF Bytes
<1>2. /\ fresh \in Seq(Tokens)
      /\ FfTokensOf(p) = IF forced = <<>> THEN NoFfTokens
                          ELSE IF ~p.tokenize_is_canonical THEN [tokens |-> <<>>, prefix |-> forced]
                          ELSE Chopped(fresh, ChopTokens(p.chart, fresh))
  BY FfTokensAre
<1> HIDE DEF fresh, forced
<1>3. Chopped(fresh, ChopTokens(p.chart, fresh)) \in FfTokens
  BY <1>2, ChoppedTyped
<1>4. NoFfTokens \in FfTokens /\ [tokens |-> <<>>, prefix |-> forced] \in FfTokens
  BY <1>1 DEF NoFfTokens, FfTokens
<1> QED BY <1>2, <1>3, <1>4 DEF forced

-----------------------------------------------------------------------------
(* A session in order: its chart is that of a parser without an item limit, *)
(* it has taken no more bytes than it has, and every token took one of its  *)
(* budget.                                                                  *)
Sane(p) ==
  /\ p \in TokenParser
  /\ Fit(p.chart, TRUE) /\ p.chart.budget = Unlimited
  /\ p.applied <= Len(p.bytes)
  /\ p.max_tokens_total + Len(p.llm_tokens) = MaxTokensTotal

MayEnd(p) == ForcedBytes(p) = <<>> /\ IsAccepting(p.chart)

AcceptingFresh(p) == p.is_accepting_cache # None => p.is_accepting_cache = MayEnd(p)

(* The forced tokens are cached only after all bytes were forced.           *)
TokensFresh(p) ==
  p.ff_tokens_cache # None =>
    p.last_force_bytes_len = Len(p.bytes) /\ p.ff_tokens_cache = FfTokensOf(p)

Cached(p) == AcceptingFresh(p) /\ TokensFresh(p)

(* The sessions there are, and those whose caches are fresh.                *)
SaneSessions == {p \in TokenParser : Sane(p)}
FreshSessions == {p \in TokenParser : Sane(p) /\ Cached(p)}

(* What the parts of a session are.                                         *)
LEMMA SaneParts ==
  ASSUME NEW p, Sane(p)
  PROVE  /\ p.chart \in ParserChart /\ p.bytes \in Bytes /\ Len(p.bytes) \in Nat
         /\ p.applied \in 0..Len(p.bytes) /\ p.lexer_stack_top_eos \in BOOLEAN
         /\ p.last_force_bytes_len \in Nat \cup {Never}
         /\ p.llm_tokens \in Texts /\ Len(p.llm_tokens) \in Nat
         /\ p.max_tokens_total \in Nat /\ MaxTokensTotal \in Nat
         /\ p.stop_reason \in StopReason
         /\ p.is_accepting_cache \in BOOLEAN \cup {None}
         /\ p.ff_tokens_cache \in FfTokens \cup {None}
         /\ p.tokenize_is_canonical \in BOOLEAN
         /\ p # MatcherError
<1>1. /\ p.chart \in ParserChart /\ p.bytes \in Seq(Byte)
      /\ p.applied \in Nat /\ p.lexer_stack_top_eos \in BOOLEAN
      /\ p.last_force_bytes_len \in Nat \cup {Never}
      /\ p.llm_tokens \in Seq(Tokens \cup {EOS}) /\ p.max_tokens_total \in 0..MaxTokensTotal
      /\ p.stop_reason \in StopReason
      /\ p.is_accepting_cache \in BOOLEAN \cup {None}
      /\ p.ff_tokens_cache \in FfTokens \cup {None}
      /\ p.tokenize_is_canonical \in BOOLEAN
  BY DEF Sane, TokenParser
<1>2. MaxTokensTotal \in Nat
  BY MatcherAssumption
<1>3. Len(p.bytes) \in Nat /\ Len(p.llm_tokens) \in Nat
  BY <1>1, LenProperties
<1>4. p.applied <= Len(p.bytes) /\ p \in TokenParser
  BY DEF Sane
<1>5. p # MatcherError
  BY <1>4, SessionAssumption
<1> QED BY <1>1, <1>2, <1>3, <1>4, <1>5 DEF Bytes, Texts

(* The forced bytes are what is beyond the bytes applied.                   *)
LEMMA ForcedBytesAre ==
  ASSUME NEW p, Sane(p)
  PROVE  /\ ForcedBytes(p) \in Bytes
         /\ Len(ForcedBytes(p)) = Len(p.bytes) - p.applied
         /\ ForcedBytes(p) = <<>> <=> p.applied = Len(p.bytes)
         /\ SubSeq(p.bytes, 1, p.applied) \in Bytes
         /\ SubSeq(p.bytes, 1, p.applied) \o ForcedBytes(p) = p.bytes
<1> DEFINE bs == p.bytes
           n == p.applied
<1>1. bs \in Seq(Byte) /\ n \in 0..Len(bs) /\ Len(bs) \in Nat
  BY SaneParts DEF Bytes
<1>2. ForcedBytes(p) = SubSeq(bs, n + 1, Len(bs))
  BY DEF ForcedBytes
<1> HIDE DEF bs, n
<1>3. /\ SubSeq(bs, n + 1, Len(bs)) \in Seq(Byte)
      /\ Len(SubSeq(bs, n + 1, Len(bs))) = Len(bs) - n
      /\ SubSeq(bs, 1, n) \in Seq(Byte)
      /\ SubSeq(bs, 1, n) \o SubSeq(bs, n + 1, Len(bs)) = bs
  BY <1>1, CutAt
<1>4. ForcedBytes(p) = <<>> <=> n = Len(bs)
  <2> DEFINE F == SubSeq(bs, n + 1, Len(bs))
  <2>1. F \in Seq(Byte) /\ Len(F) = Len(bs) - n
    BY <1>3
  <2> HIDE DEF F
  <2>2. F = <<>> <=> Len(F) = 0
    BY <2>1, EmptySeq
  <2>3. Len(F) = 0 <=> n = Len(bs)
    BY <1>1, <2>1
  <2> QED BY <1>2, <2>2, <2>3 DEF F
<1> QED BY <1>2, <1>3, <1>4 DEF bs, n, Bytes

(* None is neither of the answers.                                          *)
LEMMA NoneIsNot ==
  /\ TRUE # None /\ FALSE # None
  /\ \A ff \in FfTokens : ff # None
<1> QED BY MatcherAssumption

(* The answer of is_accepting() is right, cached or not.                    *)
LEMMA AcceptingRight ==
  ASSUME NEW p, Sane(p), AcceptingFresh(p)
  PROVE  /\ Accepting(p) = MayEnd(p) /\ MayEnd(p) \in BOOLEAN
         /\ WithAccepting(p) \in SaneSessions
         /\ WithAccepting(p).is_accepting_cache = MayEnd(p)
         /\ AcceptingFresh(WithAccepting(p))
         /\ TokensFresh(p) => Cached(WithAccepting(p))
<1>1. MayEnd(p) \in BOOLEAN
  BY DEF MayEnd, IsAccepting, IsAcceptingAt
<1>2. Accepting(p) = MayEnd(p)
  BY DEF Accepting, MayEnd, AcceptingFresh
<1> DEFINE q == WithAccepting(p)
<1>3. q = [p EXCEPT !.is_accepting_cache = MayEnd(p)]
  BY <1>2 DEF WithAccepting
<1>4. p \in TokenParser
  BY DEF Sane
<1> DEFINE v == MayEnd(p)
<1>10. v \in BOOLEAN /\ q = [p EXCEPT !.is_accepting_cache = v] /\ v = MayEnd(p)
  BY <1>1, <1>3
<1> HIDE DEF q, v
<1>5. /\ q \in TokenParser /\ q.is_accepting_cache = v
      /\ q.chart = p.chart /\ q.bytes = p.bytes /\ q.applied = p.applied
      /\ q.llm_tokens = p.llm_tokens /\ q.max_tokens_total = p.max_tokens_total
      /\ q.last_force_bytes_len = p.last_force_bytes_len
      /\ q.ff_tokens_cache = p.ff_tokens_cache
      /\ q.tokenize_is_canonical = p.tokenize_is_canonical
  BY <1>4, <1>10 DEF TokenParser
<1>6. Sane(q)
  BY <1>5 DEF Sane
<1>7. MayEnd(q) = v /\ FfTokensOf(q) = FfTokensOf(p)
  <2>1. ForcedBytes(q) = ForcedBytes(p)
    BY <1>5 DEF ForcedBytes
  <2> QED BY <1>5, <1>10, <2>1 DEF MayEnd, FfTokensOf
<1>8. AcceptingFresh(q)
  BY <1>5, <1>7 DEF AcceptingFresh
<1>9. TokensFresh(p) => TokensFresh(q)
  BY <1>5, <1>7 DEF TokensFresh
<1> QED BY <1>1, <1>2, <1>5, <1>6, <1>8, <1>9, <1>10 DEF q, SaneSessions, Cached

-----------------------------------------------------------------------------
(* Forcing bytes.                                                           *)

(* What a byte pushed does to a session; the byte is applied or forced.     *)
Pushed(p, q, r, b, k) ==
  /\ Sane(q)
  /\ q.chart = r.chart /\ q.bytes = Append(p.bytes, b) /\ q.applied = k
  /\ Len(q.bytes) = Len(p.bytes) + 1
  /\ q.is_accepting_cache = p.is_accepting_cache
  /\ q.ff_tokens_cache = p.ff_tokens_cache
  /\ q.tokenize_is_canonical = p.tokenize_is_canonical
  /\ q.llm_tokens = p.llm_tokens
  /\ q.lexer_stack_top_eos = p.lexer_stack_top_eos
  /\ q.last_force_bytes_len = p.last_force_bytes_len
  /\ q.stop_reason = p.stop_reason

(* A byte that the chart was asked to take, and that is added to the bytes. *)
LEMMA PushedSession ==
  ASSUME NEW p, Sane(p), NEW b \in Byte, NEW n \in Nat,
         NEW r, r = TryPushByte(p.chart, b, TRUE, n), NEW k \in 0..(Len(p.bytes) + 1),
         NEW q, q = [p EXCEPT !.chart = r.chart, !.bytes = Append(@, b), !.applied = k]
  PROVE  Pushed(p, q, r, b, k)
<1>1. p.chart \in ParserChart /\ p.bytes \in Seq(Byte) /\ Len(p.bytes) \in Nat
  BY SaneParts DEF Bytes
<1>2. /\ p \in TokenParser /\ Fit(p.chart, TRUE) /\ p.chart.budget = Unlimited
      /\ p.max_tokens_total + Len(p.llm_tokens) = MaxTokensTotal
  BY DEF Sane
<1>3. Fit(r.chart, TRUE) /\ r.chart.budget = Unlimited
  BY <1>2, TwinRefused
<1>4. r.chart \in ParserChart
  BY <1>3 DEF Fit, Good
<1>5. Append(p.bytes, b) \in Seq(Byte) /\ Len(Append(p.bytes, b)) = Len(p.bytes) + 1
  BY <1>1, AppendProperties
<1> DEFINE c == r.chart
           bs == Append(p.bytes, b)
<1>6. c \in ParserChart /\ bs \in Seq(Byte) /\ k \in Nat
      /\ q = [p EXCEPT !.chart = c, !.bytes = bs, !.applied = k]
  <2>1. q = [p EXCEPT !.chart = c, !.bytes = bs, !.applied = k]
    OBVIOUS
  <2>2. k \in Nat
    BY <1>1
  <2>3. c \in ParserChart /\ bs \in Seq(Byte)
    BY <1>4, <1>5
  <2> QED BY <2>1, <2>2, <2>3
<1>7. k <= Len(bs) /\ Len(bs) = Len(p.bytes) + 1
  BY <1>1, <1>5
<1>8. Fit(c, TRUE) /\ c.budget = Unlimited
  BY <1>3
<1> HIDE DEF c, bs
<1>9. /\ q \in TokenParser
      /\ q.chart = c /\ q.bytes = bs /\ q.applied = k
      /\ q.is_accepting_cache = p.is_accepting_cache
      /\ q.ff_tokens_cache = p.ff_tokens_cache
      /\ q.tokenize_is_canonical = p.tokenize_is_canonical
      /\ q.llm_tokens = p.llm_tokens
      /\ q.max_tokens_total = p.max_tokens_total
      /\ q.lexer_stack_top_eos = p.lexer_stack_top_eos
      /\ q.last_force_bytes_len = p.last_force_bytes_len
      /\ q.stop_reason = p.stop_reason
  BY <1>2, <1>6 DEF TokenParser
<1>10. Sane(q)
  BY <1>2, <1>7, <1>8, <1>9 DEF Sane
<1> QED BY <1>7, <1>9, <1>10 DEF c, bs, Pushed

(* A byte is forced, if any, where the text may not end: is_accepting()     *)
(* says no before and after.                                                *)
ForcedByOne(p, q) ==
  /\ Sane(q)
  /\ q.applied = p.applied
  /\ AcceptingFresh(p) => AcceptingFresh(q)
  /\ q.ff_tokens_cache = p.ff_tokens_cache
  /\ q.tokenize_is_canonical = p.tokenize_is_canonical
  /\ q.llm_tokens = p.llm_tokens
  /\ q.lexer_stack_top_eos = p.lexer_stack_top_eos
  /\ q.last_force_bytes_len = p.last_force_bytes_len
  /\ q.stop_reason = p.stop_reason

(* Steps of forcing, one after the other.                                   *)
LEMMA ForcedByTwo ==
  ASSUME NEW p, NEW q, NEW s, ForcedByOne(p, q), ForcedByOne(q, s)
  PROVE  ForcedByOne(p, s)
<1> QED BY DEF ForcedByOne

(* One step of force_bytes().                                               *)
LEMMA ForceOneFacts ==
  ASSUME NEW p, Sane(p), NEW q, q = ForceOne(p, ForcedByte(p.chart))
  PROVE  /\ ForcedByOne(p, q)
         /\ \/ q = p
            \/ \E b \in ForcedByte(p.chart) :
                 LET r == TryPushByte(p.chart, b, TRUE, Len(p.bytes)) IN
                 /\ r.ok /\ q.chart = r.chart /\ q.bytes = Append(p.bytes, b)
<1> DEFINE forced == ForcedByte(p.chart)
           b == CHOOSE x \in forced : TRUE
           r == TryPushByte(p.chart, b, TRUE, Len(p.bytes))
<1>1. /\ forced \subseteq Byte
      /\ IsAccepting(p.chart) => forced = {}
  BY ForcedTyped
<1>2. q = IF forced = {} THEN p ELSE PushForced(p, r, b)
  BY DEF ForceOne
<1> HIDE DEF forced
<1>3. CASE forced = {} \/ ~r.ok
  <2>1. q = p
    BY <1>2, <1>3 DEF PushForced
  <2> QED BY <2>1 DEF ForcedByOne
<1>4. CASE forced # {} /\ r.ok
  <2>1. b \in forced /\ b \in Byte
    BY <1>1, <1>4
  <2> HIDE DEF b
  <2>2. q = [p EXCEPT !.chart = r.chart, !.bytes = Append(@, b)]
    BY <1>2, <1>4 DEF PushForced
  <2>3. Len(p.bytes) \in Nat /\ p.applied \in 0..Len(p.bytes) /\ p \in TokenParser
    BY SaneParts DEF Sane
  <2>4. q = [p EXCEPT !.chart = r.chart, !.bytes = Append(@, b), !.applied = p.applied]
    BY <2>2, <2>3 DEF TokenParser
  <2>5. p.applied \in 0..(Len(p.bytes) + 1)
    BY <2>3
  <2> DEFINE k == p.applied
  <2>6. k \in 0..(Len(p.bytes) + 1) /\ r = TryPushByte(p.chart, b, TRUE, Len(p.bytes))
        /\ q = [p EXCEPT !.chart = r.chart, !.bytes = Append(@, b), !.applied = k]
    BY <2>4, <2>5
  <2> HIDE DEF r, k
  <2>7. /\ Sane(q)
        /\ q.chart = r.chart /\ q.bytes = Append(p.bytes, b) /\ q.applied = k
        /\ Len(q.bytes) = Len(p.bytes) + 1
        /\ q.is_accepting_cache = p.is_accepting_cache
        /\ q.ff_tokens_cache = p.ff_tokens_cache
        /\ q.tokenize_is_canonical = p.tokenize_is_canonical
        /\ q.llm_tokens = p.llm_tokens
        /\ q.lexer_stack_top_eos = p.lexer_stack_top_eos
        /\ q.last_force_bytes_len = p.last_force_bytes_len
        /\ q.stop_reason = p.stop_reason
    <3>1. Pushed(p, q, r, b, k)
      BY <2>1, <2>3, <2>6, PushedSession
    <3> QED BY <3>1 DEF Pushed
  <2>8. AcceptingFresh(p) => AcceptingFresh(q)
    <3>1. ~MayEnd(p)
      BY <1>1, <1>4 DEF MayEnd
    <3>2. ForcedBytes(q) # <<>>
      <4>1. ForcedBytes(q) = <<>> <=> q.applied = Len(q.bytes)
        BY <2>7, ForcedBytesAre
      <4>2. q.applied = p.applied
        BY <2>7 DEF k
      <4> QED BY <2>3, <2>7, <4>1, <4>2
    <3>3. MayEnd(p) = FALSE /\ MayEnd(q) = FALSE
      BY <3>1, <3>2 DEF MayEnd
    <3> QED BY <2>7, <3>3 DEF AcceptingFresh
  <2>9. ForcedByOne(p, q)
    BY <2>7, <2>8 DEF ForcedByOne, k
  <2> QED BY <1>4, <2>1, <2>7, <2>9 DEF r, forced
<1> QED BY <1>3, <1>4

(* ForcedUpTo takes the steps one after the other.                          *)
LEMMA ForcedSteps ==
  ASSUME NEW p, Sane(p)
  PROVE  LET f == ForcedUpTo(p) IN
         /\ Room(p) \in Nat
         /\ f[0] = p
         /\ \A k \in 1..Room(p) : f[k] = ForceOne(f[k - 1], ForcedByte(f[k - 1].chart))
         /\ \A k \in 0..Room(p) : ForcedByOne(p, f[k])
<1> DEFINE N == Room(p)
           F == [k \in 1..N |-> [q \in SaneSessions |-> ForceOne(q, ForcedByte(q.chart))]]
           P(g) == g = [k \in 0..N |-> IF k = 0 THEN p
                                       ELSE ForceOne(g[k - 1], ForcedByte(g[k - 1].chart))]
           f == CHOOSE g : P(g)
<1>1. N \in Nat
  <2>1. Len(p.bytes) \in Nat /\ MaxBytes \in Nat
    BY SaneParts, MatcherAssumption
  <2> QED BY <2>1 DEF Room
<1>2. ForcedUpTo(p) = f
  BY Zenon DEF ForcedUpTo
<1>3. p \in SaneSessions
  BY DEF SaneSessions, Sane
<1>4. F \in [1..N -> [SaneSessions -> SaneSessions]]
  <2>1. ASSUME NEW q \in SaneSessions PROVE ForceOne(q, ForcedByte(q.chart)) \in SaneSessions
    <3>1. Sane(q)
      BY DEF SaneSessions
    <3> DEFINE s == ForceOne(q, ForcedByte(q.chart))
    <3> HIDE DEF s
    <3>2. Sane(s)
      BY <3>1, ForceOneFacts DEF ForcedByOne, s
    <3> QED BY <3>2 DEF SaneSessions, Sane, s
  <2> QED BY <2>1
<1> HIDE DEF N, f
<1>5. PICK g \in [0..N -> SaneSessions] : Iterated(g, N, p, F)
  <2> HIDE DEF F, P
  <2> QED BY <1>1, <1>3, <1>4, Iterates
<1>6. \A k \in 0..N : g[k] = IF k = 0 THEN p ELSE ForceOne(g[k - 1], ForcedByte(g[k - 1].chart))
  <2>1. ASSUME NEW k \in 0..N
        PROVE  g[k] = IF k = 0 THEN p ELSE ForceOne(g[k - 1], ForcedByte(g[k - 1].chart))
    <3>2. k # 0 => k - 1 \in 0..N /\ k \in 1..N
      BY <1>1
    <3>1. g[k] = IF k = 0 THEN p ELSE F[k][g[k - 1]]
      <4> HIDE DEF F, P
      <4> QED BY <1>5, <3>2 DEF Iterated
    <3>3. k # 0 => g[k - 1] \in SaneSessions
      BY <3>2
    <3> QED BY <3>1, <3>2, <3>3
  <2> QED BY <2>1
<1>7. P(g)
  BY <1>5, <1>6
<1>8. P(f)
  <2> HIDE DEF P
  <2> QED BY <1>7, Zenon DEF f
<1>9. f[0] = p /\ \A k \in 1..N : f[k] = ForceOne(f[k - 1], ForcedByte(f[k - 1].chart))
  <2>1. \A k \in 0..N : f[k] = IF k = 0 THEN p
                               ELSE ForceOne(f[k - 1], ForcedByte(f[k - 1].chart))
    BY <1>8
  <2>2. 0 \in 0..N /\ \A k \in 1..N : k \in 0..N /\ k # 0
    BY <1>1
  <2> HIDE DEF P
  <2> QED BY <2>1, <2>2
<1>10. \A k \in 0..N : ForcedByOne(p, f[k])
  <2> DEFINE Fine == {k \in Nat : ForcedByOne(p, f[k])}
  <2>1. 0 \in Fine
    BY <1>9 DEF ForcedByOne
  <2>2. ASSUME NEW k \in 0..(N - 1), k \in Fine PROVE k + 1 \in Fine
    <3>1. k + 1 \in 1..N /\ (k + 1) - 1 = k
      BY <1>1
    <3>2. f[k + 1] = ForceOne(f[k], ForcedByte(f[k].chart))
      BY <1>9, <3>1
    <3>3. Sane(f[k])
      BY <2>2 DEF ForcedByOne
    <3>4. ForcedByOne(f[k], f[k + 1])
      BY <3>2, <3>3, ForceOneFacts
    <3> QED BY <2>2, <3>1, <3>4, ForcedByTwo
  <2> HIDE DEF Fine
  <2>3. \A k \in 0..N : k \in Fine
    BY <1>1, <2>1, <2>2, UpTo
  <2> QED BY <2>3 DEF Fine
<1> QED BY <1>1, <1>2, <1>9, <1>10 DEF N

(* What force_bytes() keeps, and that its answer is known to be complete.   *)
ForcedOn(p, q) ==
  /\ Sane(q)
  /\ q.applied = p.applied
  /\ q.last_force_bytes_len = Len(q.bytes)
  /\ q.tokenize_is_canonical = p.tokenize_is_canonical
  /\ q.llm_tokens = p.llm_tokens
  /\ q.lexer_stack_top_eos = p.lexer_stack_top_eos
  /\ q.stop_reason = p.stop_reason
  /\ Cached(p) => Cached(q)

(* force_bytes().                                                           *)
LEMMA ForceBytesFacts ==
  ASSUME NEW p, Sane(p)
  PROVE  ForcedOn(p, ForceBytes(p))
<1>1. CASE p.last_force_bytes_len = Len(p.bytes)
  <2>1. ForceBytes(p) = p
    BY <1>1 DEF ForceBytes
  <2> QED BY <1>1, <2>1 DEF ForcedOn
<1>2. CASE p.last_force_bytes_len # Len(p.bytes)
  <2> DEFINE s == ForcedUpTo(p)[Room(p)]
             q == ForceBytes(p)
  <2>1. ForcedByOne(p, s)
    <3>1. Room(p) \in 0..Room(p)
      BY ForcedSteps
    <3> QED BY <3>1, ForcedSteps
  <2>2. q = ForcedAll(s)
    BY <1>2 DEF ForceBytes
  <2> HIDE DEF s, q
  <2>3. Sane(s) /\ s \in TokenParser /\ Len(s.bytes) \in Nat
    BY <2>1, SaneParts DEF ForcedByOne, Sane
  <2>4. q = [s EXCEPT !.last_force_bytes_len = Len(s.bytes)]
    BY <2>2 DEF ForcedAll
  <2>5. /\ q \in TokenParser /\ q.last_force_bytes_len = Len(s.bytes)
        /\ q.chart = s.chart /\ q.bytes = s.bytes /\ q.applied = s.applied
        /\ q.lexer_stack_top_eos = s.lexer_stack_top_eos
        /\ q.llm_tokens = s.llm_tokens /\ q.max_tokens_total = s.max_tokens_total
        /\ q.stop_reason = s.stop_reason
        /\ q.is_accepting_cache = s.is_accepting_cache
        /\ q.ff_tokens_cache = s.ff_tokens_cache
        /\ q.tokenize_is_canonical = s.tokenize_is_canonical
    <3> DEFINE n == Len(s.bytes)
    <3>1. n \in Nat /\ s \in TokenParser /\ q = [s EXCEPT !.last_force_bytes_len = n]
      BY <2>3, <2>4
    <3> HIDE DEF n
    <3>2. /\ q \in TokenParser /\ q.last_force_bytes_len = n
          /\ q.chart = s.chart /\ q.bytes = s.bytes /\ q.applied = s.applied
          /\ q.lexer_stack_top_eos = s.lexer_stack_top_eos
          /\ q.llm_tokens = s.llm_tokens /\ q.max_tokens_total = s.max_tokens_total
          /\ q.stop_reason = s.stop_reason
          /\ q.is_accepting_cache = s.is_accepting_cache
          /\ q.ff_tokens_cache = s.ff_tokens_cache
          /\ q.tokenize_is_canonical = s.tokenize_is_canonical
      BY <3>1 DEF TokenParser
    <3> QED BY <3>2 DEF n
  <2>6. Sane(q)
    BY <2>3, <2>5 DEF Sane
  <2>7. Cached(p) => Cached(q)
    <3> SUFFICES ASSUME Cached(p) PROVE Cached(q)
      OBVIOUS
    <3>1. AcceptingFresh(s)
      BY <2>1 DEF ForcedByOne, Cached
    <3>2. p.ff_tokens_cache = None
      BY <1>2 DEF Cached, TokensFresh
    <3>3. q.ff_tokens_cache = None
      BY <2>1, <2>5, <3>2 DEF ForcedByOne
    <3>4. MayEnd(q) = MayEnd(s)
      BY <2>5 DEF MayEnd, ForcedBytes
    <3>5. AcceptingFresh(q)
      BY <2>5, <3>1, <3>4 DEF AcceptingFresh
    <3> QED BY <3>3, <3>5 DEF Cached, TokensFresh
  <2> QED BY <2>1, <2>5, <2>6, <2>7 DEF ForcedOn, ForcedByOne, q
<1> QED BY <1>1, <1>2

(* Forced bytes are only computed for a canonical tokenizer.                *)
LEMMA ForcedFacts ==
  ASSUME NEW p, Sane(p), NEW q, q = Forced(p)
  PROVE  /\ Sane(q) /\ q.applied = p.applied /\ q.llm_tokens = p.llm_tokens
         /\ q.tokenize_is_canonical = p.tokenize_is_canonical
         /\ q.lexer_stack_top_eos = p.lexer_stack_top_eos
         /\ q.stop_reason = p.stop_reason
         /\ Cached(p) => Cached(q)
         /\ p.ff_tokens_cache # None /\ Cached(p) => q = p
<1>1. CASE p.tokenize_is_canonical
  <2>1. q = ForceBytes(p)
    BY <1>1 DEF Forced
  <2>2. p.ff_tokens_cache # None /\ Cached(p) => q = p
    BY <2>1 DEF Cached, TokensFresh, ForceBytes
  <2>3. ForcedOn(p, q)
    BY <2>1, ForceBytesFacts
  <2> QED BY <2>2, <2>3 DEF ForcedOn
<1>2. CASE ~p.tokenize_is_canonical
  BY <1>2 DEF Forced
<1> QED BY <1>1, <1>2

-----------------------------------------------------------------------------
(* Tokens applied.                                                          *)

(* What applying bytes keeps; the caches are empty by then.                 *)
AppliedBy(p, q) ==
  /\ Sane(q)
  /\ q.is_accepting_cache = p.is_accepting_cache
  /\ q.ff_tokens_cache = p.ff_tokens_cache
  /\ q.tokenize_is_canonical = p.tokenize_is_canonical
  /\ q.llm_tokens = p.llm_tokens
  /\ q.lexer_stack_top_eos = p.lexer_stack_top_eos
  /\ q.last_force_bytes_len = p.last_force_bytes_len
  /\ q.stop_reason = p.stop_reason

(* A byte applied is one of those forced before, or a new one.              *)
ByteTaken(p, b, q) == q.chart = p.chart /\ q.bytes = p.bytes /\ p.bytes[p.applied + 1] = b
ByteAdded(p, b, q) ==
  LET r == TryPushByte(p.chart, b, TRUE, Len(p.bytes))
  IN  r.ok /\ q.chart = r.chart /\ q.bytes = Append(p.bytes, b)

(* One or the other is what applying a byte does.                           *)
LEMMA ApplyByteFacts ==
  ASSUME NEW p, Sane(p), NEW b \in Byte, NEW q, q = ApplyByte(p, b), q # MatcherError
  PROVE  /\ AppliedBy(p, q) /\ q.applied = p.applied + 1
         /\ p.applied < Len(p.bytes) => ByteTaken(p, b, q)
         /\ ~(p.applied < Len(p.bytes)) => ByteAdded(p, b, q)
<1> DEFINE r == TryPushByte(p.chart, b, TRUE, Len(p.bytes))
           k == p.applied + 1
<1>1. /\ p \in TokenParser /\ Fit(p.chart, TRUE) /\ p.chart.budget = Unlimited
      /\ p.max_tokens_total + Len(p.llm_tokens) = MaxTokensTotal
  BY DEF Sane
<1>2. Len(p.bytes) \in Nat /\ p.applied \in 0..Len(p.bytes)
  BY SaneParts
<1>3. CASE p.applied < Len(p.bytes)
  <2>1. p.bytes[p.applied + 1] = b /\ q = [p EXCEPT !.applied = k]
    BY <1>3 DEF ApplyByte
  <2>2. k \in Nat /\ k <= Len(p.bytes)
    BY <1>2, <1>3
  <2> HIDE DEF k
  <2>3. /\ q \in TokenParser
        /\ q.chart = p.chart /\ q.bytes = p.bytes /\ q.applied = k
        /\ q.is_accepting_cache = p.is_accepting_cache
        /\ q.ff_tokens_cache = p.ff_tokens_cache
        /\ q.tokenize_is_canonical = p.tokenize_is_canonical
        /\ q.llm_tokens = p.llm_tokens
        /\ q.max_tokens_total = p.max_tokens_total
        /\ q.lexer_stack_top_eos = p.lexer_stack_top_eos
        /\ q.last_force_bytes_len = p.last_force_bytes_len
        /\ q.stop_reason = p.stop_reason
    BY <1>1, <2>1, <2>2 DEF TokenParser
  <2>4. Sane(q)
    BY <1>1, <2>2, <2>3 DEF Sane
  <2> QED BY <1>3, <2>1, <2>3, <2>4 DEF AppliedBy, ByteTaken, k
<1>4. CASE ~(p.applied < Len(p.bytes))
  <2>1. q = ApplyNewByte(p, r, b)
    BY <1>4 DEF ApplyByte
  <2>2. r.ok /\ q = [p EXCEPT !.chart = r.chart, !.bytes = Append(@, b), !.applied = @ + 1]
    BY <2>1 DEF ApplyNewByte
  <2>3. q = [p EXCEPT !.chart = r.chart, !.bytes = Append(@, b), !.applied = k]
    BY <2>2
  <2>4. k \in 0..(Len(p.bytes) + 1) /\ Len(p.bytes) \in Nat
        /\ r = TryPushByte(p.chart, b, TRUE, Len(p.bytes))
    BY <1>2
  <2> HIDE DEF r, k
  <2>5. Pushed(p, q, r, b, k)
    BY <2>3, <2>4, PushedSession
  <2> QED BY <1>4, <2>2, <2>5 DEF Pushed, AppliedBy, ByteAdded, r, k
<1> QED BY <1>3, <1>4

(* What comes of p and of bytes applied to it, as far as they are.          *)
Outcomes == SaneSessions \cup {MatcherError}
ApplyNext(q, b) == IF q = MatcherError THEN q ELSE ApplyByte(q, b)

(* A byte more leaves a session in order, or none.                          *)
LEMMA ApplyNextTyped ==
  ASSUME NEW q \in Outcomes, NEW b \in Byte
  PROVE  ApplyNext(q, b) \in Outcomes
<1> DEFINE s == ApplyNext(q, b)
<1>1. CASE q # MatcherError /\ s # MatcherError
  <2>1. Sane(q) /\ s = ApplyByte(q, b)
    BY <1>1 DEF Outcomes, SaneSessions, ApplyNext
  <2> HIDE DEF s
  <2>2. Sane(s)
    BY <1>1, <2>1, ApplyByteFacts DEF AppliedBy
  <2> QED BY <2>2 DEF Outcomes, SaneSessions, Sane, s
<1>2. CASE ~(q # MatcherError /\ s # MatcherError)
  BY <1>2 DEF Outcomes, ApplyNext
<1> QED BY <1>1, <1>2

(* AppliedUpTo takes the bytes one after the other.                         *)
LEMMA AppliedSteps ==
  ASSUME NEW p, Sane(p), NEW bs \in Bytes
  PROVE  LET f == AppliedUpTo(p, bs) IN
         /\ Len(bs) \in Nat
         /\ f[0] = p
         /\ \A k \in 1..Len(bs) : f[k] = ApplyNext(f[k - 1], bs[k])
         /\ \A k \in 0..Len(bs) : f[k] = MatcherError \/ AppliedBy(p, f[k])
<1> DEFINE N == Len(bs)
           F == [k \in 1..N |-> [q \in Outcomes |-> ApplyNext(q, bs[k])]]
           P(g) == g = [k \in 0..N |-> IF k = 0 THEN p
                                       ELSE LET q == g[k - 1]
                                            IN  IF q = MatcherError THEN q ELSE ApplyByte(q, bs[k])]
           f == CHOOSE g : P(g)
<1>1. N \in Nat
  BY LenProperties DEF Bytes
<1>2. AppliedUpTo(p, bs) = f
  BY Zenon DEF AppliedUpTo
<1>3. p \in Outcomes
  BY DEF Outcomes, SaneSessions, Sane
<1>14. \A k \in 1..N : bs[k] \in Byte
  BY ElementOfSeq DEF Bytes
<1>4. F \in [1..N -> [Outcomes -> Outcomes]]
  BY <1>14, ApplyNextTyped
<1> HIDE DEF N, f
<1>5. PICK g \in [0..N -> Outcomes] : Iterated(g, N, p, F)
  <2> HIDE DEF F, P
  <2> QED BY <1>1, <1>3, <1>4, Iterates
<1>6. \A k \in 0..N : g[k] = IF k = 0 THEN p ELSE ApplyNext(g[k - 1], bs[k])
  <2>1. ASSUME NEW k \in 0..N
        PROVE  g[k] = IF k = 0 THEN p ELSE ApplyNext(g[k - 1], bs[k])
    <3>2. k # 0 => k - 1 \in 0..N /\ k \in 1..N
      BY <1>1
    <3>1. g[k] = IF k = 0 THEN p ELSE F[k][g[k - 1]]
      <4> HIDE DEF F, P
      <4> QED BY <1>5, <3>2 DEF Iterated
    <3>3. k # 0 => g[k - 1] \in Outcomes
      BY <3>2
    <3> QED BY <3>1, <3>2, <3>3
  <2> QED BY <2>1
<1>7. P(g)
  BY <1>5, <1>6 DEF ApplyNext
<1>8. P(f)
  <2> HIDE DEF P
  <2> QED BY <1>7, Zenon DEF f
<1>9. f[0] = p /\ \A k \in 1..N : f[k] = ApplyNext(f[k - 1], bs[k])
  <2>1. \A k \in 0..N : f[k] = IF k = 0 THEN p ELSE ApplyNext(f[k - 1], bs[k])
    BY <1>8 DEF ApplyNext
  <2>2. 0 \in 0..N /\ \A k \in 1..N : k \in 0..N /\ k # 0
    BY <1>1
  <2> HIDE DEF P
  <2> QED BY <2>1, <2>2
<1>10. \A k \in 0..N : f[k] = MatcherError \/ AppliedBy(p, f[k])
  <2> DEFINE Fine == {k \in Nat : f[k] = MatcherError \/ AppliedBy(p, f[k])}
  <2>1. 0 \in Fine
    BY <1>9 DEF AppliedBy
  <2>2. ASSUME NEW k \in 0..(N - 1), k \in Fine PROVE k + 1 \in Fine
    <3>1. k + 1 \in 1..N /\ (k + 1) - 1 = k
      BY <1>1
    <3>2. f[k + 1] = ApplyNext(f[k], bs[k + 1])
      BY <1>9, <3>1
    <3>3. CASE f[k] = MatcherError \/ f[k + 1] = MatcherError
      BY <3>1, <3>2, <3>3 DEF ApplyNext
    <3>4. CASE f[k] # MatcherError /\ f[k + 1] # MatcherError
      <4> DEFINE q == f[k]
                 s == f[k + 1]
                 b == bs[k + 1]
      <4>1. Sane(q) /\ AppliedBy(p, q) /\ s = ApplyByte(q, b) /\ s # MatcherError /\ b \in Byte
        BY <1>14, <2>2, <3>1, <3>2, <3>4 DEF AppliedBy, ApplyNext
      <4> HIDE DEF q, s, b
      <4>2. AppliedBy(q, s)
        BY <4>1, ApplyByteFacts
      <4>3. AppliedBy(p, s)
        BY <4>1, <4>2 DEF AppliedBy
      <4> QED BY <3>1, <4>3 DEF s
    <3> QED BY <3>3, <3>4
  <2> HIDE DEF Fine
  <2>3. \A k \in 0..N : k \in Fine
    BY <1>1, <2>1, <2>2, UpTo
  <2> QED BY <2>3 DEF Fine
<1> QED BY <1>1, <1>2, <1>9, <1>10 DEF N

-----------------------------------------------------------------------------
(* Tokens consumed.                                                         *)

(* What consuming a token keeps.                                            *)
TookToken(p, t, q) ==
  /\ Sane(q) /\ Cached(q)
  /\ q.llm_tokens = Append(p.llm_tokens, t)
  /\ q.tokenize_is_canonical = p.tokenize_is_canonical
  /\ q.stop_reason = p.stop_reason

(* The session whose bytes a token is applied to.                           *)
Paid(p) == [p EXCEPT !.max_tokens_total = @ - 1]
Taking(p, t) == [ClearCaches(Paid(p)) EXCEPT !.llm_tokens = Append(@, t)]

(* It is in order.                                                          *)
LEMMA TakingFacts ==
  ASSUME NEW p, Sane(p), p.max_tokens_total # 0, NEW t \in Tokens, NEW q, q = Taking(p, t)
  PROVE  /\ Sane(q)
         /\ q.is_accepting_cache = None /\ q.ff_tokens_cache = None
         /\ q.chart = p.chart /\ q.bytes = p.bytes /\ q.applied = p.applied
         /\ q.llm_tokens = Append(p.llm_tokens, t)
         /\ q.tokenize_is_canonical = p.tokenize_is_canonical
         /\ q.lexer_stack_top_eos = p.lexer_stack_top_eos
         /\ q.last_force_bytes_len = p.last_force_bytes_len
         /\ q.stop_reason = p.stop_reason
<1>1. /\ p \in TokenParser /\ Fit(p.chart, TRUE) /\ p.chart.budget = Unlimited
      /\ p.applied <= Len(p.bytes)
      /\ p.max_tokens_total + Len(p.llm_tokens) = MaxTokensTotal
  BY DEF Sane
<1> DEFINE ts == Append(p.llm_tokens, t)
           m == p.max_tokens_total - 1
<1>2. p.llm_tokens \in Texts /\ Len(p.llm_tokens) \in Nat /\ p.max_tokens_total \in Nat
      /\ MaxTokensTotal \in Nat
  BY SaneParts
<1>3. ts \in Seq(Tokens \cup {EOS}) /\ Len(ts) = Len(p.llm_tokens) + 1
  BY <1>2, AppendProperties DEF Texts
<1>4. m \in 0..MaxTokensTotal /\ m + Len(ts) = MaxTokensTotal
  BY <1>1, <1>2, <1>3
<1>5. q = [[[p EXCEPT !.max_tokens_total = m] EXCEPT !.is_accepting_cache = None,
             !.ff_tokens_cache = None] EXCEPT !.llm_tokens = ts]
  BY <1>1 DEF Taking, ClearCaches, Paid, TokenParser
<1> HIDE DEF ts, m
<1>6. /\ q \in TokenParser
      /\ q.is_accepting_cache = None /\ q.ff_tokens_cache = None
      /\ q.chart = p.chart /\ q.bytes = p.bytes /\ q.applied = p.applied
      /\ q.llm_tokens = ts /\ q.max_tokens_total = m
      /\ q.tokenize_is_canonical = p.tokenize_is_canonical
      /\ q.lexer_stack_top_eos = p.lexer_stack_top_eos
      /\ q.last_force_bytes_len = p.last_force_bytes_len
      /\ q.stop_reason = p.stop_reason
  BY <1>1, <1>3, <1>4, <1>5 DEF TokenParser
<1>7. Sane(q)
  BY <1>1, <1>4, <1>6 DEF Sane
<1> QED BY <1>6, <1>7 DEF ts

(* A token applied byte by byte.                                            *)
LEMMA ApplyTokenFacts ==
  ASSUME NEW p, Sane(p), p.max_tokens_total # 0, NEW t \in Tokens,
         NEW q, q = ApplyToken(Paid(p), t), q # MatcherError
  PROVE  /\ TookToken(p, t, q) /\ q.lexer_stack_top_eos = p.lexer_stack_top_eos
         /\ q.last_force_bytes_len = p.last_force_bytes_len
<1> DEFINE s == Taking(p, t)
<1>1. /\ Sane(s)
      /\ s.is_accepting_cache = None /\ s.ff_tokens_cache = None
      /\ s.llm_tokens = Append(p.llm_tokens, t)
      /\ s.tokenize_is_canonical = p.tokenize_is_canonical
      /\ s.lexer_stack_top_eos = p.lexer_stack_top_eos
      /\ s.last_force_bytes_len = p.last_force_bytes_len
      /\ s.stop_reason = p.stop_reason
  BY TakingFacts
<1>2. q = AppliedUpTo(s, t)[Len(t)]
  BY DEF ApplyToken, Taking
<1> HIDE DEF s
<1>3. t \in Bytes /\ Len(t) \in Nat
  BY MatcherAssumption, LenProperties DEF Bytes
<1>4. AppliedBy(s, q)
  <2>1. Len(t) \in 0..Len(t)
    BY <1>3
  <2> QED BY <1>1, <1>2, <1>3, <2>1, AppliedSteps
<1>5. Cached(q)
  BY <1>1, <1>4 DEF AppliedBy, Cached, AcceptingFresh, TokensFresh
<1> QED BY <1>1, <1>4, <1>5 DEF AppliedBy, TookToken

(* An end of sequence, where the text may end.                              *)
LEMMA ConsumeEosFacts ==
  ASSUME NEW p, Sane(p), Cached(p), p.max_tokens_total # 0,
         NEW q, q = ConsumeEos(Paid(p)), q # MatcherError
  PROVE  /\ TookToken(p, EOS, q)
         /\ MayEnd(p) /\ MayEnd(q)
         /\ q.bytes = p.bytes /\ q.applied = p.applied
         /\ q.last_force_bytes_len = p.last_force_bytes_len
         /\ LET r == FlushLexer(p.chart, TRUE, Len(p.bytes)) IN
            /\ q.chart = r.chart
            /\ q.lexer_stack_top_eos =
                 (p.lexer_stack_top_eos \/ (r.ok /\ Len(r.chart.lexer_stack) # Len(p.chart.lexer_stack)))
<1> DEFINE r == FlushLexer(p.chart, TRUE, Len(p.bytes))
           d == r.chart
           grew == r.ok /\ Len(r.chart.lexer_stack) # Len(p.chart.lexer_stack)
           m == p.max_tokens_total - 1
           ts == Append(p.llm_tokens, EOS)
           top == p.lexer_stack_top_eos \/ grew
<1>1. /\ p \in TokenParser /\ Fit(p.chart, TRUE) /\ p.chart.budget = Unlimited
      /\ p.applied <= Len(p.bytes)
      /\ p.max_tokens_total + Len(p.llm_tokens) = MaxTokensTotal
  BY DEF Sane
<1>2. p.llm_tokens \in Texts /\ Len(p.llm_tokens) \in Nat /\ p.max_tokens_total \in Nat
      /\ MaxTokensTotal \in Nat /\ Len(p.bytes) \in Nat
      /\ p.is_accepting_cache \in BOOLEAN \cup {None}
  BY SaneParts
<1>3. ts \in Seq(Tokens \cup {EOS}) /\ Len(ts) = Len(p.llm_tokens) + 1
  BY <1>2, AppendProperties DEF Texts
<1>4. m \in 0..MaxTokensTotal /\ m + Len(ts) = MaxTokensTotal
  BY <1>1, <1>2, <1>3
<1>5. /\ Fit(d, TRUE) /\ d.budget = Unlimited /\ d \in ParserChart
      /\ IsAccepting(d) = IsAccepting(p.chart)
  <2>1. Fit(d, TRUE) /\ d.budget = Unlimited /\ IsAccepting(d) = IsAccepting(p.chart)
    <3> HIDE DEF grew, m, ts, top
    <3> QED BY <1>1, <1>2, AcceptingFlush
  <2> QED BY <2>1 DEF Fit, Good
<1> DEFINE o == Paid(p)
           s == [o EXCEPT !.chart = d, !.lexer_stack_top_eos = @ \/ grew]
<1>6. /\ o \in TokenParser /\ o.chart = p.chart /\ o.bytes = p.bytes /\ o.applied = p.applied
      /\ o.lexer_stack_top_eos = p.lexer_stack_top_eos
      /\ o.last_force_bytes_len = p.last_force_bytes_len
      /\ o.llm_tokens = p.llm_tokens /\ o.max_tokens_total = m
      /\ o.stop_reason = p.stop_reason
      /\ o.is_accepting_cache = p.is_accepting_cache
      /\ o.ff_tokens_cache = p.ff_tokens_cache
      /\ o.tokenize_is_canonical = p.tokenize_is_canonical
  <2>1. o = [p EXCEPT !.max_tokens_total = m]
    BY DEF Paid
  <2> HIDE DEF m, o
  <2> QED BY <1>1, <1>4, <2>1 DEF TokenParser
<1> HIDE DEF o
<1>7. ScanEos(o) # MatcherError /\ ScanEos(o) = s
  <2>1. ScanEos(o) = EndLexeme(o, r)
    BY <1>6 DEF ScanEos
  <2>2. ScanEos(o) = MatcherError \/ ScanEos(o) = s
    BY <1>6, <2>1 DEF EndLexeme
  <2>3. ScanEos(o) # MatcherError
    BY DEF ConsumeEos, EosScanned, o
  <2> QED BY <2>2, <2>3
<1>8. top \in BOOLEAN
  OBVIOUS
<1> HIDE DEF d, r, grew, m, ts
<1>9. /\ s \in TokenParser /\ s.chart = d /\ s.bytes = p.bytes /\ s.applied = p.applied
      /\ s.lexer_stack_top_eos = top
      /\ s.last_force_bytes_len = p.last_force_bytes_len
      /\ s.llm_tokens = p.llm_tokens /\ s.max_tokens_total = m
      /\ s.stop_reason = p.stop_reason
      /\ s.is_accepting_cache = p.is_accepting_cache
      /\ s.ff_tokens_cache = p.ff_tokens_cache
      /\ s.tokenize_is_canonical = p.tokenize_is_canonical
  <2>1. s = [o EXCEPT !.chart = d, !.lexer_stack_top_eos = top]
    BY <1>6
  <2> HIDE DEF s, top
  <2> QED BY <1>5, <1>6, <1>8, <2>1 DEF TokenParser
<1> HIDE DEF s, top
<1>10. Accepting(s) = MayEnd(p) /\ MayEnd(p) \in BOOLEAN
  <2>1. ForcedBytes(s) = ForcedBytes(p)
    BY <1>9 DEF ForcedBytes
  <2>2. Accepting(s) = IF p.is_accepting_cache # None THEN p.is_accepting_cache ELSE MayEnd(p)
    BY <1>5, <1>9, <2>1 DEF Accepting, MayEnd
  <2>3. MayEnd(p) \in BOOLEAN
    BY DEF MayEnd, IsAccepting, IsAcceptingAt
  <2> QED BY <2>2, <2>3 DEF Cached, AcceptingFresh
<1> DEFINE w == WithAccepting(s)
           v == MayEnd(p)
<1>11. v \in BOOLEAN /\ w = [s EXCEPT !.is_accepting_cache = v] /\ v = MayEnd(p)
  BY <1>10 DEF WithAccepting
<1>12. q = EosAccepted(w)
  BY <1>7 DEF ConsumeEos, EosScanned, o
<1> HIDE DEF w, v
<1>13. w.is_accepting_cache = v /\ w.llm_tokens = p.llm_tokens
  BY <1>9, <1>11 DEF TokenParser
<1>14. v = TRUE /\ q = [w EXCEPT !.llm_tokens = ts]
  BY <1>11, <1>12, <1>13 DEF EosAccepted, ts
<1>15. /\ q \in TokenParser /\ q.lexer_stack_top_eos = top /\ q.chart = d /\ q.bytes = p.bytes /\ q.applied = p.applied
       /\ q.last_force_bytes_len = p.last_force_bytes_len
       /\ q.llm_tokens = ts /\ q.max_tokens_total = m
       /\ q.stop_reason = p.stop_reason
       /\ q.is_accepting_cache = TRUE
       /\ q.ff_tokens_cache = p.ff_tokens_cache
       /\ q.tokenize_is_canonical = p.tokenize_is_canonical
  BY <1>3, <1>9, <1>11, <1>14 DEF TokenParser
<1>16. Sane(q)
  BY <1>1, <1>4, <1>5, <1>15 DEF Sane
<1>17. MayEnd(p) /\ MayEnd(q) = TRUE /\ ForcedBytes(p) = <<>> /\ ForcedBytes(q) = <<>>
  <2>1. ForcedBytes(q) = ForcedBytes(p)
    BY <1>15 DEF ForcedBytes
  <2>2. MayEnd(p) /\ ForcedBytes(p) = <<>> /\ IsAccepting(p.chart)
    BY <1>11, <1>14 DEF MayEnd
  <2> QED BY <1>5, <1>15, <2>1, <2>2 DEF MayEnd
<1>18. FfTokensOf(p) = NoFfTokens /\ FfTokensOf(q) = NoFfTokens
  <2>1. p.llm_tokens \in Texts /\ q.llm_tokens \in Texts
    BY <1>16, SaneParts
  <2>2. ForcedBytes(p) \in Bytes /\ ForcedBytes(q) \in Bytes
    BY <1>16, ForcedBytesAre
  <2> QED BY <1>17, <2>1, <2>2, FfTokensTyped
<1>19. Cached(q)
  <2>1. AcceptingFresh(q)
    BY <1>15, <1>17 DEF AcceptingFresh
  <2>2. TokensFresh(q)
    BY <1>15, <1>18 DEF Cached, TokensFresh
  <2> QED BY <2>1, <2>2 DEF Cached
<1> QED BY <1>15, <1>16, <1>17, <1>19 DEF TookToken, ts, d, r, top, grew

(* A token consumed.                                                        *)
LEMMA ConsumeTokenFacts ==
  ASSUME NEW p, Sane(p), Cached(p), NEW t \in Tokens \cup {EOS},
         NEW q, q = ConsumeToken(p, t), q # MatcherError
  PROVE  /\ TookToken(p, t, q) /\ ~Stopped(p) /\ p.max_tokens_total # 0
         /\ q = IF t = EOS THEN ConsumeEos(Paid(p)) ELSE ApplyToken(Paid(p), t)
<1>1. ~Stopped(p) /\ p.max_tokens_total # 0
  BY DEF ConsumeToken
<1>2. CASE t = EOS
  <2>1. q = ConsumeEos(Paid(p))
    BY <1>1, <1>2 DEF ConsumeToken, Paid
  <2>2. TookToken(p, EOS, q)
    BY <1>1, <2>1, ConsumeEosFacts
  <2> QED BY <1>1, <1>2, <2>1, <2>2
<1>3. CASE t # EOS
  <2>1. t \in Tokens /\ q = ApplyToken(Paid(p), t)
    BY <1>1, <1>3 DEF ConsumeToken, Paid
  <2>2. TookToken(p, t, q)
    BY <1>1, <2>1, ApplyTokenFacts
  <2> QED BY <1>1, <1>3, <2>1, <2>2
<1> QED BY <1>2, <1>3

(* Sessions that differ only in what is cached, or in why they stopped.     *)
LEMMA SameSession ==
  ASSUME NEW p, Sane(p), NEW q \in TokenParser,
         q.chart = p.chart, q.bytes = p.bytes, q.applied = p.applied,
         q.llm_tokens = p.llm_tokens, q.max_tokens_total = p.max_tokens_total,
         q.tokenize_is_canonical = p.tokenize_is_canonical
  PROVE  /\ Sane(q) /\ MayEnd(q) = MayEnd(p) /\ FfTokensOf(q) = FfTokensOf(p)
         /\ ForcedBytes(q) = ForcedBytes(p)
<1>1. Sane(q)
  BY DEF Sane
<1>2. ForcedBytes(q) = ForcedBytes(p)
  BY DEF ForcedBytes
<1>3. MayEnd(q) = MayEnd(p)
  BY <1>2 DEF MayEnd
<1>4. FfTokensOf(q) = FfTokensOf(p)
  BY <1>2 DEF FfTokensOf
<1> QED BY <1>1, <1>2, <1>3, <1>4

(* What the check for a stop keeps.                                         *)
StopChecked(p, q) ==
  /\ Sane(q) /\ Cached(q)
  /\ q.chart = p.chart /\ q.bytes = p.bytes /\ q.applied = p.applied
  /\ q.llm_tokens = p.llm_tokens
  /\ q.tokenize_is_canonical = p.tokenize_is_canonical
  /\ q.lexer_stack_top_eos = p.lexer_stack_top_eos
  /\ q.last_force_bytes_len = p.last_force_bytes_len
  /\ q.is_accepting_cache = MayEnd(p)
  /\ MayEnd(p) /\ p.llm_tokens # <<>> /\ Last(p.llm_tokens) = EOS => Stopped(q)

(* check_stop().                                                            *)
LEMMA CheckStopFacts ==
  ASSUME NEW p, Sane(p), Cached(p)
  PROVE  StopChecked(p, CheckStop(p))
<1> DEFINE w == WithAccepting(p)
           q == CheckStop(p)
           pendingEos == w.llm_tokens # <<>> /\ Last(w.llm_tokens) = EOS
           reason == IF pendingEos THEN "EndOfSentence" ELSE "NoExtension"
<1>1. /\ w \in SaneSessions /\ w.is_accepting_cache = MayEnd(p) /\ MayEnd(p) \in BOOLEAN
      /\ Cached(w) /\ w = [p EXCEPT !.is_accepting_cache = MayEnd(p)]
  BY AcceptingRight DEF Cached, WithAccepting
<1>2. p \in TokenParser /\ p # MatcherError
  BY SaneParts DEF Sane
<1>3. Sane(w) /\ w \in TokenParser
  BY <1>1 DEF SaneSessions
<1>4. /\ w.chart = p.chart /\ w.bytes = p.bytes /\ w.applied = p.applied
      /\ w.llm_tokens = p.llm_tokens /\ w.max_tokens_total = p.max_tokens_total
      /\ w.tokenize_is_canonical = p.tokenize_is_canonical
      /\ w.lexer_stack_top_eos = p.lexer_stack_top_eos
      /\ w.last_force_bytes_len = p.last_force_bytes_len
      /\ w.ff_tokens_cache = p.ff_tokens_cache
  <2> DEFINE v == MayEnd(p)
  <2>1. w = [p EXCEPT !.is_accepting_cache = v]
    BY <1>1
  <2> HIDE DEF w, v
  <2> QED BY <1>2, <2>1 DEF TokenParser
<1>5. q = StopIfDone(w)
  BY <1>2 DEF CheckStop
<1>6. \/ q = w /\ ~(w.is_accepting_cache /\ pendingEos)
      \/ q = [w EXCEPT !.stop_reason = reason]
  BY <1>5 DEF StopIfDone
<1>7. reason \in StopReason \ {"NotStopped"}
  BY DEF StopReason
<1> HIDE DEF w, q, reason
<1>8. CASE q = w /\ ~(w.is_accepting_cache /\ pendingEos)
  <2>1. ~(MayEnd(p) /\ p.llm_tokens # <<>> /\ Last(p.llm_tokens) = EOS)
    BY <1>1, <1>4, <1>8
  <2> QED BY <1>1, <1>3, <1>4, <1>8, <2>1 DEF StopChecked, q
<1>9. CASE q = [w EXCEPT !.stop_reason = reason]
  <2>1. /\ q \in TokenParser /\ q.stop_reason = reason
        /\ q.chart = w.chart /\ q.bytes = w.bytes /\ q.applied = w.applied
        /\ q.llm_tokens = w.llm_tokens /\ q.max_tokens_total = w.max_tokens_total
        /\ q.tokenize_is_canonical = w.tokenize_is_canonical
        /\ q.lexer_stack_top_eos = w.lexer_stack_top_eos
        /\ q.last_force_bytes_len = w.last_force_bytes_len
        /\ q.is_accepting_cache = w.is_accepting_cache
        /\ q.ff_tokens_cache = w.ff_tokens_cache
    BY <1>3, <1>7, <1>9 DEF TokenParser
  <2>2. Sane(q) /\ MayEnd(q) = MayEnd(w) /\ FfTokensOf(q) = FfTokensOf(w)
    BY <1>3, <2>1, SameSession
  <2>3. Cached(q)
    BY <1>1, <2>1, <2>2 DEF Cached, AcceptingFresh, TokensFresh
  <2>4. Stopped(q)
    BY <1>7, <2>1 DEF Stopped
  <2> QED BY <1>1, <1>4, <2>1, <2>2, <2>3, <2>4 DEF StopChecked, q
<1> QED BY <1>6, <1>8, <1>9

(* What comes of p and of tokens consumed, as far as they are.              *)
Sessions == FreshSessions \cup {MatcherError}
ConsumeNext(q, t) == IF q = MatcherError THEN q ELSE ConsumeToken(q, t)

(* A token more leaves a session in order with fresh caches, or none.       *)
LEMMA ConsumeNextTyped ==
  ASSUME NEW q \in Sessions, NEW t \in Tokens \cup {EOS}
  PROVE  ConsumeNext(q, t) \in Sessions
<1> DEFINE s == ConsumeNext(q, t)
<1>1. CASE q # MatcherError /\ s # MatcherError
  <2>1. Sane(q) /\ Cached(q) /\ s = ConsumeToken(q, t)
    BY <1>1 DEF Sessions, FreshSessions, ConsumeNext
  <2> HIDE DEF s
  <2>2. TookToken(q, t, s)
    BY <1>1, <2>1, ConsumeTokenFacts
  <2> QED BY <2>2 DEF TookToken, Sessions, FreshSessions, Sane, s
<1>2. CASE ~(q # MatcherError /\ s # MatcherError)
  BY <1>2 DEF Sessions, ConsumeNext
<1> QED BY <1>1, <1>2

(* ConsumedUpTo takes the tokens one after the other.                       *)
LEMMA ConsumedSteps ==
  ASSUME NEW p \in Sessions, NEW ts \in Texts
  PROVE  LET f == ConsumedUpTo(p, ts) IN
         /\ Len(ts) \in Nat
         /\ f[0] = p
         /\ \A k \in 1..Len(ts) : f[k] = ConsumeNext(f[k - 1], ts[k])
         /\ \A k \in 0..Len(ts) : f[k] \in Sessions
<1> DEFINE N == Len(ts)
           F == [k \in 1..N |-> [q \in Sessions |-> ConsumeNext(q, ts[k])]]
           P(g) == g = [k \in 0..N |-> IF k = 0 THEN p
                                       ELSE LET q == g[k - 1]
                                            IN  IF q = MatcherError THEN q ELSE ConsumeToken(q, ts[k])]
           f == CHOOSE g : P(g)
<1>1. N \in Nat
  BY LenProperties DEF Texts
<1>2. ConsumedUpTo(p, ts) = f
  BY Zenon DEF ConsumedUpTo
<1>14. \A k \in 1..N : ts[k] \in Tokens \cup {EOS}
  BY ElementOfSeq DEF Texts
<1>4. F \in [1..N -> [Sessions -> Sessions]]
  BY <1>14, ConsumeNextTyped
<1> HIDE DEF N, f
<1>5. PICK g \in [0..N -> Sessions] : Iterated(g, N, p, F)
  <2> HIDE DEF F, P
  <2> QED BY <1>1, <1>4, Iterates
<1>6. \A k \in 0..N : g[k] = IF k = 0 THEN p ELSE ConsumeNext(g[k - 1], ts[k])
  <2>1. ASSUME NEW k \in 0..N
        PROVE  g[k] = IF k = 0 THEN p ELSE ConsumeNext(g[k - 1], ts[k])
    <3>2. k # 0 => k - 1 \in 0..N /\ k \in 1..N
      BY <1>1
    <3>1. g[k] = IF k = 0 THEN p ELSE F[k][g[k - 1]]
      <4> HIDE DEF F, P
      <4> QED BY <1>5, <3>2 DEF Iterated
    <3>3. k # 0 => g[k - 1] \in Sessions
      BY <3>2
    <3> QED BY <3>1, <3>2, <3>3
  <2> QED BY <2>1
<1>7. P(g)
  BY <1>5, <1>6 DEF ConsumeNext
<1>8. P(f)
  <2> HIDE DEF P
  <2> QED BY <1>7, Zenon DEF f
<1>9. f[0] = p /\ \A k \in 1..N : f[k] = ConsumeNext(f[k - 1], ts[k])
  <2>1. \A k \in 0..N : f[k] = IF k = 0 THEN p ELSE ConsumeNext(f[k - 1], ts[k])
    BY <1>8 DEF ConsumeNext
  <2>2. 0 \in 0..N /\ \A k \in 1..N : k \in 0..N /\ k # 0
    BY <1>1
  <2> HIDE DEF P
  <2> QED BY <2>1, <2>2
<1>10. \A k \in 0..N : f[k] \in Sessions
  <2> DEFINE Fine == {k \in Nat : f[k] \in Sessions}
  <2>1. 0 \in Fine
    BY <1>9
  <2>2. ASSUME NEW k \in 0..(N - 1), k \in Fine PROVE k + 1 \in Fine
    <3>1. k + 1 \in 1..N /\ (k + 1) - 1 = k
      BY <1>1
    <3>2. f[k + 1] = ConsumeNext(f[k], ts[k + 1])
      BY <1>9, <3>1
    <3> QED BY <1>14, <2>2, <3>1, <3>2, ConsumeNextTyped
  <2> HIDE DEF Fine
  <2>3. \A k \in 0..N : k \in Fine
    BY <1>1, <2>1, <2>2, UpTo
  <2> QED BY <2>3 DEF Fine
<1> QED BY <1>1, <1>2, <1>9, <1>10 DEF N

(* A batch of tokens.                                                       *)
LEMMA ConsumedTyped ==
  ASSUME NEW p \in FreshSessions, NEW ts \in Texts
  PROVE  /\ ConsumedUpTo(p, ts)[Len(ts)] \in Sessions
         /\ Consumed(p, ts) \in Sessions
<1> DEFINE s == ConsumedUpTo(p, ts)[Len(ts)]
<1>1. s \in Sessions
  <2>1. p \in Sessions
    BY DEF Sessions
  <2>2. Len(ts) \in 0..Len(ts)
    BY LenProperties DEF Texts
  <2> QED BY <2>1, <2>2, ConsumedSteps
<1>2. Consumed(p, ts) = CheckStop(s)
  BY DEF Consumed
<1> HIDE DEF s
<1>3. CASE s = MatcherError
  <2>1. CheckStop(s) = s
    BY <1>3 DEF CheckStop
  <2> QED BY <1>1, <1>2, <2>1 DEF s
<1>4. CASE s # MatcherError
  <2>1. Sane(s) /\ Cached(s)
    BY <1>1, <1>4 DEF Sessions, FreshSessions
  <2>2. StopChecked(s, CheckStop(s))
    BY <2>1, CheckStopFacts
  <2>3. CheckStop(s) \in FreshSessions
    BY <2>2 DEF StopChecked, FreshSessions, Sane
  <2>4. CheckStop(s) \in Sessions
    BY <2>3 DEF Sessions
  <2> QED BY <1>1, <1>2, <2>4 DEF s
<1> QED BY <1>3, <1>4

(* What trying a batch of tokens comes to: a session, how many tokens were  *)
(* consumed, and whether one was not.                                       *)
Tries == [p : Sessions, n : Nat, end : BOOLEAN]

(* A token tried.                                                           *)
LEMMA TryNextTyped ==
  ASSUME NEW r \in Tries, NEW t \in Tokens \cup {EOS}
  PROVE  TryNext(r, t) \in Tries
<1>1. r.p \in Sessions /\ r.n \in Nat /\ r.end \in BOOLEAN
  BY DEF Tries
<1>2. CASE r.end \/ r.p = MatcherError
  BY <1>2 DEF TryNext
<1>3. CASE ~(r.end \/ r.p = MatcherError) /\ (Stopped(r.p) \/ ~Validates(r.p, t))
  <2>1. TryNext(r, t) = [r EXCEPT !.end = TRUE]
    BY <1>3 DEF TryNext
  <2> QED BY <2>1 DEF Tries
<1>4. CASE ~(r.end \/ r.p = MatcherError) /\ ~(Stopped(r.p) \/ ~Validates(r.p, t))
  <2>1. TryNext(r, t) = [p |-> Consumed(r.p, <<t>>), n |-> r.n + 1, end |-> FALSE]
    BY <1>4 DEF TryNext
  <2>2. r.p \in FreshSessions /\ <<t>> \in Texts
    BY <1>1, <1>4 DEF Sessions, Texts
  <2> DEFINE ts == <<t>>
             q == r.p
  <2>3. q \in FreshSessions /\ ts \in Texts
    BY <2>2
  <2> HIDE DEF ts, q
  <2>4. Consumed(q, ts) \in Sessions
    BY <2>3, ConsumedTyped
  <2> QED BY <1>1, <2>1, <2>4 DEF Tries, q, ts
<1> QED BY <1>2, <1>3, <1>4

(* TriedUpTo takes the tokens one after the other.                          *)
LEMMA TriedSteps ==
  ASSUME NEW p \in Sessions, NEW ts \in Texts
  PROVE  LET f == TriedUpTo(p, ts) IN
         /\ Len(ts) \in Nat
         /\ f[0] = [p |-> p, n |-> 0, end |-> FALSE]
         /\ \A k \in 1..Len(ts) : f[k] = TryNext(f[k - 1], ts[k])
         /\ \A k \in 0..Len(ts) : f[k] \in Tries
<1> DEFINE N == Len(ts)
           base == [p |-> p, n |-> 0, end |-> FALSE]
           F == [k \in 1..N |-> [r \in Tries |-> TryNext(r, ts[k])]]
           P(g) == g = [k \in 0..N |-> IF k = 0 THEN base
                                       ELSE LET r == g[k - 1] IN TryNext(r, ts[k])]
           f == CHOOSE g : P(g)
<1>1. N \in Nat
  BY LenProperties DEF Texts
<1>2. TriedUpTo(p, ts) = f
  BY Zenon DEF TriedUpTo
<1>3. base \in Tries
  BY DEF Tries
<1>14. \A k \in 1..N : ts[k] \in Tokens \cup {EOS}
  BY ElementOfSeq DEF Texts
<1>4. F \in [1..N -> [Tries -> Tries]]
  BY <1>14, TryNextTyped
<1> HIDE DEF N, base, f
<1>5. PICK g \in [0..N -> Tries] : Iterated(g, N, base, F)
  <2> HIDE DEF F, P
  <2> QED BY <1>1, <1>3, <1>4, Iterates
<1>6. \A k \in 0..N : g[k] = IF k = 0 THEN base ELSE TryNext(g[k - 1], ts[k])
  <2>1. ASSUME NEW k \in 0..N
        PROVE  g[k] = IF k = 0 THEN base ELSE TryNext(g[k - 1], ts[k])
    <3>2. k # 0 => k - 1 \in 0..N /\ k \in 1..N
      BY <1>1
    <3>1. g[k] = IF k = 0 THEN base ELSE F[k][g[k - 1]]
      <4> HIDE DEF F, P
      <4> QED BY <1>5, <3>2 DEF Iterated
    <3>3. k # 0 => g[k - 1] \in Tries
      BY <3>2
    <3> QED BY <3>1, <3>2, <3>3
  <2> QED BY <2>1
<1>7. P(g)
  BY <1>5, <1>6
<1>8. P(f)
  <2> HIDE DEF P
  <2> QED BY <1>7, Zenon DEF f
<1>9. f[0] = base /\ \A k \in 1..N : f[k] = TryNext(f[k - 1], ts[k])
  <2>1. \A k \in 0..N : f[k] = IF k = 0 THEN base ELSE TryNext(f[k - 1], ts[k])
    BY <1>8
  <2>2. 0 \in 0..N /\ \A k \in 1..N : k \in 0..N /\ k # 0
    BY <1>1
  <2> HIDE DEF P
  <2> QED BY <2>1, <2>2
<1>10. \A k \in 0..N : f[k] \in Tries
  <2> DEFINE Fine == {k \in Nat : f[k] \in Tries}
  <2>1. 0 \in Fine
    BY <1>3, <1>9
  <2>2. ASSUME NEW k \in 0..(N - 1), k \in Fine PROVE k + 1 \in Fine
    <3>1. k + 1 \in 1..N /\ (k + 1) - 1 = k
      BY <1>1
    <3>2. f[k + 1] = TryNext(f[k], ts[k + 1])
      BY <1>9, <3>1
    <3> QED BY <1>14, <2>2, <3>1, <3>2, TryNextTyped
  <2> HIDE DEF Fine
  <2>3. \A k \in 0..N : k \in Fine
    BY <1>1, <2>1, <2>2, UpTo
  <2> QED BY <2>3 DEF Fine
<1> QED BY <1>1, <1>2, <1>9, <1>10 DEF base, N

-----------------------------------------------------------------------------
(* Tokens taken back.                                                       *)
KeptTokens(p, n) == Len(p.llm_tokens) - n
DroppedBytes(p, n) == BytesOf(SubSeq(p.llm_tokens, KeptTokens(p, n) + 1, Len(p.llm_tokens)))

(* What is left of a session after the last n tokens were taken back.       *)
TookBack(p, n, q) ==
  /\ KeptTokens(p, n) \in 0..Len(p.llm_tokens)
  /\ Sane(q) /\ Cached(q)
  /\ LexerBytesOk(p)
  /\ q.applied = p.applied - Len(DroppedBytes(p, n))
  /\ q.applied \in 0..Len(p.bytes) /\ Len(q.bytes) = q.applied
  /\ q.bytes = SubSeq(p.bytes, 1, q.applied)
  /\ q.chart = RolledBack(p.chart, q.applied)
  /\ q.applied + 1 \in 1..Len(p.chart.lexer_stack)
  /\ q.llm_tokens = SubSeq(p.llm_tokens, 1, KeptTokens(p, n))
  /\ q.tokenize_is_canonical = p.tokenize_is_canonical
  /\ q.stop_reason = "NotStopped"
  /\ ~q.lexer_stack_top_eos
  /\ q.last_force_bytes_len = Never

(* The texts kept and dropped.                                              *)
LEMMA KeptAndDropped ==
  ASSUME NEW p, Sane(p), NEW n \in Nat, KeptTokens(p, n) \in 0..Len(p.llm_tokens)
  PROVE  /\ SubSeq(p.llm_tokens, 1, KeptTokens(p, n)) \in Texts
         /\ Len(SubSeq(p.llm_tokens, 1, KeptTokens(p, n))) = KeptTokens(p, n)
         /\ DroppedBytes(p, n) \in Bytes
         /\ BytesOf(p.llm_tokens)
              = BytesOf(SubSeq(p.llm_tokens, 1, KeptTokens(p, n))) \o DroppedBytes(p, n)
<1> DEFINE ts == p.llm_tokens
           k == KeptTokens(p, n)
<1>1. ts \in Texts /\ k \in 0..Len(ts)
  BY SaneParts
<1>2. DroppedBytes(p, n) = BytesOf(SubSeq(ts, k + 1, Len(ts)))
  BY DEF DroppedBytes
<1> HIDE DEF ts, k
<1>3. /\ SubSeq(ts, 1, k) \in Texts /\ SubSeq(ts, k + 1, Len(ts)) \in Texts
      /\ Len(SubSeq(ts, 1, k)) = k /\ SubSeq(ts, 1, k) \o SubSeq(ts, k + 1, Len(ts)) = ts
  BY <1>1, CutAt DEF Texts
<1> DEFINE us == SubSeq(ts, 1, k)
           vs == SubSeq(ts, k + 1, Len(ts))
<1>4. us \in Texts /\ vs \in Texts /\ us \o vs = ts
  BY <1>3
<1> HIDE DEF us, vs
<1>5. BytesOf(vs) \in Bytes /\ BytesOf(us \o vs) = BytesOf(us) \o BytesOf(vs)
  BY <1>4, BytesOfConcat
<1> QED BY <1>2, <1>3, <1>4, <1>5 DEF us, vs, ts, k

(* A rollback of tokens that the session has, and whose bytes it has.       *)
LEMMA RollbackWorks ==
  ASSUME NEW p, Sane(p), NEW n \in Nat, n # 0, KeptTokens(p, n) \in 0..Len(p.llm_tokens),
         LexerBytesOk(p), Len(DroppedBytes(p, n)) <= p.applied,
         NEW q, q = RollbackTokens(p, n)
  PROVE  q # MatcherError /\ TookBack(p, n, q)
<1> DEFINE keep == KeptTokens(p, n)
           m == Len(DroppedBytes(p, n))
           o == [p EXCEPT !.stop_reason = "NotStopped"]
           s == RollbackBytes(o, m)
           k == p.applied - m
           total == p.max_tokens_total + n
           ts == SubSeq(p.llm_tokens, 1, keep)
<1>1. /\ p \in TokenParser /\ Fit(p.chart, TRUE) /\ p.chart.budget = Unlimited
      /\ p.applied <= Len(p.bytes)
      /\ p.max_tokens_total + Len(p.llm_tokens) = MaxTokensTotal
  BY DEF Sane
<1>2. p.llm_tokens \in Texts /\ Len(p.llm_tokens) \in Nat /\ p.max_tokens_total \in Nat
      /\ MaxTokensTotal \in Nat /\ p.bytes \in Bytes /\ Len(p.bytes) \in Nat
      /\ p.applied \in 0..Len(p.bytes)
  BY SaneParts
<1>3. o \in TokenParser /\ o.stop_reason = "NotStopped"
      /\ o.chart = p.chart /\ o.bytes = p.bytes /\ o.applied = p.applied
      /\ o.llm_tokens = p.llm_tokens /\ o.max_tokens_total = p.max_tokens_total
      /\ o.tokenize_is_canonical = p.tokenize_is_canonical
      /\ o.lexer_stack_top_eos = p.lexer_stack_top_eos
  <2>1. "NotStopped" \in StopReason
    BY DEF StopReason
  <2> QED BY <1>1, <2>1 DEF TokenParser
<1> HIDE DEF o
<1>5. keep \in 0..Len(p.llm_tokens)
  OBVIOUS
<1>6. /\ ts \in Texts /\ Len(ts) = keep /\ m \in Nat
  BY <1>5, KeptAndDropped, LenProperties DEF Bytes
<1>7. /\ LexerBytesOk(o) /\ ~(m > p.applied)
      /\ s = [o EXCEPT !.applied = k, !.bytes = SubSeq(@, 1, k), !.chart = RolledBack(@, k),
                       !.last_force_bytes_len = Never, !.lexer_stack_top_eos = FALSE]
  <2>1. LexerBytesOk(o)
    BY <1>3 DEF LexerBytesOk
  <2>2. ~(m > p.applied)
    <3>1. m <= p.applied
      OBVIOUS
    <3> HIDE DEF m
    <3> QED BY <1>2, <1>6, <3>1
  <2> HIDE DEF m
  <2> QED BY <1>3, <2>1, <2>2 DEF RollbackBytes
<1>8. k \in 0..Len(p.bytes)
  <2> HIDE DEF m
  <2> QED BY <1>2, <1>6, <1>7
<1>9. total \in 0..MaxTokensTotal /\ total + Len(ts) = MaxTokensTotal
  <2>1. keep = Len(p.llm_tokens) - n
    BY DEF KeptTokens
  <2> DEFINE a == p.max_tokens_total
             len == Len(p.llm_tokens)
             one == Len(ts)
  <2>2. a \in Nat /\ len \in Nat /\ MaxTokensTotal \in Nat /\ a + len = MaxTokensTotal
        /\ one = len - n /\ one \in Nat
    BY <1>1, <1>2, <1>5, <1>6, <2>1
  <2>3. total = a + n /\ n \in Nat
    OBVIOUS
  <2> HIDE DEF a, len, one, total
  <2> QED BY <2>2, <2>3 DEF one
<1>10. LexerBytesOk(p) /\ k + 1 \in 1..Len(p.chart.lexer_stack)
  <2>1. LexerBytesOk(p)
    BY <1>3, <1>7 DEF LexerBytesOk
  <2>2. Len(p.chart.lexer_stack) = Len(p.bytes) + 2 \/ Len(p.chart.lexer_stack) = Len(p.bytes) + 1
    BY <2>1 DEF LexerBytesOk
  <2> HIDE DEF k
  <2> QED BY <1>2, <1>8, <2>1, <2>2
<1> DEFINE d == RolledBack(p.chart, k)
           bs == SubSeq(p.bytes, 1, k)
<1>11. Fit(d, TRUE) /\ d.budget = Unlimited /\ d \in ParserChart
  <2>1. k \in Nat
    BY <1>8
  <2> DEFINE c == p.chart
             e == [c EXCEPT !.lexer_stack = SubSeq(@, 1, k + 1)]
  <2>2. /\ Fit(c, TRUE) /\ c.budget = Unlimited /\ k + 1 \in 1..Len(c.lexer_stack)
        /\ d = RolledBack(c, k)
    BY <1>1, <1>10
  <2> HIDE DEF k, d, c
  <2>3. Fit(d, TRUE) /\ d.budget = Unlimited
    BY <2>1, <2>2, RolledBackFacts
  <2> QED BY <2>3 DEF Fit, Good
<1>12. bs \in Seq(Byte) /\ Len(bs) = k
  <2>1. p.bytes \in Seq(Byte)
    BY <1>2 DEF Bytes
  <2> HIDE DEF k
  <2> QED BY <1>8, <2>1, CutAt
<1>13. s = [o EXCEPT !.applied = k, !.bytes = bs, !.chart = d,
                     !.last_force_bytes_len = Never, !.lexer_stack_top_eos = FALSE]
  BY <1>3, <1>7
<1> HIDE DEF bs, d, k
<1>22. s = RollbackBytes(o, m)
  OBVIOUS
<1> HIDE DEF s
<1>14. /\ s \in TokenParser /\ s.applied = k /\ s.bytes = bs /\ s.chart = d
       /\ s.last_force_bytes_len = Never /\ s.lexer_stack_top_eos = FALSE
       /\ s.llm_tokens = p.llm_tokens /\ s.max_tokens_total = p.max_tokens_total
       /\ s.stop_reason = "NotStopped"
       /\ s.tokenize_is_canonical = p.tokenize_is_canonical
  <2>1. k \in Nat
    BY <1>8
  <2> QED BY <1>3, <1>11, <1>12, <1>13, <2>1 DEF TokenParser
<1>4. q = ClearCaches([s EXCEPT !.max_tokens_total = @ + n, !.llm_tokens = SubSeq(@, 1, keep)])
  <2>1. s # MatcherError
    BY <1>14, SessionAssumption
  <2>2. ~(keep < 0)
    BY <1>2, <1>5
  <2> QED BY <1>22, <2>1, <2>2 DEF RollbackTokens, KeptTokens, DroppedBytes, o
<1>15. q = [[s EXCEPT !.max_tokens_total = total, !.llm_tokens = ts]
             EXCEPT !.is_accepting_cache = None, !.ff_tokens_cache = None]
  BY <1>4, <1>14 DEF ClearCaches
<1>16. ts \in Seq(Tokens \cup {EOS})
  BY <1>6 DEF Texts
<1> HIDE DEF total, ts
<1>17. /\ q \in TokenParser /\ q.applied = k /\ q.bytes = bs /\ q.chart = d
       /\ q.last_force_bytes_len = Never /\ q.lexer_stack_top_eos = FALSE
       /\ q.llm_tokens = ts /\ q.max_tokens_total = total
       /\ q.stop_reason = "NotStopped"
       /\ q.tokenize_is_canonical = p.tokenize_is_canonical
       /\ q.is_accepting_cache = None /\ q.ff_tokens_cache = None
  BY <1>9, <1>14, <1>15, <1>16 DEF TokenParser
<1>18. Sane(q)
  <2>1. k <= Len(bs)
    BY <1>8, <1>12
  <2> QED BY <1>9, <1>11, <1>17, <2>1 DEF Sane
<1>19. Cached(q)
  BY <1>17 DEF Cached, AcceptingFresh, TokensFresh
<1>20. /\ keep \in 0..Len(p.llm_tokens) /\ LexerBytesOk(p)
       /\ q.applied = p.applied - m
       /\ q.applied \in 0..Len(p.bytes) /\ Len(q.bytes) = q.applied
       /\ q.bytes = SubSeq(p.bytes, 1, q.applied)
       /\ q.chart = RolledBack(p.chart, q.applied)
       /\ q.applied + 1 \in 1..Len(p.chart.lexer_stack)
       /\ q.llm_tokens = SubSeq(p.llm_tokens, 1, keep)
  BY <1>5, <1>8, <1>10, <1>12, <1>17 DEF k, bs, d, ts
<1>21. q # MatcherError
  BY <1>17, SessionAssumption
<1> QED BY <1>17, <1>18, <1>19, <1>20, <1>21 DEF TookBack

(* rollback().                                                              *)
LEMMA RollbackFacts ==
  ASSUME NEW p, Sane(p), NEW n \in Nat, n # 0,
         NEW q, q = RollbackTokens(p, n), q # MatcherError
  PROVE  TookBack(p, n, q)
<1> DEFINE keep == KeptTokens(p, n)
           m == Len(DroppedBytes(p, n))
           o == [p EXCEPT !.stop_reason = "NotStopped"]
<1>1. p \in TokenParser
  BY DEF Sane
<1>2. o.chart = p.chart /\ o.bytes = p.bytes /\ o.applied = p.applied
      /\ o.lexer_stack_top_eos = p.lexer_stack_top_eos
  BY <1>1 DEF TokenParser
<1>3. p.applied \in Nat /\ Len(p.llm_tokens) \in Nat
  BY SaneParts
<1> HIDE DEF o
<1>4. ~(keep < 0) /\ RollbackBytes(o, m) # MatcherError
  BY DEF RollbackTokens, KeptTokens, DroppedBytes, o
<1>5. keep \in 0..Len(p.llm_tokens)
  BY <1>3, <1>4 DEF KeptTokens
<1>6. m \in Nat
  BY <1>5, KeptAndDropped, LenProperties DEF Bytes
<1>7. LexerBytesOk(o) /\ ~(m > p.applied)
  <2> HIDE DEF m
  <2> QED BY <1>2, <1>4 DEF RollbackBytes
<1>8. m <= p.applied
  <2> HIDE DEF m
  <2> QED BY <1>3, <1>6, <1>7
<1>9. LexerBytesOk(p)
  BY <1>2, <1>7 DEF LexerBytesOk
<1> QED BY <1>5, <1>8, <1>9, RollbackWorks

-----------------------------------------------------------------------------
(* The other calls.                                                         *)

(* A session whose forced tokens are given away, or cached anew.            *)
LEMMA CacheTokens ==
  ASSUME NEW p, Sane(p), Cached(p), NEW ff \in FfTokens \cup {None},
         ff # None => p.last_force_bytes_len = Len(p.bytes) /\ ff = FfTokensOf(p),
         NEW q, q = [p EXCEPT !.ff_tokens_cache = ff]
  PROVE  q \in FreshSessions /\ q.ff_tokens_cache = ff
<1>1. p \in TokenParser
  BY DEF Sane
<1>2. /\ q \in TokenParser /\ q.ff_tokens_cache = ff
      /\ q.chart = p.chart /\ q.bytes = p.bytes /\ q.applied = p.applied
      /\ q.llm_tokens = p.llm_tokens /\ q.max_tokens_total = p.max_tokens_total
      /\ q.tokenize_is_canonical = p.tokenize_is_canonical
      /\ q.last_force_bytes_len = p.last_force_bytes_len
      /\ q.is_accepting_cache = p.is_accepting_cache
  BY <1>1 DEF TokenParser
<1>3. Sane(q) /\ MayEnd(q) = MayEnd(p) /\ FfTokensOf(q) = FfTokensOf(p)
  BY <1>2, SameSession
<1>4. Cached(q)
  BY <1>2, <1>3 DEF Cached, AcceptingFresh, TokensFresh
<1> QED BY <1>2, <1>3, <1>4 DEF FreshSessions

(* is_accepting() keeps the caches fresh.                                   *)
LEMMA WithAcceptingFresh ==
  ASSUME NEW p \in FreshSessions
  PROVE  WithAccepting(p) \in FreshSessions
<1>1. Sane(p) /\ AcceptingFresh(p) /\ TokensFresh(p)
  BY DEF FreshSessions, Cached
<1>2. WithAccepting(p) \in SaneSessions /\ Cached(WithAccepting(p))
  BY <1>1, AcceptingRight
<1> QED BY <1>2 DEF SaneSessions, FreshSessions

(* force_bytes() keeps the caches fresh.                                    *)
LEMMA ForceBytesFresh ==
  ASSUME NEW p \in FreshSessions
  PROVE  ForceBytes(p) \in FreshSessions /\ ForcedOn(p, ForceBytes(p))
<1>1. Sane(p) /\ Cached(p)
  BY DEF FreshSessions
<1>2. ForcedOn(p, ForceBytes(p))
  BY <1>1, ForceBytesFacts
<1> QED BY <1>1, <1>2 DEF ForcedOn, FreshSessions, Sane

(* compute_mask(): its mask, and what it makes of a session.                *)
Mask(p) == MaskWith(Forced(p), FfTokensNow(p))
SessionAfterMask(p) ==
  IF Stopped(p) THEN MatcherError
  ELSE AfterMask([Forced(p) EXCEPT !.ff_tokens_cache = None], FfTokensNow(p))

(* The two calls that ask for a mask differ in a stopped session only.      *)
LEMMA MaskCalls ==
  /\ ComputeMask =>
       /\ session' = IF Failed THEN session ELSE SessionAfterMask(session)
       /\ reply' = Reply("mask", <<>>, 0, IF session' = MatcherError THEN Failure ELSE 0)
  /\ ComputeMaskOrEos =>
       /\ session' = IF Failed \/ Stopped(session) THEN session
                     ELSE SessionAfterMask(session)
       /\ reply' = Reply("mask_or_eos", <<>>, 0,
                         IF session' = MatcherError THEN Failure ELSE 0)
  /\ ComputeMask \/ ComputeMaskOrEos =>
       \/ bias_cache' = bias_cache
       \/ ~Failed /\ ~Stopped(session) /\ KeepBias(Forced(session), FfTokensNow(session))
<1>1. CASE NoMask
  BY <1>1 DEF ComputeMask, ComputeMaskOrEos, Answer, NoMask, SessionAfterMask, Failed
<1>2. CASE ~NoMask
  BY <1>2 DEF ComputeMask, ComputeMaskOrEos, Masked, Answer, NoMask, SessionAfterMask
<1> QED BY <1>1, <1>2

(* A mask leaves the caches right.                                          *)
LEMMA AfterMaskFresh ==
  ASSUME NEW p \in FreshSessions
  PROVE  SessionAfterMask(p) \in Sessions
<1> DEFINE f == Forced(p)
           q == [f EXCEPT !.ff_tokens_cache = None]
<1>1. Sane(f) /\ Cached(f)
  BY ForcedFacts DEF FreshSessions
<1> HIDE DEF f
<1>2. q \in FreshSessions
  BY <1>1, CacheTokens
<1>3. SessionAfterMask(p) = IF Stopped(p) THEN MatcherError ELSE AfterMask(q, FfTokensNow(p))
  BY DEF SessionAfterMask, f
<1> HIDE DEF q
<1>4. WithAccepting(q) \in FreshSessions
  BY <1>2, WithAcceptingFresh
<1> QED BY <1>2, <1>3, <1>4 DEF AfterMask, Sessions

(* compute_ff_tokens().                                                     *)
LEMMA WithFfTokensFresh ==
  ASSUME NEW p \in FreshSessions
  PROVE  /\ WithFfTokens(p) \in FreshSessions
         /\ WithFfTokens(p).ff_tokens_cache \in FfTokens \cup {None}
<1>1. CASE p.tokenize_is_canonical
  <2> DEFINE f == ForceBytes(p)
             ff == FfTokensOf(f)
  <2>1. f \in FreshSessions /\ ForcedOn(p, f)
    BY ForceBytesFresh
  <2>2. WithFfTokens(p) = [f EXCEPT !.ff_tokens_cache = ff]
    BY <1>1 DEF WithFfTokens
  <2> HIDE DEF f
  <2>3. Sane(f) /\ Cached(f) /\ f.last_force_bytes_len = Len(f.bytes)
    BY <2>1 DEF FreshSessions, ForcedOn
  <2>4. ff \in FfTokens
    <3>1. ForcedBytes(f) \in Bytes /\ f.llm_tokens \in Texts
      BY <2>3, ForcedBytesAre, SaneParts
    <3> QED BY <3>1, FfTokensTyped
  <2>5. ff \in FfTokens \cup {None} /\ ff = FfTokensOf(f)
    BY <2>4
  <2> HIDE DEF ff
  <2>6. WithFfTokens(p) \in FreshSessions /\ WithFfTokens(p).ff_tokens_cache = ff
    BY <2>2, <2>3, <2>5, CacheTokens
  <2> QED BY <2>5, <2>6
<1>2. CASE ~p.tokenize_is_canonical
  <2>1. WithFfTokens(p) = p
    BY <1>2 DEF WithFfTokens
  <2> QED BY <2>1 DEF FreshSessions, TokenParser
<1> QED BY <1>1, <1>2

(* The new session.                                                         *)
LEMMA NewSessionFresh ==
  ASSUME NEW canonical \in BOOLEAN
  PROVE  NewTokenParser(canonical) \in FreshSessions
<1> DEFINE p == NewTokenParser(canonical)
<1>1. /\ p.chart = NewChart /\ p.bytes = <<>> /\ p.applied = 0 /\ p.llm_tokens = <<>>
      /\ p.max_tokens_total = MaxTokensTotal
      /\ p.is_accepting_cache = None /\ p.ff_tokens_cache = None
  BY DEF NewTokenParser
<1>2. /\ Fit(NewChart, TRUE) /\ NewChart.budget = Unlimited /\ NewChart \in ParserChart
  <2>1. Fit(NewChart, TRUE)
    BY NewChartMore
  <2> QED BY <2>1 DEF Fit, Good, NewChart
<1>3. /\ <<>> \in Seq(Byte) /\ <<>> \in Seq(Tokens \cup {EOS}) /\ Len(<<>>) = 0
      /\ MaxTokensTotal \in Nat /\ "NotStopped" \in StopReason
  BY EmptySeq, MatcherAssumption DEF StopReason
<1>4. p \in TokenParser
  BY <1>2, <1>3 DEF NewTokenParser, TokenParser
<1> HIDE DEF p
<1>5. Sane(p)
  <2>1. Fit(p.chart, TRUE) /\ p.chart.budget = Unlimited
    BY <1>1, <1>2
  <2>2. Len(p.bytes) = 0 /\ Len(p.llm_tokens) = 0
    BY <1>1, <1>3
  <2>3. p.applied <= Len(p.bytes)
    BY <1>1, <2>2
  <2>4. p.max_tokens_total + Len(p.llm_tokens) = MaxTokensTotal
    BY <1>1, <1>3, <2>2
  <2> QED BY <1>4, <2>1, <2>3, <2>4 DEF Sane
<1>6. Cached(p)
  BY <1>1 DEF Cached, AcceptingFresh, TokensFresh
<1> QED BY <1>4, <1>5, <1>6 DEF FreshSessions, p

-----------------------------------------------------------------------------
(* The session is in order and its caches are fresh, or it is gone.         *)
SessionFresh == session \in Sessions

(* It begins so.                                                            *)
LEMMA SessionFreshInit ==
  ASSUME Init
  PROVE  SessionFresh
<1> QED BY NewSessionFresh DEF Init, SessionFresh, Sessions

(* A session that is not gone has fresh caches.                             *)
LEMMA NotFailed ==
  ASSUME SessionFresh, ~Failed
  PROVE  session \in FreshSessions
<1> QED BY DEF SessionFresh, Sessions, Failed

(* Every call leaves it so.                                                 *)
LEMMA SessionFreshNext ==
  ASSUME SessionFresh, [Next]_vars
  PROVE  SessionFresh'
<1>1. ASSUME NEW ts \in Batches, ConsumeTokens(ts)
      PROVE  SessionFresh'
  <2>1. ts \in Texts
    BY MatcherAssumption DEF Texts
  <2>2. session' = IF Failed THEN session ELSE Consumed(session, ts)
    BY <1>1 DEF ConsumeTokens, Answer
  <2>3. ~Failed => Consumed(session, ts) \in Sessions
    BY <2>1, NotFailed, ConsumedTyped
  <2> QED BY <2>2, <2>3 DEF SessionFresh
<1>2. ASSUME NEW ts \in Batches, TryConsumeTokens(ts)
      PROVE  SessionFresh'
  <2>1. ts \in Texts
    BY MatcherAssumption DEF Texts
  <2>2. session' = TryConsumed(session, ts).p
    BY <1>2 DEF TryConsumeTokens, Answer
  <2>3. TryConsumed(session, ts) \in Tries
    <3>1. Len(ts) \in 0..Len(ts)
      BY <2>1, LenProperties DEF Texts
    <3>2. session \in Sessions
      BY DEF SessionFresh
    <3> QED BY <2>1, <3>1, <3>2, TriedSteps DEF TryConsumed
  <2> QED BY <2>2, <2>3 DEF SessionFresh, Tries
<1>3. ASSUME NEW n \in 0..MaxTokensTotal + 1, Rollback(n)
      PROVE  SessionFresh'
  <2>1. session' = IF Failed THEN session ELSE RollbackTokens(session, n)
    BY <1>3 DEF Rollback, Answer
  <2>2. n \in Nat
    BY MatcherAssumption
  <2>3. ~Failed => RollbackTokens(session, n) \in Sessions
    <3> SUFFICES ASSUME ~Failed PROVE RollbackTokens(session, n) \in Sessions
      OBVIOUS
    <3>1. session \in FreshSessions /\ Sane(session)
      BY NotFailed DEF FreshSessions
    <3> DEFINE q == RollbackTokens(session, n)
    <3>2. CASE n = 0
      <4>1. q = session
        BY <3>2 DEF RollbackTokens
      <4> QED BY <3>1, <4>1 DEF Sessions
    <3>3. CASE q = MatcherError
      BY <3>3 DEF Sessions
    <3>4. CASE n # 0 /\ q # MatcherError
      <4> HIDE DEF q
      <4>1. TookBack(session, n, q)
        BY <2>2, <3>1, <3>4, RollbackFacts DEF q
      <4>2. q \in FreshSessions
        BY <4>1 DEF TookBack, FreshSessions, Sane
      <4> QED BY <4>2 DEF Sessions, q
    <3> QED BY <3>2, <3>3, <3>4
  <2> QED BY <2>1, <2>3 DEF SessionFresh
<1>4. ASSUME ComputeMask \/ ComputeMaskOrEos
      PROVE  SessionFresh'
  <2>1. session' = session \/ (~Failed /\ session' = SessionAfterMask(session))
    BY <1>4, MaskCalls
  <2>2. ~Failed => SessionAfterMask(session) \in Sessions
    BY NotFailed, AfterMaskFresh
  <2> QED BY <2>1, <2>2 DEF SessionFresh
<1>5. ASSUME IsAcceptingCall
      PROVE  SessionFresh'
  <2>1. session' = IF Failed THEN session ELSE WithAccepting(session)
    BY <1>5 DEF IsAcceptingCall, Answer
  <2>2. ~Failed => WithAccepting(session) \in FreshSessions
    BY NotFailed, WithAcceptingFresh
  <2> QED BY <2>1, <2>2 DEF SessionFresh, Sessions
<1>6. ASSUME ComputeFfTokens
      PROVE  SessionFresh'
  <2>1. session' = IF Failed THEN session ELSE WithFfTokens(session)
    BY <1>6 DEF ComputeFfTokens
  <2>2. ~Failed => WithFfTokens(session) \in FreshSessions
    BY NotFailed, WithFfTokensFresh
  <2> QED BY <2>1, <2>2 DEF SessionFresh, Sessions
<1>7. ASSUME ComputeFfBytes
      PROVE  SessionFresh'
  <2>1. session' = IF Failed THEN session ELSE ForceBytes(session)
    BY <1>7 DEF ComputeFfBytes
  <2>2. ~Failed => ForceBytes(session) \in FreshSessions
    BY NotFailed, ForceBytesFresh
  <2> QED BY <2>1, <2>2 DEF SessionFresh, Sessions
<1>8. ASSUME ConsumeFfTokens
      PROVE  SessionFresh'
  <2> DEFINE q == WithFfTokens(session)
             ts == q.ff_tokens_cache.tokens
  <2>1. /\ ~Failed /\ q.ff_tokens_cache # None
        /\ session' = Consumed(q, ts)
    BY <1>8 DEF ConsumeFfTokens, Answer
  <2>2. q \in FreshSessions /\ q.ff_tokens_cache \in FfTokens \cup {None}
    BY <2>1, NotFailed, WithFfTokensFresh
  <2> HIDE DEF q
  <2>3. ts \in Seq(Tokens)
    BY <2>1, <2>2 DEF FfTokens
  <2>4. ts \in Texts
    BY <2>3, TokensAreBytes
  <2> HIDE DEF ts
  <2>5. Consumed(q, ts) \in Sessions
    BY <2>2, <2>4, ConsumedTyped
  <2> QED BY <2>1, <2>5 DEF SessionFresh
<1>9. ASSUME InvalidateBiasCache \/ UNCHANGED vars
      PROVE  SessionFresh'
  BY <1>9 DEF InvalidateBiasCache, vars, SessionFresh
<1> QED BY <1>1, <1>2, <1>3, <1>4, <1>5, <1>6, <1>7, <1>8, <1>9 DEF Next

(* A session is in order, with fresh caches, whatever the client calls.     *)
LEMMA AlwaysFresh == Spec => []SessionFresh
<1>1. Init => SessionFresh
  BY SessionFreshInit
<1>2. SessionFresh /\ [Next]_vars => SessionFresh'
  BY SessionFreshNext
<1> QED BY <1>1, <1>2, PTL DEF Spec

(* What a session caches of is_accepting() and of the forced tokens is what *)
(* would be computed, after any sequence of calls: ff_tokens_cache and      *)
(* is_accepting_cache of tokenparser.rs are never stale, although bytes are *)
(* forced, an end of sequence flushes the lexer, tokens are consumed and    *)
(* taken back while they are set.                                           *)
THEOREM CachesAlwaysFresh == Spec => []CachesFresh
<1>1. SessionFresh => CachesFresh
  <2> SUFFICES ASSUME SessionFresh, ~Failed PROVE CachesFresh
    BY DEF CachesFresh
  <2>1. session \in FreshSessions
    BY NotFailed
  <2>2. Sane(session) /\ Cached(session) /\ session \in TokenParser
    BY <2>1 DEF FreshSessions
  <2> DEFINE o == [session EXCEPT !.is_accepting_cache = None]
  <2>3. /\ o.is_accepting_cache = None /\ o.chart = session.chart
        /\ o.bytes = session.bytes /\ o.applied = session.applied
    BY <2>2 DEF TokenParser
  <2> HIDE DEF o
  <2>4. Accepting(o) = MayEnd(session)
    BY <2>3 DEF Accepting, MayEnd, ForcedBytes
  <2>5. session.is_accepting_cache # None => session.is_accepting_cache = Accepting(o)
    BY <2>2, <2>4 DEF Cached, AcceptingFresh
  <2>6. session.ff_tokens_cache # None => session.ff_tokens_cache = FfTokensOf(Forced(session))
    <3> SUFFICES ASSUME session.ff_tokens_cache # None
                 PROVE  session.ff_tokens_cache = FfTokensOf(Forced(session))
      OBVIOUS
    <3>1. Forced(session) = session
      BY <2>2, ForcedFacts
    <3> QED BY <2>2, <3>1 DEF Cached, TokensFresh
  <2> QED BY <2>5, <2>6 DEF CachesFresh, o
<1> QED BY <1>1, AlwaysFresh, PTL

(* The budget of tokens is neither lost nor refunded twice: while a session *)
(* lasts, max_tokens_total is what the tokens it holds leave of the limit.  *)
BudgetKept ==
  ~Failed => session.max_tokens_total + Len(session.llm_tokens) = MaxTokensTotal
THEOREM BudgetAlwaysKept == Spec => []BudgetKept
<1>1. SessionFresh => BudgetKept
  <2> SUFFICES ASSUME SessionFresh, ~Failed PROVE BudgetKept
    BY DEF BudgetKept
  <2>1. session \in FreshSessions
    BY NotFailed
  <2> QED BY <2>1 DEF FreshSessions, Sane, BudgetKept
<1> QED BY <1>1, AlwaysFresh, PTL
-----------------------------------------------------------------------------
(* What a session knows of its text.  The bytes it has are accepted by a    *)
(* new parser, of which its own is an extension; they begin with the text,  *)
(* and what is beyond was forced, as far as possible when force_bytes() was *)
(* called last.                                                             *)
End(bs) == Len(bs) >= MaxBytes \/ ForcedByte(Fresh(bs).chart) = {}

Told(p, text) ==
  /\ Fresh(p.bytes).ok /\ Extends(p.chart, Fresh(p.bytes).chart)
  /\ LexerBytesOk(p)
  /\ SubSeq(p.bytes, 1, p.applied) = text
  /\ \A i \in (p.applied + 1)..Len(p.bytes) : ForcedAt(p.bytes, i)
  /\ p.applied < Len(p.bytes) => Len(p.bytes) <= MaxBytes
  /\ p.last_force_bytes_len \in Nat => p.last_force_bytes_len <= Len(p.bytes)
  /\ p.last_force_bytes_len = Len(p.bytes) => End(p.bytes)

(* The parser of a session without an end of sequence is the twin of a new  *)
(* parser that was given its bytes.                                         *)
LEMMA ToldTwin ==
  ASSUME NEW p, Sane(p), NEW text, Told(p, text), ~p.lexer_stack_top_eos
  PROVE  /\ Twin(p.chart, Fresh(p.bytes).chart)
         /\ Unbounded(p.chart) /\ Unbounded(Fresh(p.bytes).chart)
<1>1. p.bytes \in Seq(Byte) /\ Len(p.bytes) \in Nat
  BY SaneParts DEF Bytes
<1>2. /\ Fit(Fresh(p.bytes).chart, TRUE) /\ Fresh(p.bytes).chart.budget = Unlimited
      /\ Fresh(p.bytes).ok => Len(Fresh(p.bytes).chart.lexer_stack) = Len(p.bytes) + 1
  BY <1>1, FreshFacts
<1>3. Len(p.chart.lexer_stack) = Len(p.bytes) + 1
  BY DEF Told, LexerBytesOk
<1>4. Twin(p.chart, Fresh(p.bytes).chart)
  BY <1>2, <1>3 DEF Told, Twin, SameHeight
<1> QED BY <1>2, <1>4 DEF Sane, Fit, Unbounded

(* The whole of a sequence.                                                 *)
LEMMA WholeSeq ==
  ASSUME NEW S, NEW s \in Seq(S)
  PROVE  SubSeq(s, 1, Len(s)) = s
<1> DEFINE u == SubSeq(s, 1, Len(s))
<1>1. Len(s) \in Nat
  BY LenProperties
<1>2. u \in Seq(S) /\ Len(u) = Len(s) /\ \A i \in 1..Len(s) : u[i] = s[i]
  BY <1>1, CutAt
<1> HIDE DEF u
<1>3. u = s
  BY <1>2, SeqEqual
<1> QED BY <1>3 DEF u

(* One element more of a sequence.                                          *)
LEMMA CutNext ==
  ASSUME NEW S, NEW s \in Seq(S), NEW k \in 0..(Len(s) - 1)
  PROVE  SubSeq(s, 1, k + 1) = Append(SubSeq(s, 1, k), s[k + 1])
<1> DEFINE u == SubSeq(s, 1, k + 1)
           w == SubSeq(s, 1, k)
           x == s[k + 1]
           v == Append(w, x)
<1>1. s \in Seq(S) /\ Len(s) \in Nat
  BY LenProperties
<1>2. k \in 0..Len(s) /\ k + 1 \in 0..Len(s) /\ k + 1 \in 1..Len(s)
  BY <1>1
<1>3. x \in S
  BY <1>1, <1>2, ElementOfSeq
<1>4. u \in Seq(S) /\ Len(u) = k + 1 /\ \A i \in 1..(k + 1) : u[i] = s[i]
  BY <1>1, <1>2, CutAt
<1>5. w \in Seq(S) /\ Len(w) = k /\ \A i \in 1..k : w[i] = s[i]
  BY <1>1, <1>2, CutAt
<1> HIDE DEF u, w
<1>6. /\ v \in Seq(S) /\ Len(v) = k + 1 /\ v[k + 1] = x
      /\ \A i \in 1..k : v[i] = w[i]
  BY <1>3, <1>5, AppendProperties
<1> HIDE DEF v
<1>7. \A i \in 1..(k + 1) : u[i] = v[i]
  BY <1>2, <1>4, <1>5, <1>6
<1>8. u = v
  BY <1>4, <1>6, <1>7, SeqEqual
<1> QED BY <1>8 DEF u, v, w

(* The beginnings of a sequence.                                            *)
LEMMA CutBytes ==
  ASSUME NEW bs \in Bytes, NEW b \in Byte
  PROVE  /\ SubSeq(bs, 1, Len(bs)) = bs
         /\ \A k \in 0..Len(bs) : SubSeq(Append(bs, b), 1, k) = SubSeq(bs, 1, k)
         /\ \A k \in 0..(Len(bs) - 1) : SubSeq(bs, 1, k + 1) = Append(SubSeq(bs, 1, k), bs[k + 1])
<1> DEFINE cs == Append(bs, b)
<1>1. /\ bs \in Seq(Byte) /\ Len(bs) \in Nat
      /\ cs \in Seq(Byte) /\ Len(cs) = Len(bs) + 1
      /\ \A i \in 1..Len(bs) : cs[i] = bs[i]
  BY LenProperties, AppendProperties DEF Bytes
<1> HIDE DEF cs
<1>2. ASSUME NEW k \in 0..Len(bs)
      PROVE  /\ SubSeq(bs, 1, k) \in Seq(Byte) /\ Len(SubSeq(bs, 1, k)) = k
             /\ \A i \in 1..k : SubSeq(bs, 1, k)[i] = bs[i]
  BY <1>1, CutAt
<1>3. ASSUME NEW k \in 0..Len(bs)
      PROVE  SubSeq(cs, 1, k) = SubSeq(bs, 1, k)
  <2>1. k \in 0..Len(cs)
    BY <1>1
  <2>2. /\ SubSeq(cs, 1, k) \in Seq(Byte) /\ Len(SubSeq(cs, 1, k)) = k
        /\ \A i \in 1..k : SubSeq(cs, 1, k)[i] = cs[i]
    BY <1>1, <2>1, CutAt
  <2> DEFINE u == SubSeq(cs, 1, k)
             v == SubSeq(bs, 1, k)
  <2>3. u \in Seq(Byte) /\ v \in Seq(Byte) /\ Len(u) = Len(v) /\ \A i \in 1..Len(u) : u[i] = v[i]
    BY <1>1, <1>2, <2>2
  <2> HIDE DEF u, v
  <2>4. u = v
    BY <2>3, SeqEqual
  <2> QED BY <2>4 DEF u, v
<1>4. \A k \in 0..(Len(bs) - 1) : SubSeq(bs, 1, k + 1) = Append(SubSeq(bs, 1, k), bs[k + 1])
  BY <1>1, CutNext
<1>5. SubSeq(bs, 1, Len(bs)) = bs
  BY <1>1, WholeSeq
<1> QED BY <1>3, <1>4, <1>5 DEF cs

(* A byte taken by the parser, forced or applied.                           *)
LEMMA AppendTold ==
  ASSUME NEW p, Sane(p), NEW text, Told(p, text), ~p.lexer_stack_top_eos,
         NEW b \in Byte, NEW r, r = TryPushByte(p.chart, b, TRUE, Len(p.bytes)), r.ok,
         NEW q, q.chart = r.chart, q.bytes = Append(p.bytes, b),
         q.lexer_stack_top_eos = p.lexer_stack_top_eos,
         q.last_force_bytes_len = p.last_force_bytes_len
  PROVE  /\ Fresh(q.bytes).ok /\ Extends(q.chart, Fresh(q.bytes).chart)
         /\ LexerBytesOk(q)
         /\ q.bytes \in Bytes /\ Len(q.bytes) = Len(p.bytes) + 1
         /\ q.last_force_bytes_len \in Nat => q.last_force_bytes_len <= Len(q.bytes)
         /\ q.last_force_bytes_len # Len(q.bytes)
<1> DEFINE bs == p.bytes
           cs == Append(bs, b)
<1>1. bs \in Bytes /\ bs \in Seq(Byte) /\ Len(bs) \in Nat
  BY SaneParts DEF Bytes
<1>2. Twin(p.chart, Fresh(bs).chart) /\ Fit(p.chart, TRUE) /\ p.chart.budget = Unlimited
      /\ Fresh(bs).ok
  BY ToldTwin DEF Sane, Told
<1>3. cs \in Bytes /\ cs \in Seq(Byte) /\ Len(cs) = Len(bs) + 1
  BY <1>1, AppendProperties DEF Bytes
<1>4. Fresh(cs).ok /\ Twin(r.chart, Fresh(cs).chart)
  <2> HIDE DEF cs
  <2> DEFINE c == p.chart
             n == Len(bs)
  <2>1. /\ Fit(c, TRUE) /\ c.budget = Unlimited /\ Twin(c, Fresh(bs).chart) /\ Fresh(bs).ok
        /\ n \in Nat /\ r = TryPushByte(c, b, TRUE, n)
    BY <1>1, <1>2
  <2> HIDE DEF c, n, bs
  <2>2. /\ TryPushByte(c, b, TRUE, n).ok = Fresh(Append(bs, b)).ok
        /\ TryPushByte(c, b, TRUE, n).ok
             => Twin(TryPushByte(c, b, TRUE, n).chart, Fresh(Append(bs, b)).chart)
    BY <1>1, <2>1, PushIff
  <2> QED BY <2>1, <2>2 DEF cs
<1> HIDE DEF cs
<1>5. q.bytes = cs
  BY DEF cs
<1>6. Len(Fresh(cs).chart.lexer_stack) = Len(cs) + 1
  BY <1>3, <1>4, FreshFacts
<1>7. LexerBytesOk(q)
  <2>1. Len(r.chart.lexer_stack) = Len(cs) + 1
    BY <1>4, <1>6 DEF Twin, SameHeight
  <2> QED BY <1>5, <2>1 DEF LexerBytesOk
<1>8. p.last_force_bytes_len \in Nat \cup {Never} /\ Never \notin Nat
      /\ (p.last_force_bytes_len \in Nat => p.last_force_bytes_len <= Len(bs))
  BY SaneParts, MatcherAssumption DEF Told
<1>9. /\ q.last_force_bytes_len \in Nat => q.last_force_bytes_len <= Len(q.bytes)
      /\ q.last_force_bytes_len # Len(q.bytes)
  BY <1>1, <1>3, <1>5, <1>8
<1> QED BY <1>3, <1>4, <1>5, <1>7, <1>9 DEF Twin
(* A step of force_bytes(): what is forced is the only byte allowed, so the *)
(* push succeeds.                                                           *)
LEMMA ForceOneTold ==
  ASSUME NEW p, Sane(p), NEW text, Told(p, text), ~p.lexer_stack_top_eos,
         Len(p.bytes) < MaxBytes,
         NEW q, q = ForceOne(p, ForcedByte(p.chart))
  PROVE  /\ Told(q, text)
         /\ IF ForcedByte(p.chart) = {} THEN q = p ELSE Len(q.bytes) = Len(p.bytes) + 1
<1> DEFINE c == p.chart
           bs == p.bytes
<1>1. bs \in Bytes /\ bs \in Seq(Byte) /\ Len(bs) \in Nat /\ p.applied \in 0..Len(bs)
  BY SaneParts DEF Bytes
<1>2. /\ Twin(c, Fresh(bs).chart) /\ Unbounded(c) /\ Unbounded(Fresh(bs).chart)
      /\ Fresh(bs).ok
  BY ToldTwin DEF Told
<1>3. CASE ForcedByte(c) = {}
  <2>1. q = p
    BY <1>3 DEF ForceOne
  <2> QED BY <1>3, <2>1
<1>4. CASE ForcedByte(c) # {}
  <2> DEFINE b == CHOOSE x \in ForcedByte(c) : TRUE
             r == TryPushByte(c, b, TRUE, Len(bs))
             d == Fresh(bs).chart
  <2>1. b \in ForcedByte(c) /\ b \in Byte
    BY <1>4, ForcedTyped
  <2>2. q = PushForced(p, r, b)
    BY <1>4 DEF ForceOne
  <2> HIDE DEF b
  <2>3. b \in ForcedByte(d) /\ AllowedBytes(c) = AllowedBytes(d)
    BY <1>2, <2>1, ForcedByteSame
  <2>4. ~IsAccepting(d) /\ AllowedBytes(d) = {b}
    <3>1. Tracked(d)
      BY <1>1, <1>2, FreshTracked
    <3> HIDE DEF d
    <3> QED BY <1>2, <2>3, <3>1, ForcedIsOnly DEF d
  <2>5. r.ok
    <3>1. b \in AllowedBytes(c) /\ Fit(c, TRUE) /\ Twin(c, c) /\ c.budget = Unlimited
      <4>1. b \in AllowedBytes(c)
        BY <2>3, <2>4
      <4>2. Fit(c, TRUE) /\ c.budget = Unlimited
        BY DEF Sane
      <4>3. Twin(c, c)
        BY <4>2, TwinRefl DEF Fit, SameRows
      <4> QED BY <4>1, <4>2, <4>3
    <3>2. r.ok \/ r.chart.budget = 0
      <4> HIDE DEF c, bs, r
      <4> QED BY <1>1, <1>2, <3>1, AllowedPush DEF r
    <3>3. r.chart.budget = Unlimited
      <4> HIDE DEF c, bs, r
      <4> QED BY <1>1, <2>1, <3>1, TwinRefused DEF r
    <3> QED BY <3>2, <3>3, UnlimitedIsNotZero
  <2>6. q = [p EXCEPT !.chart = r.chart, !.bytes = Append(@, b)]
    BY <2>2, <2>5 DEF PushForced
  <2>7. /\ q.chart = r.chart /\ q.bytes = Append(bs, b) /\ q.applied = p.applied
        /\ q.lexer_stack_top_eos = p.lexer_stack_top_eos
        /\ q.last_force_bytes_len = p.last_force_bytes_len
    BY <2>6 DEF Sane, TokenParser
  <2>8. /\ Fresh(q.bytes).ok /\ Extends(q.chart, Fresh(q.bytes).chart)
        /\ LexerBytesOk(q)
        /\ q.bytes \in Bytes /\ Len(q.bytes) = Len(bs) + 1
        /\ q.last_force_bytes_len \in Nat => q.last_force_bytes_len <= Len(q.bytes)
        /\ q.last_force_bytes_len # Len(q.bytes)
    <3> HIDE DEF r
    <3> QED BY <2>1, <2>5, <2>7, AppendTold DEF r
  <2>9. SubSeq(q.bytes, 1, q.applied) = text
    <3>1. SubSeq(Append(bs, b), 1, p.applied) = SubSeq(bs, 1, p.applied)
      BY <1>1, <2>1, CutBytes
    <3> QED BY <2>7, <3>1 DEF Told
  <2>10. \A i \in (q.applied + 1)..Len(q.bytes) : ForcedAt(q.bytes, i)
    <3> SUFFICES ASSUME NEW i \in (p.applied + 1)..(Len(bs) + 1)
                 PROVE  ForcedAt(Append(bs, b), i)
      BY <2>7, <2>8
    <3>1. i = Len(bs) + 1 \/ (i \in 1..Len(bs) /\ i \in (p.applied + 1)..Len(bs))
      BY <1>1
    <3>2. CASE i = Len(bs) + 1
      <4> HIDE DEF bs
      <4> QED BY <1>1, <2>1, <2>4, <3>2, ForcedKept DEF d
    <3>3. CASE i \in 1..Len(bs) /\ i \in (p.applied + 1)..Len(bs)
      <4>1. ForcedAt(bs, i)
        BY <3>3 DEF Told
      <4> HIDE DEF bs
      <4> QED BY <1>1, <2>1, <3>3, <4>1, ForcedKept
    <3> QED BY <3>1, <3>2, <3>3
  <2>11. Len(q.bytes) <= MaxBytes
    <3>1. MaxBytes \in Nat
      BY MatcherAssumption
    <3> QED BY <1>1, <2>8, <3>1
  <2> QED BY <1>4, <2>8, <2>9, <2>10, <2>11 DEF Told
<1> QED BY <1>3, <1>4

(* The text may not end where a byte is forced; and it is not ended.        *)
Ended(p) ==
  /\ p.applied = Len(p.bytes)
  /\ IsAccepting(p.chart) /\ IsAccepting(Fresh(p.bytes).chart)

Knows(p, text) == Told(p, text) /\ (p.lexer_stack_top_eos => Ended(p))

(* The session of force_bytes() knows as much, and that nothing more is     *)
(* forced.                                                                  *)
LEMMA ForceBytesTold ==
  ASSUME NEW p, Sane(p), NEW text, Knows(p, text), NEW q, q = ForceBytes(p)
  PROVE  Knows(q, text) /\ End(q.bytes) /\ q.lexer_stack_top_eos = p.lexer_stack_top_eos
<1>1. ForcedOn(p, q)
  BY ForceBytesFacts
<1>2. CASE p.last_force_bytes_len = Len(p.bytes)
  <2>1. q = p
    BY <1>2 DEF ForceBytes
  <2> QED BY <1>2, <2>1 DEF Knows, Told
<1>3. CASE p.last_force_bytes_len # Len(p.bytes)
  <2> DEFINE f == ForcedUpTo(p)
             N == Room(p)
             L == Len(p.bytes)
             s == f[N]
  <2>1. /\ N \in Nat
        /\ f[0] = p
        /\ \A k \in 1..N : f[k] = ForceOne(f[k - 1], ForcedByte(f[k - 1].chart))
        /\ \A k \in 0..N : ForcedByOne(p, f[k])
    BY ForcedSteps
  <2>2. L \in Nat /\ MaxBytes \in Nat /\ p.bytes \in Seq(Byte)
    BY SaneParts, MatcherAssumption DEF Bytes
  <2>3. N = IF L < MaxBytes THEN MaxBytes - L ELSE 0
    BY DEF Room
  <2> HIDE DEF f, N, L
  <2> DEFINE Fine == {k \in Nat : /\ Knows(f[k], text) /\ Len(f[k].bytes) \in Nat
                                  /\ \/ ForcedByte(f[k].chart) = {} /\ Len(f[k].bytes) <= L + k
                                     \/ Len(f[k].bytes) = L + k}
  <2>4. 0 \in Fine
    BY <2>1, <2>2 DEF L
  <2>5. ASSUME NEW k \in 0..(N - 1), k \in Fine PROVE k + 1 \in Fine
    <3> DEFINE o == f[k]
               w == f[k + 1]
    <3>1. k + 1 \in 1..N /\ (k + 1) - 1 = k /\ k \in 0..N /\ k + 1 \in Nat
      BY <2>1
    <3>2. w = ForceOne(o, ForcedByte(o.chart)) /\ Sane(o)
      BY <2>1, <3>1 DEF ForcedByOne
    <3>3. /\ Knows(o, text) /\ Len(o.bytes) \in Nat
          /\ \/ ForcedByte(o.chart) = {} /\ Len(o.bytes) <= L + k
             \/ Len(o.bytes) = L + k
      BY <2>5
    <3> HIDE DEF o, w, Fine
    <3>4. CASE ForcedByte(o.chart) = {}
      <4>1. w = o
        BY <3>2, <3>4 DEF ForceOne
      <4>2. Len(o.bytes) <= L + (k + 1)
        BY <2>2, <3>3
      <4>3. Knows(w, text) /\ Len(w.bytes) \in Nat /\ ForcedByte(w.chart) = {}
            /\ Len(w.bytes) <= L + (k + 1)
        BY <3>3, <3>4, <4>1, <4>2
      <4> QED BY <3>1, <4>3 DEF Fine, w
    <3>5. CASE ForcedByte(o.chart) # {}
      <4>1. ~o.lexer_stack_top_eos
        <5> SUFFICES ASSUME o.lexer_stack_top_eos PROVE FALSE
          OBVIOUS
        <5>1. IsAccepting(o.chart)
          BY <3>3 DEF Knows, Ended
        <5> QED BY <3>5, <5>1, ForcedTyped
      <4>2. Len(o.bytes) = L + k /\ Len(o.bytes) < MaxBytes
        BY <2>1, <2>2, <2>3, <3>3, <3>5
      <4>3. Told(w, text) /\ Len(w.bytes) = Len(o.bytes) + 1
        BY <3>2, <3>3, <3>5, <4>1, <4>2, ForceOneTold DEF Knows
      <4>4. ForcedByOne(o, w)
        BY <3>2, ForceOneFacts
      <4>5. ~w.lexer_stack_top_eos
        BY <4>1, <4>4 DEF ForcedByOne
      <4>6. Knows(w, text) /\ Len(w.bytes) \in Nat /\ Len(w.bytes) = L + (k + 1)
        BY <2>2, <4>2, <4>3, <4>5 DEF Knows
      <4> QED BY <3>1, <4>6 DEF Fine, w
    <3> QED BY <3>4, <3>5
  <2> HIDE DEF Fine
  <2>6. N \in Fine /\ N \in 0..N
    <3>1. \A k \in 0..N : k \in Fine
      BY <2>1, <2>4, <2>5, UpTo
    <3> QED BY <2>1, <3>1
  <2>7. /\ Knows(s, text) /\ Len(s.bytes) \in Nat
        /\ \/ ForcedByte(s.chart) = {}
           \/ Len(s.bytes) = L + N
    BY <2>6 DEF Fine
  <2>8. ForcedByOne(p, s) /\ Sane(s)
    BY <2>1, <2>6 DEF ForcedByOne
  <2>9. q = ForcedAll(s)
    BY <1>3 DEF ForceBytes, f, N
  <2> HIDE DEF s
  <2>10. End(s.bytes)
    <3>1. CASE Len(s.bytes) = L + N
      BY <2>2, <2>3, <3>1 DEF End
    <3>2. CASE ForcedByte(s.chart) = {}
      <4>1. CASE s.lexer_stack_top_eos
        <5>1. IsAccepting(Fresh(s.bytes).chart)
          BY <2>7, <4>1 DEF Knows, Ended
        <5> QED BY <5>1, ForcedTyped DEF End
      <4>2. CASE ~s.lexer_stack_top_eos
        <5>1. /\ Twin(s.chart, Fresh(s.bytes).chart)
              /\ Unbounded(s.chart) /\ Unbounded(Fresh(s.bytes).chart)
          BY <2>7, <2>8, <4>2, ToldTwin DEF Knows
        <5>2. ForcedByte(Fresh(s.bytes).chart) = {}
          BY <3>2, <5>1, ForcedByteSame
        <5> QED BY <5>2 DEF End
      <4> QED BY <4>1, <4>2
    <3> QED BY <2>7, <3>1, <3>2
  <2>11. /\ q.chart = s.chart /\ q.bytes = s.bytes /\ q.applied = s.applied
         /\ q.lexer_stack_top_eos = s.lexer_stack_top_eos
         /\ q.last_force_bytes_len = Len(s.bytes)
    BY <2>8, <2>9 DEF ForcedAll, Sane, TokenParser
  <2>12. Told(q, text)
    <3>1. Len(s.bytes) \in Nat
      BY <2>7
    <3>2. Told(s, text)
      BY <2>7 DEF Knows
    <3>3. LexerBytesOk(q)
      BY <2>11, <3>2 DEF Told, LexerBytesOk
    <3>4. End(q.bytes) /\ q.last_force_bytes_len <= Len(q.bytes)
      BY <2>10, <2>11, <3>1
    <3> QED BY <2>11, <3>2, <3>3, <3>4 DEF Told
  <2>13. q.lexer_stack_top_eos => Ended(q)
    BY <2>7, <2>11 DEF Knows, Ended
  <2> QED BY <1>1, <2>10, <2>11, <2>12, <2>13 DEF Knows, ForcedOn
<1> QED BY <1>2, <1>3
-----------------------------------------------------------------------------
(* Tokens consumed.                                                         *)

(* A byte more at the end.                                                  *)
LEMMA AppendConcat ==
  ASSUME NEW bs \in Bytes, NEW u \in Bytes, NEW b \in Byte
  PROVE  bs \o u \in Bytes /\ bs \o Append(u, b) = Append(bs \o u, b)
<1>1. bs \o u \in Bytes /\ <<b>> \in Bytes /\ Append(u, b) = u \o <<b>>
  BY AppendIsConcat, ConcatProperties DEF Bytes
<1>2. bs \o (u \o <<b>>) = (bs \o u) \o <<b>>
  BY <1>1, ConcatThree, Z3 DEF Bytes
<1>3. Append(bs \o u, b) = (bs \o u) \o <<b>>
  BY <1>1, AppendIsConcat DEF Bytes
<1> QED BY <1>1, <1>2, <1>3

(* A byte applied.                                                          *)
LEMMA ApplyByteTold ==
  ASSUME NEW p, Sane(p), NEW text, Told(p, text), ~p.lexer_stack_top_eos,
         NEW b \in Byte, NEW q, q = ApplyByte(p, b), q # MatcherError
  PROVE  Told(q, Append(text, b)) /\ ~q.lexer_stack_top_eos
<1> DEFINE bs == p.bytes
           k == p.applied
<1>1. bs \in Bytes /\ bs \in Seq(Byte) /\ Len(bs) \in Nat /\ k \in 0..Len(bs)
  BY SaneParts DEF Bytes
<1>2. /\ AppliedBy(p, q) /\ q.applied = k + 1
      /\ k < Len(bs) => q.chart = p.chart /\ q.bytes = bs /\ bs[k + 1] = b
      /\ ~(k < Len(bs)) => LET r == TryPushByte(p.chart, b, TRUE, Len(bs)) IN
                            r.ok /\ q.chart = r.chart /\ q.bytes = Append(bs, b)
  <2>1. /\ AppliedBy(p, q) /\ q.applied = p.applied + 1
        /\ p.applied < Len(p.bytes) => ByteTaken(p, b, q)
        /\ ~(p.applied < Len(p.bytes)) => ByteAdded(p, b, q)
    BY ApplyByteFacts
  <2> QED BY <2>1 DEF ByteTaken, ByteAdded
<1>3. /\ q.lexer_stack_top_eos = p.lexer_stack_top_eos
      /\ q.last_force_bytes_len = p.last_force_bytes_len
  BY <1>2 DEF AppliedBy
<1>4. SubSeq(bs, 1, k) = text
  BY DEF Told
<1>5. CASE k < Len(bs)
  <2>1. q.chart = p.chart /\ q.bytes = bs /\ bs[k + 1] = b
    BY <1>2, <1>5
  <2>2. SubSeq(q.bytes, 1, q.applied) = Append(text, b)
    <3>1. k \in 0..(Len(bs) - 1)
      BY <1>1, <1>5
    <3> HIDE DEF bs, k
    <3>2. SubSeq(bs, 1, k + 1) = Append(SubSeq(bs, 1, k), bs[k + 1])
      BY <1>1, <3>1, CutBytes
    <3> QED BY <1>2, <1>4, <2>1, <3>2
  <2>3. LexerBytesOk(q)
    BY <1>3, <2>1 DEF Told, LexerBytesOk
  <2>4. \A i \in (q.applied + 1)..Len(q.bytes) : ForcedAt(q.bytes, i)
    <3> SUFFICES ASSUME NEW i \in (k + 1 + 1)..Len(bs) PROVE ForcedAt(bs, i)
      BY <1>2, <2>1
    <3>1. i \in (k + 1)..Len(bs)
      BY <1>1
    <3> QED BY <3>1 DEF Told
  <2>5. q.applied < Len(q.bytes) => Len(q.bytes) <= MaxBytes
    BY <1>1, <1>2, <1>5, <2>1 DEF Told
  <2> QED BY <1>3, <2>1, <2>2, <2>3, <2>4, <2>5 DEF Told
<1>6. CASE ~(k < Len(bs))
  <2> DEFINE r == TryPushByte(p.chart, b, TRUE, Len(bs))
  <2>1. r.ok /\ q.chart = r.chart /\ q.bytes = Append(bs, b)
    BY <1>2, <1>6
  <2>2. /\ Fresh(q.bytes).ok /\ Extends(q.chart, Fresh(q.bytes).chart)
        /\ LexerBytesOk(q)
        /\ q.bytes \in Bytes /\ Len(q.bytes) = Len(bs) + 1
        /\ q.last_force_bytes_len \in Nat => q.last_force_bytes_len <= Len(q.bytes)
        /\ q.last_force_bytes_len # Len(q.bytes)
    <3> HIDE DEF r
    <3> QED BY <1>3, <2>1, AppendTold DEF r
  <2>3. k = Len(bs) /\ q.applied = Len(q.bytes)
    BY <1>1, <1>2, <1>6, <2>2
  <2>4. SubSeq(q.bytes, 1, q.applied) = Append(text, b)
    <3>1. SubSeq(bs, 1, Len(bs)) = bs
      BY <1>1, CutBytes
    <3> DEFINE cs == q.bytes
    <3>2. cs \in Bytes
      BY <2>2
    <3> HIDE DEF cs
    <3>3. SubSeq(cs, 1, Len(cs)) = cs
      BY <3>2, CutBytes
    <3> QED BY <1>4, <2>1, <2>3, <3>1, <3>3 DEF cs
  <2>5. (q.applied + 1)..Len(q.bytes) = {} /\ ~(q.applied < Len(q.bytes))
    BY <1>1, <2>2, <2>3
  <2> QED BY <1>3, <2>2, <2>4, <2>5 DEF Told
<1> QED BY <1>5, <1>6

(* A token applied.                                                         *)
LEMMA ApplyTokenTold ==
  ASSUME NEW p, Sane(p), NEW text \in Bytes, Told(p, text), ~p.lexer_stack_top_eos,
         p.max_tokens_total # 0, NEW t \in Tokens,
         NEW q, q = ApplyToken(Paid(p), t), q # MatcherError
  PROVE  Told(q, text \o t) /\ ~q.lexer_stack_top_eos
<1> DEFINE s == Taking(p, t)
<1>1. /\ Sane(s) /\ s.chart = p.chart /\ s.bytes = p.bytes /\ s.applied = p.applied
      /\ s.lexer_stack_top_eos = p.lexer_stack_top_eos
      /\ s.last_force_bytes_len = p.last_force_bytes_len
  BY TakingFacts
<1>2. q = AppliedUpTo(s, t)[Len(t)]
  BY DEF ApplyToken, Taking
<1> HIDE DEF s
<1>3. t \in Bytes /\ t \in Seq(Byte) /\ Len(t) \in Nat /\ \A k \in 1..Len(t) : t[k] \in Byte
  BY MatcherAssumption, LenProperties, ElementOfSeq DEF Bytes
<1>4. Told(s, text) /\ ~s.lexer_stack_top_eos
  BY <1>1 DEF Told, LexerBytesOk
<1> DEFINE N == Len(t)
           f == AppliedUpTo(s, t)
           Read(k) == text \o SubSeq(t, 1, k)
           Fine == {k \in Nat : \/ f[k] = MatcherError
                                \/ Sane(f[k]) /\ Told(f[k], Read(k)) /\ ~f[k].lexer_stack_top_eos}
<1>5. /\ f[0] = s
      /\ \A k \in 1..N : f[k] = ApplyNext(f[k - 1], t[k])
      /\ \A k \in 0..N : f[k] = MatcherError \/ AppliedBy(s, f[k])
  BY <1>1, <1>3, AppliedSteps
<1> HIDE DEF f
<1>6. Read(0) = text /\ Read(N) = text \o t
  <2>1. SubSeq(t, 1, 0) = <<>>
    <3>1. 0 \in 0..Len(t)
      BY <1>3
    <3>2. SubSeq(t, 1, 0) \in Seq(Byte) /\ Len(SubSeq(t, 1, 0)) = 0
      BY <1>3, <3>1, CutAt
    <3> QED BY <3>2, EmptySeq
  <2>2. SubSeq(t, 1, N) = t
    <3>1. \A b \in Byte : SubSeq(t, 1, Len(t)) = t
      BY <1>3, CutBytes
    <3>2. t # <<>>
      BY MatcherAssumption
    <3>3. Len(t) \in 1..Len(t)
      BY <1>3, <3>2, EmptySeq
    <3> QED BY <1>3, <3>1, <3>3
  <2>3. text \o <<>> = text
    BY ConcatEmptySeq DEF Bytes
  <2> QED BY <2>1, <2>2, <2>3
<1>7. 0 \in Fine
  BY <1>1, <1>4, <1>5, <1>6
<1>8. ASSUME NEW k \in 0..(N - 1), k \in Fine PROVE k + 1 \in Fine
  <2> DEFINE o == f[k]
             w == f[k + 1]
             b == t[k + 1]
  <2>1. k + 1 \in 1..N /\ (k + 1) - 1 = k /\ k \in 0..N /\ k + 1 \in Nat
    BY <1>3
  <2>2. w = ApplyNext(o, b) /\ b \in Byte
    BY <1>3, <1>5, <2>1
  <2>3. Read(k + 1) = Append(Read(k), b)
    <3> DEFINE u == SubSeq(t, 1, k)
    <3>1. u \in Bytes
      <4>1. u \in Seq(Byte)
        BY <1>3, <2>1, CutAt
      <4> QED BY <4>1 DEF Bytes
    <3>2. SubSeq(t, 1, k + 1) = Append(u, b)
      BY <1>3, <2>2, CutBytes
    <3> HIDE DEF u, b
    <3>3. text \o Append(u, b) = Append(text \o u, b)
      BY <2>2, <3>1, AppendConcat
    <3> QED BY <3>2, <3>3 DEF u
  <2>4. CASE o = MatcherError \/ w = MatcherError
    <3>1. w = MatcherError
      BY <2>2, <2>4 DEF ApplyNext
    <3> QED BY <2>1, <3>1
  <2>5. CASE o # MatcherError /\ w # MatcherError
    <3>1. Sane(o) /\ Told(o, Read(k)) /\ ~o.lexer_stack_top_eos
      BY <1>8, <2>5
    <3>2. w = ApplyByte(o, b) /\ w # MatcherError
      BY <2>2, <2>5 DEF ApplyNext
    <3> HIDE DEF o, w, b, Read
    <3>3. Told(w, Append(Read(k), b)) /\ ~w.lexer_stack_top_eos
      BY <2>2, <3>1, <3>2, ApplyByteTold
    <3>4. Sane(w)
      BY <2>2, <3>1, <3>2, ApplyByteFacts DEF AppliedBy
    <3> QED BY <2>1, <2>3, <3>3, <3>4 DEF w
  <2> QED BY <2>4, <2>5
<1> HIDE DEF Fine, Read
<1>9. N \in Fine
  <2>1. \A k \in 0..N : k \in Fine
    BY <1>3, <1>7, <1>8, UpTo
  <2> QED BY <1>3, <2>1
<1> QED BY <1>2, <1>6, <1>9 DEF Fine, f

(* An end of sequence: the lexeme is flushed, and the text may end.         *)
LEMMA ConsumeEosTold ==
  ASSUME NEW p, Sane(p), Cached(p), p.max_tokens_total # 0,
         NEW text, Told(p, text), ~p.lexer_stack_top_eos,
         NEW q, q = ConsumeEos(Paid(p)), q # MatcherError
  PROVE  Told(q, text) /\ Ended(q)
<1> DEFINE r == FlushLexer(p.chart, TRUE, Len(p.bytes))
           d == Fresh(p.bytes).chart
<1>1. /\ MayEnd(p) /\ MayEnd(q) /\ Sane(q)
      /\ q.bytes = p.bytes /\ q.applied = p.applied
      /\ q.last_force_bytes_len = p.last_force_bytes_len
      /\ q.chart = r.chart
      /\ q.lexer_stack_top_eos = (r.ok /\ Len(r.chart.lexer_stack) # Len(p.chart.lexer_stack))
  <2>1. /\ TookToken(p, EOS, q)
        /\ MayEnd(p) /\ MayEnd(q)
        /\ q.bytes = p.bytes /\ q.applied = p.applied
        /\ q.last_force_bytes_len = p.last_force_bytes_len
        /\ q.chart = r.chart
        /\ q.lexer_stack_top_eos =
             (p.lexer_stack_top_eos \/ (r.ok /\ Len(r.chart.lexer_stack) # Len(p.chart.lexer_stack)))
    BY ConsumeEosFacts
  <2> QED BY <2>1, Zenon DEF TookToken
<1> HIDE DEF r
<1>2. p.bytes \in Seq(Byte) /\ Len(p.bytes) \in Nat /\ Fit(p.chart, TRUE)
      /\ p.chart.budget = Unlimited
  BY SaneParts DEF Bytes, Sane
<1>3. /\ Fit(r.chart, TRUE) /\ Extends(r.chart, p.chart)
      /\ ~r.ok => Twin(r.chart, p.chart)
  BY <1>2, FlushFacts DEF r
<1>4. /\ r.ok \in BOOLEAN
      /\ \/ r.chart.lexer_stack = p.chart.lexer_stack
         \/ r.ok /\ \E e \in LexerState : r.chart.lexer_stack = Append(p.chart.lexer_stack, e)
  BY <1>2, FlushLexerFacts DEF Fit, r
<1>5. /\ Twin(p.chart, d) /\ Fresh(p.bytes).ok
      /\ Unbounded(p.chart) /\ Unbounded(d)
  BY ToldTwin DEF Told
<1> HIDE DEF d
<1>6. Extends(q.chart, d)
  <2>1. Good(r.chart) /\ Good(p.chart) /\ Good(d)
    BY <1>3, <1>5 DEF Fit, Unbounded
  <2>2. Extends(p.chart, d)
    BY <1>5 DEF Twin
  <2> QED BY <1>1, <1>3, <2>1, <2>2, ExtendsTrans
<1>7. LexerBytesOk(q)
  <2>1. Len(p.chart.lexer_stack) = Len(p.bytes) + 1
    BY DEF Told, LexerBytesOk
  <2>2. p.chart.lexer_stack \in Seq(LexerState)
    BY <1>2 DEF Fit, Good, ParserChart
  <2>3. CASE r.chart.lexer_stack = p.chart.lexer_stack
    BY <1>1, <2>1, <2>3 DEF LexerBytesOk
  <2>4. CASE r.ok /\ \E e \in LexerState : r.chart.lexer_stack = Append(p.chart.lexer_stack, e)
    <3>1. Len(r.chart.lexer_stack) = Len(p.bytes) + 2
      <4> PICK e \in LexerState : r.chart.lexer_stack = Append(p.chart.lexer_stack, e)
        BY <2>4
      <4> DEFINE st == p.chart.lexer_stack
      <4>1. Len(Append(st, e)) = Len(st) + 1
        BY <2>2
      <4> QED BY <1>2, <2>1, <4>1
    <3>2. q.lexer_stack_top_eos
      <4>1. r.ok /\ Len(r.chart.lexer_stack) # Len(p.chart.lexer_stack)
        BY <1>2, <2>1, <2>4, <3>1
      <4> QED BY <1>1, <4>1
    <3> QED BY <1>1, <3>1, <3>2 DEF LexerBytesOk
  <2> QED BY <1>4, <2>3, <2>4
<1>8. Told(q, text)
  <2>1. /\ Fresh(q.bytes).ok /\ Extends(q.chart, Fresh(q.bytes).chart)
        /\ q.bytes = p.bytes /\ q.applied = p.applied
        /\ q.last_force_bytes_len = p.last_force_bytes_len
    BY <1>1, <1>5, <1>6 DEF d
  <2> QED BY <1>7, <2>1 DEF Told
<1>9. q.applied = Len(q.bytes)
  BY <1>1, ForcedBytesAre DEF MayEnd
<1>10. IsAccepting(q.chart)
  BY <1>1 DEF MayEnd
<1>11. IsAccepting(Fresh(q.bytes).chart)
  <2>1. IsAccepting(p.chart)
    BY <1>1 DEF MayEnd
  <2>2. IsAccepting(p.chart) = IsAccepting(d)
    BY <1>5, ForcedByteSame
  <2> QED BY <1>1, <2>1, <2>2 DEF d
<1> QED BY <1>8, <1>9, <1>10, <1>11 DEF Ended

-----------------------------------------------------------------------------
(* What a session knows between calls.                                      *)
NoEos(ts) == \A i \in 1..Len(ts) : ts[i] # EOS
EosLast(ts) == \A i \in 1..Len(ts) : i < Len(ts) => ts[i] # EOS

(* What it knows of its tokens, and of an end of sequence among them.       *)
Known(p) ==
  /\ Told(p, BytesOf(p.llm_tokens))
  /\ EosLast(p.llm_tokens)
  /\ IF NoEos(p.llm_tokens) THEN ~p.lexer_stack_top_eos ELSE Ended(p)

(* An end of sequence ends the session when the call returns.               *)
Between(p) == Known(p) /\ (~NoEos(p.llm_tokens) => Stopped(p))

(* The same is known of a session with the same parser and tokens.          *)
LEMMA KnownSame ==
  ASSUME NEW p, Known(p), NEW q, q.chart = p.chart, q.bytes = p.bytes, q.applied = p.applied,
         q.llm_tokens = p.llm_tokens, q.lexer_stack_top_eos = p.lexer_stack_top_eos,
         q.last_force_bytes_len = p.last_force_bytes_len
  PROVE  Known(q)
<1> DEFINE text == BytesOf(p.llm_tokens)
<1>1. Told(p, text)
  BY DEF Known
<1> HIDE DEF text
<1>2. Told(q, text)
  BY <1>1 DEF Told, LexerBytesOk
<1>3. Ended(p) => Ended(q)
  BY DEF Ended
<1> QED BY <1>2, <1>3 DEF Known, text

(* A text that has grown by a token.                                        *)
LEMMA EosAppend ==
  ASSUME NEW ts \in Texts, NoEos(ts), NEW t \in Tokens \cup {EOS}
  PROVE  EosLast(Append(ts, t)) /\ (NoEos(Append(ts, t)) <=> t # EOS)
<1> DEFINE us == Append(ts, t)
<1>1. /\ Len(ts) \in Nat /\ Len(us) = Len(ts) + 1 /\ us[Len(ts) + 1] = t
      /\ \A i \in 1..Len(ts) : us[i] = ts[i]
  BY LenProperties, AppendProperties DEF Texts
<1> HIDE DEF us
<1>2. EosLast(us)
  <2> SUFFICES ASSUME NEW i \in 1..Len(us), i < Len(us) PROVE us[i] # EOS
    BY DEF EosLast
  <2>1. i \in 1..Len(ts)
    BY <1>1
  <2> QED BY <1>1, <2>1 DEF NoEos
<1>3. ASSUME t # EOS PROVE NoEos(us)
  <2> SUFFICES ASSUME NEW i \in 1..Len(us) PROVE us[i] # EOS
    BY DEF NoEos
  <2>1. i \in 1..Len(ts) \/ i = Len(ts) + 1
    BY <1>1
  <2> QED BY <1>1, <1>3, <2>1 DEF NoEos
<1>4. NoEos(us) => t # EOS
  BY <1>1 DEF NoEos
<1> QED BY <1>2, <1>3, <1>4 DEF us

(* A token consumed.                                                        *)
LEMMA ConsumeTokenTold ==
  ASSUME NEW p \in FreshSessions, Known(p), NoEos(p.llm_tokens), NEW t \in Tokens \cup {EOS},
         NEW q, q = ConsumeToken(p, t), q # MatcherError
  PROVE  /\ q \in FreshSessions /\ Known(q) /\ ~Stopped(p)
         /\ t # EOS => NoEos(q.llm_tokens)
<1> DEFINE ts == p.llm_tokens
           text == BytesOf(ts)
<1>1. Sane(p) /\ Cached(p) /\ ts \in Texts
  BY SaneParts DEF FreshSessions
<1>2. /\ TookToken(p, t, q) /\ ~Stopped(p) /\ p.max_tokens_total # 0
      /\ q = IF t = EOS THEN ConsumeEos(Paid(p)) ELSE ApplyToken(Paid(p), t)
  BY <1>1, ConsumeTokenFacts
<1>3. Sane(q) /\ Cached(q) /\ q.llm_tokens = Append(ts, t)
  BY <1>2 DEF TookToken
<1>4. q \in FreshSessions
  BY <1>3 DEF FreshSessions, Sane
<1>5. EosLast(q.llm_tokens) /\ (NoEos(q.llm_tokens) <=> t # EOS)
  BY <1>1, <1>3, EosAppend
<1>6. text \in Bytes /\ BytesOf(q.llm_tokens) = text \o Piece(t)
  <2>1. <<>> \in Texts /\ BytesOf(ts) \in Bytes
    BY <1>1, EmptySeq, BytesOfConcat DEF Texts
  <2> QED BY <1>1, <1>3, <2>1, BytesOfAppend
<1>7. Told(p, text) /\ ~p.lexer_stack_top_eos
  BY DEF Known
<1>8. CASE t = EOS
  <2>1. q = ConsumeEos(Paid(p))
    BY <1>2, <1>8
  <2> HIDE DEF text
  <2>2. Told(q, text) /\ Ended(q)
    BY <1>1, <1>2, <1>7, <2>1, ConsumeEosTold
  <2>3. text \o Piece(t) = text
    BY <1>6, <1>8, ConcatEmptySeq DEF Piece, Bytes
  <2> QED BY <1>2, <1>4, <1>5, <1>6, <1>8, <2>2, <2>3 DEF Known
<1>9. CASE t # EOS
  <2>1. q = ApplyToken(Paid(p), t) /\ t \in Tokens
    BY <1>2, <1>9
  <2> HIDE DEF text
  <2>2. Told(q, text \o t) /\ ~q.lexer_stack_top_eos
    BY <1>1, <1>2, <1>6, <1>7, <2>1, ApplyTokenTold
  <2>3. Piece(t) = t
    BY <1>9 DEF Piece
  <2> QED BY <1>2, <1>4, <1>5, <1>6, <1>9, <2>2, <2>3 DEF Known
<1> QED BY <1>8, <1>9

(* What check_stop() makes of a session that knows its text.                *)
LEMMA CheckStopTold ==
  ASSUME NEW p \in FreshSessions, Known(p), NEW q, q = CheckStop(p)
  PROVE  q \in FreshSessions /\ Between(q)
<1>1. Sane(p) /\ Cached(p) /\ p.llm_tokens \in Texts /\ Len(p.llm_tokens) \in Nat
  BY SaneParts DEF FreshSessions
<1>2. StopChecked(p, q)
  BY <1>1, CheckStopFacts
<1>3. q \in FreshSessions
  BY <1>2 DEF StopChecked, FreshSessions, Sane
<1>4. Known(q)
  BY <1>2, KnownSame DEF StopChecked
<1>5. ASSUME ~NoEos(q.llm_tokens) PROVE Stopped(q)
  <2>1. ~NoEos(p.llm_tokens) /\ EosLast(p.llm_tokens) /\ Ended(p)
    BY <1>2, <1>5 DEF StopChecked, Known
  <2>2. PICK i \in 1..Len(p.llm_tokens) : p.llm_tokens[i] = EOS
    BY <2>1 DEF NoEos
  <2>3. i = Len(p.llm_tokens)
    BY <1>1, <2>1, <2>2 DEF EosLast
  <2>4. p.llm_tokens # <<>> /\ Last(p.llm_tokens) = EOS
    BY <1>1, <2>2, <2>3, EmptySeq DEF Last
  <2>5. MayEnd(p)
    BY <1>1, <2>1, ForcedBytesAre DEF Ended, MayEnd
  <2> QED BY <1>2, <2>4, <2>5 DEF StopChecked
<1> QED BY <1>3, <1>4, <1>5 DEF Between

(* A batch of tokens, an end of sequence only at its end.                   *)
LEMMA ConsumedTold ==
  ASSUME NEW p \in FreshSessions, Between(p), NEW ts \in Texts, EosLast(ts),
         NEW q, q = Consumed(p, ts), q # MatcherError
  PROVE  q \in FreshSessions /\ Between(q)
<1> DEFINE f == ConsumedUpTo(p, ts)
           N == Len(ts)
           Fine(k) == f[k] # MatcherError =>
                        /\ f[k] \in FreshSessions /\ Known(f[k])
                        /\ k < N => NoEos(f[k].llm_tokens) \/ Stopped(f[k])
           Shown == {k \in Nat : Fine(k)}
<1>1. /\ N \in Nat
      /\ f[0] = p
      /\ \A k \in 1..N : f[k] = ConsumeNext(f[k - 1], ts[k])
  <2>1. p \in Sessions
    BY DEF Sessions
  <2> QED BY <2>1, ConsumedSteps
<1>2. \A k \in 1..N : ts[k] \in Tokens \cup {EOS}
  BY ElementOfSeq DEF Texts
<1> HIDE DEF f
<1>3. 0 \in Shown
  <2>1. Fine(0)
    BY <1>1 DEF Between
  <2> HIDE DEF Fine
  <2> QED BY <2>1
<1>4. ASSUME NEW k \in 0..(N - 1), k \in Shown PROVE k + 1 \in Shown
  <2> DEFINE o == f[k]
             w == f[k + 1]
             t == ts[k + 1]
  <2>1. k + 1 \in 1..N /\ (k + 1) - 1 = k /\ k \in 0..N /\ k + 1 \in Nat /\ k < N
    BY <1>1
  <2>2. w = ConsumeNext(o, t) /\ t \in Tokens \cup {EOS}
    BY <1>1, <1>2, <2>1
  <2>3. k + 1 < N => t # EOS
    BY <2>1 DEF EosLast
  <2>4. Fine(k)
    <3> HIDE DEF Fine
    <3> QED BY <1>4
  <2>5. ASSUME w # MatcherError
        PROVE  /\ w \in FreshSessions /\ Known(w)
               /\ k + 1 < N => NoEos(w.llm_tokens) \/ Stopped(w)
    <3>1. o # MatcherError /\ w = ConsumeToken(o, t)
      BY <2>2, <2>5 DEF ConsumeNext
    <3>2. o \in FreshSessions /\ Known(o) /\ (NoEos(o.llm_tokens) \/ Stopped(o))
      BY <2>1, <2>4, <3>1
    <3> HIDE DEF o, w, t
    <3>3. ~Stopped(o)
      <4>1. Sane(o) /\ Cached(o)
        BY <3>2 DEF FreshSessions
      <4> QED BY <2>2, <2>5, <3>1, <4>1, ConsumeTokenFacts
    <3>4. w \in FreshSessions /\ Known(w) /\ (t # EOS => NoEos(w.llm_tokens))
      BY <2>2, <2>5, <3>1, <3>2, <3>3, ConsumeTokenTold
    <3> QED BY <2>3, <3>4
  <2>6. Fine(k + 1)
    BY <2>5
  <2> HIDE DEF Fine
  <2> QED BY <2>1, <2>6
<1>5. Fine(N)
  <2> HIDE DEF Fine
  <2>1. \A k \in 0..N : k \in Shown
    <3> HIDE DEF Shown, N
    <3> QED BY <1>1, <1>3, <1>4, UpTo
  <2> QED BY <1>1, <2>1
<1>6. q = CheckStop(f[N])
  BY DEF Consumed, f
<1>7. f[N] # MatcherError
  BY <1>6 DEF CheckStop
<1> DEFINE s == f[N]
<1>8. s \in FreshSessions /\ Known(s) /\ q = CheckStop(s)
  BY <1>5, <1>6, <1>7
<1> HIDE DEF s
<1> QED BY <1>8, CheckStopTold

(* Sessions between calls, or none.                                         *)
Knowing == {p \in FreshSessions : Between(p)} \cup {MatcherError}

(* A batch of tokens tried.                                                 *)
LEMMA TriedTold ==
  ASSUME NEW p \in Knowing, NEW ts \in Texts
  PROVE  TryConsumed(p, ts).p \in Knowing
<1> DEFINE f == TriedUpTo(p, ts)
           N == Len(ts)
           Shown == {k \in Nat : f[k].p \in Knowing}
<1>1. /\ N \in Nat
      /\ f[0] = [p |-> p, n |-> 0, end |-> FALSE]
      /\ \A k \in 1..N : f[k] = TryNext(f[k - 1], ts[k])
      /\ \A k \in 0..N : f[k] \in Tries
  <2>1. p \in Sessions
    BY DEF Knowing, Sessions
  <2> QED BY <2>1, TriedSteps
<1>2. \A k \in 1..N : ts[k] \in Tokens \cup {EOS}
  BY ElementOfSeq DEF Texts
<1> HIDE DEF f
<1>3. 0 \in Shown
  BY <1>1
<1>4. ASSUME NEW k \in 0..(N - 1), k \in Shown PROVE k + 1 \in Shown
  <2> DEFINE o == f[k]
             w == f[k + 1]
             t == ts[k + 1]
  <2>1. k + 1 \in 1..N /\ (k + 1) - 1 = k /\ k \in 0..N /\ k + 1 \in Nat
    BY <1>1
  <2>2. w = TryNext(o, t) /\ t \in Tokens \cup {EOS} /\ o \in Tries /\ o.p \in Knowing
    BY <1>1, <1>2, <1>4, <2>1
  <2> HIDE DEF o, w, t
  <2>3. w.p \in Knowing
    <3> DEFINE us == <<t>>
               s == Consumed(o.p, us)
    <3>1. w.p = o.p \/ (o.p # MatcherError /\ w.p = s)
      <4> HIDE DEF s
      <4>1. w = o \/ w = [o EXCEPT !.end = TRUE]
              \/ (o.p # MatcherError /\ w = [p |-> s, n |-> o.n + 1, end |-> FALSE])
        BY <2>2 DEF TryNext, s
      <4> QED BY <2>2, <4>1 DEF Tries
    <3>2. us \in Texts /\ EosLast(us)
      <4>1. us \in Texts
        BY <2>2, AppendIsConcat, EmptySeq DEF Texts
      <4>2. Len(us) = 1
        OBVIOUS
      <4> QED BY <4>1, <4>2 DEF EosLast
    <3> HIDE DEF us, s
    <3>3. o.p # MatcherError /\ s # MatcherError => s \in Knowing
      BY <2>2, <3>2, ConsumedTold DEF Knowing, s
    <3>4. s = MatcherError => s \in Knowing
      BY DEF Knowing
    <3> QED BY <2>2, <3>1, <3>3, <3>4
  <2> QED BY <2>1, <2>3 DEF w
<1>5. \A k \in 0..N : k \in Shown
  <2> HIDE DEF Shown, N
  <2> QED BY <1>1, <1>3, <1>4, UpTo
<1>6. N \in 0..N
  BY <1>1
<1> QED BY <1>5, <1>6 DEF TryConsumed, f

(* A rollback to before the n last tokens, the end of sequence among them.  *)
LEMMA RollbackTold ==
  ASSUME NEW p \in FreshSessions, Between(p), NEW n \in Nat, n # 0,
         NEW q, q = RollbackTokens(p, n), q # MatcherError
  PROVE  q \in FreshSessions /\ Between(q)
<1> DEFINE bs == p.bytes
           ts == p.llm_tokens
           K == KeptTokens(p, n)
           kept == SubSeq(ts, 1, K)
           text == BytesOf(kept)
           i == q.applied
<1>1. Sane(p) /\ bs \in Bytes /\ bs \in Seq(Byte) /\ Len(bs) \in Nat /\ p.applied \in 0..Len(bs)
      /\ ts \in Texts /\ Len(ts) \in Nat
  <2>1. Sane(p)
    BY DEF FreshSessions
  <2> QED BY <2>1, SaneParts DEF Bytes
<1>2. TookBack(p, n, q)
  BY <1>1, RollbackFacts
<1>3. /\ K \in 0..Len(ts) /\ i = p.applied - Len(DroppedBytes(p, n))
      /\ i \in 0..Len(bs) /\ Len(q.bytes) = i /\ q.bytes = SubSeq(bs, 1, i)
      /\ q.chart = RolledBack(p.chart, i) /\ i + 1 \in 1..Len(p.chart.lexer_stack)
      /\ q.llm_tokens = kept /\ q.stop_reason = "NotStopped"
      /\ ~q.lexer_stack_top_eos /\ q.last_force_bytes_len = Never
      /\ Sane(q) /\ Cached(q)
  BY <1>2 DEF TookBack
<1>4. /\ kept \in Texts /\ Len(kept) = K
      /\ DroppedBytes(p, n) \in Bytes
      /\ BytesOf(ts) = text \o DroppedBytes(p, n)
  BY <1>1, <1>3, KeptAndDropped
<1>5. text \in Bytes
  BY <1>4, BytesOfConcat
<1>6. /\ Fresh(bs).ok /\ Extends(p.chart, Fresh(bs).chart)
      /\ SubSeq(bs, 1, p.applied) = BytesOf(ts)
      /\ EosLast(ts)
  BY DEF Between, Known, Told
<1>7. K < Len(ts)
  BY <1>1, <1>3 DEF KeptTokens
<1>8. NoEos(kept)
  <2> SUFFICES ASSUME NEW j \in 1..Len(kept) PROVE kept[j] # EOS
    BY DEF NoEos
  <2>1. kept[j] = ts[j]
    BY <1>1, <1>3, <1>4, CutAt DEF Texts
  <2>2. j \in 1..Len(ts) /\ j < Len(ts)
    <3>1. j \in 1..K
      BY <1>4
    <3>2. Len(ts) \in Nat /\ K \in 0..Len(ts) /\ K < Len(ts)
      BY <1>1, <1>3, <1>7
    <3> HIDE DEF K, ts
    <3> QED BY <3>1, <3>2
  <2> QED BY <1>6, <2>1, <2>2 DEF EosLast
<1>9. q.bytes = text
  <2> DEFINE u == DroppedBytes(p, n)
             whole == BytesOf(ts)
             s == SubSeq(bs, 1, i)
  <2>1. whole = text \o u /\ u \in Seq(Byte) /\ text \in Seq(Byte)
        /\ Len(u) \in Nat /\ Len(text) \in Nat
    BY <1>4, <1>5, LenProperties DEF Bytes
  <2>2. Len(whole) = p.applied /\ \A k \in 1..p.applied : whole[k] = bs[k]
    BY <1>1, <1>6, CutAt
  <2> HIDE DEF whole, u, text, bs
  <2>3. Len(whole) = Len(text) + Len(u) /\ \A k \in 1..Len(text) : whole[k] = text[k]
    BY <2>1, ConcatProperties
  <2>4. i = Len(text)
    BY <1>1, <1>3, <2>1, <2>2, <2>3 DEF u
  <2>5. s \in Seq(Byte) /\ Len(s) = i /\ \A k \in 1..i : s[k] = bs[k]
    BY <1>1, <1>3, CutAt
  <2> HIDE DEF s, i
  <2>6. \A k \in 1..Len(s) : s[k] = text[k]
    BY <1>1, <2>1, <2>2, <2>3, <2>4, <2>5
  <2>7. s = text
    BY <2>1, <2>4, <2>5, <2>6, SeqEqual
  <2> QED BY <1>3, <2>7 DEF s, i, bs
<1>10. Fresh(q.bytes).ok /\ Extends(q.chart, Fresh(q.bytes).chart)
       /\ Len(q.chart.lexer_stack) = Len(q.bytes) + 1
  <2> DEFINE c == p.chart
             d == [c EXCEPT !.lexer_stack = SubSeq(@, 1, i + 1)]
             t == q.bytes
             e == Fresh(t).chart
             g == q.chart
  <2>1. Fit(c, TRUE) /\ c.budget = Unlimited /\ Good(c) /\ Coherent(c)
    BY <1>1 DEF Sane, Fit
  <2>2. t \in Seq(Byte) /\ Len(t) = i /\ \A k \in 1..i : t[k] = bs[k]
    <3>1. SubSeq(bs, 1, i) \in Seq(Byte) /\ \A k \in 1..i : SubSeq(bs, 1, i)[k] = bs[k]
      BY <1>1, <1>3, CutAt
    <3> QED BY <1>3, <3>1
  <2>3. i \in 0..Len(bs) /\ i + 1 \in 1..Len(c.lexer_stack) /\ g = RolledBack(c, i) /\ i \in Nat
    BY <1>3
  <2>4. Fresh(bs).ok /\ Extends(c, Fresh(bs).chart) /\ bs \in Seq(Byte)
    BY <1>1, <1>6
  <2> HIDE DEF c, t, g, i, bs
  <2>5. Fit(g, TRUE) /\ Twin(g, d) /\ Good(d)
    BY <2>1, <2>3, RolledBackFacts
  <2>6. Fresh(t).ok /\ Twin(d, e)
    BY <2>1, <2>2, <2>3, <2>4, RestTruncate
  <2> HIDE DEF d
  <2>7. Fit(e, TRUE) /\ Len(e.lexer_stack) = Len(t) + 1
    BY <2>2, <2>6, FreshFacts
  <2>8. Twin(g, e)
    <3>1. Good(g) /\ Good(d) /\ Good(e)
      BY <2>5, <2>7 DEF Fit
    <3> HIDE DEF e
    <3> QED BY <2>5, <2>6, <3>1, TwinTrans
  <2> QED BY <2>6, <2>7, <2>8 DEF Twin, SameHeight, t, g
<1>11. Told(q, text)
  <2>1. LexerBytesOk(q)
    BY <1>3, <1>10 DEF LexerBytesOk
  <2>2. SubSeq(q.bytes, 1, q.applied) = text
    <3>1. q.bytes \in Bytes /\ Len(q.bytes) = q.applied /\ q.bytes = text
      BY <1>3, <1>5, <1>9
    <3> QED BY <3>1, WholeSeq DEF Bytes
  <2>3. (q.applied + 1)..Len(q.bytes) = {} /\ ~(q.applied < Len(q.bytes))
    BY <1>3
  <2>4. q.last_force_bytes_len \notin Nat /\ q.last_force_bytes_len # Len(q.bytes)
    BY <1>3, MatcherAssumption
  <2> QED BY <1>10, <2>1, <2>2, <2>3, <2>4 DEF Told
<1>12. EosLast(kept)
  BY <1>8 DEF EosLast, NoEos
<1>13. Known(q)
  BY <1>3, <1>8, <1>11, <1>12 DEF Known
<1>14. q \in FreshSessions
  BY <1>3 DEF FreshSessions, Sane
<1> QED BY <1>3, <1>8, <1>13, <1>14 DEF Between

(* Nothing is forced where the text may end.                                *)
LEMMA ForceEnded ==
  ASSUME NEW p, Sane(p), IsAccepting(p.chart), NEW q, q = ForceBytes(p)
  PROVE  q.chart = p.chart /\ q.bytes = p.bytes
<1> DEFINE f == ForcedUpTo(p)
           N == Room(p)
           Shown == {k \in Nat : f[k] = p}
<1>1. /\ N \in Nat
      /\ f[0] = p
      /\ \A k \in 1..N : f[k] = ForceOne(f[k - 1], ForcedByte(f[k - 1].chart))
  BY ForcedSteps
<1>2. ForceOne(p, ForcedByte(p.chart)) = p
  <2>1. ForcedByte(p.chart) = {}
    BY ForcedTyped
  <2> QED BY <2>1 DEF ForceOne
<1>3. q = p \/ q = ForcedAll(f[N])
  BY DEF ForceBytes
<1> HIDE DEF f, N
<1>4. 0 \in Shown
  BY <1>1
<1>5. ASSUME NEW k \in 0..(N - 1), k \in Shown PROVE k + 1 \in Shown
  <2>1. k + 1 \in 1..N /\ (k + 1) - 1 = k /\ k + 1 \in Nat
    BY <1>1
  <2>2. f[k + 1] = ForceOne(f[k], ForcedByte(f[k].chart)) /\ f[k] = p
    BY <1>1, <1>5, <2>1
  <2> QED BY <1>2, <2>1, <2>2
<1>6. f[N] = p
  <2>1. \A k \in 0..N : k \in Shown
    <3> HIDE DEF Shown
    <3> QED BY <1>1, <1>4, <1>5, UpTo
  <2>2. N \in 0..N
    BY <1>1
  <2> QED BY <2>1, <2>2
<1>7. ForcedAll(p).chart = p.chart /\ ForcedAll(p).bytes = p.bytes
  BY DEF ForcedAll, Sane, TokenParser
<1> QED BY <1>3, <1>6, <1>7

(* Forcing bytes, when the text is known.                                   *)
LEMMA ForceBytesKnown ==
  ASSUME NEW p \in FreshSessions, Known(p), NEW q, q = ForceBytes(p)
  PROVE  q \in FreshSessions /\ ForcedOn(p, q) /\ Known(q) /\ End(q.bytes)
<1> DEFINE text == BytesOf(p.llm_tokens)
<1>1. Sane(p)
  BY DEF FreshSessions
<1>2. q \in FreshSessions /\ ForcedOn(p, q)
  BY ForceBytesFresh
<1>3. Told(p, text) /\ EosLast(p.llm_tokens)
      /\ IF NoEos(p.llm_tokens) THEN ~p.lexer_stack_top_eos ELSE Ended(p)
  BY DEF Known
<1>4. Knows(p, text)
  BY <1>3 DEF Knows
<1> HIDE DEF text
<1>5. Knows(q, text) /\ End(q.bytes)
  BY <1>1, <1>4, ForceBytesTold
<1>6. /\ q.llm_tokens = p.llm_tokens /\ q.applied = p.applied
      /\ q.lexer_stack_top_eos = p.lexer_stack_top_eos
  BY <1>2 DEF ForcedOn
<1>7. Ended(p) => Ended(q)
  <2>1. Ended(p) => q.chart = p.chart /\ q.bytes = p.bytes
    BY <1>1, ForceEnded DEF Ended
  <2> QED BY <1>6, <2>1 DEF Ended
<1> QED BY <1>2, <1>3, <1>5, <1>6, <1>7 DEF Known, Knows, text

(* The same is known between calls when only the caches have changed.       *)
LEMMA BetweenSame ==
  ASSUME NEW p, Between(p), NEW q, q.chart = p.chart, q.bytes = p.bytes, q.applied = p.applied,
         q.llm_tokens = p.llm_tokens, q.lexer_stack_top_eos = p.lexer_stack_top_eos,
         q.last_force_bytes_len = p.last_force_bytes_len, q.stop_reason = p.stop_reason
  PROVE  Between(q)
<1>1. Known(p)
  BY DEF Between
<1>2. Known(q)
  BY <1>1, KnownSame
<1> QED BY <1>2 DEF Between, Stopped

(* is_accepting(), and a forced-tokens cache set or given away.             *)
LEMMA CachesBetween ==
  ASSUME NEW p \in FreshSessions, Between(p), NEW ff
  PROVE  Between(WithAccepting(p)) /\ Between([p EXCEPT !.ff_tokens_cache = ff])
<1> DEFINE a == WithAccepting(p)
           b == [p EXCEPT !.ff_tokens_cache = ff]
<1>1. p \in TokenParser
  BY DEF FreshSessions
<1>2. /\ a.chart = p.chart /\ a.bytes = p.bytes /\ a.applied = p.applied
      /\ a.llm_tokens = p.llm_tokens /\ a.lexer_stack_top_eos = p.lexer_stack_top_eos
      /\ a.last_force_bytes_len = p.last_force_bytes_len /\ a.stop_reason = p.stop_reason
  BY <1>1 DEF WithAccepting, TokenParser
<1>3. /\ b.chart = p.chart /\ b.bytes = p.bytes /\ b.applied = p.applied
      /\ b.llm_tokens = p.llm_tokens /\ b.lexer_stack_top_eos = p.lexer_stack_top_eos
      /\ b.last_force_bytes_len = p.last_force_bytes_len /\ b.stop_reason = p.stop_reason
  BY <1>1 DEF TokenParser
<1> HIDE DEF a, b
<1>4. Between(a)
  BY <1>2, BetweenSame
<1>5. Between(b)
  BY <1>3, BetweenSame
<1> QED BY <1>4, <1>5 DEF a, b

(* force_bytes() between calls.                                             *)
LEMMA ForceBytesBetween ==
  ASSUME NEW p \in FreshSessions, Between(p), NEW q, q = ForceBytes(p)
  PROVE  q \in FreshSessions /\ Between(q)
<1>1. q \in FreshSessions /\ ForcedOn(p, q) /\ Known(q)
  BY ForceBytesKnown DEF Between
<1> QED BY <1>1 DEF Between, ForcedOn, Stopped

(* compute_mask().                                                          *)
LEMMA AfterMaskTold ==
  ASSUME NEW p \in FreshSessions, Between(p)
  PROVE  SessionAfterMask(p) \in Knowing
<1> DEFINE f == Forced(p)
           q == [f EXCEPT !.ff_tokens_cache = None]
<1>1. f \in FreshSessions /\ Between(f)
  BY ForceBytesBetween DEF Forced
<1> HIDE DEF f
<1>2. Between(q) /\ q \in FreshSessions
  <2>1. Sane(f) /\ Cached(f)
    BY <1>1 DEF FreshSessions
  <2>2. q \in FreshSessions
    BY <2>1, CacheTokens
  <2> QED BY <1>1, <2>2, CachesBetween
<1>3. SessionAfterMask(p) = IF Stopped(p) THEN MatcherError ELSE AfterMask(q, FfTokensNow(p))
  BY DEF SessionAfterMask, f
<1> HIDE DEF q
<1>4. WithAccepting(q) \in FreshSessions /\ Between(WithAccepting(q))
  BY <1>2, WithAcceptingFresh, CachesBetween
<1> QED BY <1>2, <1>3, <1>4 DEF AfterMask, Knowing

(* compute_ff_tokens().                                                     *)
LEMMA WithFfTokensTold ==
  ASSUME NEW p \in FreshSessions, Between(p)
  PROVE  WithFfTokens(p) \in FreshSessions /\ Between(WithFfTokens(p))
<1>1. WithFfTokens(p) \in FreshSessions
  BY WithFfTokensFresh
<1>2. CASE p.tokenize_is_canonical
  <2> DEFINE f == ForceBytes(p)
             ff == FfTokensOf(f)
  <2>1. f \in FreshSessions /\ Between(f)
    BY ForceBytesBetween
  <2>2. WithFfTokens(p) = [f EXCEPT !.ff_tokens_cache = ff]
    BY <1>2 DEF WithFfTokens
  <2> HIDE DEF f, ff
  <2> QED BY <1>1, <2>1, <2>2, CachesBetween
<1>3. CASE ~p.tokenize_is_canonical
  BY <1>1, <1>3 DEF WithFfTokens
<1> QED BY <1>2, <1>3

(* The new session.                                                         *)
LEMMA NewSessionTold ==
  ASSUME NEW canonical \in BOOLEAN, NEW p, p = NewTokenParser(canonical)
  PROVE  p \in FreshSessions /\ Between(p) /\ p.llm_tokens = <<>> /\ p.bytes = <<>>
         /\ p.applied = 0 /\ ~p.lexer_stack_top_eos /\ ~Stopped(p)
         /\ p.tokenize_is_canonical = canonical
<1>1. /\ p.chart = NewChart /\ p.bytes = <<>> /\ p.applied = 0 /\ p.llm_tokens = <<>>
      /\ p.lexer_stack_top_eos = FALSE /\ p.last_force_bytes_len = Never
      /\ p.stop_reason = "NotStopped" /\ p.tokenize_is_canonical = canonical
  BY DEF NewTokenParser
<1>2. p \in FreshSessions
  BY NewSessionFresh
<1>3. /\ Fresh(<<>>).ok /\ Fresh(<<>>).chart = NewChart
      /\ Fit(NewChart, TRUE) /\ Extends(NewChart, NewChart)
      /\ Len(NewChart.lexer_stack) = 1
  <2>1. Fresh(<<>>) = Ok(NewChart) /\ <<>> \in Seq(Byte)
    BY PushAllNone, EmptySeq DEF Fresh
  <2>2. Fresh(<<>>).ok /\ Fresh(<<>>).chart = NewChart
    BY <2>1 DEF Ok
  <2>3. Fit(NewChart, TRUE)
    BY NewChartMore
  <2>4. Extends(NewChart, NewChart)
    <3>1. Good(NewChart) /\ SameRows(NewChart, NewChart, NumRows(NewChart))
      BY <2>3 DEF Fit, SameRows
    <3> QED BY <3>1, ExtendsRefl
  <2>5. Len(<<>>) = 0
    BY EmptySeq
  <2>6. Len(NewChart.lexer_stack) = 1
    <3>1. Len(NewChart.lexer_stack) = 0 + 1
      BY <2>1, <2>2, <2>5, FreshFacts
    <3> HIDE DEF NewChart
    <3> QED BY <3>1
  <2> QED BY <2>2, <2>3, <2>4, <2>6, Zenon
<1>4. BytesOf(<<>>) = <<>> /\ Len(<<>>) = 0 /\ <<>> \in Seq(Byte)
  BY BytesOfNone, EmptySeq
<1>5. SubSeq(<<>>, 1, 0) = <<>>
  BY <1>4, WholeSeq
<1>6. Told(p, <<>>)
  <2>1. LexerBytesOk(p)
    BY <1>1, <1>3, <1>4 DEF LexerBytesOk
  <2>2. (p.applied + 1)..Len(p.bytes) = {} /\ ~(p.applied < Len(p.bytes))
    BY <1>1, <1>4
  <2>3. p.last_force_bytes_len \notin Nat /\ p.last_force_bytes_len # Len(p.bytes)
    BY <1>1, <1>4, MatcherAssumption
  <2> QED BY <1>1, <1>3, <1>5, <2>1, <2>2, <2>3 DEF Told
<1>7. NoEos(<<>>) /\ EosLast(<<>>)
  BY <1>4 DEF NoEos, EosLast
<1>8. Known(p)
  BY <1>1, <1>4, <1>6, <1>7 DEF Known
<1> QED BY <1>1, <1>2, <1>7, <1>8 DEF Between, Stopped

-----------------------------------------------------------------------------
(* In what clients pass, an end of sequence only ends a batch.  A token     *)
(* after it would be applied to a parser whose lexeme was flushed, and      *)
(* rollback() counts on none ("doesn't count; we hope it's last though").   *)
Tidy == \A ts \in Batches : EosLast(ts)

(* The session knows its text between calls, or it is gone.                 *)
SessionTold == session \in Knowing

(* A session that is not gone knows its text.                               *)
LEMMA NotFailedTold ==
  ASSUME SessionTold, ~Failed
  PROVE  session \in FreshSessions /\ Between(session)
BY DEF SessionTold, Failed, Knowing

(* It begins so.                                                            *)
LEMMA SessionToldInit ==
  ASSUME Init
  PROVE  SessionTold
<1>1. PICK canonical \in BOOLEAN : session = NewTokenParser(canonical)
  BY DEF Init
<1>2. session \in FreshSessions /\ Between(session)
  BY <1>1, NewSessionTold
<1> QED BY <1>2 DEF SessionTold, Knowing

(* Every call leaves it so.                                                 *)
LEMMA SessionToldNext ==
  ASSUME Tidy, SessionTold, [Next]_vars
  PROVE  SessionTold'
<1>1. ASSUME NEW ts \in Batches, ConsumeTokens(ts)
      PROVE  SessionTold'
  <2>1. ts \in Texts /\ EosLast(ts)
    BY MatcherAssumption DEF Texts, Tidy
  <2>2. session' = IF Failed THEN session ELSE Consumed(session, ts)
    BY <1>1 DEF ConsumeTokens, Answer
  <2>3. ~Failed => Consumed(session, ts) \in Knowing
    BY <2>1, NotFailedTold, ConsumedTold DEF Knowing
  <2> QED BY <2>2, <2>3 DEF SessionTold
<1>2. ASSUME NEW ts \in Batches, TryConsumeTokens(ts)
      PROVE  SessionTold'
  <2>1. ts \in Texts
    BY MatcherAssumption DEF Texts
  <2>2. session' = TryConsumed(session, ts).p
    BY <1>2 DEF TryConsumeTokens, Answer
  <2> QED BY <2>1, <2>2, TriedTold DEF SessionTold
<1>3. ASSUME NEW n \in 0..(MaxTokensTotal + 1), Rollback(n)
      PROVE  SessionTold'
  <2>1. session' = IF Failed THEN session ELSE RollbackTokens(session, n)
    BY <1>3 DEF Rollback, Answer
  <2>2. n \in Nat
    BY MatcherAssumption
  <2>3. n = 0 => RollbackTokens(session, n) = session
    BY DEF RollbackTokens
  <2>4. ~Failed /\ n # 0 => RollbackTokens(session, n) \in Knowing
    BY <2>2, NotFailedTold, RollbackTold DEF Knowing
  <2> QED BY <2>1, <2>3, <2>4 DEF SessionTold
<1>4. ASSUME ComputeMask \/ ComputeMaskOrEos
      PROVE  SessionTold'
  <2>1. session' = session \/ (~Failed /\ session' = SessionAfterMask(session))
    BY <1>4, MaskCalls
  <2>2. ~Failed => SessionAfterMask(session) \in Knowing
    BY NotFailedTold, AfterMaskTold
  <2> QED BY <2>1, <2>2 DEF SessionTold
<1>5. ASSUME IsAcceptingCall
      PROVE  SessionTold'
  <2>1. session' = IF Failed THEN session ELSE WithAccepting(session)
    BY <1>5 DEF IsAcceptingCall, Answer
  <2>2. ~Failed => WithAccepting(session) \in FreshSessions /\ Between(WithAccepting(session))
    BY NotFailedTold, WithAcceptingFresh, CachesBetween
  <2> QED BY <2>1, <2>2 DEF SessionTold, Knowing
<1>6. ASSUME ComputeFfTokens
      PROVE  SessionTold'
  <2>1. session' = IF Failed THEN session ELSE WithFfTokens(session)
    BY <1>6 DEF ComputeFfTokens
  <2>2. ~Failed => WithFfTokens(session) \in FreshSessions /\ Between(WithFfTokens(session))
    BY NotFailedTold, WithFfTokensTold
  <2> QED BY <2>1, <2>2 DEF SessionTold, Knowing
<1>7. ASSUME ComputeFfBytes
      PROVE  SessionTold'
  <2>1. session' = IF Failed THEN session ELSE ForceBytes(session)
    BY <1>7 DEF ComputeFfBytes
  <2>2. ~Failed => ForceBytes(session) \in FreshSessions /\ Between(ForceBytes(session))
    BY NotFailedTold, ForceBytesBetween
  <2> QED BY <2>1, <2>2 DEF SessionTold, Knowing
<1>8. ASSUME ConsumeFfTokens
      PROVE  SessionTold'
  <2> DEFINE q == WithFfTokens(session)
             ts == q.ff_tokens_cache.tokens
  <2>1. /\ ~Failed /\ q.ff_tokens_cache # None
        /\ session' = Consumed(q, ts)
    BY <1>8 DEF ConsumeFfTokens, Answer
  <2>2. /\ q \in FreshSessions /\ Between(q)
        /\ q.ff_tokens_cache \in FfTokens \cup {None}
    BY <2>1, NotFailedTold, WithFfTokensTold, WithFfTokensFresh
  <2> HIDE DEF q
  <2>3. ts \in Seq(Tokens)
    BY <2>1, <2>2 DEF FfTokens
  <2>4. ts \in Texts
    BY <2>3, TokensAreBytes
  <2>5. EosLast(ts)
    <3>1. \A i \in 1..Len(ts) : ts[i] \in Tokens
      BY <2>3, ElementOfSeq
    <3> QED BY <3>1, MatcherAssumption DEF EosLast
  <2> HIDE DEF ts
  <2>6. Consumed(q, ts) \in Knowing
    BY <2>2, <2>4, <2>5, ConsumedTold DEF Knowing
  <2> QED BY <2>1, <2>6 DEF SessionTold
<1>9. ASSUME InvalidateBiasCache \/ UNCHANGED vars
      PROVE  SessionTold'
  BY <1>9 DEF InvalidateBiasCache, vars, SessionTold
<1> QED BY <1>1, <1>2, <1>3, <1>4, <1>5, <1>6, <1>7, <1>8, <1>9 DEF Next

-----------------------------------------------------------------------------
(* The session that is only given the tokens left.                          *)

(* A new parser that accepts a text accepts its beginnings.                 *)
LEMMA FreshBegin ==
  ASSUME NEW a \in Bytes, NEW b \in Bytes, Fresh(a \o b).ok
  PROVE  /\ a \o b \in Bytes /\ IsPrefix(a, a \o b)
         /\ Fresh(a).ok /\ Extends(Fresh(a \o b).chart, Fresh(a).chart)
<1> DEFINE c == a \o b
<1>1. c \in Seq(Byte) /\ Len(a) \in 0..Len(c) /\ SubSeq(c, 1, Len(a)) = a
  BY CutOfConcat DEF Bytes
<1> HIDE DEF c
<1>2. IsPrefix(a, c)
  <2>1. Len(a) <= Len(c)
    BY <1>1
  <2> QED BY <1>1, <2>1, PrefixIs DEF Bytes
<1>3. Fresh(a).ok /\ Extends(Fresh(c).chart, Fresh(a).chart)
  BY <1>1, <1>2, FreshPrefix DEF Bytes, c
<1> QED BY <1>1, <1>2, <1>3 DEF Bytes, c

(* It takes a byte that a new parser takes.                                 *)
LEMMA PushSucceeds ==
  ASSUME NEW bs \in Bytes, Fresh(bs).ok, NEW c, Fit(c, TRUE), c.budget = Unlimited,
         Twin(c, Fresh(bs).chart), NEW b \in Byte, NEW n \in Nat, Fresh(Append(bs, b)).ok
  PROVE  TryPushByte(c, b, TRUE, n).ok
<1>1. TryPushByte(c, b, TRUE, n).ok = Fresh(Append(bs, b)).ok
  BY PushIff
<1> QED BY <1>1

(* A session that has applied all its bytes takes a byte that a new parser  *)
(* would take after them.                                                   *)
LEMMA ApplyByteOk ==
  ASSUME NEW p, Sane(p), NEW text, Told(p, text), ~p.lexer_stack_top_eos,
         p.applied = Len(p.bytes), NEW b \in Byte, Fresh(Append(text, b)).ok,
         NEW q, q = ApplyByte(p, b)
  PROVE  q # MatcherError /\ Sane(q) /\ q.applied = Len(q.bytes)
<1> DEFINE bs == p.bytes
           r == TryPushByte(p.chart, b, TRUE, Len(bs))
<1>1. bs \in Bytes /\ Len(bs) \in Nat /\ bs = text /\ Fresh(bs).ok
  <2>1. bs \in Bytes /\ Len(bs) \in Nat
    BY SaneParts
  <2>2. SubSeq(bs, 1, Len(bs)) = bs
    BY <2>1, WholeSeq DEF Bytes
  <2> QED BY <2>1, <2>2 DEF Told
<1>2. Twin(p.chart, Fresh(bs).chart) /\ Fit(p.chart, TRUE) /\ p.chart.budget = Unlimited
  BY ToldTwin DEF Sane
<1>3. r.ok
  <2>1. Fresh(Append(bs, b)).ok
    BY <1>1
  <2> HIDE DEF bs
  <2> QED BY <1>1, <1>2, <2>1, PushSucceeds
<1>4. q = ApplyNewByte(p, r, b)
  <2>1. ~(p.applied < Len(p.bytes))
    BY <1>1
  <2> QED BY <2>1 DEF ApplyByte
<1>5. q = [p EXCEPT !.chart = r.chart, !.bytes = Append(@, b), !.applied = @ + 1]
  BY <1>3, <1>4 DEF ApplyNewByte
<1>6. Len(bs) + 1 \in 0..(Len(p.bytes) + 1) /\ p.applied + 1 = Len(bs) + 1
  BY <1>1
<1>7. q = [p EXCEPT !.chart = r.chart, !.bytes = Append(@, b), !.applied = Len(bs) + 1]
  BY <1>5, <1>6
<1>8. Pushed(p, q, r, b, Len(bs) + 1)
  BY <1>1, <1>6, <1>7, PushedSession
<1>9. Sane(q) /\ q.applied = Len(bs) + 1 /\ Len(q.bytes) = Len(bs) + 1
  BY <1>8 DEF Pushed
<1> QED BY <1>9, SaneParts

(* A text that a new parser accepts goes on as the forced bytes do.         *)
LEMMA FollowsForced ==
  ASSUME NEW bs \in Bytes, NEW n \in 0..Len(bs),
         \A i \in (n + 1)..Len(bs) : ForcedAt(bs, i),
         NEW cs \in Bytes, Fresh(cs).ok, \A i \in 1..n : i <= Len(cs) => cs[i] = bs[i]
  PROVE  \A i \in 1..Len(bs) : i <= Len(cs) => cs[i] = bs[i]
<1> DEFINE N == Len(bs)
           M == Len(cs)
           Shown == {k \in Nat : \A i \in 1..k : i <= N /\ i <= M => cs[i] = bs[i]}
<1>1. N \in Nat /\ M \in Nat /\ bs \in Seq(Byte) /\ cs \in Seq(Byte)
  BY LenProperties DEF Bytes
<1>2. 0 \in Shown
  OBVIOUS
<1>3. ASSUME NEW k \in 0..(N - 1), k \in Shown PROVE k + 1 \in Shown
  <2>1. k + 1 \in Nat /\ k \in Nat /\ k + 1 \in 1..N /\ (k + 1) - 1 = k
    BY <1>1
  <2>2. \A i \in 1..k : i <= N /\ i <= M => cs[i] = bs[i]
    BY <1>3
  <2>3. k + 1 <= M => cs[k + 1] = bs[k + 1]
    <3>1. CASE k + 1 \in 1..n
      BY <3>1
    <3>2. CASE k + 1 \notin 1..n /\ k + 1 <= M
      <4> DEFINE a == SubSeq(bs, 1, k)
                 d == SubSeq(cs, 1, k)
                 b == cs[k + 1]
                 c == Fresh(a).chart
      <4>1. k + 1 \in (n + 1)..N /\ k \in 0..N /\ k \in 0..M /\ k \in 0..(M - 1)
            /\ k + 1 \in 1..M /\ k + 1 \in 0..M
        BY <1>1, <2>1, <3>2
      <4>2. ForcedAt(bs, k + 1)
        BY <4>1
      <4>3. b \in Byte
        BY <1>1, <4>1, ElementOfSeq
      <4>4. a \in Seq(Byte) /\ Len(a) = k /\ \A i \in 1..k : a[i] = bs[i]
        BY <1>1, <4>1, CutAt
      <4>5. d \in Seq(Byte) /\ Len(d) = k /\ \A i \in 1..k : d[i] = cs[i]
        BY <1>1, <4>1, CutAt
      <4>6. SubSeq(cs, 1, k + 1) = Append(d, b)
        BY <4>1, <4>3, CutBytes
      <4>7. AllowedBytes(c) = {bs[k + 1]}
        BY <2>1, <4>2 DEF ForcedAt
      <4> HIDE DEF a, d, c
      <4>8. d = a
        <5>1. ASSUME NEW i \in 1..k PROVE d[i] = a[i]
          <6>1. i <= N /\ i <= M
            BY <1>1, <4>1
          <6>2. cs[i] = bs[i]
            BY <2>2, <6>1
          <6> QED BY <4>4, <4>5, <6>2
        <5> QED BY <4>4, <4>5, <5>1, SeqEqual
      <4>9. a \in Bytes /\ <<b>> \in Bytes /\ Append(a, b) = a \o <<b>> /\ a \o <<b>> \in Bytes
        <5> HIDE DEF b
        <5>1. Append(a, b) = a \o <<b>>
          BY <4>3, <4>4, AppendIsConcat
        <5>2. Append(a, b) \in Seq(Byte)
          BY <4>3, <4>4, AppendProperties
        <5>3. <<b>> \in Seq(Byte)
          BY <4>3, Z3
        <5> QED BY <4>4, <5>1, <5>2, <5>3 DEF Bytes
      <4>10. Fresh(a \o <<b>>).ok
        <5> DEFINE m == k + 1
                   u == SubSeq(cs, 1, m)
                   v == SubSeq(cs, m + 1, Len(cs))
        <5>1. m \in 0..Len(cs)
          BY <4>1
        <5> HIDE DEF m
        <5>2. u \in Bytes /\ v \in Bytes /\ u \o v = cs
          BY <1>1, <5>1, CutAt DEF Bytes
        <5> HIDE DEF u, v
        <5>3. Fresh(u).ok
          BY <5>2, FreshBegin
        <5> QED BY <4>6, <4>8, <4>9, <5>3 DEF u, m
      <4>11. Fresh(a).ok /\ Fit(c, TRUE) /\ c.budget = Unlimited
        <5>1. Fresh(a).ok
          BY <4>9, <4>10, FreshBegin
        <5> QED BY <4>4, <5>1, FreshFacts DEF c
      <4>12. Twin(c, c)
        BY <4>11, TwinRefl DEF Fit, SameRows
      <4>13. Allows(c, <<b>>)
        <5>1. Unbounded(c)
          BY <4>11 DEF Fit, Unbounded
        <5>2. Allows(c, <<b>>) = Fresh(a \o <<b>>).ok
          BY <4>9, <4>11, <4>12, <5>1, AllowsText DEF c
        <5> QED BY <4>10, <5>2
      <4>14. b \in AllowedBytes(c)
        BY <4>3, <4>13 DEF AllowedBytes
      <4> QED BY <4>7, <4>14
    <3> QED BY <3>1, <3>2
  <2>4. \A i \in 1..(k + 1) : i \in 1..k \/ i = k + 1
    BY <2>1
  <2> QED BY <2>1, <2>2, <2>3, <2>4
<1>4. \A k \in 0..N : k \in Shown
  <2> HIDE DEF Shown
  <2> QED BY <1>1, <1>2, <1>3, UpTo
<1>5. N \in Shown
  <2> HIDE DEF Shown
  <2> QED BY <1>1, <1>4
<1> QED BY <1>1, <1>5

(* What has been applied is the text.                                       *)
LEMMA AppliedIs ==
  ASSUME NEW p, Sane(p), NEW text, Told(p, text)
  PROVE  /\ text \in Bytes /\ p.applied = Len(text)
         /\ \A i \in 1..p.applied : p.bytes[i] = text[i]
         /\ p.bytes = text \o ForcedBytes(p)
<1>1. p.bytes \in Seq(Byte) /\ p.applied \in 0..Len(p.bytes)
  BY SaneParts DEF Bytes
<1>2. SubSeq(p.bytes, 1, p.applied) = text
  BY DEF Told
<1>3. /\ SubSeq(p.bytes, 1, p.applied) \in Seq(Byte)
      /\ Len(SubSeq(p.bytes, 1, p.applied)) = p.applied
      /\ \A i \in 1..p.applied : SubSeq(p.bytes, 1, p.applied)[i] = p.bytes[i]
  BY <1>1, CutAt
<1>4. SubSeq(p.bytes, 1, p.applied) \o ForcedBytes(p) = p.bytes
  BY ForcedBytesAre
<1> QED BY <1>2, <1>3, <1>4, Zenon DEF Bytes

(* A session takes a byte that a new parser would take after its text: it   *)
(* is the byte that was forced, or it can be added.                         *)
LEMMA ApplyByteReads ==
  ASSUME NEW p, Sane(p), NEW text, Told(p, text), ~p.lexer_stack_top_eos,
         NEW b \in Byte, Fresh(Append(text, b)).ok, NEW q, q = ApplyByte(p, b)
  PROVE  /\ q # MatcherError /\ Sane(q)
         /\ p.applied = Len(p.bytes) => q.applied = Len(q.bytes)
<1>1. CASE p.applied = Len(p.bytes)
  BY <1>1, ApplyByteOk
<1>2. CASE p.applied # Len(p.bytes)
  <2> DEFINE n == p.applied
             bs == p.bytes
             cs == Append(text, b)
  <2>1. /\ bs \in Bytes /\ Len(bs) \in Nat /\ n \in 0..Len(bs) /\ p \in TokenParser
        /\ n \in Nat
    <3>1. bs \in Bytes /\ Len(bs) \in Nat /\ n \in 0..Len(bs)
      BY SaneParts
    <3>2. p \in TokenParser
      BY DEF Sane
    <3> QED BY <3>1, <3>2
  <2>2. text \in Bytes /\ n = Len(text) /\ \A i \in 1..n : bs[i] = text[i]
    BY AppliedIs
  <2>3. cs \in Bytes /\ Len(cs) = n + 1 /\ cs[n + 1] = b /\ \A i \in 1..n : cs[i] = text[i]
    <3>1. text \in Seq(Byte)
      BY <2>2 DEF Bytes
    <3> QED BY <2>2, <3>1, AppendProperties DEF Bytes
  <2>4. n + 1 \in 1..Len(bs) /\ n < Len(bs)
    BY <1>2, <2>1
  <2>5. \A i \in (n + 1)..Len(bs) : ForcedAt(bs, i)
    BY DEF Told
  <2> HIDE DEF n, bs, cs
  <2>6. Fresh(cs).ok /\ \A i \in 1..n : i <= Len(cs) => cs[i] = bs[i]
    BY <2>2, <2>3 DEF cs
  <2>7. \A i \in 1..Len(bs) : i <= Len(cs) => cs[i] = bs[i]
    BY <2>1, <2>3, <2>5, <2>6, FollowsForced
  <2>8. bs[n + 1] = b
    BY <2>1, <2>3, <2>4, <2>7
  <2>9. q = [p EXCEPT !.applied = @ + 1]
    BY <2>4, <2>8 DEF ApplyByte, n, bs
  <2>10. q \in TokenParser
    BY <2>1, <2>9 DEF TokenParser
  <2>11. q # MatcherError
    BY <2>10, SessionAssumption
  <2>12. AppliedBy(p, q)
    BY <2>11, ApplyByteFacts
  <2> QED BY <1>2, <2>11, <2>12 DEF AppliedBy
<1> QED BY <1>1, <1>2

(* Nothing is forced ahead.                                                 *)
All(p) == p.applied = Len(p.bytes)

(* A session takes the bytes of a token that a new parser would take after  *)
(* its text; nothing is forced ahead after it if nothing was before.        *)
LEMMA ApplyTokenOk ==
  ASSUME NEW p, Sane(p), NEW text \in Bytes, Told(p, text), ~p.lexer_stack_top_eos,
         p.max_tokens_total # 0,
         NEW t \in Tokens, Fresh(text \o t).ok, NEW q, q = ApplyToken(Paid(p), t)
  PROVE  /\ q # MatcherError
         /\ p.applied = Len(p.bytes) => q.applied = Len(q.bytes)
<1> DEFINE s == Taking(p, t)
<1>1. /\ Sane(s) /\ s.chart = p.chart /\ s.bytes = p.bytes /\ s.applied = p.applied
      /\ s.lexer_stack_top_eos = p.lexer_stack_top_eos
      /\ s.last_force_bytes_len = p.last_force_bytes_len
  BY TakingFacts
<1>2. q = AppliedUpTo(s, t)[Len(t)]
  BY DEF ApplyToken, Taking
<1> HIDE DEF s
<1>3. t \in Bytes /\ t \in Seq(Byte) /\ Len(t) \in Nat /\ \A k \in 1..Len(t) : t[k] \in Byte
  BY MatcherAssumption, LenProperties, ElementOfSeq DEF Bytes
<1>4. Told(s, text) /\ ~s.lexer_stack_top_eos /\ (All(p) => All(s))
  BY <1>1 DEF Told, LexerBytesOk, All
<1> DEFINE N == Len(t)
           f == AppliedUpTo(s, t)
           Read(k) == text \o SubSeq(t, 1, k)
           Fine == {k \in Nat : /\ f[k] # MatcherError /\ Sane(f[k]) /\ Told(f[k], Read(k))
                                /\ ~f[k].lexer_stack_top_eos /\ (All(p) => All(f[k]))}
<1>5. /\ f[0] = s
      /\ \A k \in 1..N : f[k] = ApplyNext(f[k - 1], t[k])
  BY <1>1, <1>3, AppliedSteps
<1> HIDE DEF f
<1>6. Read(0) = text
  <2>1. SubSeq(t, 1, 0) \in Seq(Byte) /\ Len(SubSeq(t, 1, 0)) = 0
    BY <1>3, CutAt
  <2>2. text \o <<>> = text
    BY ConcatEmptySeq DEF Bytes
  <2> QED BY <2>1, <2>2, EmptySeq
<1>7. 0 \in Fine
  <2>1. s # MatcherError
    BY <1>1, SaneParts
  <2> QED BY <1>1, <1>4, <1>5, <1>6, <2>1
<1>8. ASSUME NEW k \in 0..(N - 1), k \in Fine PROVE k + 1 \in Fine
  <2> DEFINE o == f[k]
             w == f[k + 1]
             b == t[k + 1]
  <2>1. k + 1 \in 1..N /\ (k + 1) - 1 = k /\ k \in 0..N /\ k + 1 \in 0..N /\ k + 1 \in Nat
    BY <1>3
  <2>2. w = ApplyNext(o, b) /\ b \in Byte
    BY <1>3, <1>5, <2>1
  <2>3. Read(k + 1) = Append(Read(k), b)
    <3> DEFINE u == SubSeq(t, 1, k)
    <3>1. u \in Bytes
      <4>1. u \in Seq(Byte)
        BY <1>3, <2>1, CutAt
      <4> QED BY <4>1 DEF Bytes
    <3>2. SubSeq(t, 1, k + 1) = Append(u, b)
      BY <1>3, <2>2, CutBytes
    <3> HIDE DEF u, b
    <3>3. text \o Append(u, b) = Append(text \o u, b)
      BY <2>2, <3>1, AppendConcat
    <3> QED BY <3>2, <3>3 DEF u
  <2>4. Fresh(Read(k + 1)).ok
    <3> DEFINE u == SubSeq(t, 1, k + 1)
               v == SubSeq(t, k + 1 + 1, Len(t))
    <3>1. u \in Seq(Byte) /\ v \in Seq(Byte) /\ u \o v = t
      BY <1>3, <2>1, CutAt
    <3> HIDE DEF u, v
    <3>2. (text \o u) \o v = text \o t
      <4>1. text \in Seq(Byte) /\ u \in Seq(Byte) /\ v \in Seq(Byte)
        BY <3>1 DEF Bytes
      <4>2. (text \o u) \o v = text \o (u \o v)
        BY <4>1, ConcatThree, Z3
      <4> QED BY <3>1, <4>2
    <3>3. text \o u \in Bytes /\ v \in Bytes
      BY <3>1, ConcatProperties DEF Bytes
    <3> DEFINE a == text \o u
    <3>4. a \in Bytes /\ v \in Bytes /\ Fresh(a \o v).ok
      BY <3>2, <3>3
    <3> HIDE DEF a
    <3>5. Fresh(a).ok
      BY <3>4, FreshBegin
    <3> QED BY <3>5 DEF a, u
  <2>5. /\ o # MatcherError /\ Sane(o) /\ Told(o, Read(k))
        /\ ~o.lexer_stack_top_eos /\ (All(p) => All(o))
    BY <1>8
  <2>6. w = ApplyByte(o, b) /\ Fresh(Append(Read(k), b)).ok
    BY <2>2, <2>3, <2>4, <2>5 DEF ApplyNext
  <2> HIDE DEF o, w, b, Read, Fine
  <2>7. w # MatcherError /\ Sane(w) /\ (All(o) => All(w))
    BY <2>2, <2>5, <2>6, ApplyByteReads DEF All
  <2>8. Told(w, Append(Read(k), b)) /\ ~w.lexer_stack_top_eos
    BY <2>2, <2>5, <2>6, <2>7, ApplyByteTold
  <2> QED BY <2>1, <2>3, <2>5, <2>7, <2>8 DEF w, Fine, o
<1> HIDE DEF Fine, Read
<1>9. N \in Fine
  <2>1. \A k \in 0..N : k \in Fine
    BY <1>3, <1>7, <1>8, UpTo
  <2> QED BY <1>3, <2>1
<1> QED BY <1>2, <1>9 DEF Fine, f, All

(* What a session knows of a text that it has applied without an end.       *)
Reading(q, text, canonical) ==
  /\ q \in FreshSessions /\ Known(q)
  /\ q.llm_tokens = text /\ q.applied = Len(q.bytes)
  /\ ~Stopped(q) /\ q.tokenize_is_canonical = canonical

(* It takes a token that a new parser would take after the text.            *)
LEMMA ReadOn ==
  ASSUME NEW p, NEW ts \in Texts, NoEos(ts), NEW canonical, Reading(p, ts, canonical),
         Len(ts) < MaxTokensTotal,
         NEW t \in Tokens, Fresh(BytesOf(ts) \o t).ok, NEW q, q = ConsumeToken(p, t)
  PROVE  q # MatcherError /\ Reading(q, Append(ts, t), canonical)
<1> DEFINE text == BytesOf(ts)
<1>1. /\ p \in FreshSessions /\ Known(p) /\ p.llm_tokens = ts
      /\ p.applied = Len(p.bytes) /\ ~Stopped(p) /\ p.tokenize_is_canonical = canonical
  BY DEF Reading
<1>2. Sane(p) /\ Cached(p) /\ Len(ts) \in Nat /\ MaxTokensTotal \in Nat
      /\ p.max_tokens_total \in Nat
  BY <1>1, SaneParts DEF FreshSessions
<1>3. p.max_tokens_total # 0
  BY <1>1, <1>2 DEF Sane
<1>4. t # EOS /\ t \in Tokens \cup {EOS}
  BY MatcherAssumption
<1>5. q = ApplyToken(Paid(p), t)
  BY <1>1, <1>3, <1>4 DEF ConsumeToken, Paid
<1>6. text \in Bytes /\ Told(p, text) /\ ~p.lexer_stack_top_eos
  BY <1>1, BytesOfConcat DEF Known
<1> HIDE DEF text
<1>7. q # MatcherError /\ q.applied = Len(q.bytes)
  <2>1. Fresh(text \o t).ok
    BY DEF text
  <2> QED BY <1>1, <1>2, <1>3, <1>5, <1>6, <2>1, ApplyTokenOk
<1>8. q \in FreshSessions /\ Known(q)
  BY <1>1, <1>4, <1>7, ConsumeTokenTold
<1>9. /\ q.llm_tokens = Append(ts, t) /\ q.tokenize_is_canonical = p.tokenize_is_canonical
      /\ q.stop_reason = p.stop_reason
  <2>1. TookToken(p, t, q)
    BY <1>2, <1>4, <1>7, ConsumeTokenFacts
  <2> QED BY <1>1, <2>1 DEF TookToken
<1> QED BY <1>1, <1>7, <1>8, <1>9 DEF Reading, Stopped

(* The tokens of a session can be consumed by a new one.                    *)
LEMMA ReplayFacts ==
  ASSUME NEW p \in FreshSessions, Known(p), NoEos(p.llm_tokens),
         NEW canonical, canonical = p.tokenize_is_canonical,
         NEW q, q = ConsumedUpTo(NewTokenParser(canonical), p.llm_tokens)[Len(p.llm_tokens)]
  PROVE  q # MatcherError /\ Reading(q, p.llm_tokens, canonical)
<1> DEFINE new == NewTokenParser(canonical)
           ts == p.llm_tokens
           N == Len(ts)
           f == ConsumedUpTo(new, ts)
           Shown == {k \in Nat : f[k] # MatcherError /\ Reading(f[k], SubSeq(ts, 1, k), canonical)}
<1>1. Sane(p) /\ ts \in Texts /\ N \in Nat /\ p.max_tokens_total \in Nat /\ canonical \in BOOLEAN
      /\ MaxTokensTotal \in Nat
  <2>1. Sane(p)
    BY DEF FreshSessions
  <2> QED BY <2>1, SaneParts
<1>2. N <= MaxTokensTotal
  BY <1>1 DEF Sane
<1>3. Fresh(BytesOf(ts)).ok
  <2> DEFINE a == BytesOf(ts)
             u == ForcedBytes(p)
  <2>1. SubSeq(p.bytes, 1, p.applied) = a /\ Fresh(p.bytes).ok
    BY DEF Known, Told
  <2>2. u \in Bytes /\ a \in Bytes /\ a \o u = p.bytes
    BY <1>1, <2>1, ForcedBytesAre
  <2> HIDE DEF a, u
  <2>3. Fresh(a).ok
    BY <2>1, <2>2, FreshBegin
  <2> QED BY <2>3 DEF a
<1>4. new \in FreshSessions /\ Reading(new, <<>>, canonical) /\ new # MatcherError
  <2>1. /\ new \in FreshSessions /\ Between(new) /\ new.llm_tokens = <<>> /\ new.bytes = <<>>
        /\ new.applied = 0 /\ ~Stopped(new) /\ new.tokenize_is_canonical = canonical
    BY <1>1, NewSessionTold
  <2>2. new # MatcherError
    BY <2>1, SaneParts DEF FreshSessions
  <2> HIDE DEF new
  <2>3. new.applied = Len(new.bytes)
    BY <2>1, EmptySeq
  <2> QED BY <2>1, <2>2, <2>3 DEF Reading, Between
<1>5. /\ f[0] = new
      /\ \A k \in 1..N : f[k] = ConsumeNext(f[k - 1], ts[k])
  BY <1>1, <1>4, ConsumedSteps DEF Sessions
<1>6. q = f[N]
  OBVIOUS
<1> HIDE DEF f, new
<1>7. 0 \in Shown
  <2>1. 0 \in 0..Len(ts)
    BY <1>1
  <2>2. Len(SubSeq(ts, 1, 0)) = 0 /\ SubSeq(ts, 1, 0) \in Texts
    BY <1>1, <2>1, CutAt DEF Texts
  <2>3. SubSeq(ts, 1, 0) = <<>>
    BY <2>2, EmptySeq DEF Texts
  <2> QED BY <1>4, <1>5, <2>3
<1>8. ASSUME NEW k \in 0..(N - 1), k \in Shown PROVE k + 1 \in Shown
  <2> DEFINE o == f[k]
             w == f[k + 1]
             t == ts[k + 1]
             us == SubSeq(ts, 1, k)
             vs == SubSeq(ts, k + 1 + 1, Len(ts))
             a == BytesOf(us) \o t
             b == BytesOf(vs)
  <2>1. k + 1 \in 1..N /\ (k + 1) - 1 = k /\ k \in 0..N /\ k + 1 \in 0..N /\ k + 1 \in Nat
        /\ k < N
    BY <1>1
  <2>2. t \in Tokens
    <3>1. t \in Tokens \cup {EOS}
      BY <1>1, <2>1, ElementOfSeq DEF Texts
    <3>2. t # EOS
      BY <2>1 DEF NoEos
    <3> QED BY <3>1, <3>2
  <2>3. us \in Texts /\ Len(us) = k /\ vs \in Texts
        /\ SubSeq(ts, 1, k + 1) \in Texts /\ SubSeq(ts, 1, k + 1) \o vs = ts
        /\ \A i \in 1..k : us[i] = ts[i]
    <3>1. us \in Texts /\ Len(us) = k /\ \A i \in 1..k : us[i] = ts[i]
      BY <1>1, <2>1, CutAt DEF Texts
    <3> DEFINE m == k + 1
               xs == SubSeq(ts, 1, m)
               ys == SubSeq(ts, m + 1, Len(ts))
    <3>2. m \in 0..Len(ts) /\ ts \in Seq(Tokens \cup {EOS})
      BY <1>1, <2>1 DEF Texts
    <3> HIDE DEF m
    <3>3. xs \in Texts /\ ys \in Texts /\ xs \o ys = ts
      BY <3>2, CutAt DEF Texts
    <3> QED BY <3>1, <3>3 DEF m
  <2>4. SubSeq(ts, 1, k + 1) = Append(us, t)
    BY <1>1, <2>1, CutNext DEF Texts
  <2>5. NoEos(us)
    BY <2>1, <2>3 DEF NoEos
  <2>6. Fresh(a).ok
    <3>1. BytesOf(Append(us, t)) = BytesOf(us) \o t /\ Append(us, t) \in Texts
      <4>1. t # EOS /\ t \in Tokens \cup {EOS}
        BY <2>2, MatcherAssumption
      <4> HIDE DEF us, t
      <4> QED BY <2>3, <4>1, BytesOfAppend DEF Piece
    <3>2. BytesOf(ts) = a \o b /\ a \in Bytes /\ b \in Bytes
      <4> DEFINE xs == Append(us, t)
      <4>1. xs \in Texts /\ vs \in Texts /\ xs \o vs = ts /\ BytesOf(xs) = a
        BY <2>3, <2>4, <3>1
      <4> HIDE DEF xs, vs, a, ts
      <4>2. BytesOf(xs) \in Bytes /\ BytesOf(vs) \in Bytes
            /\ BytesOf(xs \o vs) = BytesOf(xs) \o BytesOf(vs)
        BY <4>1, BytesOfConcat
      <4> QED BY <4>1, <4>2
    <3> HIDE DEF a, b
    <3> QED BY <1>3, <3>2, FreshBegin
  <2>7. o # MatcherError /\ Reading(o, us, canonical) /\ Len(us) < MaxTokensTotal
    BY <1>1, <1>2, <1>8, <2>1, <2>3
  <2>8. w = ConsumeToken(o, t)
    BY <1>5, <2>1, <2>7 DEF ConsumeNext
  <2> HIDE DEF o, w, t, us
  <2>9. w # MatcherError /\ Reading(w, Append(us, t), canonical)
    BY <2>2, <2>3, <2>5, <2>6, <2>7, <2>8, ReadOn
  <2> QED BY <2>1, <2>4, <2>9 DEF w
<1>9. N \in Shown
  <2> HIDE DEF Shown, N
  <2>1. \A k \in 0..N : k \in Shown
    BY <1>1, <1>7, <1>8, UpTo
  <2>2. N \in 0..N
    BY <1>1
  <2> QED BY <2>1, <2>2
<1>10. SubSeq(ts, 1, N) = ts
  BY <1>1, WholeSeq DEF Texts
<1> QED BY <1>6, <1>9, <1>10

-----------------------------------------------------------------------------
(* The mask depends on the tokens only.                                     *)

(* Where a byte was forced, some byte is.                                   *)
LEMMA ForcedOnceMore ==
  ASSUME NEW bs, NEW i, ForcedAt(bs, i)
  PROVE  ForcedByte(Fresh(SubSeq(bs, 1, i - 1)).chart) # {}
<1> DEFINE c == Fresh(SubSeq(bs, 1, i - 1)).chart
           x == bs[i]
<1>1. AllowedBytes(c) = {x} /\ ~IsAccepting(c)
  BY DEF ForcedAt
<1> HIDE DEF c, x
<1>2. OnlyOne({x}) = {x}
  <2>1. Cardinality({x}) = 1
    BY FS_Singleton
  <2> QED BY <2>1 DEF OnlyOne
<1>3. ForcedByte(c) # {}
  BY <1>1, <1>2 DEF ForcedByte
<1> QED BY <1>3 DEF c

(* Two sessions of the same text have the same bytes as far as they go, and *)
(* the one that has forced all it can has the most.                         *)
LEMMA ForcedFarthest ==
  ASSUME NEW p, Sane(p), NEW text, Told(p, text), NEW q, Sane(q), Told(q, text), End(p.bytes)
  PROVE  /\ Len(q.bytes) <= Len(p.bytes)
         /\ \A i \in 1..Len(q.bytes) : q.bytes[i] = p.bytes[i]
<1> DEFINE bs == q.bytes
           cs == p.bytes
           n == q.applied
<1>1. /\ bs \in Bytes /\ bs \in Seq(Byte) /\ Len(bs) \in Nat /\ n \in 0..Len(bs)
      /\ cs \in Bytes /\ cs \in Seq(Byte) /\ Len(cs) \in Nat /\ p.applied \in 0..Len(cs)
  BY SaneParts DEF Bytes
<1>2. n = p.applied /\ \A i \in 1..n : cs[i] = bs[i]
  BY AppliedIs
<1>3. /\ \A i \in (n + 1)..Len(bs) : ForcedAt(bs, i)
      /\ Fresh(cs).ok
      /\ n < Len(bs) => Len(bs) <= MaxBytes
  BY DEF Told
<1> HIDE DEF n, bs, cs
<1>4. \A i \in 1..n : i <= Len(cs) => cs[i] = bs[i]
  BY <1>2
<1>5. \A i \in 1..Len(bs) : i <= Len(cs) => cs[i] = bs[i]
  BY <1>1, <1>3, <1>4, FollowsForced
<1>6. Len(bs) <= Len(cs)
  <2> SUFFICES ASSUME ~(Len(bs) <= Len(cs)) PROVE FALSE
    OBVIOUS
  <2> DEFINE k == Len(cs)
             a == SubSeq(bs, 1, k)
  <2>1. k \in 0..Len(bs) /\ k + 1 \in (n + 1)..Len(bs) /\ n < Len(bs) /\ k < Len(bs)
        /\ (k + 1) - 1 = k
    BY <1>1, <1>2
  <2>2. MaxBytes \in Nat
    BY MatcherAssumption
  <2>3. ForcedByte(Fresh(cs).chart) = {}
    BY <1>1, <1>3, <2>1, <2>2 DEF End, cs
  <2>4. a = cs
    <3>1. a \in Seq(Byte) /\ Len(a) = k /\ \A i \in 1..k : a[i] = bs[i]
      BY <1>1, <2>1, CutAt
    <3>2. \A i \in 1..k : a[i] = cs[i]
      BY <1>1, <1>5, <2>1, <3>1
    <3> HIDE DEF a
    <3> QED BY <1>1, <3>1, <3>2, SeqEqual
  <2>5. ForcedByte(Fresh(SubSeq(bs, 1, (k + 1) - 1)).chart) # {}
    <3>1. ForcedAt(bs, k + 1)
      BY <1>3, <2>1
    <3> HIDE DEF k
    <3> QED BY <3>1, ForcedOnceMore
  <2> QED BY <2>1, <2>3, <2>4, <2>5
<1> QED BY <1>1, <1>5, <1>6 DEF bs, cs

(* So two that have are twins.                                              *)
LEMMA ForcedTwins ==
  ASSUME NEW p, Sane(p), NEW text, Told(p, text), NEW q, Sane(q), Told(q, text),
         End(p.bytes), End(q.bytes), ~p.lexer_stack_top_eos, ~q.lexer_stack_top_eos
  PROVE  /\ q.bytes = p.bytes /\ q.applied = p.applied
         /\ Twin(p.chart, q.chart) /\ Unbounded(p.chart) /\ Unbounded(q.chart)
<1>1. q.bytes = p.bytes
  <2>1. /\ Len(q.bytes) <= Len(p.bytes)
        /\ \A i \in 1..Len(q.bytes) : q.bytes[i] = p.bytes[i]
    BY ForcedFarthest
  <2>2. Len(p.bytes) <= Len(q.bytes)
    BY ForcedFarthest
  <2>3. /\ q.bytes \in Seq(Byte) /\ Len(q.bytes) \in Nat
        /\ p.bytes \in Seq(Byte) /\ Len(p.bytes) \in Nat
    BY SaneParts DEF Bytes
  <2> QED BY <2>1, <2>2, <2>3, SeqEqual
<1>2. q.applied = p.applied
  BY AppliedIs
<1> DEFINE d == Fresh(p.bytes).chart
<1>3. /\ Twin(p.chart, d) /\ Unbounded(p.chart) /\ Unbounded(d)
      /\ Twin(q.chart, d) /\ Unbounded(q.chart)
  BY <1>1, ToldTwin
<1>4. Twin(p.chart, q.chart)
  <2> HIDE DEF d
  <2>1. Good(p.chart) /\ Good(q.chart) /\ Good(d)
    BY <1>3 DEF Unbounded
  <2>2. Twin(d, q.chart)
    BY <1>3, <2>1, TwinSym
  <2> QED BY <1>3, <2>1, <2>2, TwinTrans
<1> QED BY <1>1, <1>2, <1>3, <1>4

(* Charts that allow the same bytes.                                        *)
SameTexts(c, d) == \A t \in Bytes : Allows(c, t) = Allows(d, t)

(* Twins do.                                                                *)
LEMMA TwinsAllow ==
  ASSUME NEW c, NEW d, Unbounded(c), Unbounded(d), Twin(c, d)
  PROVE  SameTexts(c, d)
<1>1. Good(c) /\ Coherent(c) /\ Good(d) /\ Coherent(d) /\ c.budget = Unlimited /\ d.budget = Unlimited
  BY DEF Unbounded
<1>2. Alike(c, d)
  BY <1>1, ExtendsTwin DEF Twin
<1> QED BY <1>1, <1>2, AllowsSame DEF SameTexts, Bytes

(* What is left of a token after some bytes it begins with.                 *)
LEMMA RestTyped ==
  ASSUME NEW start \in Bytes, NEW t \in Tokens, IsPrefix(start, t)
  PROVE  SubSeq(t, Len(start) + 1, Len(t)) \in Bytes
<1>1. t \in Seq(Byte) /\ Len(t) \in Nat /\ Len(start) \in Nat
  BY MatcherAssumption, LenProperties DEF Bytes
<1>2. Len(start) <= Len(t)
  BY <1>1, PrefixIs DEF Bytes
<1>3. Len(start) \in 0..Len(t)
  BY <1>1, <1>2
<1> QED BY <1>1, <1>3, CutAt DEF Bytes

(* They have the same bias.                                                 *)
LEMMA BiasSame ==
  ASSUME NEW c, NEW d, SameTexts(c, d), NEW start \in Bytes
  PROVE  WalkTokens(c, start) = WalkTokens(d, start)
<1>1. ASSUME NEW t \in Tokens, IsPrefix(start, t)
      PROVE  Allows(c, SubSeq(t, Len(start) + 1, Len(t))) = Allows(d, SubSeq(t, Len(start) + 1, Len(t)))
  BY <1>1, RestTyped DEF SameTexts
<1> QED BY <1>1 DEF WalkTokens

(* They take back the same tokens.                                          *)
LEMMA ChopSame ==
  ASSUME NEW c, NEW d, SameTexts(c, d), NEW ts \in Seq(Tokens)
  PROVE  ChopTokens(c, ts) = ChopTokens(d, ts)
<1> DEFINE suffix == LastN(FlattenSeq(LastN(ts, MaxTokenLookback)), MaxTokenLen)
<1>1. suffix \in Bytes
  <2>1. LastN(ts, MaxTokenLookback) \in Seq(Tokens)
    BY MatcherAssumption, LastNFacts
  <2>2. FlattenSeq(LastN(ts, MaxTokenLookback)) \in Bytes
    BY <2>1, TokensAreBytes
  <2> QED BY <2>2, MaxTokenLenIs, LastNFacts DEF Bytes
<1> HIDE DEF suffix
<1>2. ASSUME NEW n \in 1..Len(suffix)
      PROVE  HasValidExtensions(c, LastN(suffix, n)) = HasValidExtensions(d, LastN(suffix, n))
  <2> DEFINE start == LastN(suffix, n)
  <2>1. start \in Bytes
    BY <1>1, LastNFacts DEF Bytes
  <2> HIDE DEF start
  <2>2. ASSUME NEW t \in Tokens, IsStrictPrefix(start, t)
        PROVE  Allows(c, SubSeq(t, Len(start) + 1, Len(t))) = Allows(d, SubSeq(t, Len(start) + 1, Len(t)))
    <3>1. IsPrefix(start, t)
      BY <2>2 DEF IsStrictPrefix
    <3> QED BY <2>1, <3>1, RestTyped DEF SameTexts
  <2>3. HasValidExtensions(c, start) = HasValidExtensions(d, start)
    BY <2>2 DEF HasValidExtensions
  <2> QED BY <2>3 DEF start
<1>3. {n \in 1..Len(suffix) : HasValidExtensions(c, LastN(suffix, n))}
        = {n \in 1..Len(suffix) : HasValidExtensions(d, LastN(suffix, n))}
  BY <1>2
<1> QED BY <1>3 DEF ChopTokens, suffix

(* It answers the same to sessions of the same bytes, with twins.           *)
LEMMA FfTokensSame ==
  ASSUME NEW p, NEW q, ForcedBytes(p) \in Bytes, p.llm_tokens \in Texts,
         ForcedBytes(q) = ForcedBytes(p), q.llm_tokens = p.llm_tokens,
         q.tokenize_is_canonical = p.tokenize_is_canonical, SameTexts(p.chart, q.chart)
  PROVE  FfTokensOf(q) = FfTokensOf(p)
<1>1. LastToken(q) = LastToken(p)
  BY DEF LastToken
<1>2. FreshOf(q) = FreshOf(p)
  BY <1>1 DEF FreshOf
<1>3. FreshOf(p) \in Seq(Tokens)
  BY FfTokensAre
<1>4. ChopTokens(p.chart, FreshOf(p)) = ChopTokens(q.chart, FreshOf(p))
  BY <1>3, ChopSame
<1>5. FfTokensOf(p) =
        IF ForcedBytes(p) = <<>> THEN NoFfTokens
        ELSE IF ~p.tokenize_is_canonical THEN [tokens |-> <<>>, prefix |-> ForcedBytes(p)]
        ELSE Chopped(FreshOf(p), ChopTokens(p.chart, FreshOf(p)))
  BY FfTokensAre
<1>6. FfTokensOf(q) =
        IF ForcedBytes(q) = <<>> THEN NoFfTokens
        ELSE IF ~q.tokenize_is_canonical THEN [tokens |-> <<>>, prefix |-> ForcedBytes(q)]
        ELSE Chopped(FreshOf(q), ChopTokens(q.chart, FreshOf(q)))
  BY FfTokensAre
<1> QED BY <1>2, <1>4, <1>5, <1>6

(* The mask is that of the session in which bytes are forced, without what  *)
(* is cached.                                                               *)
LEMMA MaskIs ==
  ASSUME NEW p, Sane(p), Cached(p), NEW f, f = Forced(p)
  PROVE  WalkedMask(p) = IF FfTokensOf(f).tokens # <<>> THEN {Head(FfTokensOf(f).tokens)}
                   ELSE WalkTokens(f.chart, FfTokensOf(f).prefix)
                          \cup (IF MayEnd(f) THEN {EOS} ELSE {})
<1>1. Sane(f) /\ Cached(f) /\ (p.ff_tokens_cache # None => f = p)
  BY ForcedFacts
<1>2. FfTokensNow(p) = FfTokensOf(f)
  BY <1>1 DEF FfTokensNow, Cached, TokensFresh
<1>3. Accepting(f) = MayEnd(f)
  BY <1>1, AcceptingRight DEF Cached
<1> QED BY <1>2, <1>3 DEF WalkedMask, WalkedWith, MaskFrom

(* With a canonical tokenizer the sessions have the same bytes by then.     *)
LEMMA MaskSameCanonical ==
  ASSUME NEW p \in FreshSessions, Known(p), NoEos(p.llm_tokens), p.tokenize_is_canonical,
         NEW q \in FreshSessions, Known(q), q.llm_tokens = p.llm_tokens, q.tokenize_is_canonical
  PROVE  WalkedMask(q) = WalkedMask(p)
<1> DEFINE f == Forced(p)
           g == Forced(q)
           text == BytesOf(p.llm_tokens)
<1>1. Sane(p) /\ Cached(p) /\ Sane(q) /\ Cached(q)
  BY DEF FreshSessions
<1>2. f = ForceBytes(p) /\ g = ForceBytes(q)
  BY DEF Forced
<1>3. /\ f \in FreshSessions /\ ForcedOn(p, f) /\ Known(f) /\ End(f.bytes)
      /\ g \in FreshSessions /\ ForcedOn(q, g) /\ Known(g) /\ End(g.bytes)
  BY <1>2, ForceBytesKnown
<1> HIDE DEF f, g
<1>4. /\ f.llm_tokens = p.llm_tokens /\ f.tokenize_is_canonical = p.tokenize_is_canonical
      /\ g.llm_tokens = p.llm_tokens /\ g.tokenize_is_canonical = q.tokenize_is_canonical
      /\ Sane(f) /\ Sane(g)
  BY <1>3 DEF ForcedOn
<1>5. Told(f, text) /\ ~f.lexer_stack_top_eos /\ Told(g, text) /\ ~g.lexer_stack_top_eos
  BY <1>3, <1>4 DEF Known
<1> HIDE DEF text
<1>6. /\ g.bytes = f.bytes /\ g.applied = f.applied
      /\ Twin(f.chart, g.chart) /\ Unbounded(f.chart) /\ Unbounded(g.chart)
  BY <1>3, <1>4, <1>5, ForcedTwins
<1>7. SameTexts(f.chart, g.chart) /\ IsAccepting(f.chart) = IsAccepting(g.chart)
  BY <1>6, TwinsAllow, ForcedByteSame
<1>8. ForcedBytes(g) = ForcedBytes(f) /\ ForcedBytes(f) \in Bytes /\ f.llm_tokens \in Texts
  BY <1>4, <1>6, ForcedBytesAre, SaneParts DEF ForcedBytes
<1>9. FfTokensOf(g) = FfTokensOf(f) /\ FfTokensOf(f) \in FfTokens
  BY <1>4, <1>7, <1>8, FfTokensSame, FfTokensTyped
<1>10. MayEnd(g) = MayEnd(f)
  BY <1>7, <1>8 DEF MayEnd
<1>11. WalkTokens(f.chart, FfTokensOf(f).prefix) = WalkTokens(g.chart, FfTokensOf(f).prefix)
  <2>1. FfTokensOf(f).prefix \in Bytes
    BY <1>9 DEF FfTokens, Bytes
  <2> QED BY <1>7, <2>1, BiasSame
<1>12. WalkedMask(p) = IF FfTokensOf(f).tokens # <<>> THEN {Head(FfTokensOf(f).tokens)}
                       ELSE WalkTokens(f.chart, FfTokensOf(f).prefix)
                              \cup (IF MayEnd(f) THEN {EOS} ELSE {})
  BY <1>1, MaskIs DEF f
<1>13. WalkedMask(q) = IF FfTokensOf(g).tokens # <<>> THEN {Head(FfTokensOf(g).tokens)}
                       ELSE WalkTokens(g.chart, FfTokensOf(g).prefix)
                              \cup (IF MayEnd(g) THEN {EOS} ELSE {})
  BY <1>1, MaskIs DEF g
<1> QED BY <1>9, <1>10, <1>11, <1>12, <1>13

(* The elements of a sequence made of two.                                  *)
LEMMA ConcatParts ==
  ASSUME NEW a \in Seq(Byte), NEW b \in Seq(Byte), NEW c, c = a \o b, NEW n, n = Len(a)
  PROVE  /\ Len(c) = n + Len(b)
         /\ \A i \in 1..n : c[i] = a[i]
         /\ \A i \in 1..Len(b) : c[n + i] = b[i]
<1>1. /\ Len(a) \in Nat /\ Len(b) \in Nat
  BY LenProperties
<1>2. /\ Len(c) = Len(a) + Len(b)
      /\ \A i \in 1..(Len(a) + Len(b)) : c[i] = IF i <= Len(a) THEN a[i] ELSE b[i - Len(a)]
  BY ConcatProperties
<1>3. ASSUME NEW i \in 1..Len(b) PROVE c[n + i] = b[i]
  <2>1. n + i \in 1..(Len(a) + Len(b)) /\ ~(n + i <= Len(a)) /\ (n + i) - Len(a) = i
    BY <1>1
  <2> QED BY <1>2, <2>1
<1>4. ASSUME NEW i \in 1..n PROVE c[i] = a[i]
  <2>1. i \in 1..(Len(a) + Len(b)) /\ i <= Len(a)
    BY <1>1
  <2> QED BY <1>2, <2>1
<1> QED BY <1>2, <1>3, <1>4

(* A token within or beyond the forced bytes is allowed if a new parser     *)
(* would accept it after the text.                                          *)
LEMMA TokenAllowed ==
  ASSUME NEW p, Sane(p), NEW text, Told(p, text), ~p.lexer_stack_top_eos,
         NEW forced, forced = ForcedBytes(p), NEW t \in Tokens
  PROVE  (\/ IsPrefix(t, forced)
          \/ IsPrefix(forced, t) /\ Allows(p.chart, SubSeq(t, Len(forced) + 1, Len(t))))
         <=> Fresh(text \o t).ok
<1> DEFINE bs == p.bytes
           n == p.applied
           cs == text \o t
           rest == SubSeq(t, Len(forced) + 1, Len(t))
<1>1. /\ t \in Bytes /\ forced \in Bytes /\ text \in Bytes /\ cs \in Bytes
      /\ t \in Seq(Byte) /\ forced \in Seq(Byte) /\ text \in Seq(Byte) /\ cs \in Seq(Byte)
      /\ Len(t) \in Nat /\ Len(forced) \in Nat /\ Len(text) \in Nat
  <2>1. t \in Seq(Byte) /\ Len(t) \in Nat
    BY MatcherAssumption, LenProperties
  <2>2. forced \in Seq(Byte) /\ Len(forced) \in Nat
    BY ForcedBytesAre, LenProperties DEF Bytes
  <2>3. text \in Seq(Byte) /\ Len(text) \in Nat
    BY AppliedIs, LenProperties DEF Bytes
  <2>4. cs \in Seq(Byte)
    BY <2>1, <2>3, ConcatProperties
  <2> QED BY <2>1, <2>2, <2>3, <2>4 DEF Bytes
<1>2. /\ bs \in Bytes /\ bs \in Seq(Byte) /\ Len(bs) \in Nat /\ n \in 0..Len(bs)
      /\ n = Len(text) /\ bs = text \o forced /\ Fresh(bs).ok
      /\ \A i \in (n + 1)..Len(bs) : ForcedAt(bs, i)
      /\ \A i \in 1..n : bs[i] = text[i]
  BY SaneParts, AppliedIs DEF Bytes, Told
<1> HIDE DEF n, bs
<1>3. /\ Len(cs) = n + Len(t) /\ Len(bs) = n + Len(forced)
      /\ \A i \in 1..n : cs[i] = text[i]
      /\ \A i \in 1..Len(t) : cs[n + i] = t[i]
      /\ \A i \in 1..Len(forced) : bs[n + i] = forced[i]
  <2>1. /\ Len(cs) = n + Len(t)
        /\ \A i \in 1..n : cs[i] = text[i]
        /\ \A i \in 1..Len(t) : cs[n + i] = t[i]
    BY <1>1, <1>2, ConcatParts
  <2>2. /\ Len(bs) = n + Len(forced)
        /\ \A i \in 1..Len(forced) : bs[n + i] = forced[i]
    BY <1>1, <1>2, ConcatParts
  <2> QED BY <2>1, <2>2
<1>4. ASSUME IsPrefix(t, forced) PROVE Fresh(cs).ok
  <2> DEFINE u == SubSeq(forced, Len(t) + 1, Len(forced))
  <2>1. t \o u = forced /\ u \in Seq(Byte)
    <3>1. t \o u = forced /\ Len(t) <= Len(forced)
      BY <1>1, <1>4, PrefixIs
    <3>2. Len(t) \in 0..Len(forced)
      BY <1>1, <3>1
    <3> QED BY <1>1, <3>1, <3>2, CutAt
  <2> HIDE DEF u
  <2>2. (text \o t) \o u = text \o (t \o u)
    <3>1. text \in Seq(Byte) /\ t \in Seq(Byte) /\ u \in Seq(Byte)
      BY <1>1, <2>1
    <3> QED BY <3>1, ConcatThree, Z3
  <2>3. Fresh(cs \o u).ok
    BY <1>2, <2>1, <2>2
  <2> HIDE DEF cs
  <2> QED BY <1>1, <2>1, <2>3, FreshBegin DEF Bytes
<1>5. ASSUME IsPrefix(forced, t) PROVE Allows(p.chart, rest) = Fresh(cs).ok
  <2>1. rest \in Bytes /\ forced \o rest = t
    BY <1>1, <1>5, RestTyped, PrefixIs
  <2> HIDE DEF rest
  <2>2. (text \o forced) \o rest = text \o (forced \o rest)
    <3>1. text \in Seq(Byte) /\ forced \in Seq(Byte) /\ rest \in Seq(Byte)
      BY <1>1, <2>1 DEF Bytes
    <3> QED BY <3>1, ConcatThree, Z3
  <2>3. bs \o rest = cs
    BY <1>2, <2>1, <2>2
  <2>4. Twin(p.chart, Fresh(bs).chart) /\ Unbounded(p.chart)
    BY ToldTwin DEF bs
  <2> HIDE DEF cs
  <2>5. Allows(p.chart, rest) = Fresh(bs \o rest).ok
    <3> DEFINE c == p.chart
    <3> HIDE DEF c
    <3>1. Twin(c, Fresh(bs).chart) /\ Unbounded(c)
      BY <2>4 DEF c
    <3>2. Allows(c, rest) = Fresh(bs \o rest).ok
      BY <1>2, <2>1, <3>1, AllowsText
    <3> QED BY <3>2 DEF c
  <2> QED BY <2>3, <2>5
<1>6. ASSUME Fresh(cs).ok PROVE IsPrefix(t, forced) \/ IsPrefix(forced, t)
  <2>1. \A i \in 1..n : i <= Len(cs) => cs[i] = bs[i]
    BY <1>2, <1>3
  <2>2. \A i \in 1..Len(bs) : i <= Len(cs) => cs[i] = bs[i]
    <3> HIDE DEF cs
    <3>1. bs \in Bytes /\ n \in 0..Len(bs) /\ \A i \in (n + 1)..Len(bs) : ForcedAt(bs, i)
      BY <1>2
    <3>2. cs \in Bytes /\ Fresh(cs).ok
      BY <1>1, <1>6
    <3> QED BY <2>1, <3>1, <3>2, FollowsForced
  <2>3. \A i \in 1..Len(t) : i <= Len(forced) => t[i] = forced[i]
    <3> SUFFICES ASSUME NEW i \in 1..Len(t), i <= Len(forced) PROVE t[i] = forced[i]
      OBVIOUS
    <3>1. n + i \in 1..Len(bs) /\ n + i <= Len(cs) /\ i \in 1..Len(forced)
      BY <1>1, <1>2, <1>3
    <3>2. cs[n + i] = bs[n + i]
      BY <2>2, <3>1
    <3> HIDE DEF cs
    <3> QED BY <1>3, <3>1, <3>2
  <2>4. CASE Len(t) <= Len(forced)
    <3>1. \A i \in 1..Len(t) : t[i] = forced[i]
      BY <1>1, <2>3, <2>4
    <3> QED BY <1>1, <2>4, <3>1, PrefixIs
  <2>5. CASE Len(forced) <= Len(t)
    <3>1. \A i \in 1..Len(forced) : forced[i] = t[i]
      BY <1>1, <2>3, <2>5
    <3> QED BY <1>1, <2>5, <3>1, PrefixIs
  <2> QED BY <1>1, <2>4, <2>5
<1> QED BY <1>4, <1>5, <1>6 DEF rest

(* The text may end if it may in a new parser.                              *)
LEMMA EndAllowed ==
  ASSUME NEW p, Sane(p), NEW text, Told(p, text), ~p.lexer_stack_top_eos
  PROVE  MayEnd(p) <=> IsAccepting(Fresh(text).chart)
<1> DEFINE bs == p.bytes
           n == p.applied
<1>1. /\ bs \in Seq(Byte) /\ Len(bs) \in Nat /\ n \in 0..Len(bs)
      /\ SubSeq(bs, 1, n) = text
      /\ \A i \in (n + 1)..Len(bs) : ForcedAt(bs, i)
      /\ ForcedBytes(p) = <<>> <=> n = Len(bs)
  BY SaneParts, ForcedBytesAre DEF Bytes, Told
<1>2. CASE n = Len(bs)
  <2>1. bs = text
    BY <1>1, <1>2, WholeSeq
  <2>2. /\ Twin(p.chart, Fresh(bs).chart)
        /\ Unbounded(p.chart) /\ Unbounded(Fresh(bs).chart)
    BY ToldTwin
  <2>3. IsAccepting(p.chart) = IsAccepting(Fresh(bs).chart)
    BY <2>2, ForcedByteSame
  <2> QED BY <1>1, <1>2, <2>1, <2>3 DEF MayEnd
<1>3. CASE n # Len(bs)
  <2> HIDE DEF n
  <2>1. n + 1 \in (n + 1)..Len(bs) /\ (n + 1) - 1 = n
    BY <1>1, <1>3
  <2>2. ForcedAt(bs, n + 1)
    BY <1>1, <2>1
  <2>3. ~IsAccepting(Fresh(text).chart)
    BY <1>1, <2>1, <2>2 DEF ForcedAt
  <2> QED BY <1>1, <1>3, <2>3 DEF MayEnd
<1> QED BY <1>2, <1>3

(* Without a canonical tokenizer bytes are forced only when a client asks:  *)
(* the mask is what a new parser would accept after the text.               *)
LEMMA MaskOfText ==
  ASSUME NEW p \in FreshSessions, Known(p), NoEos(p.llm_tokens), ~p.tokenize_is_canonical,
         NEW text, text = BytesOf(p.llm_tokens)
  PROVE  WalkedMask(p) = {t \in Tokens : Fresh(text \o t).ok}
                     \cup (IF IsAccepting(Fresh(text).chart) THEN {EOS} ELSE {})
<1> DEFINE forced == ForcedBytes(p)
<1>1. Sane(p) /\ Cached(p) /\ Told(p, text) /\ ~p.lexer_stack_top_eos
  BY DEF FreshSessions, Known
<1>2. Forced(p) = p
  BY DEF Forced
<1>3. forced \in Bytes /\ p.llm_tokens \in Texts
  BY <1>1, ForcedBytesAre, SaneParts
<1> HIDE DEF forced
<1>4. FfTokensOf(p) = [tokens |-> <<>>, prefix |-> forced]
  <2>1. FfTokensOf(p) = IF forced = <<>> THEN NoFfTokens ELSE [tokens |-> <<>>, prefix |-> forced]
    BY <1>3, FfTokensAre DEF forced
  <2> QED BY <2>1 DEF NoFfTokens
<1>5. WalkedMask(p) = WalkTokens(p.chart, forced) \cup (IF MayEnd(p) THEN {EOS} ELSE {})
  BY <1>1, <1>2, <1>4, MaskIs
<1>6. WalkTokens(p.chart, forced) = {t \in Tokens : Fresh(text \o t).ok}
  <2>1. ASSUME NEW t \in Tokens
        PROVE  (\/ IsPrefix(t, forced)
                \/ IsPrefix(forced, t) /\ Allows(p.chart, SubSeq(t, Len(forced) + 1, Len(t))))
               <=> Fresh(text \o t).ok
    BY <1>1, TokenAllowed DEF forced
  <2> QED BY <2>1 DEF WalkTokens
<1>7. MayEnd(p) <=> IsAccepting(Fresh(text).chart)
  BY <1>1, EndAllowed
<1> QED BY <1>5, <1>6, <1>7

(* Sessions of the same tokens have the same mask.                          *)
LEMMA MaskSame ==
  ASSUME NEW p \in FreshSessions, Known(p), NoEos(p.llm_tokens),
         NEW q \in FreshSessions, Known(q), q.llm_tokens = p.llm_tokens,
         q.tokenize_is_canonical = p.tokenize_is_canonical
  PROVE  WalkedMask(q) = WalkedMask(p)
<1>1. CASE p.tokenize_is_canonical
  BY <1>1, MaskSameCanonical
<1>2. CASE ~p.tokenize_is_canonical
  <2> DEFINE text == BytesOf(p.llm_tokens)
             mask == {t \in Tokens : Fresh(text \o t).ok}
                       \cup (IF IsAccepting(Fresh(text).chart) THEN {EOS} ELSE {})
  <2>1. text = BytesOf(q.llm_tokens) /\ NoEos(q.llm_tokens) /\ ~q.tokenize_is_canonical
    BY <1>2
  <2> HIDE DEF text
  <2>2. WalkedMask(p) = mask
    BY <1>2, MaskOfText DEF text
  <2>3. WalkedMask(q) = mask
    BY <2>1, MaskOfText
  <2> QED BY <2>2, <2>3
<1> QED BY <1>1, <1>2

(* What the session has become that forced what bytes it does.              *)
LEMMA ForcedKnown ==
  ASSUME NEW p \in FreshSessions, Known(p), NEW f, f = Forced(p)
  PROVE  /\ f \in FreshSessions /\ Known(f) /\ f.llm_tokens = p.llm_tokens
         /\ f.stop_reason = p.stop_reason
         /\ FfTokensNow(p) = FfTokensOf(f)
<1>1. Sane(p) /\ Cached(p)
  BY DEF FreshSessions
<1>2. /\ Sane(f) /\ Cached(f) /\ f.llm_tokens = p.llm_tokens
      /\ f.stop_reason = p.stop_reason
      /\ p.ff_tokens_cache # None => f = p
  BY <1>1, ForcedFacts
<1>3. f \in FreshSessions
  BY <1>2 DEF Sane, FreshSessions
<1>4. Known(f)
  <2>1. CASE p.tokenize_is_canonical
    <3>1. f = ForceBytes(p)
      BY <2>1 DEF Forced
    <3> QED BY <3>1, ForceBytesKnown
  <2>2. CASE ~p.tokenize_is_canonical
    BY <2>2 DEF Forced
  <2> QED BY <2>1, <2>2
<1>5. FfTokensNow(p) = FfTokensOf(f)
  <2>1. p.ff_tokens_cache # None => p.ff_tokens_cache = FfTokensOf(p)
    BY <1>1 DEF Cached, TokensFresh
  <2> QED BY <1>2, <2>1 DEF FfTokensNow
<1> QED BY <1>2, <1>3, <1>4, <1>5


-----------------------------------------------------------------------------
(* The bias cache.  It has the mask of a new parser that was given its      *)
(* text, but nothing says that this text still begins that of the session.  *)
Kept(b) ==
  LET c == Fresh(b.text).chart
  IN  /\ b.text \in Bytes /\ Fresh(b.text).ok
      /\ b.key = BiasKey(c) /\ b.mask = WalkTokens(c, <<>>)
BiasKept == bias_cache # None => Kept(bias_cache)

(* Twins have the same key.                                                 *)
LEMMA TwinKey ==
  ASSUME NEW c, NEW d, Good(c), Good(d), Twin(c, d)
  PROVE  BiasKey(c) = BiasKey(d)
<1>1. c.lexer_stack = d.lexer_stack
  BY ExtendsTwin DEF Twin
<1>2. Top(c) = Top(d) /\ NumRows(c) = NumRows(d)
  BY <1>1 DEF Top, NumRows
<1>3. HasPendingLexemeBytes(c) = HasPendingLexemeBytes(d)
  BY <1>1, <1>2 DEF HasPendingLexemeBytes
<1> QED BY <1>2, <1>3 DEF BiasKey

(* The parser of a session that no EOS ended, and the new one of its bytes. *)
LEMMA ParserOf ==
  ASSUME NEW p \in FreshSessions, Known(p), NoEos(p.llm_tokens), NEW d, d = Fresh(p.bytes).chart
  PROVE  /\ p.bytes \in Bytes /\ Fresh(p.bytes).ok
         /\ Unbounded(p.chart) /\ Unbounded(d) /\ Twin(p.chart, d)
         /\ SameTexts(p.chart, d) /\ BiasKey(p.chart) = BiasKey(d)
<1> DEFINE text == BytesOf(p.llm_tokens)
<1>1. Sane(p) /\ Told(p, text) /\ ~p.lexer_stack_top_eos
  BY DEF FreshSessions, Known
<1>2. p.bytes \in Bytes
  BY <1>1, SaneParts
<1> HIDE DEF text
<1>3. Fresh(p.bytes).ok /\ Twin(p.chart, d) /\ Unbounded(p.chart) /\ Unbounded(d)
  BY <1>1, ToldTwin DEF Told
<1>4. SameTexts(p.chart, d)
  BY <1>3, TwinsAllow
<1>5. BiasKey(p.chart) = BiasKey(d)
  BY <1>3, TwinKey DEF Unbounded
<1> QED BY <1>2, <1>3, <1>4, <1>5

(* A mask call keeps what it has walked for, if it walks without forced     *)
(* bytes; else it leaves the cache.                                         *)
WalkedFor(f) ==
  [key |-> BiasKey(f.chart), mask |-> WalkTokens(f.chart, <<>>), text |-> f.bytes]
LEMMA MaskKeeps ==
  ASSUME SessionTold, ComputeMask \/ ComputeMaskOrEos
  PROVE  \/ bias_cache' = bias_cache
         \/ /\ session \in FreshSessions /\ Between(session) /\ ~Stopped(session)
            /\ FfTokensNow(session).tokens = <<>> /\ FfTokensNow(session).prefix = <<>>
            /\ bias_cache' = WalkedFor(Forced(session))
<1>1. \/ bias_cache' = bias_cache
      \/ ~Failed /\ ~Stopped(session) /\ KeepBias(Forced(session), FfTokensNow(session))
  BY MaskCalls
<1>2. ~Failed => session \in FreshSessions /\ Between(session)
  BY NotFailedTold
<1> QED BY <1>1, <1>2 DEF KeepBias, WalkedFor

(* Nothing else fills it: it always has the mask of its text.               *)
LEMMA BiasKeptNext ==
  ASSUME SessionTold, BiasKept, [Next]_vars
  PROVE  BiasKept'
<1>1. ASSUME ComputeMask \/ ComputeMaskOrEos
      PROVE  BiasKept'
  <2> DEFINE f == Forced(session)
             b == WalkedFor(f)
             d == Fresh(f.bytes).chart
  <2>1. CASE bias_cache' = bias_cache
    BY <2>1 DEF BiasKept
  <2>2. CASE session \in FreshSessions /\ Between(session) /\ ~Stopped(session)
             /\ bias_cache' = b
    <3>1. /\ f \in FreshSessions /\ Known(f) /\ f.llm_tokens = session.llm_tokens
          /\ NoEos(session.llm_tokens)
      BY <2>2, ForcedKnown DEF Between
    <3> HIDE DEF f
    <3>2. /\ f.bytes \in Bytes /\ Fresh(f.bytes).ok
          /\ SameTexts(f.chart, d) /\ BiasKey(f.chart) = BiasKey(d)
      BY <3>1, ParserOf
    <3>3. <<>> \in Bytes
      BY EmptySeq DEF Bytes
    <3>4. WalkTokens(f.chart, <<>>) = WalkTokens(d, <<>>)
      BY <3>2, <3>3, BiasSame
    <3>5. b.text = f.bytes /\ b.key = BiasKey(f.chart) /\ b.mask = WalkTokens(f.chart, <<>>)
      BY DEF WalkedFor
    <3> HIDE DEF b
    <3>6. Kept(b)
      BY <3>2, <3>4, <3>5 DEF Kept
    <3> QED BY <2>2, <3>6 DEF BiasKept
  <2> QED BY <1>1, <2>1, <2>2, MaskKeeps
<1>2. ASSUME InvalidateBiasCache PROVE BiasKept'
  BY <1>2 DEF InvalidateBiasCache, BiasKept
<1>3. ASSUME bias_cache' = bias_cache PROVE BiasKept'
  BY <1>3 DEF BiasKept
<1> QED BY <1>1, <1>2, <1>3
     DEF Next, vars, ConsumeTokens, TryConsumeTokens, Rollback, IsAcceptingCall,
         ComputeFfTokens, ComputeFfBytes, ConsumeFfTokens

(* The session would be served the mask of a text that was given up.        *)
Abandoned == ServesAbandoned(Forced(session), FfTokensNow(session))

(* The key of the cache tells apart the places of one text: what the parser *)
(* would walk for is served, unless the text of the cache was given up.     *)
LEMMA MaskServed ==
  ASSUME NEW p, p = session, p \in FreshSessions, Known(p), NoEos(p.llm_tokens),
         BiasKept, ~Abandoned
  PROVE  Mask(p) = WalkedMask(p)
<1> DEFINE f == Forced(p)
           ff == FfTokensNow(p)
<1>1. /\ Mask(p) = MaskFrom(ComputeBias(f.chart, ff.prefix), f, ff)
      /\ WalkedMask(p) = MaskFrom(WalkTokens(f.chart, ff.prefix), f, ff)
  BY DEF Mask, MaskWith, WalkedMask, WalkedWith
<1>2. f \in FreshSessions /\ Known(f) /\ NoEos(f.llm_tokens)
  BY ForcedKnown
<1>3. ff.tokens = <<>> /\ CacheHit(f.chart, ff.prefix) => IsPrefix(bias_cache.text, f.bytes)
  BY DEF Abandoned, ServesAbandoned
<1> HIDE DEF f, ff
<1>4. CASE ff.tokens # <<>>
  BY <1>1, <1>4 DEF MaskFrom
<1>5. CASE ~CacheHit(f.chart, ff.prefix)
  BY <1>1, <1>5 DEF ComputeBias
<1>6. CASE ff.tokens = <<>> /\ CacheHit(f.chart, ff.prefix)
  <2> DEFINE text == bias_cache.text
             d == Fresh(f.bytes).chart
             e == Fresh(text).chart
  <2>1. /\ ff.prefix = <<>> /\ bias_cache # None /\ bias_cache.key = BiasKey(f.chart)
        /\ IsPrefix(text, f.bytes)
    BY <1>3, <1>6 DEF CacheHit
  <2>2. /\ text \in Bytes /\ Fresh(text).ok /\ BiasKey(f.chart) = BiasKey(e)
        /\ bias_cache.mask = WalkTokens(e, <<>>)
    BY <2>1 DEF BiasKept, Kept
  <2> HIDE DEF text
  <2>3. /\ f.bytes \in Bytes /\ Fresh(f.bytes).ok /\ Unbounded(d)
        /\ SameTexts(f.chart, d) /\ BiasKey(f.chart) = BiasKey(d)
    BY <1>2, ParserOf
  <2>4. Extends(d, e)
    BY <2>1, <2>2, <2>3, FreshPrefix
  <2>5. Unbounded(e)
    BY <2>2, FreshFacts DEF Unbounded, Fit, Bytes
  <2> HIDE DEF d, e
  <2>6. NumRows(d) = NumRows(e) /\ Top(d).lexer_state = Top(e).lexer_state
    BY <2>2, <2>3 DEF BiasKey
  <2>7. Alike(d, e)
    BY <2>4, <2>6 DEF Alike, Extends
  <2>8. SameTexts(d, e)
    BY <2>3, <2>5, <2>7, AllowsSame DEF SameTexts, Unbounded, Bytes
  <2>9. <<>> \in Bytes
    BY EmptySeq DEF Bytes
  <2>10. SameTexts(f.chart, e)
    BY <2>3, <2>8 DEF SameTexts
  <2>11. WalkTokens(f.chart, <<>>) = WalkTokens(e, <<>>)
    BY <2>9, <2>10, BiasSame
  <2>12. ComputeBias(f.chart, ff.prefix) = WalkTokens(f.chart, ff.prefix)
    BY <1>6, <2>1, <2>2, <2>11 DEF ComputeBias
  <2> QED BY <1>1, <2>12
<1> QED BY <1>4, <1>5, <1>6

(* What a rollback leaves is as good as a session that was only given the   *)
(* tokens left: that session takes them all, and allows the same tokens     *)
(* next, whatever had been forced, cached, stopped or flushed before.       *)
LEMMA UndoneWhenTold ==
  ASSUME SessionTold, BiasKept
  PROVE  RollbackIsUndo
<1> SUFFICES ASSUME ~Failed, ~Stopped(session)
             PROVE  /\ Replayed # MatcherError
                    /\ ~Abandoned => Mask(session) = WalkedMask(Replayed)
  BY DEF RollbackIsUndo, MaskedAs, Abandoned, Mask
<1> DEFINE canonical == session.tokenize_is_canonical
           ts == session.llm_tokens
           q == ConsumedUpTo(NewTokenParser(canonical), ts)[Len(ts)]
<1>1. session \in FreshSessions /\ Known(session) /\ NoEos(ts)
  BY NotFailedTold DEF Between
<1>2. q # MatcherError /\ Reading(q, ts, canonical)
  BY <1>1, ReplayFacts
<1>3. Replayed = q
  BY DEF Replayed
<1> HIDE DEF q
<1>4. q \in FreshSessions /\ Known(q) /\ q.llm_tokens = ts /\ q.tokenize_is_canonical = canonical
  BY <1>2 DEF Reading
<1>5. WalkedMask(q) = WalkedMask(session)
  BY <1>1, <1>4, MaskSame
<1>6. ~Abandoned => Mask(session) = WalkedMask(session)
  BY <1>1, MaskServed
<1> QED BY <1>2, <1>3, <1>5, <1>6

(* A session that is not gone knows its text, after any sequence of calls.  *)
LEMMA AlwaysTold ==
  ASSUME Tidy
  PROVE  Spec => []SessionTold
<1>1. Init => SessionTold
  BY SessionToldInit
<1>2. SessionTold /\ [Next]_vars => SessionTold'
  BY SessionToldNext
<1> QED BY <1>1, <1>2, PTL DEF Spec

(* Nor does it lose the mask of the text in its bias cache.                 *)
LEMMA AlwaysKept ==
  ASSUME Tidy
  PROVE  Spec => []BiasKept
<1>1. Init => SessionTold /\ BiasKept
  BY SessionToldInit DEF Init, BiasKept
<1>2. SessionTold /\ BiasKept /\ [Next]_vars => SessionTold' /\ BiasKept'
  BY SessionToldNext, BiasKeptNext
<1> QED BY <1>1, <1>2, PTL DEF Spec

(* Rolling back undoes, after any sequence of calls, when an end of         *)
(* sequence only ends a batch: "Rollback the last num_tokens consumed"      *)
(* (matcher.rs).  Only a mask that the bias cache has of the text given up  *)
(* may differ.                                                              *)
THEOREM RollbackUndoes ==
  ASSUME Tidy
  PROVE  Spec => []RollbackIsUndo
<1>1. Spec => []SessionTold
  BY AlwaysTold
<1>2. Spec => []BiasKept
  BY AlwaysKept
<1>3. SessionTold /\ BiasKept => RollbackIsUndo
  BY UndoneWhenTold
<1> QED BY <1>1, <1>2, <1>3, PTL

(* A walk from a new parser allows the tokens that it would accept.         *)
LEMMA WalkIs ==
  ASSUME NEW bs \in Bytes, Fresh(bs).ok, NEW c, c = Fresh(bs).chart
  PROVE  WalkTokens(c, <<>>) = {t \in Tokens : Fresh(bs \o t).ok}
<1>1. Unbounded(c) /\ Good(c)
  BY FreshFacts DEF Unbounded, Fit, Bytes
<1>2. Twin(c, Fresh(bs).chart)
  BY <1>1, TwinRefl DEF SameRows
<1>3. ASSUME NEW t \in Tokens
      PROVE  (\/ IsPrefix(t, <<>>)
              \/ IsPrefix(<<>>, t) /\ Allows(c, SubSeq(t, Len(<<>>) + 1, Len(t))))
             <=> Fresh(bs \o t).ok
  <2>1. t \in Bytes /\ t \in Seq(Byte) /\ t # <<>> /\ <<>> \in Seq(Byte)
    BY MatcherAssumption, EmptySeq DEF Bytes
  <2>2. Len(t) \in Nat /\ Len(t) # 0 /\ Len(<<>>) = 0
    BY <2>1, EmptySeq, LenProperties
  <2>3. ~IsPrefix(t, <<>>)
    <3>1. IsPrefix(t, <<>>) => Len(t) <= Len(<<>>)
      BY <2>1, PrefixIs
    <3> QED BY <2>2, <3>1
  <2>4. IsPrefix(<<>>, t)
    <3>1. Len(<<>>) <= Len(t) /\ \A k \in 1..Len(<<>>) : <<>>[k] = t[k]
      BY <2>2
    <3> QED BY <2>1, <3>1, PrefixIs
  <2>5. SubSeq(t, Len(<<>>) + 1, Len(t)) = t
    <3>1. Len(<<>>) + 1 = 1
      BY <2>2
    <3> QED BY <2>1, <3>1, WholeSeq
  <2>6. Allows(c, t) = Fresh(bs \o t).ok
    <3> HIDE DEF Unbounded
    <3> QED BY <1>1, <1>2, <2>1, AllowsText
  <2> QED BY <2>3, <2>4, <2>5, <2>6
<1> QED BY <1>3 DEF WalkTokens

(* Without a canonical tokenizer the mask is exact as far as the parser is: *)
(* a token is allowed if and only if a new parser would accept its bytes    *)
(* after those of the tokens, although bytes may have been forced ahead     *)
(* (compute_ff_bytes()) and the trie is then walked from beyond them with   *)
(* the forced bytes as the prefix that a token has to share (compute_bias() *)
(* of tokenparser.rs); and so is the end of the sequence.  If the bias      *)
(* cache still has the mask of a text that was given up, with the same key, *)
(* then the tokens allowed are those that may follow that text.             *)
MaskOfNewParser ==
  ~Failed /\ ~Stopped(session) /\ ~session.tokenize_is_canonical =>
    LET text == BytesOf(session.llm_tokens)
        walked == IF Abandoned THEN bias_cache.text ELSE text
    IN  Mask(session) = {t \in Tokens : Fresh(walked \o t).ok}
                          \cup (IF IsAccepting(Fresh(text).chart) THEN {EOS} ELSE {})

(* Between any calls, if an end of sequence only ends a batch, the mask is  *)
(* the one that compute_bias() would get from a new parser after the text,  *)
(* or, after a rollback, after the text of the bias cache.                  *)
THEOREM MaskFromText ==
  ASSUME Tidy
  PROVE  Spec => []MaskOfNewParser
<1>1. Spec => []SessionTold
  BY AlwaysTold
<1>2. Spec => []BiasKept
  BY AlwaysKept
<1>3. SessionTold /\ BiasKept => MaskOfNewParser
  <2> SUFFICES ASSUME SessionTold, BiasKept,
                      ~Failed, ~Stopped(session), ~session.tokenize_is_canonical
               PROVE  MaskOfNewParser
    BY DEF MaskOfNewParser
  <2> DEFINE text == BytesOf(session.llm_tokens)
             eos == IF IsAccepting(Fresh(text).chart) THEN {EOS} ELSE {}
  <2>1. session \in FreshSessions /\ Known(session) /\ NoEos(session.llm_tokens)
    BY NotFailedTold DEF Between
  <2>2. WalkedMask(session) = {t \in Tokens : Fresh(text \o t).ok} \cup eos
    BY <2>1, MaskOfText
  <2>3. CASE ~Abandoned
    <3>1. Mask(session) = WalkedMask(session)
      BY <2>1, <2>3, MaskServed
    <3> QED BY <2>2, <2>3, <3>1 DEF MaskOfNewParser
  <2>4. CASE Abandoned
    <3> DEFINE f == Forced(session)
               ff == FfTokensNow(session)
    <3>1. ff.tokens = <<>> /\ CacheHit(f.chart, ff.prefix)
      BY <2>4 DEF Abandoned, ServesAbandoned
    <3>2. Mask(session) = MaskFrom(ComputeBias(f.chart, ff.prefix), f, ff)
      BY DEF Mask, MaskWith
    <3>3. f = session
      BY DEF Forced
    <3>4. Accepting(session) = MayEnd(session)
      BY <2>1, AcceptingRight DEF FreshSessions, Cached
    <3>5. MayEnd(session) <=> IsAccepting(Fresh(text).chart)
      <4>1. Sane(session) /\ Told(session, text) /\ ~session.lexer_stack_top_eos
        BY <2>1 DEF FreshSessions, Known
      <4> HIDE DEF text
      <4> QED BY <4>1, EndAllowed
    <3> HIDE DEF f, ff
    <3>6. Mask(session) = bias_cache.mask \cup eos
      <4>1. ComputeBias(f.chart, ff.prefix) = bias_cache.mask
        BY <3>1 DEF ComputeBias
      <4> HIDE DEF text
      <4> QED BY <3>1, <3>2, <3>3, <3>4, <3>5, <4>1 DEF MaskFrom
    <3>7. bias_cache.mask = {t \in Tokens : Fresh(bias_cache.text \o t).ok}
      <4>1. Kept(bias_cache)
        BY <3>1 DEF CacheHit, BiasKept
      <4> QED BY <4>1, WalkIs DEF Kept
    <3> QED BY <2>4, <3>6, <3>7 DEF MaskOfNewParser
  <2> QED BY <2>3, <2>4
<1> QED BY <1>1, <1>2, <1>3, PTL

-----------------------------------------------------------------------------
(* What greedy_tokenize() finds when every byte is a token.                 *)

(* What is left of bs after its first n bytes; the longest token there.     *)
From(bs, n) == SubSeq(bs, n + 1, Len(bs))
Best(t, bs) ==
  /\ t \in Tokens /\ IsPrefix(t, bs)
  /\ \A u \in Tokens : IsPrefix(u, bs) => Len(u) <= Len(t)

(* ts are tokens that begin bs, each the longest at its place.              *)
Place(ts, k) == Len(FlattenSeq(SubSeq(ts, 1, k)))
Greedily(ts, bs) ==
  /\ ts \in Seq(Tokens) /\ IsPrefix(FlattenSeq(ts), bs)
  /\ \A i \in 1..Len(ts) : Best(ts[i], From(bs, Place(ts, i - 1)))

(* Tokens one after the other.                                              *)
LEMMA PlaceFacts ==
  ASSUME NEW ts \in Seq(Tokens), NEW k \in 0..Len(ts)
  PROVE  /\ SubSeq(ts, 1, k) \in Seq(Tokens) /\ FlattenSeq(SubSeq(ts, 1, k)) \in Bytes
         /\ Place(ts, k) \in Nat
         /\ k = Len(ts) => Place(ts, k) = Len(FlattenSeq(ts))
<1>1. Len(ts) \in Nat
  BY LenProperties
<1>2. SubSeq(ts, 1, k) \in Seq(Tokens)
  BY CutAt
<1>3. FlattenSeq(SubSeq(ts, 1, k)) \in Bytes
  BY <1>2, TokensAreBytes
<1>4. Len(FlattenSeq(SubSeq(ts, 1, k))) \in Nat
  BY <1>3, LenProperties DEF Bytes
<1>5. k = Len(ts) => SubSeq(ts, 1, k) = ts
  BY WholeSeq
<1> QED BY <1>2, <1>3, <1>4, <1>5 DEF Place

(* A token more.                                                            *)
LEMMA PlaceAppend ==
  ASSUME NEW ts \in Seq(Tokens), NEW t \in Tokens
  PROVE  /\ Append(ts, t) \in Seq(Tokens) /\ Len(Append(ts, t)) = Len(ts) + 1
         /\ FlattenSeq(Append(ts, t)) = FlattenSeq(ts) \o t
         /\ Append(ts, t)[Len(ts) + 1] = t
         /\ \A i \in 1..Len(ts) : Append(ts, t)[i] = ts[i]
         /\ \A k \in 0..Len(ts) : Place(Append(ts, t), k) = Place(ts, k)
<1> DEFINE us == Append(ts, t)
<1>1. /\ us \in Seq(Tokens) /\ Len(us) = Len(ts) + 1 /\ us[Len(ts) + 1] = t
      /\ \A i \in 1..Len(ts) : us[i] = ts[i]
      /\ Len(ts) \in Nat
  BY AppendProperties, LenProperties
<1>2. FlattenSeq(us) = FlattenSeq(ts) \o t
  <2>1. ts \in Seq(Bytes) /\ t \in Seq(Byte)
    BY TokensAreBytes, MatcherAssumption
  <2> QED BY <2>1, JoinAppend DEF Bytes
<1> HIDE DEF us
<1>3. ASSUME NEW k \in 0..Len(ts)
      PROVE  Place(us, k) = Place(ts, k)
  <2> DEFINE u == SubSeq(us, 1, k)
             v == SubSeq(ts, 1, k)
  <2>1. k \in 0..Len(us)
    BY <1>1
  <2>2. u \in Seq(Tokens) /\ Len(u) = k /\ \A i \in 1..k : u[i] = us[i]
    BY <1>1, <2>1, CutAt
  <2>3. v \in Seq(Tokens) /\ Len(v) = k /\ \A i \in 1..k : v[i] = ts[i]
    BY <1>1, CutAt
  <2> HIDE DEF u, v
  <2>4. \A i \in 1..Len(u) : u[i] = v[i]
    BY <1>1, <2>2, <2>3
  <2>5. u = v
    BY <2>2, <2>3, <2>4, SeqEqual
  <2> QED BY <2>5 DEF u, v, Place
<1> QED BY <1>1, <1>2, <1>3 DEF us

(* What is left of bs.                                                      *)
LEMMA FromFacts ==
  ASSUME NEW bs \in Bytes, NEW n \in 0..Len(bs)
  PROVE  /\ From(bs, n) \in Bytes /\ Len(From(bs, n)) = Len(bs) - n
         /\ \A i \in 1..(Len(bs) - n) : From(bs, n)[i] = bs[n + i]
         /\ SubSeq(bs, 1, n) \o From(bs, n) = bs
         /\ TokensAt(bs, n + 1) = {t \in Tokens : IsPrefix(t, From(bs, n))}
<1>1. bs \in Seq(Byte)
  BY DEF Bytes
<1> QED BY <1>1, CutAt DEF From, TokensAt, Bytes

(* More of the text is read when a token follows.                           *)
LEMMA PrefixOn ==
  ASSUME NEW a \in Bytes, NEW bs \in Bytes, IsPrefix(a, bs),
         NEW t \in Bytes, IsPrefix(t, From(bs, Len(a)))
  PROVE  IsPrefix(a \o t, bs) /\ Len(a \o t) = Len(a) + Len(t) /\ Len(a \o t) <= Len(bs)
<1> DEFINE n == Len(a)
           r == From(bs, n)
           c == a \o t
<1>1. n \in Nat /\ Len(bs) \in Nat /\ n \in 0..Len(bs) /\ \A i \in 1..n : a[i] = bs[i]
  BY LenProperties, PrefixIs DEF Bytes
<1>2. r \in Bytes /\ Len(r) = Len(bs) - n /\ \A i \in 1..(Len(bs) - n) : r[i] = bs[n + i]
  BY <1>1, FromFacts
<1>0. IsPrefix(t, r)
  OBVIOUS
<1> HIDE DEF r
<1>3. Len(t) \in Nat /\ Len(t) <= Len(r) /\ \A i \in 1..Len(t) : t[i] = r[i]
  BY <1>0, <1>2, LenProperties, PrefixIs DEF Bytes
<1>4. /\ c \in Bytes /\ Len(c) = n + Len(t)
      /\ \A i \in 1..(n + Len(t)) : c[i] = IF i <= n THEN a[i] ELSE t[i - n]
  BY ConcatProperties DEF Bytes
<1> HIDE DEF c
<1>5. \A i \in 1..Len(c) : c[i] = bs[i]
  <2>1. ASSUME NEW i \in 1..Len(c) PROVE c[i] = bs[i]
    <3>1. CASE i <= n
      BY <1>1, <1>3, <1>4, <3>1
    <3>2. CASE ~(i <= n)
      <4> DEFINE j == i - n
      <4>1. j \in 1..Len(t) /\ j \in 1..(Len(bs) - n) /\ n + j = i
        BY <1>1, <1>2, <1>3, <1>4, <3>2
      <4>2. c[i] = t[j]
        BY <1>1, <1>3, <1>4, <3>2
      <4> HIDE DEF j
      <4> QED BY <1>2, <1>3, <4>1, <4>2
    <3> QED BY <3>1, <3>2
  <2> QED BY <2>1
<1>6. Len(c) <= Len(bs)
  BY <1>1, <1>2, <1>3, <1>4
<1>7. IsPrefix(c, bs)
  BY <1>4, <1>5, <1>6, PrefixIs DEF Bytes
<1> QED BY <1>4, <1>6, <1>7 DEF c, n

(* Some token fits where bytes are left.                                    *)
LEMMA BestExists ==
  ASSUME BytesAreTokens, NEW bs \in Bytes, NEW n \in 0..Len(bs), n < Len(bs)
  PROVE  TokensAt(bs, n + 1) # {} /\ Best(Longest(TokensAt(bs, n + 1)), From(bs, n))
<1> DEFINE r == From(bs, n)
           here == TokensAt(bs, n + 1)
           u == <<bs[n + 1]>>
<1>1. Len(bs) \in Nat /\ n + 1 \in 1..Len(bs) /\ n + 1 \in Nat \ {0}
  BY LenProperties DEF Bytes
<1>2. bs[n + 1] \in Byte
  BY <1>1, ElementOfSeq DEF Bytes
<1>3. /\ r \in Bytes /\ Len(r) = Len(bs) - n /\ 1 \in 1..(Len(bs) - n)
      /\ \A i \in 1..(Len(bs) - n) : r[i] = bs[n + i]
      /\ here = {t \in Tokens : IsPrefix(t, r)}
  BY <1>1, FromFacts
<1> HIDE DEF r
<1>4. u \in Tokens
  BY <1>2 DEF BytesAreTokens
<1>5. u \in Bytes /\ Len(u) = 1 /\ u[1] = bs[n + 1]
  BY <1>2 DEF Bytes
<1> HIDE DEF u
<1>6. IsPrefix(u, r)
  <2>1. Len(u) <= Len(r) /\ \A i \in 1..Len(u) : u[i] = r[i]
    BY <1>1, <1>3, <1>5
  <2> QED BY <1>3, <1>5, <2>1, PrefixIs DEF Bytes
<1>7. here # {}
  BY <1>3, <1>4, <1>6
<1>8. Longest(here) \in here /\ \A v \in here : Len(v) <= Len(Longest(here))
  BY <1>1, <1>7, LongestTyped
<1> HIDE DEF here
<1> QED BY <1>3, <1>7, <1>8 DEF Best, r, here

(* A step of greedy_tokenize() reads on.                                    *)
Reads(r, bs) ==
  /\ r \in Found /\ Greedily(r.tokens, bs)
  /\ r.at = Len(FlattenSeq(r.tokens)) + 1

(* It reads on until everything is read.                                    *)
LEMMA ReadsOn ==
  ASSUME BytesAreTokens, NEW bs \in Bytes, NEW r, Reads(r, bs), NEW q, q = TokenizeOne(r, bs)
  PROVE  /\ Reads(q, bs)
         /\ IF r.at > Len(bs) THEN q = r ELSE q.at > r.at
<1> DEFINE ts == r.tokens
           a == FlattenSeq(ts)
           n == Len(a)
           t == Longest(TokensAt(bs, n + 1))
           us == Append(ts, t)
<1>1. /\ ts \in Seq(Tokens) /\ a \in Bytes /\ n \in Nat /\ Len(bs) \in Nat /\ IsPrefix(a, bs)
      /\ r.at = n + 1 /\ n <= Len(bs) /\ Len(ts) \in Nat /\ Place(ts, Len(ts)) = n
      /\ \A i \in 1..Len(ts) : Best(ts[i], From(bs, Place(ts, i - 1)))
  <2>1. ts \in Seq(Tokens) /\ IsPrefix(a, bs) /\ r.at = n + 1
    BY DEF Reads, Greedily
  <2>2. a \in Bytes
    BY <2>1, TokensAreBytes
  <2>3. n \in Nat /\ Len(bs) \in Nat /\ n <= Len(bs) /\ Len(ts) \in Nat
    BY <2>1, <2>2, PrefixIs, LenProperties DEF Bytes
  <2>4. Place(ts, Len(ts)) = n
    <3>1. Len(ts) \in 0..Len(ts)
      BY <2>3
    <3> QED BY <2>1, <3>1, PlaceFacts
  <2> QED BY <2>1, <2>2, <2>3, <2>4 DEF Reads, Greedily
<1>2. CASE r.at > Len(bs)
  BY <1>2 DEF TokenizeOne
<1>3. CASE ~(r.at > Len(bs))
  <2>1. n \in 0..Len(bs) /\ n < Len(bs)
    BY <1>1, <1>3
  <2> HIDE DEF n
  <2>2. TokensAt(bs, n + 1) # {} /\ Best(t, From(bs, n))
    BY <2>1, BestExists
  <2>3. q = [tokens |-> us, at |-> r.at + Len(t)]
    BY <1>1, <1>3, <2>2 DEF TokenizeOne
  <2> HIDE DEF t
  <2>4. t \in Tokens /\ t \in Bytes /\ Len(t) \in Nat /\ Len(t) > 0 /\ IsPrefix(t, From(bs, n))
    <3>1. t \in Seq(Byte) /\ t # <<>> /\ t \in Tokens
      BY <2>2, MatcherAssumption DEF Best
    <3>2. Len(t) \in Nat /\ Len(t) # 0
      BY <3>1, LenProperties, EmptySeq
    <3> QED BY <2>2, <3>1, <3>2 DEF Best, Bytes
  <2>5. /\ us \in Seq(Tokens) /\ Len(us) = Len(ts) + 1 /\ FlattenSeq(us) = a \o t
        /\ us[Len(ts) + 1] = t /\ \A i \in 1..Len(ts) : us[i] = ts[i]
        /\ \A k \in 0..Len(ts) : Place(us, k) = Place(ts, k)
    BY <1>1, <2>4, PlaceAppend
  <2> HIDE DEF us, a, ts
  <2>6. IsPrefix(a \o t, bs) /\ Len(a \o t) = n + Len(t)
    BY <1>1, <2>4, PrefixOn DEF n
  <2>7. ASSUME NEW i \in 1..Len(us) PROVE Best(us[i], From(bs, Place(us, i - 1)))
    <3>1. i - 1 \in 0..Len(ts)
      BY <1>1, <2>5
    <3>2. CASE i \in 1..Len(ts)
      BY <1>1, <2>5, <3>1, <3>2
    <3>3. CASE i = Len(ts) + 1
      <4>1. i - 1 = Len(ts) /\ us[i] = t
        BY <1>1, <2>5, <3>3
      <4>2. Place(us, i - 1) = n
        BY <1>1, <2>5, <3>1, <4>1
      <4> QED BY <2>2, <4>1, <4>2
    <3> QED BY <1>1, <2>5, <3>2, <3>3
  <2>8. Greedily(us, bs)
    BY <2>5, <2>6, <2>7 DEF Greedily
  <2>9. q \in Found
    BY <1>1, <2>3, <2>4, <2>5 DEF Found
  <2>10. q.tokens = us /\ q.at = n + Len(t) + 1 /\ Len(FlattenSeq(us)) = n + Len(t)
    BY <1>1, <2>3, <2>4, <2>5, <2>6
  <2>11. Reads(q, bs)
    BY <2>8, <2>9, <2>10 DEF Reads
  <2>12. q.at > r.at
    BY <1>1, <2>4, <2>10
  <2> QED BY <1>3, <2>11, <2>12
<1> QED BY <1>2, <1>3

(* greedy_tokenize() reads all the bytes, the longest token at each place.  *)
LEMMA GreedyIs ==
  ASSUME BytesAreTokens, NEW bs \in Bytes
  PROVE  Greedily(GreedyTokenize(bs), bs) /\ FlattenSeq(GreedyTokenize(bs)) = bs
<1> DEFINE f == TokenizedUpTo(bs)
           N == Len(bs)
           Fine == {k \in Nat : Reads(f[k], bs) /\ (f[k].at > N \/ f[k].at > k)}
<1>1. /\ N \in Nat /\ f[0] = [tokens |-> <<>>, at |-> 1]
      /\ \A k \in 1..N : f[k] = TokenizeOne(f[k - 1], bs)
  BY TokenizedSteps, LenProperties DEF Bytes
<1> HIDE DEF f
<1>2. 0 \in Fine
  <2>1. <<>> \in Seq(Tokens) /\ Len(<<>>) = 0 /\ FlattenSeq(<<>>) = <<>>
    BY EmptySeq, JoinNone
  <2>2. <<>> \in Seq(Byte) /\ bs \in Seq(Byte) /\ Len(<<>>) <= Len(bs)
    BY <1>1, EmptySeq DEF Bytes
  <2>3. IsPrefix(<<>>, bs)
    BY <2>2, PrefixIs, \A i \in 1..0 : FALSE
  <2>4. Greedily(<<>>, bs)
    BY <2>1, <2>3 DEF Greedily
  <2>5. Reads(f[0], bs)
    BY <1>1, <2>1, <2>4 DEF Reads, Found
  <2> QED BY <1>1, <2>5
<1>3. ASSUME NEW k \in 0..(N - 1), k \in Fine PROVE k + 1 \in Fine
  <2>1. k + 1 \in 1..N /\ (k + 1) - 1 = k /\ k \in Nat
    BY <1>1
  <2>2. f[k + 1] = TokenizeOne(f[k], bs)
    BY <1>1, <2>1
  <2>3. Reads(f[k], bs) /\ (f[k].at > N \/ f[k].at > k)
    BY <1>3
  <2>4. Reads(f[k + 1], bs) /\ IF f[k].at > N THEN f[k + 1] = f[k] ELSE f[k + 1].at > f[k].at
    BY <2>2, <2>3, ReadsOn
  <2>5. f[k].at \in Nat /\ f[k + 1].at \in Nat
    BY <2>3, <2>4 DEF Reads, Found
  <2> QED BY <1>1, <2>1, <2>3, <2>4, <2>5
<1>4. N \in Fine
  <2>1. N \in 0..N
    BY <1>1
  <2> HIDE DEF Fine, N
  <2>2. \A k \in 0..N : k \in Fine
    BY <1>1, <1>2, <1>3, UpTo
  <2> QED BY <2>1, <2>2
<1> DEFINE ts == GreedyTokenize(bs)
<1>5. ts = f[N].tokens
  BY DEF GreedyTokenize, f
<1>6. Reads(f[N], bs) /\ f[N].at > N
  BY <1>4
<1>7. Greedily(ts, bs) /\ Len(FlattenSeq(ts)) + 1 > N
  BY <1>5, <1>6 DEF Reads
<1> HIDE DEF ts
<1>8. FlattenSeq(ts) = bs
  <2> DEFINE a == FlattenSeq(ts)
  <2>1. a \in Bytes /\ IsPrefix(a, bs)
    BY <1>7, TokensAreBytes DEF Greedily
  <2>2. Len(a) + 1 > N
    BY <1>7
  <2> HIDE DEF a
  <2>3. Len(a) \in Nat /\ Len(a) <= Len(bs) /\ \A i \in 1..Len(a) : a[i] = bs[i]
    BY <2>1, PrefixIs, LenProperties DEF Bytes
  <2>4. Len(a) = Len(bs)
    BY <1>1, <2>2, <2>3
  <2>5. a = bs
    BY <2>1, <2>3, <2>4, SeqEqual DEF Bytes
  <2> QED BY <2>5 DEF a
<1> QED BY <1>7, <1>8 DEF ts

(* Two tokens that are longest at a place are the same.                     *)
LEMMA BestOne ==
  ASSUME NEW bs \in Bytes, NEW t, Best(t, bs), NEW u, Best(u, bs)
  PROVE  t = u
<1>1. t \in Seq(Byte) /\ u \in Seq(Byte) /\ bs \in Seq(Byte)
  BY MatcherAssumption DEF Best, Bytes
<1>2. Len(t) \in Nat /\ Len(u) \in Nat /\ Len(t) <= Len(u) /\ Len(u) <= Len(t)
  BY <1>1, LenProperties DEF Best
<1>3. \A i \in 1..Len(t) : t[i] = u[i]
  <2>1. /\ \A i \in 1..Len(t) : t[i] = bs[i]
        /\ \A i \in 1..Len(u) : u[i] = bs[i]
    BY <1>1, PrefixIs DEF Best
  <2> QED BY <1>2, <2>1
<1> QED BY <1>1, <1>2, <1>3, SeqEqual

(* A token that is longest where more follows is longest without it, if it  *)
(* fits; and what fits where less follows fits where more does.             *)
LEMMA BestShorter ==
  ASSUME NEW bs \in Bytes, NEW a \in Bytes, IsPrefix(a, bs), NEW t, Best(t, bs)
  PROVE  /\ Len(t) <= Len(a) => Best(t, a)
         /\ ~(Len(t) <= Len(a)) => IsPrefix(a, t) /\ Len(a) < Len(t)
<1>1. t \in Seq(Byte) /\ a \in Seq(Byte) /\ bs \in Seq(Byte) /\ t \in Tokens
  BY MatcherAssumption DEF Best, Bytes
<1>2. /\ Len(t) \in Nat /\ Len(a) \in Nat /\ Len(bs) \in Nat
      /\ Len(a) <= Len(bs) /\ Len(t) <= Len(bs)
      /\ \A i \in 1..Len(a) : a[i] = bs[i]
      /\ \A i \in 1..Len(t) : t[i] = bs[i]
  BY <1>1, LenProperties, PrefixIs DEF Best
<1>3. ASSUME Len(t) <= Len(a) PROVE Best(t, a)
  <2>1. IsPrefix(t, a)
    <3>1. \A i \in 1..Len(t) : t[i] = a[i]
      BY <1>2, <1>3
    <3> QED BY <1>1, <1>3, <3>1, PrefixIs
  <2>2. ASSUME NEW u \in Tokens, IsPrefix(u, a) PROVE Len(u) <= Len(t)
    <3>1. u \in Seq(Byte) /\ Len(u) \in Nat
      BY MatcherAssumption, LenProperties
    <3>2. Len(u) <= Len(a) /\ \A i \in 1..Len(u) : u[i] = a[i]
      BY <1>1, <2>2, <3>1, PrefixIs
    <3>3. Len(u) <= Len(bs) /\ \A i \in 1..Len(u) : u[i] = bs[i]
      BY <1>2, <3>1, <3>2
    <3>4. IsPrefix(u, bs)
      BY <1>1, <3>1, <3>3, PrefixIs
    <3> QED BY <3>4 DEF Best
  <2> QED BY <1>1, <2>1, <2>2 DEF Best
<1>4. ASSUME ~(Len(t) <= Len(a)) PROVE IsPrefix(a, t) /\ Len(a) < Len(t)
  <2>1. Len(a) <= Len(t) /\ \A i \in 1..Len(a) : a[i] = t[i]
    BY <1>2, <1>4
  <2> QED BY <1>1, <1>2, <1>4, <2>1, PrefixIs
<1> QED BY <1>3, <1>4

(* Two divisions into longest tokens agree as far as both go.               *)
LEMMA GreedyAgree ==
  ASSUME NEW bs \in Bytes, NEW ts, Greedily(ts, bs), NEW us, Greedily(us, bs)
  PROVE  \A k \in 0..Len(ts) : k <= Len(us) => SubSeq(us, 1, k) = SubSeq(ts, 1, k)
<1> DEFINE N == IF Len(ts) <= Len(us) THEN Len(ts) ELSE Len(us)
           Same == {k \in Nat : SubSeq(us, 1, k) = SubSeq(ts, 1, k)}
<1>1. /\ ts \in Seq(Tokens) /\ us \in Seq(Tokens) /\ Len(ts) \in Nat /\ Len(us) \in Nat
      /\ N \in Nat /\ N <= Len(ts) /\ N <= Len(us)
      /\ \A k \in 0..Len(ts) : k <= Len(us) => k \in 0..N
  <2>1. ts \in Seq(Tokens) /\ us \in Seq(Tokens)
    BY DEF Greedily
  <2>2. Len(ts) \in Nat /\ Len(us) \in Nat
    BY <2>1, LenProperties
  <2> QED BY <2>1, <2>2
<1> HIDE DEF N
<1>2. 0 \in Same
  <2>1. SubSeq(us, 1, 0) = <<>> /\ SubSeq(ts, 1, 0) = <<>>
    <3>1. 0 \in 0..Len(us) /\ 0 \in 0..Len(ts)
      BY <1>1
    <3>2. /\ SubSeq(us, 1, 0) \in Seq(Tokens) /\ Len(SubSeq(us, 1, 0)) = 0
          /\ SubSeq(ts, 1, 0) \in Seq(Tokens) /\ Len(SubSeq(ts, 1, 0)) = 0
      BY <1>1, <3>1, CutAt
    <3> QED BY <3>2, EmptySeq
  <2> QED BY <2>1
<1>3. ASSUME NEW k \in 0..(N - 1), k \in Same PROVE k + 1 \in Same
  <2>1. /\ k \in 0..(Len(ts) - 1) /\ k \in 0..(Len(us) - 1) /\ k + 1 \in Nat
        /\ k + 1 \in 1..Len(ts) /\ k + 1 \in 1..Len(us) /\ (k + 1) - 1 = k
    BY <1>1
  <2>2. SubSeq(us, 1, k) = SubSeq(ts, 1, k)
    BY <1>3
  <2>3. Place(us, k) = Place(ts, k)
    BY <2>2 DEF Place
  <2>4. Best(ts[k + 1], From(bs, Place(ts, k))) /\ Best(us[k + 1], From(bs, Place(us, k)))
    BY <2>1 DEF Greedily
  <2>5. From(bs, Place(ts, k)) \in Bytes
    <3>1. Place(ts, k) \in Nat
      BY <1>1, <2>1, PlaceFacts
    <3>2. Len(bs) \in Nat /\ \A i \in (Place(ts, k) + 1)..Len(bs) : bs[i] \in Byte
      BY <3>1, LenProperties, ElementOfSeq DEF Bytes
    <3> QED BY <3>1, <3>2, SubSeqProperties DEF From, Bytes
  <2>6. us[k + 1] = ts[k + 1]
    BY <2>3, <2>4, <2>5, BestOne
  <2>7. /\ SubSeq(us, 1, k + 1) = Append(SubSeq(us, 1, k), us[k + 1])
        /\ SubSeq(ts, 1, k + 1) = Append(SubSeq(ts, 1, k), ts[k + 1])
    BY <1>1, <2>1, CutNext
  <2> QED BY <2>1, <2>2, <2>6, <2>7
<1>4. \A k \in 0..N : k \in Same
  <2> HIDE DEF Same
  <2> QED BY <1>1, <1>2, <1>3, UpTo
<1> QED BY <1>1, <1>4

(* A division of all the bytes is not continued by another.                 *)
LEMMA GreedyFarthest ==
  ASSUME NEW bs \in Bytes, NEW ts, Greedily(ts, bs), FlattenSeq(ts) = bs,
         NEW us, Greedily(us, bs)
  PROVE  Len(us) <= Len(ts)
<1> SUFFICES ASSUME ~(Len(us) <= Len(ts)) PROVE FALSE
  OBVIOUS
<1>1. /\ ts \in Seq(Tokens) /\ us \in Seq(Tokens) /\ Len(ts) \in Nat /\ Len(us) \in Nat
  <2>1. ts \in Seq(Tokens) /\ us \in Seq(Tokens)
    BY DEF Greedily
  <2> QED BY <2>1, LenProperties
<1> DEFINE n == Len(ts)
<1>2. n \in 0..n /\ n <= Len(us) /\ n + 1 \in 1..Len(us) /\ (n + 1) - 1 = n
  BY <1>1
<1>3. SubSeq(us, 1, n) = ts
  <2>1. SubSeq(us, 1, n) = SubSeq(ts, 1, n)
    BY <1>2, GreedyAgree
  <2> QED BY <1>1, <2>1, WholeSeq
<1>4. Place(us, n) = Len(bs)
  BY <1>3 DEF Place
<1>5. Best(us[n + 1], From(bs, Len(bs)))
  BY <1>2, <1>4 DEF Greedily
<1>6. Len(bs) \in 0..Len(bs) /\ Len(bs) \in Nat
  BY LenProperties DEF Bytes
<1>7. From(bs, Len(bs)) \in Bytes /\ Len(From(bs, Len(bs))) = 0
  BY <1>6, FromFacts
<1> DEFINE t == us[n + 1]
<1>8. t \in Seq(Byte) /\ t # <<>> /\ IsPrefix(t, From(bs, Len(bs)))
  BY <1>5, MatcherAssumption DEF Best
<1>9. Len(t) \in Nat /\ Len(t) # 0
  BY <1>8, LenProperties, EmptySeq
<1>10. Len(t) <= 0
  BY <1>7, <1>8, PrefixIs DEF Bytes
<1> QED BY <1>9, <1>10

(* There is one division of all the bytes into longest tokens.              *)
LEMMA GreedyOne ==
  ASSUME NEW bs \in Bytes, NEW ts, Greedily(ts, bs), FlattenSeq(ts) = bs,
         NEW us, Greedily(us, bs), FlattenSeq(us) = bs
  PROVE  us = ts
<1>1. /\ ts \in Seq(Tokens) /\ us \in Seq(Tokens) /\ Len(ts) \in Nat /\ Len(us) \in Nat
  <2>1. ts \in Seq(Tokens) /\ us \in Seq(Tokens)
    BY DEF Greedily
  <2> QED BY <2>1, LenProperties
<1>2. Len(us) <= Len(ts) /\ Len(ts) <= Len(us)
  BY GreedyFarthest
<1>3. Len(us) = Len(ts) /\ Len(ts) \in 0..Len(ts)
  BY <1>1, <1>2
<1>4. SubSeq(us, 1, Len(ts)) = SubSeq(ts, 1, Len(ts))
  BY <1>2, <1>3, GreedyAgree
<1> QED BY <1>1, <1>3, <1>4, WholeSeq

(* What follows some of the tokens is a division of what follows their      *)
(* bytes.                                                                   *)
LEMMA GreedyRest ==
  ASSUME NEW ts \in Seq(Tokens), NEW us \in Seq(Tokens), NEW bs \in Bytes,
         NEW all, all = FlattenSeq(ts) \o bs,
         Greedily(ts \o us, all), FlattenSeq(ts \o us) = all
  PROVE  Greedily(us, bs) /\ FlattenSeq(us) = bs
<1> DEFINE a == FlattenSeq(ts)
           vs == ts \o us
           n == Len(ts)
<1>1. /\ a \in Bytes /\ FlattenSeq(us) \in Bytes
      /\ ts \in Seq(Bytes) /\ us \in Seq(Bytes)
  BY TokensAreBytes
<1>2. /\ vs \in Seq(Tokens) /\ n \in Nat /\ Len(us) \in Nat /\ Len(vs) = n + Len(us)
      /\ \A i \in 1..(n + Len(us)) : vs[i] = IF i <= n THEN ts[i] ELSE us[i - n]
  BY ConcatProperties, LenProperties
<1>3. FlattenSeq(vs) = a \o FlattenSeq(us)
  BY <1>1, JoinConcat DEF Bytes
<1>4. FlattenSeq(us) = bs
  <2>0. a \in Seq(Byte) /\ bs \in Seq(Byte) /\ FlattenSeq(us) \in Seq(Byte)
    BY <1>1 DEF Bytes
  <2>1. a \o FlattenSeq(us) = a \o bs
    BY <1>3
  <2> HIDE DEF a
  <2>2. /\ SubSeq(a \o bs, Len(a) + 1, Len(a \o bs)) = bs
        /\ SubSeq(a \o FlattenSeq(us), Len(a) + 1, Len(a \o FlattenSeq(us))) = FlattenSeq(us)
    BY <2>0, CutOfConcat
  <2> QED BY <2>1, <2>2
<1>5. ASSUME NEW i \in 1..Len(us) PROVE Best(us[i], From(bs, Place(us, i - 1)))
  <2>1. /\ i - 1 \in 0..Len(us) /\ n + i \in 1..Len(vs) /\ n + i \in 1..(n + Len(us))
        /\ ~(n + i <= n) /\ (n + i) - n = i /\ (n + i) - 1 = n + (i - 1)
    BY <1>2
  <2> DEFINE j == i - 1
             u == SubSeq(us, 1, j)
  <2>2. vs[n + i] = us[i]
    BY <1>2, <2>1
  <2>3. SubSeq(vs, 1, n + j) = ts \o u
    BY <2>1, CutBeyond
  <2>4. u \in Seq(Tokens) /\ FlattenSeq(u) \in Bytes /\ Place(us, j) \in Nat
    BY <2>1, PlaceFacts
  <2>5. u \in Seq(Bytes)
    BY <2>4, TokensAreBytes
  <2>6. FlattenSeq(ts \o u) = a \o FlattenSeq(u)
    BY <1>1, <2>5, JoinConcat DEF Bytes
  <2> HIDE DEF a, u, vs, n
  <2>7. Place(vs, n + j) = Len(a) + Place(us, j)
    <3>1. Len(a \o FlattenSeq(u)) = Len(a) + Len(FlattenSeq(u))
      BY <1>1, <2>4, ConcatProperties DEF Bytes
    <3> QED BY <2>3, <2>6, <3>1 DEF Place, u
  <2>8. Best(vs[n + i], From(all, Place(vs, n + j)))
    <3>1. Best(vs[n + i], From(all, Place(vs, (n + i) - 1)))
      BY <2>1 DEF Greedily, vs
    <3> QED BY <2>1, <3>1
  <2>9. Place(us, j) \in 0..Len(bs)
    <3> DEFINE x == FlattenSeq(u)
    <3>2. us = u \o SubSeq(us, j + 1, Len(us)) /\ SubSeq(us, j + 1, Len(us)) \in Seq(Tokens)
      BY <2>1, CutAt DEF u
    <3> DEFINE v == SubSeq(us, j + 1, Len(us))
    <3>3. v \in Seq(Bytes) /\ FlattenSeq(v) \in Bytes
      BY <3>2, TokensAreBytes
    <3>4. bs = FlattenSeq(u) \o FlattenSeq(v)
      BY <1>4, <2>5, <3>2, <3>3, JoinConcat DEF Bytes
    <3> HIDE DEF v
    <3>5. Len(bs) = Len(FlattenSeq(u)) + Len(FlattenSeq(v)) /\ Len(FlattenSeq(v)) \in Nat
      BY <2>4, <3>3, <3>4, ConcatProperties, LenProperties DEF Bytes
    <3> QED BY <2>4, <3>5 DEF Place, u
  <2>10. From(all, Len(a) + Place(us, j)) = From(bs, Place(us, j))
    <3> DEFINE m == Place(us, j)
    <3>1. a \in Seq(Byte) /\ bs \in Seq(Byte) /\ m \in 0..Len(bs)
      BY <1>1, <2>9 DEF Bytes
    <3>2. all = a \o bs
      BY DEF a
    <3> HIDE DEF m
    <3>3. SubSeq(a \o bs, Len(a) + m + 1, Len(a \o bs)) = SubSeq(bs, m + 1, Len(bs))
      BY <3>1, CutBeyond
    <3> QED BY <3>2, <3>3 DEF From, m
  <2> QED BY <2>2, <2>7, <2>8, <2>10
<1>6. IsPrefix(bs, bs)
  <2>1. bs \in Seq(Byte) /\ Len(bs) \in Nat
    BY LenProperties DEF Bytes
  <2> QED BY <2>1, PrefixIs
<1> QED BY <1>4, <1>5, <1>6 DEF Greedily

(* The forced tokens, before some are chopped, are the forced bytes divided *)
(* into longest tokens, whatever the last token is.                         *)
LEMMA FreshOfIs ==
  ASSUME BytesAreTokens, NEW p, p.llm_tokens \in Texts, ForcedBytes(p) \in Bytes
  PROVE  FreshOf(p) = GreedyTokenize(ForcedBytes(p))
<1> DEFINE last == LastToken(p)
           forced == ForcedBytes(p)
           all == FlattenSeq(last) \o forced
           joined == GreedyTokenize(all)
           fresh == SubSeq(joined, Len(last) + 1, Len(joined))
<1>1. last \in Seq(Tokens) /\ FlattenSeq(last) \in Bytes
  BY LastTokenTyped, TokensAreBytes
<1>2. all \in Bytes
  BY <1>1, ConcatProperties DEF Bytes
<1>3. Greedily(joined, all) /\ FlattenSeq(joined) = all
  BY <1>2, GreedyIs
<1>4. joined \in Seq(Tokens)
  BY <1>3 DEF Greedily
<1>5. FreshOf(p) = IF IsPrefix(last, joined) THEN fresh ELSE GreedyTokenize(forced)
  BY DEF FreshOf, FreshTokens
<1>6. ASSUME IsPrefix(last, joined) PROVE fresh = GreedyTokenize(forced)
  <2> HIDE DEF last, joined
  <2>1. last \o fresh = joined /\ Len(last) <= Len(joined)
    BY <1>1, <1>4, <1>6, PrefixIs
  <2>2. fresh \in Seq(Tokens)
    <3>1. Len(last) \in 0..Len(joined)
      BY <1>1, <1>4, <2>1, LenProperties
    <3> QED BY <1>4, <3>1, CutAt
  <2> HIDE DEF fresh, all, forced
  <2>3. Greedily(fresh, forced) /\ FlattenSeq(fresh) = forced
    <3>1. forced \in Bytes /\ all = FlattenSeq(last) \o forced
      BY DEF forced, all
    <3> QED BY <1>1, <1>3, <2>1, <2>2, <3>1, GreedyRest
  <2>4. Greedily(GreedyTokenize(forced), forced) /\ FlattenSeq(GreedyTokenize(forced)) = forced
    BY GreedyIs DEF forced
  <2> QED BY <2>3, <2>4, GreedyOne DEF forced
<1> QED BY <1>5, <1>6

-----------------------------------------------------------------------------
(* What the session is told of the grammar.                                 *)

(* The sequences of Session are read the same way.                          *)
LEMMA PromiseWords ==
  ASSUME NEW ts, NEW us
  PROVE  /\ Promise!FlattenSeq(ts) = FlattenSeq(ts)
         /\ Promise!Last(ts) = Last(ts)
         /\ Promise!IsStrictPrefix(ts, us) <=> IsStrictPrefix(ts, us)
<1>1. Promise!FlattenSeq(ts) = FlattenSeq(ts)
  BY Zenon DEF Promise!FlattenSeq, FlattenSeq
<1>2. Promise!Last(ts) = Last(ts)
  BY DEF Promise!Last, Last
<1>3. Promise!IsPrefix(ts, us) <=> IsPrefix(ts, us)
  BY DEF Promise!IsPrefix, IsPrefix
<1>4. Promise!IsStrictPrefix(ts, us) <=> IsStrictPrefix(ts, us)
  BY <1>3 DEF Promise!IsStrictPrefix, IsStrictPrefix
<1> QED BY <1>1, <1>2, <1>4

(* A text has the same bytes for Session.                                   *)
LEMMA PromiseBytes ==
  ASSUME NEW ts
  PROVE  Promise!BytesOf(ts) = BytesOf(ts)
BY PromiseWords, Zenon DEF Promise!BytesOf, BytesOf

(* Texts of tokens that the hypotheses are about.                           *)
LEMMA ReadableIs ==
  ASSUME NEW ts \in Texts, NoEos(ts), Len(ts) <= MaxTokensTotal + 1
  PROVE  ts \in Readable /\ ts \in Seq(Tokens)
<1>1. Len(ts) \in Nat /\ \A i \in 1..Len(ts) : ts[i] \in Tokens \cup {EOS}
  BY LenProperties, ElementOfSeq DEF Texts
<1>2. ts \in [1..Len(ts) -> Tokens]
  <2>1. ts \in [1..Len(ts) -> Tokens \cup {EOS}]
    BY LenProperties DEF Texts
  <2>2. \A i \in 1..Len(ts) : ts[i] \in Tokens
    BY <1>1 DEF NoEos
  <2> QED BY <2>1, <2>2
<1>3. Len(ts) \in 0..MaxTokensTotal + 1
  BY <1>1, MatcherAssumption
<1>4. ts \in Seq(Tokens)
  BY <1>1, <1>2, FunctionIsSequence
<1> QED BY <1>2, <1>3, <1>4 DEF Readable

(* Some of a text without an end of sequence.                               *)
Short(ts) == ts \in Texts /\ NoEos(ts) /\ Len(ts) <= MaxTokensTotal

(* The parser accepts what words begin with, it is accepting where they     *)
(* end, and can advance where they go on.                                   *)
LEMMA Decided ==
  ASSUME ParserDecides, NEW ts \in Texts, NoEos(ts), Len(ts) <= MaxTokensTotal + 1,
         NEW bs, bs = BytesOf(ts)
  PROVE  /\ Fresh(bs).ok <=> bs \in ViablePrefixes
         /\ Fresh(bs).ok /\ IsAccepting(Fresh(bs).chart) <=> bs \in Words
         /\ bs \in Words => (CanAdvance(Fresh(bs).chart) <=> Promise!Extensible(bs))
<1>1. ts \in Readable
  BY ReadableIs
<1> QED BY <1>1 DEF ParserDecides

(* A token may follow if a new parser accepts it, an end of sequence if it  *)
(* is then accepting.                                                       *)
LEMMA MayIs ==
  ASSUME ParserDecides, NEW ts, Short(ts), NEW bs, bs = BytesOf(ts)
  PROVE  /\ \A t \in Tokens : Promise!May(ts, t) <=> Fresh(bs \o t).ok
         /\ Promise!May(ts, EOS) <=> Fresh(bs).ok /\ IsAccepting(Fresh(bs).chart)
         /\ Promise!May(ts, EOS) <=> bs \in Words
<1>1. ts \in Texts /\ NoEos(ts) /\ Len(ts) <= MaxTokensTotal /\ Len(ts) \in Nat
      /\ Len(ts) <= MaxTokensTotal + 1
  BY LenProperties, MatcherAssumption DEF Short, Texts
<1>2. Promise!May(ts, EOS) <=> bs \in Words
  BY PromiseBytes DEF Promise!May
<1>3. bs \in Words <=> Fresh(bs).ok /\ IsAccepting(Fresh(bs).chart)
  BY <1>1, Decided
<1>4. ASSUME NEW t \in Tokens PROVE Promise!May(ts, t) <=> Fresh(bs \o t).ok
  <2>1. t # EOS /\ t \in Tokens \cup {EOS}
    BY MatcherAssumption
  <2>2. /\ Append(ts, t) \in Texts /\ Len(Append(ts, t)) = Len(ts) + 1
        /\ BytesOf(Append(ts, t)) = bs \o t
    BY <1>1, <2>1, BytesOfAppend DEF Piece
  <2>3. NoEos(Append(ts, t))
    BY <1>1, <2>1, EosAppend
  <2>4. Len(Append(ts, t)) <= MaxTokensTotal + 1
    BY <1>1, <2>2, MatcherAssumption
  <2>5. Fresh(bs \o t).ok <=> bs \o t \in ViablePrefixes
    BY <2>2, <2>3, <2>4, Decided
  <2>6. Promise!May(ts, t) <=> bs \o t \in ViablePrefixes
    BY <2>1, PromiseBytes DEF Promise!May
  <2> QED BY <2>5, <2>6
<1> QED BY <1>2, <1>3, <1>4

(* A session that has not failed holds a text that can be read.             *)
LEMMA KnownText ==
  ASSUME NEW p \in FreshSessions, Known(p), NEW bs, bs = BytesOf(p.llm_tokens)
  PROVE  /\ Sane(p) /\ Cached(p) /\ Told(p, bs) /\ bs \in Bytes
         /\ p.llm_tokens \in Texts /\ Len(p.llm_tokens) <= MaxTokensTotal
         /\ p.max_tokens_total = MaxTokensTotal - Len(p.llm_tokens)
         /\ p.bytes \in Bytes /\ p.bytes = bs \o ForcedBytes(p)
         /\ Fresh(bs).ok /\ Fresh(p.bytes).ok
         /\ NoEos(p.llm_tokens) => Short(p.llm_tokens) /\ ~p.lexer_stack_top_eos
<1>1. Sane(p) /\ Cached(p) /\ Told(p, bs)
  BY DEF FreshSessions, Known
<1>2. /\ p.bytes \in Bytes /\ p.llm_tokens \in Texts /\ Len(p.llm_tokens) \in Nat
      /\ p.max_tokens_total \in Nat /\ MaxTokensTotal \in Nat
  BY <1>1, SaneParts
<1>3. Len(p.llm_tokens) <= MaxTokensTotal
      /\ p.max_tokens_total = MaxTokensTotal - Len(p.llm_tokens)
  <2>1. p.max_tokens_total + Len(p.llm_tokens) = MaxTokensTotal
    BY <1>1 DEF Sane
  <2> QED BY <1>2, <2>1
<1>4. bs \in Bytes /\ p.bytes = bs \o ForcedBytes(p)
  BY <1>1, AppliedIs
<1>5. Fresh(p.bytes).ok
  BY <1>1 DEF Told
<1>6. ForcedBytes(p) \in Bytes
  BY <1>1, ForcedBytesAre
<1>7. Fresh(bs).ok
  BY <1>4, <1>5, <1>6, FreshBegin
<1>8. NoEos(p.llm_tokens) => Short(p.llm_tokens) /\ ~p.lexer_stack_top_eos
  BY <1>2, <1>3 DEF Short, Known
<1> QED BY <1>1, <1>2, <1>3, <1>4, <1>5, <1>7, <1>8

(* A text that an end of sequence ends.                                     *)
LEMMA EosTaken ==
  ASSUME NEW ts \in Texts, EosLast(ts), ~NoEos(ts)
  PROVE  /\ ts # <<>> /\ Last(ts) = EOS
         /\ \E us \in Texts : /\ NoEos(us) /\ Len(us) + 1 = Len(ts) /\ ts = Append(us, EOS)
                              /\ BytesOf(us) = BytesOf(ts)
<1>1. Len(ts) \in Nat /\ \A i \in 1..Len(ts) : ts[i] \in Tokens \cup {EOS}
  BY LenProperties, ElementOfSeq DEF Texts
<1>2. PICK i \in 1..Len(ts) : ts[i] = EOS
  BY DEF NoEos
<1>3. i = Len(ts) /\ Len(ts) # 0 /\ ts[Len(ts)] = EOS
  BY <1>1, <1>2 DEF EosLast
<1> DEFINE n == Len(ts) - 1
           us == SubSeq(ts, 1, n)
<1>4. n \in 0..(Len(ts) - 1) /\ n \in 0..Len(ts) /\ n + 1 = Len(ts) /\ n \in Nat
  BY <1>1, <1>3
<1> HIDE DEF n
<1>5. us \in Texts /\ Len(us) = n /\ \A j \in 1..n : us[j] = ts[j]
  BY <1>4, CutAt DEF Texts
<1>6. ts = Append(us, EOS)
  <2>1. SubSeq(ts, 1, n + 1) = Append(SubSeq(ts, 1, n), ts[n + 1])
    BY <1>4, CutNext DEF Texts
  <2>2. SubSeq(ts, 1, Len(ts)) = ts
    BY WholeSeq DEF Texts
  <2> QED BY <1>3, <1>4, <2>1, <2>2
<1>7. NoEos(us)
  <2>1. ASSUME NEW j \in 1..Len(us) PROVE us[j] # EOS
    <3>1. j \in 1..Len(ts) /\ j < Len(ts) /\ j \in 1..n
      BY <1>4, <1>5
    <3> QED BY <1>5, <3>1 DEF EosLast
  <2> QED BY <2>1 DEF NoEos
<1> HIDE DEF us
<1>8. BytesOf(ts) = BytesOf(us)
  <2>1. BytesOf(Append(us, EOS)) = BytesOf(us) \o Piece(EOS) /\ BytesOf(us) \in Bytes
    BY <1>5, BytesOfAppend, BytesOfConcat
  <2>2. Piece(EOS) = <<>>
    BY DEF Piece
  <2>3. BytesOf(us) \o <<>> = BytesOf(us)
    BY <2>1, ConcatEmptySeq DEF Bytes
  <2> QED BY <1>6, <2>1, <2>2, <2>3
<1>9. ts # <<>> /\ Last(ts) = EOS
  BY <1>3 DEF Last
<1> QED BY <1>4, <1>5, <1>6, <1>7, <1>8, <1>9

(* Without one, the last token is none.                                     *)
LEMMA NoEosTaken ==
  ASSUME NEW ts \in Texts, NoEos(ts)
  PROVE  ~(ts # <<>> /\ Last(ts) = EOS)
<1> SUFFICES ASSUME ts # <<>>, Last(ts) = EOS PROVE FALSE
  OBVIOUS
<1>1. Len(ts) \in Nat /\ Len(ts) # 0
  BY LenProperties, EmptySeq DEF Texts
<1> QED BY <1>1 DEF Last, NoEos

-----------------------------------------------------------------------------
(* A session stops where Session is finished.                               *)

(* Where a text may end, and where it cannot go on.                         *)
EosTop(p) == p.llm_tokens # <<>> /\ Last(p.llm_tokens) = EOS
StopsAt(p) == MayEnd(p) /\ (EosTop(p) \/ ~CanAdvance(p.chart))

(* CheckStop stops a session there.                                         *)
LEMMA StopsWhen ==
  ASSUME NEW p \in FreshSessions, NEW q, q = CheckStop(p)
  PROVE  /\ q # MatcherError /\ q.llm_tokens = p.llm_tokens
         /\ Stopped(q) <=> Stopped(p) \/ StopsAt(p)
<1> DEFINE w == WithAccepting(p)
           reason == IF EosTop(w) THEN "EndOfSentence" ELSE "NoExtension"
<1>1. Sane(p) /\ Cached(p) /\ p \in TokenParser /\ p # MatcherError
  BY SaneParts DEF FreshSessions
<1>2. StopChecked(p, q)
  BY <1>1, CheckStopFacts
<1>3. q # MatcherError /\ q.llm_tokens = p.llm_tokens
  BY <1>2, SaneParts DEF StopChecked
<1>4. w.is_accepting_cache = MayEnd(p) /\ w \in TokenParser
  BY <1>1, AcceptingRight DEF Cached, SaneSessions
<1>5. w.llm_tokens = p.llm_tokens /\ w.chart = p.chart /\ w.stop_reason = p.stop_reason
  <2> DEFINE v == Accepting(p)
  <2>1. w = [p EXCEPT !.is_accepting_cache = v]
    BY DEF WithAccepting
  <2> HIDE DEF w, v
  <2> QED BY <1>1, <2>1 DEF TokenParser
<1>6. q = IF MayEnd(p) /\ (EosTop(p) \/ ~CanAdvance(p.chart))
          THEN [w EXCEPT !.stop_reason = reason] ELSE w
  <2>1. q = StopIfDone(w)
    BY <1>1 DEF CheckStop
  <2>2. EosTop(w) = EosTop(p)
    BY <1>5 DEF EosTop
  <2> HIDE DEF w
  <2> QED BY <1>4, <1>5, <2>1, <2>2 DEF StopIfDone, EosTop
<1>7. reason # "NotStopped"
  OBVIOUS
<1> HIDE DEF w, reason
<1>8. CASE StopsAt(p)
  <2>1. q = [w EXCEPT !.stop_reason = reason]
    BY <1>6, <1>8 DEF StopsAt
  <2>2. q.stop_reason = reason
    BY <1>4, <2>1 DEF TokenParser
  <2> QED BY <1>3, <1>7, <1>8, <2>2 DEF Stopped
<1>9. CASE ~StopsAt(p)
  <2>1. q = w
    BY <1>6, <1>9 DEF StopsAt
  <2> QED BY <1>3, <1>5, <1>9, <2>1 DEF Stopped
<1> QED BY <1>8, <1>9

(* Twins can advance alike.                                                 *)
LEMMA TwinAdvance ==
  ASSUME NEW c, NEW d, Good(c), Good(d), Twin(c, d)
  PROVE  CanAdvance(c) <=> CanAdvance(d)
<1>1. CurrRow(c) = CurrRow(d)
  BY TwinRow
<1>2. c.lexer_stack = d.lexer_stack /\ NumRows(c) = NumRows(d)
  BY ExtendsTwin DEF Twin
<1>3. HasPendingLexemeBytes(c) <=> HasPendingLexemeBytes(d)
  BY <1>2, Zenon DEF HasPendingLexemeBytes
<1> QED BY <1>1, <1>3 DEF CanAdvance

(* A session may end exactly when its text is a word.                       *)
LEMMA MayEndIs ==
  ASSUME ParserDecides, NEW p \in FreshSessions, Known(p)
  PROVE  MayEnd(p) <=> BytesOf(p.llm_tokens) \in Words
<1> DEFINE ts == p.llm_tokens
           bs == BytesOf(ts)
<1>1. /\ Sane(p) /\ Told(p, bs) /\ ts \in Texts /\ Len(ts) <= MaxTokensTotal
      /\ Len(ts) \in Nat /\ MaxTokensTotal \in Nat
      /\ Fresh(bs).ok /\ (NoEos(ts) => ~p.lexer_stack_top_eos)
  BY KnownText, SaneParts
<1>2. CASE NoEos(ts)
  <2>1. MayEnd(p) <=> IsAccepting(Fresh(bs).chart)
    BY <1>1, <1>2, EndAllowed
  <2>2. Len(ts) <= MaxTokensTotal + 1
    BY <1>1
  <2>3. Fresh(bs).ok /\ IsAccepting(Fresh(bs).chart) <=> bs \in Words
    BY <1>1, <1>2, <2>2, Decided
  <2> QED BY <1>1, <2>1, <2>3
<1>3. CASE ~NoEos(ts)
  <2>1. Ended(p)
    BY <1>3 DEF Known
  <2>2. MayEnd(p)
    BY <1>1, <2>1, ForcedBytesAre DEF Ended, MayEnd
  <2>3. p.bytes = bs
    <3>1. SubSeq(p.bytes, 1, Len(p.bytes)) = bs
      BY <1>1, <2>1 DEF Told, Ended
    <3>2. p.bytes \in Seq(Byte)
      BY <1>1, SaneParts DEF Bytes
    <3> QED BY <3>1, <3>2, WholeSeq
  <2>4. PICK us \in Texts : NoEos(us) /\ Len(us) + 1 = Len(ts) /\ BytesOf(us) = bs
    BY <1>1, <1>3, EosTaken DEF Known
  <2>5. Len(us) <= MaxTokensTotal + 1
    BY <1>1, <2>4, LenProperties DEF Texts
  <2>6. Fresh(bs).ok /\ IsAccepting(Fresh(bs).chart) <=> bs \in Words
    BY <2>4, <2>5, Decided
  <2> QED BY <1>1, <2>1, <2>2, <2>3, <2>6 DEF Ended
<1> QED BY <1>2, <1>3

(* A session stops exactly when its text is finished.                       *)
LEMMA StopsAtIs ==
  ASSUME ParserDecides, NEW p \in FreshSessions, Known(p)
  PROVE  StopsAt(p) <=> Promise!Finished(p.llm_tokens)
<1> DEFINE ts == p.llm_tokens
           bs == BytesOf(ts)
<1>1. /\ Sane(p) /\ Told(p, bs) /\ ts \in Texts /\ Len(ts) <= MaxTokensTotal
      /\ Len(ts) \in Nat /\ MaxTokensTotal \in Nat
      /\ Fresh(bs).ok /\ (NoEos(ts) => ~p.lexer_stack_top_eos)
  BY KnownText, SaneParts
<1>2. MayEnd(p) <=> bs \in Words
  BY MayEndIs
<1>3. Promise!Finished(ts) <=> bs \in Words /\ (EosTop(p) \/ ~Promise!Extensible(bs))
  <2>1. Promise!EndsInEos(ts) <=> EosTop(p)
    BY PromiseWords DEF Promise!EndsInEos, EosTop
  <2> QED BY <2>1, PromiseBytes DEF Promise!Finished
<1>4. CASE NoEos(ts) /\ bs \in Words
  <2>1. MayEnd(p)
    BY <1>2, <1>4
  <2>2. p.applied = Len(p.bytes)
    BY <1>1, <2>1, ForcedBytesAre DEF MayEnd
  <2>3. p.bytes = bs
    <3>1. SubSeq(p.bytes, 1, Len(p.bytes)) = bs
      BY <1>1, <2>2 DEF Told
    <3>2. p.bytes \in Seq(Byte)
      BY <1>1, SaneParts DEF Bytes
    <3> QED BY <3>1, <3>2, WholeSeq
  <2>4. Twin(p.chart, Fresh(bs).chart) /\ Good(p.chart) /\ Good(Fresh(bs).chart)
    BY <1>1, <1>4, <2>3, ToldTwin DEF Unbounded
  <2>5. CanAdvance(p.chart) <=> CanAdvance(Fresh(bs).chart)
    BY <2>4, TwinAdvance
  <2>6. Len(ts) <= MaxTokensTotal + 1
    BY <1>1
  <2>7. CanAdvance(Fresh(bs).chart) <=> Promise!Extensible(bs)
    BY <1>1, <1>4, <2>6, Decided
  <2> QED BY <1>2, <1>3, <2>1, <2>5, <2>7 DEF StopsAt
<1>5. CASE ~(bs \in Words)
  BY <1>2, <1>3, <1>5 DEF StopsAt
<1>6. CASE ~NoEos(ts)
  <2>1. EosTop(p)
    BY <1>1, <1>6, EosTaken DEF EosTop, Known
  <2> QED BY <1>2, <1>3, <2>1 DEF StopsAt
<1> QED BY <1>4, <1>5, <1>6

(* What a stopped session has: a finished text.                             *)
Concluded(p) == Stopped(p) => Promise!Finished(p.llm_tokens)

(* CheckStop stops a session exactly where it is finished, if it was not    *)
(* stopped before.                                                          *)
LEMMA StopsRight ==
  ASSUME ParserDecides, NEW p \in FreshSessions, Known(p), Concluded(p),
         NEW q, q = CheckStop(p)
  PROVE  /\ q # MatcherError /\ q.llm_tokens = p.llm_tokens
         /\ Stopped(q) <=> Promise!Finished(q.llm_tokens)
<1>1. /\ q # MatcherError /\ q.llm_tokens = p.llm_tokens
      /\ Stopped(q) <=> Stopped(p) \/ StopsAt(p)
  BY StopsWhen
<1>2. StopsAt(p) <=> Promise!Finished(p.llm_tokens)
  BY StopsAtIs
<1> QED BY <1>1, <1>2 DEF Concluded

-----------------------------------------------------------------------------
(* A session takes the tokens that may follow.                              *)

(* It takes an end of sequence where it is accepting.                       *)
LEMMA ConsumeEosOk ==
  ASSUME NEW p \in FreshSessions, ~p.lexer_stack_top_eos, MayEnd(p),
         NEW q, q = ConsumeEos(Paid(p)), p.max_tokens_total # 0
  PROVE  q # MatcherError
<1> DEFINE r == FlushLexer(p.chart, TRUE, Len(p.bytes))
           d == r.chart
           grew == r.ok /\ Len(r.chart.lexer_stack) # Len(p.chart.lexer_stack)
           m == p.max_tokens_total - 1
           ts == Append(p.llm_tokens, EOS)
           o == Paid(p)
           s == [o EXCEPT !.chart = d, !.lexer_stack_top_eos = @ \/ grew]
<1>1. /\ Sane(p) /\ Cached(p) /\ p \in TokenParser
      /\ Fit(p.chart, TRUE) /\ p.chart.budget = Unlimited
  BY DEF FreshSessions, Sane
<1>2. /\ p.llm_tokens \in Texts /\ p.max_tokens_total \in Nat /\ MaxTokensTotal \in Nat
      /\ Len(p.bytes) \in Nat /\ p.max_tokens_total \in 0..MaxTokensTotal
  <2>1. p.max_tokens_total \in 0..MaxTokensTotal
    BY <1>1 DEF TokenParser
  <2> QED BY <1>1, <2>1, SaneParts
<1>3. /\ d \in ParserChart /\ IsAccepting(d) = IsAccepting(p.chart)
  <2>1. Fit(d, TRUE) /\ IsAccepting(d) = IsAccepting(p.chart)
    <3> HIDE DEF grew, m, ts, o, s
    <3> QED BY <1>1, <1>2, AcceptingFlush
  <2> QED BY <2>1 DEF Fit, Good
<1>4. m \in 0..MaxTokensTotal
  BY <1>2
<1>5. /\ o \in TokenParser /\ o.chart = p.chart /\ o.bytes = p.bytes /\ o.applied = p.applied
      /\ o.lexer_stack_top_eos = p.lexer_stack_top_eos /\ o.llm_tokens = p.llm_tokens
      /\ o.is_accepting_cache = p.is_accepting_cache
  <2>1. o = [p EXCEPT !.max_tokens_total = m]
    BY DEF Paid
  <2> HIDE DEF m, o
  <2> QED BY <1>1, <1>4, <2>1 DEF TokenParser
<1> HIDE DEF o
<1>6. ScanEos(o) = s
  <2>1. ScanEos(o) = EndLexeme(o, r)
    BY <1>5 DEF ScanEos
  <2> QED BY <1>5, <2>1 DEF EndLexeme
<1> DEFINE top == o.lexer_stack_top_eos \/ grew
<1>7. top \in BOOLEAN /\ s = [o EXCEPT !.chart = d, !.lexer_stack_top_eos = top]
  OBVIOUS
<1> HIDE DEF d, r, grew, m, ts, top
<1>8. /\ s \in TokenParser /\ s.chart = d /\ s.bytes = p.bytes /\ s.applied = p.applied
      /\ s.llm_tokens = p.llm_tokens /\ s.is_accepting_cache = p.is_accepting_cache
  <2> HIDE DEF s
  <2> QED BY <1>3, <1>5, <1>7 DEF TokenParser
<1> HIDE DEF s
<1>9. Accepting(s) = TRUE
  <2>1. ForcedBytes(s) = ForcedBytes(p)
    BY <1>8 DEF ForcedBytes
  <2>2. Accepting(s) = IF p.is_accepting_cache # None THEN p.is_accepting_cache ELSE MayEnd(p)
    BY <1>3, <1>8, <2>1 DEF Accepting, MayEnd
  <2>3. MayEnd(p) = TRUE
    BY DEF MayEnd, IsAccepting, IsAcceptingAt
  <2> QED BY <1>1, <2>2, <2>3 DEF Cached, AcceptingFresh
<1> DEFINE w == WithAccepting(s)
<1>10. w = [s EXCEPT !.is_accepting_cache = TRUE]
  BY <1>9 DEF WithAccepting
<1>11. s # MatcherError
  BY <1>8, SessionAssumption
<1>12. q = EosAccepted(w)
  BY <1>6, <1>11 DEF ConsumeEos, EosScanned, o
<1> HIDE DEF w
<1>13. w \in TokenParser /\ w.is_accepting_cache = TRUE /\ w.llm_tokens = p.llm_tokens
  BY <1>8, <1>10 DEF TokenParser
<1>14. q = [w EXCEPT !.llm_tokens = ts]
  BY <1>12, <1>13 DEF EosAccepted, ts
<1>15. ts \in Seq(Tokens \cup {EOS})
  BY <1>2, AppendProperties DEF Texts, ts
<1>16. q \in TokenParser
  BY <1>13, <1>14, <1>15 DEF TokenParser
<1> QED BY <1>16, SessionAssumption

(* What a session has become that took a token.                             *)
TookOn(p, t, q) ==
  /\ q \in FreshSessions /\ Known(q)
  /\ q.llm_tokens = Append(p.llm_tokens, t)
  /\ q.stop_reason = p.stop_reason

(* A session takes a token exactly when it is not stopped, has a token left *)
(* to take, and the token may follow.                                       *)
LEMMA ConsumeTokenIff ==
  ASSUME ParserDecides, NEW p \in FreshSessions, Known(p), NoEos(p.llm_tokens),
         NEW t \in Tokens \cup {EOS}, NEW q, q = ConsumeToken(p, t)
  PROVE  /\ q # MatcherError <=> /\ ~Stopped(p) /\ Len(p.llm_tokens) < MaxTokensTotal
                                 /\ Promise!May(p.llm_tokens, t)
         /\ q # MatcherError => TookOn(p, t, q)
<1> DEFINE ts == p.llm_tokens
           bs == BytesOf(ts)
<1>1. /\ Sane(p) /\ Cached(p) /\ Told(p, bs) /\ bs \in Bytes /\ ts \in Texts
      /\ p.max_tokens_total = MaxTokensTotal - Len(ts)
      /\ Fresh(bs).ok /\ Short(ts) /\ ~p.lexer_stack_top_eos
      /\ Len(ts) \in Nat /\ MaxTokensTotal \in Nat /\ Len(ts) <= MaxTokensTotal
  BY KnownText, SaneParts
<1>2. p.max_tokens_total # 0 <=> Len(ts) < MaxTokensTotal
  BY <1>1
<1>3. ASSUME q # MatcherError
      PROVE  /\ TookOn(p, t, q) /\ ~Stopped(p) /\ p.max_tokens_total # 0
             /\ Promise!May(ts, t)
  <2>1. /\ TookToken(p, t, q) /\ ~Stopped(p) /\ p.max_tokens_total # 0
    BY <1>1, <1>3, ConsumeTokenFacts
  <2>2. q \in FreshSessions /\ Known(q)
    BY <1>3, ConsumeTokenTold
  <2>3. q.llm_tokens = Append(ts, t) /\ q.stop_reason = p.stop_reason
    BY <2>1 DEF TookToken
  <2>4. Promise!May(ts, t)
    <3>1. CASE t = EOS
      <4>1. MayEnd(q) /\ MayEnd(p)
        <5>1. q = ConsumeEos(Paid(p))
          BY <1>1, <1>3, <3>1, ConsumeTokenFacts
        <5> QED BY <1>1, <1>3, <2>1, <5>1, ConsumeEosFacts
      <4>2. bs \in Words
        BY <4>1, MayEndIs
      <4> QED BY <1>1, <3>1, <4>2, MayIs
    <3>2. CASE t # EOS
      <4>1. t \in Tokens /\ Piece(t) = t
        BY <3>2 DEF Piece
      <4>2. BytesOf(q.llm_tokens) = bs \o t
        BY <1>1, <2>3, <4>1, BytesOfAppend
      <4>3. Fresh(bs \o t).ok
        BY <2>2, <4>2, KnownText
      <4> QED BY <1>1, <4>1, <4>3, MayIs
    <3> QED BY <3>1, <3>2
  <2> QED BY <2>1, <2>2, <2>3, <2>4 DEF TookOn
<1>4. ASSUME ~Stopped(p), p.max_tokens_total # 0, Promise!May(ts, t)
      PROVE  q # MatcherError
  <2>1. q = IF t = EOS THEN ConsumeEos(Paid(p)) ELSE ApplyToken(Paid(p), t)
    BY <1>4 DEF ConsumeToken, Paid
  <2>2. CASE t = EOS
    <3>1. bs \in Words
      BY <1>1, <1>4, <2>2, MayIs
    <3>2. MayEnd(p)
      BY <3>1, MayEndIs
    <3> QED BY <1>1, <1>4, <2>1, <2>2, <3>2, ConsumeEosOk
  <2>3. CASE t # EOS
    <3>1. t \in Tokens
      BY <2>3
    <3>2. Fresh(bs \o t).ok
      BY <1>1, <1>4, <3>1, MayIs
    <3>3. q = ApplyToken(Paid(p), t)
      BY <2>1, <2>3
    <3> HIDE DEF bs
    <3> QED BY <1>1, <1>4, <3>1, <3>2, <3>3, ApplyTokenOk
  <2> QED BY <2>2, <2>3
<1> QED BY <1>2, <1>3, <1>4

(* Tokens are found valid exactly when they may follow.                     *)
LEMMA ValidatesIs ==
  ASSUME ParserDecides, NEW p \in FreshSessions, Known(p), NoEos(p.llm_tokens),
         NEW t \in Tokens \cup {EOS}
  PROVE  Validates(p, t) <=> Promise!May(p.llm_tokens, t)
<1> DEFINE ts == p.llm_tokens
           bs == BytesOf(ts)
           forced == ForcedBytes(p)
<1>1. /\ Sane(p) /\ Told(p, bs) /\ Short(ts) /\ ~p.lexer_stack_top_eos
      /\ forced \in Bytes
  BY KnownText, ForcedBytesAre
<1>2. CASE t = EOS
  <2>1. Validates(p, t) <=> MayEnd(p)
    BY <1>2 DEF Validates, MayEnd
  <2>2. MayEnd(p) <=> bs \in Words
    BY MayEndIs
  <2> QED BY <1>1, <1>2, <2>1, <2>2, MayIs
<1>3. CASE t # EOS
  <2>1. t \in Tokens /\ t \in Seq(Byte) /\ forced \in Seq(Byte)
    BY <1>1, <1>3, MatcherAssumption DEF Bytes
  <2>2. Validates(p, t) <=>
          (\/ IsPrefix(t, forced)
           \/ IsPrefix(forced, t) /\ Allows(p.chart, SubSeq(t, Len(forced) + 1, Len(t))))
    <3> HIDE DEF forced
    <3>1. Len(t) \in Nat /\ Len(forced) \in Nat
      BY <2>1, LenProperties
    <3>2. IsPrefix(t, forced) => Len(t) <= Len(forced)
      BY <2>1, PrefixIs
    <3>3. IsPrefix(forced, t) /\ Len(t) <= Len(forced) => IsPrefix(t, forced)
      <4>1. IsPrefix(forced, t) => Len(forced) <= Len(t) /\ \A i \in 1..Len(forced) : forced[i] = t[i]
        BY <2>1, PrefixIs
      <4>2. IsPrefix(t, forced) <=> Len(t) <= Len(forced) /\ \A i \in 1..Len(t) : t[i] = forced[i]
        BY <2>1, PrefixIs
      <4> QED BY <3>1, <4>1, <4>2
    <3> QED BY <1>3, <3>1, <3>2, <3>3 DEF Validates, forced
  <2>3. (\/ IsPrefix(t, forced)
         \/ IsPrefix(forced, t) /\ Allows(p.chart, SubSeq(t, Len(forced) + 1, Len(t))))
        <=> Fresh(bs \o t).ok
    <3> HIDE DEF bs
    <3> QED BY <1>1, <2>1, TokenAllowed
  <2>4. Fresh(bs \o t).ok <=> Promise!May(ts, t)
    BY <1>1, <2>1, MayIs
  <2> QED BY <2>2, <2>3, <2>4
<1> QED BY <1>2, <1>3

(* A sequence with an element appended, after another sequence.             *)
LEMMA ConcatAppend ==
  ASSUME NEW S, NEW s \in Seq(S), NEW u \in Seq(S), NEW b \in S
  PROVE  s \o u \in Seq(S) /\ s \o Append(u, b) = Append(s \o u, b)
<1>1. <<b>> \in Seq(S)
  BY Z3
<1>2. Append(u, b) = u \o <<b>>
  BY AppendIsConcat
<1>3. s \o u \in Seq(S)
  BY ConcatProperties
<1>4. Append(s \o u, b) = (s \o u) \o <<b>>
  BY <1>3, AppendIsConcat
<1>5. (s \o u) \o <<b>> = s \o (u \o <<b>>)
  BY <1>1, ConcatThree, Z3
<1> QED BY <1>2, <1>3, <1>4, <1>5

(* A text and the first tokens of a batch.                                  *)
Grown(text, ts, k) == text \o SubSeq(ts, 1, k)
Takes(text, ts, k) ==
  /\ Len(text) + k <= MaxTokensTotal
  /\ \A i \in 1..k : Promise!May(Grown(text, ts, i - 1), ts[i])

(* It grows token by token.                                                 *)
LEMMA GrownFacts ==
  ASSUME NEW text \in Texts, NEW ts \in Texts
  PROVE  /\ Grown(text, ts, 0) = text /\ Grown(text, ts, Len(ts)) = text \o ts
         /\ \A k \in 0..Len(ts) :
              /\ Grown(text, ts, k) \in Texts /\ Len(Grown(text, ts, k)) = Len(text) + k
              /\ NoEos(text) /\ (\A i \in 1..k : ts[i] # EOS) => NoEos(Grown(text, ts, k))
         /\ \A k \in 0..(Len(ts) - 1) :
              Grown(text, ts, k + 1) = Append(Grown(text, ts, k), ts[k + 1])
<1> DEFINE S == Tokens \cup {EOS}
<1>1. text \in Seq(S) /\ ts \in Seq(S) /\ Len(text) \in Nat /\ Len(ts) \in Nat
  BY LenProperties DEF Texts
<1>2. ASSUME NEW k \in 0..Len(ts)
      PROVE  /\ Grown(text, ts, k) \in Texts /\ Len(Grown(text, ts, k)) = Len(text) + k
             /\ NoEos(text) /\ (\A i \in 1..k : ts[i] # EOS) => NoEos(Grown(text, ts, k))
  <2> DEFINE u == SubSeq(ts, 1, k)
  <2>1. u \in Seq(S) /\ Len(u) = k /\ \A i \in 1..k : u[i] = ts[i]
    BY <1>1, CutAt
  <2> HIDE DEF u, S
  <2>2. /\ text \o u \in Seq(S) /\ Len(text \o u) = Len(text) + k
        /\ \A i \in 1..(Len(text) + k) :
             (text \o u)[i] = IF i <= Len(text) THEN text[i] ELSE u[i - Len(text)]
    BY <1>1, <2>1, ConcatProperties
  <2>3. ASSUME NoEos(text), \A i \in 1..k : ts[i] # EOS PROVE NoEos(text \o u)
    <3>1. ASSUME NEW i \in 1..Len(text \o u) PROVE (text \o u)[i] # EOS
      <4>1. CASE i <= Len(text)
        <5>1. i \in 1..Len(text) /\ i \in 1..(Len(text) + k)
          BY <1>1, <2>2, <4>1
        <5>2. (text \o u)[i] = text[i] /\ text[i] # EOS
          BY <2>2, <2>3, <4>1, <5>1 DEF NoEos
        <5> QED BY <5>2
      <4>2. CASE ~(i <= Len(text))
        <5>1. i \in 1..(Len(text) + k) /\ i - Len(text) \in 1..k
          BY <1>1, <2>2, <4>2
        <5>2. (text \o u)[i] = u[i - Len(text)] /\ u[i - Len(text)] = ts[i - Len(text)]
          BY <2>1, <2>2, <4>2, <5>1
        <5> QED BY <2>3, <5>1, <5>2
      <4> QED BY <4>1, <4>2
    <3> QED BY <3>1 DEF NoEos
  <2> QED BY <2>2, <2>3 DEF Grown, Texts, u, S
<1>3. Grown(text, ts, 0) = text
  <2>1. SubSeq(ts, 1, 0) \in Seq(S) /\ Len(SubSeq(ts, 1, 0)) = 0
    BY <1>1, CutAt
  <2>2. SubSeq(ts, 1, 0) = <<>> /\ text \o <<>> = text
    BY <1>1, <2>1, EmptySeq, ConcatEmptySeq
  <2> QED BY <2>2 DEF Grown
<1>4. Grown(text, ts, Len(ts)) = text \o ts
  BY <1>1, WholeSeq DEF Grown
<1>5. ASSUME NEW k \in 0..(Len(ts) - 1)
      PROVE  Grown(text, ts, k + 1) = Append(Grown(text, ts, k), ts[k + 1])
  <2> DEFINE u == SubSeq(ts, 1, k)
             b == ts[k + 1]
  <2>1. k \in 0..Len(ts) /\ k + 1 \in 1..Len(ts)
    BY <1>1
  <2>2. u \in Seq(S) /\ b \in S
    BY <1>1, <2>1, CutAt, ElementOfSeq
  <2>3. SubSeq(ts, 1, k + 1) = Append(u, b)
    BY <1>1, CutNext
  <2> HIDE DEF u, b, S
  <2>4. text \o Append(u, b) = Append(text \o u, b)
    BY <1>1, <2>2, ConcatAppend
  <2> QED BY <2>3, <2>4 DEF Grown, u, b
<1> QED BY <1>2, <1>3, <1>4, <1>5

(* What it takes of one token more.                                         *)
LEMMA TakesNext ==
  ASSUME NEW text \in Texts, Len(text) <= MaxTokensTotal, NEW ts \in Texts, NEW k \in Nat
  PROVE  /\ Takes(text, ts, 0)
         /\ Takes(text, ts, k + 1) <=>
              /\ Takes(text, ts, k) /\ Len(text) + k < MaxTokensTotal
              /\ Promise!May(Grown(text, ts, k), ts[k + 1])
<1>1. Len(text) \in Nat /\ MaxTokensTotal \in Nat
  BY LenProperties, MatcherAssumption DEF Texts
<1>2. (k + 1) - 1 = k /\ \A i \in 1..(k + 1) : i \in 1..k \/ i = k + 1
  OBVIOUS
<1>3. \A i \in 1..k : i \in 1..(k + 1)
  OBVIOUS
<1>4. k + 1 \in 1..(k + 1)
  OBVIOUS
<1>5. Len(text) + (k + 1) <= MaxTokensTotal
        <=> Len(text) + k <= MaxTokensTotal /\ Len(text) + k < MaxTokensTotal
  BY <1>1
<1>6. (\A i \in 1..(k + 1) : Promise!May(Grown(text, ts, i - 1), ts[i]))
        <=> /\ \A i \in 1..k : Promise!May(Grown(text, ts, i - 1), ts[i])
            /\ Promise!May(Grown(text, ts, k), ts[k + 1])
  BY <1>2, <1>3, <1>4
<1>7. Takes(text, ts, 0)
  BY <1>1 DEF Takes
<1> QED BY <1>5, <1>6, <1>7 DEF Takes

(* What a session has become that took k tokens of a batch.                 *)
TookSome(p, ts, k, q) ==
  /\ q \in FreshSessions /\ Known(q)
  /\ q.llm_tokens = Grown(p.llm_tokens, ts, k)
  /\ q.stop_reason = p.stop_reason

(* A session that is not stopped takes as many tokens of a batch as may     *)
(* follow one another, within its budget; a stopped one takes none.         *)
LEMMA ConsumedSoFar ==
  ASSUME ParserDecides, NEW p \in FreshSessions, Between(p), NEW ts \in Texts, EosLast(ts),
         NEW f, f = ConsumedUpTo(p, ts)
  PROVE  \A k \in 0..Len(ts) :
           /\ f[k] # MatcherError <=> k = 0 \/ (~Stopped(p) /\ Takes(p.llm_tokens, ts, k))
           /\ f[k] # MatcherError => TookSome(p, ts, k, f[k])
<1> DEFINE text == p.llm_tokens
           Shown(k) == /\ f[k] # MatcherError <=> k = 0 \/ (~Stopped(p) /\ Takes(text, ts, k))
                       /\ f[k] # MatcherError => TookSome(p, ts, k, f[k])
           Fine == {k \in Nat : Shown(k)}
           N == Len(ts)
<1>1. /\ text \in Texts /\ Len(text) \in Nat /\ Len(text) <= MaxTokensTotal
      /\ MaxTokensTotal \in Nat /\ Known(p) /\ p # MatcherError
      /\ (NoEos(text) \/ Stopped(p))
  <2>1. Known(p) /\ Sane(p) /\ (NoEos(text) \/ Stopped(p))
    BY DEF Between, FreshSessions
  <2>2. text \in Texts /\ Len(text) <= MaxTokensTotal
    BY <2>1, KnownText
  <2> QED BY <2>1, <2>2, SaneParts
<1>2. /\ N \in Nat /\ f[0] = p
      /\ \A k \in 1..N : f[k] = ConsumeNext(f[k - 1], ts[k])
      /\ \A k \in 1..N : ts[k] \in Tokens \cup {EOS}
  <2>1. p \in Sessions
    BY DEF Sessions
  <2>2. \A k \in 1..N : ts[k] \in Tokens \cup {EOS}
    BY ElementOfSeq DEF Texts
  <2> QED BY <2>1, <2>2, ConsumedSteps
<1>3. 0 \in Fine
  <2>1. Grown(text, ts, 0) = text
    BY <1>1, GrownFacts
  <2> QED BY <1>1, <1>2, <2>1 DEF TookSome
<1>4. ASSUME NEW k \in 0..(N - 1), k \in Fine PROVE k + 1 \in Fine
  <2> DEFINE o == f[k]
             q == f[k + 1]
             t == ts[k + 1]
  <2>1. k + 1 \in 1..N /\ (k + 1) - 1 = k /\ k \in 0..N /\ k \in Nat /\ k + 1 \in Nat /\ k + 1 # 0
    BY <1>2
  <2>2. q = ConsumeNext(o, t) /\ t \in Tokens \cup {EOS}
    BY <1>2, <2>1
  <2>3. Shown(k)
    BY <1>4
  <2>4. Takes(text, ts, k + 1) <=>
          Takes(text, ts, k) /\ Len(text) + k < MaxTokensTotal /\ Promise!May(Grown(text, ts, k), t)
    BY <1>1, <2>1, TakesNext
  <2>5. Takes(text, ts, 0)
    BY <1>1, <2>1, TakesNext
  <2>6. CASE o = MatcherError
    <3>1. q = MatcherError
      BY <2>2, <2>6 DEF ConsumeNext
    <3>2. ~(~Stopped(p) /\ Takes(text, ts, k))
      BY <2>3, <2>6
    <3> QED BY <2>1, <2>4, <3>1, <3>2
  <2>7. CASE o # MatcherError /\ Stopped(p)
    <3>1. TookSome(p, ts, k, o)
      BY <2>3, <2>7
    <3>2. Stopped(o) /\ o \in FreshSessions
      BY <2>7, <3>1 DEF TookSome, Stopped
    <3>3. q = MatcherError
      <4>1. q = ConsumeToken(o, t)
        BY <2>2, <2>7 DEF ConsumeNext
      <4> QED BY <3>2, <4>1 DEF ConsumeToken
    <3> QED BY <2>1, <2>7, <3>3
  <2>8. CASE o # MatcherError /\ ~Stopped(p)
    <3>1. /\ o \in FreshSessions /\ Known(o) /\ o.llm_tokens = Grown(text, ts, k)
          /\ o.stop_reason = p.stop_reason /\ ~Stopped(o)
      BY <2>3, <2>8 DEF TookSome, Stopped
    <3>2. Takes(text, ts, k)
      BY <2>3, <2>5, <2>8
    <3>3. \A i \in 1..k : ts[i] # EOS
      <4>1. ASSUME NEW i \in 1..k PROVE ts[i] # EOS
        <5>1. i \in 1..Len(ts) /\ i < Len(ts)
          BY <1>2, <2>1
        <5> QED BY <5>1 DEF EosLast
      <4> QED BY <4>1
    <3>4. NoEos(o.llm_tokens) /\ Len(o.llm_tokens) = Len(text) + k
      <4>1. NoEos(text) /\ k \in 0..Len(ts)
        BY <1>1, <2>1, <2>8
      <4>2. NoEos(Grown(text, ts, k)) /\ Len(Grown(text, ts, k)) = Len(text) + k
        <5> HIDE DEF text
        <5> QED BY <1>1, <3>3, <4>1, GrownFacts
      <4> QED BY <3>1, <4>2
    <3>5. q = ConsumeToken(o, t)
      BY <2>2, <2>8 DEF ConsumeNext
    <3> HIDE DEF o, q, t
    <3>6. /\ q # MatcherError <=> /\ ~Stopped(o) /\ Len(o.llm_tokens) < MaxTokensTotal
                                  /\ Promise!May(o.llm_tokens, t)
          /\ q # MatcherError => TookOn(o, t, q)
      BY <2>2, <3>1, <3>4, <3>5, ConsumeTokenIff
    <3>7. Grown(text, ts, k + 1) = Append(Grown(text, ts, k), t)
      BY <1>1, GrownFacts DEF t
    <3>8. q # MatcherError => TookSome(p, ts, k + 1, q)
      BY <3>1, <3>6, <3>7 DEF TookOn, TookSome
    <3>9. q # MatcherError <=> Takes(text, ts, k + 1)
      BY <2>4, <3>1, <3>2, <3>4, <3>6
    <3> QED BY <2>1, <2>8, <3>8, <3>9 DEF q
  <2> QED BY <2>6, <2>7, <2>8
<1>5. \A k \in 0..N : k \in Fine
  <2> HIDE DEF Fine
  <2> QED BY <1>2, <1>3, <1>4, UpTo
<1> QED BY <1>5

(* A batch: it is taken or refused as Session says, and the session then    *)
(* stops where its text is finished.                                        *)
LEMMA ConsumedRight ==
  ASSUME ParserDecides, NEW p \in FreshSessions, Between(p), Concluded(p),
         NEW ts \in Texts, EosLast(ts), NEW q, q = Consumed(p, ts)
  PROVE  /\ q # MatcherError <=> /\ ~Stopped(p) \/ ts = <<>>
                                 /\ Takes(p.llm_tokens, ts, Len(ts))
         /\ q # MatcherError => /\ q.llm_tokens = p.llm_tokens \o ts
                                /\ Stopped(q) <=> Promise!Finished(q.llm_tokens)
<1> DEFINE n == Len(ts)
           f == ConsumedUpTo(p, ts)
           o == f[n]
           text == p.llm_tokens
<1>1. /\ n \in Nat /\ n \in 0..n /\ (n = 0 <=> ts = <<>>)
  BY LenProperties, EmptySeq DEF Texts
<1>2. text \in Texts /\ Len(text) <= MaxTokensTotal
  BY KnownText DEF Between
<1>3. Takes(text, ts, 0) /\ Grown(text, ts, n) = text \o ts
  BY <1>1, <1>2, TakesNext, GrownFacts
<1> HIDE DEF f
<1>4. /\ o # MatcherError <=> n = 0 \/ (~Stopped(p) /\ Takes(text, ts, n))
      /\ o # MatcherError => TookSome(p, ts, n, o)
  <2> HIDE DEF text
  <2> QED BY <1>1, ConsumedSoFar DEF f, text
<1>5. q = CheckStop(o)
  BY DEF Consumed, f
<1> HIDE DEF o
<1>6. o # MatcherError <=> (~Stopped(p) \/ ts = <<>>) /\ Takes(text, ts, n)
  BY <1>1, <1>3, <1>4
<1>7. CASE o = MatcherError
  BY <1>5, <1>6, <1>7 DEF CheckStop
<1>8. CASE o # MatcherError
  <2>1. /\ o \in FreshSessions /\ Known(o) /\ o.llm_tokens = text \o ts
        /\ o.stop_reason = p.stop_reason
    BY <1>3, <1>4, <1>8 DEF TookSome
  <2>2. Concluded(o)
    <3>1. CASE Stopped(p)
      <4>1. n = 0
        BY <1>1, <1>6, <1>8, <3>1
      <4>2. Grown(text, ts, 0) = text
        BY <1>2, GrownFacts
      <4>3. o.llm_tokens = text
        BY <1>3, <2>1, <4>1, <4>2
      <4> QED BY <3>1, <4>3 DEF Concluded
    <3>2. CASE ~Stopped(p)
      BY <2>1, <3>2 DEF Concluded, Stopped
    <3> QED BY <3>1, <3>2
  <2>3. /\ q # MatcherError /\ q.llm_tokens = o.llm_tokens
        /\ Stopped(q) <=> Promise!Finished(q.llm_tokens)
    BY <1>5, <2>1, <2>2, StopsRight
  <2> QED BY <1>6, <1>8, <2>1, <2>3
<1> QED BY <1>7, <1>8

-----------------------------------------------------------------------------
(* As many tokens as the grammar allows.                                    *)

(* May the token at i follow those before it, none of which finished the    *)
(* text?                                                                    *)
GoodAt(text, ts, i) ==
  /\ i > 1 => ~Promise!Finished(Grown(text, ts, i - 1))
  /\ Promise!May(Grown(text, ts, i - 1), ts[i])
Furthest(text, ts, k) ==
  /\ k \in 0..Len(ts) /\ \A i \in 1..k : GoodAt(text, ts, i)
  /\ k < Len(ts) => ~GoodAt(text, ts, k + 1)

(* There is one such number of tokens.                                      *)
LEMMA FurthestOne ==
  ASSUME NEW text, NEW ts \in Texts
  PROVE  /\ \E k \in 0..Len(ts) : Furthest(text, ts, k)
         /\ \A k, m : Furthest(text, ts, k) /\ Furthest(text, ts, m) => k = m
<1> DEFINE n == Len(ts)
           Bad == {i \in 1..n : ~GoodAt(text, ts, i)}
<1>1. n \in Nat
  BY LenProperties DEF Texts
<1>2. \E k \in 0..n : Furthest(text, ts, k)
  <2>1. CASE Bad = {}
    <3>1. n \in 0..n /\ ~(n < n)
      BY <1>1
    <3>2. \A i \in 1..n : GoodAt(text, ts, i)
      BY <2>1
    <3> QED BY <3>1, <3>2 DEF Furthest
  <2>2. CASE Bad # {}
    <3>1. PICK i \in Bad : \A m \in Bad : i <= m
      <4>1. Bad \in SUBSET Nat
        BY <1>1
      <4> HIDE DEF Bad
      <4> QED BY <2>2, <4>1, LeastNumber
    <3>2. i \in 1..n /\ i - 1 \in 0..n /\ (i - 1) + 1 = i /\ i \in Nat
      BY <1>1, <3>1
    <3>3. \A j \in 1..(i - 1) : GoodAt(text, ts, j)
      <4>1. ASSUME NEW j \in 1..(i - 1), ~GoodAt(text, ts, j) PROVE FALSE
        <5>1. j \in 1..n /\ j < i
          BY <1>1, <3>2
        <5>2. i <= j
          BY <3>1, <4>1, <5>1
        <5> QED BY <3>2, <5>1, <5>2
      <4> QED BY <4>1
    <3>4. Furthest(text, ts, i - 1)
      BY <3>1, <3>2, <3>3 DEF Furthest
    <3> QED BY <3>2, <3>4
  <2> QED BY <2>1, <2>2
<1>3. ASSUME NEW k, NEW m, Furthest(text, ts, k), Furthest(text, ts, m) PROVE k = m
  <2>1. k \in 0..n /\ m \in 0..n
    BY <1>3 DEF Furthest
  <2>2. ASSUME k < m PROVE FALSE
    <3>1. k + 1 \in 1..m /\ k < n
      BY <1>1, <2>1, <2>2
    <3> QED BY <1>3, <3>1 DEF Furthest
  <2>3. ASSUME m < k PROVE FALSE
    <3>1. m + 1 \in 1..k /\ m < n
      BY <1>1, <2>1, <2>3
    <3> QED BY <1>3, <3>1 DEF Furthest
  <2> QED BY <1>1, <2>1, <2>2, <2>3
<1> QED BY <1>2, <1>3

(* A batch of one.                                                          *)
LEMMA TakesOne ==
  ASSUME NEW text \in Texts, Len(text) <= MaxTokensTotal, NEW t \in Tokens \cup {EOS}
  PROVE  /\ <<t>> \in Texts /\ EosLast(<<t>>) /\ Len(<<t>>) = 1 /\ <<t>> # <<>>
         /\ text \o <<t>> = Append(text, t)
         /\ Takes(text, <<t>>, 1) <=> Len(text) < MaxTokensTotal /\ Promise!May(text, t)
<1>1. <<t>> \in Texts /\ Len(<<t>>) = 1 /\ <<t>>[1] = t /\ <<t>> # <<>>
  <2>1. <<t>> \in Seq(Tokens \cup {EOS})
    BY Z3
  <2> QED BY <2>1 DEF Texts
<1>2. EosLast(<<t>>)
  BY <1>1 DEF EosLast
<1>3. text \o <<t>> = Append(text, t)
  BY AppendIsConcat DEF Texts
<1>4. Len(text) \in Nat /\ MaxTokensTotal \in Nat
  BY LenProperties, MatcherAssumption DEF Texts
<1>5. Grown(text, <<t>>, 0) = text
  BY <1>1, GrownFacts
<1>6. Takes(text, <<t>>, 0 + 1) <=>
        /\ Takes(text, <<t>>, 0) /\ Len(text) + 0 < MaxTokensTotal
        /\ Promise!May(Grown(text, <<t>>, 0), <<t>>[0 + 1])
  BY <1>1, TakesNext
<1>7. Takes(text, <<t>>, 0)
  BY <1>1, TakesNext
<1>8. 0 + 1 = 1 /\ Len(text) + 0 = Len(text)
  BY <1>4
<1> QED BY <1>1, <1>2, <1>3, <1>5, <1>6, <1>7, <1>8

(* What was taken of a batch that is tried.                                 *)
TriedOn(p, ts, i, r) ==
  /\ r.n = i /\ r.p \in FreshSessions /\ Between(r.p)
  /\ r.p.llm_tokens = Grown(p.llm_tokens, ts, i)
  /\ Len(p.llm_tokens) + i <= MaxTokensTotal
  /\ IF i = 0 THEN r.p = p ELSE Stopped(r.p) <=> Promise!Finished(r.p.llm_tokens)

(* One more token of the batch.                                             *)
LEMMA TryNextRight ==
  ASSUME ParserDecides, NEW p \in FreshSessions, ~Stopped(p),
         NEW ts \in Texts, NEW i \in 0..(Len(ts) - 1), NEW r \in Tries, TriedOn(p, ts, i, r),
         ~r.end, p.llm_tokens \in Texts,
         NEW u, u = TryNext(r, ts[i + 1])
  PROVE  IF GoodAt(p.llm_tokens, ts, i + 1)
         THEN IF Len(p.llm_tokens) + (i + 1) <= MaxTokensTotal
              THEN ~u.end /\ TriedOn(p, ts, i + 1, u)
              ELSE u.p = MatcherError
         ELSE u.end /\ TriedOn(p, ts, i, u)
<1> DEFINE text == p.llm_tokens
           now == r.p.llm_tokens
           t == ts[i + 1]
           q == Consumed(r.p, <<t>>)
<1>1. /\ r.p \in FreshSessions /\ Between(r.p) /\ Known(r.p) /\ now = Grown(text, ts, i)
      /\ r.n = i /\ r \in [p : Sessions, n : Nat, end : BOOLEAN]
      /\ text \in Texts /\ Len(text) \in Nat /\ MaxTokensTotal \in Nat /\ r.p # MatcherError
      /\ now \in Texts /\ Len(now) <= MaxTokensTotal
  <2>1. r.p \in FreshSessions /\ Between(r.p) /\ Known(r.p) /\ now = Grown(text, ts, i) /\ r.n = i
    BY DEF TriedOn, Between
  <2>2. Sane(r.p)
    BY <2>1 DEF FreshSessions
  <2> QED BY <2>1, <2>2, SaneParts, KnownText, LenProperties, MatcherAssumption DEF Tries, Texts
<1>2. Len(ts) \in Nat /\ i + 1 \in 1..Len(ts) /\ (i + 1) - 1 = i /\ i \in 0..Len(ts)
      /\ i \in 0..(Len(ts) - 1) /\ i \in Nat
  BY LenProperties DEF Texts
<1>3. t \in Tokens \cup {EOS}
  BY <1>2, ElementOfSeq DEF Texts
<1>4. GoodAt(text, ts, i + 1) <=> /\ i > 0 => ~Promise!Finished(now)
                                  /\ Promise!May(now, t)
  BY <1>1, <1>2 DEF GoodAt
<1>5. Stopped(r.p) <=> i > 0 /\ Promise!Finished(now)
  BY <1>2 DEF TriedOn
<1>6. ~Stopped(r.p) => (Validates(r.p, t) <=> Promise!May(now, t))
  <2>1. ~Stopped(r.p) => NoEos(now)
    BY <1>1 DEF Between
  <2> QED BY <1>1, <1>3, <2>1, ValidatesIs
<1>7. GoodAt(text, ts, i + 1) <=> ~Stopped(r.p) /\ Promise!May(now, t)
  BY <1>4, <1>5
<1>8. u = IF GoodAt(text, ts, i + 1) THEN [p |-> q, n |-> r.n + 1, end |-> FALSE]
          ELSE [r EXCEPT !.end = TRUE]
  BY <1>1, <1>6, <1>7 DEF TryNext
<1>9. CASE ~GoodAt(text, ts, i + 1)
  <2>1. u.end /\ u.p = r.p /\ u.n = r.n
    BY <1>1, <1>8, <1>9
  <2>2. TriedOn(p, ts, i, u)
    BY <2>1 DEF TriedOn
  <2> QED BY <1>9, <2>1, <2>2
<1>10. CASE GoodAt(text, ts, i + 1)
  <2>1. u.p = q /\ u.n = i + 1 /\ ~u.end
    BY <1>1, <1>8, <1>10
  <2>2. ~Stopped(r.p) /\ Promise!May(now, t) /\ Concluded(r.p)
    BY <1>7, <1>10 DEF Concluded
  <2>3. /\ <<t>> \in Texts /\ EosLast(<<t>>) /\ Len(<<t>>) = 1
        /\ now \o <<t>> = Append(now, t)
        /\ Takes(now, <<t>>, 1) <=> Len(now) < MaxTokensTotal /\ Promise!May(now, t)
    BY <1>1, <1>3, TakesOne
  <2>4. Len(now) = Len(text) + i /\ Append(now, t) = Grown(text, ts, i + 1)
    <3> HIDE DEF text, now, t
    <3>1. /\ Len(Grown(text, ts, i)) = Len(text) + i
          /\ Grown(text, ts, i + 1) = Append(Grown(text, ts, i), ts[i + 1])
      BY <1>1, <1>2, GrownFacts
    <3> QED BY <1>1, <3>1 DEF t
  <2> DEFINE one == <<t>>
  <2> HIDE DEF t, now, one
  <2>8. /\ one \in Texts /\ EosLast(one) /\ Len(one) = 1 /\ q = Consumed(r.p, one)
        /\ now \o one = Append(now, t)
        /\ Takes(now, one, 1) <=> Len(now) < MaxTokensTotal /\ Promise!May(now, t)
    BY <2>3 DEF one
  <2> HIDE DEF q
  <2>5. /\ q # MatcherError <=> /\ ~Stopped(r.p) \/ one = <<>>
                                /\ Takes(now, one, Len(one))
        /\ q # MatcherError => /\ q.llm_tokens = now \o one
                               /\ Stopped(q) <=> Promise!Finished(q.llm_tokens)
    BY <1>1, <2>2, <2>8, ConsumedRight DEF now
  <2>6. q # MatcherError <=> Len(text) + (i + 1) <= MaxTokensTotal
    <3>1. q # MatcherError <=> Len(now) < MaxTokensTotal
      BY <2>2, <2>5, <2>8
    <3>2. Len(now) < MaxTokensTotal <=> Len(text) + (i + 1) <= MaxTokensTotal
      <4>1. Len(text) \in Nat /\ MaxTokensTotal \in Nat /\ i \in Nat
        BY <1>1, <1>2
      <4> HIDE DEF text
      <4> QED BY <2>4, <4>1
    <3> QED BY <3>1, <3>2
  <2>7. ASSUME q # MatcherError PROVE TriedOn(p, ts, i + 1, u)
    <3>1. q \in FreshSessions /\ Between(q)
      BY <1>1, <2>7, <2>8, ConsumedTold
    <3>2. /\ q.llm_tokens = Grown(text, ts, i + 1)
          /\ Stopped(q) <=> Promise!Finished(q.llm_tokens)
      BY <2>4, <2>5, <2>7, <2>8
    <3>3. i + 1 # 0
      BY <1>2
    <3> QED BY <2>1, <2>6, <2>7, <3>1, <3>2, <3>3 DEF TriedOn
  <2> QED BY <1>10, <2>1, <2>6, <2>7
<1> QED BY <1>9, <1>10

(* A batch that is tried: as much of it is taken as the grammar allows, and *)
(* only the budget is a reason to fail.                                     *)
LEMMA TriedRight ==
  ASSUME ParserDecides, NEW p \in FreshSessions, Between(p), ~Stopped(p),
         NEW ts \in Texts, NEW k, Furthest(p.llm_tokens, ts, k),
         NEW r, r = TryConsumed(p, ts)
  PROVE  IF Len(p.llm_tokens) + k <= MaxTokensTotal THEN TriedOn(p, ts, k, r)
                                                    ELSE r.p = MatcherError
<1> DEFINE text == p.llm_tokens
           f == TriedUpTo(p, ts)
           N == Len(ts)
           Over == ~(Len(text) + k <= MaxTokensTotal)
           Shown(j) == \/ f[j].p = MatcherError /\ Over
                       \/ j <= k /\ ~f[j].end /\ TriedOn(p, ts, j, f[j])
                       \/ j > k /\ f[j].end /\ TriedOn(p, ts, k, f[j])
           Fine == {j \in Nat : Shown(j)}
<1>1. /\ text \in Texts /\ Len(text) \in Nat /\ Len(text) <= MaxTokensTotal
      /\ MaxTokensTotal \in Nat
  <2>1. text \in Texts /\ Len(text) <= MaxTokensTotal
    BY KnownText DEF Between
  <2> QED BY <2>1, LenProperties, MatcherAssumption DEF Texts
<1>2. /\ N \in Nat /\ k \in 0..N /\ \A i \in 1..k : GoodAt(text, ts, i)
      /\ k < N => ~GoodAt(text, ts, k + 1)
  BY LenProperties DEF Texts, Furthest
<1>3. /\ f[0] = [p |-> p, n |-> 0, end |-> FALSE]
      /\ \A j \in 1..N : f[j] = TryNext(f[j - 1], ts[j])
      /\ \A j \in 0..N : f[j] \in Tries
  <2>1. p \in Sessions
    BY DEF Sessions
  <2> QED BY <2>1, TriedSteps
<1> HIDE DEF f
<1>4. 0 \in Fine
  <2>1. Grown(text, ts, 0) = text
    BY <1>1, GrownFacts
  <2>2. f[0].p = p /\ f[0].n = 0 /\ ~f[0].end
    BY <1>3
  <2>3. TriedOn(p, ts, 0, f[0])
    BY <1>1, <2>1, <2>2 DEF TriedOn
  <2> QED BY <1>2, <2>2, <2>3
<1>5. ASSUME NEW j \in 0..(N - 1), j \in Fine PROVE j + 1 \in Fine
  <2> DEFINE o == f[j]
             u == f[j + 1]
  <2>1. j + 1 \in 1..N /\ (j + 1) - 1 = j /\ j \in 0..N /\ j \in Nat /\ j + 1 \in Nat
    BY <1>2
  <2>2. u = TryNext(o, ts[j + 1]) /\ o \in Tries
    BY <1>3, <2>1
  <2>3. Shown(j)
    BY <1>5
  <2>4. CASE o.p = MatcherError /\ Over
    <3>1. u = o
      BY <2>2, <2>4 DEF TryNext
    <3> QED BY <2>1, <2>4, <3>1
  <2>5. CASE j <= k /\ ~o.end /\ TriedOn(p, ts, j, o)
    <3> HIDE DEF o, u, text
    <3>1. IF GoodAt(text, ts, j + 1)
          THEN IF Len(text) + (j + 1) <= MaxTokensTotal
               THEN ~u.end /\ TriedOn(p, ts, j + 1, u)
               ELSE u.p = MatcherError
          ELSE u.end /\ TriedOn(p, ts, j, u)
      BY <1>1, <2>2, <2>5, TryNextRight DEF text
    <3>2. GoodAt(text, ts, j + 1) <=> j < k
      <4>1. j < k => j + 1 \in 1..k
        BY <1>2, <2>1
      <4>2. j = k => k < N
        BY <1>2, <2>1
      <4>3. j < k \/ j = k
        BY <1>2, <2>1, <2>5
      <4>4. ~(j < k /\ j = k)
        BY <1>2, <2>1
      <4> QED BY <1>2, <4>1, <4>2, <4>3, <4>4
    <3>3. CASE j < k
      <4>1. j + 1 <= k
        BY <1>2, <2>1, <3>3
      <4>2. ~(Len(text) + (j + 1) <= MaxTokensTotal) => Over
        <5>1. Len(text) \in Nat /\ MaxTokensTotal \in Nat /\ j \in Nat /\ k \in Nat
          BY <1>1, <1>2, <2>1
        <5> QED BY <4>1, <5>1
      <4> QED BY <2>1, <3>1, <3>2, <3>3, <4>1, <4>2 DEF u
    <3>4. CASE ~(j < k)
      <4>1. j = k /\ j + 1 > k
        BY <1>2, <2>1, <2>5, <3>4
      <4> QED BY <2>1, <3>1, <3>2, <3>4, <4>1 DEF u
    <3> QED BY <3>3, <3>4
  <2>6. CASE j > k /\ o.end /\ TriedOn(p, ts, k, o)
    <3>1. u = o
      BY <2>2, <2>6 DEF TryNext
    <3>2. j + 1 > k
      BY <1>2, <2>1, <2>6
    <3> QED BY <2>1, <2>6, <3>1, <3>2
  <2> QED BY <2>3, <2>4, <2>5, <2>6
<1>6. Shown(N)
  <2>1. \A j \in 0..N : j \in Fine
    <3> HIDE DEF Fine
    <3> QED BY <1>2, <1>4, <1>5, UpTo
  <2>2. N \in 0..N
    BY <1>2
  <2> QED BY <2>1, <2>2
<1>7. r = f[N]
  BY DEF TryConsumed, f
<1>8. CASE f[N].p = MatcherError /\ Over
  BY <1>7, <1>8
<1>9. CASE N <= k /\ ~f[N].end /\ TriedOn(p, ts, N, f[N])
  <2>1. N = k
    BY <1>2, <1>9
  <2>2. ~Over
    BY <1>9, <2>1 DEF TriedOn
  <2> QED BY <1>7, <1>9, <2>1, <2>2
<1>10. CASE N > k /\ f[N].end /\ TriedOn(p, ts, k, f[N])
  <2>1. ~Over
    BY <1>10 DEF TriedOn
  <2> QED BY <1>7, <1>10, <2>1
<1> QED BY <1>6, <1>8, <1>9, <1>10

(* A session that is stopped or failed takes none.                          *)
LEMMA TriedNone ==
  ASSUME NEW p \in Sessions, p = MatcherError \/ Stopped(p), NEW ts \in Texts,
         NEW r, r = TryConsumed(p, ts)
  PROVE  r.p = p /\ r.n = 0
<1> DEFINE f == TriedUpTo(p, ts)
           N == Len(ts)
           Fine == {j \in Nat : f[j].p = p /\ f[j].n = 0}
<1>1. /\ N \in Nat
      /\ f[0] = [p |-> p, n |-> 0, end |-> FALSE]
      /\ \A j \in 1..N : f[j] = TryNext(f[j - 1], ts[j])
      /\ \A j \in 0..N : f[j] \in Tries
  BY TriedSteps
<1> HIDE DEF f
<1>2. 0 \in Fine
  BY <1>1
<1>3. ASSUME NEW j \in 0..(N - 1), j \in Fine PROVE j + 1 \in Fine
  <2> DEFINE o == f[j]
             u == f[j + 1]
  <2>1. j + 1 \in 1..N /\ (j + 1) - 1 = j /\ j \in 0..N /\ j + 1 \in Nat
    BY <1>1
  <2>2. u = TryNext(o, ts[j + 1]) /\ o \in Tries /\ o.p = p /\ o.n = 0
    BY <1>1, <1>3, <2>1
  <2> HIDE DEF o, u
  <2>3. u = o \/ u = [o EXCEPT !.end = TRUE]
    BY <2>2 DEF TryNext
  <2>4. u.p = p /\ u.n = 0
    BY <2>2, <2>3 DEF Tries
  <2> QED BY <2>1, <2>4 DEF u
<1>4. \A j \in 0..N : j \in Fine
  <2> HIDE DEF Fine
  <2> QED BY <1>1, <1>2, <1>3, UpTo
<1>5. r = f[N] /\ N \in 0..N
  BY <1>1 DEF TryConsumed, f
<1> QED BY <1>4, <1>5

-----------------------------------------------------------------------------
(* Tokens taken back.                                                       *)

(* A rollback succeeds exactly when the session has the tokens.             *)
LEMMA RollbackOk ==
  ASSUME NEW p \in FreshSessions, Known(p), NEW n \in Nat, n # 0,
         NEW q, q = RollbackTokens(p, n)
  PROVE  /\ q # MatcherError <=> n <= Len(p.llm_tokens)
         /\ q # MatcherError =>
              /\ q.llm_tokens = SubSeq(p.llm_tokens, 1, Len(p.llm_tokens) - n)
              /\ q.stop_reason = "NotStopped"
<1> DEFINE keep == KeptTokens(p, n)
           kept == SubSeq(p.llm_tokens, 1, keep)
           len == Len(p.llm_tokens)
           bs == BytesOf(p.llm_tokens)
           u == DroppedBytes(p, n)
<1>1. Sane(p) /\ Told(p, bs) /\ bs \in Bytes
  BY KnownText
<1>2. len \in Nat /\ keep = len - n
  BY <1>1, SaneParts DEF KeptTokens
<1>3. ASSUME q # MatcherError
      PROVE  /\ n <= len /\ q.llm_tokens = SubSeq(p.llm_tokens, 1, len - n)
             /\ q.stop_reason = "NotStopped"
  <2>1. TookBack(p, n, q)
    BY <1>1, <1>3, RollbackFacts
  <2>2. keep \in 0..len /\ q.llm_tokens = kept /\ q.stop_reason = "NotStopped"
    BY <2>1 DEF TookBack
  <2>3. n <= len
    <3> HIDE DEF keep, len
    <3> QED BY <1>2, <2>2
  <2> QED BY <1>2, <2>2, <2>3
<1>4. ASSUME n <= len PROVE q # MatcherError
  <2>1. keep \in 0..len
    <3>1. n <= len
      BY <1>4
    <3> HIDE DEF keep, len
    <3> QED BY <1>2, <3>1
  <2>2. u \in Bytes /\ kept \in Texts /\ bs = BytesOf(kept) \o u
    BY <1>1, <2>1, KeptAndDropped
  <2>3. BytesOf(kept) \in Bytes
    BY <2>2, BytesOfConcat
  <2>4. LexerBytesOk(p)
    BY <1>1 DEF Told
  <2>5. p.applied = Len(bs)
    BY <1>1, AppliedIs
  <2>6. Len(u) <= p.applied
    <3> DEFINE a == BytesOf(kept)
    <3>1. bs = a \o u /\ a \in Seq(Byte) /\ u \in Seq(Byte)
      BY <2>2, <2>3 DEF Bytes
    <3> HIDE DEF a, bs, u
    <3>2. Len(bs) = Len(a) + Len(u) /\ Len(a) \in Nat /\ Len(u) \in Nat
      BY <3>1, ConcatProperties, LenProperties
    <3> QED BY <2>5, <3>2
  <2> QED BY <1>1, <2>1, <2>4, <2>6, RollbackWorks
<1> QED BY <1>3, <1>4

-----------------------------------------------------------------------------
(* The mask.                                                                *)

(* Where no token is forced, the forced bytes are all the prefix.           *)
LEMMA PrefixIsForced ==
  ASSUME BytesAreTokens, NEW p, ForcedBytes(p) \in Bytes, p.llm_tokens \in Texts,
         FfTokensOf(p).tokens = <<>>
  PROVE  FfTokensOf(p).prefix = ForcedBytes(p)
<1> DEFINE forced == ForcedBytes(p)
           fresh == FreshOf(p)
           n == ChopTokens(p.chart, fresh)
<1>1. CASE forced = <<>>
  BY <1>1, FfTokensTyped DEF NoFfTokens
<1>2. CASE forced # <<>> /\ ~p.tokenize_is_canonical
  BY <1>2, FfTokensAre
<1>3. CASE forced # <<>> /\ p.tokenize_is_canonical
  <2>1. fresh \in Seq(Tokens) /\ FfTokensOf(p) = Chopped(fresh, n)
    BY <1>3, FfTokensAre
  <2>2. FlattenSeq(fresh) = forced
    BY FreshOfIs, GreedyIs
  <2>3. n \in 0..Len(fresh) /\ Len(fresh) \in Nat
    BY <2>1, ChopTyped, LenProperties
  <2>4. SubSeq(fresh, 1, Len(fresh) - n) = <<>> /\ FfTokensOf(p).prefix = FlattenSeq(LastN(fresh, n))
    BY <2>1 DEF Chopped
  <2>5. Len(fresh) = n
    <3> HIDE DEF fresh, n
    <3>1. Len(fresh) - n \in 0..Len(fresh)
      BY <2>3
    <3>2. Len(SubSeq(fresh, 1, Len(fresh) - n)) = Len(fresh) - n
      BY <2>1, <3>1, CutAt
    <3>3. Len(SubSeq(fresh, 1, Len(fresh) - n)) = 0
      BY <2>4, EmptySeq
    <3> QED BY <2>3, <3>2, <3>3
  <2>6. LastN(fresh, n) = fresh
    <3> HIDE DEF fresh, n
    <3> QED BY <2>3, <2>5 DEF LastN
  <2> QED BY <2>2, <2>4, <2>6
<1> QED BY <1>1, <1>2, <1>3

(* The first of the tokens made of some bytes.                              *)
LEMMA FirstBest ==
  ASSUME NEW bs \in Bytes, NEW ts, Greedily(ts, bs), ts # <<>>
  PROVE  ts[1] \in Tokens /\ Best(ts[1], bs) /\ IsPrefix(ts[1], bs)
<1>1. ts \in Seq(Tokens) /\ Len(ts) \in Nat
  BY LenProperties DEF Greedily
<1>2. 1 \in 1..Len(ts)
  BY <1>1, EmptySeq
<1>3. Place(ts, 0) = 0
  <2>1. SubSeq(ts, 1, 0) = <<>>
    BY <1>1, CutAt, EmptySeq
  <2>2. FlattenSeq(<<>>) = <<>>
    BY JoinNone
  <2> QED BY <2>1, <2>2, EmptySeq DEF Place
<1>4. From(bs, 0) = bs
  BY WholeSeq DEF From, Bytes
<1>5. Best(ts[1], From(bs, Place(ts, 0)))
  <2>1. 1 - 1 = 0
    OBVIOUS
  <2> QED BY <1>2, <2>1 DEF Greedily
<1> QED BY <1>3, <1>4, <1>5 DEF Best

(* A forced token is the longest at the beginning of the forced bytes.      *)
LEMMA ForcedHead ==
  ASSUME BytesAreTokens, NEW p, ForcedBytes(p) \in Bytes, p.llm_tokens \in Texts,
         FfTokensOf(p).tokens # <<>>
  PROVE  LET t == Head(FfTokensOf(p).tokens) IN
         t \in Tokens /\ Best(t, ForcedBytes(p)) /\ IsPrefix(t, ForcedBytes(p))
<1> DEFINE forced == ForcedBytes(p)
           fresh == FreshOf(p)
           n == ChopTokens(p.chart, fresh)
           ff == FfTokensOf(p).tokens
<1>1. fresh \in Seq(Tokens) /\ ff = SubSeq(fresh, 1, Len(fresh) - n)
  <2>1. forced # <<>> /\ p.tokenize_is_canonical
    BY FfTokensAre DEF NoFfTokens
  <2> QED BY <2>1, FfTokensAre DEF Chopped
<1>2. n \in 0..Len(fresh) /\ Len(fresh) \in Nat
  BY <1>1, ChopTyped, LenProperties
<1>3. Greedily(fresh, forced)
  BY FreshOfIs, GreedyIs
<1>4. ff # <<>>
  OBVIOUS
<1> HIDE DEF fresh, n, ff, forced
<1>5. /\ Len(ff) = Len(fresh) - n /\ ff \in Seq(Tokens)
      /\ \A i \in 1..(Len(fresh) - n) : ff[i] = fresh[i]
  <2>1. Len(fresh) - n \in 0..Len(fresh)
    BY <1>2
  <2> QED BY <1>1, <2>1, CutAt
<1>6. Len(ff) # 0 /\ Len(ff) \in Nat
  BY <1>4, <1>5, EmptySeq, LenProperties
<1>7. 1 \in 1..(Len(fresh) - n) /\ fresh # <<>>
  BY <1>2, <1>5, <1>6, EmptySeq
<1>8. Head(ff) = ff[1]
  BY <1>4, <1>5
<1>9. Head(ff) = fresh[1]
  BY <1>5, <1>7, <1>8
<1>10. forced \in Bytes
  BY DEF forced
<1>11. fresh[1] \in Tokens /\ Best(fresh[1], forced) /\ IsPrefix(fresh[1], forced)
  BY <1>3, <1>7, <1>10, FirstBest
<1> QED BY <1>9, <1>11 DEF ff, forced

(* The tokens that may follow, as the client sees them.                     *)
Followers(ts) == {t \in Tokens \cup {EOS} : Promise!May(ts, t)}

(* There always is one.                                                     *)
LEMMA FollowersExist ==
  ASSUME ParserDecides, NeverStuck, NEW ts, Short(ts), Fresh(BytesOf(ts)).ok
  PROVE  Followers(ts) # {}
<1> DEFINE bs == BytesOf(ts)
<1>1. ts \in Texts /\ NoEos(ts) /\ Len(ts) <= MaxTokensTotal /\ Len(ts) \in Nat
      /\ MaxTokensTotal \in Nat
  BY LenProperties, MatcherAssumption DEF Short, Texts
<1>2. Len(ts) <= MaxTokensTotal + 1
  <2> HIDE DEF Short
  <2> QED BY <1>1
<1>3. bs \in ViablePrefixes
  BY <1>1, <1>2, Decided
<1>4. ts \in Readable
  BY <1>1, <1>2, ReadableIs
<1>5. bs \in Words \/ \E t \in Tokens : bs \o t \in ViablePrefixes
  BY <1>3, <1>4 DEF NeverStuck
<1>6. CASE bs \in Words
  <2>1. Promise!May(ts, EOS)
    BY <1>6, MayIs
  <2> QED BY <2>1 DEF Followers
<1>7. ASSUME NEW t \in Tokens, bs \o t \in ViablePrefixes PROVE Followers(ts) # {}
  <2>1. t # EOS
    BY MatcherAssumption
  <2>2. Promise!May(ts, t)
    BY <1>7, <2>1, PromiseBytes DEF Promise!May
  <2> QED BY <2>2 DEF Followers
<1> QED BY <1>5, <1>6, <1>7

(* The mask of a text that no EOS ended.                                    *)
LEMMA MaskRight ==
  ASSUME ParserDecides, NeverStuck, BytesAreTokens,
         NEW p \in FreshSessions, Known(p), NoEos(p.llm_tokens)
  PROVE  /\ WalkedMask(p) # {} /\ WalkedMask(p) \subseteq Followers(p.llm_tokens)
         /\ FfTokensNow(p).tokens = <<>> => WalkedMask(p) = Followers(p.llm_tokens)
<1> DEFINE f == Forced(p)
           ts == p.llm_tokens
           bs == BytesOf(ts)
           forced == ForcedBytes(f)
           ff == FfTokensOf(f)
           may == Followers(ts)
<1>1. /\ Sane(p) /\ Cached(p) /\ ts \in Texts /\ Short(ts) /\ Fresh(bs).ok
  BY KnownText
<1>2. /\ f \in FreshSessions /\ Known(f) /\ f.llm_tokens = ts /\ FfTokensNow(p) = ff
  BY ForcedKnown
<1>3. /\ Sane(f) /\ Told(f, bs) /\ bs \in Bytes /\ ~f.lexer_stack_top_eos
  <2> HIDE DEF f
  <2> QED BY <1>2, KnownText
<1>4. forced \in Bytes /\ f.llm_tokens \in Texts
  <2> HIDE DEF f
  <2> QED BY <1>1, <1>2, <1>3, ForcedBytesAre
<1>5. /\ WalkedMask(p) = IF ff.tokens # <<>> THEN {Head(ff.tokens)}
                   ELSE WalkTokens(f.chart, ff.prefix) \cup (IF MayEnd(f) THEN {EOS} ELSE {})
  BY <1>1, MaskIs
<1>6. /\ \A t \in Tokens : Promise!May(ts, t) <=> Fresh(bs \o t).ok
      /\ Promise!May(ts, EOS) <=> IsAccepting(Fresh(bs).chart)
  BY <1>1, MayIs
<1> HIDE DEF f
<1>7. may # {}
  BY <1>1, FollowersExist
<1>8. CASE ff.tokens = <<>>
  <2>1. ff.prefix = forced
    BY <1>4, <1>8, PrefixIsForced
  <2>2. MayEnd(f) <=> IsAccepting(Fresh(bs).chart)
    <3> HIDE DEF bs
    <3> QED BY <1>3, EndAllowed
  <2>3. \A t \in Tokens : t \in WalkTokens(f.chart, forced) <=> Fresh(bs \o t).ok
    <3> SUFFICES ASSUME NEW t \in Tokens
                 PROVE  t \in WalkTokens(f.chart, forced) <=> Fresh(bs \o t).ok
      OBVIOUS
    <3>1. (\/ IsPrefix(t, forced)
           \/ IsPrefix(forced, t) /\ Allows(f.chart, SubSeq(t, Len(forced) + 1, Len(t))))
          <=> Fresh(bs \o t).ok
      <4> HIDE DEF bs
      <4> QED BY <1>3, TokenAllowed
    <3> HIDE DEF bs, forced
    <3> QED BY <3>1 DEF WalkTokens
  <2>4. WalkTokens(f.chart, forced) \subseteq Tokens
    <3> HIDE DEF forced
    <3> QED BY DEF WalkTokens
  <2>5. WalkedMask(p) = WalkTokens(f.chart, forced) \cup (IF MayEnd(f) THEN {EOS} ELSE {})
    BY <1>5, <1>8, <2>1
  <2> HIDE DEF bs, forced, ts
  <2>6. EOS \notin Tokens
    BY MatcherAssumption
  <2>7. WalkedMask(p) = may
    BY <1>6, <2>2, <2>3, <2>4, <2>5, <2>6, Zenon DEF Followers
  <2> QED BY <1>7, <2>7 DEF ts
<1>9. CASE ff.tokens # <<>>
  <2> DEFINE t == Head(ff.tokens)
  <2>1. t \in Tokens /\ IsPrefix(t, forced)
    BY <1>4, <1>9, ForcedHead
  <2>2. WalkedMask(p) = {t}
    BY <1>5, <1>9
  <2> HIDE DEF t
  <2>3. Fresh(bs \o t).ok
    <3> HIDE DEF bs
    <3> QED BY <1>3, <2>1, TokenAllowed
  <2>4. t \in may
    BY <1>6, <2>1, <2>3 DEF Followers
  <2> QED BY <1>2, <1>9, <2>2, <2>4
<1> QED BY <1>8, <1>9

-----------------------------------------------------------------------------
(* What the calls leave.                                                    *)

(* A session whose text and stop are those of another.                      *)
Quiet(p, q) ==
  q # MatcherError /\ q.llm_tokens = p.llm_tokens /\ q.stop_reason = p.stop_reason

(* Only caches are filled by is_accepting() and by looking at the forced    *)
(* tokens, and force_bytes() only forces bytes.                             *)
LEMMA CachesQuiet ==
  ASSUME NEW p \in FreshSessions, NEW ff
  PROVE  /\ Quiet(p, WithAccepting(p))
         /\ WithAccepting(p).is_accepting_cache = MayEnd(p)
         /\ [p EXCEPT !.ff_tokens_cache = ff].llm_tokens = p.llm_tokens
         /\ [p EXCEPT !.ff_tokens_cache = ff].stop_reason = p.stop_reason
         /\ [p EXCEPT !.ff_tokens_cache = ff].chart = p.chart
<1>1. p \in TokenParser /\ Sane(p) /\ AcceptingFresh(p)
  BY DEF FreshSessions, Cached
<1>2. WithAccepting(p) \in SaneSessions /\ WithAccepting(p).is_accepting_cache = MayEnd(p)
  BY <1>1, AcceptingRight
<1>3. WithAccepting(p) # MatcherError
  BY <1>2, SessionAssumption DEF SaneSessions
<1>4. /\ WithAccepting(p).llm_tokens = p.llm_tokens
      /\ WithAccepting(p).stop_reason = p.stop_reason
  <2> DEFINE a == Accepting(p)
  <2> HIDE DEF a
  <2>1. WithAccepting(p) = [p EXCEPT !.is_accepting_cache = a]
    BY DEF WithAccepting, a
  <2> QED BY <1>1, <2>1 DEF TokenParser
<1>5. /\ [p EXCEPT !.ff_tokens_cache = ff].llm_tokens = p.llm_tokens
      /\ [p EXCEPT !.ff_tokens_cache = ff].stop_reason = p.stop_reason
      /\ [p EXCEPT !.ff_tokens_cache = ff].chart = p.chart
  BY <1>1 DEF TokenParser
<1> QED BY <1>2, <1>3, <1>4, <1>5 DEF Quiet

(* force_bytes() only forces bytes.                                         *)
LEMMA ForceBytesQuiet ==
  ASSUME NEW p \in FreshSessions
  PROVE  Quiet(p, ForceBytes(p))
<1>1. ForceBytes(p) \in FreshSessions /\ ForcedOn(p, ForceBytes(p))
  BY ForceBytesFresh
<1>2. ForceBytes(p) # MatcherError
  BY <1>1, SessionAssumption DEF FreshSessions
<1> QED BY <1>1, <1>2 DEF ForcedOn, Quiet

(* compute_ff_tokens() changes the caches alone.                            *)
LEMMA WithFfTokensQuiet ==
  ASSUME NEW p \in FreshSessions
  PROVE  Quiet(p, WithFfTokens(p))
<1>1. WithFfTokens(p) \in FreshSessions
  BY WithFfTokensFresh
<1>2. WithFfTokens(p) # MatcherError
  BY <1>1, SessionAssumption DEF FreshSessions
<1>3. CASE p.tokenize_is_canonical
  <2> DEFINE f == ForceBytes(p)
             ff == FfTokensOf(f)
  <2>1. f \in FreshSessions /\ Quiet(p, f)
    BY ForceBytesFresh, ForceBytesQuiet
  <2>2. WithFfTokens(p) = [f EXCEPT !.ff_tokens_cache = ff]
    BY <1>3 DEF WithFfTokens
  <2> HIDE DEF f, ff
  <2> QED BY <1>2, <2>1, <2>2, CachesQuiet DEF Quiet
<1>4. CASE ~p.tokenize_is_canonical
  BY <1>2, <1>4 DEF WithFfTokens, Quiet
<1> QED BY <1>3, <1>4

(* compute_mask() succeeds exactly in a session that is not stopped, if its *)
(* mask has a token.                                                        *)
LEMMA AfterMaskRight ==
  ASSUME NEW p \in FreshSessions, Between(p), ~Stopped(p) => Mask(p) # {},
         NEW r, r = SessionAfterMask(p)
  PROVE  /\ r # MatcherError <=> ~Stopped(p)
         /\ r # MatcherError => Quiet(p, r)
<1> DEFINE f == Forced(p)
           ff == FfTokensNow(p)
           q == [f EXCEPT !.ff_tokens_cache = None]
<1>1. f \in FreshSessions /\ f.llm_tokens = p.llm_tokens /\ f.stop_reason = p.stop_reason
  BY ForcedKnown DEF Between
<1>2. /\ r = IF Stopped(p) THEN MatcherError ELSE AfterMask(q, ff)
      /\ Mask(p) = MaskWith(f, ff)
  BY DEF SessionAfterMask, Mask
<1> HIDE DEF f, ff
<1>3. q \in FreshSessions /\ q.chart = f.chart /\ q.llm_tokens = p.llm_tokens
      /\ q.stop_reason = p.stop_reason
  <2>1. Sane(f) /\ Cached(f)
    BY <1>1 DEF FreshSessions
  <2>2. q \in FreshSessions
    BY <2>1, CacheTokens
  <2> QED BY <1>1, <2>2, CachesQuiet
<1>4. ASSUME Stopped(p) PROVE r = MatcherError
  BY <1>2, <1>4
<1>5. ASSUME ~Stopped(p) PROVE Quiet(p, r)
  <2>1. Mask(p) # {}
    BY <1>5
  <2>2. Accepting(q) = Accepting(f)
    <3>1. Accepting(q) = MayEnd(q) /\ Accepting(f) = MayEnd(f)
      BY <1>1, <1>3, AcceptingRight DEF FreshSessions, Cached
    <3>2. f \in TokenParser
      BY <1>1 DEF FreshSessions
    <3>3. q.bytes = f.bytes /\ q.applied = f.applied
      BY <3>2 DEF TokenParser
    <3> QED BY <1>3, <3>1, <3>3 DEF MayEnd, ForcedBytes
  <2>3. MaskWith(q, ff) = MaskWith(f, ff)
    BY <1>3, <2>2 DEF MaskWith, MaskFrom
  <2> HIDE DEF q
  <2>4. r = IF ff.tokens # <<>> THEN q ELSE WithAccepting(q)
    BY <1>2, <1>5, <2>1, <2>3 DEF AfterMask
  <2>5. Quiet(q, q) /\ Quiet(q, WithAccepting(q))
    <3>1. q # MatcherError
      BY <1>3, SessionAssumption DEF FreshSessions
    <3> QED BY <1>3, <3>1, CachesQuiet DEF Quiet
  <2> QED BY <1>3, <2>4, <2>5 DEF Quiet
<1> QED BY <1>4, <1>5 DEF Quiet

-----------------------------------------------------------------------------
(* The calls answer as Session says.                                        *)

(* What is known of a session between the calls of a client: a stop means   *)
(* that the text is finished; and a mask is only cached of texts that can   *)
(* be read.                                                                 *)
BiasRead == bias_cache # None => \E ts \in Readable : bias_cache.text = BytesOf(ts)
SessionPromised ==
  SessionTold /\ BiasKept /\ BiasRead /\ (~Failed => Concluded(session))

(* What a client sees of a session.                                         *)
TextOf(p) == IF p = MatcherError THEN <<>> ELSE p.llm_tokens
StatusOf(p) ==
  IF p = MatcherError THEN "failed" ELSE IF Stopped(p) THEN "done" ELSE "running"

(* Tokens consumed.                                                         *)
LEMMA ConsumePromised ==
  ASSUME ParserDecides, SessionPromised, NEW ts \in Texts, EosLast(ts), ConsumeTokens(ts)
  PROVE  (~Failed => Concluded(session))' /\ Promise!ConsumeTokens(ts)
<1> DEFINE text == TextOf(session)
           status == StatusOf(session)
           fine == /\ status = "running" \/ (status = "done" /\ ts = <<>>)
                   /\ Takes(text, ts, Len(ts))
<1>1. /\ session' = IF Failed THEN session ELSE Consumed(session, ts)
      /\ reply' = Reply("consume", ts, 0, IF session' = MatcherError THEN Failure ELSE 0)
  BY DEF ConsumeTokens, Answer
<1>2. /\ session' # MatcherError <=> fine
      /\ fine => /\ session'.llm_tokens = text \o ts
                 /\ Stopped(session') <=> Promise!Finished(session'.llm_tokens)
  <2>1. CASE Failed
    BY <1>1, <2>1 DEF Failed, StatusOf
  <2>2. CASE ~Failed
    <3>1. session \in FreshSessions /\ Between(session) /\ Concluded(session)
      BY <2>2, NotFailedTold DEF SessionPromised
    <3>2. session' = Consumed(session, ts) /\ text = session.llm_tokens
          /\ status = IF Stopped(session) THEN "done" ELSE "running"
      BY <1>1, <2>2 DEF Failed, TextOf, StatusOf
    <3>3. fine <=> (~Stopped(session) \/ ts = <<>>) /\ Takes(session.llm_tokens, ts, Len(ts))
      BY <3>2
    <3> HIDE DEF fine, text, status
    <3> QED BY <3>1, <3>2, <3>3, ConsumedRight
  <2> QED BY <2>1, <2>2
<1>3. (~Failed => Concluded(session))'
  BY <1>2 DEF Failed, Concluded
<1>4. Promise!ConsumeTokens(ts)
  <2>1. text = (IF Failed THEN <<>> ELSE session.llm_tokens)
        /\ status = (IF Failed THEN "failed" ELSE IF Stopped(session) THEN "done" ELSE "running")
    BY DEF TextOf, StatusOf, Failed
  <2>2. fine <=> /\ status = "running" \/ (status = "done" /\ ts = <<>>)
                 /\ Len(text) + Len(ts) <= MaxTokensTotal
                 /\ \A i \in 1..Len(ts) : Promise!May(text \o SubSeq(ts, 1, i - 1), ts[i])
    BY DEF Takes, Grown
  <2> HIDE DEF text, status, fine
  <2> QED BY <1>1, <1>2, <2>1, <2>2
       DEF Promise!ConsumeTokens, Promise!Grow, Promise!FailForGood, Promise!Reply, Reply,
           Promise!Failure, Failure, Failed
<1> QED BY <1>3, <1>4

(* Tokens taken back.                                                       *)
LEMMA RollbackPromised ==
  ASSUME SessionPromised, NEW n \in 0..MaxTokensTotal + 1, Rollback(n)
  PROVE  (~Failed => Concluded(session))' /\ Promise!Rollback(n)
<1>1. /\ session' = IF Failed THEN session ELSE RollbackTokens(session, n)
      /\ reply' = Reply("rollback", <<>>, n, IF session' = MatcherError THEN Failure ELSE 0)
  BY DEF Rollback, Answer
<1>2. n \in Nat
  BY MatcherAssumption
<1>3. CASE Failed
  <2>1. session' = session /\ session' = MatcherError
    BY <1>1, <1>3 DEF Failed
  <2> QED BY <1>1, <1>3, <2>1
       DEF Promise!Rollback, Promise!FailForGood, Promise!Reply, Reply,
           Promise!Failure, Failure, Failed
<1>4. CASE ~Failed /\ n = 0
  <2>1. session' = session /\ session' # MatcherError
    BY <1>1, <1>4 DEF RollbackTokens, Failed
  <2>2. session \in FreshSessions
    BY <1>4, NotFailedTold DEF SessionPromised
  <2>3. Len(session.llm_tokens) \in Nat
    BY <2>2, SaneParts DEF FreshSessions
  <2>4. n <= Len(session.llm_tokens)
    BY <1>4, <2>3
  <2>5. (~Failed => Concluded(session))'
    BY <1>4, <2>1 DEF SessionPromised, Failed, Concluded
  <2> QED BY <1>1, <1>4, <2>1, <2>4, <2>5
       DEF Promise!Rollback, Promise!Stay, Promise!Reply, Reply,
           Promise!Failure, Failure, Failed, Stopped
<1>5. CASE ~Failed /\ n # 0
  <2>1. session \in FreshSessions /\ Known(session) /\ session' = RollbackTokens(session, n)
    BY <1>1, <1>5, NotFailedTold DEF SessionPromised, Between
  <2>2. /\ session' # MatcherError <=> n <= Len(session.llm_tokens)
        /\ session' # MatcherError =>
              /\ session'.llm_tokens = SubSeq(session.llm_tokens, 1, Len(session.llm_tokens) - n)
              /\ session'.stop_reason = "NotStopped"
    BY <1>2, <1>5, <2>1, RollbackOk
  <2>3. (~Failed => Concluded(session))'
    BY <2>2 DEF Failed, Concluded, Stopped
  <2> QED BY <1>1, <1>5, <2>2, <2>3
       DEF Promise!Rollback, Promise!FailForGood, Promise!Reply, Reply,
           Promise!Failure, Failure, Failed, Stopped
<1> QED BY <1>3, <1>4, <1>5

(* As many tokens consumed as the grammar allows.                           *)
LEMMA TryPromised ==
  ASSUME ParserDecides, SessionPromised, NEW ts \in Texts, TryConsumeTokens(ts)
  PROVE  (~Failed => Concluded(session))' /\ Promise!TryConsumeTokens(ts)
<1> DEFINE text == IF Failed THEN <<>> ELSE session.llm_tokens
           status == IF Failed THEN "failed" ELSE IF Stopped(session) THEN "done" ELSE "running"
           before(i) == text \o SubSeq(ts, 1, i - 1)
           good(i) == /\ i > 1 => ~Promise!Finished(before(i))
                      /\ Promise!May(before(i), ts[i])
           k == CHOOSE n \in 0..Len(ts) :
                  /\ \A i \in 1..n : good(i)
                  /\ n < Len(ts) => ~good(n + 1)
           fine == status # "failed" /\ (status = "done" \/ Len(text) + k <= MaxTokensTotal)
           count == IF status = "done" THEN 0 ELSE k
           r == TryConsumed(session, ts)
<1>1. Promise!TryConsumeTokens(ts) <=>
        /\ IF ~fine THEN Promise!FailForGood
           ELSE IF count = 0 THEN Promise!Stay ELSE Promise!Grow(SubSeq(ts, 1, count))
        /\ reply' = Promise!Reply("try", ts, 0, IF fine THEN count ELSE Promise!Failure)
  BY DEF Promise!TryConsumeTokens
<1>2. session' = r.p /\ reply' = Reply("try", ts, 0, IF r.p = MatcherError THEN Failure ELSE r.n)
  BY DEF TryConsumeTokens, Answer
<1>3. session \in Sessions
  BY DEF SessionPromised, SessionTold, Knowing, Sessions
<1>4. Len(ts) \in Nat
  BY LenProperties DEF Texts
<1>5. k \in 0..Len(ts) /\ Furthest(text, ts, k)
  <2>1. \A i : good(i) <=> GoodAt(text, ts, i)
    BY DEF GoodAt, Grown
  <2>2. PICK m \in 0..Len(ts) : Furthest(text, ts, m)
    BY FurthestOne
  <2> HIDE DEF good, text
  <2>3. \E n \in 0..Len(ts) : (\A i \in 1..n : good(i)) /\ (n < Len(ts) => ~good(n + 1))
    <3>1. (\A i \in 1..m : good(i)) /\ (m < Len(ts) => ~good(m + 1))
      BY <2>1, <2>2 DEF Furthest
    <3> QED BY <3>1
  <2>4. /\ k \in 0..Len(ts)
        /\ \A i \in 1..k : good(i)
        /\ k < Len(ts) => ~good(k + 1)
    BY <2>3, Zenon
  <2> HIDE DEF k
  <2> QED BY <2>1, <2>4 DEF Furthest
<1> HIDE DEF k, r
<1>6. CASE Failed
  <2>1. r.p = MatcherError
    BY <1>3, <1>6, TriedNone DEF Failed, r
  <2>2. ~fine
    BY <1>6
  <2> QED BY <1>1, <1>2, <1>6, <2>1, <2>2
       DEF Promise!FailForGood, Promise!Reply, Reply, Promise!Failure, Failure, Failed
<1>7. CASE ~Failed /\ Stopped(session)
  <2>1. r.p = session /\ r.n = 0
    BY <1>3, <1>7, TriedNone DEF r
  <2>2. fine /\ count = 0
    BY <1>7
  <2>3. session' = session /\ reply' = Reply("try", ts, 0, 0)
    BY <1>2, <1>7, <2>1 DEF Failed
  <2>4. (~Failed => Concluded(session))'
    BY <1>7, <2>3 DEF SessionPromised, Failed, Concluded
  <2> HIDE DEF fine, count
  <2> QED BY <1>1, <2>2, <2>3, <2>4
       DEF Promise!Stay, Promise!Reply, Reply, Failed, Stopped
<1>8. CASE ~Failed /\ ~Stopped(session)
  <2>1. /\ session \in FreshSessions /\ Between(session) /\ text = session.llm_tokens
        /\ status = "running"
    BY <1>8, NotFailedTold DEF SessionPromised
  <2>2. (fine <=> Len(text) + k <= MaxTokensTotal) /\ count = k
    BY <2>1
  <2> HIDE DEF text, status, fine, count
  <2>3. IF Len(text) + k <= MaxTokensTotal THEN TriedOn(session, ts, k, r) ELSE r.p = MatcherError
    BY <1>5, <1>8, <2>1, TriedRight DEF r
  <2>4. CASE ~fine
    <3>1. session' = MatcherError /\ reply' = Reply("try", ts, 0, Failure)
      BY <1>2, <2>2, <2>3, <2>4
    <3> QED BY <1>1, <2>4, <3>1
         DEF Promise!FailForGood, Promise!Reply, Reply, Promise!Failure, Failure, Failed
  <2>5. CASE fine
    <3>1. /\ r.n = k /\ r.p \in FreshSessions /\ r.p.llm_tokens = text \o SubSeq(ts, 1, k)
          /\ IF k = 0 THEN r.p = session ELSE Stopped(r.p) <=> Promise!Finished(r.p.llm_tokens)
      BY <2>1, <2>2, <2>3, <2>5 DEF TriedOn, Grown
    <3>2. r.p # MatcherError
      BY <3>1, SessionAssumption DEF FreshSessions
    <3>3. session' = r.p /\ session' # MatcherError /\ reply' = Reply("try", ts, 0, k)
      BY <1>2, <3>1, <3>2
    <3>4. (~Failed => Concluded(session))'
      <4>1. Concluded(session)
        BY <1>8 DEF SessionPromised
      <4> QED BY <3>1, <3>3, <4>1 DEF Failed, Concluded
    <3>5. CASE k = 0
      <4>1. session' = session
        BY <3>1, <3>3, <3>5
      <4> QED BY <1>1, <2>2, <2>5, <3>3, <3>4, <3>5, <4>1
           DEF Promise!Stay, Promise!Reply, Reply, Failed, Stopped
    <3>6. CASE k # 0
      <4>1. session'.llm_tokens = text \o SubSeq(ts, 1, k)
            /\ (Stopped(session') <=> Promise!Finished(session'.llm_tokens))
        BY <3>1, <3>3, <3>6
      <4>2. Promise!Grow(SubSeq(ts, 1, k))
        BY <1>8, <3>3, <4>1 DEF Promise!Grow, Failed, text
      <4> QED BY <1>1, <2>2, <2>5, <3>3, <3>4, <3>6, <4>2 DEF Promise!Reply, Reply
    <3> QED BY <3>5, <3>6
  <2> QED BY <2>4, <2>5
<1> QED BY <1>6, <1>7, <1>8

(* A call that leaves the text and the stop as they are.                    *)
LEMMA QuietPromised ==
  ASSUME SessionPromised,
         IF Failed THEN session' = MatcherError ELSE Quiet(session, session')
  PROVE  /\ (~Failed => Concluded(session))' /\ Promise!Stay
         /\ Failed' = Failed
<1>1. CASE Failed
  BY <1>1 DEF Promise!Stay, Failed
<1>2. CASE ~Failed
  <2>1. /\ session' # MatcherError /\ session'.llm_tokens = session.llm_tokens
        /\ session'.stop_reason = session.stop_reason /\ session # MatcherError
        /\ Concluded(session)
    BY <1>2 DEF Quiet, SessionPromised, Failed
  <2> QED BY <2>1 DEF Promise!Stay, Failed, Concluded, Stopped
<1> QED BY <1>1, <1>2

(* Where no token is forced and the prefix is empty, no byte is forced.     *)
LEMMA NothingForced ==
  ASSUME BytesAreTokens, NEW p \in FreshSessions, Between(p), ~Stopped(p), NEW f, f = Forced(p),
         FfTokensNow(p).tokens = <<>>, FfTokensNow(p).prefix = <<>>
  PROVE  /\ f \in FreshSessions /\ Known(f) /\ NoEos(f.llm_tokens)
         /\ f.llm_tokens = p.llm_tokens /\ f.llm_tokens \in Readable
         /\ f.bytes = BytesOf(f.llm_tokens)
<1>1. /\ f \in FreshSessions /\ Known(f) /\ f.llm_tokens = p.llm_tokens
      /\ NoEos(f.llm_tokens) /\ FfTokensNow(p) = FfTokensOf(f)
  BY ForcedKnown DEF Between
<1> DEFINE text == BytesOf(f.llm_tokens)
<1>2. /\ Sane(f) /\ text \in Bytes /\ f.llm_tokens \in Texts /\ Short(f.llm_tokens)
      /\ f.bytes = text \o ForcedBytes(f)
  BY <1>1, KnownText
<1> HIDE DEF text
<1>3. ForcedBytes(f) \in Bytes
  BY <1>2, ForcedBytesAre
<1>4. ForcedBytes(f) = <<>>
  BY <1>1, <1>2, <1>3, PrefixIsForced
<1>5. text \o <<>> = text
  BY <1>2, ConcatEmptySeq DEF Bytes
<1>6. Len(f.llm_tokens) \in Nat /\ MaxTokensTotal \in Nat /\ Len(f.llm_tokens) <= MaxTokensTotal
  BY <1>2, LenProperties, MatcherAssumption DEF Short, Texts
<1>7. Len(f.llm_tokens) <= MaxTokensTotal + 1
  BY <1>6
<1>8. f.llm_tokens \in Readable
  BY <1>1, <1>2, <1>7, ReadableIs
<1> QED BY <1>1, <1>2, <1>4, <1>5, <1>8 DEF text

(* So what a mask call keeps is the mask of a text that can be read.        *)
LEMMA BiasReadNext ==
  ASSUME BytesAreTokens, SessionPromised, [Next]_vars
  PROVE  BiasRead'
<1>1. ASSUME ComputeMask \/ ComputeMaskOrEos
      PROVE  BiasRead'
  <2>1. CASE bias_cache' = bias_cache
    BY <2>1 DEF BiasRead, SessionPromised
  <2>2. ASSUME session \in FreshSessions, Between(session), ~Stopped(session),
               FfTokensNow(session).tokens = <<>>, FfTokensNow(session).prefix = <<>>,
               bias_cache' = WalkedFor(Forced(session))
        PROVE  BiasRead'
    <3> DEFINE f == Forced(session)
    <3>1. f.llm_tokens \in Readable /\ f.bytes = BytesOf(f.llm_tokens)
      BY <2>2, NothingForced
    <3>2. bias_cache'.text = f.bytes
      BY <2>2 DEF WalkedFor
    <3> HIDE DEF f
    <3> QED BY <3>1, <3>2 DEF BiasRead
  <2> QED BY <1>1, <2>1, <2>2, MaskKeeps DEF SessionPromised
<1>2. ASSUME InvalidateBiasCache PROVE BiasRead'
  BY <1>2 DEF InvalidateBiasCache, BiasRead
<1>3. ASSUME bias_cache' = bias_cache PROVE BiasRead'
  BY <1>3 DEF BiasRead, SessionPromised
<1> QED BY <1>1, <1>2, <1>3
     DEF Next, vars, ConsumeTokens, TryConsumeTokens, Rollback, IsAcceptingCall,
         ComputeFfTokens, ComputeFfBytes, ConsumeFfTokens

(* A mask has a token while the session runs, from the cache or not.        *)
LEMMA MaskNotEmpty ==
  ASSUME ParserDecides, NeverStuck, BytesAreTokens, EmptyMaskIsRight, SessionPromised,
         NEW p, p = session, ~Failed, ~Stopped(p)
  PROVE  Mask(p) # {}
<1> DEFINE f == Forced(p)
           ff == FfTokensNow(p)
<1>1. p \in FreshSessions /\ Between(p) /\ Known(p) /\ NoEos(p.llm_tokens) /\ BiasKept /\ BiasRead
  BY NotFailedTold DEF SessionPromised, Between
<1>2. /\ Mask(p) = MaskFrom(ComputeBias(f.chart, ff.prefix), f, ff)
      /\ WalkedMask(p) = MaskFrom(WalkTokens(f.chart, ff.prefix), f, ff)
  BY DEF Mask, MaskWith, WalkedMask, WalkedWith
<1>3. WalkedMask(p) # {}
  BY <1>1, MaskRight
<1>4. CASE ff.tokens # <<>>
  <2> HIDE DEF f, ff
  <2> QED BY <1>2, <1>4 DEF MaskFrom
<1>5. CASE ~CacheHit(f.chart, ff.prefix)
  <2> HIDE DEF f, ff
  <2> QED BY <1>2, <1>3, <1>5 DEF ComputeBias
<1>6. CASE ff.tokens = <<>> /\ CacheHit(f.chart, ff.prefix)
  <2>1. ff.prefix = <<>> /\ bias_cache # None /\ bias_cache.key = BiasKey(f.chart)
    BY <1>6 DEF CacheHit
  <2>2. /\ f \in FreshSessions /\ Known(f) /\ NoEos(f.llm_tokens) /\ f.llm_tokens \in Readable
        /\ f.bytes = BytesOf(f.llm_tokens)
    BY <1>1, <1>6, <2>1, NothingForced
  <2> HIDE DEF f, ff
  <2> DEFINE text == BytesOf(f.llm_tokens)
             d == Fresh(text).chart
             e == Fresh(bias_cache.text).chart
  <2>3. Fresh(text).ok /\ BiasKey(f.chart) = BiasKey(d)
    BY <2>2, ParserOf
  <2>4. PICK us \in Readable : bias_cache.text = BytesOf(us)
    BY <1>1, <2>1 DEF BiasRead
  <2>5. /\ Fresh(BytesOf(us)).ok /\ bias_cache.key = BiasKey(Fresh(BytesOf(us)).chart)
        /\ bias_cache.mask = WalkTokens(Fresh(BytesOf(us)).chart, <<>>)
    BY <1>1, <2>1, <2>4 DEF BiasKept, Kept
  <2>6. ASSUME bias_cache.mask = {} PROVE text \in Words
    <3>1. WalkTokens(Fresh(BytesOf(us)).chart, <<>>) = {}
      BY <2>5, <2>6
    <3>2. BiasKey(Fresh(BytesOf(us)).chart) = BiasKey(d)
      BY <2>1, <2>3, <2>5
    <3> QED BY <2>2, <2>3, <2>4, <2>5, <3>1, <3>2 DEF EmptyMaskIsRight
  <2>7. text \in Words => EOS \in Mask(p)
    <3>1. /\ Sane(f) /\ Told(f, text) /\ ~f.lexer_stack_top_eos /\ Short(f.llm_tokens)
      BY <2>2, KnownText
    <3>2. text \in Words => IsAccepting(Fresh(text).chart)
      BY <3>1, MayIs
    <3>3. MayEnd(f) <=> IsAccepting(Fresh(text).chart)
      <4> HIDE DEF text
      <4> QED BY <3>1, EndAllowed
    <3>4. Accepting(f) = MayEnd(f)
      BY <2>2, AcceptingRight DEF FreshSessions, Cached
    <3> QED BY <1>2, <1>6, <3>2, <3>3, <3>4 DEF MaskFrom
  <2>8. bias_cache.mask # {} => Mask(p) # {}
    BY <1>2, <1>6 DEF MaskFrom, ComputeBias
  <2> QED BY <2>6, <2>7, <2>8
<1> QED BY <1>4, <1>5, <1>6

(* compute_mask().                                                          *)
LEMMA MaskPromised ==
  ASSUME ParserDecides, NeverStuck, BytesAreTokens, EmptyMaskIsRight, SessionPromised,
         ComputeMask
  PROVE  (~Failed => Concluded(session))' /\ Promise!ComputeMask
<1>1. /\ session' = IF Failed THEN session ELSE SessionAfterMask(session)
      /\ reply' = Reply("mask", <<>>, 0, IF session' = MatcherError THEN Failure ELSE 0)
  BY MaskCalls
<1>2. CASE Failed \/ Stopped(session)
  <2>1. session' = MatcherError
    <3>1. CASE Failed
      BY <1>1, <3>1 DEF Failed
    <3>2. CASE ~Failed
      <4>1. session \in FreshSessions /\ Between(session)
        BY <3>2, NotFailedTold DEF SessionPromised
      <4>2. ~Stopped(session) => Mask(session) # {}
        BY <3>2, MaskNotEmpty
      <4> QED BY <1>1, <1>2, <3>2, <4>1, <4>2, AfterMaskRight
    <3> QED BY <3>1, <3>2
  <2> QED BY <1>1, <1>2, <2>1
       DEF Promise!ComputeMask, Promise!FailForGood, Promise!Reply, Reply,
           Promise!Failure, Failure, Failed
<1>3. CASE ~Failed /\ ~Stopped(session)
  <2>1. session \in FreshSessions /\ Between(session)
    BY <1>3, NotFailedTold DEF SessionPromised
  <2>2. Quiet(session, session')
    <3>1. Mask(session) # {}
      BY <1>3, MaskNotEmpty
    <3> QED BY <1>1, <1>3, <2>1, <3>1, AfterMaskRight
  <2>3. (~Failed => Concluded(session))' /\ Promise!Stay
    BY <1>3, <2>2, QuietPromised
  <2>4. session' # MatcherError
    BY <2>2 DEF Quiet
  <2> QED BY <1>1, <1>3, <2>3, <2>4 DEF Promise!ComputeMask, Promise!Reply, Reply
<1> QED BY <1>2, <1>3

(* compute_mask_or_eos().                                                   *)
LEMMA MaskOrEosPromised ==
  ASSUME ParserDecides, NeverStuck, BytesAreTokens, EmptyMaskIsRight, SessionPromised,
         ComputeMaskOrEos
  PROVE  (~Failed => Concluded(session))' /\ Promise!Query("mask_or_eos")
<1>1. /\ session' = IF Failed \/ Stopped(session) THEN session ELSE SessionAfterMask(session)
      /\ reply' = Reply("mask_or_eos", <<>>, 0, IF session' = MatcherError THEN Failure ELSE 0)
  BY MaskCalls
<1>2. IF Failed THEN session' = MatcherError ELSE Quiet(session, session')
  <2>1. CASE Failed
    BY <1>1, <2>1 DEF Failed
  <2>2. CASE ~Failed /\ Stopped(session)
    BY <1>1, <2>2 DEF Quiet, Failed
  <2>3. CASE ~Failed /\ ~Stopped(session)
    <3>1. session \in FreshSessions /\ Between(session)
      BY <2>3, NotFailedTold DEF SessionPromised
    <3>2. Mask(session) # {}
      BY <2>3, MaskNotEmpty
    <3> QED BY <1>1, <2>3, <3>1, <3>2, AfterMaskRight
  <2> QED BY <2>1, <2>2, <2>3
<1>3. (~Failed => Concluded(session))' /\ Promise!Stay /\ Failed' = Failed
  BY <1>2, QuietPromised
<1>4. reply' = Reply("mask_or_eos", <<>>, 0, IF Failed THEN Failure ELSE 0)
  BY <1>1, <1>3 DEF Failed
<1> QED BY <1>3, <1>4
     DEF Promise!Query, Promise!Reply, Reply, Promise!Failure, Failure

(* is_accepting().                                                          *)
LEMMA AcceptingPromised ==
  ASSUME ParserDecides, SessionPromised, IsAcceptingCall
  PROVE  (~Failed => Concluded(session))' /\ Promise!Query("accepting")
<1> DEFINE q == IF Failed THEN session ELSE WithAccepting(session)
<1>1. /\ session' = q
      /\ reply' = Reply("accepting", <<>>, 0,
                    IF q = MatcherError THEN Failure
                    ELSE IF Failed THEN Failure ELSE IF q.is_accepting_cache THEN 1 ELSE 0)
  BY DEF IsAcceptingCall, Answer
<1>2. CASE Failed
  <2>1. q = MatcherError
    BY <1>2 DEF Failed
  <2>2. (~Failed => Concluded(session))' /\ Promise!Stay
    BY <1>1, <1>2, <2>1, QuietPromised
  <2> HIDE DEF q
  <2> QED BY <1>1, <1>2, <2>1, <2>2
       DEF Promise!Query, Promise!Reply, Reply, Promise!Failure, Failure
<1>3. CASE ~Failed
  <2>1. session \in FreshSessions /\ Known(session)
    BY <1>3, NotFailedTold DEF SessionPromised, Between
  <2>2. Quiet(session, q) /\ q.is_accepting_cache = MayEnd(session)
    BY <1>3, <2>1, CachesQuiet
  <2>3. MayEnd(session) <=> BytesOf(session.llm_tokens) \in Words
    BY <2>1, MayEndIs
  <2>4. (~Failed => Concluded(session))' /\ Promise!Stay
    BY <1>1, <1>3, <2>2, QuietPromised
  <2>5. q # MatcherError
    BY <2>2 DEF Quiet
  <2> HIDE DEF q
  <2>6. reply' = Reply("accepting", <<>>, 0,
                       IF BytesOf(session.llm_tokens) \in Words THEN 1 ELSE 0)
    BY <1>1, <1>3, <2>2, <2>3, <2>5
  <2> QED BY <1>3, <2>4, <2>6, PromiseBytes
       DEF Promise!Query, Promise!Reply, Reply, Promise!IsAccepting01
<1> QED BY <1>2, <1>3

(* compute_ff_tokens() and compute_ff_bytes().                              *)
LEMMA ForcePromised ==
  ASSUME SessionPromised, ComputeFfTokens \/ ComputeFfBytes
  PROVE  (~Failed => Concluded(session))' /\ Promise!Query("force")
<1>1. IF Failed THEN session' = MatcherError ELSE Quiet(session, session')
  <2>1. CASE Failed
    BY <2>1 DEF ComputeFfTokens, ComputeFfBytes, Failed
  <2>2. CASE ~Failed
    <3>1. session \in FreshSessions
      BY <2>2, NotFailedTold DEF SessionPromised
    <3>2. session' = WithFfTokens(session) \/ session' = ForceBytes(session)
      BY <2>2 DEF ComputeFfTokens, ComputeFfBytes
    <3> QED BY <2>2, <3>1, <3>2, WithFfTokensQuiet, ForceBytesQuiet
  <2> QED BY <2>1, <2>2
<1>2. (~Failed => Concluded(session))' /\ Promise!Stay
  BY <1>1, QuietPromised
<1>3. reply' = Reply("force", <<>>, 0, 0)
  BY DEF ComputeFfTokens, ComputeFfBytes
<1> QED BY <1>2, <1>3 DEF Promise!Query, Promise!Reply, Reply

(* invalidate_bias_cache().                                                 *)
LEMMA InvalidatePromised ==
  ASSUME SessionPromised, InvalidateBiasCache
  PROVE  (~Failed => Concluded(session))' /\ Promise!Query("invalidate")
<1>1. session' = session /\ reply' = Reply("invalidate", <<>>, 0, 0)
  BY DEF InvalidateBiasCache
<1>2. IF Failed THEN session' = MatcherError ELSE Quiet(session, session')
  BY <1>1 DEF Failed, Quiet
<1>3. (~Failed => Concluded(session))' /\ Promise!Stay
  BY <1>2, QuietPromised
<1> QED BY <1>1, <1>3 DEF Promise!Query, Promise!Reply, Reply

(* Tokens without the end-of-sequence token.                                *)
LEMMA TokensEosLast ==
  ASSUME NEW ts \in Seq(Tokens)
  PROVE  ts \in Texts /\ EosLast(ts)
<1>1. ts \in Texts
  BY TokensAreBytes
<1>2. \A i \in 1..Len(ts) : ts[i] # EOS
  BY ElementOfSeq, MatcherAssumption
<1> QED BY <1>1, <1>2 DEF EosLast

(* The forced tokens consumed.                                              *)
LEMMA ConsumeFfPromised ==
  ASSUME ParserDecides, SessionPromised, ConsumeFfTokens
  PROVE  /\ (~Failed => Concluded(session))'
         /\ reply'.tokens \in Texts /\ Promise!ConsumeTokens(reply'.tokens)
<1> DEFINE p == session
           q == WithFfTokens(p)
           ts == q.ff_tokens_cache.tokens
           text == p.llm_tokens
           fine == /\ ~Stopped(p) \/ ts = <<>>
                   /\ Takes(text, ts, Len(ts))
<1>1. /\ ~Failed /\ q.ff_tokens_cache # None /\ session' = Consumed(q, ts)
      /\ reply' = Reply("consume", ts, 0, IF session' = MatcherError THEN Failure ELSE 0)
  BY DEF ConsumeFfTokens, Answer
<1>2. p \in FreshSessions /\ Between(p) /\ Concluded(p)
  BY <1>1, NotFailedTold DEF SessionPromised
<1>3. /\ q \in FreshSessions /\ Between(q) /\ Quiet(p, q)
      /\ q.ff_tokens_cache \in FfTokens \cup {None}
  BY <1>2, WithFfTokensFresh, WithFfTokensTold, WithFfTokensQuiet
<1>4. ts \in Texts /\ EosLast(ts)
  <2>1. ts \in Seq(Tokens)
    <3>1. q.ff_tokens_cache \in FfTokens
      BY <1>1, <1>3
    <3> HIDE DEF q
    <3> QED BY <3>1 DEF FfTokens
  <2> HIDE DEF ts
  <2> QED BY <2>1, TokensEosLast
<1>5. Concluded(q) /\ (Stopped(q) <=> Stopped(p)) /\ q.llm_tokens = text
  BY <1>2, <1>3 DEF Quiet, Concluded, Stopped
<1> HIDE DEF q, ts
<1>6. /\ session' # MatcherError <=> fine
      /\ fine => /\ session'.llm_tokens = text \o ts
                 /\ Stopped(session') <=> Promise!Finished(session'.llm_tokens)
  BY <1>1, <1>3, <1>4, <1>5, ConsumedRight
<1>7. (~Failed => Concluded(session))'
  BY <1>6 DEF Failed, Concluded
<1>8. Promise!ConsumeTokens(ts)
  <2>1. fine <=> /\ ~Stopped(session) \/ ts = <<>>
                 /\ Len(session.llm_tokens) + Len(ts) <= MaxTokensTotal
                 /\ \A i \in 1..Len(ts) :
                      Promise!May(session.llm_tokens \o SubSeq(ts, 1, i - 1), ts[i])
    BY DEF Takes, Grown
  <2>2. /\ session' # MatcherError <=> fine
        /\ fine => /\ session'.llm_tokens = session.llm_tokens \o ts
                   /\ Stopped(session') <=> Promise!Finished(session'.llm_tokens)
    BY <1>6
  <2> HIDE DEF fine, text, p
  <2> QED BY <1>1, <2>1, <2>2
       DEF Promise!ConsumeTokens, Promise!Grow, Promise!FailForGood, Promise!Reply, Reply,
           Promise!Failure, Failure, Failed
<1>9. reply'.tokens = ts
  BY <1>1 DEF Reply
<1> QED BY <1>4, <1>7, <1>8, <1>9

(* A new session.                                                           *)
LEMMA PromisedInit ==
  ASSUME Init
  PROVE  SessionPromised /\ Promise!Init
<1>1. PICK canonical \in BOOLEAN : session = NewTokenParser(canonical)
  BY DEF Init
<1>2. session \in FreshSessions /\ session.llm_tokens = <<>> /\ ~Stopped(session)
  BY <1>1, NewSessionTold
<1>3. ~Failed
  BY <1>2, SessionAssumption DEF Failed, FreshSessions
<1>4. SessionPromised
  BY <1>2, SessionToldInit DEF SessionPromised, Concluded, Init, BiasKept, BiasRead
<1>5. reply = Reply("new", <<>>, 0, 0)
  BY DEF Init
<1> QED BY <1>2, <1>3, <1>4, <1>5 DEF Promise!Init, Promise!Reply, Reply

(* Every call is one of Session's.                                          *)
LEMMA PromisedNext ==
  ASSUME Tidy, ParserDecides, NeverStuck, BytesAreTokens, EmptyMaskIsRight,
         SessionPromised, [Next]_vars
  PROVE  SessionPromised' /\ [Promise!Next]_(Promise!sessionVars)
<1>1. SessionTold' /\ BiasKept' /\ BiasRead'
  BY SessionToldNext, BiasKeptNext, BiasReadNext DEF SessionPromised
<1>2. SUFFICES (~Failed => Concluded(session))' /\ [Promise!Next]_(Promise!sessionVars)
  BY <1>1 DEF SessionPromised
<1>3. ASSUME NEW ts \in Batches, ConsumeTokens(ts) \/ TryConsumeTokens(ts)
      PROVE  (~Failed => Concluded(session))' /\ Promise!Next
  <2>1. ts \in Texts /\ EosLast(ts)
    BY MatcherAssumption DEF Tidy, Texts
  <2>2. reply'.tokens = ts
    BY <1>3 DEF ConsumeTokens, TryConsumeTokens, Answer, Reply
  <2>3. ts \in Promise!Passed
    BY <2>1, <2>2 DEF Promise!Passed, Texts
  <2>4. /\ (~Failed => Concluded(session))'
        /\ Promise!ConsumeTokens(ts) \/ Promise!TryConsumeTokens(ts)
    BY <1>3, <2>1, ConsumePromised, TryPromised
  <2> QED BY <2>3, <2>4 DEF Promise!Next
<1>4. ASSUME NEW n \in 0..MaxTokensTotal + 1, Rollback(n)
      PROVE  (~Failed => Concluded(session))' /\ Promise!Next
  BY <1>4, RollbackPromised DEF Promise!Next
<1>5. ASSUME ComputeMask
      PROVE  (~Failed => Concluded(session))' /\ Promise!Next
  BY <1>5, MaskPromised DEF Promise!Next
<1>6. ASSUME ComputeMaskOrEos
      PROVE  (~Failed => Concluded(session))' /\ Promise!Next
  BY <1>6, MaskOrEosPromised DEF Promise!Next
<1>7. ASSUME IsAcceptingCall
      PROVE  (~Failed => Concluded(session))' /\ Promise!Next
  BY <1>7, AcceptingPromised DEF Promise!Next
<1>8. ASSUME ComputeFfTokens \/ ComputeFfBytes
      PROVE  (~Failed => Concluded(session))' /\ Promise!Next
  BY <1>8, ForcePromised DEF Promise!Next
<1>9. ASSUME ConsumeFfTokens
      PROVE  (~Failed => Concluded(session))' /\ Promise!Next
  <2>1. /\ (~Failed => Concluded(session))'
        /\ reply'.tokens \in Texts /\ Promise!ConsumeTokens(reply'.tokens)
    BY <1>9, ConsumeFfPromised
  <2>2. reply'.tokens \in Promise!Passed
    BY <2>1 DEF Promise!Passed, Texts
  <2> QED BY <2>1, <2>2 DEF Promise!Next
<1>10. CASE UNCHANGED vars
  <2>1. session' = session /\ reply' = reply
    BY <1>10 DEF vars
  <2> QED BY <2>1 DEF Promise!sessionVars, SessionPromised, Failed, Concluded, Stopped
<1>11. ASSUME InvalidateBiasCache
       PROVE  (~Failed => Concluded(session))' /\ Promise!Next
  BY <1>11, InvalidatePromised DEF Promise!Next
<1> QED BY <1>3, <1>4, <1>5, <1>6, <1>7, <1>8, <1>9, <1>10, <1>11 DEF Next

(* The Matcher implements Session: whatever is forced ahead, cached, rolled *)
(* back or taken from a stop, every call answers by the words of the        *)
(* grammar.  ParserDecides says that the parser decides the language of a   *)
(* text from its beginning (module Language); what is proved is that no     *)
(* sequence of calls makes the session differ from such a parser.           *)
THEOREM MatcherKeepsPromise ==
  ASSUME Tidy, ParserDecides, NeverStuck, BytesAreTokens, EmptyMaskIsRight
  PROVE  Spec => KeepsPromise
<1>1. Init => SessionPromised /\ Promise!Init
  BY PromisedInit
<1>2. SessionPromised /\ [Next]_vars => SessionPromised' /\ [Promise!Next]_(Promise!sessionVars)
  BY PromisedNext
<1> QED BY <1>1, <1>2, PTL DEF Spec, KeepsPromise, Promise!Spec

(* A session that is not stopped has a mask that allows nothing the grammar *)
(* forbids, and, unless it forces a token, everything the grammar allows.   *)
LEMMA MaskExactWhenTold ==
  ASSUME ParserDecides, NeverStuck, BytesAreTokens, SessionTold, BiasKept
  PROVE  MaskIsExact
<1> SUFFICES ASSUME ~Failed, ~Stopped(session), ~Abandoned PROVE MaskIsExact
  BY DEF MaskIsExact, ExactWith, Abandoned
<1>1. session \in FreshSessions /\ Known(session) /\ NoEos(session.llm_tokens)
  BY NotFailedTold DEF Between
<1>2. Mask(session) = WalkedMask(session)
  BY <1>1, MaskServed
<1>3. /\ Mask(session) # {} /\ Mask(session) \subseteq Followers(session.llm_tokens)
      /\ FfTokensNow(session).tokens = <<>> => Mask(session) = Followers(session.llm_tokens)
  BY <1>1, <1>2, MaskRight
<1> QED BY <1>3 DEF MaskIsExact, ExactWith, Mask, Followers

(* compute_mask() is exact in every session that is not stopped, unless it  *)
(* takes the mask of an abandoned text from the bias cache.                 *)
THEOREM MaskAlwaysExact ==
  ASSUME Tidy, ParserDecides, NeverStuck, BytesAreTokens
  PROVE  Spec => []MaskIsExact
<1>1. SessionTold /\ BiasKept => MaskIsExact
  BY MaskExactWhenTold
<1>2. Spec => []SessionTold
  BY AlwaysTold
<1>3. Spec => []BiasKept
  BY AlwaysKept
<1> QED BY <1>1, <1>2, <1>3, PTL

-----------------------------------------------------------------------------
(* The tokens a tokenizer would make are allowed.                           *)

(* Without an end-of-sequence token the bytes are those of the tokens.      *)
LEMMA BytesOfTokens ==
  ASSUME NEW ts \in Seq(Tokens)
  PROVE  BytesOf(ts) = FlattenSeq(ts)
<1> DEFINE ps == [i \in 1..Len(ts) |-> Piece(ts[i])]
<1>1. Len(ts) \in Nat /\ \A i \in 1..Len(ts) : ts[i] \in Tokens
  BY LenProperties, ElementOfSeq
<1>2. \A i \in 1..Len(ts) : Piece(ts[i]) = ts[i]
  BY <1>1, MatcherAssumption DEF Piece
<1>3. ps \in Seq(Bytes) /\ Len(ps) = Len(ts) /\ BytesOf(ts) = FlattenSeq(ps)
  BY TokensAreBytes, PiecesOf
<1>4. ts \in Seq(Bytes)
  BY TokensAreBytes
<1>5. \A i \in 1..Len(ps) : ps[i] = ts[i]
  BY <1>2, <1>3
<1> HIDE DEF ps
<1>6. ps = ts
  BY <1>3, <1>4, <1>5, SeqEqual
<1> QED BY <1>3, <1>6

(* The bytes forced are bytes of every word that begins with the text: none *)
(* is forced where a text may end.                                          *)
LEMMA ForcedWithin ==
  ASSUME NEW f, Sane(f), NEW text, Told(f, text),
         NEW w \in Bytes, Fresh(w).ok, IsAccepting(Fresh(w).chart), IsPrefix(text, w)
  PROVE  IsPrefix(f.bytes, w)
<1> DEFINE bs == f.bytes
           n == Len(text)
<1>1. bs \in Bytes /\ bs \in Seq(Byte) /\ Len(bs) \in Nat /\ w \in Seq(Byte) /\ Len(w) \in Nat
  BY SaneParts, LenProperties DEF Bytes
<1>2. text \in Seq(Byte) /\ f.applied = n /\ n \in 0..Len(bs) /\ \A i \in 1..n : bs[i] = text[i]
  BY AppliedIs, SaneParts DEF Bytes
<1>3. n <= Len(w) /\ \A i \in 1..n : text[i] = w[i]
  BY <1>1, <1>2, PrefixIs
<1>4. \A i \in (n + 1)..Len(bs) : ForcedAt(bs, i)
  BY <1>2 DEF Told
<1> HIDE DEF bs, n
<1>5. \A i \in 1..Len(bs) : i <= Len(w) => w[i] = bs[i]
  <2>1. \A i \in 1..n : i <= Len(w) => w[i] = bs[i]
    BY <1>2, <1>3
  <2> QED BY <1>1, <1>2, <1>4, <2>1, FollowsForced
<1>6. Len(bs) <= Len(w)
  <2> SUFFICES ASSUME ~(Len(bs) <= Len(w)) PROVE FALSE
    OBVIOUS
  <2> DEFINE k == Len(w)
             u == SubSeq(bs, 1, k)
  <2>1. k \in 0..Len(bs) /\ k + 1 \in (n + 1)..Len(bs) /\ (k + 1) - 1 = k
    BY <1>1, <1>2, <1>3
  <2>2. u \in Seq(Byte) /\ Len(u) = k /\ \A i \in 1..k : u[i] = bs[i]
    BY <1>1, <2>1, CutAt
  <2>3. \A i \in 1..Len(u) : u[i] = w[i]
    <3> HIDE DEF u
    <3> QED BY <1>1, <1>5, <2>1, <2>2
  <2>4. u = w
    <3> HIDE DEF u
    <3> QED BY <1>1, <2>2, <2>3, SeqEqual
  <2>5. ForcedAt(bs, k + 1)
    BY <1>4, <2>1
  <2>6. ForcedByte(Fresh(SubSeq(bs, 1, (k + 1) - 1)).chart) # {}
    <3> HIDE DEF k
    <3> QED BY <2>5, ForcedOnceMore
  <2>7. ForcedByte(Fresh(w).chart) # {}
    <3> HIDE DEF k
    <3>1. SubSeq(bs, 1, (k + 1) - 1) = w
      BY <2>1, <2>4
    <3> QED BY <2>6, <3>1
  <2> QED BY <2>7, ForcedTyped
<1>7. IsPrefix(bs, w)
  <2>1. \A i \in 1..Len(bs) : bs[i] = w[i]
    BY <1>1, <1>5, <1>6
  <2> QED BY <1>1, <1>6, <2>1, PrefixIs
<1> QED BY <1>7 DEF bs

(* Hence what is forced beyond the text is what comes next in the word.     *)
LEMMA ForcedNext ==
  ASSUME NEW text \in Bytes, NEW forced \in Bytes, NEW w \in Bytes, IsPrefix(text, w),
         NEW bs, bs = text \o forced, IsPrefix(bs, w)
  PROVE  IsPrefix(forced, From(w, Len(text)))
<1> DEFINE n == Len(text)
           m == Len(forced)
           rest == From(w, n)
<1>1. text \in Seq(Byte) /\ forced \in Seq(Byte) /\ w \in Seq(Byte)
      /\ n \in Nat /\ m \in Nat /\ Len(w) \in Nat
  BY LenProperties DEF Bytes
<1>2. bs \in Seq(Byte) /\ Len(bs) = n + m /\ \A i \in 1..m : bs[n + i] = forced[i]
  <2>1. Len(bs) = Len(text) + Len(forced) /\ \A i \in 1..Len(forced) : bs[Len(text) + i] = forced[i]
    BY <1>1, ConcatParts
  <2>2. bs \in Seq(Byte)
    BY <1>1, ConcatProperties
  <2> QED BY <2>1, <2>2
<1> HIDE DEF n, m
<1>3. Len(bs) <= Len(w) /\ \A i \in 1..Len(bs) : bs[i] = w[i]
  BY <1>1, <1>2, PrefixIs
<1>4. n \in 0..Len(w)
  BY <1>1, <1>2, <1>3
<1>5. rest \in Seq(Byte) /\ Len(rest) = Len(w) - n /\ \A i \in 1..(Len(w) - n) : rest[i] = w[n + i]
  BY <1>4, FromFacts DEF Bytes
<1> HIDE DEF rest
<1>6. m <= Len(rest)
  BY <1>1, <1>2, <1>3, <1>5
<1>7. \A i \in 1..m : forced[i] = rest[i]
  <2> SUFFICES ASSUME NEW i \in 1..m PROVE forced[i] = rest[i]
    OBVIOUS
  <2>1. n + i \in 1..Len(bs) /\ i \in 1..(Len(w) - n)
    BY <1>1, <1>2, <1>3
  <2> QED BY <1>2, <1>3, <1>5, <2>1
<1>8. IsPrefix(forced, rest)
  BY <1>1, <1>5, <1>6, <1>7, PrefixIs DEF m
<1> QED BY <1>8 DEF rest, n

(* Tokens are not empty, so fewer of the last tokens have fewer bytes.      *)
LEMMA FewerBytes ==
  ASSUME NEW ts \in Seq(Tokens), NEW j \in 0..(Len(ts) - 1)
  PROVE  Len(FlattenSeq(LastN(ts, j))) < Len(FlattenSeq(ts))
<1> DEFINE k == Len(ts) - j
           front == SubSeq(ts, 1, k)
           back == SubSeq(ts, k + 1, Len(ts))
           less == SubSeq(ts, 1, k - 1)
           t == ts[k]
<1>1. Len(ts) \in Nat /\ k \in 1..Len(ts) /\ k \in 0..Len(ts) /\ k - 1 \in 0..(Len(ts) - 1)
      /\ (k - 1) + 1 = k /\ Len(ts) - j + 1 = k + 1 /\ Len(ts) - k = j
  BY LenProperties
<1>2. LastN(ts, j) = back
  <2>1. ~(Len(ts) <= j)
    BY <1>1
  <2> QED BY <1>1, <2>1 DEF LastN
<1> HIDE DEF k
<1>3. front \in Seq(Tokens) /\ back \in Seq(Tokens) /\ front \o back = ts
  BY <1>1, CutAt
<1>4. front = Append(less, t) /\ less \in Seq(Tokens) /\ t \in Tokens
  <2>1. SubSeq(ts, 1, (k - 1) + 1) = Append(SubSeq(ts, 1, k - 1), ts[(k - 1) + 1])
    BY <1>1, CutNext
  <2>2. less \in Seq(Tokens)
    BY <1>1, CutAt
  <2>3. t \in Tokens
    BY <1>1, ElementOfSeq
  <2> QED BY <1>1, <2>1, <2>2, <2>3
<1> HIDE DEF front, back, less, t
<1>5. FlattenSeq(front) = FlattenSeq(less) \o t
      /\ FlattenSeq(front \o back) = FlattenSeq(front) \o FlattenSeq(back)
  <2>1. front \in Seq(Bytes) /\ back \in Seq(Bytes) /\ less \in Seq(Bytes) /\ t \in Bytes
    <3>1. t \in Bytes
      BY <1>4, MatcherAssumption DEF Bytes
    <3> QED BY <1>3, <1>4, <3>1, TokensAreBytes
  <2>2. front \in Seq(Seq(Byte)) /\ back \in Seq(Seq(Byte)) /\ less \in Seq(Seq(Byte)) /\ t \in Seq(Byte)
    BY <2>1 DEF Bytes
  <2>3. FlattenSeq(Append(less, t)) = FlattenSeq(less) \o t
    BY <2>2, JoinAppend
  <2>4. FlattenSeq(front \o back) = FlattenSeq(front) \o FlattenSeq(back)
    BY <2>2, JoinConcat
  <2> QED BY <1>4, <2>3, <2>4
<1> DEFINE a == FlattenSeq(less)
           f == FlattenSeq(front)
           b == FlattenSeq(back)
<1>6. a \in Seq(Byte) /\ f \in Seq(Byte) /\ b \in Seq(Byte) /\ t \in Seq(Byte) /\ t # <<>>
  BY <1>3, <1>4, TokensAreBytes, MatcherAssumption DEF Bytes
<1>7. f = a \o t /\ FlattenSeq(ts) = f \o b
  BY <1>3, <1>5
<1> HIDE DEF a, f, b
<1>8. Len(a \o t) = Len(a) + Len(t) /\ Len(f \o b) = Len(f) + Len(b)
  BY <1>6, ConcatProperties
<1>9. Len(a) \in Nat /\ Len(t) \in Nat /\ Len(t) # 0 /\ Len(b) \in Nat /\ Len(f) \in Nat
  BY <1>6, LenProperties, EmptySeq
<1>10. Len(b) < Len(FlattenSeq(ts))
  BY <1>7, <1>8, <1>9
<1> QED BY <1>2, <1>10 DEF b

(* All the tokens are taken to cover all their bytes.                       *)
LEMMA CoversAll ==
  ASSUME NEW ts \in Seq(Tokens), ts # <<>>
  PROVE  TokensCovering(ts, Len(FlattenSeq(ts))) = Len(ts)
<1> DEFINE N == Len(ts)
           size(k) == Len(FlattenSeq(LastN(ts, k)))
           chop == Len(FlattenSeq(ts))
<1>1. N \in Nat /\ N # 0
  BY LenProperties, EmptySeq
<1>2. \A k \in 0..N : size(k) \in Nat
  <2> SUFFICES ASSUME NEW k \in 0..N PROVE size(k) \in Nat
    OBVIOUS
  <2>1. k \in Nat
    OBVIOUS
  <2>2. LastN(ts, k) \in Seq(Tokens)
    BY <2>1, LastNFacts
  <2>3. FlattenSeq(LastN(ts, k)) \in Seq(Byte)
    BY <2>2, TokensAreBytes DEF Bytes
  <2> QED BY <2>3, LenProperties
<1>3. size(N) = chop
  <2>1. LastN(ts, N) = ts
    <3>1. Len(ts) <= N
      BY <1>1
    <3> QED BY <3>1 DEF LastN
  <2> QED BY <2>1
<1>4. \A j \in 0..(N - 1) : size(j) < chop
  BY FewerBytes
<1>5. TokensCovering(ts, chop)
        = CHOOSE i \in 1..N : size(i) >= chop /\ \A j \in 1..i - 1 : size(j) < chop
  BY Zenon DEF TokensCovering
<1> HIDE DEF size, chop, N
<1>6. N \in 1..N /\ size(N) >= chop /\ \A j \in 1..N - 1 : size(j) < chop
  <2>1. N \in 1..N /\ N \in 0..N
    BY <1>1
  <2>2. size(N) \in Nat
    BY <1>2, <2>1
  <2>3. \A j \in 1..N - 1 : j \in 0..(N - 1)
    BY <1>1
  <2> QED BY <1>3, <1>4, <2>1, <2>2, <2>3
<1> DEFINE k == TokensCovering(ts, chop)
<1>7. k \in 1..N /\ size(k) >= chop
  <2>1. \E i \in 1..N : size(i) >= chop /\ \A j \in 1..i - 1 : size(j) < chop
    BY <1>6
  <2> QED BY <1>5, <2>1, Zenon
<1> HIDE DEF k
<1>8. k = N
  <2> SUFFICES ASSUME k # N PROVE FALSE
    OBVIOUS
  <2>1. k \in 0..(N - 1) /\ k \in 0..N
    BY <1>1, <1>7
  <2>2. size(k) < chop /\ size(k) \in Nat
    BY <1>2, <1>4, <2>1
  <2>3. chop \in Nat
    <3>1. N \in 0..N
      BY <1>1
    <3> QED BY <1>2, <1>3, <3>1
  <2> QED BY <1>7, <2>2, <2>3
<1> QED BY <1>8 DEF k, N, chop

(* Where a token goes beyond all the forced bytes, all the forced tokens    *)
(* are taken back.                                                          *)
LEMMA ChopsAll ==
  ASSUME BytesAreTokens, LooksBackEnough, NEW c, NEW forced \in Bytes, forced # <<>>,
         NEW t \in Tokens, IsPrefix(forced, t), Len(forced) < Len(t),
         HasValidExtensions(c, forced),
         NEW fresh, fresh = GreedyTokenize(forced)
  PROVE  ChopTokens(c, fresh) = Len(fresh)
<1> DEFINE n == Len(forced)
           suffix == LastN(FlattenSeq(LastN(fresh, MaxTokenLookback)), MaxTokenLen)
           open == {k \in 1..Len(suffix) : HasValidExtensions(c, LastN(suffix, k))}
<1>1. fresh \in Seq(Tokens) /\ FlattenSeq(fresh) = forced
  BY GreedyTyped, GreedyIs
<1>2. forced \in Seq(Byte) /\ t \in Seq(Byte) /\ n \in Nat /\ n # 0 /\ Len(t) \in Nat
  BY MatcherAssumption, LenProperties, EmptySeq DEF Bytes
<1>3. forced = SubSeq(t, 1, n)
  <2>1. n \in 0..Len(t) /\ \A i \in 1..n : forced[i] = t[i]
    BY <1>2, PrefixIs
  <2> DEFINE u == SubSeq(t, 1, n)
  <2>2. u \in Seq(Byte) /\ Len(u) = n /\ \A i \in 1..n : u[i] = t[i]
    BY <1>2, <2>1, CutAt
  <2> HIDE DEF u
  <2>3. \A i \in 1..Len(u) : u[i] = forced[i]
    BY <2>1, <2>2
  <2>4. u = forced
    BY <1>2, <2>2, <2>3, SeqEqual
  <2> QED BY <2>4 DEF u
<1>4. Len(fresh) <= MaxTokenLookback
  <2>1. n \in 1..Len(t) - 1
    BY <1>2
  <2> QED BY <1>3, <2>1 DEF LooksBackEnough
<1>5. LastN(fresh, MaxTokenLookback) = fresh
  BY <1>4 DEF LastN
<1>6. Len(forced) <= MaxTokenLen
  <2>1. Len(t) <= MaxTokenLen /\ MaxTokenLen \in Nat
    BY MaxTokenLenIs
  <2> HIDE DEF n
  <2> QED BY <1>2, <2>1 DEF n
<1>7. suffix = forced
  <2>1. LastN(forced, MaxTokenLen) = forced
    BY <1>6 DEF LastN
  <2> QED BY <1>1, <1>5, <2>1
<1>8. n \in open /\ \A k \in open : n >= k /\ k \in Nat
  <2>1. LastN(forced, n) = forced
    <3>1. Len(forced) <= n
      BY <1>2
    <3> QED BY <3>1 DEF LastN
  <2>2. n \in 1..n
    BY <1>2
  <2>3. open = {k \in 1..n : HasValidExtensions(c, LastN(forced, k))}
    BY <1>7
  <2> HIDE DEF open, suffix
  <2>4. n \in open
    BY <2>1, <2>2, <2>3
  <2>5. \A k \in open : k \in 1..n
    BY <2>3
  <2> HIDE DEF n
  <2> QED BY <1>2, <2>4, <2>5
<1>9. ChopTokens(c, fresh) = IF open = {} THEN 0 ELSE TokensCovering(fresh, Max(open))
  BY DEF ChopTokens
<1> HIDE DEF open, suffix
<1>10. Max(open) = n
  <2> DEFINE m == Max(open)
  <2>1. m \in open /\ \A k \in open : m >= k
    BY <1>8, Zenon DEF Max
  <2> HIDE DEF m, n
  <2>2. m >= n /\ n >= m /\ m \in Nat
    BY <1>8, <2>1
  <2>3. m = n
    BY <1>2, <2>2
  <2> QED BY <2>3 DEF m
<1>11. ChopTokens(c, fresh) = TokensCovering(fresh, n)
  BY <1>8, <1>9, <1>10
<1>12. fresh # <<>>
  <2>1. fresh = <<>> => forced = <<>>
    BY <1>1, JoinNone
  <2> QED BY <2>1
<1> QED BY <1>1, <1>11, <1>12, CoversAll

(* Where a text goes on to a word, the token that the word has next is      *)
(* allowed, by the bytes that are forced or by the parser.                  *)
LEMMA NextTokenAllowed ==
  ASSUME ParserDecides, NeverStuck, BytesAreTokens, LooksBackEnough,
         NEW p \in FreshSessions, Known(p), NoEos(p.llm_tokens),
         NEW text, text = BytesOf(p.llm_tokens),
         NEW w \in Bytes, Fresh(w).ok, IsAccepting(Fresh(w).chart), IsPrefix(text, w),
         NEW t, Best(t, From(w, Len(text)))
  PROVE  t \in WalkedMask(p)
<1> DEFINE f == Forced(p)
           forced == ForcedBytes(f)
           ff == FfTokensOf(f)
           rest == From(w, Len(text))
<1>1. text \in Bytes /\ Fresh(text).ok /\ Short(p.llm_tokens) /\ Sane(p) /\ Cached(p)
      /\ Len(text) \in Nat /\ Len(w) \in Nat /\ text \in Seq(Byte) /\ w \in Seq(Byte)
  BY KnownText, LenProperties DEF Bytes
<1>2. /\ f \in FreshSessions /\ Known(f) /\ f.llm_tokens = p.llm_tokens /\ FfTokensNow(p) = ff
  BY ForcedKnown
<1>3. /\ Sane(f) /\ Told(f, text) /\ ~f.lexer_stack_top_eos /\ f.bytes = text \o forced
      /\ forced \in Bytes /\ f.llm_tokens \in Texts /\ f.bytes \in Bytes
  <2> HIDE DEF f
  <2>1. /\ Sane(f) /\ Told(f, text) /\ ~f.lexer_stack_top_eos /\ f.bytes = text \o forced
        /\ f.llm_tokens \in Texts /\ f.bytes \in Bytes
    BY <1>2, KnownText
  <2> QED BY <2>1, ForcedBytesAre
<1>4. WalkedMask(p) = IF ff.tokens # <<>> THEN {Head(ff.tokens)}
                ELSE WalkTokens(f.chart, ff.prefix) \cup (IF MayEnd(f) THEN {EOS} ELSE {})
  BY <1>1, MaskIs
<1> HIDE DEF f
<1>5. t \in Tokens /\ IsPrefix(t, rest) /\ t \in Bytes /\ t \in Seq(Byte) /\ t # <<>>
  BY MatcherAssumption DEF Best, Bytes
<1>6. Len(text) \in 0..Len(w) /\ rest \in Bytes
  <2>1. Len(text) <= Len(w)
    BY <1>1, PrefixIs
  <2>2. Len(text) \in 0..Len(w)
    BY <1>1, <2>1
  <2> QED BY <2>2, FromFacts
<1>7. IsPrefix(forced, rest)
  <2>1. IsPrefix(f.bytes, w)
    BY <1>3, ForcedWithin
  <2> HIDE DEF forced, rest
  <2> QED BY <1>1, <1>3, <2>1, ForcedNext DEF rest
<1>8. Fresh(text \o t).ok
  <2>1. IsPrefix(text \o t, w)
    BY <1>1, <1>5, PrefixOn
  <2>2. text \o t \in Bytes
    BY <1>1, <1>5, ConcatProperties DEF Bytes
  <2> QED BY <2>1, <2>2, FreshPrefix
<1>9. t \in Followers(p.llm_tokens)
  <2>1. Promise!May(p.llm_tokens, t)
    BY <1>1, <1>5, <1>8, MayIs
  <2> QED BY <1>5, <2>1 DEF Followers
<1>10. ASSUME ff.tokens = <<>> PROVE t \in WalkedMask(p)
  <2>1. WalkedMask(p) = Followers(p.llm_tokens)
    BY <1>2, <1>10, MaskRight
  <2> QED BY <1>9, <2>1
<1>11. ASSUME ff.tokens # <<>>, Len(t) <= Len(forced) PROVE t \in WalkedMask(p)
  <2>1. Best(t, forced)
    <3> HIDE DEF forced, rest
    <3> QED BY <1>3, <1>6, <1>7, <1>11, BestShorter DEF rest
  <2>2. Best(Head(ff.tokens), forced)
    BY <1>3, <1>11, ForcedHead
  <2>3. Head(ff.tokens) = t
    <3> HIDE DEF forced, ff
    <3> QED BY <1>3, <2>1, <2>2, BestOne
  <2> QED BY <1>4, <1>11, <2>3
<1>12. ASSUME ff.tokens # <<>>, ~(Len(t) <= Len(forced)) PROVE FALSE
  <2>1. IsPrefix(forced, t) /\ Len(forced) < Len(t)
    <3> HIDE DEF forced, rest
    <3> QED BY <1>3, <1>6, <1>7, <1>12, BestShorter DEF rest
  <2> DEFINE fresh == FreshOf(f)
             k == ChopTokens(f.chart, fresh)
  <2>2. forced # <<>> /\ fresh \in Seq(Tokens) /\ ff = Chopped(fresh, k)
    <3>1. fresh \in Seq(Tokens) /\
          ff = IF forced = <<>> THEN NoFfTokens
               ELSE IF ~f.tokenize_is_canonical THEN [tokens |-> <<>>, prefix |-> forced]
               ELSE Chopped(fresh, k)
      BY <1>3, FfTokensAre
    <3> QED BY <1>12, <3>1 DEF NoFfTokens
  <2>3. fresh = GreedyTokenize(forced)
    BY <1>3, FreshOfIs
  <2>4. HasValidExtensions(f.chart, forced)
    <3>1. \/ IsPrefix(t, forced)
          \/ IsPrefix(forced, t) /\ Allows(f.chart, SubSeq(t, Len(forced) + 1, Len(t)))
      BY <1>3, <1>5, <1>8, TokenAllowed
    <3>2. ~IsPrefix(t, forced)
      <4>1. IsPrefix(t, forced) => Len(t) <= Len(forced)
        <5>1. forced \in Seq(Byte)
          BY <1>3 DEF Bytes
        <5> HIDE DEF forced
        <5> QED BY <1>5, <5>1, PrefixIs
      <4> QED BY <1>12, <4>1
    <3>3. IsStrictPrefix(forced, t)
      <4>1. forced # t
        <5>1. Len(t) \in Nat /\ Len(t) < Len(t) => FALSE
          OBVIOUS
        <5>2. Len(t) \in Nat
          BY <1>5, LenProperties
        <5> HIDE DEF forced
        <5> QED BY <2>1, <5>1, <5>2
      <4> QED BY <2>1, <4>1 DEF IsStrictPrefix
    <3> HIDE DEF forced
    <3> QED BY <1>5, <3>1, <3>2, <3>3 DEF HasValidExtensions
  <2>5. k = Len(fresh)
    <3> HIDE DEF fresh, forced
    <3>1. forced \in Bytes /\ forced # <<>> /\ t \in Tokens
      BY <1>3, <1>5, <2>2
    <3> QED BY <2>1, <2>3, <2>4, <3>1, ChopsAll
  <2>6. ff.tokens = SubSeq(fresh, 1, Len(fresh) - k)
    <3>1. ff = [tokens |-> SubSeq(fresh, 1, Len(fresh) - k), prefix |-> FlattenSeq(LastN(fresh, k))]
      BY <2>2 DEF Chopped
    <3> HIDE DEF ff, fresh, k
    <3> QED BY <3>1
  <2>7. SubSeq(fresh, 1, Len(fresh) - k) = <<>>
    <3>1. Len(fresh) \in Nat
      BY <2>2, LenProperties
    <3> HIDE DEF fresh, k
    <3>2. Len(fresh) - k = 0 /\ 0 \in 0..Len(fresh)
      BY <2>5, <3>1
    <3> QED BY <2>2, <3>2, CutAt, EmptySeq
  <2> QED BY <1>12, <2>6, <2>7
<1> QED BY <1>10, <1>11, <1>12

(* A word that ends where the text does lets the text end.                  *)
LEMMA EndOfWordAllowed ==
  ASSUME ParserDecides, NeverStuck, BytesAreTokens,
         NEW p \in FreshSessions, Known(p), NoEos(p.llm_tokens),
         NEW text, text = BytesOf(p.llm_tokens), IsAccepting(Fresh(text).chart)
  PROVE  EOS \in WalkedMask(p)
<1> DEFINE f == Forced(p)
           ff == FfTokensOf(f)
<1>1. Sane(p) /\ Cached(p)
  BY KnownText
<1>2. /\ f \in FreshSessions /\ Known(f) /\ f.llm_tokens = p.llm_tokens
  BY ForcedKnown
<1>3. WalkedMask(p) = IF ff.tokens # <<>> THEN {Head(ff.tokens)}
                ELSE WalkTokens(f.chart, ff.prefix) \cup (IF MayEnd(f) THEN {EOS} ELSE {})
  BY <1>1, MaskIs
<1> HIDE DEF f
<1>4. Sane(f) /\ Told(f, text) /\ ~f.lexer_stack_top_eos /\ f.llm_tokens \in Texts
  BY <1>2, KnownText
<1>5. MayEnd(f)
  BY <1>4, EndAllowed
<1>6. ForcedBytes(f) = <<>> /\ ForcedBytes(f) \in Bytes
  BY <1>4, <1>5, ForcedBytesAre DEF MayEnd
<1>7. ff.tokens = <<>>
  BY <1>4, <1>6, FfTokensTyped DEF NoFfTokens
<1> QED BY <1>3, <1>5, <1>7

(* Where the session has read the tokens of a word.                         *)
LEMMA ReadTokens ==
  ASSUME NEW g \in Seq(Tokens), NEW ts \in Texts, NoEos(ts), IsPrefix(ts, Append(g, EOS))
  PROVE  /\ Len(ts) \in 0..Len(g) /\ ts = SubSeq(g, 1, Len(ts))
         /\ BytesOf(ts) = FlattenSeq(ts) /\ Place(g, Len(ts)) = Len(BytesOf(ts))
         /\ Append(g, EOS)[Len(ts) + 1]
              = IF Len(ts) = Len(g) THEN EOS ELSE g[Len(ts) + 1]
<1> DEFINE all == Append(g, EOS)
           n == Len(ts)
           u == SubSeq(g, 1, n)
<1>1. g \in Texts /\ Len(g) \in Nat /\ n \in Nat /\ ts \in Seq(Tokens \cup {EOS})
  BY TokensAreBytes, LenProperties DEF Texts
<1>2. /\ all \in Seq(Tokens \cup {EOS}) /\ Len(all) = Len(g) + 1
      /\ all[Len(g) + 1] = EOS /\ \A i \in 1..Len(g) : all[i] = g[i]
  BY <1>1, AppendProperties DEF Texts
<1>11. IsPrefix(ts, all)
  OBVIOUS
<1> HIDE DEF all
<1>3. n <= Len(all) /\ \A i \in 1..n : ts[i] = all[i]
  BY <1>1, <1>2, <1>11, PrefixIs
<1>4. n # Len(g) + 1
  <2> SUFFICES ASSUME n = Len(g) + 1 PROVE FALSE
    OBVIOUS
  <2>1. n \in 1..n
    BY <1>1
  <2>2. ts[n] = EOS
    BY <1>2, <1>3, <2>1
  <2> QED BY <2>1, <2>2 DEF NoEos
<1>5. n \in 0..Len(g)
  <2> HIDE DEF n
  <2> QED BY <1>1, <1>2, <1>3, <1>4
<1>6. u \in Seq(Tokens) /\ Len(u) = n /\ \A i \in 1..n : u[i] = g[i]
  BY <1>5, CutAt
<1> HIDE DEF u
<1>7. u = ts
  <2>1. \A i \in 1..Len(u) : u[i] = ts[i]
    <3> HIDE DEF n
    <3> QED BY <1>1, <1>2, <1>3, <1>5, <1>6
  <2>2. u \in Seq(Tokens \cup {EOS})
    BY <1>6, TokensAreBytes DEF Texts
  <2> QED BY <1>1, <1>6, <2>1, <2>2, SeqEqual
<1>8. BytesOf(ts) = FlattenSeq(ts)
  BY <1>6, <1>7, BytesOfTokens
<1>9. Place(g, n) = Len(BytesOf(ts))
  BY <1>7, <1>8 DEF Place, u
<1>10. all[n + 1] = IF n = Len(g) THEN EOS ELSE g[n + 1]
  <2>1. n # Len(g) => n + 1 \in 1..Len(g)
    <3> HIDE DEF n
    <3> QED BY <1>1, <1>5
  <2> QED BY <1>2, <2>1
<1> QED BY <1>5, <1>7, <1>8, <1>9, <1>10 DEF all, u

(* None of the tokens of a word is masked out where the session has read    *)
(* those before it.                                                         *)
LEMMA CanonicalWhenTold ==
  ASSUME ParserDecides, NeverStuck, BytesAreTokens, LooksBackEnough,
         SessionTold, BiasKept
  PROVE  CanonicalTokenAllowed
<1> SUFFICES ASSUME ~Failed, ~Stopped(session), ~Abandoned, NEW w \in WordsAhead,
                    IsPrefix(session.llm_tokens, Append(GreedyTokenize(w), EOS))
             PROVE  Append(GreedyTokenize(w), EOS)[Len(session.llm_tokens) + 1] \in Mask(session)
  BY DEF CanonicalTokenAllowed, CanonicalIn, Abandoned, Mask
<1> DEFINE p == session
           ts == p.llm_tokens
           text == BytesOf(ts)
           g == GreedyTokenize(w)
           n == Len(ts)
<1>1. p \in FreshSessions /\ Known(p) /\ NoEos(ts)
  BY NotFailedTold DEF Between
<1>2. ts \in Texts /\ text \in Bytes
  BY <1>1, KnownText
<1>3. w \in Bytes /\ Fresh(w).ok /\ IsAccepting(Fresh(w).chart) /\ IsPrefix(text, w)
  <2>1. w \in Words /\ IsPrefix(text, w)
    BY PromiseBytes DEF WordsAhead
  <2> QED BY <2>1 DEF ParserDecides, Bytes
<1>4. Greedily(g, w) /\ FlattenSeq(g) = w /\ g \in Seq(Tokens)
  BY <1>3, GreedyIs, GreedyTyped
<1> HIDE DEF g
<1>5. /\ n \in 0..Len(g) /\ ts = SubSeq(g, 1, n)
      /\ text = FlattenSeq(ts) /\ Place(g, n) = Len(text)
      /\ Append(g, EOS)[n + 1] = IF n = Len(g) THEN EOS ELSE g[n + 1]
  <2>1. IsPrefix(ts, Append(g, EOS))
    BY DEF g
  <2> QED BY <1>1, <1>2, <1>4, <2>1, ReadTokens
<1>6. Mask(p) = WalkedMask(p)
  BY <1>1, MaskServed
<1>7. CASE n = Len(g)
  <2>1. ts = g
    <3>1. SubSeq(g, 1, Len(g)) = g
      BY <1>4, WholeSeq
    <3> QED BY <1>5, <1>7, <3>1
  <2>2. text = w
    BY <1>4, <1>5, <2>1
  <2>3. IsAccepting(Fresh(text).chart)
    BY <1>3, <2>2
  <2>4. EOS \in Mask(p)
    BY <1>1, <1>6, <2>3, EndOfWordAllowed
  <2> QED BY <1>5, <1>7, <2>4 DEF g
<1>8. CASE n # Len(g)
  <2> DEFINE t == g[n + 1]
  <2>1. n + 1 \in 1..Len(g) /\ (n + 1) - 1 = n
    <3>1. Len(g) \in Nat
      BY <1>4, LenProperties
    <3> HIDE DEF n
    <3> QED BY <1>5, <1>8, <3>1
  <2>2. Best(t, From(w, Len(text)))
    <3>1. Best(g[n + 1], From(w, Place(g, (n + 1) - 1)))
      BY <1>4, <2>1 DEF Greedily
    <3> QED BY <1>5, <2>1, <3>1
  <2> HIDE DEF t
  <2>3. t \in Mask(p)
    BY <1>1, <1>3, <1>6, <2>2, NextTokenAllowed
  <2> QED BY <1>5, <1>8, <2>3 DEF g, t
<1> QED BY <1>7, <1>8

(* chop_tokens() masks out no token that a tokenizer would make of a word   *)
(* that continues the session; nor does the bias cache, unless its mask is  *)
(* that of an abandoned text.                                               *)
THEOREM CanonicalTokenNeverMasked ==
  ASSUME Tidy, ParserDecides, NeverStuck, BytesAreTokens, LooksBackEnough
  PROVE  Spec => []CanonicalTokenAllowed
<1>1. SessionTold /\ BiasKept => CanonicalTokenAllowed
  BY CanonicalWhenTold
<1>2. Spec => []SessionTold
  BY AlwaysTold
<1>3. Spec => []BiasKept
  BY AlwaysKept
<1> QED BY <1>1, <1>2, <1>3, PTL
=============================================================================
