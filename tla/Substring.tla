----------------------------- MODULE Substring ------------------------------
(***************************************************************************)
(* The expression for the substrings of a text (parser/src/substring.rs):  *)
(* the suffix automaton of its chunks.  State 1 is the initial one, a link *)
(* of 0 is none.                                                           *)
(***************************************************************************)
EXTENDS Integers, Sequences, SequencesExt, TLC

NewState(len, link, next) == [len |-> len, link |-> link, next |-> next]
NewAutomaton == [states |-> <<NewState(0, 0, <<>>)>>, last |-> 1]
(* A state and those its links lead to.                                     *)
RECURSIVE LinkChain(_, _)
LinkChain(states, p) == IF p = 0 THEN <<>> ELSE <<p>> \o LinkChain(states, states[p].link)
WithNext(states, ps, s, target) ==
  FoldLeft(LAMBDA acc, p : [acc EXCEPT ![p].next = (s :> target) @@ @], states, ps)
(* The states of ps up to, but without, the first of stops.                 *)
RECURSIVE UpToFirst(_, _)
UpToFirst(ps, stops) ==
  IF ps = <<>> THEN <<>>
  ELSE IF ps[1] \in stops THEN <<>> ELSE <<ps[1]>> \o UpToFirst(Tail(ps), stops)

(* One more chunk: the suffixes that could not go on with it now do; if the *)
(* state the others go to stands for longer texts too, it is split.         *)
extend(sa, s) ==
  LET cur == Len(sa.states) + 1
      clone == cur + 1
      chain == LinkChain(sa.states, sa.last)
      have == {p \in Range(chain) : s \in DOMAIN sa.states[p].next}
      fresh == UpToFirst(chain, have)
      extended == WithNext(Append(sa.states, NewState(sa.states[sa.last].len + 1, 0, <<>>)), fresh, s, cur)
      rest == SubSeq(chain, Len(fresh) + 1, Len(chain))
      q == extended[rest[1]].next[s]
      len == extended[rest[1]].len + 1
      moved == UpToFirst(rest, {p \in Range(rest) : extended[p].next[s] # q})
      split == WithNext(Append(extended, NewState(len, extended[q].link, extended[q].next)), moved, s, clone)
      states ==
        IF rest = <<>> THEN [extended EXCEPT ![cur].link = 1]
        ELSE IF len = extended[q].len THEN [extended EXCEPT ![cur].link = q]
        ELSE [split EXCEPT ![q].link = clone, ![cur].link = clone]
  IN  [states |-> states, last |-> cur]

(* What the expression made of a state matches: the chunks along a path, as *)
(* far as one likes.                                                        *)
RECURSIVE StateTexts(_, _)
StateTexts(states, p) ==
  {<<>>} \cup UNION {{s \o t : t \in StateTexts(states, states[p].next[s])} : s \in DOMAIN states[p].next}
substring(chunks) == StateTexts(FoldLeft(extend, NewAutomaton, chunks).states, 1)

(* The chunks of a text: its characters, or its longest runs of blanks, of  *)
(* letters and of other characters.                                         *)
chunk_into_chars(text) == [i \in DOMAIN text |-> <<text[i]>>]
classify(ch) == IF ch = " " THEN "whitespace" ELSE IF ch = "." THEN "other" ELSE "word"
chunk_into_words(text) ==
  LET Starts(i) == IF i = 1 THEN TRUE ELSE classify(text[i - 1]) # classify(text[i])
      starts == SelectSeq([i \in DOMAIN text |-> i], Starts)
  IN  [k \in DOMAIN starts |->
         SubSeq(text, starts[k], IF k = Len(starts) THEN Len(text) ELSE starts[k + 1] - 1)]
=============================================================================
