------------------------------ MODULE Session -------------------------------
(***************************************************************************)
(* What a Matcher promises its client, in terms of the words of the        *)
(* grammar: a session is a text of tokens that grows by tokens the grammar *)
(* allows, is done when it is a word that cannot grow or that EOS ended,   *)
(* loses its last tokens on a rollback, and fails for good on a call the   *)
(* interface does not allow.  Nothing is said about charts or caches.      *)
(***************************************************************************)
EXTENDS Integers, SequencesExt

CONSTANTS
  Words,          \* the words of the grammar, as sequences of bytes
  ViablePrefixes, \* what they begin with
  Tokens,         \* the tokens, as sequences of bytes
  EOS,            \* the end-of-sequence token
  MaxTokensTotal  \* the max_tokens of the grammar

VARIABLES
  text,   \* the tokens of the session
  status, \* "running", "done" or "failed"
  reply   \* the last call with its arguments, and its result

sessionVars == <<text, status, reply>>

Reply(call, tokens, n, result) ==
  [call |-> call, tokens |-> tokens, n |-> n, result |-> result]
Failure == -1

BytesOf(ts) == FlattenSeq([i \in 1..Len(ts) |-> IF ts[i] = EOS THEN <<>> ELSE ts[i]])
Extensible(bs) == \E w \in Words : IsStrictPrefix(bs, w)

(* May token t follow the tokens ts?  Is a text at its end?                 *)
May(ts, t) == IF t = EOS THEN BytesOf(ts) \in Words
                         ELSE BytesOf(ts) \o t \in ViablePrefixes
EndsInEos(ts) == ts # <<>> /\ Last(ts) = EOS
Finished(ts) == BytesOf(ts) \in Words /\ (EndsInEos(ts) \/ ~Extensible(BytesOf(ts)))

Grow(new) ==
  /\ text' = text \o new
  /\ status' = IF Finished(text') THEN "done" ELSE "running"
FailForGood == text' = <<>> /\ status' = "failed"
Stay == UNCHANGED <<text, status>>

Init ==
  /\ text = <<>> /\ status = "running"
  /\ reply = Reply("new", <<>>, 0, 0)

(* No tokens are consumed in any session that has not failed; they only     *)
(* have it looked at whether the text is finished.                          *)
ConsumeTokens(new) ==
  LET fine == /\ status = "running" \/ (status = "done" /\ new = <<>>)
              /\ Len(text) + Len(new) <= MaxTokensTotal
              /\ \A i \in 1..Len(new) : May(text \o SubSeq(new, 1, i - 1), new[i])
  IN  /\ IF fine THEN Grow(new) ELSE FailForGood
      /\ reply' = Reply("consume", new, 0, IF fine THEN 0 ELSE Failure)

(* As many tokens as the grammar allows; the budget is no reason to stop    *)
(* early but an error.                                                      *)
TryConsumeTokens(new) ==
  LET before(i) == text \o SubSeq(new, 1, i - 1)
      good(i) == /\ i > 1 => ~Finished(before(i))
                 /\ May(before(i), new[i])
      k == CHOOSE n \in 0..Len(new) :
             /\ \A i \in 1..n : good(i)
             /\ n < Len(new) => ~good(n + 1)
      fine == status # "failed" /\ (status = "done" \/ Len(text) + k <= MaxTokensTotal)
      count == IF status = "done" THEN 0 ELSE k
  IN  /\ IF ~fine THEN FailForGood
         ELSE IF count = 0 THEN Stay ELSE Grow(SubSeq(new, 1, count))
      /\ reply' = Reply("try", new, 0, IF fine THEN count ELSE Failure)

Rollback(n) ==
  LET fine == status # "failed" /\ n <= Len(text) IN
  /\ IF ~fine THEN FailForGood
     ELSE IF n = 0 THEN Stay
     ELSE text' = SubSeq(text, 1, Len(text) - n) /\ status' = "running"
  /\ reply' = Reply("rollback", <<>>, n, IF fine THEN 0 ELSE Failure)

(* A mask can be asked for only while the session runs.                     *)
ComputeMask ==
  /\ IF status = "running" THEN Stay ELSE FailForGood
  /\ reply' = Reply("mask", <<>>, 0, IF status = "running" THEN 0 ELSE Failure)

(* The other calls can be made at any time and change nothing; after a      *)
(* failure there is just nothing that is forced.                            *)
IsAccepting01 == IF BytesOf(text) \in Words THEN 1 ELSE 0
Query(call) ==
  /\ Stay
  /\ reply' = Reply(call, <<>>, 0,
                    IF status = "failed" /\ call \notin {"force", "invalidate"} THEN Failure
                    ELSE IF call = "accepting" THEN IsAccepting01 ELSE 0)

(* A client passes any tokens, and the reply names them.                    *)
Passed == {reply'.tokens} \cap Seq(Tokens \cup {EOS})
Next ==
  \/ \E new \in Passed : ConsumeTokens(new) \/ TryConsumeTokens(new)
  \/ \E n \in 0..MaxTokensTotal + 1 : Rollback(n)
  \/ ComputeMask
  \/ \E call \in {"mask_or_eos", "accepting", "force", "invalidate"} : Query(call)

Spec == Init /\ [][Next]_sessionVars
=============================================================================
