------------------------------ MODULE Language ------------------------------
(***************************************************************************)
(* What the lexer and the Earley parser promise together: a byte string is *)
(* accepted byte by byte exactly as long as it begins a word of the        *)
(* grammar, and the parser accepts exactly the words.  The reference is    *)
(* the derivation of words from rules; it knows neither lexer states nor   *)
(* Earley items.                                                           *)
(***************************************************************************)
EXTENDS Words

CONSTANT MaxWord  \* bound: length of the byte strings tried

VARIABLE word  \* the byte string given to the parser, until one is rejected

Init == word = <<>>
Pushed == PushAll(NewChart, word, TRUE, 0)
AppendByte(b) == Len(word) < MaxWord /\ Pushed.ok /\ word' = Append(word, b)
Next == \E b \in Byte : AppendByte(b)
Spec == Init /\ [][Next]_word

(* The bytes allowed after the bytes pushed so far are those that continue  *)
(* them towards a word of the grammar: masks forbid nothing the grammar     *)
(* allows and allow nothing it forbids.                                     *)
AllowsExactlyViablePrefixes ==
  Pushed.ok <=> word \in ViablePrefixes

(* is_accepting() holds exactly at the words of the grammar, with the       *)
(* current lexeme ended where the text ends.                                *)
AcceptsExactlyWords ==
  word # <<>> =>
    ((Pushed.ok /\ IsAccepting(Pushed.chart)) <=> word \in Words)
=============================================================================
