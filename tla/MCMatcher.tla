----------------------------- MODULE MCMatcher ------------------------------
(***************************************************************************)
(* Token vocabularies for Matcher, and the batches a client passes.        *)
(***************************************************************************)
EXTENDS Matcher, MCGrammars

KeyTokens == {<<"a">>, <<"b">>, <<"x">>, <<";">>,
              <<"a", "b">>, <<"b", "x">>, <<"x", ";">>}

(* Two tokens at most; an end of sequence is the last of its batch.         *)
TidyBatches == {<<>>} \cup {<<t>> : t \in Tokens \cup {EOS}}
                 \cup {<<<<"b">>, <<"x", ";">>>>, <<<<"a">>, <<"b">>>>, <<<<";">>, EOS>>}

(* The hypotheses of the proof that the promise is kept hold here.          *)
ASSUME ParserDecides /\ NeverStuck /\ BytesAreTokens /\ LooksBackEnough /\ EmptyMaskIsRight
=============================================================================
