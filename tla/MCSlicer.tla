------------------------------ MODULE MCSlicer ------------------------------
(***************************************************************************)
(* Small vocabularies over the bytes 1 and 2 with words inside words, the  *)
(* same word twice and a token without text; slices that nest, overlap     *)
(* and coincide; every prefix-closed language of texts of up to MaxDepth   *)
(* bytes, after which everything, or nothing, is allowed.                  *)
(***************************************************************************)
EXTENDS Slicer

Bytes == {1, 2}
Texts(n) == UNION {[1..k -> Bytes] : k \in 0..n}

MCVocabularies ==
  {<< <<1>>, <<1, 2>>, <<2>>, <<>>, <<1, 2, 2>>, <<1, 2>>, <<2, 1, 1>>, <<1, 1>> >>,
   << <<1, 2, 1>>, <<2>>, <<2>>, <<2, 2>>, <<1, 2, 2>>, <<1, 1, 1>> >>}
MCSliceLists ==
  {<<>>,
   << {<<1>>, <<1, 1>>}, {<<1>>, <<1, 1>>, <<1, 1, 1>>, <<1, 2>>} >>,
   << {<<2>>}, {<<1>>}, {<<1>>, <<2>>, <<1, 2>>}, {<<2>>, <<2, 2>>, <<1, 2>>} >>,
   << {<<1, 2>>}, {<<1, 2>>}, {<<2>>, <<1, 1>>} >>}
MCLanguages ==
  {UNION {Prefixes(w) : w \in W} : W \in SUBSET [1..3 -> Bytes]}
MCStarts == {<<>>, <<1>>, <<1, 2>>, <<2, 2>>}
=============================================================================
