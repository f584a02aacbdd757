-------------------------- MODULE MCStopController --------------------------
(***************************************************************************)
(* Stop sequences that overlap themselves, each other and a three-byte     *)
(* character (u v w), with tokens that split both.                         *)
(***************************************************************************)
EXTENDS StopController

MCByte == {"a", "b", "u", "v", "w"}
MCTextOf ==
  [a |-> <<"a">>, b |-> <<"b">>, ab |-> <<"a", "b">>, au |-> <<"a", "u">>,
   vwa |-> <<"v", "w", "a">>, uv |-> <<"u", "v">>, w |-> <<"w">>, special |-> <<"a", "b">>,
   empty |-> <<"b">>, eos |-> <<"a">>]
MCTokens == DOMAIN MCTextOf
MCStopSets ==
  {{}, {<<"a", "a", "b">>, <<"b", "u", "v", "w">>}, {<<"a", "b", "a">>, <<"b", "a">>},
   {<<"u", "v", "w", "a">>, <<"a", "u", "v", "w", "b">>}}
MCCharLen(byte) == CASE byte = "u" -> 3 [] byte \in {"v", "w"} -> 0 [] OTHER -> 1
=============================================================================
