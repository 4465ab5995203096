---------------------------- MODULE MCTokenInfo ----------------------------
(***************************************************************************)
(* The decision on new pools of a new token and SOL, for TLC, with what    *)
(* the program is told of the tokens.                                      *)
(***************************************************************************)
EXTENDS TokenInfo

SolPools == {<<"sol", "x">>}
=============================================================================
