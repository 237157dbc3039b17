-------------------------- MODULE MCSessionRegistry --------------------------
(***************************************************************************)
(* TLC instance of SessionRegistry: tokens are interchangeable.            *)
(***************************************************************************)
EXTENDS SessionRegistry, TLC

TokenSymmetry == Permutations(Tokens)
=============================================================================
