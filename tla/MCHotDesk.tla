------------------------------ MODULE MCHotDesk ------------------------------
(***************************************************************************)
(* TLC instance of HotDesk: tokens and connections are interchangeable.    *)
(***************************************************************************)
EXTENDS HotDesk, TLC

Symmetry == Permutations(Tokens) \cup Permutations(Conns)
=============================================================================
