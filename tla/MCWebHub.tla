------------------------------ MODULE MCWebHub ------------------------------
(* Small instances of WebHub for TLC. *)
EXTENDS WebHub, TLC

MCSymmetry == Permutations(Conns) \cup Permutations(Users)
=============================================================================
