----------------------------- MODULE MCWebConn -----------------------------
(* Small instances of WebConn for TLC. *)
EXTENDS WebConn, TLC

MCSymmetry == Permutations(Chains)
=============================================================================
