------------------------------ MODULE MCStats -------------------------------
(* Values for the constants of Stats. *)
EXTENDS Stats, TLC

CONSTANTS f1, f2

FlusherSymmetry == Permutations({f1, f2})
=============================================================================
