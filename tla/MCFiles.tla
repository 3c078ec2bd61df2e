--------------------------------- MODULE MCFiles ---------------------------------
(***************************************************************************)
(* Files for TLC.  Which bot is which plays no role: Symmetry.             *)
(***************************************************************************)
EXTENDS Files

Symmetry == Permutations(Bot)
===============================================================================
