--------------------------- MODULE MCZammadClient ---------------------------
(***************************************************************************)
(* Small instances of ZammadClient for TLC.                                *)
(***************************************************************************)
EXTENDS ZammadClient, TLC

Symmetry == Permutations(Call)
=============================================================================
