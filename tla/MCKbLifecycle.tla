--------------------------- MODULE MCKbLifecycle ---------------------------
(***************************************************************************)
(* KbLifecycle with interchangeable requests.                              *)
(***************************************************************************)
EXTENDS KbLifecycle, TLC

Symmetry == Permutations(Req)
=============================================================================
