--------------------------- MODULE MCAdminConsole ---------------------------
(***************************************************************************)
(* AdminConsole with interchangeable documents and operations.             *)
(***************************************************************************)
EXTENDS AdminConsole, TLC

Symmetry == Permutations(Doc) \cup Permutations(Op)
=============================================================================
