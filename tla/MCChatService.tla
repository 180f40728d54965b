---------------------------- MODULE MCChatService ----------------------------
(***************************************************************************)
(* Small instances of ChatService for TLC.                                 *)
(***************************************************************************)
EXTENDS ChatService, TLC

Symmetry == Permutations(Request)
=============================================================================
