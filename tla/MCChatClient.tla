---------------------------- MODULE MCChatClient ----------------------------
(***************************************************************************)
(* Small instances of ChatClient for TLC.                                  *)
(***************************************************************************)
EXTENDS ChatClient

\* Files and other tabs have nothing to do with each other: either what another
\* tab does, and a second load, or up to two files.
MCTogether == ({1, 2} \X {0} \X {0, 1}) \cup ({1} \X {1, 2} \X {0})
=============================================================================
