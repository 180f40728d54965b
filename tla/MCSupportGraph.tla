--------------------------- MODULE MCSupportGraph ---------------------------
(***************************************************************************)
(* Small instances of SupportGraph for TLC.                                *)
(***************************************************************************)
EXTENDS SupportGraph

\* No file, as many files as the policy accepts, one more.
MCFileCounts == {0, 1, 2}

\* None claimed, just below the threshold, at the threshold.
MCConfidences == {0, 59, 60}
=============================================================================
