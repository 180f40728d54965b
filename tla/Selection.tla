----------------------------- MODULE Selection -----------------------------
(***************************************************************************)
(* A query over rows: those of a sequence that belong to a set, in their   *)
(* order.  SelectSeq with a set for a test, so that one can state in first *)
(* order what it does (SelectionProofs).                                   *)
(***************************************************************************)
EXTENDS Naturals, Sequences

Select(s, keep) ==
    LET upTo[i \in 0..Len(s)] ==
            IF i = 0 THEN <<>>
            ELSE IF s[i] \in keep THEN Append(upTo[i - 1], s[i])
            ELSE upTo[i - 1]
    IN  upTo[Len(s)]
=============================================================================
