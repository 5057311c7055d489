----------------------------- MODULE Selection -----------------------------
(***************************************************************************)
(* SelectSeq with a set for its test, and as a recursive function: the     *)
(* prover knows nothing of SelectSeq and cannot expand its definition.     *)
(***************************************************************************)
EXTENDS Integers, Sequences

\* The elements of s that belong to S, in their order.
Kept(s, S) ==
    LET kept[n \in 0 .. Len(s)] ==
            IF n = 0 THEN <<>>
            ELSE IF s[n] \in S THEN Append(kept[n - 1], s[n]) ELSE kept[n - 1]
    IN  kept[Len(s)]
=============================================================================
