------------------------------- MODULE Filters ------------------------------
(***************************************************************************)
(* Array.prototype.filter: the elements of a sequence that are in a set, in *)
(* their order.  The standard SelectSeq says the same, but takes a test in  *)
(* place of a set, which puts it out of reach of proofs.                    *)
(***************************************************************************)
EXTENDS Naturals, Sequences, SequencesExt

Only(s, S) ==
    LET kept[i \in 0 .. Len(s)] ==
            IF i = 0 THEN <<>>
            ELSE IF s[i] \in S THEN Append(kept[i - 1], s[i]) ELSE kept[i - 1]
    IN  kept[Len(s)]
=============================================================================
