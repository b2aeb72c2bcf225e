------------------------------ MODULE Subsequence ------------------------------
(***************************************************************************)
(* The members of a sequence that are in a set, in their order.  It says   *)
(* what SelectSeq says, with a set for the test and by a function on the   *)
(* places of the sequence, so that facts about it can be proved.           *)
(***************************************************************************)
EXTENDS Naturals, Sequences

Only(s, P) ==
    LET upTo[i \in 0 .. Len(s)] ==
            IF i = 0 THEN <<>>
            ELSE IF s[i] \in P THEN Append(upTo[i - 1], s[i]) ELSE upTo[i - 1]
    IN  upTo[Len(s)]
=============================================================================
