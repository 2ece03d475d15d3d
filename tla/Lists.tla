-------------------------------- MODULE Lists --------------------------------
(****************************************************************************)
(* The list comprehension [x for x in xs if ...] and the ORDER BY id query, *)
(* for a condition given as the set of the elements that meet it: SelectSeq *)
(* as a recursive function, which the proofs can unfold.                    *)
(****************************************************************************)
EXTENDS Integers, Sequences

Kept(seq, S) ==
  LET upTo[n \in 0..Len(seq)] ==
        IF n = 0 THEN <<>>
        ELSE IF seq[n] \in S THEN Append(upTo[n - 1], seq[n]) ELSE upTo[n - 1]
  IN upTo[Len(seq)]
=============================================================================
