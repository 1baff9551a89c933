------------------------------- MODULE Lists -------------------------------
(***************************************************************************)
(* Array.filter, as a function that recurs over the list: what it returns  *)
(* can then be proved as well as evaluated.                                *)
(***************************************************************************)
EXTENDS Naturals, Sequences

\* The entries of the list that are wanted, in their order.
Kept(seq, wanted) ==
  LET pick[n \in 0..Len(seq)] ==
        IF n = 0 THEN <<>>
        ELSE IF seq[n] \in wanted THEN Append(pick[n - 1], seq[n]) ELSE pick[n - 1]
  IN  pick[Len(seq)]
=============================================================================
