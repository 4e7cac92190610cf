------------------------------ MODULE Selection ------------------------------
(***************************************************************************)
(* SelectSeq, with a set in the place of a test: an operator that takes an *)
(* operator is beyond the provers.                                         *)
(***************************************************************************)
EXTENDS Naturals, Sequences

\* The elements of s that are in S, in their order.
Selected(s, S) ==
  LET upto[n \in 0..Len(s)] == IF n = 0 THEN <<>>
                               ELSE IF s[n] \in S THEN Append(upto[n - 1], s[n])
                               ELSE upto[n - 1]
  IN upto[Len(s)]
=============================================================================
