------------------------------- MODULE Loops --------------------------------
EXTENDS Integers, Sequences

(* The elements of a sequence that are in a set, and the sum of a sequence  *)
(* of numbers.                                                              *)
Among(seq, S) ==
    LET upTo[i \in 0..Len(seq)] ==
          IF i = 0 THEN <<>> ELSE IF seq[i] \in S THEN Append(upTo[i - 1], seq[i]) ELSE upTo[i - 1]
    IN  upTo[Len(seq)]
SumSeq(seq) ==
    LET upTo[i \in 0..Len(seq)] == IF i = 0 THEN 0 ELSE upTo[i - 1] + seq[i]
    IN  upTo[Len(seq)]

The(S) == CHOOSE r \in S : TRUE
=============================================================================
