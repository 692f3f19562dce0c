--------------------------- MODULE SequenceFunctions ---------------------------
(***************************************************************************)
(* Sums and selections over sequences, as recursive functions: the folds   *)
(* and SelectSeq take operators, about which the provers cannot reason.    *)
(***************************************************************************)
EXTENDS Integers, Sequences

\* The sums of the first 0, 1, 2 ... numbers of a sequence.
PrefixSums(numbers) ==
    LET sum[k \in 0..Len(numbers)] == IF k = 0 THEN 0 ELSE sum[k - 1] + numbers[k]
    IN sum

Total(numbers) == PrefixSums(numbers)[Len(numbers)]

\* What the first 0, 1, 2 ... elements of a sequence have in a set, in order.
Selections(s, set) ==
    LET selected[k \in 0..Len(s)] ==
            IF k = 0 THEN <<>>
            ELSE IF s[k] \in set THEN Append(selected[k - 1], s[k]) ELSE selected[k - 1]
    IN selected

Selected(s, set) == Selections(s, set)[Len(s)]

=============================================================================
