-------------------------------- MODULE Sums --------------------------------
(***************************************************************************)
(* Sums along a sequence, as a recursive function: the folds of the        *)
(* community modules are beyond the provers.                               *)
(***************************************************************************)
EXTENDS Integers, Sequences

\* The sums of the first 0, 1, 2, ... numbers of a sequence.
PrefixSums(s) ==
    LET sum[k \in 0 .. Len(s)] == IF k = 0 THEN 0 ELSE sum[k - 1] + s[k]
    IN  sum

SumOf(s) == PrefixSums(s)[Len(s)]
=============================================================================
