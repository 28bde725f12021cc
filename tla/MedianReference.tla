--------------------------- MODULE MedianReference ---------------------------
(***************************************************************************)
(* What a median is, said without sorting: the order statistics of a       *)
(* sequence by counting.  The properties compare the answers the pallet    *)
(* computes with these definitions; nothing here models code.              *)
(***************************************************************************)
EXTENDS Naturals, Sequences, FiniteSets

(* The k-th smallest element of s: fewer than k elements are below it and  *)
(* at least k are not above it.                                            *)
KthSmallest(s, k) ==
    CHOOSE x \in {s[i] : i \in DOMAIN s} :
        /\ Cardinality({i \in DOMAIN s : s[i] < x}) < k
        /\ Cardinality({i \in DOMAIN s : s[i] <= x}) >= k

(* The middle order statistic of an odd number of values; of an even       *)
(* number, half of the sum of the two middle ones in a type whose sums     *)
(* stop at maxValue.                                                       *)
MiddleOrderStatistic(s, maxValue) ==
    LET n  == Len(s)
        lo == KthSmallest(s, n \div 2)
        hi == KthSmallest(s, n \div 2 + 1)
    IN  IF n % 2 = 1 THEN hi
        ELSE (IF lo + hi > maxValue THEN maxValue ELSE lo + hi) \div 2

=============================================================================
