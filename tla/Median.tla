------------------------------- MODULE Median -------------------------------
(***************************************************************************)
(* The quorum aggregator of the Chainlink feed pallet: `median` reduces    *)
(* the submissions of a round to its answer.                               *)
(*                                                                         *)
(* The pallet is generic in the value type (`T::Value: BaseArithmetic`);   *)
(* the largest value of that type is the parameter `maxValue` of the       *)
(* operators, so that the saturation of `saturating_add` is modelled at    *)
(* whatever width a model gives the type.                                  *)
(***************************************************************************)
EXTENDS Naturals, Sequences, TLC

(* `a.saturating_add(b)` of a type whose largest value is maxValue. *)
SaturatingAdd(a, b, maxValue) ==
    IF a + b > maxValue THEN maxValue ELSE a + b

(* `numbers.sort_unstable()`: ascending.  The sort is in place, so the    *)
(* caller's vector is left sorted.                                         *)
SortUnstable(numbers) == SortSeq(numbers, <)

(* A median that takes the element below the middle of an odd-length     *)
(* slice: the index arithmetic of the code with the 0-based / 1-based      *)
(* shift forgotten.                                                        *)
MedianOfSortedLowerMiddle(sorted, maxValue) ==
    LET mid == Len(sorted) \div 2
    IN  IF Len(sorted) % 2 = 0
        THEN SaturatingAdd(sorted[mid], sorted[mid + 1], maxValue) \div 2
        ELSE sorted[IF mid = 0 THEN 1 ELSE mid]

(* The value `median` returns for an already sorted slice.  `mid` is the   *)
(* 0-based index of the code; sequences here are 1-based.  For the empty   *)
(* slice the code indexes numbers[mid - 1] with mid = 0 and panics: the    *)
(* operator is undefined there and callers never pass one.                 *)
MedianOfSorted(sorted, maxValue) ==
    LET mid == Len(sorted) \div 2
    IN  IF Len(sorted) % 2 = 0
        THEN SaturatingAdd(sorted[mid], sorted[mid + 1], maxValue) \div 2
        ELSE sorted[mid + 1]

(* `median(&mut numbers)`. *)
Median(numbers, maxValue) == MedianOfSorted(SortUnstable(numbers), maxValue)

=============================================================================
