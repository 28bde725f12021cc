------------------------------ MODULE MCMedian ------------------------------
(***************************************************************************)
(* Checks `median` against the definition of a median by order statistics  *)
(* on every sequence of at most MaxLen values of a value type whose        *)
(* largest value is ValueMax.  The sequences are built one submission at a *)
(* time, the way a round collects them.                                    *)
(***************************************************************************)
EXTENDS Median, MedianReference

CONSTANTS
    ValueMax,   \* the largest value of the value type
    MaxLen      \* bound on the number of submissions

ASSUME ValueMax \in Nat /\ MaxLen \in Nat \ {0}

VARIABLE numbers    \* the submissions so far, in order of arrival

Values == 0..ValueMax

Init == numbers = <<>>

Push(v) ==
    /\ Len(numbers) < MaxLen
    /\ numbers' = Append(numbers, v)

(* A new round starts with `submissions: Vec::new()`. *)
NewRound ==
    /\ numbers # <<>>
    /\ numbers' = <<>>

Next ==
    \/ \E v \in Values : Push(v)
    \/ NewRound

Spec == Init /\ [][Next]_numbers

-----------------------------------------------------------------------------
TypeOK == numbers \in Seq(Values) /\ Len(numbers) <= MaxLen

(* median() of the code returns the middle order statistic of an odd      *)
(* number of submissions, and of an even number the half of the sum of the *)
(* two middle ones, the sum clamped to the largest value of the type; it   *)
(* does so whatever the order of arrival (it sorts first).                 *)
MedianIsMiddleOrderStatistic ==
    numbers # <<>> =>
        Median(numbers, ValueMax) = MiddleOrderStatistic(numbers, ValueMax)

=============================================================================
