SPECIFICATION Spec
CONSTANTS
    ValueMax = 3
    MaxLen = 4
INVARIANT MedianIsMiddleOrderStatistic
